# BBI in TLA+

BBI is a homebrew program for the Switch. It shows itself to a PC as an MTP
device with two storages: the SD card, and a virtual folder "install". A game
file (NSP, NSZ, XCI, XCZ) copied into that folder is installed while it
arrives: nothing is stored in between, so an install works on a byte stream
that only goes forward, on several threads, against the console's content
services. This directory holds the specifications of that path, the model
checking runs, and the proofs.

Source references are to the repository; `yati.cpp` is
`install_core/source/yati/yati.cpp`.

## 1. The system

| Component | State | Operations | Interacts with |
|---|---|---|---|
| `InstallStream` (`source/install_stream.cpp`) | `m_buffer`, `m_active`, a mutex, two condition variables | `Push`, `ReadChunk`, `Disable` | MTP thread pushes, install thread reads; both disable |
| `Stream::Read` (`yati/source/stream.cpp`) | `m_offset` | `Read(off, size)`: skip forward, read exactly | called by the yati threads, calls `ReadChunk` |
| `FsInstall` (`source/main.cpp`) | `g_install_ctx` (stream, thread, in_progress, result), `m_entries` | `CreateFile`, `OpenFile`, `WriteFile`, `CloseFile`, directory calls, destructor | called by libhaze's thread, starts and joins the install thread |
| NCA transfer pipeline (`yati.cpp`: `ThreadData`, `InstallNcaInternal`) | two rings of four buffers, two mutexes, four condition variables, offsets, results, running flags | three thread functions, coordinator | reads from the source, writes a placeholder |
| NCZ decompression (`yati.cpp`, `nx/ncz.hpp`) | block and section tables, inflate buffer, `written`, key stream | `decompressFuncInternal`, `ncz_flush` | inside the decompress thread |
| Install transaction (`yati.cpp`: `InstallInternal`, `InstallInternalStream`) | placeholders, tickets, cnmt and nca lists, databases | install, decide, import, remove, register, push | ncm, es and ns services |
| Install from a stream (`yati.cpp`: `InstallFromSource`, `Setup`, `InstallInternalStream`) | the container, the entries in the order of their offsets, tickets, service sessions | dispatch on the extension, set up, parse tickets, take the entries | containers, services, the stream |
| Containers (`container/nsp.cpp`, `xci.cpp`) | none | `GetCollections`, `Nsp::Build` | read the source, give the entries |
| Service guards (`nx/service_guard.h`) | a reference count and a mutex per service | `Initialize`, `Exit` | `Setup`, `parse_keys`, `~Yati` |
| Keys, NCA headers, tickets (`nx/keys.cpp`, `nca.cpp`, `es.cpp`, `crypto.hpp`) | the keys of one install | `parse_keys`, `DecryptKeak`, `EncryptKeak`, `VerifyFixedKey`, `GetTitleKey`, `PatchTicket` | called for each NCA and ticket |
| `FsSdmc`/`FsNative`, `fs.cpp` | none of their own | pass file calls on | fs service |
| Main loop, event queue, log | `g_callback_data`, a log file | print | user |

What is hard in it: a producer and a consumer with timed waits on a full and an
empty queue; a reader that must get exactly what it asks for from packets of
any size; installs that start while another runs, that are closed before the
file is complete, or that are destroyed with the program; three threads chained
by two rings, any of which may fail while the others sleep; formats whose
blocks, buffers and flushes do not line up; containers whose tables are not in
the order of their data, read from a source that cannot go back; keys that are
counted differently in each place they are used; and a transaction over
services without a transaction, which may lose power between any two calls.
`PROJECT.json` lists these hazards at their lines, with the properties that
would catch each.

## 2. The modules

| Module | Models | Extends |
|---|---|---|
| `ByteStream` | what a byte stream promises: bytes come out in order, an end only after the last | |
| `InstallStream` | the queue between the MTP and the install thread; refines `ByteStream` | |
| `MtpInstall` | `FsInstall`, `Stream::Read` and the install thread, over `InstallStream` | `InstallStream` |
| `RingBuf` | `RingBuf<Size>` | |
| `TransferPipeline` | the three threads of one NCA and their coordinator | `RingBuf` |
| `NczBlocks` | blocks, buffers, flushes and sections of an NCZ | |
| `NcmInstall` | the install transaction, both modes, with failures and power losses | |
| `InstallFolder` | `m_entries`: names, sizes, the open file and the directory being read | |
| `Containers` | PFS0 and HFS0 headers, `Nsp::Build` and `GetCollections`, as operators | |
| `InstallSession` | an install from its file name to its last entry: container, `Setup`, service guards, entries, early returns | `InstallFolder`, `Containers` |
| `TitleKeys` | `prod.keys`, NCA headers and tickets of a title, through installs of any configuration | |
| `InstallStreamProofs` | theorems about `InstallStream` | `InstallStream`, `TLAPS` |
| `MtpInstallProofs` | theorems about `MtpInstall` | `MtpInstall`, `InstallStreamProofs` |
| `DataInduction` | induction for sets of naturals, for use by the proofs | `TLAPS` |
| `TransferPipelineProofs` | theorems about `RingBuf` and `TransferPipeline` | `TransferPipeline`, `DataInduction` |
| `NczBlocksProofs` | theorems about `NczBlocks` | `NczBlocks`, `DataInduction` |
| `InstallSessionProofs` | theorems about `InstallFolder`, `Containers` and `InstallSession` | `InstallSession`, `DataInduction` |
| `NcmInstallProofs` | theorems about `NcmInstall` | `NcmInstall`, `DataInduction` |
| `TitleKeysProofs` | theorems about `TitleKeys` | `TitleKeys`, `DataInduction` |
| `MC...` | small instances for TLC | the module they name |

Each module with mutants in it marks them "Seeded fault": such an operator is a
changed copy of the next definition, used only to see that the property it is
paired with in `PROJECT.json` does fail when the code is wrong in that way. A
section "What the theorems assume" has the hypotheses of the theorems; the `MC`
module assumes them of its instance, so that TLC says whether it has them.

### InstallStream

All three methods hold `m_mutex` from their first test to their return and give
it up only inside `condvarWaitTimeout`. One critical section is therefore one
action, and a waiting thread is in one of the places `wait`, `signalled`
(woken, mutex not yet taken) and `timedout` (the timer ended the wait, mutex
not yet taken). The two last places are what makes the stream interesting:
anything may happen between the wake-up and the lock. There is one reader and
one writer, so `condvarWakeOne` always wakes the one waiter. Bytes are their
positions in the file. `Next` also lets the host stop sending at any point, and
the install thread stop reading at any point.

The run `install_stream` checks types, order, conservation, lost wake-ups, the
meaning of the end, the refinement `PipeSpec` of `ByteStream`, and that both
calls return.

### MtpInstall

`MtpInstall` extends `InstallStream` and takes its actions as conjuncts. The
MTP thread handles one request at a time (libhaze is not in the repository; it
is assumed to call `FsInstall` from one thread). `hpc` says whether it is
between requests, in one of the two joins of `WaitForInstallThread`, or has
been replaced by the main thread, which destroys `FsInstall`. The install
thread calls `Stream::Read(off, size)` for any off and size within the file
(`BeginRead`), once per read of the container, of a ticket or of a buffer; a
`Read` is a loop of `ReadNext` and `ReadReturned`, with the gap skipped in
pieces of at most `SkipChunk`. In the program these reads are made by yati's
own read thread and by the install thread in turn, never at once, so one
process stands for both.

A `Read` at the end of a stream that is inactive loops for ever, as the code
does: `ReadNext` and `ReadReturned` go round with an empty chunk. That is why
`WholeFileJoinReturns` has the hypothesis that the whole file was sent.

### RingBuf and TransferPipeline

The threads are linked by "in" (read to decompress) and "out" (decompress to
write). `SetDecompressBuf` and `SetWriteBuf` are `Put` on a link,
`GetDecompressBuf` and `GetWriteBuf` are `Get`; the running flag each looks at
is `PutWatch` and `GetWatch`, taken from the code as it is (not always the
neighbour's flag). The early successes that return with the mutex locked leave
it locked here, too: `mutex[l]` stays with the thread, and later calls block.
Falling asleep is a step of its own after the flag was tested, so a wake-up
may come between only when the code lets it. `WakeAllThreads` unlocks mutexes
its thread does not own; libnx leaves that undefined, and here each is freed or
not. The cancel event and `ShouldExitResult` never fire in the program.

Buffers hold units: an NCZ buffer inflates to the units it adds up to, a plain
one is passed on. `NczBlocks` has that arithmetic in detail.

A file says with `faults` what may fail: nothing, or any call of each thread
and the start of a thread. The run `transfer` has files of both kinds. With
the good ones nothing is lost between any two places, rings stay in bounds and
the coordinator returns with the whole NCA written (`PipelineReturns` is about
them); with the others the placeholder still holds a correct beginning of the
NCA. "ok" means that the whole NCA is there if no thread failed
(`OkMeansComplete`); if one did, "ok" may still be reported with data missing,
when the decompress thread fails after the results were looked at (finding 2).
Failed threads may hang (section 5), so deadlock is not checked. `transfer_hang` shows that hang.

### NczBlocks

The threads are collapsed: buffers arrive in order, and what is checked is how
the block table, the spans of a buffer, the inflate buffer, the flush and the
sections work together. One compressed unit gives a fixed share of its block's
units; stored units are themselves; the copy of a compressed unit is garbage;
the decoder refuses stored data. An output unit carries the section and the
counter it was encrypted with. zstd and AES-CTR themselves are external: a call
of the decoder that took its input is assumed to have given all it inflates to.

### NcmInstall

Every call to ncm, es or ns that changes something is a step; before each the
call may fail (`CallFails`, after which `R_TRY` unwinds to the cleanup) or the
power may go (`Crash`), which keeps contents and placeholders and reverts the
meta database to its last commit, or not, if only the process died. One call
fails without unwinding: the first List of each database in `GetLatestVersion`
stands in an `if (R_SUCCEEDED(...))` with nothing for the other case
(`yati.cpp:1183`). `Decide` therefore takes any set `lost` of storages it
does not see (`Listed`), each counted as a fault, and `unlisted` records which
storages were lost for which key; it is a history variable that no guard reads.
What the code cannot promise of such a storage is what the properties except
by it: `NoDowngrade` holds of the storages that could be listed, and the launch
version in `IsInstalled` is not below the patches of those. A package
is a list of entries; a cnmt carries its key and infos. Stream mode installs
all entries in the order of their offsets and then decides cnmt by cnmt; file
mode (`InstallFromFile`, an API the app itself does not call) decides first and
skips NCAs that are there. `std::ranges::sort` promises nothing about equal
elements, so `Sorted` is the set of the orders it may leave, and `Begin` and
`ParseCnmt` take any of them; entries that are picked out of a list keep their
order (`Kept`). Assumed: the contents of two cnmts of one package
are distinct; the destination is the SD card (the default of
`sd_card_install`); deleting a placeholder does not fail in effect; the
services keep uncommitted database changes in memory when a client dies.
Hashes and required-version fields are data without influence on the order of
calls and are left out; so is the patching of tickets and headers, which is
`TitleKeys`.

### InstallFolder, Containers and InstallSession

`InstallFolder` is the list of entries. A name is a record of stem, suffixes,
extension and case; `WithSuffix` is the `snprintf` into 300 characters, which
cuts a long name. `SameName` is `strcasecmp`. `ReadDirectory` gives at most
the entries asked for and moves `object_id` on; what it has returned is kept in
`dir.listed`, and `FolderInv` compares it with the entries. Names, sizes and
directory reads are the host's.

`Containers` has no state. An image is a set of places where a header stands,
and what the data behind it is; `EntriesAt` is the reading of one partition,
`SecureOffset` the search of an XCI for "secure", `BuildHeader` what
`Nsp::Build` writes. The images of the instance state on their own where the
data is: `ReadsItsData` compares the two.

`InstallSession` composes them with the install: `OpenFile` hands the path to
`InstallFromSource`, which picks the container by extension; `GetCollections`
reads its headers; `Setup` makes its calls in order (`SetupCalls`), each of
which may fail; `parse_keys` leaves its own references on every way out;
`ParseTickets` prepares the entries, which it leaves in any order by offset that
a sort may give them (`OffsetOrders`), and which are then taken one by one; every early return goes through `~Yati` (`DestroyYati`). The guard's
counts are `refCount`, what is connected is `connected`. A read succeeds or
fails as a whole: how its bytes arrive is `MtpInstall`.

### TitleKeys

`TitleKeys` follows the key of each content from the header and the ticket in
the package to what is on the console. A cipher is a term: a name under layers,
of which a decryption takes off the last if its key is the right one and adds
one otherwise. So a wrong key, a wrong generation or a step left out shows as a
term that is not the plain key. `keyFile` is the list of lines of `prod.keys`;
`ParseKeys` is what is found of it, `FixKey` the shift by one. `NewHeader` is
what `decompressFuncInternal` does to the header: a NCA is left, made a system
NCA, converted to standard crypto or lowered, as `config` says. Contents are
registered one by one and an install may be cut short anywhere
(`Interrupt`), so that a later one, under another configuration, finds some of
the contents there, converted or not, and skips or replaces them. At the end
stands what the console makes of it (`ConsoleKey`), modelled from the format:
the key area under the master key of the generation, or the imported ticket.

A line of `prod.keys` gives a right key, a wrong one or zeros. Zeros are as good
as no line (`KeyEntry::IsValid`); a wrong key is used as if it were right
(`keys.cpp:42`, `keys.hpp:13`), so an entry of `keys.found` says whether it is
right, and what is decrypted or encrypted with a wrong one has a layer that
never comes off. `DecryptKeak` uses the file only when spl gives no key, because
the firmware is too old or the call fails (`spl` in `InstallNca`,
`nca.cpp:104`). `misled` is a history variable: the contents into which a wrong
key of the file went (`Misleads`). Only the device key is checked by the
code (`ParseKeysResult`); of the others a wrong one shows, if at all,
when `ParseCnmt` mounts the cnmt NCA, which is written like any other
(`MountChecks`).

## 3. Runs

| Run | Bounds | States | Shows |
|---|---|---|---|
| `install_stream` | buffer 2, 2 timeouts, file 6, packets and reads up to 2 | 4 287 | in order, nothing lost, every sleeper woken, both calls return, a refinement of `ByteStream` |
| `mtp_install` | two files of 3 bytes, buffer 2, reads up to 3, skip 1, 2 timeouts | 23 780 | threads and streams stay matched, reads are exact, `CloseFile` reports its own install; joins return |
| `mtp_truncated` | same | | finding 1 |
| `transfer` | rings of 2; without faults a plain file of 6 buffers and two NCZ of 4 and 5; with any fault two files of 4 | 100 188 | complete and in order, ends; never a wrong prefix; "ok" with no failed thread means complete |
| `transfer_hang` | the plain file, only the writer fails | | finding 2 |
| `ncz_blocks` | blocks of up to 4 units, all layouts of two sections, buffers 2 to 5, flush 5 | 8 454 | restored exactly |
| `ncz_last_block` | an image of two whole blocks | | finding 3 |
| `ncm_install` | 7 packages, 5 consoles, 2 installs, 1 fault, swallowed or not | 107 308 | success means installed, nothing else is harmed |
| `ncm_patches` | the same, stream mode, 2 faults | | finding 4 |
| `install_session` | 5 host names, numbers up to (1), 3 entries, reads of 2, 10 images, 2 installs, sizes 0 and 4 | 1 238 441 | names, places of data, order of entries, services |
| `title_keys` | 7 packages, 16 configurations in both modes, 7 key files, spl failing or not, generations up to 32, 2 installs cut short anywhere | 59 220 | each content has its key unless a wrong one went into it, nothing sound is refused |
| `title_keys_300` | a title of generation 2, good keys | | finding 5 |

Why the bounds are enough. A buffer of two bytes with packets and reads of one
and two lets packets straddle the limit and reads straddle packets; two
timeouts give a first that retries and a last that aborts; the file is three
buffers long, so the queue fills and drains more than once. Two files are
needed for an install to start during another. A ring of two and files longer
than both rings together make each thread wait for each other. The buffer sizes
of `ncz_blocks` cut each block in every place, and flushes end inside blocks.
Two installs and one fault are a failed install and its retry; with three
installs and two faults the invariants of `ncm_install` were checked, too (6.1
million states, not part of the runs). In `install_session` three entries of
five names, among them one name in two cases and the name its duplicate would
get, use every branch of `GenerateUniqueName`: the name itself, a number, and
the tick after the numbers have run out. Its images are headers that end on
0x20 and headers that do not, a table in another order than its data, entries
that overlap, an empty entry at the offset of the next, tickets without certificates and certificates without tickets, and
game cards with and without "secure"; each call of `Setup` fails in some run.
Two installs show what the first left of references and sessions. `title_keys`
has the edges of the generation: 0, 2 in the old field, 3 and 4 in the new one,
32, which is the last that has a place in `prod.keys` and newer than the
console; two installs are one that is cut short and one, under any other
configuration, that finds what it left. Its key files are whole, empty, without
the last keys, with a key of zeros and a line past the end of a section, with a
wrong device key, with a wrong key that a title key is decrypted with, and
with wrong keys for key areas at both ends of a section.

Fairness. `InstallStream`: weak fairness of the install thread's own steps, of
`Push` once called, and of both timers, because `condvarWaitTimeout` ends by
itself; nothing is assumed of the host, which need not send, close or open
anything. `MtpInstall`: the same for the stream, and a join whose thread has
exited returns. `TransferPipeline`: each of the four threads runs if it can;
the console has a core for each. No strong fairness is used anywhere. The other
specifications are checked for safety only: they are sequential, and each of
their steps ends.

`CHECK_DEADLOCK FALSE` stands where the system may stop: in the two `transfer`
runs, because with a failed thread the pipeline hangs (finding 2), and where
the model has a number of installs after which nothing happens (`title_keys`,
`title_keys_300`).

## 4. Proofs

`InstallStreamProofs` proves for buffers, packets, reads, files and retry
limits of every size:

- `TypeCorrect`, `BytesInOrder`, `NothingLost`, `NoWakeupLost`,
  `EndAfterLastByte`: the five invariants of the run;
- `StreamImplementsPipe`: every behaviour of the stream is one of the pipe.

They rest on `StreamAssumption` (sizes and limits are positive) and on the
inductive invariant `Inv`. The five invariants are not inductive by themselves.
`EofMeansAllTaken` needs to know that a stream the reader has not given up is
inactive only when its writer closed it with no `Push` under way, and that
then everything sent is taken or queued (`ClosedByWriter`); `NoLossWhileActive`
needs that a `Push` in progress holds exactly the last bytes sent
(`PacketHeld`); that the end stays the end once reported is `EofIsFinal`; that
an abandoned stream stays inactive is `InactiveWhenOver`; and `CallInRange`
bounds the arguments of a call under way. The proof has one step per action;
the two actions that move bytes, `ReadChunkTake` and `PushAppend`, have lemmas
of their own over facts about `SubSeq` and concatenation, and the same two are
the `Get` and `Put` of the pipe. All other actions leave the pipe alone, or
close it.

`MtpInstallProofs` carries this over to the life of installs, for any number of
files and any `SkipChunk`, from `StreamAssumption` and `MtpAssumption`:

- `ThreadNeverOutlivesStream`: `StreamOutlivesThread` is inductive by itself,
  since only `CloseFileJoin` and `OpenFileStart` or `OpenFileFail` take a stream
  away, and both are behind `Joined`;
- `ReadDeliversExactly`: `ReadIsExact`, the exactness of `Stream::Read`;
- `BytesInOrderOverMtp`: the stream's order, through every change of files;
- `ReportIsOfItsInstallAlways`: what `CloseFile` reports is the result of the
  install it has waited for. `ResultInv` says that a thread that has left its work
  has set the result, and that there is one to wait for while a stream is set;
- `MtpTypeCorrect`.

Each step of `MtpInstall` is a step of `InstallStream`, leaves the stream alone
or replaces it, so `Inv` is kept (`CallInv`, `ReplacedInv` and `NextInv` of the
other module). `ReadIsExact` speaks of the end of a `Read` only; the inductive
`ReadUnderWay` says what holds in the middle of one: `off + size` stays where
the request ends, what was delivered is exactly the bytes from `want.off` to
`off`, `off` is ahead of `mOffset` only while a gap is skipped, and a
`ReadChunk` that has returned but is not accounted for yet brought at most what
was asked. The step that counts is `ReadReturned`, in its two cases.

`TransferPipelineProofs` is about rings of every capacity and files of any
number of buffers, packed and plain, with any set of faults.

- `RingPushAppends`, `RingPopTakesFront`: the ring is a queue. Its two indices
  run modulo twice the capacity; the proof takes the four places where they may
  wrap one by one (`PushIndices`, `PopIndices`) and does without division.
- `FlowInvariant`, `WrittenInOrderAlways`, `NothingLostAlways`: `FlowInv` says
  that the placeholder, the write thread's hand, the "out" ring, the decompress
  thread, the "in" ring and the read thread hold, joined, one run of the NCA
  (`Chain`), while no failure is stored and the writer runs; once that is over
  nothing more is written. Between the failure of a thread and the storing of
  its result the others go on, so that the chain is stated part by part: each
  holds as long as the thread that takes it on has not failed (`ret`). A woken
  thread does not look at its ring again, so the chain needs `WokenRightly`:
  who is woken to take finds a buffer, who is woken to put finds room.
- `WholeInvariant`, `RingsInBoundsAlways`, `OkMeansCompleteAlways` assume
  `Honest`: the size in the header of the NCA is what the buffers add up to.
  The code never compares the two, so with a header that states less these do
  not hold, and nothing else in the repository would notice. `WholeInv` adds to
  `FlowInv` that who is woken finds what it waits for until the writer has
  stored its result, not only until its running flag is cleared (`Room`); what
  each thread knows of the size (`Loops`); that the end of the NCA lies behind a
  thread that ended well, and what an empty buffer means (`Endings`); and the
  bounds of the rings (`Sizes`).

`NczBlocksProofs` is about all sets of sound files, in the sense of `Sound`:
blocks that stand for all units behind the header, sizes as the code
expects them, sections that meet every unit and do not overlap. That the last
block must not be of full size is part of it, and is finding 3. A buffer may end
anywhere, and `FlushSize` may be any number above 1.

- `NczInvariant`: `NczInv` relates the four clocks of the loop. `Position` ties
  the place in the compressed data to the block, the offset in it and the end of
  the span, and says that `inflated` is the units behind that place; `Units`
  that `written`, the inflate buffer and what is left of a flush add up to
  `inflated` and are the units in order; `Keys` that the key stream of the
  section entered last stands at `written`.
- `UnitsInOrderAlways`, `KeyStreamInStepAlways` and `RestoredAlways` follow.
  `Restored` says also that a sound file is never refused; for that the proof
  shows that each block that is not stored gives all of its units in whatever
  pieces its data come, since those of a piece are counted from the
  block's start (`upto`), and that a flush always finds exactly one section.

`InstallSessionProofs` is about any host, names, images, number of installs
and failures of `Setup`.

- `SessionInvariant`: what a directory read has returned is a beginning of the
  entries, as long as it is in progress (`FolderInv`); entries are only appended, and their names do not change.
- `ServicesBalancedAlways`: `ServicesInv` gives the counts of each service for
  every place, and during `Setup` for each call that has been made; the guards
  that leave a scope and the destructor undo exactly those.
- `UniqueNamesAlways` assumes `HostHasNoTicks`: no name the host gives ends in a
  tick of the console, which is what `CreateFile` appends when 999 numbers are
  used up without looking whether it is there (`TicksArePast`: the ticks in
  use are earlier ones). Names that are cut at 299 characters are excepted by
  the property itself (`LongStems`), see section 5.
- `ContainerAlwaysFound` is the first part of `NeverRefused`, which needs no
  hypothesis.
- `NeverRefusedAlways`, `ReadsItsDataAlways`, `AllTakenAlways` assume
  `ImagesSound`: the headers are in the format and say where the data is, no two
  stand at one place, and in the partition that is installed each name is there
  once and NCAs, tickets and certificates are not empty. Without the last a
  read of no bytes would not move the stream. Entries may overlap and lie in any
  order. `TakeInv` says that the collections are the entries of the image, each once
  (`WellRead`, which no order of theirs changes: `OrderKeeps`); that the stream
  is before all of them or at the end of one that was read (`Between`); and what the
  tickets have been given (`TicketsSoFar`, `NcasSoFar`). An entry behind the stream
  then begins before the end of one that begins no later, and the two overlap
  (`BehindOverlaps`).
- `BuildIsReadBack`: `GetCollections` of what `Nsp::Build` writes is the names
  and sizes that were given to it, for any entries; the data of each
  begin where those of the one before end, the first on a multiple of 0x20 behind
  the header, and the last end where `Build` says the file ends.

`NcmInstallProofs` is about every container, every state of the console, and any
number of installs, failed calls and power losses, in both modes. Every safety
property of `NcmInstall` is proved. The hypotheses are:

| Hypothesis | Says | Because |
|---|---|---|
| `Formats` | containers and lists of infos are finite sequences, versions are bounded | PFS0 tables and cnmts have counts; a version is a u32 |
| `OneNca` | a container has one NCA of a content id | the id is its name, and a hash of its content |
| `OneOwner` | two titles with a common content, on the console or in the containers, are versions of one title | content ids are hashes; section 5 says what the code does otherwise |
| `DistinctTitles` | a container has one cnmt for a title | a package is built from one base, patch and set of add-ons |
| `OneInfo` | a cnmt lists a content once | the cnmt format |
| `Offsets` | a place in the source is a natural number | u64 |
| `OneTicket` | NCAs of one id need the same ticket | the rights id is in the header that the id is a hash of |
| `DevicesTicketed` | a title the console came with has its tickets | it was installed by the console |

`PlaceholdersGone` and `PatchIsTheOnlyOne` need none but the shape of the meta
databases.

- `PlaceholdersGone`: `NoPlaceholderLeft` is inductive by itself, since an
  install ends only by `Cleanup`, which deletes its placeholders, or by
  `Crash` (`WorkGoesOn`).
- `PatchIsTheOnlyOne`: `PatchReplacesAll` needs `PatchesRemoved`: from
  `RemoveDone` on, until `SetMeta`, no other patch of the application is in
  the database of any storage.
- `InstallInvariant`: `JobInv` is about the install, `ConsoleInv` about the
  console. `JobInv` says that what is at hand is of the container, that a file
  takes one cnmt after the other and a stream has taken all entries before the
  first is decided, and that the NCAs a parsed cnmt names are there.
  `ConsoleInv` says that the databases hold only what came with the console or from
  a container (`DbKnown`), that a victim is an entry of the title being
  installed and loses nothing that was found installed (`VictimInv`), that only
  contents of that title are registered (`RegisterInv`), and that no patch is
  above the latest version once that is read (`LatestInv`), on the storages
  that the decision has seen and, for a patch that has replaced the others, on
  all (`Heard`).
- `InstalledStaysCompleteAlways`, `NoDowngradeAlways`: action properties, each
  step looked at under `InstallInvariant`. `NoDowngrade` is about the storages
  that were listed for the patch that is installed, with any number of calls
  that fail, swallowed or not; section 5 says what becomes of the others. For the
  first, `OneOwner` keeps the removals and the `Delete` in `Register` away from
  other titles.
- `SuccessMeansInstalledAlways`: three more conjuncts. What was skipped stays
  registered (`SkippedInv`); of the title being committed, each content is
  there, or still to be registered (`CommitInv`); and the titles before it are
  done, and stay so while others are removed and committed (`DoneInv`), which
  is where `DistinctTitles` is needed.
- `TicketsBeforeContentsAlways` and `FailsOnlyByFaultAlways` share `TakenInv(G)`:
  each id the install is going to need is in `G` or still to be taken. With the
  ids whose ticket is imported or required as `G` (`CoveredSet`) it says that
  `required` is complete when the tickets are imported (`Readied`), so that a
  title has its tickets when its key is set (`DbTicketed`). With the ids that
  have been dealt with (`DealtSet`) it says, with `HeldInv`, that what is to be
  registered waits in a placeholder, so that `Register` cannot fail; `ReadInv`
  says that a stream is never behind what it reads next, that a required ticket
  is in the container and that its data has been read. What remains is
  `FaultInv`: a failure is a fault or a container that lacks something.
- `TypesAlways`.

`TitleKeysProofs` is about every console, `prod.keys`, configuration and number
of installs, in both modes, cut short anywhere. Its hypothesis is `PackagesFit`,
that what is installed can be decrypted as it is sold:

| Part | Says | Because |
|---|---|---|
| `GenerationInForm` | the generation stands in the old field up to 2 and in the new one from 3 to 32; 2 does not come with a ticket | the NCA format, and the 32 places of a section of keys; 2 with a ticket is finding 5, where the properties do fail |
| `NcaFits` | a key area has the key of its sections under the master key of its generation | otherwise the NCA could not be used before it was converted |
| `TicketFits` | a file is named after the rights id in it, a personalised ticket is encrypted for the device it names | the ticket format |
| `KeyFits` | a ticket has the key of the NCAs it is for and is of their generation | as `NcaFits` |
| distinct ids | a package has one NCA of a content id | the id is its name |

Tickets may be missing, damaged, for another console or have unknown
certificates, NCAs may be damaged, and `prod.keys` may lack keys or have wrong
ones, of which the wrong ones are used like any other. What cannot be promised
then is excepted by `misled`: a content into which a wrong key went may lead to
no key. That it needs no ticket, and the first master key if it was lowered,
is proved of it all the same, and so is everything about the contents of the
same title, of the same install and of later ones, that are not misled.

- The lists of checks are the functions' early returns. `FirstErrorIsOk` says
  that a function succeeds if no check fails, and `TicketDataChecked` to
  `NcaChecked` what that comes to for each of them.
- `ConvertedHeader`, `KeptHeader`, `SectionKeyFound` and `PatchedTicket` are
  the steps of a key: what is decrypted to be converted is the key of the sections,
  the new key area leads to it again whatever the new generation, a header that is
  not converted leads where it led, and so does a patched ticket. The first two
  are about conversions that do not mislead; `RightKeys` says that those use right
  keys of the file only, whether spl gives one or not.
- `KeysInvAlways`: a content on the console is as an install makes it of an NCA
  of the package (`Made`): it needs the ticket that the NCA needed, or none and has
  its key in its key area, unless it is marked as misled. Its
  ticket is on the console (`ContentsInv`). During an install it is there or still
  coming (`Coming`: required, in a place that is not passed). The hard step is a
  conversion, which clears `required` for the NCAs before it too:
  `NotConverted` says that one of those waits for its ticket only in an install that
  converts nothing, since a skipped NCA has its ticket already.
- `EveryContentHasItsKeyAlways`, `LaunchesOnEveryFirmwareAlways` and
  `TicketOnlyForNeedAlways` follow.
- `SoundIsInstalledAlways` adds `SoundInv`: the keys at hand are those of the file,
  no wrong key goes into a content of a sound package (`SoundIsNotMisled`), so that
  its cnmt NCA, which must need no ticket, can be mounted (`SoundMounts`), and
  each list of checks is passed. It asks that the lines of `prod.keys` are lines
  (`LineType`).

About data. What a filter or a table of offsets computes for sequences of any
length needs induction, and the induction theorems of the library cannot be
used with the provers at hand. `DataInduction` proves the one that can:
`SetInduction`, that a set of naturals with 0 and all successors is Nat, by
counting. With the recursive functions of the modules unfolded one step at a
time it gives what `Kept` keeps, what `StartOf` adds up to and where the strings
of a header begin.

Only model-checked: the violations of section 5, which are shown and not
proved, and all liveness, which is beyond the prover. Every safety property
of a passing run is proved.

## 5. Findings

1. `Stream::Read` never returns at the end of the stream: `ReadChunk` returns
   success with no bytes and the loop goes on. A file that was not sent to its
   end leaves the install thread spinning and `CloseFile` and `~FsInstall`
   waiting for it (`mtp_truncated`).
2. `IsAnyRunning` tests `decompress_result` instead of `decompress_running`
   (`yati.cpp:160`). After a failure of the write or read thread the coordinator
   stops waking the others and joins threads that sleep (`transfer_hang`).
   Without failures the coordinator may log "threads closed" and compare
   `nca.hash` while the decompress thread has not written it; and a failure of
   the decompress thread that is stored after the results were looked at is
   reported as success.
3. A compressed last NCZ block of full size is taken for a stored one
   (`ncz_last_block`).
4. A removed patch can come back beside the new one after a failed commit, a
   retry and a power loss (`ncm_patches`).
5. For a title of generation 2 (3.0.0) with a ticket the conversion to standard
   crypto and `lower_master_key` work with `header.key_gen`, which is 0, in place
   of `GetKeyGeneration()` (`yati.cpp:653`, and `yati.cpp:407` for the patched
   ticket); what is written cannot be decrypted (`title_keys_300`).

Read in the code and not shown by a run:

- The timed waits pass `armNsToTicks(1e9)`, a tick count, as nanoseconds, so
  that a wait is 19.2 ms, not a second, and 30 of them are about 0.6 seconds
  where the comment says 30 seconds.
- `Push` does not look at the fill level again after its wait
  (`install_stream.cpp:103`), so the buffer may pass its limit by a packet; and
  the last timeout of `ReadChunk` gives up although data may have arrived with
  it (`install_stream.cpp:42`).
- The block size exponents 31 and 32, which `yati.cpp:494` admits, overflow the
  `int` in `1 << exponent`.
- Two cnmts of one container that share an NCA make the second `Register`
  delete what the first registered and then fail (`ncm.cpp:103`).
- A wrong, non-zero key of `prod.keys` is used without a check, and the content
  that is made with it cannot be decrypted (`keys.hpp:13`); `TitleKeys` models it
  and excepts it (`misled`).
- `GetLatestVersion` swallows a failed List (`yati.cpp:1183`): the downgrade
  check is skipped for that storage and `RemoveInstalledNcas` then removes the
  newer patch for the older one, although `allow_downgrade` is off
  (`yati.hpp:22`). The launch version is not raised either, so that a base game
  is reported installed with one below the patch that is there. `NcmInstall`
  models it (`lost`, `unlisted`), and its properties are about the storages that
  were listed.
- The downgrade check looks at patches only (`yati.cpp:1200`); `yati.hpp:22`
  says "patch / data patch (dlc) version".
- In file mode a title whose contents an interrupted install has deleted counts
  as installed while its key is there (`yati.cpp:1194`); `yati.hpp:26` says
  "checks that every nca is available". `NcmInstall` models it, and
  `SuccessMeansInstalled` excepts the titles that were passed over.
- Placeholders of a crashed install are never removed.
- `CreateFile` gives a duplicate a new name that `OpenFile` does not look for:
  sizes written go to the earlier entry (`main.cpp:402` and `438`).
- `GetEntryType` reports every path that has a separator as a directory.
- Names that are cut at 299 characters lose the number and the extension, so
  the third duplicate of a long name collides with the second.
- A `.cert` without a `.tik` ends a stream install with `CertNotFound`, although
  `yati.cpp:1505` says "this will never fail".
- `Stream` shadows `Base::m_open_result`, so that `GetOpenResult` of a stream
  is always success.
- `yati.hpp:55` says `convert_to_standard_crypto` does not apply to add-ons; the
  code converts NCAs of every type.

## 6. Not modelled, and the plan

Not modelled:

- `fs.cpp`, `FsNative` and `FsSdmc`: each call passes one call to the file
  system on; the app uses neither `FsStdio` nor `source::File`.
- The IPC wrappers of `es.cpp`, `ns.cpp` and `ncm.cpp` that nobody calls; of the
  others, what their callers rely on is in `NcmInstall` and `TitleKeys`.
- `ParseCnmt` and `ParseControl`, which mount an NCA and read files of it: a
  package of `NcmInstall` says what they give.
- The main loop and the event queue: one vector that is swapped under a mutex
  and printed. `MtpInstall` has the part that ends MTP and destroys `FsInstall`.
- Logging: output only. (`log_write` tests `g_file_open` before it takes the
  lock, but nothing calls `log_file_exit`.)
- The USB source, which is compiled only with `ENABLE_NETWORK_INSTALL`, and
  libhaze, which is not in the repository.

What is left, in this order:

1. An abstract specification of the install transaction, which `NcmInstall`
   implements outside its findings; `DoneInv` and `InstalledStaysComplete` are
   most of what the step from one to the other needs.
