--------------------------- MODULE InstallSession ---------------------------
(***************************************************************************)
(* One install from the file name to the last entry: the virtual folder    *)
(* hands a stream and a path to the install thread; InstallFromSource      *)
(* chooses the container, the container reads its collections, and         *)
(* InstallInternalStream makes a Yati, sets up its services and takes the  *)
(* entries in the order of their offsets (yati.cpp).  How the bytes travel *)
(* is InstallStream and MtpInstall, what an NCA goes through is            *)
(* TransferPipeline and NcmInstall; here a read succeeds or fails whole.   *)
(*                                                                         *)
(* The services are reference-counted by ServiceGuard (service_guard.h).   *)
(***************************************************************************)
EXTENDS InstallFolder, Containers, Functions

CONSTANTS
    Images,       \* what the host may send
    MaxInstalls   \* files that are opened (bounds the run)

\* An image: its partitions, where the data of its entries really is, and
\* its length.
ASSUME SessionAssumption ==
    /\ MaxInstalls \in Nat
    /\ \A image \in Images : image.size \in Nat /\ image.data # {}

Services == {"splCrypto", "ns", "es", "setcal"}
Sessions == {"ns_app", "db1", "cs1", "db2", "cs2"}

VARIABLES
    installs,     \* number of files opened
    image,        \* what the host sends
    path,         \* the name in /install/
    spc,          \* where the install thread is
    container,    \* "none", "PFS0" or "HFS0"
    mOffset,      \* the bytes the stream has given out
    collections,  \* the entries found
    next,         \* the next step of Setup, or the next collection
    refCount,     \* of each service's guard
    connected,    \* services whose session is open
    sessions,     \* sessions Yati has opened: ns_app, ncm_db and ncm_cs
    scope,        \* services ON_SCOPE_EXIT of parse_keys will leave, last first
    sleepDisabled,\* appletSetAutoSleepDisabled
    tickets,      \* TikCollections: the ticket and cert data by rights id
    got,          \* what was read: entry, place and size
    rc            \* the Result of the install

serviceVars == <<refCount, connected, sessions, scope, sleepDisabled>>
dataVars == <<collections, tickets, got>>
sessionVars == <<folderVars, installs, image, path, spc, container, mOffset, next,
                 serviceVars, dataVars, rc>>

NoImage == [partitions |-> {}, data |-> {}, size |-> 0]

SessionInit ==
    /\ FolderInit
    /\ installs = 0
    /\ image = NoImage
    /\ path = NoFile.name
    /\ spc = "idle" /\ container = "none" /\ mOffset = 0
    /\ collections = <<>> /\ next = 1
    /\ refCount = [s \in Services |-> 0] /\ connected = {}
    /\ sessions = {} /\ scope = <<>> /\ sleepDisabled = FALSE
    /\ tickets = <<>> /\ got = {} /\ rc = "ok"

-----------------------------------------------------------------------------
(* ServiceGuard *)

\* Seeded fault: a failed Initialize keeps its reference.
GuardInitKeeps(s, ok) ==
    /\ ok \/ refCount[s] = 0
    /\ refCount' = [refCount EXCEPT ![s] = @ + 1]
    /\ connected' = IF ok THEN connected \cup {s} ELSE connected \ {s}

\* name##Initialize: the first one connects; when that fails nothing is kept.
GuardInit(s, ok) ==
    /\ ok \/ refCount[s] = 0
    /\ refCount' = [refCount EXCEPT ![s] = IF ok THEN @ + 1 ELSE @]
    /\ connected' = IF ok THEN connected \cup {s} ELSE connected \ {s}

\* name##Exit: the last one disconnects; one too many does nothing.
Exited(refs, s) == IF refs[s] > 0 THEN [refs EXCEPT ![s] = @ - 1] ELSE refs

StillUsed(refs) == {s \in connected : refs[s] > 0}

-----------------------------------------------------------------------------
(* From the file name to the collections *)

\* OpenFile: a new stream and an install thread for "/install/" + name.
OpenInstall(name) ==
    /\ spc = "idle" /\ installs < MaxInstalls /\ ~dir.open
    /\ OpenFile(name)
    /\ installs' = installs + 1
    /\ path' = name
    /\ spc' = "dispatch"
    /\ image' \in Images
    /\ mOffset' = 0 /\ container' = "none" /\ collections' = <<>> /\ next' = 1
    /\ tickets' = <<>> /\ got' = {} /\ rc' = "ok"
    /\ UNCHANGED serviceVars

\* The install is over before a Yati was made.
Finish(result) ==
    /\ spc' = "done"
    /\ rc' = result
    /\ UNCHANGED <<container, mOffset, next, serviceVars, dataVars>>

\* A Result other than success leaves InstallInternalStream, and ~Yati runs.
Unwind(result) ==
    /\ spc' = "dtor"
    /\ next' = 1
    /\ rc' = result

Outside == UNCHANGED <<folderVars, installs, image, path>>

\* InstallFromSource
Dispatch ==
    /\ spc = "dispatch"
    /\ LET kind == IF path.ext \in {"nsp", "nsz"} THEN "PFS0"
                   ELSE IF path.ext \in {"xci", "xcz"} THEN "HFS0" ELSE "none"
       IN IF kind = "none"
            THEN Finish("ContainerNotFound")
            ELSE /\ container' = kind
                 /\ spc' = "root"
                 /\ UNCHANGED <<mOffset, next, serviceVars, dataVars, rc>>
    /\ Outside

\* Stream::Read of size bytes at off, ending in the given state, or a refusal.
CanRead(off) == off >= mOffset

RootOffset == IF container = "PFS0" THEN 0 ELSE Hfs0HeaderOffset

\* A header of the wrong magic, or none at all.
BadMagic ==
    /\ spc = "root"
    /\ ~IsPartition(image, RootOffset, container)
    /\ Finish("BadMagic")
    /\ Outside

\* Nsp::GetCollections, after which a Yati is made.
ReadPfs0 ==
    /\ spc = "root" /\ container = "PFS0"
    /\ IsPartition(image, 0, "PFS0")
    /\ collections' = EntriesAt(image, 0)
    /\ mOffset' = DataStart(image, 0)
    /\ spc' = "new"
    /\ UNCHANGED <<container, next, serviceVars, tickets, got, rc>>
    /\ Outside

\* Xci::GetCollections reads the root partition in search of "secure".
ReadRoot ==
    /\ spc = "root" /\ container = "HFS0"
    /\ IsPartition(image, RootOffset, "HFS0")
    /\ IF SecureIndex(At(image, RootOffset).header) = 0
         THEN Finish("SecurePartitionNotFound")
         ELSE /\ mOffset' = DataStart(image, RootOffset)
              /\ spc' = "secure"
              /\ UNCHANGED <<container, next, serviceVars, dataVars, rc>>
    /\ Outside

ReadSecure ==
    /\ spc = "secure"
    /\ LET off == SecureOffset(image, RootOffset) IN
       IF ~CanRead(off) THEN Finish("BadSeek")
       ELSE IF ~IsPartition(image, off, "HFS0") THEN Finish("BadMagic")
       ELSE /\ collections' = EntriesAt(image, off)
            /\ mOffset' = DataStart(image, off)
            /\ spc' = "new"
            /\ UNCHANGED <<container, next, serviceVars, tickets, got, rc>>
    /\ Outside

\* Any read of the stream fails once the host stays away for too long.
HeaderReadFails ==
    /\ spc \in {"root", "secure"}
    /\ Finish("ReadFailed")
    /\ Outside

-----------------------------------------------------------------------------
(* Yati and its services *)

\* The calls of Yati::Setup and of parse_keys within it.  (The open result of
\* a stream is always success.)
SetupCalls ==
    << [op |-> "init", of |-> "splCrypto"], [op |-> "init", of |-> "ns"],
       [op |-> "open", of |-> "ns_app"], [op |-> "init", of |-> "es"],
       [op |-> "open", of |-> "db1"], [op |-> "open", of |-> "cs1"],
       [op |-> "open", of |-> "db2"], [op |-> "open", of |-> "cs2"],
       [op |-> "scoped", of |-> "splCrypto"], [op |-> "use", of |-> "splCrypto"],
       [op |-> "scoped", of |-> "setcal"], [op |-> "use", of |-> "setcal"] >>

\* Yati::Yati
NewYati ==
    /\ spc = "new"
    /\ spc' = "setup"
    /\ sleepDisabled' = TRUE
    /\ UNCHANGED <<container, mOffset, next, refCount, connected, sessions, scope, dataVars, rc>>
    /\ Outside

\* The next call of Setup succeeds.  Within parse_keys an Initialize also
\* leaves an ON_SCOPE_EXIT behind.
SetupCall ==
    /\ spc = "setup" /\ next <= Len(SetupCalls)
    /\ LET call == SetupCalls[next] IN
       /\ IF call.op \in {"init", "scoped"}
            THEN GuardInit(call.of, TRUE) ELSE UNCHANGED <<refCount, connected>>
       /\ sessions' = IF call.op = "open" THEN sessions \cup {call.of} ELSE sessions
       /\ scope' = IF call.op = "scoped" THEN <<call.of>> \o scope ELSE scope
    /\ next' = next + 1
    /\ UNCHANGED <<spc, container, mOffset, sleepDisabled, dataVars, rc>>
    /\ Outside

\* It fails, and the scopes entered so far are left.
SetupFails ==
    /\ spc = "setup" /\ next <= Len(SetupCalls)
    /\ LET call == SetupCalls[next] IN
       IF call.op \in {"init", "scoped"}
         THEN GuardInit(call.of, FALSE) ELSE UNCHANGED <<refCount, connected>>
    /\ spc' = "leave" /\ rc' = "SetupFailed"
    /\ UNCHANGED <<container, mOffset, next, sessions, scope, sleepDisabled, dataVars>>
    /\ Outside

SetupReturns ==
    /\ spc = "setup" /\ next > Len(SetupCalls)
    /\ spc' = "leave"
    /\ UNCHANGED <<container, mOffset, next, serviceVars, dataVars, rc>>
    /\ Outside

\* ON_SCOPE_EXIT of parse_keys, the last one first; then Setup has returned.
LeaveScope ==
    /\ spc = "leave"
    /\ IF scope # <<>>
         THEN /\ refCount' = Exited(refCount, scope[1])
              /\ connected' = StillUsed(refCount')
              /\ scope' = Tail(scope)
              /\ UNCHANGED <<spc, next>>
         ELSE /\ spc' = IF rc = "ok" THEN "tickets" ELSE "dtor"
              /\ next' = 1
              /\ UNCHANGED <<refCount, connected, scope>>
    /\ UNCHANGED <<container, mOffset, sessions, sleepDisabled, dataVars, rc>>
    /\ Outside

\* Yati::~Yati, whatever Setup got to.
DestroyYati ==
    /\ spc = "dtor"
    /\ spc' = "done"
    /\ refCount' = Exited(Exited(Exited(refCount, "splCrypto"), "ns"), "es")
    /\ connected' = StillUsed(refCount')
    /\ sessions' = {}
    /\ sleepDisabled' = FALSE
    /\ UNCHANGED <<container, mOffset, next, scope, dataVars, rc>>
    /\ Outside

-----------------------------------------------------------------------------
(* The entries *)

CertsFor(es, id) == {i \in DOMAIN es : es[i].name.ext = "cert" /\ es[i].name.id = id}
TikIds(es) == {es[i].name.id : i \in {j \in DOMAIN es : es[j].name.ext = "tik"}}

\* Seeded fault: the collections stay in the order of the file table.
TableOrder(es) == {es}

\* std::ranges::sort by offset, since a stream cannot go back: any order of the
\* entries that does not go back itself.
OffsetOrders(es) ==
    {t \in {[i \in DOMAIN es |-> es[order[i]]] : order \in Bijection(DOMAIN es, DOMAIN es)} :
        \A i, j \in DOMAIN es : i < j => t[i].offset <= t[j].offset}

\* ParseTicketsIntoCollection: every ticket has its certificate; their data
\* comes later.
ParseTickets ==
    /\ spc = "tickets"
    /\ IF \E id \in TikIds(collections) : CertsFor(collections, id) = {}
         THEN Unwind("CertNotFound") /\ UNCHANGED <<collections, tickets>>
         ELSE /\ tickets' = [id \in TikIds(collections) |-> {}]
              /\ collections' \in OffsetOrders(collections)
              /\ spc' = "entries"
              /\ UNCHANGED <<next, rc>>
    /\ UNCHANGED <<container, mOffset, serviceVars, got>>
    /\ Outside

Entry == collections[next]
MoreEntries == spc = "entries" /\ next <= Len(collections)

\* What Read gives for an entry, with the stream behind it afterwards.
ReadEntry ==
    /\ CanRead(Entry.offset)
    /\ mOffset' = IF Entry.size = 0 THEN mOffset ELSE Entry.offset + Entry.size
    /\ got' = got \cup {Entry}

\* An .nca or .ncz: installed straight from the stream.
TakeNca ==
    /\ MoreEntries /\ Entry.name.ext \in {"nca", "ncz"}
    /\ ReadEntry
    /\ next' = next + 1
    /\ UNCHANGED <<spc, container, collections, tickets, serviceVars, rc>>
    /\ Outside

\* Seeded fault: the data of a .cert goes to the ticket, too.
TakeTicketAsTik ==
    /\ MoreEntries /\ Entry.name.ext \in {"tik", "cert"}
    /\ Entry.name.id \in DOMAIN tickets
    /\ ReadEntry
    /\ tickets' = [tickets EXCEPT ![Entry.name.id] = {"tik"}]
    /\ next' = next + 1
    /\ UNCHANGED <<spc, container, collections, serviceVars, rc>>
    /\ Outside

\* A .tik or .cert: its data goes to the ticket of its rights id.
TakeTicket ==
    /\ MoreEntries /\ Entry.name.ext \in {"tik", "cert"}
    /\ Entry.name.id \in DOMAIN tickets
    /\ ReadEntry
    /\ tickets' = [tickets EXCEPT ![Entry.name.id] = @ \cup {Entry.name.ext}]
    /\ next' = next + 1
    /\ UNCHANGED <<spc, container, collections, serviceVars, rc>>
    /\ Outside

\* A certificate without a ticket ends the install.
StrayCert ==
    /\ MoreEntries /\ Entry.name.ext \in {"tik", "cert"}
    /\ Entry.name.id \notin DOMAIN tickets
    /\ Unwind("CertNotFound")
    /\ UNCHANGED <<container, mOffset, serviceVars, dataVars>>
    /\ Outside

\* Any other entry is skipped by the next read.
SkipEntry ==
    /\ MoreEntries /\ Entry.name.ext \notin {"nca", "ncz", "tik", "cert"}
    /\ next' = next + 1
    /\ UNCHANGED <<spc, container, mOffset, serviceVars, dataVars, rc>>
    /\ Outside

\* Stream::Read refuses to go back.
BadSeek ==
    /\ MoreEntries /\ Entry.name.ext \in {"nca", "ncz", "tik", "cert"}
    /\ ~CanRead(Entry.offset)
    /\ Unwind("BadSeek")
    /\ UNCHANGED <<container, mOffset, serviceVars, dataVars>>
    /\ Outside

\* The stream, or the install of the entry, fails.
EntryFails ==
    /\ MoreEntries /\ Entry.name.ext \in {"nca", "ncz", "tik", "cert"}
    /\ Unwind("ReadFailed")
    /\ UNCHANGED <<container, mOffset, serviceVars, dataVars>>
    /\ Outside

\* All entries are there: the tickets and the contents are imported and
\* registered (NcmInstall), which uses every service.
Register ==
    /\ spc = "entries" /\ next > Len(collections)
    /\ \E result \in {"ok", "RegisterFailed"} : Unwind(result)
    /\ UNCHANGED <<container, mOffset, serviceVars, dataVars>>
    /\ Outside

-----------------------------------------------------------------------------
(* The host *)

SessionIdle == UNCHANGED <<installs, image, path, spc, container, mOffset, next,
                           serviceVars, dataVars, rc>>

\* WriteFile: Push succeeded, the entry of the open file grows.
Write ==
    /\ file.write /\ spc # "done"
    /\ \E end \in Sizes : GrowFile(end)
    /\ SessionIdle

Resize ==
    /\ \E size \in Sizes : SetFileSize(size)
    /\ SessionIdle

\* CloseFile waits for the install thread; the stream and what the thread had
\* are gone.
Close ==
    /\ spc = "done"
    /\ CloseFile
    /\ spc' = "idle" /\ image' = NoImage /\ path' = NoFile.name
    /\ mOffset' = 0 /\ container' = "none" /\ collections' = <<>> /\ next' = 1
    /\ tickets' = <<>> /\ got' = {} /\ rc' = "ok"
    /\ UNCHANGED <<installs, serviceVars>>

\* The responder handles one request at a time: it has no directory open, and
\* is in no other request, while it receives a file.
Browse == ~file.write /\ FolderNext /\ SessionIdle

InstallThread ==
    \/ Dispatch \/ BadMagic \/ ReadPfs0 \/ ReadRoot \/ ReadSecure \/ HeaderReadFails
    \/ NewYati \/ SetupCall \/ SetupFails \/ SetupReturns \/ LeaveScope
    \/ ParseTickets \/ TakeNca \/ TakeTicket \/ StrayCert \/ SkipEntry \/ BadSeek
    \/ EntryFails \/ Register \/ DestroyYati

SessionNext ==
    \/ InstallThread
    \/ \E name \in HostNames : OpenInstall(name)
    \/ Write \/ Resize \/ Close \/ Browse

SessionSpec == SessionInit /\ [][SessionNext]_sessionVars

-----------------------------------------------------------------------------
(* What the theorems assume of the images *)

\* The partition whose entries are installed: the PFS0 itself, or the one that
\* the root of a card calls "secure".
HasContents(f, p) ==
    \/ p.header.magic = "PFS0" /\ p.at = 0
    \/ p.header.magic = "HFS0" /\ \E root \in f.partitions :
         /\ root.header.magic = "HFS0" /\ root.at = Hfs0HeaderOffset
         /\ SecureIndex(root.header) # 0
         /\ p.at = root.at + PartitionSize(root.header)
                           + root.header.table[SecureIndex(root.header)].dataOffset

\* The data of an entry, as the format has it: behind the header of its partition.
Placed(p, i) ==
    [name |-> NameOf(p.header, i),
     at |-> p.at + PartitionSize(p.header) + p.header.table[i].dataOffset,
     size |-> p.header.table[i].dataSize]

\* What an install is to read.
ReadExts == {"nca", "ncz", "tik", "cert"}

\* The headers are in the format and say where the data is; an entry is named
\* once; NCAs, tickets and certificates are not empty.
SoundImage(f) ==
    /\ \A p, q \in f.partitions : p.at = q.at => p = q
    /\ \A p \in f.partitions :
         /\ p.at \in Nat /\ p.header.magic \in {"PFS0", "HFS0"} /\ p.header.stringSize \in Nat
         /\ p.header.table \in Seq([dataOffset : Nat, dataSize : Nat, nameOffset : Nat])
         /\ HasContents(f, p) =>
              /\ f.data = {Placed(p, i) : i \in DOMAIN p.header.table}
              /\ \A i, j \in DOMAIN p.header.table :
                    NameOf(p.header, i) = NameOf(p.header, j) => i = j
              /\ \A i \in DOMAIN p.header.table :
                    NameOf(p.header, i).ext \in ReadExts => p.header.table[i].dataSize > 0

ImagesSound == \A f \in Images : SoundImage(f)

-----------------------------------------------------------------------------
(* Properties *)

\* Whatever name the folder takes, the install finds a container for it:
\* IsSupportedExt and InstallFromSource agree.  And unless the host's image
\* has entries that overlap, an entry is never behind the stream, however the
\* file table orders them.
Overlap(d, e) == d # e /\ d.at < e.at + e.size /\ e.at < d.at + d.size
NeverRefused ==
    /\ rc # "ContainerNotFound"
    /\ rc = "BadSeek" => \E d, e \in image.data : Overlap(d, e)

\* What is read for an entry is the data of that entry: the offsets of padded
\* headers, nested partitions and the sorted table all lead to it.  For a PFS0
\* this is the round trip from Nsp::Build to Nsp::GetCollections.
ReadsItsData ==
    \A entry \in got :
        [name |-> entry.name, at |-> entry.offset, size |-> entry.size] \in image.data

\* When the contents are registered every ticket of the container has the
\* data of its own .tik and .cert, and no NCA was passed over.
AllTaken ==
    spc = "entries" /\ next > Len(collections) =>
        /\ \A id \in DOMAIN tickets : tickets[id] = {"tik", "cert"}
        /\ {d \in image.data : d.name.ext \in {"nca", "ncz"}}
             \subseteq {[name |-> e.name, at |-> e.offset, size |-> e.size] : e \in got}

\* Wherever Setup failed, after ~Yati no service, session or sleep lock is
\* left, and an Exit too many never takes a service from somebody else: while
\* entries are installed all services are there, although parse_keys has left
\* two of them, one of which Setup had entered before.
ServicesBalanced ==
    /\ spc \in {"idle", "done", "dispatch", "root", "secure"} =>
         /\ \A s \in Services : refCount[s] = 0
         /\ connected = {} /\ sessions = {} /\ ~sleepDisabled
    /\ spc \in {"tickets", "entries"} =>
         /\ connected = {"splCrypto", "ns", "es"}
         /\ sessions = Sessions /\ sleepDisabled
=============================================================================
