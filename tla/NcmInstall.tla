----------------------------- MODULE NcmInstall -----------------------------
(***************************************************************************)
(* How yati turns the entries of a container into an installed title       *)
(* (yati.cpp: InstallInternal, InstallInternalStream and what they call).  *)
(* An install is a sequence of calls to the console's services: content    *)
(* storage, content meta database, tickets, application records.  Each is  *)
(* a step here, any one may fail, and the console may lose power between   *)
(* any two; then the next install starts from what is left.                *)
(*                                                                         *)
(* A content id stands for the NCA it is the hash of.  A package is the    *)
(* sequence of its entries [id, kind, off, tik, key, infos]: kind is       *)
(* "nca", "cnmt", "tik" or "cert"; off orders the entries in the source;   *)
(* tik is the ticket an NCA needs, or NoTicket; key and infos are what the *)
(* meta file inside a cnmt NCA says.                                       *)
(***************************************************************************)
EXTENDS Integers, Sequences, FiniteSets, SequencesExt

CONSTANTS
    Packages,    \* the containers that may be installed
    Devices,     \* what may be installed already: [contents, db, tickets]
    Modes,       \* "stream": InstallInternalStream, "file": InstallInternal
    NoTicket,
    MaxRuns,     \* number of installs (bounds the run)
    MaxFaults    \* number of failed calls and power losses (bounds the run)

Storages == {"nand", "sd"}
Dest == "sd"                 \* sd_card_install
Delta == 6                   \* NcmContentType_DeltaFragment

ASSUME NcmAssumption ==
    /\ Modes \subseteq {"stream", "file"}
    /\ MaxRuns \in Nat /\ MaxFaults \in Nat
    /\ \A d \in Devices : d.db = [s \in Storages |-> d.db[s]]
    /\ \A p \in Packages : \A i, j \in 1 .. Len(p) : p[i].off = p[j].off => i = j

VARIABLES
    contents,    \* registered contents of each storage
    holders,     \* placeholders of the SD card: <<content id, install>>
    db,          \* meta database of each storage: set of [key, infos]
    disk,        \* what of db has been committed
    tickets,     \* imported tickets
    records,     \* keys whose application record has been pushed
    launch,      \* application -> launch version pushed
    mode, pkg,   \* what is being installed and how
    pc,          \* where the install is
    todo,        \* entries InstallNca still has to take
    mOffset,     \* Stream::m_offset
    skipped,     \* ids of the NCAs found installed
    tikRead,     \* <<kind, id>> of the ticket and cert data read so far
    required,    \* tickets some NCA asked for
    parsed,      \* cnmts whose meta file has been parsed
    passed,      \* ids of the cnmts for which skip was set
    cur,         \* the cnmt being committed
    latest,      \* latest_version_num
    victim,      \* the database entry being removed, its contents left to delete
    toRegister,  \* NCAs still to be registered
    rc,          \* how the last install ended
    run,         \* number of installs begun
    faults,      \* number of faults so far
    faulty,      \* this install met a failed call
    unlisted     \* history: <<key of a cnmt, storage its decision did not see>>

storage == <<contents, holders>>
meta == <<db, disk>>
outside == <<tickets, records, launch>>
device == <<storage, meta, outside>>
fixed == <<mode, pkg>>
scan == <<mOffset, skipped, tikRead, required, parsed>>
plan == <<passed, cur, latest, victim, toRegister>>
job == <<fixed, scan, plan>>
book == <<rc, run, faults, faulty, unlisted>>
vars == <<device, job, pc, todo, book>>

\* The members of s that are in S, in their order.
Kept(s, S) ==
    LET kept[i \in 0 .. Len(s)] ==
          IF i = 0 THEN <<>> ELSE IF s[i] \in S THEN Append(kept[i - 1], s[i]) ELSE kept[i - 1]
    IN kept[Len(s)]

\* The orders std::ranges::sort may leave s in: of equal elements it says nothing.
Sorted(s, Before(_, _)) ==
    {t \in {[i \in 1 .. Len(s) |-> s[order[i]]] : order \in Bijection(1 .. Len(s), 1 .. Len(s))} :
        \A i, j \in 1 .. Len(s) : i < j => ~Before(t[j], t[i])}

Entries(p, kind) == Kept(p, {e \in Range(p) : e.kind = kind})
Has(s, P(_)) == \E i \in 1 .. Len(s) : P(s[i])
Named(p, id) == CHOOSE e \in Range(p) : e.id = id /\ e.kind \in {"nca", "cnmt"}
NoVictim == [in |-> "none", key |-> 0, left |-> {}]

Init ==
    /\ \E d \in Devices : contents = d.contents /\ db = d.db /\ disk = d.db /\ tickets = d.tickets
    /\ holders = {} /\ records = {} /\ launch = <<>>
    /\ mode = "none" /\ pkg = <<>> /\ pc = "idle" /\ todo = <<>> /\ mOffset = 0
    /\ skipped = {} /\ tikRead = {} /\ required = {} /\ parsed = <<>> /\ passed = {} /\ cur = 1
    /\ latest = 0 /\ victim = NoVictim /\ toRegister = <<>>
    /\ rc = "none" /\ run = 0 /\ faults = 0 /\ faulty = FALSE /\ unlisted = {}

-----------------------------------------------------------------------------
(* Setup, tickets and the order of the entries *)

\* Seeded fault: the entries are taken in the order of the container.
Unsorted == [p \in Packages |-> {p}]

\* std::ranges::sort by offset: a stream cannot be read backwards.
InStreamOrder == [p \in Packages |-> Sorted(p, LAMBDA a, b : a.off < b.off)]

\* InstallFromCollections, Setup and ParseTicketsIntoCollection: every ticket
\* has its cert.  A stream reads their data later.  A file takes one cnmt at a
\* time, a stream all entries in their order.
Begin(p, m) ==
    /\ pc = "idle" /\ run < MaxRuns
    /\ run' = run + 1 /\ rc' = "none" /\ faulty' = FALSE /\ unlisted' = {}
    /\ mode' = m /\ pkg' = p
    /\ mOffset' = 0 /\ skipped' = {} /\ required' = {} /\ parsed' = <<>> /\ passed' = {} /\ cur' = 1
    /\ latest' = 0 /\ victim' = NoVictim /\ toRegister' = <<>>
    /\ tikRead' = IF m = "file" THEN {<<e.kind, e.id>> : e \in {x \in Range(p) : x.kind \in {"tik", "cert"}}}
                                ELSE {}
    /\ todo' \in IF m = "stream" THEN InStreamOrder[p]
                 ELSE {IF Entries(p, "cnmt") = <<>> THEN <<>> ELSE <<Head(Entries(p, "cnmt"))>>}
    /\ pc' = IF \A t \in Range(Entries(p, "tik")) : Has(p, LAMBDA c : c.kind = "cert" /\ c.id = t.id)
               THEN IF m = "file" /\ Entries(p, "cnmt") = <<>> THEN "cleanup" ELSE "install"
               ELSE "fail"
    /\ UNCHANGED <<device, faults>>

\* A stream cannot go back; a file can.
ReadTo(e) == mOffset' = IF mode = "stream" THEN e.off ELSE mOffset
CanRead(e) == mode = "stream" => e.off >= mOffset

-----------------------------------------------------------------------------
(* InstallNca and InstallCnmtNca *)

HasTicket(e) == e.tik = NoTicket \/ Has(pkg, LAMBDA t : t.kind = "tik" /\ t.id = e.tik)
\* Seeded fault: an NCA without a rights id asks for a ticket, too.
MarkAlways(e) == required' = required \cup {e.tik}

\* GetTicketCollection: the ticket is required from now on.
Mark(e) == required' = required \cup ({e.tik} \ {NoTicket})

\* What follows an entry.
AfterEntry(e) ==
    IF e.kind = "cnmt" THEN pc' = "parse" /\ UNCHANGED todo
                       ELSE pc' = "install" /\ todo' = Tail(todo)

\* Seeded fault: the ticket of an NCA that is there already is not asked for.
SkipUnmarked ==
    /\ pc = "install" /\ todo # <<>> /\ mode = "file"
    /\ LET e == Head(todo) IN
         /\ e.kind \in {"nca", "cnmt"} /\ e.id \in contents[Dest]
         /\ skipped' = skipped \cup {e.id}
         /\ AfterEntry(e)
    /\ UNCHANGED <<device, fixed, plan, book, mOffset, tikRead, required, parsed>>

\* skip_if_already_installed, which a stream switches off: the NCA is there.
SkipInstalled ==
    /\ pc = "install" /\ todo # <<>> /\ mode = "file"
    /\ LET e == Head(todo) IN
         /\ e.kind \in {"nca", "cnmt"} /\ e.id \in contents[Dest]
         /\ skipped' = skipped \cup {e.id}
         /\ IF HasTicket(e) THEN Mark(e) /\ AfterEntry(e)
                            ELSE pc' = "fail" /\ UNCHANGED <<required, todo>>
    /\ UNCHANGED <<device, fixed, plan, book, mOffset, tikRead, parsed>>

CreatePlaceHolder ==
    /\ pc = "install" /\ todo # <<>>
    /\ LET e == Head(todo) IN
         /\ e.kind \in {"nca", "cnmt"}
         /\ mode = "file" => e.id \notin contents[Dest]
         /\ holders' = holders \cup {<<e.id, run>>}
    /\ pc' = "fill"
    /\ UNCHANGED <<job, meta, outside, book, contents, todo>>

\* The pipeline fills the placeholder; on the way the NCA's ticket is asked for.
FillPlaceHolder ==
    /\ pc = "fill"
    /\ LET e == Head(todo) IN
         IF HasTicket(e) /\ CanRead(e)
           THEN Mark(e) /\ ReadTo(e) /\ AfterEntry(e)
           ELSE pc' = "fail" /\ UNCHANGED <<required, mOffset, todo>>
    /\ UNCHANGED <<device, fixed, plan, book, skipped, tikRead, parsed>>

\* The data of a ticket or cert of a stream; a cert alone belongs to no ticket.
ReadTicketData ==
    /\ pc = "install" /\ todo # <<>>
    /\ LET e == Head(todo) IN
         /\ e.kind \in {"tik", "cert"}
         /\ IF CanRead(e) /\ Has(pkg, LAMBDA t : t.kind = "tik" /\ t.id = e.id)
              THEN tikRead' = tikRead \cup {<<e.kind, e.id>>} /\ ReadTo(e)
                     /\ todo' = Tail(todo) /\ UNCHANGED pc
              ELSE pc' = "fail" /\ UNCHANGED <<tikRead, mOffset, todo>>
    /\ UNCHANGED <<device, fixed, plan, book, skipped, required, parsed>>

\* The infos of the cnmt, but for delta fragments, and their NCAs.
Wanted(c) == Kept(c.infos, {i \in Range(c.infos) : i.type # Delta})
NcaIds(c) == {i.id : i \in Range(Wanted(c))}
Ncas(c) == Sorted(Wanted(c), LAMBDA a, b : a.type > b.type)

\* ParseCnmt and the search for the NCAs it names.  A file goes on with those.
ParseCnmt ==
    /\ pc = "parse"
    /\ LET c == Head(todo) IN
         IF \A id \in NcaIds(c) : Has(pkg, LAMBDA e : e.kind = "nca" /\ e.id = id)
           THEN /\ parsed' = Append(parsed, c)
                /\ todo' = Tail(todo)
                /\ pc' = IF mode = "file" THEN "decide" ELSE "install"
           ELSE pc' = "fail" /\ UNCHANGED <<parsed, todo>>
    /\ UNCHANGED <<device, fixed, plan, book, mOffset, skipped, tikRead, required>>

\* The entries are done: a stream decides only now, a file imports its tickets.
EntriesDone ==
    /\ pc = "install" /\ todo = <<>>
    /\ pc' = IF mode = "file" THEN "import" ELSE IF parsed = <<>> THEN "cleanup" ELSE "decide"
    /\ UNCHANGED <<device, job, book, todo>>

-----------------------------------------------------------------------------
(* GetLatestVersion and ShouldSkip *)

Cnmt == parsed[cur]
KeysOf(d, app) == {e.key : e \in {x \in d["nand"] \cup d["sd"] : x.key.app = app}}
HighestOf(S) == CHOOSE n \in S : \A m \in S : m <= n

\* The keys of an application that GetLatestVersion sees: a storage of lost,
\* whose first List failed, is passed over.
Listed(app, lost) == KeysOf([s \in Storages |-> IF s \in lost THEN {} ELSE db[s]], app)

\* Seeded fault: an older patch is installed over a newer one.
IgnoreLower(c, lost) == c.key.type = "Unknown"

ShouldSkip(c, lost) ==
    \/ mode = "file" /\ \E k \in Listed(c.key.app, lost) : k.id = c.key.id /\ k.version = c.key.version
    \/ mode = "file" /\ \E e \in db[Dest] : e.key = c.key
    \/ c.key.type = "Patch"
         /\ \E k \in Listed(c.key.app, lost) : k.type = "Patch" /\ k.version > c.key.version
    \/ c.key.type = "Unknown"

LatestVersion(c, lost) ==
    IF c.key.type = "Patch" THEN c.key.version
    ELSE HighestOf({c.key.version} \cup {k.version : k \in Listed(c.key.app, lost)})

\* The cnmt is done.  A stream takes the next; a file cleans up first.
Advance ==
    /\ IF mode = "stream" /\ cur < Len(parsed)
         THEN pc' = "decide" /\ cur' = cur + 1
         ELSE pc' = "cleanup" /\ UNCHANGED cur
    /\ UNCHANGED todo

\* The first List of a storage may fail without the install noticing.
Decide ==
    /\ pc = "decide"
    /\ \E lost \in SUBSET Storages :
         /\ faults + Cardinality(lost) <= MaxFaults
         /\ faults' = faults + Cardinality(lost)
         /\ faulty' = (faulty \/ lost # {})
         /\ unlisted' = unlisted \cup ({Cnmt.key} \X lost)
         /\ latest' = LatestVersion(Cnmt, lost)
         /\ IF ShouldSkip(Cnmt, lost)
              THEN /\ Advance
                   /\ passed' = passed \cup {Cnmt.id}
              ELSE /\ UNCHANGED <<cur, passed>>
                   /\ IF mode = "file"
                        THEN /\ pc' = "install"
                             /\ \E ncas \in Ncas(Cnmt) :
                                  todo' = [i \in 1 .. Len(ncas) |-> Named(pkg, ncas[i].id)]
                        ELSE pc' = "import" /\ UNCHANGED todo
    /\ UNCHANGED <<device, fixed, scan, rc, run, victim, toRegister>>

-----------------------------------------------------------------------------
(* ImportTickets *)

ImportTicket ==
    /\ pc = "import" /\ required # {}
    /\ \E t \in required :
         IF {<<"tik", t>>, <<"cert", t>>} \subseteq tikRead
           THEN tickets' = tickets \cup {t} /\ required' = required \ {t} /\ UNCHANGED pc
           ELSE pc' = "fail" /\ UNCHANGED <<tickets, required>>
    /\ UNCHANGED <<storage, meta, fixed, plan, book, records, launch, todo, mOffset, skipped, tikRead, parsed>>

TicketsDone ==
    /\ pc = "import" /\ required = {}
    /\ pc' = "remove"
    /\ UNCHANGED <<device, job, book, todo>>

-----------------------------------------------------------------------------
(* RemoveInstalledNcas *)

\* Seeded fault: only the very same id and version is looked for.
SameVersion(s) == {e \in db[s] : e.key = Cnmt.key}

\* Seeded fault: whatever is installed, all ids of its type are looked for.
SameType(s) == {e \in db[s] : e.key.type = Cnmt.key.type /\ e.key.app = Cnmt.key.app}

\* A patch replaces every patch of its application, anything else its own id.
Replaced(s) ==
    {e \in db[s] : /\ e.key.type = Cnmt.key.type /\ e.key.app = Cnmt.key.app
                   /\ Cnmt.key.type # "Patch" => e.key.id = Cnmt.key.id}

\* Seeded fault: what was skipped because it is installed is deleted all the same.
Deletes(e) == e.infos

\* What was found installed, and is to stay, is not deleted.
ToDelete(e) == e.infos \ (skipped \cap (NcaIds(Cnmt) \cup {Cnmt.id}))

\* The storages are taken in their order.
RemoveNext ==
    /\ pc = "remove"
    /\ \E s \in Storages : \E e \in Replaced(s) :
         /\ s = "sd" => Replaced("nand") = {}
         /\ victim' = [in |-> s, key |-> e.key, left |-> ToDelete(e)]
    /\ pc' = "delete"
    /\ UNCHANGED <<device, fixed, scan, book, passed, cur, latest, toRegister, todo>>

\* ncm::Delete of one content, if it is there.
DeleteContent ==
    /\ pc = "delete"
    /\ \E c \in victim.left :
         /\ contents' = [contents EXCEPT ![victim.in] = @ \ {c}]
         /\ victim' = [victim EXCEPT !.left = @ \ {c}]
    /\ UNCHANGED <<meta, outside, fixed, scan, book, holders, passed, cur, latest, toRegister, pc, todo>>

RemoveKey ==
    /\ pc = "delete" /\ victim.left = {}
    /\ db' = [db EXCEPT ![victim.in] = {e \in @ : e.key # victim.key}]
    /\ pc' = "removeCommit"
    /\ UNCHANGED <<job, storage, outside, book, disk, todo>>

CommitRemoval ==
    /\ pc = "removeCommit"
    /\ disk' = [disk EXCEPT ![victim.in] = db[victim.in]]
    /\ victim' = NoVictim
    /\ pc' = "remove"
    /\ UNCHANGED <<storage, outside, fixed, scan, book, db, passed, cur, latest, toRegister, todo>>

\* The cnmt NCA is registered first, then the others, but for those skipped.
RemoveDone ==
    /\ pc = "remove"
    /\ \A s \in Storages : Replaced(s) = {}
    /\ pc' = "register"
    /\ \E ncas \in Ncas(Cnmt) :
         LET ids == <<Cnmt.id>> \o [i \in 1 .. Len(ncas) |-> ncas[i].id]
         IN toRegister' = Kept(ids, Range(ids) \ skipped)
    /\ UNCHANGED <<device, fixed, scan, book, passed, cur, latest, victim, todo>>

-----------------------------------------------------------------------------
(* RegisterNcasAndPushRecord *)

\* Seeded fault: a content that is there already is not deleted first.
RegisterKeeps ==
    /\ pc = "register" /\ toRegister # <<>>
    /\ pc' = "move"
    /\ UNCHANGED <<device, job, book, todo>>

\* ncm::Register deletes the content, if it is there, ...
RegisterDelete ==
    /\ pc = "register" /\ toRegister # <<>>
    /\ contents' = [contents EXCEPT ![Dest] = @ \ {Head(toRegister)}]
    /\ pc' = "move"
    /\ UNCHANGED <<job, meta, outside, book, holders, todo>>

\* ... and moves the placeholder in its place: it has to exist, the content not.
RegisterMove ==
    /\ pc = "move"
    /\ LET id == Head(toRegister) IN
       IF <<id, run>> \in holders /\ id \notin contents[Dest]
         THEN /\ holders' = holders \ {<<id, run>>}
              /\ contents' = [contents EXCEPT ![Dest] = @ \cup {id}]
              /\ toRegister' = Tail(toRegister)
              /\ pc' = "register"
         ELSE pc' = "fail" /\ UNCHANGED <<storage, toRegister>>
    /\ UNCHANGED <<meta, outside, fixed, scan, book, passed, cur, latest, victim, todo>>

NewEntry == [key |-> Cnmt.key, infos |-> {Cnmt.id} \cup NcaIds(Cnmt)]

SetMeta ==
    /\ pc = "register" /\ toRegister = <<>>
    /\ db' = [db EXCEPT ![Dest] = {e \in @ : e.key # Cnmt.key} \cup {NewEntry}]
    /\ pc' = "commit"
    /\ UNCHANGED <<job, storage, outside, book, disk, todo>>

CommitMeta ==
    /\ pc = "commit"
    /\ disk' = [disk EXCEPT ![Dest] = db[Dest]]
    /\ pc' = "push"
    /\ UNCHANGED <<job, storage, outside, book, db, todo>>

PushRecord ==
    /\ pc = "push"
    /\ records' = records \cup {Cnmt.key}
    /\ pc' = "launch"
    /\ UNCHANGED <<job, storage, meta, book, tickets, launch, todo>>

\* avmPushLaunchVersion; then the cnmt is done.
PushLaunchVersion ==
    /\ pc = "launch"
    /\ launch' = [a \in DOMAIN launch \cup {Cnmt.key.app} |->
                    IF a = Cnmt.key.app THEN latest ELSE launch[a]]
    /\ Advance
    /\ UNCHANGED <<storage, meta, fixed, scan, book, tickets, records, passed, latest, victim, toRegister>>

-----------------------------------------------------------------------------
(* The end of an install, well or badly *)

\* Seeded fault: the placeholders of the cnmts are forgotten.
CleanupForgetsMeta ==
    /\ pc \in {"cleanup", "fail"}
    /\ holders' = {h \in holders : h[2] # run \/ Has(pkg, LAMBDA e : e.kind = "cnmt" /\ e.id = h[1])}
    /\ rc' = IF pc = "cleanup" THEN "ok" ELSE "failed"
    /\ pc' = "idle"
    /\ UNCHANGED <<job, meta, outside, contents, todo, run, faults, faulty, unlisted>>

\* A file that has done one cnmt cleans up and takes the next.
MoreCnmts == mode = "file" /\ cur < Len(Entries(pkg, "cnmt"))

\* ON_SCOPE_EXIT: every placeholder that was created and not registered goes.
Cleanup ==
    /\ pc \in {"cleanup", "fail"}
    /\ holders' = {h \in holders : h[2] # run}
    /\ IF pc = "cleanup" /\ MoreCnmts
         THEN /\ pc' = "install"
              /\ cur' = cur + 1
              /\ todo' = <<Entries(pkg, "cnmt")[cur + 1]>>
              /\ UNCHANGED rc
         ELSE /\ pc' = "idle"
              /\ rc' = IF pc = "cleanup" THEN "ok" ELSE "failed"
              /\ UNCHANGED <<cur, todo>>
    /\ UNCHANGED <<meta, outside, fixed, scan, contents, passed, latest, victim, toRegister, run, faults, faulty,
                   unlisted>>

\* Deciding makes a call under R_TRY only in a file (Has) or for a second List,
\* of a storage with more keys of the application than one.
ChecksADecision ==
    mode = "file" \/ \E s \in Storages : Cardinality({e \in db[s] : e.key.app = Cnmt.key.app}) > 1

\* A call to a service fails, without effect, and R_TRY unwinds.
CallFails ==
    /\ pc \notin {"idle", "cleanup", "fail"}
    /\ pc = "decide" => ChecksADecision
    /\ faults < MaxFaults
    /\ faults' = faults + 1 /\ faulty' = TRUE
    /\ pc' = "fail"
    /\ UNCHANGED <<device, job, todo, rc, run, unlisted>>

\* The power is lost, or the process dies and the service keeps what it has.
Crash ==
    /\ pc # "idle"
    /\ faults < MaxFaults
    /\ faults' = faults + 1 /\ faulty' = TRUE
    /\ pc' = "idle" /\ rc' = "crashed"
    /\ db' \in {db, disk}
    /\ UNCHANGED <<job, storage, outside, disk, todo, run, unlisted>>

Idle == pc = "idle" /\ run = MaxRuns /\ UNCHANGED vars

Next ==
    \/ \E p \in Packages : \E m \in Modes : Begin(p, m)
    \/ SkipInstalled \/ CreatePlaceHolder \/ FillPlaceHolder \/ ReadTicketData
    \/ ParseCnmt \/ EntriesDone \/ Decide \/ ImportTicket \/ TicketsDone
    \/ RemoveNext \/ DeleteContent \/ RemoveKey \/ CommitRemoval \/ RemoveDone
    \/ RegisterDelete \/ RegisterMove \/ SetMeta \/ CommitMeta \/ PushRecord \/ PushLaunchVersion
    \/ Cleanup \/ CallFails \/ Crash \/ Idle

Spec == Init /\ [][Next]_vars

-----------------------------------------------------------------------------
(* What the theorems assume of containers and consoles *)

Titles(p) == {e \in Range(p) : e.kind = "cnmt"}

EntryOf(c) == [key |-> c.key, infos |-> {c.id} \cup NcaIds(c)]

\* All that can ever stand in a meta database.
Known == (UNION {d.db["nand"] \cup d.db["sd"] : d \in Devices})
           \cup {EntryOf(c) : c \in UNION {Titles(p) : p \in Packages}}

\* Two keys are of one title: a patch stands for every patch of its application.
SameTitle(k, l) == k.app = l.app /\ k.type = l.type /\ (k.type = "Patch" \/ k.id = l.id)

\* A container has one NCA of a name, which is its content id.
OneNca ==
    \A p \in Packages : \A x, y \in Range(p) :
        x.id = y.id /\ x.kind \in {"nca", "cnmt"} /\ y.kind \in {"nca", "cnmt"} => x = y

\* A content belongs to one title only.
OneOwner == \A e, f \in Known : e.infos \cap f.infos # {} => SameTitle(e.key, f.key)

\* No two cnmts of a container are for the same title.
DistinctTitles == \A p \in Packages : \A c, d \in Titles(p) : SameTitle(c.key, d.key) => c = d

\* A cnmt lists a content once.
OneInfo ==
    \A p \in Packages : \A c \in Titles(p) : \A i, j \in 1 .. Len(c.infos) :
        c.infos[i].id = c.infos[j].id => i = j

\* A place in the source is a number.
Offsets == \A p \in Packages : \A e \in Range(p) : e.off \in Nat

Items == UNION {Range(p) : p \in Packages}

\* The ticket an NCA needs is part of what its content id is the hash of.
OneTicket == \A x, y \in Items : x.id = y.id => x.tik = y.tik

TikOf(id) == {e.tik : e \in {x \in UNION {Range(p) : p \in Packages} : x.id = id}} \ {NoTicket}

\* The consoles have the tickets of the titles they came with.
DevicesTicketed ==
    \A d \in Devices : \A s \in Storages : \A e \in d.db[s] : \A id \in e.infos : TikOf(id) \subseteq d.tickets

-----------------------------------------------------------------------------
(* Properties *)

Places == {"idle", "install", "fill", "parse", "decide", "import", "remove", "delete", "removeCommit",
           "register", "move", "commit", "push", "launch", "cleanup", "fail"}
Ids == {e.id : e \in UNION {Range(p) : p \in Packages}} \cup UNION {d.contents["nand"] \cup d.contents["sd"] : d \in Devices}
TicketIds == {e.tik : e \in UNION {Range(p) : p \in Packages}} \ {NoTicket}

\* Every variable has its type.
NcmTypeOK ==
    /\ contents \in [Storages -> SUBSET Ids]
    /\ holders \subseteq Ids \X (1 .. MaxRuns)
    /\ DOMAIN db = Storages /\ DOMAIN disk = Storages
    /\ required \subseteq TicketIds
    /\ skipped \subseteq Ids /\ passed \subseteq Ids
    /\ pc \in Places /\ mode \in Modes \cup {"none"}
    /\ cur \in 1 .. (Len(parsed) + 1)
    /\ rc \in {"none", "ok", "failed", "crashed"}
    /\ run \in 0 .. MaxRuns /\ faults \in 0 .. MaxFaults /\ faulty \in BOOLEAN
    /\ unlisted \subseteq {e.key : e \in Known} \X Storages

PatchesOf(d, app) == {k \in KeysOf(d, app) : k.type = "Patch"}

\* The storages whose patches every launch version of the application took into
\* account: no List of them failed for a title of this container but a patch.
Seen(app) ==
    {s \in Storages : \A u \in unlisted : u[1].app = app /\ u[1].type # "Patch" => u[2] # s}

PatchOf(e, app) == e.key.type = "Patch" /\ e.key.app = app

\* The title of c is on the SD card for good: its key is committed, every
\* content of it is registered, its record is pushed, and the launch version is
\* not below any patch that is installed on a storage whose List succeeded.  (It
\* may be below an add-on: for a patch GetLatestVersion looks at no other title.)
IsInstalled(c) ==
    /\ [key |-> c.key, infos |-> {c.id} \cup NcaIds(c)] \in disk[Dest]
    /\ {c.id} \cup NcaIds(c) \subseteq contents[Dest]
    /\ c.key \in records
    /\ \A s \in Seen(c.key.app) : \A e \in db[s] :
         PatchOf(e, c.key.app) => e.key.version <= launch[c.key.app]

\* An install that reports success has installed every title of the container
\* that it did not pass over, whatever earlier installs, failed calls and power
\* losses left behind (InstallInternal, InstallInternalStream).
SuccessMeansInstalled ==
    pc = "idle" /\ rc = "ok" => \A c \in Range(parsed) : c.id \in passed \/ IsInstalled(c)

Complete(e, s) == e.infos \subseteq contents[s]

\* A title that is installed and whole stays so in every step, but for the one
\* RemoveInstalledNcas is replacing: neither its removals nor the Delete in
\* Register ever reach what another title needs.
InstalledStaysComplete ==
    [][\A s \in Storages : \A e \in db[s] :
          Complete(e, s) => \/ Complete(e, s)'
                            \/ /\ parsed # <<>>
                               /\ e.key.app = Cnmt.key.app /\ e.key.type = Cnmt.key.type
                               /\ Cnmt.key.type = "Patch" \/ e.key.id = Cnmt.key.id]_vars

\* From the moment its key is set, a patch is the only one of its application,
\* on either storage, whatever was installed where.
PatchReplacesAll ==
    pc \in {"commit", "push", "launch"} /\ Cnmt.key.type = "Patch"
        => PatchesOf(db, Cnmt.key.app) = {Cnmt.key}

\* yati.cpp:1279: an install of a patch removes all previously installed
\* patches; so no application ever has two.
AtMostOnePatch ==
    \A k \in {e.key : e \in db["nand"] \cup db["sd"]} : Cardinality(PatchesOf(db, k.app)) <= 1

\* A patch is removed for an older one only from a storage that could not be
\* listed when that one was decided.
NoDowngrade ==
    [][pc' = "removeCommit" => \A s \in Storages : \A e \in db[s] :
          e \notin db'[s] /\ e.key.type = "Patch"
            => e.key.version <= Cnmt.key.version \/ <<Cnmt.key, s>> \in unlisted]_vars

\* An install that returns, well or badly, leaves no placeholder of its own;
\* only a power loss does.
NoPlaceholderLeft ==
    pc = "idle" /\ rc # "crashed" => \A h \in holders : h[2] # run

\* A title that is in the database has the tickets its contents need.
TicketsBeforeContents ==
    \A s \in Storages : \A e \in db[s] : \A id \in e.infos : TikOf(id) \subseteq tickets

WellFormed(p) ==
    /\ \A e \in Range(p) :
         /\ e.kind \in {"tik", "cert"} => {x.kind : x \in {y \in Range(p) : y.id = e.id}} = {"tik", "cert"}
         /\ e.tik # NoTicket => Has(p, LAMBDA t : t.kind = "tik" /\ t.id = e.tik)
    /\ \A c \in Range(Entries(p, "cnmt")) : \A id \in NcaIds(c) : Has(p, LAMBDA e : e.kind = "nca" /\ e.id = id)

\* An install of a sound container fails only when a call fails during it: what
\* an interrupted install left behind never stands in the way of the next.
FailsOnlyByFault ==
    pc = "idle" /\ rc = "failed" => faulty \/ ~WellFormed(pkg)
=============================================================================
