---------------------------- MODULE InstallFolder ----------------------------
(***************************************************************************)
(* The virtual folder of FsInstall (source/main.cpp): m_entries, the file  *)
(* the MTP responder has open in it and a directory it is reading.         *)
(*                                                                         *)
(* A name is a record: the stem, the suffixes that follow it, the          *)
(* extension and whether it is written in capitals.  A suffix i > 0 stands *)
(* for "(i)", a suffix -t for "_t" with t the system tick.                 *)
(***************************************************************************)
EXTENDS Integers, Sequences

CONSTANTS
    HostNames,    \* the names the host gives to files
    LongStems,    \* stems that leave no room for a suffix in char[300]
    Sizes,        \* the sizes the host announces or sets
    MaxNumber,    \* where the numbering of duplicates ends, 1000 in the code
    MaxEntries,   \* files the host creates (bounds the run)
    MaxRead       \* entries the responder asks for at a time (bounds the run)

NameType == [stem : STRING, suffix : Seq(Int), ext : STRING, upper : BOOLEAN]

ASSUME FolderAssumption ==
    /\ HostNames \subseteq NameType
    /\ LongStems \subseteq STRING
    /\ Sizes \subseteq Nat
    /\ MaxNumber \in Nat \ {0} /\ MaxEntries \in Nat /\ MaxRead \in Nat \ {0}

VARIABLES
    entries,   \* m_entries: name and size, in the order of creation
    file,      \* the open FsFile: object_id, own_handle, and the name it was opened by
    dir,       \* the open FsDir: object_id; and, observed, the names it has returned,
               \* whether the last read got nothing, and the entries there then
    reply      \* the Result of the last call that can be refused

folderVars == <<entries, file, dir, reply>>

NoFile == [id |-> 0, write |-> FALSE, name |-> [stem |-> "", suffix |-> <<>>, ext |-> "", upper |-> FALSE]]
NoDir == [open |-> FALSE, id |-> 0, listed |-> <<>>, atEnd |-> FALSE, total |-> 0]

FolderInit ==
    /\ entries = <<>>
    /\ file = NoFile
    /\ dir = NoDir
    /\ reply = "ok"

\* strcasecmp
SameName(a, b) ==
    a.stem = b.stem /\ a.suffix = b.suffix /\ a.ext = b.ext

IsSupportedExt(name) == name.ext \in {"nsp", "nsz", "xci", "xcz"}

Matches(name) == {i \in DOMAIN entries : SameName(name, entries[i].name)}
Exists(name) == Matches(name) # {}

\* std::find_if: the first entry of that name.
Found(name) == CHOOSE i \in Matches(name) : \A j \in Matches(name) : i <= j

\* snprintf into char[300]: a long name is cut, and loses what comes last.
WithSuffix(name, s) ==
    IF name.stem \in LongStems
      THEN [name EXCEPT !.suffix = <<>>, !.ext = ""]
      ELSE [name EXCEPT !.suffix = Append(@, s)]

\* Seeded fault: the numbered name is not looked for.
UncheckedNumber(name) ==
    IF ~Exists(name) THEN name ELSE WithSuffix(name, 1)

\* The name itself, the first free number, or the tick, which is later than
\* at every earlier creation.
GenerateUniqueName(name) ==
    LET free == {i \in 1 .. MaxNumber - 1 : ~Exists(WithSuffix(name, i))} IN
    IF ~Exists(name) THEN name
    ELSE IF free # {} THEN WithSuffix(name, CHOOSE i \in free : \A j \in free : i <= j)
    ELSE WithSuffix(name, -(Len(entries) + 1))

Refuse(rc) == reply' = rc /\ UNCHANGED <<entries, file, dir>>

CreateFile(name, size) ==
    /\ Len(entries) < MaxEntries
    /\ IF ~IsSupportedExt(name)
         THEN Refuse("NotImplemented")
         ELSE /\ entries' = Append(entries, [name |-> GenerateUniqueName(name), size |-> size])
              /\ reply' = "ok"
              /\ UNCHANGED <<file, dir>>

\* The checks of OpenFile, for a file opened to be written.
OpenRefusal(name) ==
    IF ~IsSupportedExt(name) THEN "NotImplemented"
    ELSE IF ~Exists(name) THEN "PathNotFound" ELSE "ok"

OpenFileRefused(name) ==
    /\ OpenRefusal(name) # "ok"
    /\ Refuse(OpenRefusal(name))

\* OpenFile as far as the folder goes; the install it starts is a conjunct of
\* the composed action.
OpenFile(name) ==
    /\ OpenRefusal(name) = "ok"
    /\ file' = [id |-> Found(name), write |-> TRUE, name |-> name]
    /\ reply' = "ok"
    /\ UNCHANGED <<entries, dir>>

\* GetFileSize reads the same entry.
SetFileSize(size) ==
    /\ file.write
    /\ entries' = [entries EXCEPT ![file.id].size = size]
    /\ UNCHANGED <<file, dir, reply>>

\* WriteFile after its Push: the entry grows to the end of what was written.
GrowFile(end) ==
    /\ entries' = [entries EXCEPT ![file.id].size = IF @ < end THEN end ELSE @]
    /\ UNCHANGED <<file, dir, reply>>

\* CloseFile as far as the folder goes: memset.
CloseFile ==
    /\ file.write
    /\ file' = NoFile
    /\ UNCHANGED <<entries, dir, reply>>

Names == [i \in DOMAIN entries |-> entries[i].name]

OpenDirectory ==
    /\ ~dir.open
    /\ dir' = [NoDir EXCEPT !.open = TRUE]
    /\ UNCHANGED <<entries, file, reply>>

\* At most n entries from where the last call ended; none means the end.
ReadDirectory(n) ==
    /\ dir.open
    /\ LET got == IF Len(entries) - dir.id < n THEN Len(entries) - dir.id ELSE n IN
       dir' = [dir EXCEPT !.id = @ + got,
                          !.listed = @ \o SubSeq(Names, dir.id + 1, dir.id + got),
                          !.atEnd = (got = 0), !.total = Len(entries)]
    /\ UNCHANGED <<entries, file, reply>>

CloseDirectory ==
    /\ dir.open
    /\ dir' = NoDir
    /\ UNCHANGED <<entries, file, reply>>

\* What a host does in the folder while no file is open.
\* DeleteFile, CreateDirectory and the calls that are not implemented change
\* nothing.
FolderNext ==
    \/ \E name \in HostNames, size \in Sizes : CreateFile(name, size)
    \/ \E name \in HostNames : OpenFileRefused(name)
    \/ OpenDirectory
    \/ \E n \in 1 .. MaxRead : ReadDirectory(n)
    \/ CloseDirectory

\* GetDirectoryEntryCount
GetDirectoryEntryCount == Len(entries)

\* GetEntryType: every path with a separator is a directory; only a bare name
\* is looked up among the entries.
GetEntryType(path) ==
    IF path.separator \/ path.name.stem = "" THEN "Dir"
    ELSE IF Exists(path.name) THEN "File" ELSE "PathNotFound"

\* The host gives no name that has a tick in it.
HostHasNoTicks ==
    \A name \in HostNames : \A k \in 1 .. Len(name.suffix) : name.suffix[k] >= 0

-----------------------------------------------------------------------------
(* Properties *)

\* CreateFile keeps names apart, whatever names the host picks, numbered ones
\* among them, and however they are written; names too long for a suffix
\* excepted.
UniqueNames ==
    \A i, j \in DOMAIN entries :
        /\ entries[i].name.stem \notin LongStems
        /\ SameName(entries[i].name, entries[j].name)
        => i = j
=============================================================================
