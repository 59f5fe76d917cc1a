------------------------ MODULE InstallSessionProofs ------------------------
(***************************************************************************)
(* What the virtual folder and the service guards keep while installs run, *)
(* for any names, sizes and images, any number of entries and installs and *)
(* directory reads of any size; what Nsp::GetCollections reads of a header *)
(* that Nsp::Build wrote, for every list of entries; and what an install   *)
(* takes of an image, for every sound image.                               *)
(***************************************************************************)
EXTENDS InstallSession, DataInduction

-----------------------------------------------------------------------------
(* The folder *)

\* NameType, for provers that know of no member of STRING.
Texts == STRING \cup {""}
FileName == [stem : Texts, suffix : Seq(Int), ext : Texts, upper : BOOLEAN]

EntryType == [name : FileName, size : Nat]
DirType == [open : BOOLEAN, id : Nat, listed : Seq(FileName), atEnd : BOOLEAN, total : Nat]
FileType == [id : Nat, write : BOOLEAN, name : FileName]

FolderTypes == entries \in Seq(EntryType) /\ dir \in DirType /\ file \in FileType

\* object_id is the number of names returned, which are those of the first
\* entries; a directory that is read to its end had no more.
ListedFromTheStart ==
    /\ dir.id = Len(dir.listed) /\ dir.id <= Len(entries)
    /\ \A i \in 1 .. dir.id : dir.listed[i] = entries[i].name
    /\ dir.atEnd => dir.id = dir.total

FolderInv == FolderTypes /\ ListedFromTheStart

\* A suffix is a tick only if it is negative, and a tick is no later than the
\* creation of its entry.
TicksArePast ==
    \A i \in 1 .. Len(entries) : \A k \in 1 .. Len(entries[i].name.suffix) :
        entries[i].name.suffix[k] >= -i

NamesApart == UniqueNames /\ TicksArePast

\* A generated name is the name, a number behind it or the next tick; all
\* three are names, of the same stem.
LEMMA GeneratedNames ==
    ASSUME FolderTypes, NEW name \in FileName
    PROVE  LET unique == GenerateUniqueName(name) IN
           /\ unique \in FileName /\ unique.stem = name.stem
           /\ \/ unique = name /\ ~Exists(unique)
              \/ \E i \in 1 .. MaxNumber - 1 : unique = WithSuffix(name, i) /\ ~Exists(unique)
              \/ unique = WithSuffix(name, -(Len(entries) + 1))
  <1>0. Len(entries) \in Nat /\ MaxNumber \in Nat
    BY FolderAssumption DEF FolderTypes
  <1>1. ASSUME NEW s \in Int
        PROVE  WithSuffix(name, s) \in FileName /\ WithSuffix(name, s).stem = name.stem
    <2>1. name.suffix \in Seq(Int) /\ Append(name.suffix, s) \in Seq(Int) /\ <<>> \in Seq(Int)
      BY DEF FileName
    <2>2. /\ [name EXCEPT !.suffix = <<>>, !.ext = ""] \in FileName
          /\ [name EXCEPT !.suffix = <<>>, !.ext = ""].stem = name.stem
      <3>1. "" \in Texts
        BY DEF Texts
      <3> DEFINE none == <<>>
      <3>2. none \in Seq(Int)
        BY <2>1
      <3> HIDE DEF none
      <3>3. /\ [name EXCEPT !.suffix = none, !.ext = ""] \in FileName
            /\ [name EXCEPT !.suffix = none, !.ext = ""].stem = name.stem
        BY <3>1, <3>2 DEF FileName
      <3> QED BY <3>3 DEF none
    <2>3. /\ [name EXCEPT !.suffix = Append(@, s)] \in FileName
          /\ [name EXCEPT !.suffix = Append(@, s)].stem = name.stem
      <3> DEFINE longer == Append(name.suffix, s)
      <3>1. longer \in Seq(Int) /\ [name EXCEPT !.suffix = Append(@, s)] = [name EXCEPT !.suffix = longer]
        BY <2>1
      <3> HIDE DEF longer
      <3> QED BY <3>1 DEF FileName
    <2> QED BY <2>2, <2>3 DEF WithSuffix
  <1> DEFINE free == {i \in 1 .. MaxNumber - 1 : ~Exists(WithSuffix(name, i))}
  <1>2. CASE ~Exists(name)
    BY <1>2 DEF GenerateUniqueName
  <1>3. CASE Exists(name) /\ free # {}
    <2>1. \E m \in free : \A j \in free : m <= j
      <3>1. free # {} /\ free \in SUBSET Nat
        BY <1>0, <1>3
      <3> HIDE DEF free
      <3>2. \A S \in SUBSET Nat : S # {} => \E m \in S : \A j \in S : m <= j
        BY LeastMember
      <3> QED BY <3>1, <3>2
    <2> DEFINE least == CHOOSE m \in free : \A j \in free : m <= j
    <2>2. least \in free
      <3> HIDE DEF free
      <3> QED BY <2>1
    <2>3. least \in 1 .. MaxNumber - 1 /\ ~Exists(WithSuffix(name, least)) /\ least \in Int
      BY <1>0, <2>2
    <2>4. GenerateUniqueName(name) = WithSuffix(name, least)
      BY <1>3 DEF GenerateUniqueName
    <2> HIDE DEF least, free
    <2> QED BY <1>1, <2>3, <2>4
  <1>4. CASE Exists(name) /\ free = {}
    BY <1>0, <1>1, <1>4 DEF GenerateUniqueName
  <1> QED BY <1>2, <1>3, <1>4

\* Entries that keep their names, and a directory that is left alone.
LEMMA NamesStay ==
    ASSUME FolderInv, entries' \in Seq(EntryType), Len(entries') = Len(entries),
           \A i \in 1 .. Len(entries) : entries'[i].name = entries[i].name,
           dir' = dir, file' \in FileType
    PROVE  FolderInv' /\ (NamesApart => NamesApart')
  <1>1. DOMAIN entries = 1 .. Len(entries) /\ DOMAIN entries' = 1 .. Len(entries)
    BY DEF FolderInv, FolderTypes
  <1>2. FolderInv'
    BY DEF FolderInv, FolderTypes, ListedFromTheStart
  <1>3. ASSUME NamesApart PROVE NamesApart'
    <2>1. UniqueNames'
      BY <1>1, <1>3 DEF NamesApart, UniqueNames, SameName
    <2>2. TicksArePast'
      BY <1>1, <1>3 DEF NamesApart, TicksArePast
    <2> QED BY <2>1, <2>2 DEF NamesApart
  <1> QED BY <1>2, <1>3

\* A change of one entry's size.
LEMMA ResizedEntry ==
    ASSUME FolderInv, NEW i \in Nat, NEW size \in Nat
    PROVE  LET resized == [entries EXCEPT ![i].size = size] IN
           /\ resized \in Seq(EntryType) /\ Len(resized) = Len(entries)
           /\ \A j \in 1 .. Len(entries) : resized[j].name = entries[j].name
  <1> DEFINE other == [entries[i] EXCEPT !.size = size]
             resized == [entries EXCEPT ![i] = other]
  <1>0. entries \in Seq(EntryType) /\ Len(entries) \in Nat /\ DOMAIN entries = 1 .. Len(entries)
    BY DEF FolderInv, FolderTypes
  <1>1. [entries EXCEPT ![i].size = size] = resized
    OBVIOUS
  <1>2. CASE i \in 1 .. Len(entries)
    <2>1. entries[i] \in EntryType
      BY <1>0, <1>2
    <2>2. other \in EntryType /\ other.name = entries[i].name
      BY <2>1 DEF EntryType
    <2> HIDE DEF other
    <2>3. resized \in Seq(EntryType) /\ Len(resized) = Len(entries)
      BY <1>0, <1>2, <2>2
    <2>4. \A j \in 1 .. Len(entries) : resized[j] = IF j = i THEN other ELSE entries[j]
      BY <1>0
    <2> QED BY <1>1, <2>2, <2>3, <2>4
  <1>3. CASE i \notin 1 .. Len(entries)
    <2>1. resized = entries
      BY <1>0, <1>3
    <2> QED BY <1>0, <1>1, <2>1
  <1> QED BY <1>2, <1>3

LEMMA ResizeSteps ==
    ASSUME FolderInv, Write \/ Resize
    PROVE  FolderInv' /\ (NamesApart => NamesApart')
  <1>0. file \in FileType /\ file.id \in Nat
    BY DEF FolderInv, FolderTypes, FileType
  <1>1. /\ file' = file /\ dir' = dir
        /\ \E size \in Nat : entries' = [entries EXCEPT ![file.id].size = size]
    <2>1. CASE Resize
      BY <2>1, FolderAssumption DEF Resize, SetFileSize
    <2>2. CASE Write
      <3>1. PICK end \in Sizes : GrowFile(end)
        BY <2>2 DEF Write
      <3> DEFINE size == IF entries[file.id].size < end THEN end ELSE entries[file.id].size
      <3>2. entries' = [entries EXCEPT ![file.id].size = size] /\ UNCHANGED <<file, dir>>
        BY <3>1 DEF GrowFile
      <3>3. CASE file.id \in 1 .. Len(entries)
        <4>1. entries[file.id] \in EntryType
          BY <3>3 DEF FolderInv, FolderTypes
        <4>2. size \in Nat
          BY <4>1, FolderAssumption DEF EntryType
        <4> QED BY <3>2, <4>2
      <3>4. CASE file.id \notin 1 .. Len(entries)
        <4>1. DOMAIN entries = 1 .. Len(entries)
          BY DEF FolderInv, FolderTypes
        <4>2. entries' = [entries EXCEPT ![file.id].size = 0]
          BY <3>2, <3>4, <4>1
        <4> QED BY <3>2, <4>2
      <3> QED BY <3>3, <3>4
    <2> QED BY <2>1, <2>2
  <1>2. PICK size \in Nat : entries' = [entries EXCEPT ![file.id].size = size]
    BY <1>1
  <1>3. /\ entries' \in Seq(EntryType) /\ Len(entries') = Len(entries)
        /\ \A j \in 1 .. Len(entries) : entries'[j].name = entries[j].name
    BY <1>0, <1>2, ResizedEntry
  <1>4. file' \in FileType
    BY <1>0, <1>1
  <1> QED BY <1>1, <1>3, <1>4, NamesStay

\* A new entry, with a name that was generated for it.
LEMMA CreateFileKeeps ==
    ASSUME FolderInv, NEW name \in HostNames, NEW size \in Sizes, CreateFile(name, size)
    PROVE  FolderInv' /\ (HostHasNoTicks /\ NamesApart => NamesApart')
  <1> DEFINE unique == GenerateUniqueName(name)
             entry == [name |-> unique, size |-> size]
             n == Len(entries)
  <1>0. /\ FolderTypes /\ entries \in Seq(EntryType) /\ n \in Nat /\ DOMAIN entries = 1 .. n
        /\ dir' = dir /\ file' = file /\ file \in FileType /\ dir \in DirType
    BY DEF FolderInv, FolderTypes, CreateFile, Refuse
  <1>1. name \in FileName /\ size \in Nat
    <2>1. name \in NameType /\ size \in Nat
      BY FolderAssumption
    <2> QED BY <2>1 DEF NameType, FileName, Texts
  <1>2. CASE ~IsSupportedExt(name)
    <2>1. entries' = entries
      BY <1>2 DEF CreateFile, Refuse
    <2> QED BY <1>0, <2>1, NamesStay
  <1>3. CASE IsSupportedExt(name)
    <2>1. entries' = Append(entries, entry)
      BY <1>3 DEF CreateFile
    <2>2. /\ unique \in FileName /\ unique.stem = name.stem
          /\ \/ unique = name /\ ~Exists(unique)
             \/ \E i \in 1 .. MaxNumber - 1 : unique = WithSuffix(name, i) /\ ~Exists(unique)
             \/ unique = WithSuffix(name, -(n + 1))
      BY <1>0, <1>1, GeneratedNames
    <2> HIDE DEF unique
    <2>3. entry \in EntryType /\ entry.name = unique
      BY <1>1, <2>2 DEF EntryType
    <2> HIDE DEF entry
    <2>4. /\ entries' \in Seq(EntryType) /\ Len(entries') = n + 1 /\ entries'[n + 1] = entry
          /\ \A i \in 1 .. n : entries'[i] = entries[i]
          /\ DOMAIN entries' = 1 .. n + 1
      BY <1>0, <2>1, <2>3
    <2> HIDE DEF n
    <2>5. FolderInv'
      <3>1. /\ dir.id = Len(dir.listed) /\ dir.id <= n /\ dir.id \in Nat
            /\ \A i \in 1 .. dir.id : dir.listed[i] = entries[i].name
            /\ dir.atEnd => dir.id = dir.total
        BY <1>0 DEF FolderInv, ListedFromTheStart, DirType, n
      <3>2. ListedFromTheStart'
        BY <1>0, <2>4, <3>1 DEF ListedFromTheStart
      <3> QED BY <1>0, <2>4, <3>2 DEF FolderInv, FolderTypes
    <2>6. ASSUME HostHasNoTicks, NamesApart PROVE NamesApart'
      <3>1. /\ \A i, j \in 1 .. n : /\ entries[i].name.stem \notin LongStems
                                    /\ SameName(entries[i].name, entries[j].name)
                                    => i = j
            /\ \A i \in 1 .. n : \A k \in 1 .. Len(entries[i].name.suffix) :
                  entries[i].name.suffix[k] >= -i
        BY <1>0, <2>6 DEF NamesApart, UniqueNames, TicksArePast, n
      <3>2. name.suffix \in Seq(Int) /\ \A k \in 1 .. Len(name.suffix) : name.suffix[k] >= 0
        BY <1>1, <2>6 DEF HostHasNoTicks, FileName
      <3>3. /\ unique.stem \in LongStems => unique = name \/ unique.suffix = <<>>
            /\ unique.stem \notin LongStems => (unique = name /\ ~Exists(unique))
                  \/ \E s \in Int : /\ unique.suffix = Append(name.suffix, s)
                                    /\ (s > 0 /\ ~Exists(unique)) \/ s = -(n + 1)
        <4>1. ASSUME NEW s \in Int, unique = WithSuffix(name, s)
              PROVE  IF unique.stem \in LongStems THEN unique.suffix = <<>>
                     ELSE unique.suffix = Append(name.suffix, s)
          BY <1>1, <2>2, <4>1 DEF WithSuffix, FileName
        <4>2. MaxNumber \in Nat /\ n \in Nat
          BY <1>0, FolderAssumption
        <4> QED BY <2>2, <4>1, <4>2
      <3>4. ~Exists(unique) => \A i \in 1 .. n : ~SameName(unique, entries[i].name)
        BY <1>0 DEF Exists, Matches
      <3>5. \A k \in 1 .. Len(unique.suffix) : unique.suffix[k] >= -(n + 1)
        <4>1. CASE unique = name
          BY <1>0, <3>2, <4>1
        <4>2. CASE unique.suffix = <<>>
          BY <4>2
        <4>3. ASSUME NEW s \in Int, unique.suffix = Append(name.suffix, s), s > 0 \/ s = -(n + 1)
              PROVE  \A k \in 1 .. Len(unique.suffix) : unique.suffix[k] >= -(n + 1)
          <5> DEFINE few == name.suffix
                     more == Append(few, s)
          <5>1. few \in Seq(Int) /\ \A k \in 1 .. Len(few) : few[k] >= 0
            BY <3>2
          <5> HIDE DEF few
          <5>2. /\ Len(more) = Len(few) + 1 /\ more[Len(few) + 1] = s
                /\ \A k \in 1 .. Len(few) : more[k] = few[k] /\ few[k] \in Int
            BY <5>1
          <5>3. \A k \in 1 .. Len(more) : k \in 1 .. Len(few) \/ k = Len(few) + 1
            BY <5>1, <5>2
          <5>4. n \in Nat
            BY <1>0
          <5>5. \A k \in 1 .. Len(more) : more[k] >= -(n + 1)
            BY <4>3, <5>1, <5>2, <5>3, <5>4
          <5> QED BY <4>3, <5>5 DEF few
        <4> QED BY <3>3, <4>1, <4>2, <4>3
      <3>6. ASSUME unique.stem \notin LongStems, NEW i \in 1 .. n, SameName(unique, entries[i].name)
            PROVE  FALSE
        <4>1. ~(~Exists(unique))
          BY <3>4, <3>6
        <4>2. unique.suffix = Append(name.suffix, -(n + 1)) 
          BY <2>2, <3>3, <3>6, <4>1
        <4>3. /\ Len(unique.suffix) = Len(name.suffix) + 1 /\ Len(name.suffix) \in Nat
              /\ unique.suffix[Len(name.suffix) + 1] = -(n + 1)
          BY <3>2, <4>2
        <4>4. entries[i].name.suffix[Len(name.suffix) + 1] >= -i
          BY <3>1, <3>6, <4>3 DEF SameName
        <4> QED BY <1>0, <3>6, <4>3, <4>4 DEF SameName
      <3>7. UniqueNames'
        BY <1>0, <2>3, <2>4, <3>1, <3>6 DEF UniqueNames, SameName
      <3>8. TicksArePast'
        BY <1>0, <2>3, <2>4, <3>1, <3>5 DEF TicksArePast
      <3> QED BY <3>7, <3>8 DEF NamesApart
    <2> QED BY <2>5, <2>6
  <1> QED BY <1>2, <1>3

\* A directory is opened, read or closed: the entries are left alone.
LEMMA DirectoryKeeps ==
    ASSUME FolderInv, OpenDirectory \/ CloseDirectory \/ \E n \in 1 .. MaxRead : ReadDirectory(n)
    PROVE  FolderInv' /\ (NamesApart => NamesApart')
  <1> DEFINE total == Len(entries)
  <1>0. /\ entries \in Seq(EntryType) /\ total \in Nat /\ DOMAIN entries = 1 .. total
        /\ dir \in DirType /\ file \in FileType /\ entries' = entries /\ file' = file
        /\ dir.id = Len(dir.listed) /\ dir.id <= total
        /\ \A i \in 1 .. dir.id : dir.listed[i] = entries[i].name
    <2>1. entries' = entries /\ file' = file
      BY DEF OpenDirectory, CloseDirectory, ReadDirectory
    <2>2. entries \in Seq(EntryType) /\ dir \in DirType /\ file \in FileType /\ ListedFromTheStart
      BY DEF FolderInv, FolderTypes
    <2>3. total \in Nat /\ DOMAIN entries = 1 .. total
      BY <2>2
    <2> QED BY <2>1, <2>2, <2>3 DEF ListedFromTheStart
  <1>1. NamesApart => NamesApart'
    BY <1>0 DEF NamesApart, UniqueNames, TicksArePast
  <1>2. CASE OpenDirectory \/ CloseDirectory
    <2> DEFINE none == <<>>
               start(b) == [open |-> b, id |-> 0, listed |-> none, atEnd |-> FALSE, total |-> 0]
    <2>1. none \in Seq(FileName) /\ Len(none) = 0
      OBVIOUS
    <2>2. dir' = start(TRUE) \/ dir' = start(FALSE)
      <3>1. CASE OpenDirectory
        BY <3>1 DEF OpenDirectory, NoDir
      <3>2. CASE CloseDirectory
        BY <3>2 DEF CloseDirectory, NoDir
      <3> QED BY <1>2, <3>1, <3>2
    <2> HIDE DEF none
    <2>3. dir' \in DirType
      <3>1. ASSUME NEW b \in BOOLEAN PROVE start(b) \in DirType
        BY <2>1 DEF DirType
      <3> HIDE DEF start
      <3> QED BY <2>2, <3>1
    <2>4. dir'.id = Len(dir'.listed) /\ dir'.id = 0 /\ ~dir'.atEnd
      BY <2>1, <2>2
    <2> QED BY <1>0, <1>1, <2>3, <2>4 DEF FolderInv, FolderTypes, ListedFromTheStart
  <1>3. ASSUME NEW n \in 1 .. MaxRead, ReadDirectory(n)
        PROVE  FolderInv'
    <2> DEFINE count == IF total - dir.id < n THEN total - dir.id ELSE n
               piece == SubSeq(Names, dir.id + 1, dir.id + count)
               list == dir.listed
               at == dir.id
    <2>1. dir' = [dir EXCEPT !.id = @ + count, !.listed = @ \o piece, !.atEnd = (count = 0), !.total = total]
      BY <1>3 DEF ReadDirectory
    <2>2. /\ at \in Nat /\ list \in Seq(FileName) /\ at = Len(list) /\ at <= total
          /\ \A i \in 1 .. at : list[i] = entries[i].name
      BY <1>0 DEF DirType
    <2>3. Names \in Seq(FileName) /\ Len(Names) = total /\ \A i \in 1 .. total : Names[i] = entries[i].name
      <3>1. \A i \in 1 .. total : entries[i].name \in FileName
        <4>1. \A i \in 1 .. total : entries[i] \in EntryType
          BY <1>0
        <4> QED BY <4>1 DEF EntryType
      <3>2. Names = [i \in 1 .. total |-> entries[i].name]
        BY <1>0 DEF Names
      <3> HIDE DEF total
      <3> QED BY <1>0, <3>1, <3>2
    <2>4. n \in Nat \ {0}
      BY FolderAssumption
    <2> HIDE DEF at, list, total
    <2>5. count \in Nat /\ at + count <= total /\ (count = 0 => at = total)
      BY <1>0, <2>2, <2>4 DEF at
    <2> HIDE DEF count
    <2>6. /\ piece \in Seq(FileName) /\ Len(piece) = count
          /\ \A i \in 1 .. count : piece[i] = entries[at + i].name
      <3>1. /\ SubSeq(Names, at + 1, at + count) \in Seq(FileName)
            /\ Len(SubSeq(Names, at + 1, at + count)) = count
            /\ \A i \in 1 .. count : SubSeq(Names, at + 1, at + count)[i] = Names[at + i]
        BY <1>0, <2>2, <2>3, <2>5
      <3>2. \A i \in 1 .. count : at + i \in 1 .. total
        BY <1>0, <2>2, <2>5
      <3> QED BY <2>3, <3>1, <3>2 DEF at
    <2> HIDE DEF piece
    <2>7. /\ list \o piece \in Seq(FileName) /\ Len(list \o piece) = at + count
          /\ \A i \in 1 .. at : (list \o piece)[i] = list[i]
          /\ \A i \in 1 .. count : (list \o piece)[at + i] = piece[i]
      <3>1. ASSUME NEW x \in Seq(FileName), NEW y \in Seq(FileName)
            PROVE  /\ x \o y \in Seq(FileName) /\ Len(x \o y) = Len(x) + Len(y)
                   /\ \A i \in 1 .. Len(x) : (x \o y)[i] = x[i]
                   /\ \A i \in 1 .. Len(y) : (x \o y)[Len(x) + i] = y[i]
        OBVIOUS
      <3>2. /\ list \o piece \in Seq(FileName) /\ Len(list \o piece) = Len(list) + Len(piece)
            /\ \A i \in 1 .. Len(list) : (list \o piece)[i] = list[i]
            /\ \A i \in 1 .. Len(piece) : (list \o piece)[Len(list) + i] = piece[i]
        BY <2>2, <2>6, <3>1
      <3> QED BY <2>2, <2>6, <3>2
    <2>8. \A i \in 1 .. at + count : (list \o piece)[i] = entries[i].name
      <3> SUFFICES ASSUME NEW i \in 1 .. at + count PROVE (list \o piece)[i] = entries[i].name
        OBVIOUS
      <3>1. CASE i <= at
        BY <2>2, <2>7, <3>1
      <3>2. CASE i > at
        <4>1. i - at \in 1 .. count /\ at + (i - at) = i
          BY <2>2, <2>5, <3>2
        <4> QED BY <2>6, <2>7, <4>1
      <3>3. i <= at \/ i > at
        BY <2>2, <2>5
      <3> QED BY <3>1, <3>2, <3>3
    <2>9. dir' \in DirType /\ dir'.id = at + count /\ dir'.listed = list \o piece
          /\ dir'.atEnd = (count = 0) /\ dir'.total = total
      <3>1. at + count \in Nat
        BY <2>2, <2>5
      <3>2. dir \in DirType /\ total \in Nat
        BY <1>0
      <3> DEFINE both == list \o piece
      <3>3. both \in Seq(FileName)
        BY <2>7
      <3>4. dir' = [dir EXCEPT !.id = at + count, !.listed = both, !.atEnd = (count = 0), !.total = total]
        BY <2>1 DEF at, list
      <3> HIDE DEF both
      <3>5. dir' \in DirType /\ dir'.id = at + count /\ dir'.listed = both
            /\ dir'.atEnd = (count = 0) /\ dir'.total = total
        BY <3>1, <3>2, <3>3, <3>4 DEF DirType
      <3> QED BY <3>5 DEF both
    <2>10. ListedFromTheStart'
      <3>1. dir'.id = Len(dir'.listed) /\ dir'.id <= total
        BY <2>5, <2>7, <2>9
      <3>2. \A i \in 1 .. dir'.id : dir'.listed[i] = entries[i].name
        BY <2>8, <2>9
      <3>3. dir'.atEnd => dir'.id = dir'.total
        <4>1. count = 0 => at + count = total
          BY <2>2, <2>5
        <4> QED BY <2>9, <4>1
      <3> QED BY <1>0, <3>1, <3>2, <3>3 DEF ListedFromTheStart, total
    <2> QED BY <1>0, <2>9, <2>10 DEF FolderInv, FolderTypes
  <1> QED BY <1>1, <1>2, <1>3

\* Every step leaves the folder as it should be.
LEMMA FolderStep ==
    ASSUME FolderInv, [SessionNext]_sessionVars
    PROVE  FolderInv' /\ (HostHasNoTicks /\ NamesApart => NamesApart')
  <1>0. entries \in Seq(EntryType) /\ Len(entries) \in Nat /\ file \in FileType
    BY DEF FolderInv, FolderTypes
  <1>1. ASSUME UNCHANGED <<entries, dir>>, file' \in FileType
        PROVE  FolderInv' /\ (NamesApart => NamesApart')
    BY <1>0, <1>1, NamesStay
  <1>2. CASE InstallThread \/ UNCHANGED sessionVars
    <2>1. UNCHANGED <<entries, dir, file>>
      BY <1>2 DEF InstallThread, Dispatch, BadMagic, ReadPfs0, ReadRoot, ReadSecure, HeaderReadFails,
            NewYati, SetupCall, SetupFails, SetupReturns, LeaveScope, ParseTickets, TakeNca, TakeTicket,
            StrayCert, SkipEntry, BadSeek, EntryFails, Register, DestroyYati, Outside, folderVars,
            sessionVars
    <2> QED BY <1>0, <1>1, <2>1
  <1>3. ASSUME NEW name \in HostNames, OpenInstall(name)
        PROVE  FolderInv' /\ (NamesApart => NamesApart')
    <2>1. /\ UNCHANGED <<entries, dir>> /\ Exists(name)
          /\ file' = [id |-> Found(name), write |-> TRUE, name |-> name]
      BY <1>3 DEF OpenInstall, OpenFile, OpenRefusal
    <2>2. Found(name) \in Nat
      <3>1. Matches(name) \in SUBSET Nat /\ Matches(name) # {}
        BY <1>0, <2>1 DEF Matches, Exists
      <3>2. \E i \in Matches(name) : \A j \in Matches(name) : i <= j
        <4>1. \A S \in SUBSET Nat : S # {} => \E m \in S : \A j \in S : m <= j
          BY LeastMember
        <4> QED BY <3>1, <4>1
      <3> QED BY <3>1, <3>2 DEF Found
    <2>3. name \in FileName
      <3>1. name \in NameType
        BY FolderAssumption
      <3> QED BY <3>1 DEF NameType, FileName, Texts
    <2>4. file' \in FileType
      BY <2>1, <2>2, <2>3 DEF FileType
    <2> QED BY <1>1, <2>1, <2>4
  <1>4. CASE Close
    <2>1. UNCHANGED <<entries, dir>> /\ file' = NoFile
      BY <1>4 DEF Close, CloseFile
    <2>2. NoFile \in FileType
      <3>1. "" \in Texts /\ <<>> \in Seq(Int)
        BY DEF Texts
      <3> DEFINE none == <<>>
      <3>2. none \in Seq(Int)
        BY <3>1
      <3>3. NoFile = [id |-> 0, write |-> FALSE,
                      name |-> [stem |-> "", suffix |-> none, ext |-> "", upper |-> FALSE]]
        BY DEF NoFile
      <3> HIDE DEF none
      <3> QED BY <3>1, <3>2, <3>3 DEF FileType, FileName
    <2> QED BY <1>1, <2>1, <2>2
  <1>5. CASE Browse
    <2>1. ASSUME NEW name \in HostNames, OpenFileRefused(name)
          PROVE  FolderInv' /\ (NamesApart => NamesApart')
      <3>1. UNCHANGED <<entries, dir, file>>
        BY <2>1 DEF OpenFileRefused, Refuse
      <3> QED BY <1>0, <1>1, <3>1
    <2> QED BY <1>5, <2>1, CreateFileKeeps, DirectoryKeeps DEF Browse, FolderNext
  <1> QED BY <1>2, <1>3, <1>4, <1>5, ResizeSteps DEF SessionNext

-----------------------------------------------------------------------------
(* The services *)

Held(s, n) == refCount[s] = n
AtMostOne(s) == refCount[s] \in {0, 1}
NothingHeld == \A s \in Services : Held(s, 0)

\* Setup has made the calls before next.
SetupUnderWay ==
    /\ next \in 1 .. 13 /\ sleepDisabled
    /\ Held("splCrypto", IF next <= 1 THEN 0 ELSE IF next <= 9 THEN 1 ELSE 2)
    /\ Held("ns", IF next <= 2 THEN 0 ELSE 1)
    /\ Held("es", IF next <= 4 THEN 0 ELSE 1)
    /\ Held("setcal", IF next <= 11 THEN 0 ELSE 1)
    /\ scope = IF next <= 9 THEN <<>> ELSE IF next <= 11 THEN <<"splCrypto">>
                                      ELSE <<"setcal", "splCrypto">>
    /\ next > 3 => "ns_app" \in sessions
    /\ next > 5 => "db1" \in sessions
    /\ next > 6 => "cs1" \in sessions
    /\ next > 7 => "db2" \in sessions
    /\ next > 8 => "cs2" \in sessions

\* What parse_keys entered is left, the last first; the rest is Setup's own,
\* all of it if it was successful.
Leaving ==
    /\ scope \in {<<>>, <<"splCrypto">>, <<"setcal", "splCrypto">>}
    /\ Held("setcal", IF scope = <<"setcal", "splCrypto">> THEN 1 ELSE 0)
    /\ Held("splCrypto", IF scope = <<>> THEN 0 ELSE 1) \/ Held("splCrypto", IF scope = <<>> THEN 1 ELSE 2)
    /\ AtMostOne("ns") /\ AtMostOne("es")
    /\ rc = "ok" => /\ Held("splCrypto", IF scope = <<>> THEN 1 ELSE 2) /\ Held("ns", 1) /\ Held("es", 1)
                    /\ sessions = Sessions /\ sleepDisabled

Places == {"idle", "dispatch", "root", "secure", "new", "setup", "leave", "tickets", "entries",
           "dtor", "done"}

ServicesInv ==
    /\ spc \in Places /\ refCount \in [Services -> Nat] /\ sleepDisabled \in BOOLEAN
    /\ connected = {s \in Services : refCount[s] > 0} /\ sessions \subseteq Sessions
    /\ spc \in {"dispatch", "root", "secure", "new"} => next = 1
    /\ spc \in {"idle", "dispatch", "root", "secure", "new", "done"} =>
         NothingHeld /\ sessions = {} /\ scope = <<>> /\ ~sleepDisabled
    /\ spc = "setup" => SetupUnderWay
    /\ spc = "leave" => Leaving
    /\ spc \in {"tickets", "entries"} =>
         /\ Held("splCrypto", 1) /\ Held("ns", 1) /\ Held("es", 1) /\ Held("setcal", 0)
         /\ scope = <<>> /\ sessions = Sessions /\ sleepDisabled
    /\ spc = "dtor" =>
         /\ AtMostOne("splCrypto") /\ AtMostOne("ns") /\ AtMostOne("es") /\ Held("setcal", 0)
         /\ scope = <<>>

LEMMA CallsAre ==
    /\ Len(SetupCalls) = 12
    /\ SetupCalls[1] = [op |-> "init", of |-> "splCrypto"] /\ SetupCalls[2] = [op |-> "init", of |-> "ns"]
    /\ SetupCalls[3] = [op |-> "open", of |-> "ns_app"] /\ SetupCalls[4] = [op |-> "init", of |-> "es"]
    /\ SetupCalls[5] = [op |-> "open", of |-> "db1"] /\ SetupCalls[6] = [op |-> "open", of |-> "cs1"]
    /\ SetupCalls[7] = [op |-> "open", of |-> "db2"] /\ SetupCalls[8] = [op |-> "open", of |-> "cs2"]
    /\ SetupCalls[9] = [op |-> "scoped", of |-> "splCrypto"]
    /\ SetupCalls[10] = [op |-> "use", of |-> "splCrypto"]
    /\ SetupCalls[11] = [op |-> "scoped", of |-> "setcal"]
    /\ SetupCalls[12] = [op |-> "use", of |-> "setcal"]
  BY DEF SetupCalls

\* A guard that is entered with success counts one more and is connected.
LEMMA GuardEntered ==
    ASSUME refCount \in [Services -> Nat], connected = {s \in Services : refCount[s] > 0},
           NEW s \in Services, GuardInit(s, TRUE)
    PROVE  /\ refCount' \in [Services -> Nat] /\ connected' = {t \in Services : refCount'[t] > 0}
           /\ refCount'[s] = refCount[s] + 1
           /\ \A t \in Services \ {s} : refCount'[t] = refCount[t]
  <1>1. refCount' = [refCount EXCEPT ![s] = refCount[s] + 1] /\ connected' = connected \cup {s}
    BY DEF GuardInit
  <1>2. refCount[s] \in Nat /\ refCount[s] + 1 \in Nat /\ refCount[s] + 1 > 0
    OBVIOUS
  <1>3. /\ refCount' \in [Services -> Nat] /\ refCount'[s] = refCount[s] + 1
        /\ \A t \in Services \ {s} : refCount'[t] = refCount[t]
    BY <1>1, <1>2
  <1> QED BY <1>1, <1>2, <1>3

\* One that fails was not entered before, and leaves everything as it is.
LEMMA GuardFailed ==
    ASSUME refCount \in [Services -> Nat], connected = {s \in Services : refCount[s] > 0},
           NEW s, GuardInit(s, FALSE)
    PROVE  refCount' = refCount /\ connected' = connected
  <1>1. refCount[s] = 0 /\ refCount' = [refCount EXCEPT ![s] = refCount[s]] /\ connected' = connected \ {s}
    BY DEF GuardInit
  <1>2. refCount' = refCount
    BY <1>1
  <1>3. s \notin connected
    BY <1>1
  <1> QED BY <1>1, <1>2, <1>3

\* Exit of a guard: one less, if there is one.
LEMMA GuardLeft ==
    ASSUME NEW refs \in [Services -> Nat], NEW s \in Services
    PROVE  /\ Exited(refs, s) \in [Services -> Nat]
           /\ Exited(refs, s)[s] = IF refs[s] > 0 THEN refs[s] - 1 ELSE 0
           /\ \A t \in Services \ {s} : Exited(refs, s)[t] = refs[t]
  <1>1. refs[s] \in Nat /\ (refs[s] > 0 => refs[s] - 1 \in Nat)
    OBVIOUS
  <1>2. CASE refs[s] > 0
    <2>1. Exited(refs, s) = [refs EXCEPT ![s] = refs[s] - 1]
      BY <1>2 DEF Exited
    <2> QED BY <1>1, <1>2, <2>1
  <1>3. CASE ~(refs[s] > 0)
    <2>1. Exited(refs, s) = refs
      BY <1>3 DEF Exited
    <2> QED BY <1>1, <1>3, <2>1
  <1> QED BY <1>2, <1>3

LEMMA ConnectedStays ==
    ASSUME connected = {s \in Services : refCount[s] > 0}, refCount \in [Services -> Nat],
           NEW refs \in [Services -> Nat], \A s \in Services : refs[s] <= refCount[s]
    PROVE  StillUsed(refs) = {s \in Services : refs[s] > 0}
  <1>1. \A s \in Services : refs[s] \in Nat /\ refCount[s] \in Nat /\ refs[s] <= refCount[s]
    OBVIOUS
  <1>2. \A s \in Services : refs[s] > 0 => refCount[s] > 0
    BY <1>1
  <1> QED BY <1>2 DEF StillUsed

LEMMA SetupCallServices ==
    ASSUME ServicesInv, SetupCall
    PROVE  ServicesInv'
  <1> DEFINE call == SetupCalls[next]
  <1>0. /\ spc = "setup" /\ spc' = "setup" /\ SetupUnderWay /\ next <= 12 /\ next' = next + 1
        /\ next \in 1 .. 12 /\ refCount \in [Services -> Nat] /\ sleepDisabled' = sleepDisabled
        /\ connected = {s \in Services : refCount[s] > 0} /\ sessions \subseteq Sessions
        /\ sleepDisabled = TRUE
        /\ sessions' = (IF call.op = "open" THEN sessions \cup {call.of} ELSE sessions)
        /\ scope' = (IF call.op = "scoped" THEN <<call.of>> \o scope ELSE scope)
        /\ (IF call.op \in {"init", "scoped"} THEN GuardInit(call.of, TRUE)
                                              ELSE UNCHANGED <<refCount, connected>>)
    <2>1. next \in 1 .. 12
      BY CallsAre DEF SetupCall, ServicesInv, SetupUnderWay
    <2> QED BY <2>1, CallsAre DEF SetupCall, ServicesInv, SetupUnderWay
  <1>1. /\ refCount' \in [Services -> Nat] /\ connected' = {t \in Services : refCount'[t] > 0}
        /\ call.op \in {"init", "scoped"} =>
             /\ refCount'[call.of] = refCount[call.of] + 1
             /\ \A t \in Services \ {call.of} : refCount'[t] = refCount[t]
        /\ call.op \notin {"init", "scoped"} => refCount' = refCount
    <2>1. CASE call.op \in {"init", "scoped"}
      <3>1. call.of \in Services
        BY <1>0, <2>1, CallsAre DEF Services
      <3>2. GuardInit(call.of, TRUE)
        BY <1>0, <2>1
      <3> HIDE DEF call
      <3> QED BY <1>0, <2>1, <3>1, <3>2, GuardEntered
    <2>2. CASE call.op \notin {"init", "scoped"}
      <3> HIDE DEF call
      <3> QED BY <1>0, <2>2
    <2> QED BY <2>1, <2>2
  <1>2. sessions' \subseteq Sessions
    <2>1. call.op = "open" => next \in {3, 5, 6, 7, 8}
      BY <1>0, CallsAre
    <2>2. next \in {3, 5, 6, 7, 8} => call.of \in Sessions
      BY CallsAre DEF Sessions
    <2> HIDE DEF call
    <2> QED BY <1>0, <2>1, <2>2
  <1>3. SetupUnderWay'
    <2>1. CASE next = 1
      BY <1>0, <1>1, <2>1, CallsAre DEF SetupUnderWay, Held, Services
    <2>2. CASE next = 2
      BY <1>0, <1>1, <2>2, CallsAre DEF SetupUnderWay, Held, Services
    <2>3. CASE next = 3
      BY <1>0, <1>1, <2>3, CallsAre DEF SetupUnderWay, Held, Services
    <2>4. CASE next = 4
      BY <1>0, <1>1, <2>4, CallsAre DEF SetupUnderWay, Held, Services
    <2>5. CASE next = 5
      BY <1>0, <1>1, <2>5, CallsAre DEF SetupUnderWay, Held, Services
    <2>6. CASE next = 6
      BY <1>0, <1>1, <2>6, CallsAre DEF SetupUnderWay, Held, Services
    <2>7. CASE next = 7
      BY <1>0, <1>1, <2>7, CallsAre DEF SetupUnderWay, Held, Services
    <2>8. CASE next = 8
      BY <1>0, <1>1, <2>8, CallsAre DEF SetupUnderWay, Held, Services
    <2>9. CASE next = 9
      BY <1>0, <1>1, <2>9, CallsAre DEF SetupUnderWay, Held, Services
    <2>10. CASE next = 10
      BY <1>0, <1>1, <2>10, CallsAre DEF SetupUnderWay, Held, Services
    <2>11. CASE next = 11
      <3>1. call = [op |-> "scoped", of |-> "setcal"]
        BY <2>11, CallsAre
      <3>2. scope = <<"splCrypto">>
        BY <1>0, <2>11 DEF SetupUnderWay
      <3>3. scope' = <<"setcal">> \o <<"splCrypto">>
        BY <1>0, <3>1, <3>2
      <3>4. <<"setcal">> \o <<"splCrypto">> = <<"setcal", "splCrypto">>
        <4> DEFINE one == <<"setcal">>
                   two == <<"splCrypto">>
                   both == <<"setcal", "splCrypto">>
                   all == {"setcal", "splCrypto"}
        <4>1. /\ one \in Seq(all) /\ two \in Seq(all) /\ Len(one) = 1 /\ Len(two) = 1
              /\ one[1] = "setcal" /\ two[1] = "splCrypto"
          OBVIOUS
        <4>2. both \in Seq(all) /\ Len(both) = 2 /\ both[1] = "setcal" /\ both[2] = "splCrypto"
          OBVIOUS
        <4> HIDE DEF one, two, both, all
        <4>3. /\ one \o two \in Seq(all) /\ Len(one \o two) = 2
              /\ (one \o two)[1] = one[1] /\ (one \o two)[2] = two[1]
          <5>1. ASSUME NEW x \in Seq(all), NEW y \in Seq(all)
                PROVE  /\ x \o y \in Seq(all) /\ Len(x \o y) = Len(x) + Len(y)
                       /\ \A i \in 1 .. Len(x) : (x \o y)[i] = x[i]
                       /\ \A i \in 1 .. Len(y) : (x \o y)[Len(x) + i] = y[i]
            OBVIOUS
          <5>2. /\ one \o two \in Seq(all) /\ Len(one \o two) = 2
                /\ \A i \in 1 .. 1 : (one \o two)[i] = one[i]
                /\ \A i \in 1 .. 1 : (one \o two)[1 + i] = two[i]
            BY <4>1, <5>1
          <5>3. 1 \in 1 .. 1 /\ 1 + 1 = 2
            OBVIOUS
          <5> QED BY <5>2, <5>3
        <4>4. \A i \in 1 .. 2 : (one \o two)[i] = both[i]
          BY <4>1, <4>2, <4>3
        <4>5. one \o two = both
          BY <4>2, <4>3, <4>4
        <4> QED BY <4>5 DEF one, two, both
      <3>5. scope' = <<"setcal", "splCrypto">>
        BY <3>3, <3>4
      <3>6. /\ refCount'["setcal"] = refCount["setcal"] + 1 /\ refCount'["splCrypto"] = refCount["splCrypto"]
            /\ refCount'["ns"] = refCount["ns"] /\ refCount'["es"] = refCount["es"]
        BY <1>1, <3>1 DEF Services
      <3>7. sessions' = sessions
        BY <1>0, <3>1
      <3>8. next' = 12 /\ sleepDisabled' = sleepDisabled /\ SetupUnderWay
        BY <1>0, <2>11
      <3> HIDE DEF call
      <3> QED BY <2>11, <3>5, <3>6, <3>7, <3>8 DEF SetupUnderWay, Held
    <2>12. CASE next = 12
      BY <1>0, <1>1, <2>12, CallsAre DEF SetupUnderWay, Held, Services
    <2> QED BY <1>0, <2>1, <2>2, <2>3, <2>4, <2>5, <2>6, <2>7, <2>8, <2>9, <2>10, <2>11, <2>12
  <1> QED BY <1>0, <1>1, <1>2, <1>3 DEF ServicesInv, Places

LEMMA SetupFailsServices ==
    ASSUME ServicesInv, SetupFails
    PROVE  ServicesInv'
  <1> DEFINE call == SetupCalls[next]
  <1>0. /\ SetupUnderWay /\ refCount \in [Services -> Nat]
        /\ connected = {s \in Services : refCount[s] > 0} /\ spc' = "leave" /\ rc' = "SetupFailed"
        /\ UNCHANGED <<next, sessions, scope, sleepDisabled>>
    BY DEF ServicesInv, SetupFails
  <1>1. refCount' = refCount /\ connected' = connected
    <2>1. CASE call.op \in {"init", "scoped"}
      <3>1. GuardInit(call.of, FALSE)
        BY <2>1 DEF SetupFails
      <3> HIDE DEF call
      <3> QED BY <1>0, <3>1, GuardFailed
    <2>2. CASE call.op \notin {"init", "scoped"}
      BY <2>2 DEF SetupFails
    <2> QED BY <2>1, <2>2
  <1>2. Leaving'
    <2>1. next \in 1 .. 13
      BY <1>0 DEF SetupUnderWay
    <2>2. CASE next <= 9
      BY <1>0, <1>1, <2>1, <2>2 DEF SetupUnderWay, Leaving, Held, AtMostOne
    <2>3. CASE next \in 10 .. 11
      BY <1>0, <1>1, <2>1, <2>3 DEF SetupUnderWay, Leaving, Held, AtMostOne
    <2>4. CASE next \in 12 .. 13
      BY <1>0, <1>1, <2>1, <2>4 DEF SetupUnderWay, Leaving, Held, AtMostOne
    <2> QED BY <2>1, <2>2, <2>3, <2>4
  <1> QED BY <1>0, <1>1, <1>2 DEF ServicesInv, Places

LEMMA SetupReturnsServices ==
    ASSUME ServicesInv, SetupReturns
    PROVE  ServicesInv'
  <1>0. /\ SetupUnderWay /\ next = 13 /\ sessions \subseteq Sessions /\ spc' = "leave"
        /\ UNCHANGED <<next, serviceVars, rc>>
    BY CallsAre DEF ServicesInv, SetupReturns, SetupUnderWay
  <1>1. sessions = Sessions
    <2>1. Sessions \subseteq sessions
      BY <1>0 DEF SetupUnderWay, Sessions
    <2> QED BY <1>0, <2>1
  <1>2. Leaving'
    BY <1>0, <1>1 DEF SetupUnderWay, Leaving, Held, AtMostOne, serviceVars
  <1> QED BY <1>0, <1>2 DEF ServicesInv, Places, serviceVars

LEMMA LeaveScopeServices ==
    ASSUME ServicesInv, LeaveScope
    PROVE  ServicesInv'
  <1>0. /\ spc = "leave" /\ Leaving /\ refCount \in [Services -> Nat] /\ sleepDisabled \in BOOLEAN
        /\ connected = {s \in Services : refCount[s] > 0} /\ sessions \subseteq Sessions
        /\ UNCHANGED <<sessions, sleepDisabled, rc>>
    BY DEF ServicesInv, LeaveScope
  <1>1. CASE scope = <<>>
    <2>1. /\ UNCHANGED <<refCount, connected, scope>>
          /\ spc' = (IF rc = "ok" THEN "tickets" ELSE "dtor")
      BY <1>1 DEF LeaveScope
    <2>2. CASE rc = "ok"
      BY <1>0, <1>1, <2>1, <2>2 DEF ServicesInv, Leaving, Held, Places
    <2>3. CASE rc # "ok"
      BY <1>0, <1>1, <2>1, <2>3 DEF ServicesInv, Leaving, Held, AtMostOne, Places
    <2> QED BY <2>2, <2>3
  <1>2. CASE scope # <<>>
    <2>1. /\ refCount' = Exited(refCount, scope[1]) /\ connected' = StillUsed(refCount')
          /\ scope' = Tail(scope) /\ spc' = "leave"
      BY <1>0, <1>2 DEF LeaveScope
    <2>2. scope[1] \in Services
      BY <1>0, <1>2 DEF Leaving, Services
    <2>3. /\ refCount' \in [Services -> Nat]
          /\ refCount'[scope[1]] = (IF refCount[scope[1]] > 0 THEN refCount[scope[1]] - 1 ELSE 0)
          /\ \A t \in Services \ {scope[1]} : refCount'[t] = refCount[t]
      BY <1>0, <2>1, <2>2, GuardLeft
    <2>4. connected' = {s \in Services : refCount'[s] > 0}
      <3>1. \A s \in Services : refCount'[s] <= refCount[s]
        <4>1. \A s \in Services : refCount[s] \in Nat
          BY <1>0
        <4> QED BY <2>2, <2>3, <4>1
      <3> QED BY <1>0, <2>1, <2>3, <3>1, ConnectedStays
    <2>5. Leaving'
      <3>1. CASE scope = <<"splCrypto">>
        <4>1. scope[1] = "splCrypto" /\ scope' = <<>>
          BY <2>1, <3>1
        <4>2. refCount["splCrypto"] \in {1, 2}
          BY <1>0, <3>1 DEF Leaving, Held
        <4>3. refCount'["splCrypto"] = refCount["splCrypto"] - 1
          BY <2>3, <4>1, <4>2
        <4>4. /\ refCount'["setcal"] = refCount["setcal"] /\ refCount'["ns"] = refCount["ns"]
              /\ refCount'["es"] = refCount["es"]
          BY <2>3, <4>1 DEF Services
        <4> QED BY <1>0, <3>1, <4>1, <4>2, <4>3, <4>4 DEF Leaving, Held, AtMostOne
      <3>2. CASE scope = <<"setcal", "splCrypto">>
        <4>1. scope[1] = "setcal" /\ scope' = <<"splCrypto">>
          BY <2>1, <3>2
        <4>2. refCount["setcal"] = 1
          BY <1>0, <3>2 DEF Leaving, Held
        <4>3. refCount'["setcal"] = 0
          BY <2>3, <4>1, <4>2
        <4>4. /\ refCount'["splCrypto"] = refCount["splCrypto"] /\ refCount'["ns"] = refCount["ns"]
              /\ refCount'["es"] = refCount["es"]
          BY <2>3, <4>1 DEF Services
        <4> QED BY <1>0, <3>2, <4>1, <4>2, <4>3, <4>4 DEF Leaving, Held, AtMostOne
      <3> QED BY <1>0, <1>2, <3>1, <3>2 DEF Leaving
    <2> QED BY <1>0, <2>1, <2>3, <2>4, <2>5 DEF ServicesInv, Places
  <1> QED BY <1>1, <1>2

LEMMA DestroyYatiServices ==
    ASSUME ServicesInv, DestroyYati
    PROVE  ServicesInv'
  <1> DEFINE a == Exited(refCount, "splCrypto")
             b == Exited(a, "ns")
             c == Exited(b, "es")
  <1>0. /\ refCount \in [Services -> Nat] /\ connected = {s \in Services : refCount[s] > 0}
        /\ AtMostOne("splCrypto") /\ AtMostOne("ns") /\ AtMostOne("es") /\ Held("setcal", 0)
        /\ scope = <<>> /\ spc' = "done" /\ refCount' = c /\ connected' = StillUsed(refCount')
        /\ sessions' = {} /\ sleepDisabled' = FALSE /\ scope' = scope
    BY DEF ServicesInv, DestroyYati
  <1>1. "splCrypto" \in Services /\ "ns" \in Services /\ "es" \in Services
    BY DEF Services
  <1>2. /\ a \in [Services -> Nat] /\ a["splCrypto"] = 0
        /\ \A t \in Services \ {"splCrypto"} : a[t] = refCount[t]
    BY <1>0, <1>1, GuardLeft DEF AtMostOne
  <1> HIDE DEF a
  <1>3. /\ b \in [Services -> Nat] /\ b["ns"] = 0 /\ \A t \in Services \ {"ns"} : b[t] = a[t]
    <2>1. a["ns"] \in {0, 1}
      BY <1>0, <1>2 DEF AtMostOne, Services
    <2> QED BY <1>1, <1>2, <2>1, GuardLeft
  <1> HIDE DEF b
  <1>4. /\ c \in [Services -> Nat] /\ c["es"] = 0 /\ \A t \in Services \ {"es"} : c[t] = b[t]
    <2>1. b["es"] \in {0, 1}
      BY <1>0, <1>2, <1>3 DEF AtMostOne, Services
    <2> QED BY <1>1, <1>3, <2>1, GuardLeft
  <1> HIDE DEF c
  <1>5. \A s \in Services : c[s] = 0
    BY <1>0, <1>2, <1>3, <1>4 DEF Services, Held
  <1>6. connected' = {s \in Services : refCount'[s] > 0}
    <2>1. \A s \in Services : refCount'[s] <= refCount[s]
      BY <1>0, <1>5
    <2> QED BY <1>0, <1>4, <2>1, ConnectedStays
  <1> QED BY <1>0, <1>4, <1>5, <1>6 DEF ServicesInv, NothingHeld, Held, Places

\* The other steps move from place to place, or leave the services alone.
LEMMA ServicesStep ==
    ASSUME ServicesInv, [SessionNext]_sessionVars
    PROVE  ServicesInv'
  <1>1. ASSUME UNCHANGED serviceVars, UNCHANGED <<spc, next, rc>> PROVE ServicesInv'
    BY <1>1 DEF ServicesInv, serviceVars, SetupUnderWay, Leaving, Held, AtMostOne, NothingHeld
  <1>2. ASSUME UNCHANGED serviceVars,
               \/ spc \in {"dispatch", "root", "secure"} /\ spc' \in {"root", "secure", "new"} /\ next' = next
               \/ spc \in {"dispatch", "root", "secure"} /\ spc' = "done"
               \/ spc = "done" /\ spc' = "idle"
               \/ spc = "idle" /\ spc' = "dispatch" /\ next' = 1
        PROVE  ServicesInv'
    BY <1>2 DEF ServicesInv, serviceVars, NothingHeld, Held, Places
  <1>3. ASSUME UNCHANGED serviceVars, spc \in {"tickets", "entries"}, spc' \in {"entries", "dtor"}
        PROVE  ServicesInv'
    BY <1>3 DEF ServicesInv, serviceVars, AtMostOne, Held, Places
  <1>4. CASE Dispatch \/ BadMagic \/ ReadPfs0 \/ ReadRoot \/ ReadSecure \/ HeaderReadFails
    <2>1. CASE Dispatch
      BY <1>2, <2>1 DEF Dispatch, Finish
    <2>2. CASE BadMagic \/ HeaderReadFails
      BY <1>2, <2>2 DEF BadMagic, HeaderReadFails, Finish
    <2>3. CASE ReadPfs0
      BY <1>2, <2>3 DEF ReadPfs0
    <2>4. CASE ReadRoot
      BY <1>2, <2>4 DEF ReadRoot, Finish
    <2>5. CASE ReadSecure
      BY <1>2, <2>5 DEF ReadSecure, Finish
    <2> QED BY <1>4, <2>1, <2>2, <2>3, <2>4, <2>5
  <1>5. CASE NewYati
    <2>1. /\ next = 1 /\ NothingHeld /\ sessions = {} /\ scope = <<>> /\ spc' = "setup" /\ sleepDisabled' = TRUE
          /\ UNCHANGED <<next, refCount, connected, sessions, scope>>
      BY <1>5 DEF ServicesInv, NewYati
    <2>2. SetupUnderWay'
      BY <2>1 DEF SetupUnderWay, NothingHeld, Held, Services
    <2> QED BY <2>1, <2>2 DEF ServicesInv, Places
  <1>6. CASE ParseTickets \/ TakeNca \/ TakeTicket \/ StrayCert \/ SkipEntry \/ BadSeek \/ EntryFails \/ Register
    <2>1. UNCHANGED serviceVars /\ spc \in {"tickets", "entries"} /\ spc' \in {"entries", "dtor"}
      BY <1>6 DEF ParseTickets, TakeNca, TakeTicket, StrayCert, SkipEntry, BadSeek, EntryFails, Register,
                  MoreEntries, Unwind
    <2> QED BY <1>3, <2>1
  <1>7. ASSUME NEW name \in HostNames, OpenInstall(name) PROVE ServicesInv'
    BY <1>2, <1>7 DEF OpenInstall
  <1>8. CASE Close
    BY <1>2, <1>8 DEF Close
  <1>9. CASE Write \/ Resize \/ Browse \/ UNCHANGED sessionVars
    BY <1>1, <1>9 DEF Write, Resize, Browse, SessionIdle, sessionVars
  <1> QED BY <1>4, <1>5, <1>6, <1>7, <1>8, <1>9, SetupCallServices, SetupFailsServices,
             SetupReturnsServices, LeaveScopeServices, DestroyYatiServices DEF SessionNext, InstallThread

-----------------------------------------------------------------------------
(* Theorems *)

LEMMA SessionInitial ==
    ASSUME SessionInit
    PROVE  FolderInv /\ NamesApart /\ ServicesInv
  <1> DEFINE none == <<>>
  <1>1. none \in Seq(EntryType) /\ none \in Seq(FileName) /\ none \in Seq(Int) /\ Len(none) = 0
        /\ DOMAIN none = {}
    OBVIOUS
  <1>2. /\ entries = none /\ dir = [open |-> FALSE, id |-> 0, listed |-> none, atEnd |-> FALSE, total |-> 0]
        /\ file = [id |-> 0, write |-> FALSE, name |-> [stem |-> "", suffix |-> none, ext |-> "", upper |-> FALSE]]
    BY DEF SessionInit, FolderInit, NoDir, NoFile
  <1> HIDE DEF none
  <1>3. dir \in DirType
    BY <1>1, <1>2 DEF DirType
  <1>4. file \in FileType
    BY <1>1, <1>2 DEF FileType, FileName, Texts
  <1>5. FolderInv /\ NamesApart
    <2>1. /\ entries \in Seq(EntryType) /\ Len(entries) = 0 /\ DOMAIN entries = {}
          /\ dir.id = 0 /\ Len(dir.listed) = 0 /\ ~dir.atEnd
      BY <1>1, <1>2
    <2>2. ListedFromTheStart
      BY <2>1 DEF ListedFromTheStart
    <2>3. UniqueNames
      BY <2>1 DEF UniqueNames
    <2>4. TicksArePast
      BY <2>1 DEF TicksArePast
    <2> QED BY <1>3, <1>4, <2>1, <2>2, <2>3, <2>4 DEF FolderInv, FolderTypes, NamesApart
  <1>6. ServicesInv
    <2>1. /\ spc = "idle" /\ refCount = [s \in Services |-> 0] /\ connected = {} /\ sessions = {}
          /\ scope = <<>> /\ sleepDisabled = FALSE
      BY DEF SessionInit
    <2>2. refCount \in [Services -> Nat] /\ \A s \in Services : refCount[s] = 0
      BY <2>1
    <2>3. connected = {s \in Services : refCount[s] > 0}
      BY <2>1, <2>2
    <2> QED BY <2>1, <2>2, <2>3 DEF ServicesInv, NothingHeld, Held, Places
  <1> QED BY <1>5, <1>6

\* The inductive invariant of the folder and of the services.
THEOREM SessionInvariant == SessionSpec => [](FolderInv /\ ServicesInv)
  <1>1. SessionInit => FolderInv /\ ServicesInv
    BY SessionInitial
  <1>2. FolderInv /\ ServicesInv /\ [SessionNext]_sessionVars => (FolderInv /\ ServicesInv)'
    BY FolderStep, ServicesStep
  <1> QED BY <1>1, <1>2, PTL DEF SessionSpec

\* ServicesBalanced: however Setup ended, no service, session or sleep lock is
\* left behind an install, and none is missing while entries are installed.
THEOREM ServicesBalancedAlways == SessionSpec => []ServicesBalanced
  <1>1. FolderInv /\ ServicesInv => ServicesBalanced
    <2> SUFFICES ASSUME ServicesInv PROVE ServicesBalanced
      OBVIOUS
    <2>1. spc \in {"idle", "done", "dispatch", "root", "secure"} =>
            /\ \A s \in Services : refCount[s] = 0
            /\ connected = {} /\ sessions = {} /\ ~sleepDisabled
      BY DEF ServicesInv, NothingHeld, Held
    <2>2. spc \in {"tickets", "entries"} =>
            connected = {"splCrypto", "ns", "es"} /\ sessions = Sessions /\ sleepDisabled
      BY DEF ServicesInv, Held, Services
    <2> QED BY <2>1, <2>2 DEF ServicesBalanced
  <1> QED BY <1>1, SessionInvariant, PTL

\* UniqueNames: CreateFile keeps names apart, for a host that gives no name
\* with a tick of the console in it.
THEOREM UniqueNamesAlways ==
    ASSUME HostHasNoTicks
    PROVE  SessionSpec => []UniqueNames
  <1>1. SessionInit => FolderInv /\ NamesApart
    BY SessionInitial
  <1>2. FolderInv /\ NamesApart /\ [SessionNext]_sessionVars => (FolderInv /\ NamesApart)'
    BY FolderStep
  <1>3. FolderInv /\ NamesApart => UniqueNames
    BY DEF NamesApart
  <1> QED BY <1>1, <1>2, <1>3, PTL DEF SessionSpec

-----------------------------------------------------------------------------
(* From the path to the container *)

\* A file that can be opened has an extension InstallFromSource knows.
ContainerInv ==
    /\ rc # "ContainerNotFound"
    /\ spc = "dispatch" => IsSupportedExt(path)

\* NeverRefused, its first part: whatever the host opens, there is a container
\* for it.
THEOREM ContainerAlwaysFound == SessionSpec => [](rc # "ContainerNotFound")
  <1>1. SessionInit => ContainerInv
    BY DEF SessionInit, ContainerInv
  <1>2. ASSUME ContainerInv, [SessionNext]_sessionVars PROVE ContainerInv'
    <2>1. CASE Dispatch
      <3>1. rc' = rc /\ spc' = "root"
        BY <1>2, <2>1 DEF Dispatch, ContainerInv, IsSupportedExt
      <3> QED BY <1>2, <3>1 DEF ContainerInv
    <2>2. ASSUME NEW name \in HostNames, OpenInstall(name) PROVE ContainerInv'
      <3>1. path' = name /\ rc' = "ok" /\ IsSupportedExt(name)
        BY <2>2 DEF OpenInstall, OpenFile, OpenRefusal
      <3> QED BY <3>1 DEF ContainerInv, IsSupportedExt
    <2>3. CASE BadMagic \/ ReadPfs0 \/ ReadRoot \/ ReadSecure \/ HeaderReadFails
      <3>1. spc' # "dispatch" /\ rc' \in {rc, "BadMagic", "SecurePartitionNotFound", "BadSeek", "ReadFailed"}
        BY <2>3 DEF BadMagic, ReadPfs0, ReadRoot, ReadSecure, HeaderReadFails, Finish
      <3> QED BY <1>2, <3>1 DEF ContainerInv
    <2>4. CASE NewYati \/ SetupCall \/ SetupFails \/ SetupReturns \/ LeaveScope \/ DestroyYati
      <3>1. spc' # "dispatch" /\ rc' \in {rc, "SetupFailed"}
        BY <2>4 DEF NewYati, SetupCall, SetupFails, SetupReturns, LeaveScope, DestroyYati
      <3> QED BY <1>2, <3>1 DEF ContainerInv
    <2>5. CASE ParseTickets \/ TakeNca \/ TakeTicket \/ StrayCert \/ SkipEntry \/ BadSeek \/ EntryFails \/ Register
      <3>1. spc' # "dispatch" /\ rc' \in {rc, "ok", "CertNotFound", "BadSeek", "ReadFailed", "RegisterFailed"}
        BY <2>5 DEF ParseTickets, TakeNca, TakeTicket, StrayCert, SkipEntry, BadSeek, EntryFails,
                    Register, MoreEntries, Unwind
      <3> QED BY <1>2, <3>1 DEF ContainerInv
    <2>6. CASE Close
      <3>1. spc' = "idle" /\ rc' = "ok"
        BY <2>6 DEF Close
      <3> QED BY <3>1 DEF ContainerInv
    <2>7. CASE Write \/ Resize \/ Browse \/ UNCHANGED sessionVars
      <3>1. UNCHANGED <<rc, spc, path>>
        BY <2>7 DEF Write, Resize, Browse, SessionIdle, sessionVars
      <3> QED BY <1>2, <3>1 DEF ContainerInv, IsSupportedExt
    <2> QED BY <1>2, <2>1, <2>2, <2>3, <2>4, <2>5, <2>6, <2>7 DEF SessionNext, InstallThread
  <1>3. ContainerInv => rc # "ContainerNotFound"
    BY DEF ContainerInv
  <1> QED BY <1>1, <1>2, <1>3, PTL DEF SessionSpec

-----------------------------------------------------------------------------
(* The headers of containers *)

\* h has the sums of f over 1 .. i, for every i up to n.
Sums(f, h, n) ==
    h \in [0 .. n -> Nat] /\ h[0] = 0 /\ \A i \in 0 .. n - 1 : h[i + 1] = h[i] + f[i + 1]

LEMMA SumsExist ==
    ASSUME NEW n \in Nat, NEW f \in [1 .. n -> Nat]
    PROVE  \E h : Sums(f, h, n)
  <1> DEFINE S == {m \in Nat : m <= n => \E h : Sums(f, h, m)}
  <1>1. 0 \in S
    <2> DEFINE h == [i \in 0 .. 0 |-> 0]
    <2>1. h \in [0 .. 0 -> Nat] /\ h[0] = 0 /\ \A i \in 0 .. 0 - 1 : h[i + 1] = h[i] + f[i + 1]
      OBVIOUS
    <2> HIDE DEF h
    <2>2. Sums(f, h, 0)
      BY <2>1 DEF Sums
    <2> QED BY <2>2
  <1>2. ASSUME NEW m \in S PROVE m + 1 \in S
    <2>1. m \in Nat /\ (m <= n => \E h : Sums(f, h, m))
      OBVIOUS
    <2>2. ASSUME m + 1 <= n PROVE \E h : Sums(f, h, m + 1)
      <3>1. m <= n /\ f[m + 1] \in Nat
        BY <2>1, <2>2
      <3>2. PICK g : Sums(f, g, m)
        BY <2>1, <3>1
      <3> DEFINE h == [i \in 0 .. m + 1 |-> IF i <= m THEN g[i] ELSE g[m] + f[m + 1]]
      <3>3. g[m] \in Nat /\ g[0] = 0 /\ \A i \in 0 .. m : g[i] \in Nat
        BY <2>1, <3>2 DEF Sums
      <3>4. h \in [0 .. m + 1 -> Nat] /\ h[0] = 0
        BY <2>1, <3>1, <3>3
      <3>5. \A i \in 0 .. m + 1 - 1 : h[i + 1] = h[i] + f[i + 1]
        <4>3. m + 1 - 1 = m
          BY <2>1
        <4> SUFFICES ASSUME NEW i \in 0 .. m PROVE h[i + 1] = h[i] + f[i + 1]
          <5> HIDE DEF h
          <5> QED BY <4>3
        <4>1. CASE i < m
          <5>1. i \in 0 .. m - 1 /\ i + 1 <= m /\ i + 1 \in 0 .. m + 1 /\ i \in 0 .. m + 1 /\ i <= m
            BY <2>1, <4>1
          <5>2. g[i + 1] = g[i] + f[i + 1]
            BY <3>2, <5>1 DEF Sums
          <5> QED BY <5>1, <5>2
        <4>2. CASE i = m
          <5>1. m + 1 \in 0 .. m + 1 /\ m \in 0 .. m + 1 /\ ~(m + 1 <= m) /\ m <= m
            BY <2>1
          <5> QED BY <4>2, <5>1
        <4> QED BY <2>1, <4>1, <4>2
      <3> HIDE DEF h
      <3>6. Sums(f, h, m + 1)
        BY <3>4, <3>5 DEF Sums
      <3> QED BY <3>6
    <2> QED BY <2>1, <2>2
  <1>3. S \in SUBSET Nat
    OBVIOUS
  <1> HIDE DEF S
  <1>4. n \in S
    BY <1>1, <1>2, <1>3, SetInduction
  <1> QED BY <1>4 DEF S

LEMMA SumUpToIs ==
    ASSUME NEW n \in Nat, NEW f \in [1 .. n -> Nat], NEW h, Sums(f, h, n), NEW m \in 0 .. n
    PROVE  SumUpTo(f, m) = h[m]
  <1> DEFINE R(s) == s = [i \in 0 .. m |-> IF i = 0 THEN 0 ELSE s[i - 1] + f[i]]
             sum == CHOOSE s : R(s)
             g == [i \in 0 .. m |-> h[i]]
  <1>1. /\ h \in [0 .. n -> Nat] /\ h[0] = 0 /\ \A i \in 0 .. n - 1 : h[i + 1] = h[i] + f[i + 1]
        /\ m \in Nat /\ m <= n
    BY DEF Sums
  <1>2. R(g)
    <2>1. \A i \in 0 .. m : i # 0 => i - 1 \in 0 .. n - 1 /\ i - 1 \in 0 .. m /\ (i - 1) + 1 = i
      BY <1>1
    <2>2. \A i \in 0 .. m : i # 0 => h[i] = h[i - 1] + f[i]
      BY <1>1, <2>1
    <2>3. \A i \in 0 .. m : g[i] = IF i = 0 THEN 0 ELSE g[i - 1] + f[i]
      BY <1>1, <2>1, <2>2
    <2> QED BY <2>3
  <1>3. R(sum)
    <2> HIDE DEF R, g
    <2> QED BY <1>2
  <1>4. SumUpTo(f, m) = sum[m]
    BY DEF SumUpTo
  <1> HIDE DEF sum
  <1>5. \A i \in 0 .. m : sum[i] = IF i = 0 THEN 0 ELSE sum[i - 1] + f[i]
    BY <1>3
  <1> DEFINE S == {i \in Nat : i <= m => sum[i] = h[i]}
  <1>6. 0 \in S
    BY <1>1, <1>5
  <1>7. ASSUME NEW i \in S PROVE i + 1 \in S
    <2>1. ASSUME i + 1 <= m PROVE sum[i + 1] = h[i + 1]
      <3>1. i + 1 \in 0 .. m /\ i + 1 # 0 /\ (i + 1) - 1 = i /\ i \in 0 .. n - 1 /\ sum[i] = h[i]
        BY <1>1, <2>1
      <3>2. sum[i + 1] = sum[(i + 1) - 1] + f[i + 1]
        BY <1>5, <3>1
      <3> QED BY <1>1, <3>1, <3>2
    <2> QED BY <2>1
  <1>8. S \in SUBSET Nat
    OBVIOUS
  <1> HIDE DEF S
  <1>9. m \in S
    BY <1>1, <1>6, <1>7, <1>8, SetInduction
  <1> QED BY <1>1, <1>4, <1>9 DEF S

\* The sums start at 0, and each is the one before it and one more term.
LEMMA SumUpToUnfolds ==
    ASSUME NEW n \in Nat, NEW f \in [1 .. n -> Nat]
    PROVE  /\ SumUpTo(f, 0) = 0
           /\ \A i \in 0 .. n : SumUpTo(f, i) \in Nat
           /\ \A i \in 0 .. n - 1 : SumUpTo(f, i + 1) = SumUpTo(f, i) + f[i + 1]
  <1>1. PICK h : Sums(f, h, n)
    BY SumsExist
  <1>2. \A i \in 0 .. n : SumUpTo(f, i) = h[i]
    BY <1>1, SumUpToIs
  <1>3. h \in [0 .. n -> Nat] /\ h[0] = 0 /\ \A i \in 0 .. n - 1 : h[i + 1] = h[i] + f[i + 1]
    BY <1>1 DEF Sums
  <1>4. \A i \in 0 .. n - 1 : i \in 0 .. n /\ i + 1 \in 0 .. n
    OBVIOUS
  <1>5. 0 \in 0 .. n
    OBVIOUS
  <1> QED BY <1>2, <1>3, <1>4, <1>5

\* No two sums of positive terms are equal.
LEMMA SumUpToGrows ==
    ASSUME NEW n \in Nat, NEW f \in [1 .. n -> Nat \ {0}], NEW i \in 0 .. n, NEW j \in 0 .. n, i < j
    PROVE  SumUpTo(f, i) < SumUpTo(f, j)
  <1> DEFINE s(k) == SumUpTo(f, k)
             S == {k \in Nat : i + 1 + k <= n => s(i) < s(i + 1 + k)}
  <1>1. /\ \A k \in 0 .. n : s(k) \in Nat
        /\ \A k \in 0 .. n - 1 : s(k + 1) = s(k) + f[k + 1] /\ f[k + 1] \in Nat \ {0}
    <2>1. f \in [1 .. n -> Nat]
      OBVIOUS
    <2>2. \A k \in 0 .. n - 1 : k + 1 \in 1 .. n
      OBVIOUS
    <2> QED BY <2>1, <2>2, SumUpToUnfolds
  <1> HIDE DEF s
  <1>2. 0 \in S
    <2>1. ASSUME i + 1 + 0 <= n PROVE s(i) < s(i + 1 + 0)
      <3>1. i \in 0 .. n - 1 /\ i + 1 + 0 = i + 1
        BY <2>1
      <3>2. s(i + 1) = s(i) + f[i + 1] /\ f[i + 1] \in Nat \ {0} /\ s(i) \in Nat
        BY <1>1, <3>1
      <3> QED BY <3>1, <3>2
    <2> QED BY <2>1
  <1>3. ASSUME NEW k \in S PROVE k + 1 \in S
    <2>1. ASSUME i + 1 + (k + 1) <= n PROVE s(i) < s(i + 1 + (k + 1))
      <3> DEFINE m == i + 1 + k
      <3>1. m \in 0 .. n - 1 /\ i + 1 + (k + 1) = m + 1 /\ s(i) < s(m)
        BY <2>1
      <3> HIDE DEF m
      <3>2. s(m + 1) = s(m) + f[m + 1] /\ f[m + 1] \in Nat \ {0} /\ s(m) \in Nat /\ s(i) \in Nat
        BY <1>1, <3>1
      <3> QED BY <3>1, <3>2
    <2> QED BY <2>1
  <1>4. S \in SUBSET Nat
    OBVIOUS
  <1> HIDE DEF S
  <1>5. j - i - 1 \in S /\ i + 1 + (j - i - 1) = j
    <2>1. S = Nat
      BY <1>2, <1>3, <1>4, SetInduction
    <2> QED BY <2>1
  <1>6. s(i) < s(i + 1 + (j - i - 1))
    BY <1>5 DEF S
  <1> QED BY <1>5, <1>6 DEF s

\* Nsp::Build pads the string table so that the header ends on 0x20.
LEMMA HeaderIsAligned ==
    ASSUME NEW nameless \in Nat, NEW size \in Nat
    PROVE  LET padded == AlignUp(nameless + size) - nameless
               all == IF padded = size THEN padded + 32 ELSE padded
           IN all \in Nat /\ all > size /\ (nameless + all) % 32 = 0
  <1> DEFINE x == nameless + size
             q == (x + 31) \div 32
             padded == AlignUp(x) - nameless
  <1>1. q \in Nat /\ 32 * q <= x + 31 /\ x + 31 < 32 * q + 32 /\ x \in Nat /\ x = nameless + size
    OBVIOUS
  <1>2. AlignUp(x) = q * 32
    BY DEF AlignUp
  <1> HIDE DEF q, x
  <1>3. padded \in Nat /\ padded >= size /\ nameless + padded = 32 * q
    BY <1>1, <1>2
  <1>4. (32 * q) % 32 = 0 /\ (32 * q + 32) % 32 = 0
    BY <1>1
  <1>5. nameless + (padded + 32) = 32 * q + 32
    BY <1>3
  <1> HIDE DEF padded
  <1>6. LET all == IF padded = size THEN padded + 32 ELSE padded
        IN all \in Nat /\ all > size /\ (nameless + all) % 32 = 0
    BY <1>3, <1>4, <1>5
  <1> QED BY <1>6 DEF padded, x

\* What Nsp::GetCollections finds in a file that starts with a header of
\* Nsp::Build, for any entries: their names, sizes and order; the data of each
\* right behind that of the one before, the first behind the header, which ends
\* on 0x20, and the last at the end that Nsp::Build reports.
THEOREM BuildIsReadBack ==
    ASSUME NEW NameSet, \A name \in NameSet : name.len \in Nat,
           NEW es \in Seq([name : NameSet, size : Nat]),
           NEW nsp, nsp.partitions = {[at |-> 0, header |-> BuildHeader(es)]}
    PROVE  LET read == EntriesAt(nsp, 0)
               n == Len(es)
           IN /\ IsPartition(nsp, 0, "PFS0") /\ DataStart(nsp, 0) % 32 = 0
              /\ DOMAIN read = 1 .. n
              /\ \A i \in 1 .. n : read[i].name = es[i].name /\ read[i].size = es[i].size
              /\ n > 0 => /\ read[1].offset = DataStart(nsp, 0)
                          /\ read[n].offset + read[n].size = BuildSize(es)
              /\ \A i \in 1 .. n - 1 : read[i + 1].offset = read[i].offset + read[i].size
  <1> DEFINE n == Len(es)
             lens == [k \in DOMAIN es |-> es[k].name.len + 1]
             sizes == [k \in DOMAIN es |-> es[k].size]
             p == BuildHeader(es)
             read == EntriesAt(nsp, 0)
             start == DataStart(nsp, 0)
  <1>1. n \in Nat /\ DOMAIN es = 1 .. n
    OBVIOUS
  <1>2. \A i \in 1 .. n : es[i] \in [name : NameSet, size : Nat]
    <2> DEFINE T == [name : NameSet, size : Nat]
    <2>1. es \in Seq(T)
      OBVIOUS
    <2> HIDE DEF T
    <2>2. \A i \in 1 .. n : es[i] \in T
      BY <2>1
    <2> QED BY <2>2 DEF T
  <1>3. \A i \in 1 .. n : es[i].name.len \in Nat /\ es[i].size \in Nat
    <2>1. \A i \in 1 .. n : es[i].name \in NameSet /\ es[i].size \in Nat
      BY <1>2
    <2> QED BY <2>1
  <1>4. lens \in [1 .. n -> Nat \ {0}] /\ sizes \in [1 .. n -> Nat]
    <2>1. \A i \in 1 .. n : es[i].name.len + 1 \in Nat \ {0}
      BY <1>3
    <2> HIDE DEF n
    <2> QED BY <1>1, <1>3, <2>1
  <1>5. At(nsp, 0) = [at |-> 0, header |-> p]
    BY DEF At
  <1>6. IsPartition(nsp, 0, "PFS0")
    BY DEF IsPartition, BuildHeader
  <1>7. /\ p.magic = "PFS0" /\ p.stringSize = PaddedStringSize(es) /\ p.strings = Strings(es)
        /\ p.table = [i \in 1 .. n |-> [dataOffset |-> DataOffset(es, i), dataSize |-> es[i].size,
                                        nameOffset |-> NameOffset(es, i)]]
    BY <1>1 DEF BuildHeader
  <1>8. Len(p.table) = n /\ DOMAIN p.table = 1 .. n
    <2> HIDE DEF n, p
    <2> QED BY <1>1, <1>7
  <1>9. \A i \in 1 .. n : /\ p.table[i].dataOffset = DataOffset(es, i) /\ p.table[i].dataSize = es[i].size
                          /\ p.table[i].nameOffset = NameOffset(es, i)
    <2> HIDE DEF n, p
    <2> QED BY <1>7
  <1>10. \A i, j \in 1 .. n : NameOffset(es, i) = NameOffset(es, j) => i = j
    <2>1. \A i \in 1 .. n : NameOffset(es, i) = SumUpTo(lens, i - 1) /\ i - 1 \in 0 .. n
      BY <1>1 DEF NameOffset
    <2>2. \A i \in 0 .. n : SumUpTo(lens, i) \in Nat
      <3>1. lens \in [1 .. n -> Nat]
        BY <1>4
      <3> HIDE DEF lens, n
      <3> QED BY <1>1, <3>1, SumUpToUnfolds
    <2>3. \A i, j \in 0 .. n : i < j => SumUpTo(lens, i) < SumUpTo(lens, j)
      <3> HIDE DEF lens, n
      <3> QED BY <1>1, <1>4, SumUpToGrows
    <2> HIDE DEF lens, n
    <2>4. \A i, j \in 1 .. n : i < j => NameOffset(es, i) < NameOffset(es, j) /\ NameOffset(es, i) \in Nat
                                          /\ NameOffset(es, j) \in Nat
      BY <1>1, <2>1, <2>2, <2>3
    <2>5. \A i, j \in 1 .. n : i < j \/ j < i \/ i = j
      BY <1>1
    <2> QED BY <2>4, <2>5
  <1>11. \A i \in 1 .. n : NameOf(p, i) = es[i].name
    <2> SUFFICES ASSUME NEW i \in 1 .. n PROVE NameOf(p, i) = es[i].name
      OBVIOUS
    <2> DEFINE o == NameOffset(es, i)
               k == CHOOSE j \in DOMAIN es : NameOffset(es, j) = o
    <2>1. k \in 1 .. n /\ NameOffset(es, k) = o
      BY <1>1
    <2>2. k = i
      <3> HIDE DEF k
      <3> QED BY <1>10, <2>1
    <2>3. Strings(es)[o] = es[k].name
      BY <1>1 DEF Strings
    <2> HIDE DEF k, o, p, n
    <2>4. NameOf(p, i) = Strings(es)[o]
      BY <1>7, <1>9 DEF NameOf, o
    <2> QED BY <2>2, <2>3, <2>4
  <1>12. read = [i \in 1 .. n |-> [name |-> NameOf(p, i), offset |-> start + p.table[i].dataOffset,
                                   size |-> p.table[i].dataSize]]
    <2> HIDE DEF p, start, n
    <2> QED BY <1>5, <1>8 DEF EntriesAt, start
  <1>13. /\ DOMAIN read = 1 .. n
         /\ \A i \in 1 .. n : /\ read[i].name = es[i].name /\ read[i].size = es[i].size
                              /\ read[i].offset = start + DataOffset(es, i)
    <2> HIDE DEF p, start, n, read
    <2> QED BY <1>9, <1>11, <1>12
  <1>14. PaddedStringSize(es) \in Nat /\ (HeaderSize + n * 24 + PaddedStringSize(es)) % 32 = 0
    <2> DEFINE nameless == HeaderSize + Len(es) * EntrySize.PFS0
               size == NameOffset(es, Len(es) + 1)
    <2>1. nameless = HeaderSize + n * 24 /\ nameless \in Nat
      <3>1. EntrySize.PFS0 = 24
        BY DEF EntrySize
      <3> QED BY <1>1, <3>1 DEF HeaderSize
    <2>2. size \in Nat
      <3>1. lens \in [1 .. n -> Nat]
        BY <1>4
      <3>2. size = SumUpTo(lens, (n + 1) - 1)
        BY DEF NameOffset
      <3> HIDE DEF lens, n
      <3>3. \A i \in 0 .. n : SumUpTo(lens, i) \in Nat
        BY <1>1, <3>1, SumUpToUnfolds
      <3>4. (n + 1) - 1 \in 0 .. n
        BY <1>1
      <3> QED BY <3>2, <3>3, <3>4
    <2> DEFINE padded == AlignUp(nameless + size) - nameless
    <2>3. PaddedStringSize(es) = IF padded = size THEN padded + 32 ELSE padded
      BY DEF PaddedStringSize
    <2> HIDE DEF nameless, size, n
    <2>4. LET all == IF padded = size THEN padded + 32 ELSE padded
          IN all \in Nat /\ all > size /\ (nameless + all) % 32 = 0
      BY <2>1, <2>2, HeaderIsAligned
    <2> HIDE DEF padded
    <2> QED BY <2>1, <2>3, <2>4
  <1>15. start = HeaderSize + n * 24 + PaddedStringSize(es)
    <2>1. start = 0 + PartitionSize(p)
      <3> HIDE DEF p
      <3> QED BY <1>5 DEF DataStart
    <2>2. EntrySize[p.magic] = 24
      BY <1>7 DEF EntrySize
    <2>3. PartitionSize(p) = HeaderSize + n * 24 + PaddedStringSize(es)
      <3> HIDE DEF p, n
      <3> QED BY <1>7, <1>8, <2>2 DEF PartitionSize
    <2>4. HeaderSize + n * 24 + PaddedStringSize(es) \in Nat
      <3> HIDE DEF n
      <3> QED BY <1>1, <1>14 DEF HeaderSize
    <2> HIDE DEF n, p, start
    <2> QED BY <2>1, <2>3, <2>4
  <1>16. /\ DataOffset(es, 1) = 0 /\ \A i \in 1 .. n + 1 : DataOffset(es, i) \in Nat
         /\ \A i \in 1 .. n : DataOffset(es, i + 1) = DataOffset(es, i) + es[i].size
    <2>1. /\ SumUpTo(sizes, 0) = 0 /\ \A i \in 0 .. n : SumUpTo(sizes, i) \in Nat
          /\ \A i \in 0 .. n - 1 : SumUpTo(sizes, i + 1) = SumUpTo(sizes, i) + sizes[i + 1]
      <3> HIDE DEF sizes, n
      <3> QED BY <1>1, <1>4, SumUpToUnfolds
    <2>2. \A i \in 1 .. n : sizes[i] = es[i].size
      BY <1>1
    <2>3. \A i : DataOffset(es, i) = SumUpTo(sizes, i - 1)
      BY DEF DataOffset
    <2> HIDE DEF sizes, n
    <2>4. DataOffset(es, 1) = 0
      <3>1. 1 - 1 = 0
        OBVIOUS
      <3> QED BY <2>1, <2>3, <3>1
    <2>5. \A i \in 1 .. n + 1 : DataOffset(es, i) \in Nat
      <3>1. \A i \in 1 .. n + 1 : i - 1 \in 0 .. n
        BY <1>1
      <3> QED BY <2>1, <2>3, <3>1
    <2>6. ASSUME NEW i \in 1 .. n PROVE DataOffset(es, i + 1) = DataOffset(es, i) + es[i].size
      <3> DEFINE j == i - 1
      <3>1. j \in 0 .. n - 1 /\ j + 1 = i /\ (i + 1) - 1 = j + 1
        BY <1>1
      <3>2. DataOffset(es, i) = SumUpTo(sizes, j)
        BY <2>3
      <3>3. DataOffset(es, i + 1) = SumUpTo(sizes, j + 1)
        BY <2>3, <3>1
      <3> HIDE DEF j
      <3> QED BY <2>1, <2>2, <3>1, <3>2, <3>3
    <2> QED BY <2>4, <2>5, <2>6
  <1>17. BuildSize(es) = start + DataOffset(es, n + 1)
    <2>1. BuildSize(es) = PartitionSize(p) + DataOffset(es, n + 1)
      BY DEF BuildSize
    <2>2. start = 0 + PartitionSize(p)
      <3> HIDE DEF p
      <3> QED BY <1>5 DEF DataStart
    <2>3. PartitionSize(p) = HeaderSize + n * 24 + PaddedStringSize(es)
      <3>1. EntrySize[p.magic] = 24
        BY <1>7 DEF EntrySize
      <3> HIDE DEF p, n
      <3> QED BY <1>7, <1>8, <3>1 DEF PartitionSize
    <2>4. PartitionSize(p) \in Nat
      <3> HIDE DEF n, p
      <3> QED BY <1>1, <1>14, <2>3 DEF HeaderSize
    <2> HIDE DEF p, n, start
    <2> QED BY <2>1, <2>2, <2>4
  <1> HIDE DEF p, start, n, read, lens, sizes
  <1>18. start \in Nat /\ start % 32 = 0
    BY <1>1, <1>15, <1>14 DEF HeaderSize
  <1>19. ASSUME n > 0
         PROVE  read[1].offset = start /\ read[n].offset + read[n].size = BuildSize(es)
    <2>1. 1 \in 1 .. n /\ n \in 1 .. n
      BY <1>1, <1>19
    <2>2. read[1].offset = start + 0
      BY <1>13, <1>16, <2>1
    <2>3. read[n].offset + read[n].size = (start + DataOffset(es, n)) + es[n].size
      BY <1>13, <2>1
    <2>4. DataOffset(es, n) \in Nat /\ es[n].size \in Nat
          /\ DataOffset(es, n + 1) = DataOffset(es, n) + es[n].size
      <3>1. n \in 1 .. n + 1
        BY <1>1, <2>1
      <3> QED BY <1>3, <1>16, <2>1, <3>1
    <2>5. read[1].offset = start
      BY <1>18, <2>2
    <2>6. (start + DataOffset(es, n)) + es[n].size = start + DataOffset(es, n + 1)
      BY <1>18, <2>4
    <2> QED BY <1>17, <2>3, <2>5, <2>6
  <1>20. ASSUME NEW i \in 1 .. n - 1
         PROVE  read[i + 1].offset = read[i].offset + read[i].size
    <2>1. i \in 1 .. n /\ i + 1 \in 1 .. n /\ i \in 1 .. n + 1
      BY <1>1
    <2>2. DataOffset(es, i) \in Nat /\ es[i].size \in Nat
          /\ DataOffset(es, i + 1) = DataOffset(es, i) + es[i].size
      BY <1>3, <1>16, <2>1
    <2>3. /\ read[i + 1].offset = start + DataOffset(es, i + 1) /\ read[i].offset = start + DataOffset(es, i)
          /\ read[i].size = es[i].size
      BY <1>13, <2>1
    <2> QED BY <1>18, <2>2, <2>3
  <1>21. /\ IsPartition(nsp, 0, "PFS0") /\ start % 32 = 0 /\ DOMAIN read = 1 .. n
         /\ \A i \in 1 .. n : read[i].name = es[i].name /\ read[i].size = es[i].size
         /\ n > 0 => read[1].offset = start /\ read[n].offset + read[n].size = BuildSize(es)
         /\ \A i \in 1 .. n - 1 : read[i + 1].offset = read[i].offset + read[i].size
    BY <1>6, <1>13, <1>18, <1>19, <1>20
  <1> QED BY <1>21 DEF read, start, n

-----------------------------------------------------------------------------
(* From the header to the last entry *)

Data(e) == [name |-> e.name, at |-> e.offset, size |-> e.size]

\* s has the entries whose data is D, each once; those to be read not empty.
WellRead(s, D) ==
    /\ Len(s) \in Nat /\ DOMAIN s = 1 .. Len(s) /\ s = [i \in 1 .. Len(s) |-> s[i]]
    /\ \A i \in 1 .. Len(s) : Data(s[i]) \in D /\ s[i].offset \in Nat /\ s[i].size \in Nat
    /\ \A d \in D : \E i \in 1 .. Len(s) : d = Data(s[i])
    /\ \A i, j \in 1 .. Len(s) : s[i].name = s[j].name => i = j
    /\ \A i \in 1 .. Len(s) : s[i].name.ext \in ReadExts => s[i].size > 0

Ascending(s) == \A i, j \in 1 .. Len(s) : i < j => s[i].offset <= s[j].offset

\* Nothing is behind the stream yet.
Ahead(s, m) == m \in Nat /\ \A i \in 1 .. Len(s) : m <= s[i].offset

\* The stream stands before every entry, or at the end of one that was read.
Between(s, k, m) ==
    \/ Ahead(s, m)
    \/ \E j \in 1 .. k - 1 : s[j].name.ext \in ReadExts /\ m = s[j].offset + s[j].size

\* Every ticket has an entry and one with its certificate, and the data of
\* those that were taken, which is the first k - 1.
TicketsSoFar(s, k) ==
    /\ \A id \in DOMAIN tickets : \A ext \in {"tik", "cert"} :
         \E i \in 1 .. Len(s) : s[i].name.ext = ext /\ s[i].name.id = id
    /\ \A id \in DOMAIN tickets : tickets[id] \subseteq {"tik", "cert"}
    /\ \A i \in 1 .. k - 1 : s[i].name.ext \in {"tik", "cert"} =>
         s[i].name.id \in DOMAIN tickets /\ s[i].name.ext \in tickets[s[i].name.id]

NcasSoFar(s, k) == \A i \in 1 .. k - 1 : s[i].name.ext \in {"nca", "ncz"} => s[i] \in got

TakeInv ==
    /\ image \in Images \cup {NoImage} /\ (spc # "idle" => image \in Images)
    /\ spc \in {"dispatch", "root", "secure", "new", "setup", "leave", "tickets"} => got = {}
    /\ spc = "secure" =>
         /\ container = "HFS0" /\ IsPartition(image, Hfs0HeaderOffset, "HFS0")
         /\ SecureIndex(At(image, Hfs0HeaderOffset).header) # 0
         /\ mOffset = DataStart(image, Hfs0HeaderOffset)
    /\ spc \in {"new", "setup", "leave", "tickets"} =>
         WellRead(collections, image.data) /\ Ahead(collections, mOffset)
    /\ spc = "tickets" => next = 1
    /\ spc = "entries" =>
         /\ WellRead(collections, image.data) /\ Ascending(collections)
         /\ next \in 1 .. Len(collections) + 1
         /\ Between(collections, next, mOffset)
         /\ TicketsSoFar(collections, next) /\ NcasSoFar(collections, next)
    /\ ReadsItsData
    /\ rc = "BadSeek" => \E d, e \in image.data : Overlap(d, e)

\* A header ends somewhere.
LEMMA HeaderEnds ==
    ASSUME NEW f, SoundImage(f), NEW p \in f.partitions
    PROVE  p.at + PartitionSize(p.header) \in Nat /\ PartitionSize(p.header) \in Nat
  <1> DEFINE h == p.header
             T == [dataOffset : Nat, dataSize : Nat, nameOffset : Nat]
             n == Len(h.table)
  <1>1. p.at \in Nat /\ h.magic \in {"PFS0", "HFS0"} /\ h.stringSize \in Nat /\ h.table \in Seq(T)
    BY DEF SoundImage
  <1>2. n \in Nat
    <2> HIDE DEF T, h
    <2> QED BY <1>1
  <1>3. EntrySize[h.magic] \in Nat
    BY <1>1 DEF EntrySize
  <1>4. n * EntrySize[h.magic] \in Nat
    <2> HIDE DEF n, h
    <2> QED BY <1>2, <1>3
  <1> HIDE DEF h
  <1>5. PartitionSize(h) \in Nat
    BY <1>1, <1>4 DEF PartitionSize, HeaderSize
  <1>6. p.at + PartitionSize(h) \in Nat
    BY <1>1, <1>5
  <1> QED BY <1>5, <1>6 DEF h

\* What is read at a partition with the entries are the entries, from the
\* end of its header on.
LEMMA PartitionIsRead ==
    ASSUME NEW f, SoundImage(f), NEW p \in f.partitions, HasContents(f, p)
    PROVE  WellRead(EntriesAt(f, p.at), f.data) /\ Ahead(EntriesAt(f, p.at), DataStart(f, p.at))
  <1> DEFINE h == p.header
             T == [dataOffset : Nat, dataSize : Nat, nameOffset : Nat]
             s == EntriesAt(f, p.at)
             start == DataStart(f, p.at)
             end == PartitionSize(h)
             n == Len(h.table)
  <1>1. At(f, p.at) = p
    <2> DEFINE q == CHOOSE r \in f.partitions : r.at = p.at
    <2>1. q \in f.partitions /\ q.at = p.at
      OBVIOUS
    <2> HIDE DEF q
    <2>2. q = p
      BY <2>1 DEF SoundImage
    <2> QED BY <2>2 DEF At, q
  <1>2. /\ p.at \in Nat /\ h.magic \in {"PFS0", "HFS0"} /\ h.stringSize \in Nat /\ h.table \in Seq(T)
        /\ f.data = {Placed(p, i) : i \in DOMAIN h.table}
        /\ \A i, j \in DOMAIN h.table : NameOf(h, i) = NameOf(h, j) => i = j
        /\ \A i \in DOMAIN h.table : NameOf(h, i).ext \in ReadExts => h.table[i].dataSize > 0
    BY DEF SoundImage
  <1>3. n \in Nat /\ DOMAIN h.table = 1 .. n
    <2> HIDE DEF T, h
    <2> QED BY <1>2
  <1>4. \A i \in 1 .. n : h.table[i].dataOffset \in Nat /\ h.table[i].dataSize \in Nat
    <2> HIDE DEF h
    <2>1. \A i \in 1 .. n : h.table[i] \in T
      <3> HIDE DEF T
      <3> QED BY <1>2
    <2> QED BY <2>1
  <1>5. end \in Nat
    BY HeaderEnds
  <1>6. start = p.at + end
    BY <1>1 DEF DataStart
  <1> HIDE DEF start, end, h, n
  <1>7. s = [i \in 1 .. n |-> [name |-> NameOf(h, i), offset |-> start + h.table[i].dataOffset,
                               size |-> h.table[i].dataSize]]
    BY <1>1, <1>3 DEF EntriesAt, start, h
  <1> HIDE DEF s
  <1>8. Len(s) = n /\ DOMAIN s = 1 .. n /\ s = [i \in 1 .. n |-> s[i]]
    BY <1>3, <1>7
  <1>9. \A i \in 1 .. n : /\ s[i].name = NameOf(h, i) /\ s[i].offset = start + h.table[i].dataOffset
                          /\ s[i].size = h.table[i].dataSize
    BY <1>7
  <1>10. \A i \in 1 .. n : Data(s[i]) = Placed(p, i)
    BY <1>6, <1>9 DEF Data, Placed, h, end
  <1>11. start \in Nat /\ \A i \in 1 .. n : s[i].offset \in Nat /\ s[i].size \in Nat /\ start <= s[i].offset
    <2>1. start \in Nat
      BY <1>2, <1>5, <1>6
    <2> QED BY <1>4, <1>9, <2>1
  <1>12. (\A i \in 1 .. n : Data(s[i]) \in f.data) /\ \A d \in f.data : \E i \in 1 .. n : d = Data(s[i])
    BY <1>2, <1>3, <1>10
  <1>13. /\ \A i, j \in 1 .. n : s[i].name = s[j].name => i = j
         /\ \A i \in 1 .. n : s[i].name.ext \in ReadExts => s[i].size > 0
    <2>1. ASSUME NEW i \in 1 .. n, NEW j \in 1 .. n, s[i].name = s[j].name PROVE i = j
      <3>1. NameOf(h, i) = NameOf(h, j)
        BY <1>9, <2>1
      <3> QED BY <1>2, <1>3, <3>1
    <2>2. ASSUME NEW i \in 1 .. n, s[i].name.ext \in ReadExts PROVE s[i].size > 0
      <3>1. s[i].name = NameOf(h, i) /\ s[i].size = h.table[i].dataSize
        BY <1>9
      <3>2. NameOf(h, i).ext \in ReadExts
        BY <2>2, <3>1
      <3>3. h.table[i].dataSize > 0
        BY <1>2, <1>3, <3>2
      <3> QED BY <3>1, <3>3
    <2> QED BY <2>1, <2>2
  <1>14. WellRead(s, f.data)
    BY <1>3, <1>8, <1>11, <1>12, <1>13 DEF WellRead
  <1>15. Ahead(s, start)
    BY <1>8, <1>11 DEF Ahead
  <1> QED BY <1>14, <1>15 DEF s, start

\* However a sort leaves the entries, they are the same ones, in ascending order.
LEMMA OrderKeeps ==
    ASSUME NEW s, NEW D, WellRead(s, D), NEW t \in OffsetOrders(s)
    PROVE  /\ WellRead(t, D) /\ Ascending(t) /\ Len(t) = Len(s)
           /\ \A i \in 1 .. Len(s) : \E j \in 1 .. Len(s) : t[i] = s[j]
           /\ \A j \in 1 .. Len(s) : \E i \in 1 .. Len(s) : t[i] = s[j]
  <1> DEFINE n == Len(s)
  <1>1. n \in Nat /\ DOMAIN s = 1 .. n
    BY DEF WellRead
  <1>2. PICK order \in Bijection(1 .. n, 1 .. n) :
           /\ t = [i \in 1 .. n |-> s[order[i]]]
           /\ \A i, j \in 1 .. n : i < j => t[i].offset <= t[j].offset
    BY <1>1 DEF OffsetOrders
  <1>3. /\ order \in [1 .. n -> 1 .. n] /\ \A i, j \in 1 .. n : order[i] = order[j] => i = j
        /\ \A j \in 1 .. n : \E i \in 1 .. n : order[i] = j
    BY DEF Bijection, Injection, Surjection, IsInjective
  <1> HIDE DEF n
  <1>4. Len(t) = n /\ DOMAIN t = 1 .. n /\ t = [i \in 1 .. n |-> t[i]]
    BY <1>1, <1>2
  <1>5. \A i \in 1 .. n : order[i] \in 1 .. n /\ t[i] = s[order[i]]
    BY <1>2, <1>3
  <1>6. \A j \in 1 .. n : \E i \in 1 .. n : t[i] = s[j]
    BY <1>3, <1>5
  <1>7. /\ \A i \in 1 .. n : Data(s[i]) \in D /\ s[i].offset \in Nat /\ s[i].size \in Nat
        /\ \A d \in D : \E i \in 1 .. n : d = Data(s[i])
        /\ \A i, j \in 1 .. n : s[i].name = s[j].name => i = j
        /\ \A i \in 1 .. n : s[i].name.ext \in ReadExts => s[i].size > 0
    BY DEF WellRead, n
  <1>8. ASSUME NEW i \in 1 .. n, NEW j \in 1 .. n, t[i].name = t[j].name PROVE i = j
    <2>1. order[i] \in 1 .. n /\ order[j] \in 1 .. n /\ s[order[i]].name = s[order[j]].name
      BY <1>5, <1>8
    <2>2. order[i] = order[j]
      BY <1>7, <2>1
    <2> QED BY <1>3, <2>2
  <1>9. \A i \in 1 .. n : Data(t[i]) \in D /\ t[i].offset \in Nat /\ t[i].size \in Nat
                          /\ (t[i].name.ext \in ReadExts => t[i].size > 0)
    BY <1>5, <1>7
  <1>10. \A d \in D : \E i \in 1 .. n : d = Data(t[i])
    BY <1>6, <1>7
  <1>11. WellRead(t, D)
    BY <1>1, <1>4, <1>8, <1>9, <1>10 DEF WellRead
  <1>12. Ascending(t)
    BY <1>2, <1>4 DEF Ascending
  <1> QED BY <1>4, <1>5, <1>6, <1>11, <1>12 DEF n
\* What holds of the headers holds when a Yati is made.
LEMMA HeadersTake ==
    ASSUME ImagesSound, TakeInv, ReadPfs0 \/ ReadRoot \/ ReadSecure
    PROVE  TakeInv'
  <1>1. /\ image \in Images /\ SoundImage(image) /\ got = {} /\ UNCHANGED image
        /\ rc # "BadSeek" \/ \E d, e \in image.data : Overlap(d, e)
    <2>1. spc # "idle" /\ spc \in {"root", "secure"} /\ UNCHANGED image
      BY DEF ReadPfs0, ReadRoot, ReadSecure, Outside
    <2> QED BY <2>1 DEF TakeInv, ImagesSound
  <1>2. ASSUME NEW p \in image.partitions, HasContents(image, p), spc' = "new", UNCHANGED <<got, rc>>,
               collections' = EntriesAt(image, p.at), mOffset' = DataStart(image, p.at)
        PROVE  TakeInv'
    <2>1. WellRead(collections', image.data) /\ Ahead(collections', mOffset')
      BY <1>1, <1>2, PartitionIsRead
    <2>2. ReadsItsData'
      BY <1>1, <1>2 DEF ReadsItsData
    <2> QED BY <1>1, <1>2, <2>1, <2>2 DEF TakeInv
  <1>3. CASE ReadPfs0
    <2>1. PICK p \in image.partitions : p.at = 0 /\ p.header.magic = "PFS0"
      BY <1>3 DEF ReadPfs0, IsPartition
    <2>2. HasContents(image, p)
      BY <2>1 DEF HasContents
    <2> QED BY <1>2, <1>3, <2>1, <2>2 DEF ReadPfs0
  <1>4. CASE ReadRoot
    <2>1. container = "HFS0" /\ RootOffset = Hfs0HeaderOffset /\ UNCHANGED <<container, got>>
      BY <1>4 DEF ReadRoot, RootOffset, Finish, dataVars
    <2>2. ReadsItsData'
      BY <1>1, <2>1 DEF ReadsItsData
    <2>3. CASE SecureIndex(At(image, RootOffset).header) = 0
      <3>1. spc' = "done" /\ rc' = "SecurePartitionNotFound"
        BY <1>4, <2>3 DEF ReadRoot, Finish
      <3> QED BY <1>1, <2>2, <3>1 DEF TakeInv
    <2>4. CASE SecureIndex(At(image, RootOffset).header) # 0
      <3>1. /\ spc' = "secure" /\ UNCHANGED rc /\ mOffset' = DataStart(image, Hfs0HeaderOffset)
            /\ IsPartition(image, Hfs0HeaderOffset, "HFS0")
        BY <1>4, <2>1, <2>4 DEF ReadRoot
      <3> QED BY <1>1, <2>1, <2>2, <2>4, <3>1 DEF TakeInv
    <2> QED BY <2>3, <2>4
  <1>5. CASE ReadSecure
    <2> DEFINE root == At(image, Hfs0HeaderOffset)
               i == SecureIndex(root.header)
               off == SecureOffset(image, RootOffset)
    <2>1. /\ container = "HFS0" /\ RootOffset = Hfs0HeaderOffset /\ i # 0
          /\ IsPartition(image, Hfs0HeaderOffset, "HFS0")
          /\ mOffset = DataStart(image, Hfs0HeaderOffset) /\ spc = "secure"
      BY <1>5 DEF TakeInv, ReadSecure, RootOffset
    <2>2. root \in image.partitions /\ root.at = Hfs0HeaderOffset /\ root.header.magic = "HFS0"
      <3>1. PICK p \in image.partitions : p.at = Hfs0HeaderOffset /\ p.header.magic = "HFS0"
        BY <2>1 DEF IsPartition
      <3> DEFINE q == CHOOSE r \in image.partitions : r.at = Hfs0HeaderOffset
      <3>2. q \in image.partitions /\ q.at = Hfs0HeaderOffset
        BY <3>1
      <3> HIDE DEF q
      <3>3. q = p
        BY <1>1, <3>1, <3>2 DEF SoundImage
      <3> QED BY <3>1, <3>3 DEF At, q
    <2> HIDE DEF root
    <2>3. off = root.at + PartitionSize(root.header) + root.header.table[i].dataOffset
      BY <2>1, <2>2 DEF SecureOffset, DataStart, root
    <2>4. CASE ~CanRead(off)
      <3>1. mOffset = root.at + PartitionSize(root.header)
        BY <2>1, <2>2 DEF DataStart, root
      <3>2. mOffset \in Nat
        BY <1>1, <2>2, <3>1, HeaderEnds
      <3>3. root.header.table[i].dataOffset \in Nat
        <4> DEFINE hits == {k \in DOMAIN root.header.table : NameOf(root.header, k).id = "secure"}
                   T == [dataOffset : Nat, dataSize : Nat, nameOffset : Nat]
        <4>1. hits \in SUBSET Nat /\ root.header.table \in Seq(T)
          <5>1. root.header.table \in Seq(T)
            BY <1>1, <2>2 DEF SoundImage
          <5> HIDE DEF T
          <5> QED BY <5>1
        <4>2. hits # {} /\ i = CHOOSE k \in hits : \A j \in hits : k <= j
          BY <2>1 DEF SecureIndex
        <4>3. \E k \in hits : \A j \in hits : k <= j
          <5> HIDE DEF hits
          <5> QED BY <4>1, <4>2, LeastMember
        <4>4. i \in hits
          <5> HIDE DEF hits, i
          <5> QED BY <4>2, <4>3
        <4>5. i \in DOMAIN root.header.table
          <5> HIDE DEF i
          <5> QED BY <4>4
        <4>6. root.header.table[i] \in T
          <5> HIDE DEF i, T
          <5> QED BY <4>1, <4>5
        <4> HIDE DEF i
        <4> QED BY <4>6
      <3> HIDE DEF off, i
      <3> QED BY <2>3, <2>4, <3>1, <3>2, <3>3 DEF CanRead
    <2>5. CASE CanRead(off) /\ ~IsPartition(image, off, "HFS0")
      <3>1. spc' = "done" /\ rc' = "BadMagic" /\ UNCHANGED got
        BY <1>5, <2>5 DEF ReadSecure, Finish, dataVars
      <3>2. ReadsItsData'
        BY <1>1, <3>1 DEF ReadsItsData
      <3> QED BY <1>1, <3>1, <3>2 DEF TakeInv
    <2>6. CASE CanRead(off) /\ IsPartition(image, off, "HFS0")
      <3>1. /\ collections' = EntriesAt(image, off) /\ mOffset' = DataStart(image, off) /\ spc' = "new"
            /\ UNCHANGED <<got, rc>>
        BY <1>5, <2>6 DEF ReadSecure
      <3>2. PICK p \in image.partitions : p.at = off /\ p.header.magic = "HFS0"
        BY <2>6 DEF IsPartition
      <3>3. HasContents(image, p)
        BY <2>1, <2>2, <2>3, <3>2 DEF HasContents
      <3> HIDE DEF off
      <3> QED BY <1>2, <3>1, <3>2, <3>3
    <2> QED BY <2>4, <2>5, <2>6
  <1> QED BY <1>3, <1>4, <1>5

\* Certificates are looked for before anything is taken.
LEMMA TicketsTake ==
    ASSUME TakeInv, ParseTickets
    PROVE  TakeInv'
  <1>1. /\ image \in Images /\ UNCHANGED <<image, got, mOffset>> /\ got = {} /\ spc = "tickets" /\ next = 1
        /\ WellRead(collections, image.data) /\ Ahead(collections, mOffset)
        /\ rc = "BadSeek" => \E d, e \in image.data : Overlap(d, e)
    BY DEF TakeInv, ParseTickets, Outside
  <1>2. ReadsItsData'
    BY <1>1 DEF ReadsItsData
  <1>3. CASE spc' = "dtor" /\ rc' = "CertNotFound"
    BY <1>1, <1>2, <1>3 DEF TakeInv
  <1>4. CASE /\ \A id \in TikIds(collections) : CertsFor(collections, id) # {}
             /\ tickets' = [id \in TikIds(collections) |-> {}]
             /\ collections' \in OffsetOrders(collections)
             /\ spc' = "entries" /\ UNCHANGED <<next, rc>>
    <2> DEFINE s == collections
               t == collections'
               n == Len(s)
    <2>1. /\ WellRead(t, image.data) /\ Ascending(t) /\ Len(t) = n
          /\ \A i \in 1 .. n : \E j \in 1 .. n : t[i] = s[j]
          /\ \A j \in 1 .. n : \E i \in 1 .. n : t[i] = s[j]
      BY <1>1, <1>4, OrderKeeps
    <2>2. n \in Nat /\ DOMAIN s = 1 .. n /\ mOffset \in Nat /\ \A i \in 1 .. n : mOffset <= s[i].offset
      BY <1>1 DEF WellRead, Ahead
    <2>3. Ahead(t, mOffset)
      <3>1. ASSUME NEW i \in 1 .. n PROVE mOffset <= t[i].offset
        <4>1. PICK j \in 1 .. n : t[i] = s[j]
          BY <2>1
        <4> QED BY <2>2, <4>1
      <3> QED BY <2>1, <2>2, <3>1 DEF Ahead
    <2>4. ASSUME NEW id \in TikIds(s), NEW ext \in {"tik", "cert"}
          PROVE  \E i \in 1 .. n : t[i].name.ext = ext /\ t[i].name.id = id
      <3>1. PICK j \in 1 .. n : s[j].name.ext = ext /\ s[j].name.id = id
        <4>1. CASE ext = "tik"
          BY <2>2, <4>1 DEF TikIds
        <4>2. CASE ext = "cert"
          BY <1>4, <2>2, <4>2 DEF CertsFor
        <4> QED BY <4>1, <4>2
      <3>2. PICK i \in 1 .. n : t[i] = s[j]
        BY <2>1
      <3> QED BY <3>1, <3>2
    <2>5. next' = 1 /\ 1 \in 1 .. Len(t) + 1 /\ 1 .. next' - 1 = {}
      BY <1>1, <1>4, <2>1, <2>2
    <2>6. TicketsSoFar(collections, next)'
      <3>1. DOMAIN tickets' = TikIds(s) /\ \A id \in DOMAIN tickets' : tickets'[id] = {}
        BY <1>4
      <3>2. Len(t) = n
        BY <2>1
      <3> QED BY <2>4, <2>5, <3>1, <3>2 DEF TicketsSoFar
    <2>7. NcasSoFar(collections, next)'
      BY <2>5 DEF NcasSoFar
    <2>8. Between(collections, next, mOffset)'
      BY <1>1, <2>3 DEF Between, Ahead
    <2> QED BY <1>1, <1>2, <1>4, <2>1, <2>5, <2>6, <2>7, <2>8 DEF TakeInv
  <1> QED BY <1>3, <1>4 DEF ParseTickets, Unwind

\* An entry that is read: the stream is behind it afterwards.
LEMMA EntryTaken ==
    ASSUME TakeInv, MoreEntries, Entry.name.ext \in ReadExts, ReadEntry, next' = next + 1,
           UNCHANGED <<spc, image, collections, rc>>,
           TicketsSoFar(collections, next)', NcasSoFar(collections, next)'
    PROVE  TakeInv'
  <1> DEFINE s == collections
             n == Len(s)
  <1>1. /\ WellRead(s, image.data) /\ Ascending(s) /\ next \in 1 .. n + 1 /\ ReadsItsData
        /\ image \in Images /\ (rc = "BadSeek" => \E d, e \in image.data : Overlap(d, e))
        /\ spc = "entries" /\ next <= n /\ s' = s
    BY DEF TakeInv, MoreEntries
  <1>2. /\ n \in Nat
        /\ \A i \in 1 .. n : Data(s[i]) \in image.data /\ s[i].offset \in Nat /\ s[i].size \in Nat
        /\ \A i \in 1 .. n : s[i].name.ext \in ReadExts => s[i].size > 0
    BY <1>1 DEF WellRead
  <1>3. next \in 1 .. n /\ next + 1 \in 1 .. n + 1 /\ Entry = s[next]
    BY <1>1, <1>2 DEF Entry
  <1>4. s[next].size > 0 /\ s[next].size \in Nat /\ Data(s[next]) \in image.data
        /\ s[next].name.ext \in ReadExts
    BY <1>2, <1>3
  <1>5. mOffset' = s[next].offset + s[next].size /\ got' = got \cup {s[next]}
    BY <1>3, <1>4 DEF ReadEntry
  <1>6. Between(collections, next, mOffset)'
    <2>1. next \in 1 .. (next + 1) - 1
      BY <1>2, <1>3
    <2> QED BY <1>1, <1>4, <1>5, <2>1 DEF Between
  <1>7. ReadsItsData'
    BY <1>1, <1>4, <1>5 DEF ReadsItsData, Data
  <1> QED BY <1>1, <1>3, <1>6, <1>7 DEF TakeInv

LEMMA EntriesTake ==
    ASSUME TakeInv, TakeNca \/ TakeTicket \/ SkipEntry
    PROVE  TakeInv'
  <1> DEFINE s == collections
             n == Len(s)
  <1>1. /\ WellRead(s, image.data) /\ Ascending(s) /\ next \in 1 .. n + 1 /\ ReadsItsData
        /\ image \in Images /\ (rc = "BadSeek" => \E d, e \in image.data : Overlap(d, e))
        /\ spc = "entries" /\ next <= n /\ MoreEntries /\ Between(s, next, mOffset)
        /\ TicketsSoFar(s, next) /\ NcasSoFar(s, next)
        /\ next' = next + 1 /\ UNCHANGED <<spc, image, collections, rc>>
    BY DEF TakeInv, MoreEntries, TakeNca, TakeTicket, SkipEntry, dataVars, Outside
  <1>2. n \in Nat
    BY <1>1 DEF WellRead
  <1>3. /\ next \in Nat /\ next \in 1 .. n /\ next + 1 \in 1 .. n + 1
        /\ (\A i \in 1 .. (next + 1) - 1 : i \in 1 .. next - 1 \/ i = next)
        /\ (\A i \in 1 .. next - 1 : i \in 1 .. (next + 1) - 1)
    BY <1>1, <1>2
  <1>4. Entry = s[next]
    BY DEF Entry
  <1>5. CASE TakeNca
    <2>1. ReadEntry /\ UNCHANGED tickets /\ s[next].name.ext \in {"nca", "ncz"} /\ got' = got \cup {s[next]}
      BY <1>4, <1>5 DEF TakeNca, ReadEntry
    <2>2. TicketsSoFar(collections, next)'
      <3>1. s[next].name.ext \notin {"tik", "cert"}
        BY <2>1
      <3> QED BY <1>1, <1>3, <2>1, <3>1 DEF TicketsSoFar
    <2>3. NcasSoFar(collections, next)'
      BY <1>1, <1>3, <2>1 DEF NcasSoFar
    <2>4. Entry.name.ext \in ReadExts
      BY <1>4, <2>1 DEF ReadExts
    <2> QED BY <1>1, <2>1, <2>2, <2>3, <2>4, EntryTaken
  <1>6. CASE TakeTicket
    <2>1. /\ ReadEntry /\ s[next].name.ext \in {"tik", "cert"} /\ got' = got \cup {s[next]}
          /\ s[next].name.id \in DOMAIN tickets
          /\ tickets' = [tickets EXCEPT ![s[next].name.id] = @ \cup {s[next].name.ext}]
      BY <1>4, <1>6 DEF TakeTicket, ReadEntry
    <2>2. /\ DOMAIN tickets' = DOMAIN tickets
          /\ \A id \in DOMAIN tickets :
               /\ tickets[id] \subseteq tickets'[id]
               /\ tickets'[id] \subseteq tickets[id] \cup {s[next].name.ext}
          /\ s[next].name.ext \in tickets'[s[next].name.id]
      BY <2>1
    <2>3. TicketsSoFar(collections, next)'
      <3>1. /\ \A id \in DOMAIN tickets : \A ext \in {"tik", "cert"} :
                 \E i \in 1 .. Len(s) : s[i].name.ext = ext /\ s[i].name.id = id
            /\ \A id \in DOMAIN tickets : tickets[id] \subseteq {"tik", "cert"}
            /\ \A i \in 1 .. next - 1 : s[i].name.ext \in {"tik", "cert"} =>
                 s[i].name.id \in DOMAIN tickets /\ s[i].name.ext \in tickets[s[i].name.id]
        BY <1>1 DEF TicketsSoFar
      <3>2. \A id \in DOMAIN tickets : tickets'[id] \subseteq {"tik", "cert"}
        BY <2>1, <2>2, <3>1
      <3>3. ASSUME NEW i \in 1 .. (next + 1) - 1, s[i].name.ext \in {"tik", "cert"}
            PROVE  s[i].name.id \in DOMAIN tickets /\ s[i].name.ext \in tickets'[s[i].name.id]
        <4>1. CASE i = next
          BY <2>1, <2>2, <4>1
        <4>2. CASE i \in 1 .. next - 1
          BY <2>2, <3>1, <3>3, <4>2
        <4> QED BY <1>3, <4>1, <4>2
      <3> QED BY <1>1, <2>2, <3>1, <3>2, <3>3 DEF TicketsSoFar
    <2>4. NcasSoFar(collections, next)'
      <3>1. s[next].name.ext \notin {"nca", "ncz"}
        BY <2>1
      <3> QED BY <1>1, <1>3, <2>1, <3>1 DEF NcasSoFar
    <2>5. Entry.name.ext \in ReadExts
      BY <1>4, <2>1 DEF ReadExts
    <2> QED BY <1>1, <2>1, <2>3, <2>4, <2>5, EntryTaken
  <1>7. CASE SkipEntry
    <2>1. UNCHANGED <<tickets, got, mOffset>> /\ s[next].name.ext \notin {"nca", "ncz", "tik", "cert"}
      BY <1>4, <1>7 DEF SkipEntry, dataVars
    <2>2. TicketsSoFar(collections, next)'
      BY <1>1, <1>3, <2>1 DEF TicketsSoFar
    <2>3. NcasSoFar(collections, next)'
      BY <1>1, <1>3, <2>1 DEF NcasSoFar
    <2>4. Between(collections, next, mOffset)'
      BY <1>1, <1>3, <2>1 DEF Between, Ahead
    <2>5. ReadsItsData'
      BY <1>1, <2>1 DEF ReadsItsData
    <2> QED BY <1>1, <1>3, <2>2, <2>3, <2>4, <2>5 DEF TakeInv
  <1> QED BY <1>5, <1>6, <1>7

\* An entry that is behind the stream begins before the end of an earlier one,
\* which begins no later: the two overlap.
LEMMA BehindOverlaps ==
    ASSUME TakeInv, BadSeek
    PROVE  \E d, e \in image.data : Overlap(d, e)
  <1> DEFINE s == collections
             n == Len(s)
  <1>1. /\ WellRead(s, image.data) /\ Ascending(s) /\ next \in 1 .. n + 1 /\ next <= n
        /\ Between(s, next, mOffset)
    BY DEF TakeInv, MoreEntries, BadSeek
  <1>2. /\ n \in Nat
        /\ \A i \in 1 .. n : Data(s[i]) \in image.data /\ s[i].offset \in Nat /\ s[i].size \in Nat
        /\ \A i, j \in 1 .. n : s[i].name = s[j].name => i = j
        /\ \A i \in 1 .. n : s[i].name.ext \in ReadExts => s[i].size > 0
    BY <1>1 DEF WellRead
  <1>3. next \in 1 .. n /\ s[next].name.ext \in ReadExts /\ ~(s[next].offset >= mOffset)
    BY <1>1, <1>2 DEF BadSeek, Entry, CanRead, ReadExts
  <1>4. PICK j \in 1 .. next - 1 : s[j].name.ext \in ReadExts /\ mOffset = s[j].offset + s[j].size
    BY <1>1, <1>2, <1>3 DEF Between, Ahead
  <1>5. j \in 1 .. n /\ j < next
    BY <1>2, <1>3, <1>4
  <1>6. s[j].offset <= s[next].offset
    BY <1>1, <1>3, <1>5 DEF Ascending
  <1>7. /\ s[j].offset \in Nat /\ s[j].size \in Nat /\ s[next].offset \in Nat /\ s[next].size \in Nat
        /\ s[next].size > 0 /\ Data(s[j]) \in image.data /\ Data(s[next]) \in image.data
        /\ s[j].name # s[next].name
    BY <1>2, <1>3, <1>5
  <1>8. s[j].offset < s[next].offset + s[next].size /\ s[next].offset < s[j].offset + s[j].size
    BY <1>3, <1>4, <1>6, <1>7
  <1>9. Overlap(Data(s[j]), Data(s[next]))
    BY <1>7, <1>8 DEF Overlap, Data
  <1> QED BY <1>7, <1>9

\* What ends an install.
LEMMA EndsTake ==
    ASSUME TakeInv, BadMagic \/ HeaderReadFails \/ StrayCert \/ BadSeek \/ EntryFails \/ Register
    PROVE  TakeInv'
  <1>1. /\ spc' \in {"done", "dtor"} /\ UNCHANGED <<image, got>> /\ spc # "idle"
        /\ rc' \in {"ok", "BadMagic", "ReadFailed", "CertNotFound", "RegisterFailed"} \/ BadSeek
    BY DEF BadMagic, HeaderReadFails, StrayCert, BadSeek, EntryFails, Register, Finish, Unwind, Outside,
           dataVars, MoreEntries
  <1>2. ReadsItsData' /\ image \in Images
    BY <1>1 DEF TakeInv, ReadsItsData
  <1>3. rc' = "BadSeek" => \E d, e \in image.data : Overlap(d, e)
    BY <1>1, BehindOverlaps
  <1> QED BY <1>1, <1>2, <1>3 DEF TakeInv

\* Yati's services have no part in it.
LEMMA ServicesTake ==
    ASSUME TakeInv, NewYati \/ SetupCall \/ SetupFails \/ SetupReturns \/ LeaveScope \/ DestroyYati
    PROVE  TakeInv'
  <1>1. /\ UNCHANGED <<image, collections, mOffset, got>> /\ rc' \in {rc, "SetupFailed"}
        /\ \/ spc \in {"new", "setup", "leave"} /\ spc' \in {"setup", "leave", "tickets", "dtor"}
           \/ spc = "dtor" /\ spc' = "done"
        /\ spc' = "tickets" => next' = 1
    BY DEF NewYati, SetupCall, SetupFails, SetupReturns, LeaveScope, DestroyYati, dataVars, Outside
  <1>2. /\ ReadsItsData' /\ image \in Images
        /\ rc = "BadSeek" => \E d, e \in image.data : Overlap(d, e)
    BY <1>1 DEF TakeInv, ReadsItsData
  <1>3. CASE spc' = "done" \/ spc' = "dtor"
    BY <1>1, <1>2, <1>3 DEF TakeInv
  <1>4. CASE spc' \in {"setup", "leave", "tickets"}
    <2>1. WellRead(collections, image.data) /\ Ahead(collections, mOffset) /\ got = {}
      BY <1>1, <1>4 DEF TakeInv
    <2>2. WellRead(collections, image.data)' /\ Ahead(collections, mOffset)'
      BY <1>1, <2>1
    <2> QED BY <1>1, <1>2, <1>4, <2>1, <2>2 DEF TakeInv
  <1> QED BY <1>1, <1>3, <1>4

\* Nor has the rest.
LEMMA HostTakes ==
    ASSUME TakeInv,
           \/ Dispatch \/ (\E name \in HostNames : OpenInstall(name)) \/ Close
           \/ Write \/ Resize \/ Browse \/ UNCHANGED sessionVars
    PROVE  TakeInv'
  <1>1. CASE Dispatch
    <2>1. /\ UNCHANGED <<image, got>> /\ spc = "dispatch" /\ spc' \in {"root", "done"}
          /\ rc' \in {rc, "ContainerNotFound"}
      BY <1>1 DEF Dispatch, Finish, Outside, dataVars
    <2>2. ReadsItsData' /\ got = {} /\ image \in Images
      BY <2>1 DEF TakeInv, ReadsItsData
    <2>3. rc = "BadSeek" => \E d, e \in image.data : Overlap(d, e)
      BY DEF TakeInv
    <2> QED BY <2>1, <2>2, <2>3 DEF TakeInv
  <1>2. ASSUME NEW name \in HostNames, OpenInstall(name) PROVE TakeInv'
    <2>1. image' \in Images /\ got' = {} /\ rc' = "ok" /\ spc' = "dispatch"
      BY <1>2 DEF OpenInstall
    <2> QED BY <2>1 DEF TakeInv, ReadsItsData
  <1>3. CASE Close
    <2>1. image' = NoImage /\ got' = {} /\ rc' = "ok" /\ spc' = "idle"
      BY <1>3 DEF Close
    <2> QED BY <2>1 DEF TakeInv, ReadsItsData
  <1>4. CASE Write \/ Resize \/ Browse \/ UNCHANGED sessionVars
    <2>1. UNCHANGED <<image, spc, container, mOffset, collections, next, tickets, got, rc>>
      BY <1>4 DEF Write, Resize, Browse, SessionIdle, sessionVars, dataVars
    <2>2. /\ WellRead(collections, image.data)' <=> WellRead(collections, image.data)
          /\ Ahead(collections, mOffset)' <=> Ahead(collections, mOffset)
          /\ Ascending(collections)' <=> Ascending(collections)
          /\ Between(collections, next, mOffset)' <=> Between(collections, next, mOffset)
      BY <2>1
    <2>3. /\ TicketsSoFar(collections, next)' <=> TicketsSoFar(collections, next)
          /\ NcasSoFar(collections, next)' <=> NcasSoFar(collections, next)
          /\ ReadsItsData' <=> ReadsItsData
      BY <2>1 DEF TicketsSoFar, NcasSoFar, ReadsItsData
    <2> QED BY <2>1, <2>2, <2>3 DEF TakeInv
  <1> QED BY <1>1, <1>2, <1>3, <1>4

LEMMA TakeInvariant ==
    ASSUME ImagesSound
    PROVE  SessionSpec => []TakeInv
  <1>1. SessionInit => TakeInv
    BY DEF SessionInit, TakeInv, ReadsItsData
  <1>2. TakeInv /\ [SessionNext]_sessionVars => TakeInv'
    BY HeadersTake, TicketsTake, EntriesTake, EndsTake, ServicesTake, HostTakes
       DEF SessionNext, InstallThread
  <1> QED BY <1>1, <1>2, PTL DEF SessionSpec

\* NeverRefused: the install finds a container for every name the folder takes,
\* and an entry that is behind the stream overlaps another one, in whichever
\* order the file table and the sort leave entries of one offset.
THEOREM NeverRefusedAlways ==
    ASSUME ImagesSound
    PROVE  SessionSpec => []NeverRefused
  <1>1. TakeInv /\ rc # "ContainerNotFound" => NeverRefused
    BY DEF TakeInv, NeverRefused
  <1> QED BY <1>1, TakeInvariant, ContainerAlwaysFound, PTL

\* ReadsItsData: what is read for an entry is its data, in a PFS0 and in the
\* secure partition of a card alike.
THEOREM ReadsItsDataAlways ==
    ASSUME ImagesSound
    PROVE  SessionSpec => []ReadsItsData
  <1>1. TakeInv => ReadsItsData
    BY DEF TakeInv
  <1> QED BY <1>1, TakeInvariant, PTL

\* AllTaken: when the contents are registered every ticket has its data and
\* that of its certificate, and every NCA was read.
THEOREM AllTakenAlways ==
    ASSUME ImagesSound
    PROVE  SessionSpec => []AllTaken
  <1>1. ASSUME TakeInv, spc = "entries", next > Len(collections)
        PROVE  /\ \A id \in DOMAIN tickets : tickets[id] = {"tik", "cert"}
               /\ {d \in image.data : d.name.ext \in {"nca", "ncz"}}
                    \subseteq {[name |-> e.name, at |-> e.offset, size |-> e.size] : e \in got}
    <2> DEFINE s == collections
               n == Len(s)
    <2>1. /\ n \in Nat /\ next \in 1 .. n + 1 /\ TicketsSoFar(s, next) /\ NcasSoFar(s, next)
          /\ \A d \in image.data : \E i \in 1 .. n : d = Data(s[i])
      BY <1>1 DEF TakeInv, WellRead
    <2>2. next - 1 = n
      BY <1>1, <2>1
    <2>3. ASSUME NEW id \in DOMAIN tickets PROVE tickets[id] = {"tik", "cert"}
      <3>1. ASSUME NEW ext \in {"tik", "cert"} PROVE ext \in tickets[id]
        <4>1. PICK i \in 1 .. n : s[i].name.ext = ext /\ s[i].name.id = id
          BY <2>1 DEF TicketsSoFar
        <4> QED BY <2>1, <2>2, <4>1 DEF TicketsSoFar
      <3>2. tickets[id] \subseteq {"tik", "cert"}
        BY <2>1 DEF TicketsSoFar
      <3> QED BY <3>1, <3>2
    <2>4. ASSUME NEW d \in image.data, d.name.ext \in {"nca", "ncz"}
          PROVE  \E e \in got : d = [name |-> e.name, at |-> e.offset, size |-> e.size]
      <3>1. PICK i \in 1 .. n : d = Data(s[i])
        BY <2>1
      <3>2. d.name = s[i].name
        BY <3>1 DEF Data
      <3>3. s[i] \in got
        BY <2>1, <2>2, <2>4, <3>2 DEF NcasSoFar
      <3> QED BY <3>1, <3>3 DEF Data
    <2> QED BY <2>3, <2>4
  <1>2. TakeInv => AllTaken
    BY <1>1 DEF AllTaken
  <1> QED BY <1>2, TakeInvariant, PTL
=============================================================================
