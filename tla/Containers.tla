----------------------------- MODULE Containers -----------------------------
(***************************************************************************)
(* The containers (yati/container/nsp.cpp, xci.cpp): the PFS0 header that  *)
(* Nsp::Build writes, and the reading of PFS0 and HFS0 headers into the    *)
(* collections that are installed.                                         *)
(*                                                                         *)
(* An image says which partitions stand where: a partition is a header     *)
(* with its magic, its file table and its string table, here a function    *)
(* from name offsets to names.  A name is a record with its length.        *)
(***************************************************************************)
EXTENDS Integers, Sequences

\* sizeof(Pfs0Header) = sizeof(Hfs0Header), sizeof(Pfs0FileTableEntry),
\* sizeof(Hfs0FileTableEntry), HFS0_HEADER_OFFSET
HeaderSize == 16
EntrySize == [PFS0 |-> 24, HFS0 |-> 64]
Hfs0HeaderOffset == 61440

SumUpTo(f, n) ==
    LET sum[i \in 0 .. n] == IF i = 0 THEN 0 ELSE sum[i - 1] + f[i] IN sum[n]

NameOffset(es, i) == SumUpTo([k \in DOMAIN es |-> es[k].name.len + 1], i - 1)
DataOffset(es, i) == SumUpTo([k \in DOMAIN es |-> es[k].size], i - 1)

\* The string table as entries fill it, without padding.
Strings(es) ==
    [o \in {NameOffset(es, i) : i \in DOMAIN es} |->
        es[CHOOSE i \in DOMAIN es : NameOffset(es, i) = o].name]

AlignUp(n) == ((n + 31) \div 32) * 32

\* The string table is padded so that the header ends on 0x20, with a whole
\* 0x20 more if it would have needed no padding.
PaddedStringSize(es) ==
    LET nameless == HeaderSize + Len(es) * EntrySize.PFS0
        size == NameOffset(es, Len(es) + 1)
        padded == AlignUp(nameless + size) - nameless
    IN IF padded = size THEN padded + 32 ELSE padded

\* Nsp::Build: the header of a PFS0 with these entries, in this order.
BuildHeader(es) ==
    [magic |-> "PFS0",
     table |-> [i \in DOMAIN es |->
                  [dataOffset |-> DataOffset(es, i), dataSize |-> es[i].size,
                   nameOffset |-> NameOffset(es, i)]],
     strings |-> Strings(es),
     stringSize |-> PaddedStringSize(es)]

PartitionSize(p) == HeaderSize + Len(p.table) * EntrySize[p.magic] + p.stringSize

\* The size Nsp::Build reports: the header and all data.
BuildSize(es) == PartitionSize(BuildHeader(es)) + DataOffset(es, Len(es) + 1)

\* The partition whose header the image has at off, if any.
At(image, off) == CHOOSE p \in image.partitions : p.at = off
IsPartition(image, off, magic) ==
    \E p \in image.partitions : p.at = off /\ p.header.magic = magic

\* Seeded fault: the string table is not counted.
DataBehindTable(image, off) ==
    LET p == At(image, off).header IN off + HeaderSize + Len(p.table) * EntrySize[p.magic]

\* Where the data of a partition at off starts: behind the three reads.
DataStart(image, off) == off + PartitionSize(At(image, off).header)

NameOf(p, i) == p.strings[p.table[i].nameOffset]

\* The collections of the partition at off, with offsets into the image.
EntriesAt(image, off) ==
    LET p == At(image, off).header IN
    [i \in DOMAIN p.table |->
        [name |-> NameOf(p, i),
         offset |-> DataStart(image, off) + p.table[i].dataOffset,
         size |-> p.table[i].dataSize]]

\* The first entry of the root partition that is called "secure", or none (0).
SecureIndex(root) ==
    LET hits == {i \in DOMAIN root.table : NameOf(root, i).id = "secure"} IN
    IF hits = {} THEN 0 ELSE CHOOSE i \in hits : \A j \in hits : i <= j

SecureOffset(image, off) ==
    LET root == At(image, off).header IN
    DataStart(image, off) + root.table[SecureIndex(root)].dataOffset
=============================================================================
