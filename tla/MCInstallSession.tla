-------------------------- MODULE MCInstallSession --------------------------
(***************************************************************************)
(* Small instances of InstallSession. The host uses five names: one in     *)
(* both cases, the name a duplicate would get, a long one, and one that is *)
(* refused; numbering ends after (1), so that the third duplicate gets the *)
(* tick. The images are an NSP made by Nsp::Build whose header is already  *)
(* aligned, two whose header is not, one with its data in another order    *)
(* than its table, one with an empty entry where the next starts, one with *)
(* overlapping entries, one with a certificate too many, one with none for *)
(* its ticket, and two XCIs, one of them without a secure partition.       *)
(* Lengths of names are those of ids in hexadecimal; the data sizes are    *)
(* small.                                                                  *)
(***************************************************************************)
EXTENDS InstallSession

Name(stem, suffix, ext, upper) == [stem |-> stem, suffix |-> suffix, ext |-> ext, upper |-> upper]
MCHostNames == {Name("game", <<>>, "nsp", FALSE), Name("game", <<>>, "nsp", TRUE),
                Name("game", <<1>>, "nsp", FALSE), Name("long", <<>>, "xci", FALSE), Name("notes", <<>>, "txt", FALSE)}

MCLongStems == {"long"}
MCSizes == {0, 4}
MCMaxNumber == 2
MCMaxEntries == 3
MCMaxRead == 2
MCMaxInstalls == 2

E(id, len, ext, size) == [name |-> [id |-> id, len |-> len, ext |-> ext], size |-> size]
Cnmt == E("meta", 41, "nca", 5)
Program == E("program", 36, "nca", 3)
Control == E("control", 36, "ncz", 4)
Tik == E("r1", 36, "tik", 2)
Cert == E("r1", 37, "cert", 1)
Xml(len) == E("info", len, "xml", 6)

\* Where the data of es is when it stands from base on in their order.
RECURSIVE Layout(_, _)
Layout(base, es) ==
    IF es = <<>> THEN {}
    ELSE {[name |-> es[1].name, at |-> base, size |-> es[1].size]}
           \cup Layout(base + es[1].size, Tail(es))

\* The data starts at the next multiple of 0x20 behind the unpadded header.
DataBase(es) == ((HeaderSize + 24 * Len(es) + NameOffset(es, Len(es) + 1)) \div 32 + 1) * 32

Built(es) ==
    [partitions |-> {[at |-> 0, header |-> BuildHeader(es)]},
     data |-> Layout(DataBase(es), es),
     size |-> BuildSize(es)]

\* The same header, with the data of the entries in the order of another list.
Shuffled(es, order) ==
    LET header == BuildHeader(es)
        place == Layout(0, order)
        offsetOf(e) == (CHOOSE d \in place : d.name = e.name).at
    IN [partitions |-> {[at |-> 0, header |->
            [header EXCEPT !.table = [i \in DOMAIN es |-> [header.table[i] EXCEPT !.dataOffset = offsetOf(es[i])]]]]},
        data |-> Layout(DataBase(es), order),
        size |-> BuildSize(es)]

\* Two entries share a part of their data.
Overlapping(a, b) ==
    LET header == BuildHeader(<<a, b>>) IN
    [partitions |-> {[at |-> 0, header |-> [header EXCEPT !.table[2].dataOffset = @ - 1]]},
     data |-> {[name |-> a.name, at |-> DataBase(<<a, b>>), size |-> a.size],
               [name |-> b.name, at |-> DataBase(<<a, b>>) + a.size - 1, size |-> b.size]},
     size |-> BuildSize(<<a, b>>)]

\* An HFS0 header with its string table padded to a multiple of 8.
Hfs0(es) ==
    [BuildHeader(es) EXCEPT !.magic = "HFS0", !.stringSize = ((NameOffset(es, Len(es) + 1) + 7) \div 8) * 8]

\* A game card: the root partition names the others, which follow it.
Card(names, es) ==
    LET secure == Hfs0(es)
        part(n) == E(n, Len(n), "", IF n = "secure" THEN PartitionSize(secure) + DataOffset(es, Len(es) + 1) ELSE 512)
        root == Hfs0([i \in DOMAIN names |-> part(names[i])])
        base == 61440 + PartitionSize(root)
        places == Layout(base, [i \in DOMAIN names |-> part(names[i])])
        at(n) == (CHOOSE d \in places : d.name.id = n).at
        has == \E i \in DOMAIN names : names[i] = "secure"
    IN [partitions |-> {[at |-> 61440, header |-> root]}
          \cup (IF has THEN {[at |-> at("secure"), header |-> secure]} ELSE {}),
        data |-> Layout((IF has THEN at("secure") ELSE base) + PartitionSize(secure), es),
        size |-> base + 4096]

MCImages ==
    {Built(<<Cnmt, Program, Tik, Cert>>), Built(<<Cnmt, E("info", 26, "xml", 0), Program>>),
     Built(<<Tik, Cert, Xml(26), Cnmt>>), Built(<<Tik, Cert, Xml(27), Cnmt>>),
     Shuffled(<<Tik, Cert, Cnmt, Program, Xml(12)>>, <<Program, Cert, Xml(12), Tik, Cnmt>>),
     Built(<<Cert, Cnmt>>),
     Overlapping(Cnmt, Program),
     Built(<<Cnmt, Tik>>),
     Card(<<"update", "normal", "secure">>, <<Cnmt, Program, Control>>),
     Card(<<"update", "normal">>, <<Cnmt>>)}

\* The instance is one the theorems are about.
ASSUME MCSessionAssumption == HostHasNoTicks /\ ImagesSound
=============================================================================
