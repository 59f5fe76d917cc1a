---------------------------- MODULE MCNcmInstall ----------------------------
(***************************************************************************)
(* Small instances of NcmInstall: two versions of a patch that share a     *)
(* content, a base with a patch in one container, an add-on beside another *)
(* add-on, containers without an NCA, with a cert too many and without a   *)
(* cnmt, on consoles that are empty, have an older or newer patch on       *)
(* either storage, or have a content nobody owns.  Two installs, of which  *)
(* one may meet a failed call or a power loss.                             *)
(***************************************************************************)
EXTENDS NcmInstall

Nca(id, off, tik) == [id |-> id, kind |-> "nca", off |-> off, tik |-> tik, key |-> 0, infos |-> <<>>]
Data(id, kind, off) == [id |-> id, kind |-> kind, off |-> off, tik |-> "none", key |-> 0, infos |-> <<>>]
Meta(id, off, key, infos) ==
    [id |-> id, kind |-> "cnmt", off |-> off, tik |-> "none", key |-> key, infos |-> infos]
Key(id, app, type, version) == [id |-> id, app |-> app, type |-> type, version |-> version]
Info(id, type) == [id |-> id, type |-> type]

BaseKey == Key("game", "game", "Application", 0)
Patch1Key == Key("game800", "game", "Patch", 1)
Patch2Key == Key("game800", "game", "Patch", 2)
Dlc1Key == Key("game1001", "game", "AddOnContent", 5)
Dlc2Key == Key("game1002", "game", "AddOnContent", 0)

Patch1 == << Meta("m1", 3, Patch1Key, <<Info("p1", 1), Info("shared", 3)>>),
             Nca("p1", 1, "T"), Nca("shared", 2, "none"), Data("T", "tik", 5), Data("T", "cert", 4) >>
Patch2 == << Nca("p2", 1, "T"), Data("T", "cert", 5), Data("T", "tik", 2), Nca("shared", 6, "none"),
             Nca("delta", 4, "none"),
             Meta("m2", 3, Patch2Key, <<Info("p2", 1), Info("shared", 3), Info("delta", 6)>>) >>
Bundle == << Meta("mb", 1, BaseKey, <<Info("base", 1)>>), Nca("base", 2, "none"),
             Meta("m1", 5, Patch1Key, <<Info("p1", 1)>>), Nca("p1", 3, "T"),
             Data("T", "tik", 4), Data("T", "cert", 6) >>
Dlc2 == << Meta("md2", 1, Dlc2Key, <<Info("dlc2", 2)>>), Nca("dlc2", 2, "none") >>
Lacking == << Meta("m2", 1, Patch2Key, <<Info("p2", 1), Info("shared", 3)>>), Nca("p2", 2, "T"),
              Data("T", "tik", 3), Data("T", "cert", 4) >>
LoneCert == << Data("T", "cert", 2), Meta("md2", 1, Dlc2Key, <<Info("dlc2", 2)>>), Nca("dlc2", 3, "none") >>
NoMeta == << Nca("delta", 1, "none") >>

None == [nand |-> {}, sd |-> {}]
Entry(key, infos) == [key |-> key, infos |-> infos]
P1Entry == Entry(Patch1Key, {"m1", "p1", "shared"})
P2Entry == Entry(Patch2Key, {"m2", "p2", "shared"})
D1Entry == Entry(Dlc1Key, {"md1", "dlc1"})

Empty == [contents |-> None, db |-> None, tickets |-> {}]
OldOnNand == [contents |-> [nand |-> P1Entry.infos, sd |-> {}], db |-> [nand |-> {P1Entry}, sd |-> {}],
              tickets |-> {"T"}]
OldOnSd == [contents |-> [nand |-> {}, sd |-> P1Entry.infos], db |-> [nand |-> {}, sd |-> {P1Entry}],
            tickets |-> {"T"}]
NewOnSd == [contents |-> [nand |-> {}, sd |-> P2Entry.infos \cup D1Entry.infos],
            db |-> [nand |-> {}, sd |-> {P2Entry, D1Entry}], tickets |-> {"T"}]
Orphan == [contents |-> [nand |-> {}, sd |-> {"p2", "m2"}], db |-> None, tickets |-> {}]

MCPackages == {Patch1, Patch2, Bundle, Dlc2, Lacking, LoneCert, NoMeta}
MCDevices == {Empty, OldOnNand, OldOnSd, NewOnSd, Orphan}

\* The instance is one the theorems are about.
ASSUME MCNcmAssumption ==
    /\ \A e \in Known : e.key.version \in 0 .. 9
    /\ OneNca /\ OneOwner /\ DistinctTitles /\ OneInfo /\ Offsets /\ OneTicket /\ DevicesTicketed

BothModes == {"stream", "file"}
StreamOnly == {"stream"}
=============================================================================
