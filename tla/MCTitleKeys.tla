----------------------------- MODULE MCTitleKeys -----------------------------
(***************************************************************************)
(* Small instances of TitleKeys.  The console is device 1 and knows the    *)
(* keys up to generation 4.  The packages: a game of generation 3 with a   *)
(* personalised ticket for this console; one of generation 32, the last    *)
(* for which prod.keys has a place, newer than the console, with a common  *)
(* ticket; a game card dump of generation 2, whose NCAs need no ticket;    *)
(* one of generation 0 with a signed ticket; one with a ticket for another *)
(* console; and damaged ones.  Title makes three NCAs: two that share the  *)
(* ticket and one that needs none.                                         *)
(***************************************************************************)
EXTENDS TitleKeys

MCFirmware == 4
MCDeviceId == 1
MCDeviceGeneration == 3
MCMaxInstalls == 2

\* Headers and tickets as they are made for sale.
Under(name, section, place) == Crypt(Plain(name), "enc", KeyOf(section, place))
Header(g, rights, key) ==
    [magic |-> "NCA3", gameCard |-> FALSE, kaek |-> 0, rights |-> rights,
     oldKeyGen |-> IF g <= 2 THEN g ELSE 2, keyGen |-> IF g <= 2 THEN 0 ELSE g,
     keyArea |-> Under(key, "application", MasterKey(g)), sig |-> "good", sigKeyGen |-> 0]
Standard(id, g) == [id |-> id, key |-> id, intact |-> TRUE, header |-> Header(g, "none", id)]
Titled(id, g, rights) == [id |-> id, key |-> rights, intact |-> TRUE, header |-> Header(g, rights, "zeros")]
Card(nca) == [nca EXCEPT !.header.gameCard = TRUE, !.header.kaek = 1,
                         !.header.keyArea = Under(nca.key, "ocean", MasterKey(GetKeyGeneration(nca.header)))]
Tik(rights, g, kind, device) ==
    [name |-> rights, ticket |->
        [rights |-> rights, kind |-> kind, revision |-> g, device |-> device, version |-> 2, whole |-> TRUE,
         sigType |-> "Rsa2048Sha256", signed |-> TRUE, cert |-> "Rsa2048",
         block |-> LET b == Under(rights, "titlekek", MasterKey(g)) IN
                   IF kind = "common" THEN b ELSE Crypt(b, "enc", KeyOf("device", device))]]
Title(g, kind, device) ==
    [ncas |-> <<Standard("meta", g), Titled("program", g, "r1"), Titled("control", g, "r1")>>,
     tickets |-> <<Tik("r1", g, kind, device)>>]

MCPackages ==
    {Title(3, "personalised", 1),
     [Title(32, "common", 0) EXCEPT !.tickets[1].ticket.signed = FALSE],
     Title(0, "common", 0),
     [ncas |-> <<Card(Standard("meta", 2)), Card(Standard("program", 2))>>, tickets |-> <<>>],
     [Title(3, "personalised", 2) EXCEPT !.ncas[2].header.sig = "otherDistribution"],
     [Title(4, "common", 0) EXCEPT !.tickets[1].ticket.cert = "none", !.ncas[1].intact = FALSE],
     [Title(3, "common", 0) EXCEPT !.tickets = <<>>, !.ncas[1].header.sig = "bad"]}

\* 3.0.0: the generation that stands in the old field alone, with a ticket.
OldPackages == {Title(2, "common", 0)}

Configuration(verify, ignore, common, standard, lower) ==
    [skipHash |-> ~verify, skipFixedKey |-> ~verify, ignoreBit |-> ignore,
     common |-> common, standard |-> standard, lower |-> lower]
MCOverrides ==
    {Configuration(verify, verify, common, standard, lower) : verify, common, standard, lower \in BOOLEAN}

Line(name, index) == [name |-> name, index |-> index, value |-> "right"]
Wrong(name, index) == [Line(name, index) EXCEPT !.value = "wrong"]
AllLines ==
    << Line("application", 0), Line("application", 1), Line("application", 2), Line("application", 3),
       Line("application", 31), Line("ocean", 0), Line("ocean", 1), Line("titlekek", 0), Line("titlekek", 1),
       Line("titlekek", 2), Line("titlekek", 3), Line("titlekek", 31), Line("eticket_rsa_kek_personalized", 0) >>
MCKeyFiles ==
    { AllLines, <<>>, SubSeq(AllLines, 1, 11),
      AllLines \o <<[Line("application", 0) EXCEPT !.value = "zero"], Line("titlekek", 32)>>,
      Append(AllLines, Wrong("eticket_rsa_kek_personalized", 0)), Append(AllLines, Wrong("titlekek", 2)),
      AllLines \o <<Wrong("application", 0), Wrong("application", 31)>> }
GoodKeyFiles == {AllLines}

\* The instance is one the theorems are about, but for the old package.
ASSUME MCKeysAssumption == (\A p \in Packages \ OldPackages : Fits(p)) /\ KeyFiles \subseteq Seq(LineType)
=============================================================================
