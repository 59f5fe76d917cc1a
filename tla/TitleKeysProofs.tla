--------------------------- MODULE TitleKeysProofs ---------------------------
(***************************************************************************)
(* Proofs about TitleKeys, for every package that fits (PackagesFit),      *)
(* every configuration, prod.keys and console, and any number of installs. *)
(*                                                                         *)
(* The console: a ticket there gives the key of every content that needs   *)
(* it, a content is as an install makes it of an NCA of the package        *)
(* (Made), and the ticket it needs is there. An install: each NCA that was *)
(* taken is so made, and its ticket is on the console or still coming,     *)
(* that is, required in a place that ImportTicket has not passed. A        *)
(* conversion gives up the ticket of its NCA, also for the NCAs before it  *)
(* that share it: so none of those may be waiting (NotConverted).          *)
(*                                                                         *)
(* prod.keys may have any key wrong: a conversion that does not mislead    *)
(* uses right keys only (RightKeys), whether spl gives one or not, so what *)
(* it writes has its key unless it is marked as misled.                    *)
(***************************************************************************)
EXTENDS TitleKeys, DataInduction

-----------------------------------------------------------------------------
(* Lists of checks *)

Errors ==
    {"KeyFailedDecyptETicketDeviceKey", "EsBadTitleKeyType", "EsBadTicketSize",
     "EsInvalidTicketFromatVersion", "EsInvalidTicketKeyType", "EsInvalidTicketKeyRevision",
     "EsPersonalisedTicketDeviceIdMissmatch", "EsFailedDecryptPersonalisedTicket", "KeyMissingNcaKeyArea",
     "NcaBadSigKeyGen", "NcaFailedNcaHeaderHashVerify", "TicketNotFound", "InvalidTicketBadRightsId",
     "KeyMissingTitleKek", "InvalidNcaMagic", "InvalidNcaSha256", "FsFailedToMount"}
CheckType == [ok : BOOLEAN, rc : Errors]
AllOk(checks) == \A i \in 1 .. Len(checks) : checks[i].ok

\* The result is success only if every check is passed.
LEMMA FirstErrorIsOk ==
    ASSUME NEW checks \in Seq(CheckType)
    PROVE  FirstError(checks) = "ok" <=> AllOk(checks)
  <1> DEFINE bad == {i \in DOMAIN checks : ~checks[i].ok}
             n == Len(checks)
  <1>1. n \in Nat /\ DOMAIN checks = 1 .. n
    OBVIOUS
  <1>2. \A i \in 1 .. n : checks[i] \in CheckType
    BY <1>1
  <1>3. \A i \in 1 .. n : checks[i].rc # "ok"
    BY <1>2 DEF CheckType, Errors
  <1>4. CASE bad = {}
    BY <1>1, <1>4 DEF FirstError, AllOk
  <1>5. CASE bad # {}
    <2>1. \E i \in bad : \A j \in bad : i <= j
      <3>1. bad \in SUBSET Nat
        BY <1>1
      <3> HIDE DEF bad
      <3> QED BY <1>5, <3>1, LeastMember
    <2> DEFINE first == CHOOSE i \in bad : \A j \in bad : i <= j
    <2>2. first \in bad
      <3> HIDE DEF bad
      <3> QED BY <2>1
    <2>3. FirstError(checks) = checks[first].rc
      BY <1>5 DEF FirstError
    <2>4. first \in 1 .. n /\ ~checks[first].ok
      BY <1>1, <2>2
    <2> HIDE DEF first, bad
    <2>5. ~AllOk(checks)
      BY <2>4 DEF AllOk
    <2> QED BY <1>3, <2>3, <2>4, <2>5
  <1> QED BY <1>4, <1>5

\* Lists one behind the other, and a list that is made on a condition.
LEMMA ChecksJoined ==
    ASSUME NEW a \in Seq(CheckType), NEW b \in Seq(CheckType)
    PROVE  a \o b \in Seq(CheckType) /\ (AllOk(a \o b) <=> AllOk(a) /\ AllOk(b))
  <1> DEFINE c == a \o b
             m == Len(a)
             n == Len(b)
  <1>1. /\ c \in Seq(CheckType) /\ m \in Nat /\ n \in Nat /\ Len(c) = m + n
        /\ \A i \in 1 .. m + n : c[i] = IF i <= m THEN a[i] ELSE b[i - m]
    OBVIOUS
  <1> HIDE DEF c, m, n
  <1>2. ASSUME AllOk(a), AllOk(b) PROVE AllOk(c)
    <2>1. \A i \in 1 .. m + n : IF i <= m THEN i \in 1 .. m ELSE i - m \in 1 .. n
      BY <1>1
    <2> QED BY <1>1, <1>2, <2>1 DEF AllOk, m, n
  <1>3. ASSUME AllOk(c) PROVE AllOk(a) /\ AllOk(b)
    <2>1. \A i \in 1 .. m : i \in 1 .. m + n /\ i <= m
      BY <1>1
    <2>2. \A i \in 1 .. n : i + m \in 1 .. m + n /\ ~(i + m <= m) /\ (i + m) - m = i
      BY <1>1
    <2>3. ASSUME NEW i \in 1 .. n PROVE b[i].ok
      <3>1. c[i + m] = b[i] /\ c[i + m].ok
        BY <1>1, <1>3, <2>2 DEF AllOk
      <3> QED BY <3>1
    <2>4. ASSUME NEW i \in 1 .. m PROVE a[i].ok
      BY <1>1, <1>3, <2>1 DEF AllOk
    <2> QED BY <2>3, <2>4 DEF AllOk, m, n
  <1> QED BY <1>1, <1>2, <1>3 DEF c

\* Lists of none, one, two and five.
LEMMA NoChecks == <<>> \in Seq(CheckType) /\ AllOk(<<>>)
  <1>1. <<>> \in Seq(CheckType) /\ Len(<<>>) = 0
    OBVIOUS
  <1> QED BY <1>1 DEF AllOk

LEMMA OneCheck ==
    ASSUME NEW a \in BOOLEAN, NEW e \in Errors
    PROVE  <<Check(a, e)>> \in Seq(CheckType) /\ (AllOk(<<Check(a, e)>>) <=> a)
  <1> DEFINE c == Check(a, e)
  <1>1. c \in CheckType /\ c.ok = a
    BY DEF CheckType, Check
  <1> HIDE DEF c
  <1>2. <<c>> \in Seq(CheckType) /\ Len(<<c>>) = 1 /\ <<c>>[1] = c
    BY <1>1
  <1>3. AllOk(<<c>>) <=> c.ok
    BY <1>2 DEF AllOk
  <1> QED BY <1>1, <1>2, <1>3 DEF c

LEMMA TwoChecks ==
    ASSUME NEW a \in BOOLEAN, NEW e \in Errors, NEW b \in BOOLEAN, NEW f \in Errors
    PROVE  /\ <<Check(a, e), Check(b, f)>> \in Seq(CheckType)
           /\ AllOk(<<Check(a, e), Check(b, f)>>) <=> a /\ b
  <1> DEFINE c == Check(a, e)
             d == Check(b, f)
  <1>1. c \in CheckType /\ c.ok = a /\ d \in CheckType /\ d.ok = b
    BY DEF CheckType, Check
  <1> HIDE DEF c, d
  <1>2. <<c, d>> \in Seq(CheckType) /\ Len(<<c, d>>) = 2 /\ <<c, d>>[1] = c /\ <<c, d>>[2] = d
    BY <1>1
  <1>3. AllOk(<<c, d>>) <=> c.ok /\ d.ok
    BY <1>2 DEF AllOk
  <1> QED BY <1>1, <1>2, <1>3 DEF c, d

LEMMA FiveChecks ==
    ASSUME NEW c1 \in CheckType, NEW c2 \in CheckType, NEW c3 \in CheckType, NEW c4 \in CheckType,
           NEW c5 \in CheckType
    PROVE  /\ <<c1, c2, c3, c4, c5>> \in Seq(CheckType)
           /\ AllOk(<<c1, c2, c3, c4, c5>>) <=> c1.ok /\ c2.ok /\ c3.ok /\ c4.ok /\ c5.ok
  <1> DEFINE all == <<c1, c2, c3, c4, c5>>
  <1>1. /\ all \in Seq(CheckType) /\ Len(all) = 5
        /\ all[1] = c1 /\ all[2] = c2 /\ all[3] = c3 /\ all[4] = c4 /\ all[5] = c5
    OBVIOUS
  <1> HIDE DEF all
  <1>2. AllOk(all) <=> c1.ok /\ c2.ok /\ c3.ok /\ c4.ok /\ c5.ok
    BY <1>1 DEF AllOk
  <1> QED BY <1>1, <1>2 DEF all

\* What the checks of tickets and headers come to.
LEMMA TicketDataChecked ==
    ASSUME NEW t \in TicketType
    PROVE  /\ TicketDataChecks(t) \in Seq(CheckType)
           /\ AllOk(TicketDataChecks(t)) <=>
                /\ t.sigType \in SigTypes /\ t.whole /\ t.version = 2
                /\ t.kind \in {"common", "personalised"} /\ t.revision <= 32
  <1> DEFINE a1 == t.sigType \in SigTypes
             a2 == t.whole
             a3 == t.version = 2
             a4 == t.kind \in {"common", "personalised"}
             a5 == t.revision <= 32
             c1 == Check(a1, "EsBadTitleKeyType")
             c2 == Check(a2, "EsBadTicketSize")
             c3 == Check(a3, "EsInvalidTicketFromatVersion")
             c4 == Check(a4, "EsInvalidTicketKeyType")
             c5 == Check(a5, "EsInvalidTicketKeyRevision")
  <1>1. a1 \in BOOLEAN /\ a2 \in BOOLEAN /\ a3 \in BOOLEAN /\ a4 \in BOOLEAN /\ a5 \in BOOLEAN
    BY DEF TicketType
  <1>2. TicketDataChecks(t) = <<c1, c2, c3, c4, c5>>
    BY DEF TicketDataChecks
  <1> HIDE DEF a1, a2, a3, a4, a5
  <1>3. \A b \in BOOLEAN : \A e \in Errors : Check(b, e) \in CheckType /\ Check(b, e).ok = b
    BY DEF CheckType, Check
  <1>4. /\ "EsBadTitleKeyType" \in Errors /\ "EsBadTicketSize" \in Errors
        /\ "EsInvalidTicketFromatVersion" \in Errors /\ "EsInvalidTicketKeyType" \in Errors
        /\ "EsInvalidTicketKeyRevision" \in Errors
    BY DEF Errors
  <1>5. /\ c1 \in CheckType /\ c2 \in CheckType /\ c3 \in CheckType /\ c4 \in CheckType /\ c5 \in CheckType
        /\ c1.ok = a1 /\ c2.ok = a2 /\ c3.ok = a3 /\ c4.ok = a4 /\ c5.ok = a5
    BY <1>1, <1>3, <1>4
  <1> HIDE DEF c1, c2, c3, c4, c5
  <1>6. /\ TicketDataChecks(t) \in Seq(CheckType)
        /\ AllOk(TicketDataChecks(t)) <=> a1 /\ a2 /\ a3 /\ a4 /\ a5
    BY <1>1, <1>2, <1>5, FiveChecks
  <1> QED BY <1>6 DEF a1, a2, a3, a4, a5

\* A personalised ticket can be opened: GetTitleKey.
DeviceFits(t) ==
    t.kind = "personalised" =>
      /\ keys.deviceOpen /\ t.device = DeviceId
      /\ t.block.layers[Len(t.block.layers)].key = KeyOf("device", DeviceId)

\* GetTitleKey fails exactly if the ticket cannot be opened.
LEMMA TitleKeyChecked ==
    ASSUME NEW t
    PROVE  TitleKeyChecks(t) \in Seq(CheckType) /\ (AllOk(TitleKeyChecks(t)) <=> DeviceFits(t))
  <1> DEFINE a == keys.deviceOpen /\ t.device = DeviceId
             b == t.block.layers[Len(t.block.layers)].key = KeyOf("device", DeviceId)
  <1>1. a \in BOOLEAN /\ b \in BOOLEAN
    OBVIOUS
  <1>2. {"EsPersonalisedTicketDeviceIdMissmatch", "EsFailedDecryptPersonalisedTicket"} \subseteq Errors
    BY DEF Errors
  <1>3. CASE t.kind = "personalised"
    <2>1. TitleKeyChecks(t) = << Check(a, "EsPersonalisedTicketDeviceIdMissmatch"),
                                 Check(b, "EsFailedDecryptPersonalisedTicket") >>
      BY <1>3 DEF TitleKeyChecks
    <2>2. DeviceFits(t) <=> a /\ b
      BY <1>3 DEF DeviceFits
    <2> HIDE DEF a, b
    <2> QED BY <1>1, <1>2, <2>1, <2>2, TwoChecks
  <1>4. CASE t.kind # "personalised"
    <2>1. TitleKeyChecks(t) = <<>>
      BY <1>4 DEF TitleKeyChecks
    <2> QED BY <1>4, <2>1, NoChecks DEF DeviceFits
  <1> QED BY <1>3, <1>4

\* PatchTicket fails if the ticket is damaged, or cannot be opened and has to be.
LEMMA PatchChecked ==
    ASSUME NEW t \in TicketType
    PROVE  /\ PatchChecks(t) \in Seq(CheckType)
           /\ AllOk(PatchChecks(t)) <=>
                /\ AllOk(TicketDataChecks(t))
                /\ LooksAtCert(t) => t.cert \in {"Rsa4096", "Rsa2048", "Ecc480"}
                /\ ShouldPatch(t) => DeviceFits(t)
  <1> DEFINE a == TicketDataChecks(t)
             b == ShouldPatchChecks(t)
             c == IF ShouldPatch(t) THEN TitleKeyChecks(t) ELSE <<>>
             known == t.cert \in {"Rsa4096", "Rsa2048", "Ecc480"}
  <1>1. a \in Seq(CheckType)
    BY TicketDataChecked
  <1>2. b \in Seq(CheckType) /\ (AllOk(b) <=> (LooksAtCert(t) => known))
    <2>1. known \in BOOLEAN /\ "EsBadTitleKeyType" \in Errors
      BY DEF Errors
    <2>2. CASE LooksAtCert(t)
      <3>1. b = <<Check(known, "EsBadTitleKeyType")>>
        BY <2>2 DEF ShouldPatchChecks
      <3> HIDE DEF known, b
      <3> QED BY <2>1, <2>2, <3>1, OneCheck
    <2>3. CASE ~LooksAtCert(t)
      <3>1. b = <<>>
        BY <2>3 DEF ShouldPatchChecks
      <3> QED BY <2>3, <3>1, NoChecks
    <2> QED BY <2>2, <2>3
  <1>3. c \in Seq(CheckType) /\ (AllOk(c) <=> (ShouldPatch(t) => DeviceFits(t)))
    BY TitleKeyChecked, NoChecks
  <1>4. PatchChecks(t) = a \o b \o c
    BY DEF PatchChecks
  <1> HIDE DEF a, b, c
  <1>5. a \o b \in Seq(CheckType) /\ (AllOk(a \o b) <=> AllOk(a) /\ AllOk(b))
    BY <1>1, <1>2, ChecksJoined
  <1>6. a \o b \o c \in Seq(CheckType) /\ (AllOk(a \o b \o c) <=> AllOk(a \o b) /\ AllOk(c))
    BY <1>3, <1>5, ChecksJoined
  <1> QED BY <1>2, <1>3, <1>4, <1>5, <1>6 DEF a

\* Whether a conversion finds its keys.
ConvertFits(h, spl) ==
    /\ HasTik(h) => LET t == tiks[TikFor(h)].ticket IN
         /\ AllOk(TicketDataChecks(t)) /\ t.rights = h.rights /\ DeviceFits(t) /\ HasTitleKek(h.keyGen)
    /\ ~HasTik(h) => SplGives(h, spl) \/ HasNcaKeyArea(GetKeyGeneration(h), h.kaek)
    /\ HasNcaKeyArea(KeakGeneration(h), h.kaek)

\* The checks of a conversion are passed exactly if it finds them.
LEMMA ConvertChecked ==
    ASSUME NEW h, NEW spl \in BOOLEAN, HasTik(h) => tiks[TikFor(h)].ticket \in TicketType
    PROVE  /\ ConvertChecks(h, spl) \in Seq(CheckType)
           /\ AllOk(ConvertChecks(h, spl)) <=> ConvertFits(h, spl)
  <1> DEFINE t == tiks[TikFor(h)].ticket
             a == TicketDataChecks(t)
             b == <<Check(t.rights = h.rights, "InvalidTicketBadRightsId")>>
             c == TitleKeyChecks(t)
             d == <<Check(HasTitleKek(h.keyGen), "KeyMissingTitleKek")>>
             e == DecryptKeakChecks(h, spl)
             f == EncryptKeakChecks(h, KeakGeneration(h))
             known == SplGives(h, spl) \/ HasNcaKeyArea(GetKeyGeneration(h), h.kaek)
  <1>1. {"InvalidTicketBadRightsId", "KeyMissingTitleKek", "KeyMissingNcaKeyArea"} \subseteq Errors
    BY DEF Errors
  <1>2. f \in Seq(CheckType) /\ (AllOk(f) <=> HasNcaKeyArea(KeakGeneration(h), h.kaek))
    <2>1. HasNcaKeyArea(KeakGeneration(h), h.kaek) \in BOOLEAN
      BY DEF HasNcaKeyArea, HasKeyOf
    <2> QED BY <1>1, <2>1, OneCheck DEF EncryptKeakChecks
  <1>3. CASE HasTik(h)
    <2>1. a \in Seq(CheckType)
      BY <1>3, TicketDataChecked
    <2>2. b \in Seq(CheckType) /\ (AllOk(b) <=> t.rights = h.rights)
      <3>1. (t.rights = h.rights) \in BOOLEAN
        OBVIOUS
      <3> HIDE DEF t
      <3> QED BY <1>1, <3>1, OneCheck
    <2>3. c \in Seq(CheckType) /\ (AllOk(c) <=> DeviceFits(t))
      BY TitleKeyChecked
    <2>4. d \in Seq(CheckType) /\ (AllOk(d) <=> HasTitleKek(h.keyGen))
      <3>1. HasTitleKek(h.keyGen) \in BOOLEAN
        BY DEF HasTitleKek, HasKeyOf
      <3> QED BY <1>1, <3>1, OneCheck
    <2>5. ConvertChecks(h, spl) = a \o b \o c \o d \o f
      BY <1>3 DEF ConvertChecks
    <2>6. ConvertFits(h, spl) <=> /\ AllOk(a) /\ t.rights = h.rights /\ DeviceFits(t) /\ HasTitleKek(h.keyGen)
                             /\ HasNcaKeyArea(KeakGeneration(h), h.kaek)
      BY <1>3 DEF ConvertFits
    <2> HIDE DEF a, b, c, d, f, t
    <2>7. a \o b \in Seq(CheckType) /\ (AllOk(a \o b) <=> AllOk(a) /\ AllOk(b))
      BY <2>1, <2>2, ChecksJoined
    <2>8. a \o b \o c \in Seq(CheckType) /\ (AllOk(a \o b \o c) <=> AllOk(a \o b) /\ AllOk(c))
      BY <2>3, <2>7, ChecksJoined
    <2>9. a \o b \o c \o d \in Seq(CheckType) /\ (AllOk(a \o b \o c \o d) <=> AllOk(a \o b \o c) /\ AllOk(d))
      BY <2>4, <2>8, ChecksJoined
    <2>10. /\ a \o b \o c \o d \o f \in Seq(CheckType)
           /\ AllOk(a \o b \o c \o d \o f) <=> AllOk(a \o b \o c \o d) /\ AllOk(f)
      BY <1>2, <2>9, ChecksJoined
    <2> QED BY <1>2, <2>2, <2>3, <2>4, <2>5, <2>6, <2>7, <2>8, <2>9, <2>10
  <1>4. CASE ~HasTik(h)
    <2>1. e \in Seq(CheckType) /\ (AllOk(e) <=> known)
      <3>1. known \in BOOLEAN
        OBVIOUS
      <3>2. e = <<Check(known, "KeyMissingNcaKeyArea")>>
        BY DEF DecryptKeakChecks
      <3> HIDE DEF known, e
      <3> QED BY <1>1, <3>1, <3>2, OneCheck
    <2>2. ConvertChecks(h, spl) = e \o f
      BY <1>4 DEF ConvertChecks
    <2>3. ConvertFits(h, spl) <=> known /\ HasNcaKeyArea(KeakGeneration(h), h.kaek)
      BY <1>4 DEF ConvertFits
    <2> HIDE DEF e, f, known
    <2> QED BY <1>2, <2>1, <2>2, <2>3, ChecksJoined
  <1> QED BY <1>3, <1>4

\* Whether an NCA is installed.
NcaIsTaken(n, spl) ==
    /\ n.header.magic = "NCA3"
    /\ config.skipFixedKey \/ (n.header.sigKeyGen < 2 /\ n.header.sig \in {"good", "otherDistribution"})
    /\ NeedsTicket(n.header) => HasTik(n.header)
    /\ Converts(n.header) => ConvertFits(n.header, spl)
    /\ config.skipHash \/ Modified(n.header) \/ n.intact

\* GetTicketCollection fails if a ticket is needed and is not there.
LEMMA TicketChecked ==
    ASSUME NEW h
    PROVE  TicketChecks(h) \in Seq(CheckType) /\ (AllOk(TicketChecks(h)) <=> (NeedsTicket(h) => HasTik(h)))
  <1>1. (NeedsTicket(h) => HasTik(h)) \in BOOLEAN /\ "TicketNotFound" \in Errors
    BY DEF Errors
  <1> QED BY <1>1, OneCheck DEF TicketChecks

\* An NCA passes every check exactly if NcaIsTaken says so.
LEMMA NcaChecked ==
    ASSUME NEW n \in NcaType, NEW spl \in BOOLEAN,
           HasTik(n.header) => tiks[TikFor(n.header)].ticket \in TicketType
    PROVE  LET checks == HeaderChecks(n.header, spl) \o HashChecks(n) IN
           checks \in Seq(CheckType) /\ (AllOk(checks) <=> NcaIsTaken(n, spl))
  <1> DEFINE h == n.header
             a == <<Check(h.magic = "NCA3", "InvalidNcaMagic")>>
             b == IF config.skipFixedKey THEN <<>> ELSE FixedKeyChecks(h)
             c == TicketChecks(h)
             d == IF Converts(h) THEN ConvertChecks(h, spl) ELSE <<>>
             e == HashChecks(n)
             signed == h.sigKeyGen < 2
             good == h.sig \in {"good", "otherDistribution"}
             hashed == config.skipHash \/ Modified(h) \/ n.intact
  <1>1. {"InvalidNcaMagic", "NcaBadSigKeyGen", "NcaFailedNcaHeaderHashVerify", "InvalidNcaSha256"} \subseteq Errors
    BY DEF Errors
  <1>2. a \in Seq(CheckType) /\ (AllOk(a) <=> h.magic = "NCA3")
    <2>1. (h.magic = "NCA3") \in BOOLEAN
      OBVIOUS
    <2> HIDE DEF h
    <2> QED BY <1>1, <2>1, OneCheck
  <1>3. b \in Seq(CheckType) /\ (AllOk(b) <=> config.skipFixedKey \/ (signed /\ good))
    <2>1. signed \in BOOLEAN /\ good \in BOOLEAN
      OBVIOUS
    <2>2. FixedKeyChecks(h) = <<Check(signed, "NcaBadSigKeyGen"), Check(good, "NcaFailedNcaHeaderHashVerify")>>
      BY DEF FixedKeyChecks
    <2> HIDE DEF signed, good, h
    <2>3. FixedKeyChecks(h) \in Seq(CheckType) /\ (AllOk(FixedKeyChecks(h)) <=> signed /\ good)
      BY <1>1, <2>1, <2>2, TwoChecks
    <2> QED BY <2>3, NoChecks
  <1>4. c \in Seq(CheckType) /\ (AllOk(c) <=> (NeedsTicket(h) => HasTik(h)))
    BY TicketChecked
  <1>5. d \in Seq(CheckType) /\ (AllOk(d) <=> (Converts(h) => ConvertFits(h, spl)))
    <2>1. ConvertChecks(h, spl) \in Seq(CheckType) /\ (AllOk(ConvertChecks(h, spl)) <=> ConvertFits(h, spl))
      <3> HIDE DEF h
      <3> QED BY ConvertChecked DEF h
    <2> HIDE DEF h
    <2> QED BY <2>1, NoChecks
  <1>6. e \in Seq(CheckType) /\ (AllOk(e) <=> hashed)
    <2>1. hashed \in BOOLEAN
      OBVIOUS
    <2>2. e = <<Check(hashed, "InvalidNcaSha256")>>
      BY DEF HashChecks
    <2> HIDE DEF hashed, e
    <2> QED BY <1>1, <2>1, <2>2, OneCheck
  <1>7. HeaderChecks(h, spl) = a \o b \o c \o d
    BY DEF HeaderChecks
  <1>8. NcaIsTaken(n, spl) <=> /\ h.magic = "NCA3" /\ (config.skipFixedKey \/ (signed /\ good))
                          /\ (NeedsTicket(h) => HasTik(h)) /\ (Converts(h) => ConvertFits(h, spl)) /\ hashed
    BY DEF NcaIsTaken
  <1> HIDE DEF a, b, c, d, e, signed, good, hashed
  <1>9. a \o b \in Seq(CheckType) /\ (AllOk(a \o b) <=> AllOk(a) /\ AllOk(b))
    BY <1>2, <1>3, ChecksJoined
  <1>10. a \o b \o c \in Seq(CheckType) /\ (AllOk(a \o b \o c) <=> AllOk(a \o b) /\ AllOk(c))
    BY <1>4, <1>9, ChecksJoined
  <1>11. a \o b \o c \o d \in Seq(CheckType) /\ (AllOk(a \o b \o c \o d) <=> AllOk(a \o b \o c) /\ AllOk(d))
    BY <1>5, <1>10, ChecksJoined
  <1>12. /\ a \o b \o c \o d \o e \in Seq(CheckType)
         /\ AllOk(a \o b \o c \o d \o e) <=> AllOk(a \o b \o c \o d) /\ AllOk(e)
    BY <1>6, <1>11, ChecksJoined
  <1>13. HeaderChecks(n.header, spl) \o HashChecks(n) = a \o b \o c \o d \o e
    BY <1>7 DEF e
  <1> HIDE DEF h
  <1> QED BY <1>2, <1>3, <1>4, <1>5, <1>6, <1>8, <1>9, <1>10, <1>11, <1>12, <1>13

\* The mount of the cnmt NCA.
LEMMA MountChecked ==
    ASSUME NEW h
    PROVE  MountChecks(h) \in Seq(CheckType) /\ (AllOk(MountChecks(h)) <=> (at = 1 => Opens(Nca, h)))
  <1> DEFINE mounts == at = 1 => Opens(Nca, h)
  <1>1. mounts \in BOOLEAN /\ "FsFailedToMount" \in Errors
    BY DEF Errors
  <1>2. MountChecks(h) = <<Check(mounts, "FsFailedToMount")>>
    BY DEF MountChecks
  <1> HIDE DEF mounts
  <1>3. <<Check(mounts, "FsFailedToMount")>> \in Seq(CheckType) /\ (AllOk(MountChecks(h)) <=> mounts)
    BY <1>1, <1>2, OneCheck
  <1> QED BY <1>2, <1>3 DEF mounts

\* Checks that are followed by the mount.
LEMMA ThenMounted ==
    ASSUME NEW checks \in Seq(CheckType), NEW h
    PROVE  FirstError(checks \o MountChecks(h)) = "ok" <=> AllOk(checks) /\ (at = 1 => Opens(Nca, h))
  <1> DEFINE c == MountChecks(h)
             mounts == at = 1 => Opens(Nca, h)
  <1>1. c \in Seq(CheckType) /\ (AllOk(c) <=> mounts)
    BY MountChecked
  <1> HIDE DEF c, mounts
  <1>2. checks \o c \in Seq(CheckType) /\ (AllOk(checks \o c) <=> AllOk(checks) /\ AllOk(c))
    BY <1>1, ChecksJoined
  <1>3. FirstError(checks \o c) = "ok" <=> AllOk(checks \o c)
    BY <1>2, FirstErrorIsOk
  <1> QED BY <1>1, <1>2, <1>3 DEF c, mounts

-----------------------------------------------------------------------------
(* Keys and headers *)

\* What was encrypted can be decrypted.
LEMMA DecryptEncrypted ==
    ASSUME NEW name, NEW key
    PROVE  Crypt(Crypt(Plain(name), "enc", key), "dec", key) = Plain(name)
  <1> DEFINE layer == [op |-> "enc", key |-> key]
             v == [plain |-> name, layers |-> <<layer>>]
  <1>1. Crypt(Plain(name), "enc", key) = v
    <2>1. Len(Plain(name).layers) = 0 /\ Append(Plain(name).layers, layer) = <<layer>>
      BY DEF Plain
    <2>2. [Plain(name) EXCEPT !.layers = <<layer>>] = v
      BY DEF Plain
    <2> HIDE DEF layer
    <2>3. Crypt(Plain(name), "enc", key) = [Plain(name) EXCEPT !.layers = Append(@, layer)]
      BY <2>1 DEF Crypt, layer
    <2>4. [Plain(name) EXCEPT !.layers = Append(@, layer)] = [Plain(name) EXCEPT !.layers = <<layer>>]
      BY <2>1
    <2> QED BY <2>2, <2>3, <2>4
  <1>2. Crypt(v, "dec", key) = Plain(name)
    <2>1. /\ v.layers = <<layer>> /\ Len(v.layers) = 1 /\ v.layers[1].key = key /\ v.layers[1].op # "dec"
          /\ SubSeq(v.layers, 1, 1 - 1) = <<>>
      OBVIOUS
    <2>2. Crypt(v, "dec", key) = [v EXCEPT !.layers = SubSeq(@, 1, 1 - 1)]
      <3> HIDE DEF v
      <3> QED BY <2>1 DEF Crypt
    <2>3. [v EXCEPT !.layers = <<>>] = Plain(name)
      BY DEF Plain
    <2>4. [v EXCEPT !.layers = SubSeq(@, 1, 1 - 1)] = [v EXCEPT !.layers = <<>>]
      BY <2>1
    <2> QED BY <2>2, <2>3, <2>4
  <1> QED BY <1>1, <1>2

\* Generations as prod.keys counts them and as the console does.
LEMMA SamePlace ==
    ASSUME NEW generation \in Nat
    PROVE  FixKey(generation) = MasterKey(generation) /\ MasterKey(generation) \in Nat
  BY DEF FixKey, MasterKey

LEMMA SameGeneration ==
    ASSUME NEW h \in HeaderType, GenerationInForm(h)
    PROVE  /\ h.keyGen \in 0 .. KeySectionSize /\ GetKeyGeneration(h) \in 0 .. KeySectionSize
           /\ NeedsTicket(h) => MasterKey(h.keyGen) = MasterKey(GetKeyGeneration(h))
           /\ h.keyGen = 0 \/ h.keyGen = GetKeyGeneration(h)
  <1>1. h.keyGen \in Nat /\ h.oldKeyGen \in Nat
    BY DEF HeaderType
  <1> QED BY <1>1 DEF GenerationInForm, GetKeyGeneration, MasterKey, KeySectionSize

\* A conversion that does not mislead uses right keys.
LEMMA RightKeys ==
    ASSUME NEW h, NEW spl, Converts(h), ~Misleads(h, spl)
    PROVE  /\ GetNcaKeyArea(KeakGeneration(h), h.kaek) = KeyOf(Section(h.kaek), FixKey(KeakGeneration(h)))
           /\ HasTik(h) => GetTitleKek(h.keyGen) = KeyOf("titlekek", FixKey(h.keyGen))
           /\ ~HasTik(h) /\ ~SplGives(h, spl) =>
                GetNcaKeyArea(GetKeyGeneration(h), h.kaek) = KeyOf(Section(h.kaek), FixKey(GetKeyGeneration(h)))
  <1>1. ASSUME NEW section, NEW index, FileKey(section, index).right
        PROVE  FileKey(section, index) = KeyOf(section, index)
    BY <1>1 DEF FileKey, KeyOf
  <1>2. \A key \in FileKeys(h, spl) : key.right
    BY DEF Misleads
  <1>3. GetNcaKeyArea(KeakGeneration(h), h.kaek).right
    BY <1>2 DEF FileKeys
  <1>4. HasTik(h) => GetTitleKek(h.keyGen).right
    BY <1>2 DEF FileKeys
  <1>5. ~HasTik(h) /\ ~SplGives(h, spl) => GetNcaKeyArea(GetKeyGeneration(h), h.kaek).right
    BY <1>2 DEF FileKeys
  <1> QED BY <1>1, <1>3, <1>4, <1>5 DEF GetNcaKeyArea, GetTitleKek

\* A header that was converted needs no ticket, and leads to the key that was
\* put in it if the keys were right.
LEMMA ConvertedHeader ==
    ASSUME NEW n \in NcaType, NEW spl, Converts(n.header),
           ~Misleads(n.header, spl) => SectionKey(n.header, spl) = Plain(n.key)
    PROVE  LET new == NewHeader(n.header, spl) IN
           /\ new.rights = "none" /\ (~Misleads(n.header, spl) => KeyAreaKey(new) = Plain(n.key))
           /\ config.lower => GetKeyGeneration(new) = 0
  <1> DEFINE h == n.header
             r == Redistributed(h)
             g == KeakGeneration(h)
             s == SetKeyGeneration(r, g)
             area == Crypt(SectionKey(h, spl), "enc", GetNcaKeyArea(g, r.kaek))
             new == NewHeader(h, spl)
  <1>1. h \in HeaderType
    BY DEF NcaType
  <1>2. r \in HeaderType
    <2> HIDE DEF h
    <2> QED BY <1>1 DEF Redistributed, HeaderType
  <1>3. g \in Nat
    <2> HIDE DEF h
    <2> QED BY <1>1 DEF KeakGeneration, HeaderType
  <1>a. r.kaek = h.kaek
    <2> HIDE DEF h
    <2> QED BY <1>1 DEF Redistributed, HeaderType
  <1> HIDE DEF g, r
  <1>4. /\ s \in HeaderType /\ s.kaek = r.kaek
        /\ s.oldKeyGen = (IF g <= 2 THEN g ELSE 2) /\ s.keyGen = (IF g <= 2 THEN 0 ELSE g)
    BY <1>2, <1>3 DEF SetKeyGeneration, HeaderType
  <1>5. new = [[s EXCEPT !.keyArea = area] EXCEPT !.rights = "none"]
    BY DEF NewHeader, EncryptKeak, r, g
  <1> HIDE DEF s, area, new
  <1>6. /\ new.rights = "none" /\ new.keyArea = area /\ new.kaek = r.kaek
        /\ new.oldKeyGen = s.oldKeyGen /\ new.keyGen = s.keyGen
    BY <1>4, <1>5 DEF HeaderType
  <1>7. GetKeyGeneration(new) = g
    BY <1>3, <1>4, <1>6 DEF GetKeyGeneration
  <1>8. ~Misleads(h, spl) => area = Crypt(Plain(n.key), "enc", KeyOf(Section(new.kaek), MasterKey(g)))
    <2> SUFFICES ASSUME ~Misleads(h, spl)
                 PROVE  area = Crypt(Plain(n.key), "enc", KeyOf(Section(new.kaek), MasterKey(g)))
      OBVIOUS
    <2>1. GetNcaKeyArea(g, h.kaek) = KeyOf(Section(h.kaek), FixKey(g))
      BY RightKeys DEF g
    <2> HIDE DEF h
    <2>2. GetNcaKeyArea(g, r.kaek) = KeyOf(Section(new.kaek), MasterKey(g))
      BY <1>3, <1>6, <1>a, <2>1, SamePlace
    <2> QED BY <2>2 DEF area, h
  <1>9. ~Misleads(h, spl) => KeyAreaKey(new) = Plain(n.key)
    BY <1>6, <1>7, <1>8, DecryptEncrypted DEF KeyAreaKey
  <1>10. config.lower => g = 0
    BY DEF g, KeakGeneration
  <1> QED BY <1>6, <1>7, <1>9, <1>10 DEF new

\* A header that was not keeps its ticket or its key.
LEMMA KeptHeader ==
    ASSUME NEW n \in NcaType, NEW spl, ~Converts(n.header), NcaFits(n)
    PROVE  LET new == NewHeader(n.header, spl) IN
           /\ new.rights = n.header.rights /\ new.keyGen = n.header.keyGen
           /\ ~NeedsTicket(n.header) => KeyAreaKey(new) = Plain(n.key)
  <1> DEFINE h == n.header
             new == NewHeader(h, spl)
  <1>1. h \in HeaderType
    BY DEF NcaType
  <1>2. new = h \/ new = [h EXCEPT !.gameCard = FALSE]
    BY DEF NewHeader, Redistributed
  <1> HIDE DEF new, h
  <1>3. /\ new.rights = h.rights /\ new.keyGen = h.keyGen /\ new.oldKeyGen = h.oldKeyGen
        /\ new.kaek = h.kaek /\ new.keyArea = h.keyArea
    BY <1>1, <1>2 DEF HeaderType
  <1>4. KeyAreaKey(new) = KeyAreaKey(h)
    BY <1>3 DEF KeyAreaKey, GetKeyGeneration
  <1>5. ~NeedsTicket(h) => KeyAreaKey(h) = Plain(n.key)
    BY DEF NcaFits, h
  <1> QED BY <1>3, <1>4, <1>5 DEF new, h

-----------------------------------------------------------------------------
(* The tickets at hand *)

TikType == [rights : STRING, ticket : TicketType, required : BOOLEAN, patched : BOOLEAN, keyGen : Nat]
Tickets == 1 .. Len(package.tickets)
Ncas == 1 .. Len(package.ncas)

\* They are those of the package, and not patched from one of them on.
TiksAreThere(from) ==
    /\ tiks \in Seq(TikType) /\ Len(tiks) = Len(package.tickets)
    /\ \A j \in Tickets : tiks[j].rights = package.tickets[j].name
    /\ \A j \in Tickets : from <= j => tiks[j].ticket = package.tickets[j].ticket

\* What Packages are.
LEMMA PackageParts ==
    ASSUME PackagesFit, package \in Packages
    PROVE  /\ Len(package.ncas) \in Nat /\ DOMAIN package.ncas = Ncas
           /\ Len(package.tickets) \in Nat /\ DOMAIN package.tickets = Tickets
           /\ \A i \in Ncas : package.ncas[i] \in NcaType /\ NcaFits(package.ncas[i])
           /\ \A i, j \in Ncas : package.ncas[i].id = package.ncas[j].id => i = j
           /\ \A j \in Tickets : /\ package.tickets[j].ticket \in TicketType /\ TicketFits(package.tickets[j])
                                 /\ package.tickets[j].name \in STRING
           /\ \A i \in Ncas : \A j \in Tickets : KeyFits(package.ncas[i], package.tickets[j])
  <1> DEFINE TicketFile == [name : STRING, ticket : TicketType]
  <1>1. Fits(package)
    BY DEF PackagesFit
  <1>2. package.ncas \in Seq(NcaType) /\ package.tickets \in Seq(TicketFile)
    BY <1>1 DEF Fits, PackageType
  <1>3. \A f \in TicketFile : f.ticket \in TicketType /\ f.name \in STRING
    OBVIOUS
  <1> HIDE DEF TicketFile
  <1>4. /\ Len(package.ncas) \in Nat /\ DOMAIN package.ncas = Ncas
        /\ Len(package.tickets) \in Nat /\ DOMAIN package.tickets = Tickets
    BY <1>2 DEF Ncas, Tickets
  <1>5. (\A i \in Ncas : package.ncas[i] \in NcaType) /\ (\A j \in Tickets : package.tickets[j] \in TicketFile)
    BY <1>2, <1>4 DEF Ncas, Tickets
  <1>6. \A j \in Tickets : package.tickets[j].ticket \in TicketType /\ package.tickets[j].name \in STRING
    BY <1>3, <1>5
  <1> QED BY <1>1, <1>4, <1>5, <1>6 DEF Fits

\* The ticket that is found has the rights id that was looked for.
LEMMA TikFound ==
    ASSUME PackagesFit, package \in Packages, NEW from, TiksAreThere(from), NEW h, HasTik(h)
    PROVE  /\ TikFor(h) \in Tickets /\ tiks[TikFor(h)].rights = h.rights /\ NeedsTicket(h)
           /\ package.tickets[TikFor(h)].name = h.rights
  <1> DEFINE S == TiksFor(h)
  <1>1. S # {} /\ S \in SUBSET Nat /\ \A j \in S : j \in Tickets /\ tiks[j].rights = h.rights /\ NeedsTicket(h)
    BY PackageParts DEF HasTik, TiksFor, TiksAreThere, Tickets
  <1> HIDE DEF S
  <1>2. \E i \in S : \A j \in S : i <= j
    BY <1>1, LeastMember
  <1>3. TikFor(h) \in S
    BY <1>2 DEF TikFor, S
  <1>4. TikFor(h) \in Tickets /\ tiks[TikFor(h)].rights = h.rights /\ NeedsTicket(h)
    BY <1>1, <1>3
  <1>5. \A j \in Tickets : tiks[j].rights = package.tickets[j].name
    BY DEF TiksAreThere
  <1> QED BY <1>4, <1>5

\* Whatever is decrypted with right keys to be converted is the key of the
\* sections.
LEMMA SectionKeyFound ==
    ASSUME PackagesFit, package \in Packages, TiksAreThere(1), NEW i \in Ncas, NEW spl,
           LET h == package.ncas[i].header IN
             ConvertFits(h, spl) /\ (NeedsTicket(h) => HasTik(h)) /\ Converts(h) /\ ~Misleads(h, spl)
    PROVE  SectionKey(package.ncas[i].header, spl) = Plain(package.ncas[i].key)
  <1> DEFINE n == package.ncas[i]
             h == n.header
             t == tiks[TikFor(h)].ticket
             file == package.tickets[TikFor(h)]
  <1>1. n \in NcaType /\ h \in HeaderType /\ NcaFits(n) /\ GenerationInForm(h)
    <2>1. n \in NcaType /\ NcaFits(n)
      BY PackageParts
    <2> HIDE DEF n
    <2> QED BY <2>1 DEF NcaType, NcaFits
  <1>2. /\ h.keyGen \in Nat /\ GetKeyGeneration(h) \in Nat
        /\ NeedsTicket(h) => MasterKey(h.keyGen) = MasterKey(GetKeyGeneration(h))
    <2> HIDE DEF h
    <2> QED BY <1>1, SameGeneration DEF KeySectionSize
  <1>3. CASE HasTik(h)
    <2>1. TikFor(h) \in Tickets /\ file.name = h.rights /\ NeedsTicket(h) /\ TikFor(h) \in Nat /\ 1 <= TikFor(h)
      <3>1. TikFor(h) \in Tickets /\ file.name = h.rights /\ NeedsTicket(h)
        <4> HIDE DEF h
        <4> QED BY <1>3, TikFound
      <3> QED BY <3>1, PackageParts DEF Tickets
    <2>2. t = file.ticket
      <3> HIDE DEF h
      <3> QED BY <2>1 DEF TiksAreThere
    <2>3. ~Foreign(t)
      BY <1>3 DEF ConvertFits, DeviceFits, Foreign
    <2>4. KeyFits(n, file)
      <3> HIDE DEF h, n
      <3> QED BY <2>1, PackageParts DEF n
    <2>5. MasterKey(t.revision) = MasterKey(h.keyGen) /\ EsTitleKey(t) = Plain(n.key)
      <3> HIDE DEF file, t
      <3> QED BY <1>2, <2>1, <2>2, <2>3, <2>4 DEF KeyFits
    <2>6. SectionKey(h, spl) = Crypt(TitleKey(t), "dec", KeyOf("titlekek", FixKey(h.keyGen)))
      BY <1>3, RightKeys DEF SectionKey
    <2>7. FixKey(h.keyGen) = MasterKey(t.revision)
      <3> HIDE DEF h, t
      <3> QED BY <1>2, <2>5, SamePlace
    <2> HIDE DEF h, t, n
    <2> QED BY <2>5, <2>6, <2>7 DEF EsTitleKey, h, n
  <1>4. CASE ~HasTik(h)
    <2>1. ~NeedsTicket(h)
      BY <1>4
    <2>2. KeyAreaKey(h) = Plain(n.key)
      BY <1>1, <2>1 DEF NcaFits
    <2>3. SectionKey(h, spl) = DecryptKeak(h, spl)
      BY <1>4 DEF SectionKey
    <2>a. ~SplGives(h, spl) =>
            GetNcaKeyArea(GetKeyGeneration(h), h.kaek) = KeyOf(Section(h.kaek), FixKey(GetKeyGeneration(h)))
      BY <1>4, RightKeys
    <2> HIDE DEF h, n
    <2>4. DecryptKeak(h, spl) = KeyAreaKey(h)
      BY <1>2, <2>a, SamePlace DEF DecryptKeak, KeyAreaKey
    <2> QED BY <2>2, <2>3, <2>4 DEF h, n
  <1> QED BY <1>3, <1>4

-----------------------------------------------------------------------------
(* The invariant *)

IsList(s) == Len(s) \in Nat /\ DOMAIN s = 1 .. Len(s) /\ s = [i \in 1 .. Len(s) |-> s[i]]

\* What an install makes of the header of n: it needs the ticket it needed,
\* of the same generation, or none and has its key in its key area, unless a
\* wrong key went into it.
Made(n, h, wrong) ==
    \/ NeedsTicket(n.header) /\ h.rights = n.header.rights /\ h.keyGen = n.header.keyGen
    \/ h.rights = "none" /\ (wrong \/ KeyAreaKey(h) = Plain(n.key))

OnFirstKey(h) == h.rights = "none" /\ MasterKey(GetKeyGeneration(h)) = 0

EsInv ==
    \A r \in DOMAIN es : \A i \in Ncas :
        /\ r \notin ForeignRights
        /\ NeedsTicket(package.ncas[i].header) /\ package.ncas[i].header.rights = r
        => EsTitleKey(es[r]) = Plain(package.ncas[i].key)

ContentsInv ==
    \A id \in DOMAIN contents :
        /\ \E i \in Ncas : package.ncas[i].id = id /\ Made(package.ncas[i], contents[id], id \in misled)
        /\ NeedsTicket(contents[id]) => contents[id].rights \in DOMAIN es

LoweredInv == \A id \in lowered : id \in DOMAIN contents /\ OnFirstKey(contents[id])

ConsoleInv == EsInv /\ ContentsInv /\ LoweredInv

\* The first ticket that is still to be imported.
From == IF phase \in {"setup", "ncas"} THEN 1 ELSE IF phase = "tickets" THEN at ELSE Len(package.tickets) + 1

\* The ticket is imported, or will be.
Coming(r) ==
    r \in DOMAIN es \/ \E j \in Tickets : From <= j /\ tiks[j].rights = r /\ tiks[j].required

\* While NCAs are taken, a ticket that waits to be imported is not given up:
\* this install converts nothing.
NotConverted(r) == r \in DOMAIN es \/ ~(config.standard \/ config.lower)

NcasInv ==
    /\ IsList(ncas)
    /\ IF phase \in {"setup", "ncas"} THEN at = Len(ncas) + 1 /\ Len(ncas) <= Len(package.ncas)
                                      ELSE Len(ncas) = Len(package.ncas)
    /\ \A i \in 1 .. Len(ncas) :
         LET h == ncas[i].header IN
         /\ Made(package.ncas[i], h, ncas[i].misled)
         /\ NeedsTicket(h) => Coming(h.rights)
         /\ phase \in {"setup", "ncas"} /\ NeedsTicket(h) => NotConverted(h.rights)
         /\ config.lower /\ ~ncas[i].skipped => OnFirstKey(h)

\* A ticket is required for an NCA, with the generation of that NCA.
RequiredInv ==
    \A j \in Tickets : tiks[j].required =>
        \E i \in 1 .. Len(ncas) : ncas[i].header.rights = tiks[j].rights /\ ncas[i].header.keyGen = tiks[j].keyGen

ImportedInv == \A r \in imported : \E i \in 1 .. Len(ncas) : ncas[i].header.rights = r

JobInv ==
    /\ package \in Packages
    /\ phase \in {"idle", "setup", "ncas", "tickets", "register"}
    /\ at \in Nat \ {0}
    /\ phase # "idle" => TiksAreThere(From) /\ NcasInv /\ RequiredInv /\ ImportedInv

KeysInv == JobInv /\ ConsoleInv

\* One more at the end of a list.
LEMMA Appended ==
    ASSUME NEW s, IsList(s), NEW e
    PROVE  /\ IsList(Append(s, e)) /\ Len(Append(s, e)) = Len(s) + 1 /\ Append(s, e)[Len(s) + 1] = e
           /\ \A i \in 1 .. Len(s) : Append(s, e)[i] = s[i]
  <1> DEFINE S == {s[i] : i \in 1 .. Len(s)} \cup {e}
             t == Append(s, e)
  <1>1. s \in Seq(S) /\ e \in S
    <2>1. \A i \in 1 .. Len(s) : s[i] \in S
      OBVIOUS
    <2> HIDE DEF S
    <2>2. Len(s) \in Nat /\ s = [i \in 1 .. Len(s) |-> s[i]]
      BY DEF IsList
    <2>3. s \in [1 .. Len(s) -> S]
      BY <2>1, <2>2
    <2>4. s \in Seq(S)
      BY <2>2, <2>3
    <2> QED BY <2>4 DEF S
  <1> HIDE DEF S
  <1>2. /\ t \in Seq(S) /\ Len(t) = Len(s) + 1 /\ t[Len(s) + 1] = e
        /\ \A i \in 1 .. Len(s) : t[i] = s[i]
    BY <1>1
  <1> HIDE DEF t
  <1>3. IsList(t)
    <2>1. Len(t) \in Nat /\ DOMAIN t = 1 .. Len(t)
      BY <1>2
    <2>2. t = [i \in 1 .. Len(t) |-> t[i]]
      BY <1>2, <2>1
    <2> QED BY <2>1, <2>2 DEF IsList
  <1> QED BY <1>2, <1>3 DEF t

\* One place of a sequence replaced.
LEMMA Replaced ==
    ASSUME NEW S, NEW s \in Seq(S), NEW k \in 1 .. Len(s), NEW e \in S, NEW new, new = [s EXCEPT ![k] = e]
    PROVE  /\ new \in Seq(S) /\ Len(new) = Len(s) /\ new[k] = e
           /\ \A j \in 1 .. Len(s) : j # k => new[j] = s[j]
  OBVIOUS

\* What a header does to the tickets.
Handled(h, convert) ==
    IF convert /\ HasTik(h) THEN [Require(h) EXCEPT ![TikFor(h)].required = FALSE] ELSE Require(h)

\* Only the ticket of the header changes, and of it only what is required.
LEMMA TicketsRequired ==
    ASSUME PackagesFit, package \in Packages, TiksAreThere(1), NEW h, HasTik(h) => h.keyGen \in Nat,
           NEW convert \in BOOLEAN, NEW new, new = Handled(h, convert)
    PROVE  /\ new \in Seq(TikType) /\ Len(new) = Len(tiks)
           /\ \A j \in Tickets : new[j].rights = tiks[j].rights /\ new[j].ticket = tiks[j].ticket
           /\ \A j \in Tickets : ~(HasTik(h) /\ j = TikFor(h)) => new[j] = tiks[j]
           /\ HasTik(h) => LET j == TikFor(h) IN
                /\ j \in Tickets /\ tiks[j].rights = h.rights
                /\ (new[j].required <=> ~convert) /\ new[j].keyGen = h.keyGen
  <1> DEFINE k == TikFor(h)
             tik == [tiks[k] EXCEPT !.required = ~convert, !.keyGen = h.keyGen]
  <1>1. tiks \in Seq(TikType) /\ Len(tiks) = Len(package.tickets) /\ Len(tiks) \in Nat
    BY PackageParts DEF TiksAreThere
  <1>2. CASE ~HasTik(h)
    BY <1>1, <1>2 DEF Handled, Require
  <1>3. CASE HasTik(h)
    <2>1. k \in Tickets /\ tiks[k].rights = h.rights
      BY <1>3, TikFound
    <2>2. tiks[k] \in TikType
      BY <1>1, <2>1 DEF Tickets
    <2>3. new = [tiks EXCEPT ![k] = tik]
      <3>1. Require(h) = [tiks EXCEPT ![k] = [tiks[k] EXCEPT !.required = TRUE, !.keyGen = h.keyGen]]
        BY <1>1, <1>3, <2>1, <2>2 DEF Require, Tickets, TikType
      <3> DEFINE one == [tiks[k] EXCEPT !.required = TRUE, !.keyGen = h.keyGen]
      <3>2. CASE ~convert
        BY <1>3, <3>1, <3>2 DEF Handled
      <3>3. CASE convert
        <4>1. new = [[tiks EXCEPT ![k] = one] EXCEPT ![k].required = FALSE]
          BY <1>3, <3>1, <3>3 DEF Handled
        <4> HIDE DEF one
        <4>2. new = [tiks EXCEPT ![k] = [one EXCEPT !.required = FALSE]]
          <5>1. k \in DOMAIN tiks
            BY <1>1, <2>1 DEF Tickets
          <5> HIDE DEF k
          <5> QED BY <4>1, <5>1
        <4>3. [one EXCEPT !.required = FALSE] = tik
          BY <2>2, <3>3 DEF one, TikType
        <4> QED BY <4>2, <4>3
      <3> QED BY <3>2, <3>3
    <2>4. /\ tik \in TikType /\ tik.rights = tiks[k].rights /\ tik.ticket = tiks[k].ticket
          /\ (tik.required <=> ~convert) /\ tik.keyGen = h.keyGen
      BY <1>3, <2>2 DEF TikType
    <2>a. k \in 1 .. Len(tiks) /\ Tickets = 1 .. Len(tiks)
      BY <1>1, <2>1 DEF Tickets
    <2> HIDE DEF tik, k
    <2>5. /\ new \in Seq(TikType) /\ Len(new) = Len(tiks) /\ new[k] = tik
          /\ \A j \in Tickets : j # k => new[j] = tiks[j]
      BY <1>1, <2>a, <2>3, <2>4, Replaced
    <2>6. \A j \in Tickets : new[j].rights = tiks[j].rights /\ new[j].ticket = tiks[j].ticket
      BY <2>4, <2>5
    <2> QED BY <1>3, <2>1, <2>4, <2>5, <2>6 DEF k
  <1> QED BY <1>2, <1>3

-----------------------------------------------------------------------------
(* The steps *)

\* ConsoleInv holds while the console is as it was.
LEMMA ConsoleKept ==
    ASSUME ConsoleInv, UNCHANGED <<package, contents, es, lowered, misled>>
    PROVE  ConsoleInv'
  BY DEF ConsoleInv, EsInv, ContentsInv, LoweredInv, Ncas, ForeignRights

\* The end of an install, whatever its result, leaves nothing of it.
LEMMA EndKeeps ==
    ASSUME KeysInv, NEW result, End(result), UNCHANGED <<package, contents, es, lowered, misled>>
    PROVE  KeysInv'
  <1>1. ConsoleInv'
    BY ConsoleKept DEF KeysInv
  <1>2. JobInv'
    BY DEF KeysInv, JobInv, End
  <1> QED BY <1>1, <1>2 DEF KeysInv

\* An install begins with the tickets of the package, none of them required.
LEMMA BeginKeeps ==
    ASSUME PackagesFit, KeysInv, NEW override, NEW m, Begin(override, m)
    PROVE  KeysInv'
  <1>1. ConsoleInv'
    BY ConsoleKept DEF KeysInv, Begin, fixedVars
  <1>2. package \in Packages /\ package' = package
    BY DEF KeysInv, JobInv, Begin, fixedVars
  <1> DEFINE tik(i) == [rights |-> package.tickets[i].name, ticket |-> package.tickets[i].ticket,
                        required |-> FALSE, patched |-> FALSE, keyGen |-> 0]
  <1>3. tiks' = [i \in Tickets |-> tik(i)] /\ Len(package.tickets) \in Nat
    BY <1>2, PackageParts DEF Begin
  <1>4. \A i \in Tickets : /\ tik(i) \in TikType /\ ~tik(i).required
                           /\ tik(i).rights = package.tickets[i].name /\ tik(i).ticket = package.tickets[i].ticket
    BY <1>2, PackageParts DEF TikType
  <1> HIDE DEF tik
  <1>5. tiks' \in Seq(TikType) /\ Len(tiks') = Len(package.tickets) /\ \A i \in Tickets : tiks'[i] = tik(i)
    BY <1>3, <1>4 DEF Tickets
  <1>6. phase' = "setup" /\ at' = 1 /\ ncas' = <<>> /\ imported' = {}
    BY DEF Begin
  <1>7. TiksAreThere(From)'
    BY <1>2, <1>4, <1>5 DEF TiksAreThere, Tickets
  <1>8. NcasInv'
    <2>1. Len(ncas') = 0 /\ IsList(ncas')
      BY <1>6 DEF IsList
    <2>2. 0 <= Len(package.ncas)
      BY <1>2, PackageParts
    <2> QED BY <1>2, <1>6, <2>1, <2>2 DEF NcasInv
  <1>9. RequiredInv' /\ ImportedInv'
    BY <1>2, <1>4, <1>5, <1>6 DEF RequiredInv, ImportedInv, Tickets
  <1>10. JobInv'
    BY <1>2, <1>6, <1>7, <1>8, <1>9 DEF JobInv
  <1> QED BY <1>1, <1>10 DEF KeysInv

\* An NCA is skipped or installed: h is the header that was looked at, and e
\* what becomes of it.
LEMMA NcaKeeps ==
    ASSUME PackagesFit, KeysInv, phase = "ncas", at \in Ncas,
           NEW h, HasTik(h) => h.keyGen \in Nat,
           NEW convert \in BOOLEAN, convert => config.standard \/ config.lower,
           NEW e, Made(package.ncas[at], e.header, e.misled), config.lower /\ ~e.skipped => OnFirstKey(e.header),
           NeedsTicket(e.header) => HasTik(h) /\ NotConverted(e.header.rights),
           HasTik(h) => IF convert THEN ~NeedsTicket(e.header)
                                   ELSE e.header.rights = h.rights /\ e.header.keyGen = h.keyGen,
           tiks' = Handled(h, convert), ncas' = Append(ncas, e), at' = at + 1,
           UNCHANGED <<package, phase, config, contents, es, imported, lowered, misled>>
    PROVE  KeysInv'
  <1>1. ConsoleInv'
    BY ConsoleKept DEF KeysInv
  <1>2. package \in Packages /\ NcasInv /\ RequiredInv /\ ImportedInv /\ From = 1 /\ TiksAreThere(1)
    <2>1. From = 1
      BY DEF From
    <2> QED BY <2>1 DEF KeysInv, JobInv
  <1> DEFINE new == tiks'
             m == Len(ncas)
             k == TikFor(h)
  <1>3. /\ new \in Seq(TikType) /\ Len(new) = Len(tiks)
        /\ \A j \in Tickets : new[j].rights = tiks[j].rights /\ new[j].ticket = tiks[j].ticket
        /\ \A j \in Tickets : ~(HasTik(h) /\ j = k) => new[j] = tiks[j]
        /\ HasTik(h) => /\ k \in Tickets /\ tiks[k].rights = h.rights
                        /\ (new[k].required <=> ~convert) /\ new[k].keyGen = h.keyGen
    <2> HIDE DEF new
    <2> QED BY <1>2, TicketsRequired DEF new
  <1>4. /\ m \in Nat /\ IsList(ncas') /\ Len(ncas') = m + 1 /\ ncas'[m + 1] = e
        /\ \A i \in 1 .. m : ncas'[i] = ncas[i]
    <2>1. IsList(ncas) /\ m \in Nat
      BY <1>2 DEF NcasInv, IsList
    <2> QED BY <2>1, Appended
  <1>5. at = m + 1 /\ m + 1 <= Len(package.ncas) /\ Len(package.tickets) \in Nat /\ Len(package.ncas) \in Nat
    BY <1>2, PackageParts DEF NcasInv, Ncas
  <1>6. From' = 1 /\ Ncas' = Ncas /\ Tickets' = Tickets
    BY DEF From, Ncas, Tickets
  <1>7. TiksAreThere(1)'
    BY <1>2, <1>3, <1>6 DEF TiksAreThere
  <1> HIDE DEF new, m, k
  <1>8. ASSUME NEW r, Coming(r), NotConverted(r) PROVE Coming(r)'
    <2>1. CASE r \in DOMAIN es
      BY <2>1 DEF Coming
    <2>2. CASE r \notin DOMAIN es
      <3>1. ~convert
        BY <1>8, <2>2 DEF NotConverted
      <3>2. PICK j \in Tickets : From <= j /\ tiks[j].rights = r /\ tiks[j].required
        BY <1>8, <2>2 DEF Coming
      <3>3. new[j].rights = r /\ new[j].required
        BY <1>3, <3>1, <3>2
      <3> QED BY <1>2, <1>6, <3>2, <3>3 DEF Coming, new
    <2> QED BY <2>1, <2>2
  <1>9. NeedsTicket(e.header) => Coming(e.header.rights)'
    <2> SUFFICES ASSUME NeedsTicket(e.header) PROVE Coming(e.header.rights)'
      OBVIOUS
    <2>1. HasTik(h) /\ ~convert /\ e.header.rights = h.rights
      OBVIOUS
    <2>2. k \in Tickets /\ 1 <= k /\ new[k].rights = e.header.rights /\ new[k].required
      BY <1>3, <1>5, <2>1 DEF Tickets
    <2> QED BY <1>6, <2>2 DEF Coming, new
  <1>10. NcasInv'
    <2> DEFINE Part(i) == LET g == ncas[i].header IN
                 /\ Made(package.ncas[i], g, ncas[i].misled)
                 /\ NeedsTicket(g) => Coming(g.rights)
                 /\ phase \in {"setup", "ncas"} /\ NeedsTicket(g) => NotConverted(g.rights)
                 /\ config.lower /\ ~ncas[i].skipped => OnFirstKey(g)
    <2>1. \A i \in 1 .. m : Part(i)
      BY <1>2 DEF NcasInv, m
    <2>2. \A r : NotConverted(r) => NotConverted(r)'
      BY DEF NotConverted
    <2>3. ASSUME NEW i \in 1 .. m PROVE Part(i)'
      BY <1>4, <1>8, <2>1, <2>2, <2>3
    <2>4. ASSUME NEW i, i = m + 1 PROVE Part(i)'
      <3>1. package' = package /\ i = at /\ ncas'[i] = e /\ config' = config
        BY <1>4, <1>5, <2>4
      <3>2. Made(package.ncas[i], e.header, e.misled)'
        BY <3>1 DEF Made, KeyAreaKey
      <3>3. NeedsTicket(e.header) => NotConverted(e.header.rights)'
        BY <2>2
      <3>4. ncas'[i] = e /\ config' = config
        BY <3>1
      <3> QED BY <1>9, <3>2, <3>3, <3>4
    <2>5. \A i \in 1 .. m + 1 : Part(i)'
      <3> HIDE DEF Part
      <3>1. \A i \in 1 .. m + 1 : i \in 1 .. m \/ i = m + 1
        BY <1>4
      <3> QED BY <2>3, <2>4, <3>1
    <2>6. at' = Len(ncas') + 1 /\ Len(ncas') <= Len(package'.ncas) /\ phase' = "ncas"
      BY <1>4, <1>5
    <2> QED BY <1>4, <2>5, <2>6 DEF NcasInv
  <1>11. RequiredInv'
    <2> SUFFICES ASSUME NEW j \in Tickets, new[j].required
                 PROVE  \E i \in 1 .. m + 1 : /\ ncas'[i].header.rights = new[j].rights
                                              /\ ncas'[i].header.keyGen = new[j].keyGen
      BY <1>4, <1>6 DEF RequiredInv, new
    <2>1. CASE HasTik(h) /\ j = k
      <3>1. e.header.rights = new[j].rights /\ e.header.keyGen = new[j].keyGen /\ m + 1 \in 1 .. m + 1
        BY <1>3, <1>4, <2>1
      <3> QED BY <1>4, <3>1
    <2>2. CASE ~(HasTik(h) /\ j = k)
      <3>1. new[j] = tiks[j]
        BY <1>3, <2>2
      <3>2. PICK i \in 1 .. m : ncas[i].header.rights = tiks[j].rights /\ ncas[i].header.keyGen = tiks[j].keyGen
        BY <1>2, <3>1 DEF RequiredInv, m
      <3>3. i \in 1 .. m + 1 /\ ncas'[i] = ncas[i]
        BY <1>4
      <3> QED BY <3>1, <3>2, <3>3
    <2> QED BY <2>1, <2>2
  <1>12. ImportedInv'
    <2> SUFFICES ASSUME NEW r \in imported
                 PROVE  \E i \in 1 .. m + 1 : ncas'[i].header.rights = r
      BY <1>4 DEF ImportedInv
    <2>1. PICK i \in 1 .. m : ncas[i].header.rights = r
      BY <1>2 DEF ImportedInv, m
    <2>2. i \in 1 .. m + 1 /\ ncas'[i] = ncas[i]
      BY <1>4
    <2> QED BY <2>1, <2>2
  <1>13. JobInv'
    <2>1. TiksAreThere(From)'
      BY <1>6, <1>7 DEF TiksAreThere
    <2> QED BY <1>2, <1>4, <1>5, <1>10, <1>11, <1>12, <2>1 DEF JobInv
  <1> QED BY <1>1, <1>13 DEF KeysInv

\* A content that is there has its ticket there, or was converted.
LEMMA SkipNcaKeeps ==
    ASSUME PackagesFit, KeysInv, SkipNca
    PROVE  KeysInv'
  <1> DEFINE h == contents[Nca.id]
             e == [skipped |-> TRUE, header |-> h, misled |-> Nca.id \in misled]
             result == FirstError(TicketChecks(h) \o MountChecks(h))
  <1>1. package \in Packages /\ phase = "ncas" /\ at \in Ncas /\ Nca.id \in DOMAIN contents
        /\ TiksAreThere(1) /\ NcasInv
    BY PackageParts DEF KeysInv, JobInv, SkipNca, MoreNcas, From, Ncas
  <1>2. UNCHANGED <<package, contents, es, imported, lowered, misled>>
    BY DEF SkipNca, fixedVars, consoleVars
  <1>3. CASE result # "ok"
    <2>1. End(result)
      BY <1>3 DEF SkipNca
    <2> HIDE DEF result
    <2> QED BY <1>2, <2>1, EndKeeps
  <1>4. CASE result = "ok"
    <2>1. tiks' = Require(h) /\ ncas' = Append(ncas, e) /\ at' = at + 1 /\ UNCHANGED <<phase, config>>
      BY <1>4 DEF SkipNca
    <2>2. NeedsTicket(h) => HasTik(h)
      BY <1>4, TicketChecked, ThenMounted
    <2>3. tiks' = Handled(h, FALSE)
      BY <2>1 DEF Handled
    <2>4. Made(package.ncas[at], h, e.misled) /\ (NeedsTicket(h) => h.rights \in DOMAIN es)
      <3>1. PICK i \in Ncas : package.ncas[i].id = Nca.id /\ Made(package.ncas[i], h, e.misled)
        BY <1>1 DEF KeysInv, ConsoleInv, ContentsInv
      <3>2. i = at
        BY <1>1, <3>1, PackageParts DEF Nca
      <3>3. NeedsTicket(h) => h.rights \in DOMAIN es
        BY <1>1 DEF KeysInv, ConsoleInv, ContentsInv
      <3> QED BY <3>1, <3>2, <3>3
    <2>5. HasTik(h) => NeedsTicket(h) /\ h.keyGen \in Nat
      <3>1. package.ncas[at].header.keyGen \in Nat
        <4> DEFINE n == package.ncas[at]
        <4>1. n \in NcaType
          BY <1>1, PackageParts
        <4> HIDE DEF n
        <4>2. n.header \in HeaderType
          BY <4>1 DEF NcaType
        <4>3. n.header.keyGen \in Nat
          BY <4>2 DEF HeaderType
        <4> QED BY <4>3 DEF n
      <3>2. HasTik(h) => NeedsTicket(h)
        <4> HIDE DEF h
        <4> QED BY <1>1, TikFound
      <3>3. NeedsTicket(h) => h.keyGen = package.ncas[at].header.keyGen
        BY <2>4 DEF Made, NeedsTicket
      <3> QED BY <3>1, <3>2, <3>3
    <2>6. e.header = h /\ e.skipped
      OBVIOUS
    <2> HIDE DEF h, e
    <2>7. NeedsTicket(h) => NotConverted(h.rights)
      BY <2>4 DEF NotConverted
    <2> QED BY <1>1, <1>2, <2>1, <2>2, <2>3, <2>4, <2>5, <2>6, <2>7, NcaKeeps
  <1> QED BY <1>3, <1>4

\* What becomes of an NCA that is taken.
LEMMA NcaIsMade ==
    ASSUME PackagesFit, package \in Packages, TiksAreThere(1), NEW i \in Ncas, NEW spl \in BOOLEAN,
           NcaIsTaken(package.ncas[i], spl)
    PROVE  LET n == package.ncas[i]
               h == n.header
               new == NewHeader(h, spl)
           IN /\ Made(n, new, Misleads(h, spl)) /\ (Converts(h) => new.rights = "none")
              /\ ~Converts(h) => new.rights = h.rights /\ new.keyGen = h.keyGen
              /\ config.lower => OnFirstKey(new)
  <1> DEFINE n == package.ncas[i]
             h == n.header
             new == NewHeader(h, spl)
             wrong == Misleads(h, spl)
  <1>1. n \in NcaType /\ NcaFits(n)
    BY PackageParts
  <1>2. CASE Converts(h)
    <2>1. ConvertFits(h, spl) /\ (NeedsTicket(h) => HasTik(h))
      BY <1>2 DEF NcaIsTaken
    <2>2. ~wrong => SectionKey(h, spl) = Plain(n.key)
      BY <1>2, <2>1, SectionKeyFound
    <2> HIDE DEF n
    <2>3. /\ new.rights = "none" /\ (~wrong => KeyAreaKey(new) = Plain(n.key))
          /\ config.lower => GetKeyGeneration(new) = 0
      BY <1>1, <1>2, <2>2, ConvertedHeader
    <2> HIDE DEF new, wrong, h
    <2>4. Made(n, new, wrong) /\ (config.lower => OnFirstKey(new))
      BY <2>3 DEF Made, OnFirstKey, MasterKey
    <2> QED BY <1>2, <2>3, <2>4 DEF n, h, new, wrong
  <1>3. CASE ~Converts(h)
    <2> HIDE DEF n
    <2>1. /\ new.rights = h.rights /\ new.keyGen = h.keyGen
          /\ ~NeedsTicket(h) => KeyAreaKey(new) = Plain(n.key)
      BY <1>1, <1>3, KeptHeader
    <2>2. ~config.lower
      BY <1>3 DEF Converts
    <2> HIDE DEF new, wrong
    <2>3. Made(n, new, wrong)
      BY <2>1 DEF Made, NeedsTicket
    <2> QED BY <1>3, <2>1, <2>2, <2>3 DEF n, new, wrong
  <1> QED BY <1>2, <1>3

\* An NCA that is converted has its key, and one that is not has its ticket to come.
LEMMA InstallNcaKeeps ==
    ASSUME PackagesFit, KeysInv, NEW spl \in BOOLEAN, InstallNca(spl)
    PROVE  KeysInv'
  <1> DEFINE n == package.ncas[at]
             h == n.header
             new == NewHeader(h, spl)
             wrong == Misleads(h, spl)
             e == [skipped |-> FALSE, header |-> new, misled |-> wrong]
             checks == HeaderChecks(h, spl) \o HashChecks(n)
             result == FirstError(checks \o MountChecks(new))
  <1>1. package \in Packages /\ phase = "ncas" /\ at \in Ncas /\ TiksAreThere(1) /\ NcasInv
    BY PackageParts DEF KeysInv, JobInv, InstallNca, MoreNcas, From, Ncas
  <1>2. UNCHANGED <<package, contents, es, imported, lowered, misled>>
    BY DEF InstallNca, fixedVars, consoleVars
  <1>3. n \in NcaType /\ NcaFits(n)
    BY <1>1, PackageParts
  <1>4. h \in HeaderType /\ GenerationInForm(h) /\ h.keyGen \in Nat
    <2> HIDE DEF n
    <2>1. h \in HeaderType /\ GenerationInForm(h)
      BY <1>3 DEF NcaType, NcaFits
    <2> HIDE DEF h
    <2> QED BY <2>1 DEF HeaderType
  <1>5. CASE result # "ok"
    <2>1. End(result)
      BY <1>5 DEF InstallNca, Nca
    <2> HIDE DEF result
    <2> QED BY <1>2, <2>1, EndKeeps
  <1>6. CASE result = "ok"
    <2>1. tiks' = TiksAfter(h) /\ ncas' = Append(ncas, e) /\ at' = at + 1 /\ UNCHANGED <<phase, config>>
      BY <1>6 DEF InstallNca, Nca
    <2>2. HasTik(h) => NeedsTicket(h) /\ tiks[TikFor(h)].ticket \in TicketType
      <3> HIDE DEF h
      <3> SUFFICES ASSUME HasTik(h) PROVE NeedsTicket(h) /\ tiks[TikFor(h)].ticket \in TicketType
        OBVIOUS
      <3>1. TikFor(h) \in Tickets /\ NeedsTicket(h)
        BY <1>1, TikFound
      <3>2. TikFor(h) \in Nat /\ 1 <= TikFor(h)
        BY <1>1, <3>1, PackageParts DEF Tickets
      <3>3. tiks[TikFor(h)].ticket = package.tickets[TikFor(h)].ticket
        BY <1>1, <3>1, <3>2 DEF TiksAreThere
      <3> QED BY <1>1, <3>1, <3>3, PackageParts
    <2>3. NcaIsTaken(n, spl)
      <3>1. checks \in Seq(CheckType) /\ (AllOk(checks) <=> NcaIsTaken(n, spl))
        <4> HIDE DEF n
        <4> QED BY <1>3, <2>2, NcaChecked
      <3> HIDE DEF n, checks, new
      <3> QED BY <1>6, <3>1, ThenMounted
    <2> DEFINE convert == Converts(h)
    <2>4. convert \in BOOLEAN /\ (convert => config.standard \/ config.lower)
      BY DEF Converts
    <2>5. tiks' = Handled(h, convert)
      BY <2>1 DEF TiksAfter, Handled
    <2>6. NeedsTicket(h) => HasTik(h)
      BY <2>3 DEF NcaIsTaken
    <2>7. /\ Made(n, new, wrong) /\ (convert => new.rights = "none")
          /\ ~convert => new.rights = h.rights /\ new.keyGen = h.keyGen
          /\ config.lower => OnFirstKey(new)
      BY <1>1, <2>3, NcaIsMade
    <2>10. e.header = new /\ ~e.skipped /\ e.misled = wrong
      OBVIOUS
    <2>11. ~(config.standard \/ config.lower) \/ convert \/ ~HasTik(h)
      BY DEF Converts
    <2> HIDE DEF n, h, new, e, convert, result, checks, wrong
    <2>12. NeedsTicket(new) => ~convert /\ NeedsTicket(h) /\ HasTik(h)
      BY <2>6, <2>7 DEF NeedsTicket
    <2>13. NeedsTicket(new) => NotConverted(new.rights)
      BY <2>11, <2>12 DEF NotConverted
    <2>14. HasTik(h) => IF convert THEN ~NeedsTicket(new) ELSE new.rights = h.rights /\ new.keyGen = h.keyGen
      BY <2>7, <2>12
    <2>15. Made(package.ncas[at], e.header, e.misled)
      BY <2>7, <2>10 DEF n
    <2> QED BY <1>1, <1>2, <1>4, <2>1, <2>4, <2>5, <2>7, <2>10, <2>12, <2>13, <2>14, <2>15, NcaKeeps
  <1> QED BY <1>5, <1>6

\* What was to come while NCAs were taken is to come when tickets are imported.
LEMMA NcasDoneKeeps ==
    ASSUME PackagesFit, KeysInv, NcasDone
    PROVE  KeysInv'
  <1>1. ConsoleInv' /\ UNCHANGED <<package, tiks, ncas, es, imported, config>>
    BY ConsoleKept DEF KeysInv, NcasDone, fixedVars, consoleVars
  <1>2. /\ package \in Packages /\ phase = "ncas" /\ phase' = "tickets" /\ at' = 1 /\ From = 1 /\ From' = 1
        /\ Tickets' = Tickets /\ at > Len(package.ncas)
    BY <1>1 DEF KeysInv, JobInv, NcasDone, From, Tickets
  <1>3. TiksAreThere(1) /\ NcasInv /\ RequiredInv /\ ImportedInv
    BY <1>2 DEF KeysInv, JobInv
  <1>4. TiksAreThere(From)' /\ RequiredInv' /\ ImportedInv'
    BY <1>1, <1>2, <1>3 DEF TiksAreThere, RequiredInv, ImportedInv
  <1>5. \A r : Coming(r) => Coming(r)'
    BY <1>1, <1>2 DEF Coming
  <1>6. NcasInv'
    <2>1. Len(ncas) \in Nat /\ Len(package.ncas) \in Nat
      BY <1>2, <1>3, PackageParts DEF NcasInv, IsList
    <2>2. Len(ncas) = Len(package.ncas)
      BY <1>2, <1>3, <2>1 DEF NcasInv
    <2>3. \A h : OnFirstKey(h)' = OnFirstKey(h)
      BY DEF OnFirstKey
    <2> QED BY <1>1, <1>2, <1>3, <1>5, <2>2, <2>3 DEF NcasInv, Made, KeyAreaKey
  <1>7. JobInv'
    BY <1>1, <1>2, <1>4, <1>6 DEF JobInv
  <1> QED BY <1>1, <1>7 DEF KeysInv

\* A cipher stays one.
LEMMA CryptType ==
    ASSUME NEW v \in Terms, NEW op \in {"enc", "dec"}, NEW key \in KeyType
    PROVE  Crypt(v, op, key) \in Terms
  <1> DEFINE L == [op : {"enc", "dec"}, key : KeyType]
             layer == [op |-> op, key |-> key]
             n == Len(v.layers)
  <1>1. Terms = [plain : STRING, layers : Seq(L)]
    BY DEF Terms
  <1>2. v \in [plain : STRING, layers : Seq(L)] /\ layer \in L
    BY <1>1
  <1> HIDE DEF L, layer
  <1>3. v.layers \in Seq(L) /\ n \in Nat
    BY <1>2
  <1>4. Append(v.layers, layer) \in Seq(L)
    BY <1>2, <1>3
  <1>5. n > 0 => SubSeq(v.layers, 1, n - 1) \in Seq(L)
    BY <1>3
  <1>6. Crypt(v, op, key) \in {[v EXCEPT !.layers = s] : s \in Seq(L)}
    <2>1. CASE n > 0 /\ v.layers[n].key = key /\ v.layers[n].op # op
      <3>1. Crypt(v, op, key) = [v EXCEPT !.layers = SubSeq(v.layers, 1, n - 1)]
        BY <2>1 DEF Crypt
      <3> QED BY <1>5, <2>1, <3>1
    <2>2. CASE ~(n > 0 /\ v.layers[n].key = key /\ v.layers[n].op # op)
      <3>1. Crypt(v, op, key) = [v EXCEPT !.layers = Append(v.layers, layer)]
        BY <2>2 DEF Crypt, layer
      <3> QED BY <1>4, <3>1
    <2> QED BY <2>1, <2>2
  <1>7. \A s \in Seq(L) : [v EXCEPT !.layers = s] \in [plain : STRING, layers : Seq(L)]
    BY <1>2
  <1> QED BY <1>1, <1>6, <1>7

\* A ticket that is patched gives the title key that it gave.
LEMMA PatchedTicket ==
    ASSUME NEW t \in TicketType, NEW keyGen \in Nat, MasterKey(keyGen) = MasterKey(t.revision)
    PROVE  /\ PatchTicket(t, keyGen) \in TicketType /\ PatchTicket(t, keyGen).rights = t.rights
           /\ EsTitleKey(PatchTicket(t, keyGen)) = EsTitleKey(t)
  <1> DEFINE block == TitleKey(t)
             new == [t EXCEPT !.kind = "common", !.sigType = "Rsa2048Sha256", !.signed = FALSE, !.device = 0,
                              !.block = block, !.revision = keyGen]
  <1>1. CASE ~ShouldPatch(t)
    BY <1>1 DEF PatchTicket
  <1>2. CASE ShouldPatch(t)
    <2>1. PatchTicket(t, keyGen) = new
      BY <1>2 DEF PatchTicket
    <2>2. block \in Terms
      <3>1. t.block \in Terms
        BY DEF TicketType
      <3>2. DeviceId \in Nat
        BY KeysAssumption
      <3>3. KeyOf("device", DeviceId) \in KeyType
        BY <3>2 DEF KeyOf, KeyType, Sections
      <3> QED BY <3>1, <3>3, CryptType DEF TitleKey
    <2> HIDE DEF block
    <2>3. /\ new \in TicketType /\ new.rights = t.rights /\ new.kind = "common"
          /\ new.block = block /\ new.revision = keyGen
      <3> DEFINE step == [t EXCEPT !.kind = "common", !.sigType = "Rsa2048Sha256", !.signed = FALSE]
      <3>1. step \in TicketType /\ step.rights = t.rights /\ step.kind = "common"
        BY DEF TicketType, SigTypes
      <3>2. new = [step EXCEPT !.device = 0, !.block = block, !.revision = keyGen]
        BY DEF TicketType
      <3> HIDE DEF new, step
      <3> QED BY <2>2, <3>1, <3>2 DEF TicketType
    <2> HIDE DEF new
    <2>4. TitleKey(new) = TitleKey(t)
      BY <2>3 DEF TitleKey, block
    <2>5. EsTitleKey(new) = EsTitleKey(t)
      BY <2>3, <2>4 DEF EsTitleKey
    <2> QED BY <2>1, <2>3, <2>5
  <1> QED BY <1>1, <1>2

\* A ticket that is not needed, or is imported, is behind.
LEMMA ImportTicketKeeps ==
    ASSUME PackagesFit, KeysInv, ImportTicket
    PROVE  KeysInv'
  <1> DEFINE tik == tiks[at]
             t == tik.ticket
             new == PatchTicket(t, tik.keyGen)
             result == FirstError(PatchChecks(t))
             file == package.tickets[at]
  <1>1. /\ package \in Packages /\ phase = "tickets" /\ at \in Tickets /\ at \in Nat /\ at <= Len(tiks)
        /\ From = at /\ TiksAreThere(at) /\ NcasInv /\ RequiredInv /\ ImportedInv
    <2>1. phase = "tickets" /\ From = at /\ at <= Len(tiks)
      BY DEF ImportTicket, From
    <2>2. package \in Packages /\ TiksAreThere(at) /\ NcasInv /\ RequiredInv /\ ImportedInv /\ at \in Nat \ {0}
      BY <2>1 DEF KeysInv, JobInv
    <2>3. Len(tiks) = Len(package.tickets) /\ Len(package.tickets) \in Nat
      BY <2>2, PackageParts DEF TiksAreThere
    <2> QED BY <2>1, <2>2, <2>3 DEF Tickets
  <1>2. UNCHANGED <<package, contents, lowered, misled>> /\ Tickets' = Tickets /\ Ncas' = Ncas
    BY DEF ImportTicket, fixedVars, Tickets, Ncas
  <1>3. /\ tiks \in Seq(TikType) /\ Len(tiks) = Len(package.tickets) /\ Tickets = 1 .. Len(tiks)
        /\ tik \in TikType /\ tik.rights = file.name /\ t = file.ticket
    <2>1. tiks \in Seq(TikType) /\ Len(tiks) = Len(package.tickets)
      BY <1>1 DEF TiksAreThere
    <2>2. tik \in TikType
      <3>1. at \in 1 .. Len(tiks)
        BY <1>1, <2>1 DEF Tickets
      <3> QED BY <2>1, <3>1
    <2>3. tik.rights = file.name /\ t = file.ticket
      BY <1>1 DEF TiksAreThere
    <2> QED BY <2>1, <2>2, <2>3 DEF Tickets
  <1>4. t \in TicketType /\ t.rights = tik.rights /\ tik.rights # "none" /\ tik.keyGen \in Nat
    <2>1. t \in TicketType /\ tik.keyGen \in Nat
      BY <1>3 DEF TikType
    <2>2. file.ticket.rights = file.name /\ file.name # "none"
      BY <1>1, PackageParts DEF TicketFits
    <2> QED BY <1>3, <2>1, <2>2
  <1>5. CASE ~tik.required
    <2>1. at' = at + 1 /\ UNCHANGED <<phase, config, tiks, ncas, es, imported>>
      BY <1>5 DEF ImportTicket
    <2>2. ConsoleInv'
      BY <1>2, <2>1, ConsoleKept DEF KeysInv
    <2>3. From' = at + 1
      BY <1>1, <2>1 DEF From
    <2>4. TiksAreThere(From)'
      BY <1>1, <1>2, <2>1, <2>3 DEF TiksAreThere, Tickets
    <2>5. ASSUME NEW r, Coming(r) PROVE Coming(r)'
      <3>1. CASE r \in DOMAIN es
        BY <2>1, <3>1 DEF Coming
      <3>2. CASE r \notin DOMAIN es
        <4>1. PICK j \in Tickets : at <= j /\ tiks[j].rights = r /\ tiks[j].required
          BY <1>1, <2>5, <3>2 DEF Coming
        <4>2. j # at /\ j \in Nat
          BY <1>3, <1>5, <4>1
        <4>3. at + 1 <= j
          BY <1>1, <4>1, <4>2
        <4> QED BY <1>2, <2>1, <2>3, <4>1, <4>3 DEF Coming
      <3> QED BY <3>1, <3>2
    <2>6. NcasInv'
      <3>1. \A h : OnFirstKey(h)' = OnFirstKey(h)
        BY DEF OnFirstKey
      <3> QED BY <1>1, <1>2, <2>1, <2>5, <3>1 DEF NcasInv, Made, KeyAreaKey
    <2>7. RequiredInv' /\ ImportedInv'
      BY <1>1, <1>2, <2>1 DEF RequiredInv, ImportedInv
    <2>8. JobInv'
      BY <1>1, <1>2, <2>1, <2>4, <2>6, <2>7 DEF JobInv
    <2> QED BY <2>2, <2>8 DEF KeysInv
  <1>6. CASE tik.required /\ result # "ok"
    <2>1. End(result) /\ UNCHANGED es
      BY <1>6 DEF ImportTicket
    <2> HIDE DEF result
    <2> QED BY <1>2, <2>1, EndKeeps
  <1>7. CASE tik.required /\ result = "ok"
    <2>1. /\ es' = Stored(es, new.rights, new) /\ imported' = imported \cup {new.rights}
          /\ tiks' = [tiks EXCEPT ![at].ticket = new, ![at].patched = TRUE, ![at].required = FALSE]
          /\ at' = at + 1 /\ UNCHANGED <<phase, config, ncas>>
      BY <1>7 DEF ImportTicket
    <2>2. PICK i \in 1 .. Len(ncas) : ncas[i].header.rights = tik.rights /\ ncas[i].header.keyGen = tik.keyGen
      BY <1>1, <1>7 DEF RequiredInv
    <2> DEFINE n == package.ncas[i]
    <2>3. i \in Ncas /\ Made(n, ncas[i].header, ncas[i].misled)
      BY <1>1 DEF NcasInv, Ncas
    <2>4. NeedsTicket(n.header) /\ n.header.rights = file.name /\ n.header.keyGen = tik.keyGen
      BY <1>3, <1>4, <2>2, <2>3 DEF Made
    <2>5. n \in NcaType /\ NcaFits(n) /\ KeyFits(n, file)
      BY <1>1, <2>3, PackageParts
    <2>6. MasterKey(tik.keyGen) = MasterKey(t.revision)
      <3> HIDE DEF n, file, t, tik
      <3>1. MasterKey(n.header.keyGen) = MasterKey(GetKeyGeneration(n.header))
        <4>1. n.header \in HeaderType /\ GenerationInForm(n.header)
          BY <2>5 DEF NcaType, NcaFits
        <4> QED BY <2>4, <4>1, SameGeneration
      <3>2. MasterKey(file.ticket.revision) = MasterKey(GetKeyGeneration(n.header))
        BY <2>4, <2>5 DEF KeyFits
      <3> QED BY <1>3, <2>4, <3>1, <3>2
    <2>7. new \in TicketType /\ new.rights = tik.rights /\ EsTitleKey(new) = EsTitleKey(t)
      <3> HIDE DEF t, tik
      <3> QED BY <1>4, <2>6, PatchedTicket
    <2> DEFINE after == [tik EXCEPT !.ticket = new, !.patched = TRUE, !.required = FALSE]
    <2>8. tiks' = [tiks EXCEPT ![at] = after]
      BY <2>1
    <2>9. after \in TikType /\ after.rights = tik.rights /\ ~after.required
      <3> HIDE DEF new
      <3> QED BY <1>3, <2>7 DEF TikType
    <2> HIDE DEF after
    <2>10. /\ tiks' \in Seq(TikType) /\ Len(tiks') = Len(tiks) /\ tiks'[at] = after
           /\ \A j \in Tickets : j # at => tiks'[j] = tiks[j]
      BY <1>1, <1>3, <2>8, <2>9, Replaced
    <2> HIDE DEF new
    <2>11. /\ DOMAIN es' = DOMAIN es \cup {tik.rights} /\ es'[tik.rights] = new
           /\ \A r \in DOMAIN es : r # tik.rights => es'[r] = es[r]
      BY <2>1, <2>7 DEF Stored
    <2>12. From' = at + 1
      BY <1>1, <2>1 DEF From
    <2> HIDE DEF tik, t, file, n
    <2>13. EsInv'
      <3> SUFFICES ASSUME NEW r \in DOMAIN es', NEW k \in Ncas, r \notin ForeignRights,
                          NeedsTicket(package.ncas[k].header), package.ncas[k].header.rights = r
                   PROVE  EsTitleKey(es'[r]) = Plain(package.ncas[k].key)
        BY <1>2 DEF EsInv, ForeignRights, EsTitleKey, TitleKey
      <3>1. CASE r # tik.rights
        BY <2>11, <3>1 DEF KeysInv, ConsoleInv, EsInv
      <3>2. CASE r = tik.rights
        <4>1. ~Foreign(file.ticket)
          BY <1>1, <1>3, <3>2, PackageParts DEF ForeignRights, file
        <4>2. KeyFits(package.ncas[k], file)
          BY <1>1, PackageParts DEF file
        <4>3. EsTitleKey(file.ticket) = Plain(package.ncas[k].key)
          BY <1>3, <3>2, <4>1, <4>2 DEF KeyFits
        <4> QED BY <1>3, <2>7, <2>11, <3>2, <4>3
      <3> QED BY <3>1, <3>2
    <2>14. ContentsInv' /\ LoweredInv'
      <3>1. ContentsInv /\ LoweredInv
        BY DEF KeysInv, ConsoleInv
      <3>2. ContentsInv'
        BY <1>2, <2>11, <3>1 DEF ContentsInv, Made, KeyAreaKey
      <3>3. LoweredInv'
        BY <1>2, <3>1 DEF LoweredInv, OnFirstKey
      <3> QED BY <3>2, <3>3
    <2>15. TiksAreThere(From)'
      <3>1. ASSUME NEW j \in Tickets PROVE tiks'[j].rights = package.tickets[j].name
        <4>1. tiks[j].rights = package.tickets[j].name
          BY <1>1 DEF TiksAreThere
        <4> QED BY <2>9, <2>10, <4>1 DEF tik
      <3>2. ASSUME NEW j \in Tickets, at + 1 <= j PROVE tiks'[j].ticket = package.tickets[j].ticket
        <4>1. j # at /\ at <= j
          BY <1>1, <1>3, <3>2
        <4> QED BY <1>1, <2>10, <4>1 DEF TiksAreThere
      <3> QED BY <1>2, <1>3, <2>10, <2>12, <3>1, <3>2 DEF TiksAreThere
    <2>16. ASSUME NEW r, Coming(r) PROVE Coming(r)'
      <3>1. CASE r \in DOMAIN es \/ r = tik.rights
        BY <2>11, <3>1 DEF Coming
      <3>2. CASE ~(r \in DOMAIN es \/ r = tik.rights)
        <4>1. PICK j \in Tickets : at <= j /\ tiks[j].rights = r /\ tiks[j].required
          BY <1>1, <2>16, <3>2 DEF Coming
        <4>2. j # at /\ j \in Nat
          BY <1>3, <3>2, <4>1 DEF tik
        <4>3. at + 1 <= j /\ tiks'[j] = tiks[j]
          BY <1>1, <2>10, <4>1, <4>2
        <4> QED BY <1>2, <2>12, <4>1, <4>3 DEF Coming
      <3> QED BY <3>1, <3>2
    <2>17. NcasInv'
      <3>1. \A h : OnFirstKey(h)' = OnFirstKey(h)
        BY DEF OnFirstKey
      <3>2. phase' = "tickets"
        BY <1>1, <2>1
      <3> QED BY <1>1, <1>2, <2>1, <2>16, <3>1, <3>2 DEF NcasInv, Made, KeyAreaKey
    <2>18. RequiredInv'
      <3>1. \A j \in Tickets : tiks'[j].required => tiks'[j] = tiks[j]
        BY <2>9, <2>10
      <3> SUFFICES ASSUME NEW j \in Tickets, tiks'[j].required
                   PROVE  \E l \in 1 .. Len(ncas) : /\ ncas[l].header.rights = tiks'[j].rights
                                                   /\ ncas[l].header.keyGen = tiks'[j].keyGen
        BY <1>2, <2>1 DEF RequiredInv
      <3> QED BY <1>1, <3>1 DEF RequiredInv
    <2>19. ImportedInv'
      BY <1>1, <2>1, <2>2, <2>7 DEF ImportedInv
    <2>20. JobInv'
      BY <1>1, <1>2, <2>1, <2>15, <2>17, <2>18, <2>19 DEF JobInv
    <2> QED BY <2>13, <2>14, <2>20 DEF KeysInv, ConsoleInv
  <1> QED BY <1>5, <1>6, <1>7

\* When the tickets are done, nothing is to come: it is on the console.
LEMMA TicketsDoneKeeps ==
    ASSUME PackagesFit, KeysInv, TicketsDone
    PROVE  KeysInv'
  <1>1. /\ phase = "tickets" /\ phase' = "register" /\ at' = 1 /\ at > Len(tiks)
        /\ UNCHANGED <<package, config, tiks, ncas, es, imported>>
        /\ contents' = (IF titled THEN <<>> ELSE contents) /\ lowered' = (IF titled THEN {} ELSE lowered)
        /\ misled' = (IF titled THEN {} ELSE misled)
    BY DEF TicketsDone, fixedVars
  <1>2. /\ package \in Packages /\ From = at /\ at \in Nat /\ TiksAreThere(at)
        /\ NcasInv /\ RequiredInv /\ ImportedInv
    <2>1. From = at
      BY <1>1 DEF From
    <2> QED BY <1>1, <2>1 DEF KeysInv, JobInv
  <1>3. From' = Len(package.tickets) + 1 /\ Tickets' = Tickets /\ Ncas' = Ncas
    BY <1>1 DEF From, Tickets, Ncas
  <1>4. at > Len(package.tickets) /\ Len(package.tickets) \in Nat
    BY <1>1, <1>2, PackageParts DEF TiksAreThere
  <1>5. ConsoleInv'
    <2>1. EsInv /\ ContentsInv /\ LoweredInv
      BY DEF KeysInv, ConsoleInv
    <2>2. EsInv'
      BY <1>1, <1>3, <2>1 DEF EsInv, ForeignRights
    <2>3. ContentsInv'
      <3>1. CASE titled
        <4>1. DOMAIN contents' = {}
          BY <1>1, <3>1
        <4> QED BY <4>1 DEF ContentsInv
      <3>2. CASE ~titled
        BY <1>1, <1>3, <2>1, <3>2 DEF ContentsInv
      <3> QED BY <3>1, <3>2
    <2>4. LoweredInv'
      <3>1. CASE titled
        BY <1>1, <3>1 DEF LoweredInv
      <3>2. CASE ~titled
        BY <1>1, <2>1, <3>2 DEF LoweredInv
      <3> QED BY <3>1, <3>2
    <2> QED BY <2>2, <2>3, <2>4 DEF ConsoleInv
  <1>6. ASSUME NEW r, Coming(r) PROVE Coming(r)'
    <2>1. r \in DOMAIN es
      <3> SUFFICES ASSUME r \notin DOMAIN es PROVE FALSE
        OBVIOUS
      <3>1. PICK j \in Tickets : at <= j
        BY <1>2, <1>6 DEF Coming
      <3> QED BY <1>2, <1>4, <3>1 DEF Tickets
    <2> QED BY <1>1, <2>1 DEF Coming
  <1>7. TiksAreThere(From)'
    <2>1. ASSUME NEW j \in Tickets, Len(package.tickets) + 1 <= j PROVE FALSE
      BY <1>4, <2>1 DEF Tickets
    <2> QED BY <1>1, <1>2, <1>3, <2>1 DEF TiksAreThere
  <1>8. NcasInv'
    <2>1. \A h : OnFirstKey(h)' = OnFirstKey(h)
      BY DEF OnFirstKey
    <2> QED BY <1>1, <1>2, <1>6, <2>1 DEF NcasInv, Made, KeyAreaKey
  <1>9. RequiredInv' /\ ImportedInv'
    BY <1>1, <1>2, <1>3 DEF RequiredInv, ImportedInv
  <1>10. JobInv'
    BY <1>1, <1>2, <1>7, <1>8, <1>9 DEF JobInv
  <1> QED BY <1>5, <1>10 DEF KeysInv

\* So a content that is registered has its ticket there.
LEMMA RegisterNcaKeeps ==
    ASSUME PackagesFit, KeysInv, RegisterNca
    PROVE  KeysInv'
  <1> DEFINE id == package.ncas[at].id
             h == ncas[at].header
             wrong == ncas[at].misled
  <1>1. /\ phase = "register" /\ at <= Len(ncas) /\ at' = at + 1
        /\ UNCHANGED <<package, phase, config, tiks, ncas, es, imported>>
    BY DEF RegisterNca, fixedVars
  <1>2. /\ package \in Packages /\ at \in Nat \ {0} /\ NcasInv /\ RequiredInv /\ ImportedInv
        /\ From = Len(package.tickets) + 1 /\ TiksAreThere(From) /\ Len(package.tickets) \in Nat
    BY <1>1, PackageParts DEF KeysInv, JobInv, From
  <1>3. From' = From /\ Tickets' = Tickets /\ Ncas' = Ncas
    BY <1>1, <1>2 DEF From, Tickets, Ncas
  <1>4. JobInv'
    <2>1. \A r : Coming(r) => Coming(r)'
      BY <1>1, <1>3 DEF Coming
    <2>2. \A g : OnFirstKey(g)' = OnFirstKey(g)
      BY DEF OnFirstKey
    <2>3. NcasInv'
      BY <1>1, <1>2, <2>1, <2>2 DEF NcasInv, Made, KeyAreaKey
    <2>4. TiksAreThere(From)'
      BY <1>1, <1>2, <1>3 DEF TiksAreThere
    <2>5. RequiredInv' /\ ImportedInv'
      BY <1>1, <1>2, <1>3 DEF RequiredInv, ImportedInv
    <2> QED BY <1>1, <1>2, <2>3, <2>4, <2>5 DEF JobInv
  <1>5. EsInv /\ ContentsInv /\ LoweredInv
    BY DEF KeysInv, ConsoleInv
  <1>6. EsInv'
    BY <1>1, <1>3, <1>5 DEF EsInv, ForeignRights
  <1>7. CASE ncas[at].skipped
    <2>1. UNCHANGED <<contents, lowered, misled>>
      BY <1>7 DEF RegisterNca
    <2>2. ContentsInv' /\ LoweredInv'
      BY <1>1, <1>3, <1>5, <2>1 DEF ContentsInv, LoweredInv
    <2> QED BY <1>4, <1>6, <2>2 DEF KeysInv, ConsoleInv
  <1>8. CASE ~ncas[at].skipped
    <2>1. /\ contents' = Stored(contents, id, h)
          /\ lowered' = IF config.lower THEN lowered \cup {id} ELSE lowered \ {id}
          /\ misled' = IF wrong THEN misled \cup {id} ELSE misled \ {id}
      BY <1>8 DEF RegisterNca
    <2>2. at \in 1 .. Len(ncas) /\ at \in Ncas
      BY <1>1, <1>2 DEF NcasInv, IsList, Ncas
    <2>3. Made(package.ncas[at], h, wrong) /\ (NeedsTicket(h) => Coming(h.rights)) /\ (config.lower => OnFirstKey(h))
      BY <1>2, <1>8, <2>2 DEF NcasInv
    <2>4. NeedsTicket(h) => h.rights \in DOMAIN es
      <3> SUFFICES ASSUME NeedsTicket(h), h.rights \notin DOMAIN es PROVE FALSE
        OBVIOUS
      <3>1. PICK j \in Tickets : From <= j
        BY <2>3 DEF Coming
      <3> QED BY <1>2, <3>1 DEF Tickets
    <2> HIDE DEF h, id, wrong
    <2>5. /\ DOMAIN contents' = DOMAIN contents \cup {id} /\ contents'[id] = h
          /\ \A x \in DOMAIN contents : x # id => contents'[x] = contents[x]
      BY <2>1 DEF Stored
    <2>6. ContentsInv'
      <3> SUFFICES ASSUME NEW x \in DOMAIN contents'
                   PROVE  /\ \E i \in Ncas : package.ncas[i].id = x /\ Made(package.ncas[i], contents'[x], x \in misled')
                          /\ NeedsTicket(contents'[x]) => contents'[x].rights \in DOMAIN es
        BY <1>1, <1>3 DEF ContentsInv, Made, KeyAreaKey
      <3>1. CASE x = id
        <4>1. (x \in misled') <=> wrong
          BY <2>1, <3>1
        <4> QED BY <2>2, <2>3, <2>4, <2>5, <3>1, <4>1 DEF id, Made
      <3>2. CASE x # id
        <4>1. x \in DOMAIN contents /\ contents'[x] = contents[x] /\ (x \in misled' <=> x \in misled)
          BY <2>1, <2>5, <3>2
        <4> QED BY <1>5, <4>1 DEF ContentsInv, Made
      <3> QED BY <3>1, <3>2
    <2>7. LoweredInv'
      <3> SUFFICES ASSUME NEW x \in lowered' PROVE x \in DOMAIN contents' /\ OnFirstKey(contents'[x])
        BY DEF LoweredInv, OnFirstKey
      <3>1. CASE x = id
        BY <2>1, <2>3, <2>5, <3>1
      <3>2. CASE x # id
        <4>1. x \in lowered
          BY <2>1, <3>2
        <4> QED BY <1>5, <2>5, <3>2, <4>1 DEF LoweredInv
      <3> QED BY <3>1, <3>2
    <2> QED BY <1>4, <1>6, <2>6, <2>7 DEF KeysInv, ConsoleInv
  <1> QED BY <1>7, <1>8

\* Reading the keys changes neither the console nor the tickets.
LEMMA SetupKeeps ==
    ASSUME PackagesFit, KeysInv, Setup
    PROVE  KeysInv'
  <1> DEFINE result == ParseKeysResult(keyFile)
  <1>1. UNCHANGED <<package, contents, es, imported, lowered, misled>>
    BY DEF Setup, fixedVars, consoleVars
  <1>2. CASE result # "ok"
    <2>1. End(result)
      BY <1>2 DEF Setup
    <2> HIDE DEF result
    <2> QED BY <1>1, <2>1, EndKeeps
  <1>3. CASE result = "ok"
    <2>1. phase = "setup" /\ phase' = "ncas" /\ UNCHANGED <<config, at, tiks, ncas>>
      BY <1>3 DEF Setup
    <2>2. ConsoleInv'
      BY <1>1, ConsoleKept DEF KeysInv
    <2>3. /\ package \in Packages /\ at \in Nat \ {0} /\ From = 1 /\ From' = 1 /\ Tickets' = Tickets
          /\ TiksAreThere(From) /\ NcasInv /\ RequiredInv /\ ImportedInv
      BY <1>1, <2>1 DEF KeysInv, JobInv, From, Tickets
    <2>4. TiksAreThere(From)'
      BY <1>1, <2>1, <2>3 DEF TiksAreThere
    <2>5. RequiredInv' /\ ImportedInv'
      BY <1>1, <2>1, <2>3 DEF RequiredInv, ImportedInv
    <2>6. NcasInv'
      <3>1. \A r : (Coming(r) => Coming(r)') /\ (NotConverted(r) => NotConverted(r)')
        BY <1>1, <2>1, <2>3 DEF Coming, NotConverted
      <3>2. \A g : OnFirstKey(g)' = OnFirstKey(g)
        BY DEF OnFirstKey
      <3> QED BY <1>1, <2>1, <2>3, <3>1, <3>2 DEF NcasInv, Made, KeyAreaKey
    <2>7. JobInv'
      BY <1>1, <2>1, <2>3, <2>4, <2>5, <2>6 DEF JobInv
    <2> QED BY <2>2, <2>7 DEF KeysInv
  <1> QED BY <1>2, <1>3

\* Every step but the ones above ends the install or does nothing.
LEMMA KeysInvInductive ==
    ASSUME PackagesFit, KeysInv, [KeysNext]_keyVars
    PROVE  KeysInv'
  <1>1. CASE \E override \in Overrides, m \in {"file", "stream"} : Begin(override, m)
    BY <1>1, BeginKeeps
  <1>2. CASE Setup
    BY <1>2, SetupKeeps
  <1>3. CASE SkipTitle
    BY <1>3, EndKeeps DEF SkipTitle, fixedVars, consoleVars
  <1>4. CASE SkipNca
    BY <1>4, SkipNcaKeeps
  <1>5. CASE \E spl \in BOOLEAN : InstallNca(spl)
    BY <1>5, InstallNcaKeeps
  <1>6. CASE NcasDone
    BY <1>6, NcasDoneKeeps
  <1>7. CASE ImportTicket
    BY <1>7, ImportTicketKeeps
  <1>8. CASE TicketsDone
    BY <1>8, TicketsDoneKeeps
  <1>9. CASE RegisterNca
    BY <1>9, RegisterNcaKeeps
  <1>10. CASE Success
    BY <1>10, EndKeeps DEF Success, fixedVars
  <1>11. CASE Interrupt
    BY <1>11, EndKeeps DEF Interrupt, fixedVars, consoleVars
  <1>12. CASE UNCHANGED keyVars
    <2>1. /\ UNCHANGED <<package, phase, config, at, tiks, ncas, contents, es, imported, lowered, misled>>
          /\ Tickets' = Tickets /\ From' = From
      BY <1>12 DEF keyVars, fixedVars, consoleVars, Tickets, From
    <2>2. ConsoleInv'
      BY <2>1, ConsoleKept DEF KeysInv
    <2>3. JobInv'
      <3>1. \A r : (Coming(r) => Coming(r)') /\ (NotConverted(r) => NotConverted(r)')
        BY <2>1 DEF Coming, NotConverted
      <3>2. \A g : OnFirstKey(g)' = OnFirstKey(g)
        BY DEF OnFirstKey
      <3>3. JobInv
        BY DEF KeysInv
      <3>4. NcasInv => NcasInv'
        BY <2>1, <3>1, <3>2 DEF NcasInv, Made, KeyAreaKey
      <3>5. TiksAreThere(From) => TiksAreThere(From)'
        BY <2>1 DEF TiksAreThere
      <3>6. (RequiredInv => RequiredInv') /\ (ImportedInv => ImportedInv')
        BY <2>1 DEF RequiredInv, ImportedInv
      <3> QED BY <2>1, <3>3, <3>4, <3>5, <3>6 DEF JobInv
    <2> QED BY <2>2, <2>3 DEF KeysInv
  <1> QED BY <1>1, <1>2, <1>3, <1>4, <1>5, <1>6, <1>7, <1>8, <1>9, <1>10, <1>11, <1>12 DEF KeysNext

\* A console on which nothing is installed.
LEMMA KeysInvInitially ==
    ASSUME PackagesFit, KeysInit
    PROVE  KeysInv
  <1>1. JobInv
    BY DEF KeysInit, JobInv
  <1>2. DOMAIN es = {} /\ DOMAIN contents = {} /\ lowered = {}
    BY DEF KeysInit
  <1>3. ConsoleInv
    BY <1>2 DEF ConsoleInv, EsInv, ContentsInv, LoweredInv
  <1> QED BY <1>1, <1>3 DEF KeysInv

-----------------------------------------------------------------------------
(* The theorems *)

\* The invariant above.
THEOREM KeysInvAlways ==
    ASSUME PackagesFit
    PROVE  KeysSpec => []KeysInv
  <1>1. KeysInit => KeysInv
    BY KeysInvInitially
  <1>2. KeysInv /\ [KeysNext]_keyVars => KeysInv'
    BY KeysInvInductive
  <1> QED BY <1>1, <1>2, PTL DEF KeysSpec

\* What the invariant says of one content.
LEMMA ContentHasItsKey ==
    ASSUME PackagesFit, KeysInv, NEW id \in DOMAIN contents, contents[id].rights \notin ForeignRights,
           id \notin misled
    PROVE  HasKey(id)
  <1> DEFINE h == contents[id]
  <1>1. package \in Packages /\ EsInv /\ ContentsInv
    BY DEF KeysInv, JobInv, ConsoleInv
  <1>2. PICK i \in Ncas : package.ncas[i].id = id /\ Made(package.ncas[i], h, FALSE)
    BY <1>1 DEF ContentsInv, Made
  <1>3. NeedsTicket(h) => h.rights \in DOMAIN es
    BY <1>1 DEF ContentsInv
  <1>4. ConsoleKey(h) = Plain(package.ncas[i].key)
    <2> HIDE DEF h
    <2>1. CASE NeedsTicket(h)
      <3>1. NeedsTicket(package.ncas[i].header) /\ h.rights = package.ncas[i].header.rights
        BY <1>2, <2>1 DEF Made, NeedsTicket
      <3>2. EsTitleKey(es[h.rights]) = Plain(package.ncas[i].key)
        BY <1>1, <1>3, <2>1, <3>1 DEF EsInv, h
      <3> QED BY <2>1, <3>2 DEF ConsoleKey
    <2>2. CASE ~NeedsTicket(h)
      <3>1. KeyAreaKey(h) = Plain(package.ncas[i].key)
        BY <1>2, <2>2 DEF Made, NeedsTicket
      <3> QED BY <2>2, <3>1 DEF ConsoleKey
    <2> QED BY <2>1, <2>2
  <1>5. \A j \in DOMAIN package.ncas : package.ncas[j].id = id => j = i
    BY <1>1, <1>2, PackageParts
  <1> QED BY <1>3, <1>4, <1>5 DEF HasKey, Opens

\* Whatever is installed, with whatever configuration, keys, interruptions and
\* earlier installs: every content that is registered can be decrypted, unless
\* a wrong key of prod.keys went into it.
THEOREM EveryContentHasItsKeyAlways ==
    ASSUME PackagesFit
    PROVE  KeysSpec => []EveryContentHasItsKey
  <1>1. KeysInv => EveryContentHasItsKey
    BY ContentHasItsKey DEF EveryContentHasItsKey
  <1> QED BY <1>1, KeysInvAlways, PTL

\* What lower_master_key has written needs the first master key and no ticket,
\* with whatever prod.keys, and it can be decrypted unless a wrong key of the
\* file went into it.
THEOREM LaunchesOnEveryFirmwareAlways ==
    ASSUME PackagesFit
    PROVE  KeysSpec => []LaunchesOnEveryFirmware
  <1>1. ASSUME KeysInv, NEW id \in lowered
        PROVE  /\ ~NeedsTicket(contents[id]) /\ MasterKey(GetKeyGeneration(contents[id])) = 0
               /\ id \in misled \/ HasKey(id)
    <2>1. id \in DOMAIN contents /\ OnFirstKey(contents[id]) /\ package \in Packages
      BY <1>1 DEF KeysInv, JobInv, ConsoleInv, LoweredInv
    <2>2. contents[id].rights = "none" /\ MasterKey(GetKeyGeneration(contents[id])) = 0
      BY <2>1 DEF OnFirstKey
    <2>3. "none" \notin ForeignRights
      BY <2>1, PackageParts DEF ForeignRights, TicketFits
    <2>4. id \in misled \/ HasKey(id)
      BY <1>1, <2>1, <2>2, <2>3, ContentHasItsKey
    <2> QED BY <2>2, <2>4 DEF NeedsTicket
  <1>2. KeysInv => LaunchesOnEveryFirmware
    BY <1>1 DEF LaunchesOnEveryFirmware
  <1> QED BY <1>2, KeysInvAlways, PTL

\* A ticket is imported only for a content that needs it.
THEOREM TicketOnlyForNeedAlways ==
    ASSUME PackagesFit
    PROVE  KeysSpec => []TicketOnlyForNeed
  <1>1. KeysInv => TicketOnlyForNeed
    BY DEF KeysInv, JobInv, NcasInv, ImportedInv, IsList, TicketOnlyForNeed
  <1> QED BY <1>1, KeysInvAlways, PTL

-----------------------------------------------------------------------------
(* Nothing that is sound is refused *)

Sound == SoundKeyFile /\ SoundPackage
InInstall == phase \in {"ncas", "tickets", "register"}

SoundInv ==
    /\ keyFile \in KeyFiles
    /\ InInstall => keys = ParseKeys(keyFile)
    /\ Sound => misled = {} /\ \A i \in 1 .. Len(ncas) : ~ncas[i].misled
    /\ SoundIsInstalled

\* What CHOOSE takes for the last line.
LEMMA LargestMember ==
    ASSUME NEW n \in Nat, NEW S \in SUBSET (0 .. n), S # {}
    PROVE  \E i \in S : \A j \in S : j <= i
  <1> DEFINE T == {n - i : i \in S}
  <1>1. T \in SUBSET Nat /\ T # {}
    <2>1. \A i \in S : i \in 0 .. n
      OBVIOUS
    <2>2. \A i \in S : n - i \in Nat
      BY <2>1
    <2> QED BY <2>2
  <1>2. PICK k \in T : \A l \in T : k <= l
    <2> HIDE DEF T
    <2> QED BY <1>1, LeastMember
  <1>3. PICK i \in S : k = n - i
    BY <1>2
  <1>4. \A j \in S : j \in Nat /\ n - i <= n - j
    <2>1. \A j \in S : j \in 0 .. n /\ n - j \in T
      OBVIOUS
    <2> HIDE DEF T
    <2> QED BY <1>2, <1>3, <2>1
  <1>5. i \in Nat
    BY <1>4
  <1>6. \A j \in S : j <= i
    BY <1>4, <1>5
  <1> QED BY <1>6

\* The value of a name of which every line is right.
LEMMA ValueIsRight ==
    ASSUME keyFile \in Seq(LineType), \A l \in Lines : l.value = "right", NEW name, NEW index
    PROVE  /\ ValueOf(keyFile, name, index) \in {"right", "zero"}
           /\ (\E l \in Lines : l.name = name /\ l.index = index) => ValueOf(keyFile, name, index) = "right"
  <1> DEFINE hits == {i \in DOMAIN keyFile : keyFile[i].name = name /\ keyFile[i].index = index}
             last == CHOOSE i \in hits : \A j \in hits : j <= i
  <1>1. DOMAIN keyFile = 1 .. Len(keyFile) /\ Len(keyFile) \in Nat
    OBVIOUS
  <1>2. hits \in SUBSET (0 .. Len(keyFile))
    BY <1>1
  <1>3. \A i \in hits : keyFile[i].value = "right"
    BY DEF Lines
  <1>4. hits # {} <=> \E l \in Lines : l.name = name /\ l.index = index
    BY DEF Lines
  <1>5. ValueOf(keyFile, name, index) = IF hits = {} THEN "zero" ELSE keyFile[last].value
    BY DEF ValueOf
  <1>6. hits # {} => last \in hits
    <2> HIDE DEF hits
    <2> QED BY <1>1, <1>2, LargestMember
  <1> HIDE DEF hits, last
  <1> QED BY <1>3, <1>4, <1>5, <1>6

\* The keys that are there.
LEMMA KeyIsFound ==
    ASSUME keyFile \in Seq(LineType), SoundKeyFile, keys = ParseKeys(keyFile),
           NEW section \in Sections, NEW place \in 0 .. KeySectionSize - 1,
           \E l \in Lines : l.name = section /\ l.index = place
    PROVE  KeyOf(section, place) \in keys.found
  <1>1. PICK i \in DOMAIN keyFile : keyFile[i].name = section /\ keyFile[i].index = place
    BY DEF Lines
  <1>2. ValueOf(keyFile, section, place) = "right"
    BY ValueIsRight DEF SoundKeyFile
  <1>3. place < KeySectionSize
    BY DEF KeySectionSize
  <1> DEFINE fits(j) == /\ keyFile[j].name \in Sections /\ keyFile[j].index < KeySectionSize
                        /\ ValueOf(keyFile, keyFile[j].name, keyFile[j].index) # "zero"
             key(k) == [section |-> keyFile[k].name, index |-> keyFile[k].index,
                        right |-> ValueOf(keyFile, keyFile[k].name, keyFile[k].index) = "right"]
  <1>4. fits(i) /\ key(i) = KeyOf(section, place)
    BY <1>1, <1>2, <1>3 DEF KeyOf
  <1>5. keys.found = {key(k) : k \in {j \in DOMAIN keyFile : fits(j)}}
    BY DEF ParseKeys, KeysIn
  <1> HIDE DEF fits, key
  <1> QED BY <1>1, <1>4, <1>5

\* For the NCAs of the package they are.
LEMMA KeysAreFound ==
    ASSUME PackagesFit, package \in Packages, keyFile \in Seq(LineType), SoundKeyFile,
           keys = ParseKeys(keyFile), NEW i \in Ncas
    PROVE  LET h == package.ncas[i].header IN
           /\ keys.deviceOpen
           /\ HasNcaKeyArea(GetKeyGeneration(h), h.kaek) /\ HasNcaKeyArea(KeakGeneration(h), h.kaek)
           /\ GetNcaKeyArea(GetKeyGeneration(h), h.kaek).right /\ GetNcaKeyArea(KeakGeneration(h), h.kaek).right
           /\ NeedsTicket(h) => HasTitleKek(h.keyGen) /\ GetTitleKek(h.keyGen).right
  <1> DEFINE h == package.ncas[i].header
             g == GetKeyGeneration(h)
  <1>1. h \in HeaderType /\ GenerationInForm(h)
    <2> DEFINE n == package.ncas[i]
    <2>1. n \in NcaType /\ NcaFits(n)
      BY PackageParts
    <2> HIDE DEF n
    <2> QED BY <2>1 DEF NcaType, NcaFits, n
  <1>2. keys.deviceOpen
    BY ValueIsRight DEF SoundKeyFile, ParseKeys
  <1>3. \A place \in {0, MasterKey(g)} :
          /\ \E l \in Lines : l.name = "titlekek" /\ l.index = place
          /\ \E l \in Lines : l.name = Section(h.kaek) /\ l.index = place
    BY PackageParts DEF SoundKeyFile
  <1> HIDE DEF h
  <1>4. Section(h.kaek) \in Sections /\ "titlekek" \in Sections
    <2>1. h.kaek = 0 \/ h.kaek = 1 \/ h.kaek = 2
      BY <1>1 DEF HeaderType
    <2>2. Section(0) = "application" /\ Section(1) = "ocean" /\ Section(2) = "system"
      BY DEF Section
    <2> QED BY <2>1, <2>2 DEF Sections
  <1>5. /\ h.keyGen \in 0 .. KeySectionSize /\ g \in 0 .. KeySectionSize
        /\ NeedsTicket(h) => MasterKey(h.keyGen) = MasterKey(g)
        /\ h.keyGen = 0 \/ h.keyGen = g
    BY <1>1, SameGeneration
  <1> HIDE DEF g
  <1>6. /\ FixKey(g) = MasterKey(g) /\ MasterKey(g) \in 0 .. KeySectionSize - 1
        /\ FixKey(0) = 0 /\ 0 \in 0 .. KeySectionSize - 1 /\ FixKey(h.keyGen) = MasterKey(h.keyGen)
        /\ MasterKey(h.keyGen) \in {0, MasterKey(g)}
    BY <1>5 DEF FixKey, MasterKey, KeySectionSize
  <1>7. \A place \in {0, MasterKey(g)} :
          KeyOf("titlekek", place) \in keys.found /\ KeyOf(Section(h.kaek), place) \in keys.found
    <2> SUFFICES ASSUME NEW place \in {0, MasterKey(g)}
                 PROVE  KeyOf("titlekek", place) \in keys.found /\ KeyOf(Section(h.kaek), place) \in keys.found
      OBVIOUS
    <2>1. place \in 0 .. KeySectionSize - 1
      BY <1>6
    <2> QED BY <1>3, <1>4, <2>1, KeyIsFound
  <1>a. \A section, index : KeyOf(section, index) \in keys.found =>
          HasKeyOf(section, index) /\ FileKey(section, index).right
    BY DEF KeyOf, HasKeyOf, FileKey
  <1>8. \A generation \in {g, 0, h.keyGen} :
          HasNcaKeyArea(generation, h.kaek) /\ GetNcaKeyArea(generation, h.kaek).right
    BY <1>6, <1>7, <1>a DEF HasNcaKeyArea, GetNcaKeyArea
  <1>9. HasTitleKek(h.keyGen) /\ GetTitleKek(h.keyGen).right
    BY <1>6, <1>7, <1>a DEF HasTitleKek, GetTitleKek
  <1> QED BY <1>2, <1>8, <1>9 DEF KeakGeneration, g, h

\* So no conversion misleads.
LEMMA SoundIsNotMisled ==
    ASSUME PackagesFit, package \in Packages, keyFile \in Seq(LineType), SoundKeyFile, TiksAreThere(1),
           keys = ParseKeys(keyFile), NEW i \in Ncas, NEW spl
    PROVE  ~Misleads(package.ncas[i].header, spl)
  <1> DEFINE h == package.ncas[i].header
  <1>1. /\ GetNcaKeyArea(GetKeyGeneration(h), h.kaek).right /\ GetNcaKeyArea(KeakGeneration(h), h.kaek).right
        /\ NeedsTicket(h) => GetTitleKek(h.keyGen).right
    BY KeysAreFound
  <1> HIDE DEF h
  <1>2. HasTik(h) => NeedsTicket(h)
    BY TikFound
  <1>3. \A key \in FileKeys(h, spl) : key.right
    BY <1>1, <1>2 DEF FileKeys
  <1> QED BY <1>3 DEF Misleads, h

\* And the cnmt NCA can be mounted.
LEMMA SoundMounts ==
    ASSUME SoundPackage, at = 1, NEW h, Made(Nca, h, FALSE)
    PROVE  Opens(Nca, h)
  <1>1. ~NeedsTicket(Nca.header)
    BY DEF SoundPackage, Nca
  <1>2. h.rights = "none" /\ KeyAreaKey(h) = Plain(Nca.key)
    BY <1>1 DEF Made
  <1> QED BY <1>2 DEF Opens, ConsoleKey, NeedsTicket

\* The tickets of a sound package.
LEMMA SoundTicket ==
    ASSUME PackagesFit, package \in Packages, SoundPackage, NEW j \in Tickets
    PROVE  LET t == package.tickets[j].ticket IN
           /\ t \in TicketType /\ AllOk(TicketDataChecks(t)) /\ t.rights = package.tickets[j].name
           /\ t.cert \in {"Rsa4096", "Rsa2048", "Ecc480"}
           /\ keys.deviceOpen => DeviceFits(t)
  <1> DEFINE file == package.tickets[j]
             t == file.ticket
  <1>1. t \in TicketType /\ TicketFits(file) /\ j \in DOMAIN package.tickets
    BY PackageParts
  <1>2. FirstError(TicketDataChecks(t)) = "ok" /\ t.cert # "none" /\ t.rights = file.name /\ ~Foreign(t)
    BY <1>1 DEF SoundPackage
  <1> HIDE DEF file
  <1>3. t.kind = "personalised" =>
          t.device = DeviceId /\ t.block.layers[Len(t.block.layers)].key = KeyOf("device", DeviceId)
    BY <1>1, <1>2 DEF TicketFits, Foreign
  <1>4. keys.deviceOpen => DeviceFits(t)
    BY <1>3 DEF DeviceFits
  <1> HIDE DEF t
  <1>5. AllOk(TicketDataChecks(t))
    BY <1>1, <1>2, TicketDataChecked, FirstErrorIsOk
  <1>6. t.cert \in {"Rsa4096", "Rsa2048", "Ecc480"}
    BY <1>1, <1>2 DEF TicketType
  <1> QED BY <1>1, <1>2, <1>4, <1>5, <1>6 DEF t, file

\* The ticket an NCA of a sound package needs is there.
LEMMA SoundTik ==
    ASSUME PackagesFit, package \in Packages, SoundPackage, TiksAreThere(1), NEW i \in Ncas, NEW h,
           NeedsTicket(h), h.rights = package.ncas[i].header.rights
    PROVE  HasTik(h)
  <1>1. \E j \in DOMAIN package.tickets : package.tickets[j].name = h.rights
    <2>1. i \in DOMAIN package.ncas /\ NeedsTicket(package.ncas[i].header)
      BY PackageParts DEF NeedsTicket
    <2> QED BY <2>1 DEF SoundPackage
  <1>2. PICK j \in Tickets : package.tickets[j].name = h.rights
    BY <1>1, PackageParts
  <1>3. tiks[j].rights = h.rights /\ j \in DOMAIN tiks
    BY <1>2, PackageParts DEF TiksAreThere, Tickets
  <1> QED BY <1>3 DEF HasTik, TiksFor

\* An NCA of a sound package is taken, converted or not.
LEMMA SoundNca ==
    ASSUME PackagesFit, package \in Packages, keyFile \in Seq(LineType), Sound, TiksAreThere(1),
           keys = ParseKeys(keyFile), NEW i \in Ncas, NEW spl
    PROVE  NcaIsTaken(package.ncas[i], spl)
  <1> DEFINE n == package.ncas[i]
             h == n.header
  <1>1. h \in HeaderType
    <2>1. n \in NcaType
      BY PackageParts
    <2> HIDE DEF n
    <2> QED BY <2>1 DEF NcaType
  <1>2. n.intact /\ h.magic = "NCA3" /\ h.sig # "bad" /\ h.sigKeyGen < 2
    BY PackageParts DEF Sound, SoundPackage
  <1>3. NeedsTicket(h) => HasTik(h)
    BY SoundTik DEF Sound
  <1>4. /\ keys.deviceOpen
        /\ HasNcaKeyArea(GetKeyGeneration(h), h.kaek) /\ HasNcaKeyArea(KeakGeneration(h), h.kaek)
        /\ NeedsTicket(h) => HasTitleKek(h.keyGen)
    BY KeysAreFound DEF Sound
  <1> HIDE DEF n
  <1>5. h.sig \in {"good", "otherDistribution"}
    <2> HIDE DEF h
    <2> QED BY <1>1, <1>2 DEF HeaderType
  <1> HIDE DEF h
  <1>6. ConvertFits(h, spl)
    <2>1. CASE HasTik(h)
      <3> DEFINE k == TikFor(h)
      <3>1. k \in Tickets /\ NeedsTicket(h) /\ package.tickets[k].name = h.rights
        BY <2>1, TikFound
      <3>2. tiks[k].ticket = package.tickets[k].ticket
        <4>1. 1 <= k
          BY <3>1, PackageParts DEF Tickets
        <4> HIDE DEF k
        <4> QED BY <3>1, <4>1 DEF TiksAreThere
      <3> DEFINE t == package.tickets[k].ticket
      <3>3. AllOk(TicketDataChecks(t)) /\ t.rights = h.rights /\ DeviceFits(t)
        <4> HIDE DEF k
        <4> QED BY <1>4, <3>1, SoundTicket DEF Sound
      <3> HIDE DEF t
      <3>4. tiks[TikFor(h)].ticket = t
        BY <3>2 DEF t
      <3> HIDE DEF k
      <3> QED BY <1>4, <2>1, <3>1, <3>3, <3>4 DEF ConvertFits
    <2>2. CASE ~HasTik(h)
      BY <1>4, <2>2 DEF ConvertFits
    <2> QED BY <2>1, <2>2
  <1> QED BY <1>2, <1>3, <1>5, <1>6 DEF NcaIsTaken, n, h

\* An install that ends otherwise was of something that is not sound.
LEMMA EndIsSound ==
    ASSUME SoundInv, NEW result, Sound => result \in {"ok", "interrupted"}, End(result),
           UNCHANGED <<package, keyFile, misled>>
    PROVE  SoundInv'
  <1>1. Sound' = Sound
    BY DEF Sound, SoundKeyFile, SoundPackage, Lines
  <1>2. rc' = result /\ ~InInstall' /\ Len(ncas') = 0
    BY DEF End, InInstall
  <1> QED BY <1>1, <1>2 DEF SoundInv, SoundIsInstalled, Sound

\* Every check list of a sound package is passed.
LEMMA SoundInvInductive ==
    ASSUME PackagesFit, KeyFiles \subseteq Seq(LineType), KeysInv, SoundInv, [KeysNext]_keyVars
    PROVE  SoundInv'
  <1>1. UNCHANGED <<package, keyFile>>
    BY DEF KeysNext, Begin, Setup, SkipTitle, SkipNca, InstallNca, NcasDone, ImportTicket, TicketsDone,
           RegisterNca, Success, Interrupt, keyVars, fixedVars
  <1>2. package \in Packages /\ keyFile \in Seq(LineType) /\ keyFile \in KeyFiles
    BY DEF KeysInv, JobInv, SoundInv
  <1>3. Sound' = Sound
    BY <1>1 DEF Sound, SoundKeyFile, SoundPackage, Lines
  <1>4. ASSUME keys' = keys, rc' = rc, InInstall' => InInstall,
               Sound => misled' = {} /\ \A i \in 1 .. Len(ncas') : ~ncas'[i].misled
        PROVE  SoundInv'
    BY <1>1, <1>2, <1>3, <1>4 DEF SoundInv, SoundIsInstalled, Sound
  <1>a. Sound => misled = {} /\ \A i \in 1 .. Len(ncas) : ~ncas[i].misled
    BY DEF SoundInv
  <1>b. ASSUME NEW e, phase = "ncas", ncas' = Append(ncas, e), Sound => ~e.misled
        PROVE  Sound => \A i \in 1 .. Len(ncas') : ~ncas'[i].misled
    <2>1. IsList(ncas) /\ Len(ncas) \in Nat
      BY <1>b DEF KeysInv, JobInv, NcasInv, IsList
    <2>2. /\ Len(ncas') = Len(ncas) + 1 /\ ncas'[Len(ncas) + 1] = e
          /\ \A i \in 1 .. Len(ncas) : ncas'[i] = ncas[i]
      BY <1>b, <2>1, Appended
    <2> QED BY <1>a, <1>b, <2>1, <2>2
  <1>5. ASSUME NEW override, NEW m, Begin(override, m) PROVE SoundInv'
    <2>1. phase' = "setup" /\ rc' = "none" /\ Len(ncas') = 0 /\ misled' = misled
      BY <1>5 DEF Begin
    <2> QED BY <1>1, <1>2, <1>3, <1>a, <2>1 DEF SoundInv, SoundIsInstalled, InInstall
  <1>6. CASE Setup
    <2> DEFINE result == ParseKeysResult(keyFile)
    <2>1. CASE result = "ok"
      <3>1. keys' = ParseKeys(keyFile) /\ rc' = rc /\ ncas' = ncas /\ misled' = misled
        BY <1>6, <2>1 DEF Setup, consoleVars
      <3> QED BY <1>1, <1>2, <1>3, <1>a, <3>1 DEF SoundInv, SoundIsInstalled, Sound
    <2>2. CASE result # "ok"
      <3>1. End(result) /\ misled' = misled
        BY <1>6, <2>2 DEF Setup, consoleVars
      <3>2. ~Sound
        <4> SUFFICES ASSUME Sound PROVE result = "ok"
          BY <2>2
        <4> DEFINE ok == ValueOf(keyFile, EticketKek, 0) # "wrong"
        <4>1. ok
          <5>1. ValueOf(keyFile, EticketKek, 0) \in {"right", "zero"}
            BY <1>2, ValueIsRight DEF Sound, SoundKeyFile
          <5> QED BY <5>1
        <4>2. result = FirstError(<<Check(ok, "KeyFailedDecyptETicketDeviceKey")>>)
          BY DEF ParseKeysResult
        <4>3. ok \in BOOLEAN /\ "KeyFailedDecyptETicketDeviceKey" \in Errors
          BY DEF Errors
        <4> HIDE DEF ok, result
        <4> QED BY <4>1, <4>2, <4>3, OneCheck, FirstErrorIsOk
      <3> HIDE DEF result
      <3> QED BY <1>1, <3>1, <3>2, EndIsSound
    <2> QED BY <2>1, <2>2
  <1>7. CASE SkipTitle
    BY <1>1, <1>7, EndIsSound DEF SkipTitle, consoleVars
  <1>8. CASE SkipNca
    <2> DEFINE h == contents[Nca.id]
               result == FirstError(TicketChecks(h) \o MountChecks(h))
               e == [skipped |-> TRUE, header |-> h, misled |-> Nca.id \in misled]
    <2>1. CASE result = "ok"
      <3>1. UNCHANGED <<phase, keys, rc, misled>> /\ phase = "ncas" /\ ncas' = Append(ncas, e)
        BY <1>8, <2>1 DEF SkipNca, MoreNcas, consoleVars
      <3>2. Sound => ~e.misled
        BY <1>a
      <3> HIDE DEF e
      <3> QED BY <1>4, <1>a, <1>b, <3>1, <3>2 DEF InInstall
    <2>2. CASE result # "ok"
      <3>1. End(result) /\ misled' = misled
        BY <1>8, <2>2 DEF SkipNca, consoleVars
      <3>2. ~Sound
        <4> SUFFICES ASSUME Sound PROVE FALSE
          OBVIOUS
        <4>1. Nca.id \in DOMAIN contents /\ phase = "ncas" /\ ContentsInv /\ at \in Ncas
          BY <1>2, <1>8, PackageParts DEF SkipNca, MoreNcas, KeysInv, ConsoleInv, JobInv, Ncas
        <4>2. TiksAreThere(1)
          BY <4>1 DEF KeysInv, JobInv, From
        <4>3. PICK i \in Ncas : package.ncas[i].id = Nca.id /\ Made(package.ncas[i], h, FALSE)
          <5>1. PICK i \in Ncas : /\ package.ncas[i].id = Nca.id
                                 /\ Made(package.ncas[i], h, Nca.id \in misled)
            BY <4>1 DEF ContentsInv
          <5>2. Nca.id \notin misled
            BY <1>a
          <5> HIDE DEF h
          <5>3. Made(package.ncas[i], h, FALSE)
            BY <5>1, <5>2 DEF Made
          <5> QED BY <5>1, <5>3
        <4>4. i = at /\ package.ncas[i] = Nca
          BY <1>2, <4>1, <4>3, PackageParts DEF Nca
        <4>5. NeedsTicket(h) => h.rights = Nca.header.rights
          BY <4>3, <4>4 DEF Made, NeedsTicket
        <4> HIDE DEF h
        <4>6. NeedsTicket(h) => HasTik(h)
          BY <1>2, <4>2, <4>4, <4>5, SoundTik DEF Sound
        <4>7. at = 1 => Opens(Nca, h)
          BY <4>3, <4>4, SoundMounts DEF Sound
        <4>8. TicketChecks(h) \in Seq(CheckType) /\ AllOk(TicketChecks(h))
          BY <4>6, TicketChecked
        <4> QED BY <2>2, <4>7, <4>8, ThenMounted
      <3> HIDE DEF result
      <3> QED BY <1>1, <3>1, <3>2, EndIsSound
    <2> QED BY <2>1, <2>2
  <1>9. ASSUME NEW spl \in BOOLEAN, InstallNca(spl) PROVE SoundInv'
    <2> DEFINE n == package.ncas[at]
               new == NewHeader(n.header, spl)
               checks == HeaderChecks(n.header, spl) \o HashChecks(n)
               result == FirstError(checks \o MountChecks(new))
               e == [skipped |-> FALSE, header |-> new, misled |-> Misleads(n.header, spl)]
    <2>1. phase = "ncas" /\ at \in Ncas
      BY <1>2, <1>9, PackageParts DEF KeysInv, JobInv, InstallNca, MoreNcas, Ncas
    <2>2. TiksAreThere(1) /\ keys = ParseKeys(keyFile)
      BY <2>1 DEF KeysInv, JobInv, From, SoundInv, InInstall
    <2>3. Sound => ~Misleads(n.header, spl)
      BY <1>2, <2>1, <2>2, SoundIsNotMisled DEF Sound
    <2>4. CASE result = "ok"
      <3>1. UNCHANGED <<phase, keys, rc, misled>> /\ ncas' = Append(ncas, e)
        BY <1>9, <2>4 DEF InstallNca, Nca, consoleVars
      <3>2. Sound => ~e.misled
        BY <2>3
      <3> HIDE DEF e
      <3> QED BY <1>4, <1>a, <1>b, <2>1, <3>1, <3>2 DEF InInstall
    <2>5. CASE result # "ok"
      <3>1. End(result) /\ misled' = misled
        BY <1>9, <2>5 DEF InstallNca, Nca, consoleVars
      <3>2. n \in NcaType
        BY <1>2, <2>1, PackageParts
      <3>3. HasTik(n.header) => tiks[TikFor(n.header)].ticket \in TicketType
        <4> DEFINE k == TikFor(n.header)
        <4> SUFFICES ASSUME HasTik(n.header) PROVE tiks[k].ticket \in TicketType
          OBVIOUS
        <4>1. k \in Tickets
          <5> HIDE DEF n
          <5> QED BY <1>2, <2>2, TikFound
        <4> HIDE DEF k, n
        <4>2. 1 <= k
          BY <1>2, <4>1, PackageParts DEF Tickets
        <4>3. tiks[k].ticket = package.tickets[k].ticket
          BY <2>2, <4>1, <4>2 DEF TiksAreThere
        <4> QED BY <1>2, <4>1, <4>3, PackageParts
      <3>4. ~Sound
        <4> SUFFICES ASSUME Sound PROVE FALSE
          OBVIOUS
        <4>1. NcaIsTaken(n, spl)
          BY <1>2, <2>1, <2>2, SoundNca
        <4>2. Made(n, new, FALSE)
          <5>1. Made(n, new, Misleads(n.header, spl))
            BY <1>2, <2>1, <2>2, <4>1, NcaIsMade
          <5> HIDE DEF n, new
          <5> QED BY <2>3, <5>1 DEF Made
        <4>3. at = 1 => Opens(Nca, new)
          <5>1. n = Nca
            BY DEF Nca
          <5> HIDE DEF n, new
          <5> QED BY <4>2, <5>1, SoundMounts DEF Sound
        <4>4. checks \in Seq(CheckType) /\ AllOk(checks)
          <5> HIDE DEF n
          <5> QED BY <3>2, <3>3, <4>1, NcaChecked
        <4> HIDE DEF n, new, checks
        <4> QED BY <2>5, <4>3, <4>4, ThenMounted
      <3> HIDE DEF result
      <3> QED BY <1>1, <3>1, <3>4, EndIsSound
    <2> QED BY <2>4, <2>5
  <1>10. CASE NcasDone
    BY <1>4, <1>10, <1>a DEF NcasDone, InInstall, consoleVars
  <1>11. CASE ImportTicket
    <2> DEFINE t == tiks[at].ticket
               result == FirstError(PatchChecks(t))
    <2>1. CASE ~tiks[at].required \/ result = "ok"
      <3>1. UNCHANGED <<phase, keys, rc, ncas, misled>>
        BY <1>11, <2>1 DEF ImportTicket
      <3> QED BY <1>4, <1>a, <3>1 DEF InInstall
    <2>2. CASE tiks[at].required /\ result # "ok"
      <3>1. End(result) /\ misled' = misled
        BY <1>11, <2>2 DEF ImportTicket
      <3>2. phase = "tickets" /\ From = at /\ at <= Len(tiks)
        BY <1>11 DEF ImportTicket, From
      <3>3. TiksAreThere(at) /\ at \in Nat \ {0} /\ keys = ParseKeys(keyFile)
        BY <3>2 DEF KeysInv, JobInv, SoundInv, InInstall
      <3>4. at \in Tickets /\ at <= at /\ t = package.tickets[at].ticket
        <4>1. at \in Tickets /\ at <= at
          BY <1>2, <3>2, <3>3, PackageParts DEF TiksAreThere, Tickets
        <4> QED BY <3>3, <4>1 DEF TiksAreThere
      <3>5. ~Sound
        <4> SUFFICES ASSUME Sound PROVE result = "ok"
          BY <2>2
        <4>1. keys.deviceOpen
          BY <1>2, <3>3, ValueIsRight DEF Sound, SoundKeyFile, ParseKeys
        <4>2. /\ t \in TicketType /\ AllOk(TicketDataChecks(t))
              /\ t.cert \in {"Rsa4096", "Rsa2048", "Ecc480"} /\ DeviceFits(t)
          BY <1>2, <3>4, <4>1, SoundTicket DEF Sound
        <4> HIDE DEF t
        <4> QED BY <4>2, PatchChecked, FirstErrorIsOk
      <3> HIDE DEF result
      <3> QED BY <1>1, <3>1, <3>5, EndIsSound
    <2> QED BY <2>1, <2>2
  <1>12. CASE TicketsDone
    BY <1>4, <1>12, <1>a DEF TicketsDone, InInstall
  <1>13. CASE RegisterNca
    <2>1. UNCHANGED <<phase, keys, rc, ncas>> /\ phase = "register" /\ at <= Len(ncas)
      BY <1>13 DEF RegisterNca
    <2>2. at \in 1 .. Len(ncas)
      BY <2>1 DEF KeysInv, JobInv, NcasInv, IsList
    <2>3. misled' \in {misled, misled \cup {package.ncas[at].id}, misled \ {package.ncas[at].id}}
            /\ (~ncas[at].misled => misled' \subseteq misled)
      BY <1>13 DEF RegisterNca
    <2>4. Sound => misled' = {}
      BY <1>a, <2>2, <2>3
    <2> QED BY <1>4, <1>a, <2>1, <2>4 DEF InInstall
  <1>14. CASE Success
    BY <1>1, <1>14, EndIsSound DEF Success
  <1>15. CASE Interrupt
    BY <1>1, <1>15, EndIsSound DEF Interrupt, consoleVars
  <1>16. CASE UNCHANGED keyVars
    BY <1>4, <1>16, <1>a DEF keyVars, consoleVars, InInstall
  <1> QED BY <1>5, <1>6, <1>7, <1>8, <1>9, <1>10, <1>11, <1>12, <1>13, <1>14, <1>15, <1>16 DEF KeysNext

\* A sound package with sound keys is never refused.
THEOREM SoundIsInstalledAlways ==
    ASSUME PackagesFit, KeyFiles \subseteq Seq(LineType)
    PROVE  KeysSpec => []SoundIsInstalled
  <1>1. KeysInit => KeysInv /\ SoundInv
    <2>1. KeysInit => SoundInv
      <3>1. KeysInit => Len(ncas) = 0 /\ misled = {}
        BY DEF KeysInit
      <3> QED BY <3>1 DEF KeysInit, SoundInv, SoundIsInstalled, InInstall
    <2> QED BY <2>1, KeysInvInitially
  <1>2. KeysInv /\ SoundInv /\ [KeysNext]_keyVars => (KeysInv /\ SoundInv)'
    BY KeysInvInductive, SoundInvInductive
  <1>3. SoundInv => SoundIsInstalled
    BY DEF SoundInv
  <1> QED BY <1>1, <1>2, <1>3, PTL DEF KeysSpec
=============================================================================
