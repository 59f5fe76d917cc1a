------------------------------ MODULE TitleKeys ------------------------------
(***************************************************************************)
(* The keys of a title, from prod.keys to the console: what an install     *)
(* does to the header of each NCA (decompressFuncInternal of yati.cpp,     *)
(* nca.cpp, nca.hpp), which tickets it needs, patches and imports (es.cpp) *)
(* and which keys it has for that (keys.cpp, keys.hpp).                    *)
(*                                                                         *)
(* A cipher is a term: a key under layers, of which a decryption takes the *)
(* last one away if it is for the same key, and adds another if it is not. *)
(* Of the four slots of a key area only the one that encrypts the sections *)
(* is kept.  Content is registered one by one, and an install may be cut   *)
(* short anywhere, as in NcmInstall, so that a later one finds some of it. *)
(* External: spl has the keys up to the firmware's generation; when it     *)
(* gives none, be it that it is too old or that the call fails, the file's *)
(* key is used.                                                            *)
(***************************************************************************)
EXTENDS Integers, Sequences

CONSTANTS
    Packages,          \* what is installed: NCAs and tickets
    Overrides,         \* the configurations Setup may come to
    KeyFiles,          \* the lines of prod.keys
    Firmware,          \* the highest generation the console has keys for
    DeviceId,          \* of the console
    DeviceGeneration,  \* of its eticket device key
    MaxInstalls        \* how often the package is installed (bounds the run)

ASSUME KeysAssumption ==
    /\ {Firmware, DeviceId, DeviceGeneration, MaxInstalls} \subseteq Nat
    /\ \A p \in Packages : Len(p.ncas) > 0

VARIABLES
    package, keyFile,  \* chosen once
    installs,          \* number of installs begun
    phase,             \* "idle", "setup", "ncas", "tickets" or "register"
    mode,              \* "file" or "stream"
    config,            \* Config
    keys,              \* Keys: the keys found, and whether the device key is open
    at,                \* the next NCA, ticket or content
    tiks,              \* TikCollections
    ncas,              \* NcaCollections so far: skipped, the header written, and
                       \* whether a wrong key of prod.keys went into it (observed)
    contents,          \* on the console: the header of each content
    es,                \* on the console: the ticket of each rights id
    imported,          \* rights ids whose ticket this install has imported
    titled,            \* on the console: the title is in the content meta database
    lowered,           \* contents written with lower_master_key (observed)
    misled,            \* contents a wrong key of prod.keys went into (observed)
    rc                 \* the Result of the last install

fixedVars == <<package, keyFile>>
consoleVars == <<contents, es, titled, imported, lowered, misled>>
keyVars == <<fixedVars, installs, phase, mode, config, keys, at, tiks, ncas, consoleVars, rc>>

NoKeys == [found |-> {}, deviceOpen |-> FALSE]
NoConfig == [skipHash |-> TRUE, skipFixedKey |-> TRUE, ignoreBit |-> FALSE,
             common |-> FALSE, standard |-> FALSE, lower |-> FALSE]

KeysInit ==
    /\ package \in Packages /\ keyFile \in KeyFiles
    /\ installs = 0 /\ phase = "idle" /\ mode = "none"
    /\ config = NoConfig /\ keys = NoKeys
    /\ at = 1 /\ tiks = <<>> /\ ncas = <<>>
    /\ contents = <<>> /\ es = <<>> /\ titled = FALSE /\ imported = {}
    /\ lowered = {} /\ misled = {}
    /\ rc = "none"

-----------------------------------------------------------------------------
(* Ciphers *)

Plain(name) == [plain |-> name, layers |-> <<>>]

\* cryptoAes128, splCryptoGenerateAesKey and rsa2048OaepDecrypt: op is "enc"
\* or "dec".
Crypt(v, op, key) ==
    LET n == Len(v.layers) IN
    IF n > 0 /\ v.layers[n].key = key /\ v.layers[n].op # op
      THEN [v EXCEPT !.layers = SubSeq(@, 1, n - 1)]
      ELSE [v EXCEPT !.layers = Append(@, [op |-> op, key |-> key])]

\* The right key of a place, and whatever else stands there in prod.keys.
KeyOf(section, index) == [section |-> section, index |-> index, right |-> TRUE]
Section(kaek) == <<"application", "ocean", "system">>[kaek + 1]

\* The master key of a generation, as the console counts: 0 and 1 share one.
MasterKey(generation) == IF generation <= 1 THEN 0 ELSE generation - 1

\* What is stored under x replaces what was there.
Stored(f, x, v) == [y \in DOMAIN f \cup {x} |-> IF y = x THEN v ELSE f[y]]

\* A R_TRY or R_UNLESS, and the Result of a list of them: the first that fails.
Check(ok, error) == [ok |-> ok, rc |-> error]
FirstError(checks) ==
    LET bad == {i \in DOMAIN checks : ~checks[i].ok} IN
    IF bad = {} THEN "ok" ELSE checks[CHOOSE i \in bad : \A j \in bad : i <= j].rc

-----------------------------------------------------------------------------
(* keys.cpp, keys.hpp *)

\* The value the last line of that name and index gives; an entry of zeros is
\* as good as none.
ValueOf(lines, name, index) ==
    LET hits == {i \in DOMAIN lines : lines[i].name = name /\ lines[i].index = index} IN
    IF hits = {} THEN "zero" ELSE lines[CHOOSE i \in hits : \A j \in hits : j <= i].value

Sections == {"application", "ocean", "system", "titlekek", "master"}
KeySectionSize == 32

EticketKek == IF DeviceGeneration # 0 THEN "eticket_rsa_kek_personalized" ELSE "eticket_rsa_kek"

KeysIn(lines, size) ==
    {[section |-> lines[i].name, index |-> lines[i].index,
      right |-> ValueOf(lines, lines[i].name, lines[i].index) = "right"] :
        i \in {j \in DOMAIN lines : /\ lines[j].name \in Sections /\ lines[j].index < size
                                   /\ ValueOf(lines, lines[j].name, lines[j].index) # "zero"}}

\* Seeded fault: the last place of a section is not used.
ParseKeysShort(lines) ==
    [found |-> KeysIn(lines, KeySectionSize - 1), deviceOpen |-> ValueOf(lines, EticketKek, 0) = "right"]

\* parse_keys, the part that reads the file: any value is taken that is not zero.
ParseKeys(lines) ==
    [found |-> KeysIn(lines, KeySectionSize), deviceOpen |-> ValueOf(lines, EticketKek, 0) = "right"]

\* The device key is decrypted if there is a kek for it; a wrong kek shows in
\* the public exponent.
ParseKeysResult(lines) ==
    FirstError(<<Check(ValueOf(lines, EticketKek, 0) # "wrong", "KeyFailedDecyptETicketDeviceKey")>>)

\* Seeded fault: generations are places.
FixKeyNot(key) == key

FixKey(key) == IF key # 0 THEN key - 1 ELSE key

HasKeyOf(section, index) == \E key \in keys.found : key.section = section /\ key.index = index
HasNcaKeyArea(generation, kaek) == HasKeyOf(Section(kaek), FixKey(generation))
HasTitleKek(generation) == HasKeyOf("titlekek", FixKey(generation))

\* GetNcaKeyArea, GetTitleKek: what stands there, right or wrong.
FileKey(section, index) ==
    LET key == KeyOf(section, index) IN
    IF key \in keys.found THEN key ELSE [key EXCEPT !.right = FALSE]
GetNcaKeyArea(generation, kaek) == FileKey(Section(kaek), FixKey(generation))
GetTitleKek(generation) == FileKey("titlekek", FixKey(generation))

-----------------------------------------------------------------------------
(* es.cpp *)

SigTypes == {"Rsa4096Sha1", "Rsa2048Sha1", "Ecc480Sha1", "Rsa4096Sha256", "Rsa2048Sha256",
             "Ecc480Sha256", "Hmac160Sha1"}

\* GetTicketDataOffset, GetTicketData
TicketDataChecks(t) ==
    << Check(t.sigType \in SigTypes, "EsBadTitleKeyType"),
       Check(t.whole, "EsBadTicketSize"),
       Check(t.version = 2, "EsInvalidTicketFromatVersion"),
       Check(t.kind \in {"common", "personalised"}, "EsInvalidTicketKeyType"),
       Check(t.revision <= 32, "EsInvalidTicketKeyRevision") >>

\* GetTitleKey: a personalised block is for the device it names.
TitleKeyChecks(t) ==
    IF t.kind # "personalised" THEN <<>>
    ELSE << Check(keys.deviceOpen /\ t.device = DeviceId, "EsPersonalisedTicketDeviceIdMissmatch"),
            Check(t.block.layers[Len(t.block.layers)].key = KeyOf("device", DeviceId),
                  "EsFailedDecryptPersonalisedTicket") >>
TitleKey(t) ==
    IF t.kind = "personalised" THEN Crypt(t.block, "dec", KeyOf("device", DeviceId)) ELSE t.block

\* ShouldPatchTicket: a common ticket if it has an RSA-2048 signature that does
\* not hold, a personalised one if it shall be common.
LooksAtCert(t) == t.kind = "common" /\ t.sigType = "Rsa2048Sha256"
ShouldPatchChecks(t) ==
    IF LooksAtCert(t) THEN <<Check(t.cert \in {"Rsa4096", "Rsa2048", "Ecc480"}, "EsBadTitleKeyType")>>
    ELSE <<>>
ShouldPatch(t) ==
    IF t.kind = "personalised" THEN config.common
    ELSE LooksAtCert(t) /\ t.cert # "Ecc480" /\ ~t.signed

PatchChecks(t) ==
    TicketDataChecks(t) \o ShouldPatchChecks(t)
        \o (IF ShouldPatch(t) THEN TitleKeyChecks(t) ELSE <<>>)

\* PatchTicket: a common ticket with the title key still under its titlekek.
PatchTicket(t, keyGen) ==
    IF ~ShouldPatch(t) THEN t
    ELSE [t EXCEPT !.kind = "common", !.sigType = "Rsa2048Sha256", !.signed = FALSE, !.device = 0,
                   !.block = TitleKey(t), !.revision = keyGen]

-----------------------------------------------------------------------------
(* nca.cpp, nca.hpp *)

GetKeyGeneration(h) == IF h.oldKeyGen < h.keyGen THEN h.keyGen ELSE h.oldKeyGen

\* Seeded fault: the old field keeps the generation too.
SetOldKeyGeneration(h, generation) == [h EXCEPT !.oldKeyGen = 2, !.keyGen = generation]

SetKeyGeneration(h, generation) ==
    IF generation <= 2 THEN [h EXCEPT !.oldKeyGen = generation, !.keyGen = 0]
                       ELSE [h EXCEPT !.oldKeyGen = 2, !.keyGen = generation]

\* DecryptKeak: with spl, if it gives the key, or else with the file's.
SplGives(h, spl) == spl /\ GetKeyGeneration(h) <= Firmware
DecryptKeakChecks(h, spl) ==
    <<Check(SplGives(h, spl) \/ HasNcaKeyArea(GetKeyGeneration(h), h.kaek), "KeyMissingNcaKeyArea")>>
DecryptKeak(h, spl) ==
    LET g == GetKeyGeneration(h) IN
    Crypt(h.keyArea, "dec", IF SplGives(h, spl) THEN KeyOf(Section(h.kaek), MasterKey(g))
                                                ELSE GetNcaKeyArea(g, h.kaek))

EncryptKeakChecks(h, generation) ==
    <<Check(HasNcaKeyArea(generation, h.kaek), "KeyMissingNcaKeyArea")>>
EncryptKeak(h, key, generation) ==
    [SetKeyGeneration(h, generation) EXCEPT !.keyArea = Crypt(key, "enc", GetNcaKeyArea(generation, h.kaek))]

\* VerifyFixedKey: the signature may be that of the other distribution type.
FixedKeyChecks(h) ==
    << Check(h.sigKeyGen < 2, "NcaBadSigKeyGen"),
       Check(h.sig \in {"good", "otherDistribution"}, "NcaFailedNcaHeaderHashVerify") >>

-----------------------------------------------------------------------------
(* The header of an NCA (decompressFuncInternal) *)

NeedsTicket(h) == h.rights # "none"
TiksFor(h) == {i \in DOMAIN tiks : NeedsTicket(h) /\ tiks[i].rights = h.rights}
HasTik(h) == TiksFor(h) # {}
TikFor(h) == CHOOSE i \in TiksFor(h) : \A j \in TiksFor(h) : i <= j

\* GetTicketCollection
Require(h) ==
    IF HasTik(h) THEN [tiks EXCEPT ![TikFor(h)].required = TRUE, ![TikFor(h)].keyGen = h.keyGen]
                 ELSE tiks

TicketChecks(h) == <<Check(NeedsTicket(h) => HasTik(h), "TicketNotFound")>>

Converts(h) == (config.standard /\ HasTik(h)) \/ config.lower
KeakGeneration(h) == IF config.lower THEN 0 ELSE h.keyGen

\* What has to be there to find the key the sections are encrypted with.
ConvertChecks(h, spl) ==
    (IF HasTik(h)
       THEN LET t == tiks[TikFor(h)].ticket IN
            TicketDataChecks(t) \o <<Check(t.rights = h.rights, "InvalidTicketBadRightsId")>>
              \o TitleKeyChecks(t) \o <<Check(HasTitleKek(h.keyGen), "KeyMissingTitleKek")>>
       ELSE DecryptKeakChecks(h, spl))
    \o EncryptKeakChecks(h, KeakGeneration(h))

SectionKey(h, spl) ==
    IF HasTik(h) THEN Crypt(TitleKey(tiks[TikFor(h)].ticket), "dec", GetTitleKek(h.keyGen))
                 ELSE DecryptKeak(h, spl)

\* The keys of the file that a conversion uses.
FileKeys(h, spl) ==
    {GetNcaKeyArea(KeakGeneration(h), h.kaek)}
      \cup (IF HasTik(h) THEN {GetTitleKek(h.keyGen)}
            ELSE IF SplGives(h, spl) THEN {} ELSE {GetNcaKeyArea(GetKeyGeneration(h), h.kaek)})
Misleads(h, spl) == Converts(h) /\ \E key \in FileKeys(h, spl) : ~key.right

\* A GameCard NCA becomes a System NCA.
Redistributed(h) == IF config.ignoreBit THEN h ELSE [h EXCEPT !.gameCard = FALSE]

NewHeader(h, spl) ==
    IF Converts(h)
      THEN [EncryptKeak(Redistributed(h), SectionKey(h, spl), KeakGeneration(h)) EXCEPT !.rights = "none"]
      ELSE Redistributed(h)

Modified(h) == Converts(h) \/ (~config.ignoreBit /\ h.gameCard)

HeaderChecks(h, spl) ==
    <<Check(h.magic = "NCA3", "InvalidNcaMagic")>>
      \o (IF config.skipFixedKey THEN <<>> ELSE FixedKeyChecks(h))
      \o TicketChecks(h) \o (IF Converts(h) THEN ConvertChecks(h, spl) ELSE <<>>)

\* The hash is only looked at where the NCA was left as it is.
HashChecks(nca) ==
    <<Check(config.skipHash \/ Modified(nca.header) \/ nca.intact, "InvalidNcaSha256")>>

\* Seeded fault: a converted NCA still wants its ticket.
RequireAlways(h) == Require(h)

\* The tickets after the header was handled: a converted NCA needs none.
TiksAfter(h) ==
    IF Converts(h) /\ HasTik(h) THEN [Require(h) EXCEPT ![TikFor(h)].required = FALSE] ELSE Require(h)

-----------------------------------------------------------------------------
(* What the console makes of it *)

\* The title key that es takes from a ticket, if it is for this console.
EsTitleKey(t) == Crypt(TitleKey(t), "dec", KeyOf("titlekek", MasterKey(t.revision)))

KeyAreaKey(h) == Crypt(h.keyArea, "dec", KeyOf(Section(h.kaek), MasterKey(GetKeyGeneration(h))))

\* The key with which the sections of a content are decrypted.
ConsoleKey(h) == IF NeedsTicket(h) THEN EsTitleKey(es[h.rights]) ELSE KeyAreaKey(h)

\* A content with the header h can be opened, and is what it was made of.
Opens(n, h) == (NeedsTicket(h) => h.rights \in DOMAIN es) /\ ConsoleKey(h) = Plain(n.key)
HasKey(id) ==
    \A i \in DOMAIN package.ncas : package.ncas[i].id = id => Opens(package.ncas[i], contents[id])

-----------------------------------------------------------------------------
(* An install *)

\* The config of Setup; a stream changes three parts of it.
Begin(override, m) ==
    /\ phase = "idle" /\ installs < MaxInstalls
    /\ installs' = installs + 1
    /\ phase' = "setup" /\ mode' = m
    /\ config' = IF m = "stream" THEN [override EXCEPT !.standard = FALSE, !.lower = FALSE]
                                 ELSE override
    /\ keys' = NoKeys /\ at' = 1 /\ ncas' = <<>> /\ imported' = {} /\ rc' = "none"
    /\ tiks' = [i \in DOMAIN package.tickets |->
                  [rights |-> package.tickets[i].name, ticket |-> package.tickets[i].ticket,
                   required |-> FALSE, patched |-> FALSE, keyGen |-> 0]]
    /\ UNCHANGED <<fixedVars, contents, es, titled, lowered, misled>>

End(result) ==
    /\ phase' = "idle" /\ rc' = result
    /\ mode' = "none" /\ config' = NoConfig /\ keys' = NoKeys
    /\ at' = 1 /\ tiks' = <<>> /\ ncas' = <<>>

Setup ==
    /\ phase = "setup"
    /\ LET result == ParseKeysResult(keyFile) IN
       IF result # "ok"
         THEN End(result)
         ELSE /\ keys' = ParseKeys(keyFile)
              /\ phase' = "ncas"
              /\ UNCHANGED <<mode, config, at, tiks, ncas, rc>>
    /\ UNCHANGED <<fixedVars, installs, consoleVars>>

Nca == package.ncas[at]
MoreNcas == phase = "ncas" /\ at <= Len(package.ncas)

\* ShouldSkip, once the cnmt NCA, which comes first, is there: a stream does not
\* skip what is installed.
SkipsTitle == phase = "ncas" /\ at = 2 /\ mode = "file" /\ titled

SkipTitle ==
    /\ SkipsTitle
    /\ End("ok")
    /\ UNCHANGED <<fixedVars, installs, consoleVars>>

\* ParseCnmt mounts the cnmt NCA, which comes first, as soon as it is written.
\* (That the console is too old for its generation is an Interrupt.)
MountChecks(h) == <<Check(at = 1 => Opens(Nca, h), "FsFailedToMount")>>

\* The NCA is on the console: its header there says what ticket it needs.
SkipNca ==
    /\ MoreNcas /\ ~SkipsTitle /\ mode = "file" /\ Nca.id \in DOMAIN contents
    /\ LET h == contents[Nca.id]
           result == FirstError(TicketChecks(h) \o MountChecks(h))
       IN IF result # "ok"
            THEN End(result)
            ELSE /\ tiks' = Require(h)
                 /\ ncas' = Append(ncas, [skipped |-> TRUE, header |-> h, misled |-> Nca.id \in misled])
                 /\ at' = at + 1
                 /\ UNCHANGED <<phase, mode, config, keys, rc>>
    /\ UNCHANGED <<fixedVars, installs, consoleVars>>

InstallNca(spl) ==
    /\ MoreNcas /\ ~SkipsTitle /\ ~(mode = "file" /\ Nca.id \in DOMAIN contents)
    /\ LET h == Nca.header
           new == NewHeader(h, spl)
           result == FirstError(HeaderChecks(h, spl) \o HashChecks(Nca) \o MountChecks(new))
       IN IF result # "ok"
            THEN End(result)
            ELSE /\ tiks' = TiksAfter(h)
                 /\ ncas' = Append(ncas, [skipped |-> FALSE, header |-> new, misled |-> Misleads(h, spl)])
                 /\ at' = at + 1
                 /\ UNCHANGED <<phase, mode, config, keys, rc>>
    /\ UNCHANGED <<fixedVars, installs, consoleVars>>

NcasDone ==
    /\ phase = "ncas" /\ at > Len(package.ncas) /\ ~SkipsTitle
    /\ phase' = "tickets" /\ at' = 1
    /\ UNCHANGED <<fixedVars, installs, mode, config, keys, tiks, ncas, consoleVars, rc>>

\* ImportTickets, one ticket: patch it once, import it.  (skip_ticket and
\* ticket_only are never set.)
ImportTicket ==
    /\ phase = "tickets" /\ at <= Len(tiks)
    /\ LET tik == tiks[at]
           result == FirstError(PatchChecks(tik.ticket))
           ticket == PatchTicket(tik.ticket, tik.keyGen)
       IN IF ~tik.required
            THEN at' = at + 1 /\ UNCHANGED <<phase, mode, config, keys, tiks, ncas, es, imported, rc>>
          ELSE IF result # "ok"
            THEN End(result) /\ UNCHANGED <<es, imported>>
          ELSE /\ es' = Stored(es, ticket.rights, ticket)
               /\ imported' = imported \cup {ticket.rights}
               /\ tiks' = [tiks EXCEPT ![at].ticket = ticket, ![at].patched = TRUE,
                                       ![at].required = FALSE]
               /\ at' = at + 1
               /\ UNCHANGED <<phase, mode, config, keys, ncas, rc>>
    /\ UNCHANGED <<fixedVars, installs, contents, titled, lowered, misled>>

\* RemoveInstalledNcas: the title goes, if it is there, with its contents.
\* (A title that is there has no skipped NCA here, or it were skipped itself.)
TicketsDone ==
    /\ phase = "tickets" /\ at > Len(tiks)
    /\ phase' = "register" /\ at' = 1
    /\ titled' = FALSE
    /\ contents' = IF titled THEN <<>> ELSE contents
    /\ lowered' = IF titled THEN {} ELSE lowered
    /\ misled' = IF titled THEN {} ELSE misled
    /\ UNCHANGED <<fixedVars, installs, mode, config, keys, tiks, ncas, es, imported, rc>>

\* RegisterNcasAndPushRecord, one content.
RegisterNca ==
    /\ phase = "register" /\ at <= Len(ncas)
    /\ LET id == package.ncas[at].id IN
       IF ncas[at].skipped
         THEN UNCHANGED <<contents, lowered, misled>>
         ELSE /\ contents' = Stored(contents, id, ncas[at].header)
              /\ lowered' = IF config.lower THEN lowered \cup {id} ELSE lowered \ {id}
              /\ misled' = IF ncas[at].misled THEN misled \cup {id} ELSE misled \ {id}
    /\ at' = at + 1
    /\ UNCHANGED <<fixedVars, installs, phase, mode, config, keys, tiks, ncas, es, titled, imported, rc>>

Success ==
    /\ phase = "register" /\ at > Len(ncas)
    /\ End("ok")
    /\ titled' = TRUE
    /\ UNCHANGED <<fixedVars, installs, contents, es, imported, lowered, misled>>

\* A call fails, the source ends or the console loses power.
Interrupt ==
    /\ phase \in {"ncas", "tickets", "register"}
    /\ End("interrupted")
    /\ UNCHANGED <<fixedVars, installs, consoleVars>>

KeysNext ==
    \/ \E override \in Overrides, m \in {"file", "stream"} : Begin(override, m)
    \/ \E spl \in BOOLEAN : InstallNca(spl)
    \/ Setup \/ SkipTitle \/ SkipNca \/ NcasDone \/ ImportTicket \/ TicketsDone
    \/ RegisterNca \/ Success \/ Interrupt

KeysSpec == KeysInit /\ [][KeysNext]_keyVars

\* A ticket for another console.
Foreign(t) == t.kind = "personalised" /\ t.device # DeviceId

-----------------------------------------------------------------------------
(* What the theorems assume of the packages *)

KeyType == [section : Sections \cup {"device"}, index : Nat, right : BOOLEAN]
Terms == [plain : STRING, layers : Seq([op : {"enc", "dec"}, key : KeyType])]
HeaderType ==
    [magic : STRING, gameCard : BOOLEAN, kaek : 0 .. 2, rights : STRING, oldKeyGen : Nat, keyGen : Nat,
     keyArea : Terms, sig : {"good", "otherDistribution", "bad"}, sigKeyGen : Nat]
NcaType == [id : STRING, key : STRING, intact : BOOLEAN, header : HeaderType]
TicketType ==
    [rights : STRING, kind : {"common", "personalised", "other"}, revision : Nat, device : Nat,
     version : Nat, whole : BOOLEAN, sigType : SigTypes \cup {"other"}, signed : BOOLEAN,
     cert : {"Rsa4096", "Rsa2048", "Ecc480", "none"}, block : Terms]
PackageType == [ncas : Seq(NcaType), tickets : Seq([name : STRING, ticket : TicketType])]
LineType == [name : STRING, index : Nat, value : {"right", "wrong", "zero"}]

\* The generation stands in the old field up to 2, and in the new one from 3.
\* (2 with a ticket is what title_keys_300 is about.)
GenerationInForm(h) ==
    /\ \/ h.oldKeyGen <= 2 /\ h.keyGen = 0
       \/ h.oldKeyGen = 2 /\ h.keyGen \in 3 .. KeySectionSize
    /\ NeedsTicket(h) => GetKeyGeneration(h) # 2

\* The key area of an NCA has the key of its sections, under the master key of
\* its generation.
NcaFits(n) ==
    /\ GenerationInForm(n.header)
    /\ ~NeedsTicket(n.header) => KeyAreaKey(n.header) = Plain(n.key)

\* A file is named after the rights id of its ticket; a personalised ticket
\* is encrypted for the device it names.
TicketFits(tik) ==
    /\ tik.ticket.rights = tik.name /\ tik.name # "none"
    /\ tik.ticket.kind = "personalised" =>
         tik.ticket.block.layers[Len(tik.ticket.block.layers)].key = KeyOf("device", tik.ticket.device)

\* A ticket is of the generation of the NCAs it is for, and has their key.
KeyFits(n, tik) ==
    NeedsTicket(n.header) /\ n.header.rights = tik.name =>
      /\ MasterKey(tik.ticket.revision) = MasterKey(GetKeyGeneration(n.header))
      /\ ~Foreign(tik.ticket) => EsTitleKey(tik.ticket) = Plain(n.key)

\* What is sold can be decrypted as it is, though its tickets may be missing,
\* damaged or for another console, and its NCAs damaged.
Fits(p) ==
    /\ p \in PackageType
    /\ \A i, j \in DOMAIN p.ncas : p.ncas[i].id = p.ncas[j].id => i = j
    /\ \A i \in DOMAIN p.ncas : NcaFits(p.ncas[i])
    /\ \A j \in DOMAIN p.tickets : TicketFits(p.tickets[j])
    /\ \A i \in DOMAIN p.ncas : \A j \in DOMAIN p.tickets : KeyFits(p.ncas[i], p.tickets[j])

PackagesFit == \A p \in Packages : Fits(p)

-----------------------------------------------------------------------------
(* Properties *)

ForeignRights ==
    {package.tickets[i].name : i \in {j \in DOMAIN package.tickets : Foreign(package.tickets[j].ticket)}}

\* Every content that is registered can be decrypted: its header, whatever was
\* converted, lowered or left alone, leads to the key its sections are
\* encrypted with, and the ticket it needs is there already, also after an
\* install that was cut short and one with another configuration.  Excepted are
\* a ticket for another console, which only an install that keeps it lets
\* through, and a content for whose conversion prod.keys gave a wrong key:
\* whether a key is right is looked at nowhere.
EveryContentHasItsKey ==
    \A id \in DOMAIN contents : contents[id].rights \in ForeignRights \/ id \in misled \/ HasKey(id)

\* yati.hpp:58: lower_master_key "allows the game to be launched on every fw":
\* what it has written needs the first master key and no ticket, and leads to
\* the key of its sections unless prod.keys gave a wrong one.
LaunchesOnEveryFirmware ==
    \A id \in lowered : /\ ~NeedsTicket(contents[id]) /\ MasterKey(GetKeyGeneration(contents[id])) = 0
                        /\ id \in misled \/ HasKey(id)

\* yati.hpp:54: standard crypto is "ticketless": an install imports a ticket only
\* for a content that needs it, be it one it writes or one it has found.
TicketOnlyForNeed ==
    phase = "register" => \A r \in imported : \E i \in DOMAIN ncas : ncas[i].header.rights = r

\* What may keep an install from its end: a key that is not in the file, a
\* ticket that is missing, damaged or for another console, or an NCA that is
\* not what it says.
Lines == {keyFile[i] : i \in DOMAIN keyFile}
SoundKeyFile ==
    /\ \A l \in Lines : l.value = "right"
    /\ \A h \in {package.ncas[i].header : i \in DOMAIN package.ncas} :
         \A place \in {0, MasterKey(GetKeyGeneration(h))} :
            /\ \E l \in Lines : l.name = "titlekek" /\ l.index = place
            /\ \E l \in Lines : l.name = Section(h.kaek) /\ l.index = place
    /\ \E l \in Lines : l.name = EticketKek /\ l.index = 0
SoundPackage ==
    /\ ~NeedsTicket(package.ncas[1].header)
    /\ \A i \in DOMAIN package.ncas :
         LET n == package.ncas[i] IN
         /\ n.intact /\ n.header.magic = "NCA3" /\ n.header.sig # "bad" /\ n.header.sigKeyGen < 2
         /\ NeedsTicket(n.header) => \E j \in DOMAIN package.tickets : package.tickets[j].name = n.header.rights
    /\ \A j \in DOMAIN package.tickets :
         LET t == package.tickets[j].ticket IN
         /\ FirstError(TicketDataChecks(t)) = "ok" /\ t.cert # "none"
         /\ t.rights = package.tickets[j].name /\ ~Foreign(t)

\* A sound package with a sound prod.keys is never refused, whatever the
\* configuration and whatever is on the console.
SoundIsInstalled ==
    SoundKeyFile /\ SoundPackage => rc \in {"none", "ok", "interrupted"}
=============================================================================
