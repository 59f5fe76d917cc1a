-------------------------- MODULE NcmInstallProofs --------------------------
(***************************************************************************)
(* What the install transaction keeps for every container and console, in  *)
(* both modes, over any number of installs, failed calls and power losses: *)
(* what is installed stays whole, an install that reports success has      *)
(* installed every title, tickets come before the titles that need them,   *)
(* a sound container is refused only when a call fails, and no placeholder *)
(* is left behind.  What the formats and the code say of containers and    *)
(* consoles is a hypothesis of the theorems that need it, each with a name.*)
(***************************************************************************)
EXTENDS NcmInstall, DataInduction

\* All steps of an install but its beginning, its end and its faults.
Work ==
    \/ SkipInstalled \/ CreatePlaceHolder \/ FillPlaceHolder \/ ReadTicketData
    \/ ParseCnmt \/ EntriesDone \/ Decide \/ ImportTicket \/ TicketsDone
    \/ RemoveNext \/ DeleteContent \/ RemoveKey \/ CommitRemoval \/ RemoveDone
    \/ RegisterDelete \/ RegisterMove \/ SetMeta \/ CommitMeta \/ PushRecord \/ PushLaunchVersion

-----------------------------------------------------------------------------
(* Placeholders *)

\* None of them ends the install.
LEMMA WorkGoesOn == Work => pc' # "idle"
  <1> SUFFICES ASSUME Work PROVE pc' # "idle"
    OBVIOUS
  <1>1. CASE SkipInstalled \/ CreatePlaceHolder \/ FillPlaceHolder \/ ReadTicketData
             \/ ParseCnmt \/ EntriesDone
    BY <1>1 DEF SkipInstalled, CreatePlaceHolder, FillPlaceHolder, ReadTicketData, ParseCnmt,
                EntriesDone, AfterEntry
  <1>2. CASE Decide \/ ImportTicket \/ TicketsDone
    BY <1>2 DEF Decide, ImportTicket, TicketsDone, Advance
  <1>3. CASE RemoveNext \/ DeleteContent \/ RemoveKey \/ CommitRemoval \/ RemoveDone
    BY <1>3 DEF RemoveNext, DeleteContent, RemoveKey, CommitRemoval, RemoveDone
  <1>4. CASE RegisterDelete \/ RegisterMove \/ SetMeta \/ CommitMeta \/ PushRecord
             \/ PushLaunchVersion
    BY <1>4 DEF RegisterDelete, RegisterMove, SetMeta, CommitMeta, PushRecord,
                PushLaunchVersion, Advance
  <1> QED BY <1>1, <1>2, <1>3, <1>4 DEF Work

\* An install that returns, well or badly, leaves no placeholder of its own,
\* whatever failed in it and wherever.
THEOREM PlaceholdersGone == Spec => []NoPlaceholderLeft
  <1>1. Init => NoPlaceholderLeft
    BY DEF Init, NoPlaceholderLeft
  <1>2. NoPlaceholderLeft /\ [Next]_vars => NoPlaceholderLeft'
    <2> SUFFICES ASSUME NoPlaceholderLeft, [Next]_vars PROVE NoPlaceholderLeft'
      OBVIOUS
    <2> USE DEF NoPlaceholderLeft
    <2>1. CASE Work
      BY <2>1, WorkGoesOn
    <2>2. ASSUME NEW p \in Packages, NEW m \in Modes, Begin(p, m) PROVE NoPlaceholderLeft'
      BY <2>2 DEF Begin
    <2>3. CASE Cleanup
      BY <2>3 DEF Cleanup
    <2>4. CASE CallFails
      BY <2>4 DEF CallFails
    <2>5. CASE Crash
      BY <2>5 DEF Crash
    <2>6. CASE Idle \/ UNCHANGED vars
      BY <2>6 DEF Idle, vars, device, storage, book
    <2> QED BY <2>1, <2>2, <2>3, <2>4, <2>5, <2>6 DEF Next, Work
  <1> QED BY <1>1, <1>2, PTL DEF Spec

-----------------------------------------------------------------------------
(* Patches *)

\* Both databases have an entry for each storage.
StorageMaps ==
    /\ db = [s \in Storages |-> db[s]]
    /\ disk = [s \in Storages |-> disk[s]]

\* Once the removal is done no patch of the application is left.
PatchesRemoved ==
    pc \in {"register", "move"} /\ Cnmt.key.type = "Patch" => PatchesOf(db, Cnmt.key.app) = {}

PatchInv == StorageMaps /\ PatchesRemoved /\ PatchReplacesAll

\* The new console.
LEMMA InitPatchInv == Init => PatchInv
  BY NcmAssumption DEF Init, PatchInv, StorageMaps, PatchesRemoved, PatchReplacesAll

\* What changes none of the databases and is outside the last phase keeps it.
LEMMA ElsewhereKeeps ==
    ASSUME PatchInv, UNCHANGED <<db, disk>>,
           pc' \notin {"register", "move", "commit", "push", "launch"}
    PROVE  PatchInv'
  BY DEF PatchInv, StorageMaps, PatchesRemoved, PatchReplacesAll

\* Within the last phase the cnmt and the database stay what they are.
LEMMA SamePhaseKeeps ==
    ASSUME PatchInv, UNCHANGED <<db, parsed, cur>>,
           disk' = disk \/ disk' = [disk EXCEPT ![Dest] = db[Dest]],
           pc' \in {"register", "move"} => pc \in {"register", "move"},
           pc' \in {"commit", "push", "launch"} => pc \in {"commit", "push", "launch"}
    PROVE  PatchInv'
  <1>1. StorageMaps'
    BY DEF PatchInv, StorageMaps, Storages, Dest
  <1>2. Cnmt' = Cnmt
    BY DEF Cnmt
  <1>3. \A a : PatchesOf(db, a)' = PatchesOf(db, a)
    BY DEF PatchesOf, KeysOf
  <1> QED BY <1>1, <1>2, <1>3 DEF PatchInv, PatchesRemoved, PatchReplacesAll, PatchesOf, KeysOf

\* RemoveInstalledNcas ends only when nothing is left to replace.
LEMMA RemoveDoneInv == PatchInv /\ RemoveDone => PatchInv'
  <1> SUFFICES ASSUME PatchInv, RemoveDone PROVE PatchInv'
    OBVIOUS
  <1>1. /\ pc' = "register" /\ UNCHANGED <<db, disk, parsed, cur>>
        /\ Replaced("nand") = {} /\ Replaced("sd") = {}
    BY DEF RemoveDone, Storages, device, meta, scan
  <1>2. Cnmt' = Cnmt
    BY <1>1 DEF Cnmt
  <1>3. ASSUME Cnmt.key.type = "Patch" PROVE PatchesOf(db, Cnmt.key.app) = {}
    <2>1. \A e \in db["nand"] \cup db["sd"] :
             ~(e.key.type = "Patch" /\ e.key.app = Cnmt.key.app)
      BY <1>1, <1>3 DEF Replaced
    <2> QED BY <2>1 DEF PatchesOf, KeysOf
  <1>4. StorageMaps'
    BY <1>1 DEF PatchInv, StorageMaps
  <1> QED BY <1>1, <1>2, <1>3, <1>4 DEF PatchInv, PatchesRemoved, PatchReplacesAll

\* The key that is set is the only one.
LEMMA SetMetaInv == PatchInv /\ SetMeta => PatchInv'
  <1> SUFFICES ASSUME PatchInv, SetMeta PROVE PatchInv'
    OBVIOUS
  <1>1. /\ pc = "register" /\ pc' = "commit"
        /\ db' = [db EXCEPT !["sd"] = {e \in @ : e.key # Cnmt.key} \cup {NewEntry}]
        /\ UNCHANGED <<disk, parsed, cur>>
    BY DEF SetMeta, Dest, job, scan, plan
  <1>2. Cnmt' = Cnmt
    BY <1>1 DEF Cnmt
  <1>3. StorageMaps'
    BY <1>1 DEF PatchInv, StorageMaps, Storages
  <1>4. /\ db'["nand"] = db["nand"]
        /\ db'["sd"] = {e \in db["sd"] : e.key # Cnmt.key} \cup {NewEntry}
    BY <1>1 DEF PatchInv, StorageMaps, Storages
  <1>5. NewEntry.key = Cnmt.key
    BY DEF NewEntry
  <1>6. ASSUME Cnmt.key.type = "Patch" PROVE PatchesOf(db', Cnmt.key.app) = {Cnmt.key}
    <2>1. PatchesOf(db, Cnmt.key.app) = {}
      BY <1>1, <1>6 DEF PatchInv, PatchesRemoved
    <2>2. \A e \in db["nand"] \cup db["sd"] :
             ~(e.key.type = "Patch" /\ e.key.app = Cnmt.key.app)
      BY <2>1 DEF PatchesOf, KeysOf
    <2>3. \A e \in db'["nand"] \cup db'["sd"] :
             e.key.type = "Patch" /\ e.key.app = Cnmt.key.app => e = NewEntry
      BY <1>4, <2>2
    <2>4. NewEntry \in db'["nand"] \cup db'["sd"]
      BY <1>4
    <2> QED BY <1>5, <1>6, <2>3, <2>4 DEF PatchesOf, KeysOf
  <1> QED BY <1>1, <1>2, <1>3, <1>6 DEF PatchInv, PatchesRemoved, PatchReplacesAll

\* A removal changes one database, before the last phase.
LEMMA RemovalInv == PatchInv /\ (RemoveKey \/ CommitRemoval) => PatchInv'
  <1> SUFFICES ASSUME PatchInv, RemoveKey \/ CommitRemoval PROVE PatchInv'
    OBVIOUS
  <1>1. pc' \in {"remove", "removeCommit"}
    BY DEF RemoveKey, CommitRemoval
  <1>2. \/ \E s, S : db' = [db EXCEPT ![s] = S] /\ disk' = disk
        \/ \E s, S : disk' = [disk EXCEPT ![s] = S] /\ db' = db
    BY DEF RemoveKey, CommitRemoval
  <1>3. StorageMaps'
    BY <1>2 DEF PatchInv, StorageMaps, Storages
  <1> QED BY <1>1, <1>3 DEF PatchInv, PatchesRemoved, PatchReplacesAll

\* Every step keeps it; a power loss does because the install is over.
LEMMA NextPatchInv == PatchInv /\ [Next]_vars => PatchInv'
  <1> SUFFICES ASSUME PatchInv, [Next]_vars PROVE PatchInv'
    OBVIOUS
  <1> USE DEF device, storage, meta, outside, job, scan, plan, fixed, book, vars
  <1>1. ASSUME NEW p \in Packages, NEW m \in Modes, Begin(p, m) PROVE PatchInv'
    BY <1>1, ElsewhereKeeps DEF Begin
  <1>2. CASE SkipInstalled \/ CreatePlaceHolder \/ FillPlaceHolder \/ ReadTicketData
             \/ ParseCnmt \/ EntriesDone
    BY <1>2, ElsewhereKeeps
    DEF SkipInstalled, CreatePlaceHolder, FillPlaceHolder, ReadTicketData, ParseCnmt,
        EntriesDone, AfterEntry
  <1>3. CASE Decide \/ ImportTicket \/ TicketsDone
    BY <1>3, ElsewhereKeeps DEF Decide, ImportTicket, TicketsDone, Advance
  <1>4. CASE RemoveNext \/ DeleteContent
    BY <1>4, ElsewhereKeeps DEF RemoveNext, DeleteContent
  <1>5. CASE RemoveKey \/ CommitRemoval
    BY <1>5, RemovalInv
  <1>6. CASE RemoveDone
    BY <1>6, RemoveDoneInv
  <1>7. CASE RegisterDelete \/ RegisterMove
    <2>1. CASE pc' = "fail"
      BY <1>7, <2>1, ElsewhereKeeps DEF RegisterDelete, RegisterMove
    <2>2. CASE pc' # "fail"
      BY <1>7, <2>2, SamePhaseKeeps DEF RegisterDelete, RegisterMove
    <2> QED BY <2>1, <2>2
  <1>8. CASE SetMeta
    BY <1>8, SetMetaInv
  <1>9. CASE CommitMeta
    BY <1>9, SamePhaseKeeps DEF CommitMeta
  <1>10. CASE PushRecord
    BY <1>10, SamePhaseKeeps DEF PushRecord
  <1>11. CASE PushLaunchVersion
    BY <1>11, ElsewhereKeeps DEF PushLaunchVersion, Advance
  <1>12. CASE Cleanup
    BY <1>12, ElsewhereKeeps DEF Cleanup
  <1>13. CASE CallFails
    BY <1>13, ElsewhereKeeps DEF CallFails
  <1>14. CASE Crash
    <2>1. pc' = "idle" /\ db' \in {db, disk} /\ disk' = disk
      BY <1>14 DEF Crash
    <2> QED BY <2>1 DEF PatchInv, StorageMaps, PatchesRemoved, PatchReplacesAll
  <1>15. CASE Idle \/ UNCHANGED vars
    BY <1>15, SamePhaseKeeps DEF Idle
  <1> QED
    BY <1>1, <1>2, <1>3, <1>4, <1>5, <1>6, <1>7, <1>8, <1>9, <1>10, <1>11, <1>12,
       <1>13, <1>14, <1>15
    DEF Next

\* From the moment its key is set a patch is the only one of its application.
THEOREM PatchIsTheOnlyOne == Spec => []PatchReplacesAll
  <1>1. PatchInv => PatchReplacesAll
    BY DEF PatchInv
  <1> QED BY <1>1, InitPatchInv, NextPatchInv, PTL DEF Spec

-----------------------------------------------------------------------------
(* Sequences filtered and sorted *)

Unrepeated(s) == \A i, j \in 1 .. Len(s) : s[i] = s[j] => i = j

\* Kept is what its recursive definition says.
LEMMA KeptUnfolds ==
    ASSUME NEW T, NEW s \in Seq(T), NEW S
    PROVE  \E g : /\ g[0] = <<>> /\ Kept(s, S) = g[Len(s)]
                  /\ \A i \in 0 .. Len(s) - 1 :
                       g[i + 1] = IF s[i + 1] \in S THEN Append(g[i], s[i + 1]) ELSE g[i]
  <1> DEFINE n == Len(s)
             Keeps(g, m) == /\ g = [i \in 0 .. m |-> g[i]] /\ g[0] = <<>>
                            /\ \A i \in 0 .. m - 1 : g[i + 1] = (IF s[i + 1] \in S THEN Append(g[i], s[i + 1]) ELSE g[i])
             R(g) == g = [i \in 0 .. n |-> IF i = 0 THEN <<>> ELSE (IF s[i] \in S THEN Append(g[i - 1], s[i]) ELSE g[i - 1])]
             kept == CHOOSE g : R(g)
             Q == {m \in Nat : \E g : Keeps(g, m)}
  <1>0. n \in Nat
    OBVIOUS
  <1> HIDE DEF n
  <1>1. 0 \in Q
    <2> DEFINE g == [i \in 0 .. 0 |-> <<>>]
    <2>1. Keeps(g, 0)
      OBVIOUS
    <2> QED BY <2>1
  <1>2. ASSUME NEW m \in Q PROVE m + 1 \in Q
    <2>1. m \in Nat /\ \E g : Keeps(g, m)
      OBVIOUS
    <2>2. PICK g : Keeps(g, m)
      BY <2>1
    <2>0. m \in Nat
      BY <2>1
    <2> HIDE DEF Q
    <2> DEFINE h == [i \in 0 .. m + 1 |-> IF i <= m THEN g[i] ELSE (IF s[m + 1] \in S THEN Append(g[m], s[m + 1]) ELSE g[m])]
    <2>3. h = [i \in 0 .. m + 1 |-> h[i]] /\ h[0] = <<>>
      BY <2>1, <2>2
    <2>4. ASSUME NEW i \in 0 .. (m + 1) - 1 PROVE h[i + 1] = (IF s[i + 1] \in S THEN Append(h[i], s[i + 1]) ELSE h[i])
      <3>1. CASE i < m
        <4>1. /\ i \in 0 .. m - 1 /\ i + 1 <= m /\ i <= m
              /\ i \in 0 .. m + 1 /\ i + 1 \in 0 .. m + 1
          BY <2>0, <3>1
        <4>2. g[i + 1] = (IF s[i + 1] \in S THEN Append(g[i], s[i + 1]) ELSE g[i])
          BY <2>2, <4>1
        <4>3. h[i + 1] = g[i + 1] /\ h[i] = g[i]
          BY <4>1
        <4> QED BY <4>2, <4>3
      <3>2. CASE i = m
        <4>1. m + 1 \in 0 .. m + 1 /\ m \in 0 .. m + 1 /\ ~(m + 1 <= m) /\ m <= m
          BY <2>1
        <4>2. h[m + 1] = (IF s[m + 1] \in S THEN Append(g[m], s[m + 1]) ELSE g[m]) /\ h[m] = g[m]
          BY <4>1
        <4> QED BY <3>2, <4>2
      <3>3. i < m \/ i = m
        BY <2>1
      <3> QED BY <3>1, <3>2, <3>3
    <2> HIDE DEF h
    <2>5. Keeps(h, m + 1)
      BY <2>3, <2>4
    <2>6. m + 1 \in Nat
      BY <2>0
    <2> QED BY <2>5, <2>6 DEF Q
  <1>3. \E g : Keeps(g, n)
    <2>1. Q \in SUBSET Nat
      OBVIOUS
    <2>2. n \in Q
      <3> HIDE DEF Q
      <3> QED BY <1>0, <1>1, <1>2, <2>1, SetInduction
    <2> QED BY <2>2
  <1>4. R(kept)
    <2>1. PICK g : Keeps(g, n)
      BY <1>3
    <2>2. \A i \in 0 .. n : i # 0 => i - 1 \in 0 .. n - 1 /\ (i - 1) + 1 = i
      BY <1>0
    <2>3. \A i \in 0 .. n : g[i] = IF i = 0 THEN <<>> ELSE (IF s[i] \in S THEN Append(g[i - 1], s[i]) ELSE g[i - 1])
      BY <2>1, <2>2
    <2>4. R(g)
      BY <2>1, <2>3
    <2> HIDE DEF R
    <2> QED BY <2>4
  <1>5. Kept(s, S) = kept[n]
    BY DEF Kept, n
  <1>6. kept[0] = <<>> /\ \A i \in 0 .. n - 1 : kept[i + 1] = (IF s[i + 1] \in S THEN Append(kept[i], s[i + 1]) ELSE kept[i])
    <2> HIDE DEF kept
    <2>1. 0 \in 0 .. n /\ \A i \in 0 .. n - 1 : i + 1 \in 0 .. n /\ i + 1 # 0 /\ (i + 1) - 1 = i
      BY <1>0
    <2> QED BY <1>4, <2>1
  <1> HIDE DEF kept
  <1> QED BY <1>5, <1>6 DEF n

\* It has the members of the sequence that are in the set, each as often.
LEMMA KeptKeeps ==
    ASSUME NEW T, NEW s \in Seq(T), NEW S
    PROVE  /\ Kept(s, S) \in Seq(T)
           /\ \A x : (\E i \in 1 .. Len(Kept(s, S)) : Kept(s, S)[i] = x)
                       <=> (x \in S /\ \E i \in 1 .. Len(s) : s[i] = x)
           /\ Unrepeated(s) => Unrepeated(Kept(s, S))
  <1>1. PICK g : /\ g[0] = <<>> /\ Kept(s, S) = g[Len(s)]
                 /\ \A i \in 0 .. Len(s) - 1 :
                       g[i + 1] = IF s[i + 1] \in S THEN Append(g[i], s[i + 1]) ELSE g[i]
    BY KeptUnfolds
  <1> DEFINE n == Len(s)
             In(x, t) == \E i \in 1 .. Len(t) : t[i] = x
             Before(x, m) == \E i \in 1 .. m : s[i] = x
             Good(m) == /\ g[m] \in Seq(T)
                        /\ \A x : In(x, g[m]) <=> (x \in S /\ Before(x, m))
                        /\ Unrepeated(s) => Unrepeated(g[m])
             Q == {m \in Nat : m <= n => Good(m)}
  <1>0. n \in Nat /\ \A i \in 1 .. n : s[i] \in T
    OBVIOUS
  <1>2. 0 \in Q
    <2>1. g[0] \in Seq(T) /\ Len(g[0]) = 0
      <3> DEFINE none == <<>>
      <3>1. none \in Seq(T) /\ Len(none) = 0
        OBVIOUS
      <3> QED BY <1>1, <3>1
    <2> QED BY <2>1 DEF Unrepeated
  <1> HIDE DEF n
  <1>3. ASSUME NEW m \in Q PROVE m + 1 \in Q
    <2> SUFFICES ASSUME m + 1 <= n PROVE Good(m + 1)
      OBVIOUS
    <2>1. m \in Nat /\ m <= n /\ m \in 0 .. n - 1 /\ m + 1 \in 1 .. n
      BY <1>0
    <2>2. Good(m)
      BY <2>1
    <2> DEFINE t == g[m]
               y == s[m + 1]
    <2>3. /\ t \in Seq(T) /\ y \in T
          /\ \A x : In(x, t) <=> (x \in S /\ Before(x, m))
          /\ Unrepeated(s) => Unrepeated(t)
      BY <1>0, <2>1, <2>2
    <2>4. g[m + 1] = IF y \in S THEN Append(t, y) ELSE t
      BY <1>1, <2>1 DEF n
    <2>5. \A x : Before(x, m + 1) <=> (Before(x, m) \/ x = y)
      <3>1. \A i : i \in 1 .. m + 1 <=> (i \in 1 .. m \/ i = m + 1)
        BY <2>1
      <3> QED BY <3>1
    <2> HIDE DEF t, y
    <2>6. CASE y \notin S
      <3>1. g[m + 1] = t
        BY <2>4, <2>6
      <3>2. \A x : In(x, t) <=> (x \in S /\ Before(x, m + 1))
        <4> HIDE DEF In, Before
        <4> QED BY <2>3, <2>5, <2>6
      <3> HIDE DEF In, Before
      <3> QED BY <2>3, <3>1, <3>2
    <2>7. CASE y \in S
      <3> DEFINE u == Append(t, y)
      <3>1. g[m + 1] = u
        BY <2>4, <2>7
      <3>2. u \in Seq(T) /\ Len(u) = Len(t) + 1 /\ Len(t) \in Nat
        BY <2>3
      <3>3. u[Len(t) + 1] = y /\ \A i \in 1 .. Len(t) : u[i] = t[i]
        BY <2>3
      <3> HIDE DEF u
      <3>4. \A i : i \in 1 .. Len(u) <=> (i \in 1 .. Len(t) \/ i = Len(t) + 1)
        BY <3>2
      <3>5. \A x : In(x, u) <=> (In(x, t) \/ x = y)
        BY <3>3, <3>4
      <3>6. \A x : In(x, u) <=> (x \in S /\ Before(x, m + 1))
        <4> HIDE DEF In, Before
        <4> QED BY <2>3, <2>5, <2>7, <3>5
      <3>7. ASSUME Unrepeated(s) PROVE Unrepeated(u)
        <4>1. ~Before(y, m)
          <5> SUFFICES ASSUME NEW i \in 1 .. m, s[i] = y PROVE FALSE
            OBVIOUS
          <5>1. i \in 1 .. Len(s) /\ m + 1 \in 1 .. Len(s) /\ i # m + 1
            BY <1>0, <2>1 DEF n
          <5> QED BY <3>7, <5>1 DEF Unrepeated, y
        <4>2. ~In(y, t)
          <5> HIDE DEF In, Before
          <5> QED BY <2>3, <4>1
        <4>3. Unrepeated(t)
          BY <2>3, <3>7
        <4> QED BY <3>3, <3>4, <4>2, <4>3 DEF Unrepeated
      <3> HIDE DEF In, Before
      <3> QED BY <3>1, <3>2, <3>6, <3>7
    <2> QED BY <2>6, <2>7
  <1>4. Good(n)
    <2>1. Q \in SUBSET Nat
      OBVIOUS
    <2>2. n \in Q
      <3> HIDE DEF Q
      <3> QED BY <1>0, <1>2, <1>3, <2>1, SetInduction
    <2>3. n <= n
      BY <1>0
    <2> HIDE DEF Good
    <2> QED BY <2>2, <2>3
  <1>5. Kept(s, S) = g[n]
    BY <1>1 DEF n
  <1> QED BY <1>4, <1>5 DEF n

\* An order of a sequence has its members, each as often.
LEMMA SortedKeeps ==
    ASSUME NEW T, NEW s \in Seq(T), NEW order \in Bijection(1 .. Len(s), 1 .. Len(s)),
           NEW t \in [1 .. Len(s) -> T], \A i \in 1 .. Len(s) : t[i] = s[order[i]]
    PROVE  /\ t \in Seq(T) /\ Len(t) = Len(s)
           /\ \A x : (\E i \in 1 .. Len(t) : t[i] = x) <=> (\E i \in 1 .. Len(s) : s[i] = x)
           /\ Unrepeated(s) => Unrepeated(t)
  <1> DEFINE n == Len(s)
  <1>1. n \in Nat /\ \A i \in 1 .. n : s[i] \in T
    OBVIOUS
  <1>2. order \in [1 .. n -> 1 .. n] /\ \A k \in 1 .. n : \E i \in 1 .. n : order[i] = k
    BY DEF Bijection, Injection, Surjection
  <1>0. t \in [1 .. n -> T] /\ \A i \in 1 .. n : t[i] = s[order[i]]
    OBVIOUS
  <1>3. t \in Seq(T) /\ Len(t) = n
    <2> HIDE DEF n
    <2> QED BY <1>0, <1>1
  <1>4. \A x : (\E i \in 1 .. n : t[i] = x) <=> (\E i \in 1 .. n : s[i] = x)
    <2> HIDE DEF n
    <2>1. ASSUME NEW i \in 1 .. n PROVE \E k \in 1 .. n : s[k] = t[i]
      BY <1>0, <1>2
    <2>2. ASSUME NEW k \in 1 .. n PROVE \E i \in 1 .. n : t[i] = s[k]
      <3>1. PICK i \in 1 .. n : order[i] = k
        BY <1>2
      <3> QED BY <1>0, <3>1
    <2> QED BY <2>1, <2>2
  <1>5. ASSUME Unrepeated(s) PROVE Unrepeated(t)
    <2>1. \A i, j \in 1 .. n : order[i] = order[j] => i = j
      BY DEF Bijection, Injection, IsInjective
    <2> SUFFICES ASSUME NEW i \in 1 .. n, NEW j \in 1 .. n, t[i] = t[j] PROVE i = j
      BY <1>3 DEF Unrepeated
    <2>2. s[order[i]] = s[order[j]] /\ order[i] \in 1 .. n /\ order[j] \in 1 .. n
      BY <1>0, <1>2
    <2>3. order[i] = order[j]
      BY <1>5, <2>2 DEF Unrepeated
    <2> QED BY <2>1, <2>3
  <1> QED BY <1>3, <1>4, <1>5

-----------------------------------------------------------------------------
(* What an install works on *)

\* Hypothesis: containers and consoles are what the formats say; the version of
\* a key is a u32.
Formats ==
    /\ \A p \in Packages : /\ p \in Seq(Range(p))
                           /\ \A c \in Titles(p) : c.infos \in Seq(Range(c.infos))
    /\ \A d \in Devices : d.contents = [s \in Storages |-> d.contents[s]]
    /\ \E max \in Nat : \A e \in Known : e.key.version \in 0 .. max

Taking == {"install", "fill"}
Committing == {"decide", "import", "remove", "delete", "removeCommit", "register", "move", "commit",
               "push", "launch"}
Cnmts == Entries(pkg, "cnmt")

\* The install works on entries of its container, and is at one of its cnmts.
JobTypes ==
    /\ (mode = "none" /\ pkg = <<>>) \/ (mode \in Modes /\ pkg \in Packages)
    /\ pc # "idle" => mode # "none"
    /\ pc \in Places
    /\ todo \in Seq(Range(pkg)) /\ parsed \in Seq(Titles(pkg))
    /\ cur \in 1 .. Len(parsed) + 1
    /\ pc \in Committing => cur <= Len(parsed)
    /\ pc = "fill" => todo # <<>> /\ Head(todo).kind \in {"nca", "cnmt"}
    /\ pc = "parse" => todo # <<>> /\ Head(todo).kind = "cnmt"
    /\ (pc = "cleanup" \/ (pc = "idle" /\ rc = "ok")) => Len(parsed) <= cur

\* A file takes its cnmts one by one, and after each the NCAs it names.
InFile ==
    mode = "file" =>
      /\ Len(parsed) <= Len(Cnmts) /\ \A i \in 1 .. Len(parsed) : parsed[i] = Cnmts[i]
      /\ pc \in Taking =>
           \/ /\ Len(parsed) = cur
              /\ \A i \in 1 .. Len(todo) : todo[i].kind = "nca" /\ todo[i].id \in NcaIds(Cnmt)
           \/ /\ Len(parsed) = cur - 1 /\ cur <= Len(Cnmts) /\ todo = <<Cnmts[cur]>>
      /\ pc = "parse" => Len(parsed) = cur - 1 /\ cur <= Len(Cnmts) /\ todo = <<Cnmts[cur]>>
      /\ pc \in Committing => Len(parsed) = cur
      /\ pc = "cleanup" => Len(parsed) = cur \/ Len(Cnmts) = 0

\* A stream takes every entry once, and decides when all are taken.
InStream ==
    mode = "stream" =>
      /\ Unrepeated(todo) /\ Unrepeated(parsed)
      /\ skipped = {}
      /\ pc \in Taking \cup {"parse"} =>
           cur = 1 /\ \A i \in 1 .. Len(parsed), j \in 1 .. Len(todo) : parsed[i] # todo[j]

\* The NCAs of a cnmt that was parsed are in the container.
NcasFound ==
    \A i \in 1 .. Len(parsed) : \A id \in NcaIds(parsed[i]) :
        \E e \in Range(pkg) : e.kind = "nca" /\ e.id = id

JobInv == JobTypes /\ InFile /\ InStream /\ NcasFound

-----------------------------------------------------------------------------
(* The invariant of the job, action by action *)

LEMMA ModesOfCode == Modes \subseteq {"stream", "file"}
  BY NcmAssumption

\* The entries of a kind are entries of the container, each once.
LEMMA EntriesKept ==
    ASSUME Formats, NEW p \in Packages, NEW kind
    PROVE  /\ Entries(p, kind) \in Seq(Range(p))
           /\ \A x : (\E i \in 1 .. Len(Entries(p, kind)) : Entries(p, kind)[i] = x)
                       <=> (x \in Range(p) /\ x.kind = kind)
           /\ Unrepeated(Entries(p, kind))
  <1> DEFINE S == {e \in Range(p) : e.kind = kind}
             T == Range(p)
  <1>1. p \in Seq(T)
    BY DEF Formats
  <1>2. \A x : (\E i \in 1 .. Len(p) : p[i] = x) <=> x \in T
    BY <1>1 DEF Range
  <1>3. Unrepeated(p)
    BY NcmAssumption DEF Unrepeated
  <1>4. \A x : x \in S <=> x \in T /\ x.kind = kind
    OBVIOUS
  <1>5. Entries(p, kind) = Kept(p, S)
    BY DEF Entries
  <1> HIDE DEF S, T
  <1>6. /\ Kept(p, S) \in Seq(T)
        /\ \A x : (\E i \in 1 .. Len(Kept(p, S)) : Kept(p, S)[i] = x)
                    <=> (x \in S /\ \E i \in 1 .. Len(p) : p[i] = x)
        /\ Unrepeated(p) => Unrepeated(Kept(p, S))
    BY <1>1, KeptKeeps
  <1> QED BY <1>2, <1>3, <1>4, <1>5, <1>6 DEF T

\* A stream has the entries of its container, each once.
LEMMA StreamOrderKept ==
    ASSUME Formats, NEW p \in Packages, NEW t \in InStreamOrder[p]
    PROVE  /\ t \in Seq(Range(p)) /\ Unrepeated(t)
           /\ \A x : (\E i \in 1 .. Len(t) : t[i] = x) <=> x \in Range(p)
           /\ \A i, j \in 1 .. Len(t) : i < j => ~(t[j].off < t[i].off)
  <1> DEFINE T == Range(p)
  <1>1. p \in Seq(T)
    BY DEF Formats
  <1>2. Unrepeated(p)
    BY NcmAssumption DEF Unrepeated
  <1>3. \A x : (\E i \in 1 .. Len(p) : p[i] = x) <=> x \in T
    BY <1>1 DEF Range
  <1>4. PICK order \in Bijection(1 .. Len(p), 1 .. Len(p)) : t = [i \in 1 .. Len(p) |-> p[order[i]]]
    BY DEF InStreamOrder, Sorted
  <1>5. \A i, j \in 1 .. Len(p) : i < j => ~(t[j].off < t[i].off)
    BY DEF InStreamOrder, Sorted
  <1> HIDE DEF T
  <1>6. /\ t \in Seq(T) /\ Len(t) = Len(p)
        /\ \A x : (\E i \in 1 .. Len(t) : t[i] = x) <=> (\E i \in 1 .. Len(p) : p[i] = x)
        /\ Unrepeated(p) => Unrepeated(t)
    <2>1. order \in [1 .. Len(p) -> 1 .. Len(p)]
      BY DEF Bijection, Injection
    <2>2. t \in [1 .. Len(p) -> T] /\ \A i \in 1 .. Len(p) : t[i] = p[order[i]]
      BY <1>1, <1>4, <2>1
    <2> QED BY <1>1, <2>2, SortedKeeps
  <1> QED BY <1>2, <1>3, <1>5, <1>6 DEF T

\* The infos of a cnmt and any order of them: the same contents.
LEMMA NcasKept ==
    ASSUME Formats, NEW p \in Packages, NEW c \in Titles(p), NEW ncas \in Ncas(c)
    PROVE  /\ Len(ncas) \in Nat
           /\ \A i \in 1 .. Len(ncas) : ncas[i].id \in NcaIds(c)
           /\ \A id \in NcaIds(c) : \E i \in 1 .. Len(ncas) : ncas[i].id = id
  <1> DEFINE T == Range(c.infos)
             S == {i \in Range(c.infos) : i.type # Delta}
             w == Kept(c.infos, S)
  <1>1. c.infos \in Seq(T)
    BY DEF Formats
  <1>2. Wanted(c) = w
    BY DEF Wanted
  <1> HIDE DEF S, T
  <1>3. Kept(c.infos, S) \in Seq(T)
    BY <1>1, KeptKeeps
  <1> HIDE DEF w
  <1>4. w \in Seq(T)
    BY <1>3 DEF w
  <1>5. PICK order \in Bijection(1 .. Len(w), 1 .. Len(w)) : ncas = [i \in 1 .. Len(w) |-> w[order[i]]]
    BY <1>2 DEF Ncas, Sorted
  <1>6. /\ ncas \in Seq(T) /\ Len(ncas) = Len(w)
        /\ \A x : (\E i \in 1 .. Len(ncas) : ncas[i] = x) <=> (\E i \in 1 .. Len(w) : w[i] = x)
        /\ Unrepeated(w) => Unrepeated(ncas)
    <2>1. order \in [1 .. Len(w) -> 1 .. Len(w)]
      BY DEF Bijection, Injection
    <2>2. ncas \in [1 .. Len(w) -> T] /\ \A i \in 1 .. Len(w) : ncas[i] = w[order[i]]
      BY <1>4, <1>5, <2>1
    <2> HIDE DEF T, w
    <2> QED BY <1>4, <2>2, SortedKeeps
  <1>7. \A x : x \in Range(w) <=> \E i \in 1 .. Len(w) : w[i] = x
    BY <1>4 DEF Range
  <1>8. NcaIds(c) = {i.id : i \in Range(w)}
    BY <1>2 DEF NcaIds
  <1>9. ASSUME NEW i \in 1 .. Len(ncas) PROVE ncas[i].id \in NcaIds(c)
    <2>1. ncas[i] \in Range(w)
      BY <1>6, <1>7
    <2> QED BY <1>8, <2>1
  <1>10. ASSUME NEW id \in NcaIds(c) PROVE \E i \in 1 .. Len(ncas) : ncas[i].id = id
    <2>1. PICK x \in Range(w) : x.id = id
      BY <1>8
    <2>2. \E i \in 1 .. Len(ncas) : ncas[i] = x
      BY <1>6, <1>7, <2>1
    <2> QED BY <2>1, <2>2
  <1> QED BY <1>6, <1>9, <1>10

\* A step that takes no entry and decides nothing keeps it.
LEMMA QuietKeepsJob ==
    ASSUME JobInv, UNCHANGED <<mode, pkg, todo, parsed, cur>>,
           mode = "stream" => skipped' = skipped,
           pc' \in Places, pc' # "idle" => pc # "idle",
           pc' \in Committing => pc \in Committing,
           pc' \in {"install", "fill", "parse", "cleanup"} => pc' = pc,
           pc' = "idle" /\ rc' = "ok" => pc = "cleanup" \/ (pc = "idle" /\ rc = "ok")
    PROVE  JobInv'
  <1> USE DEF JobInv
  <1>1. Cnmt' = Cnmt /\ Cnmts' = Cnmts
    BY DEF Cnmt, Cnmts
  <1>2. JobTypes'
    BY DEF JobTypes
  <1>3. InFile'
    BY <1>1 DEF InFile, Taking
  <1>4. InStream'
    BY DEF InStream, Taking, Unrepeated
  <1>5. NcasFound'
    BY DEF NcasFound
  <1> QED BY <1>2, <1>3, <1>4, <1>5

\* An entry is taken: a cnmt is to be parsed, anything else is done.
LEMMA TakeKeepsJob ==
    ASSUME Formats, JobInv, pc \in Taking, todo # <<>>, AfterEntry(Head(todo)),
           UNCHANGED <<mode, pkg, parsed, cur>>, mode = "stream" => skipped' = skipped
    PROVE  JobInv'
  <1> USE DEF JobInv
  <1> DEFINE e == Head(todo)
  <1>1. Cnmt' = Cnmt /\ Cnmts' = Cnmts
    BY DEF Cnmt, Cnmts
  <1>2. todo \in Seq(Range(pkg)) /\ Len(todo) \in Nat \ {0}
    BY DEF JobTypes
  <1>3. e = todo[1] /\ Tail(todo) \in Seq(Range(pkg)) /\ Len(Tail(todo)) = Len(todo) - 1
        /\ \A i \in 1 .. Len(todo) - 1 : Tail(todo)[i] = todo[i + 1]
    BY <1>2
  <1>4. mode \in {"stream", "file"} /\ pkg \in Packages
    BY ModesOfCode DEF JobTypes, Taking
  <1>5. CASE e.kind = "cnmt"
    <2>1. pc' = "parse" /\ todo' = todo
      BY <1>5 DEF AfterEntry
    <2>2. JobTypes'
      BY <1>5, <2>1 DEF JobTypes, Places, Committing, Taking
    <2>3. InFile'
      <3> SUFFICES ASSUME mode = "file"
                   PROVE  Len(parsed) = cur - 1 /\ cur <= Len(Cnmts) /\ todo = <<Cnmts[cur]>>
        BY <1>1, <2>1 DEF InFile, Taking, Committing
      <3>1. 1 \in 1 .. Len(todo)
        BY <1>2
      <3>2. e.kind # "nca"
        BY <1>5
      <3> QED BY <1>3, <3>1, <3>2 DEF InFile
    <2>4. InStream'
      BY <2>1 DEF InStream, Taking, Unrepeated
    <2>5. NcasFound'
      BY DEF NcasFound
    <2> QED BY <2>2, <2>3, <2>4, <2>5
  <1>6. CASE e.kind # "cnmt"
    <2>1. pc' = "install" /\ todo' = Tail(todo)
      BY <1>6 DEF AfterEntry
    <2> HIDE DEF e
    <2>2. JobTypes'
      BY <1>3, <2>1 DEF JobTypes, Places, Committing, Taking
    <2>3. InFile'
      <3> SUFFICES ASSUME mode = "file"
                   PROVE  /\ Len(parsed) = cur
                          /\ \A i \in 1 .. Len(todo') : todo'[i].kind = "nca" /\ todo'[i].id \in NcaIds(Cnmt)
        BY <1>1, <2>1 DEF InFile, Taking, Committing
      <3>1. ASSUME todo = <<Cnmts[cur]>>, cur <= Len(Cnmts)
            PROVE  FALSE
        <4>1. e = Cnmts[cur] /\ cur \in 1 .. Len(Cnmts)
          BY <1>3, <3>1 DEF JobTypes
        <4>2. e.kind = "cnmt"
          BY <1>4, <4>1, EntriesKept DEF Cnmts
        <4> QED BY <1>6, <4>2
      <3>2. /\ Len(parsed) = cur
            /\ \A i \in 1 .. Len(todo) : todo[i].kind = "nca" /\ todo[i].id \in NcaIds(Cnmt)
        BY <3>1 DEF InFile
      <3>3. \A i \in 1 .. Len(todo') : todo'[i] = todo[i + 1] /\ i + 1 \in 1 .. Len(todo)
        BY <1>2, <1>3, <2>1
      <3> QED BY <3>2, <3>3
    <2>4. InStream'
      <3> SUFFICES ASSUME mode = "stream"
                   PROVE  /\ Unrepeated(todo') /\ Unrepeated(parsed') /\ skipped' = {}
                          /\ cur' = 1
                          /\ \A i \in 1 .. Len(parsed'), j \in 1 .. Len(todo') : parsed'[i] # todo'[j]
        BY DEF InStream, Unrepeated
      <3>1. \A i \in 1 .. Len(todo') : todo'[i] = todo[i + 1] /\ i + 1 \in 1 .. Len(todo)
        BY <1>2, <1>3, <2>1
      <3>2. /\ Unrepeated(todo) /\ Unrepeated(parsed) /\ skipped = {} /\ cur = 1
            /\ \A i \in 1 .. Len(parsed), j \in 1 .. Len(todo) : parsed[i] # todo[j]
        BY DEF InStream
      <3>3. ASSUME NEW i \in 1 .. Len(todo'), NEW j \in 1 .. Len(todo'), todo'[i] = todo'[j]
            PROVE  i = j
        <4>1. i + 1 = j + 1
          BY <3>1, <3>2, <3>3 DEF Unrepeated
        <4> QED BY <4>1
      <3> QED BY <3>1, <3>2, <3>3 DEF Unrepeated
    <2>5. NcasFound'
      BY DEF NcasFound
    <2> QED BY <2>2, <2>3, <2>4, <2>5
  <1> QED BY <1>5, <1>6

\* A cnmt is done.
LEMMA AdvanceKeepsJob ==
    ASSUME JobInv, pc \in {"decide", "launch"}, Advance,
           UNCHANGED <<mode, pkg, parsed, skipped>>
    PROVE  JobInv'
  <1> USE DEF JobInv
  <1>1. mode \in {"stream", "file"} /\ todo' = todo /\ Cnmts' = Cnmts
    BY ModesOfCode DEF JobTypes, Advance, Cnmts
  <1>2. cur \in Nat /\ cur >= 1 /\ Len(parsed) \in Nat /\ cur <= Len(parsed)
    BY DEF JobTypes, Committing
  <1>3. \/ mode = "stream" /\ cur < Len(parsed) /\ pc' = "decide" /\ cur' = cur + 1
        \/ mode = "stream" /\ Len(parsed) <= cur /\ pc' = "cleanup" /\ cur' = cur
        \/ mode = "file" /\ pc' = "cleanup" /\ cur' = cur
    BY <1>1, <1>2 DEF Advance
  <1>4. mode = "file" => Len(parsed) = cur
    BY DEF InFile, Committing
  <1>5. JobTypes'
    BY <1>1, <1>2, <1>3, <1>4 DEF JobTypes, Places, Committing
  <1>6. InFile'
    BY <1>1, <1>3, <1>4 DEF InFile, Taking, Committing
  <1>7. InStream'
    BY <1>1, <1>3 DEF InStream, Taking, Unrepeated
  <1>8. NcasFound'
    BY DEF NcasFound
  <1> QED BY <1>5, <1>6, <1>7, <1>8

LEMMA BeginJob ==
    ASSUME Formats, NEW p \in Packages, NEW m \in Modes, Begin(p, m)
    PROVE  JobInv'
  <1> DEFINE C == Entries(p, "cnmt")
  <1>1. /\ mode' = m /\ pkg' = p /\ parsed' = <<>> /\ cur' = 1 /\ rc' = "none" /\ skipped' = {}
        /\ pc' \in {"cleanup", "install", "fail"}
        /\ m = "file" /\ C = <<>> => pc' \in {"cleanup", "fail"}
        /\ pc' = "cleanup" => m = "file" /\ C = <<>>
        /\ m # "stream" => todo' = IF C = <<>> THEN <<>> ELSE <<Head(C)>>
        /\ m = "stream" => todo' \in InStreamOrder[p]
    BY DEF Begin
  <1>2. m \in {"stream", "file"}
    BY ModesOfCode
  <1>3. C \in Seq(Range(p)) /\ \A i \in 1 .. Len(C) : C[i] \in Range(p)
    BY EntriesKept
  <1>4. Cnmts' = C
    BY <1>1 DEF Cnmts
  <1> HIDE DEF C
  <1>5. parsed' \in Seq(Titles(p)) /\ Len(parsed') = 0
    <2> DEFINE none == <<>>
    <2>1. none \in Seq(Titles(p)) /\ Len(none) = 0
      OBVIOUS
    <2> QED BY <1>1, <2>1
  <1>6. ASSUME m = "file" PROVE /\ todo' \in Seq(Range(p))
                                /\ C # <<>> => todo' = <<C[1]>> /\ Len(C) >= 1
                                /\ C = <<>> => Len(C) = 0
    <2>1. CASE C = <<>>
      <3> DEFINE none == <<>>
      <3>1. none \in Seq(Range(p))
        OBVIOUS
      <3> QED BY <1>1, <1>6, <2>1, <3>1
    <2>2. CASE C # <<>>
      <3>1. Head(C) = C[1] /\ Len(C) >= 1 /\ C[1] \in Range(p)
        BY <1>3, <2>2
      <3> QED BY <1>1, <1>6, <2>2, <3>1
    <2> QED BY <2>1, <2>2
  <1>7. ASSUME m = "stream" PROVE todo' \in Seq(Range(p)) /\ Unrepeated(todo')
    BY <1>1, <1>7, StreamOrderKept
  <1>8. JobTypes'
    BY <1>1, <1>2, <1>5, <1>6, <1>7 DEF JobTypes, Places, Committing
  <1>9. InFile'
    BY <1>1, <1>4, <1>5, <1>6 DEF InFile, Taking, Committing
  <1>10. InStream'
    BY <1>1, <1>5, <1>7 DEF InStream, Unrepeated, Taking
  <1>11. NcasFound'
    BY <1>5 DEF NcasFound
  <1> QED BY <1>8, <1>9, <1>10, <1>11 DEF JobInv

LEMMA ParseCnmtJob ==
    ASSUME Formats, JobInv, ParseCnmt
    PROVE  JobInv'
  <1> USE DEF JobInv
  <1> DEFINE c == Head(todo)
  <1>1. /\ pc = "parse" /\ UNCHANGED <<mode, pkg, cur, skipped, rc>>
    BY DEF ParseCnmt, device, fixed, plan, book
  <1>2. CASE pc' = "fail" /\ UNCHANGED <<parsed, todo>>
    BY <1>1, <1>2, QuietKeepsJob DEF Places, Committing
  <1>3. CASE /\ \A id \in NcaIds(c) : Has(pkg, LAMBDA e : e.kind = "nca" /\ e.id = id)
             /\ parsed' = Append(parsed, c) /\ todo' = Tail(todo)
             /\ pc' = IF mode = "file" THEN "decide" ELSE "install"
    <2>1. /\ mode \in {"stream", "file"} /\ pkg \in Packages
          /\ todo \in Seq(Range(pkg)) /\ Len(todo) \in Nat \ {0}
          /\ parsed \in Seq(Titles(pkg)) /\ Len(parsed) \in Nat
      <3>1. todo # <<>> /\ todo \in Seq(Range(pkg)) /\ parsed \in Seq(Titles(pkg))
            /\ mode \in Modes /\ pkg \in Packages
        BY <1>1 DEF JobTypes
      <3> QED BY <3>1, ModesOfCode
    <2>2. c = todo[1] /\ Tail(todo) \in Seq(Range(pkg)) /\ Len(Tail(todo)) = Len(todo) - 1
          /\ \A i \in 1 .. Len(todo) - 1 : Tail(todo)[i] = todo[i + 1]
      BY <2>1
    <2>3. c \in Titles(pkg)
      <3>1. c \in Range(pkg) /\ c.kind = "cnmt"
        BY <1>1, <2>1, <2>2 DEF JobTypes
      <3> QED BY <3>1 DEF Titles
    <2> HIDE DEF c
    <2>4. /\ parsed' \in Seq(Titles(pkg)) /\ Len(parsed') = Len(parsed) + 1
          /\ parsed'[Len(parsed) + 1] = c
          /\ \A i \in 1 .. Len(parsed) : parsed'[i] = parsed[i]
      BY <1>3, <2>1, <2>3
    <2>5. \A i \in 1 .. Len(parsed') : i \in 1 .. Len(parsed) \/ i = Len(parsed) + 1
      BY <2>1, <2>4
    <2>6. Cnmts' = Cnmts
      BY <1>1 DEF Cnmts
    <2>7. mode = "file" => Len(parsed) = cur - 1 /\ cur <= Len(Cnmts) /\ todo = <<Cnmts[cur]>>
      BY <1>1 DEF InFile
    <2>8. cur \in Nat
      BY <2>1 DEF JobTypes
    <2>9. JobTypes'
      BY <1>1, <1>3, <2>1, <2>2, <2>4, <2>7, <2>8 DEF JobTypes, Places, Committing
    <2>10. InFile'
      <3> SUFFICES ASSUME mode = "file"
                   PROVE  /\ Len(parsed') <= Len(Cnmts) /\ Len(parsed') = cur
                          /\ \A i \in 1 .. Len(parsed') : parsed'[i] = Cnmts[i]
        BY <1>1, <1>3, <2>6 DEF InFile, Taking, Committing
      <3>1. c = Cnmts[cur]
        BY <2>2, <2>7
      <3>2. \A i \in 1 .. Len(parsed) : parsed[i] = Cnmts[i]
        BY DEF InFile
      <3> QED BY <2>1, <2>4, <2>5, <2>7, <2>8, <3>1, <3>2
    <2>11. InStream'
      <3> SUFFICES ASSUME mode = "stream"
                   PROVE  /\ Unrepeated(todo') /\ Unrepeated(parsed') /\ skipped' = {}
                          /\ cur' = 1
                          /\ \A i \in 1 .. Len(parsed'), j \in 1 .. Len(todo') : parsed'[i] # todo'[j]
        BY <1>1 DEF InStream
      <3>1. \A i \in 1 .. Len(todo') : todo'[i] = todo[i + 1] /\ i + 1 \in 1 .. Len(todo) /\ i + 1 # 1
        BY <1>3, <2>1, <2>2
      <3>2. /\ Unrepeated(todo) /\ Unrepeated(parsed) /\ skipped = {} /\ cur = 1
            /\ \A i \in 1 .. Len(parsed), j \in 1 .. Len(todo) : parsed[i] # todo[j]
        BY <1>1 DEF InStream, Taking
      <3>3. ASSUME NEW i \in 1 .. Len(todo'), NEW j \in 1 .. Len(todo'), todo'[i] = todo'[j]
            PROVE  i = j
        <4>1. i + 1 = j + 1
          BY <3>1, <3>2, <3>3 DEF Unrepeated
        <4> QED BY <4>1
      <3>4. 1 \in 1 .. Len(todo)
        BY <2>1
      <3>5. \A i \in 1 .. Len(parsed) : parsed[i] # c
        BY <2>2, <3>2, <3>4
      <3>6. \A j \in 1 .. Len(todo') : c # todo'[j]
        BY <2>2, <3>1, <3>2, <3>4 DEF Unrepeated
      <3>7. Unrepeated(parsed')
        <4> SUFFICES ASSUME NEW i \in 1 .. Len(parsed'), NEW j \in 1 .. Len(parsed'), parsed'[i] = parsed'[j]
                     PROVE  i = j
          BY DEF Unrepeated
        <4> QED BY <2>4, <2>5, <3>2, <3>5 DEF Unrepeated
      <3>8. ASSUME NEW i \in 1 .. Len(parsed'), NEW j \in 1 .. Len(todo') PROVE parsed'[i] # todo'[j]
        BY <2>4, <2>5, <3>1, <3>2, <3>6
      <3> QED BY <1>1, <3>2, <3>3, <3>7, <3>8 DEF Unrepeated
    <2>12. NcasFound'
      <3>1. ASSUME NEW id \in NcaIds(c) PROVE \E e \in Range(pkg) : e.kind = "nca" /\ e.id = id
        <4>1. PICK i \in 1 .. Len(pkg) : pkg[i].kind = "nca" /\ pkg[i].id = id
          BY <1>3 DEF Has
        <4>2. pkg \in Seq(Range(pkg))
          BY <2>1 DEF Formats
        <4>3. pkg[i] \in Range(pkg)
          BY <4>2
        <4> QED BY <4>1, <4>3
      <3> QED BY <1>1, <2>4, <2>5, <3>1 DEF NcasFound
    <2> QED BY <2>9, <2>10, <2>11, <2>12
  <1> QED BY <1>2, <1>3 DEF ParseCnmt

\* The NCA of a name is the one found when the cnmt was parsed.
LEMMA NamedNca ==
    ASSUME Formats, OneNca, NEW p \in Packages, NEW id,
           \E e \in Range(p) : e.kind = "nca" /\ e.id = id
    PROVE  Named(p, id) \in Range(p) /\ Named(p, id).kind = "nca" /\ Named(p, id).id = id
  <1>1. PICK x \in Range(p) : x.kind = "nca" /\ x.id = id
    OBVIOUS
  <1>2. \E e \in Range(p) : e.id = id /\ e.kind \in {"nca", "cnmt"}
    BY <1>1
  <1>3. /\ Named(p, id) \in Range(p) /\ Named(p, id).id = id
        /\ Named(p, id).kind \in {"nca", "cnmt"}
    BY <1>2 DEF Named
  <1>4. Named(p, id) = x
    BY <1>1, <1>3 DEF OneNca
  <1> QED BY <1>1, <1>4

LEMMA DecideJob ==
    ASSUME Formats, OneNca, JobInv, Decide
    PROVE  JobInv'
  <1> USE DEF JobInv
  <1>1. pc = "decide" /\ UNCHANGED <<mode, pkg, parsed, skipped, rc>>
    BY DEF Decide, fixed, scan, book
  <1>2. CASE Advance
    BY <1>1, <1>2, AdvanceKeepsJob
  <1>3. CASE pc' = "import" /\ UNCHANGED <<cur, todo>>
    BY <1>1, <1>3, QuietKeepsJob DEF Places, Committing
  <1>4. CASE /\ mode = "file" /\ pc' = "install" /\ UNCHANGED cur
             /\ \E ncas \in Ncas(Cnmt) :
                  todo' = [i \in 1 .. Len(ncas) |-> Named(pkg, ncas[i].id)]
    <2>1. PICK ncas \in Ncas(Cnmt) : todo' = [i \in 1 .. Len(ncas) |-> Named(pkg, ncas[i].id)]
      BY <1>4
    <2>2. /\ pkg \in Packages /\ cur \in 1 .. Len(parsed) /\ Len(parsed) = cur
          /\ parsed \in Seq(Titles(pkg))
      BY <1>1, <1>4, ModesOfCode DEF JobTypes, InFile, Committing
    <2>3. Cnmt \in Titles(pkg)
      BY <2>2 DEF Cnmt
    <2>4. Len(ncas) \in Nat /\ \A i \in 1 .. Len(ncas) : ncas[i].id \in NcaIds(Cnmt)
      BY <2>2, <2>3, NcasKept
    <2>5. ASSUME NEW i \in 1 .. Len(ncas)
          PROVE  /\ Named(pkg, ncas[i].id) \in Range(pkg)
                 /\ Named(pkg, ncas[i].id).kind = "nca"
                 /\ Named(pkg, ncas[i].id).id \in NcaIds(Cnmt)
      <3>1. \E e \in Range(pkg) : e.kind = "nca" /\ e.id = ncas[i].id
        BY <2>2, <2>4 DEF NcasFound, Cnmt
      <3> QED BY <2>2, <2>4, <3>1, NamedNca
    <2>6. /\ todo' \in Seq(Range(pkg)) /\ Len(todo') = Len(ncas)
          /\ \A i \in 1 .. Len(todo') : todo'[i].kind = "nca" /\ todo'[i].id \in NcaIds(Cnmt)
      <3>1. ASSUME NEW n \in Nat, NEW T, NEW t \in [1 .. n -> T] PROVE t \in Seq(T) /\ Len(t) = n
        OBVIOUS
      <3>2. todo' \in [1 .. Len(ncas) -> Range(pkg)]
        BY <2>1, <2>5
      <3>3. todo' \in Seq(Range(pkg)) /\ Len(todo') = Len(ncas)
        BY <2>4, <3>1, <3>2
      <3> QED BY <2>1, <2>5, <3>3
    <2>7. Cnmt' = Cnmt /\ Cnmts' = Cnmts
      BY <1>1, <1>4 DEF Cnmt, Cnmts
    <2>8. JobTypes'
      BY <1>1, <1>4, <2>6 DEF JobTypes, Places, Committing
    <2>9. InFile'
      BY <1>1, <1>4, <2>2, <2>6, <2>7 DEF InFile, Taking, Committing
    <2>10. InStream'
      BY <1>1, <1>4 DEF InStream
    <2>11. NcasFound'
      BY <1>1 DEF NcasFound
    <2> QED BY <2>8, <2>9, <2>10, <2>11
  <1> QED BY <1>2, <1>3, <1>4 DEF Decide

LEMMA CleanupJob ==
    ASSUME Formats, JobInv, Cleanup
    PROVE  JobInv'
  <1> USE DEF JobInv
  <1>1. pc \in {"cleanup", "fail"} /\ UNCHANGED <<mode, pkg, parsed, skipped>>
    BY DEF Cleanup, fixed, scan
  <1>2. CASE pc = "cleanup" /\ MoreCnmts /\ pc' = "install" /\ cur' = cur + 1
             /\ todo' = <<Cnmts[cur + 1]>> /\ UNCHANGED rc
    <2>1. /\ mode = "file" /\ cur < Len(Cnmts) /\ pkg \in Packages
          /\ cur \in Nat /\ cur >= 1 /\ Len(parsed) \in Nat
      BY <1>2, ModesOfCode DEF MoreCnmts, Cnmts, JobTypes
    <2>2. /\ Len(Cnmts) \in Nat /\ Cnmts' = Cnmts
          /\ \A i \in 1 .. Len(Cnmts) : Cnmts[i] \in Range(pkg)
      BY <1>1, <2>1, EntriesKept DEF Cnmts
    <2>3. Len(parsed) = cur
      BY <1>2, <2>1, <2>2 DEF InFile
    <2>4. todo' \in Seq(Range(pkg)) /\ todo' = <<Cnmts[cur + 1]>> /\ Len(todo') = 1
      <3>1. Cnmts[cur + 1] \in Range(pkg)
        BY <2>1, <2>2
      <3> QED BY <1>2, <3>1
    <2>5. JobTypes'
      BY <1>1, <1>2, <2>1, <2>3, <2>4 DEF JobTypes, Places, Committing
    <2>6. InFile'
      BY <1>1, <1>2, <2>1, <2>2, <2>3, <2>4 DEF InFile, Taking, Committing
    <2>7. InStream'
      BY <1>1, <2>1 DEF InStream
    <2>8. NcasFound'
      BY <1>1 DEF NcasFound
    <2> QED BY <2>5, <2>6, <2>7, <2>8
  <1>3. CASE pc' = "idle" /\ UNCHANGED <<cur, todo>>
             /\ rc' = IF pc = "cleanup" THEN "ok" ELSE "failed"
    BY <1>1, <1>3, QuietKeepsJob DEF Places, Committing
  <1> QED BY <1>2, <1>3 DEF Cleanup, Cnmts

\* Every step keeps the invariant of the job.
LEMMA NextJob ==
    ASSUME Formats, OneNca, JobInv, [Next]_vars
    PROVE  JobInv'
  <1> USE DEF device, storage, meta, outside, job, scan, plan, fixed, book, vars
  <1> USE DEF Places, Committing
  <1>1. ASSUME NEW p \in Packages, NEW m \in Modes, Begin(p, m) PROVE JobInv'
    BY <1>1, BeginJob
  <1>2. CASE SkipInstalled
    <2>1. CASE pc' = "fail"
      BY <1>2, <2>1, QuietKeepsJob DEF SkipInstalled, AfterEntry
    <2>2. CASE pc' # "fail"
      BY <1>2, <2>2, TakeKeepsJob DEF SkipInstalled, Taking
    <2> QED BY <2>1, <2>2
  <1>3. CASE CreatePlaceHolder
    <2>1. /\ pc = "install" /\ pc' = "fill" /\ todo # <<>> /\ Head(todo).kind \in {"nca", "cnmt"}
          /\ UNCHANGED <<mode, pkg, todo, parsed, cur, skipped, rc>>
      BY <1>3 DEF CreatePlaceHolder
    <2>2. Cnmt' = Cnmt /\ Cnmts' = Cnmts
      BY <2>1 DEF Cnmt, Cnmts
    <2>3. JobTypes'
      BY <2>1 DEF JobInv, JobTypes
    <2>4. InFile'
      BY <2>1, <2>2 DEF JobInv, InFile, Taking
    <2>5. InStream'
      BY <2>1 DEF JobInv, InStream, Taking, Unrepeated
    <2>6. NcasFound'
      BY <2>1 DEF JobInv, NcasFound
    <2> QED BY <2>3, <2>4, <2>5, <2>6 DEF JobInv
  <1>4. CASE FillPlaceHolder
    <2>1. CASE pc' = "fail" /\ UNCHANGED todo
      BY <1>4, <2>1, QuietKeepsJob DEF FillPlaceHolder
    <2>2. CASE AfterEntry(Head(todo))
      <3>1. pc = "fill" /\ todo # <<>>
        BY <1>4 DEF FillPlaceHolder, JobInv, JobTypes
      <3> QED BY <1>4, <2>2, <3>1, TakeKeepsJob DEF FillPlaceHolder, Taking
    <2> QED BY <1>4, <2>1, <2>2 DEF FillPlaceHolder
  <1>5. CASE ReadTicketData
    <2>1. CASE pc' = "fail" /\ UNCHANGED todo
      BY <1>5, <2>1, QuietKeepsJob DEF ReadTicketData
    <2>2. CASE todo' = Tail(todo) /\ UNCHANGED pc
      <3>1. pc = "install" /\ todo # <<>> /\ Head(todo).kind # "cnmt"
        BY <1>5 DEF ReadTicketData
      <3>2. AfterEntry(Head(todo))
        BY <2>2, <3>1 DEF AfterEntry
      <3> QED BY <1>5, <3>1, <3>2, TakeKeepsJob DEF ReadTicketData, Taking
    <2> QED BY <1>5, <2>1, <2>2 DEF ReadTicketData
  <1>6. CASE ParseCnmt
    BY <1>6, ParseCnmtJob
  <1>7. CASE EntriesDone
    <2>1. /\ pc = "install" /\ todo = <<>>
          /\ pc' = IF mode = "file" THEN "import" ELSE IF parsed = <<>> THEN "cleanup" ELSE "decide"
          /\ UNCHANGED <<mode, pkg, todo, parsed, cur, skipped, rc>>
      BY <1>7 DEF EntriesDone
    <2>2. Cnmt' = Cnmt /\ Cnmts' = Cnmts
      BY <2>1 DEF Cnmt, Cnmts
    <2>3. mode \in {"stream", "file"} /\ Len(parsed) \in Nat /\ (parsed = <<>> <=> Len(parsed) = 0)
      <3>1. parsed \in Seq(Titles(pkg)) /\ mode \in Modes
        BY <2>1 DEF JobInv, JobTypes
      <3> QED BY <3>1, ModesOfCode
    <2>4. mode = "file" => Len(parsed) = cur
      <3>1. todo # <<Cnmts[cur]>>
        BY <2>1
      <3> QED BY <2>1, <3>1 DEF JobInv, InFile, Taking
    <2>5. mode = "stream" => cur = 1
      BY <2>1 DEF JobInv, InStream, Taking
    <2>6. JobTypes'
      BY <2>1, <2>3, <2>4, <2>5 DEF JobInv, JobTypes
    <2>7. InFile'
      BY <2>1, <2>2, <2>3, <2>4 DEF JobInv, InFile, Taking
    <2>8. InStream'
      BY <2>1, <2>3 DEF JobInv, InStream, Taking, Unrepeated
    <2>9. NcasFound'
      BY <2>1 DEF JobInv, NcasFound
    <2> QED BY <2>6, <2>7, <2>8, <2>9 DEF JobInv
  <1>8. CASE Decide
    BY <1>8, DecideJob
  <1>9. CASE ImportTicket
    BY <1>9, QuietKeepsJob DEF ImportTicket
  <1>10. CASE TicketsDone
    BY <1>10, QuietKeepsJob DEF TicketsDone
  <1>11. CASE RemoveNext
    BY <1>11, QuietKeepsJob DEF RemoveNext
  <1>12. CASE DeleteContent
    BY <1>12, QuietKeepsJob DEF DeleteContent
  <1>13. CASE RemoveKey
    BY <1>13, QuietKeepsJob DEF RemoveKey
  <1>14. CASE CommitRemoval
    BY <1>14, QuietKeepsJob DEF CommitRemoval
  <1>15. CASE RemoveDone
    BY <1>15, QuietKeepsJob DEF RemoveDone
  <1>16. CASE RegisterDelete
    BY <1>16, QuietKeepsJob DEF RegisterDelete
  <1>17. CASE RegisterMove
    BY <1>17, QuietKeepsJob DEF RegisterMove
  <1>18. CASE SetMeta
    BY <1>18, QuietKeepsJob DEF SetMeta
  <1>19. CASE CommitMeta
    BY <1>19, QuietKeepsJob DEF CommitMeta
  <1>20. CASE PushRecord
    BY <1>20, QuietKeepsJob DEF PushRecord
  <1>21. CASE PushLaunchVersion
    BY <1>21, AdvanceKeepsJob DEF PushLaunchVersion
  <1>22. CASE Cleanup
    BY <1>22, CleanupJob
  <1>23. CASE CallFails
    BY <1>23, QuietKeepsJob DEF CallFails
  <1>24. CASE Crash
    BY <1>24, QuietKeepsJob DEF Crash
  <1>25. CASE Idle \/ UNCHANGED vars
    BY <1>25, QuietKeepsJob DEF Idle, JobInv, JobTypes
  <1> QED
    BY <1>1, <1>2, <1>3, <1>4, <1>5, <1>6, <1>7, <1>8, <1>9, <1>10, <1>11, <1>12, <1>13,
       <1>14, <1>15, <1>16, <1>17, <1>18, <1>19, <1>20, <1>21, <1>22, <1>23, <1>24, <1>25
    DEF Next

LEMMA InitJob == Init => JobInv
  <1> SUFFICES ASSUME Init PROVE JobInv
    OBVIOUS
  <1>1. /\ mode = "none" /\ pkg = <<>> /\ pc = "idle" /\ todo = <<>> /\ parsed = <<>>
        /\ cur = 1 /\ rc = "none"
    BY DEF Init
  <1>2. todo \in Seq(Range(pkg)) /\ parsed \in Seq(Titles(pkg)) /\ Len(parsed) = 0
    <2> DEFINE none == <<>>
    <2>1. none \in Seq(Range(pkg)) /\ none \in Seq(Titles(pkg)) /\ Len(none) = 0
      OBVIOUS
    <2> QED BY <1>1, <2>1
  <1> QED
    BY <1>1, <1>2
    DEF JobInv, JobTypes, InFile, InStream, NcasFound, Places, Committing

-----------------------------------------------------------------------------
(* What is on the console, and what is to be removed and registered *)

\* Whatever is in a database came with the console or from a container.
DbKnown == \A s \in Storages : db[s] \subseteq Known /\ disk[s] \subseteq Known

\* What is being removed is an entry of the title being installed, and of its
\* contents none that is to stay.
VictimInv ==
    pc \in {"delete", "removeCommit"} =>
      /\ victim = [in |-> victim.in, key |-> victim.key, left |-> victim.left]
      /\ victim.in \in Storages /\ SameTitle(victim.key, Cnmt.key)
      /\ \E e \in Known : /\ e.key = victim.key
                          /\ victim.left \subseteq e.infos \ (skipped \cap EntryOf(Cnmt).infos)

\* Only contents of the title are registered, and only those not there already.
RegisterInv ==
    pc \in {"register", "move"} =>
      /\ toRegister \in Seq(EntryOf(Cnmt).infos \ skipped)
      /\ pc = "move" => toRegister # <<>>

\* The decision to install the current cnmt has been made.
Chosen ==
    \/ pc \in {"import", "remove", "delete", "removeCommit", "register", "move", "commit", "push", "launch"}
    \/ mode = "file" /\ pc \in Taking /\ Len(parsed) = cur

\* The storages that have no patch above the latest version: those whose List
\* succeeded and, for a patch that has replaced all others, every one.
Heard(s) ==
    \/ <<Cnmt.key, s>> \notin unlisted
    \/ Cnmt.key.type = "Patch" /\ pc \in {"register", "move", "commit", "push", "launch"}

\* From then on no patch of its application there is above the latest version,
\* which is that of the cnmt if this is a patch.
LatestInv ==
    Chosen => /\ Cnmt.key.version <= latest
              /\ Cnmt.key.type = "Patch" => latest = Cnmt.key.version
              /\ \A s \in Storages : Heard(s) =>
                   \A e \in db[s] : PatchOf(e, Cnmt.key.app) => e.key.version <= latest

ConsoleInv ==
    /\ StorageMaps /\ contents = [s \in Storages |-> contents[s]]
    /\ DbKnown /\ VictimInv /\ RegisterInv /\ LatestInv

\* The highest of some versions.
LEMMA HighestIs ==
    ASSUME NEW max \in Nat, NEW S \in SUBSET (0 .. max), S # {}
    PROVE  HighestOf(S) \in S /\ \A m \in S : m <= HighestOf(S)
  <1> DEFINE T == {max - n : n \in S}
  <1>1. \A n \in S : max - n \in Nat
    OBVIOUS
  <1>2. T \in SUBSET Nat /\ T # {}
    <2>1. T \in SUBSET Nat
      BY <1>1
    <2>2. PICK n \in S : TRUE
      OBVIOUS
    <2>3. max - n \in T
      BY <2>2
    <2> QED BY <2>1, <2>3
  <1> HIDE DEF T
  <1>3. PICK i \in T : \A j \in T : i <= j
    BY <1>2, LeastMember
  <1>4. PICK n \in S : i = max - n
    BY DEF T
  <1>5. \A m \in S : max - m \in T
    BY DEF T
  <1>6. \A m \in S : m <= n
    BY <1>3, <1>4, <1>5
  <1>7. \E k \in S : \A m \in S : m <= k
    BY <1>6
  <1> QED BY <1>7 DEF HighestOf

\* A cnmt that was parsed would make an entry that is known.
LEMMA CnmtKnown ==
    ASSUME Formats, JobInv, NEW i \in 1 .. Len(parsed)
    PROVE  /\ pkg \in Packages /\ parsed[i] \in Titles(pkg) /\ EntryOf(parsed[i]) \in Known
           /\ parsed[i].key.version \in Nat
  <1>1. parsed[i] \in Titles(pkg)
    BY DEF JobInv, JobTypes
  <1>2. pkg \in Packages
    <2>1. ASSUME pkg = <<>> PROVE FALSE
      <3>1. Range(pkg) = {}
        BY <2>1 DEF Range
      <3> QED BY <1>1, <3>1 DEF Titles
    <2> QED BY <2>1 DEF JobInv, JobTypes
  <1>3. EntryOf(parsed[i]) \in Known
    <2> DEFINE C == UNION {Titles(p) : p \in Packages}
               D == UNION {d.db["nand"] \cup d.db["sd"] : d \in Devices}
               E == {EntryOf(c) : c \in C}
    <2>1. parsed[i] \in C
      BY <1>1, <1>2
    <2>2. Known = D \cup E
      BY DEF Known
    <2> HIDE DEF C, D
    <2>3. EntryOf(parsed[i]) \in E
      BY <2>1
    <2> HIDE DEF E
    <2> QED BY <2>2, <2>3
  <1>4. EntryOf(parsed[i]).key = parsed[i].key
    BY DEF EntryOf
  <1>5. parsed[i].key.version \in Nat
    BY <1>3, <1>4 DEF Formats
  <1> QED BY <1>1, <1>2, <1>3, <1>5

LEMMA CurrentKnown ==
    ASSUME Formats, JobInv, pc \in Committing
    PROVE  /\ cur \in 1 .. Len(parsed) /\ Cnmt = parsed[cur] /\ EntryOf(Cnmt) \in Known
           /\ NewEntry = EntryOf(Cnmt) /\ Cnmt.key.version \in Nat
           /\ pkg \in Packages /\ Cnmt \in Titles(pkg) /\ parsed # <<>>
  <1>1. cur \in 1 .. Len(parsed) /\ Len(parsed) \in Nat
    BY DEF JobInv, JobTypes
  <1>2. Cnmt = parsed[cur] /\ NewEntry = EntryOf(Cnmt)
    BY DEF Cnmt, NewEntry, EntryOf
  <1>3. parsed # <<>>
    BY <1>1
  <1> QED BY <1>1, <1>2, <1>3, CnmtKnown

\* What the list of keys leaves out is a storage.
LEMMA ListedIs ==
    ASSUME NEW app, NEW lost \in SUBSET Storages, NEW k
    PROVE  k \in Listed(app, lost)
             <=> \E s \in Storages \ lost : \E e \in db[s] : e.key.app = app /\ e.key = k
  <1> DEFINE d == [s \in Storages |-> IF s \in lost THEN {} ELSE db[s]]
  <1>1. \A s \in Storages : d[s] = IF s \in lost THEN {} ELSE db[s]
    OBVIOUS
  <1>2. Listed(app, lost) = KeysOf(d, app)
    BY DEF Listed
  <1> HIDE DEF d
  <1>3. k \in KeysOf(d, app) <=> \E e \in d["nand"] \cup d["sd"] : e.key.app = app /\ e.key = k
    BY DEF KeysOf
  <1>4. \A e : e \in d["nand"] \cup d["sd"] <=> \E s \in Storages \ lost : e \in db[s]
    BY <1>1 DEF Storages
  <1> QED BY <1>2, <1>3, <1>4

\* When the title is chosen no patch that was listed is above it, and the latest
\* is not below.
LEMMA DecideLatest ==
    ASSUME Formats, JobInv, ConsoleInv, Decide, pc' \in {"install", "import"}
    PROVE  LatestInv'
  <1>1. PICK lost \in SUBSET Storages :
          /\ unlisted' = unlisted \cup ({Cnmt.key} \X lost)
          /\ latest' = LatestVersion(Cnmt, lost) /\ ~ShouldSkip(Cnmt, lost)
    <2>1. ASSUME Advance PROVE pc' \in {"decide", "cleanup"}
      BY <2>1 DEF Advance
    <2> QED BY <2>1 DEF Decide
  <1>2. /\ pc = "decide" /\ UNCHANGED <<db, parsed, cur>>
    <2>1. ASSUME Advance PROVE pc' \in {"decide", "cleanup"}
      BY <2>1 DEF Advance
    <2> QED BY <2>1 DEF Decide, device, meta, scan
  <1>9. Cnmt' = Cnmt
    BY <1>2 DEF Cnmt
  <1> DEFINE c == Cnmt
             S == {c.key.version} \cup {k.version : k \in Listed(c.key.app, lost)}
  <1>0. PICK max \in Nat : \A e \in Known : e.key.version \in 0 .. max
    BY DEF Formats
  <1>3. c.key.version \in 0 .. max
    <2>1. EntryOf(c) \in Known /\ EntryOf(c).key = c.key
      BY <1>2, CurrentKnown DEF Committing, EntryOf
    <2> QED BY <1>0, <2>1
  <1>4. ASSUME NEW k \in Listed(c.key.app, lost) PROVE k.version \in 0 .. max
    <2>1. PICK s \in Storages : \E e \in db[s] : e.key = k
      <3> HIDE DEF c
      <3> QED BY ListedIs
    <2>2. PICK e \in Known : e.key = k
      BY <2>1 DEF ConsoleInv, DbKnown
    <2> QED BY <1>0, <2>1, <2>2
  <1>5. S \in SUBSET (0 .. max) /\ S # {}
    BY <1>3, <1>4
  <1>6. HighestOf(S) \in S /\ \A m \in S : m <= HighestOf(S)
    <2> HIDE DEF S
    <2> QED BY <1>5, HighestIs
  \* What is heard of is listed.
  <1>10. ASSUME NEW s \in Storages, Heard(s)', NEW e \in db[s], PatchOf(e, c.key.app)
         PROVE  e.key \in Listed(c.key.app, lost) /\ e.key.type = "Patch"
    <2>1. <<c.key, s>> \notin unlisted'
      BY <1>9, <1>10 DEF Heard
    <2>2. s \notin lost
      BY <1>1, <2>1
    <2>3. e.key.app = c.key.app /\ e.key.type = "Patch"
      BY <1>10 DEF PatchOf
    <2> HIDE DEF c
    <2> QED BY <2>2, <2>3, ListedIs
  <1>7. CASE c.key.type = "Patch"
    <2>1. latest' = c.key.version
      BY <1>1, <1>7 DEF LatestVersion
    <2>2. ASSUME NEW s \in Storages, Heard(s)', NEW e \in db[s], PatchOf(e, c.key.app)
          PROVE  e.key.version <= c.key.version
      <3>1. e.key \in Listed(c.key.app, lost) /\ e.key.type = "Patch"
        BY <1>10, <2>2
      <3>2. ~(e.key.version > c.key.version)
        BY <1>1, <1>7, <3>1 DEF ShouldSkip
      <3>3. e.key.version \in 0 .. max
        BY <1>4, <3>1
      <3> HIDE DEF c
      <3> QED BY <1>3, <3>2, <3>3
    <2>3. c.key.version <= c.key.version
      <3> HIDE DEF c
      <3> QED BY <1>3
    <2> QED BY <1>2, <1>9, <2>1, <2>2, <2>3 DEF LatestInv
  <1>8. CASE c.key.type # "Patch"
    <2>1. latest' = HighestOf(S)
      BY <1>1, <1>8 DEF LatestVersion
    <2>2. ASSUME NEW s \in Storages, Heard(s)', NEW e \in db[s], PatchOf(e, c.key.app)
          PROVE  e.key.version \in S
      <3>1. e.key \in Listed(c.key.app, lost)
        BY <1>10, <2>2
      <3> QED BY <3>1
    <2>3. c.key.version \in S
      OBVIOUS
    <2> HIDE DEF S
    <2> QED BY <1>2, <1>6, <1>8, <1>9, <2>1, <2>2, <2>3 DEF LatestInv
  <1> QED BY <1>7, <1>8

-----------------------------------------------------------------------------
(* The invariant of the console, action by action *)

\* What a step that is not about them keeps.
LEMMA VictimKept ==
    ASSUME VictimInv, UNCHANGED <<victim, parsed, cur, skipped>>,
           pc' \in {"delete", "removeCommit"} => pc \in {"delete", "removeCommit"}
    PROVE  VictimInv'
  <1>1. Cnmt' = Cnmt
    BY DEF Cnmt
  <1> QED BY <1>1 DEF VictimInv, EntryOf, NcaIds, SameTitle

LEMMA RegisterKept ==
    ASSUME RegisterInv, UNCHANGED <<toRegister, parsed, cur, skipped>>,
           pc' \in {"register", "move"} => pc \in {"register", "move"},
           pc' = "move" => toRegister # <<>>
    PROVE  RegisterInv'
  <1>1. Cnmt' = Cnmt
    BY DEF Cnmt
  <1> QED BY <1>1 DEF RegisterInv, EntryOf, NcaIds

LEMMA LatestKept ==
    ASSUME LatestInv, UNCHANGED <<parsed, cur, latest, unlisted>>, Chosen' => Chosen,
           \A s \in Storages : \A e \in db'[s] : e \in db[s] \/ (Chosen /\ e.key = Cnmt.key),
           pc' \in {"register", "move", "commit", "push", "launch"}
             => pc \in {"register", "move", "commit", "push", "launch"}
    PROVE  LatestInv'
  <1>1. Cnmt' = Cnmt
    BY DEF Cnmt
  <1>2. \A s \in Storages : Heard(s)' => Heard(s)
    BY <1>1 DEF Heard
  <1> QED BY <1>1, <1>2 DEF LatestInv

\* A step that changes neither database nor content.
LEMMA QuietConsole ==
    ASSUME ConsoleInv,
           UNCHANGED <<contents, db, disk, victim, toRegister, parsed, cur, latest, mode, unlisted>>,
           pc' \in {"delete", "removeCommit"} => pc \in {"delete", "removeCommit"} /\ UNCHANGED skipped,
           pc' \in {"register", "move"} => pc \in {"register", "move"} /\ UNCHANGED skipped,
           pc' = "move" => toRegister # <<>>,
           Chosen' => Chosen,
           pc' \in {"register", "move", "commit", "push", "launch"}
             => pc \in {"register", "move", "commit", "push", "launch"}
    PROVE  ConsoleInv'
  <1> USE DEF ConsoleInv
  <1>1. VictimInv'
    BY VictimKept DEF VictimInv
  <1>2. RegisterInv'
    BY RegisterKept DEF RegisterInv
  <1>3. LatestInv'
    BY LatestKept
  <1>4. (StorageMaps /\ contents = [s \in Storages |-> contents[s]] /\ DbKnown)'
    BY DEF StorageMaps, DbKnown
  <1> QED BY <1>1, <1>2, <1>3, <1>4

\* A step outside the removal, the registration and what is chosen.
LEMMA UnchosenConsole ==
    ASSUME ConsoleInv, UNCHANGED <<contents, disk>>, db' \in {db, disk}, ~Chosen'
    PROVE  ConsoleInv'
  <1>1. pc' \notin {"delete", "removeCommit", "register", "move"}
    BY DEF Chosen
  <1> QED BY <1>1 DEF ConsoleInv, StorageMaps, DbKnown, VictimInv, RegisterInv, LatestInv

LEMMA RemoveNextConsole == ASSUME ConsoleInv, RemoveNext PROVE ConsoleInv'
  <1> USE DEF ConsoleInv
  <1>1. /\ pc = "remove" /\ pc' = "delete"
        /\ UNCHANGED <<contents, db, disk, toRegister, parsed, cur, latest, unlisted, skipped>>
    BY DEF RemoveNext, device, storage, meta, scan, book
  <1>2. PICK s \in Storages : \E e \in Replaced(s) : victim' = [in |-> s, key |-> e.key, left |-> ToDelete(e)]
    BY DEF RemoveNext
  <1>3. PICK e \in Replaced(s) : victim' = [in |-> s, key |-> e.key, left |-> ToDelete(e)]
    BY <1>2
  <1>4. Cnmt' = Cnmt
    BY <1>1 DEF Cnmt
  <1>5. VictimInv'
    <2>1. e \in Known
      BY DEF Replaced, DbKnown
    <2>2. SameTitle(e.key, Cnmt.key)
      BY DEF Replaced, SameTitle
    <2>3. ToDelete(e) = e.infos \ (skipped \cap EntryOf(Cnmt).infos)
      BY DEF ToDelete, EntryOf
    <2>4. victim'.in = s /\ victim'.key = e.key /\ victim'.left = ToDelete(e)
      BY <1>3
    <2>5. EntryOf(Cnmt)' = EntryOf(Cnmt)
      BY <1>4 DEF EntryOf, NcaIds
    <2>6. SameTitle(victim.key, Cnmt.key)'
      BY <1>4, <2>2, <2>4 DEF SameTitle
    <2> QED BY <1>1, <1>3, <2>1, <2>3, <2>4, <2>5, <2>6 DEF VictimInv
  <1>6. RegisterInv'
    BY <1>1, RegisterKept
  <1>7. LatestInv'
    BY <1>1, LatestKept DEF Chosen
  <1>8. (StorageMaps /\ contents = [t \in Storages |-> contents[t]] /\ DbKnown)'
    BY <1>1 DEF StorageMaps, DbKnown
  <1> QED BY <1>5, <1>6, <1>7, <1>8

LEMMA DeleteConsole == ASSUME ConsoleInv, DeleteContent PROVE ConsoleInv'
  <1> USE DEF ConsoleInv
  <1>1. /\ pc = "delete" /\ pc' = "delete"
        /\ UNCHANGED <<db, disk, toRegister, parsed, cur, latest, unlisted, skipped>>
    BY DEF DeleteContent, meta, scan, book
  <1>2. PICK c \in victim.left : /\ contents' = [contents EXCEPT ![victim.in] = @ \ {c}]
                                 /\ victim' = [victim EXCEPT !.left = @ \ {c}]
    BY DEF DeleteContent
  <1>3. Cnmt' = Cnmt
    BY <1>1 DEF Cnmt
  <1>4. victim = [in |-> victim.in, key |-> victim.key, left |-> victim.left]
    BY <1>1 DEF VictimInv
  <1>5. victim' = [in |-> victim.in, key |-> victim.key, left |-> victim.left \ {c}]
    BY <1>2, <1>4
  <1>6. VictimInv'
    <2>1. EntryOf(Cnmt)' = EntryOf(Cnmt)
      BY <1>3 DEF EntryOf, NcaIds
    <2>2. /\ victim'.in = victim.in /\ victim'.key = victim.key /\ victim'.left = victim.left \ {c}
          /\ victim' = [in |-> victim'.in, key |-> victim'.key, left |-> victim'.left]
      BY <1>5
    <2>3. SameTitle(victim.key, Cnmt.key)'
      BY <1>1, <1>3, <2>2 DEF VictimInv, SameTitle
    <2>4. PICK e \in Known : e.key = victim.key /\ victim.left \subseteq e.infos \ (skipped \cap EntryOf(Cnmt).infos)
      BY <1>1 DEF VictimInv
    <2>5. e.key = victim'.key /\ victim'.left \subseteq e.infos \ (skipped' \cap EntryOf(Cnmt)'.infos)
      BY <1>1, <2>1, <2>2, <2>4
    <2>6. victim'.in \in Storages
      BY <1>1, <2>2 DEF VictimInv
    <2> QED BY <2>2, <2>3, <2>5, <2>6 DEF VictimInv
  <1>7. RegisterInv'
    BY <1>1, RegisterKept
  <1>8. LatestInv'
    BY <1>1, LatestKept DEF Chosen
  <1>9. (StorageMaps /\ contents = [t \in Storages |-> contents[t]] /\ DbKnown)'
    BY <1>1, <1>2 DEF StorageMaps, DbKnown
  <1> QED BY <1>6, <1>7, <1>8, <1>9

LEMMA RemoveKeyConsole == ASSUME ConsoleInv, RemoveKey PROVE ConsoleInv'
  <1> USE DEF ConsoleInv
  <1>1. /\ pc = "delete" /\ pc' = "removeCommit"
        /\ db' = [db EXCEPT ![victim.in] = {e \in @ : e.key # victim.key}]
        /\ UNCHANGED <<contents, disk, toRegister, parsed, cur, latest, unlisted, skipped, victim>>
    BY DEF RemoveKey, storage, job, scan, plan, book
  <1>2. StorageMaps' /\ \A s \in Storages : db'[s] \subseteq db[s]
    BY <1>1 DEF StorageMaps, Storages
  <1>4. LatestInv'
    BY <1>1, <1>2, LatestKept DEF Chosen
  <1>5. VictimInv' /\ RegisterInv'
    BY <1>1, VictimKept, RegisterKept
  <1>6. (contents = [t \in Storages |-> contents[t]] /\ DbKnown)'
    BY <1>1, <1>2 DEF DbKnown
  <1> QED BY <1>2, <1>4, <1>5, <1>6

LEMMA CommitRemovalConsole == ASSUME ConsoleInv, CommitRemoval PROVE ConsoleInv'
  <1> USE DEF ConsoleInv
  <1>1. /\ pc = "removeCommit" /\ pc' = "remove"
        /\ disk' = [disk EXCEPT ![victim.in] = db[victim.in]]
        /\ UNCHANGED <<contents, db, toRegister, parsed, cur, latest, unlisted, skipped>>
    BY DEF CommitRemoval, storage, scan, book
  <1>2. victim.in \in Storages
    BY <1>1 DEF VictimInv
  <1>3. StorageMaps' /\ DbKnown'
    BY <1>1, <1>2 DEF StorageMaps, DbKnown
  <1>4. LatestInv'
    BY <1>1, LatestKept DEF Chosen
  <1>5. VictimInv' /\ RegisterInv'
    BY <1>1, RegisterKept DEF VictimInv
  <1>6. (contents = [t \in Storages |-> contents[t]])'
    BY <1>1
  <1> QED BY <1>3, <1>4, <1>5, <1>6

LEMMA CommitMetaConsole == ASSUME ConsoleInv, CommitMeta PROVE ConsoleInv'
  <1> USE DEF ConsoleInv
  <1>1. /\ pc = "commit" /\ pc' = "push"
        /\ disk' = [disk EXCEPT ![Dest] = db[Dest]]
        /\ UNCHANGED <<contents, db, toRegister, parsed, cur, latest, unlisted, skipped, victim>>
    BY DEF CommitMeta, storage, job, scan, plan, book
  <1>2. StorageMaps' /\ DbKnown'
    BY <1>1 DEF StorageMaps, DbKnown, Dest, Storages
  <1>3. LatestInv'
    BY <1>1, LatestKept DEF Chosen
  <1>4. VictimInv' /\ RegisterInv'
    BY <1>1, VictimKept, RegisterKept
  <1>5. (contents = [t \in Storages |-> contents[t]])'
    BY <1>1
  <1> QED BY <1>2, <1>3, <1>4, <1>5

LEMMA SeqNarrows ==
    ASSUME NEW A, NEW B, NEW s \in Seq(A), \A i \in 1 .. Len(s) : s[i] \in B
    PROVE  s \in Seq(B)
  OBVIOUS

HasAll(s, S) == \A x \in S : \E i \in 1 .. Len(s) : s[i] = x

\* Of a sequence that has all of I, what is not to be left out.
LEMMA KeptOthers ==
    ASSUME NEW I, NEW ids \in Seq(I), NEW out, NEW S
    PROVE  S = Range(ids) \ out =>
             Kept(ids, S) \in Seq(I \ out) /\ (HasAll(ids, I) => HasAll(Kept(ids, S), I \ out))
  <1>1. /\ Kept(ids, S) \in Seq(I)
        /\ \A x : (\E i \in 1 .. Len(Kept(ids, S)) : Kept(ids, S)[i] = x)
                    <=> (x \in S /\ \E i \in 1 .. Len(ids) : ids[i] = x)
        /\ Unrepeated(ids) => Unrepeated(Kept(ids, S))
    BY KeptKeeps
  <1> DEFINE kept == Kept(ids, S)
  <1> HIDE DEF kept
  <1>2. /\ kept \in Seq(I)
        /\ \A x : (\E i \in 1 .. Len(kept) : kept[i] = x) <=> (x \in S /\ \E i \in 1 .. Len(ids) : ids[i] = x)
    BY <1>1 DEF kept
  <1> SUFFICES ASSUME S = Range(ids) \ out
               PROVE  kept \in Seq(I \ out) /\ (HasAll(ids, I) => HasAll(kept, I \ out))
    BY DEF kept
  <1>3. \A x : x \in S <=> x \notin out /\ \E i \in 1 .. Len(ids) : ids[i] = x
    BY DEF Range
  <1>4. kept \in Seq(I \ out)
    <2>1. \A i \in 1 .. Len(kept) : kept[i] \in I \ out
      BY <1>2, <1>3
    <2> QED BY <1>2, <2>1, SeqNarrows
  <1>5. HasAll(ids, I) => HasAll(kept, I \ out)
    BY <1>2, <1>3 DEF HasAll
  <1> QED BY <1>4, <1>5

\* A first element and the rest.
LEMMA FirstAndRest ==
    ASSUME NEW I, NEW one \in Seq(I), NEW rest \in Seq(I)
    PROVE  /\ one \o rest \in Seq(I)
           /\ Len(one) = 1 /\ HasAll(rest, I \ {one[1]}) => HasAll(one \o rest, I)
  <1> DEFINE ids == one \o rest
  <1>1. /\ ids \in Seq(I) /\ Len(ids) = Len(one) + Len(rest)
        /\ \A i \in 1 .. Len(one) : ids[i] = one[i]
        /\ \A i \in 1 .. Len(rest) : ids[Len(one) + i] = rest[i]
    OBVIOUS
  <1> HIDE DEF ids
  <1>2. ASSUME Len(one) = 1, HasAll(rest, I \ {one[1]}), NEW id \in I
        PROVE  \E i \in 1 .. Len(ids) : ids[i] = id
    <2>0. Len(rest) \in Nat
      OBVIOUS
    <2>1. CASE id = one[1]
      BY <1>1, <1>2, <2>0, <2>1
    <2>2. CASE id # one[1]
      <3>1. PICK i \in 1 .. Len(rest) : rest[i] = id
        BY <1>2, <2>2 DEF HasAll
      <3>2. 1 + i \in 1 .. Len(ids) /\ ids[1 + i] = id
        BY <1>1, <1>2, <2>0, <3>1
      <3> QED BY <3>2
    <2> QED BY <2>1, <2>2
  <1>3. Len(one) = 1 /\ HasAll(rest, I \ {one[1]}) => HasAll(ids, I)
    BY <1>2 DEF HasAll
  <1> QED BY <1>1, <1>3 DEF ids

\* Every content of the cnmt that is not skipped is registered, and no other.
LEMMA RemoveDoneConsole ==
    ASSUME Formats, JobInv, ConsoleInv, RemoveDone
    PROVE  /\ ConsoleInv'
           /\ HasAll(toRegister', EntryOf(Cnmt).infos \ skipped)
  <1> USE DEF ConsoleInv
  <1>1. /\ pc = "remove" /\ pc' = "register"
        /\ UNCHANGED <<contents, db, disk, parsed, cur, latest, skipped, victim>>
    BY DEF RemoveDone, device, storage, meta, scan
  <1>2. /\ pkg \in Packages /\ Cnmt \in Titles(pkg)
    BY <1>1, CurrentKnown DEF Committing
  <1>3. PICK ncas \in Ncas(Cnmt) :
            LET ids == <<Cnmt.id>> \o [i \in 1 .. Len(ncas) |-> ncas[i].id]
            IN toRegister' = Kept(ids, Range(ids) \ skipped)
    BY DEF RemoveDone
  <1> DEFINE I == EntryOf(Cnmt).infos
             one == <<Cnmt.id>>
             rest == [i \in 1 .. Len(ncas) |-> ncas[i].id]
             ids == one \o rest
  <1>4. toRegister' = Kept(ids, Range(ids) \ skipped)
    BY <1>3
  <1>5. I = {Cnmt.id} \cup NcaIds(Cnmt)
    BY DEF EntryOf
  <1>6. /\ Len(ncas) \in Nat
        /\ \A i \in 1 .. Len(ncas) : ncas[i].id \in NcaIds(Cnmt)
        /\ \A id \in NcaIds(Cnmt) : \E i \in 1 .. Len(ncas) : ncas[i].id = id
    BY <1>2, NcasKept
  <1>11. \A i \in 1 .. Len(ncas) : ncas[i].id \in I
    BY <1>5, <1>6
  <1>12. Cnmt.id \in I
    BY <1>5
  <1> HIDE DEF I
  <1>13. one \in Seq(I) /\ Len(one) = 1 /\ one[1] = Cnmt.id
    BY <1>12
  <1>14. rest \in Seq(I) /\ Len(rest) = Len(ncas) /\ \A i \in 1 .. Len(ncas) : rest[i] = ncas[i].id
    BY <1>6, <1>11
  <1> HIDE DEF one, rest
  <1>15. HasAll(rest, I \ {one[1]})
    BY <1>5, <1>6, <1>13, <1>14 DEF HasAll
  <1>16. ids \in Seq(I) /\ HasAll(ids, I)
    <2>1. one \in Seq(I) /\ rest \in Seq(I)
      BY <1>13, <1>14
    <2>2. one \o rest \in Seq(I) /\ (Len(one) = 1 /\ HasAll(rest, I \ {one[1]}) => HasAll(one \o rest, I))
      BY <2>1, FirstAndRest
    <2> QED BY <1>13, <1>15, <2>2
  <1> HIDE DEF ids
  <1> DEFINE S == Range(ids) \ skipped
  <1>17. Kept(ids, S) \in Seq(I \ skipped) /\ HasAll(Kept(ids, S), I \ skipped)
    <2>1. S = Range(ids) \ skipped
      OBVIOUS
    <2> HIDE DEF S
    <2>2. Kept(ids, S) \in Seq(I \ skipped) /\ (HasAll(ids, I) => HasAll(Kept(ids, S), I \ skipped))
      BY <1>16, <2>1, KeptOthers
    <2> QED BY <1>16, <2>2
  <1>18. /\ toRegister' \in Seq(EntryOf(Cnmt).infos \ skipped)
         /\ HasAll(toRegister', EntryOf(Cnmt).infos \ skipped)
    BY <1>4, <1>17 DEF I
  <1>7. Cnmt' = Cnmt
    BY <1>1 DEF Cnmt
  <1>8. RegisterInv'
    BY <1>1, <1>18, <1>7 DEF RegisterInv, EntryOf, NcaIds
  <1>9. LatestInv'
    <2>1. Chosen /\ Chosen' /\ unlisted' = unlisted
      BY <1>1 DEF Chosen, RemoveDone, book
    <2>2. ASSUME Cnmt.key.type = "Patch", NEW s \in Storages, NEW e \in db[s]
          PROVE  ~PatchOf(e, Cnmt.key.app)
      BY <2>2 DEF RemoveDone, Replaced, PatchOf
    <2>3. \A s \in Storages : Heard(s)' => Heard(s) \/ Cnmt.key.type = "Patch"
      BY <1>7, <2>1 DEF Heard
    <2> QED BY <1>1, <1>7, <2>1, <2>2, <2>3 DEF LatestInv
  <1>19. VictimInv'
    BY <1>1 DEF VictimInv
  <1>10. (StorageMaps /\ contents = [t \in Storages |-> contents[t]] /\ DbKnown)'
    BY <1>1 DEF StorageMaps, DbKnown
  <1> QED BY <1>8, <1>9, <1>10, <1>18, <1>19

LEMMA RegisterConsole ==
    ASSUME ConsoleInv, RegisterDelete \/ RegisterMove
    PROVE  ConsoleInv'
  <1> USE DEF ConsoleInv
  <1>1. /\ pc \in {"register", "move"} /\ pc' \in {"register", "move", "fail"}
        /\ pc' = "move" => toRegister # <<>> /\ toRegister' = toRegister
        /\ toRegister' = toRegister \/ (pc = "move" /\ toRegister' = Tail(toRegister))
        /\ UNCHANGED <<db, disk, parsed, cur, latest, unlisted, skipped, victim>>
        /\ contents' = contents \/ \E S : contents' = [contents EXCEPT ![Dest] = S]
    BY DEF RegisterDelete, RegisterMove, meta, job, scan, plan, storage, book
  <1>2. Cnmt' = Cnmt
    BY <1>1 DEF Cnmt
  <1>3. RegisterInv'
    <2> DEFINE I == EntryOf(Cnmt).infos \ skipped
    <2>1. toRegister \in Seq(I) /\ (pc = "move" => toRegister # <<>>)
      BY <1>1 DEF RegisterInv
    <2> HIDE DEF I
    <2>2. toRegister' \in Seq(I)
      BY <1>1, <2>1
    <2>3. I' = I
      BY <1>1, <1>2 DEF I, EntryOf, NcaIds
    <2>4. toRegister' \in Seq(EntryOf(Cnmt).infos \ skipped)'
      BY <2>2, <2>3 DEF I
    <2> QED BY <1>1, <2>4 DEF RegisterInv
  <1>4. LatestInv' /\ VictimInv'
    BY <1>1, LatestKept DEF Chosen, VictimInv
  <1>5. (StorageMaps /\ contents = [t \in Storages |-> contents[t]] /\ DbKnown)'
    BY <1>1 DEF StorageMaps, DbKnown, Dest, Storages
  <1> QED BY <1>3, <1>4, <1>5

\* The key that is set is known, and its version is not above the latest.
LEMMA SetMetaConsole ==
    ASSUME Formats, JobInv, ConsoleInv, SetMeta
    PROVE  ConsoleInv'
  <1> USE DEF ConsoleInv
  <1>1. /\ pc = "register" /\ pc' = "commit"
        /\ db' = [db EXCEPT !["sd"] = {e \in @ : e.key # Cnmt.key} \cup {NewEntry}]
        /\ UNCHANGED <<contents, disk, toRegister, parsed, cur, latest, unlisted, skipped, victim>>
    BY DEF SetMeta, storage, job, scan, plan, book, Dest
  <1>2. StorageMaps' /\ db'["nand"] = db["nand"]
        /\ db'["sd"] = {e \in db["sd"] : e.key # Cnmt.key} \cup {NewEntry}
    BY <1>1 DEF StorageMaps, Storages
  <1>3. NewEntry \in Known /\ NewEntry.key = Cnmt.key
    BY <1>1, CurrentKnown DEF Committing, NewEntry
  <1>4. DbKnown'
    BY <1>1, <1>2, <1>3 DEF DbKnown, Storages
  <1>5. \A s \in Storages : \A e \in db'[s] : e \in db[s] \/ e.key = Cnmt.key
    BY <1>2, <1>3 DEF Storages
  <1>6. LatestInv'
    BY <1>1, <1>5, LatestKept DEF Chosen
  <1>7. VictimInv' /\ RegisterInv' /\ (contents = [t \in Storages |-> contents[t]])'
    BY <1>1 DEF VictimInv, RegisterInv
  <1> QED BY <1>2, <1>4, <1>6, <1>7

LEMMA DecideConsole ==
    ASSUME Formats, JobInv, ConsoleInv, Decide
    PROVE  ConsoleInv'
  <1>1. /\ pc = "decide" /\ pc' \in {"install", "import", "decide", "cleanup"}
        /\ UNCHANGED <<contents, db, disk, toRegister, parsed, skipped, victim, mode>>
    BY DEF Decide, Advance, device, storage, meta, scan, fixed
  <1>2. CASE pc' \in {"decide", "cleanup"}
    <2>1. ~Chosen'
      BY <1>2 DEF Chosen, Taking
    <2> QED BY <1>1, <2>1, UnchosenConsole
  <1>3. CASE pc' \in {"install", "import"}
    <2>1. LatestInv'
      BY <1>3, DecideLatest
    <2>2. VictimInv' /\ RegisterInv'
      BY <1>3 DEF VictimInv, RegisterInv
    <2> QED BY <1>1, <2>1, <2>2 DEF ConsoleInv, StorageMaps, DbKnown
  <1> QED BY <1>1, <1>2, <1>3

\* The steps before the decision and between it and the removal.
LEMMA EntryConsole ==
    ASSUME JobInv, ConsoleInv,
           SkipInstalled \/ CreatePlaceHolder \/ FillPlaceHolder \/ ReadTicketData \/ EntriesDone
             \/ ImportTicket \/ TicketsDone
    PROVE  ConsoleInv'
  <1>1. UNCHANGED <<contents, db, disk, toRegister, parsed, cur, latest, victim, mode, unlisted>>
    BY DEF SkipInstalled, CreatePlaceHolder, FillPlaceHolder, ReadTicketData, EntriesDone, ImportTicket,
           TicketsDone, device, storage, meta, job, scan, fixed, plan, book
  <1>2. /\ pc' \notin {"delete", "removeCommit", "register", "move", "commit", "push", "launch"}
        /\ Chosen' => Chosen
    <2>1. CASE SkipInstalled \/ CreatePlaceHolder \/ FillPlaceHolder \/ ReadTicketData
      <3>1. pc \in Taking /\ pc' \in Taking \cup {"parse", "fail"}
        BY <2>1 DEF SkipInstalled, CreatePlaceHolder, FillPlaceHolder, ReadTicketData, AfterEntry, Taking
      <3> QED BY <1>1, <3>1 DEF Chosen, Taking
    <2>2. CASE EntriesDone
      <3>1. /\ pc = "install" /\ todo = <<>>
            /\ pc' = IF mode = "file" THEN "import" ELSE IF parsed = <<>> THEN "cleanup" ELSE "decide"
        BY <2>2 DEF EntriesDone
      <3>2. mode = "file" => Len(parsed) = cur
        <4>1. todo # <<Cnmts[cur]>>
          BY <3>1
        <4> QED BY <3>1, <4>1 DEF JobInv, InFile, Taking
      <3> QED BY <1>1, <3>1, <3>2 DEF Chosen, Taking
    <2>3. CASE ImportTicket \/ TicketsDone
      <3>1. pc = "import" /\ pc' \in {"import", "fail", "remove"}
        BY <2>3 DEF ImportTicket, TicketsDone
      <3> QED BY <3>1 DEF Chosen, Taking
    <2> QED BY <2>1, <2>2, <2>3
  <1> QED BY <1>1, <1>2, QuietConsole

LEMMA NextConsole ==
    ASSUME Formats, JobInv, ConsoleInv, [Next]_vars
    PROVE  ConsoleInv'
  <1>1. ASSUME NEW p \in Packages, NEW m \in Modes, Begin(p, m) PROVE ConsoleInv'
    <2>1. /\ pc' \in {"install", "cleanup", "fail"} /\ parsed' = <<>> /\ cur' = 1
          /\ UNCHANGED <<contents, db, disk>>
      BY <1>1 DEF Begin, device, storage, meta
    <2>2. ~Chosen'
      BY <2>1 DEF Chosen, Taking
    <2> QED BY <2>1, <2>2, UnchosenConsole
  <1>2. CASE SkipInstalled \/ CreatePlaceHolder \/ FillPlaceHolder \/ ReadTicketData \/ EntriesDone
               \/ ImportTicket \/ TicketsDone
    BY <1>2, EntryConsole
  <1>3. CASE ParseCnmt
    <2>1. /\ pc = "parse" /\ UNCHANGED <<contents, db, disk, mode>>
          /\ pc' \in {"decide", "install", "fail"} /\ (pc' = "install" => mode # "file")
      BY <1>3 DEF ParseCnmt, device, storage, meta, fixed
    <2>2. ~Chosen'
      BY <2>1 DEF Chosen, Taking
    <2> QED BY <2>1, <2>2, UnchosenConsole
  <1>4. CASE Decide
    BY <1>4, DecideConsole
  <1>5. CASE RemoveNext \/ DeleteContent \/ RemoveKey \/ CommitRemoval
    BY <1>5, RemoveNextConsole, DeleteConsole, RemoveKeyConsole, CommitRemovalConsole
  <1>6. CASE RemoveDone
    BY <1>6, RemoveDoneConsole
  <1>7. CASE RegisterDelete \/ RegisterMove
    BY <1>7, RegisterConsole
  <1>8. CASE SetMeta \/ CommitMeta
    BY <1>8, SetMetaConsole, CommitMetaConsole
  <1>9. CASE PushRecord
    <2>1. /\ pc = "push" /\ pc' = "launch"
          /\ UNCHANGED <<contents, db, disk, victim, toRegister, parsed, cur, latest, mode, unlisted>>
      BY <1>9 DEF PushRecord, job, storage, meta, scan, plan, fixed, book
    <2> QED BY <2>1, QuietConsole DEF Chosen
  <1>10. CASE PushLaunchVersion
    <2>1. pc' \in {"decide", "cleanup"} /\ UNCHANGED <<contents, db, disk>>
      BY <1>10 DEF PushLaunchVersion, Advance, storage, meta
    <2>2. ~Chosen'
      BY <2>1 DEF Chosen, Taking
    <2> QED BY <2>1, <2>2, UnchosenConsole
  <1>11. CASE Cleanup
    <2>1. UNCHANGED <<contents, db, disk, parsed, mode>> /\ pc \in {"cleanup", "fail"}
      BY <1>11 DEF Cleanup, meta, scan, fixed
    <2>2. ~Chosen'
      <3>1. CASE pc = "cleanup" /\ MoreCnmts
        <4>1. pc' = "install" /\ cur' = cur + 1
          BY <1>11, <3>1 DEF Cleanup
        <4>2. Len(parsed) <= cur /\ cur \in Nat /\ Len(parsed) \in Nat
          BY <3>1 DEF JobInv, JobTypes
        <4>3. Len(parsed') # cur'
          BY <2>1, <4>1, <4>2
        <4> QED BY <4>1, <4>3 DEF Chosen, Taking
      <3>2. CASE ~(pc = "cleanup" /\ MoreCnmts)
        <4>1. pc' = "idle"
          BY <1>11, <3>2 DEF Cleanup
        <4> QED BY <4>1 DEF Chosen, Taking
      <3> QED BY <3>1, <3>2
    <2> QED BY <2>1, <2>2, UnchosenConsole
  <1>12. CASE CallFails
    <2>1. pc' = "fail" /\ UNCHANGED <<contents, db, disk>>
      BY <1>12 DEF CallFails, device, storage, meta
    <2>2. ~Chosen'
      BY <2>1 DEF Chosen, Taking
    <2> QED BY <2>1, <2>2, UnchosenConsole
  <1>13. CASE Crash
    <2>1. pc' = "idle" /\ db' \in {db, disk} /\ UNCHANGED <<contents, disk>>
      BY <1>13 DEF Crash, storage
    <2>2. ~Chosen'
      BY <2>1 DEF Chosen, Taking
    <2> QED BY <2>1, <2>2, UnchosenConsole
  <1>14. CASE Idle \/ UNCHANGED vars
    <2>1. UNCHANGED <<contents, db, disk, victim, toRegister, parsed, cur, latest, mode, skipped, pc, unlisted>>
      BY <1>14 DEF Idle, vars, device, job, storage, meta, scan, plan, fixed, book
    <2>2. pc' = "move" => toRegister # <<>>
      BY <2>1 DEF ConsoleInv, RegisterInv
    <2> QED BY <2>1, <2>2, QuietConsole DEF Chosen
  <1> QED
    BY <1>1, <1>2, <1>3, <1>4, <1>5, <1>6, <1>7, <1>8, <1>9, <1>10, <1>11, <1>12, <1>13, <1>14
    DEF Next

LEMMA InitConsole == ASSUME Formats, Init PROVE ConsoleInv
  <1>1. PICK d \in Devices : contents = d.contents /\ db = d.db /\ disk = d.db
    BY DEF Init
  <1>2. d.db = [s \in Storages |-> d.db[s]] /\ d.contents = [s \in Storages |-> d.contents[s]]
    BY NcmAssumption DEF Formats
  <1>3. StorageMaps /\ contents = [s \in Storages |-> contents[s]]
    BY <1>1, <1>2 DEF StorageMaps
  <1>4. d.db["nand"] \cup d.db["sd"] \subseteq Known
    <2> DEFINE C == {EntryOf(c) : c \in UNION {Titles(p) : p \in Packages}}
               D == UNION {x.db["nand"] \cup x.db["sd"] : x \in Devices}
    <2>1. d.db["nand"] \cup d.db["sd"] \subseteq D
      OBVIOUS
    <2>2. Known = D \cup C
      BY DEF Known
    <2> HIDE DEF C, D
    <2> QED BY <2>1, <2>2
  <1>5. DbKnown
    BY <1>1, <1>4 DEF DbKnown, Storages
  <1>6. VictimInv /\ RegisterInv /\ LatestInv
    BY DEF Init, VictimInv, RegisterInv, LatestInv, Chosen, Taking
  <1> QED BY <1>3, <1>5, <1>6 DEF ConsoleInv

-----------------------------------------------------------------------------
(* What a removal and a registration reach *)

\* The steps that change what is registered.
LEMMA ContentSteps ==
    ASSUME [Next]_vars
    PROVE  UNCHANGED contents \/ DeleteContent \/ RegisterDelete \/ RegisterMove
  <1>1. ASSUME NEW p \in Packages, NEW m \in Modes, Begin(p, m) PROVE UNCHANGED contents
    BY <1>1 DEF Begin, device, storage
  <1>2. CASE SkipInstalled \/ CreatePlaceHolder \/ FillPlaceHolder \/ ReadTicketData \/ ParseCnmt \/ EntriesDone
    BY <1>2 DEF SkipInstalled, CreatePlaceHolder, FillPlaceHolder, ReadTicketData, ParseCnmt, EntriesDone,
                device, storage
  <1>3. CASE Decide \/ ImportTicket \/ TicketsDone \/ RemoveNext \/ RemoveKey \/ CommitRemoval \/ RemoveDone
    BY <1>3 DEF Decide, ImportTicket, TicketsDone, RemoveNext, RemoveKey, CommitRemoval, RemoveDone, device,
                storage
  <1>4. CASE SetMeta \/ CommitMeta \/ PushRecord \/ PushLaunchVersion \/ Cleanup \/ CallFails \/ Crash
    BY <1>4 DEF SetMeta, CommitMeta, PushRecord, PushLaunchVersion, Cleanup, CallFails, Crash, device, storage
  <1>5. CASE Idle \/ UNCHANGED vars
    BY <1>5 DEF Idle, vars, device, storage
  <1> QED BY <1>1, <1>2, <1>3, <1>4, <1>5 DEF Next

\* Every content that a step takes away belongs to the title being installed.
LEMMA TakenIsOfTitle ==
    ASSUME Formats, JobInv, ConsoleInv, [Next]_vars,
           NEW s \in Storages, NEW c \in contents[s], c \notin contents'[s]
    PROVE  /\ parsed # <<>> /\ pc \in {"delete", "register"}
           /\ \E f \in Known : c \in f.infos /\ SameTitle(f.key, Cnmt.key)
  <1>1. CASE UNCHANGED contents
    BY <1>1
  <1>2. CASE DeleteContent
    <2>1. /\ pc = "delete"
          /\ \E x \in victim.left : contents' = [contents EXCEPT ![victim.in] = @ \ {x}]
      BY <1>2 DEF DeleteContent
    <2>2. c \in victim.left
      BY <2>1 DEF ConsoleInv, Storages
    <2>3. PICK f \in Known : f.key = victim.key /\ victim.left \subseteq f.infos
      BY <2>1 DEF ConsoleInv, VictimInv
    <2>4. SameTitle(f.key, Cnmt.key)
      BY <2>1, <2>3 DEF ConsoleInv, VictimInv
    <2>5. parsed # <<>>
      BY <2>1, CurrentKnown DEF Committing
    <2> QED BY <2>1, <2>2, <2>3, <2>4, <2>5
  <1>3. CASE RegisterDelete
    <2>1. /\ pc = "register" /\ toRegister # <<>>
          /\ contents' = [contents EXCEPT ![Dest] = @ \ {Head(toRegister)}]
      BY <1>3 DEF RegisterDelete
    <2>2. c = Head(toRegister)
      BY <2>1 DEF ConsoleInv, Storages
    <2>3. toRegister \in Seq(EntryOf(Cnmt).infos \ skipped)
      BY <2>1 DEF ConsoleInv, RegisterInv
    <2>4. c \in EntryOf(Cnmt).infos
      <3> DEFINE I == EntryOf(Cnmt).infos \ skipped
      <3> HIDE DEF I
      <3>1. Head(toRegister) \in I
        BY <2>1, <2>3 DEF I
      <3> QED BY <2>2, <3>1 DEF I
    <2>5. EntryOf(Cnmt) \in Known /\ parsed # <<>>
      BY <2>1, CurrentKnown DEF Committing
    <2>6. EntryOf(Cnmt).key = Cnmt.key
      BY DEF EntryOf
    <2> QED BY <2>1, <2>4, <2>5, <2>6 DEF SameTitle
  <1>4. CASE RegisterMove
    <2>1. contents' = contents \/ \E x : contents' = [contents EXCEPT ![Dest] = @ \cup {x}]
      BY <1>4 DEF RegisterMove, storage
    <2>2. contents[s] \subseteq contents'[s]
      BY <2>1 DEF ConsoleInv, Storages
    <2> QED BY <2>2
  <1>5. UNCHANGED contents \/ DeleteContent \/ RegisterDelete \/ RegisterMove
    BY ContentSteps
  <1> QED BY <1>1, <1>2, <1>3, <1>4, <1>5

\* The two invariants together, of every behaviour.
THEOREM InstallInvariant == ASSUME Formats, OneNca PROVE Spec => [](JobInv /\ ConsoleInv)
  <1>1. Init => JobInv /\ ConsoleInv
    BY InitJob, InitConsole
  <1>2. JobInv /\ ConsoleInv /\ [Next]_vars => (JobInv /\ ConsoleInv)'
    BY NextJob, NextConsole
  <1> QED BY <1>1, <1>2, PTL DEF Spec

\* No step takes anything from a title that is whole, but from the one that is
\* being replaced: not the removals, and not the Delete in Register.
THEOREM InstalledStaysCompleteAlways ==
    ASSUME Formats, OneNca, OneOwner PROVE Spec => InstalledStaysComplete
  <1> DEFINE Step ==
        \A s \in Storages : \A e \in db[s] :
          Complete(e, s) => \/ Complete(e, s)'
                            \/ /\ parsed # <<>>
                               /\ e.key.app = Cnmt.key.app /\ e.key.type = Cnmt.key.type
                               /\ Cnmt.key.type = "Patch" \/ e.key.id = Cnmt.key.id
  <1>1. JobInv /\ ConsoleInv /\ [Next]_vars => Step
    <2> SUFFICES ASSUME JobInv, ConsoleInv, [Next]_vars, NEW s \in Storages, NEW e \in db[s],
                        Complete(e, s), ~(e.infos \subseteq contents'[s])
                 PROVE  /\ parsed # <<>>
                        /\ e.key.app = Cnmt.key.app /\ e.key.type = Cnmt.key.type
                        /\ Cnmt.key.type = "Patch" \/ e.key.id = Cnmt.key.id
      BY DEF Complete
    <2>1. PICK c \in e.infos : c \in contents[s] /\ c \notin contents'[s]
      BY DEF Complete
    <2>2. PICK f \in Known : c \in f.infos /\ SameTitle(f.key, Cnmt.key)
      BY <2>1, TakenIsOfTitle
    <2>3. parsed # <<>>
      BY <2>1, TakenIsOfTitle
    <2>4. e \in Known
      BY DEF ConsoleInv, DbKnown
    <2>5. SameTitle(e.key, f.key)
      BY <2>1, <2>2, <2>4 DEF OneOwner
    <2> QED BY <2>2, <2>3, <2>5 DEF SameTitle
  <1>3. InstalledStaysComplete <=> [][Step]_vars
    BY DEF InstalledStaysComplete
  <1> HIDE DEF Step
  <1> QED BY <1>1, <1>3, InstallInvariant, PTL DEF Spec

\* Of a storage that could be listed a patch is only ever removed for one that is
\* not older, in a stream, too, where other titles of the container came between.
THEOREM NoDowngradeAlways == ASSUME Formats, OneNca PROVE Spec => NoDowngrade
  <1> DEFINE Step ==
        pc' = "removeCommit" => \A s \in Storages : \A e \in db[s] :
          e \notin db'[s] /\ e.key.type = "Patch"
            => e.key.version <= Cnmt.key.version \/ <<Cnmt.key, s>> \in unlisted
  <1>1. JobInv /\ ConsoleInv /\ [Next]_vars => Step
    <2> SUFFICES ASSUME JobInv, ConsoleInv, [Next]_vars, pc' = "removeCommit",
                        NEW s \in Storages, NEW e \in db[s], e \notin db'[s], e.key.type = "Patch",
                        <<Cnmt.key, s>> \notin unlisted
                 PROVE  e.key.version <= Cnmt.key.version
      OBVIOUS
    <2>1. RemoveKey
      <3>1. ~(\E p \in Packages : \E m \in Modes : Begin(p, m))
        BY DEF Begin
      <3>2. ~(SkipInstalled \/ CreatePlaceHolder \/ FillPlaceHolder \/ ReadTicketData \/ ParseCnmt \/ EntriesDone)
        BY DEF SkipInstalled, CreatePlaceHolder, FillPlaceHolder, ReadTicketData, ParseCnmt, EntriesDone,
               AfterEntry
      <3>3. ~(Decide \/ ImportTicket \/ TicketsDone \/ RemoveNext \/ DeleteContent \/ CommitRemoval \/ RemoveDone)
        BY DEF Decide, Advance, ImportTicket, TicketsDone, RemoveNext, DeleteContent, CommitRemoval, RemoveDone
      <3>4. ~(RegisterDelete \/ RegisterMove \/ SetMeta \/ CommitMeta \/ PushRecord \/ PushLaunchVersion)
        BY DEF RegisterDelete, RegisterMove, SetMeta, CommitMeta, PushRecord, PushLaunchVersion, Advance
      <3>5. ~(Cleanup \/ CallFails \/ Crash)
        BY DEF Cleanup, CallFails, Crash
      <3>6. ~(Idle \/ UNCHANGED vars)
        BY DEF Idle, vars, device, meta
      <3> QED BY <3>1, <3>2, <3>3, <3>4, <3>5, <3>6 DEF Next
    <2>2. /\ pc = "delete" /\ db' = [db EXCEPT ![victim.in] = {x \in @ : x.key # victim.key}]
      BY <2>1 DEF RemoveKey
    <2>3. e.key = victim.key
      BY <2>2 DEF ConsoleInv, StorageMaps
    <2>4. SameTitle(e.key, Cnmt.key)
      BY <2>2, <2>3 DEF ConsoleInv, VictimInv
    <2>5. PatchOf(e, Cnmt.key.app) /\ Cnmt.key.type = "Patch" /\ Heard(s)
      BY <2>4 DEF SameTitle, PatchOf, Heard
    <2> QED BY <2>2, <2>5 DEF ConsoleInv, LatestInv, Chosen
  <1>3. NoDowngrade <=> [][Step]_vars
    BY DEF NoDowngrade
  <1> HIDE DEF Step
  <1> QED BY <1>1, <1>3, InstallInvariant, PTL DEF Spec

-----------------------------------------------------------------------------
(* What an install has done when it reports success *)

Ended == {"commit", "push", "launch"}

\* What was found installed stays there, and belongs to a cnmt of the container.
SkippedInv ==
    /\ skipped \subseteq contents[Dest]
    /\ pc \notin {"fail", "idle"} =>
         \A id \in skipped : \/ \E i \in 1 .. Len(parsed) : id \in EntryOf(parsed[i]).infos
                             \/ pc = "parse" /\ id = Head(todo).id

\* Of the current cnmt, what is there and what is still to come.
CommitInv ==
    /\ pc \in Ended => EntryOf(Cnmt) \in db[Dest]
    /\ pc \in {"push", "launch"} => EntryOf(Cnmt) \in disk[Dest]
    /\ pc = "launch" => Cnmt.key \in records
    /\ pc \in {"register", "move"} =>
         \A id \in EntryOf(Cnmt).infos : id \in contents[Dest] \/ \E i \in 1 .. Len(toRegister) : toRegister[i] = id
    /\ pc \in Ended => EntryOf(Cnmt).infos \subseteq contents[Dest]

\* A cnmt is installed, but that a patch of its application may be waiting for
\* its launch version.
Finished(c) ==
    /\ EntryOf(c) \in db[Dest] /\ EntryOf(c) \in disk[Dest]
    /\ EntryOf(c).infos \subseteq contents[Dest] /\ c.key \in records
    /\ c.key.app \in DOMAIN launch
    /\ \/ pc \in Ended /\ Cnmt.key.app = c.key.app
       \/ \A s \in Seen(c.key.app) : \A e \in db[s] :
            PatchOf(e, c.key.app) => e.key.version <= launch[c.key.app]

DoneUpTo == IF pc \in {"cleanup", "idle"} THEN cur ELSE cur - 1

DoneInv ==
    pc # "fail" /\ (pc = "idle" => rc = "ok") =>
      \A i \in 1 .. Len(parsed) : i <= DoneUpTo => parsed[i].id \in passed \/ Finished(parsed[i])

\* The title of another cnmt of the container is another title.
LEMMA OtherTitle ==
    ASSUME Formats, DistinctTitles, JobInv, pc # "idle", cur <= Len(parsed),
           NEW i \in 1 .. Len(parsed), i # cur
    PROVE  ~SameTitle(parsed[i].key, Cnmt.key)
  <1>1. /\ parsed \in Seq(Titles(pkg)) /\ cur \in 1 .. Len(parsed)
    BY DEF JobInv, JobTypes
  <1>2. pkg \in Packages /\ mode \in {"stream", "file"}
    BY ModesOfCode DEF JobInv, JobTypes
  <1>3. parsed[i] \in Titles(pkg) /\ parsed[cur] \in Titles(pkg)
    <2> DEFINE T == Titles(pkg)
    <2> HIDE DEF T
    <2>1. parsed \in Seq(T)
      BY <1>1 DEF T
    <2>2. parsed[i] \in T /\ parsed[cur] \in T
      BY <1>1, <2>1
    <2> QED BY <2>2 DEF T
  <1>4. parsed[i] # parsed[cur]
    <2>1. CASE mode = "stream"
      BY <1>1, <2>1 DEF JobInv, InStream, Unrepeated
    <2>2. CASE mode = "file"
      <3>1. Len(parsed) <= Len(Cnmts) /\ \A j \in 1 .. Len(parsed) : parsed[j] = Cnmts[j]
        BY <2>2 DEF JobInv, InFile
      <3>2. Unrepeated(Cnmts) /\ Len(Cnmts) \in Nat
        BY <1>2, EntriesKept DEF Cnmts
      <3>3. i \in 1 .. Len(Cnmts) /\ cur \in 1 .. Len(Cnmts)
        BY <1>1, <3>1, <3>2
      <3> QED BY <1>1, <3>1, <3>2, <3>3 DEF Unrepeated
    <2> QED BY <1>2, <2>1, <2>2
  <1> QED BY <1>2, <1>3, <1>4 DEF DistinctTitles, Cnmt

\* No step takes away a content of another cnmt of the container.
LEMMA OthersStay ==
    ASSUME Formats, OneOwner, DistinctTitles, JobInv, ConsoleInv, [Next]_vars,
           NEW i \in 1 .. Len(parsed), pc \in Committing => i # cur,
           NEW id \in EntryOf(parsed[i]).infos, id \in contents[Dest]
    PROVE  id \in contents'[Dest]
  <1> SUFFICES ASSUME id \notin contents'[Dest] PROVE FALSE
    OBVIOUS
  <1>1. pc \in {"delete", "register"} /\ \E f \in Known : id \in f.infos /\ SameTitle(f.key, Cnmt.key)
    BY TakenIsOfTitle DEF Dest, Storages
  <1>2. PICK f \in Known : id \in f.infos /\ SameTitle(f.key, Cnmt.key)
    BY <1>1
  <1>3. EntryOf(parsed[i]) \in Known /\ EntryOf(parsed[i]).key = parsed[i].key
    BY CnmtKnown DEF EntryOf
  <1>4. SameTitle(parsed[i].key, f.key)
    BY <1>2, <1>3 DEF OneOwner
  <1>5. SameTitle(parsed[i].key, Cnmt.key)
    BY <1>2, <1>4 DEF SameTitle
  <1>6. pc # "idle" /\ cur <= Len(parsed) /\ i # cur
    BY <1>1 DEF JobInv, JobTypes, Committing
  <1> QED BY <1>5, <1>6, OtherTitle

\* What was found installed is not deleted, nor replaced.
LEMMA SkippedStays ==
    ASSUME Formats, OneOwner, DistinctTitles, JobInv, ConsoleInv, SkippedInv, [Next]_vars
    PROVE  skipped \subseteq contents'[Dest]
  <1> SUFFICES ASSUME NEW id \in skipped, id \notin contents'[Dest] PROVE FALSE
    OBVIOUS
  <1>1. id \in contents[Dest]
    BY DEF SkippedInv
  <1>2. CASE UNCHANGED contents
    BY <1>1, <1>2
  <1>3. CASE DeleteContent
    <2>1. /\ pc = "delete"
          /\ \E x \in victim.left : contents' = [contents EXCEPT ![victim.in] = @ \ {x}]
      BY <1>3 DEF DeleteContent
    <2>2. id \in victim.left
      BY <1>1, <2>1 DEF ConsoleInv, Dest, Storages
    <2>3. id \notin EntryOf(Cnmt).infos
      BY <2>1, <2>2 DEF ConsoleInv, VictimInv
    <2>4. PICK i \in 1 .. Len(parsed) : id \in EntryOf(parsed[i]).infos
      BY <2>1 DEF SkippedInv
    <2>5. i # cur
      BY <2>3, <2>4 DEF Cnmt
    <2> QED BY <1>1, <2>4, <2>5, OthersStay
  <1>4. CASE RegisterDelete
    <2>1. /\ pc = "register" /\ toRegister # <<>>
          /\ contents' = [contents EXCEPT ![Dest] = @ \ {Head(toRegister)}]
      BY <1>4 DEF RegisterDelete
    <2>2. id = Head(toRegister)
      BY <1>1, <2>1 DEF ConsoleInv, Storages, Dest
    <2> DEFINE I == EntryOf(Cnmt).infos \ skipped
    <2>3. toRegister \in Seq(I)
      BY <2>1 DEF ConsoleInv, RegisterInv
    <2> HIDE DEF I
    <2>4. Head(toRegister) \in I
      BY <2>1, <2>3
    <2> QED BY <2>2, <2>4 DEF I
  <1>5. CASE RegisterMove
    <2>1. contents' = contents \/ \E x : contents' = [contents EXCEPT ![Dest] = @ \cup {x}]
      BY <1>5 DEF RegisterMove, storage
    <2> QED BY <1>1, <2>1 DEF ConsoleInv, Storages, Dest
  <1> QED BY <1>2, <1>3, <1>4, <1>5, ContentSteps

\* What skips nothing and parses nothing keeps it.
LEMMA QuietSkipped ==
    ASSUME SkippedInv, skipped \subseteq contents'[Dest], UNCHANGED <<skipped, parsed>>,
           pc' \notin {"fail", "idle"} => pc \notin {"fail", "idle", "parse"}
    PROVE  SkippedInv'
  <1>1. \A i : EntryOf(parsed[i])' = EntryOf(parsed[i])
    BY DEF EntryOf, NcaIds
  <1> QED BY <1>1 DEF SkippedInv

LEMMA SkipInstalledSkipped ==
    ASSUME Formats, JobInv, SkippedInv, SkipInstalled
    PROVE  SkippedInv'
  <1> DEFINE e == Head(todo)
  <1>1. /\ pc = "install" /\ todo # <<>> /\ mode = "file" /\ e.kind \in {"nca", "cnmt"}
        /\ e.id \in contents[Dest] /\ skipped' = skipped \cup {e.id}
        /\ UNCHANGED <<contents, parsed, cur>>
        /\ AfterEntry(e) \/ pc' = "fail"
    BY DEF SkipInstalled, device, storage, plan
  <1>2. \A i : EntryOf(parsed[i])' = EntryOf(parsed[i])
    BY <1>1 DEF EntryOf, NcaIds
  <1>3. skipped' \subseteq contents'[Dest]
    BY <1>1 DEF SkippedInv
  <1>4. ASSUME pc' # "fail"
        PROVE  \/ \E i \in 1 .. Len(parsed) : e.id \in EntryOf(parsed[i]).infos
               \/ pc' = "parse" /\ e.id = Head(todo').id
    <2>1. CASE e.kind = "cnmt"
      BY <1>1, <1>4, <2>1 DEF AfterEntry
    <2>2. CASE e.kind = "nca"
      <3>1. todo \in Seq(Range(pkg)) /\ cur \in 1 .. Len(parsed) + 1 /\ Len(parsed) \in Nat
        BY DEF JobInv, JobTypes
      <3>2. 1 \in 1 .. Len(todo) /\ e = todo[1]
        BY <1>1, <3>1
      <3>3. ASSUME todo = <<Cnmts[cur]>>, cur <= Len(Cnmts) PROVE FALSE
        <4>1. pkg \in Packages
          BY <1>1, ModesOfCode DEF JobInv, JobTypes
        <4>2. cur \in 1 .. Len(Cnmts) /\ e = Cnmts[cur]
          BY <3>1, <3>2, <3>3
        <4>3. e.kind = "cnmt"
          BY <4>1, <4>2, EntriesKept DEF Cnmts
        <4> QED BY <2>2, <4>3
      <3>4. Len(parsed) = cur /\ e.id \in NcaIds(Cnmt)
        BY <1>1, <3>2, <3>3 DEF JobInv, InFile, Taking
      <3>5. cur \in 1 .. Len(parsed) /\ e.id \in EntryOf(parsed[cur]).infos
        BY <3>1, <3>4 DEF EntryOf, Cnmt
      <3> QED BY <3>5
    <2> QED BY <1>1, <2>1, <2>2
  <1> QED BY <1>1, <1>2, <1>3, <1>4 DEF SkippedInv

LEMMA ParseSkipped ==
    ASSUME JobInv, SkippedInv, ParseCnmt
    PROVE  SkippedInv'
  <1> DEFINE c == Head(todo)
  <1>1. /\ pc = "parse" /\ UNCHANGED <<contents, skipped>>
        /\ pc' = "fail" \/ parsed' = Append(parsed, c)
    BY DEF ParseCnmt, device, storage
  <1>2. CASE pc' = "fail"
    BY <1>1, <1>2 DEF SkippedInv
  <1>3. CASE parsed' = Append(parsed, c)
    <2> DEFINE T == Titles(pkg)
    <2>1. parsed \in Seq(T)
      BY DEF JobInv, JobTypes
    <2> HIDE DEF T, c
    <2>2. /\ Len(parsed') = Len(parsed) + 1 /\ Len(parsed) \in Nat /\ parsed'[Len(parsed) + 1] = c
          /\ \A i \in 1 .. Len(parsed) : parsed'[i] = parsed[i]
      BY <1>3, <2>1
    <2>3. c.id \in EntryOf(c).infos
      BY DEF EntryOf
    <2>4. ASSUME NEW id \in skipped PROVE \E i \in 1 .. Len(parsed') : id \in EntryOf(parsed'[i]).infos
      <3>1. CASE \E i \in 1 .. Len(parsed) : id \in EntryOf(parsed[i]).infos
        <4>1. PICK i \in 1 .. Len(parsed) : id \in EntryOf(parsed[i]).infos
          BY <3>1
        <4>2. i \in 1 .. Len(parsed') /\ parsed'[i] = parsed[i]
          BY <2>2
        <4> QED BY <4>1, <4>2
      <3>2. CASE id = c.id
        <4>1. Len(parsed) + 1 \in 1 .. Len(parsed')
          BY <2>2
        <4> QED BY <2>2, <2>3, <3>2, <4>1
      <3> QED BY <1>1, <3>1, <3>2 DEF SkippedInv, c
    <2> QED BY <1>1, <2>4 DEF SkippedInv, EntryOf, NcaIds
  <1> QED BY <1>1, <1>2, <1>3

LEMMA NextSkipped ==
    ASSUME Formats, OneOwner, DistinctTitles, JobInv, ConsoleInv, SkippedInv, [Next]_vars
    PROVE  SkippedInv'
  <1>0. skipped \subseteq contents'[Dest]
    BY SkippedStays
  <1> USE DEF device, storage, meta, job, scan, plan, fixed, vars
  <1>1. ASSUME NEW p \in Packages, NEW m \in Modes, Begin(p, m) PROVE SkippedInv'
    BY <1>1 DEF Begin, SkippedInv
  <1>2. CASE SkipInstalled
    BY <1>2, SkipInstalledSkipped
  <1>3. CASE ParseCnmt
    BY <1>3, ParseSkipped
  <1>4. CASE CreatePlaceHolder \/ FillPlaceHolder \/ ReadTicketData \/ EntriesDone \/ Decide
    BY <1>0, <1>4, QuietSkipped DEF CreatePlaceHolder, FillPlaceHolder, ReadTicketData, EntriesDone, Decide
  <1>5. CASE ImportTicket \/ TicketsDone \/ RemoveNext \/ DeleteContent \/ RemoveKey \/ CommitRemoval \/ RemoveDone
    BY <1>0, <1>5, QuietSkipped DEF ImportTicket, TicketsDone, RemoveNext, DeleteContent, RemoveKey, CommitRemoval,
                                    RemoveDone
  <1>6. CASE RegisterDelete \/ RegisterMove \/ SetMeta \/ CommitMeta \/ PushRecord \/ PushLaunchVersion
    BY <1>0, <1>6, QuietSkipped DEF RegisterDelete, RegisterMove, SetMeta, CommitMeta, PushRecord, PushLaunchVersion
  <1>7. CASE Cleanup
    <2>1. UNCHANGED <<skipped, parsed>> /\ (pc = "cleanup" \/ pc' = "idle")
      BY <1>7 DEF Cleanup
    <2> QED BY <1>0, <2>1, QuietSkipped
  <1>8. CASE CallFails \/ Crash
    BY <1>0, <1>8, QuietSkipped DEF CallFails, Crash
  <1>9. CASE Idle \/ UNCHANGED vars
    BY <1>9 DEF Idle, SkippedInv, EntryOf, NcaIds
  <1> QED BY <1>1, <1>2, <1>3, <1>4, <1>5, <1>6, <1>7, <1>8, <1>9 DEF Next

\* Outside the registration and the commit there is nothing to keep.
LEMMA QuietCommit ==
    ASSUME pc' \notin Ended \cup {"register", "move"}
    PROVE  CommitInv'
  BY DEF CommitInv, Ended

\* What is not to be registered was found installed.
LEMMA RemoveDoneCommit ==
    ASSUME Formats, JobInv, ConsoleInv, SkippedInv, RemoveDone
    PROVE  CommitInv'
  <1>1. pc' = "register" /\ UNCHANGED <<contents, parsed, cur, skipped>>
    BY DEF RemoveDone, device, storage, scan
  <1>2. HasAll(toRegister', EntryOf(Cnmt).infos \ skipped)
    BY RemoveDoneConsole
  <1>3. EntryOf(Cnmt)' = EntryOf(Cnmt)
    BY <1>1 DEF Cnmt, EntryOf, NcaIds
  <1>4. \A id \in EntryOf(Cnmt).infos : id \in contents[Dest] \/ \E i \in 1 .. Len(toRegister') : toRegister'[i] = id
    BY <1>2 DEF HasAll, SkippedInv
  <1> QED BY <1>1, <1>3, <1>4 DEF CommitInv, Ended

\* A content is deleted and moved in its place: it stays in the list until then.
LEMMA RegisterCommit ==
    ASSUME ConsoleInv, CommitInv, RegisterDelete \/ RegisterMove
    PROVE  CommitInv'
  <1>1. UNCHANGED <<parsed, cur>>
    BY DEF RegisterDelete, RegisterMove, job, scan, plan
  <1>2. EntryOf(Cnmt)' = EntryOf(Cnmt)
    BY <1>1 DEF Cnmt, EntryOf, NcaIds
  <1>3. CASE RegisterDelete
    <2>1. /\ pc = "register" /\ pc' = "move" /\ toRegister # <<>> /\ UNCHANGED toRegister
          /\ contents' = [contents EXCEPT ![Dest] = @ \ {Head(toRegister)}]
      BY <1>3 DEF RegisterDelete, job, plan
    <2>2. toRegister \in Seq(EntryOf(Cnmt).infos \ skipped)
      BY <2>1 DEF ConsoleInv, RegisterInv
    <2>3. Head(toRegister) = toRegister[1] /\ 1 \in 1 .. Len(toRegister)
      <3> DEFINE I == EntryOf(Cnmt).infos \ skipped
      <3> HIDE DEF I
      <3>1. toRegister \in Seq(I)
        BY <2>2 DEF I
      <3> QED BY <2>1, <3>1
    <2>4. ASSUME NEW id \in EntryOf(Cnmt).infos
          PROVE  id \in contents'[Dest] \/ \E i \in 1 .. Len(toRegister) : toRegister[i] = id
      BY <2>1, <2>3 DEF CommitInv, ConsoleInv, Dest, Storages
    <2> QED BY <1>2, <2>1, <2>4 DEF CommitInv, Ended
  <1>4. CASE RegisterMove
    <2>1. CASE pc' = "fail"
      BY <2>1, QuietCommit DEF Ended
    <2>2. CASE pc' # "fail"
      <3>1. /\ pc = "move" /\ pc' = "register" /\ toRegister' = Tail(toRegister)
            /\ contents' = [contents EXCEPT ![Dest] = @ \cup {Head(toRegister)}]
        BY <1>4, <2>2 DEF RegisterMove
      <3>2. toRegister \in Seq(EntryOf(Cnmt).infos \ skipped) /\ toRegister # <<>>
        BY <3>1 DEF ConsoleInv, RegisterInv
      <3>3. /\ Head(toRegister) = toRegister[1] /\ Len(toRegister') = Len(toRegister) - 1 /\ Len(toRegister) \in Nat
            /\ \A i \in 1 .. Len(toRegister) - 1 : toRegister'[i] = toRegister[i + 1]
        <4> DEFINE I == EntryOf(Cnmt).infos \ skipped
        <4> HIDE DEF I
        <4>1. toRegister \in Seq(I)
          BY <3>2 DEF I
        <4> QED BY <3>1, <3>2, <4>1
      <3>4. contents'[Dest] = contents[Dest] \cup {Head(toRegister)}
        BY <3>1 DEF ConsoleInv, Dest, Storages
      <3>5. ASSUME NEW id \in EntryOf(Cnmt).infos
            PROVE  id \in contents'[Dest] \/ \E i \in 1 .. Len(toRegister') : toRegister'[i] = id
        <4>1. CASE id \in contents[Dest]
          BY <3>4, <4>1
        <4>2. CASE \E i \in 1 .. Len(toRegister) : toRegister[i] = id
          <5>1. PICK i \in 1 .. Len(toRegister) : toRegister[i] = id
            BY <4>2
          <5>2. CASE i = 1
            BY <3>3, <3>4, <5>1, <5>2
          <5>3. CASE i # 1
            <6>1. i - 1 \in 1 .. Len(toRegister') /\ i - 1 \in 1 .. Len(toRegister) - 1 /\ (i - 1) + 1 = i
              BY <3>3, <5>3
            <6>2. toRegister'[i - 1] = id
              BY <3>3, <5>1, <6>1
            <6> QED BY <6>1, <6>2
          <5> QED BY <5>2, <5>3
        <4> QED BY <3>1, <4>1, <4>2 DEF CommitInv
      <3> QED BY <1>2, <3>1, <3>5 DEF CommitInv, Ended
    <2> QED BY <2>1, <2>2
  <1> QED BY <1>3, <1>4

\* The key is set when all contents are there, then committed, then recorded.
LEMMA EndCommit ==
    ASSUME ConsoleInv, CommitInv, SetMeta \/ CommitMeta \/ PushRecord
    PROVE  CommitInv'
  <1>1. UNCHANGED <<contents, parsed, cur>>
    BY DEF SetMeta, CommitMeta, PushRecord, job, scan, plan, storage
  <1>2. EntryOf(Cnmt)' = EntryOf(Cnmt) /\ Cnmt' = Cnmt
    BY <1>1 DEF Cnmt, EntryOf, NcaIds
  <1>3. CASE SetMeta
    <2>1. /\ pc = "register" /\ pc' = "commit" /\ toRegister = <<>>
          /\ db' = [db EXCEPT ![Dest] = {e \in @ : e.key # Cnmt.key} \cup {NewEntry}]
      BY <1>3 DEF SetMeta
    <2>2. EntryOf(Cnmt) \in db'[Dest]
      BY <2>1 DEF ConsoleInv, StorageMaps, Dest, Storages, NewEntry, EntryOf
    <2>3. ~\E i \in 1 .. Len(toRegister) : TRUE
      BY <2>1
    <2>4. EntryOf(Cnmt).infos \subseteq contents[Dest]
      BY <2>1, <2>3 DEF CommitInv
    <2> QED BY <1>1, <1>2, <2>1, <2>2, <2>4 DEF CommitInv, Ended
  <1>4. CASE CommitMeta
    <2>1. /\ pc = "commit" /\ pc' = "push" /\ UNCHANGED db
          /\ disk' = [disk EXCEPT ![Dest] = db[Dest]]
      BY <1>4 DEF CommitMeta
    <2>2. EntryOf(Cnmt) \in disk'[Dest]
      BY <2>1 DEF ConsoleInv, StorageMaps, Dest, Storages, CommitInv, Ended
    <2> QED BY <1>1, <1>2, <2>1, <2>2 DEF CommitInv, Ended
  <1>5. CASE PushRecord
    <2>1. /\ pc = "push" /\ pc' = "launch" /\ UNCHANGED <<db, disk>>
          /\ records' = records \cup {Cnmt.key}
      BY <1>5 DEF PushRecord, meta
    <2> QED BY <1>1, <1>2, <2>1 DEF CommitInv, Ended
  <1> QED BY <1>3, <1>4, <1>5

LEMMA NextCommit ==
    ASSUME Formats, JobInv, ConsoleInv, SkippedInv, CommitInv, [Next]_vars
    PROVE  CommitInv'
  <1> USE DEF Ended
  <1>1. ASSUME NEW p \in Packages, NEW m \in Modes, Begin(p, m) PROVE CommitInv'
    BY <1>1, QuietCommit DEF Begin
  <1>2. CASE SkipInstalled \/ CreatePlaceHolder \/ FillPlaceHolder \/ ReadTicketData \/ ParseCnmt \/ EntriesDone
    BY <1>2, QuietCommit DEF SkipInstalled, CreatePlaceHolder, FillPlaceHolder, ReadTicketData, ParseCnmt,
                             EntriesDone, AfterEntry
  <1>3. CASE Decide \/ ImportTicket \/ TicketsDone
    BY <1>3, QuietCommit DEF Decide, Advance, ImportTicket, TicketsDone
  <1>4. CASE RemoveNext \/ DeleteContent \/ RemoveKey \/ CommitRemoval
    BY <1>4, QuietCommit DEF RemoveNext, DeleteContent, RemoveKey, CommitRemoval
  <1>5. CASE RemoveDone
    BY <1>5, RemoveDoneCommit
  <1>6. CASE RegisterDelete \/ RegisterMove
    BY <1>6, RegisterCommit
  <1>7. CASE SetMeta \/ CommitMeta \/ PushRecord
    BY <1>7, EndCommit
  <1>8. CASE PushLaunchVersion \/ Cleanup \/ CallFails \/ Crash
    BY <1>8, QuietCommit DEF PushLaunchVersion, Advance, Cleanup, CallFails, Crash
  <1>9. CASE Idle \/ UNCHANGED vars
    <2>1. UNCHANGED <<contents, db, disk, records, parsed, cur, toRegister, pc>>
      BY <1>9 DEF Idle, vars, device, storage, meta, outside, job, scan, plan
    <2>2. EntryOf(Cnmt)' = EntryOf(Cnmt) /\ Cnmt' = Cnmt
      BY <2>1 DEF Cnmt, EntryOf, NcaIds
    <2> QED BY <2>1, <2>2 DEF CommitInv
  <1> QED BY <1>1, <1>2, <1>3, <1>4, <1>5, <1>6, <1>7, <1>8, <1>9 DEF Next

\* Which steps change which part of the console.
LEMMA ConsoleSteps ==
    ASSUME [Next]_vars
    PROVE  /\ UNCHANGED db \/ RemoveKey \/ SetMeta \/ Crash
           /\ UNCHANGED disk \/ CommitRemoval \/ CommitMeta
           /\ UNCHANGED records \/ PushRecord
           /\ UNCHANGED launch \/ PushLaunchVersion
           /\ pc \in Ended =>
                (pc' \in Ended /\ UNCHANGED <<parsed, cur>>) \/ PushLaunchVersion \/ pc' = "fail" \/ Crash
           /\ pc # "idle" => unlisted \subseteq unlisted'
  <1> USE DEF device, storage, meta, outside, job, scan, plan, fixed, book, Ended
  <1>1. ASSUME NEW p \in Packages, NEW m \in Modes, Begin(p, m)
        PROVE  UNCHANGED <<db, disk, records, launch>> /\ pc = "idle"
    BY <1>1 DEF Begin
  <1>2. CASE SkipInstalled \/ CreatePlaceHolder \/ FillPlaceHolder \/ ReadTicketData \/ ParseCnmt \/ EntriesDone
    BY <1>2 DEF SkipInstalled, CreatePlaceHolder, FillPlaceHolder, ReadTicketData, ParseCnmt, EntriesDone
  <1>3. CASE Decide \/ ImportTicket \/ TicketsDone
    BY <1>3 DEF Decide, ImportTicket, TicketsDone
  <1>4. CASE RemoveNext \/ DeleteContent \/ RemoveKey \/ CommitRemoval \/ RemoveDone
    BY <1>4 DEF RemoveNext, DeleteContent, RemoveKey, CommitRemoval, RemoveDone
  <1>5. CASE RegisterDelete \/ RegisterMove \/ SetMeta
    BY <1>5 DEF RegisterDelete, RegisterMove, SetMeta
  <1>6. CASE CommitMeta \/ PushRecord
    BY <1>6 DEF CommitMeta, PushRecord
  <1>7. CASE PushLaunchVersion
    BY <1>7 DEF PushLaunchVersion
  <1>8. CASE Cleanup \/ CallFails
    BY <1>8 DEF Cleanup, CallFails
  <1>9. CASE Crash
    BY <1>9 DEF Crash
  <1>10. CASE Idle \/ UNCHANGED vars
    BY <1>10 DEF Idle, vars
  <1> QED BY <1>1, <1>2, <1>3, <1>4, <1>5, <1>6, <1>7, <1>8, <1>9, <1>10 DEF Next

\* The key of another title is neither removed nor replaced.
LEMMA EntryStays ==
    ASSUME Formats, DistinctTitles, JobInv, ConsoleInv, [Next]_vars, ~Crash,
           NEW i \in 1 .. Len(parsed), pc \in Committing => i # cur, EntryOf(parsed[i]) \in db[Dest]
    PROVE  EntryOf(parsed[i]) \in db'[Dest]
  <1> DEFINE e == EntryOf(parsed[i])
  <1>1. e.key = parsed[i].key
    BY DEF EntryOf
  <1>2. pc \in {"delete", "register"} => ~SameTitle(parsed[i].key, Cnmt.key)
    <2>1. pc \in {"delete", "register"} => pc # "idle" /\ cur <= Len(parsed) /\ i # cur
      BY DEF JobInv, JobTypes, Committing
    <2> QED BY <2>1, OtherTitle
  <1>3. CASE UNCHANGED db
    BY <1>3
  <1>4. CASE RemoveKey
    <2>1. /\ pc = "delete" /\ db' = [db EXCEPT ![victim.in] = {x \in @ : x.key # victim.key}]
      BY <1>4 DEF RemoveKey
    <2>2. parsed[i].key # victim.key
      BY <1>2, <2>1 DEF ConsoleInv, VictimInv
    <2> HIDE DEF e
    <2> QED BY <1>1, <2>1, <2>2 DEF ConsoleInv, StorageMaps, Dest, Storages, e
  <1>5. CASE SetMeta
    <2>1. /\ pc = "register" /\ db' = [db EXCEPT ![Dest] = {x \in @ : x.key # Cnmt.key} \cup {NewEntry}]
      BY <1>5 DEF SetMeta
    <2>2. parsed[i].key # Cnmt.key
      BY <1>2, <2>1 DEF SameTitle
    <2> HIDE DEF e
    <2> QED BY <1>1, <2>1, <2>2 DEF ConsoleInv, StorageMaps, Dest, Storages, e
  <1> QED BY <1>3, <1>4, <1>5, ConsoleSteps

\* The launch version of an application is not below its patches, but while one
\* of them is being committed.
Launched(app) ==
    /\ app \in DOMAIN launch
    /\ \/ pc \in Ended /\ Cnmt.key.app = app
       \/ \A s \in Seen(app) : \A e \in db[s] : PatchOf(e, app) => e.key.version <= launch[app]

\* What every launch version of an application took into account was heard of.
LEMMA SeenIsHeard ==
    ASSUME pc = "launch", NEW s \in Seen(Cnmt.key.app) PROVE s \in Storages /\ Heard(s)
  <1> DEFINE u == <<Cnmt.key, s>>
  <1>1. u[1] = Cnmt.key /\ u[2] = s
    OBVIOUS
  <1>2. s \in Storages /\ \A v \in unlisted : v[1].app = Cnmt.key.app /\ v[1].type # "Patch" => v[2] # s
    BY DEF Seen
  <1> HIDE DEF u
  <1>3. u \in unlisted => Cnmt.key.type = "Patch"
    BY <1>1, <1>2
  <1> QED BY <1>2, <1>3 DEF Heard, u

LEMMA SeenShrinks ==
    ASSUME unlisted \subseteq unlisted', NEW app PROVE Seen(app)' \subseteq Seen(app)
  BY DEF Seen

LEMMA LaunchedStays ==
    ASSUME ConsoleInv, [Next]_vars, ~Crash, pc # "idle", pc' # "fail", NEW app, Launched(app)
    PROVE  Launched(app)'
  <1>0. Seen(app)' \subseteq Seen(app) /\ Seen(app) \subseteq Storages
    BY ConsoleSteps, SeenShrinks DEF Seen
  <1>1. CASE PushLaunchVersion
    <2>1. /\ pc = "launch" /\ UNCHANGED db
          /\ launch' = [a \in DOMAIN launch \cup {Cnmt.key.app} |-> IF a = Cnmt.key.app THEN latest ELSE launch[a]]
      BY <1>1 DEF PushLaunchVersion, meta
    <2>2. app \in DOMAIN launch'
      BY <2>1 DEF Launched
    <2>4. CASE app = Cnmt.key.app
      <3>1. launch'[app] = latest
        BY <2>1, <2>4
      <3>2. \A s \in Seen(app) : \A e \in db[s] : PatchOf(e, app) => e.key.version <= latest
        BY <2>1, <2>4, SeenIsHeard DEF ConsoleInv, LatestInv, Chosen
      <3> QED BY <1>0, <2>1, <2>2, <3>1, <3>2 DEF Launched
    <2>5. CASE app # Cnmt.key.app
      <3>1. launch'[app] = launch[app]
        BY <2>1, <2>5 DEF Launched
      <3>2. \A s \in Seen(app) : \A e \in db[s] : PatchOf(e, app) => e.key.version <= launch[app]
        BY <2>1, <2>5 DEF Launched
      <3> QED BY <1>0, <2>1, <2>2, <3>1, <3>2 DEF Launched
    <2> QED BY <2>4, <2>5
  <1>2. CASE ~PushLaunchVersion
    <2>1. UNCHANGED launch /\ app \in DOMAIN launch
      BY <1>2, ConsoleSteps DEF Launched
    <2>2. CASE pc \in Ended /\ Cnmt.key.app = app
      <3>1. pc' \in Ended /\ UNCHANGED <<parsed, cur>>
        BY <1>2, <2>2, ConsoleSteps
      <3> QED BY <2>1, <2>2, <3>1 DEF Launched, Cnmt
    <2>3. CASE \A s \in Seen(app) : \A e \in db[s] : PatchOf(e, app) => e.key.version <= launch[app]
      <3>4. ASSUME \A s \in Seen(app) : \A e \in db'[s] : PatchOf(e, app) => e \in db[s]
            PROVE  Launched(app)'
        BY <1>0, <2>1, <2>3, <3>4 DEF Launched
      <3>1. CASE UNCHANGED db
        BY <3>1, <3>4
      <3>2. CASE RemoveKey
        <4>1. db' = [db EXCEPT ![victim.in] = {x \in @ : x.key # victim.key}]
          BY <3>2 DEF RemoveKey
        <4>2. \A s \in Storages : db'[s] \subseteq db[s]
          BY <4>1 DEF ConsoleInv, StorageMaps
        <4> QED BY <1>0, <3>4, <4>2
      <3>3. CASE SetMeta
        <4>1. /\ db' = [db EXCEPT !["sd"] = {x \in @ : x.key # Cnmt.key} \cup {NewEntry}]
              /\ pc' = "commit" /\ UNCHANGED <<parsed, cur>>
          BY <3>3 DEF SetMeta, Dest, job, scan, plan
        <4>2. CASE Cnmt.key.app = app
          BY <2>1, <4>1, <4>2 DEF Launched, Cnmt, Ended
        <4>3. CASE Cnmt.key.app # app
          <5>1. /\ db'["nand"] = db["nand"]
                /\ db'["sd"] \subseteq db["sd"] \cup {NewEntry}
            BY <4>1 DEF ConsoleInv, StorageMaps, Storages
          <5>2. ~PatchOf(NewEntry, app)
            BY <4>3 DEF NewEntry, PatchOf
          <5>3. \A s \in Storages : \A e \in db'[s] : PatchOf(e, app) => e \in db[s]
            BY <5>1, <5>2 DEF Storages
          <5> QED BY <1>0, <3>4, <5>3
        <4> QED BY <4>2, <4>3
      <3> QED BY <3>1, <3>2, <3>3, ConsoleSteps
    <2> QED BY <2>2, <2>3 DEF Launched
  <1> QED BY <1>1, <1>2

\* A cnmt that is installed stays so while the others are.
LEMMA FinishedStays ==
    ASSUME Formats, OneOwner, DistinctTitles, JobInv, ConsoleInv, [Next]_vars, ~Crash,
           pc # "idle", pc' # "fail",
           NEW i \in 1 .. Len(parsed), pc \in Committing => i # cur,
           NEW c, c = parsed[i], Finished(c)
    PROVE  Finished(c)'
  <1>1. EntryOf(c) \in db'[Dest]
    BY EntryStays DEF Finished
  <1>2. EntryOf(c) \in disk'[Dest]
    <2>1. CASE UNCHANGED disk
      BY <2>1 DEF Finished
    <2>2. CASE CommitRemoval \/ CommitMeta
      <3>1. \E s \in Storages : disk' = [disk EXCEPT ![s] = db[s]]
        BY <2>2 DEF CommitRemoval, CommitMeta, ConsoleInv, VictimInv, Dest, Storages
      <3> QED BY <3>1 DEF Finished, ConsoleInv, StorageMaps, Dest, Storages
    <2> QED BY <2>1, <2>2, ConsoleSteps
  <1>3. EntryOf(c).infos \subseteq contents'[Dest]
    <2>1. \A id \in EntryOf(parsed[i]).infos : id \in contents[Dest]
      BY DEF Finished
    <2>2. ASSUME NEW id \in EntryOf(parsed[i]).infos PROVE id \in contents'[Dest]
      BY <2>1, OthersStay
    <2> QED BY <2>2
  <1>4. c.key \in records'
    BY ConsoleSteps DEF Finished, PushRecord
  <1>5. Launched(c.key.app)'
    <2> DEFINE a == c.key.app
    <2>1. Launched(a)
      BY DEF Finished, Launched
    <2> HIDE DEF a
    <2>2. Launched(a)'
      BY <2>1, LaunchedStays
    <2> QED BY <2>2 DEF a
  <1>6. EntryOf(c)' = EntryOf(c)
    BY DEF EntryOf, NcaIds
  <1> QED BY <1>1, <1>2, <1>3, <1>4, <1>5, <1>6 DEF Finished, Launched

Well == pc # "fail" /\ (pc = "idle" => rc = "ok")

\* What was done stays done.
LEMMA DoneStays ==
    ASSUME Formats, OneOwner, DistinctTitles, JobInv, ConsoleInv, DoneInv, [Next]_vars,
           Well, Well', ~Crash, pc # "idle", passed \subseteq passed',
           NEW i \in 1 .. Len(parsed), i <= DoneUpTo, NEW c, c = parsed[i]
    PROVE  c.id \in passed' \/ Finished(c)'
  <1>1. pc \in Committing => i # cur
    BY DEF DoneUpTo, Committing, JobInv, JobTypes
  <1>2. c.id \in passed \/ Finished(c)
    BY DEF DoneInv, Well
  <1> QED BY <1>1, <1>2, FinishedStays DEF Well

\* So a step that finishes no other cnmt keeps the invariant.
LEMMA QuietDone ==
    ASSUME Formats, OneOwner, DistinctTitles, JobInv, ConsoleInv, DoneInv, [Next]_vars,
           Well' => Well /\ ~Crash, pc # "idle", passed \subseteq passed', UNCHANGED parsed,
           \A i \in 1 .. Len(parsed) : i <= DoneUpTo' => i <= DoneUpTo
    PROVE  DoneInv'
  <1> SUFFICES ASSUME Well', NEW i \in 1 .. Len(parsed), i <= DoneUpTo'
               PROVE  parsed[i].id \in passed' \/ Finished(parsed[i])'
    BY DEF DoneInv, Well
  <1>1. PICK c : c = parsed[i]
    OBVIOUS
  <1>2. c.id \in passed' \/ Finished(c)'
    BY <1>1, DoneStays
  <1>3. c = parsed'[i]
    BY <1>1
  <1>4. Finished(c)' <=> Finished(parsed[i])'
    BY <1>3 DEF Finished, EntryOf, NcaIds
  <1> QED BY <1>1, <1>2, <1>4

\* The next cnmt is done, as the one before it are.
LEMMA AdvanceDone ==
    ASSUME Formats, OneOwner, DistinctTitles, JobInv, ConsoleInv, DoneInv, [Next]_vars,
           pc \in {"decide", "launch"}, Advance, ~Crash, passed \subseteq passed', UNCHANGED parsed,
           NEW d, d = Cnmt, d.id \in passed' \/ Finished(d)'
    PROVE  DoneInv'
  <1>1. /\ pc' \in {"decide", "cleanup"}
        /\ pc' = "decide" => cur' = cur + 1
        /\ pc' = "cleanup" => cur' = cur
    BY DEF Advance
  <1>2. cur \in Nat
    BY DEF JobInv, JobTypes
  <1>3. DoneUpTo' = cur /\ DoneUpTo = cur - 1
    BY <1>1, <1>2 DEF DoneUpTo
  <1>4. Well /\ Well'
    BY <1>1 DEF Well
  <1> SUFFICES ASSUME NEW i \in 1 .. Len(parsed), i <= cur
               PROVE  parsed[i].id \in passed' \/ Finished(parsed[i])'
    BY <1>3 DEF DoneInv
  <1>5. PICK c : c = parsed[i]
    OBVIOUS
  <1>6. c.id \in passed' \/ Finished(c)'
    <2>1. CASE i = cur
      <3>1. c = d
        BY <1>5, <2>1 DEF Cnmt
      <3> QED BY <3>1
    <2>2. CASE i # cur
      <3>1. i <= DoneUpTo
        BY <1>2, <1>3, <2>2
      <3> QED BY <1>4, <1>5, <3>1, DoneStays
    <2> QED BY <2>1, <2>2
  <1>7. c = parsed'[i]
    BY <1>5
  <1>8. Finished(c)' <=> Finished(parsed[i])'
    BY <1>7 DEF Finished, EntryOf, NcaIds
  <1> QED BY <1>5, <1>6, <1>8

LEMMA ParseDone ==
    ASSUME Formats, OneOwner, DistinctTitles, JobInv, ConsoleInv, DoneInv, [Next]_vars, ParseCnmt
    PROVE  DoneInv'
  <1>1. /\ pc = "parse" /\ pc' \in {"decide", "install", "fail"} /\ UNCHANGED <<cur, passed>>
        /\ pc' # "fail" => parsed' = Append(parsed, Head(todo))
    BY DEF ParseCnmt, plan
  <1>2. CASE pc' = "fail"
    BY <1>2 DEF DoneInv
  <1>3. CASE pc' # "fail"
    <2> DEFINE T == Titles(pkg)
               e == Head(todo)
    <2>1. parsed \in Seq(T) /\ cur \in 1 .. Len(parsed) + 1
      BY DEF JobInv, JobTypes
    <2>2. parsed' = Append(parsed, e)
      BY <1>1, <1>3
    <2> HIDE DEF T, e
    <2>3. Len(parsed) \in Nat /\ \A i \in 1 .. Len(parsed) : parsed'[i] = parsed[i]
      BY <2>1, <2>2
    <2>4. DoneUpTo' = cur - 1 /\ DoneUpTo = cur - 1
      BY <1>1, <1>3 DEF DoneUpTo
    <2>5. Well /\ Well' /\ ~Crash
      BY <1>1, <1>3 DEF Well, Crash
    <2> SUFFICES ASSUME NEW i \in 1 .. Len(parsed'), i <= cur - 1
                 PROVE  parsed'[i].id \in passed' \/ Finished(parsed[i])'
      BY <2>4 DEF DoneInv
    <2>6. i \in 1 .. Len(parsed) /\ i <= DoneUpTo
      <3>1. cur - 1 <= Len(parsed) /\ cur \in Nat
        BY <2>1, <2>3
      <3>2. i \in Nat /\ 1 <= i
        <4>1. Len(parsed') = Len(parsed) + 1
          BY <2>1, <2>2
        <4> QED BY <2>3, <4>1
      <3> QED BY <2>3, <2>4, <3>1, <3>2
    <2>7. PICK c : c = parsed[i]
      OBVIOUS
    <2>8. c.id \in passed' \/ Finished(c)'
      BY <1>1, <2>5, <2>6, <2>7, DoneStays
    <2>9. c = parsed'[i]
      BY <2>3, <2>6, <2>7
    <2>10. Finished(c)' <=> Finished(parsed[i])'
      BY <2>9 DEF Finished, EntryOf, NcaIds
    <2> QED BY <2>8, <2>9, <2>10
  <1> QED BY <1>2, <1>3

\* With its launch version a cnmt is done: all of it is committed, and no patch
\* of its application is above.
LEMMA LaunchDone ==
    ASSUME Formats, OneOwner, DistinctTitles, JobInv, ConsoleInv, CommitInv, DoneInv, [Next]_vars,
           PushLaunchVersion
    PROVE  DoneInv'
  <1>1. /\ pc = "launch" /\ Advance /\ UNCHANGED <<parsed, passed, db, disk, contents, records>>
        /\ launch' = [a \in DOMAIN launch \cup {Cnmt.key.app} |-> IF a = Cnmt.key.app THEN latest ELSE launch[a]]
    BY DEF PushLaunchVersion, storage, meta, scan
  <1>2. PICK d : d = Cnmt
    OBVIOUS
  <1>3. d.key.app \in DOMAIN launch' /\ launch'[d.key.app] = latest
    BY <1>1, <1>2
  <1>4. \A s \in Seen(d.key.app) : \A e \in db[s] : PatchOf(e, d.key.app) => e.key.version <= latest
    BY <1>1, <1>2, SeenIsHeard DEF ConsoleInv, LatestInv, Chosen
  <1>5. Seen(d.key.app)' = Seen(d.key.app) /\ EntryOf(d)' = EntryOf(d)
    BY DEF PushLaunchVersion, book, Seen, EntryOf, NcaIds
  <1>6. /\ EntryOf(d) \in db[Dest] /\ EntryOf(d) \in disk[Dest] /\ d.key \in records
        /\ EntryOf(d).infos \subseteq contents[Dest]
    BY <1>1, <1>2 DEF CommitInv, Ended
  <1>7. Finished(d)'
    BY <1>1, <1>3, <1>4, <1>5, <1>6 DEF Finished
  <1>8. ~Crash
    BY <1>1 DEF Advance, Crash
  <1> QED BY <1>1, <1>2, <1>7, <1>8, AdvanceDone

LEMMA DecideDone ==
    ASSUME Formats, OneOwner, DistinctTitles, JobInv, ConsoleInv, DoneInv, [Next]_vars, Decide
    PROVE  DoneInv'
  <1>1. pc = "decide" /\ UNCHANGED parsed /\ ~Crash
    BY DEF Decide, scan, Crash, Advance
  <1>2. CASE Advance /\ passed' = passed \cup {Cnmt.id}
    <2>1. PICK d : d = Cnmt
      OBVIOUS
    <2> QED BY <1>1, <1>2, <2>1, AdvanceDone
  <1>3. CASE pc' \in {"install", "import"} /\ UNCHANGED <<cur, passed>>
    <2>1. DoneUpTo' = DoneUpTo /\ Well
      BY <1>1, <1>3 DEF DoneUpTo, Well
    <2> QED BY <1>1, <1>3, <2>1, QuietDone
  <1> QED BY <1>2, <1>3 DEF Decide

\* Every other step but those that end an install leaves what is done alone.
LEMMA OtherDone ==
    ASSUME Formats, OneOwner, DistinctTitles, JobInv, ConsoleInv, DoneInv, [Next]_vars,
           UNCHANGED <<parsed, cur, passed>>, pc \notin {"idle", "cleanup", "fail"},
           pc' \notin {"idle", "cleanup"}
    PROVE  DoneInv'
  <1>1. DoneUpTo' = DoneUpTo /\ Well
    BY DEF DoneUpTo, Well
  <1>2. ~Crash
    BY DEF Crash
  <1> QED BY <1>1, <1>2, QuietDone

LEMMA EndDone ==
    ASSUME Formats, OneOwner, DistinctTitles, JobInv, ConsoleInv, DoneInv, [Next]_vars,
           Cleanup \/ CallFails \/ Crash \/ EntriesDone
    PROVE  DoneInv'
  <1>1. CASE Cleanup
    <2>1. /\ UNCHANGED <<parsed, passed>> /\ pc \in {"cleanup", "fail"}
          /\ \/ pc = "cleanup" /\ pc' = "install" /\ cur' = cur + 1
             \/ pc' = "idle" /\ cur' = cur /\ rc' = IF pc = "cleanup" THEN "ok" ELSE "failed"
      BY <1>1 DEF Cleanup, scan
    <2>2. cur \in Nat
      BY DEF JobInv, JobTypes
    <2>3. CASE pc = "fail"
      BY <2>1, <2>3 DEF DoneInv
    <2>4. CASE pc = "cleanup"
      <3>1. DoneUpTo' = DoneUpTo
        BY <2>1, <2>2, <2>4 DEF DoneUpTo
      <3>2. Well
        BY <2>4 DEF Well
      <3>3. ~Crash \/ ~Well'
        BY DEF Crash, Well
      <3> QED BY <2>1, <3>1, <3>2, <3>3, QuietDone
    <2> QED BY <2>1, <2>3, <2>4
  <1>2. CASE CallFails
    BY <1>2 DEF CallFails, DoneInv
  <1>3. CASE Crash
    BY <1>3 DEF Crash, DoneInv
  <1>4. CASE EntriesDone
    <2>1. /\ pc = "install" /\ UNCHANGED <<parsed, cur, passed>>
          /\ pc' \in {"import", "cleanup", "decide"} /\ (pc' = "cleanup" => parsed = <<>>)
      BY <1>4 DEF EntriesDone, job, scan, plan
    <2>2. CASE pc' = "cleanup"
      <3>1. parsed' = <<>>
        BY <2>1, <2>2
      <3> QED BY <3>1 DEF DoneInv
    <2>3. CASE pc' # "cleanup"
      BY <2>1, <2>3, OtherDone
    <2> QED BY <2>2, <2>3
  <1> QED BY <1>1, <1>2, <1>3, <1>4

LEMMA NextDone ==
    ASSUME Formats, OneOwner, DistinctTitles, JobInv, ConsoleInv, CommitInv, DoneInv, [Next]_vars
    PROVE  DoneInv'
  <1> USE DEF job, scan, plan
  <1>1. ASSUME NEW p \in Packages, NEW m \in Modes, Begin(p, m) PROVE DoneInv'
    <2>1. parsed' = <<>>
      BY <1>1 DEF Begin
    <2> QED BY <2>1 DEF DoneInv
  <1>2. CASE SkipInstalled \/ CreatePlaceHolder \/ FillPlaceHolder \/ ReadTicketData
    BY <1>2, OtherDone DEF SkipInstalled, CreatePlaceHolder, FillPlaceHolder, ReadTicketData, AfterEntry
  <1>3. CASE ParseCnmt
    BY <1>3, ParseDone
  <1>4. CASE Decide
    BY <1>4, DecideDone
  <1>5. CASE ImportTicket \/ TicketsDone
    BY <1>5, OtherDone DEF ImportTicket, TicketsDone
  <1>6. CASE RemoveNext \/ DeleteContent \/ RemoveKey \/ CommitRemoval \/ RemoveDone
    BY <1>6, OtherDone DEF RemoveNext, DeleteContent, RemoveKey, CommitRemoval, RemoveDone
  <1>7. CASE RegisterDelete \/ RegisterMove \/ SetMeta \/ CommitMeta \/ PushRecord
    BY <1>7, OtherDone DEF RegisterDelete, RegisterMove, SetMeta, CommitMeta, PushRecord
  <1>8. CASE PushLaunchVersion
    BY <1>8, LaunchDone
  <1>9. CASE Cleanup \/ CallFails \/ Crash \/ EntriesDone
    BY <1>9, EndDone
  <1>10. CASE Idle \/ UNCHANGED vars
    <2>1. UNCHANGED <<parsed, cur, passed, pc, rc, db, disk, contents, records, launch, unlisted>>
      BY <1>10 DEF Idle, vars, book, device, storage, meta, outside
    <2>3. \A i \in 1 .. Len(parsed) : Finished(parsed[i])' <=> Finished(parsed[i])
      BY <2>1 DEF Finished, EntryOf, NcaIds, Cnmt, Seen
    <2>4. DoneUpTo' = DoneUpTo
      BY <2>1 DEF DoneUpTo
    <2> QED BY <2>1, <2>3, <2>4 DEF DoneInv
  <1> QED BY <1>1, <1>2, <1>3, <1>4, <1>5, <1>6, <1>7, <1>8, <1>9, <1>10 DEF Next

\* An install that reports success has installed every title it did not pass
\* over, whatever the installs before it, failed calls and power losses left.
THEOREM SuccessMeansInstalledAlways ==
    ASSUME Formats, OneNca, OneOwner, DistinctTitles PROVE Spec => []SuccessMeansInstalled
  <1> DEFINE Inv == JobInv /\ ConsoleInv /\ SkippedInv /\ CommitInv /\ DoneInv
  <1>1. Init => Inv
    <2> SUFFICES ASSUME Init PROVE Inv
      OBVIOUS
    <2>1. SkippedInv /\ CommitInv /\ DoneInv
      BY DEF Init, SkippedInv, CommitInv, DoneInv, Ended
    <2> QED BY <2>1, InitJob, InitConsole
  <1>2. Inv /\ [Next]_vars => Inv'
    BY NextJob, NextConsole, NextSkipped, NextCommit, NextDone
  <1>3. Inv => SuccessMeansInstalled
    <2> SUFFICES ASSUME Inv, pc = "idle", rc = "ok", NEW c \in Range(parsed), c.id \notin passed
                 PROVE  IsInstalled(c)
      BY DEF SuccessMeansInstalled
    <2>1. parsed \in Seq(Titles(pkg)) /\ Len(parsed) <= cur /\ cur \in Nat
      BY DEF JobInv, JobTypes
    <2>2. PICK i \in 1 .. Len(parsed) : c = parsed[i]
      BY <2>1 DEF Range
    <2>3. i <= cur
      BY <2>1, <2>2
    <2>4. Finished(c)
      BY <2>2, <2>3 DEF DoneInv, DoneUpTo
    <2> QED BY <2>4 DEF Finished, IsInstalled, EntryOf, Ended
  <1> HIDE DEF Inv
  <1> QED BY <1>1, <1>2, <1>3, PTL DEF Spec

-----------------------------------------------------------------------------
(* Types *)

Counters ==
    /\ rc \in {"none", "ok", "failed", "crashed"}
    /\ run \in 0 .. MaxRuns /\ faults \in 0 .. MaxFaults /\ faulty \in BOOLEAN
    /\ pc # "idle" => run # 0

Collections ==
    /\ contents \in [Storages -> SUBSET Ids]
    /\ holders \subseteq Ids \X (1 .. MaxRuns)
    /\ required \subseteq TicketIds
    /\ skipped \subseteq Ids /\ passed \subseteq Ids

LEMMA NextCounters == ASSUME Counters, [Next]_vars PROVE Counters'
  <1> USE DEF Counters
  <1>0. MaxRuns \in Nat /\ MaxFaults \in Nat
    BY NcmAssumption
  <1>1. ASSUME NEW p \in Packages, NEW m \in Modes, Begin(p, m) PROVE Counters'
    <2>1. run < MaxRuns /\ run' = run + 1 /\ rc' = "none" /\ faulty' = FALSE /\ faults' = faults
      BY <1>1 DEF Begin
    <2>2. run' \in 0 .. MaxRuns /\ run' # 0
      BY <1>0, <2>1
    <2> QED BY <2>1, <2>2
  <1>2. CASE UNCHANGED book /\ pc # "idle"
    BY <1>2 DEF book
  <1>3. CASE Cleanup
    <2>1. UNCHANGED <<run, faults, faulty>> /\ rc' \in {rc, "ok", "failed"} /\ pc # "idle"
      BY <1>3 DEF Cleanup
    <2> QED BY <2>1
  <1>4. CASE CallFails \/ Crash
    <2>1. /\ faults < MaxFaults /\ faults' = faults + 1 /\ faulty' = TRUE /\ run' = run
          /\ rc' \in {rc, "crashed"} /\ pc # "idle"
      BY <1>4 DEF CallFails, Crash
    <2> QED BY <1>0, <2>1
  <1>5. CASE Idle \/ UNCHANGED vars
    BY <1>5 DEF Idle, vars, book
  <1>7. CASE Decide
    <2>1. PICK lost \in SUBSET Storages :
            faults + Cardinality(lost) <= MaxFaults /\ faults' = faults + Cardinality(lost)
      BY <1>7 DEF Decide
    <2>2. Cardinality(lost) \in Nat
      <3>1. Storages = {"nand"} \cup {"sd"}
        BY DEF Storages
      <3>2. IsFiniteSet(Storages)
        BY <3>1, FS_Singleton, FS_Union
      <3> QED BY <3>2, FS_Subset, FS_CardinalityType
    <2>3. faults' \in 0 .. MaxFaults
      BY <1>0, <2>1, <2>2
    <2>4. UNCHANGED <<rc, run>> /\ pc # "idle" /\ faulty' \in BOOLEAN
      BY <1>7 DEF Decide
    <2> QED BY <2>3, <2>4
  <1>6. Work /\ ~Decide => UNCHANGED book /\ pc # "idle"
    <2>1. CASE SkipInstalled \/ CreatePlaceHolder \/ FillPlaceHolder \/ ReadTicketData \/ ParseCnmt \/ EntriesDone
      BY <2>1 DEF SkipInstalled, CreatePlaceHolder, FillPlaceHolder, ReadTicketData, ParseCnmt, EntriesDone
    <2>2. CASE ImportTicket \/ TicketsDone \/ RemoveNext \/ DeleteContent \/ RemoveKey \/ CommitRemoval
      BY <2>2 DEF ImportTicket, TicketsDone, RemoveNext, DeleteContent, RemoveKey, CommitRemoval
    <2>3. CASE RemoveDone \/ RegisterDelete \/ RegisterMove \/ SetMeta \/ CommitMeta \/ PushRecord \/ PushLaunchVersion
      BY <2>3 DEF RemoveDone, RegisterDelete, RegisterMove, SetMeta, CommitMeta, PushRecord, PushLaunchVersion
    <2> QED BY <2>1, <2>2, <2>3 DEF Work
  <1> QED BY <1>1, <1>2, <1>3, <1>4, <1>5, <1>6, <1>7 DEF Next, Work

UnlistedKnown == unlisted \subseteq {e.key : e \in Known} \X Storages

\* Only a decision, for its own cnmt, adds a storage that was not listed.
LEMMA NextUnlisted ==
    ASSUME Formats, JobInv, UnlistedKnown, [Next]_vars PROVE UnlistedKnown'
  <1>1. ASSUME NEW p \in Packages, NEW m \in Modes, Begin(p, m) PROVE UnlistedKnown'
    BY <1>1 DEF Begin, UnlistedKnown
  <1>2. CASE UNCHANGED unlisted
    BY <1>2 DEF UnlistedKnown
  <1>3. CASE Decide
    <2>1. PICK lost \in SUBSET Storages : unlisted' = unlisted \cup ({Cnmt.key} \X lost)
      BY <1>3 DEF Decide
    <2>2. pc = "decide"
      BY <1>3 DEF Decide
    <2>3. EntryOf(Cnmt) \in Known /\ EntryOf(Cnmt).key = Cnmt.key
      BY <2>2, CurrentKnown DEF Committing, EntryOf
    <2>4. Cnmt.key \in {e.key : e \in Known}
      BY <2>3
    <2> QED BY <2>1, <2>4 DEF UnlistedKnown
  <1>4. CASE SkipInstalled \/ CreatePlaceHolder \/ FillPlaceHolder \/ ReadTicketData \/ ParseCnmt \/ EntriesDone
    BY <1>2, <1>4 DEF SkipInstalled, CreatePlaceHolder, FillPlaceHolder, ReadTicketData, ParseCnmt, EntriesDone,
                      book
  <1>5. CASE ImportTicket \/ TicketsDone \/ RemoveNext \/ DeleteContent \/ RemoveKey \/ CommitRemoval
    BY <1>2, <1>5 DEF ImportTicket, TicketsDone, RemoveNext, DeleteContent, RemoveKey, CommitRemoval, book
  <1>6. CASE RemoveDone \/ RegisterDelete \/ RegisterMove \/ SetMeta \/ CommitMeta \/ PushRecord
             \/ PushLaunchVersion
    BY <1>2, <1>6 DEF RemoveDone, RegisterDelete, RegisterMove, SetMeta, CommitMeta, PushRecord,
                      PushLaunchVersion, book
  <1>7. CASE Cleanup \/ CallFails \/ Crash \/ Idle \/ UNCHANGED vars
    BY <1>2, <1>7 DEF Cleanup, CallFails, Crash, Idle, vars, book
  <1> QED BY <1>1, <1>3, <1>4, <1>5, <1>6, <1>7 DEF Next

\* Whatever the install has at hand is an entry of a container.
LEMMA EntryAtHand ==
    ASSUME JobInv, NEW e \in Range(pkg)
    PROVE  pkg \in Packages /\ e.id \in Ids /\ {e.tik} \ {NoTicket} \subseteq TicketIds
  <1>1. pkg \in Packages
    <2>1. CASE pkg = <<>>
      BY <2>1 DEF Range
    <2>2. CASE pkg # <<>>
      BY <2>2 DEF JobInv, JobTypes
    <2> QED BY <2>1, <2>2
  <1>2. e \in Items
    BY <1>1 DEF Items
  <1>3. {x.id : x \in Items} \subseteq Ids /\ TicketIds = {x.tik : x \in Items} \ {NoTicket}
    BY DEF Ids, TicketIds, Items
  <1>4. e.id \in {x.id : x \in Items} /\ e.tik \in {x.tik : x \in Items}
    BY <1>2
  <1> QED BY <1>1, <1>3, <1>4

LEMMA TakenAtHand ==
    ASSUME JobInv, todo # <<>>
    PROVE  Head(todo) \in Range(pkg)
  <1> DEFINE T == Range(pkg)
  <1>1. todo \in Seq(T)
    BY DEF JobInv, JobTypes
  <1> HIDE DEF T
  <1>2. Head(todo) \in T
    BY <1>1
  <1> QED BY <1>2 DEF T

\* The contents of the current cnmt are entries of the container.
LEMMA ContentsAtHand ==
    ASSUME Formats, JobInv, pc \in Committing, NEW id \in EntryOf(Cnmt).infos
    PROVE  \E e \in Range(pkg) : e.id = id /\ e.kind \in {"nca", "cnmt"}
  <1>1. Cnmt \in Titles(pkg) /\ cur \in 1 .. Len(parsed) /\ Cnmt = parsed[cur]
    BY CurrentKnown
  <1>2. CASE id = Cnmt.id
    BY <1>1, <1>2 DEF Titles
  <1>3. CASE id \in NcaIds(Cnmt)
    BY <1>1, <1>3 DEF JobInv, NcasFound
  <1> QED BY <1>2, <1>3 DEF EntryOf

LEMMA NextCollections ==
    ASSUME Formats, JobInv, ConsoleInv, Counters, Collections, [Next]_vars
    PROVE  Collections'
  <1> USE DEF Collections
  <1>1. ASSUME NEW p \in Packages, NEW m \in Modes, Begin(p, m) PROVE Collections'
    BY <1>1 DEF Begin, device, storage
  <1>2. CASE UNCHANGED <<contents, holders, required, skipped, passed>>
    BY <1>2
  <1>3. CASE SkipInstalled
    <2>1. /\ todo # <<>> /\ UNCHANGED <<contents, holders, passed>> /\ skipped' = skipped \cup {Head(todo).id}
          /\ Mark(Head(todo)) \/ UNCHANGED required
      BY <1>3 DEF SkipInstalled, device, storage, plan
    <2>2. Head(todo).id \in Ids /\ {Head(todo).tik} \ {NoTicket} \subseteq TicketIds
      BY <2>1, TakenAtHand, EntryAtHand
    <2> QED BY <2>1, <2>2 DEF Mark
  <1>4. CASE CreatePlaceHolder
    <2>1. /\ pc = "install" /\ todo # <<>> /\ UNCHANGED <<contents, required, skipped, passed>>
          /\ holders' = holders \cup {<<Head(todo).id, run>>}
      BY <1>4 DEF CreatePlaceHolder, job, scan, plan
    <2>2. Head(todo).id \in Ids
      BY <2>1, TakenAtHand, EntryAtHand
    <2>3. run \in 1 .. MaxRuns
      BY <2>1, NcmAssumption DEF Counters
    <2> QED BY <2>1, <2>2, <2>3
  <1>5. CASE FillPlaceHolder
    <2>1. /\ pc = "fill" /\ UNCHANGED <<contents, holders, skipped, passed>>
          /\ Mark(Head(todo)) \/ UNCHANGED required
      BY <1>5 DEF FillPlaceHolder, device, storage, plan
    <2>2. {Head(todo).tik} \ {NoTicket} \subseteq TicketIds
      <3>1. todo # <<>>
        BY <2>1 DEF JobInv, JobTypes
      <3> QED BY <3>1, TakenAtHand, EntryAtHand
    <2> QED BY <2>1, <2>2 DEF Mark
  <1>6. CASE ReadTicketData \/ ParseCnmt \/ EntriesDone \/ TicketsDone
    BY <1>2, <1>6 DEF ReadTicketData, ParseCnmt, EntriesDone, TicketsDone, device, storage, plan, job, scan
  <1>7. CASE Decide
    <2>1. /\ pc = "decide" /\ UNCHANGED <<contents, holders, required, skipped>>
          /\ passed' = passed \/ passed' = passed \cup {Cnmt.id}
      BY <1>7 DEF Decide, device, storage, scan
    <2>2. Cnmt.id \in Ids
      <3>1. Cnmt \in Range(pkg)
        BY <2>1, CurrentKnown DEF Committing, Titles
      <3> QED BY <3>1, EntryAtHand
    <2> QED BY <2>1, <2>2
  <1>8. CASE ImportTicket
    <2>1. /\ UNCHANGED <<contents, holders, skipped, passed>>
          /\ required' \subseteq required
      BY <1>8 DEF ImportTicket, storage, plan
    <2> QED BY <2>1
  <1>9. CASE RemoveNext \/ RemoveKey \/ CommitRemoval \/ RemoveDone
    BY <1>2, <1>9 DEF RemoveNext, RemoveKey, CommitRemoval, RemoveDone, device, storage, job, scan, plan
  <1>10. CASE DeleteContent \/ RegisterDelete
    <2>1. /\ UNCHANGED <<holders, required, skipped, passed>>
          /\ \E s, c : contents' = [contents EXCEPT ![s] = @ \ {c}]
      BY <1>10 DEF DeleteContent, RegisterDelete, scan, job, plan
    <2> QED BY <2>1
  <1>11. CASE RegisterMove
    <2>1. /\ pc = "move" /\ UNCHANGED <<required, skipped, passed>>
          /\ holders' \subseteq holders
          /\ contents' = contents \/ contents' = [contents EXCEPT ![Dest] = @ \cup {Head(toRegister)}]
      BY <1>11 DEF RegisterMove, scan, storage
    <2>2. toRegister \in Seq(EntryOf(Cnmt).infos \ skipped) /\ toRegister # <<>>
      BY <2>1 DEF ConsoleInv, RegisterInv
    <2>3. Head(toRegister) \in EntryOf(Cnmt).infos
      <3> DEFINE I == EntryOf(Cnmt).infos \ skipped
      <3> HIDE DEF I
      <3>1. toRegister \in Seq(I)
        BY <2>2 DEF I
      <3>2. Head(toRegister) \in I
        BY <2>2, <3>1
      <3> QED BY <3>2 DEF I
    <2>4. Head(toRegister) \in Ids
      <3>1. PICK e \in Range(pkg) : e.id = Head(toRegister)
        BY <2>1, <2>3, ContentsAtHand DEF Committing
      <3> QED BY <3>1, EntryAtHand
    <2> QED BY <2>1, <2>4
  <1>12. CASE SetMeta \/ CommitMeta \/ PushRecord \/ PushLaunchVersion
    BY <1>2, <1>12 DEF SetMeta, CommitMeta, PushRecord, PushLaunchVersion, storage, job, scan, plan
  <1>13. CASE Cleanup
    <2>1. UNCHANGED <<contents, required, skipped, passed>> /\ holders' \subseteq holders
      BY <1>13 DEF Cleanup, scan
    <2> QED BY <2>1
  <1>14. CASE CallFails \/ Crash \/ Idle \/ UNCHANGED vars
    BY <1>2, <1>14 DEF CallFails, Crash, Idle, vars, device, storage, job, scan, plan
  <1> QED
    BY <1>1, <1>3, <1>4, <1>5, <1>6, <1>7, <1>8, <1>9, <1>10, <1>11, <1>12, <1>13, <1>14 DEF Next

\* Every variable has its type.
THEOREM TypesAlways == ASSUME Formats, OneNca PROVE Spec => []NcmTypeOK
  <1> DEFINE Inv == JobInv /\ ConsoleInv /\ Counters /\ Collections /\ UnlistedKnown
  <1>1. Init => Inv
    <2> SUFFICES ASSUME Init PROVE Inv
      OBVIOUS
    <2>1. Counters
      <3>1. 0 \in 0 .. MaxRuns /\ 0 \in 0 .. MaxFaults
        BY NcmAssumption
      <3>2. rc = "none" /\ run = 0 /\ faults = 0 /\ faulty = FALSE /\ pc = "idle"
        BY DEF Init
      <3> QED BY <3>1, <3>2 DEF Counters
    <2>2. PICK d \in Devices : contents = d.contents
      BY DEF Init
    <2>3. d.contents = [s \in Storages |-> d.contents[s]]
      BY DEF Formats
    <2>4. d.contents["nand"] \cup d.contents["sd"] \subseteq Ids
      BY DEF Ids
    <2>5. contents \in [Storages -> SUBSET Ids]
      BY <2>2, <2>3, <2>4 DEF Storages
    <2>6. Collections
      BY <2>5 DEF Init, Collections
    <2>7. UnlistedKnown
      BY DEF Init, UnlistedKnown
    <2> QED BY <2>1, <2>6, <2>7, InitJob, InitConsole
  <1>2. Inv /\ [Next]_vars => Inv'
    BY NextJob, NextConsole, NextCounters, NextCollections, NextUnlisted
  <1>3. Inv => NcmTypeOK
    <2>1. StorageMaps => DOMAIN db = Storages /\ DOMAIN disk = Storages
      BY DEF StorageMaps
    <2> QED BY <2>1 DEF NcmTypeOK, ConsoleInv, JobInv, JobTypes, Counters, Collections, UnlistedKnown
  <1> HIDE DEF Inv
  <1> QED BY <1>1, <1>2, <1>3, PTL DEF Spec

-----------------------------------------------------------------------------
(* What an install has taken from its container *)

Active == Taking \cup {"parse"} \cup Committing

\* A cnmt is committed when everything it needs has been taken.
NothingToTake == pc \in Committing => todo = <<>>

\* The ids in G, which have been dealt with, and those still to be taken are
\* together all a stream is going to need, and all a file needs for its cnmt;
\* the NCAs of a cnmt that was just parsed are not looked for yet.
TakenInv(G) ==
    /\ pc = "parse" => Head(todo).id \in G
    /\ mode = "stream" /\ pc \in Active =>
         \A e \in Range(pkg) : e.kind \in {"nca", "cnmt"} => e.id \in G \/ \E i \in 1 .. Len(todo) : todo[i] = e
    /\ mode = "file" /\ pc \in Taking \cup Committing /\ Len(parsed) = cur =>
         \A id \in EntryOf(Cnmt).infos :
            id \in G \/ (pc = "decide" /\ id # Cnmt.id) \/ \E i \in 1 .. Len(todo) : todo[i].id = id

\* What is to be taken is the first entry or one of the others.
LEMMA FirstOrOther ==
    ASSUME NEW T, NEW s \in Seq(T), s # <<>>
    PROVE  /\ Head(s) = s[1] /\ Tail(s) \in Seq(T)
           /\ \A x : (\E i \in 1 .. Len(s) : s[i] = x) => x = Head(s) \/ \E i \in 1 .. Len(Tail(s)) : Tail(s)[i] = x
  <1>1. /\ Len(s) \in Nat \ {0} /\ Head(s) = s[1] /\ Tail(s) \in Seq(T) /\ Len(Tail(s)) = Len(s) - 1
        /\ \A i \in 1 .. Len(s) - 1 : Tail(s)[i] = s[i + 1]
    OBVIOUS
  <1> DEFINE t == Tail(s)
             h == Head(s)
  <1> HIDE DEF t, h
  <1>2. /\ h = s[1] /\ t \in Seq(T) /\ Len(t) = Len(s) - 1 /\ \A i \in 1 .. Len(s) - 1 : t[i] = s[i + 1]
    BY <1>1 DEF t, h
  <1>3. ASSUME NEW x, NEW i \in 1 .. Len(s), s[i] = x PROVE x = h \/ \E j \in 1 .. Len(t) : t[j] = x
    <2>1. CASE i = 1
      BY <1>2, <1>3, <2>1
    <2>2. CASE i # 1
      <3>1. i - 1 \in 1 .. Len(s) - 1 /\ (i - 1) + 1 = i /\ i - 1 \in 1 .. Len(t)
        BY <1>1, <1>2, <2>2
      <3>2. t[i - 1] = x
        BY <1>2, <1>3, <3>1
      <3> QED BY <3>1, <3>2
    <2> QED BY <2>1, <2>2
  <1> QED BY <1>2, <1>3 DEF t, h

LEMMA TodoFirstOrOther ==
    ASSUME JobInv, todo # <<>>
    PROVE  \A x : (\E i \in 1 .. Len(todo) : todo[i] = x)
                     => x = Head(todo) \/ \E i \in 1 .. Len(Tail(todo)) : Tail(todo)[i] = x
  <1> DEFINE T == Range(pkg)
  <1>1. todo \in Seq(T)
    BY DEF JobInv, JobTypes
  <1> HIDE DEF T
  <1> QED BY <1>1, FirstOrOther

LEMMA NextNothing == ASSUME JobInv, NothingToTake, [Next]_vars PROVE NothingToTake'
  <1> USE DEF NothingToTake, Committing, job, scan, plan
  <1>1. ASSUME NEW p \in Packages, NEW m \in Modes, Begin(p, m) PROVE NothingToTake'
    BY <1>1 DEF Begin
  <1>2. CASE SkipInstalled \/ CreatePlaceHolder \/ FillPlaceHolder \/ ReadTicketData
    BY <1>2 DEF SkipInstalled, CreatePlaceHolder, FillPlaceHolder, ReadTicketData, AfterEntry
  <1>3. CASE ParseCnmt
    <2> SUFFICES ASSUME pc' = "decide" PROVE todo' = <<>>
      BY <1>3 DEF ParseCnmt
    <2>1. mode = "file" /\ todo' = Tail(todo) /\ pc = "parse"
      BY <1>3 DEF ParseCnmt
    <2>2. todo = <<Cnmts[cur]>>
      BY <2>1 DEF JobInv, InFile
    <2> QED BY <2>1, <2>2
  <1>4. CASE EntriesDone
    BY <1>4 DEF EntriesDone
  <1>5. CASE Decide
    BY <1>5 DEF Decide, Advance
  <1>6. CASE ImportTicket \/ TicketsDone \/ RemoveNext \/ DeleteContent \/ RemoveKey \/ CommitRemoval \/ RemoveDone
    BY <1>6 DEF ImportTicket, TicketsDone, RemoveNext, DeleteContent, RemoveKey, CommitRemoval, RemoveDone
  <1>7. CASE RegisterDelete \/ RegisterMove \/ SetMeta \/ CommitMeta \/ PushRecord \/ PushLaunchVersion
    BY <1>7 DEF RegisterDelete, RegisterMove, SetMeta, CommitMeta, PushRecord, PushLaunchVersion, Advance
  <1>8. CASE Cleanup \/ CallFails \/ Crash
    BY <1>8 DEF Cleanup, CallFails, Crash
  <1>9. CASE Idle \/ UNCHANGED vars
    BY <1>9 DEF Idle, vars
  <1> QED BY <1>1, <1>2, <1>3, <1>4, <1>5, <1>6, <1>7, <1>8, <1>9 DEF Next

\* A step that takes nothing.
LEMMA QuietTaken ==
    ASSUME NEW G, NEW H, TakenInv(G), G \subseteq H, UNCHANGED <<mode, pkg, parsed, cur, todo>>,
           pc' = "parse" => pc = "parse",
           pc' \in Active => pc \in Active,
           mode = "file" /\ pc' \in Taking \cup Committing =>
             pc \in Taking \cup Committing /\ (pc = "decide" => pc' = "decide")
    PROVE  TakenInv(H)'
  <1>1. EntryOf(Cnmt)' = EntryOf(Cnmt) /\ Cnmt' = Cnmt
    BY DEF Cnmt, EntryOf, NcaIds
  <1> QED BY <1>1 DEF TakenInv

\* The first entry is taken.
LEMMA TakeTaken ==
    ASSUME Formats, JobInv, NEW G, NEW H, TakenInv(G), G \subseteq H, pc \in Taking, todo # <<>>,
           Head(todo).kind \in {"nca", "cnmt"} => Head(todo).id \in H,
           UNCHANGED <<mode, pkg, parsed, cur>>, AfterEntry(Head(todo))
    PROVE  TakenInv(H)'
  <1> DEFINE e == Head(todo)
  <1>1. EntryOf(Cnmt)' = EntryOf(Cnmt) /\ Cnmt' = Cnmt
    BY DEF Cnmt, EntryOf, NcaIds
  <1>2. CASE e.kind = "cnmt"
    <2>1. pc' = "parse" /\ todo' = todo
      BY <1>2 DEF AfterEntry
    <2> QED BY <1>2, <2>1 DEF TakenInv, Active, Taking, Committing
  <1>3. CASE e.kind # "cnmt"
    <2>1. pc' = "install" /\ todo' = Tail(todo)
      BY <1>3 DEF AfterEntry
    <2>2. \A x : (\E i \in 1 .. Len(todo) : todo[i] = x) => x = e \/ \E i \in 1 .. Len(todo') : todo'[i] = x
      BY <2>1, TodoFirstOrOther
    <2> HIDE DEF e
    <2>3. ASSUME mode = "stream", NEW x \in Range(pkg), x.kind \in {"nca", "cnmt"}
          PROVE  x.id \in H \/ \E i \in 1 .. Len(todo') : todo'[i] = x
      <3>1. x.id \in G \/ \E i \in 1 .. Len(todo) : todo[i] = x
        BY <2>3 DEF TakenInv, Active
      <3> QED BY <2>2, <2>3, <3>1 DEF e
    <2>4. ASSUME mode = "file", Len(parsed) = cur, NEW id \in EntryOf(Cnmt).infos
          PROVE  id \in H \/ \E i \in 1 .. Len(todo') : todo'[i].id = id
      <3>1. id \in G \/ \E i \in 1 .. Len(todo) : todo[i].id = id
        BY <2>4 DEF TakenInv, Taking
      <3>2. CASE \E i \in 1 .. Len(todo) : todo[i].id = id
        <4>1. PICK i \in 1 .. Len(todo) : todo[i].id = id
          BY <3>2
        <4>2. CASE todo[i] = e
          <5>1. Len(parsed) \in Nat /\ cur \in Nat
            BY DEF JobInv, JobTypes
          <5>2. todo[i].kind = "nca"
            BY <2>4, <4>1, <5>1 DEF JobInv, InFile
          <5> QED BY <4>1, <4>2, <5>2 DEF e
        <4>3. CASE todo[i] # e
          <5>1. \E j \in 1 .. Len(todo') : todo'[j] = todo[i]
            BY <2>2, <4>1, <4>3
          <5> QED BY <4>1, <5>1
        <4> QED BY <4>2, <4>3
      <3> QED BY <3>1, <3>2
    <2> QED BY <1>1, <2>1, <2>3, <2>4 DEF TakenInv
  <1> QED BY <1>2, <1>3

\* A cnmt has been parsed: it has been taken itself.
LEMMA ParseTaken ==
    ASSUME Formats, JobInv, NEW G, NEW H, TakenInv(G), G \subseteq H, ParseCnmt
    PROVE  TakenInv(H)'
  <1> DEFINE c == Head(todo)
  <1>1. /\ pc = "parse" /\ UNCHANGED <<mode, pkg, cur>> /\ todo # <<>> /\ mode \in {"stream", "file"}
    BY ModesOfCode DEF ParseCnmt, fixed, plan, JobInv, JobTypes
  <1>2. CASE pc' = "fail"
    BY <1>2 DEF TakenInv, Active, Taking, Committing
  <1>3. CASE pc' # "fail"
    <2>1. /\ parsed' = Append(parsed, c) /\ todo' = Tail(todo)
          /\ pc' = IF mode = "file" THEN "decide" ELSE "install"
      BY <1>3 DEF ParseCnmt
    <2>2. c.id \in G
      BY <1>1 DEF TakenInv
    <2>3. CASE mode = "stream"
      <3>1. \A x : (\E i \in 1 .. Len(todo) : todo[i] = x) => x = c \/ \E i \in 1 .. Len(todo') : todo'[i] = x
        BY <1>1, <2>1, TodoFirstOrOther
      <3> HIDE DEF c
      <3>2. ASSUME NEW x \in Range(pkg), x.kind \in {"nca", "cnmt"}
            PROVE  x.id \in H \/ \E i \in 1 .. Len(todo') : todo'[i] = x
        <4>1. x.id \in G \/ \E i \in 1 .. Len(todo) : todo[i] = x
          BY <1>1, <2>3, <3>2 DEF TakenInv, Active
        <4> QED BY <2>2, <3>1, <4>1
      <3> QED BY <1>1, <2>1, <2>3, <3>2 DEF TakenInv, Taking, Committing
    <2>4. CASE mode = "file"
      <3> DEFINE T == Titles(pkg)
      <3>1. parsed \in Seq(T) /\ Len(parsed) = cur - 1 /\ cur \in Nat
        BY <1>1, <2>4 DEF JobInv, JobTypes, InFile
      <3> HIDE DEF T, c
      <3>2. parsed'[cur] = c
        BY <2>1, <3>1
      <3>3. Cnmt' = c
        BY <1>1, <3>2 DEF Cnmt
      <3>4. pc' = "decide"
        BY <2>1, <2>4
      <3> QED BY <1>1, <2>2, <2>4, <3>3, <3>4 DEF TakenInv
    <2> QED BY <1>1, <2>3, <2>4
  <1> QED BY <1>2, <1>3

\* The NCAs of the cnmt are to be taken next.
LEMMA DecideTaken ==
    ASSUME Formats, OneNca, JobInv, NothingToTake, NEW G, NEW H, TakenInv(G), G \subseteq H, Decide
    PROVE  TakenInv(H)'
  <1>1. pc = "decide" /\ UNCHANGED <<mode, pkg, parsed>>
    BY DEF Decide, fixed, scan
  <1>2. CASE Advance
    <2>1. UNCHANGED todo /\ pc' \in {"decide", "cleanup"} /\ (pc' = "decide" => mode = "stream")
      BY <1>2 DEF Advance
    <2> QED BY <1>1, <2>1 DEF TakenInv, Active, Taking, Committing
  <1>3. CASE mode # "file" /\ pc' = "import" /\ UNCHANGED <<cur, todo>>
    BY <1>1, <1>3, QuietTaken DEF Active, Taking, Committing
  <1>4. CASE /\ mode = "file" /\ pc' = "install" /\ UNCHANGED cur
             /\ \E ncas \in Ncas(Cnmt) :
                  todo' = [i \in 1 .. Len(ncas) |-> Named(pkg, ncas[i].id)]
    <2>1. PICK ncas \in Ncas(Cnmt) : todo' = [i \in 1 .. Len(ncas) |-> Named(pkg, ncas[i].id)]
      BY <1>4
    <2>2. pkg \in Packages /\ Cnmt \in Titles(pkg) /\ cur \in 1 .. Len(parsed) /\ Cnmt = parsed[cur]
      BY <1>1, CurrentKnown DEF Committing
    <2>3. /\ Len(ncas) \in Nat /\ \A i \in 1 .. Len(ncas) : ncas[i].id \in NcaIds(Cnmt)
          /\ \A id \in NcaIds(Cnmt) : \E i \in 1 .. Len(ncas) : ncas[i].id = id
      BY <2>2, NcasKept
    <2>4. ASSUME NEW id \in NcaIds(Cnmt) PROVE \E i \in 1 .. Len(todo') : todo'[i].id = id
      <3>1. PICK i \in 1 .. Len(ncas) : ncas[i].id = id
        BY <2>3
      <3>2. \E e \in Range(pkg) : e.kind = "nca" /\ e.id = id
        BY <2>2 DEF JobInv, NcasFound
      <3>3. Named(pkg, id).id = id
        BY <2>2, <3>2, NamedNca
      <3>4. Len(todo') = Len(ncas) /\ todo'[i] = Named(pkg, id)
        BY <2>1, <2>3, <3>1
      <3> QED BY <3>1, <3>3, <3>4
    <2>5. Cnmt.id \in G
      <3>1. Len(parsed) = cur
        BY <1>1, <1>4 DEF JobInv, InFile, Committing
      <3>2. ~\E i \in 1 .. Len(todo) : TRUE
        BY <1>1 DEF NothingToTake, Committing
      <3>3. Cnmt.id \in EntryOf(Cnmt).infos
        BY DEF EntryOf
      <3> QED BY <1>1, <1>4, <3>1, <3>2, <3>3 DEF TakenInv, Committing
    <2>6. EntryOf(Cnmt)' = EntryOf(Cnmt)
      BY <1>1, <1>4 DEF Cnmt, EntryOf, NcaIds
    <2>7. \A id \in EntryOf(Cnmt).infos : id \in H \/ \E i \in 1 .. Len(todo') : todo'[i].id = id
      BY <2>4, <2>5 DEF EntryOf
    <2> QED BY <1>1, <1>4, <2>6, <2>7 DEF TakenInv
  <1> QED BY <1>2, <1>3, <1>4 DEF Decide

\* A stream begins with all entries of the container.
LEMMA BeginTaken ==
    ASSUME Formats, NEW H, NEW p \in Packages, NEW m \in Modes, Begin(p, m)
    PROVE  TakenInv(H)'
  <1>1. /\ mode' = m /\ pkg' = p /\ parsed' = <<>> /\ cur' = 1 /\ pc' # "parse"
        /\ m = "stream" => todo' \in InStreamOrder[p]
    BY DEF Begin
  <1>2. m = "stream" => \A e \in Range(p) : \E i \in 1 .. Len(todo') : todo'[i] = e
    BY <1>1, StreamOrderKept
  <1>3. Len(parsed') # cur'
    BY <1>1
  <1> QED BY <1>1, <1>2, <1>3 DEF TakenInv

\* Every step keeps it, if what has been dealt with before still is, and what
\* the step takes is.
LEMMA NextTaken ==
    ASSUME Formats, OneNca, JobInv, NothingToTake, [Next]_vars,
           NEW G, NEW H, TakenInv(G),
           pc \notin {"idle", "cleanup", "fail"} => G \subseteq H,
           (SkipInstalled \/ FillPlaceHolder) /\ pc' # "fail" => Head(todo).id \in H,
           UNCHANGED vars => G \subseteq H
    PROVE  TakenInv(H)'
  <1> USE DEF device, storage, job, scan, plan, fixed
  <1>0. pc' \notin Active => TakenInv(H)'
    BY DEF TakenInv, Active
  <1>1. ASSUME NEW p \in Packages, NEW m \in Modes, Begin(p, m) PROVE TakenInv(H)'
    BY <1>1, BeginTaken
  <1>2. CASE SkipInstalled
    <2>1. /\ pc = "install" /\ todo # <<>> /\ UNCHANGED <<mode, pkg, parsed, cur>>
          /\ AfterEntry(Head(todo)) \/ pc' = "fail"
      BY <1>2 DEF SkipInstalled
    <2>2. pc' # "fail" => Head(todo).id \in H
      BY <1>2
    <2> QED BY <1>0, <2>1, <2>2, TakeTaken DEF Taking, Active, Committing
  <1>3. CASE CreatePlaceHolder
    <2>1. pc = "install" /\ pc' = "fill" /\ UNCHANGED <<mode, pkg, parsed, cur, todo>>
      BY <1>3 DEF CreatePlaceHolder
    <2> QED BY <2>1, QuietTaken DEF Taking, Active, Committing
  <1>4. CASE FillPlaceHolder
    <2>1. /\ pc = "fill" /\ todo # <<>> /\ UNCHANGED <<mode, pkg, parsed, cur>>
          /\ AfterEntry(Head(todo)) \/ pc' = "fail"
      BY <1>4 DEF FillPlaceHolder, JobInv, JobTypes
    <2>2. pc' # "fail" => Head(todo).id \in H
      BY <1>4
    <2> QED BY <1>0, <2>1, <2>2, TakeTaken DEF Taking, Active, Committing
  <1>5. CASE ReadTicketData
    <2>1. /\ pc = "install" /\ todo # <<>> /\ UNCHANGED <<mode, pkg, parsed, cur>>
          /\ Head(todo).kind \in {"tik", "cert"}
          /\ (pc' = "install" /\ todo' = Tail(todo)) \/ pc' = "fail"
      BY <1>5 DEF ReadTicketData
    <2>2. pc' = "fail" \/ AfterEntry(Head(todo))
      BY <2>1 DEF AfterEntry
    <2> QED BY <1>0, <2>1, <2>2, TakeTaken DEF Taking, Active, Committing
  <1>6. CASE ParseCnmt
    BY <1>6, ParseTaken DEF ParseCnmt
  <1>7. CASE EntriesDone
    <2>1. /\ pc = "install" /\ pc' \in {"import", "decide", "cleanup"} /\ UNCHANGED <<mode, pkg, parsed, cur, todo>>
      BY <1>7 DEF EntriesDone
    <2> QED BY <1>0, <2>1, QuietTaken DEF Taking, Active, Committing
  <1>8. CASE Decide
    BY <1>8, DecideTaken DEF Decide
  <1>9. CASE ImportTicket \/ TicketsDone \/ RemoveNext \/ DeleteContent \/ RemoveKey \/ CommitRemoval \/ RemoveDone
    <2>1. /\ pc \in {"import", "remove", "delete", "removeCommit"}
          /\ pc' \in {"import", "fail", "remove", "delete", "removeCommit", "register"}
          /\ UNCHANGED <<mode, pkg, parsed, cur, todo>>
      BY <1>9 DEF ImportTicket, TicketsDone, RemoveNext, DeleteContent, RemoveKey, CommitRemoval, RemoveDone
    <2> QED BY <1>0, <2>1, QuietTaken DEF Taking, Active, Committing
  <1>10. CASE RegisterDelete \/ RegisterMove \/ SetMeta \/ CommitMeta \/ PushRecord
    <2>1. /\ pc \in {"register", "move", "commit", "push"}
          /\ pc' \in {"register", "move", "commit", "push", "launch", "fail"}
          /\ UNCHANGED <<mode, pkg, parsed, cur, todo>>
      BY <1>10 DEF RegisterDelete, RegisterMove, SetMeta, CommitMeta, PushRecord
    <2> QED BY <1>0, <2>1, QuietTaken DEF Taking, Active, Committing
  <1>11. CASE PushLaunchVersion
    <2>1. /\ pc = "launch" /\ UNCHANGED <<mode, pkg, parsed, todo>>
          /\ pc' \in {"decide", "cleanup"} /\ (pc' = "decide" => mode = "stream")
      BY <1>11 DEF PushLaunchVersion, Advance
    <2> QED BY <2>1 DEF TakenInv, Active, Taking, Committing
  <1>12. CASE Cleanup
    <2>1. CASE pc = "cleanup" /\ MoreCnmts
      <3>1. pc' = "install" /\ cur' = cur + 1 /\ UNCHANGED <<mode, parsed>> /\ mode = "file"
        BY <1>12, <2>1 DEF Cleanup, MoreCnmts
      <3>2. Len(parsed) <= cur /\ cur \in Nat /\ Len(parsed) \in Nat
        BY <2>1 DEF JobInv, JobTypes
      <3>3. Len(parsed') # cur'
        BY <3>1, <3>2
      <3> QED BY <3>1, <3>3 DEF TakenInv
    <2>2. CASE ~(pc = "cleanup" /\ MoreCnmts)
      BY <1>0, <1>12, <2>2 DEF Cleanup, Active, Taking, Committing
    <2> QED BY <2>1, <2>2
  <1>13. CASE CallFails \/ Crash
    BY <1>0, <1>13 DEF CallFails, Crash, Active, Taking, Committing
  <1>14. CASE Idle \/ UNCHANGED vars
    <2>1. UNCHANGED vars
      BY <1>14 DEF Idle
    <2> QED BY <2>1, QuietTaken DEF vars
  <1> QED
    BY <1>1, <1>2, <1>3, <1>4, <1>5, <1>6, <1>7, <1>8, <1>9, <1>10, <1>11, <1>12, <1>13, <1>14
    DEF Next

-----------------------------------------------------------------------------
(* Tickets *)

\* The ticket of a content is imported, or going to be.
Covered(id) == TikOf(id) \subseteq required \cup tickets
CoveredSet == {id \in Ids : Covered(id)}

\* An entry of a database, committed or not, has its tickets; ...
DbTicketed ==
    \A s \in Storages : \A e \in db[s] \cup disk[s] : \A id \in e.infos : TikOf(id) \subseteq tickets

\* ... and so has the cnmt that is going to be one.
Readied ==
    pc \in {"remove", "delete", "removeCommit", "register", "move"} =>
        \A id \in EntryOf(Cnmt).infos : TikOf(id) \subseteq tickets

\* Tickets stay, and what is required is imported or stays required.
LEMMA TicketSteps ==
    ASSUME [Next]_vars
    PROVE  /\ tickets \subseteq tickets'
           /\ pc # "idle" \/ UNCHANGED vars => required \cup tickets \subseteq required' \cup tickets'
  <1> USE DEF device, outside, job, scan, plan
  <1>1. ASSUME NEW p \in Packages, NEW m \in Modes, Begin(p, m) PROVE UNCHANGED tickets /\ pc = "idle" /\ ~UNCHANGED vars
    <2>1. UNCHANGED tickets /\ pc = "idle" /\ pc' # "idle"
      BY <1>1 DEF Begin
    <2> QED BY <2>1 DEF vars
  <1>2. CASE SkipInstalled \/ FillPlaceHolder
    <2>1. UNCHANGED tickets /\ (Mark(Head(todo)) \/ UNCHANGED required)
      BY <1>2 DEF SkipInstalled, FillPlaceHolder
    <2> QED BY <2>1 DEF Mark
  <1>3. CASE CreatePlaceHolder \/ ReadTicketData \/ ParseCnmt \/ EntriesDone \/ Decide \/ TicketsDone
    BY <1>3 DEF CreatePlaceHolder, ReadTicketData, ParseCnmt, EntriesDone, Decide, TicketsDone
  <1>4. CASE ImportTicket
    <2>1. \E t : \/ tickets' = tickets \cup {t} /\ required' = required \ {t}
                 \/ UNCHANGED <<tickets, required>>
      BY <1>4 DEF ImportTicket
    <2> QED BY <2>1
  <1>5. CASE RemoveNext \/ DeleteContent \/ RemoveKey \/ CommitRemoval \/ RemoveDone
    BY <1>5 DEF RemoveNext, DeleteContent, RemoveKey, CommitRemoval, RemoveDone
  <1>6. CASE RegisterDelete \/ RegisterMove \/ SetMeta \/ CommitMeta \/ PushRecord \/ PushLaunchVersion
    BY <1>6 DEF RegisterDelete, RegisterMove, SetMeta, CommitMeta, PushRecord, PushLaunchVersion
  <1>7. CASE Cleanup \/ CallFails \/ Crash
    BY <1>7 DEF Cleanup, CallFails, Crash
  <1>8. CASE Idle \/ UNCHANGED vars
    BY <1>8 DEF Idle, vars
  <1> QED BY <1>1, <1>2, <1>3, <1>4, <1>5, <1>6, <1>7, <1>8 DEF Next

\* The entry that is taken is covered.
LEMMA TakenIsCovered ==
    ASSUME OneTicket, JobInv, [Next]_vars, SkipInstalled \/ FillPlaceHolder, pc' # "fail"
    PROVE  Head(todo).id \in CoveredSet'
  <1> DEFINE e == Head(todo)
  <1>1. todo # <<>> /\ Mark(e)
    BY DEF SkipInstalled, FillPlaceHolder, JobInv, JobTypes
  <1>2. e \in Range(pkg)
    BY <1>1, TakenAtHand
  <1>3. e.id \in Ids /\ pkg \in Packages
    BY <1>2, EntryAtHand
  <1>4. e \in Items
    BY <1>2, <1>3 DEF Items
  <1> HIDE DEF e
  <1>5. \A x \in Items : x.id = e.id => x.tik = e.tik
    BY <1>4 DEF OneTicket
  <1>6. TikOf(e.id) \subseteq {e.tik} \ {NoTicket}
    BY <1>5 DEF TikOf, Items
  <1>7. {e.tik} \ {NoTicket} \subseteq required'
    BY <1>1 DEF Mark
  <1>8. TikOf(e.id) \subseteq required' \cup tickets'
    BY <1>6, <1>7
  <1>9. e.id \in CoveredSet'
    BY <1>3, <1>8 DEF CoveredSet, Covered
  <1> QED BY <1>9 DEF e

LEMMA NextCovered ==
    ASSUME Formats, OneNca, OneTicket, JobInv, NothingToTake, TakenInv(CoveredSet), [Next]_vars
    PROVE  TakenInv(CoveredSet)'
  <1>1. PICK g : g = CoveredSet
    OBVIOUS
  <1>2. PICK h : h = CoveredSet'
    OBVIOUS
  <1>3. TakenInv(g)
    BY <1>1
  <1>4. pc # "idle" \/ UNCHANGED vars => g \subseteq h
    BY <1>1, <1>2, TicketSteps DEF CoveredSet, Covered
  <1>5. (SkipInstalled \/ FillPlaceHolder) /\ pc' # "fail" => Head(todo).id \in h
    BY <1>2, TakenIsCovered
  <1>6. pc \notin {"idle", "cleanup", "fail"} => g \subseteq h
    BY <1>4
  <1>7. UNCHANGED vars => g \subseteq h
    BY <1>4
  <1>8. TakenInv(h)'
    BY <1>3, <1>5, <1>6, <1>7, NextTaken
  <1> QED BY <1>2, <1>8 DEF TakenInv

\* Once the decision to install it is made, all of a cnmt has been dealt with.
LEMMA AllTakenOf ==
    ASSUME Formats, JobInv, NothingToTake, NEW G, TakenInv(G), pc \in Committing, pc # "decide",
           NEW id \in EntryOf(Cnmt).infos
    PROVE  id \in G
  <1>1. todo = <<>> /\ Len(todo) = 0
    BY DEF NothingToTake
  <1>2. mode \in {"stream", "file"}
    BY ModesOfCode DEF JobInv, JobTypes, Committing
  <1>3. CASE mode = "stream"
    <2>1. PICK e \in Range(pkg) : e.id = id /\ e.kind \in {"nca", "cnmt"}
      BY ContentsAtHand
    <2> QED BY <1>1, <1>3, <2>1 DEF TakenInv, Active
  <1>4. CASE mode = "file"
    <2>1. Len(parsed) = cur
      BY <1>4 DEF JobInv, InFile
    <2> QED BY <1>1, <1>4, <2>1 DEF TakenInv
  <1> QED BY <1>2, <1>3, <1>4

\* When no ticket is required any more, those of the cnmt have been imported.
LEMMA TicketsDoneReadied ==
    ASSUME Formats, JobInv, NothingToTake, TakenInv(CoveredSet), TicketsDone
    PROVE  Readied'
  <1>1. /\ pc = "import" /\ required = {} /\ UNCHANGED <<tickets, parsed, cur>> /\ todo = <<>>
    BY DEF TicketsDone, device, outside, job, scan, plan, NothingToTake, Committing
  <1>2. EntryOf(Cnmt)' = EntryOf(Cnmt) /\ Cnmt' = Cnmt
    BY <1>1 DEF Cnmt, EntryOf, NcaIds
  <1>3. ASSUME NEW id \in EntryOf(Cnmt).infos PROVE TikOf(id) \subseteq tickets
    <2>1. PICK g : g = CoveredSet
      OBVIOUS
    <2>2. id \in g
      BY <1>1, <2>1, AllTakenOf DEF Committing
    <2> QED BY <1>1, <2>1, <2>2 DEF CoveredSet, Covered
  <1> QED BY <1>1, <1>2, <1>3 DEF Readied

LEMMA NextReadied ==
    ASSUME Formats, JobInv, NothingToTake, TakenInv(CoveredSet), Readied, [Next]_vars
    PROVE  Readied'
  <1> USE DEF job, scan, plan
  <1> DEFINE Phase == {"remove", "delete", "removeCommit", "register", "move"}
  <1>1. CASE pc' \notin Phase
    BY <1>1 DEF Readied
  <1>2. CASE TicketsDone
    BY <1>2, TicketsDoneReadied
  <1>3. CASE pc \in Phase /\ UNCHANGED <<parsed, cur>>
    <2>1. EntryOf(Cnmt)' = EntryOf(Cnmt) /\ Cnmt' = Cnmt
      BY <1>3 DEF Cnmt, EntryOf, NcaIds
    <2> QED BY <1>3, <2>1, TicketSteps DEF Readied
  <1>4. ASSUME NEW p \in Packages, NEW m \in Modes, Begin(p, m) PROVE pc' \notin Phase
    BY <1>4 DEF Begin
  <1>5. SkipInstalled \/ CreatePlaceHolder \/ FillPlaceHolder \/ ReadTicketData \/ ParseCnmt \/ EntriesDone
          => pc' \notin Phase
    BY DEF SkipInstalled, CreatePlaceHolder, FillPlaceHolder, ReadTicketData, ParseCnmt, EntriesDone, AfterEntry
  <1>6. Decide \/ ImportTicket => pc' \notin Phase
    BY DEF Decide, ImportTicket, Advance
  <1>7. RemoveNext \/ DeleteContent \/ RemoveKey \/ CommitRemoval \/ RemoveDone \/ RegisterDelete \/ RegisterMove
          => pc \in Phase /\ UNCHANGED <<parsed, cur>>
    BY DEF RemoveNext, DeleteContent, RemoveKey, CommitRemoval, RemoveDone, RegisterDelete, RegisterMove
  <1>8. SetMeta \/ CommitMeta \/ PushRecord \/ PushLaunchVersion \/ Cleanup \/ CallFails \/ Crash => pc' \notin Phase
    BY DEF SetMeta, CommitMeta, PushRecord, PushLaunchVersion, Cleanup, CallFails, Crash, Advance
  <1>9. Idle \/ UNCHANGED vars => pc' = pc /\ UNCHANGED <<parsed, cur>>
    BY DEF Idle, vars
  <1> HIDE DEF Phase
  <1> QED BY <1>1, <1>2, <1>3, <1>4, <1>5, <1>6, <1>7, <1>8, <1>9 DEF Next

LEMMA NextDbTicketed ==
    ASSUME Formats, JobInv, ConsoleInv, Readied, DbTicketed, [Next]_vars
    PROVE  DbTicketed'
  <1> USE DEF ConsoleInv, StorageMaps, Storages, Dest
  <1>0. tickets \subseteq tickets'
    BY TicketSteps
  <1>1. ASSUME NEW s \in Storages, NEW e \in db'[s]
        PROVE  (\E t \in Storages : e \in db[t] \cup disk[t]) \/ (\A id \in e.infos : TikOf(id) \subseteq tickets)
    <2>1. CASE UNCHANGED db
      BY <1>1, <2>1
    <2>2. CASE RemoveKey
      <3>1. db' = [db EXCEPT ![victim.in] = {x \in @ : x.key # victim.key}]
        BY <2>2 DEF RemoveKey
      <3> QED BY <1>1, <3>1
    <2>3. CASE SetMeta
      <3>1. /\ pc = "register" /\ db' = [db EXCEPT ![Dest] = {x \in @ : x.key # Cnmt.key} \cup {NewEntry}]
        BY <2>3 DEF SetMeta
      <3>2. NewEntry = EntryOf(Cnmt)
        BY DEF NewEntry, EntryOf
      <3>3. e \in db[s] \/ e = EntryOf(Cnmt)
        BY <1>1, <3>1, <3>2
      <3> QED BY <3>1, <3>3 DEF Readied
    <2>4. CASE Crash
      <3>1. db' = db \/ db' = disk
        BY <2>4 DEF Crash
      <3> QED BY <1>1, <3>1
    <2> QED BY <2>1, <2>2, <2>3, <2>4, ConsoleSteps
  <1>2. ASSUME NEW s \in Storages, NEW e \in disk'[s] PROVE \E t \in Storages : e \in db[t] \cup disk[t]
    <2>1. CASE UNCHANGED disk
      BY <1>2, <2>1
    <2>2. CASE CommitRemoval \/ CommitMeta
      <3>1. \E t : disk' = [disk EXCEPT ![t] = db[t]]
        BY <2>2 DEF CommitRemoval, CommitMeta
      <3> QED BY <1>2, <3>1
    <2> QED BY <2>1, <2>2, ConsoleSteps
  <1>3. ASSUME NEW s \in Storages, NEW e \in db'[s] \cup disk'[s], NEW id \in e.infos PROVE TikOf(id) \subseteq tickets
    <2>1. (\E t \in Storages : e \in db[t] \cup disk[t]) \/ (\A i \in e.infos : TikOf(i) \subseteq tickets)
      BY <1>1, <1>2, <1>3
    <2> QED BY <1>3, <2>1 DEF DbTicketed
  <1> QED BY <1>0, <1>3 DEF DbTicketed

\* A title that is in the database has the tickets its contents need, however
\* many installs failed or were cut off between any two steps.
THEOREM TicketsBeforeContentsAlways ==
    ASSUME Formats, OneNca, OneTicket, DevicesTicketed PROVE Spec => []TicketsBeforeContents
  <1> DEFINE Inv == JobInv /\ ConsoleInv /\ NothingToTake /\ TakenInv(CoveredSet) /\ Readied /\ DbTicketed
  <1>1. Init => Inv
    <2> SUFFICES ASSUME Init PROVE Inv
      OBVIOUS
    <2>1. pc = "idle"
      BY DEF Init
    <2>2. NothingToTake /\ TakenInv(CoveredSet) /\ Readied
      BY <2>1 DEF NothingToTake, TakenInv, Readied, Active, Taking, Committing
    <2>3. PICK d \in Devices : db = d.db /\ disk = d.db /\ tickets = d.tickets
      BY DEF Init
    <2>4. DbTicketed
      BY <2>3 DEF DbTicketed, DevicesTicketed
    <2> QED BY <2>2, <2>4, InitJob, InitConsole
  <1>2. Inv /\ [Next]_vars => Inv'
    BY NextJob, NextConsole, NextNothing, NextCovered, NextReadied, NextDbTicketed
  <1>3. Inv => TicketsBeforeContents
    BY DEF DbTicketed, TicketsBeforeContents
  <1> HIDE DEF Inv
  <1> QED BY <1>1, <1>2, <1>3, PTL DEF Spec

-----------------------------------------------------------------------------
(* The placeholders of an install *)

Held(id) == <<id, run>> \in holders

\* The contents of the j-th cnmt are being registered, or the cnmt is done.
Undecided == {"install", "fill", "parse", "decide", "import", "remove", "delete", "removeCommit"}
Past(j) == j < cur \/ (j = cur /\ pc \notin Undecided)

\* What has been taken waits in its placeholder, was skipped, or is registered.
Dealt(id) ==
    Held(id) \/ id \in skipped \/ \E j \in 1 .. Len(parsed) : Past(j) /\ id \in EntryOf(parsed[j]).infos
DealtSet == {id \in Ids : Dealt(id)}

\* What is to be registered, each content once, is in its placeholder.
HeldInv ==
    /\ pc = "fill" => Held(Head(todo).id)
    /\ pc \in {"register", "move"} => Unrepeated(toRegister) /\ \A i \in 1 .. Len(toRegister) : Held(toRegister[i])
    /\ pc = "move" => Head(toRegister) \notin contents[Dest]

\* How an install goes on.
LEMMA WorkSteps ==
    ASSUME [Next]_vars, pc \notin {"idle", "cleanup", "fail"} \/ UNCHANGED vars
    PROVE  /\ run' = run /\ skipped \subseteq skipped'
           /\ UNCHANGED parsed \/ (ParseCnmt /\ parsed' = Append(parsed, Head(todo)) /\ UNCHANGED cur)
           /\ (UNCHANGED cur /\ (pc \notin Undecided => pc' \notin Undecided)) \/ cur' = cur + 1
           /\ holders \subseteq holders'
                \/ (RegisterMove /\ pc' = "register" /\ holders' = holders \ {<<Head(toRegister), run>>})
  <1> USE DEF device, storage, job, scan, plan, fixed, book, Undecided
  <1>1. ASSUME NEW p \in Packages, NEW m \in Modes, Begin(p, m) PROVE FALSE
    BY <1>1 DEF Begin, vars
  <1>2. CASE SkipInstalled \/ CreatePlaceHolder \/ FillPlaceHolder
    BY <1>2 DEF SkipInstalled, CreatePlaceHolder, FillPlaceHolder
  <1>3. CASE ReadTicketData \/ EntriesDone \/ ImportTicket \/ TicketsDone
    BY <1>3 DEF ReadTicketData, EntriesDone, ImportTicket, TicketsDone
  <1>4. CASE ParseCnmt
    <2>1. pc = "parse" /\ UNCHANGED <<run, skipped, cur, holders>> /\ (UNCHANGED parsed \/ parsed' = Append(parsed, Head(todo)))
      BY <1>4 DEF ParseCnmt
    <2> QED BY <1>4, <2>1
  <1>5. CASE Decide
    BY <1>5 DEF Decide, Advance
  <1>6. CASE RemoveNext \/ DeleteContent \/ RemoveKey \/ CommitRemoval \/ RemoveDone
    BY <1>6 DEF RemoveNext, DeleteContent, RemoveKey, CommitRemoval, RemoveDone
  <1>7. CASE RegisterDelete \/ SetMeta \/ CommitMeta \/ PushRecord
    BY <1>7 DEF RegisterDelete, SetMeta, CommitMeta, PushRecord
  <1>8. CASE RegisterMove
    <2>1. /\ UNCHANGED <<run, skipped, parsed, cur>> /\ pc' \notin Undecided
          /\ UNCHANGED holders \/ (pc' = "register" /\ holders' = holders \ {<<Head(toRegister), run>>})
      BY <1>8 DEF RegisterMove
    <2> QED BY <1>8, <2>1
  <1>9. CASE PushLaunchVersion
    BY <1>9 DEF PushLaunchVersion, Advance
  <1>10. CASE Cleanup
    BY <1>10 DEF Cleanup, vars
  <1>11. CASE CallFails \/ Crash
    BY <1>11 DEF CallFails, Crash
  <1>12. CASE Idle \/ UNCHANGED vars
    BY <1>12 DEF Idle, vars
  <1> QED BY <1>1, <1>2, <1>3, <1>4, <1>5, <1>6, <1>7, <1>8, <1>9, <1>10, <1>11, <1>12 DEF Next

\* The content that is moved next is one of the cnmt.
LEMMA NextToRegister ==
    ASSUME ConsoleInv, pc \in {"register", "move"}, toRegister # <<>>
    PROVE  Head(toRegister) \in EntryOf(Cnmt).infos /\ Head(toRegister) = toRegister[1]
  <1> DEFINE I == EntryOf(Cnmt).infos \ skipped
  <1> HIDE DEF I
  <1>1. toRegister \in Seq(I)
    BY DEF ConsoleInv, RegisterInv, I
  <1>2. Head(toRegister) \in I /\ Head(toRegister) = toRegister[1]
    BY <1>1
  <1> QED BY <1>2 DEF I

\* What has been dealt with stays so.
LEMMA DealtStays ==
    ASSUME Formats, JobInv, ConsoleInv, [Next]_vars, pc \notin {"idle", "cleanup", "fail"} \/ UNCHANGED vars
    PROVE  DealtSet \subseteq DealtSet'
  <1> SUFFICES ASSUME NEW id \in Ids, Dealt(id) PROVE Dealt(id)'
    BY DEF DealtSet
  <1> DEFINE T == Titles(pkg)
  <1>1. parsed \in Seq(T) /\ cur \in Nat
    BY DEF JobInv, JobTypes
  <1> HIDE DEF T
  <1>2. /\ run' = run /\ skipped \subseteq skipped'
        /\ (UNCHANGED cur /\ (pc \notin Undecided => pc' \notin Undecided)) \/ cur' = cur + 1
    BY WorkSteps
  <1>3. \A j \in 1 .. Len(parsed) : j \in 1 .. Len(parsed') /\ parsed'[j] = parsed[j]
    <2>1. CASE parsed' = parsed
      BY <2>1
    <2>2. CASE ParseCnmt /\ parsed' = Append(parsed, Head(todo))
      <3> DEFINE c == Head(todo)
      <3>1. c \in Range(pkg) /\ c.kind = "cnmt"
        <4>1. pc = "parse"
          BY <2>2 DEF ParseCnmt
        <4>2. todo # <<>> /\ c.kind = "cnmt"
          BY <4>1 DEF JobInv, JobTypes
        <4> QED BY <4>2, TakenAtHand
      <3>2. c \in T
        BY <3>1 DEF T, Titles
      <3> HIDE DEF c
      <3>3. parsed' = Append(parsed, c)
        BY <2>2 DEF c
      <3> QED BY <1>1, <3>2, <3>3
    <2> QED BY <2>1, <2>2, WorkSteps
  <1>4. \A j \in 1 .. Len(parsed) : Past(j) => Past(j)'
    BY <1>1, <1>2 DEF Past
  <1>5. CASE Held(id)
    <2>1. CASE holders \subseteq holders'
      BY <1>2, <1>5, <2>1 DEF Dealt, Held
    <2>2. CASE RegisterMove /\ pc' = "register" /\ holders' = holders \ {<<Head(toRegister), run>>}
      <3>1. CASE id # Head(toRegister)
        BY <1>2, <1>5, <2>2, <3>1 DEF Dealt, Held
      <3>2. CASE id = Head(toRegister)
        <4>1. pc = "move" /\ UNCHANGED cur /\ toRegister # <<>>
          BY <2>2 DEF RegisterMove, plan, ConsoleInv, RegisterInv
        <4>2. cur \in 1 .. Len(parsed) /\ Cnmt = parsed[cur]
          BY <4>1, CurrentKnown DEF Committing
        <4>3. id \in EntryOf(parsed[cur]).infos
          BY <3>2, <4>1, <4>2, NextToRegister
        <4>4. Past(cur)'
          BY <2>2, <4>1 DEF Past, Undecided
        <4>5. cur \in 1 .. Len(parsed') /\ parsed'[cur] = parsed[cur]
          BY <1>3, <4>2
        <4>6. id \in EntryOf(parsed'[cur]).infos
          BY <4>3, <4>5
        <4> QED BY <4>4, <4>5, <4>6, <4>1 DEF Dealt, EntryOf, NcaIds
      <3> QED BY <3>1, <3>2
    <2> QED BY <2>1, <2>2, WorkSteps
  <1>6. CASE id \in skipped
    BY <1>2, <1>6 DEF Dealt
  <1>7. CASE \E j \in 1 .. Len(parsed) : Past(j) /\ id \in EntryOf(parsed[j]).infos
    <2>1. PICK j \in 1 .. Len(parsed) : Past(j) /\ id \in EntryOf(parsed[j]).infos
      BY <1>7
    <2>2. j \in 1 .. Len(parsed') /\ Past(j)' /\ id \in EntryOf(parsed'[j]).infos
      BY <1>3, <1>4, <2>1
    <2>3. j \in (1 .. Len(parsed))' /\ (id \in EntryOf(parsed[j]).infos)'
      BY <2>2 DEF EntryOf, NcaIds
    <2> QED BY <2>2, <2>3 DEF Dealt
  <1> QED BY <1>5, <1>6, <1>7 DEF Dealt

LEMMA NextDealt ==
    ASSUME Formats, OneNca, JobInv, ConsoleInv, NothingToTake, TakenInv(DealtSet), HeldInv, [Next]_vars
    PROVE  TakenInv(DealtSet)'
  <1>1. PICK g : g = DealtSet
    OBVIOUS
  <1>2. PICK h : h = DealtSet'
    OBVIOUS
  <1>3. TakenInv(g)
    BY <1>1
  <1>4. pc \notin {"idle", "cleanup", "fail"} => g \subseteq h
    BY <1>1, <1>2, DealtStays
  <1>5. UNCHANGED vars => g \subseteq h
    BY <1>1, <1>2, DealtStays
  <1>6. (SkipInstalled \/ FillPlaceHolder) /\ pc' # "fail" => Head(todo).id \in h
    <2> SUFFICES ASSUME SkipInstalled \/ FillPlaceHolder PROVE Head(todo).id \in h
      OBVIOUS
    <2>1. todo # <<>>
      BY DEF SkipInstalled, FillPlaceHolder, JobInv, JobTypes
    <2>2. Head(todo).id \in Ids
      BY <2>1, TakenAtHand, EntryAtHand
    <2>3. PICK id : id = Head(todo).id
      OBVIOUS
    <2>4. Dealt(id)'
      <3>1. CASE SkipInstalled
        <4>1. id \in skipped'
          BY <2>3, <3>1 DEF SkipInstalled
        <4> QED BY <4>1 DEF Dealt
      <3>2. CASE FillPlaceHolder
        <4>1. pc = "fill" /\ UNCHANGED <<holders, run>>
          BY <3>2 DEF FillPlaceHolder, device, storage, book
        <4>2. <<id, run>> \in holders
          BY <2>3, <4>1 DEF HeldInv, Held
        <4>3. <<id, run'>> \in holders'
          BY <4>1, <4>2
        <4> QED BY <4>3 DEF Dealt, Held
      <3> QED BY <3>1, <3>2
    <2>5. id \in DealtSet'
      BY <2>2, <2>3, <2>4 DEF DealtSet, Ids
    <2> QED BY <1>2, <2>3, <2>5
  <1>7. TakenInv(h)'
    BY <1>3, <1>4, <1>5, <1>6, NextTaken
  <1> QED BY <1>2, <1>7 DEF TakenInv

\* The NCAs of a cnmt, in any order, are each listed once.
LEMMA NcasUnrepeated ==
    ASSUME Formats, OneInfo, NEW p \in Packages, NEW c \in Titles(p), NEW ncas \in Ncas(c),
           NEW i \in 1 .. Len(ncas), NEW j \in 1 .. Len(ncas), ncas[i].id = ncas[j].id
    PROVE  i = j
  <1> DEFINE T == Range(c.infos)
             S == {x \in Range(c.infos) : x.type # Delta}
             s == c.infos
             w == Kept(s, S)
  <1>1. s \in Seq(T) /\ \A a, b \in 1 .. Len(s) : s[a].id = s[b].id => a = b
    BY DEF Formats, OneInfo
  <1>2. Wanted(c) = w
    BY DEF Wanted
  <1>3. PICK order \in Bijection(1 .. Len(w), 1 .. Len(w)) : ncas = [k \in 1 .. Len(w) |-> w[order[k]]]
    BY <1>2 DEF Ncas, Sorted
  <1> HIDE DEF S, T, s
  <1>4. Unrepeated(s)
    BY <1>1 DEF Unrepeated
  <1>5. /\ Kept(s, S) \in Seq(T)
        /\ \A x : (\E k \in 1 .. Len(Kept(s, S)) : Kept(s, S)[k] = x)
                    <=> (x \in S /\ \E k \in 1 .. Len(s) : s[k] = x)
        /\ Unrepeated(s) => Unrepeated(Kept(s, S))
    BY <1>1, KeptKeeps
  <1> HIDE DEF w
  <1>6. /\ w \in Seq(T) /\ Unrepeated(w)
        /\ \A x : (\E k \in 1 .. Len(w) : w[k] = x) => \E k \in 1 .. Len(s) : s[k] = x
    BY <1>4, <1>5 DEF w
  <1>7. /\ \A x : (\E k \in 1 .. Len(ncas) : ncas[k] = x) <=> (\E k \in 1 .. Len(w) : w[k] = x)
        /\ Unrepeated(w) => Unrepeated(ncas)
    <2>1. order \in [1 .. Len(w) -> 1 .. Len(w)]
      BY DEF Bijection, Injection
    <2>2. ncas \in [1 .. Len(w) -> T] /\ \A k \in 1 .. Len(w) : ncas[k] = w[order[k]]
      BY <1>3, <1>6, <2>1
    <2>3. w \in Seq(T)
      BY <1>6
    <2>4. /\ ncas \in Seq(T) /\ Len(ncas) = Len(w)
          /\ \A x : (\E k \in 1 .. Len(ncas) : ncas[k] = x) <=> (\E k \in 1 .. Len(w) : w[k] = x)
          /\ Unrepeated(w) => Unrepeated(ncas)
      BY <2>2, <2>3, SortedKeeps
    <2> QED BY <2>4
  <1>8. PICK a \in 1 .. Len(s), b \in 1 .. Len(s) : s[a] = ncas[i] /\ s[b] = ncas[j]
    <2>1. ASSUME NEW k \in 1 .. Len(ncas) PROVE \E a \in 1 .. Len(s) : s[a] = ncas[k]
      <3>1. \E l \in 1 .. Len(w) : w[l] = ncas[k]
        BY <1>7
      <3> QED BY <1>6, <3>1
    <2>2. PICK a \in 1 .. Len(s) : s[a] = ncas[i]
      BY <2>1
    <2>3. PICK b \in 1 .. Len(s) : s[b] = ncas[j]
      BY <2>1
    <2> QED BY <2>2, <2>3
  <1>9. a = b
    BY <1>1, <1>8
  <1>10. ncas[i] = ncas[j]
    BY <1>8, <1>9
  <1> QED BY <1>6, <1>7, <1>10 DEF Unrepeated

LEMMA OneMoreUnrepeated ==
    ASSUME NEW I, NEW one \in Seq(I), NEW rest \in Seq(I)
    PROVE  Len(one) = 1 /\ Unrepeated(rest) /\ (\A i \in 1 .. Len(rest) : rest[i] # one[1]) => Unrepeated(one \o rest)
  <1> DEFINE ids == one \o rest
  <1>1. /\ Len(ids) = Len(one) + Len(rest) /\ Len(rest) \in Nat
        /\ \A i \in 1 .. Len(one) : ids[i] = one[i]
        /\ \A i \in 1 .. Len(rest) : ids[Len(one) + i] = rest[i]
    OBVIOUS
  <1> HIDE DEF ids
  <1>2. ASSUME Len(one) = 1, Unrepeated(rest), \A i \in 1 .. Len(rest) : rest[i] # one[1],
               NEW i \in 1 .. Len(ids), NEW j \in 1 .. Len(ids), ids[i] = ids[j]
        PROVE  i = j
    <2>1. ASSUME NEW k \in 1 .. Len(ids) PROVE (k = 1 /\ ids[k] = one[1]) \/ (k - 1 \in 1 .. Len(rest) /\ ids[k] = rest[k - 1])
      <3>1. CASE k = 1
        BY <1>1, <1>2, <3>1
      <3>2. CASE k # 1
        <4>1. k - 1 \in 1 .. Len(rest) /\ 1 + (k - 1) = k
          BY <1>1, <1>2, <3>2
        <4> QED BY <1>1, <1>2, <4>1
      <3> QED BY <3>1, <3>2
    <2>2. (i = 1 /\ ids[i] = one[1]) \/ (i - 1 \in 1 .. Len(rest) /\ ids[i] = rest[i - 1])
      BY <2>1
    <2>3. (j = 1 /\ ids[j] = one[1]) \/ (j - 1 \in 1 .. Len(rest) /\ ids[j] = rest[j - 1])
      BY <2>1
    <2>4. i = 1 <=> j = 1
      BY <1>2, <2>2, <2>3
    <2>5. i # 1 => i - 1 = j - 1
      BY <1>2, <2>2, <2>3, <2>4 DEF Unrepeated
    <2> QED BY <2>4, <2>5
  <1>3. Len(one) = 1 /\ Unrepeated(rest) /\ (\A i \in 1 .. Len(rest) : rest[i] # one[1]) => Unrepeated(ids)
    BY <1>2 DEF Unrepeated
  <1> QED BY <1>3 DEF ids

\* Of the title that is installed, what is not skipped is in its placeholder: no
\* cnmt before it can have taken it.
LEMMA OwnIsHeld ==
    ASSUME Formats, OneOwner, DistinctTitles, JobInv, NothingToTake, TakenInv(DealtSet), pc = "remove",
           NEW id \in EntryOf(Cnmt).infos, id \notin skipped
    PROVE  Held(id)
  <1>1. PICK g : g = DealtSet
    OBVIOUS
  <1>2. id \in g
    BY <1>1, AllTakenOf DEF Committing
  <1>3. Dealt(id)
    BY <1>1, <1>2 DEF DealtSet
  <1>4. ASSUME NEW j \in 1 .. Len(parsed), Past(j), id \in EntryOf(parsed[j]).infos PROVE FALSE
    <2>1. j # cur /\ cur <= Len(parsed)
      BY <1>4 DEF Past, Undecided, JobInv, JobTypes, Committing
    <2>2. ~SameTitle(parsed[j].key, Cnmt.key)
      BY <2>1, OtherTitle
    <2>3. EntryOf(parsed[j]) \in Known /\ EntryOf(Cnmt) \in Known
      BY CnmtKnown, CurrentKnown DEF Committing
    <2>4. EntryOf(parsed[j]).key = parsed[j].key /\ EntryOf(Cnmt).key = Cnmt.key
      BY DEF EntryOf
    <2>5. id \in EntryOf(parsed[j]).infos \cap EntryOf(Cnmt).infos
      BY <1>4
    <2> QED BY <2>2, <2>3, <2>4, <2>5 DEF OneOwner
  <1> QED BY <1>3, <1>4 DEF Dealt

\* What is to be registered is each content once: the NCAs of the cnmt are
\* listed once, and it is not one of them.
LEMMA RegistersOnce ==
    ASSUME Formats, OneNca, OneInfo, JobInv, RemoveDone
    PROVE  Unrepeated(toRegister')
  <1>1. pc = "remove"
    BY DEF RemoveDone
  <1>2. /\ pkg \in Packages /\ Cnmt \in Titles(pkg) /\ cur \in 1 .. Len(parsed) /\ Cnmt = parsed[cur]
    BY <1>1, CurrentKnown DEF Committing
  <1>3. PICK ncas \in Ncas(Cnmt) :
            LET ids == <<Cnmt.id>> \o [i \in 1 .. Len(ncas) |-> ncas[i].id]
            IN toRegister' = Kept(ids, Range(ids) \ skipped)
    BY DEF RemoveDone
  <1> DEFINE I == EntryOf(Cnmt).infos
             one == <<Cnmt.id>>
             rest == [i \in 1 .. Len(ncas) |-> ncas[i].id]
             ids == one \o rest
  <1>4. toRegister' = Kept(ids, Range(ids) \ skipped)
    BY <1>3
  <1>5. I = {Cnmt.id} \cup NcaIds(Cnmt)
    BY DEF EntryOf
  <1>6. Len(ncas) \in Nat /\ \A i \in 1 .. Len(ncas) : ncas[i].id \in NcaIds(Cnmt)
    BY <1>2, NcasKept
  <1>7. Cnmt.id \notin NcaIds(Cnmt)
    <2> SUFFICES ASSUME Cnmt.id \in NcaIds(Cnmt) PROVE FALSE
      OBVIOUS
    <2>1. PICK e \in Range(pkg) : e.kind = "nca" /\ e.id = Cnmt.id
      BY <1>2 DEF JobInv, NcasFound
    <2>2. Cnmt \in Range(pkg) /\ Cnmt.kind = "cnmt"
      BY <1>2 DEF Titles
    <2>3. e = Cnmt
      BY <1>2, <2>1, <2>2 DEF OneNca
    <2> QED BY <2>1, <2>2, <2>3
  <1>8. \A i, j \in 1 .. Len(ncas) : ncas[i].id = ncas[j].id => i = j
    BY <1>2, NcasUnrepeated
  <1>9. Cnmt.id \in I /\ \A i \in 1 .. Len(ncas) : ncas[i].id \in I
    BY <1>5, <1>6
  <1> HIDE DEF I
  <1>10. one \in Seq(I) /\ Len(one) = 1 /\ one[1] = Cnmt.id
    BY <1>9
  <1>11. rest \in Seq(I) /\ Len(rest) = Len(ncas) /\ \A i \in 1 .. Len(ncas) : rest[i] = ncas[i].id
    BY <1>6, <1>9
  <1> HIDE DEF one, rest
  <1>12. Unrepeated(rest) /\ \A i \in 1 .. Len(rest) : rest[i] # one[1]
    <2>1. \A i \in 1 .. Len(rest) : rest[i] # one[1]
      BY <1>6, <1>7, <1>10, <1>11
    <2>2. Unrepeated(rest)
      BY <1>8, <1>11 DEF Unrepeated
    <2> QED BY <2>1, <2>2
  <1>13. ids \in Seq(I) /\ Unrepeated(ids)
    <2>1. one \in Seq(I) /\ rest \in Seq(I)
      BY <1>10, <1>11
    <2>2. Len(one) = 1 /\ Unrepeated(rest) /\ (\A i \in 1 .. Len(rest) : rest[i] # one[1]) => Unrepeated(one \o rest)
      BY <2>1, OneMoreUnrepeated
    <2> QED BY <1>10, <1>12, <2>1, <2>2
  <1> HIDE DEF ids
  <1> DEFINE S == Range(ids) \ skipped
  <1> HIDE DEF S
  <1>14. Unrepeated(ids) => Unrepeated(Kept(ids, S))
    BY <1>13, KeptKeeps
  <1>15. toRegister' = Kept(ids, S)
    BY <1>4 DEF S
  <1>16. Unrepeated(Kept(ids, S))
    BY <1>13, <1>14
  <1> QED BY <1>15, <1>16 DEF Unrepeated

\* What is still to be registered shares no content with what was moved.
LEMMA OthersHeld ==
    ASSUME NEW T, NEW s \in Seq(T), s # <<>>, Unrepeated(s)
    PROVE  Unrepeated(Tail(s)) /\ \A i \in 1 .. Len(Tail(s)) : Tail(s)[i] # Head(s) /\ \E j \in 1 .. Len(s) : s[j] = Tail(s)[i]
  <1>1. /\ Len(s) \in Nat \ {0} /\ Head(s) = s[1] /\ Len(Tail(s)) = Len(s) - 1
        /\ \A i \in 1 .. Len(s) - 1 : Tail(s)[i] = s[i + 1]
    OBVIOUS
  <1> DEFINE t == Tail(s)
             h == Head(s)
             n == Len(s)
  <1> HIDE DEF t, h, n
  <1>2. n \in Nat \ {0} /\ h = s[1] /\ Len(t) = n - 1 /\ \A i \in 1 .. n - 1 : t[i] = s[i + 1]
    BY <1>1 DEF t, h, n
  <1>3. \A i, j \in 1 .. n : s[i] = s[j] => i = j
    BY DEF Unrepeated, n
  <1>4. ASSUME NEW i \in 1 .. Len(t) PROVE t[i] # h /\ \E j \in 1 .. n : s[j] = t[i]
    <2>1. i \in 1 .. n - 1 /\ i + 1 \in 1 .. n /\ 1 \in 1 .. n /\ i + 1 # 1
      BY <1>2, <1>4
    <2> QED BY <1>2, <1>3, <2>1
  <1>5. ASSUME NEW i \in 1 .. Len(t), NEW j \in 1 .. Len(t), t[i] = t[j] PROVE i = j
    <2>1. i \in 1 .. n - 1 /\ j \in 1 .. n - 1 /\ i + 1 \in 1 .. n /\ j + 1 \in 1 .. n
      BY <1>2
    <2>2. s[i + 1] = s[j + 1]
      BY <1>2, <1>5, <2>1
    <2>3. i + 1 = j + 1
      BY <1>3, <2>1, <2>2
    <2> QED BY <2>1, <2>3
  <1> QED BY <1>4, <1>5 DEF Unrepeated, t, h, n

\* The registration takes one placeholder after the other.
LEMMA RegisterHeld ==
    ASSUME ConsoleInv, HeldInv, RegisterDelete \/ RegisterMove
    PROVE  HeldInv' /\ (RegisterMove => pc' = "register")
  <1> DEFINE I == EntryOf(Cnmt).infos \ skipped
  <1>1. /\ pc \in {"register", "move"} /\ pc' # "fill" /\ run' = run /\ toRegister # <<>>
    BY DEF RegisterDelete, RegisterMove, ConsoleInv, RegisterInv, book
  <1>2. toRegister \in Seq(I)
    BY <1>1 DEF ConsoleInv, RegisterInv
  <1> HIDE DEF I
  <1>3. Unrepeated(toRegister) /\ \A i \in 1 .. Len(toRegister) : Held(toRegister[i])
    BY <1>1 DEF HeldInv
  <1>4. CASE RegisterDelete
    <2>1. /\ pc' = "move" /\ UNCHANGED <<toRegister, holders>>
          /\ contents' = [contents EXCEPT ![Dest] = @ \ {Head(toRegister)}]
      BY <1>4 DEF RegisterDelete, job, plan
    <2>2. Head(toRegister) \notin contents'[Dest]
      BY <2>1 DEF ConsoleInv, Dest, Storages
    <2>3. pc # "move"
      BY <1>4 DEF RegisterDelete
    <2>4. ~RegisterMove
      BY <2>3 DEF RegisterMove
    <2> QED BY <1>1, <1>3, <2>1, <2>2, <2>4 DEF HeldInv, Held, Unrepeated
  <1>5. CASE RegisterMove
    <2> DEFINE id == Head(toRegister)
    <2>1. pc = "move" /\ id \notin contents[Dest]
      BY <1>5 DEF RegisterMove, HeldInv
    <2>2. id = toRegister[1] /\ 1 \in 1 .. Len(toRegister)
      BY <1>1, <1>2
    <2>3. <<id, run>> \in holders
      BY <1>3, <2>2 DEF Held
    <2>4. pc' = "register" /\ holders' = holders \ {<<id, run>>} /\ toRegister' = Tail(toRegister)
      BY <1>5, <2>1, <2>3 DEF RegisterMove
    <2>5. Unrepeated(toRegister') /\ \A i \in 1 .. Len(toRegister') : toRegister'[i] # id /\ \E j \in 1 .. Len(toRegister) : toRegister[j] = toRegister'[i]
      BY <1>1, <1>2, <1>3, <2>4, OthersHeld
    <2> HIDE DEF id
    <2>6. \A i \in 1 .. Len(toRegister') : <<toRegister'[i], run'>> \in holders'
      <3> SUFFICES ASSUME NEW i \in 1 .. Len(toRegister') PROVE <<toRegister'[i], run'>> \in holders'
        OBVIOUS
      <3>1. PICK x : x = toRegister'[i]
        OBVIOUS
      <3>2. x # id /\ <<x, run>> \in holders
        BY <1>3, <2>5, <3>1 DEF Held
      <3> QED BY <1>1, <2>4, <3>1, <3>2
    <2> QED BY <1>1, <2>4, <2>5, <2>6 DEF HeldInv, Held, Unrepeated
  <1> QED BY <1>4, <1>5

LEMMA RemoveDoneHeld ==
    ASSUME Formats, OneNca, OneOwner, DistinctTitles, OneInfo, JobInv, ConsoleInv, NothingToTake,
           TakenInv(DealtSet), RemoveDone
    PROVE  HeldInv'
  <1>1. pc = "remove" /\ pc' = "register" /\ UNCHANGED <<holders, run, parsed, cur, skipped>>
    BY DEF RemoveDone, device, storage, book, scan
  <1>2. Unrepeated(toRegister')
    BY RegistersOnce
  <1>3. (RegisterInv /\ pc \in {"register", "move"})'
    BY <1>1, RemoveDoneConsole DEF ConsoleInv
  <1> DEFINE I == EntryOf(Cnmt).infos \ skipped
  <1>4. I' = I
    BY <1>1 DEF Cnmt, EntryOf, NcaIds
  <1>5. toRegister' \in Seq(I')
    BY <1>3 DEF RegisterInv
  <1>6. \A id \in I : Held(id)
    BY <1>1, OwnIsHeld
  <1> HIDE DEF I
  <1>7. \A i \in 1 .. Len(toRegister') : toRegister'[i] \in I
    BY <1>4, <1>5
  <1>8. \A i \in 1 .. Len(toRegister') : <<toRegister'[i], run'>> \in holders'
    BY <1>1, <1>6, <1>7 DEF Held
  <1> QED BY <1>1, <1>2, <1>8 DEF HeldInv, Held, Unrepeated

LEMMA NextHeld ==
    ASSUME Formats, OneNca, OneOwner, DistinctTitles, OneInfo, JobInv, ConsoleInv, NothingToTake,
           TakenInv(DealtSet), HeldInv, [Next]_vars
    PROVE  HeldInv'
  <1> USE DEF device, storage, job, scan, plan, fixed, book
  <1>1. CASE pc' \notin {"fill", "register", "move"}
    BY <1>1 DEF HeldInv
  <1>2. ASSUME NEW p \in Packages, NEW m \in Modes, Begin(p, m) PROVE pc' \notin {"fill", "register", "move"}
    BY <1>2 DEF Begin
  <1>3. SkipInstalled \/ FillPlaceHolder \/ ReadTicketData \/ ParseCnmt \/ EntriesDone => pc' \notin {"fill", "register", "move"}
    BY DEF SkipInstalled, FillPlaceHolder, ReadTicketData, ParseCnmt, EntriesDone, AfterEntry
  <1>4. CASE CreatePlaceHolder
    <2>1. pc' = "fill" /\ UNCHANGED <<todo, run>> /\ holders' = holders \cup {<<Head(todo).id, run>>}
      BY <1>4 DEF CreatePlaceHolder
    <2>2. <<Head(todo').id, run'>> \in holders'
      BY <2>1
    <2> QED BY <2>1, <2>2 DEF HeldInv, Held
  <1>5. Decide \/ ImportTicket \/ TicketsDone \/ RemoveNext \/ DeleteContent \/ RemoveKey \/ CommitRemoval
          => pc' \notin {"fill", "register", "move"}
    BY DEF Decide, ImportTicket, TicketsDone, RemoveNext, DeleteContent, RemoveKey, CommitRemoval, Advance
  <1>6. CASE RemoveDone
    BY <1>6, RemoveDoneHeld
  <1>7. CASE RegisterDelete \/ RegisterMove
    BY <1>7, RegisterHeld
  <1>8. SetMeta \/ CommitMeta \/ PushRecord \/ PushLaunchVersion \/ Cleanup \/ CallFails \/ Crash
          => pc' \notin {"fill", "register", "move"}
    BY DEF SetMeta, CommitMeta, PushRecord, PushLaunchVersion, Cleanup, CallFails, Crash, Advance
  <1>9. CASE Idle \/ UNCHANGED vars
    <2>1. UNCHANGED <<pc, todo, run, holders, toRegister, contents>>
      BY <1>9 DEF Idle, vars
    <2>2. Unrepeated(toRegister) => Unrepeated(toRegister')
      BY <2>1 DEF Unrepeated
    <2> QED BY <2>1, <2>2 DEF HeldInv, Held
  <1> QED BY <1>1, <1>2, <1>3, <1>4, <1>5, <1>6, <1>7, <1>8, <1>9 DEF Next

-----------------------------------------------------------------------------
(* What an install reads *)

Data == {"tik", "cert"}

\* All of s can be read, one after the other, by a stream that is at m.
Ahead(s, m) ==
    \A i \in 1 .. Len(s) : m <= s[i].off /\ \A j \in 1 .. Len(s) : i < j => s[i].off <= s[j].off

\* A stream is never behind what it has to take; a ticket that is required is in
\* the container; and the data of the tickets and certs is read before it is
\* needed.
ReadInv ==
    /\ mOffset \in Nat
    /\ mode = "stream" /\ pc \in Taking \cup {"parse"} => Ahead(todo, mOffset)
    /\ required \subseteq {e.id : e \in {x \in Range(pkg) : x.kind = "tik"}}
    /\ pc \notin {"idle", "fail"} =>
         \A e \in Range(pkg) : e.kind \in Data =>
            \/ <<e.kind, e.id>> \in tikRead
            \/ mode = "stream" /\ pc \in Taking \cup {"parse"} /\ \E i \in 1 .. Len(todo) : todo[i] = e

LEMMA AheadOfFirst ==
    ASSUME NEW T, NEW s \in Seq(T), s # <<>>, NEW m, Ahead(s, m), Head(s).off \in Nat
    PROVE  /\ m <= Head(s).off
           /\ Ahead(s, Head(s).off) /\ Ahead(Tail(s), Head(s).off)
  <1> DEFINE n == Len(s)
             t == Tail(s)
             h == Head(s)
  <1>1. n \in Nat \ {0} /\ h = s[1] /\ Len(t) = n - 1 /\ \A i \in 1 .. n - 1 : t[i] = s[i + 1]
    OBVIOUS
  <1>2. \A i \in 1 .. n : m <= s[i].off /\ \A j \in 1 .. n : i < j => s[i].off <= s[j].off
    BY DEF Ahead
  <1>3. h.off \in Nat
    OBVIOUS
  <1> HIDE DEF n, t, h
  <1>4. 1 \in 1 .. n /\ \A i \in 1 .. n : i # 1 => 1 < i
    BY <1>1
  <1>5. m <= h.off
    BY <1>1, <1>2, <1>4
  <1>6. \A i \in 1 .. n : h.off <= s[i].off
    <2> SUFFICES ASSUME NEW i \in 1 .. n PROVE h.off <= s[i].off
      OBVIOUS
    <2>1. CASE i = 1
      BY <1>1, <1>3, <2>1
    <2>2. CASE i # 1
      BY <1>1, <1>2, <1>4, <2>2
    <2> QED BY <2>1, <2>2
  <1>7. Ahead(s, h.off)
    BY <1>2, <1>6 DEF Ahead, n
  <1>8. ASSUME NEW i \in 1 .. Len(t)
        PROVE  h.off <= t[i].off /\ \A j \in 1 .. Len(t) : i < j => t[i].off <= t[j].off
    <2>1. i + 1 \in 1 .. n /\ t[i] = s[i + 1]
      BY <1>1, <1>8
    <2>2. h.off <= t[i].off
      BY <1>6, <2>1
    <2>3. ASSUME NEW j \in 1 .. Len(t), i < j PROVE t[i].off <= t[j].off
      <3>1. j + 1 \in 1 .. n /\ t[j] = s[j + 1] /\ i + 1 < j + 1
        BY <1>1, <2>3
      <3> QED BY <1>2, <2>1, <3>1
    <2> QED BY <2>2, <2>3
  <1>9. Ahead(t, h.off)
    BY <1>8 DEF Ahead
  <1> QED BY <1>5, <1>7, <1>9 DEF t, h

\* A step that takes the first entry, or leaves all as it is.
LEMMA TakeAhead ==
    ASSUME Offsets, JobInv, ReadInv, pc \in Taking \cup {"parse"}, todo # <<>>, UNCHANGED mode,
           ReadTo(Head(todo)) \/ (pc = "parse" /\ UNCHANGED mOffset), todo' \in {todo, Tail(todo)}
    PROVE  mOffset' \in Nat /\ (mode = "stream" => Ahead(todo, mOffset)')
  <1> DEFINE T == Range(pkg)
             e == Head(todo)
  <1>1. todo \in Seq(T)
    BY DEF JobInv, JobTypes
  <1>2. e \in Range(pkg) /\ pkg \in Packages
    BY TakenAtHand, EntryAtHand
  <1>3. e.off \in Nat
    BY <1>2 DEF Offsets
  <1> HIDE DEF T
  <1>4. CASE mode # "stream"
    BY <1>4 DEF ReadInv, ReadTo
  <1>5. CASE mode = "stream"
    <2>1. Ahead(todo, mOffset) /\ mOffset \in Nat
      BY <1>5 DEF ReadInv
    <2>2. Ahead(todo, e.off) /\ Ahead(Tail(todo), e.off) /\ mOffset <= e.off
      BY <1>1, <1>3, <2>1, AheadOfFirst
    <2>3. Ahead(Tail(todo), mOffset)
      <3> DEFINE t == Tail(todo)
                 o == e.off
      <3>1. Len(t) \in Nat /\ t \in Seq(T)
        BY <1>1
      <3>2. \A i \in 1 .. Len(t) : t[i].off \in Nat
        <4> SUFFICES ASSUME NEW i \in 1 .. Len(t) PROVE t[i].off \in Nat
          OBVIOUS
        <4>1. t[i] \in T
          BY <3>1
        <4> QED BY <1>2, <4>1 DEF Offsets, T
      <3>3. Ahead(t, o) /\ mOffset <= o /\ o \in Nat
        BY <1>3, <2>2
      <3> HIDE DEF t, o
      <3>4. Ahead(t, mOffset)
        BY <2>1, <3>2, <3>3 DEF Ahead
      <3> QED BY <3>4 DEF t
    <2>4. mOffset' \in {mOffset, e.off} /\ (mOffset' = e.off \/ pc = "parse")
      BY <1>5 DEF ReadTo
    <2>5. PICK s : s = todo'
      OBVIOUS
    <2>6. PICK m : m = mOffset'
      OBVIOUS
    <2>7. Ahead(s, m)
      BY <2>1, <2>2, <2>3, <2>4, <2>5, <2>6
    <2> QED BY <1>3, <2>1, <2>4, <2>5, <2>6, <2>7 DEF Ahead
  <1> QED BY <1>4, <1>5

LEMMA BeginRead ==
    ASSUME Formats, Offsets, NEW p \in Packages, NEW m \in Modes, Begin(p, m)
    PROVE  ReadInv'
  <1>1. /\ mode' = m /\ pkg' = p /\ mOffset' = 0 /\ required' = {}
        /\ pc' \in {"cleanup", "install", "fail"} /\ (pc' = "cleanup" => m = "file")
        /\ m = "stream" => todo' \in InStreamOrder[p]
        /\ m = "file" => tikRead' = {<<e.kind, e.id>> : e \in {x \in Range(p) : x.kind \in {"tik", "cert"}}}
    BY DEF Begin
  <1>2. CASE m = "stream"
    <2>1. PICK t \in InStreamOrder[p] : t = todo'
      BY <1>1, <1>2
    <2>2. /\ t \in Seq(Range(p))
          /\ \A x : (\E i \in 1 .. Len(t) : t[i] = x) <=> x \in Range(p)
          /\ \A i, j \in 1 .. Len(t) : i < j => ~(t[j].off < t[i].off)
      BY StreamOrderKept
    <2>3. \A i \in 1 .. Len(t) : t[i].off \in Nat
      <3> SUFFICES ASSUME NEW i \in 1 .. Len(t) PROVE t[i].off \in Nat
        OBVIOUS
      <3>1. t[i] \in Range(p)
        BY <2>2
      <3> QED BY <3>1 DEF Offsets
    <2>4. Ahead(t, 0)
      <3>1. ASSUME NEW i \in 1 .. Len(t)
            PROVE  0 <= t[i].off /\ \A j \in 1 .. Len(t) : i < j => t[i].off <= t[j].off
        <4>1. t[i].off \in Nat
          BY <2>3
        <4>2. ASSUME NEW j \in 1 .. Len(t), i < j PROVE t[i].off <= t[j].off
          <5>1. t[j].off \in Nat /\ ~(t[j].off < t[i].off)
            BY <2>2, <2>3, <4>2
          <5> QED BY <4>1, <5>1
        <4> QED BY <4>1, <4>2
      <3> QED BY <3>1 DEF Ahead
    <2>5. Ahead(todo, mOffset)'
      BY <1>1, <2>1, <2>4 DEF Ahead
    <2>6. \A e \in Range(p) : \E i \in 1 .. Len(todo') : todo'[i] = e
      BY <2>1, <2>2
    <2>7. pc' # "cleanup"
      BY <1>1, <1>2
    <2> QED BY <1>1, <1>2, <2>5, <2>6, <2>7 DEF ReadInv, Taking
  <1>3. CASE m = "file"
    BY <1>1, <1>3 DEF ReadInv, Data
  <1> QED BY <1>2, <1>3, ModesOfCode

\* What an entry asks for is a ticket of the container.
LEMMA MarkRequired ==
    ASSUME Formats, JobInv, ReadInv, pc # "idle", NEW e, HasTicket(e), Mark(e)
    PROVE  required' \subseteq {x.id : x \in {y \in Range(pkg) : y.kind = "tik"}}
  <1>1. pkg \in Packages
    BY DEF JobInv, JobTypes
  <1>2. pkg \in Seq(Range(pkg))
    BY <1>1 DEF Formats
  <1>3. e.tik = NoTicket \/ \E i \in 1 .. Len(pkg) : pkg[i].kind = "tik" /\ pkg[i].id = e.tik
    BY DEF HasTicket, Has
  <1>4. \A i \in 1 .. Len(pkg) : pkg[i] \in Range(pkg)
    BY <1>2
  <1>5. e.tik = NoTicket \/ \E x \in Range(pkg) : x.kind = "tik" /\ x.id = e.tik
    BY <1>3, <1>4
  <1> QED BY <1>5 DEF Mark, ReadInv

\* A step that reads nothing and takes nothing.
LEMMA QuietRead ==
    ASSUME ReadInv, UNCHANGED <<mode, pkg, mOffset, todo, tikRead>>, required' \subseteq required,
           pc' \in Taking \cup {"parse"} => pc \in Taking \cup {"parse"},
           pc' \notin {"idle", "fail"} => pc \notin {"idle", "fail"},
           pc' \notin {"idle", "fail"} /\ pc \in Taking \cup {"parse"} => todo = <<>> \/ pc' \in Taking \cup {"parse"}
    PROVE  ReadInv'
  <1>1. todo = <<>> => ~\E i \in 1 .. Len(todo) : TRUE
    OBVIOUS
  <1>2. Ahead(todo, mOffset) => Ahead(todo, mOffset)'
    BY DEF Ahead
  <1> QED BY <1>1, <1>2 DEF ReadInv

LEMMA TakeRead ==
    ASSUME Formats, Offsets, JobInv, ReadInv, SkipInstalled \/ FillPlaceHolder \/ ReadTicketData \/ ParseCnmt
    PROVE  ReadInv'
  <1> DEFINE e == Head(todo)
  <1>1. /\ pc \in Taking \cup {"parse"} /\ todo # <<>> /\ UNCHANGED <<mode, pkg>>
        /\ pc' \in {"install", "parse", "decide", "fail"} /\ (pc' = "decide" => mode = "file")
        /\ todo' \in {todo, Tail(todo)}
        /\ UNCHANGED mOffset \/ ReadTo(e)
    BY DEF SkipInstalled, FillPlaceHolder, ReadTicketData, ParseCnmt, AfterEntry, JobInv, JobTypes, fixed, Taking
  <1>2. /\ pc' # "fail" /\ mode = "stream" => ReadTo(e) \/ (pc = "parse" /\ UNCHANGED mOffset)
        /\ UNCHANGED required \/ (HasTicket(e) /\ Mark(e))
        /\ pc' # "fail" => todo' = Tail(todo) \/ (todo' = todo /\ e.kind = "cnmt")
        /\ tikRead \subseteq tikRead' /\ (pc' # "fail" /\ e.kind \in Data => <<e.kind, e.id>> \in tikRead')
    <2>1. CASE SkipInstalled
      BY <2>1 DEF SkipInstalled, AfterEntry, Data
    <2>2. CASE FillPlaceHolder
      BY <2>2 DEF FillPlaceHolder, AfterEntry, Data, JobInv, JobTypes
    <2>3. CASE ReadTicketData
      BY <2>3 DEF ReadTicketData, Data
    <2>4. CASE ParseCnmt
      BY <2>4 DEF ParseCnmt, Data, JobInv, JobTypes
    <2> QED BY <2>1, <2>2, <2>3, <2>4
  <1>3. required' \subseteq {x.id : x \in {y \in Range(pkg) : y.kind = "tik"}}
    <2>1. CASE UNCHANGED required
      BY <2>1 DEF ReadInv
    <2>2. CASE HasTicket(e) /\ Mark(e)
      <3>1. pc # "idle"
        BY <1>1 DEF Taking
      <3> HIDE DEF e
      <3> QED BY <2>2, <3>1, MarkRequired
    <2> QED BY <1>2, <2>1, <2>2
  <1>4. mOffset' \in Nat
    <2>1. e \in Range(pkg) /\ pkg \in Packages
      BY <1>1, TakenAtHand, EntryAtHand
    <2>2. e.off \in Nat
      BY <2>1 DEF Offsets
    <2> QED BY <1>1, <2>2 DEF ReadInv, ReadTo
  <1>5. pc' # "fail" /\ mode = "stream" => Ahead(todo, mOffset)'
    BY <1>1, <1>2, TakeAhead
  <1>6. ASSUME pc' # "fail", NEW x \in Range(pkg), x.kind \in Data
        PROVE  \/ <<x.kind, x.id>> \in tikRead'
               \/ mode = "stream" /\ pc' \in Taking \cup {"parse"} /\ \E i \in 1 .. Len(todo') : todo'[i] = x
    <2>1. <<x.kind, x.id>> \in tikRead \/ (mode = "stream" /\ \E i \in 1 .. Len(todo) : todo[i] = x)
      BY <1>1, <1>6 DEF ReadInv, Taking
    <2>2. CASE <<x.kind, x.id>> \in tikRead
      BY <1>2, <2>2
    <2>3. CASE mode = "stream" /\ \E i \in 1 .. Len(todo) : todo[i] = x
      <3>1. x = e \/ \E i \in 1 .. Len(Tail(todo)) : Tail(todo)[i] = x
        BY <1>1, <2>3, TodoFirstOrOther
      <3>2. pc' \in Taking \cup {"parse"}
        BY <1>1, <1>6, <2>3 DEF Taking
      <3>3. CASE x = e
        BY <1>2, <1>6, <3>3
      <3>4. CASE \E i \in 1 .. Len(Tail(todo)) : Tail(todo)[i] = x
        BY <1>2, <1>6, <2>3, <3>2, <3>4
      <3> QED BY <3>1, <3>3, <3>4
    <2> QED BY <2>1, <2>2, <2>3
  <1> QED BY <1>1, <1>3, <1>4, <1>5, <1>6 DEF ReadInv, Taking

LEMMA NextRead ==
    ASSUME Formats, Offsets, JobInv, ReadInv, [Next]_vars PROVE ReadInv'
  <1> USE DEF job, scan, plan, fixed
  <1>1. ASSUME NEW p \in Packages, NEW m \in Modes, Begin(p, m) PROVE ReadInv'
    BY <1>1, BeginRead
  <1>2. CASE SkipInstalled \/ FillPlaceHolder \/ ReadTicketData \/ ParseCnmt
    BY <1>2, TakeRead
  <1>3. CASE CreatePlaceHolder
    <2>1. pc = "install" /\ pc' = "fill" /\ UNCHANGED <<mode, pkg, mOffset, todo, tikRead, required>>
      BY <1>3 DEF CreatePlaceHolder
    <2> QED BY <2>1, QuietRead DEF Taking
  <1>4. CASE EntriesDone
    <2>1. /\ pc = "install" /\ pc' \in {"import", "cleanup", "decide"} /\ todo = <<>>
          /\ UNCHANGED <<mode, pkg, mOffset, todo, tikRead, required>>
      BY <1>4 DEF EntriesDone
    <2> QED BY <2>1, QuietRead DEF Taking
  <1>5. CASE Decide
    <2>1. /\ pc = "decide" /\ UNCHANGED <<mode, pkg, mOffset, tikRead, required>>
          /\ pc' \in {"install", "import", "decide", "cleanup"} /\ (pc' = "install" => mode = "file")
      BY <1>5 DEF Decide, Advance
    <2> QED BY <2>1 DEF ReadInv, Taking
  <1>6. CASE ImportTicket \/ TicketsDone \/ RemoveNext \/ DeleteContent \/ RemoveKey \/ CommitRemoval \/ RemoveDone
    <2>1. /\ pc \in {"import", "remove", "delete", "removeCommit"}
          /\ pc' \in {"import", "fail", "remove", "delete", "removeCommit", "register"}
          /\ UNCHANGED <<mode, pkg, mOffset, todo, tikRead>> /\ required' \subseteq required
      BY <1>6 DEF ImportTicket, TicketsDone, RemoveNext, DeleteContent, RemoveKey, CommitRemoval, RemoveDone
    <2> QED BY <2>1, QuietRead DEF Taking
  <1>7. CASE RegisterDelete \/ RegisterMove \/ SetMeta \/ CommitMeta \/ PushRecord \/ PushLaunchVersion
    <2>1. /\ pc \in {"register", "move", "commit", "push", "launch"}
          /\ pc' \in {"register", "move", "commit", "push", "launch", "fail", "decide", "cleanup"}
          /\ UNCHANGED <<mode, pkg, mOffset, todo, tikRead, required>>
      BY <1>7 DEF RegisterDelete, RegisterMove, SetMeta, CommitMeta, PushRecord, PushLaunchVersion, Advance
    <2> QED BY <2>1, QuietRead DEF Taking
  <1>8. CASE Cleanup
    <2>1. /\ pc \in {"cleanup", "fail"} /\ UNCHANGED <<mode, pkg, mOffset, tikRead, required>>
          /\ pc' = "idle" \/ (pc = "cleanup" /\ pc' = "install" /\ mode = "file")
      BY <1>8 DEF Cleanup, MoreCnmts
    <2> QED BY <2>1 DEF ReadInv, Taking
  <1>9. CASE CallFails \/ Crash
    <2>1. pc' \in {"fail", "idle"} /\ UNCHANGED <<mode, pkg, mOffset, required>>
      BY <1>9 DEF CallFails, Crash
    <2> QED BY <2>1 DEF ReadInv, Taking
  <1>10. CASE Idle \/ UNCHANGED vars
    <2>1. UNCHANGED <<pc, mode, pkg, mOffset, todo, tikRead, required>>
      BY <1>10 DEF Idle, vars
    <2> QED BY <2>1, QuietRead
  <1> QED BY <1>1, <1>2, <1>3, <1>4, <1>5, <1>6, <1>7, <1>8, <1>9, <1>10 DEF Next

-----------------------------------------------------------------------------
(* An install of a sound container fails only when a call fails *)

FaultInv == pc = "fail" \/ (pc = "idle" /\ rc = "failed") => faulty \/ ~WellFormed(pkg)

\* What a sound container has.
LEMMA Sound ==
    ASSUME Formats, NEW p \in Packages, WellFormed(p)
    PROVE  /\ \A e \in Range(p), k \in Data : e.kind \in Data =>
                 \E i \in 1 .. Len(p) : p[i].kind = k /\ p[i].id = e.id
           /\ \A e \in Range(p) : e.tik # NoTicket => \E i \in 1 .. Len(p) : p[i].kind = "tik" /\ p[i].id = e.tik
           /\ \A c \in Titles(p) : \A id \in NcaIds(c) : \E i \in 1 .. Len(p) : p[i].kind = "nca" /\ p[i].id = id
  <1>1. \A x \in Range(p) : \E i \in 1 .. Len(p) : p[i] = x
    <2>1. p \in Seq(Range(p))
      BY DEF Formats
    <2> QED BY <2>1 DEF Range
  <1>2. ASSUME NEW e \in Range(p), NEW k \in Data, e.kind \in Data
        PROVE  \E i \in 1 .. Len(p) : p[i].kind = k /\ p[i].id = e.id
    <2>1. {x.kind : x \in {y \in Range(p) : y.id = e.id}} = {"tik", "cert"}
      BY <1>2 DEF WellFormed, Data
    <2>2. k \in {x.kind : x \in {y \in Range(p) : y.id = e.id}}
      BY <2>1 DEF Data
    <2>3. PICK x \in Range(p) : x.id = e.id /\ x.kind = k
      BY <2>2
    <2> QED BY <1>1, <2>3
  <1>3. \A e \in Range(p) : e.tik # NoTicket => \E i \in 1 .. Len(p) : p[i].kind = "tik" /\ p[i].id = e.tik
    BY DEF WellFormed, Has
  <1>4. ASSUME NEW c \in Titles(p), NEW id \in NcaIds(c)
        PROVE  \E i \in 1 .. Len(p) : p[i].kind = "nca" /\ p[i].id = id
    <2>1. PICK s : s = Entries(p, "cnmt")
      OBVIOUS
    <2>2. \E i \in 1 .. Len(s) : s[i] = c
      BY <2>1, EntriesKept DEF Titles
    <2>3. s \in Seq(Range(p))
      BY <2>1, EntriesKept
    <2>4. c \in Range(s)
      BY <2>2, <2>3 DEF Range
    <2> QED BY <2>1, <2>4 DEF WellFormed, Has
  <1> QED BY <1>2, <1>3, <1>4

\* A file or stream whose tickets and certs do not go together is refused.
LEMMA BeginFails ==
    ASSUME Formats, NEW p \in Packages, NEW m \in Modes, Begin(p, m), pc' = "fail"
    PROVE  ~WellFormed(p)
  <1> SUFFICES ASSUME WellFormed(p) PROVE FALSE
    OBVIOUS
  <1>1. PICK t \in Range(Entries(p, "tik")) : ~\E i \in 1 .. Len(p) : p[i].kind = "cert" /\ p[i].id = t.id
    BY DEF Begin, Has
  <1>2. PICK s : s = Entries(p, "tik")
    OBVIOUS
  <1>3. s \in Seq(Range(p)) /\ \A x : (\E i \in 1 .. Len(s) : s[i] = x) => x \in Range(p) /\ x.kind = "tik"
    BY <1>2, EntriesKept
  <1>4. t \in Range(p) /\ t.kind = "tik"
    BY <1>1, <1>2, <1>3 DEF Range
  <1> QED BY <1>1, <1>4, Sound DEF Data

\* Of a sound container every entry can be taken.
LEMMA TakeFails ==
    ASSUME Formats, Offsets, JobInv, ReadInv, WellFormed(pkg),
           SkipInstalled \/ FillPlaceHolder \/ ReadTicketData \/ ParseCnmt
    PROVE  pc' # "fail"
  <1> DEFINE e == Head(todo)
             T == Range(pkg)
  <1>1. /\ pc \in Taking \cup {"parse"} /\ todo # <<>>
        /\ pc = "parse" => e.kind = "cnmt"
    BY DEF SkipInstalled, FillPlaceHolder, ReadTicketData, ParseCnmt, JobInv, JobTypes, Taking
  <1>2. e \in Range(pkg) /\ pkg \in Packages
    BY <1>1, TakenAtHand, EntryAtHand
  <1>3. HasTicket(e)
    BY <1>2, Sound DEF HasTicket, Has
  <1>4. CanRead(e)
    <2> SUFFICES ASSUME mode = "stream" PROVE mOffset <= e.off
      BY DEF CanRead, ReadInv, Offsets
    <2>1. todo \in Seq(T)
      BY DEF JobInv, JobTypes
    <2> HIDE DEF T
    <2>2. 1 \in 1 .. Len(todo) /\ e = todo[1]
      BY <1>1, <2>1
    <2> QED BY <1>1, <2>2 DEF ReadInv, Ahead
  <1>5. e.kind \in Data => \E i \in 1 .. Len(pkg) : pkg[i].kind = "tik" /\ pkg[i].id = e.id
    BY <1>2, Sound DEF Data
  <1>6. e.kind = "cnmt" => \A id \in NcaIds(e) : \E i \in 1 .. Len(pkg) : pkg[i].kind = "nca" /\ pkg[i].id = id
    BY <1>2, Sound DEF Titles
  <1>7. CASE SkipInstalled
    BY <1>3, <1>7 DEF SkipInstalled, AfterEntry
  <1>8. CASE FillPlaceHolder
    BY <1>3, <1>4, <1>8 DEF FillPlaceHolder, AfterEntry
  <1>9. CASE ReadTicketData
    BY <1>4, <1>5, <1>9 DEF ReadTicketData, Has, Data
  <1>10. CASE ParseCnmt
    BY <1>1, <1>6, <1>10 DEF ParseCnmt, Has
  <1> QED BY <1>7, <1>8, <1>9, <1>10

\* Its tickets and certs have been read when a ticket is imported.
LEMMA ImportFails ==
    ASSUME Formats, JobInv, ReadInv, WellFormed(pkg), ImportTicket
    PROVE  pc' # "fail"
  <1>1. pc = "import" /\ pkg \in Packages
    BY DEF ImportTicket, JobInv, JobTypes
  <1>2. ASSUME NEW t \in required PROVE {<<"tik", t>>, <<"cert", t>>} \subseteq tikRead
    <2>1. PICK e \in Range(pkg) : e.kind = "tik" /\ e.id = t
      BY DEF ReadInv
    <2>2. PICK i \in 1 .. Len(pkg) : pkg[i].kind = "cert" /\ pkg[i].id = t
      BY <1>1, <2>1, Sound DEF Data
    <2>3. pkg[i] \in Range(pkg)
      BY <1>1 DEF Formats
    <2>4. \A x \in Range(pkg) : x.kind \in Data => <<x.kind, x.id>> \in tikRead
      BY <1>1 DEF ReadInv, Taking
    <2> QED BY <2>1, <2>2, <2>3, <2>4 DEF Data
  <1> QED BY <1>1, <1>2 DEF ImportTicket

LEMMA NextFault ==
    ASSUME Formats, Offsets, JobInv, ConsoleInv, HeldInv, ReadInv, FaultInv, [Next]_vars
    PROVE  FaultInv'
  <1> USE DEF FaultInv, device, job, fixed, book
  <1>1. ASSUME NEW p \in Packages, NEW m \in Modes, Begin(p, m) PROVE FaultInv'
    <2>1. pkg' = p /\ pc' # "idle"
      BY <1>1 DEF Begin
    <2> QED BY <1>1, <2>1, BeginFails
  <1>2. CASE SkipInstalled \/ FillPlaceHolder \/ ReadTicketData \/ ParseCnmt
    <2>1. UNCHANGED pkg /\ pc' # "idle"
      BY <1>2 DEF SkipInstalled, FillPlaceHolder, ReadTicketData, ParseCnmt, AfterEntry
    <2>2. WellFormed(pkg) => pc' # "fail"
      BY <1>2, TakeFails
    <2> QED BY <2>1, <2>2
  <1>3. CASE ImportTicket
    <2>1. UNCHANGED pkg /\ pc' # "idle"
      BY <1>3 DEF ImportTicket
    <2> QED BY <1>3, <2>1, ImportFails
  <1>4. CASE RegisterMove
    <2>1. pc' = "register"
      BY <1>4, RegisterHeld
    <2> QED BY <2>1
  <1>5. CreatePlaceHolder \/ EntriesDone \/ Decide \/ TicketsDone \/ RemoveNext \/ DeleteContent \/ RemoveKey
          \/ CommitRemoval \/ RemoveDone => pc' \notin {"fail", "idle"}
    BY DEF CreatePlaceHolder, EntriesDone, Decide, TicketsDone, RemoveNext, DeleteContent, RemoveKey,
           CommitRemoval, RemoveDone, Advance
  <1>6. RegisterDelete \/ SetMeta \/ CommitMeta \/ PushRecord \/ PushLaunchVersion => pc' \notin {"fail", "idle"}
    BY DEF RegisterDelete, SetMeta, CommitMeta, PushRecord, PushLaunchVersion, Advance
  <1>7. CASE Cleanup
    BY <1>7 DEF Cleanup
  <1>8. CASE CallFails \/ Crash
    BY <1>8 DEF CallFails, Crash
  <1>9. CASE Idle \/ UNCHANGED vars
    BY <1>9 DEF Idle, vars
  <1> QED BY <1>1, <1>2, <1>3, <1>4, <1>5, <1>6, <1>7, <1>8, <1>9 DEF Next

\* An install of a sound container fails only when a call fails during it: what
\* an interrupted install left behind never stands in the way of the next.
THEOREM FailsOnlyByFaultAlways ==
    ASSUME Formats, Offsets, OneNca, OneOwner, DistinctTitles, OneInfo PROVE Spec => []FailsOnlyByFault
  <1> DEFINE Inv == JobInv /\ ConsoleInv /\ NothingToTake /\ TakenInv(DealtSet) /\ HeldInv /\ ReadInv /\ FaultInv
  <1>1. Init => Inv
    <2> SUFFICES ASSUME Init PROVE Inv
      OBVIOUS
    <2>1. pc = "idle" /\ rc = "none" /\ mOffset = 0 /\ required = {}
      BY DEF Init
    <2>2. NothingToTake /\ TakenInv(DealtSet) /\ HeldInv /\ ReadInv /\ FaultInv
      BY <2>1 DEF NothingToTake, TakenInv, HeldInv, ReadInv, FaultInv, Active, Taking, Committing
    <2> QED BY <2>2, InitJob, InitConsole
  <1>2. Inv /\ [Next]_vars => Inv'
    BY NextJob, NextConsole, NextNothing, NextDealt, NextHeld, NextRead, NextFault
  <1>3. Inv => FailsOnlyByFault
    BY DEF FaultInv, FailsOnlyByFault
  <1> HIDE DEF Inv
  <1> QED BY <1>1, <1>2, <1>3, PTL DEF Spec
=============================================================================
