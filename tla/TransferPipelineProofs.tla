----------------------- MODULE TransferPipelineProofs -----------------------
(***************************************************************************)
(* Proofs about the transfer pipeline: that the ring is a bounded queue    *)
(* for every capacity, that no unit is lost, doubled or overtaken between  *)
(* the source and the placeholder, and what a good result is worth.        *)
(*                                                                         *)
(* The units under way are described without flattening them: a sequence   *)
(* of units is a run from a if its k-th is a + k, and a sequence of        *)
(* buffers is a row from a if each is a nonempty run that starts where the *)
(* one before ended (IsRun, IsRow, EndOf).  FlowInv says that the write    *)
(* thread, its ring, the decompress thread, its ring and the read thread   *)
(* hold runs and rows that join.                                           *)
(***************************************************************************)
EXTENDS TransferPipeline, DataInduction
\* A ring of elements of B.
RingType(B) ==
    [slot : [0 .. Capacity - 1 -> B], r : 0 .. RingSpan - 1, w : 0 .. RingSpan - 1]

\* The indices of a ring of c slots without a modulus: how many buffers there
\* are from r to w, the index behind w, the slot of an index, and the slot of
\* the i-th buffer from r.
Between(c, r, w) == IF w >= r THEN w - r ELSE w - r + 2 * c
After(c, w) == IF w + 1 = 2 * c THEN 0 ELSE w + 1
Slot(c, w) == IF w < c THEN w ELSE w - c
SlotFrom(c, r, i) ==
    IF r + i - 1 < c THEN r + i - 1
    ELSE IF r + i - 1 < 2 * c THEN r + i - 1 - c ELSE r + i - 1 - 2 * c

LEMMA PushIndices ==
    ASSUME NEW c \in Nat \ {0}, NEW r \in 0 .. 2 * c - 1, NEW w \in 0 .. 2 * c - 1,
           Between(c, r, w) < c
    PROVE  /\ Between(c, r, w) \in Nat /\ Slot(c, w) \in 0 .. c - 1
           /\ Between(c, r, After(c, w)) = Between(c, r, w) + 1
           /\ SlotFrom(c, r, Between(c, r, w) + 1) = Slot(c, w)
           /\ \A i \in 1 .. Between(c, r, w) :
                 SlotFrom(c, r, i) \in 0 .. c - 1 /\ SlotFrom(c, r, i) # Slot(c, w)
  BY DEF Between, After, Slot, SlotFrom

LEMMA PopIndices ==
    ASSUME NEW c \in Nat \ {0}, NEW r \in 0 .. 2 * c - 1, NEW w \in 0 .. 2 * c - 1,
           0 < Between(c, r, w), Between(c, r, w) <= c
    PROVE  /\ Between(c, r, w) \in Nat
           /\ Between(c, After(c, r), w) = Between(c, r, w) - 1
           /\ SlotFrom(c, r, 1) = Slot(c, r)
           /\ \A i \in 1 .. Between(c, r, w) - 1 :
                 SlotFrom(c, After(c, r), i) = SlotFrom(c, r, i + 1)
  BY DEF Between, After, Slot, SlotFrom

LEMMA RingFacts ==
    ASSUME NEW B, NEW q \in RingType(B)
    PROVE  /\ Capacity \in Nat \ {0} /\ RingSpan \in Nat \ {0} /\ RingSpan = 2 * Capacity
           /\ q.r \in 0 .. 2 * Capacity - 1 /\ q.w \in 0 .. 2 * Capacity - 1
           /\ q.slot \in [0 .. Capacity - 1 -> B]
  BY CapacityAssumption DEF RingType, RingSpan

LEMMA RingSizeIs ==
    ASSUME NEW B, NEW q \in RingType(B)
    PROVE  /\ RingSize(q) = Between(Capacity, q.r, q.w)
           /\ RingSize(q) \in 0 .. RingSpan - 1
  <1>0. /\ Capacity \in Nat \ {0} /\ RingSpan = 2 * Capacity /\ RingSpan \in Nat \ {0}
        /\ q.r \in 0 .. RingSpan - 1 /\ q.w \in 0 .. RingSpan - 1
        /\ q.slot \in [0 .. Capacity - 1 -> B]
    BY RingFacts
  <1> DEFINE d == q.w - q.r
  <1>1. d \in -(RingSpan - 1) .. RingSpan - 1
    BY <1>0
  <1>2. RingSize(q) = d % RingSpan
    BY DEF RingSize
  <1>3. (d >= 0 <=> q.w >= q.r) /\ d = q.w - q.r
    BY <1>0
  <1> HIDE DEF d
  <1>4. d % RingSpan = IF d >= 0 THEN d ELSE d + RingSpan
    BY <1>0, <1>1, ModDifference
  <1> QED BY <1>0, <1>1, <1>2, <1>3, <1>4 DEF Between

\* The buffers of a ring that is not overrun.
LEMMA ContentsAre ==
    ASSUME NEW B, NEW q \in RingType(B), RingSize(q) <= Capacity
    PROVE  /\ RingContents(q) \in Seq(B)
           /\ Len(RingContents(q)) = RingSize(q)
           /\ \A i \in 1 .. RingSize(q) :
                 RingContents(q)[i] = q.slot[SlotFrom(Capacity, q.r, i)]
  <1>0. /\ Capacity \in Nat \ {0} /\ RingSpan = 2 * Capacity /\ RingSpan \in Nat \ {0}
        /\ q.r \in 0 .. RingSpan - 1 /\ q.w \in 0 .. RingSpan - 1
        /\ q.slot \in [0 .. Capacity - 1 -> B]
    BY RingFacts
  <1>1. RingSize(q) \in Nat
    BY <1>0, RingSizeIs
  <1>2. ASSUME NEW i \in 1 .. RingSize(q)
        PROVE  /\ (q.r + i - 1) % Capacity = SlotFrom(Capacity, q.r, i)
               /\ (q.r + i - 1) % Capacity \in 0 .. Capacity - 1
    <2> DEFINE x == q.r + i - 1
    <2>1. x \in 0 .. 3 * Capacity - 1
      BY <1>0, <1>1
    <2>2. SlotFrom(Capacity, q.r, i) = IF x < Capacity THEN x
                       ELSE IF x < 2 * Capacity THEN x - Capacity ELSE x - 2 * Capacity
      BY <1>0, <1>1 DEF SlotFrom
    <2> HIDE DEF x
    <2>3. x % Capacity = IF x < Capacity THEN x
                       ELSE IF x < 2 * Capacity THEN x - Capacity ELSE x - 2 * Capacity
      BY <1>0, <2>1, ModThrice
    <2>4. x % Capacity \in 0 .. Capacity - 1
      BY <1>0, <2>1, <2>3
    <2> QED BY <2>2, <2>3, <2>4 DEF x
  <1>3. \A i \in 1 .. RingSize(q) :
            /\ q.slot[(q.r + i - 1) % Capacity] = q.slot[SlotFrom(Capacity, q.r, i)]
            /\ q.slot[(q.r + i - 1) % Capacity] \in B
    BY <1>0, <1>2
  <1> DEFINE c(i) == q.slot[(q.r + i - 1) % Capacity]
  <1>4. RingContents(q) = [i \in 1 .. RingSize(q) |-> c(i)]
    BY DEF RingContents
  <1>5. \A i \in 1 .. RingSize(q) : c(i) = q.slot[SlotFrom(Capacity, q.r, i)] /\ c(i) \in B
    BY <1>3
  <1> HIDE DEF c
  <1> QED BY <1>1, <1>4, <1>5

LEMMA RingPushIs ==
    ASSUME NEW B, NEW q \in RingType(B), NEW x \in B
    PROVE  /\ RingPush(q, x) \in RingType(B)
           /\ \A i \in 0 .. Capacity - 1 :
                 RingPush(q, x).slot[i] = IF i = Slot(Capacity, q.w) THEN x ELSE q.slot[i]
           /\ RingPush(q, x).r = q.r
           /\ RingPush(q, x).w = After(Capacity, q.w)
  <1>0. /\ Capacity \in Nat \ {0} /\ RingSpan = 2 * Capacity /\ RingSpan \in Nat \ {0}
        /\ q.r \in 0 .. RingSpan - 1 /\ q.w \in 0 .. RingSpan - 1
        /\ q.slot \in [0 .. Capacity - 1 -> B]
    BY RingFacts
  <1>1. (q.w + 1) % RingSpan = After(Capacity, q.w)
    BY <1>0, ModNext DEF After
  <1> DEFINE y == q.w
  <1> HIDE DEF y
  <1>2. y % Capacity = Slot(Capacity, y)
    <2>1. y \in 0 .. 2 * Capacity - 1
      BY <1>0 DEF y
    <2> QED BY <1>0, <2>1, ModTwice DEF Slot
  <1>3. After(Capacity, q.w) \in 0 .. RingSpan - 1 /\ Slot(Capacity, q.w) \in 0 .. Capacity - 1
    BY <1>0 DEF After, Slot
  <1> QED BY <1>0, <1>1, <1>2, <1>3 DEF RingPush, RingType, y

LEMMA RingPopIs ==
    ASSUME NEW B, NEW q \in RingType(B)
    PROVE  /\ RingPop(q) \in RingType(B)
           /\ RingPop(q).slot = q.slot /\ RingPop(q).w = q.w
           /\ RingPop(q).r = After(Capacity, q.r)
  <1>0. /\ Capacity \in Nat \ {0} /\ RingSpan = 2 * Capacity /\ RingSpan \in Nat \ {0}
        /\ q.r \in 0 .. RingSpan - 1 /\ q.w \in 0 .. RingSpan - 1
        /\ q.slot \in [0 .. Capacity - 1 -> B]
    BY RingFacts
  <1>1. (q.r + 1) % RingSpan = After(Capacity, q.r)
    BY <1>0, ModNext DEF After
  <1>2. After(Capacity, q.r) \in 0 .. RingSpan - 1
    BY <1>0 DEF After
  <1> QED BY <1>0, <1>1, <1>2 DEF RingPop, RingType

\* First in ...
THEOREM RingPushAppends ==
    ASSUME NEW B, NEW q \in RingType(B), NEW x \in B, RingSize(q) < Capacity
    PROVE  /\ RingSize(RingPush(q, x)) = RingSize(q) + 1
           /\ RingContents(RingPush(q, x)) = Append(RingContents(q), x)
  <1>0. /\ Capacity \in Nat \ {0} /\ RingSpan = 2 * Capacity /\ RingSpan \in Nat \ {0}
        /\ q.r \in 0 .. RingSpan - 1 /\ q.w \in 0 .. RingSpan - 1
        /\ q.slot \in [0 .. Capacity - 1 -> B]
    BY RingFacts
  <1> DEFINE p == RingPush(q, x)
             n == RingSize(q)
             k == Slot(Capacity, q.w)
             at(i) == SlotFrom(Capacity, q.r, i)
  <1>1. /\ p \in RingType(B) /\ p.r = q.r /\ p.w = After(Capacity, q.w)
        /\ \A i \in 0 .. Capacity - 1 : p.slot[i] = IF i = k THEN x ELSE q.slot[i]
    BY RingPushIs
  <1>2. n = Between(Capacity, q.r, q.w) /\ RingSize(p) = Between(Capacity, q.r, After(Capacity, q.w))
    BY <1>1, RingSizeIs
  <1>3. n < Capacity
    OBVIOUS
  <1> HIDE DEF p, n
  <1>4. /\ n \in Nat /\ RingSize(p) = n + 1 /\ k \in 0 .. Capacity - 1 /\ at(n + 1) = k
        /\ \A i \in 1 .. n : at(i) \in 0 .. Capacity - 1 /\ at(i) # k
    BY <1>0, <1>2, <1>3, PushIndices
  <1>5. /\ RingContents(q) \in Seq(B) /\ Len(RingContents(q)) = n
        /\ \A i \in 1 .. n : RingContents(q)[i] = q.slot[at(i)]
    BY <1>0, <1>3, <1>4, ContentsAre DEF n
  <1>6. /\ RingContents(p) \in Seq(B) /\ Len(RingContents(p)) = n + 1
        /\ \A i \in 1 .. n + 1 : RingContents(p)[i] = p.slot[at(i)]
    <2>1. RingSize(p) <= Capacity
      BY <1>0, <1>3, <1>4
    <2>2. /\ RingContents(p) \in Seq(B) /\ Len(RingContents(p)) = RingSize(p)
          /\ \A i \in 1 .. RingSize(p) : RingContents(p)[i] = p.slot[SlotFrom(Capacity, p.r, i)]
      BY <1>1, <2>1, ContentsAre
    <2> QED BY <1>1, <1>4, <2>2
  <1> HIDE DEF at, k
  <1>7. \A i \in 1 .. n : RingContents(p)[i] = RingContents(q)[i]
    <2>1. \A i \in 1 .. n : p.slot[at(i)] = q.slot[at(i)]
      BY <1>1, <1>4
    <2> QED BY <1>4, <1>5, <1>6, <2>1
  <1>8. RingContents(p)[n + 1] = x
    BY <1>0, <1>1, <1>4, <1>6
  <1>9. RingContents(p) = Append(RingContents(q), x)
    BY <1>4, <1>5, <1>6, <1>7, <1>8
  <1> QED BY <1>4, <1>9 DEF p, n

\* ... first out.
THEOREM RingPopTakesFront ==
    ASSUME NEW B, NEW q \in RingType(B), 0 < RingSize(q), RingSize(q) <= Capacity
    PROVE  /\ RingSize(RingPop(q)) = RingSize(q) - 1
           /\ RingContents(q) # <<>>
           /\ RingFront(q) = Head(RingContents(q))
           /\ RingContents(RingPop(q)) = Tail(RingContents(q))
  <1>0. /\ Capacity \in Nat \ {0} /\ RingSpan = 2 * Capacity /\ RingSpan \in Nat \ {0}
        /\ q.r \in 0 .. RingSpan - 1 /\ q.w \in 0 .. RingSpan - 1
        /\ q.slot \in [0 .. Capacity - 1 -> B]
    BY RingFacts
  <1> DEFINE p == RingPop(q)
             n == RingSize(q)
             at(i) == SlotFrom(Capacity, q.r, i)
             next(i) == SlotFrom(Capacity, After(Capacity, q.r), i)
  <1>1. /\ p \in RingType(B) /\ p.slot = q.slot /\ p.w = q.w
        /\ p.r = After(Capacity, q.r)
    BY RingPopIs
  <1>2. n = Between(Capacity, q.r, q.w) /\ RingSize(p) = Between(Capacity, After(Capacity, q.r), q.w)
    BY <1>1, RingSizeIs
  <1>3. 0 < n /\ n <= Capacity
    OBVIOUS
  <1> HIDE DEF p, n
  <1>4. /\ n \in Nat /\ RingSize(p) = n - 1 /\ at(1) = Slot(Capacity, q.r)
        /\ \A i \in 1 .. n - 1 : next(i) = at(i + 1)
    BY <1>0, <1>2, <1>3, PopIndices
  <1>5. /\ RingContents(q) \in Seq(B) /\ Len(RingContents(q)) = n
        /\ \A i \in 1 .. n : RingContents(q)[i] = q.slot[at(i)]
    BY <1>0, <1>3, <1>4, ContentsAre DEF n
  <1>6. /\ RingContents(p) \in Seq(B) /\ Len(RingContents(p)) = n - 1
        /\ \A i \in 1 .. n - 1 : RingContents(p)[i] = p.slot[next(i)]
    <2>1. RingSize(p) <= Capacity
      BY <1>0, <1>3, <1>4
    <2>2. /\ RingContents(p) \in Seq(B) /\ Len(RingContents(p)) = RingSize(p)
          /\ \A i \in 1 .. RingSize(p) : RingContents(p)[i] = p.slot[SlotFrom(Capacity, p.r, i)]
      BY <1>1, <2>1, ContentsAre
    <2> QED BY <1>1, <1>4, <2>2
  <1> DEFINE y == q.r
  <1> HIDE DEF y
  <1>7. y % Capacity = Slot(Capacity, y)
    <2>1. y \in 0 .. 2 * Capacity - 1
      BY <1>0 DEF y
    <2> QED BY <1>0, <2>1, ModTwice DEF Slot
  <1>8. RingFront(q) = RingContents(q)[1]
    BY <1>3, <1>4, <1>5, <1>7 DEF RingFront, y
  <1> HIDE DEF at, next
  <1>9. RingContents(p) = Tail(RingContents(q))
    BY <1>1, <1>3, <1>4, <1>5, <1>6
  <1> QED BY <1>3, <1>4, <1>5, <1>8, <1>9 DEF p, n

-----------------------------------------------------------------------------
(* Buffers in a row *)

\* x is a run of units, the first of them behind unit a.
IsRun(x, a) == \A k \in 1 .. Len(x) : x[k] = a + k

LastOf(x) == x[Len(x)]

\* The buffers of c, none of them empty, are runs that follow each other, the
\* first of them behind a; and the last unit of them.
IsRow(c, a) ==
    \A i \in 1 .. Len(c) :
        c[i] # <<>> /\ IsRun(c[i], IF i = 1 THEN a ELSE LastOf(c[i - 1]))
EndOf(c, a) == IF c = <<>> THEN a ELSE LastOf(c[Len(c)])

Buffer == Seq(Nat)

\* A run is determined by where it starts and how long it is.
LEMMA RunIs ==
    ASSUME NEW a \in Nat, NEW x \in Buffer, IsRun(x, a)
    PROVE  x = [k \in 1 .. Len(x) |-> a + k]
  BY DEF IsRun, Buffer

LEMMA RunJoin ==
    ASSUME NEW a \in Nat, NEW x \in Buffer, NEW y \in Buffer,
           IsRun(x, a), IsRun(y, a + Len(x))
    PROVE  x \o y \in Buffer /\ Len(x \o y) = Len(x) + Len(y) /\ IsRun(x \o y, a)
  BY DEF IsRun, Buffer

\* x is a run of the units from a to b.
Spans(x, a, b) == x \in Buffer /\ IsRun(x, a) /\ a + Len(x) = b

LEMMA SpansJoin ==
    ASSUME NEW a \in Nat, NEW b \in Nat, NEW e \in Nat, NEW x, NEW y,
           Spans(x, a, b), Spans(y, b, e)
    PROVE  Spans(x \o y, a, e)
  <1>1. x \in Buffer /\ y \in Buffer /\ Len(x) \in Nat /\ Len(y) \in Nat
    BY DEF Spans, Buffer
  <1>2. x \o y \in Buffer /\ Len(x \o y) = Len(x) + Len(y) /\ IsRun(x \o y, a)
    BY <1>1, RunJoin DEF Spans
  <1> QED BY <1>1, <1>2 DEF Spans

LEMMA RunAppend ==
    ASSUME NEW a \in Nat, NEW x \in Buffer, IsRun(x, a), NEW u, u = a + Len(x) + 1
    PROVE  /\ Append(x, u) \in Buffer /\ Len(Append(x, u)) = Len(x) + 1
           /\ Append(x, u) # <<>> /\ IsRun(Append(x, u), a)
  <1>1. u \in Nat /\ Len(x) \in Nat /\ x \in Seq(Nat)
    BY DEF Buffer
  <1>2. Append(x, u) \in Seq(Nat) /\ Len(Append(x, u)) = Len(x) + 1
    BY <1>1
  <1>3. \A k \in 1 .. Len(x) + 1 : Append(x, u)[k] = a + k
    BY <1>1 DEF IsRun
  <1>4. Append(x, u) # <<>>
    BY <1>1, <1>2
  <1> QED BY <1>1, <1>2, <1>3, <1>4 DEF IsRun, Buffer

LEMMA RunTail ==
    ASSUME NEW a \in Nat, NEW x \in Buffer, IsRun(x, a), x # <<>>
    PROVE  /\ Tail(x) \in Buffer /\ Len(Tail(x)) = Len(x) - 1
           /\ x[1] = a + 1 /\ IsRun(Tail(x), a + 1)
  BY DEF IsRun, Buffer

LEMMA RowAppend ==
    ASSUME NEW a \in Nat, NEW c \in Seq(Buffer), IsRow(c, a),
           NEW x \in Buffer, x # <<>>, EndOf(c, a) \in Nat, IsRun(x, EndOf(c, a))
    PROVE  /\ IsRow(Append(c, x), a)
           /\ EndOf(Append(c, x), a) = EndOf(c, a) + Len(x)
  <1> DEFINE d == Append(c, x)
  <1>1. /\ d \in Seq(Buffer) /\ Len(d) = Len(c) + 1 /\ d[Len(c) + 1] = x /\ Len(c) \in Nat
        /\ \A i \in 1 .. Len(c) : d[i] = c[i]
    OBVIOUS
  <1>2. d # <<>> /\ LastOf(x) = EndOf(c, a) + Len(x)
    BY DEF LastOf, IsRun, Buffer
  <1> HIDE DEF d
  <1>3. EndOf(d, a) = EndOf(c, a) + Len(x)
    BY <1>1, <1>2 DEF EndOf
  <1>4. ASSUME NEW i \in 1 .. Len(d)
        PROVE  d[i] # <<>> /\ IsRun(d[i], IF i = 1 THEN a ELSE LastOf(d[i - 1]))
    <2>1. CASE i = Len(c) + 1
      <3>1. EndOf(c, a) = IF i = 1 THEN a ELSE LastOf(d[i - 1])
        BY <1>1, <2>1 DEF EndOf
      <3> QED BY <1>1, <2>1, <3>1
    <2>2. CASE i # Len(c) + 1
      <3>1. i \in 1 .. Len(c) /\ d[i] = c[i] /\ (i # 1 => d[i - 1] = c[i - 1])
        BY <1>1, <2>2
      <3> QED BY <3>1 DEF IsRow
    <2> QED BY <2>1, <2>2
  <1> QED BY <1>3, <1>4 DEF IsRow, d

LEMMA RowTail ==
    ASSUME NEW a \in Nat, NEW c \in Seq(Buffer), IsRow(c, a), c # <<>>
    PROVE  /\ Head(c) \in Buffer /\ Head(c) # <<>> /\ IsRun(Head(c), a)
           /\ IsRow(Tail(c), a + Len(Head(c)))
           /\ EndOf(Tail(c), a + Len(Head(c))) = EndOf(c, a)
  <1> DEFINE d == Tail(c)
             h == Head(c)
             b == a + Len(h)
  <1>1. /\ d \in Seq(Buffer) /\ Len(d) = Len(c) - 1 /\ Len(c) \in Nat \ {0} /\ h = c[1]
        /\ \A i \in 1 .. Len(d) : d[i] = c[i + 1]
    OBVIOUS
  <1> HIDE DEF d, h
  <1>2. h \in Buffer /\ h # <<>> /\ IsRun(h, a)
    BY <1>1 DEF IsRow
  <1>3. b \in Nat /\ LastOf(c[1]) = b
    <2>1. b \in Nat /\ LastOf(h) = b
      BY <1>2 DEF LastOf, IsRun, Buffer
    <2> QED BY <1>1, <2>1
  <1> HIDE DEF b
  <1>4. ASSUME NEW i \in 1 .. Len(d)
        PROVE  d[i] # <<>> /\ IsRun(d[i], IF i = 1 THEN b ELSE LastOf(d[i - 1]))
    <2>1. i + 1 \in 1 .. Len(c) /\ i + 1 # 1 /\ d[i] = c[i + 1] /\ (i # 1 => d[i - 1] = c[i])
      BY <1>1
    <2>2. (i + 1) - 1 = i
      OBVIOUS
    <2>3. d[i] # <<>> /\ IsRun(d[i], LastOf(c[i]))
      BY <2>1, <2>2 DEF IsRow
    <2> QED BY <1>3, <2>1, <2>3
  <1>5. EndOf(d, b) = EndOf(c, a)
    <2>1. CASE Len(c) = 1
      BY <1>1, <1>3, <2>1 DEF EndOf
    <2>2. CASE Len(c) # 1
      BY <1>1, <2>2 DEF EndOf
    <2> QED BY <2>1, <2>2
  <1> QED BY <1>2, <1>4, <1>5 DEF IsRow, d, h, b

\* The buffers of a row end further and further on.
LEMMA RowOrder ==
    ASSUME NEW a \in Nat, NEW c \in Seq(Buffer), IsRow(c, a)
    PROVE  /\ EndOf(c, a) \in Nat /\ EndOf(c, a) >= a + Len(c)
           /\ \A i \in 1 .. Len(c) : LastOf(c[i]) \in Nat /\ LastOf(c[i]) >= a + i
  <1> DEFINE S == {n \in Nat : n \in 1 .. Len(c) => LastOf(c[n]) \in Nat /\ LastOf(c[n]) >= a + n}
  <1>1. 0 \in S
    OBVIOUS
  <1>2. ASSUME NEW n \in S PROVE n + 1 \in S
    <2>1. SUFFICES ASSUME n + 1 \in 1 .. Len(c)
                   PROVE  LastOf(c[n + 1]) \in Nat /\ LastOf(c[n + 1]) >= a + n + 1
      OBVIOUS
    <2> DEFINE b == IF n = 0 THEN a ELSE LastOf(c[n])
               x == c[n + 1]
    <2>2. b \in Nat /\ b >= a + n
      BY <2>1
    <2>3. x \in Buffer /\ x # <<>> /\ IsRun(x, b)
      <3>1. (n + 1) - 1 = n /\ (n + 1 = 1 <=> n = 0)
        OBVIOUS
      <3> QED BY <2>1, <3>1 DEF IsRow
    <2> HIDE DEF b, x
    <2>4. LastOf(x) = b + Len(x) /\ Len(x) \in Nat \ {0}
      BY <2>2, <2>3 DEF LastOf, IsRun, Buffer
    <2> QED BY <2>2, <2>4 DEF x
  <1>3. S = Nat
    <2> HIDE DEF S
    <2> S \in SUBSET Nat
      BY DEF S
    <2> QED BY <1>1, <1>2, SetInduction
  <1>4. \A i \in 1 .. Len(c) : LastOf(c[i]) \in Nat /\ LastOf(c[i]) >= a + i
    BY <1>3
  <1> QED BY <1>4 DEF EndOf


\* The buffers of a row put together are a run.
LEMMA RowFlatten ==
    ASSUME NEW a \in Nat, NEW q, RingContents(q) \in Seq(Buffer), IsRow(RingContents(q), a)
    PROVE  /\ FlattenRing(q) \in Buffer /\ IsRun(FlattenRing(q), a)
           /\ a + Len(FlattenRing(q)) = EndOf(RingContents(q), a)
  <1> DEFINE c == RingContents(q)
             n == Len(c)
             start(i) == IF i = 0 THEN a ELSE LastOf(c[i])
             G == [i \in 0 .. n |-> [k \in 1 .. start(i) - a |-> a + k]]
             flat == CHOOSE f : f = [i \in 0 .. n |-> IF i = 0 THEN <<>> ELSE f[i - 1] \o c[i]]
             S == {m \in Nat : m <= n =>
                       /\ flat[m] \in Buffer /\ IsRun(flat[m], a)
                       /\ a + Len(flat[m]) = start(m)}
  <1>1. FlattenRing(q) = flat[n]
    BY DEF FlattenRing
  <1>2. /\ c \in Seq(Buffer) /\ n \in Nat
        /\ \A i \in 0 .. n : start(i) \in Nat /\ start(i) >= a
        /\ \A i \in 1 .. n : /\ c[i] \in Buffer /\ IsRun(c[i], start(i - 1))
                             /\ start(i) = start(i - 1) + Len(c[i])
    <2>1. c \in Seq(Buffer) /\ n \in Nat
      OBVIOUS
    <2>2. \A i \in 0 .. n : start(i) \in Nat /\ start(i) >= a
      BY <2>1, RowOrder
    <2>3. ASSUME NEW i \in 1 .. n
          PROVE  /\ c[i] \in Buffer /\ IsRun(c[i], start(i - 1))
                 /\ start(i) = start(i - 1) + Len(c[i])
      <3> DEFINE x == c[i]
                 b == start(i - 1)
      <3>1. x \in Buffer /\ x # <<>> /\ IsRun(x, b) /\ start(i) = LastOf(x)
        BY <2>1 DEF IsRow
      <3>2. b \in Nat
        BY <2>1, <2>2
      <3> HIDE DEF x, b
      <3>3. LastOf(x) = b + Len(x)
        BY <3>1, <3>2 DEF LastOf, IsRun, Buffer
      <3> QED BY <3>1, <3>3 DEF x, b
    <2> QED BY <2>1, <2>2, <2>3
  <1> HIDE DEF c, n, start
  <1>3. G = [i \in 0 .. n |-> IF i = 0 THEN <<>> ELSE G[i - 1] \o c[i]]
    <2>1. ASSUME NEW i \in 0 .. n
          PROVE  G[i] = IF i = 0 THEN <<>> ELSE G[i - 1] \o c[i]
      <3>1. CASE i = 0
        BY <1>2, <3>1 DEF start
      <3>2. CASE i # 0
        <4> DEFINE x == c[i]
                   s == start(i - 1)
                   t == start(i)
        <4>1. s \in Nat /\ s >= a /\ t = s + Len(x) /\ x \in Buffer /\ IsRun(x, s)
          BY <1>2, <3>2
        <4>2. G[i] = [k \in 1 .. t - a |-> a + k] /\ G[i - 1] = [k \in 1 .. s - a |-> a + k]
          BY <1>2, <3>2
        <4> HIDE DEF x, s, t, G
        <4>3. [k \in 1 .. t - a |-> a + k] = [k \in 1 .. s - a |-> a + k] \o x
          BY <4>1 DEF IsRun, Buffer
        <4> QED BY <3>2, <4>2, <4>3 DEF x
      <3> QED BY <3>1, <3>2
    <2> QED BY <2>1
  <1>4. flat = [i \in 0 .. n |-> IF i = 0 THEN <<>> ELSE flat[i - 1] \o c[i]]
    <2> HIDE DEF G
    <2> QED BY <1>3
  <1> HIDE DEF flat, G
  <1>5. 0 \in S
    BY <1>2, <1>4 DEF start, IsRun, Buffer
  <1>6. ASSUME NEW m \in S PROVE m + 1 \in S
    <2>1. SUFFICES ASSUME m + 1 <= n
                   PROVE  /\ flat[m + 1] \in Buffer /\ IsRun(flat[m + 1], a)
                          /\ a + Len(flat[m + 1]) = start(m + 1)
      OBVIOUS
    <2> DEFINE x == flat[m]
               y == c[m + 1]
    <2>2. /\ x \in Buffer /\ IsRun(x, a) /\ a + Len(x) = start(m)
          /\ m \in Nat /\ m \in 0 .. n /\ m + 1 \in 1 .. n /\ (m + 1) - 1 = m
      BY <1>2, <2>1
    <2>3. y \in Buffer /\ IsRun(y, start(m)) /\ start(m + 1) = start(m) + Len(y)
      BY <1>2, <2>2
    <2>4. flat[m + 1] = x \o y
      <3> DEFINE i == m + 1
      <3>1. i \in 0 .. n /\ i # 0 /\ i - 1 = m
        BY <1>2, <2>2
      <3> HIDE DEF i
      <3>2. flat[i] = IF i = 0 THEN <<>> ELSE flat[i - 1] \o c[i]
        BY <1>4, <3>1
      <3>3. flat[i] = flat[m] \o c[i]
        BY <3>1, <3>2
      <3> QED BY <3>3 DEF i
    <2> HIDE DEF x, y
    <2>5. x \o y \in Buffer /\ Len(x \o y) = Len(x) + Len(y) /\ IsRun(x \o y, a)
      BY <2>2, <2>3, RunJoin
    <2>6. Len(x) \in Nat /\ Len(y) \in Nat
      BY <2>2, <2>3 DEF Buffer
    <2> QED BY <2>2, <2>3, <2>4, <2>5, <2>6
  <1>7. n \in S
    <2> HIDE DEF S
    <2>1. S \in SUBSET Nat
      BY DEF S
    <2>2. S = Nat
      BY <1>5, <1>6, <2>1, SetInduction
    <2> QED BY <1>2, <2>2
  <1>8. flat[n] \in Buffer /\ IsRun(flat[n], a) /\ a + Len(flat[n]) = start(n)
    BY <1>2, <1>7
  <1>9. start(n) = EndOf(c, a)
    BY <1>2 DEF start, EndOf, n
  <1> QED BY <1>1, <1>8, <1>9 DEF c

\* The buffers of a file end further and further on.
LEMMA UnitsGrow ==
    ASSUME NEW f \in Files
    PROVE  /\ Len(f.ends) \in Nat \ {0} /\ f.size \in Nat \ {0}
           /\ \A i \in 1 .. Len(f.ends) : f.ends[i] \in Nat \ {0}
           /\ \A i \in 1 .. Len(f.ends) - 1 : f.ends[i] < f.ends[i + 1]
           /\ \A i \in 1 .. Len(f.ends) : f.ends[i] <= f.ends[Len(f.ends)]
  <1> DEFINE e == f.ends
             n == Len(e)
             S == {m \in Nat : m < n => e[n - m] <= e[n]}
  <1>1. /\ e \in Seq(Nat \ {0}) /\ n \in Nat \ {0} /\ f.size \in Nat \ {0}
        /\ \A i \in 1 .. n : e[i] \in Nat \ {0}
        /\ \A i \in 1 .. n - 1 : e[i] < e[i + 1]
    <2>1. /\ f.ends \in Seq(Nat \ {0}) /\ f.size \in Nat \ {0} /\ Len(f.ends) > 0
          /\ \A i \in 1 .. Len(f.ends) - 1 : f.ends[i] < f.ends[i + 1]
      BY PipelineAssumption DEF FileType
    <2> QED BY <2>1
  <1> HIDE DEF e, n
  <1>2. 0 \in S
    BY <1>1
  <1>3. ASSUME NEW m \in S PROVE m + 1 \in S
    <2>1. SUFFICES ASSUME m + 1 < n PROVE e[n - (m + 1)] <= e[n]
      OBVIOUS
    <2> DEFINE i == n - (m + 1)
    <2>2. i \in 1 .. n - 1 /\ i + 1 = n - m /\ m < n
      BY <1>1, <2>1
    <2>3. e[i] < e[i + 1] /\ e[i] \in Nat /\ e[i + 1] \in Nat /\ e[n] \in Nat
      BY <1>1, <2>2
    <2>4. e[i + 1] <= e[n]
      BY <2>2
    <2> HIDE DEF i
    <2>5. e[i] <= e[n]
      BY <2>3, <2>4
    <2> QED BY <2>5 DEF i
  <1>4. S = Nat
    <2> HIDE DEF S
    <2>1. S \in SUBSET Nat
      BY DEF S
    <2> QED BY <1>2, <1>3, <2>1, SetInduction
  <1>5. ASSUME NEW i \in 1 .. n PROVE e[i] <= e[n]
    <2>1. n - i \in Nat /\ n - i < n /\ n - (n - i) = i
      BY <1>1
    <2>2. \A m \in Nat : m < n => e[n - m] <= e[n]
      BY <1>4
    <2> QED BY <2>1, <2>2
  <1> QED BY <1>1, <1>5 DEF e, n

LEMMA FrontIs ==
    ASSUME NEW B, NEW q \in RingType(B)
    PROVE  RingFront(q) \in B
  <1>0. /\ Capacity \in Nat \ {0} /\ q.r \in 0 .. 2 * Capacity - 1
        /\ q.slot \in [0 .. Capacity - 1 -> B]
    BY RingFacts
  <1> DEFINE y == q.r
  <1>1. y \in 0 .. 2 * Capacity - 1
    BY <1>0
  <1> HIDE DEF y
  <1>2. y % Capacity \in 0 .. Capacity - 1
    BY <1>0, <1>1, ModTwice
  <1> QED BY <1>0, <1>2 DEF RingFront, y

LEMMA NewRingIs ==
    /\ NewRing \in RingType(Buffer) /\ RingSize(NewRing) = 0
    /\ RingContents(NewRing) = <<>>
  <1>1. NewRing \in RingType(Buffer)
    BY CapacityAssumption DEF NewRing, RingType, RingSpan, Buffer
  <1>2. RingSize(NewRing) = Between(Capacity, 0, 0)
    BY <1>1, RingSizeIs DEF NewRing
  <1>3. RingSize(NewRing) = 0 /\ Capacity \in Nat \ {0}
    BY <1>2, CapacityAssumption DEF Between
  <1>4. RingContents(NewRing) \in Seq(Buffer) /\ Len(RingContents(NewRing)) = 0
    BY <1>1, <1>3, ContentsAre
  <1> QED BY <1>1, <1>3, <1>4

\* The units before a buffer, and the buffer that is read.
LEMMA UnitsAre ==
    ASSUME file \in Files
    PROVE  /\ BufferCount \in Nat \ {0} /\ TotalUnits \in Nat \ {0} /\ file.size \in Nat \ {0}
           /\ UnitsBefore(1) = 0 /\ TotalUnits = file.ends[Len(file.ends)]
           /\ UnitsBefore(BufferCount + 1) = TotalUnits
           /\ \A i \in 0 .. BufferCount :
                 UnitsBefore(i + 1) \in Nat /\ UnitsBefore(i + 1) <= TotalUnits
           /\ \A i \in 1 .. BufferCount :
                 /\ UnitsBefore(i) \in Nat /\ UnitsBefore(i) < UnitsBefore(i + 1)
                 /\ ReadBuffer(i) \in Buffer /\ IsRun(ReadBuffer(i), UnitsBefore(i))
                 /\ UnitsBefore(i) + Len(ReadBuffer(i)) = UnitsBefore(i + 1)
                 /\ ReadBuffer(i) # <<>>
  <1> DEFINE e == file.ends
             n == Len(e)
  <1>1. /\ n \in Nat \ {0} /\ file.size \in Nat \ {0} /\ n = BufferCount
        /\ \A i \in 1 .. n : e[i] \in Nat \ {0} /\ e[i] <= e[n]
        /\ \A i \in 1 .. n - 1 : e[i] < e[i + 1]
    BY UnitsGrow DEF BufferCount
  <1>2. /\ UnitsBefore(1) = 0
        /\ \A i \in 1 .. n : UnitsBefore(i + 1) = e[i]
        /\ \A i \in 2 .. n : UnitsBefore(i) = e[i - 1]
    BY <1>1 DEF UnitsBefore
  <1>3. TotalUnits = e[n]
    BY <1>1, <1>2 DEF TotalUnits
  <1> HIDE DEF n
  <1>4. ASSUME NEW i \in 0 .. n
        PROVE  UnitsBefore(i + 1) \in Nat /\ UnitsBefore(i + 1) <= TotalUnits
    BY <1>1, <1>2, <1>3
  <1>5. ASSUME NEW i \in 1 .. n
        PROVE  UnitsBefore(i) \in Nat /\ UnitsBefore(i) < UnitsBefore(i + 1)
    <2>1. CASE i = 1
      BY <1>1, <1>2, <2>1
    <2>2. CASE i # 1
      <3>1. i - 1 \in 1 .. n - 1 /\ (i - 1) + 1 = i /\ i \in 2 .. n
        BY <1>1, <2>2
      <3>2. e[i - 1] < e[i] /\ e[i - 1] \in Nat
        BY <1>1, <3>1
      <3> QED BY <1>2, <3>1, <3>2
    <2> QED BY <2>1, <2>2
  <1>6. ASSUME NEW i \in 1 .. n
        PROVE  /\ ReadBuffer(i) \in Buffer /\ IsRun(ReadBuffer(i), UnitsBefore(i))
               /\ UnitsBefore(i) + Len(ReadBuffer(i)) = UnitsBefore(i + 1)
               /\ ReadBuffer(i) # <<>>
    <2> DEFINE a == UnitsBefore(i)
               b == UnitsBefore(i + 1)
               x == ReadBuffer(i)
    <2>1. x = [k \in 1 .. b - a |-> a + k]
      BY <1>2 DEF ReadBuffer
    <2>2. a \in Nat /\ b \in Nat /\ a < b
      BY <1>1, <1>4, <1>5
    <2> HIDE DEF a, b, x
    <2>3. x \in Seq(Nat) /\ Len(x) = b - a /\ Len(x) # 0 /\ \A k \in 1 .. Len(x) : x[k] = a + k
      BY <2>1, <2>2
    <2>4. x \in Buffer /\ IsRun(x, a) /\ a + Len(x) = b /\ x # <<>>
      BY <2>2, <2>3 DEF Buffer, IsRun
    <2> QED BY <2>4 DEF a, b, x
  <1>7. /\ BufferCount \in Nat \ {0} /\ TotalUnits \in Nat \ {0} /\ file.size \in Nat \ {0}
        /\ UnitsBefore(1) = 0 /\ TotalUnits = file.ends[Len(file.ends)]
    BY <1>1, <1>2, <1>3 DEF n
  <1>8. UnitsBefore(BufferCount + 1) = TotalUnits
    BY DEF TotalUnits
  <1>9. \A i \in 0 .. BufferCount :
            UnitsBefore(i + 1) \in Nat /\ UnitsBefore(i + 1) <= TotalUnits
    BY <1>1, <1>4
  <1>10. \A i \in 1 .. BufferCount :
            /\ UnitsBefore(i) \in Nat /\ UnitsBefore(i) < UnitsBefore(i + 1)
            /\ ReadBuffer(i) \in Buffer /\ IsRun(ReadBuffer(i), UnitsBefore(i))
            /\ UnitsBefore(i) + Len(ReadBuffer(i)) = UnitsBefore(i + 1)
            /\ ReadBuffer(i) # <<>>
    BY <1>1, <1>5, <1>6
  <1> QED BY <1>7, <1>8, <1>9, <1>10

-----------------------------------------------------------------------------
(* The invariant of the pipeline *)

Ended == {"end", "set", "done"}
Putting == {"put", "putSleep", "putWait", "putWoken"}
Getting == {"get", "getSleep", "getWait", "getWoken"}
ReadPlaces == {"created", "loop", "source"} \cup Putting \cup Ended
DecompressPlaces ==
    {"created", "loop", "take", "work", "flush"} \cup Getting \cup Putting \cup Ended
WritePlaces == {"created", "loop", "store"} \cup Getting \cup Ended

PlacesOK ==
    /\ pc = [t \in Threads |-> pc[t]]
    /\ pc["read"] \in ReadPlaces
    /\ pc["decompress"] \in DecompressPlaces
    /\ pc["write"] \in WritePlaces

TypesOK ==
    /\ file \in Files
    /\ ring \in [Links -> RingType(Buffer)]
    /\ PlacesOK
    /\ hand \in [Threads -> Buffer]
    /\ running \in [Threads -> BOOLEAN]
    /\ result \in [Threads -> {"ok", "fail"}]
    /\ ret \in [Threads -> {"ok", "fail"}]
    /\ readCount \in 0 .. BufferCount
    /\ pc["read"] = "source" => readCount < BufferCount
    /\ unread \in Buffer /\ inflateBuf \in Buffer /\ inflated \in Nat
    /\ resume \in {"loop", "work", "flush"}
    /\ writeSize \in {TotalUnits, file.size}
    /\ written \in Buffer

\* What the flags, the results and the places say of each other.
Control ==
    /\ \A t \in Threads :
         /\ running[t] <=> pc[t] \notin {"set", "done"}
         /\ pc[t] \notin Ended => ret[t] = "ok"
         /\ result[t] = IF pc[t] = "done" THEN ret[t] ELSE "ok"
    /\ doneEvent => ~GetResults \/ pc["write"] = "done"
    /\ mpc \in {"close", "poll"} => doneEvent
    /\ mpc = "start" => /\ pc["write"] = "created"
                        /\ pc["read"] = "created" => pc["decompress"] = "created"

OutRing == RingContents(ring["out"])
InRing == RingContents(ring["in"])
Dec == pc["decompress"]

\* How far the units have come: those the write thread has, those sent to it,
\* those taken from the read thread, those sent by it, and those read.
GotByWrite == Len(written) + Len(hand["write"])
SentToWrite == EndOf(OutRing, GotByWrite)
JustGot == IF Dec = "take" THEN Len(hand["decompress"]) ELSE 0
GotByDecompress == inflated + Len(unread) + JustGot
SentByRead == EndOf(InRing, GotByDecompress)
ReadSoFar == UnitsBefore(readCount + 1)

\* What the decompress thread has: a buffer it sends or its inflate buffer up
\* to the unit inflated last, what it has not inflated, and what it just got.
DecompressHas ==
    /\ Dec \in Putting =>
         /\ hand["decompress"] # <<>> /\ inflateBuf = <<>>
         /\ IsRun(hand["decompress"], SentToWrite)
         /\ SentToWrite + Len(hand["decompress"]) = inflated
    /\ Dec \notin Putting =>
         /\ IsRun(inflateBuf, SentToWrite)
         /\ SentToWrite + Len(inflateBuf) = inflated
    /\ Dec = "take" => IsRun(hand["decompress"], inflated)
    /\ Dec \notin Putting \cup {"take"} => hand["decompress"] = <<>>
    /\ IsRun(unread, inflated)
    /\ unread # <<>> => Dec = "work" \/ (Dec \in Putting /\ resume = "work")
    /\ ~file.ncz => inflateBuf = <<>> /\ unread = <<>>

\* The units between the source and the placeholder, thread by thread: each
\* part as long as the thread that is to take it on has not failed.
Chain ==
    /\ IsRun(hand["write"], Len(written))
    /\ pc["write"] \notin {"store"} \cup Ended => hand["write"] = <<>>
    /\ IsRow(OutRing, GotByWrite) /\ RingSize(ring["out"]) <= Capacity
    /\ pc["write"] \in Getting \cup {"store"} => Len(written) < writeSize
    /\ ret["decompress"] = "ok" =>
         /\ DecompressHas
         /\ IsRow(InRing, GotByDecompress) /\ RingSize(ring["in"]) <= Capacity
         /\ SentByRead <= ReadSoFar
    /\ ret["decompress"] = "ok" /\ ret["read"] = "ok" =>
         /\ IsRun(hand["read"], SentByRead)
         /\ SentByRead + Len(hand["read"]) = ReadSoFar
         /\ hand["read"] # <<>> <=> pc["read"] \in Putting

\* Who was woken finds what it waited for.
WokenRightly ==
    /\ RingSize(ring["in"]) <= Capacity /\ RingSize(ring["out"]) <= Capacity
    /\ pc["read"] = "putWoken" => RingSize(ring["in"]) < Capacity
    /\ Dec = "putWoken" => RingSize(ring["out"]) < Capacity
    /\ Dec = "getWoken" => RingSize(ring["in"]) > 0
    /\ pc["write"] = "getWoken" => RingSize(ring["out"]) > 0

FlowInv ==
    /\ TypesOK /\ Control
    /\ IsRun(written, 0)
    /\ GetResults /\ running["write"] => Chain /\ WokenRightly

-----------------------------------------------------------------------------
(* Types and control *)

LEMMA LinkEnds ==
    /\ Links = {"in", "out"} /\ Threads = {"read", "decompress", "write"}
    /\ Producer["in"] = "read" /\ Producer["out"] = "decompress"
    /\ Consumer["in"] = "decompress" /\ Consumer["out"] = "write"
    /\ PutWatch["in"] = "write" /\ PutWatch["out"] = "decompress"
    /\ GetWatch["in"] = "read" /\ GetWatch["out"] = "decompress"
  BY DEF Links, Threads, Producer, Consumer, PutWatch, GetWatch

\* Where a thread is when a call of its may fail.
Working == {"source", "take", "work", "store"}

\* A step is one of these.
LEMMA Steps ==
    ASSUME [Next]_vars
    PROVE  \/ ReadLoop \/ ReadSource \/ DecompressLoop \/ TakeBuffer \/ Inflate \/ InflateEnds
           \/ FinalFlush \/ WriteLoop \/ Store
           \/ \E t \in Threads, places \in SUBSET Working : FailsIn(t, places)
           \/ \E l \in Links : Put(l) \/ PutWoken(l) \/ PutSleep(l)
           \/ \E l \in Links : Get(l) \/ GetWoken(l) \/ GetSleep(l)
           \/ \E t \in Threads : ClearRunning(t) \/ SetResult(t)
           \/ StartThread \/ WakeAll
           \/ \/ StartFails \/ WatchDone \/ Poll \/ NoneRunning \/ TakeResults \/ Join
              \/ UNCHANGED vars
  <1>1. CASE ReadThread
    BY <1>1 DEF ReadThread, ReadFails, Links, Threads, Working
  <1>2. CASE DecompressThread
    BY <1>2 DEF DecompressThread, DecompressFails, Links, Threads, Working
  <1>3. CASE WriteThread
    BY <1>3 DEF WriteThread, WriteFails, Links, Threads, Working
  <1>4. CASE Coordinator \/ Returned \/ UNCHANGED vars
    BY <1>4 DEF Coordinator, Returned
  <1> QED BY <1>1, <1>2, <1>3, <1>4 DEF Next

\* The threads are started in order.
LEMMA StartsOne ==
    ASSUME Control, StartThread
    PROVE  /\ pc["write"] = "created"
           /\ \/ /\ pc["read"] = "created" /\ pc["decompress"] = "created"
                 /\ pc' = [pc EXCEPT !["read"] = "loop"] /\ mpc' = "start"
              \/ /\ pc["read"] # "created" /\ pc["decompress"] = "created"
                 /\ pc' = [pc EXCEPT !["decompress"] = "loop"] /\ mpc' = "start"
              \/ /\ pc["read"] # "created" /\ pc["decompress"] # "created"
                 /\ pc' = [pc EXCEPT !["write"] = "loop"] /\ mpc' = "watch"
  <1>1. /\ pc["write"] = "created"
        /\ pc["read"] = "created" => pc["decompress"] = "created"
    BY DEF Control, StartThread
  <1>2. /\ StartOrder[1] = "read" /\ StartOrder[2] = "decompress" /\ StartOrder[3] = "write"
    BY DEF StartOrder
  <1>3. CASE pc["read"] = "created"
    <2>1. Started = {} /\ pc["decompress"] = "created"
      BY <1>1, <1>3 DEF Started, Threads
    <2>2. Cardinality(Started) = 0
      BY <2>1, FS_EmptySet
    <2>3. StartOrder[Cardinality(Started) + 1] = "read"
      BY <1>2, <2>2
    <2>4. pc' = [pc EXCEPT !["read"] = "loop"] /\ mpc' = "start"
      BY <2>2, <2>3 DEF StartThread
    <2> QED BY <1>1, <1>3, <2>1, <2>4
  <1>4. CASE pc["read"] # "created" /\ pc["decompress"] = "created"
    <2>1. Started = {"read"}
      BY <1>1, <1>4 DEF Started, Threads
    <2>2. Cardinality(Started) = 1
      BY <2>1, FS_Singleton
    <2>3. StartOrder[Cardinality(Started) + 1] = "decompress"
      BY <1>2, <2>2
    <2>4. pc' = [pc EXCEPT !["decompress"] = "loop"] /\ mpc' = "start"
      BY <2>2, <2>3 DEF StartThread
    <2> QED BY <1>1, <1>4, <2>4
  <1>5. CASE pc["read"] # "created" /\ pc["decompress"] # "created"
    <2>1. Started = {"read"} \cup {"decompress"}
      BY <1>1, <1>5 DEF Started, Threads
    <2>2. Cardinality(Started) = 2
      <3>1. IsFiniteSet({"read"}) /\ Cardinality({"read"}) = 1
        BY FS_Singleton
      <3>2. "decompress" \notin {"read"}
        OBVIOUS
      <3> QED BY <2>1, <3>1, <3>2, FS_AddElement
    <2>3. StartOrder[Cardinality(Started) + 1] = "write"
      BY <1>2, <2>2
    <2>4. pc' = [pc EXCEPT !["write"] = "loop"] /\ mpc' = "watch"
      BY <2>2, <2>3 DEF StartThread
    <2> QED BY <1>1, <1>5, <2>4
  <1> QED BY <1>3, <1>4, <1>5

LEMMA InitTypes == Init => TypesOK /\ Control
  <1> SUFFICES ASSUME Init PROVE TypesOK /\ Control
    OBVIOUS
  <1>1. file \in Files /\ BufferCount \in Nat
    BY UnitsAre DEF Init
  <1>2. ring \in [Links -> RingType(Buffer)]
    BY NewRingIs DEF Init
  <1>3. <<>> \in Buffer
    BY DEF Buffer
  <1>4. PlacesOK
    BY DEF Init, PlacesOK, Threads, ReadPlaces, DecompressPlaces, WritePlaces
  <1>5. TypesOK
    BY <1>1, <1>2, <1>3, <1>4 DEF Init, TypesOK, Threads
  <1>6. Control
    BY DEF Init, Control, Threads, Ended, GetResults
  <1> QED BY <1>5, <1>6

LEMMA LinkPlaces ==
    ASSUME PlacesOK, resume \in {"loop", "work", "flush"}, NEW l \in Links,
           \/ Put(l) \/ PutWoken(l) \/ PutSleep(l)
           \/ Get(l) \/ GetWoken(l) \/ GetSleep(l)
    PROVE  PlacesOK' /\ (pc'["read"] = "source" => pc["read"] = "source")
  <1> DEFINE Sets(p, x) == pc' = [pc EXCEPT ![p] = x]
             Two(p, x, c, y) == pc' = [pc EXCEPT ![p] = x, ![c] = y]
  <1>1. CASE l = "in"
    <2>1. CASE Put(l) \/ PutWoken(l) \/ PutSleep(l)
      <3>1. \/ \E x \in {"loop", "end", "putSleep", "putWait"} : Sets("read", x)
            \/ \E y \in {pc["decompress"], "getWoken"} : Two("read", "loop", "decompress", y)
        BY <1>1, <2>1, LinkEnds DEF Put, PutWoken, PutSleep, Deliver, FallAsleep, Return, Goto,
                                    AfterPut
      <3> QED BY <3>1 DEF PlacesOK, Threads, ReadPlaces, DecompressPlaces, Ended, Putting, Getting
    <2>2. CASE Get(l) \/ GetWoken(l) \/ GetSleep(l)
      <3>1. \/ \E x \in {"take", "end", "getSleep", "getWait"} : Sets("decompress", x)
            \/ \E y \in {pc["read"], "putWoken"} : Two("decompress", "take", "read", y)
        BY <1>1, <2>2, LinkEnds DEF Get, GetWoken, GetSleep, Fetch, FallAsleep, Return, Goto, AfterGet
      <3> QED BY <3>1 DEF PlacesOK, Threads, ReadPlaces, DecompressPlaces, Ended, Putting, Getting
    <2> QED BY <2>1, <2>2
  <1>2. CASE l = "out"
    <2>1. CASE Put(l) \/ PutWoken(l) \/ PutSleep(l)
      <3>1. \/ \E x \in {resume, "end", "putSleep", "putWait"} : Sets("decompress", x)
            \/ \E y \in {pc["write"], "getWoken"} : Two("decompress", resume, "write", y)
        BY <1>2, <2>1, LinkEnds DEF Put, PutWoken, PutSleep, Deliver, FallAsleep, Return, Goto,
                                    AfterPut
      <3> QED BY <3>1 DEF PlacesOK, Threads, WritePlaces, DecompressPlaces, Ended, Putting, Getting
    <2>2. CASE Get(l) \/ GetWoken(l) \/ GetSleep(l)
      <3>1. \/ \E x \in {"store", "end", "getSleep", "getWait"} : Sets("write", x)
            \/ \E y \in {pc["decompress"], "putWoken"} : Two("write", "store", "decompress", y)
        BY <1>2, <2>2, LinkEnds DEF Get, GetWoken, GetSleep, Fetch, FallAsleep, Return, Goto, AfterGet
      <3> QED BY <3>1 DEF PlacesOK, Threads, WritePlaces, DecompressPlaces, Ended, Putting, Getting
    <2> QED BY <2>1, <2>2
  <1> QED BY <1>1, <1>2, LinkEnds

LEMMA PlacesStep ==
    ASSUME PlacesOK, Control, resume \in {"loop", "work", "flush"}, [Next]_vars
    PROVE  PlacesOK' /\ (pc'["read"] = "source" =>
                            \/ pc["read"] = "source"
                            \/ (ReadLoop /\ readCount < BufferCount))
  <1> USE DEF PlacesOK, Threads
  <1>1. CASE \/ ReadLoop \/ ReadSource
    BY <1>1 DEF ReadLoop, ReadSource, Goto, Return, ReadPlaces, Ended, Putting
  <1>2. CASE DecompressLoop \/ TakeBuffer \/ Inflate \/ InflateEnds \/ FinalFlush
    <2>1. \E x \in {pc["decompress"], "get", "flush", "put", "work", "loop", "end"} :
             pc' = [pc EXCEPT !["decompress"] = x]
      BY <1>2 DEF DecompressLoop, TakeBuffer, Inflate, InflateEnds, FinalFlush, Goto, Return
    <2> QED BY <2>1 DEF DecompressPlaces, Ended, Putting, Getting
  <1>3. CASE WriteLoop \/ Store
    BY <1>3 DEF WriteLoop, Store, Goto, Return, WritePlaces, Ended, Getting
  <1>4. CASE \/ \E t \in Threads, places \in SUBSET Working : FailsIn(t, places)
             \/ \E t \in Threads : ClearRunning(t) \/ SetResult(t)
    <2>1. \E t \in Threads : \E x \in Ended : pc' = [pc EXCEPT ![t] = x]
      BY <1>4 DEF FailsIn, Return, Goto, ClearRunning, SetResult, Ended
    <2> QED BY <2>1 DEF ReadPlaces, DecompressPlaces, WritePlaces, Ended
  <1>5. CASE StartThread
    <2>1. \E t \in Threads : pc' = [pc EXCEPT ![t] = "loop"]
      BY <1>5, StartsOne
    <2> QED BY <2>1 DEF ReadPlaces, DecompressPlaces, WritePlaces
  <1>6. CASE WakeAll
    <2>1. pc' = [t \in Threads |-> CASE pc[t] = "putWait" -> "putWoken"
                                     [] pc[t] = "getWait" -> "getWoken"
                                     [] OTHER -> pc[t]]
      BY <1>6 DEF WakeAll
    <2> QED BY <2>1 DEF ReadPlaces, DecompressPlaces, WritePlaces, Ended, Putting, Getting
  <1>7. CASE \/ StartFails \/ WatchDone \/ Poll \/ NoneRunning \/ TakeResults \/ Join
             \/ UNCHANGED vars
    BY <1>7 DEF StartFails, WatchDone, Poll, NoneRunning, TakeResults, Join, vars
  <1>8. CASE \E l \in Links : \/ Put(l) \/ PutWoken(l) \/ PutSleep(l)
                              \/ Get(l) \/ GetWoken(l) \/ GetSleep(l)
    BY <1>8, LinkPlaces
  <1> QED BY <1>1, <1>2, <1>3, <1>4, <1>5, <1>6, <1>7, <1>8, Steps

\* What the steps on a link do to the rings, the hands and the returns.
LEMMA LinkTypes ==
    ASSUME TypesOK, NEW l \in Links,
           \/ Put(l) \/ PutWoken(l) \/ PutSleep(l)
           \/ Get(l) \/ GetWoken(l) \/ GetSleep(l)
    PROVE  /\ ring' \in [Links -> RingType(Buffer)] /\ hand' \in [Threads -> Buffer]
           /\ ret' \in [Threads -> {"ok", "fail"}]
           /\ UNCHANGED <<file, running, result, workVars>>
  <1> DEFINE p == Producer[l]
             c == Consumer[l]
  <1>0. /\ ring \in [Links -> RingType(Buffer)] /\ hand \in [Threads -> Buffer]
        /\ ret \in [Threads -> {"ok", "fail"}] /\ p \in Threads /\ c \in Threads
        /\ <<>> \in Buffer /\ ring[l] \in RingType(Buffer) /\ hand[p] \in Buffer
    BY LinkEnds DEF TypesOK, Buffer
  <1>1. /\ RingPush(ring[l], hand[p]) \in RingType(Buffer)
        /\ RingPop(ring[l]) \in RingType(Buffer) /\ RingFront(ring[l]) \in Buffer
    BY <1>0, RingPushIs, RingPopIs, FrontIs
  <1>2. \/ UNCHANGED ring
        \/ ring' = [ring EXCEPT ![l] = RingPush(ring[l], hand[p])]
        \/ ring' = [ring EXCEPT ![l] = RingPop(ring[l])]
    BY DEF Put, PutWoken, PutSleep, Deliver, FallAsleep, Get, GetWoken, GetSleep, Fetch
  <1>3. \/ UNCHANGED hand
        \/ hand' = [hand EXCEPT ![p] = <<>>]
        \/ hand' = [hand EXCEPT ![c] = <<>>]
        \/ hand' = [hand EXCEPT ![c] = RingFront(ring[l])]
    BY DEF Put, PutWoken, PutSleep, Deliver, FallAsleep, Get, GetWoken, GetSleep, Fetch
  <1>4. UNCHANGED ret \/ \E t \in Threads : ret' = [ret EXCEPT ![t] = "fail"]
    BY <1>0 DEF Put, PutWoken, PutSleep, Deliver, FallAsleep, Get, GetWoken, GetSleep, Fetch, Return
  <1>5. UNCHANGED <<file, running, result, workVars>>
    BY DEF Put, PutWoken, PutSleep, FallAsleep, Get, GetWoken, GetSleep, flagVars
  <1> HIDE DEF p, c
  <1>6. ring' \in [Links -> RingType(Buffer)]
    BY <1>0, <1>1, <1>2
  <1>7. hand' \in [Threads -> Buffer]
    BY <1>0, <1>1, <1>3
  <1>8. ret' \in [Threads -> {"ok", "fail"}]
    BY <1>0, <1>4
  <1> QED BY <1>5, <1>6, <1>7, <1>8

LEMMA TypesStep == TypesOK /\ Control /\ [Next]_vars => TypesOK'
  <1> SUFFICES ASSUME TypesOK, Control, [Next]_vars PROVE TypesOK'
    OBVIOUS
  <1>0. /\ file' = file => BufferCount' = BufferCount /\ TotalUnits' = TotalUnits
        /\ <<>> \in Buffer /\ Threads = {"read", "decompress", "write"}
        /\ \A i \in 1 .. BufferCount : ReadBuffer(i) \in Buffer
        /\ BufferCount \in Nat \ {0} /\ file.size \in Nat
    BY UnitsAre DEF TypesOK, BufferCount, TotalUnits, UnitsBefore, Buffer, Threads
  <1>p. PlacesOK' /\ (pc'["read"] = "source" => pc["read"] = "source" \/ (ReadLoop /\ readCount < BufferCount))
    BY PlacesStep DEF TypesOK
  <1> USE DEF TypesOK
  <1>1. CASE ReadLoop
    BY <1>0, <1>p, <1>1 DEF ReadLoop, Return, linkVars, flagVars, workVars
  <1>2. CASE ReadSource
    <2>1. readCount + 1 \in 1 .. BufferCount
      BY <1>0, <1>2 DEF ReadSource
    <2>2. hand' \in [Threads -> Buffer]
      BY <1>0, <1>2, <2>1 DEF ReadSource
    <2>3. pc'["read"] # "source"
      BY <1>2 DEF ReadSource, Goto, PlacesOK, Threads
    <2> QED BY <1>0, <1>p, <1>2, <2>1, <2>2, <2>3 DEF ReadSource, linkVars, flagVars
  <1>3. CASE \E t \in Threads, places \in SUBSET Working : FailsIn(t, places)
    BY <1>0, <1>p, <1>3 DEF FailsIn, Return, ReadLoop, linkVars, flagVars, workVars
  <1>4. CASE DecompressLoop
    BY <1>0, <1>p, <1>4 DEF DecompressLoop, ReadLoop, linkVars, flagVars, workVars
  <1>5. CASE TakeBuffer
    <2>1. hand["decompress"] \in Seq(Nat) /\ Len(hand["decompress"]) \in Nat
      BY <1>0 DEF Buffer
    <2>2. /\ hand' \in [Threads -> Buffer] /\ unread' \in Buffer /\ inflated' \in Nat
          /\ resume' \in {"loop", "work", "flush"} /\ writeSize' \in {TotalUnits, file.size}
      <3>1. UNCHANGED hand \/ hand' = [hand EXCEPT !["decompress"] = <<>>]
        BY <1>5 DEF TakeBuffer
      <3>2. unread' = unread \/ unread' = hand["decompress"]
        BY <1>5 DEF TakeBuffer
      <3>3. inflated' = inflated \/ inflated' = inflated + Len(hand["decompress"])
        BY <1>5 DEF TakeBuffer
      <3>4. resume' = resume \/ resume' = "loop"
        BY <1>5 DEF TakeBuffer
      <3>5. writeSize' = writeSize \/ writeSize' = file.size
        BY <1>5 DEF TakeBuffer
      <3>6. hand' \in [Threads -> Buffer]
        BY <1>0, <3>1
      <3>7. unread' \in Buffer
        BY <2>1, <3>2 DEF Buffer
      <3>8. inflated' \in Nat
        BY <2>1, <3>3
      <3> QED BY <3>4, <3>5, <3>6, <3>7, <3>8
    <2> QED BY <1>0, <1>p, <1>5, <2>2 DEF TakeBuffer, ReadLoop, linkVars, flagVars
  <1>6. CASE Inflate
    <2>1. /\ Tail(unread) \in Buffer /\ Append(inflateBuf, unread[1]) \in Buffer
          /\ inflated + 1 \in Nat
      <3>1. unread \in Seq(Nat) /\ unread # <<>> /\ inflateBuf \in Seq(Nat)
        BY <1>6 DEF Inflate, Buffer
      <3> QED BY <3>1 DEF Buffer
    <2>2. /\ hand' \in [Threads -> Buffer] /\ unread' \in Buffer /\ inflateBuf' \in Buffer
          /\ inflated' \in Nat /\ resume' \in {"loop", "work", "flush"}
      BY <1>0, <1>6, <2>1 DEF Inflate
    <2> QED BY <1>0, <1>p, <1>6, <2>2 DEF Inflate, ReadLoop, linkVars, flagVars
  <1>7. CASE InflateEnds
    BY <1>0, <1>p, <1>7 DEF InflateEnds, ReadLoop, Return, linkVars, flagVars, workVars
  <1>8. CASE FinalFlush
    BY <1>0, <1>p, <1>8 DEF FinalFlush, ReadLoop, Return, linkVars, flagVars
  <1>9. CASE WriteLoop
    BY <1>0, <1>p, <1>9 DEF WriteLoop, ReadLoop, Return, linkVars, flagVars, workVars
  <1>10. CASE Store
    <2>1. written \o hand["write"] \in Buffer
      BY <1>0 DEF Buffer
    <2>2. written' \in Buffer /\ hand' \in [Threads -> Buffer]
      BY <1>0, <1>10, <2>1 DEF Store
    <2> QED BY <1>0, <1>p, <1>10, <2>2 DEF Store, ReadLoop, Return, linkVars, flagVars
  <1>11. CASE \E t \in Threads : ClearRunning(t) \/ SetResult(t)
    <2>1. /\ UNCHANGED <<file, ring, hand, ret, workVars>>
          /\ running' \in [Threads -> BOOLEAN] /\ result' \in [Threads -> {"ok", "fail"}]
      BY <1>11 DEF ClearRunning, SetResult, linkVars
    <2> QED BY <1>0, <1>p, <1>11, <2>1 DEF ClearRunning, SetResult, ReadLoop, workVars
  <1>12. CASE StartThread \/ WakeAll \/ StartFails \/ WatchDone \/ Poll \/ NoneRunning
              \/ TakeResults \/ Join \/ UNCHANGED vars
    <2>1. UNCHANGED <<file, ring, hand, flagVars, ret, workVars>>
      BY <1>12 DEF StartThread, WakeAll, StartFails, WatchDone, Poll, NoneRunning, TakeResults, Join,
                   vars, linkVars
    <2> QED BY <1>0, <1>p, <1>12, <2>1 DEF ReadLoop, flagVars, workVars
  <1>13. CASE \E l \in Links : \/ Put(l) \/ PutWoken(l) \/ PutSleep(l)
                               \/ Get(l) \/ GetWoken(l) \/ GetSleep(l)
    <2>1. /\ ring' \in [Links -> RingType(Buffer)] /\ hand' \in [Threads -> Buffer]
          /\ ret' \in [Threads -> {"ok", "fail"}]
          /\ UNCHANGED <<file, running, result, workVars>>
      BY <1>13, LinkTypes
    <2> QED BY <1>0, <1>p, <2>1 DEF ReadLoop, workVars
  <1> QED BY <1>1, <1>2, <1>3, <1>4, <1>5, <1>6, <1>7, <1>8, <1>9, <1>10, <1>11, <1>12, <1>13, Steps

\* What a step of a thread does to the places, short of its last two steps.
Moves ==
    /\ UNCHANGED <<running, result, doneEvent, mpc>>
    /\ \A t \in Threads :
         \/ pc'[t] = pc[t] /\ ret'[t] = ret[t]
         \/ /\ pc[t] \notin {"created", "end", "set", "done"}
            /\ pc'[t] \notin {"created", "set", "done"}
            /\ pc'[t] # "end" => ret'[t] = ret[t]

LEMMA ThreadsMove ==
    ASSUME TypesOK,
           \/ ReadLoop \/ ReadSource \/ DecompressLoop \/ TakeBuffer \/ Inflate \/ InflateEnds
           \/ FinalFlush \/ WriteLoop \/ Store
    PROVE  Moves
  <1>0. PlacesOK /\ ret = [t \in Threads |-> ret[t]] /\ Threads = {"read", "decompress", "write"}
    BY DEF TypesOK, Threads
  <1> USE DEF PlacesOK, Moves, Goto, Return, flagVars, coordVars
  <1>1. CASE ReadLoop \/ ReadSource
    BY <1>0, <1>1 DEF ReadLoop, ReadSource
  <1>2. CASE DecompressLoop \/ TakeBuffer
    BY <1>0, <1>2 DEF DecompressLoop, TakeBuffer
  <1>3. CASE Inflate \/ InflateEnds
    BY <1>0, <1>3 DEF Inflate, InflateEnds
  <1>4. CASE FinalFlush
    BY <1>0, <1>4 DEF FinalFlush
  <1>5. CASE WriteLoop \/ Store
    BY <1>0, <1>5 DEF WriteLoop, Store
  <1> QED BY <1>1, <1>2, <1>3, <1>4, <1>5

LEMMA LinksMove ==
    ASSUME TypesOK, NEW l \in Links,
           \/ Put(l) \/ PutWoken(l) \/ PutSleep(l)
           \/ Get(l) \/ GetWoken(l) \/ GetSleep(l)
    PROVE  Moves
  <1>0. PlacesOK /\ ret = [t \in Threads |-> ret[t]] /\ Threads = {"read", "decompress", "write"}
        /\ resume \in {"loop", "work", "flush"}
    BY DEF TypesOK, Threads
  <1> USE DEF PlacesOK, Moves, Goto, Return, flagVars, coordVars
  <1>1. CASE l = "in" /\ (Put(l) \/ PutWoken(l) \/ PutSleep(l))
    BY <1>0, <1>1, LinkEnds DEF Put, PutWoken, PutSleep, Deliver, FallAsleep, AfterPut
  <1>2. CASE l = "in" /\ (Get(l) \/ GetWoken(l) \/ GetSleep(l))
    BY <1>0, <1>2, LinkEnds DEF Get, GetWoken, GetSleep, Fetch, FallAsleep, AfterGet
  <1>3. CASE l = "out" /\ (Put(l) \/ PutWoken(l) \/ PutSleep(l))
    BY <1>0, <1>3, LinkEnds DEF Put, PutWoken, PutSleep, Deliver, FallAsleep, AfterPut
  <1>4. CASE l = "out" /\ (Get(l) \/ GetWoken(l) \/ GetSleep(l))
    BY <1>0, <1>4, LinkEnds DEF Get, GetWoken, GetSleep, Fetch, FallAsleep, AfterGet
  <1> QED BY <1>1, <1>2, <1>3, <1>4, LinkEnds

LEMMA ControlStep == TypesOK /\ Control /\ [Next]_vars => Control'
  <1> SUFFICES ASSUME TypesOK, Control, [Next]_vars PROVE Control'
    OBVIOUS
  <1>0. PlacesOK /\ Threads = {"read", "decompress", "write"}
        /\ ret \in [Threads -> {"ok", "fail"}] /\ result = [t \in Threads |-> result[t]]
        /\ running = [t \in Threads |-> running[t]]
    BY DEF TypesOK, Threads
  <1>1. CASE Moves
    BY <1>0, <1>1 DEF Moves, Control, Ended, GetResults
  <1>2. CASE \E t \in Threads, places \in SUBSET Working : FailsIn(t, places)
    <2>1. Moves
      BY <1>0, <1>2 DEF FailsIn, Moves, Working, Return, Goto, PlacesOK, flagVars, coordVars
    <2> QED BY <1>1, <2>1
  <1>3. CASE \E t \in Threads : ClearRunning(t)
    BY <1>0, <1>3 DEF ClearRunning, Goto, Control, PlacesOK, Ended, GetResults, coordVars
  <1>4. CASE \E t \in Threads : SetResult(t)
    <2>1. PICK t \in Threads : SetResult(t)
      BY <1>4
    <2>2. /\ pc[t] = "set" /\ pc' = [pc EXCEPT ![t] = "done"] /\ result[t] = "ok"
          /\ result' = [result EXCEPT ![t] = ret[t]]
          /\ doneEvent' = (doneEvent \/ ret[t] = "fail" \/ t = "write")
          /\ UNCHANGED <<running, ret, mpc>>
      BY <1>0, <2>1 DEF SetResult, Goto, Control
    <2>3. ASSUME NEW s \in Threads
          PROVE  /\ running'[s] <=> pc'[s] \notin {"set", "done"}
                 /\ pc'[s] \notin Ended => ret'[s] = "ok"
                 /\ result'[s] = IF pc'[s] = "done" THEN ret'[s] ELSE "ok"
      <3>1. CASE s = t
        BY <1>0, <2>2, <3>1 DEF Control, PlacesOK, Ended
      <3>2. CASE s # t
        BY <1>0, <2>2, <3>2 DEF Control, PlacesOK, Ended
      <3> QED BY <3>1, <3>2
    <2>4. doneEvent' => ~GetResults' \/ pc'["write"] = "done"
      <3>1. CASE doneEvent
        <4>1. ~GetResults \/ pc["write"] = "done"
          BY <3>1 DEF Control
        <4> QED BY <1>0, <2>2, <4>1 DEF GetResults, PlacesOK
      <3>2. CASE ret[t] = "fail"
        BY <1>0, <2>2, <3>2 DEF GetResults
      <3>3. CASE t = "write"
        BY <1>0, <2>2, <3>3 DEF PlacesOK
      <3> QED BY <2>2, <3>1, <3>2, <3>3
    <2>5. mpc' \in {"close", "poll"} => doneEvent'
      BY <2>2 DEF Control
    <2>6. mpc' = "start" => /\ pc'["write"] = "created"
                            /\ pc'["read"] = "created" => pc'["decompress"] = "created"
      BY <1>0, <2>2 DEF Control, PlacesOK
    <2> QED BY <2>3, <2>4, <2>5, <2>6 DEF Control
  <1>5. CASE StartThread
    <2>1. /\ UNCHANGED <<flagVars, ret, doneEvent>> /\ mpc' \in {"start", "watch"}
          /\ \A t \in Threads : \/ pc'[t] = pc[t]
                                \/ pc[t] = "created" /\ pc'[t] = "loop"
      <3>1. PICK t \in Threads : pc[t] = "created" /\ pc' = [pc EXCEPT ![t] = "loop"]
        BY <1>0, <1>5, StartsOne
      <3>2. ASSUME NEW s \in Threads
            PROVE  pc'[s] = pc[s] \/ (pc[s] = "created" /\ pc'[s] = "loop")
        BY <1>0, <3>1 DEF PlacesOK
      <3>3. UNCHANGED <<flagVars, ret, doneEvent>> /\ mpc' \in {"start", "watch"}
        BY <1>5, StartsOne DEF StartThread
      <3> QED BY <3>2, <3>3
    <2>2. mpc' = "start" => /\ pc'["write"] = "created"
                            /\ pc'["read"] = "created" => pc'["decompress"] = "created"
      BY <1>0, <1>5, StartsOne DEF PlacesOK
    <2>3. /\ \A t \in Threads :
               /\ running'[t] <=> pc'[t] \notin {"set", "done"}
               /\ pc'[t] \notin Ended => ret'[t] = "ok"
               /\ result'[t] = IF pc'[t] = "done" THEN ret'[t] ELSE "ok"
      BY <2>1 DEF Control, Ended, flagVars
    <2>4. doneEvent' => ~GetResults' \/ pc'["write"] = "done"
      BY <1>0, <2>1 DEF Control, GetResults, flagVars
    <2> QED BY <2>1, <2>2, <2>3, <2>4 DEF Control
  <1>6. CASE WakeAll
    <2>1. \A t \in Threads : pc'[t] = pc[t] \/ {pc[t], pc'[t]} \cap ({"created"} \cup Ended) = {}
      BY <1>6 DEF WakeAll, Ended
    <2> QED BY <1>0, <1>6, <2>1 DEF WakeAll, Control, Ended, GetResults, flagVars
  <1>7. CASE \/ StartFails \/ WatchDone \/ Poll \/ NoneRunning \/ TakeResults \/ Join
             \/ UNCHANGED vars
    BY <1>7 DEF StartFails, WatchDone, Poll, NoneRunning, TakeResults, Join, vars, flagVars,
                coordVars, Control, GetResults
  <1>8. CASE \/ ReadLoop \/ ReadSource \/ DecompressLoop \/ TakeBuffer \/ Inflate \/ InflateEnds
             \/ FinalFlush \/ WriteLoop \/ Store
    BY <1>1, <1>8, ThreadsMove
  <1>9. CASE \E l \in Links : \/ Put(l) \/ PutWoken(l) \/ PutSleep(l)
                              \/ Get(l) \/ GetWoken(l) \/ GetSleep(l)
    BY <1>1, <1>9, LinksMove
  <1> QED BY <1>2, <1>3, <1>4, <1>5, <1>6, <1>7, <1>8, <1>9, Steps

-----------------------------------------------------------------------------
(* The flow of the units *)

Calm == GetResults /\ running["write"]

\* Once a result is bad, or the write thread is at its end, that stays so.
LEMMA CalmStays ==
    ASSUME TypesOK, Control, [Next]_vars, Calm'
    PROVE  Calm
  <1>0. /\ Threads = {"read", "decompress", "write"} /\ result = [t \in Threads |-> result[t]]
        /\ running = [t \in Threads |-> running[t]]
        /\ \A t \in Threads : pc[t] # "done" => result[t] = "ok"
    BY DEF TypesOK, Threads, Control
  <1>1. CASE UNCHANGED flagVars
    BY <1>1 DEF Calm, GetResults, flagVars
  <1>2. CASE \E t \in Threads : ClearRunning(t)
    BY <1>0, <1>2 DEF ClearRunning, Calm, GetResults
  <1>3. CASE \E t \in Threads : SetResult(t)
    BY <1>0, <1>3 DEF SetResult, Calm, GetResults
  <1>4. CASE \/ ReadLoop \/ ReadSource \/ DecompressLoop \/ TakeBuffer \/ Inflate \/ InflateEnds
             \/ FinalFlush \/ WriteLoop \/ Store
             \/ \E t \in Threads, places \in SUBSET Working : FailsIn(t, places)
             \/ StartThread \/ WakeAll
             \/ \/ StartFails \/ WatchDone \/ Poll \/ NoneRunning \/ TakeResults \/ Join
                \/ UNCHANGED vars
    BY <1>1, <1>4 DEF ReadLoop, ReadSource, DecompressLoop, TakeBuffer, Inflate, InflateEnds,
        FinalFlush, WriteLoop, Store, FailsIn, StartThread, WakeAll, StartFails, WatchDone, Poll,
        NoneRunning, TakeResults, Join, vars
  <1>5. CASE \E l \in Links : \/ Put(l) \/ PutWoken(l) \/ PutSleep(l)
                              \/ Get(l) \/ GetWoken(l) \/ GetSleep(l)
    BY <1>1, <1>5, LinkTypes DEF flagVars
  <1> QED BY <1>2, <1>3, <1>4, <1>5, Steps

\* The counts of the chain are numbers, in this order.
LEMMA ChainCounts ==
    ASSUME TypesOK, Chain
    PROVE  /\ Len(written) \in Nat /\ Len(hand["write"]) \in Nat /\ GotByWrite \in Nat
           /\ OutRing \in Seq(Buffer) /\ Len(OutRing) = RingSize(ring["out"])
           /\ SentToWrite \in Nat /\ GotByWrite <= SentToWrite
           /\ ReadSoFar \in Nat
           /\ ret["decompress"] = "ok" =>
                /\ GotByDecompress \in Nat
                /\ InRing \in Seq(Buffer) /\ Len(InRing) = RingSize(ring["in"])
                /\ SentByRead \in Nat /\ GotByDecompress <= SentByRead
  <1>1. /\ Len(written) \in Nat /\ Len(hand["write"]) \in Nat /\ Len(unread) \in Nat
        /\ Len(hand["decompress"]) \in Nat /\ inflated \in Nat
        /\ ring["in"] \in RingType(Buffer) /\ ring["out"] \in RingType(Buffer)
    BY LinkEnds DEF TypesOK, Buffer
  <1>2. GotByWrite \in Nat /\ GotByDecompress \in Nat
    <2>1. JustGot \in Nat
      BY <1>1 DEF JustGot
    <2> QED BY <1>1, <2>1 DEF GotByWrite, GotByDecompress
  <1>3. OutRing \in Seq(Buffer) /\ Len(OutRing) = RingSize(ring["out"])
    BY <1>1, ContentsAre DEF Chain, OutRing
  <1>4. SentToWrite \in Nat /\ GotByWrite <= SentToWrite
    <2>1. EndOf(OutRing, GotByWrite) \in Nat /\ EndOf(OutRing, GotByWrite) >= GotByWrite + Len(OutRing)
      BY <1>2, <1>3, RowOrder DEF Chain
    <2>2. Len(OutRing) \in Nat
      BY <1>3
    <2> QED BY <1>2, <2>1, <2>2 DEF SentToWrite
  <1>5. ASSUME ret["decompress"] = "ok"
        PROVE  /\ InRing \in Seq(Buffer) /\ Len(InRing) = RingSize(ring["in"])
               /\ SentByRead \in Nat /\ GotByDecompress <= SentByRead
    <2>1. InRing \in Seq(Buffer) /\ Len(InRing) = RingSize(ring["in"])
      BY <1>1, <1>5, ContentsAre DEF Chain, InRing
    <2>2. EndOf(InRing, GotByDecompress) \in Nat
          /\ EndOf(InRing, GotByDecompress) >= GotByDecompress + Len(InRing)
      BY <1>2, <1>5, <2>1, RowOrder DEF Chain
    <2>3. Len(InRing) \in Nat
      BY <2>1
    <2> QED BY <1>2, <2>1, <2>2, <2>3 DEF SentByRead
  <1>6. ReadSoFar \in Nat
    BY UnitsAre DEF TypesOK, ReadSoFar
  <1> QED BY <1>1, <1>2, <1>3, <1>4, <1>5, <1>6

\* A step that moves no data keeps the chain.
LEMMA ChainFrame ==
    ASSUME Chain, WokenRightly, UNCHANGED <<file, ring, hand, ret, workVars>>,
           pc'["write"] \in Getting \cup {"store"} => Len(written) < writeSize,
           pc'["write"] \notin {"store"} \cup Ended => hand["write"] = <<>>,
           Dec' \in Putting <=> Dec \in Putting,
           Dec' = "take" <=> Dec = "take",
           unread # <<>> => (Dec' = "work" <=> Dec = "work"),
           pc'["read"] \in Putting <=> pc["read"] \in Putting,
           \A t \in Threads : pc'[t] \in {"putWoken", "getWoken"} => pc'[t] = pc[t]
    PROVE  Chain' /\ WokenRightly'
  <1>1. /\ OutRing' = OutRing /\ InRing' = InRing /\ GotByWrite' = GotByWrite
        /\ SentToWrite' = SentToWrite /\ GotByDecompress' = GotByDecompress
        /\ SentByRead' = SentByRead /\ ReadSoFar' = ReadSoFar
    BY DEF OutRing, InRing, GotByWrite, SentToWrite, GotByDecompress, JustGot, SentByRead, ReadSoFar,
           workVars, UnitsBefore
  <1> HIDE DEF OutRing, InRing, GotByWrite, SentToWrite, GotByDecompress, SentByRead, ReadSoFar
  <1>2. ret["decompress"] = "ok" => DecompressHas'
    BY <1>1 DEF Chain, DecompressHas, workVars, Dec
  <1>3. Chain'
    BY <1>1, <1>2 DEF Chain, workVars
  <1>4. WokenRightly'
    BY LinkEnds DEF WokenRightly, Dec
  <1> QED BY <1>3, <1>4

LEMMA ChainFails ==
    ASSUME TypesOK, Chain, WokenRightly, UNCHANGED <<file, ring, hand, workVars>>,
           NEW t \in Threads, Return(t, "fail")
    PROVE  Chain' /\ WokenRightly'
  <1>0. /\ Threads = {"read", "decompress", "write"} /\ PlacesOK
        /\ ret = [s \in Threads |-> ret[s]] /\ ret' = [ret EXCEPT ![t] = "fail"]
        /\ pc' = [pc EXCEPT ![t] = "end"]
    BY DEF TypesOK, Threads, Return, Goto
  <1>1. \A s \in Threads \ {t} : pc'[s] = pc[s] /\ ret'[s] = ret[s]
    BY <1>0 DEF PlacesOK
  <1>2. pc'[t] = "end" /\ ret'[t] = "fail"
    BY <1>0 DEF PlacesOK
  <1>3. /\ OutRing' = OutRing /\ InRing' = InRing /\ GotByWrite' = GotByWrite
        /\ SentToWrite' = SentToWrite /\ ReadSoFar' = ReadSoFar
        /\ t # "decompress" => GotByDecompress' = GotByDecompress /\ SentByRead' = SentByRead
    BY <1>0, <1>1 DEF OutRing, InRing, GotByWrite, SentToWrite, GotByDecompress, JustGot, SentByRead, Dec,
           ReadSoFar, workVars, UnitsBefore
  <1> HIDE DEF OutRing, InRing, GotByWrite, SentToWrite, GotByDecompress, SentByRead, ReadSoFar
  <1>4. ret'["decompress"] = "ok" => ret["decompress"] = "ok" /\ DecompressHas'
    <2>1. CASE t = "decompress"
      BY <1>2, <2>1
    <2>2. CASE t # "decompress"
      BY <1>0, <1>1, <1>3, <2>2 DEF Chain, DecompressHas, workVars, Dec
    <2> QED BY <2>1, <2>2
  <1>5. Chain'
    BY <1>0, <1>1, <1>2, <1>3, <1>4 DEF Chain, workVars, Getting, Ended
  <1>6. WokenRightly'
    BY <1>0, <1>1, <1>2 DEF WokenRightly, Dec
  <1> QED BY <1>5, <1>6

\* The read thread has the next buffer.
LEMMA ChainReadSource ==
    ASSUME TypesOK, Control, Chain, WokenRightly, ReadSource
    PROVE  Chain' /\ WokenRightly'
  <1>0. /\ Threads = {"read", "decompress", "write"} /\ PlacesOK
        /\ hand \in [Threads -> Buffer] /\ pc["read"] = "source"
        /\ pc' = [pc EXCEPT !["read"] = "put"]
        /\ hand' = [hand EXCEPT !["read"] = ReadBuffer(readCount + 1)]
        /\ readCount' = readCount + 1 /\ readCount + 1 \in 1 .. BufferCount
        /\ UNCHANGED <<file, ring, ret, unread, inflateBuf, inflated, resume, writeSize, written>>
    <2>1. readCount \in 0 .. BufferCount /\ readCount < BufferCount /\ BufferCount \in Nat
      BY UnitsAre DEF TypesOK, ReadSource
    <2> QED BY <2>1 DEF TypesOK, Threads, ReadSource, Goto, linkVars
  <1>1. /\ \A s \in {"decompress", "write"} : pc'[s] = pc[s] /\ hand'[s] = hand[s]
        /\ pc'["read"] = "put" /\ hand'["read"] = ReadBuffer(readCount + 1)
    BY <1>0 DEF PlacesOK
  <1>2. /\ OutRing' = OutRing /\ InRing' = InRing /\ GotByWrite' = GotByWrite
        /\ SentToWrite' = SentToWrite
        /\ GotByDecompress' = GotByDecompress /\ SentByRead' = SentByRead
    BY <1>0, <1>1 DEF OutRing, InRing, GotByWrite, SentToWrite, GotByDecompress, JustGot, SentByRead,
                      Dec
  <1>3. /\ ReadSoFar \in Nat /\ ReadSoFar' = UnitsBefore(readCount + 2) /\ ReadSoFar' \in Nat
        /\ ReadSoFar <= ReadSoFar'
        /\ hand'["read"] \in Buffer /\ IsRun(hand'["read"], ReadSoFar)
        /\ hand'["read"] # <<>>
        /\ ReadSoFar + Len(hand'["read"]) = ReadSoFar'
    <2> DEFINE i == readCount + 1
    <2>1. /\ UnitsBefore(i) \in Nat /\ UnitsBefore(i) < UnitsBefore(i + 1)
          /\ ReadBuffer(i) \in Buffer /\ IsRun(ReadBuffer(i), UnitsBefore(i))
          /\ UnitsBefore(i) + Len(ReadBuffer(i)) = UnitsBefore(i + 1)
          /\ ReadBuffer(i) # <<>>
      <3>1. i \in 1 .. BufferCount
        BY <1>0
      <3> HIDE DEF i
      <3> QED BY <3>1, UnitsAre DEF TypesOK
    <2>2. i \in 1 .. BufferCount /\ readCount \in Nat
      BY <1>0, UnitsAre DEF TypesOK
    <2>3. ReadSoFar' = UnitsBefore(i + 1) /\ i + 1 = readCount + 2
      BY <1>0, <2>2 DEF ReadSoFar, UnitsBefore
    <2>4. UnitsBefore(i + 1) \in Nat
      BY <2>2, UnitsAre DEF TypesOK
    <2> QED BY <1>1, <2>1, <2>3, <2>4 DEF ReadSoFar
  <1>4. ret["decompress"] = "ok" =>
           SentByRead \in Nat /\ SentByRead <= ReadSoFar
    BY ChainCounts DEF Chain
  <1>5. ret["read"] = "ok"
    BY <1>0 DEF Control, Ended
  <1>6. ret["decompress"] = "ok" => SentByRead = ReadSoFar
    <2>1. hand["read"] = <<>>
         \/ ret["decompress"] # "ok"
      BY <1>0, <1>5 DEF Chain, Putting
    <2>2. Len(<<>>) = 0
      OBVIOUS
    <2>3. ret["decompress"] = "ok" => SentByRead + Len(hand["read"]) = ReadSoFar
      BY <1>5 DEF Chain
    <2> QED BY <1>4, <2>1, <2>2, <2>3
  <1> HIDE DEF OutRing, InRing, GotByWrite, SentToWrite, GotByDecompress, SentByRead, ReadSoFar
  <1>7. ret["decompress"] = "ok" => DecompressHas'
    BY <1>0, <1>1, <1>2 DEF Chain, DecompressHas, Dec
  <1>8. Chain'
    <2>1. /\ IsRun(hand["write"], Len(written))'
          /\ (pc["write"] \notin {"store"} \cup Ended => hand["write"] = <<>>)'
          /\ IsRow(OutRing, GotByWrite)' /\ (RingSize(ring["out"]) <= Capacity)'
          /\ (pc["write"] \in Getting \cup {"store"} => Len(written) < writeSize)'
      BY <1>0, <1>1, <1>2 DEF Chain
    <2>2. ret["decompress"] = "ok" =>
            /\ IsRow(InRing, GotByDecompress)' /\ (RingSize(ring["in"]) <= Capacity)'
            /\ (SentByRead <= ReadSoFar)'
      BY <1>0, <1>2, <1>3, <1>4 DEF Chain
    <2>3. ret["decompress"] = "ok" =>
            /\ IsRun(hand["read"], SentByRead)'
            /\ (SentByRead + Len(hand["read"]) = ReadSoFar)'
            /\ (hand["read"] # <<>> <=> pc["read"] \in Putting)'
      BY <1>1, <1>2, <1>3, <1>6 DEF Putting
    <2> QED BY <1>0, <1>7, <2>1, <2>2, <2>3 DEF Chain
  <1>9. WokenRightly'
    BY <1>0, <1>1 DEF WokenRightly, Dec
  <1> QED BY <1>8, <1>9

\* The read thread sends its buffer.
LEMMA ChainDeliverIn ==
    ASSUME TypesOK, Control, Calm, Chain, WokenRightly, Deliver("in"), UNCHANGED <<file, workVars>>,
           pc["read"] \in {"put", "putWoken"}, RingSize(ring["in"]) < Capacity
    PROVE  Chain' /\ WokenRightly'
  <1> DEFINE x == hand["read"]
  <1>0. /\ Threads = {"read", "decompress", "write"} /\ PlacesOK
        /\ hand = [t \in Threads |-> hand[t]] /\ x \in Buffer
        /\ ring \in [{"in", "out"} -> RingType(Buffer)] /\ ring["in"] \in RingType(Buffer)
        /\ pc' = [pc EXCEPT !["read"] = "loop",
                            !["decompress"] = IF pc["decompress"] = "getWait" THEN "getWoken"
                                                                              ELSE pc["decompress"]]
        /\ hand' = [hand EXCEPT !["read"] = <<>>]
        /\ ring' = [ring EXCEPT !["in"] = RingPush(ring["in"], x)]
        /\ UNCHANGED ret
    BY LinkEnds DEF TypesOK, Deliver, Calm, AfterPut, Dec
  <1>1. /\ pc'["write"] = pc["write"] /\ pc'["read"] = "loop"
        /\ hand'["read"] = <<>> /\ hand'["write"] = hand["write"]
        /\ hand'["decompress"] = hand["decompress"]
        /\ Dec' = Dec \/ (Dec = "getWait" /\ Dec' = "getWoken")
        /\ ring'["out"] = ring["out"] /\ ring'["in"] = RingPush(ring["in"], x)
    <2>1. /\ pc'["write"] = pc["write"] /\ pc'["read"] = "loop"
          /\ Dec' = Dec \/ (Dec = "getWait" /\ Dec' = "getWoken")
      BY <1>0 DEF PlacesOK, Dec
    <2>2. /\ hand'["read"] = <<>> /\ hand'["write"] = hand["write"]
          /\ hand'["decompress"] = hand["decompress"]
      BY <1>0
    <2>3. ring'["out"] = ring["out"] /\ ring'["in"] = RingPush(ring["in"], x)
      BY <1>0
    <2> QED BY <2>1, <2>2, <2>3
  <1>2. /\ RingSize(ring'["in"]) = RingSize(ring["in"]) + 1 /\ InRing' = Append(InRing, x)
        /\ RingSize(ring["in"]) \in Nat /\ Capacity \in Nat
    <2>1. /\ RingSize(RingPush(ring["in"], x)) = RingSize(ring["in"]) + 1
          /\ RingContents(RingPush(ring["in"], x)) = Append(RingContents(ring["in"]), x)
      BY <1>0, RingPushAppends
    <2>2. RingSize(ring["in"]) \in 0 .. RingSpan - 1 /\ RingSpan \in Nat
      BY <1>0, RingSizeIs, RingFacts
    <2> QED BY <1>1, <2>1, <2>2, CapacityAssumption DEF InRing
  <1>3. /\ OutRing' = OutRing /\ GotByWrite' = GotByWrite /\ SentToWrite' = SentToWrite
        /\ GotByDecompress' = GotByDecompress /\ ReadSoFar' = ReadSoFar
    BY <1>1 DEF OutRing, GotByWrite, SentToWrite, GotByDecompress, JustGot, ReadSoFar, workVars,
                UnitsBefore
  <1>4. ret["decompress"] = "ok" =>
          /\ IsRow(InRing', GotByDecompress) /\ SentByRead' = ReadSoFar /\ ReadSoFar \in Nat
    <2> SUFFICES ASSUME ret["decompress"] = "ok"
                 PROVE  IsRow(InRing', GotByDecompress) /\ SentByRead' = ReadSoFar /\ ReadSoFar \in Nat
      OBVIOUS
    <2>1. ret["read"] = "ok"
      BY LinkEnds DEF Control, Ended
    <2>2. /\ IsRow(InRing, GotByDecompress) /\ IsRun(x, SentByRead) /\ x # <<>>
          /\ SentByRead + Len(x) = ReadSoFar
      BY <2>1 DEF Chain, Putting
    <2>3. /\ GotByDecompress \in Nat /\ InRing \in Seq(Buffer) /\ SentByRead \in Nat
          /\ ReadSoFar \in Nat
      BY ChainCounts
    <2> HIDE DEF InRing, GotByDecompress, x, ReadSoFar
    <2>4. /\ IsRow(Append(InRing, x), GotByDecompress)
          /\ EndOf(Append(InRing, x), GotByDecompress) = SentByRead + Len(x)
      BY <1>0, <2>2, <2>3, RowAppend DEF SentByRead
    <2> QED BY <1>2, <1>3, <2>2, <2>3, <2>4 DEF SentByRead
  <1> HIDE DEF OutRing, InRing, GotByWrite, SentToWrite, GotByDecompress, SentByRead, ReadSoFar, x
  <1>5. ret["decompress"] = "ok" => DecompressHas'
    BY <1>0, <1>1, <1>3 DEF Chain, DecompressHas, workVars, Putting
  <1>6. Chain'
    <2>1. /\ IsRun(hand["write"], Len(written))'
          /\ (pc["write"] \notin {"store"} \cup Ended => hand["write"] = <<>>)'
          /\ IsRow(OutRing, GotByWrite)' /\ (RingSize(ring["out"]) <= Capacity)'
          /\ (pc["write"] \in Getting \cup {"store"} => Len(written) < writeSize)'
      BY <1>0, <1>1, <1>3 DEF Chain, workVars
    <2>2. ret["decompress"] = "ok" =>
            /\ IsRow(InRing, GotByDecompress)' /\ (RingSize(ring["in"]) <= Capacity)'
            /\ (SentByRead <= ReadSoFar)'
      BY <1>1, <1>2, <1>3, <1>4
    <2>3. ret["decompress"] = "ok" =>
            /\ IsRun(hand["read"], SentByRead)'
            /\ (SentByRead + Len(hand["read"]) = ReadSoFar)'
            /\ (hand["read"] # <<>> <=> pc["read"] \in Putting)'
      BY <1>1, <1>3, <1>4 DEF Putting, IsRun
    <2> QED BY <1>0, <1>5, <2>1, <2>2, <2>3 DEF Chain
  <1>7. WokenRightly'
    BY <1>1, <1>2 DEF WokenRightly
  <1> QED BY <1>6, <1>7

\* The decompress thread gets a buffer.
LEMMA ChainFetchIn ==
    ASSUME TypesOK, Control, Calm, Chain, WokenRightly, Fetch("in"), UNCHANGED <<file, workVars>>,
           Dec \in {"get", "getWoken"}, RingSize(ring["in"]) > 0
    PROVE  Chain' /\ WokenRightly' /\ hand'["decompress"] # <<>>
  <1> DEFINE x == RingFront(ring["in"])
  <1>0. /\ Threads = {"read", "decompress", "write"} /\ PlacesOK
        /\ hand = [t \in Threads |-> hand[t]] /\ x \in Buffer
        /\ ring \in [{"in", "out"} -> RingType(Buffer)] /\ ring["in"] \in RingType(Buffer)
        /\ pc' = [pc EXCEPT !["decompress"] = "take",
                            !["read"] = IF pc["read"] = "putWait" THEN "putWoken" ELSE pc["read"]]
        /\ hand' = [hand EXCEPT !["decompress"] = x]
        /\ ring' = [ring EXCEPT !["in"] = RingPop(ring["in"])]
        /\ UNCHANGED ret
    BY LinkEnds, FrontIs DEF TypesOK, Fetch, Calm, AfterGet, Dec
  <1>1. /\ pc'["write"] = pc["write"] /\ Dec' = "take"
        /\ hand'["read"] = hand["read"] /\ hand'["write"] = hand["write"]
        /\ hand'["decompress"] = x
        /\ \/ pc'["read"] = pc["read"]
           \/ pc["read"] = "putWait" /\ pc'["read"] = "putWoken"
        /\ ring'["out"] = ring["out"] /\ ring'["in"] = RingPop(ring["in"])
    BY <1>0 DEF PlacesOK, Dec
  <1>2. /\ RingSize(ring'["in"]) = RingSize(ring["in"]) - 1
        /\ InRing # <<>> /\ x = Head(InRing) /\ InRing' = Tail(InRing)
        /\ RingSize(ring["in"]) \in Nat /\ RingSize(ring["in"]) <= Capacity /\ Capacity \in Nat
    <2>1. RingSize(ring["in"]) <= Capacity
      BY DEF WokenRightly
    <2>2. RingSize(ring["in"]) \in 0 .. RingSpan - 1 /\ RingSpan \in Nat
      BY <1>0, RingSizeIs, RingFacts
    <2>3. 0 < RingSize(ring["in"])
      BY <2>2
    <2>4. /\ RingSize(RingPop(ring["in"])) = RingSize(ring["in"]) - 1
          /\ RingContents(ring["in"]) # <<>>
          /\ RingFront(ring["in"]) = Head(RingContents(ring["in"]))
          /\ RingContents(RingPop(ring["in"])) = Tail(RingContents(ring["in"]))
      BY <1>0, <2>1, <2>3, RingPopTakesFront
    <2> QED BY <1>1, <2>1, <2>2, <2>4, CapacityAssumption DEF InRing
  <1>3. /\ OutRing' = OutRing /\ GotByWrite' = GotByWrite /\ SentToWrite' = SentToWrite
        /\ ReadSoFar' = ReadSoFar
    BY <1>1 DEF OutRing, GotByWrite, SentToWrite, ReadSoFar, workVars, UnitsBefore
  <1>4. ret["decompress"] = "ok"
    BY LinkEnds DEF Control, Ended, Dec
  <1>5. unread = <<>> /\ DecompressHas
    BY <1>4 DEF Chain, DecompressHas, Putting
  <1>6. /\ GotByDecompress = inflated /\ GotByDecompress' = inflated + Len(x)
        /\ inflated \in Nat /\ Len(x) \in Nat
    <2>1. Len(unread) = 0 /\ JustGot = 0 /\ JustGot' = Len(x) /\ inflated \in Nat /\ Len(x) \in Nat
      BY <1>0, <1>1, <1>5 DEF JustGot, TypesOK, Buffer
    <2> QED BY <2>1 DEF GotByDecompress, workVars
  <1>7. /\ x # <<>> /\ IsRun(x, inflated) /\ IsRow(InRing', GotByDecompress') /\ SentByRead' = SentByRead
    <2>1. InRing \in Seq(Buffer) /\ IsRow(InRing, inflated)
      BY <1>4, <1>6, ChainCounts DEF Chain
    <2> HIDE DEF InRing, GotByDecompress, x
    <2>2. /\ x # <<>> /\ IsRun(x, inflated) /\ IsRow(Tail(InRing), inflated + Len(x))
          /\ EndOf(Tail(InRing), inflated + Len(x)) = EndOf(InRing, inflated)
      BY <1>2, <1>6, <2>1, RowTail
    <2> QED BY <1>2, <1>6, <2>2 DEF SentByRead
  <1> HIDE DEF OutRing, InRing, GotByWrite, SentToWrite, GotByDecompress, SentByRead, ReadSoFar, x
  <1>8. DecompressHas'
    BY <1>1, <1>3, <1>5, <1>7 DEF DecompressHas, workVars, Putting
  <1>9. Chain'
    <2>1. /\ IsRun(hand["write"], Len(written))'
          /\ (pc["write"] \notin {"store"} \cup Ended => hand["write"] = <<>>)'
          /\ IsRow(OutRing, GotByWrite)' /\ (RingSize(ring["out"]) <= Capacity)'
          /\ (pc["write"] \in Getting \cup {"store"} => Len(written) < writeSize)'
      BY <1>0, <1>1, <1>3 DEF Chain, workVars
    <2>2. /\ IsRow(InRing, GotByDecompress)' /\ (RingSize(ring["in"]) <= Capacity)'
          /\ (SentByRead <= ReadSoFar)'
      BY <1>1, <1>2, <1>3, <1>4, <1>7 DEF Chain
    <2>3. ret["read"] = "ok" =>
            /\ IsRun(hand["read"], SentByRead)'
            /\ (SentByRead + Len(hand["read"]) = ReadSoFar)'
            /\ (hand["read"] # <<>> <=> pc["read"] \in Putting)'
      BY <1>1, <1>3, <1>4, <1>7 DEF Chain, Putting
    <2> QED BY <1>0, <1>8, <2>1, <2>2, <2>3 DEF Chain
  <1>10. WokenRightly'
    BY <1>1, <1>2 DEF WokenRightly
  <1> QED BY <1>1, <1>7, <1>9, <1>10

\* What the decompress thread does by itself leaves the rest of the chain.
LEMMA ChainOfDecompress ==
    ASSUME TypesOK, Chain, WokenRightly,
           UNCHANGED <<file, ring, ret, readCount, written>>,
           \A t \in {"read", "write"} : pc'[t] = pc[t] /\ hand'[t] = hand[t],
           Dec' \notin {"putWoken", "getWoken"},
           Len(written) < writeSize => Len(written) < writeSize',
           ret["decompress"] = "ok" => DecompressHas' /\ GotByDecompress' = GotByDecompress
    PROVE  Chain' /\ WokenRightly'
  <1>1. /\ OutRing' = OutRing /\ InRing' = InRing /\ GotByWrite' = GotByWrite
        /\ SentToWrite' = SentToWrite /\ ReadSoFar' = ReadSoFar
    BY DEF OutRing, InRing, GotByWrite, SentToWrite, ReadSoFar, UnitsBefore
  <1>2. ret["decompress"] = "ok" => SentByRead' = SentByRead
    BY <1>1 DEF SentByRead
  <1> HIDE DEF OutRing, InRing, GotByWrite, SentToWrite, GotByDecompress, SentByRead, ReadSoFar
  <1>3. Chain'
    BY <1>1, <1>2 DEF Chain
  <1>4. WokenRightly'
    BY DEF WokenRightly
  <1> QED BY <1>3, <1>4

\* A buffer is passed on, or its units are to be inflated.
LEMMA ChainTakeBuffer ==
    ASSUME TypesOK, Control, Chain, WokenRightly, TakeBuffer
    PROVE  Chain' /\ WokenRightly'
  <1> DEFINE x == hand["decompress"]
  <1>0. /\ Threads = {"read", "decompress", "write"} /\ PlacesOK
        /\ hand = [t \in Threads |-> hand[t]] /\ x \in Buffer /\ Dec = "take"
        /\ UNCHANGED <<file, ring, ret, readCount, written, inflateBuf>>
    BY DEF TypesOK, Threads, TakeBuffer, linkVars, Dec
  <1>1. ret["decompress"] = "ok"
    BY <1>0 DEF Control, Ended, Dec
  <1>2. /\ unread = <<>> /\ IsRun(inflateBuf, SentToWrite) /\ IsRun(x, inflated)
        /\ IsRun(unread, inflated)
        /\ SentToWrite + Len(inflateBuf) = inflated
        /\ ~file.ncz => inflateBuf = <<>>
    BY <1>0, <1>1 DEF Chain, DecompressHas, Putting
  <1>3. /\ inflated \in Nat /\ Len(x) \in Nat /\ Len(inflateBuf) \in Nat /\ SentToWrite \in Nat
        /\ Len(unread) = 0 /\ inflateBuf \in Buffer
        /\ GotByDecompress = inflated + Len(x)
    <2>1. /\ inflated \in Nat /\ Len(x) \in Nat /\ Len(inflateBuf) \in Nat
          /\ Len(unread) = 0 /\ inflateBuf \in Buffer
      BY <1>0, <1>2 DEF TypesOK, Buffer
    <2>2. JustGot = Len(x)
      BY <1>0 DEF JustGot
    <2> HIDE DEF x
    <2> QED BY <2>1, <2>2, ChainCounts DEF GotByDecompress
  <1>4. x # <<>> /\ x[1] = 1 => inflated = 0 /\ SentToWrite = 0 /\ inflateBuf = <<>>
    <2> HIDE DEF x
    <2>1. x # <<>> => x[1] = inflated + 1
      BY <1>0, <1>2, <1>3, RunTail
    <2> QED BY <1>2, <1>3, <2>1 DEF Buffer
  <1>5. Len(written) < writeSize => Len(written) < writeSize'
    <2>1. CASE x # <<>> /\ x[1] = 1
      <3>1. Len(written) = 0
        <4>1. /\ Len(written) \in Nat /\ Len(hand["write"]) \in Nat
              /\ GotByWrite <= SentToWrite
          BY ChainCounts
        <4> QED BY <1>4, <2>1, <4>1 DEF GotByWrite
      <3>2. writeSize' = file.size /\ file.size \in Nat \ {0}
        BY <2>1, UnitsAre DEF TakeBuffer, TypesOK
      <3> QED BY <3>1, <3>2
    <2>2. CASE ~(x # <<>> /\ x[1] = 1)
      BY <2>2 DEF TakeBuffer
    <2> QED BY <2>1, <2>2
  <1>6. SentToWrite' = SentToWrite /\ \A t \in {"read", "write"} : pc'[t] = pc[t] /\ hand'[t] = hand[t]
    <2>1. \A t \in {"read", "write"} : pc'[t] = pc[t] /\ hand'[t] = hand[t]
      BY <1>0 DEF TakeBuffer, Goto, PlacesOK
    <2> QED BY <1>0, <2>1 DEF SentToWrite, OutRing, GotByWrite
  <1>7. CASE x = <<>>
    <2>1. /\ Dec' = "flush" /\ UNCHANGED <<unread, inflated, resume>>
          /\ hand'["decompress"] = <<>>
      BY <1>0, <1>7 DEF TakeBuffer, Goto, PlacesOK, Dec
    <2>2. DecompressHas'
      BY <1>0, <1>2, <1>6, <2>1 DEF DecompressHas, Putting
    <2>3. JustGot' = 0 /\ Len(x) = 0
      BY <1>7, <2>1 DEF JustGot
    <2>4. GotByDecompress' = GotByDecompress
      BY <1>3, <2>1, <2>3 DEF GotByDecompress
    <2> QED BY <1>0, <1>5, <1>6, <2>1, <2>2, <2>4, ChainOfDecompress
  <1>8. CASE x # <<>> /\ file.ncz /\ x[1] # 1
    <2>1. /\ Dec' = "work" /\ unread' = x /\ UNCHANGED <<inflated, resume>>
          /\ hand'["decompress"] = <<>>
      BY <1>0, <1>8 DEF TakeBuffer, Goto, PlacesOK, Dec
    <2>2. DecompressHas'
      <3> HIDE DEF x
      <3> QED BY <1>0, <1>2, <1>6, <1>8, <2>1 DEF DecompressHas, Putting
    <2>3. JustGot' = 0 /\ Len(unread') = Len(x)
      BY <2>1 DEF JustGot
    <2>4. GotByDecompress' = GotByDecompress
      BY <1>3, <2>1, <2>3 DEF GotByDecompress
    <2> QED BY <1>0, <1>5, <1>6, <2>1, <2>2, <2>4, ChainOfDecompress
  <1>9. CASE x # <<>> /\ ~(file.ncz /\ x[1] # 1)
    <2>1. /\ Dec' = "put" /\ UNCHANGED unread /\ inflated' = inflated + Len(x) /\ resume' = "loop"
          /\ hand'["decompress"] = x
      BY <1>0, <1>9 DEF TakeBuffer, Goto, PlacesOK, Dec
    <2>2. inflateBuf = <<>> /\ SentToWrite = inflated
      BY <1>2, <1>3, <1>4, <1>9
    <2>3. DecompressHas'
      <3> HIDE DEF x
      <3>1. IsRun(unread', inflated')
        BY <1>2, <2>1 DEF IsRun
      <3> QED BY <1>0, <1>2, <1>3, <1>6, <1>9, <2>1, <2>2, <3>1 DEF DecompressHas, Putting
    <2>4. JustGot' = 0 /\ Len(unread') = 0
      BY <1>3, <2>1 DEF JustGot
    <2>5. GotByDecompress' = GotByDecompress
      <3> HIDE DEF x
      <3> QED BY <1>3, <2>1, <2>4 DEF GotByDecompress
    <2> QED BY <1>0, <1>5, <1>6, <2>1, <2>3, <2>5, ChainOfDecompress
  <1> QED BY <1>7, <1>8, <1>9

\* A unit is inflated; a full inflate buffer is to be sent.
LEMMA ChainInflate ==
    ASSUME TypesOK, Control, Chain, WokenRightly, Inflate
    PROVE  Chain' /\ WokenRightly'
  <1> DEFINE more == Append(inflateBuf, unread[1])
  <1>0. /\ Threads = {"read", "decompress", "write"} /\ PlacesOK
        /\ hand = [t \in Threads |-> hand[t]] /\ Dec = "work" /\ unread # <<>>
        /\ UNCHANGED <<file, ring, ret, readCount, written, writeSize>>
        /\ unread' = Tail(unread) /\ inflated' = inflated + 1
        /\ inflated \in Nat /\ inflateBuf \in Buffer /\ unread \in Buffer
    BY DEF TypesOK, Threads, Inflate, linkVars, Dec
  <1>1. ret["decompress"] = "ok"
    BY <1>0 DEF Control, Ended, Dec
  <1>2. /\ IsRun(inflateBuf, SentToWrite) /\ IsRun(unread, inflated)
        /\ SentToWrite + Len(inflateBuf) = inflated /\ hand["decompress"] = <<>>
        /\ file.ncz
    BY <1>0, <1>1 DEF Chain, DecompressHas, Putting
  <1>3. SentToWrite \in Nat
    BY ChainCounts
  <1>4. /\ Len(Tail(unread)) = Len(unread) - 1 /\ unread[1] = inflated + 1
        /\ IsRun(Tail(unread), inflated + 1)
    BY <1>0, <1>2, RunTail
  <1>5. /\ Len(more) = Len(inflateBuf) + 1 /\ more # <<>> /\ IsRun(more, SentToWrite)
        /\ Len(inflateBuf) \in Nat /\ Len(unread) \in Nat
    <2>1. Len(inflateBuf) \in Nat /\ Len(unread) \in Nat
      BY <1>0 DEF Buffer
    <2>2. unread[1] = SentToWrite + Len(inflateBuf) + 1
      BY <1>2, <1>4
    <2> QED BY <1>0, <1>2, <1>3, <2>1, <2>2, RunAppend
  <1>6. SentToWrite' = SentToWrite /\ \A t \in {"read", "write"} : pc'[t] = pc[t] /\ hand'[t] = hand[t]
    <2>1. \A t \in {"read", "write"} : pc'[t] = pc[t] /\ hand'[t] = hand[t]
      BY <1>0 DEF Inflate, Goto, PlacesOK
    <2> QED BY <1>0, <2>1 DEF SentToWrite, OutRing, GotByWrite
  <1>7. GotByDecompress = inflated + Len(unread)
    <2>1. JustGot = 0
      BY <1>0 DEF JustGot
    <2> QED BY <1>0, <1>5, <2>1 DEF GotByDecompress
  <1>8. CASE Len(more) >= FlushSize
    <2>1. /\ Dec' = "put" /\ inflateBuf' = <<>> /\ resume' = "work"
          /\ hand'["decompress"] = more
      BY <1>0, <1>8 DEF Inflate, Goto, PlacesOK, Dec
    <2> HIDE DEF more
    <2>2. DecompressHas'
      BY <1>0, <1>2, <1>3, <1>4, <1>5, <1>6, <2>1 DEF DecompressHas, Putting
    <2>3. JustGot' = 0
      BY <2>1 DEF JustGot
    <2>4. GotByDecompress' = GotByDecompress
      BY <1>0, <1>4, <1>5, <1>7, <2>3 DEF GotByDecompress
    <2> QED BY <1>0, <1>6, <2>1, <2>2, <2>4, ChainOfDecompress
  <1>9. CASE ~(Len(more) >= FlushSize)
    <2>1. /\ Dec' = Dec /\ inflateBuf' = more /\ resume' = resume
          /\ hand'["decompress"] = hand["decompress"]
      BY <1>0, <1>9 DEF Inflate, Dec
    <2> HIDE DEF more
    <2>2. DecompressHas'
      BY <1>0, <1>2, <1>3, <1>4, <1>5, <1>6, <2>1 DEF DecompressHas, Putting
    <2>3. JustGot' = 0
      BY <1>0, <2>1 DEF JustGot
    <2>4. GotByDecompress' = GotByDecompress
      BY <1>0, <1>4, <1>5, <1>7, <2>3 DEF GotByDecompress
    <2> QED BY <1>0, <1>6, <2>1, <2>2, <2>4, ChainOfDecompress
  <1> QED BY <1>8, <1>9

\* What is left in the inflate buffer is sent, or the thread ends.
LEMMA ChainFinalFlush ==
    ASSUME TypesOK, Control, Chain, WokenRightly, FinalFlush
    PROVE  Chain' /\ WokenRightly'
  <1>0. /\ Threads = {"read", "decompress", "write"} /\ PlacesOK
        /\ hand = [t \in Threads |-> hand[t]] /\ ret = [t \in Threads |-> ret[t]]
        /\ Dec = "flush"
        /\ UNCHANGED <<file, ring, readCount, written, writeSize, unread, inflated>>
    BY DEF TypesOK, Threads, FinalFlush, linkVars, Dec
  <1>1. ret["decompress"] = "ok" /\ UNCHANGED ret
    <2>1. ret["decompress"] = "ok"
      BY <1>0 DEF Control, Ended, Dec
    <2> QED BY <1>0, <2>1 DEF FinalFlush, Return
  <1>2. /\ IsRun(inflateBuf, SentToWrite) /\ SentToWrite + Len(inflateBuf) = inflated
        /\ hand["decompress"] = <<>> /\ IsRun(unread, inflated) /\ unread = <<>>
    BY <1>0, <1>1 DEF Chain, DecompressHas, Putting
  <1>3. SentToWrite' = SentToWrite /\ \A t \in {"read", "write"} : pc'[t] = pc[t] /\ hand'[t] = hand[t]
    <2>1. \A t \in {"read", "write"} : pc'[t] = pc[t] /\ hand'[t] = hand[t]
      BY <1>0 DEF FinalFlush, Return, Goto, PlacesOK
    <2> QED BY <1>0, <2>1 DEF SentToWrite, OutRing, GotByWrite
  <1>4. Dec' \in {"put", "end"}
    BY <1>0 DEF FinalFlush, Return, Goto, PlacesOK, Dec
  <1>5. GotByDecompress' = GotByDecompress
    <2>1. JustGot = 0 /\ JustGot' = 0
      BY <1>0, <1>4 DEF JustGot
    <2> QED BY <1>0, <2>1 DEF GotByDecompress
  <1>6. DecompressHas'
    <2>1. CASE inflateBuf # <<>>
      <3>1. /\ Dec' = "put" /\ hand'["decompress"] = inflateBuf /\ inflateBuf' = <<>>
        BY <1>0, <2>1 DEF FinalFlush, Goto, PlacesOK, Dec
      <3> QED BY <1>0, <1>2, <1>3, <2>1, <3>1 DEF DecompressHas, Putting
    <2>2. CASE inflateBuf = <<>>
      <3>1. Dec' = "end" /\ hand'["decompress"] = <<>> /\ inflateBuf' = <<>>
        BY <1>0, <1>2, <2>2 DEF FinalFlush, Return, Goto, PlacesOK, Dec
      <3> QED BY <1>0, <1>2, <1>3, <2>2, <3>1 DEF DecompressHas, Putting
    <2> QED BY <2>1, <2>2
  <1> QED BY <1>0, <1>1, <1>3, <1>4, <1>5, <1>6, ChainOfDecompress

\* The decompress thread sends its buffer.
LEMMA ChainDeliverOut ==
    ASSUME TypesOK, Control, Calm, Chain, WokenRightly, Deliver("out"), UNCHANGED <<file, workVars>>,
           Dec \in {"put", "putWoken"}, RingSize(ring["out"]) < Capacity
    PROVE  Chain' /\ WokenRightly'
  <1> DEFINE x == hand["decompress"]
  <1>0. /\ Threads = {"read", "decompress", "write"} /\ PlacesOK
        /\ hand = [t \in Threads |-> hand[t]] /\ x \in Buffer
        /\ ring \in [{"in", "out"} -> RingType(Buffer)] /\ ring["out"] \in RingType(Buffer)
        /\ pc' = [pc EXCEPT !["decompress"] = resume,
                            !["write"] = IF pc["write"] = "getWait" THEN "getWoken" ELSE pc["write"]]
        /\ hand' = [hand EXCEPT !["decompress"] = <<>>]
        /\ ring' = [ring EXCEPT !["out"] = RingPush(ring["out"], x)]
        /\ resume \in {"loop", "work", "flush"} /\ UNCHANGED ret
    BY LinkEnds DEF TypesOK, Deliver, Calm, AfterPut
  <1>1. /\ pc'["read"] = pc["read"] /\ Dec' = resume
        /\ \/ pc'["write"] = pc["write"]
           \/ (pc["write"] = "getWait" /\ pc'["write"] = "getWoken")
        /\ hand'["read"] = hand["read"] /\ hand'["write"] = hand["write"]
        /\ hand'["decompress"] = <<>>
        /\ ring'["in"] = ring["in"] /\ ring'["out"] = RingPush(ring["out"], x)
    BY <1>0 DEF PlacesOK, Dec
  <1>2. /\ RingSize(ring'["out"]) = RingSize(ring["out"]) + 1 /\ OutRing' = Append(OutRing, x)
        /\ RingSize(ring["out"]) \in Nat /\ Capacity \in Nat
    <2>1. /\ RingSize(RingPush(ring["out"], x)) = RingSize(ring["out"]) + 1
          /\ RingContents(RingPush(ring["out"], x)) = Append(RingContents(ring["out"]), x)
      BY <1>0, RingPushAppends
    <2>2. RingSize(ring["out"]) \in 0 .. RingSpan - 1 /\ RingSpan \in Nat
      BY <1>0, RingSizeIs, RingFacts
    <2> QED BY <1>1, <2>1, <2>2, CapacityAssumption DEF OutRing
  <1>3. ret["decompress"] = "ok"
    BY LinkEnds DEF Control, Ended, Dec
  <1>4. /\ x # <<>> /\ inflateBuf = <<>> /\ IsRun(x, SentToWrite)
        /\ SentToWrite + Len(x) = inflated /\ IsRun(unread, inflated)
        /\ unread # <<>> => resume = "work"
        /\ ~file.ncz => inflateBuf = <<>> /\ unread = <<>>
    BY <1>3 DEF Chain, DecompressHas, Putting
  <1>5. /\ InRing' = InRing /\ GotByWrite' = GotByWrite
        /\ GotByDecompress' = GotByDecompress /\ ReadSoFar' = ReadSoFar
    <2>1. JustGot' = JustGot
      BY <1>0, <1>1 DEF JustGot
    <2> QED BY <1>1, <2>1 DEF InRing, GotByWrite, GotByDecompress, ReadSoFar, workVars, UnitsBefore
  <1>6. SentByRead' = SentByRead
    BY <1>5 DEF SentByRead
  <1>7. IsRow(OutRing', GotByWrite) /\ SentToWrite' = inflated
    <2>1. /\ GotByWrite \in Nat /\ OutRing \in Seq(Buffer) /\ SentToWrite \in Nat
          /\ IsRow(OutRing, GotByWrite)
      BY ChainCounts DEF Chain
    <2> HIDE DEF OutRing, GotByWrite, x
    <2>2. /\ IsRow(Append(OutRing, x), GotByWrite)
          /\ EndOf(Append(OutRing, x), GotByWrite) = SentToWrite + Len(x)
      BY <1>0, <1>4, <2>1, RowAppend DEF SentToWrite
    <2> QED BY <1>2, <1>4, <1>5, <2>2 DEF SentToWrite
  <1>8. inflated \in Nat
    BY DEF TypesOK
  <1> HIDE DEF OutRing, InRing, GotByWrite, SentToWrite, GotByDecompress, SentByRead, ReadSoFar, x
  <1>9. DecompressHas'
    <2>1. /\ IsRun(inflateBuf, SentToWrite)' /\ (SentToWrite + Len(inflateBuf) = inflated)'
          /\ IsRun(unread, inflated)'
      BY <1>4, <1>7, <1>8 DEF workVars, IsRun
    <2> QED BY <1>0, <1>1, <1>4, <2>1 DEF DecompressHas, workVars, Putting
  <1>10. Chain'
    <2>1. /\ IsRun(hand["write"], Len(written))'
          /\ (pc["write"] \notin {"store"} \cup Ended => hand["write"] = <<>>)'
          /\ IsRow(OutRing, GotByWrite)' /\ (RingSize(ring["out"]) <= Capacity)'
          /\ (pc["write"] \in Getting \cup {"store"} => Len(written) < writeSize)'
      BY <1>0, <1>1, <1>2, <1>5, <1>7 DEF Chain, workVars, Getting, Ended
    <2>2. /\ IsRow(InRing, GotByDecompress)' /\ (RingSize(ring["in"]) <= Capacity)'
          /\ (SentByRead <= ReadSoFar)'
      BY <1>1, <1>3, <1>5, <1>6 DEF Chain
    <2>3. ret["read"] = "ok" =>
            /\ IsRun(hand["read"], SentByRead)'
            /\ (SentByRead + Len(hand["read"]) = ReadSoFar)'
            /\ (hand["read"] # <<>> <=> pc["read"] \in Putting)'
      BY <1>1, <1>3, <1>5, <1>6 DEF Chain
    <2> QED BY <1>0, <1>9, <2>1, <2>2, <2>3 DEF Chain
  <1>11. WokenRightly'
    BY <1>0, <1>1, <1>2 DEF WokenRightly
  <1> QED BY <1>10, <1>11

\* The write thread gets a buffer.
LEMMA ChainFetchOut ==
    ASSUME TypesOK, Control, Calm, Chain, WokenRightly, Fetch("out"), UNCHANGED <<file, workVars>>,
           pc["write"] \in {"get", "getWoken"}, RingSize(ring["out"]) > 0
    PROVE  Chain' /\ WokenRightly' /\ SentToWrite' = SentToWrite /\ hand'["write"] # <<>>
  <1> DEFINE x == RingFront(ring["out"])
  <1>0. /\ Threads = {"read", "decompress", "write"} /\ PlacesOK
        /\ hand = [t \in Threads |-> hand[t]] /\ x \in Buffer
        /\ ring \in [{"in", "out"} -> RingType(Buffer)] /\ ring["out"] \in RingType(Buffer)
        /\ pc' = [pc EXCEPT !["write"] = "store",
                            !["decompress"] = IF pc["decompress"] = "putWait" THEN "putWoken"
                                                                              ELSE pc["decompress"]]
        /\ hand' = [hand EXCEPT !["write"] = x]
        /\ ring' = [ring EXCEPT !["out"] = RingPop(ring["out"])]
        /\ UNCHANGED ret
    BY LinkEnds, FrontIs DEF TypesOK, Fetch, Calm, AfterGet
  <1>1. /\ pc'["write"] = "store" /\ pc'["read"] = pc["read"]
        /\ hand'["read"] = hand["read"] /\ hand'["write"] = x
        /\ hand'["decompress"] = hand["decompress"]
        /\ Dec' = Dec \/ (Dec = "putWait" /\ Dec' = "putWoken")
        /\ ring'["in"] = ring["in"] /\ ring'["out"] = RingPop(ring["out"])
    BY <1>0 DEF PlacesOK, Dec
  <1>2. /\ RingSize(ring'["out"]) = RingSize(ring["out"]) - 1
        /\ OutRing # <<>> /\ x = Head(OutRing) /\ OutRing' = Tail(OutRing)
        /\ RingSize(ring["out"]) \in Nat /\ RingSize(ring["out"]) <= Capacity /\ Capacity \in Nat
    <2>1. RingSize(ring["out"]) <= Capacity
      BY DEF WokenRightly
    <2>2. RingSize(ring["out"]) \in 0 .. RingSpan - 1 /\ RingSpan \in Nat
      BY <1>0, RingSizeIs, RingFacts
    <2>3. 0 < RingSize(ring["out"])
      BY <2>2
    <2>4. /\ RingSize(RingPop(ring["out"])) = RingSize(ring["out"]) - 1
          /\ RingContents(ring["out"]) # <<>>
          /\ RingFront(ring["out"]) = Head(RingContents(ring["out"]))
          /\ RingContents(RingPop(ring["out"])) = Tail(RingContents(ring["out"]))
      BY <1>0, <2>1, <2>3, RingPopTakesFront
    <2> QED BY <1>1, <2>1, <2>2, <2>4, CapacityAssumption DEF OutRing
  <1>3. /\ InRing' = InRing /\ GotByDecompress' = GotByDecompress /\ ReadSoFar' = ReadSoFar
    <2>1. JustGot' = JustGot
      BY <1>1 DEF JustGot
    <2> QED BY <1>1, <2>1 DEF InRing, GotByDecompress, ReadSoFar, workVars, UnitsBefore
  <1>4. SentByRead' = SentByRead
    BY <1>3 DEF SentByRead
  <1>5. hand["write"] = <<>> /\ Len(written) < writeSize
    BY DEF Chain, Getting, Ended
  <1>6. /\ GotByWrite = Len(written) /\ GotByWrite' = Len(written) + Len(x)
        /\ Len(written) \in Nat /\ Len(x) \in Nat
    <2>1. Len(hand["write"]) = 0 /\ Len(written) \in Nat /\ Len(x) \in Nat
      BY <1>0, <1>5 DEF TypesOK, Buffer
    <2> QED BY <1>1, <2>1 DEF GotByWrite, workVars
  <1>7. /\ IsRun(x, Len(written)) /\ IsRow(OutRing', GotByWrite') /\ SentToWrite' = SentToWrite
        /\ x # <<>>
    <2>1. OutRing \in Seq(Buffer) /\ IsRow(OutRing, Len(written))
      BY <1>6, ChainCounts DEF Chain
    <2> HIDE DEF OutRing, GotByWrite, x
    <2>2. /\ x # <<>> /\ IsRun(x, Len(written)) /\ IsRow(Tail(OutRing), Len(written) + Len(x))
          /\ EndOf(Tail(OutRing), Len(written) + Len(x)) = EndOf(OutRing, Len(written))
      BY <1>2, <1>6, <2>1, RowTail
    <2> QED BY <1>2, <1>6, <2>2 DEF SentToWrite
  <1> HIDE DEF OutRing, InRing, GotByWrite, SentToWrite, GotByDecompress, SentByRead, ReadSoFar, x
  <1>8. ret["decompress"] = "ok" => DecompressHas'
    BY <1>1, <1>7 DEF Chain, DecompressHas, workVars, Putting
  <1>9. Chain'
    <2>1. /\ IsRun(hand["write"], Len(written))'
          /\ (pc["write"] \notin {"store"} \cup Ended => hand["write"] = <<>>)'
          /\ IsRow(OutRing, GotByWrite)' /\ (RingSize(ring["out"]) <= Capacity)'
          /\ (pc["write"] \in Getting \cup {"store"} => Len(written) < writeSize)'
      BY <1>1, <1>2, <1>5, <1>7 DEF workVars
    <2>2. ret["decompress"] = "ok" =>
            /\ IsRow(InRing, GotByDecompress)' /\ (RingSize(ring["in"]) <= Capacity)'
            /\ (SentByRead <= ReadSoFar)'
      BY <1>1, <1>3, <1>4 DEF Chain
    <2>3. ret["decompress"] = "ok" /\ ret["read"] = "ok" =>
            /\ IsRun(hand["read"], SentByRead)'
            /\ (SentByRead + Len(hand["read"]) = ReadSoFar)'
            /\ (hand["read"] # <<>> <=> pc["read"] \in Putting)'
      BY <1>1, <1>3, <1>4 DEF Chain
    <2> QED BY <1>0, <1>8, <2>1, <2>2, <2>3 DEF Chain
  <1>10. WokenRightly'
    BY <1>1, <1>2 DEF WokenRightly
  <1> QED BY <1>1, <1>7, <1>9, <1>10

\* The decompress thread is told that nothing more comes.
LEMMA ChainEmptyIn ==
    ASSUME TypesOK, Control, Chain, WokenRightly, UNCHANGED <<file, ring, ret, workVars>>,
           Dec = "get", pc' = [pc EXCEPT !["decompress"] = "take"],
           hand' = [hand EXCEPT !["decompress"] = <<>>]
    PROVE  Chain' /\ WokenRightly'
  <1>0. Threads = {"read", "decompress", "write"} /\ PlacesOK /\ hand = [t \in Threads |-> hand[t]]
    BY DEF TypesOK, Threads
  <1>1. /\ \A t \in {"read", "write"} : pc'[t] = pc[t] /\ hand'[t] = hand[t]
        /\ Dec' = "take" /\ hand'["decompress"] = <<>>
    BY <1>0 DEF PlacesOK, Dec
  <1>2. ret["decompress"] = "ok"
    BY <1>0 DEF Control, Ended, Dec
  <1>3. SentToWrite' = SentToWrite /\ GotByDecompress' = GotByDecompress
    <2>1. JustGot' = 0 /\ JustGot = 0
      BY <1>1 DEF JustGot
    <2> QED BY <1>1, <2>1 DEF SentToWrite, OutRing, GotByWrite, GotByDecompress, workVars
  <1>4. DecompressHas'
    BY <1>1, <1>2, <1>3 DEF Chain, DecompressHas, workVars, Putting, IsRun
  <1> QED BY <1>1, <1>3, <1>4, ChainOfDecompress DEF workVars

\* What the write thread does by itself leaves the rest of the chain.
LEMMA ChainOfWrite ==
    ASSUME TypesOK, Chain, WokenRightly,
           UNCHANGED <<file, ring, ret, readCount, unread, inflateBuf, inflated, resume, writeSize>>,
           \A t \in {"read", "decompress"} : pc'[t] = pc[t] /\ hand'[t] = hand[t],
           hand'["write"] = <<>>, GotByWrite' = GotByWrite,
           pc'["write"] # "getWoken",
           pc'["write"] \in Getting \cup {"store"} => Len(written') < writeSize
    PROVE  Chain' /\ WokenRightly'
  <1>1. /\ OutRing' = OutRing /\ InRing' = InRing /\ SentToWrite' = SentToWrite
        /\ GotByDecompress' = GotByDecompress /\ ReadSoFar' = ReadSoFar /\ Dec' = Dec
    BY DEF OutRing, InRing, SentToWrite, GotByDecompress, JustGot, ReadSoFar, UnitsBefore, Dec
  <1>2. SentByRead' = SentByRead
    BY <1>1 DEF SentByRead
  <1>3. IsRun(hand["write"], Len(written))'
    BY DEF IsRun
  <1> HIDE DEF OutRing, InRing, GotByWrite, SentToWrite, GotByDecompress, SentByRead, ReadSoFar
  <1>4. ret["decompress"] = "ok" => DecompressHas'
    BY <1>1 DEF Chain, DecompressHas
  <1>5. Chain'
    BY <1>1, <1>2, <1>3, <1>4 DEF Chain
  <1>6. WokenRightly'
    BY <1>1 DEF WokenRightly
  <1> QED BY <1>5, <1>6

LEMMA ChainEmptyOut ==
    ASSUME TypesOK, Control, Chain, WokenRightly, UNCHANGED <<file, ring, ret, workVars>>,
           pc["write"] = "get", pc' = [pc EXCEPT !["write"] = "store"],
           hand' = [hand EXCEPT !["write"] = <<>>]
    PROVE  Chain' /\ WokenRightly'
  <1>0. Threads = {"read", "decompress", "write"} /\ PlacesOK /\ hand = [t \in Threads |-> hand[t]]
    BY DEF TypesOK, Threads
  <1>1. /\ \A t \in {"read", "decompress"} : pc'[t] = pc[t] /\ hand'[t] = hand[t]
        /\ pc'["write"] = "store" /\ hand'["write"] = <<>>
    BY <1>0 DEF PlacesOK
  <1>2. hand["write"] = <<>> /\ Len(written) < writeSize
    BY DEF Chain, Getting, Ended
  <1>3. GotByWrite' = GotByWrite
    BY <1>1, <1>2 DEF GotByWrite, workVars
  <1> QED BY <1>1, <1>2, <1>3, ChainOfWrite DEF workVars

\* A buffer is written.
LEMMA ChainStore ==
    ASSUME TypesOK, Control, Calm, Chain, WokenRightly, Store
    PROVE  Chain' /\ WokenRightly' /\ written' = written \o hand["write"]
  <1> DEFINE x == hand["write"]
  <1>0. /\ Threads = {"read", "decompress", "write"} /\ PlacesOK
        /\ hand = [t \in Threads |-> hand[t]] /\ ret = [t \in Threads |-> ret[t]]
        /\ pc["write"] = "store" /\ x \in Buffer /\ written \in Buffer
        /\ UNCHANGED <<file, ring, readCount, unread, inflateBuf, inflated, resume, writeSize>>
        /\ hand' = [hand EXCEPT !["write"] = <<>>]
    BY DEF TypesOK, Threads, Store, linkVars
  <1>1. ret["write"] = "ok" /\ Len(written) < writeSize /\ UNCHANGED ret
    <2>1. ret["write"] = "ok"
      BY <1>0 DEF Control, Ended
    <2> QED BY <1>0, <2>1 DEF Store, Return, Chain
  <1>2. written' = written \o x
    BY <1>0, <1>1 DEF Store, Calm, Buffer
  <1>3. /\ \A t \in {"read", "decompress"} : pc'[t] = pc[t] /\ hand'[t] = hand[t]
        /\ hand'["write"] = <<>> /\ pc'["write"] \in {"loop", "end"}
    BY <1>0 DEF Store, Return, Goto, PlacesOK
  <1> HIDE DEF x
  <1>4. Len(written') = Len(written) + Len(x) /\ Len(written') \in Nat
    BY <1>0, <1>2 DEF Buffer
  <1>5. GotByWrite' = GotByWrite
    BY <1>3, <1>4 DEF GotByWrite, x
  <1> QED BY <1>0, <1>1, <1>2, <1>3, <1>5, ChainOfWrite DEF Getting, x

\* The steps on the link between the read and the decompress thread ...
LEMMA ChainLinkIn ==
    ASSUME TypesOK, Control, Calm, Chain, WokenRightly,
           \/ Put("in") \/ PutWoken("in") \/ PutSleep("in")
           \/ Get("in") \/ GetWoken("in") \/ GetSleep("in")
    PROVE  Chain' /\ WokenRightly'
  <1>0. /\ Threads = {"read", "decompress", "write"} /\ PlacesOK
        /\ UNCHANGED <<file, workVars>>
        /\ RingSize(ring["in"]) <= Capacity /\ RingSize(ring["in"]) \in Nat /\ Capacity \in Nat
    <2>1. RingSize(ring["in"]) \in 0 .. RingSpan - 1 /\ RingSpan \in Nat
      BY LinkEnds, RingSizeIs, RingFacts DEF TypesOK
    <2> QED BY <2>1, LinkEnds, CapacityAssumption
            DEF TypesOK, WokenRightly, Put, PutWoken, PutSleep, Get, GetWoken, GetSleep, FallAsleep
  <1>1. ASSUME \E x \in {"putSleep", "putWait"} : pc' = [pc EXCEPT !["read"] = x],
               pc["read"] \in Putting, UNCHANGED <<file, ring, hand, ret, workVars>>
        PROVE  Chain' /\ WokenRightly'
    BY <1>0, <1>1, ChainFrame DEF PlacesOK, Chain, Putting, Dec
  <1>2. ASSUME \E x \in {"getSleep", "getWait"} : pc' = [pc EXCEPT !["decompress"] = x],
               Dec \in Getting, UNCHANGED <<file, ring, hand, ret, workVars>>
        PROVE  Chain' /\ WokenRightly'
    BY <1>0, <1>2, ChainFrame DEF PlacesOK, Chain, Putting, Getting, Dec
  <1>3. CASE Put("in")
    <2>1. CASE ~RingFull(ring["in"])
      <3>1. Deliver("in") /\ pc["read"] = "put" /\ RingSize(ring["in"]) < Capacity
        BY <1>0, <1>3, <2>1, LinkEnds DEF Put, RingFull
      <3> QED BY <1>0, <3>1, ChainDeliverIn
    <2>2. CASE RingFull(ring["in"])
      BY <1>0, <1>1, <1>3, <2>2, LinkEnds DEF Put, Calm, Goto, Putting
    <2> QED BY <2>1, <2>2
  <1>4. CASE PutWoken("in")
    <2>1. Deliver("in") /\ pc["read"] = "putWoken" /\ RingSize(ring["in"]) < Capacity
      BY <1>4, LinkEnds DEF PutWoken, WokenRightly
    <2> QED BY <1>0, <2>1, ChainDeliverIn
  <1>5. CASE PutSleep("in")
    BY <1>0, <1>1, <1>5, LinkEnds DEF PutSleep, FallAsleep, Goto, Putting
  <1>6. CASE Get("in")
    <2>1. CASE RingSize(ring["in"]) # 0
      <3>1. Fetch("in") /\ Dec = "get" /\ RingSize(ring["in"]) > 0
        BY <1>0, <1>6, <2>1, LinkEnds DEF Get, Dec
      <3> QED BY <1>0, <3>1, ChainFetchIn
    <2>2. CASE RingSize(ring["in"]) = 0 /\ running["read"]
      BY <1>0, <1>2, <1>6, <2>2, LinkEnds DEF Get, Goto, Getting, Dec
    <2>3. CASE RingSize(ring["in"]) = 0 /\ ~running["read"]
      <3>1. /\ UNCHANGED <<file, ring, ret, workVars>> /\ Dec = "get"
            /\ pc' = [pc EXCEPT !["decompress"] = "take"]
            /\ hand' = [hand EXCEPT !["decompress"] = <<>>]
        BY <1>0, <1>6, <2>3, LinkEnds DEF Get, Goto, AfterGet, Dec
      <3> QED BY <3>1, ChainEmptyIn
    <2> QED BY <2>1, <2>2, <2>3
  <1>7. CASE GetWoken("in")
    <2>1. Fetch("in") /\ Dec = "getWoken" /\ RingSize(ring["in"]) > 0
      BY <1>7, LinkEnds DEF GetWoken, WokenRightly, Dec
    <2> QED BY <1>0, <2>1, ChainFetchIn
  <1>8. CASE GetSleep("in")
    BY <1>0, <1>2, <1>8, LinkEnds DEF GetSleep, FallAsleep, Goto, Getting, Dec
  <1> QED BY <1>3, <1>4, <1>5, <1>6, <1>7, <1>8

\* ... and on the one between the decompress and the write thread.
LEMMA ChainLinkOut ==
    ASSUME TypesOK, Control, Calm, Chain, WokenRightly,
           \/ Put("out") \/ PutWoken("out") \/ PutSleep("out")
           \/ Get("out") \/ GetWoken("out") \/ GetSleep("out")
    PROVE  Chain' /\ WokenRightly'
  <1>0. /\ Threads = {"read", "decompress", "write"} /\ PlacesOK
        /\ UNCHANGED <<file, workVars>>
        /\ RingSize(ring["out"]) <= Capacity /\ RingSize(ring["out"]) \in Nat /\ Capacity \in Nat
    <2>1. RingSize(ring["out"]) \in 0 .. RingSpan - 1 /\ RingSpan \in Nat
      BY LinkEnds, RingSizeIs, RingFacts DEF TypesOK
    <2> QED BY <2>1, LinkEnds, CapacityAssumption
            DEF TypesOK, WokenRightly, Put, PutWoken, PutSleep, Get, GetWoken, GetSleep, FallAsleep
  <1>1. ASSUME \E x \in {"putSleep", "putWait"} : pc' = [pc EXCEPT !["decompress"] = x],
               Dec \in Putting, UNCHANGED <<file, ring, hand, ret, workVars>>
        PROVE  Chain' /\ WokenRightly'
    <2>1. unread # <<>> /\ ret["decompress"] = "ok" => Dec # "work"
      BY <1>1 DEF Putting
    <2> QED BY <1>0, <1>1, ChainFrame DEF PlacesOK, Chain, Putting, Dec
  <1>2. ASSUME \E x \in {"getSleep", "getWait"} : pc' = [pc EXCEPT !["write"] = x],
               pc["write"] \in Getting, UNCHANGED <<file, ring, hand, ret, workVars>>
        PROVE  Chain' /\ WokenRightly'
    <2>1. hand["write"] = <<>> /\ Len(written) < writeSize
      BY <1>2 DEF Chain, Getting, Ended
    <2> QED BY <1>0, <1>2, <2>1, ChainFrame DEF PlacesOK, Putting, Getting, Dec
  <1>3. CASE Put("out")
    <2>1. CASE ~RingFull(ring["out"])
      <3>1. Deliver("out") /\ Dec = "put" /\ RingSize(ring["out"]) < Capacity
        BY <1>0, <1>3, <2>1, LinkEnds DEF Put, RingFull, Dec
      <3> QED BY <1>0, <3>1, ChainDeliverOut
    <2>2. CASE RingFull(ring["out"])
      <3>1. running["decompress"] /\ Dec \in Putting
        BY <1>3, LinkEnds DEF Put, Control, Putting, Dec
      <3> QED BY <1>0, <1>1, <1>3, <2>2, <3>1, LinkEnds DEF Put, Goto
    <2> QED BY <2>1, <2>2
  <1>4. CASE PutWoken("out")
    <2>1. Deliver("out") /\ Dec = "putWoken" /\ RingSize(ring["out"]) < Capacity
      BY <1>4, LinkEnds DEF PutWoken, WokenRightly, Dec
    <2> QED BY <1>0, <2>1, ChainDeliverOut
  <1>5. CASE PutSleep("out")
    BY <1>0, <1>1, <1>5, LinkEnds DEF PutSleep, FallAsleep, Goto, Putting, Dec
  <1>6. CASE Get("out")
    <2>1. CASE RingSize(ring["out"]) # 0
      <3>1. Fetch("out") /\ pc["write"] = "get" /\ RingSize(ring["out"]) > 0
        BY <1>0, <1>6, <2>1, LinkEnds DEF Get
      <3> QED BY <1>0, <3>1, ChainFetchOut
    <2>2. CASE RingSize(ring["out"]) = 0 /\ running["decompress"]
      BY <1>0, <1>2, <1>6, <2>2, LinkEnds DEF Get, Goto, Getting
    <2>3. CASE RingSize(ring["out"]) = 0 /\ ~running["decompress"]
      <3>1. /\ UNCHANGED <<file, ring, ret, workVars>> /\ pc["write"] = "get"
            /\ pc' = [pc EXCEPT !["write"] = "store"]
            /\ hand' = [hand EXCEPT !["write"] = <<>>]
        BY <1>0, <1>6, <2>3, LinkEnds DEF Get, Goto, AfterGet
      <3> QED BY <3>1, ChainEmptyOut
    <2> QED BY <2>1, <2>2, <2>3
  <1>7. CASE GetWoken("out")
    <2>1. Fetch("out") /\ pc["write"] = "getWoken" /\ RingSize(ring["out"]) > 0
      BY <1>7, LinkEnds DEF GetWoken, WokenRightly
    <2> QED BY <1>0, <2>1, ChainFetchOut
  <1>8. CASE GetSleep("out")
    BY <1>0, <1>2, <1>8, LinkEnds DEF GetSleep, FallAsleep, Goto, Getting
  <1> QED BY <1>3, <1>4, <1>5, <1>6, <1>7, <1>8

\* As long as no failure is known and the write thread runs, every step keeps the
\* chain.
LEMMA ChainStep ==
    ASSUME TypesOK, Control, Calm, Chain, WokenRightly, [Next]_vars
    PROVE  Chain' /\ WokenRightly'
  <1>0. /\ Threads = {"read", "decompress", "write"} /\ PlacesOK
        /\ ret = [t \in Threads |-> ret[t]]
        /\ \A t \in Threads : pc[t] \notin Ended => ret[t] = "ok"
    BY DEF TypesOK, Threads, Control
  <1>1. CASE ReadLoop
    <2>1. UNCHANGED <<file, ring, hand, ret, workVars>>
      BY <1>0, <1>1 DEF ReadLoop, Return, Ended, linkVars
    <2>2. pc["read"] = "loop" /\ \E x \in {"source", "end"} : pc' = [pc EXCEPT !["read"] = x]
      BY <1>1 DEF ReadLoop, Return, Goto
    <2> QED BY <1>0, <2>1, <2>2, ChainFrame DEF PlacesOK, Chain, Putting, Dec
  <1>2. CASE ReadSource
    BY <1>2, ChainReadSource
  <1>3. CASE \E t \in Threads, places \in SUBSET Working : FailsIn(t, places)
    BY <1>3, ChainFails DEF FailsIn, linkVars
  <1>4. CASE DecompressLoop
    <2>1. /\ UNCHANGED <<file, ring, hand, ret, workVars>> /\ Dec = "loop"
          /\ \E x \in {"get", "flush"} : pc' = [pc EXCEPT !["decompress"] = x]
      BY <1>4 DEF DecompressLoop, linkVars, Goto, Dec
    <2> QED BY <1>0, <2>1, ChainFrame DEF PlacesOK, Chain, Putting, Dec
  <1>5. CASE TakeBuffer
    BY <1>5, ChainTakeBuffer
  <1>6. CASE Inflate
    BY <1>6, ChainInflate
  <1>7. CASE InflateEnds
    <2>1. /\ UNCHANGED <<file, ring, hand, ret, workVars>> /\ Dec = "work" /\ unread = <<>>
          /\ pc' = [pc EXCEPT !["decompress"] = "loop"]
      BY <1>7 DEF InflateEnds, linkVars, Goto, Dec, Calm
    <2> QED BY <1>0, <2>1, ChainFrame DEF PlacesOK, Chain, Putting, Dec
  <1>8. CASE FinalFlush
    BY <1>8, ChainFinalFlush
  <1>9. CASE WriteLoop
    <2>1. UNCHANGED <<file, ring, hand, ret, workVars>>
      BY <1>0, <1>9 DEF WriteLoop, Return, Ended, linkVars
    <2>2. /\ pc["write"] = "loop"
          /\ \/ pc' = [pc EXCEPT !["write"] = "get"] /\ Len(written) < writeSize
             \/ pc' = [pc EXCEPT !["write"] = "end"]
      BY <1>9 DEF WriteLoop, Return, Goto
    <2>3. hand["write"] = <<>>
      BY <2>2 DEF Chain, Ended
    <2> QED BY <1>0, <2>1, <2>2, <2>3, ChainFrame DEF PlacesOK, Getting, Dec
  <1>10. CASE Store
    BY <1>10, ChainStore
  <1>11. CASE \E t \in Threads : ClearRunning(t) \/ SetResult(t)
    <2>1. PICK t \in Threads : ClearRunning(t) \/ SetResult(t)
      BY <1>11
    <2>2. /\ UNCHANGED <<file, ring, hand, ret, workVars>> /\ pc[t] \in {"end", "set"}
          /\ \E x \in {"set", "done"} : pc' = [pc EXCEPT ![t] = x]
      BY <2>1 DEF ClearRunning, SetResult, linkVars, Goto
    <2> QED BY <1>0, <2>2, ChainFrame DEF PlacesOK, Chain, Putting, Getting, Ended, Dec
  <1>12. CASE StartThread
    <2>1. UNCHANGED <<file, ring, hand, ret, workVars>>
      BY <1>12 DEF StartThread, linkVars
    <2>2. \E t \in Threads : pc[t] = "created" /\ pc' = [pc EXCEPT ![t] = "loop"]
      BY <1>0, <1>12, StartsOne
    <2> QED BY <1>0, <2>1, <2>2, ChainFrame DEF PlacesOK, Chain, Putting, Getting, Ended, Dec
  <1>13. CASE WakeAll
    <2>1. doneEvent
      BY <1>13 DEF WakeAll, Control
    <2>2. pc["write"] = "done" /\ running["write"]
      BY <2>1 DEF Control, Calm
    <2> QED BY <1>0, <2>2 DEF Control
  <1>14. CASE \/ StartFails \/ WatchDone \/ Poll \/ NoneRunning \/ TakeResults \/ Join
              \/ UNCHANGED vars
    <2>1. UNCHANGED <<file, ring, hand, ret, workVars, pc>>
      BY <1>14 DEF StartFails, WatchDone, Poll, NoneRunning, TakeResults, Join, vars, linkVars
    <2> QED BY <2>1, ChainFrame DEF Chain, Dec
  <1>15. CASE \E l \in Links : \/ Put(l) \/ PutWoken(l) \/ PutSleep(l)
                               \/ Get(l) \/ GetWoken(l) \/ GetSleep(l)
    BY <1>15, LinkEnds, ChainLinkIn, ChainLinkOut
  <1> QED BY <1>1, <1>2, <1>3, <1>4, <1>5, <1>6, <1>7, <1>8, <1>9, <1>10, <1>11, <1>12, <1>13,
             <1>14, <1>15, Steps

LEMMA InitFlow == Init => FlowInv
  <1> SUFFICES ASSUME Init PROVE FlowInv
    OBVIOUS
  <1>1. TypesOK /\ Control
    BY InitTypes
  <1>2. Chain /\ WokenRightly
    <2>1. /\ OutRing = <<>> /\ InRing = <<>> /\ RingSize(ring["out"]) = 0 /\ RingSize(ring["in"]) = 0
      BY NewRingIs, LinkEnds DEF Init, OutRing, InRing
    <2>2. /\ \A t \in Threads : hand[t] = <<>> /\ pc[t] = "created" /\ ret[t] = "ok"
          /\ Threads = {"read", "decompress", "write"}
          /\ written = <<>> /\ unread = <<>> /\ inflateBuf = <<>> /\ inflated = 0
      BY DEF Init, Threads
    <2>3. GotByWrite = 0 /\ GotByDecompress = 0
      BY <2>2 DEF GotByWrite, GotByDecompress, JustGot, Dec
    <2>4. SentToWrite = 0 /\ SentByRead = 0
      BY <2>1, <2>3 DEF SentToWrite, SentByRead, EndOf
    <2>5. ReadSoFar = 0
      BY UnitsAre DEF Init, ReadSoFar
    <2>6. IsRow(<<>>, 0) /\ IsRun(<<>>, 0) /\ Len(<<>>) = 0
      BY DEF IsRow, IsRun
    <2>7. DecompressHas
      BY <2>2, <2>4, <2>6 DEF DecompressHas, Putting, Dec
    <2>8. Capacity \in Nat \ {0}
      BY CapacityAssumption
    <2>9. Chain
      BY <2>1, <2>2, <2>3, <2>4, <2>5, <2>6, <2>7, <2>8 DEF Chain, Putting, Getting, Ended
    <2> QED BY <2>1, <2>2, <2>8, <2>9 DEF WokenRightly, Dec
  <1>3. IsRun(written, 0)
    BY DEF Init, IsRun
  <1> QED BY <1>1, <1>2, <1>3 DEF FlowInv

LEMMA FlowStep == FlowInv /\ [Next]_vars => FlowInv'
  <1> SUFFICES ASSUME FlowInv, [Next]_vars PROVE FlowInv'
    OBVIOUS
  <1>1. TypesOK /\ Control /\ TypesOK' /\ Control'
    BY TypesStep, ControlStep DEF FlowInv
  <1>2. GetResults' /\ running'["write"] => Chain' /\ WokenRightly'
    <2> SUFFICES ASSUME Calm' PROVE Chain' /\ WokenRightly'
      BY DEF Calm
    <2>1. Calm
      BY <1>1, CalmStays
    <2> QED BY <1>1, <2>1, ChainStep DEF FlowInv, Calm
  <1>3. IsRun(written, 0)'
    <2>1. CASE Store
      <3>1. CASE Calm
        <4>1. Chain /\ written' = written \o hand["write"]
          BY <1>1, <2>1, <3>1, ChainStore DEF FlowInv, Calm
        <4>2. /\ written \in Buffer /\ hand["write"] \in Buffer /\ IsRun(written, 0)
              /\ IsRun(hand["write"], 0 + Len(written))
          <5>1. /\ written \in Buffer /\ hand["write"] \in Buffer /\ IsRun(written, 0)
                /\ IsRun(hand["write"], Len(written))
            BY <1>1, <4>1, LinkEnds DEF FlowInv, TypesOK, Chain
          <5>2. 0 + Len(written) = Len(written)
            BY <5>1 DEF Buffer
          <5> QED BY <5>1, <5>2
        <4> QED BY <4>1, <4>2, RunJoin
      <3>2. CASE ~Calm
        <4>1. running["write"]
          BY <1>1, <2>1, LinkEnds DEF Control, Store
        <4> QED BY <2>1, <3>2, <4>1 DEF Calm, Store, FlowInv
      <3> QED BY <3>1, <3>2
    <2>2. CASE UNCHANGED written
      BY <2>2 DEF FlowInv
    <2>3. CASE \/ ReadLoop \/ ReadSource \/ DecompressLoop \/ TakeBuffer \/ Inflate \/ InflateEnds
               \/ FinalFlush \/ WriteLoop
               \/ \E t \in Threads, places \in SUBSET Working : FailsIn(t, places)
               \/ \E t \in Threads : ClearRunning(t) \/ SetResult(t)
               \/ StartThread \/ WakeAll
               \/ \/ StartFails \/ WatchDone \/ Poll \/ NoneRunning \/ TakeResults \/ Join
                  \/ UNCHANGED vars
      BY <2>2, <2>3 DEF ReadLoop, ReadSource, DecompressLoop, TakeBuffer, Inflate, InflateEnds,
          FinalFlush, WriteLoop, FailsIn, ClearRunning, SetResult, StartThread, WakeAll,
          StartFails, WatchDone, Poll, NoneRunning, TakeResults, Join, vars, workVars
    <2>4. CASE \E l \in Links : \/ Put(l) \/ PutWoken(l) \/ PutSleep(l)
                                \/ Get(l) \/ GetWoken(l) \/ GetSleep(l)
      BY <1>1, <2>2, <2>4, LinkTypes DEF workVars
    <2> QED BY <2>1, <2>3, <2>4, Steps
  <1> QED BY <1>1, <1>2, <1>3 DEF FlowInv

\* FlowInv is an invariant of the pipeline, whatever fails and whatever size the
\* header of the NCA states.
THEOREM FlowInvariant == Spec => []FlowInv
  <1> QED BY InitFlow, FlowStep, PTL DEF Spec

\* The placeholder gets the NCA from its start, in order, without a gap or a
\* repeat: writeFuncInternal writes what it gets at write_offset, and it gets
\* nothing out of order, even when another thread fails in the middle of a call.
THEOREM WrittenInOrderAlways == Spec => []WrittenInOrder
  <1>1. FlowInv => WrittenInOrder
    <2> SUFFICES ASSUME FlowInv PROVE WrittenInOrder
      OBVIOUS
    <2>1. written \in Buffer /\ IsRun(written, 0)
      BY DEF FlowInv, TypesOK
    <2>2. written = [k \in 1 .. Len(written) |-> 0 + k]
      BY <2>1, RunIs
    <2>3. \A k \in 1 .. Len(written) : 0 + k = k
      BY <2>1 DEF Buffer
    <2> QED BY <2>2, <2>3 DEF WrittenInOrder
  <1> QED BY <1>1, FlowInvariant, PTL

\* Nothing is lost, doubled or overtaken between the source and the placeholder
\* while all three threads run and none has failed, although a Put may find its
\* ring full and a woken thread does not look at its ring again.
THEOREM NothingLostAlways == Spec => []NothingLost
  <1>1. FlowInv => NothingLost
    <2> SUFFICES ASSUME FlowInv, \A t \in Threads : ret[t] = "ok" /\ running[t]
                 PROVE  written \o InFlight = [i \in 1 .. UnitsBefore(readCount + 1) |-> i]
      BY DEF NothingLost
    <2>0. /\ TypesOK /\ Control /\ IsRun(written, 0)
          /\ ret["read"] = "ok" /\ ret["decompress"] = "ok" /\ running["write"]
          /\ \A t \in Threads : result[t] = "ok"
      BY LinkEnds DEF FlowInv, Control
    <2>1. Chain /\ DecompressHas
      BY <2>0 DEF FlowInv, GetResults, Chain
    <2> DEFINE hw == hand["write"]
               hd == hand["decompress"]
               hr == hand["read"]
               out == FlattenRing(ring["out"])
               in == FlattenRing(ring["in"])
               going == IF Dec # "take" THEN hd ELSE <<>>
               came == IF Dec # "take" THEN <<>> ELSE hd
    <2>2. InFlight = hw \o out \o going \o inflateBuf \o unread \o came \o in \o hr
      BY DEF InFlight, Dec
    <2>3. /\ written \in Buffer /\ hw \in Buffer /\ inflateBuf \in Buffer /\ unread \in Buffer
          /\ hr \in Buffer /\ hd \in Buffer /\ inflated \in Nat
      BY <2>0, LinkEnds DEF TypesOK
    <2>4. /\ GotByWrite \in Nat /\ SentToWrite \in Nat /\ GotByDecompress \in Nat
          /\ SentByRead \in Nat /\ ReadSoFar \in Nat
          /\ OutRing \in Seq(Buffer) /\ InRing \in Seq(Buffer)
      BY <2>0, <2>1, ChainCounts
    <2>5. out \in Buffer /\ IsRun(out, GotByWrite) /\ GotByWrite + Len(out) = SentToWrite
      BY <2>1, <2>4, RowFlatten DEF Chain, OutRing, SentToWrite
    <2>6. in \in Buffer /\ IsRun(in, GotByDecompress) /\ GotByDecompress + Len(in) = SentByRead
      BY <2>0, <2>1, <2>4, RowFlatten DEF Chain, InRing, SentByRead
    <2>7. IsRun(hr, SentByRead) /\ SentByRead + Len(hr) = ReadSoFar /\ IsRun(hw, Len(written))
      BY <2>0, <2>1 DEF Chain
    <2>8. /\ going \in Buffer /\ came \in Buffer
          /\ IsRun(going, SentToWrite) /\ IsRun(inflateBuf, SentToWrite + Len(going))
          /\ SentToWrite + Len(going) + Len(inflateBuf) = inflated
          /\ IsRun(unread, inflated) /\ IsRun(came, inflated + Len(unread))
          /\ GotByDecompress = inflated + Len(unread) + Len(came)
      <3>1. CASE Dec \in Putting
        <4>1. /\ going = hd /\ came = <<>> /\ inflateBuf = <<>> /\ IsRun(hd, SentToWrite)
              /\ SentToWrite + Len(hd) = inflated /\ IsRun(unread, inflated) /\ JustGot = 0
          BY <2>1, <3>1 DEF DecompressHas, Putting, JustGot
        <4>2. Len(<<>>) = 0 /\ \A a : IsRun(<<>>, a)
          BY DEF IsRun
        <4>3. Len(hd) \in Nat /\ Len(unread) \in Nat /\ <<>> \in Buffer
          BY <2>3 DEF Buffer
        <4> HIDE DEF going, came, hd
        <4> QED BY <2>3, <2>4, <4>1, <4>2, <4>3 DEF GotByDecompress
      <3>2. CASE Dec = "take"
        <4>1. /\ going = <<>> /\ came = hd /\ IsRun(hd, inflated) /\ unread = <<>>
              /\ IsRun(inflateBuf, SentToWrite) /\ SentToWrite + Len(inflateBuf) = inflated
              /\ IsRun(unread, inflated) /\ JustGot = Len(hd)
          BY <2>1, <3>2 DEF DecompressHas, Putting, JustGot
        <4>2. Len(<<>>) = 0 /\ \A a : IsRun(<<>>, a)
          BY DEF IsRun
        <4>3. Len(hd) \in Nat /\ Len(inflateBuf) \in Nat /\ <<>> \in Buffer
          BY <2>3 DEF Buffer
        <4> HIDE DEF going, came, hd
        <4> QED BY <2>3, <2>4, <4>1, <4>2, <4>3 DEF GotByDecompress
      <3>3. CASE Dec \notin Putting \cup {"take"}
        <4>1. /\ going = <<>> /\ came = <<>> /\ IsRun(unread, inflated)
              /\ IsRun(inflateBuf, SentToWrite) /\ SentToWrite + Len(inflateBuf) = inflated
              /\ JustGot = 0
          BY <2>1, <3>3 DEF DecompressHas, JustGot
        <4>2. Len(<<>>) = 0 /\ \A a : IsRun(<<>>, a)
          BY DEF IsRun
        <4>3. Len(unread) \in Nat /\ Len(inflateBuf) \in Nat /\ <<>> \in Buffer
          BY <2>3 DEF Buffer
        <4> HIDE DEF going, came, hd
        <4> QED BY <2>3, <2>4, <4>1, <4>2, <4>3 DEF GotByDecompress
      <3> QED BY <3>1, <3>2, <3>3
    <2>9. /\ Len(written) \in Nat /\ Len(hw) \in Nat /\ GotByWrite = Len(written) + Len(hw)
          /\ Len(going) \in Nat /\ Len(inflateBuf) \in Nat /\ Len(unread) \in Nat
          /\ Len(came) \in Nat
      BY <2>3, <2>8 DEF Buffer, GotByWrite
    <2> DEFINE w == Len(written)
               u1 == SentToWrite + Len(going)
               u2 == inflated + Len(unread)
    <2> HIDE DEF hw, hd, hr, out, in, going, came
    <2>10. /\ w \in Nat /\ u1 \in Nat /\ u2 \in Nat
           /\ Spans(written, 0, w) /\ Spans(hw, w, GotByWrite)
      <3>1. w \in Nat /\ u1 \in Nat /\ u2 \in Nat
        BY <2>3, <2>4, <2>9
      <3>2. Spans(written, 0, w)
        BY <2>0, <2>3, <2>9 DEF Spans
      <3>3. Spans(hw, w, GotByWrite)
        BY <2>3, <2>7, <2>9 DEF Spans, hw
      <3> QED BY <3>1, <3>2, <3>3
    <2>11. /\ Spans(out, GotByWrite, SentToWrite) /\ Spans(going, SentToWrite, u1)
           /\ Spans(inflateBuf, u1, inflated) /\ Spans(unread, inflated, u2)
           /\ Spans(came, u2, GotByDecompress) /\ Spans(in, GotByDecompress, SentByRead)
      <3>1. Spans(out, GotByWrite, SentToWrite) /\ Spans(in, GotByDecompress, SentByRead)
        BY <2>5, <2>6 DEF Spans
      <3>2. /\ SentToWrite + Len(going) = u1 /\ u1 + Len(inflateBuf) = inflated
            /\ inflated + Len(unread) = u2 /\ u2 + Len(came) = GotByDecompress
        BY <2>8
      <3>3. IsRun(inflateBuf, u1)
        BY <2>8
      <3>6. IsRun(came, u2)
        BY <2>8
      <3> HIDE DEF u1, u2
      <3>4. Spans(going, SentToWrite, u1) /\ Spans(came, u2, GotByDecompress)
        BY <2>8, <3>2, <3>6 DEF Spans
      <3>5. Spans(inflateBuf, u1, inflated) /\ Spans(unread, inflated, u2)
        BY <2>3, <2>8, <3>2, <3>3 DEF Spans
      <3> QED BY <3>1, <3>4, <3>5
    <2>12. Spans(hr, SentByRead, ReadSoFar)
      BY <2>3, <2>7 DEF Spans, hr
    <2> HIDE DEF w, u1, u2
    <2>13. Spans(hw \o out \o going, w, u1)
      BY <2>4, <2>10, <2>11, SpansJoin
    <2>14. Spans(hw \o out \o going \o inflateBuf \o unread, w, u2)
      BY <2>3, <2>10, <2>11, <2>13, SpansJoin
    <2>15. Spans(hw \o out \o going \o inflateBuf \o unread \o came \o in, w, SentByRead)
      BY <2>4, <2>10, <2>11, <2>14, SpansJoin
    <2>16. Spans(InFlight, w, ReadSoFar)
      BY <2>2, <2>4, <2>10, <2>12, <2>15, SpansJoin
    <2>17. Spans(written \o InFlight, 0, ReadSoFar)
      BY <2>4, <2>10, <2>16, SpansJoin
    <2> HIDE DEF InFlight
    <2> DEFINE all == written \o InFlight
    <2> HIDE DEF all
    <2>18. all \in Buffer /\ IsRun(all, 0) /\ Len(all) = ReadSoFar
      BY <2>17 DEF Spans, all, Buffer
    <2>19. all = [k \in 1 .. Len(all) |-> 0 + k]
      BY <2>18, RunIs
    <2>20. \A k \in 1 .. ReadSoFar : 0 + k = k
      BY <2>4
    <2> QED BY <2>18, <2>19, <2>20 DEF ReadSoFar, all
  <1> QED BY <1>1, FlowInvariant, PTL

-----------------------------------------------------------------------------
(* What a good result is worth *)

AllOk == \A t \in Threads : ret[t] = "ok"

\* The decompress thread is past its loop.
Finishing == Dec \in {"flush"} \cup Ended \/ (Dec \in Putting /\ resume = "flush")

\* The read and the decompress thread have nothing left to send or to get.
Drained ==
    /\ pc["read"] \in {"created", "loop"} \cup Ended
    /\ pc["read"] \notin Ended => readCount = BufferCount
    /\ Dec \in {"created", "loop", "work", "flush"} \cup Ended
    /\ Dec \notin Ended => unread = <<>> /\ inflateBuf = <<>> /\ inflated >= TotalUnits

\* Until the write thread is done, who is woken finds what it waited for.
Room == GetResults /\ pc["write"] # "done" => WokenRightly

\* What each thread knows of the size when it goes on, and when it is past its loop.
Loops ==
    /\ file.faults = {} => AllOk
    /\ mpc = "closed" \/ outcome = "ok" => pc["write"] \in {"set", "done"}
    /\ Dec \in Getting \cup {"take"} => inflated < TotalUnits
    /\ pc["write"] \in Getting \cup {"store"} => Len(written) < TotalUnits
    /\ ret["decompress"] = "ok" /\ Dec \in Ended => inflateBuf = <<>>
    /\ AllOk /\ pc["read"] \in Ended => readCount = BufferCount

\* What the empty buffer means to the thread that gets it, and what is behind a
\* thread that ended well.
Endings ==
    /\ AllOk /\ Dec = "take" => hand["decompress"] # <<>>
    /\ AllOk /\ Finishing => inflated >= TotalUnits
    /\ Calm /\ ret["decompress"] = "fail" => SentToWrite < TotalUnits
    /\ AllOk /\ pc["write"] = "store" => hand["write"] # <<>>
    /\ GetResults /\ pc["write"] = "store" /\ hand["write"] = <<>> => ~running["decompress"]
    /\ GetResults /\ ret["write"] = "ok" /\ pc["write"] \in Ended =>
         Len(written) >= TotalUnits \/ ~running["decompress"]
    /\ AllOk /\ pc["write"] \in Ended => Len(written) >= TotalUnits
    /\ GetResults /\ ret["write"] = "ok" /\ pc["write"] \in Ended /\ Len(written) >= TotalUnits =>
         Drained
    /\ Len(written) <= TotalUnits

Sizes ==
    /\ running["write"] => RingSize(ring["out"]) <= Capacity
    /\ running["decompress"] => RingSize(ring["in"]) <= Capacity
    /\ AllOk => \A l \in Links : RingSize(ring[l]) <= Capacity

WholeInv == FlowInv /\ Room /\ Loops /\ Endings /\ Sizes


LEMMA SizesAgree ==
    ASSUME Honest, TypesOK
    PROVE  /\ TotalUnits \in Nat \ {0} /\ writeSize = TotalUnits /\ file.size = TotalUnits
           /\ BufferCount \in Nat \ {0}
           /\ inflated \in Nat /\ Len(written) \in Nat /\ readCount \in 0 .. BufferCount
  BY UnitsAre DEF Honest, TypesOK, Buffer

\* What the steps of other threads do to a thread: nothing, or it is started
\* or woken.
Still(t) ==
    /\ hand'[t] = hand[t] /\ ret'[t] = ret[t]
    /\ \/ pc'[t] = pc[t]
       \/ pc[t] = "created" /\ pc'[t] = "loop"
       \/ pc[t] = "putWait" /\ pc'[t] = "putWoken"
       \/ pc[t] = "getWait" /\ pc'[t] = "getWoken"

ReadStill == Still("read") /\ UNCHANGED <<file, readCount>>
DecompressStill ==
    Still("decompress") /\ UNCHANGED <<file, unread, inflateBuf, inflated, resume>>
WriteStill == Still("write") /\ UNCHANGED <<file, written>>

\* Putting a buffer disturbs the consumer and getting one the producer, no more
\* than by waking it.
LEMMA LinkStill ==
    ASSUME TypesOK, NEW l \in Links,
           \/ Put(l) \/ PutWoken(l) \/ PutSleep(l)
           \/ Get(l) \/ GetWoken(l) \/ GetSleep(l)
    PROVE  /\ UNCHANGED <<file, running, result, workVars>>
           /\ Put(l) \/ PutWoken(l) \/ PutSleep(l) => \A t \in Threads \ {Producer[l]} : Still(t)
           /\ Get(l) \/ GetWoken(l) \/ GetSleep(l) => \A t \in Threads \ {Consumer[l]} : Still(t)
  <1>0. /\ PlacesOK /\ ret = [t \in Threads |-> ret[t]] /\ hand = [t \in Threads |-> hand[t]]
        /\ Threads = {"read", "decompress", "write"}
    BY DEF TypesOK, Threads
  <1>1. UNCHANGED <<file, running, result, workVars>>
    BY LinkTypes
  <1>2. ASSUME Put(l) \/ PutWoken(l) \/ PutSleep(l), NEW t \in Threads, t # Producer[l]
        PROVE  Still(t)
    <2>1. CASE l = "in"
      BY <1>0, <1>2, <2>1, LinkEnds
         DEF Put, PutWoken, PutSleep, Deliver, FallAsleep, Return, Goto, Still, PlacesOK
    <2>2. CASE l = "out"
      BY <1>0, <1>2, <2>2, LinkEnds
         DEF Put, PutWoken, PutSleep, Deliver, FallAsleep, Return, Goto, Still, PlacesOK
    <2> QED BY <2>1, <2>2, LinkEnds
  <1>3. ASSUME Get(l) \/ GetWoken(l) \/ GetSleep(l), NEW t \in Threads, t # Consumer[l]
        PROVE  Still(t)
    <2>1. CASE l = "in"
      BY <1>0, <1>3, <2>1, LinkEnds
         DEF Get, GetWoken, GetSleep, Fetch, FallAsleep, Return, Goto, Still, PlacesOK
    <2>2. CASE l = "out"
      BY <1>0, <1>3, <2>2, LinkEnds
         DEF Get, GetWoken, GetSleep, Fetch, FallAsleep, Return, Goto, Still, PlacesOK
    <2> QED BY <2>1, <2>2, LinkEnds
  <1> QED BY <1>1, <1>2, <1>3

\* The steps of one thread leave the others where they are.
LEMMA OwnSteps ==
    ASSUME TypesOK
    PROVE  /\ ReadLoop \/ ReadSource \/ ReadFails => DecompressStill /\ WriteStill
           /\ DecompressLoop \/ TakeBuffer \/ Inflate \/ InflateEnds => ReadStill /\ WriteStill
           /\ FinalFlush \/ DecompressFails => ReadStill /\ WriteStill
           /\ WriteLoop \/ Store \/ WriteFails => ReadStill /\ DecompressStill
           /\ \A t \in Threads : ClearRunning(t) \/ SetResult(t) =>
                 /\ \A s \in Threads \ {t} : Still(s)
                 /\ UNCHANGED <<file, ring, hand, ret, workVars>>
  <1>0. /\ PlacesOK /\ ret = [t \in Threads |-> ret[t]] /\ hand = [t \in Threads |-> hand[t]]
        /\ Threads = {"read", "decompress", "write"}
    BY DEF TypesOK, Threads
  <1> USE DEF PlacesOK, Still, Goto, Return, ReadStill, DecompressStill, WriteStill, workVars
  <1>1. ReadLoop \/ ReadSource \/ ReadFails => DecompressStill /\ WriteStill
    BY <1>0 DEF ReadLoop, ReadSource, ReadFails, FailsIn
  <1>2. DecompressLoop \/ TakeBuffer => ReadStill /\ WriteStill
    BY <1>0 DEF DecompressLoop, TakeBuffer
  <1>3. Inflate \/ InflateEnds => ReadStill /\ WriteStill
    BY <1>0 DEF Inflate, InflateEnds
  <1>4. FinalFlush \/ DecompressFails => ReadStill /\ WriteStill
    BY <1>0 DEF FinalFlush, DecompressFails, FailsIn
  <1>5. WriteLoop \/ Store \/ WriteFails => ReadStill /\ DecompressStill
    BY <1>0 DEF WriteLoop, Store, WriteFails, FailsIn
  <1>6. ASSUME NEW t \in Threads, ClearRunning(t) \/ SetResult(t)
        PROVE  /\ \A s \in Threads \ {t} : Still(s)
               /\ UNCHANGED <<file, ring, hand, ret, workVars>>
    BY <1>0, <1>6 DEF ClearRunning, SetResult, linkVars
  <1> QED BY <1>1, <1>2, <1>3, <1>4, <1>5, <1>6

\* Starting and waking threads, and watching them, leaves them still.
LEMMA CoordinatorStill ==
    ASSUME TypesOK, Control, Coordinator \/ Returned \/ UNCHANGED vars
    PROVE  /\ ReadStill /\ DecompressStill /\ WriteStill
           /\ UNCHANGED <<file, ring, hand, ret, flagVars, workVars>>
  <1>0. PlacesOK /\ Threads = {"read", "decompress", "write"}
    BY DEF TypesOK, Threads
  <1>1. UNCHANGED <<file, ring, hand, ret, flagVars, workVars>>
    BY DEF Coordinator, Returned, vars, StartThread, StartFails, WatchDone, WakeAll, Poll,
           NoneRunning, TakeResults, Join, linkVars
  <1>2. \A t \in Threads : Still(t)
    <2>1. CASE StartThread
      <3>1. \E t \in Threads : pc[t] = "created" /\ pc' = [pc EXCEPT ![t] = "loop"]
        BY <1>0, <2>1, StartsOne
      <3> QED BY <1>0, <1>1, <3>1 DEF Still, PlacesOK
    <2>2. CASE WakeAll
      <3>1. pc' = [t \in Threads |-> CASE pc[t] = "putWait" -> "putWoken"
                                       [] pc[t] = "getWait" -> "getWoken"
                                       [] OTHER -> pc[t]]
        BY <2>2 DEF WakeAll
      <3> QED BY <1>1, <3>1 DEF Still
    <2>3. CASE \/ StartFails \/ WatchDone \/ Poll \/ NoneRunning \/ TakeResults \/ Join
               \/ UNCHANGED vars
      <3>1. UNCHANGED pc
        BY <2>3 DEF StartFails, WatchDone, Poll, NoneRunning, TakeResults, Join, vars
      <3> QED BY <1>1, <3>1 DEF Still
    <2> QED BY <2>1, <2>2, <2>3 DEF Coordinator, Returned
  <1> QED BY <1>0, <1>1, <1>2 DEF ReadStill, DecompressStill, WriteStill, workVars

\* Each thread does a step of its own or is left alone.
LEMMA ByThread ==
    ASSUME TypesOK, Control, [Next]_vars
    PROVE  /\ ReadThread \/ ReadStill
           /\ DecompressThread \/ DecompressStill
           /\ WriteThread \/ WriteStill
           /\ UNCHANGED file
  <1>0. Threads = {"read", "decompress", "write"}
    BY DEF Threads
  <1>1. CASE ReadThread
    <2>1. CASE ReadLoop \/ ReadSource \/ ReadFails
      BY <1>1, <2>1, OwnSteps DEF DecompressStill
    <2>2. CASE Put("in") \/ PutSleep("in") \/ PutWoken("in")
      <3>1. UNCHANGED <<file, workVars>> /\ Still("decompress") /\ Still("write")
        BY <1>0, <2>2, LinkEnds, LinkStill
      <3> QED BY <1>1, <3>1 DEF DecompressStill, WriteStill, workVars
    <2>3. CASE ClearRunning("read") \/ SetResult("read")
      BY <1>0, <1>1, <2>3, OwnSteps DEF DecompressStill, WriteStill, workVars
    <2> QED BY <1>1, <2>1, <2>2, <2>3 DEF ReadThread
  <1>2. CASE DecompressThread
    <2>1. CASE \/ DecompressLoop \/ TakeBuffer \/ Inflate \/ InflateEnds \/ FinalFlush
               \/ DecompressFails
      <3>1. ReadStill /\ WriteStill
        BY <2>1, OwnSteps
      <3> QED BY <1>2, <3>1 DEF ReadStill
    <2>2. CASE Get("in") \/ GetSleep("in") \/ GetWoken("in")
      <3>1. UNCHANGED <<file, workVars>> /\ Still("read") /\ Still("write")
        BY <1>0, <2>2, LinkEnds, LinkStill
      <3> QED BY <1>2, <3>1 DEF ReadStill, WriteStill, workVars
    <2>3. CASE Put("out") \/ PutSleep("out") \/ PutWoken("out")
      <3>1. UNCHANGED <<file, workVars>> /\ Still("read") /\ Still("write")
        BY <1>0, <2>3, LinkEnds, LinkStill
      <3> QED BY <1>2, <3>1 DEF ReadStill, WriteStill, workVars
    <2>4. CASE ClearRunning("decompress") \/ SetResult("decompress")
      BY <1>0, <1>2, <2>4, OwnSteps DEF ReadStill, WriteStill, workVars
    <2> QED BY <1>2, <2>1, <2>2, <2>3, <2>4 DEF DecompressThread
  <1>3. CASE WriteThread
    <2>1. CASE WriteLoop \/ Store \/ WriteFails
      BY <1>3, <2>1, OwnSteps DEF ReadStill
    <2>2. CASE Get("out") \/ GetSleep("out") \/ GetWoken("out")
      <3>1. UNCHANGED <<file, workVars>> /\ Still("read") /\ Still("decompress")
        BY <1>0, <2>2, LinkEnds, LinkStill
      <3> QED BY <1>3, <3>1 DEF ReadStill, DecompressStill, workVars
    <2>3. CASE ClearRunning("write") \/ SetResult("write")
      BY <1>0, <1>3, <2>3, OwnSteps DEF ReadStill, DecompressStill, workVars
    <2> QED BY <1>3, <2>1, <2>2, <2>3 DEF WriteThread
  <1>4. CASE Coordinator \/ Returned \/ UNCHANGED vars
    BY <1>4, CoordinatorStill
  <1> QED BY <1>1, <1>2, <1>3, <1>4 DEF Next

\* The counts of the chain, from the placeholder back to the source.
LEMMA ChainOrder ==
    ASSUME Honest, TypesOK, Chain
    PROVE  /\ GotByWrite \in Nat /\ SentToWrite \in Nat
           /\ GotByWrite = Len(written) + Len(hand["write"])
           /\ Len(written) \in Nat /\ Len(written) <= GotByWrite /\ GotByWrite <= SentToWrite
           /\ ret["decompress"] = "ok" =>
                /\ GotByDecompress \in Nat /\ SentByRead \in Nat
                /\ SentToWrite <= inflated
                /\ inflated + Len(unread) <= GotByDecompress
                /\ GotByDecompress <= SentByRead /\ SentByRead <= ReadSoFar
           /\ ReadSoFar \in Nat /\ ReadSoFar <= TotalUnits
           /\ ReadSoFar = TotalUnits <=> readCount = BufferCount
  <1>1. /\ GotByWrite \in Nat /\ SentToWrite \in Nat
        /\ GotByWrite = Len(written) + Len(hand["write"])
        /\ Len(written) \in Nat /\ Len(written) <= GotByWrite /\ GotByWrite <= SentToWrite
    BY ChainCounts DEF GotByWrite
  <1>2. ASSUME ret["decompress"] = "ok"
        PROVE  /\ GotByDecompress \in Nat /\ SentByRead \in Nat
               /\ SentToWrite <= inflated
               /\ inflated + Len(unread) <= GotByDecompress
               /\ GotByDecompress <= SentByRead /\ SentByRead <= ReadSoFar
    <2>1. DecompressHas /\ SentByRead <= ReadSoFar
      BY <1>2 DEF Chain
    <2>2. /\ Len(hand["decompress"]) \in Nat /\ Len(inflateBuf) \in Nat /\ inflated \in Nat
          /\ Len(unread) \in Nat
      BY LinkEnds DEF TypesOK, Buffer
    <2>3. SentToWrite <= inflated
      BY <1>1, <2>1, <2>2 DEF DecompressHas
    <2>4. JustGot \in Nat
      BY <2>2 DEF JustGot
    <2>5. inflated + Len(unread) <= GotByDecompress
      BY <2>2, <2>4 DEF GotByDecompress
    <2> QED BY <1>2, <2>1, <2>3, <2>5, ChainCounts
  <1>3. /\ ReadSoFar \in Nat /\ ReadSoFar <= TotalUnits
        /\ ReadSoFar = TotalUnits <=> readCount = BufferCount
    <2>1. readCount \in 0 .. BufferCount /\ BufferCount \in Nat
      BY UnitsAre DEF TypesOK
    <2>2. UnitsBefore(readCount + 1) \in Nat /\ UnitsBefore(readCount + 1) <= TotalUnits
      BY <2>1, UnitsAre DEF TypesOK
    <2>3. readCount = BufferCount => UnitsBefore(readCount + 1) = TotalUnits
      BY UnitsAre DEF TypesOK
    <2>4. ASSUME readCount # BufferCount
          PROVE  UnitsBefore(readCount + 1) < TotalUnits
      <3> DEFINE i == readCount + 1
      <3>1. i \in 1 .. BufferCount /\ i \in 0 .. BufferCount
        BY <2>1, <2>4
      <3> HIDE DEF i
      <3>2. /\ UnitsBefore(i) < UnitsBefore(i + 1) /\ UnitsBefore(i + 1) <= TotalUnits
            /\ UnitsBefore(i) \in Nat /\ UnitsBefore(i + 1) \in Nat /\ TotalUnits \in Nat
        BY <3>1, UnitsAre DEF TypesOK
      <3>3. UnitsBefore(i) < TotalUnits
        BY <3>2
      <3> QED BY <3>3 DEF i
    <2>5. TotalUnits \in Nat
      BY UnitsAre DEF TypesOK
    <2> QED BY <2>2, <2>3, <2>4, <2>5 DEF ReadSoFar
  <1> QED BY <1>1, <1>2, <1>3

\* A thread that has ended only clears its flag and stores its result.
LEMMA EndedStays ==
    ASSUME TypesOK, Control, [Next]_vars
    PROVE  /\ pc["read"] \in Ended => /\ pc'["read"] \in Ended /\ ret'["read"] = ret["read"]
                                      /\ readCount' = readCount
           /\ Dec \in Ended => /\ Dec' \in Ended /\ ret'["decompress"] = ret["decompress"]
                               /\ UNCHANGED <<unread, inflateBuf, inflated, resume>>
           /\ pc["write"] \in Ended => /\ pc'["write"] \in Ended /\ ret'["write"] = ret["write"]
                                       /\ UNCHANGED written
           /\ \A t \in Threads : /\ pc[t] \in {"set", "done"} => pc'[t] \in {"set", "done"}
                                 /\ pc[t] = "done" => pc'[t] = "done"
  <1>0. /\ Threads = {"read", "decompress", "write"} /\ PlacesOK
        /\ resume \in {"loop", "work", "flush"}
    BY DEF Threads, TypesOK
  <1> USE DEF Ended, Still, PlacesOK, Goto, Dec
  <1>1. ASSUME pc["read"] \in Ended
        PROVE  /\ pc'["read"] \in Ended /\ ret'["read"] = ret["read"] /\ readCount' = readCount
               /\ pc["read"] \in {"set", "done"} => pc'["read"] \in {"set", "done"}
               /\ pc["read"] = "done" => pc'["read"] = "done"
    <2>1. ReadStill \/ ClearRunning("read") \/ SetResult("read")
      BY <1>1, ByThread, LinkEnds DEF ReadThread, ReadLoop, ReadSource, ReadFails, FailsIn, Put,
         PutWoken, PutSleep, FallAsleep
    <2> QED BY <1>0, <1>1, <2>1 DEF ReadStill, ClearRunning, SetResult, workVars
  <1>2. ASSUME Dec \in Ended
        PROVE  /\ Dec' \in Ended /\ ret'["decompress"] = ret["decompress"]
               /\ UNCHANGED <<unread, inflateBuf, inflated, resume>>
               /\ Dec \in {"set", "done"} => Dec' \in {"set", "done"}
               /\ Dec = "done" => Dec' = "done"
    <2>1. DecompressStill \/ ClearRunning("decompress") \/ SetResult("decompress")
      BY <1>2, ByThread, LinkEnds DEF DecompressThread, DecompressLoop, TakeBuffer, Inflate,
         InflateEnds, FinalFlush, DecompressFails, FailsIn, Put, PutWoken, PutSleep, Get, GetWoken,
         GetSleep, FallAsleep
    <2> QED BY <1>0, <1>2, <2>1 DEF DecompressStill, ClearRunning, SetResult, workVars
  <1>3. ASSUME pc["write"] \in Ended
        PROVE  /\ pc'["write"] \in Ended /\ ret'["write"] = ret["write"] /\ UNCHANGED written
               /\ pc["write"] \in {"set", "done"} => pc'["write"] \in {"set", "done"}
               /\ pc["write"] = "done" => pc'["write"] = "done"
    <2>1. WriteStill \/ ClearRunning("write") \/ SetResult("write")
      BY <1>3, ByThread, LinkEnds DEF WriteThread, WriteLoop, Store, WriteFails, FailsIn, Get,
         GetWoken, GetSleep, FallAsleep
    <2> QED BY <1>0, <1>3, <2>1 DEF WriteStill, ClearRunning, SetResult, workVars
  <1> QED BY <1>0, <1>1, <1>2, <1>3

\* A failure stays a failure, known or not, and a thread that ended has ended.
LEMMA OneWay ==
    ASSUME TypesOK, Control, [Next]_vars
    PROVE  /\ GetResults' => GetResults
           /\ AllOk' => AllOk
           /\ AllOk => GetResults
           /\ \A t \in Threads : running'[t] => running[t]
           /\ \A t \in Threads : ret'[t] = "ok" => ret[t] = "ok"
  <1>0. /\ Threads = {"read", "decompress", "write"} /\ Control'
        /\ \A t \in Threads : ret[t] \in {"ok", "fail"}
    BY ControlStep DEF Threads, TypesOK
  <1>1. \A t \in Threads : ret'[t] = "ok" => ret[t] = "ok"
    BY <1>0, EndedStays DEF Control, Dec
  <1>2. \A t \in Threads : running'[t] => running[t]
    BY <1>0, EndedStays DEF Control
  <1>3. AllOk => GetResults
    BY DEF AllOk, GetResults, Control
  <1>4. GetResults' => GetResults
    <2> SUFFICES ASSUME GetResults', NEW t \in Threads, result[t] # "ok" PROVE FALSE
      BY DEF GetResults
    <2>1. pc[t] = "done" /\ ret[t] # "ok"
      BY DEF Control
    <2>2. pc'[t] = "done" /\ ret'[t] # "ok"
      BY <1>1, <2>1, EndedStays
    <2> QED BY <1>0, <2>2 DEF Control, GetResults
  <1> QED BY <1>1, <1>2, <1>3, <1>4 DEF AllOk

\* What a push and a pop do to the size of a ring.
LEMMA RingSizes ==
    ASSUME TypesOK, NEW l \in Links, NEW x \in Buffer
    PROVE  /\ Capacity \in Nat \ {0} /\ RingSize(ring[l]) \in Nat
           /\ RingSize(ring[l]) < Capacity =>
                RingSize(RingPush(ring[l], x)) = RingSize(ring[l]) + 1
           /\ RingSize(ring[l]) > 0 /\ RingSize(ring[l]) <= Capacity =>
                RingSize(RingPop(ring[l])) = RingSize(ring[l]) - 1
  <1>1. ring[l] \in RingType(Buffer) /\ Capacity \in Nat \ {0}
    BY CapacityAssumption DEF TypesOK
  <1>2. RingSize(ring[l]) \in Nat
    <2>1. RingSize(ring[l]) \in 0 .. RingSpan - 1 /\ RingSpan \in Nat
      BY <1>1, RingSizeIs, RingFacts
    <2> QED BY <2>1
  <1>3. RingSize(ring[l]) < Capacity => RingSize(RingPush(ring[l], x)) = RingSize(ring[l]) + 1
    BY <1>1, RingPushAppends
  <1>4. RingSize(ring[l]) > 0 /\ RingSize(ring[l]) <= Capacity =>
           RingSize(RingPop(ring[l])) = RingSize(ring[l]) - 1
    BY <1>1, <1>2, RingPopTakesFront
  <1> QED BY <1>1, <1>2, <1>3, <1>4

\* As long as nobody is woken by the coordinator, the steps on a link wake a
\* thread only for what it waits for.
LEMMA LinkRoom ==
    ASSUME TypesOK, WokenRightly, NEW l \in Links,
           \/ Put(l) \/ PutWoken(l) \/ PutSleep(l)
           \/ Get(l) \/ GetWoken(l) \/ GetSleep(l)
    PROVE  WokenRightly'
  <1> DEFINE p == Producer[l]
             c == Consumer[l]
             n == RingSize(ring[l])
  <1>0. /\ PlacesOK /\ Threads = {"read", "decompress", "write"} /\ Links = {"in", "out"}
        /\ ring = [k \in Links |-> ring[k]] /\ resume \in {"loop", "work", "flush"}
        /\ p \in Threads /\ c \in Threads /\ p # c /\ Capacity \in Nat \ {0} /\ n \in Nat
        /\ hand[p] \in Buffer /\ n <= Capacity
    <2>1. hand[p] \in Buffer
      BY LinkEnds DEF TypesOK
    <2> QED BY <2>1, LinkEnds, RingSizes DEF TypesOK, WokenRightly
  <1>1. /\ pc[p] = "putWoken" => n < Capacity
        /\ pc[c] = "getWoken" => n > 0
    BY LinkEnds DEF WokenRightly, Dec
  <1>2. CASE /\ (pc[p] = "put" /\ ~RingFull(ring[l])) \/ pc[p] = "putWoken"
             /\ Deliver(l) /\ GetResults
    <2>1. n < Capacity
      BY <1>0, <1>1, <1>2 DEF RingFull
    <2>2. /\ ring' = [ring EXCEPT ![l] = RingPush(ring[l], hand[p])]
          /\ pc' = [pc EXCEPT ![p] = AfterPut(p),
                              ![c] = IF pc[c] = "getWait" THEN "getWoken" ELSE pc[c]]
          /\ AfterPut(p) \in {"loop", "work", "flush"}
      BY <1>0, <1>2 DEF Deliver, AfterPut
    <2>3. RingSize(ring'[l]) = n + 1 /\ \A k \in Links \ {l} : ring'[k] = ring[k]
      BY <1>0, <2>1, <2>2, RingSizes
    <2>4. /\ pc'[p] \in {"loop", "work", "flush"}
          /\ pc'[c] # "getWoken" => pc'[c] = pc[c]
          /\ pc'[c] # pc[c] => pc'[c] = "getWoken"
          /\ \A t \in Threads \ {p, c} : pc'[t] = pc[t]
      BY <1>0, <2>2 DEF PlacesOK
    <2> HIDE DEF p, c, n
    <2>5. CASE l = "in"
      BY <1>0, <2>1, <2>3, <2>4, <2>5, LinkEnds DEF WokenRightly, Dec, p, c, n
    <2>6. CASE l = "out"
      BY <1>0, <2>1, <2>3, <2>4, <2>6, LinkEnds DEF WokenRightly, Dec, p, c, n
    <2> QED BY <1>0, <2>5, <2>6
  <1>3. CASE /\ (pc[c] = "get" /\ n # 0) \/ pc[c] = "getWoken"
             /\ Fetch(l) /\ GetResults
    <2>1. n > 0
      BY <1>0, <1>1, <1>3
    <2>2. /\ ring' = [ring EXCEPT ![l] = RingPop(ring[l])]
          /\ pc' = [pc EXCEPT ![c] = AfterGet(c),
                              ![p] = IF pc[p] = "putWait" THEN "putWoken" ELSE pc[p]]
          /\ AfterGet(c) \in {"take", "store"}
      BY <1>0, <1>3 DEF Fetch, AfterGet
    <2>3. RingSize(ring'[l]) = n - 1 /\ \A k \in Links \ {l} : ring'[k] = ring[k]
      <3>1. RingSize(RingPop(ring[l])) = n - 1
        BY <1>0, <2>1, RingSizes
      <3> QED BY <1>0, <2>2, <3>1
    <2>4. /\ pc'[c] \in {"take", "store"}
          /\ pc'[p] # "putWoken" => pc'[p] = pc[p]
          /\ pc'[p] # pc[p] => pc'[p] = "putWoken"
          /\ \A t \in Threads \ {p, c} : pc'[t] = pc[t]
      BY <1>0, <2>2 DEF PlacesOK
    <2> HIDE DEF p, c, n
    <2>5. CASE l = "in"
      BY <1>0, <2>1, <2>3, <2>4, <2>5, LinkEnds DEF WokenRightly, Dec, p, c, n
    <2>6. CASE l = "out"
      BY <1>0, <2>1, <2>3, <2>4, <2>6, LinkEnds DEF WokenRightly, Dec, p, c, n
    <2> QED BY <1>0, <2>5, <2>6
  <1>4. ASSUME UNCHANGED ring,
               \E t \in Threads : \E x \in {"loop", "work", "flush", "take", "store", "end",
                                            "putSleep", "putWait", "getSleep", "getWait"} :
                  pc' = [pc EXCEPT ![t] = x]
        PROVE  WokenRightly'
    BY <1>0, <1>4 DEF WokenRightly, Dec, PlacesOK
  <1>5. CASE Put(l) \/ PutWoken(l) \/ PutSleep(l)
    <2>1. CASE UNCHANGED ring
      <3>1. \E x \in {"loop", "work", "flush", "end", "putSleep", "putWait"} :
               pc' = [pc EXCEPT ![p] = x] \/ WokenRightly'
        BY <1>0, <1>2, <1>5 DEF Put, PutWoken, PutSleep, Deliver, FallAsleep, Return, Goto, AfterPut
      <3> QED BY <1>0, <1>4, <2>1, <3>1
    <2>2. CASE ~ UNCHANGED ring
      BY <1>2, <1>5, <2>2 DEF Put, PutWoken, PutSleep, Deliver, FallAsleep
    <2> QED BY <2>1, <2>2
  <1>6. CASE Get(l) \/ GetWoken(l) \/ GetSleep(l)
    <2>1. CASE UNCHANGED ring
      <3>1. \E x \in {"take", "store", "end", "getSleep", "getWait"} :
               pc' = [pc EXCEPT ![c] = x] \/ WokenRightly'
        BY <1>0, <1>3, <1>6 DEF Get, GetWoken, GetSleep, Fetch, FallAsleep, Return, Goto, AfterGet
      <3> QED BY <1>0, <1>4, <2>1, <3>1
    <2>2. CASE ~ UNCHANGED ring
      BY <1>3, <1>6, <2>2 DEF Get, GetWoken, GetSleep, Fetch, FallAsleep
    <2> QED BY <2>1, <2>2
  <1> QED BY <1>5, <1>6

\* Only a step on a link changes a ring, and only while no failure is known.
LEMMA RingMoves ==
    ASSUME [Next]_vars
    PROVE  \/ UNCHANGED ring
           \/ \E l \in Links : /\ Put(l) \/ PutWoken(l) \/ Get(l) \/ GetWoken(l)
                               /\ GetResults
  <1>1. CASE \E l \in Links : \/ Put(l) \/ PutWoken(l) \/ PutSleep(l)
                              \/ Get(l) \/ GetWoken(l) \/ GetSleep(l)
    BY <1>1 DEF Put, PutWoken, PutSleep, Get, GetWoken, GetSleep, Deliver, Fetch, FallAsleep
  <1>2. CASE \/ ReadLoop \/ ReadSource \/ DecompressLoop \/ TakeBuffer \/ Inflate \/ InflateEnds
             \/ FinalFlush \/ WriteLoop \/ Store
             \/ \E t \in Threads, places \in SUBSET Working : FailsIn(t, places)
             \/ \E t \in Threads : ClearRunning(t) \/ SetResult(t)
             \/ StartThread \/ WakeAll
             \/ \/ StartFails \/ WatchDone \/ Poll \/ NoneRunning \/ TakeResults \/ Join
                \/ UNCHANGED vars
    BY <1>2 DEF ReadLoop, ReadSource, DecompressLoop, TakeBuffer, Inflate, InflateEnds, FinalFlush,
        WriteLoop, Store, FailsIn, ClearRunning, SetResult, StartThread, WakeAll, StartFails,
        WatchDone, Poll, NoneRunning, TakeResults, Join, vars, linkVars
  <1> QED BY <1>1, <1>2, Steps

LEMMA RoomStep ==
    ASSUME TypesOK, Control, Room, [Next]_vars
    PROVE  Room'
  <1> SUFFICES ASSUME GetResults', pc'["write"] # "done" PROVE WokenRightly'
    BY DEF Room
  <1>0. /\ Threads = {"read", "decompress", "write"} /\ PlacesOK
        /\ GetResults /\ pc["write"] # "done" /\ WokenRightly
    BY OneWay, EndedStays DEF Threads, TypesOK, Room
  <1>1. ASSUME UNCHANGED ring, \A t \in Threads : pc'[t] \in {"putWoken", "getWoken"} => pc'[t] = pc[t]
        PROVE  WokenRightly'
    BY <1>0, <1>1 DEF WokenRightly, Dec
  <1>2. CASE \E l \in Links : \/ Put(l) \/ PutWoken(l) \/ PutSleep(l)
                              \/ Get(l) \/ GetWoken(l) \/ GetSleep(l)
    BY <1>0, <1>2, LinkRoom
  <1>3. CASE WakeAll
    BY <1>0, <1>3 DEF WakeAll, Control
  <1>4. CASE \/ ReadLoop \/ ReadSource \/ DecompressLoop \/ TakeBuffer \/ Inflate \/ InflateEnds
             \/ FinalFlush \/ WriteLoop \/ Store
             \/ \E t \in Threads, places \in SUBSET Working : FailsIn(t, places)
             \/ \E t \in Threads : ClearRunning(t) \/ SetResult(t)
    <2>1. UNCHANGED ring
      BY <1>4 DEF ReadLoop, ReadSource, DecompressLoop, TakeBuffer, Inflate, InflateEnds, FinalFlush,
        WriteLoop, Store, FailsIn, ClearRunning, SetResult, linkVars
    <2>2. \/ UNCHANGED pc
          \/ \E t \in Threads : \E x \in {"loop", "source", "put", "get", "work", "flush", "end",
                                          "set", "done"} : pc' = [pc EXCEPT ![t] = x]
      BY <1>0, <1>4 DEF ReadLoop, ReadSource, DecompressLoop, TakeBuffer, Inflate, InflateEnds,
        FinalFlush, WriteLoop, Store, FailsIn, ClearRunning, SetResult, Return, Goto
    <2> QED BY <1>0, <1>1, <2>1, <2>2 DEF PlacesOK
  <1>5. CASE StartThread
    <2>1. UNCHANGED ring /\ \E t \in Threads : pc' = [pc EXCEPT ![t] = "loop"]
      BY <1>0, <1>5, StartsOne DEF StartThread, linkVars
    <2> QED BY <1>0, <1>1, <2>1 DEF PlacesOK
  <1>6. CASE \/ StartFails \/ WatchDone \/ Poll \/ NoneRunning \/ TakeResults \/ Join
             \/ UNCHANGED vars
    BY <1>1, <1>6 DEF StartFails, WatchDone, Poll, NoneRunning, TakeResults, Join, vars, linkVars
  <1> QED BY <1>2, <1>3, <1>4, <1>5, <1>6, Steps

\* When nothing may fail and no failure is known, nothing fails.
LEMMA NothingFails ==
    ASSUME TypesOK, Control, GetResults, file.faults = {}, AllOk, [Next]_vars
    PROVE  AllOk'
  <1>0. Threads = {"read", "decompress", "write"} /\ ret = [t \in Threads |-> ret[t]]
    BY DEF Threads, TypesOK
  <1>1. CASE \E t \in Threads, places \in SUBSET Working : FailsIn(t, places)
    BY <1>1 DEF FailsIn
  <1>2. CASE \E l \in Links : \/ Put(l) \/ PutWoken(l) \/ PutSleep(l)
                              \/ Get(l) \/ GetWoken(l) \/ GetSleep(l)
    BY <1>2 DEF Put, PutWoken, PutSleep, Get, GetWoken, GetSleep, Deliver, Fetch, FallAsleep, AllOk
  <1>3. CASE \/ ReadLoop \/ ReadSource \/ DecompressLoop \/ TakeBuffer \/ Inflate \/ InflateEnds
             \/ FinalFlush \/ WriteLoop \/ Store
    BY <1>0, <1>3 DEF ReadLoop, ReadSource, DecompressLoop, TakeBuffer, Inflate, InflateEnds,
        FinalFlush, WriteLoop, Store, Return, AllOk
  <1>4. CASE \/ \E t \in Threads : ClearRunning(t) \/ SetResult(t)
             \/ StartThread \/ WakeAll
             \/ \/ StartFails \/ WatchDone \/ Poll \/ NoneRunning \/ TakeResults \/ Join
                \/ UNCHANGED vars
    BY <1>4 DEF ClearRunning, SetResult, StartThread, WakeAll, StartFails, WatchDone, Poll,
        NoneRunning, TakeResults, Join, vars, AllOk
  <1> QED BY <1>1, <1>2, <1>3, <1>4, Steps

\* The coordinator sees the threads closed only after the write thread.
LEMMA ClosedStep ==
    ASSUME TypesOK, Control, [Next]_vars,
           mpc = "closed" \/ outcome = "ok" => pc["write"] \in {"set", "done"}
    PROVE  mpc' = "closed" \/ outcome' = "ok" => pc'["write"] \in {"set", "done"}
  <1>0. "write" \in Threads
    BY DEF Threads
  <1>1. CASE UNCHANGED <<mpc, outcome>>
    BY <1>0, <1>1, EndedStays
  <1>2. CASE mpc' \notin {"closed"} /\ outcome' = outcome
    BY <1>0, <1>2, EndedStays
  <1>3. CASE Poll \/ NoneRunning
    BY <1>0, <1>3, EndedStays DEF Poll, NoneRunning, IsAnyRunning, Control
  <1>4. CASE TakeResults
    BY <1>0, <1>4, EndedStays DEF TakeResults
  <1>5. CASE StartFails
    BY <1>5 DEF StartFails
  <1>6. CASE StartThread \/ WatchDone \/ WakeAll \/ Join
    BY <1>2, <1>6 DEF StartThread, WatchDone, WakeAll, Join
  <1>7. CASE \/ ReadLoop \/ ReadSource \/ DecompressLoop \/ TakeBuffer \/ Inflate \/ InflateEnds
             \/ FinalFlush \/ WriteLoop \/ Store
             \/ \E t \in Threads, places \in SUBSET Working : FailsIn(t, places)
             \/ \E t \in Threads : ClearRunning(t) \/ SetResult(t)
             \/ UNCHANGED vars
    BY <1>1, <1>7 DEF ReadLoop, ReadSource, DecompressLoop, TakeBuffer, Inflate, InflateEnds,
        FinalFlush, WriteLoop, Store, FailsIn, ClearRunning, SetResult, vars, coordVars
  <1>8. CASE \E l \in Links : \/ Put(l) \/ PutWoken(l) \/ PutSleep(l)
                              \/ Get(l) \/ GetWoken(l) \/ GetSleep(l)
    BY <1>1, <1>8 DEF Put, PutWoken, PutSleep, Get, GetWoken, GetSleep, FallAsleep, coordVars
  <1> QED BY <1>3, <1>4, <1>5, <1>6, <1>7, <1>8, Steps

\* The decompress thread asks for a buffer only while units are missing, and ends
\* well only with an empty inflate buffer.
LEMMA DecompressLoops ==
    ASSUME Honest, TypesOK, Control, [Next]_vars,
           Dec \in Getting \cup {"take"} => inflated < TotalUnits,
           ret["decompress"] = "ok" /\ Dec \in Ended => inflateBuf = <<>>
    PROVE  /\ Dec' \in Getting \cup {"take"} => inflated' < TotalUnits
           /\ ret'["decompress"] = "ok" /\ Dec' \in Ended => inflateBuf' = <<>>
  <1>0. /\ Threads = {"read", "decompress", "write"} /\ PlacesOK /\ writeSize = TotalUnits
        /\ resume \in {"loop", "work", "flush"} /\ ret = [t \in Threads |-> ret[t]]
    BY SizesAgree DEF Threads, TypesOK
  <1> USE DEF Ended, Getting, PlacesOK, Goto, Dec
  <1>1. CASE DecompressStill
    BY <1>1 DEF DecompressStill, Still
  <1>2. CASE DecompressLoop \/ TakeBuffer
    BY <1>0, <1>2 DEF DecompressLoop, TakeBuffer, workVars
  <1>3. CASE Inflate \/ InflateEnds
    BY <1>0, <1>3 DEF Inflate, InflateEnds, Return
  <1>4. CASE FinalFlush \/ DecompressFails
    BY <1>0, <1>4 DEF FinalFlush, DecompressFails, FailsIn, Return
  <1>5. CASE Get("in") \/ GetSleep("in") \/ GetWoken("in")
    BY <1>0, <1>5, LinkEnds
       DEF Get, GetSleep, GetWoken, FallAsleep, Fetch, Return, AfterGet, workVars
  <1>6. CASE Put("out") \/ PutSleep("out") \/ PutWoken("out")
    BY <1>0, <1>6, LinkEnds
       DEF Put, PutSleep, PutWoken, FallAsleep, Deliver, Return, AfterPut, workVars
  <1>7. CASE ClearRunning("decompress") \/ SetResult("decompress")
    BY <1>0, <1>7 DEF ClearRunning, SetResult, workVars
  <1> QED BY <1>1, <1>2, <1>3, <1>4, <1>5, <1>6, <1>7, ByThread DEF DecompressThread

\* The write thread asks for a buffer only while units are missing.
LEMMA WriteLoops ==
    ASSUME Honest, TypesOK, Control, [Next]_vars,
           pc["write"] \in Getting \cup {"store"} => Len(written) < TotalUnits
    PROVE  pc'["write"] \in Getting \cup {"store"} => Len(written') < TotalUnits
  <1>0. /\ Threads = {"read", "decompress", "write"} /\ PlacesOK /\ writeSize = TotalUnits
    BY SizesAgree DEF Threads, TypesOK
  <1> USE DEF Getting, PlacesOK, Goto
  <1>1. CASE WriteStill
    BY <1>1 DEF WriteStill, Still
  <1>2. CASE WriteLoop \/ Store \/ WriteFails
    BY <1>0, <1>2 DEF WriteLoop, Store, WriteFails, FailsIn, Return, workVars
  <1>3. CASE Get("out") \/ GetSleep("out") \/ GetWoken("out")
    BY <1>0, <1>3, LinkEnds
       DEF Get, GetSleep, GetWoken, FallAsleep, Fetch, Return, AfterGet, workVars
  <1>4. CASE ClearRunning("write") \/ SetResult("write")
    BY <1>0, <1>4 DEF ClearRunning, SetResult, workVars
  <1> QED BY <1>1, <1>2, <1>3, <1>4, ByThread DEF WriteThread

\* The read thread ends well, while none has failed, only after the last buffer.
LEMMA ReadLoops ==
    ASSUME TypesOK, Control, [Next]_vars,
           AllOk /\ pc["read"] \in Ended => readCount = BufferCount
    PROVE  AllOk' /\ pc'["read"] \in Ended => readCount' = BufferCount'
  <1> SUFFICES ASSUME AllOk', pc'["read"] \in Ended PROVE readCount' = BufferCount'
    OBVIOUS
  <1>0. /\ Threads = {"read", "decompress", "write"} /\ PlacesOK
        /\ ret = [t \in Threads |-> ret[t]] /\ AllOk /\ GetResults /\ ret'["read"] = "ok"
        /\ BufferCount' = BufferCount /\ BufferCount \in Nat /\ readCount \in 0 .. BufferCount
    BY OneWay, ByThread, UnitsAre DEF Threads, TypesOK, AllOk, BufferCount
  <1> USE DEF Ended, PlacesOK, Goto
  <1>1. CASE ReadStill
    BY <1>0, <1>1 DEF ReadStill, Still
  <1>2. CASE ReadLoop \/ ReadSource \/ ReadFails
    BY <1>0, <1>2 DEF ReadLoop, ReadSource, ReadFails, FailsIn, Return, workVars
  <1>3. CASE Put("in") \/ PutSleep("in") \/ PutWoken("in")
    BY <1>0, <1>3, LinkEnds
       DEF Put, PutSleep, PutWoken, FallAsleep, Deliver, Return, AfterPut, workVars
  <1>4. CASE ClearRunning("read") \/ SetResult("read")
    BY <1>0, <1>4 DEF ClearRunning, SetResult, workVars
  <1> QED BY <1>1, <1>2, <1>3, <1>4, ByThread DEF ReadThread

LEMMA LoopsStep ==
    ASSUME Honest, TypesOK, Control, Loops, [Next]_vars
    PROVE  Loops'
  <1>0. UNCHANGED file /\ TotalUnits' = TotalUnits /\ BufferCount' = BufferCount
    BY ByThread DEF TotalUnits, BufferCount, UnitsBefore
  <1>1. (file.faults = {} => AllOk)'
    BY <1>0, OneWay, NothingFails DEF Loops
  <1>2. (mpc = "closed" \/ outcome = "ok" => pc["write"] \in {"set", "done"})'
    BY ClosedStep DEF Loops
  <1>3. /\ (Dec \in Getting \cup {"take"} => inflated < TotalUnits)'
        /\ (ret["decompress"] = "ok" /\ Dec \in Ended => inflateBuf = <<>>)'
    BY <1>0, DecompressLoops DEF Loops
  <1>4. (pc["write"] \in Getting \cup {"store"} => Len(written) < TotalUnits)'
    BY <1>0, WriteLoops DEF Loops
  <1>5. (AllOk /\ pc["read"] \in Ended => readCount = BufferCount)'
    BY ReadLoops DEF Loops
  <1> QED BY <1>1, <1>2, <1>3, <1>4, <1>5 DEF Loops

\* Until the write thread ends, and while no failure is known, the chain holds.
LEMMA CalmChain ==
    ASSUME FlowInv, GetResults, pc["write"] \notin {"set", "done"}
    PROVE  Calm /\ Chain /\ WokenRightly
  BY DEF FlowInv, Calm, Control, Threads

\* What was sent is not changed by what the write thread does with it.
LEMMA SentStays ==
    ASSUME FlowInv, Calm, [Next]_vars, Dec \in Ended
    PROVE  SentToWrite' = SentToWrite
  <1>0. /\ Threads = {"read", "decompress", "write"} /\ Links = {"in", "out"}
        /\ TypesOK /\ Control /\ Chain /\ WokenRightly
        /\ hand = [t \in Threads |-> hand[t]] /\ ring = [l \in Links |-> ring[l]]
    BY LinkEnds DEF FlowInv, Calm, Threads, TypesOK
  <1>1. ASSUME ring'["out"] = ring["out"], written' = written, hand'["write"] = hand["write"]
        PROVE  SentToWrite' = SentToWrite
    BY <1>1 DEF SentToWrite, OutRing, GotByWrite
  <1>2. CASE Put("in") \/ PutWoken("in") \/ PutSleep("in") \/ Get("in") \/ GetWoken("in") \/ GetSleep("in")
    <2>1. ring'["out"] = ring["out"] /\ hand'["write"] = hand["write"]
      BY <1>0, <1>2, LinkEnds DEF Put, PutWoken, PutSleep, Get, GetWoken, GetSleep, Deliver, Fetch,
         FallAsleep
    <2>2. written' = written
      BY <1>0, <1>2, LinkTypes DEF workVars
    <2> QED BY <1>1, <2>1, <2>2
  <1>3. CASE Put("out") \/ PutWoken("out") \/ PutSleep("out")
    BY <1>3, LinkEnds DEF Put, PutWoken, PutSleep, FallAsleep, Ended, Dec
  <1>4. CASE Get("out") \/ GetWoken("out") \/ GetSleep("out")
    <2>1. UNCHANGED <<file, workVars>>
      BY <1>0, <1>4, LinkTypes
    <2>2. CASE Fetch("out") /\ pc["write"] \in {"get", "getWoken"} /\ RingSize(ring["out"]) > 0
      BY <1>0, <2>1, <2>2, ChainFetchOut
    <2>3. CASE ring' = ring /\ hand'["write"] = hand["write"]
      BY <1>1, <2>1, <2>3 DEF workVars
    <2>4. CASE ring' = ring /\ hand'["write"] = <<>> /\ pc["write"] = "get"
      BY <1>0, <1>1, <2>1, <2>4 DEF workVars, Chain, Ended
    <2>5. RingSize(ring["out"]) \in Nat
      <3>1. <<>> \in Buffer
        BY DEF Buffer
      <3> QED BY <1>0, <3>1, RingSizes
    <2> QED BY <1>0, <1>4, <2>2, <2>3, <2>4, <2>5, LinkEnds
            DEF Get, GetWoken, GetSleep, FallAsleep, WokenRightly
  <1>5. CASE Store
    <2>1. CASE hand["write"] = <<>>
      BY <1>0, <1>1, <1>5, <2>1 DEF Store, linkVars
    <2>2. CASE hand["write"] # <<>>
      <3>1. written' = written \o hand["write"] /\ hand'["write"] = <<>> /\ ring' = ring
        BY <1>0, <1>5, ChainStore DEF Store, linkVars
      <3>2. written \in Seq(Nat) /\ hand["write"] \in Seq(Nat)
        BY <1>0, LinkEnds DEF TypesOK, Buffer
      <3>3. GotByWrite' = GotByWrite
        BY <3>1, <3>2 DEF GotByWrite
      <3> QED BY <3>1, <3>3 DEF SentToWrite, OutRing
    <2> QED BY <2>1, <2>2
  <1>6. CASE \/ ReadLoop \/ ReadSource \/ DecompressLoop \/ TakeBuffer \/ Inflate \/ InflateEnds
             \/ FinalFlush \/ WriteLoop
             \/ \E t \in Threads, places \in SUBSET Working : FailsIn(t, places)
             \/ \E t \in Threads : ClearRunning(t) \/ SetResult(t)
             \/ StartThread \/ WakeAll
             \/ \/ StartFails \/ WatchDone \/ Poll \/ NoneRunning \/ TakeResults \/ Join
                \/ UNCHANGED vars
    <2>1. UNCHANGED <<ring, written>> /\ hand'["write"] = hand["write"]
      BY <1>0, <1>6 DEF ReadLoop, ReadSource, DecompressLoop, TakeBuffer, Inflate, InflateEnds, FinalFlush,
        WriteLoop, FailsIn, ClearRunning, SetResult, StartThread, WakeAll, StartFails,
        WatchDone, Poll, NoneRunning, TakeResults, Join, vars, linkVars, workVars
    <2> QED BY <1>1, <2>1
  <1> QED BY <1>0, <1>2, <1>3, <1>4, <1>5, <1>6, Steps

\* A decompress thread that failed had not sent everything.
LEMMA FailedShort ==
    ASSUME Honest, FlowInv, [Next]_vars,
           Calm /\ ret["decompress"] = "fail" => SentToWrite < TotalUnits
    PROVE  Calm' /\ ret'["decompress"] = "fail" => SentToWrite' < TotalUnits
  <1> SUFFICES ASSUME Calm', ret'["decompress"] = "fail" PROVE SentToWrite' < TotalUnits
    OBVIOUS
  <1>0. /\ Threads = {"read", "decompress", "write"} /\ TypesOK /\ Control
        /\ ret["decompress"] \in {"ok", "fail"} /\ ret = [t \in Threads |-> ret[t]]
    BY DEF FlowInv, Threads, TypesOK
  <1>1. Calm /\ Chain /\ GetResults
    BY <1>0, CalmStays DEF FlowInv, Calm
  <1>2. CASE ret["decompress"] = "fail"
    BY <1>0, <1>1, <1>2, SentStays DEF Control, Dec
  <1>3. CASE ret["decompress"] = "ok"
    <2>1. DecompressThread
      BY <1>0, <1>3, ByThread DEF DecompressStill, Still
    <2>2. DecompressFails
      BY <1>0, <1>1, <1>3, <2>1, LinkEnds DEF DecompressThread, DecompressLoop, TakeBuffer, Inflate,
         InflateEnds, FinalFlush, Put, PutWoken, PutSleep, Get, GetWoken, GetSleep, FallAsleep,
         Deliver, Fetch, Return, ClearRunning, SetResult
    <2>3. SentToWrite' = SentToWrite
      BY <2>2 DEF DecompressFails, FailsIn, linkVars, workVars, SentToWrite, OutRing, GotByWrite
    <2>4. /\ SentToWrite <= inflated /\ inflated + Len(unread) <= TotalUnits /\ TotalUnits \in Nat \ {0}
          /\ SentToWrite \in Nat /\ inflated \in Nat /\ Len(unread) \in Nat
      <3>1. Len(unread) \in Nat
        BY <1>0 DEF TypesOK, Buffer
      <3>2. /\ SentToWrite <= inflated
            /\ inflated + Len(unread) <= GotByDecompress /\ GotByDecompress <= SentByRead
            /\ SentByRead <= ReadSoFar /\ ReadSoFar <= TotalUnits
            /\ GotByDecompress \in Nat /\ SentByRead \in Nat /\ ReadSoFar \in Nat
            /\ SentToWrite \in Nat
        BY <1>0, <1>1, <1>3, ChainOrder
      <3>3. TotalUnits \in Nat \ {0} /\ inflated \in Nat
        BY <1>0, SizesAgree
      <3> QED BY <3>1, <3>2, <3>3
    <2>5. CASE Dec = "work"
      <3>1. Len(unread) # 0
        BY <1>0, <2>2, <2>5 DEF DecompressFails, Dec, TypesOK, Buffer
      <3> QED BY <2>3, <2>4, <3>1
    <2>6. CASE Dec = "take"
      <3>1. /\ hand["decompress"] \in Buffer /\ hand["decompress"] # <<>> /\ hand["decompress"][1] = 1
            /\ IsRun(hand["decompress"], inflated)
        BY <1>0, <1>1, <1>3, <2>2, <2>6 DEF DecompressFails, Dec, TypesOK, Chain, DecompressHas
      <3>2. hand["decompress"][1] = inflated + 1
        BY <2>4, <3>1, RunTail
      <3> QED BY <2>3, <2>4, <3>1, <3>2
    <2> QED BY <2>2, <2>5, <2>6 DEF DecompressFails, Dec
  <1> QED BY <1>0, <1>2, <1>3

\* When the write thread has the whole NCA, nothing is under way.
LEMMA Drains ==
    ASSUME Honest, FlowInv, Calm, Loops, pc["write"] = "loop", Len(written) >= TotalUnits,
           ret["decompress"] = "fail" => SentToWrite < TotalUnits
    PROVE  Drained
  <1>0. /\ TypesOK /\ Control /\ Chain /\ PlacesOK
        /\ ret["decompress"] \in {"ok", "fail"} /\ ret["read"] \in {"ok", "fail"}
        /\ hand["decompress"] \in Seq(Nat) /\ hand["read"] \in Seq(Nat)
        /\ inflateBuf \in Seq(Nat) /\ unread \in Seq(Nat)
    BY LinkEnds DEF FlowInv, Calm, TypesOK, Buffer
  <1>1. /\ GotByWrite \in Nat /\ SentToWrite \in Nat /\ GotByWrite <= SentToWrite
        /\ Len(written) \in Nat /\ Len(written) <= GotByWrite
        /\ ReadSoFar \in Nat /\ ReadSoFar <= TotalUnits
        /\ ReadSoFar = TotalUnits <=> readCount = BufferCount
        /\ TotalUnits \in Nat /\ inflated \in Nat
    BY <1>0, ChainOrder, SizesAgree
  <1>2. ret["decompress"] = "ok"
    BY <1>0, <1>1
  <1>3. /\ GotByDecompress \in Nat /\ SentByRead \in Nat
        /\ SentToWrite <= inflated
        /\ inflated + Len(unread) <= GotByDecompress
        /\ GotByDecompress <= SentByRead /\ SentByRead <= ReadSoFar
    BY <1>0, <1>2, ChainOrder
  <1> HIDE DEF GotByWrite, SentToWrite, GotByDecompress, SentByRead, ReadSoFar
  <1>4. /\ SentToWrite = TotalUnits /\ inflated = TotalUnits /\ Len(unread) = 0
        /\ SentByRead = TotalUnits /\ ReadSoFar = TotalUnits
    BY <1>0, <1>1, <1>3
  <1>5. Dec \notin Putting
    BY <1>0, <1>1, <1>2, <1>4 DEF Chain, DecompressHas
  <1>6. inflateBuf = <<>> /\ unread = <<>>
    BY <1>0, <1>1, <1>2, <1>4, <1>5 DEF Chain, DecompressHas
  <1>7. Dec \notin Getting \cup {"take"}
    BY <1>1, <1>4 DEF Loops
  <1>8. readCount = BufferCount
    BY <1>1, <1>4
  <1>9. pc["read"] \notin Putting /\ pc["read"] # "source"
    <2>1. pc["read"] # "source"
      BY <1>0, <1>8, UnitsAre DEF TypesOK
    <2>2. ASSUME pc["read"] \in Putting PROVE FALSE
      <3>1. ret["read"] = "ok"
        BY <1>0, <2>2, LinkEnds DEF Control, Ended, Putting
      <3> QED BY <1>0, <1>1, <1>2, <1>4, <2>2, <3>1 DEF Chain
    <2> QED BY <2>1, <2>2
  <1> QED BY <1>0, <1>1, <1>4, <1>5, <1>6, <1>7, <1>8, <1>9
          DEF Drained, PlacesOK, ReadPlaces, DecompressPlaces, Dec

LEMMA DrainedStays ==
    ASSUME Honest, TypesOK, Control, Drained, [Next]_vars
    PROVE  Drained'
  <1>0. /\ Threads = {"read", "decompress", "write"} /\ PlacesOK
        /\ UNCHANGED file /\ TotalUnits' = TotalUnits /\ BufferCount' = BufferCount
        /\ writeSize = TotalUnits /\ TotalUnits \in Nat /\ BufferCount \in Nat /\ inflated \in Nat
    BY ByThread, SizesAgree DEF Threads, TypesOK, TotalUnits, BufferCount, UnitsBefore
  <1> USE DEF Ended, PlacesOK, Goto, Dec
  <1>1. /\ pc'["read"] \in {"created", "loop"} \cup Ended
        /\ pc'["read"] \notin Ended => readCount' = BufferCount
    <2>1. CASE pc["read"] \in Ended
      BY <2>1, EndedStays
    <2>2. CASE pc["read"] \notin Ended
      <3>1. CASE ReadStill
        BY <2>2, <3>1 DEF Drained, ReadStill, Still
      <3>2. CASE ReadThread
        <4>1. ReadLoop
          BY <2>2, <3>2, LinkEnds DEF Drained, ReadThread, ReadSource, ReadFails, FailsIn, Put, PutSleep,
             PutWoken, FallAsleep, ClearRunning, SetResult
        <4> QED BY <1>0, <2>2, <4>1 DEF Drained, ReadLoop, Return, workVars
      <3> QED BY <3>1, <3>2, ByThread
    <2> QED BY <2>1, <2>2
  <1>2. /\ Dec' \in {"created", "loop", "work", "flush"} \cup Ended
        /\ Dec' \notin Ended => unread' = <<>> /\ inflateBuf' = <<>> /\ inflated' >= TotalUnits
    <2>1. CASE Dec \in Ended
      BY <2>1, EndedStays
    <2>2. CASE Dec \notin Ended
      <3>0. unread = <<>> /\ inflateBuf = <<>> /\ inflated >= TotalUnits
        BY <2>2 DEF Drained
      <3>1. CASE DecompressStill
        BY <2>2, <3>0, <3>1 DEF Drained, DecompressStill, Still
      <3>2. CASE DecompressThread
        <4>1. DecompressLoop \/ InflateEnds \/ FinalFlush
          BY <2>2, <3>0, <3>2, LinkEnds DEF Drained, DecompressThread, TakeBuffer, Inflate, DecompressFails,
             FailsIn, Put, PutSleep, PutWoken, Get, GetSleep, GetWoken, FallAsleep, ClearRunning,
             SetResult
        <4> QED BY <1>0, <2>2, <3>0, <4>1 DEF DecompressLoop, InflateEnds, FinalFlush, Return, workVars
      <3> QED BY <3>1, <3>2, ByThread
    <2> QED BY <2>1, <2>2
  <1> QED BY <1>0, <1>1, <1>2 DEF Drained

\* While no thread has failed, a write thread at its end leaves nothing to get.
LEMMA CalmOrDrained ==
    ASSUME FlowInv, Endings, AllOk, GetResults
    PROVE  (Calm /\ Chain /\ WokenRightly) \/ Drained
  BY CalmChain DEF Endings, AllOk, Threads, Ended

\* A buffer is empty only if the read thread has ended, and by then the units
\* are all there.
LEMMA TakesBuffers ==
    ASSUME Honest, FlowInv, Loops, Endings, [Next]_vars
    PROVE  AllOk' /\ Dec' = "take" => hand'["decompress"] # <<>>
  <1> SUFFICES ASSUME AllOk', Dec' = "take" PROVE hand'["decompress"] # <<>>
    OBVIOUS
  <1>0. /\ Threads = {"read", "decompress", "write"} /\ TypesOK /\ Control /\ PlacesOK
        /\ AllOk /\ GetResults /\ hand = [t \in Threads |-> hand[t]]
    BY OneWay DEF FlowInv, Threads, TypesOK
  <1> USE DEF PlacesOK, Goto, Dec
  <1>1. CASE DecompressStill
    BY <1>0, <1>1 DEF DecompressStill, Still, Endings
  <1>2. CASE DecompressThread
    <2>1. Get("in") \/ GetWoken("in")
      BY <1>0, <1>2, LinkEnds DEF DecompressThread, DecompressLoop, TakeBuffer, Inflate, InflateEnds,
         FinalFlush, DecompressFails, FailsIn, Return, GetSleep, Put, PutSleep, PutWoken, Deliver,
         AfterPut, FallAsleep, TypesOK, ClearRunning, SetResult
    <2>2. Dec \in {"get", "getWoken"} /\ UNCHANGED <<file, workVars>>
      BY <1>0, <2>1, LinkEnds, LinkTypes DEF Get, GetWoken
    <2>3. Calm /\ Chain /\ WokenRightly
      BY <1>0, <2>2, CalmOrDrained DEF Drained, Ended
    <2>4. RingSize(ring["in"]) \in Nat
      <3>1. <<>> \in Buffer
        BY DEF Buffer
      <3> QED BY <1>0, <3>1, LinkEnds, RingSizes
    <2>5. CASE Fetch("in") /\ RingSize(ring["in"]) > 0
      BY <1>0, <2>2, <2>3, <2>5, ChainFetchIn
    <2>6. CASE ~running["read"] /\ RingSize(ring["in"]) = 0 /\ Dec = "get"
      <3>1. ret["decompress"] = "ok" /\ ret["read"] = "ok" /\ pc["read"] \in Ended
        BY <1>0, <2>6 DEF AllOk, Control, Ended
      <3>2. readCount = BufferCount /\ inflated < TotalUnits
        BY <1>0, <2>6, <3>1 DEF Loops, Getting
      <3>3. hand["read"] = <<>>
        BY <2>3, <3>1 DEF Chain, Ended, Putting
      <3>4. InRing \in Seq(Buffer) /\ Len(InRing) = 0 /\ GotByDecompress \in Nat
        BY <1>0, <2>3, <2>6, <3>1, ChainCounts
      <3>5. SentByRead = GotByDecompress
        BY <3>4 DEF SentByRead, EndOf
      <3>6. SentByRead + Len(hand["read"]) = ReadSoFar
        BY <2>3, <3>1 DEF Chain
      <3>7. ReadSoFar = TotalUnits /\ ReadSoFar \in Nat
        BY <1>0, <2>3, <3>2, ChainOrder
      <3>8. GotByDecompress = inflated
        <4>1. unread = <<>> /\ inflated \in Nat
          BY <1>0, <2>3, <2>6, <3>1 DEF Chain, DecompressHas, Putting, TypesOK
        <4> QED BY <2>6, <4>1 DEF GotByDecompress, JustGot
      <3> QED BY <3>2, <3>3, <3>4, <3>5, <3>6, <3>7, <3>8
    <2> QED BY <1>0, <2>1, <2>2, <2>3, <2>4, <2>5, <2>6, LinkEnds
            DEF Get, GetWoken, Fetch, Return, WokenRightly
  <1> QED BY <1>0, <1>1, <1>2, ByThread

\* The decompress thread is past its loop only with every unit.
LEMMA FinishesWhole ==
    ASSUME Honest, FlowInv, Loops, Endings, [Next]_vars
    PROVE  AllOk' /\ Finishing' => inflated' >= TotalUnits
  <1> SUFFICES ASSUME AllOk', Finishing' PROVE inflated' >= TotalUnits
    OBVIOUS
  <1>0. /\ Threads = {"read", "decompress", "write"} /\ TypesOK /\ Control /\ PlacesOK
        /\ AllOk /\ GetResults /\ ret = [t \in Threads |-> ret[t]]
        /\ writeSize = TotalUnits /\ TotalUnits \in Nat /\ inflated \in Nat
        /\ resume \in {"loop", "work", "flush"} /\ ret'["decompress"] = "ok"
        /\ Finishing => inflated >= TotalUnits
        /\ Dec = "take" => hand["decompress"] # <<>>
    BY OneWay, SizesAgree DEF FlowInv, Threads, TypesOK, Endings, AllOk
  <1> USE DEF PlacesOK, Goto, Dec, Finishing, Putting, Ended
  <1>1. CASE DecompressStill
    BY <1>0, <1>1 DEF DecompressStill, Still
  <1>2. CASE DecompressLoop \/ TakeBuffer
    BY <1>0, <1>2 DEF DecompressLoop, TakeBuffer, workVars
  <1>3. CASE Inflate \/ InflateEnds
    BY <1>0, <1>3 DEF Inflate, InflateEnds, Return
  <1>4. CASE FinalFlush \/ DecompressFails
    BY <1>0, <1>4 DEF FinalFlush, DecompressFails, FailsIn, Return
  <1>5. CASE Get("in") \/ GetSleep("in") \/ GetWoken("in")
    BY <1>0, <1>5, LinkEnds
       DEF Get, GetSleep, GetWoken, FallAsleep, Fetch, Return, AfterGet, workVars
  <1>6. CASE Put("out") \/ PutSleep("out") \/ PutWoken("out")
    BY <1>0, <1>6, LinkEnds
       DEF Put, PutSleep, PutWoken, FallAsleep, Deliver, Return, AfterPut, workVars
  <1>7. CASE ClearRunning("decompress") \/ SetResult("decompress")
    BY <1>0, <1>7 DEF ClearRunning, SetResult, workVars
  <1> QED BY <1>0, <1>1, <1>2, <1>3, <1>4, <1>5, <1>6, <1>7, ByThread DEF DecompressThread

\* An empty buffer comes to the write thread only when the decompress thread has
\* ended, and never while no thread has failed.
LEMMA StoresBuffers ==
    ASSUME Honest, FlowInv, Loops, Endings, [Next]_vars
    PROVE  /\ AllOk' /\ pc'["write"] = "store" => hand'["write"] # <<>>
           /\ GetResults' /\ pc'["write"] = "store" /\ hand'["write"] = <<>> => ~running'["decompress"]
  <1> SUFFICES ASSUME GetResults', pc'["write"] = "store", hand'["write"] = <<>>
               PROVE  ~AllOk' /\ ~running'["decompress"]
    BY OneWay, ControlStep DEF FlowInv, AllOk, GetResults, Control
  <1>0. /\ Threads = {"read", "decompress", "write"} /\ TypesOK /\ Control /\ PlacesOK
        /\ GetResults /\ hand = [t \in Threads |-> hand[t]] /\ (AllOk' => AllOk)
        /\ \A t \in Threads : running'[t] => running[t]
    BY OneWay DEF FlowInv, Threads, TypesOK
  <1> USE DEF PlacesOK, Goto
  <1>1. CASE WriteStill
    BY <1>0, <1>1 DEF WriteStill, Still, Endings
  <1>2. CASE WriteThread
    <2>1. Get("out") \/ GetWoken("out")
      BY <1>0, <1>2, LinkEnds DEF WriteThread, WriteLoop, Store, WriteFails, FailsIn, Return, GetSleep,
         FallAsleep, ClearRunning, SetResult
    <2>2. pc["write"] \in {"get", "getWoken"} /\ UNCHANGED <<file, workVars>>
      BY <1>0, <2>1, LinkEnds, LinkTypes DEF Get, GetWoken
    <2>3. Calm /\ Chain /\ WokenRightly
      BY <1>0, <2>2, CalmChain
    <2>4. RingSize(ring["out"]) \in Nat
      <3>1. <<>> \in Buffer
        BY DEF Buffer
      <3> QED BY <1>0, <3>1, LinkEnds, RingSizes
    <2>5. CASE Fetch("out") /\ RingSize(ring["out"]) > 0
      BY <1>0, <2>2, <2>3, <2>5, ChainFetchOut
    <2>6. CASE ~running["decompress"] /\ RingSize(ring["out"]) = 0 /\ pc["write"] = "get"
      <3>1. ASSUME AllOk PROVE FALSE
        <4>1. ret["decompress"] = "ok" /\ Dec \in Ended /\ Dec \notin Putting
          BY <1>0, <2>6, <3>1 DEF AllOk, Control, Ended, Dec, Putting
        <4>2. inflated >= TotalUnits /\ inflateBuf = <<>> /\ Len(written) < TotalUnits
          BY <2>6, <3>1, <4>1 DEF Endings, Loops, Finishing, Getting
        <4>3. hand["write"] = <<>>
          BY <2>3, <2>6 DEF Chain, Ended
        <4>4. /\ OutRing \in Seq(Buffer) /\ Len(OutRing) = 0 /\ GotByWrite \in Nat
              /\ Len(written) \in Nat
          BY <1>0, <2>3, <2>6, ChainCounts
        <4>5. SentToWrite = GotByWrite
          BY <4>4 DEF SentToWrite, EndOf
        <4>6. SentToWrite + Len(inflateBuf) = inflated
          BY <2>3, <4>1 DEF Chain, DecompressHas
        <4>7. GotByWrite = Len(written)
          BY <4>3, <4>4 DEF GotByWrite
        <4>8. TotalUnits \in Nat
          BY <1>0, SizesAgree
        <4> QED BY <4>2, <4>4, <4>5, <4>6, <4>7, <4>8
      <3> QED BY <1>0, <2>6, <3>1
    <2> QED BY <1>0, <2>1, <2>2, <2>3, <2>4, <2>5, <2>6, LinkEnds
            DEF Get, GetWoken, Fetch, Return, WokenRightly
  <1> QED BY <1>0, <1>1, <1>2, ByThread

\* The write thread ends well with the whole NCA, or because the decompress
\* thread has ended.
LEMMA WriteEnds ==
    ASSUME Honest, FlowInv, Loops, Endings, [Next]_vars
    PROVE  /\ GetResults' /\ ret'["write"] = "ok" /\ pc'["write"] \in Ended =>
                Len(written') >= TotalUnits \/ ~running'["decompress"]
           /\ AllOk' /\ pc'["write"] \in Ended => Len(written') >= TotalUnits
  <1> SUFFICES ASSUME GetResults', ret'["write"] = "ok", pc'["write"] \in Ended
               PROVE  /\ Len(written') >= TotalUnits \/ ~running'["decompress"]
                      /\ AllOk' => Len(written') >= TotalUnits
    BY OneWay, ControlStep DEF FlowInv, AllOk, GetResults, Control, Threads
  <1>0. /\ Threads = {"read", "decompress", "write"} /\ TypesOK /\ Control /\ PlacesOK
        /\ GetResults /\ (AllOk' => AllOk) /\ ret = [t \in Threads |-> ret[t]]
        /\ \A t \in Threads : running'[t] => running[t]
        /\ writeSize = TotalUnits /\ TotalUnits \in Nat /\ Len(written) \in Nat
    BY OneWay, SizesAgree DEF FlowInv, Threads, TypesOK
  <1>1. CASE pc["write"] \in Ended
    BY <1>0, <1>1, EndedStays DEF Endings
  <1>2. CASE pc["write"] \notin Ended
    <2>1. WriteThread
      BY <1>0, <1>2, ByThread DEF WriteStill, Still, Ended
    <2>2. WriteLoop \/ (Store /\ hand["write"] = <<>>)
      BY <1>0, <1>2, <2>1, LinkEnds DEF WriteThread, Store, WriteFails, FailsIn, Return, Goto, Get,
         GetWoken, GetSleep, Fetch, AfterGet, FallAsleep, ClearRunning, SetResult, Ended, PlacesOK
    <2>3. CASE WriteLoop
      BY <1>0, <2>3 DEF WriteLoop, Goto, PlacesOK, Ended, workVars
    <2>4. CASE Store /\ hand["write"] = <<>>
      BY <1>0, <2>4 DEF Store, Endings
    <2> QED BY <2>2, <2>3, <2>4
  <1> QED BY <1>1, <1>2

\* A write thread that ended with the whole NCA left nothing to send or to get.
LEMMA WriteEndsDrained ==
    ASSUME Honest, FlowInv, Loops, Endings, [Next]_vars,
           GetResults', ret'["write"] = "ok", pc'["write"] \in Ended, Len(written') >= TotalUnits
    PROVE  Drained'
  <1>0. /\ Threads = {"read", "decompress", "write"} /\ TypesOK /\ Control /\ PlacesOK
        /\ GetResults /\ ret = [t \in Threads |-> ret[t]]
        /\ TotalUnits \in Nat /\ Len(written) \in Nat
    BY OneWay, SizesAgree DEF FlowInv, Threads, TypesOK
  <1>1. CASE pc["write"] \in Ended
    BY <1>0, <1>1, EndedStays, DrainedStays DEF Endings
  <1>2. CASE pc["write"] \notin Ended
    <2>1. WriteThread
      BY <1>0, <1>2, ByThread DEF WriteStill, Still, Ended
    <2>2. WriteLoop \/ (Store /\ hand["write"] = <<>>)
      BY <1>0, <1>2, <2>1, LinkEnds DEF WriteThread, Store, WriteFails, FailsIn, Return, Goto, Get,
         GetWoken, GetSleep, Fetch, AfterGet, FallAsleep, ClearRunning, SetResult, Ended, PlacesOK
    <2>3. ~(Store /\ hand["write"] = <<>>)
      BY <1>0 DEF Store, Loops
    <2>4. pc["write"] = "loop" /\ Len(written) >= TotalUnits
      BY <2>2, <2>3 DEF WriteLoop, workVars
    <2>5. Calm
      BY <1>0, <2>4, CalmChain
    <2>6. Drained
      BY <2>4, <2>5, Drains DEF Endings
    <2> QED BY <1>0, <2>6, DrainedStays
  <1> QED BY <1>1, <1>2

\* No more is written than the NCA has.
LEMMA WrittenBounded ==
    ASSUME Honest, FlowInv, Endings, [Next]_vars
    PROVE  Len(written') <= TotalUnits
  <1>0. TypesOK /\ Control /\ Len(written) <= TotalUnits
    BY DEF FlowInv, Endings
  <1>1. CASE Store
    <2>1. CASE GetResults /\ hand["write"] # <<>>
      <3>1. Calm /\ Chain /\ WokenRightly
        BY <1>1, <2>1, CalmChain DEF Store
      <3>2. written' = written \o hand["write"]
        BY <1>0, <1>1, <3>1, ChainStore
      <3>3. written \in Seq(Nat) /\ hand["write"] \in Seq(Nat)
        BY <1>0, LinkEnds DEF TypesOK, Buffer
      <3>4. Len(written') = GotByWrite
        BY <3>2, <3>3 DEF GotByWrite
      <3>5. /\ GotByWrite \in Nat /\ SentToWrite \in Nat /\ GotByWrite <= SentToWrite
            /\ TotalUnits \in Nat /\ inflated \in Nat
        BY <1>0, <3>1, ChainOrder, SizesAgree
      <3>6. CASE ret["decompress"] = "fail"
        BY <3>1, <3>4, <3>5, <3>6 DEF Endings
      <3>7. CASE ret["decompress"] = "ok"
        <4>1. Len(unread) \in Nat
          BY <1>0 DEF TypesOK, Buffer
        <4>2. /\ GotByDecompress \in Nat /\ SentByRead \in Nat /\ SentToWrite <= inflated
              /\ inflated + Len(unread) <= GotByDecompress
              /\ GotByDecompress <= SentByRead /\ SentByRead <= ReadSoFar
              /\ ReadSoFar \in Nat /\ ReadSoFar <= TotalUnits
          BY <1>0, <3>1, <3>7, ChainOrder
        <4> HIDE DEF GotByDecompress, SentByRead, ReadSoFar, SentToWrite, GotByWrite
        <4> QED BY <3>4, <3>5, <4>1, <4>2
      <3> QED BY <1>0, <3>6, <3>7, LinkEnds DEF TypesOK
    <2>2. CASE ~(GetResults /\ hand["write"] # <<>>)
      BY <1>0, <1>1, <2>2 DEF Store
    <2> QED BY <2>1, <2>2
  <1>2. CASE ~Store
    <2>1. written' = written
      <3>1. CASE WriteStill
        BY <3>1 DEF WriteStill
      <3>2. CASE WriteThread
        <4>1. CASE Get("out") \/ GetWoken("out") \/ GetSleep("out")
          BY <1>0, <4>1, LinkTypes, LinkEnds DEF workVars
        <4> QED BY <1>2, <3>2, <4>1 DEF WriteThread, WriteLoop, WriteFails, FailsIn, ClearRunning,
                SetResult, workVars
      <3> QED BY <1>0, <3>1, <3>2, ByThread
    <2> QED BY <1>0, <2>1
  <1> QED BY <1>1, <1>2

LEMMA EndingsStep ==
    ASSUME Honest, FlowInv, Loops, Endings, [Next]_vars
    PROVE  Endings'
  <1>1. TotalUnits' = TotalUnits
    BY ByThread DEF FlowInv, TotalUnits, BufferCount, UnitsBefore
  <1>2. (AllOk /\ Dec = "take" => hand["decompress"] # <<>>)'
    BY TakesBuffers
  <1>3. (AllOk /\ Finishing => inflated >= TotalUnits)'
    BY <1>1, FinishesWhole
  <1>4. (Calm /\ ret["decompress"] = "fail" => SentToWrite < TotalUnits)'
    BY <1>1, FailedShort DEF Endings
  <1>5. /\ (AllOk /\ pc["write"] = "store" => hand["write"] # <<>>)'
        /\ (GetResults /\ pc["write"] = "store" /\ hand["write"] = <<>> => ~running["decompress"])'
    BY StoresBuffers
  <1>6. /\ (GetResults /\ ret["write"] = "ok" /\ pc["write"] \in Ended =>
              Len(written) >= TotalUnits \/ ~running["decompress"])'
        /\ (AllOk /\ pc["write"] \in Ended => Len(written) >= TotalUnits)'
    BY <1>1, WriteEnds
  <1>7. (GetResults /\ ret["write"] = "ok" /\ pc["write"] \in Ended /\ Len(written) >= TotalUnits =>
           Drained)'
    BY <1>1, WriteEndsDrained
  <1>8. (Len(written) <= TotalUnits)'
    BY <1>1, WrittenBounded
  <1> QED BY <1>2, <1>3, <1>4, <1>5, <1>6, <1>7, <1>8 DEF Endings

LEMMA SizesStep ==
    ASSUME FlowInv, Room, Endings, Sizes, [Next]_vars
    PROVE  Sizes'
  <1>0. /\ Threads = {"read", "decompress", "write"} /\ Links = {"in", "out"}
        /\ TypesOK /\ Control /\ (AllOk' => AllOk) /\ (AllOk => GetResults)
        /\ \A t \in Threads : running'[t] => running[t]
    BY OneWay DEF FlowInv, Threads, Links
  <1>1. CASE UNCHANGED ring
    BY <1>0, <1>1 DEF Sizes
  <1>2. ASSUME NEW l \in Links, Put(l) \/ PutWoken(l) \/ Get(l) \/ GetWoken(l), GetResults
        PROVE  Sizes'
    <2>1. CASE WokenRightly
      <3>1. WokenRightly'
        BY <1>0, <1>2, <2>1, LinkRoom
      <3> QED BY <1>0, <3>1 DEF WokenRightly, Sizes
    <2>2. CASE ~WokenRightly
      <3>1. pc["write"] = "done"
        BY <1>2, <2>2 DEF Room
      <3>2. ret["write"] = "ok" /\ ~running["write"] /\ pc["write"] \in Ended
        BY <1>0, <1>2, <3>1 DEF Control, GetResults, Ended
      <3>3. ~Drained
        BY <1>2, <3>1, LinkEnds DEF Drained, Put, PutWoken, Get, GetWoken, Dec, Ended
      <3>4. ~(Len(written) >= TotalUnits)
        BY <1>2, <3>2, <3>3 DEF Endings
      <3>5. ~running["decompress"] /\ ~AllOk
        BY <1>2, <3>2, <3>4 DEF Endings
      <3> QED BY <1>0, <3>2, <3>5 DEF Sizes
    <2> QED BY <2>1, <2>2
  <1> QED BY <1>1, <1>2, RingMoves

LEMMA InitWhole ==
    ASSUME Honest, Init
    PROVE  WholeInv
  <1>0. /\ Threads = {"read", "decompress", "write"} /\ Links = {"in", "out"}
        /\ FlowInv /\ TypesOK /\ Capacity \in Nat \ {0}
    BY InitFlow, CapacityAssumption DEF Threads, Links, FlowInv
  <1>1. TotalUnits \in Nat \ {0}
    BY <1>0, SizesAgree
  <1>2. Room /\ Sizes
    BY <1>0, NewRingIs DEF Init, Room, WokenRightly, Sizes, Dec
  <1>3. Loops
    BY <1>0 DEF Init, Loops, AllOk, Ended, Getting, Dec
  <1>4. Endings
    BY <1>0, <1>1 DEF Init, Endings, Finishing, Ended, Putting, Dec
  <1> QED BY <1>0, <1>2, <1>3, <1>4 DEF WholeInv

\* Where the header states the size that the buffers add up to, every state is
\* as WholeInv says: besides the flow of the units, who is woken finds what it
\* waited for until the write thread is done, and a thread that ends well ends
\* with the whole NCA behind it.
THEOREM WholeInvariant ==
    ASSUME Honest
    PROVE  Spec => []WholeInv
  <1>1. Init => WholeInv
    BY InitWhole
  <1>2. WholeInv /\ [Next]_vars => WholeInv'
    BY FlowStep, RoomStep, LoopsStep, EndingsStep, SizesStep DEF WholeInv, FlowInv
  <1> QED BY <1>1, <1>2, PTL DEF Spec

\* RingsInBounds: the ring is not looked at again after condvarWait returns, and
\* still holds no more than its capacity unless something fails and its consumer
\* is gone.
THEOREM RingsInBoundsAlways ==
    ASSUME Honest
    PROVE  Spec => []RingsInBounds
  <1>1. WholeInv => RingsInBounds
    <2> SUFFICES ASSUME WholeInv, NEW l \in Links, RingSize(ring[l]) > Capacity
                 PROVE  file.faults # {} /\ ~running[Consumer[l]]
      BY DEF RingsInBounds
    <2>1. TypesOK /\ Capacity \in Nat
      BY CapacityAssumption DEF WholeInv, FlowInv
    <2>2. RingSize(ring[l]) \in Nat
      <3>1. <<>> \in Buffer
        BY DEF Buffer
      <3> QED BY <2>1, <3>1, RingSizes
    <2>3. ~(RingSize(ring[l]) <= Capacity)
      BY <2>1, <2>2
    <2> QED BY <2>3, LinkEnds DEF WholeInv, Sizes, Loops
  <1> QED BY <1>1, WholeInvariant, PTL

\* OkMeansComplete: a good result, with no thread failed, means that the
\* placeholder has the NCA from the first unit to the last, although no thread
\* checks that it saw the end.
THEOREM OkMeansCompleteAlways ==
    ASSUME Honest
    PROVE  Spec => []OkMeansComplete
  <1>1. WholeInv => OkMeansComplete
    <2> SUFFICES ASSUME WholeInv, outcome = "ok", AllOk
                 PROVE  written = [i \in 1 .. file.size |-> i]
      BY DEF OkMeansComplete, AllOk
    <2>1. TypesOK /\ IsRun(written, 0) /\ written \in Buffer
      BY DEF WholeInv, FlowInv, TypesOK
    <2>2. Len(written) >= TotalUnits /\ Len(written) <= TotalUnits
      BY DEF WholeInv, Loops, Endings, Ended
    <2>3. /\ Len(written) = file.size /\ Len(written) \in Nat
      BY <2>1, <2>2, SizesAgree
    <2>4. written = [k \in 1 .. Len(written) |-> 0 + k]
      BY <2>1, RunIs
    <2>5. \A k \in 1 .. Len(written) : 0 + k = k
      BY <2>3
    <2> QED BY <2>3, <2>4, <2>5
  <1> QED BY <1>1, WholeInvariant, PTL
=============================================================================
