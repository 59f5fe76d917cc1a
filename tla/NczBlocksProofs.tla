-------------------------- MODULE NczBlocksProofs --------------------------
(***************************************************************************)
(* Proofs about NczBlocks: that every sound NCZ is restored unit by unit,  *)
(* under the right keys and counters, whatever the sizes of its blocks and *)
(* sections, of the buffers and of the flushes.                            *)
(*                                                                         *)
(* The argument is a single count.  The decompress thread is at a          *)
(* compressed offset, Cursor, and UnitsBehind gives the units that the     *)
(* blocks have up to there; what was passed on and what waits in the       *)
(* inflate buffer are the units up to that count.                          *)
(***************************************************************************)
EXTENDS NczBlocks, DataInduction

-----------------------------------------------------------------------------
(* Prefix sums *)

\* StartOf is what its recursive definition says.
LEMMA StartOfUnfolds ==
    ASSUME NEW n \in Nat, NEW f \in [1 .. n -> Nat]
    PROVE  /\ StartOf(f, n) \in [1 .. n + 1 -> Nat]
           /\ StartOf(f, n)[1] = 0
           /\ \A i \in 1 .. n : StartOf(f, n)[i + 1] = StartOf(f, n)[i] + f[i]
  <1> DEFINE Sums(g, m) == /\ g \in [1 .. m + 1 -> Nat] /\ g[1] = 0
                           /\ \A i \in 1 .. m : g[i + 1] = g[i] + f[i]
             S == {m \in Nat : m <= n => \E g : Sums(g, m)}
             R(g) == g = [i \in 1 .. n + 1 |-> IF i = 1 THEN 0 ELSE g[i - 1] + f[i - 1]]
             s == CHOOSE g : R(g)
  <1>1. 0 \in S
    <2> DEFINE g == [i \in 1 .. 1 |-> 0]
    <2>1. g \in [1 .. 0 + 1 -> Nat] /\ g[1] = 0 /\ \A i \in 1 .. 0 : g[i + 1] = g[i] + f[i]
      OBVIOUS
    <2> HIDE DEF g
    <2> QED BY <2>1
  <1>2. ASSUME NEW m \in S PROVE m + 1 \in S
    <2>6. m \in Nat /\ (m <= n => \E g : Sums(g, m))
      <3> HIDE DEF Sums
      <3> QED OBVIOUS
    <2> SUFFICES ASSUME m + 1 <= n PROVE \E h : Sums(h, m + 1)
      <3> HIDE DEF Sums
      <3> QED BY <2>6
    <2>7. m <= n
      BY <2>6
    <2>1. PICK g : Sums(g, m)
      BY <2>6, <2>7
    <2> DEFINE h == [i \in 1 .. m + 2 |-> IF i <= m + 1 THEN g[i] ELSE g[m + 1] + f[m + 1]]
    <2>2. m \in Nat /\ f[m + 1] \in Nat /\ g[m + 1] \in Nat
      BY <2>1, <2>6
    <2>3. h \in [1 .. m + 2 -> Nat] /\ h[1] = 0
      BY <2>1, <2>2
    <2>4. \A i \in 1 .. m + 1 : h[i + 1] = h[i] + f[i]
      BY <2>1, <2>2
    <2> HIDE DEF h
    <2>5. Sums(h, m + 1)
      BY <2>2, <2>3, <2>4
    <2> QED BY <2>5
  <1>3. \E g : R(g)
    <2>1. n \in S
      <3>1. S \in SUBSET Nat
        OBVIOUS
      <3> HIDE DEF S
      <3>2. S = Nat
        BY <1>1, <1>2, <3>1, SetInduction
      <3> QED BY <3>2
    <2>2. \E g : Sums(g, n)
      <3> HIDE DEF Sums
      <3> QED BY <2>1
    <2>6. PICK g : Sums(g, n)
      BY <2>2
    <2>3. \A i \in 1 .. n + 1 : i # 1 => g[i] = g[i - 1] + f[i - 1]
      <3> SUFFICES ASSUME NEW i \in 1 .. n + 1, i # 1 PROVE g[i] = g[i - 1] + f[i - 1]
        OBVIOUS
      <3> DEFINE j == i - 1
      <3>1. j \in 1 .. n /\ j + 1 = i
        OBVIOUS
      <3> HIDE DEF j
      <3>2. g[j + 1] = g[j] + f[j]
        BY <2>6, <3>1
      <3> QED BY <3>1, <3>2 DEF j
    <2>4. g = [i \in 1 .. n + 1 |-> g[i]] /\ g[1] = 0
      BY <2>6
    <2>5. R(g)
      BY <2>3, <2>4
    <2> QED BY <2>5
  <1>4. R(s) /\ StartOf(f, n) = s
    BY <1>3 DEF StartOf
  <1> HIDE DEF s
  <1>5. s = [i \in 1 .. n + 1 |-> s[i]] /\ s[1] = 0
    BY <1>4
  <1>6. \A i \in 1 .. n : s[i + 1] = s[i] + f[i]
    <2> SUFFICES ASSUME NEW i \in 1 .. n PROVE s[i + 1] = s[i] + f[i]
      OBVIOUS
    <2> DEFINE j == i + 1
    <2>1. j \in 1 .. n + 1 /\ j # 1 /\ j - 1 = i
      OBVIOUS
    <2> HIDE DEF j
    <2>2. s[j] = s[j - 1] + f[j - 1]
      BY <1>4, <2>1
    <2> QED BY <2>1, <2>2 DEF j
  <1>7. \A i \in 1 .. n + 1 : s[i] \in Nat
    <2> DEFINE T == {m \in Nat : m <= n => s[m + 1] \in Nat}
    <2>1. 0 \in T
      BY <1>5
    <2>2. ASSUME NEW m \in T PROVE m + 1 \in T
      <3> SUFFICES ASSUME m + 1 <= n PROVE s[(m + 1) + 1] \in Nat
        OBVIOUS
      <3>1. m + 1 \in 1 .. n /\ s[m + 1] \in Nat /\ f[m + 1] \in Nat
        OBVIOUS
      <3> QED BY <1>6, <3>1
    <2>3. T = Nat
      <3>1. T \in SUBSET Nat
        OBVIOUS
      <3> HIDE DEF T
      <3> QED BY <2>1, <2>2, <3>1, SetInduction
    <2> TAKE i \in 1 .. n + 1
    <2> HIDE DEF T
    <2>4. i - 1 \in T /\ i - 1 <= n /\ (i - 1) + 1 = i
      BY <2>3
    <2> QED BY <2>4 DEF T
  <1> QED BY <1>4, <1>5, <1>6, <1>7

\* A later part starts where an earlier one ends, or behind it.
LEMMA StartOfGrows ==
    ASSUME NEW n \in Nat, NEW f \in [1 .. n -> Nat],
           NEW i \in 1 .. n, NEW j \in 1 .. n + 1, i < j
    PROVE  StartOf(f, n)[i] + f[i] <= StartOf(f, n)[j]
  <1> DEFINE s == StartOf(f, n)
             S == {k \in Nat : i + 1 + k <= n + 1 => s[i] + f[i] <= s[i + 1 + k]}
  <1>1. /\ s \in [1 .. n + 1 -> Nat]
        /\ \A k \in 1 .. n : s[k + 1] = s[k] + f[k]
    BY StartOfUnfolds
  <1> HIDE DEF s
  <1>2. 0 \in S
    BY <1>1
  <1>3. ASSUME NEW k \in S PROVE k + 1 \in S
    <2> SUFFICES ASSUME i + 1 + (k + 1) <= n + 1 PROVE s[i] + f[i] <= s[i + 1 + (k + 1)]
      OBVIOUS
    <2> DEFINE m == i + 1 + k
    <2>1. m \in 1 .. n /\ i + 1 + (k + 1) = m + 1 /\ s[i] + f[i] <= s[m]
      OBVIOUS
    <2> HIDE DEF m
    <2>2. s[m + 1] = s[m] + f[m] /\ s[m] \in Nat /\ f[m] \in Nat /\ s[i] \in Nat /\ f[i] \in Nat
      BY <1>1, <2>1
    <2>3. s[i + 1 + (k + 1)] = s[m + 1]
      BY <2>1
    <2> QED BY <2>1, <2>2, <2>3
  <1>4. S = Nat
    <2>1. S \in SUBSET Nat
      OBVIOUS
    <2> HIDE DEF S
    <2> QED BY <1>2, <1>3, <2>1, SetInduction
  <1> HIDE DEF S
  <1>5. j - i - 1 \in S /\ i + 1 + (j - i - 1) = j
    BY <1>4
  <1> QED BY <1>5 DEF S, s

-----------------------------------------------------------------------------
(* Quotients *)

LEMMA DivBounds ==
    ASSUME NEW a \in Nat, NEW s \in Nat \ {0}
    PROVE  a \div s \in Nat /\ s * (a \div s) <= a /\ a < s * (a \div s) + s
  OBVIOUS

LEMMA DivZero == ASSUME NEW s \in Nat \ {0} PROVE 0 \div s = 0
  OBVIOUS

LEMMA DivGrows ==
    ASSUME NEW a \in Nat, NEW b \in Nat, a <= b, NEW s \in Nat \ {0}
    PROVE  a \div s <= b \div s
  <1> DEFINE p == a \div s
             q == b \div s
  <1>1. /\ p \in Nat /\ s * p <= a
        /\ q \in Nat /\ b < s * q + s
    BY DivBounds
  <1> HIDE DEF p, q
  <1>2. s * p < s * q + s
    BY <1>1
  <1>3. p <= q
    BY <1>1, <1>2
  <1> QED BY <1>3 DEF p, q

LEMMA DivAll ==
    ASSUME NEW u \in Nat, NEW s \in Nat \ {0}
    PROVE  (s * u) \div s = u
  <1> DEFINE q == (s * u) \div s
  <1>1. q \in Nat /\ s * q <= s * u /\ s * u < s * q + s
    BY DivBounds
  <1> HIDE DEF q
  <1>2. q = u
    BY <1>1
  <1> QED BY <1>2 DEF q

-----------------------------------------------------------------------------
(* Sound files, and where the threads are in one *)

\* Where the decompress thread is, or goes on after a flush; the compressed
\* offset it has come to; the block that is in; how far into the block.
Place == IF pc.at = "flush" THEN pc.next ELSE pc.at
Cursor == IF Place \in {"take", "done"} THEN readOff - held ELSE pos
Here == IF block = 0 THEN 1 ELSE block
Into == Cursor - BlockStart(Here)

BlockCount == Len(Blocks)
BlockEnd(b) == BlockStart(b) + Blocks[b].size

\* The units of the NCA up to i compressed units into block b.
UnitsBehind(b, i) == UnitStart(b) + ((i * Blocks[b].units) \div Blocks[b].size)

\* What of the inflate buffer has been passed on.
Passed == IF pc.at = "flush" THEN flushing.off ELSE 0

NczTypes ==
    /\ image \in Images /\ bufferSize \in BufferSizes
    /\ readOff \in Nat /\ held \in Nat /\ pos \in Nat /\ bufEnd \in Nat /\ spanEnd \in Nat
    /\ block \in 0 .. BlockCount /\ blockOffset \in Nat /\ compressed \in BOOLEAN
    /\ inflateBuf \in Seq(Int) /\ inflated \in Nat
    /\ flushing \in [size : Nat, off : Nat]
    /\ section \in 0 .. Len(Sections) /\ stream \in Nat /\ written \in Nat
    /\ out \in Seq([unit : Int, section : Nat, ctr : Nat])
    /\ pc \in [at : {"take", "span", "inflate", "copy", "flush", "done"},
               next : {"take", "span", "inflate"}]

\* The buffer, the span and the block fit each other, and the offset in the
\* block is the one of the cursor, or of the end of the span in a span.
Position ==
    /\ held <= readOff /\ readOff <= CompressedSize
    /\ held > 0 => Place \in {"take", "done"} /\ readOff < CompressedSize
    /\ Place \notin {"take", "done"} => pos <= bufEnd /\ bufEnd = readOff
    /\ Into \in 0 .. Blocks[Here].size
    /\ HasBlocks => block # 0 \/ (Cursor = 0 /\ Place \in {"take", "span", "done"})
    /\ ~HasBlocks => block = 0
    /\ block # 0 => blockOffset = IF Place \in {"inflate", "copy"} THEN spanEnd - BlockStart(block)
                                                                    ELSE Into
    /\ Place \in {"inflate", "copy"} =>
         /\ pos <= spanEnd /\ spanEnd <= bufEnd /\ spanEnd <= BlockEnd(Here)
         /\ Place = "inflate" <=> IsCompressed(Here)
    /\ inflated = UnitsBehind(Here, Into)

\* What was passed on and what waits are the units up to that count.
Units ==
    /\ written = HeaderUnits + Len(out)
    /\ flushing.off <= flushing.size
    /\ pc.at = "flush" => flushing.size <= Len(inflateBuf)
    /\ written + Len(inflateBuf) - Passed = inflated
    /\ \A i \in 1 .. Len(out) : out[i].unit = HeaderUnits + i - 1
    /\ \A i \in Passed + 1 .. Len(inflateBuf) : inflateBuf[i] = written + i - Passed - 1
    /\ pc.at = "done" => inflated = image.size /\ inflateBuf = <<>>

\* The key stream of the section that was entered last stands at written.
Keys ==
    /\ section # 0 /\ Sections[section].ctr => stream = written
    /\ KeyStreamInStep

NczInv == NczTypes /\ Position /\ Units /\ Keys

-----------------------------------------------------------------------------
(* The geometry of a sound file *)

\* Blocks follow each other, in compressed units and in units.
LEMMA BlocksAre ==
    ASSUME AllSound, image \in Images
    PROVE  /\ BlockCount \in Nat \ {0} /\ image.size \in Nat \ {0} /\ image.blockSize \in Nat
           /\ \A b \in 1 .. BlockCount :
                /\ Blocks[b].size \in Nat \ {0} /\ Blocks[b].units \in Nat \ {0}
                /\ BlockStart(b + 1) = BlockEnd(b)
                /\ UnitStart(b + 1) = UnitStart(b) + Blocks[b].units
           /\ \A b \in 1 .. BlockCount + 1 : BlockStart(b) \in Nat /\ UnitStart(b) \in Nat \ {0}
           /\ BlockStart(1) = 0 /\ UnitStart(1) = HeaderUnits
           /\ CompressedSize = BlockStart(BlockCount + 1)
           /\ image.size = UnitStart(BlockCount + 1)
           /\ \A b \in 1 .. BlockCount, c \in 1 .. BlockCount + 1 : b < c =>
                /\ BlockEnd(b) <= BlockStart(c)
                /\ UnitStart(b) + Blocks[b].units <= UnitStart(c)
  <1> DEFINE n == BlockCount
             f == [i \in 1 .. n |-> Blocks[i].size]
             g == [i \in 1 .. n |-> Blocks[i].units]
  <1>1. /\ image \in ImageType /\ n \in Nat \ {0} /\ Sound(image)
        /\ Blocks \in Seq([size : Nat \ {0}, units : Nat \ {0}])
    BY NczAssumption DEF AllSound, BlockCount, Blocks, ImageType
  <1>2. \A b \in 1 .. n : Blocks[b].size \in Nat \ {0} /\ Blocks[b].units \in Nat \ {0}
    <2> DEFINE T == [size : Nat \ {0}, units : Nat \ {0}]
    <2>1. Blocks \in Seq(T) /\ n = Len(Blocks)
      BY <1>1 DEF BlockCount
    <2> HIDE DEF T, n
    <2>2. \A b \in 1 .. n : Blocks[b] \in T
      BY <2>1
    <2> QED BY <2>2 DEF T
  <1>3. f \in [1 .. n -> Nat] /\ g \in [1 .. n -> Nat]
    BY <1>2
  <1>4. /\ \A b : BlockStart(b) = StartOf(f, n)[b]
        /\ \A b : UnitStart(b) = 1 + StartOf(g, n)[b]
        /\ \A b \in 1 .. n : f[b] = Blocks[b].size /\ g[b] = Blocks[b].units
    BY DEF BlockStart, UnitStart, BlockCount, HeaderUnits
  <1>5. StartOf(g, n)[n + 1] = image.size - 1
    BY <1>1 DEF Sound, BlockCount, Blocks, HeaderUnits
  <1>6. image.size \in Nat \ {0} /\ image.blockSize \in Nat
    BY <1>1 DEF ImageType
  <1>7. CompressedSize = BlockStart(n + 1)
    BY DEF CompressedSize, BlockCount
  <1> HIDE DEF n, f, g
  <1>8. /\ StartOf(f, n) \in [1 .. n + 1 -> Nat] /\ StartOf(f, n)[1] = 0
        /\ \A i \in 1 .. n : StartOf(f, n)[i + 1] = StartOf(f, n)[i] + f[i]
        /\ StartOf(g, n) \in [1 .. n + 1 -> Nat] /\ StartOf(g, n)[1] = 0
        /\ \A i \in 1 .. n : StartOf(g, n)[i + 1] = StartOf(g, n)[i] + g[i]
    BY <1>1, <1>3, StartOfUnfolds
  <1>9. \A b \in 1 .. n, c \in 1 .. n + 1 : b < c =>
           /\ StartOf(f, n)[b] + f[b] <= StartOf(f, n)[c]
           /\ StartOf(g, n)[b] + g[b] <= StartOf(g, n)[c]
    BY <1>1, <1>3, StartOfGrows
  <1>10. ASSUME NEW b \in 1 .. n
         PROVE  /\ BlockStart(b + 1) = BlockEnd(b)
                /\ UnitStart(b + 1) = UnitStart(b) + Blocks[b].units
    <2>1. StartOf(f, n)[b] \in Nat /\ StartOf(g, n)[b] \in Nat /\ Blocks[b].units \in Nat
      <3>1. b \in 1 .. n + 1
        BY <1>1
      <3> QED BY <1>2, <1>8, <3>1
    <2>2. /\ StartOf(f, n)[b + 1] = StartOf(f, n)[b] + Blocks[b].size
          /\ StartOf(g, n)[b + 1] = StartOf(g, n)[b] + Blocks[b].units
      BY <1>4, <1>8
    <2>3. UnitStart(b + 1) = UnitStart(b) + Blocks[b].units
      BY <1>4, <2>1, <2>2
    <2> QED BY <1>4, <2>2, <2>3 DEF BlockEnd
  <1>11. ASSUME NEW b \in 1 .. n + 1 PROVE BlockStart(b) \in Nat /\ UnitStart(b) \in Nat \ {0}
    <2>1. StartOf(f, n)[b] \in Nat /\ StartOf(g, n)[b] \in Nat
      BY <1>1, <1>8
    <2> QED BY <1>4, <2>1
  <1>12. BlockStart(1) = 0 /\ UnitStart(1) = HeaderUnits
    BY <1>4, <1>8 DEF HeaderUnits
  <1>13. image.size = UnitStart(n + 1)
    BY <1>4, <1>5, <1>6
  <1>14. ASSUME NEW b \in 1 .. n, NEW c \in 1 .. n + 1, b < c
         PROVE  /\ BlockEnd(b) <= BlockStart(c)
                /\ UnitStart(b) + Blocks[b].units <= UnitStart(c)
    <2>1. StartOf(f, n)[b] + Blocks[b].size <= StartOf(f, n)[c]
      BY <1>4, <1>9, <1>14
    <2>2. StartOf(g, n)[b] + Blocks[b].units <= StartOf(g, n)[c]
      BY <1>4, <1>9, <1>14
    <2>3. StartOf(g, n)[b] \in Nat /\ StartOf(g, n)[c] \in Nat /\ Blocks[b].units \in Nat
      <3>1. b \in 1 .. n + 1
        BY <1>1
      <3> QED BY <1>2, <1>8, <3>1
    <2>4. UnitStart(b) + Blocks[b].units <= UnitStart(c)
      BY <1>4, <2>2, <2>3
    <2> QED BY <1>4, <2>1, <2>4 DEF BlockEnd
  <1> QED BY <1>1, <1>2, <1>6, <1>7, <1>10, <1>11, <1>12, <1>13, <1>14 DEF n

\* An offset is in one block.
LEMMA BlockAtIs ==
    ASSUME AllSound, image \in Images, NEW b \in 1 .. BlockCount, NEW off \in Nat,
           BlockStart(b) <= off, off < BlockEnd(b)
    PROVE  InBlock(b, off) /\ BlockAt(off) = b
  <1>1. \A c \in 1 .. BlockCount : InBlock(c, off) <=> BlockStart(c) <= off /\ off < BlockEnd(c)
    BY DEF InBlock, InRange, BlockEnd
  <1>2. ASSUME NEW c \in 1 .. BlockCount, InBlock(c, off) PROVE c = b
    <2>1. /\ b < c => BlockEnd(b) <= BlockStart(c)
          /\ c < b => BlockEnd(c) <= BlockStart(b)
          /\ BlockCount \in Nat
      BY BlocksAre
    <2>2. /\ BlockStart(b) \in Nat /\ BlockStart(c) \in Nat
          /\ BlockEnd(b) \in Nat /\ BlockEnd(c) \in Nat
      <3>1. Blocks[b].size \in Nat /\ Blocks[c].size \in Nat
        BY BlocksAre
      <3>2. BlockStart(b) \in Nat /\ BlockStart(c) \in Nat
        BY BlocksAre
      <3> QED BY <3>1, <3>2 DEF BlockEnd
    <2>3. BlockStart(c) <= off /\ off < BlockEnd(c)
      BY <1>1, <1>2
    <2> QED BY <2>1, <2>2, <2>3
  <1>3. InBlock(b, off)
    BY <1>1
  <1>4. BlockAt(off) = b
    BY <1>2, <1>3 DEF BlockAt, BlockCount
  <1> QED BY <1>3, <1>4

\* The units behind an offset in a block: none of the block's at its start, all
\* at its end, and more and more in between.
LEMMA UnitsBehindAre ==
    ASSUME AllSound, image \in Images, NEW b \in 1 .. BlockCount
    PROVE  /\ UnitsBehind(b, 0) = UnitStart(b)
           /\ UnitsBehind(b, Blocks[b].size) = UnitStart(b + 1)
           /\ \A i \in 0 .. Blocks[b].size :
                UnitsBehind(b, i) \in Nat \ {0} /\ UnitsBehind(b, i) <= image.size
           /\ \A i, j \in 0 .. Blocks[b].size : i <= j => UnitsBehind(b, i) <= UnitsBehind(b, j)
           /\ Blocks[b].size = Blocks[b].units =>
                \A i \in 0 .. Blocks[b].size : UnitsBehind(b, i) = UnitStart(b) + i
  <1> DEFINE s == Blocks[b].size
             u == Blocks[b].units
             v == UnitStart(b)
  <1>1. /\ s \in Nat \ {0} /\ u \in Nat \ {0} /\ v \in Nat \ {0}
        /\ UnitStart(b + 1) = v + u /\ BlockCount \in Nat
    BY BlocksAre
  <1>2. \A i : UnitsBehind(b, i) = v + ((i * u) \div s)
    BY DEF UnitsBehind
  <1>3. v + u <= image.size /\ image.size \in Nat
    <2>1. CASE b = BlockCount
      BY <1>1, <2>1, BlocksAre
    <2>2. CASE b # BlockCount
      <3>1. b < BlockCount + 1 /\ BlockCount + 1 \in 1 .. BlockCount + 1
        BY <1>1
      <3> QED BY <3>1, BlocksAre
    <2> QED BY <2>1, <2>2
  <1> HIDE DEF s, u, v
  <1>4. UnitsBehind(b, 0) = v
    BY <1>1, <1>2, DivZero
  <1>5. UnitsBehind(b, s) = v + u
    BY <1>1, <1>2, DivAll
  <1>6. ASSUME NEW i \in 0 .. s, NEW j \in 0 .. s, i <= j
        PROVE  UnitsBehind(b, i) <= UnitsBehind(b, j)
    <2>1. i * u \in Nat /\ j * u \in Nat /\ i * u <= j * u
      BY <1>1, <1>6
    <2>2. (i * u) \div s <= (j * u) \div s /\ (i * u) \div s \in Nat /\ (j * u) \div s \in Nat
      BY <1>1, <2>1, DivGrows, DivBounds
    <2> QED BY <1>1, <1>2, <2>2
  <1>7. ASSUME NEW i \in 0 .. s PROVE UnitsBehind(b, i) \in Nat \ {0} /\ UnitsBehind(b, i) <= image.size
    <2>1. i * u \in Nat
      BY <1>1
    <2>2. (i * u) \div s \in Nat
      BY <1>1, <2>1, DivBounds
    <2>3. UnitsBehind(b, i) \in Nat \ {0}
      BY <1>1, <1>2, <2>2
    <2>4. UnitsBehind(b, i) <= UnitsBehind(b, s)
      BY <1>1, <1>6
    <2> QED BY <1>1, <1>3, <1>5, <2>3, <2>4
  <1>8. ASSUME s = u, NEW i \in 0 .. s PROVE UnitsBehind(b, i) = v + i
    <2>1. i * u = s * i /\ i \in Nat
      BY <1>1, <1>8
    <2>2. (s * i) \div s = i
      BY <1>1, <2>1, DivAll
    <2> QED BY <1>2, <2>1, <2>2
  <1> QED BY <1>1, <1>4, <1>5, <1>6, <1>7, <1>8 DEF s, u, v

-----------------------------------------------------------------------------
(* The invariant *)

LEMMA InitNcz == AllSound /\ Init => NczInv
  <1> SUFFICES ASSUME AllSound, Init PROVE NczInv
    OBVIOUS
  <1>1. /\ image \in Images /\ block = 0 /\ held = readOff /\ pos = 0
        /\ readOff = IF HasBlocks THEN 0 ELSE 1
        /\ pc = [at |-> "take", next |-> "take"]
    BY DEF Init, HasBlocks
  <1>2. /\ BlockCount \in Nat \ {0} /\ Blocks[1].size \in Nat \ {0}
        /\ BlockStart(1) = 0 /\ UnitStart(1) = 1 /\ UnitsBehind(1, 0) = UnitStart(1)
        /\ BlockEnd(1) = Blocks[1].size /\ BlockEnd(1) <= CompressedSize /\ CompressedSize \in Nat
        /\ image.blockSize \in Nat
    <2>1. BlockCount \in Nat \ {0} /\ 1 \in 1 .. BlockCount /\ 1 < BlockCount + 1
          /\ BlockCount + 1 \in 1 .. BlockCount + 1
      BY <1>1, BlocksAre
    <2>2. /\ Blocks[1].size \in Nat \ {0} /\ BlockStart(1) = 0 /\ UnitStart(1) = 1
          /\ BlockEnd(1) <= BlockStart(BlockCount + 1) /\ BlockStart(BlockCount + 1) \in Nat
          /\ CompressedSize = BlockStart(BlockCount + 1) /\ image.blockSize \in Nat
      BY <1>1, <2>1, BlocksAre DEF HeaderUnits
    <2>3. UnitsBehind(1, 0) = UnitStart(1)
      BY <1>1, <2>1, UnitsBehindAre
    <2> QED BY <2>1, <2>2, <2>3 DEF BlockEnd
  <1>3. ~HasBlocks => Blocks[1].size > 1
    <2>1. Sound(image)
      BY <1>1 DEF AllSound
    <2>2. image.blockSize = 0 => image.blocks[1].size > 1
      BY <2>1 DEF Sound
    <2> QED BY <1>2, <2>2 DEF HasBlocks, Blocks
  <1>4. Cursor = 0 /\ Here = 1 /\ Into = 0 /\ Place = "take"
    BY <1>1, <1>2 DEF Cursor, Here, Into, Place
  <1>5. NczTypes
    BY <1>1, <1>2 DEF Init, NczTypes, HeaderUnits
  <1>6. Position
    <2>1. readOff \in Nat /\ readOff <= CompressedSize /\ (held > 0 => readOff < CompressedSize)
      BY <1>1, <1>2, <1>3
    <2>2. inflated = UnitsBehind(Here, Into)
      BY <1>2, <1>4 DEF Init, HeaderUnits
    <2>3. Into \in 0 .. Blocks[Here].size
      BY <1>2, <1>4
    <2> QED BY <1>1, <1>4, <2>1, <2>2, <2>3 DEF Position
  <1>7. Units
    BY <1>1 DEF Init, Units, Passed, HeaderUnits
  <1>8. Keys
    BY DEF Init, Keys, KeyStreamInStep
  <1> QED BY <1>5, <1>6, <1>7, <1>8 DEF NczInv

\* What the block that the decompress thread is in says of the offset.
LEMMA HereIs ==
    ASSUME AllSound, NczTypes, Position
    PROVE  /\ Here \in 1 .. BlockCount /\ BlockCount \in Nat \ {0}
           /\ BlockStart(Here) \in Nat /\ Blocks[Here].size \in Nat \ {0}
           /\ BlockEnd(Here) = BlockStart(Here) + Blocks[Here].size
           /\ BlockEnd(Here) <= CompressedSize /\ CompressedSize \in Nat
           /\ Cursor \in Nat /\ Into \in Nat /\ Cursor = BlockStart(Here) + Into
           /\ Into <= Blocks[Here].size
           /\ inflated \in Nat \ {0} /\ inflated <= image.size
           /\ image.size \in Nat \ {0}
  <1>1. image \in Images /\ Here \in 1 .. BlockCount /\ BlockCount \in Nat \ {0}
    <2>1. image \in Images
      BY DEF NczTypes
    <2>2. BlockCount \in Nat \ {0}
      BY <2>1, BlocksAre
    <2> QED BY <2>1, <2>2 DEF NczTypes, Here
  <1>2. /\ BlockStart(Here) \in Nat /\ Blocks[Here].size \in Nat \ {0} /\ image.size \in Nat \ {0}
        /\ BlockEnd(Here) <= CompressedSize /\ CompressedSize \in Nat
    <2> DEFINE h == Here
               n == BlockCount
    <2>1. h \in 1 .. n /\ n + 1 \in 1 .. n + 1 /\ h < n + 1 /\ h \in 1 .. n + 1
      BY <1>1
    <2> HIDE DEF h, n
    <2>2. /\ BlockStart(h) \in Nat /\ Blocks[h].size \in Nat \ {0} /\ image.size \in Nat \ {0}
          /\ BlockEnd(h) <= CompressedSize /\ CompressedSize \in Nat
      BY <1>1, <2>1, BlocksAre DEF n
    <2> QED BY <2>2 DEF h
  <1>3. Cursor \in Int
    BY DEF Cursor, NczTypes
  <1>4. Into \in Nat /\ Into <= Blocks[Here].size
    BY <1>2 DEF Position
  <1>5. Cursor = BlockStart(Here) + Into
    BY <1>2, <1>3 DEF Into
  <1>6. inflated \in Nat \ {0} /\ inflated <= image.size
    <2> DEFINE h == Here
               i == Into
    <2>1. h \in 1 .. BlockCount /\ i \in 0 .. Blocks[h].size /\ inflated = UnitsBehind(h, i)
      BY <1>1, <1>2, <1>4 DEF Position
    <2> HIDE DEF h, i
    <2> QED BY <1>1, <2>1, UnitsBehindAre
  <1>7. BlockEnd(Here) = BlockStart(Here) + Blocks[Here].size
    BY DEF BlockEnd
  <1> QED BY <1>1, <1>2, <1>3, <1>4, <1>5, <1>6, <1>7

\* At the last compressed unit all units are inflated.
LEMMA AllInflated ==
    ASSUME AllSound, NczTypes, Position, Cursor >= CompressedSize
    PROVE  inflated = image.size
  <1> DEFINE h == Here
             n == BlockCount
             i == Into
  <1>1. /\ h \in 1 .. n /\ n \in Nat \ {0} /\ BlockStart(h) \in Nat /\ Blocks[h].size \in Nat \ {0}
        /\ BlockEnd(h) = BlockStart(h) + Blocks[h].size
        /\ i \in Nat /\ i <= Blocks[h].size /\ Cursor = BlockStart(h) + i
        /\ inflated = UnitsBehind(h, i) /\ image \in Images
    BY HereIs DEF Position, NczTypes
  <1> HIDE DEF h, n, i
  <1>2. /\ CompressedSize = BlockStart(n + 1) /\ image.size = UnitStart(n + 1)
        /\ BlockStart(n + 1) \in Nat
    BY <1>1, BlocksAre DEF n
  <1>3. CASE h = n
    <2>1. BlockStart(n + 1) = BlockEnd(n)
      BY <1>1, BlocksAre DEF n
    <2>2. i = Blocks[h].size
      BY <1>1, <1>2, <1>3, <2>1
    <2>3. UnitsBehind(h, Blocks[h].size) = UnitStart(h + 1)
      BY <1>1, UnitsBehindAre DEF n
    <2> QED BY <1>1, <1>2, <1>3, <2>2, <2>3
  <1>4. CASE h # n
    <2>1. h \in 1 .. n /\ n \in 1 .. n + 1 /\ h < n
      BY <1>1, <1>4
    <2>2. BlockEnd(h) <= BlockStart(n)
      BY <1>1, <2>1, BlocksAre DEF n
    <2>3. BlockStart(n + 1) = BlockStart(n) + Blocks[n].size /\ Blocks[n].size \in Nat \ {0}
          /\ BlockStart(n) \in Nat
      BY <1>1, <2>1, BlocksAre DEF n, BlockEnd
    <2> QED BY <1>1, <1>2, <2>2, <2>3
  <1> QED BY <1>3, <1>4

\* Steps that leave the offset, the count of units or the keys as they are.
LEMMA PositionFrame ==
    ASSUME Position, UNCHANGED <<image, readerVars, spanVars, inflated>>, Place' = Place
    PROVE  Position'
  <1>1. Cursor' = Cursor /\ Here' = Here /\ Into' = Into
    BY DEF Cursor, Here, Into, readerVars, spanVars, BlockStart, Blocks
  <1>2. UnitsBehind(Here, Into)' = UnitsBehind(Here, Into)
    BY <1>1 DEF UnitsBehind, UnitStart, Blocks
  <1> HIDE DEF Cursor, Here, Into, Place
  <1> QED BY <1>1, <1>2
          DEF Position, readerVars, spanVars, CompressedSize, BlockStart, Blocks, BlockEnd, HasBlocks,
              IsCompressed

LEMMA UnitsFrame ==
    ASSUME Units, UNCHANGED <<image, inflateBuf, inflated, flushing, written, out>>,
           pc.at # "flush", pc'.at \notin {"flush", "done"}
    PROVE  Units'
  BY DEF Units, Passed

LEMMA KeysFrame ==
    ASSUME Keys, UNCHANGED <<image, section, stream, written, out>>
    PROVE  Keys'
  BY DEF Keys, KeyStreamInStep, Sections

-----------------------------------------------------------------------------
(* The buffers and the spans *)

LEMMA TakeBufferNcz ==
    ASSUME AllSound, NczInv, TakeBuffer
    PROVE  NczInv'
  <1>0. /\ NczTypes /\ Position /\ Units /\ Keys
        /\ pc.at = "take" /\ readOff < CompressedSize /\ held' = 0 /\ pos' = readOff - held
        /\ bufEnd' = (IF pos' + bufferSize < CompressedSize THEN pos' + bufferSize ELSE CompressedSize)
        /\ readOff' = bufEnd' /\ pc' = [pc EXCEPT !.at = "span"]
        /\ UNCHANGED <<image, bufferSize, block, blockOffset, compressed, spanEnd, inflateBuf,
                       inflated, flushing, section, stream, written, out>>
    BY DEF NczInv, TakeBuffer, Goto, flushVars
  <1>1. /\ CompressedSize \in Nat /\ Cursor \in Nat /\ Cursor <= CompressedSize
        /\ bufferSize \in Nat /\ held <= readOff /\ readOff \in Nat /\ held \in Nat
    <2>1. bufferSize \in Nat
      <3>1. bufferSize \in BufferSizes
        BY <1>0 DEF NczTypes
      <3>2. \A x \in 2 .. FlushSize : x \in Nat
        BY NczAssumption
      <3> QED BY <3>1, <3>2, NczAssumption
    <2>2. Cursor \in Nat /\ Cursor <= CompressedSize /\ CompressedSize \in Nat
      BY <1>0, HereIs
    <2> QED BY <1>0, <2>1, <2>2 DEF NczTypes, Position
  <1>2. Place = "take" /\ Place' = "span" /\ pc'.at = "span" /\ pc'.next = pc.next
    BY <1>0 DEF Place, NczTypes
  <1>3. /\ Cursor' = Cursor /\ Here' = Here /\ Into' = Into /\ pos' = Cursor
        /\ UnitsBehind(Here, Into)' = UnitsBehind(Here, Into)
    BY <1>0, <1>2 DEF Cursor, Here, Into, BlockStart, Blocks, UnitsBehind, UnitStart
  <1>4. bufEnd' \in Nat /\ pos' <= bufEnd' /\ bufEnd' <= CompressedSize
    BY <1>0, <1>1, <1>3
  <1>5. NczTypes'
    BY <1>0, <1>1, <1>2, <1>3, <1>4 DEF NczTypes, BlockCount, Blocks, Sections
  <1>6. Position'
    <2> HIDE DEF Cursor, Here, Into, Place, CompressedSize
    <2>1. CompressedSize' = CompressedSize /\ Blocks' = Blocks /\ BlockStart(block)' = BlockStart(block)
          /\ HasBlocks' = HasBlocks
      BY <1>0 DEF CompressedSize, BlockStart, Blocks, HasBlocks
    <2> QED BY <1>0, <1>2, <1>3, <1>4, <2>1 DEF Position
  <1>7. Units'
    BY <1>0, <1>2, UnitsFrame
  <1>8. Keys'
    BY <1>0, KeysFrame
  <1> QED BY <1>5, <1>6, <1>7, <1>8 DEF NczInv

LEMMA BufferEndsNcz ==
    ASSUME AllSound, NczInv, BufferEnds
    PROVE  NczInv'
  <1>0. /\ NczTypes /\ Position /\ Units /\ Keys
        /\ pc.at = "span" /\ pos = bufEnd /\ pc' = [pc EXCEPT !.at = "take"]
        /\ UNCHANGED <<image, bufferSize, readerVars, spanVars, inflateBuf, inflated, flushVars>>
    BY DEF NczInv, BufferEnds, Goto
  <1>1. Place = "span" /\ Place' = "take" /\ pc'.at = "take" /\ pc'.next = pc.next
    BY <1>0 DEF Place, NczTypes
  <1>2. held = 0 /\ readOff = pos /\ readOff \in Nat
    BY <1>0, <1>1 DEF Position, NczTypes
  <1>3. /\ Cursor' = Cursor /\ Here' = Here /\ Into' = Into
        /\ UnitsBehind(Here, Into)' = UnitsBehind(Here, Into)
    BY <1>0, <1>1, <1>2
       DEF Cursor, Here, Into, BlockStart, Blocks, UnitsBehind, UnitStart, readerVars, spanVars
  <1>4. NczTypes'
    BY <1>0, <1>1 DEF NczTypes, BlockCount, Blocks, Sections, readerVars, spanVars, flushVars
  <1>5. Position'
    <2> HIDE DEF Cursor, Here, Into, Place, CompressedSize
    <2>1. CompressedSize' = CompressedSize /\ Blocks' = Blocks /\ BlockStart(block)' = BlockStart(block)
          /\ HasBlocks' = HasBlocks
      BY <1>0 DEF CompressedSize, BlockStart, Blocks, HasBlocks, spanVars
    <2> QED BY <1>0, <1>1, <1>2, <1>3, <2>1 DEF Position, readerVars, spanVars
  <1>6. Units'
    BY <1>0, <1>1, UnitsFrame DEF flushVars
  <1>7. Keys'
    BY <1>0, KeysFrame DEF flushVars
  <1> QED BY <1>4, <1>5, <1>6, <1>7 DEF NczInv

\* The next span begins in a block where the one before ended.
LEMMA NextBlock ==
    ASSUME AllSound, NczTypes, Position, Place = "span", HasBlocks, pos < bufEnd
    PROVE  /\ CurrentBlock \in 1 .. BlockCount
           /\ BlockStart(CurrentBlock) <= pos /\ pos < BlockEnd(CurrentBlock)
           /\ (IF CurrentBlock = block THEN blockOffset ELSE 0) = pos - BlockStart(CurrentBlock)
           /\ UnitsBehind(CurrentBlock, pos - BlockStart(CurrentBlock)) = inflated
  <1> DEFINE h == Here
             n == BlockCount
             i == Into
  <1>1. /\ h \in 1 .. n /\ n \in Nat \ {0} /\ BlockStart(h) \in Nat /\ Blocks[h].size \in Nat \ {0}
        /\ BlockEnd(h) = BlockStart(h) + Blocks[h].size
        /\ i \in Nat /\ i <= Blocks[h].size /\ pos = BlockStart(h) + i
        /\ inflated = UnitsBehind(h, i) /\ image \in Images /\ pos \in Nat
        /\ pos < CompressedSize /\ CompressedSize \in Nat
        /\ block \in 0 .. n /\ h = IF block = 0 THEN 1 ELSE block
        /\ block = 0 => pos = 0
        /\ block # 0 => blockOffset = i
    <2>1. Cursor = pos /\ pos \in Nat /\ bufEnd <= CompressedSize /\ bufEnd \in Nat
      BY DEF Cursor, Position, NczTypes
    <2>2. /\ inflated = UnitsBehind(h, i) /\ image \in Images /\ block \in 0 .. n
          /\ h = IF block = 0 THEN 1 ELSE block
          /\ block = 0 => Cursor = 0
          /\ block # 0 => blockOffset = i
      BY DEF Position, NczTypes, Here
    <2> HIDE DEF h, i, n
    <2>3. /\ h \in 1 .. n /\ n \in Nat \ {0} /\ BlockStart(h) \in Nat /\ Blocks[h].size \in Nat \ {0}
          /\ BlockEnd(h) = BlockStart(h) + Blocks[h].size
          /\ i \in Nat /\ i <= Blocks[h].size /\ Cursor = BlockStart(h) + i
          /\ CompressedSize \in Nat
      BY HereIs DEF h, i, n
    <2>4. pos < CompressedSize
      BY <2>1, <2>3
    <2> QED BY <2>1, <2>2, <2>3, <2>4
  <1> HIDE DEF h, n, i
  <1>2. CASE block # 0 /\ i < Blocks[h].size
    <2>1. pos < BlockEnd(h) /\ BlockStart(h) <= pos /\ i = pos - BlockStart(h) /\ h = block
      BY <1>1, <1>2
    <2>2. InBlock(h, pos)
      BY <1>1, <2>1, BlockAtIs DEF n
    <2>3. CurrentBlock = h
      BY <1>2, <2>1, <2>2 DEF CurrentBlock
    <2> QED BY <1>1, <1>2, <2>1, <2>3 DEF n
  <1>3. CASE block # 0 /\ i = Blocks[h].size
    <2>1. pos = BlockEnd(h) /\ h = block
      BY <1>1, <1>3
    <2>2. h # n
      <3>1. CompressedSize = BlockStart(n + 1) /\ BlockStart(n + 1) = BlockEnd(n)
        BY <1>1, BlocksAre DEF n
      <3> QED BY <1>1, <2>1, <3>1
    <2> DEFINE c == h + 1
    <2>3. c \in 1 .. n /\ c # block /\ BlockStart(c) = pos
      BY <1>1, <2>1, <2>2, BlocksAre DEF n
    <2>4. UnitsBehind(h, Blocks[h].size) = UnitStart(c)
      BY <1>1, UnitsBehindAre DEF n
    <2> HIDE DEF c
    <2>5. Blocks[c].size \in Nat \ {0} /\ UnitsBehind(c, 0) = UnitStart(c)
      BY <1>1, <2>3, BlocksAre, UnitsBehindAre DEF n
    <2>6. BlockStart(c) <= pos /\ pos < BlockEnd(c)
      BY <1>1, <2>3, <2>5 DEF BlockEnd
    <2>7. BlockAt(pos) = c
      BY <1>1, <2>3, <2>6, BlockAtIs DEF n
    <2>8. ~InBlock(block, pos)
      BY <1>1, <2>1 DEF InBlock, InRange
    <2>9. CurrentBlock = c
      BY <2>7, <2>8 DEF CurrentBlock
    <2>10. pos - BlockStart(c) = 0
      BY <1>1, <2>3
    <2> QED BY <1>1, <1>3, <2>3, <2>4, <2>5, <2>6, <2>9, <2>10 DEF n
  <1>4. CASE block = 0
    <2>1. pos = 0 /\ h = 1 /\ BlockStart(1) = 0 /\ 1 \in 1 .. n /\ i = 0
      BY <1>1, <1>4, BlocksAre DEF n
    <2>2. BlockStart(1) <= pos /\ pos < BlockEnd(1)
      BY <1>1, <2>1
    <2>3. BlockAt(pos) = 1
      BY <1>1, <2>1, <2>2, BlockAtIs DEF n
    <2>4. CurrentBlock = 1
      BY <1>4, <2>3 DEF CurrentBlock
    <2>5. pos - BlockStart(1) = 0
      BY <2>1
    <2> QED BY <1>1, <1>4, <2>1, <2>2, <2>4, <2>5 DEF n
  <1>5. i < Blocks[h].size \/ i = Blocks[h].size
    BY <1>1
  <1> QED BY <1>2, <1>3, <1>4, <1>5

\* Whether a block is taken for compressed is whether it is.
LEMMA ToldApart ==
    ASSUME AllSound, image \in Images, HasBlocks, NEW b \in 1 .. BlockCount
    PROVE  /\ Blocks[b].size < ExpectedUnits(b) <=> IsCompressed(b)
           /\ ~IsCompressed(b) => Blocks[b].size = Blocks[b].units
  <1>1. Sound(image) /\ image.blockSize > 0
    BY DEF AllSound, HasBlocks
  <1>2. /\ image.blocks[b].size <= image.blocks[b].units
        /\ image.blocks[b].units = IF b = Len(image.blocks) THEN (image.size - HeaderUnits) % image.blockSize
                                                            ELSE image.blockSize
    BY <1>1 DEF Sound, BlockCount, Blocks
  <1>3. Blocks[b].size \in Nat /\ Blocks[b].units \in Nat
    BY BlocksAre
  <1> QED BY <1>2, <1>3 DEF ExpectedUnits, IsCompressed, Blocks

LEMMA NextSpanNcz ==
    ASSUME AllSound, NczInv, NextSpan
    PROVE  NczInv'
  <1>0. /\ NczTypes /\ Position /\ Units /\ Keys
        /\ pc.at = "span" /\ pos < bufEnd
        /\ pc' = [pc EXCEPT !.at = IF compressed' THEN "inflate" ELSE "copy"]
        /\ UNCHANGED <<image, bufferSize, readerVars, pos, bufEnd, inflateBuf, inflated, flushVars>>
    BY DEF NczInv, NextSpan, Goto
  <1>1. Place = "span" /\ image \in Images /\ pos \in Nat /\ bufEnd \in Nat /\ held = 0
    BY <1>0 DEF Place, NczTypes, Position
  <1>2. /\ Cursor = pos /\ Here \in 1 .. BlockCount /\ BlockCount \in Nat
        /\ CompressedSize \in Nat /\ bufEnd <= CompressedSize
        /\ readOff = bufEnd /\ image.blockSize \in Nat
    BY <1>0, <1>1, HereIs, BlocksAre DEF Cursor, Position
  <1>3. /\ Here' \in 1 .. BlockCount /\ block' \in 0 .. BlockCount
        /\ BlockStart(Here') \in Nat /\ BlockStart(Here') <= pos /\ pos < BlockEnd(Here')
        /\ BlockEnd(Here') = BlockStart(Here') + Blocks[Here'].size /\ Blocks[Here'].size \in Nat
        /\ spanEnd' \in Nat /\ pos < spanEnd' /\ spanEnd' <= bufEnd /\ spanEnd' <= BlockEnd(Here')
        /\ inflated = UnitsBehind(Here', pos - BlockStart(Here'))
        /\ compressed' = IsCompressed(Here')
        /\ HasBlocks => block' # 0
        /\ ~HasBlocks => block' = 0
        /\ block' # 0 => block' = Here' /\ blockOffset' = spanEnd' - BlockStart(Here')
        /\ blockOffset' \in Nat
    <2>1. CASE HasBlocks
      <3> DEFINE b == CurrentBlock
                 o == IF b = block THEN blockOffset ELSE 0
                 n == SpanSize(b, o)
      <3>1. /\ b \in 1 .. BlockCount /\ BlockStart(b) <= pos /\ pos < BlockEnd(b)
            /\ o = pos - BlockStart(b) /\ UnitsBehind(b, pos - BlockStart(b)) = inflated
        BY <1>0, <1>1, <2>1, NextBlock
      <3>2. /\ block' = b /\ blockOffset' = o + n /\ spanEnd' = pos + n
            /\ compressed' = (Blocks[b].size < ExpectedUnits(b))
        BY <2>1 DEF NextSpan
      <3>3. n = IF bufEnd - pos < Blocks[b].size - o THEN bufEnd - pos ELSE Blocks[b].size - o
        BY DEF SpanSize
      <3> HIDE DEF b, o, n
      <3>4. BlockStart(b) \in Nat /\ Blocks[b].size \in Nat /\ BlockEnd(b) = BlockStart(b) + Blocks[b].size
        <4>1. b \in 1 .. BlockCount + 1
          BY <1>2, <3>1
        <4> QED BY <1>1, <3>1, <4>1, BlocksAre DEF BlockEnd
      <3>5. o \in Nat /\ n \in Nat \ {0} /\ pos + n <= bufEnd /\ o + n <= Blocks[b].size
        BY <1>0, <1>1, <3>1, <3>3, <3>4
      <3>6. Here' = b /\ block' # 0
        BY <1>2, <3>1, <3>2 DEF Here
      <3>7. compressed' = IsCompressed(b)
        BY <1>1, <2>1, <3>1, <3>2, ToldApart DEF IsCompressed
      <3>8. /\ blockOffset' = spanEnd' - BlockStart(b) /\ spanEnd' <= BlockEnd(b)
            /\ spanEnd' \in Nat /\ pos < spanEnd' /\ spanEnd' <= bufEnd /\ blockOffset' \in Nat
        BY <1>1, <3>1, <3>2, <3>4, <3>5
      <3> HIDE DEF Here
      <3> QED BY <2>1, <3>1, <3>2, <3>4, <3>6, <3>7, <3>8
    <2>2. CASE ~HasBlocks
      <3>1. compressed' = TRUE /\ spanEnd' = bufEnd /\ UNCHANGED <<block, blockOffset>>
        BY <2>2 DEF NextSpan
      <3>2. block = 0 /\ Here = 1 /\ Here' = 1
        BY <1>0, <2>2, <3>1 DEF Position, Here
      <3>3. BlockCount = 1
        <4>1. Sound(image) /\ image.blockSize = 0
          BY <1>1, <1>2, <2>2 DEF AllSound, HasBlocks
        <4> QED BY <4>1 DEF Sound, BlockCount, Blocks
      <3>4. /\ BlockStart(1) = 0 /\ CompressedSize = BlockStart(2) /\ BlockStart(2) = BlockEnd(1)
            /\ Blocks[1].size \in Nat
        BY <1>1, <3>3, BlocksAre
      <3>5. inflated = UnitsBehind(1, pos - BlockStart(1))
        BY <1>0, <1>2, <3>2 DEF Position, Into
      <3>6. blockOffset \in Nat
        BY <1>0 DEF NczTypes
      <3>7. /\ BlockEnd(1) = BlockStart(1) + Blocks[1].size /\ CompressedSize = BlockEnd(1)
            /\ compressed' = IsCompressed(1)
        BY <2>2, <3>1, <3>4 DEF BlockEnd, IsCompressed
      <3>8. pos < BlockEnd(1) /\ bufEnd <= BlockEnd(1)
        BY <1>0, <1>1, <1>2, <3>7
      <3> HIDE DEF Here
      <3> QED BY <1>0, <1>1, <2>2, <3>1, <3>2, <3>3, <3>4, <3>5, <3>6, <3>7, <3>8
    <2> QED BY <2>1, <2>2
  <1>4. /\ pc'.at \in {"inflate", "copy"} /\ (pc'.at = "inflate" <=> compressed')
        /\ Place' = pc'.at /\ pc'.next = pc.next
    BY <1>0 DEF Place, NczTypes
  <1>5. Cursor' = pos /\ Into' = pos - BlockStart(Here')
    <2> HIDE DEF Here
    <2> QED BY <1>0, <1>4 DEF Cursor, Into, BlockStart, Blocks
  <1>6. NczTypes'
    BY <1>0, <1>3, <1>4 DEF NczTypes, BlockCount, Blocks, Sections, readerVars, flushVars, IsCompressed
  <1>7. Position'
    <2>1. /\ CompressedSize' = CompressedSize /\ Blocks' = Blocks /\ HasBlocks' = HasBlocks
          /\ BlockStart(Here)' = BlockStart(Here') /\ BlockStart(block)' = BlockStart(block')
          /\ BlockEnd(Here)' = BlockEnd(Here') /\ IsCompressed(Here)' = IsCompressed(Here')
          /\ UnitsBehind(Here, Into)' = UnitsBehind(Here', Into')
      BY <1>0 DEF CompressedSize, BlockStart, BlockEnd, Blocks, HasBlocks, IsCompressed, UnitsBehind,
         UnitStart
    <2>2. pos - BlockStart(Here') \in 0 .. Blocks[Here'].size
      BY <1>1, <1>3
    <2> HIDE DEF Cursor, Here, Into, Place, CompressedSize
    <2> QED BY <1>0, <1>1, <1>2, <1>3, <1>4, <1>5, <2>1, <2>2 DEF Position, readerVars
  <1>8. Units'
    BY <1>0, <1>4, UnitsFrame DEF flushVars
  <1>9. Keys'
    BY <1>0, KeysFrame DEF flushVars
  <1> QED BY <1>6, <1>7, <1>8, <1>9 DEF NczInv

LEMMA SpanEndsNcz ==
    ASSUME AllSound, NczInv, SpanEnds
    PROVE  NczInv'
  <1>0. /\ NczTypes /\ Position /\ Units /\ Keys
        /\ pc.at = "inflate" /\ pos = spanEnd /\ pc' = [pc EXCEPT !.at = "span"]
        /\ UNCHANGED <<image, bufferSize, readerVars, spanVars, inflateBuf, inflated, flushVars>>
    BY DEF NczInv, SpanEnds, Goto
  <1>1. Place = "inflate" /\ Place' = "span" /\ pc'.at = "span" /\ pc'.next = pc.next
    BY <1>0 DEF Place, NczTypes
  <1>2. /\ Cursor' = pos /\ Cursor = pos /\ Here' = Here /\ Into' = Into
        /\ UnitsBehind(Here, Into)' = UnitsBehind(Here, Into)
    BY <1>0, <1>1
       DEF Cursor, Here, Into, BlockStart, Blocks, UnitsBehind, UnitStart, readerVars, spanVars
  <1>3. block # 0 => Into = spanEnd - BlockStart(block)
    BY <1>0, <1>2 DEF Into, Here
  <1>4. NczTypes'
    BY <1>0, <1>1 DEF NczTypes, BlockCount, Blocks, Sections, readerVars, spanVars, flushVars
  <1>5. Position'
    <2> HIDE DEF Cursor, Here, Into, Place, CompressedSize
    <2>1. CompressedSize' = CompressedSize /\ Blocks' = Blocks /\ BlockStart(block)' = BlockStart(block)
          /\ HasBlocks' = HasBlocks
      BY <1>0 DEF CompressedSize, BlockStart, Blocks, HasBlocks, spanVars
    <2> QED BY <1>0, <1>1, <1>2, <1>3, <2>1 DEF Position, readerVars, spanVars
  <1>6. Units'
    BY <1>0, <1>1, UnitsFrame DEF flushVars
  <1>7. Keys'
    BY <1>0, KeysFrame DEF flushVars
  <1> QED BY <1>4, <1>5, <1>6, <1>7 DEF NczInv

-----------------------------------------------------------------------------
(* The inflate buffer *)

\* Units appended to a buffer of consecutive ones.
LEMMA FillUnits ==
    ASSUME Units, NczTypes, pc.at # "flush", NEW units \in Seq(Int),
           \A k \in 1 .. Len(units) : units[k] = inflated + k - 1,
           inflateBuf' = inflateBuf \o units, inflated' = inflated + Len(units),
           UNCHANGED <<image, written, out>>, pc'.at # "done",
           \/ pc'.at # "flush" /\ flushing' = flushing
           \/ flushing' = [size |-> FlushSize, off |-> 0] /\ Len(inflateBuf') >= FlushSize
    PROVE  Units' /\ inflateBuf' \in Seq(Int) /\ inflated' \in Nat /\ flushing' \in [size : Nat, off : Nat]
  <1>1. /\ inflateBuf \in Seq(Int) /\ Len(inflateBuf) \in Nat /\ Len(units) \in Nat
        /\ inflated \in Nat /\ written \in Nat /\ FlushSize \in Nat
        /\ flushing \in [size : Nat, off : Nat]
    BY NczAssumption DEF NczTypes
  <1>2. /\ inflateBuf' \in Seq(Int) /\ Len(inflateBuf') = Len(inflateBuf) + Len(units)
        /\ \A i \in 1 .. Len(inflateBuf) : inflateBuf'[i] = inflateBuf[i]
        /\ \A k \in 1 .. Len(units) : inflateBuf'[Len(inflateBuf) + k] = units[k]
    BY <1>1
  <1>3. Passed = 0 /\ Passed' = 0
    <2>1. Passed = 0
      BY DEF Passed
    <2>2. Passed' = 0
      BY DEF Passed
    <2> QED BY <2>1, <2>2
  <1>4. inflated = written + Len(inflateBuf)
    BY <1>1, <1>3 DEF Units
  <1>5. inflated' \in Nat /\ inflated' = written + Len(inflateBuf')
    BY <1>1, <1>2, <1>4
  <1>6. \A i \in 1 .. Len(inflateBuf') : inflateBuf'[i] = written + i - 1
    <2> SUFFICES ASSUME NEW i \in 1 .. Len(inflateBuf') PROVE inflateBuf'[i] = written + i - 1
      OBVIOUS
    <2>1. CASE i <= Len(inflateBuf)
      <3>1. i \in 0 + 1 .. Len(inflateBuf)
        BY <1>1, <2>1
      <3>2. inflateBuf[i] = written + i - 0 - 1
        BY <1>3, <3>1 DEF Units
      <3> QED BY <1>1, <1>2, <3>1, <3>2
    <2>2. CASE i > Len(inflateBuf)
      <3> DEFINE k == i - Len(inflateBuf)
      <3>1. k \in 1 .. Len(units) /\ i = Len(inflateBuf) + k
        BY <1>1, <1>2, <2>2
      <3> HIDE DEF k
      <3>2. inflateBuf'[i] = inflated + k - 1
        BY <1>2, <3>1
      <3> QED BY <1>1, <1>4, <3>1, <3>2
    <2> QED BY <1>1, <1>2, <2>1, <2>2
  <1>7. /\ flushing' \in [size : Nat, off : Nat] /\ flushing'.off <= flushing'.size
        /\ pc'.at = "flush" => flushing'.size <= Len(inflateBuf')
    <2>1. flushing.off <= flushing.size
      BY DEF Units
    <2> QED BY <1>1, <2>1
  <1>8. Units'
    <2>1. written + Len(inflateBuf') - 0 = inflated' /\ \A i \in 1 .. Len(inflateBuf') : inflateBuf'[i] = written + i - 0 - 1
      BY <1>1, <1>2, <1>5, <1>6
    <2> QED BY <1>2, <1>3, <1>7, <2>1 DEF Units
  <1> QED BY <1>2, <1>5, <1>7, <1>8

\* A step on in the block that does not leave the span.
LEMMA SpanMoves ==
    ASSUME AllSound, NczTypes, Position, Place \in {"inflate", "copy"},
           UNCHANGED <<image, readerVars, block, blockOffset, compressed, bufEnd, spanEnd>>,
           pos' \in Nat, pos <= pos', pos' <= spanEnd,
           Place' = Place \/ (Place' = "span" /\ pos' = spanEnd),
           inflated' = UnitsBehind(Here, pos' - BlockStart(Here))
    PROVE  Position'
  <1>1. /\ Here' = Here /\ Cursor' = pos' /\ Cursor = pos /\ Into' = pos' - BlockStart(Here)
        /\ UnitsBehind(Here, Into)' = UnitsBehind(Here, Into')
    BY DEF Here, Cursor, Into, BlockStart, Blocks, UnitsBehind, UnitStart, readerVars
  <1>2. /\ BlockStart(Here) \in Nat /\ Blocks[Here].size \in Nat
        /\ BlockEnd(Here) = BlockStart(Here) + Blocks[Here].size
        /\ BlockStart(Here) <= pos
    <2>1. /\ BlockStart(Here) \in Nat /\ Blocks[Here].size \in Nat /\ Into \in Nat
          /\ BlockEnd(Here) = BlockStart(Here) + Blocks[Here].size /\ Cursor = BlockStart(Here) + Into
      BY HereIs
    <2> HIDE DEF Here, Into, Cursor
    <2> QED BY <1>1, <2>1
  <1>3. /\ spanEnd \in Nat /\ spanEnd <= bufEnd /\ spanEnd <= BlockEnd(Here) /\ pos \in Nat
        /\ bufEnd \in Nat
    BY DEF Position, NczTypes
  <1>4. pos' - BlockStart(Here) \in 0 .. Blocks[Here].size
    <2> HIDE DEF Here
    <2> QED BY <1>2, <1>3
  <1>5. block # 0 => Here = block
    BY DEF Here
  <1>6. /\ CompressedSize' = CompressedSize /\ Blocks' = Blocks /\ BlockStart(block)' = BlockStart(block)
        /\ HasBlocks' = HasBlocks /\ BlockEnd(Here)' = BlockEnd(Here)
        /\ IsCompressed(Here)' = IsCompressed(Here)
    BY <1>1 DEF CompressedSize, BlockStart, BlockEnd, Blocks, HasBlocks, IsCompressed
  <1> HIDE DEF Cursor, Here, Into, Place, CompressedSize
  <1> QED BY <1>1, <1>2, <1>3, <1>4, <1>5, <1>6 DEF Position, readerVars

\* What follows a fill: the place, and where the decompress thread goes on.
LEMMA FillPlaces ==
    ASSUME NczTypes, pc.at # "flush", NEW units, NEW place \in {"inflate", "span"}, Fill(units, place)
    PROVE  /\ Place' = place /\ pc'.at # "done"
           /\ pc' \in [at : {"take", "span", "inflate", "copy", "flush", "done"},
                       next : {"take", "span", "inflate"}]
           /\ \/ pc'.at # "flush" /\ flushing' = flushing
              \/ flushing' = [size |-> FlushSize, off |-> 0] /\ Len(inflateBuf') >= FlushSize
  <1>1. pc \in [at : {"take", "span", "inflate", "copy", "flush", "done"},
                next : {"take", "span", "inflate"}]
    BY DEF NczTypes
  <1>2. CASE Len(inflateBuf') >= FlushSize
    <2>1. flushing' = [size |-> FlushSize, off |-> 0] /\ pc' = [at |-> "flush", next |-> place]
      BY <1>2 DEF Fill
    <2> QED BY <1>2, <2>1 DEF Place
  <1>3. CASE ~(Len(inflateBuf') >= FlushSize)
    <2>1. flushing' = flushing /\ pc' = [pc EXCEPT !.at = place]
      BY <1>3 DEF Fill, Goto
    <2> QED BY <1>1, <2>1 DEF Place
  <1> QED BY <1>2, <1>3

LEMMA InflateNcz ==
    ASSUME AllSound, NczInv, Inflate
    PROVE  NczInv'
  <1>0. NczTypes /\ Position /\ Units /\ Keys /\ pc.at = "inflate" /\ pos < spanEnd
    BY DEF NczInv, Inflate
  <1> DEFINE h == Here
             i == pos - BlockStart(h)
  <1>1. /\ Place = "inflate" /\ image \in Images /\ pos \in Nat /\ spanEnd \in Nat
        /\ Cursor = pos /\ spanEnd <= BlockEnd(h) /\ IsCompressed(h) /\ Into = i
        /\ inflated = UnitsBehind(h, i)
    BY <1>0 DEF Place, NczTypes, Position, Cursor, Into
  <1>2. /\ h \in 1 .. BlockCount /\ BlockStart(h) \in Nat /\ Blocks[h].size \in Nat
        /\ BlockEnd(h) = BlockStart(h) + Blocks[h].size /\ i \in Nat /\ BlockStart(h) <= pos
    <2>1. /\ h \in 1 .. BlockCount /\ BlockStart(h) \in Nat /\ Blocks[h].size \in Nat
          /\ BlockEnd(h) = BlockStart(h) + Blocks[h].size /\ Into \in Nat
      BY <1>0, HereIs
    <2> HIDE DEF h
    <2>2. i \in Nat
      BY <1>1, <2>1
    <2> QED BY <1>1, <2>1, <2>2
  <1> HIDE DEF h
  <1>3. pos < BlockEnd(h) /\ i \in 0 .. Blocks[h].size /\ i + 1 \in 0 .. Blocks[h].size
    BY <1>0, <1>1, <1>2
  <1>4. BlockAt(pos) = h
    BY <1>1, <1>2, <1>3, BlockAtIs
  <1>5. Fill(Inflated(pos), "inflate") /\ pos' = pos + 1
    BY <1>0, <1>1, <1>4 DEF Inflate
  <1> DEFINE units == Inflated(pos)
             before == UnitsBehind(h, i)
             after == UnitsBehind(h, i + 1)
  <1>6. before \in Nat /\ after \in Nat /\ before <= after
    BY <1>1, <1>2, <1>3, UnitsBehindAre
  <1>7. units = [k \in 1 .. after - before |-> before + k - 1]
    <2> DEFINE v == UnitStart(h)
               p == (i * Blocks[h].units) \div Blocks[h].size
               q == ((i + 1) * Blocks[h].units) \div Blocks[h].size
    <2>1. units = [k \in 1 .. q - p |-> v + p + k - 1]
      BY <1>4 DEF Inflated
    <2>2. before = v + p /\ after = v + q
      BY DEF UnitsBehind
    <2>3. v \in Nat
      <3>1. h \in 1 .. BlockCount + 1
        BY <1>1, <1>2, BlocksAre
      <3> QED BY <1>1, <3>1, BlocksAre
    <2>4. p \in Nat /\ q \in Nat
      <3>1. Blocks[h].units \in Nat /\ Blocks[h].size \in Nat \ {0}
        BY <1>1, <1>2, BlocksAre
      <3>2. i * Blocks[h].units \in Nat /\ (i + 1) * Blocks[h].units \in Nat
        BY <1>2, <3>1
      <3> QED BY <3>1, <3>2, DivBounds
    <2> HIDE DEF p, q, v, units, before, after
    <2>5. after - before = q - p
      BY <2>2, <2>3, <2>4
    <2> QED BY <2>1, <2>2, <2>5
  <1> HIDE DEF units, before, after, i
  <1>8. /\ units \in Seq(Int) /\ Len(units) = after - before
        /\ \A k \in 1 .. Len(units) : units[k] = inflated + k - 1
    <2>1. inflated = before
      BY <1>1 DEF before
    <2> QED BY <1>6, <1>7, <2>1
  <1>9. /\ inflateBuf' = inflateBuf \o units /\ inflated' = inflated + Len(units)
        /\ UNCHANGED <<image, bufferSize, readerVars, block, blockOffset, compressed, bufEnd, spanEnd,
                       section, stream, written, out>>
    BY <1>5 DEF Fill, units
  <1>10. inflated' = after
    BY <1>1, <1>6, <1>8, <1>9 DEF before
  <1>11. /\ Place' = "inflate" /\ pc'.at # "done"
         /\ pc' \in [at : {"take", "span", "inflate", "copy", "flush", "done"},
                     next : {"take", "span", "inflate"}]
         /\ \/ pc'.at # "flush" /\ flushing' = flushing
            \/ flushing' = [size |-> FlushSize, off |-> 0] /\ Len(inflateBuf') >= FlushSize
    BY <1>0, <1>5, FillPlaces
  <1>12. Units' /\ inflateBuf' \in Seq(Int) /\ inflated' \in Nat /\ flushing' \in [size : Nat, off : Nat]
    BY <1>0, <1>8, <1>9, <1>11, FillUnits
  <1>13. Position'
    <2>1. pos' \in Nat /\ pos <= pos' /\ pos' <= spanEnd
      BY <1>0, <1>1, <1>5
    <2>2. pos' - BlockStart(h) = i + 1
      BY <1>1, <1>2, <1>5 DEF i
    <2>3. inflated' = UnitsBehind(Here, pos' - BlockStart(Here))
      BY <1>10, <2>2 DEF after, h
    <2> QED BY <1>0, <1>1, <1>9, <1>11, <2>1, <2>3, SpanMoves
  <1>14. NczTypes'
    <2>1. pos' \in Nat
      BY <1>1, <1>5
    <2> QED BY <1>0, <1>9, <1>11, <1>12, <2>1 DEF NczTypes, BlockCount, Blocks, Sections, readerVars
  <1>15. Keys'
    BY <1>0, <1>9, KeysFrame
  <1> QED BY <1>12, <1>13, <1>14, <1>15 DEF NczInv

LEMMA CopyNcz ==
    ASSUME AllSound, NczInv, Copy
    PROVE  NczInv'
  <1>0. /\ NczTypes /\ Position /\ Units /\ Keys /\ pc.at = "copy" /\ pos' = spanEnd
        /\ Fill([k \in 1 .. spanEnd - pos |-> Stored(pos + k - 1)], "span")
    BY DEF NczInv, Copy
  <1> DEFINE h == Here
             i == pos - BlockStart(h)
             n == spanEnd - pos
             units == [k \in 1 .. n |-> Stored(pos + k - 1)]
  <1>1. /\ Place = "copy" /\ image \in Images /\ pos \in Nat /\ spanEnd \in Nat /\ pos <= spanEnd
        /\ Cursor = pos /\ spanEnd <= BlockEnd(h) /\ ~IsCompressed(h) /\ Into = i
        /\ inflated = UnitsBehind(h, i)
    BY <1>0 DEF Place, NczTypes, Position, Cursor, Into
  <1>2. /\ h \in 1 .. BlockCount /\ BlockStart(h) \in Nat /\ Blocks[h].size \in Nat
        /\ BlockEnd(h) = BlockStart(h) + Blocks[h].size /\ i \in Nat /\ BlockStart(h) <= pos
        /\ n \in Nat
    <2>1. /\ h \in 1 .. BlockCount /\ BlockStart(h) \in Nat /\ Blocks[h].size \in Nat
          /\ BlockEnd(h) = BlockStart(h) + Blocks[h].size /\ Into \in Nat
      BY <1>0, HereIs
    <2> HIDE DEF h
    <2>2. i \in Nat /\ n \in Nat
      BY <1>1, <2>1
    <2> QED BY <1>1, <2>1, <2>2
  <1> HIDE DEF h
  <1>3. i \in 0 .. Blocks[h].size /\ i + n \in 0 .. Blocks[h].size
    BY <1>1, <1>2
  <1>4. Blocks[h].size = Blocks[h].units
    <2>1. HasBlocks
      BY <1>1 DEF IsCompressed
    <2> QED BY <1>1, <1>2, <2>1, ToldApart
  <1>5. /\ UnitsBehind(h, i) = UnitStart(h) + i /\ UnitsBehind(h, i + n) = UnitStart(h) + (i + n)
        /\ UnitStart(h) \in Nat
    <2>1. \A j \in 0 .. Blocks[h].size : UnitsBehind(h, j) = UnitStart(h) + j
      BY <1>1, <1>2, <1>4, UnitsBehindAre
    <2>2. h \in 1 .. BlockCount + 1
      BY <1>1, <1>2, BlocksAre
    <2> HIDE DEF i, n
    <2> QED BY <1>1, <1>3, <2>1, <2>2, BlocksAre
  <1>6. ASSUME NEW k \in 1 .. n PROVE Stored(pos + k - 1) = inflated + k - 1
    <2>1. pos + k - 1 \in Nat /\ BlockStart(h) <= pos + k - 1 /\ pos + k - 1 < BlockEnd(h)
      BY <1>1, <1>2
    <2>2. BlockAt(pos + k - 1) = h
      BY <1>1, <1>2, <2>1, BlockAtIs
    <2>3. Stored(pos + k - 1) = UnitStart(h) + (pos + k - 1) - BlockStart(h)
      BY <1>1, <2>2 DEF Stored
    <2> QED BY <1>1, <1>2, <1>5, <2>3
  <1> HIDE DEF n
  <1>7. /\ units \in Seq(Int) /\ Len(units) = n
        /\ \A k \in 1 .. Len(units) : units[k] = inflated + k - 1
    <2>1. \A k \in 1 .. n : Stored(pos + k - 1) \in Int
      <3>1. inflated \in Nat
        BY <1>0 DEF NczTypes
      <3> QED BY <1>2, <1>6, <3>1
    <2> QED BY <1>2, <1>6, <2>1
  <1> HIDE DEF units, i
  <1>8. /\ Fill(units, "span") /\ inflateBuf' = inflateBuf \o units /\ inflated' = inflated + Len(units)
        /\ UNCHANGED <<image, bufferSize, readerVars, block, blockOffset, compressed, bufEnd, spanEnd,
                       section, stream, written, out>>
    BY <1>0 DEF Fill, units, n
  <1>9. inflated' = UnitsBehind(h, i + n)
    BY <1>1, <1>2, <1>5, <1>7, <1>8
  <1>10. /\ Place' = "span" /\ pc'.at # "done"
         /\ pc' \in [at : {"take", "span", "inflate", "copy", "flush", "done"},
                     next : {"take", "span", "inflate"}]
         /\ \/ pc'.at # "flush" /\ flushing' = flushing
            \/ flushing' = [size |-> FlushSize, off |-> 0] /\ Len(inflateBuf') >= FlushSize
    BY <1>0, <1>8, FillPlaces
  <1>11. Units' /\ inflateBuf' \in Seq(Int) /\ inflated' \in Nat /\ flushing' \in [size : Nat, off : Nat]
    BY <1>0, <1>7, <1>8, <1>10, FillUnits
  <1>12. Position'
    <2>1. pos' - BlockStart(h) = i + n
      BY <1>0, <1>1, <1>2 DEF i, n
    <2>2. inflated' = UnitsBehind(Here, pos' - BlockStart(Here))
      BY <1>9, <2>1 DEF h
    <2> QED BY <1>0, <1>1, <1>8, <1>10, <2>2, SpanMoves
  <1>13. NczTypes'
    BY <1>0, <1>1, <1>8, <1>10, <1>11 DEF NczTypes, BlockCount, Blocks, Sections, readerVars
  <1>14. Keys'
    BY <1>0, <1>8, KeysFrame
  <1> QED BY <1>11, <1>12, <1>13, <1>14 DEF NczInv

-----------------------------------------------------------------------------
(* The flushes *)

LEMMA LastFlushNcz ==
    ASSUME AllSound, NczInv, LastFlush
    PROVE  NczInv'
  <1>0. /\ NczTypes /\ Position /\ Units /\ Keys /\ pc.at = "take"
        /\ inflated >= image.size \/ readOff = CompressedSize
        /\ UNCHANGED <<image, bufferSize, readerVars, spanVars, inflateBuf, inflated, section, stream,
                       written, out>>
    BY DEF NczInv, LastFlush
  <1>1. /\ Place = "take" /\ inflateBuf \in Seq(Int)
        /\ pc \in [at : {"take", "span", "inflate", "copy", "flush", "done"},
                   next : {"take", "span", "inflate"}]
    BY <1>0 DEF Place, NczTypes
  <1>2. inflated = image.size
    <2>1. CASE inflated >= image.size
      BY <1>0, <2>1, HereIs
    <2>2. CASE readOff = CompressedSize
      <3>1. held = 0 /\ CompressedSize \in Nat
        <4>1. CompressedSize \in Nat
          BY <1>0, HereIs
        <4> QED BY <1>0, <2>2, <4>1 DEF Position, NczTypes
      <3>2. Cursor >= CompressedSize
        BY <1>1, <2>2, <3>1 DEF Cursor
      <3> QED BY <1>0, <3>2, AllInflated
    <2> QED BY <1>0, <2>1, <2>2
  <1>3. CASE inflateBuf = <<>>
    <2>1. flushing' = flushing /\ pc' = [pc EXCEPT !.at = "done"]
      BY <1>3 DEF LastFlush, Goto
    <2>2. Place' = "done" /\ pc'.at = "done" /\ pc'.next = pc.next
      BY <1>1, <2>1 DEF Place
    <2>3. NczTypes'
      BY <1>0, <1>1, <2>1 DEF NczTypes, BlockCount, Blocks, Sections, readerVars, spanVars
    <2>4. Position'
      <3>1. /\ Cursor' = Cursor /\ Here' = Here /\ Into' = Into
            /\ UnitsBehind(Here, Into)' = UnitsBehind(Here, Into)
        BY <1>0, <1>1, <2>2
           DEF Cursor, Here, Into, BlockStart, Blocks, UnitsBehind, UnitStart, readerVars, spanVars
      <3>2. CompressedSize' = CompressedSize /\ Blocks' = Blocks /\ HasBlocks' = HasBlocks
            /\ BlockStart(block)' = BlockStart(block)
        BY <1>0 DEF CompressedSize, BlockStart, Blocks, HasBlocks, spanVars
      <3> HIDE DEF Cursor, Here, Into, Place, CompressedSize
      <3> QED BY <1>0, <1>1, <2>2, <3>1, <3>2 DEF Position, readerVars, spanVars
    <2>5. Units'
      BY <1>0, <1>1, <1>2, <1>3, <2>1, <2>2 DEF Units, Passed
    <2>6. Keys'
      BY <1>0, KeysFrame
    <2> QED BY <2>3, <2>4, <2>5, <2>6 DEF NczInv
  <1>4. CASE inflateBuf # <<>>
    <2>1. /\ flushing' = [size |-> Len(inflateBuf), off |-> 0]
          /\ pc' = [at |-> "flush", next |-> "take"]
      BY <1>4 DEF LastFlush
    <2>2. Place' = Place
      BY <1>1, <2>1 DEF Place
    <2>3. NczTypes'
      BY <1>0, <1>1, <2>1 DEF NczTypes, BlockCount, Blocks, Sections, readerVars, spanVars
    <2>4. Position'
      BY <1>0, <2>2, PositionFrame
    <2>5. Units'
      <3>1. Passed = 0 /\ Passed' = 0
        BY <1>0, <2>1 DEF Passed
      <3>2. Len(inflateBuf) \in Nat
        BY <1>1
      <3> QED BY <1>0, <2>1, <3>1, <3>2 DEF Units
    <2>6. Keys'
      BY <1>0, KeysFrame
    <2> QED BY <2>3, <2>4, <2>5, <2>6 DEF NczInv
  <1> QED BY <1>3, <1>4

LEMMA FlushEndsNcz ==
    ASSUME AllSound, NczInv, FlushEnds
    PROVE  NczInv'
  <1>0. /\ NczTypes /\ Position /\ Units /\ Keys /\ pc.at = "flush" /\ flushing.off = flushing.size
        /\ inflateBuf' = SubSeq(inflateBuf, flushing.size + 1, Len(inflateBuf))
        /\ pc' = [pc EXCEPT !.at = pc.next]
        /\ UNCHANGED <<image, bufferSize, readerVars, spanVars, inflated, flushVars>>
    BY DEF NczInv, FlushEnds, Goto
  <1>1. /\ inflateBuf \in Seq(Int) /\ Len(inflateBuf) \in Nat /\ flushing \in [size : Nat, off : Nat]
        /\ pc \in [at : {"take", "span", "inflate", "copy", "flush", "done"},
                   next : {"take", "span", "inflate"}]
        /\ flushing.size <= Len(inflateBuf) /\ written \in Nat /\ inflated \in Nat
    BY <1>0 DEF NczTypes, Units
  <1>2. Place' = Place /\ pc'.at = pc.next /\ pc'.next = pc.next
    BY <1>0, <1>1 DEF Place
  <1>3. /\ inflateBuf' \in Seq(Int) /\ Len(inflateBuf') = Len(inflateBuf) - flushing.size
        /\ \A i \in 1 .. Len(inflateBuf') : inflateBuf'[i] = inflateBuf[flushing.size + i]
    <2> DEFINE m == flushing.size
               b == inflateBuf
    <2>1. b \in Seq(Int) /\ m \in Nat /\ m <= Len(b)
      BY <1>1
    <2> HIDE DEF m, b
    <2>2. /\ SubSeq(b, m + 1, Len(b)) \in Seq(Int) /\ Len(SubSeq(b, m + 1, Len(b))) = Len(b) - m
          /\ \A i \in 1 .. Len(b) - m : SubSeq(b, m + 1, Len(b))[i] = b[m + i]
      BY <2>1
    <2> QED BY <1>0, <2>2 DEF m, b
  <1>4. NczTypes'
    BY <1>0, <1>1, <1>2, <1>3 DEF NczTypes, BlockCount, Blocks, Sections, readerVars, spanVars, flushVars
  <1>5. Position'
    BY <1>0, <1>2, PositionFrame
  <1>6. Units'
    <2>1. Passed = flushing.size /\ Passed' = 0
      BY <1>0, <1>1, <1>2 DEF Passed
    <2>2. written + Len(inflateBuf') - 0 = inflated
      BY <1>0, <1>1, <1>3, <2>1 DEF Units
    <2>3. ASSUME NEW i \in 0 + 1 .. Len(inflateBuf') PROVE inflateBuf'[i] = written + i - 0 - 1
      <3>1. flushing.size + i \in Passed + 1 .. Len(inflateBuf)
        <4>1. /\ i \in 1 .. Len(inflateBuf') /\ Len(inflateBuf') = Len(inflateBuf) - flushing.size
              /\ Len(inflateBuf) \in Nat /\ flushing.size \in Nat
          BY <1>1, <1>3
        <4> DEFINE have == Len(inflateBuf)
                   size == flushing.size
        <4>2. i \in 1 .. have - size /\ have \in Nat /\ size \in Nat
          BY <4>1
        <4> HIDE DEF have, size
        <4>3. size + i \in size + 1 .. have
          BY <4>2
        <4> QED BY <2>1, <4>3 DEF have, size
      <3>2. inflateBuf[flushing.size + i] = written + (flushing.size + i) - flushing.size - 1
        BY <1>0, <2>1, <3>1 DEF Units
      <3> QED BY <1>1, <1>3, <3>2
    <2> QED BY <1>0, <1>1, <1>2, <2>1, <2>2, <2>3 DEF Units, flushVars
  <1>7. Keys'
    BY <1>0, KeysFrame DEF flushVars
  <1> QED BY <1>4, <1>5, <1>6, <1>7 DEF NczInv

\* A unit lies in one section only.
LEMMA OneSection ==
    ASSUME AllSound, image \in Images
    PROVE  /\ Sections \in Seq([offset : Nat, size : Nat \ {0}, ctr : BOOLEAN])
           /\ \A s, t \in 1 .. Len(Sections) : \A u \in Nat :
                InRange(Sections[s], u) /\ InRange(Sections[t], u) => s = t
  <1> DEFINE T == [offset : Nat, size : Nat \ {0}, ctr : BOOLEAN]
  <1>1. Sections \in Seq(T)
    BY NczAssumption DEF ImageType, Sections
  <1>2. \A s, t \in 1 .. Len(Sections) : s # t =>
           \/ Sections[s].offset + Sections[s].size <= Sections[t].offset
           \/ Sections[t].offset + Sections[t].size <= Sections[s].offset
    <2>1. Sound(image)
      BY DEF AllSound
    <2> QED BY <2>1 DEF Sound, Sections
  <1>3. ASSUME NEW s \in 1 .. Len(Sections), NEW t \in 1 .. Len(Sections), NEW u \in Nat,
               InRange(Sections[s], u), InRange(Sections[t], u)
        PROVE  s = t
    <2> HIDE DEF T
    <2>1. Sections[s] \in T /\ Sections[t] \in T
      BY <1>1
    <2> DEFINE a == Sections[s]
               b == Sections[t]
    <2>2. a.offset \in Nat /\ a.size \in Nat /\ b.offset \in Nat /\ b.size \in Nat
      BY <2>1 DEF T
    <2>3. /\ a.offset <= u /\ u < a.offset + a.size
          /\ b.offset <= u /\ u < b.offset + b.size
      BY <1>3 DEF InRange
    <2>4. s # t => a.offset + a.size <= b.offset \/ b.offset + b.size <= a.offset
      BY <1>2
    <2> HIDE DEF a, b
    <2> QED BY <2>2, <2>3, <2>4
  <1> QED BY <1>1, <1>3

\* While something is left of a flush, the next unit is in one section.
LEMMA SectionFound ==
    ASSUME AllSound, NczTypes, Position, Units, pc.at = "flush", flushing.off < flushing.size
    PROVE  LET found == {s \in 1 .. Len(Sections) : InRange(Sections[s], written)}
           IN found # {} /\ \A s, t \in found : s = t
  <1>1. /\ flushing \in [size : Nat, off : Nat] /\ inflateBuf \in Seq(Int) /\ written \in Nat
        /\ Len(out) \in Nat /\ written = 1 + Len(out) /\ flushing.size <= Len(inflateBuf)
        /\ written + Len(inflateBuf) - flushing.off = inflated /\ image \in Images
    BY DEF NczTypes, Units, Passed, HeaderUnits
  <1>2. inflated \in Nat /\ inflated <= image.size /\ image.size \in Nat
    BY HereIs
  <1>3. written \in HeaderUnits .. image.size - HeaderUnits
    <2>1. Len(inflateBuf) \in Nat
      BY <1>1
    <2> QED BY <1>1, <1>2, <2>1 DEF HeaderUnits
  <1>4. Sound(image)
    BY <1>1 DEF AllSound
  <1>5. \A u \in HeaderUnits .. image.size - HeaderUnits :
           \E s \in 1 .. Len(Sections) : InRange(Sections[s], u)
    BY <1>4 DEF Sound, Sections
  <1> QED BY <1>1, <1>3, <1>5, OneSection

LEMMA FlushPieceNcz ==
    ASSUME AllSound, NczInv, FlushPiece
    PROVE  NczInv'
  <1> DEFINE found == {s \in 1 .. Len(Sections) : InRange(Sections[s], written)}
             s == IF section \in found THEN section ELSE CHOOSE t \in found : \A u \in found : t <= u
             e == Sections[s]
             off == flushing.off
             rest == flushing.size - off
             room == e.offset + e.size - written
             n == IF room < rest THEN room ELSE rest
             c == Counter(s)
             full == flushing.size
             have == Len(inflateBuf)
             gone == Len(out)
             piece == [i \in 1 .. n |-> [unit |-> inflateBuf[off + i],
                                        section |-> IF e.ctr THEN s ELSE 0,
                                        ctr |-> IF e.ctr THEN c + i - 1 ELSE 0]]
  <1>0. /\ NczTypes /\ Position /\ Units /\ Keys /\ pc.at = "flush" /\ off < flushing.size
        /\ UNCHANGED <<image, bufferSize, readerVars, spanVars, inflateBuf, inflated>>
    BY DEF NczInv, FlushPiece
  <1>1. found # {} /\ \A t, u \in found : t = u
    BY <1>0, SectionFound
  <1>2. /\ section' = s /\ stream' = (IF e.ctr THEN c + n ELSE stream)
        /\ out' = out \o piece /\ written' = written + n
        /\ flushing' = [flushing EXCEPT !.off = off + n] /\ UNCHANGED pc
    BY <1>1 DEF FlushPiece
  <1>3. /\ flushing \in [size : Nat, off : Nat] /\ inflateBuf \in Seq(Int) /\ Len(inflateBuf) \in Nat
        /\ written \in Nat /\ stream \in Nat /\ section \in 0 .. Len(Sections)
        /\ out \in Seq([unit : Int, section : Nat, ctr : Nat]) /\ Len(out) \in Nat
        /\ image \in Images /\ inflated \in Nat /\ off \in Nat /\ flushing.size \in Nat
        /\ written = 1 + Len(out) /\ flushing.size <= Len(inflateBuf)
        /\ written + Len(inflateBuf) - off = inflated
        /\ \A i \in off + 1 .. Len(inflateBuf) : inflateBuf[i] = written + i - off - 1
        /\ \A i \in 1 .. Len(out) : out[i].unit = 1 + i - 1
    BY <1>0 DEF NczTypes, Units, Passed, HeaderUnits
  <1>3a. /\ full \in Nat /\ have \in Nat /\ gone \in Nat /\ off \in Nat /\ written \in Nat
         /\ off < full /\ full <= have /\ written = 1 + gone
    BY <1>0, <1>3
  <1>4. /\ s \in 1 .. Len(Sections) /\ InRange(e, written) /\ Len(Sections) \in Nat
        /\ e.offset \in Nat /\ e.size \in Nat /\ e.ctr \in BOOLEAN
        /\ \A t \in 1 .. Len(Sections), u \in Nat : InRange(Sections[t], u) /\ InRange(e, u) => t = s
    <2>1. s \in found
      <3>1. \E t \in found : \A u \in found : t <= u
        BY <1>1
      <3> HIDE DEF found
      <3> QED BY <3>1
    <2> DEFINE T == [offset : Nat, size : Nat \ {0}, ctr : BOOLEAN]
    <2>2. /\ \A t, u \in 1 .. Len(Sections) : \A v \in Nat :
                InRange(Sections[t], v) /\ InRange(Sections[u], v) => t = u
          /\ Sections \in Seq(T)
      BY <1>3, OneSection
    <2> HIDE DEF T, s
    <2>4. Sections[s] \in T /\ Len(Sections) \in Nat
      BY <2>1, <2>2
    <2> QED BY <2>1, <2>2, <2>4 DEF T
  <1> HIDE DEF s, found
  <1>5. /\ n \in Nat \ {0} /\ off + n <= flushing.size
        /\ \A i \in 1 .. n : written + i - 1 \in Nat /\ InRange(e, written + i - 1)
    <2>1. e.offset <= written /\ written < e.offset + e.size
      BY <1>4 DEF InRange
    <2> HIDE DEF e, off, full
    <2>2. e.offset \in Nat /\ e.size \in Nat
      BY <1>4
    <2>3. rest \in Nat \ {0}
      BY <1>3a DEF full
    <2>4. room \in Nat \ {0}
      BY <1>3a, <2>1, <2>2
    <2>5. off + rest = full
      BY <1>3a DEF full
    <2>6. written + room = e.offset + e.size
      BY <1>3a, <2>2
    <2> HIDE DEF rest, room
    <2>7. n \in Nat \ {0} /\ n <= rest /\ n <= room
      BY <2>3, <2>4
    <2> HIDE DEF n
    <2>8. off + n <= full
      BY <1>3a, <2>3, <2>5, <2>7
    <2>9. ASSUME NEW i \in 1 .. n
          PROVE  written + i - 1 \in Nat /\ InRange(e, written + i - 1)
      <3>1. written + i - 1 \in Nat /\ e.offset <= written + i - 1
        BY <1>3a, <2>1, <2>2, <2>7
      <3>2. written + i - 1 < e.offset + e.size
        BY <1>3a, <2>2, <2>4, <2>6, <2>7
      <3> QED BY <3>1, <3>2 DEF InRange
    <2> QED BY <2>7, <2>8, <2>9 DEF full
  <1>6. e.ctr => c = written
    BY <1>0, <1>4 DEF Counter, Keys, e
  <1>7. c \in Nat
    BY <1>3 DEF Counter
  <1>7a. n \in Nat \ {0} /\ off + n <= full
    BY <1>5
  <1>7b. \A i \in off + 1 .. have : inflateBuf[i] = written + i - off - 1
    BY <1>3
  <1> HIDE DEF n, e, c, off, full, have, gone
  <1>8. /\ piece \in Seq([unit : Int, section : Nat, ctr : Nat]) /\ Len(piece) = n
        /\ \A i \in 1 .. n : /\ piece[i].unit = written + i - 1
                             /\ piece[i].section = IF e.ctr THEN s ELSE 0
                             /\ e.ctr => piece[i].ctr = written + i - 1
    <2>1. ASSUME NEW i \in 1 .. n
          PROVE  /\ inflateBuf[off + i] = written + i - 1
                 /\ (IF e.ctr THEN s ELSE 0) \in Nat
                 /\ (IF e.ctr THEN c + i - 1 ELSE 0) \in Nat
      <3>1. off + i \in off + 1 .. Len(inflateBuf)
        <4>1. off + i \in off + 1 .. have
          BY <1>3a, <1>7a
        <4> QED BY <4>1 DEF have
      <3>2. inflateBuf[off + i] = written + (off + i) - off - 1
        BY <1>7b, <3>1 DEF have
      <3>3. written + (off + i) - off - 1 = written + i - 1
        BY <1>3a, <1>7a
      <3>4. (IF e.ctr THEN c + i - 1 ELSE 0) \in Nat
        BY <1>7, <1>7a
      <3>5. (IF e.ctr THEN s ELSE 0) \in Nat
        BY <1>4
      <3> QED BY <3>2, <3>3, <3>4, <3>5
    <2>2. \A i \in 1 .. n : piece[i] = [unit |-> inflateBuf[off + i],
                                       section |-> IF e.ctr THEN s ELSE 0,
                                       ctr |-> IF e.ctr THEN c + i - 1 ELSE 0]
      OBVIOUS
    <2>3. \A i \in 1 .. n : written + i - 1 \in Int
      BY <1>3, <1>5
    <2>4. \A i \in 1 .. n : piece[i] \in [unit : Int, section : Nat, ctr : Nat]
      BY <2>1, <2>2, <2>3
    <2>5. piece \in [1 .. n -> [unit : Int, section : Nat, ctr : Nat]]
      BY <2>4
    <2>6. piece \in Seq([unit : Int, section : Nat, ctr : Nat]) /\ Len(piece) = n
      BY <1>5, <2>5
    <2> QED BY <1>6, <2>1, <2>2, <2>6
  <1> HIDE DEF piece
  <1>9. /\ out' \in Seq([unit : Int, section : Nat, ctr : Nat]) /\ Len(out') = Len(out) + n
        /\ \A i \in 1 .. Len(out) : out'[i] = out[i]
        /\ \A i \in 1 .. n : out'[Len(out) + i] = piece[i]
    <2> DEFINE T == [unit : Int, section : Nat, ctr : Nat]
    <2>1. out \in Seq(T) /\ piece \in Seq(T) /\ out' = out \o piece /\ Len(piece) = n /\ n \in Nat
      BY <1>2, <1>3, <1>7a, <1>8
    <2> HIDE DEF T
    <2>2. ASSUME NEW x \in Seq(T), NEW y \in Seq(T)
          PROVE  /\ x \o y \in Seq(T) /\ Len(x \o y) = Len(x) + Len(y)
                 /\ \A i \in 1 .. Len(x) : (x \o y)[i] = x[i]
                 /\ \A i \in 1 .. Len(y) : (x \o y)[Len(x) + i] = y[i]
      OBVIOUS
    <2>3. /\ out \o piece \in Seq(T) /\ Len(out \o piece) = Len(out) + Len(piece)
          /\ \A i \in 1 .. Len(out) : (out \o piece)[i] = out[i]
          /\ \A i \in 1 .. Len(piece) : (out \o piece)[Len(out) + i] = piece[i]
      BY <2>1, <2>2
    <2>4. /\ out' \in Seq(T) /\ Len(out') = Len(out) + n
          /\ \A i \in 1 .. Len(out) : out'[i] = out[i]
          /\ \A i \in 1 .. n : out'[Len(out) + i] = piece[i]
      BY <2>1, <2>3
    <2> QED BY <2>4 DEF T
  <1>9a. written' \in Nat /\ stream' \in Nat /\ off + n \in Nat
    <2>1. c + n \in Nat /\ written + n \in Nat /\ off + n \in Nat
      BY <1>3a, <1>7, <1>7a
    <2> QED BY <1>2, <1>3, <2>1
  <1>10. NczTypes'
    <2>1. flushing' \in [size : Nat, off : Nat]
      BY <1>2, <1>3, <1>9a
    <2>2. section' \in 0 .. Len(Sections)' /\ Len(Sections)' = Len(Sections)
      BY <1>0, <1>2, <1>4 DEF Sections
    <2> QED BY <1>0, <1>2, <1>9, <1>9a, <2>1, <2>2
         DEF NczTypes, BlockCount, Blocks, Sections, readerVars, spanVars
  <1>11. Position'
    <2>1. Place' = Place
      BY <1>2 DEF Place
    <2> QED BY <1>0, <2>1, PositionFrame
  <1>12. \A j \in 1 .. Len(out') : j \in 1 .. Len(out) \/ \E i \in 1 .. n : j = Len(out) + i
    <2> SUFFICES ASSUME NEW j \in 1 .. Len(out'), j \notin 1 .. Len(out)
                 PROVE  \E i \in 1 .. n : j = Len(out) + i
      OBVIOUS
    <2>1. j - Len(out) \in 1 .. n /\ j = Len(out) + (j - Len(out))
      BY <1>3, <1>5, <1>9
    <2> QED BY <2>1
  <1>13. Units'
    <2>1. Passed' = off + n /\ flushing'.off = off + n /\ flushing'.size = flushing.size
      BY <1>0, <1>2, <1>3 DEF Passed
    <2>2. written' = HeaderUnits + Len(out')
      BY <1>2, <1>3, <1>5, <1>9 DEF HeaderUnits
    <2>3. written' + Len(inflateBuf) - (off + n) = inflated
      BY <1>2, <1>3, <1>5
    <2>4. ASSUME NEW j \in 1 .. Len(out') PROVE out'[j].unit = HeaderUnits + j - 1
      <3>1. CASE j \in 1 .. Len(out)
        BY <1>3, <1>9, <3>1 DEF HeaderUnits
      <3>2. CASE \E i \in 1 .. n : j = Len(out) + i
        <4>1. PICK i \in 1 .. n : j = Len(out) + i
          BY <3>2
        <4>2. out'[j].unit = written + i - 1
          BY <1>8, <1>9, <4>1
        <4>3. written + i - 1 = 1 + j - 1
          BY <1>3a, <1>7a, <4>1 DEF gone
        <4> QED BY <4>2, <4>3 DEF HeaderUnits
      <3> QED BY <1>12, <3>1, <3>2
    <2>5. ASSUME NEW i \in (off + n) + 1 .. Len(inflateBuf)
          PROVE  inflateBuf[i] = written' + i - (off + n) - 1
      <3>1. i \in off + 1 .. Len(inflateBuf) /\ i \in Nat
        BY <1>3a, <1>7a DEF have
      <3>2. inflateBuf[i] = written + i - off - 1
        BY <1>7b, <3>1 DEF have
      <3>3. written + i - off - 1 = (written + n) + i - (off + n) - 1
        BY <1>3a, <1>7a, <3>1
      <3> QED BY <1>2, <3>2, <3>3
    <2> QED BY <1>0, <1>2, <1>3, <1>5, <2>1, <2>2, <2>3, <2>4, <2>5 DEF Units
  <1>14. Keys'
    <2>1. section' # 0 /\ Sections'[section'].ctr => stream' = written'
      BY <1>0, <1>2, <1>6 DEF Sections, e
    <2>2. ASSUME NEW j \in 1 .. Len(out')
          PROVE  LET t == CHOOSE t \in 1 .. Len(Sections) : InRange(Sections[t], HeaderUnits + j - 1)
                 IN IF Sections[t].ctr THEN out'[j].section = t /\ out'[j].ctr = HeaderUnits + j - 1
                                       ELSE out'[j].section = 0
      <3>1. CASE j \in 1 .. Len(out)
        BY <1>0, <1>9, <3>1 DEF Keys, KeyStreamInStep
      <3>2. CASE \E i \in 1 .. n : j = Len(out) + i
        <4>1. PICK i \in 1 .. n : j = Len(out) + i
          BY <3>2
        <4>2. HeaderUnits + j - 1 = written + i - 1
          BY <1>3, <1>5, <4>1 DEF HeaderUnits
        <4>3. InRange(e, HeaderUnits + j - 1) /\ HeaderUnits + j - 1 \in Nat
          BY <1>5, <4>2
        <4>4. (CHOOSE t \in 1 .. Len(Sections) : InRange(Sections[t], HeaderUnits + j - 1)) = s
          BY <1>4, <4>3 DEF e
        <4> QED BY <1>8, <1>9, <4>1, <4>2, <4>4 DEF e
      <3> QED BY <1>12, <3>1, <3>2
    <2>3. KeyStreamInStep'
      BY <1>0, <2>2 DEF KeyStreamInStep, Sections
    <2> QED BY <2>1, <2>3 DEF Keys
  <1> QED BY <1>10, <1>11, <1>13, <1>14 DEF NczInv

-----------------------------------------------------------------------------
(* The theorems *)

\* A sound NCZ, of whatever blocks and sections, is taken apart and put together
\* as NczInv says, however the buffers and the flushes cut it.
THEOREM NczInvariant ==
    ASSUME AllSound
    PROVE  Spec => []NczInv
  <1>1. Init => NczInv
    BY InitNcz
  <1>2. NczInv /\ [Next]_vars => NczInv'
    <2> SUFFICES ASSUME NczInv, [Next]_vars PROVE NczInv'
      OBVIOUS
    <2>1. CASE UNCHANGED vars
      <3>1. Place' = Place /\ Passed' = Passed
        BY <2>1 DEF vars, Place, Passed, flushVars
      <3>2. Position'
        BY <2>1, <3>1, PositionFrame DEF NczInv, vars
      <3>3. Keys'
        BY <2>1, KeysFrame DEF NczInv, vars, flushVars
      <3>4. Units' /\ NczTypes'
        BY <2>1, <3>1
           DEF NczInv, vars, flushVars, readerVars, spanVars, Units, NczTypes, BlockCount, Blocks, Sections
      <3> QED BY <3>2, <3>3, <3>4 DEF NczInv
    <2> QED BY <2>1, TakeBufferNcz, LastFlushNcz, NextSpanNcz, BufferEndsNcz, InflateNcz, SpanEndsNcz,
               CopyNcz, FlushPieceNcz, FlushEndsNcz DEF Next, Finished
  <1> QED BY <1>1, <1>2, PTL DEF Spec

\* UnitsInOrder: what was passed on and what waits are the units of the NCA in
\* order, however blocks, buffers and flushes fall across each other.
THEOREM UnitsInOrderAlways ==
    ASSUME AllSound
    PROVE  Spec => []UnitsInOrder
  <1>1. NczInv => UnitsInOrder
    <2> SUFFICES ASSUME NczInv PROVE UnitsInOrder
      OBVIOUS
    <2>1. /\ Units /\ inflateBuf \in Seq(Int) /\ flushing \in [size : Nat, off : Nat]
          /\ Len(out) \in Nat
      BY DEF NczInv, NczTypes
    <2>2. CASE pc.at = "flush"
      <3> DEFINE m == flushing.off
                 b == inflateBuf
                 w == SubSeq(b, m + 1, Len(b))
      <3>1. m \in Nat /\ m <= Len(b) /\ b \in Seq(Int)
        BY <2>1, <2>2 DEF Units
      <3>2. \A i \in m + 1 .. Len(b) : b[i] = HeaderUnits + Len(out) + i - m - 1
        BY <2>1, <2>2 DEF Units, Passed
      <3> HIDE DEF m, b
      <3>3. Len(w) = Len(b) - m /\ \A i \in 1 .. Len(b) - m : w[i] = b[m + i]
        BY <3>1
      <3>4. ASSUME NEW i \in 1 .. Len(w) PROVE w[i] = HeaderUnits + Len(out) + i - 1
        <4>1. m + i \in m + 1 .. Len(b)
          BY <3>1, <3>3
        <4> QED BY <2>1, <3>1, <3>2, <3>3, <4>1 DEF HeaderUnits
      <3> QED BY <2>1, <2>2, <3>4 DEF UnitsInOrder, Units, m, b
    <2>3. CASE pc.at # "flush"
      <3>1. \A i \in 1 .. Len(inflateBuf) : inflateBuf[i] = HeaderUnits + Len(out) + i - 1
        BY <2>1, <2>3 DEF Units, Passed, HeaderUnits
      <3> QED BY <2>1, <2>3, <3>1 DEF UnitsInOrder, Units
    <2> QED BY <2>2, <2>3
  <1> QED BY <1>1, NczInvariant, PTL

\* KeyStreamInStep: each unit is encrypted under the section it lies in, with the
\* counter of its own place.
THEOREM KeyStreamInStepAlways ==
    ASSUME AllSound
    PROVE  Spec => []KeyStreamInStep
  <1>1. NczInv => KeyStreamInStep
    BY DEF NczInv, Keys
  <1> QED BY <1>1, NczInvariant, PTL

\* Restored: a sound file is never refused, and ends with its last unit.
THEOREM RestoredAlways ==
    ASSUME AllSound
    PROVE  Spec => []Restored
  <1>1. NczInv => Restored
    <2> SUFFICES ASSUME NczInv PROVE Restored
      OBVIOUS
    <2>1. Units /\ NczTypes /\ Len(out) \in Nat /\ pc.at # "failed"
      BY DEF NczInv, NczTypes
    <2>2. pc.at = "done" => Len(out) = image.size - HeaderUnits
      BY <2>1 DEF Units, Passed, HeaderUnits
    <2> QED BY <2>1, <2>2 DEF Restored
  <1> QED BY <1>1, NczInvariant, PTL
=============================================================================
