----------------------------- MODULE MCNczBlocks -----------------------------
(***************************************************************************)
(* Small NCZ files: without blocks, and with blocks of four units that are *)
(* compressed to one, two or three or stored, the last one shorter; under  *)
(* one section, and under sections with and without a counter whose ends   *)
(* fall inside blocks and flushes.  Buffers of two to five units cut each  *)
(* block in every place, and flushes of five end inside blocks.            *)
(***************************************************************************)
EXTENDS NczBlocks

Section(offset, size, ctr) == [offset |-> offset, size |-> size, ctr |-> ctr]
Block(size, units) == [size |-> size, units |-> units]

\* All ways to lay sections over an NCA of n units, header included.
Layouts(n) ==
    { <<Section(1, n - 1, TRUE)>> }
    \cup { <<Section(1, k - 1, a), Section(k, n - k, ~a)>> : k \in 2 .. n - 1, a \in BOOLEAN }
    \cup { <<Section(1, 2, TRUE), Section(3, k - 3, TRUE), Section(k, n - k, FALSE)>> : k \in 4 .. n - 1 }

Image(blocks, blockSize, size) ==
    {[blocks |-> blocks, blockSize |-> blockSize, sections |-> l, size |-> size] : l \in Layouts(size)}

Streams == Image(<<Block(4, 9)>>, 0, 10)
Blocked == Image(<<Block(2, 4), Block(4, 4), Block(1, 3)>>, 4, 12)
               \cup Image(<<Block(3, 4), Block(1, 4), Block(2, 2)>>, 4, 11)
               \cup Image(<<Block(4, 4), Block(2, 3)>>, 4, 8)
Even == Image(<<Block(2, 4), Block(3, 4)>>, 4, 9)

SoundImages == Streams \cup Blocked
ASSUME MCNczAssumption == \A f \in SoundImages : Sound(f)

MCBufferSizes == 2 .. 5
MCFlushSize == 5
=============================================================================
