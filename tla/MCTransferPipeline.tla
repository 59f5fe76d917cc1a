------------------------- MODULE MCTransferPipeline -------------------------
(***************************************************************************)
(* Small instances of TransferPipeline.  Rings of two buffers, and files   *)
(* of more buffers than both rings hold, so that every thread waits for    *)
(* every other: a plain NCA, and an NCZ whose buffers inflate to more and  *)
(* to less than the flush size and leave a rest to flush at the end, with  *)
(* nothing that fails; and shorter ones with which everything may fail.    *)
(***************************************************************************)
EXTENDS TransferPipeline

ASSUME MCPipelineAssumption == Honest

MCCapacity == 2
MCFlushSize == 2
File(ends, ncz, faults) == [ends |-> ends, ncz |-> ncz, size |-> ends[Len(ends)], faults |-> faults]
GoodFiles == {File(<<1, 2, 3, 4, 5, 6>>, FALSE, {}), File(<<1, 4, 6, 7, 9>>, TRUE, {}),
              File(<<1, 4, 6, 8>>, TRUE, {})}
AllFaults == Threads \cup {"start"}
FaultyFiles == {File(<<1, 2, 3, 4>>, FALSE, AllFaults), File(<<1, 3, 4, 6>>, TRUE, AllFaults)}
MCFiles == GoodFiles \cup FaultyFiles
UnwritableFiles == {File(<<1, 2, 3, 4, 5, 6>>, FALSE, {"write"})}
=============================================================================
