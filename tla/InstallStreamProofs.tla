------------------------- MODULE InstallStreamProofs -------------------------
(***************************************************************************)
(* What InstallStream keeps, for buffers, packets, reads, files and retry  *)
(* limits of every size.  The inductive invariant Inv says where the bytes *)
(* are in each phase of the stream's life; type correctness, the order of  *)
(* the bytes, their conservation and the meaning of the end of the stream  *)
(* are its conjuncts, and the step simulation of ByteStream follows.       *)
(***************************************************************************)
EXTENDS InstallStream, TLAPS

-----------------------------------------------------------------------------
(* Sequences *)

\* The first n bytes of a queue and what erase leaves of it.
LEMMA SplitFact ==
    ASSUME NEW q \in Seq(Nat), NEW n \in 0 .. Len(q)
    PROVE  /\ SubSeq(q, 1, n) \in Seq(Nat)
           /\ Len(SubSeq(q, 1, n)) = n
           /\ \A i \in 1 .. n : SubSeq(q, 1, n)[i] = q[i]
           /\ SubSeq(q, n + 1, Len(q)) \in Seq(Nat)
           /\ Len(SubSeq(q, n + 1, Len(q))) = Len(q) - n
           /\ \A i \in 1 .. (Len(q) - n) : SubSeq(q, n + 1, Len(q))[i] = q[n + i]
  <1>1. \A i \in 1 .. n : q[i] \in Nat
    OBVIOUS
  <1>2. \A i \in 1 .. (Len(q) - n) : q[n + i] \in Nat
    OBVIOUS
  <1> QED BY <1>1, <1>2

\* A packet appended to a queue.
LEMMA AppendFact ==
    ASSUME NEW q \in Seq(Nat), NEW p \in Seq(Nat)
    PROVE  /\ q \o p \in Seq(Nat)
           /\ Len(q \o p) = Len(q) + Len(p)
           /\ \A i \in 1 .. Len(q) : (q \o p)[i] = q[i]
           /\ \A i \in 1 .. Len(p) : (q \o p)[Len(q) + i] = p[i]
  OBVIOUS

\* Packets are made of the next bytes of the file.
LEMMA PacketFact ==
    ASSUME NEW s \in Nat, NEW k \in Nat
    PROVE  /\ [i \in 1 .. k |-> s + i] \in Seq(Nat)
           /\ Len([i \in 1 .. k |-> s + i]) = k
  OBVIOUS
-----------------------------------------------------------------------------
(* The inductive invariant *)

\* A Push in progress holds the last bytes that were sent, one not in progress
\* holds none.
PacketHeld ==
    /\ wpc \in {"idle", "done"} => packet = <<>>
    /\ \A i \in 1 .. Len(packet) : packet[i] = sent - Len(packet) + i

\* A stream the reader has not given up is inactive only because the writer
\* closed it, after its last Push had returned: the rest is all queued.
ClosedByWriter ==
    ~active /\ rpc # "done" /\ readRc # "timeout"
        => wpc = "done" /\ taken + Len(buffer) = sent

\* Once the end was reported the stream stays closed and empty, and nobody
\* waits for more.
EofIsFinal ==
    readRc = "eof" => /\ ~active /\ wpc = "done"
                      /\ buffer = <<>> /\ taken = sent
                      /\ rpc \in {"idle", "lock", "done"}

\* Both Disable and the abort of ReadChunk leave the stream inactive for good.
InactiveWhenOver ==
    rpc = "done" \/ wpc = "done" \/ readRc = "timeout" => ~active

\* An abort is the end of the reader's calls; a call's size and count are in
\* range, and a call under way has a timeout left.
CallInRange ==
    /\ readRc = "timeout" => rpc \in {"idle", "done"}
    /\ rpc \in {"lock", "wait", "signalled", "timedout"} =>
          rsize >= 1 /\ waitCount < MaxWaitCount

Inv ==
    /\ TypeOK
    /\ InOrder
    /\ NoLossWhileActive
    /\ NoLostWakeup
    /\ PacketHeld
    /\ ClosedByWriter
    /\ EofIsFinal
    /\ InactiveWhenOver
    /\ CallInRange

\* The new stream satisfies the invariant.
LEMMA InitInv == Init => Inv
  BY StreamAssumption
  DEF Init, Inv, TypeOK, InOrder, NoLossWhileActive, NoLostWakeup, PacketHeld,
      ClosedByWriter, EofIsFinal, InactiveWhenOver, CallInRange, ReaderPlaces, WriterPlaces

\* A read moves the front of the queue into its chunk.
LEMMA TakeInv == Inv /\ ReadChunkTake => Inv'
  <1> SUFFICES ASSUME Inv, ReadChunkTake PROVE Inv'
    OBVIOUS
  <1> DEFINE n == SmallerOf(rsize, Len(buffer))
  <1>1. /\ rpc \in {"lock", "signalled"} /\ buffer # <<>>
        /\ chunk' = SubSeq(buffer, 1, n)
        /\ buffer' = SubSeq(buffer, n + 1, Len(buffer))
        /\ taken' = taken + n
        /\ rpc' = "idle" /\ readRc' = "data" /\ waitCount' = 0
        /\ wpc' = IF wpc = "wait" THEN "signalled" ELSE wpc
        /\ UNCHANGED <<active, rsize, packet, sent>>
    BY DEF ReadChunkTake, Woken
  <1>2. /\ TypeOK
        /\ buffer \in Seq(Nat) /\ taken \in Nat /\ sent \in Nat
        /\ Len(buffer) \in Nat /\ Len(packet) \in Nat
        /\ rsize >= 1 /\ rsize \in Nat
        /\ readRc # "timeout"
    BY <1>1 DEF Inv, TypeOK, CallInRange
  <1>3. n \in 1 .. Len(buffer)
    BY <1>1, <1>2 DEF SmallerOf
  <1> HIDE DEF n
  <1>4. /\ chunk' \in Seq(Nat) /\ Len(chunk') = n
        /\ \A i \in 1 .. n : chunk'[i] = buffer[i]
        /\ buffer' \in Seq(Nat) /\ Len(buffer') = Len(buffer) - n
        /\ \A i \in 1 .. (Len(buffer) - n) : buffer'[i] = buffer[n + i]
    <2>1. n \in 0 .. Len(buffer)
      BY <1>3
    <2> QED BY <1>1, <1>2, <2>1, SplitFact
  <1>5. taken' \in Nat /\ taken' + Len(buffer') = taken + Len(buffer)
    <2>1. n \in Nat /\ taken' = taken + n /\ Len(buffer') = Len(buffer) - n
      BY <1>1, <1>2, <1>3, <1>4
    <2> QED BY <1>2, <2>1
  <1>6. TypeOK'
    <2>1. waitCount' \in 0 .. MaxWaitCount
      BY <1>1, StreamAssumption
    <2>2. buffer' \in Seq(Nat) /\ chunk' \in Seq(Nat)
      BY <1>4
    <2> QED BY <1>1, <1>2, <1>5, <2>1, <2>2 DEF TypeOK, ReaderPlaces, WriterPlaces
  <1>7. InOrder'
    <2>1. \A i \in 1 .. Len(buffer) : buffer[i] = taken + i
      BY DEF Inv, InOrder
    <2>2. \A i \in 1 .. Len(chunk') : chunk'[i] = taken' - Len(chunk') + i
      BY <1>1, <1>2, <1>3, <1>4, <2>1
    <2>3. \A i \in 1 .. Len(buffer') : buffer'[i] = taken' + i
      BY <1>1, <1>2, <1>3, <1>4, <2>1
    <2> QED BY <2>2, <2>3 DEF InOrder
  <1>8. NoLossWhileActive'
    BY <1>1, <1>2, <1>5 DEF Inv, NoLossWhileActive
  <1>9. ClosedByWriter'
    BY <1>1, <1>2, <1>5 DEF Inv, ClosedByWriter
  <1>10. /\ NoLostWakeup' /\ PacketHeld' /\ EofIsFinal'
         /\ InactiveWhenOver' /\ CallInRange'
    BY <1>1
    DEF Inv, NoLostWakeup, PacketHeld, EofIsFinal, InactiveWhenOver, CallInRange
  <1> QED BY <1>6, <1>7, <1>8, <1>9, <1>10 DEF Inv

\* A Push on an active stream continues the queue.
LEMMA AppendInv == Inv /\ PushAppend => Inv'
  <1> SUFFICES ASSUME Inv, PushAppend PROVE Inv'
    OBVIOUS
  <1>1. /\ wpc \in {"lock", "signalled"} /\ active
        /\ buffer' = buffer \o packet
        /\ packet' = <<>> /\ wpc' = "idle"
        /\ rpc' = IF rpc = "wait" THEN "signalled" ELSE rpc
        /\ UNCHANGED <<active, rsize, waitCount, readRc, chunk, taken, sent>>
    BY DEF PushAppend, Woken
  <1>2. /\ TypeOK
        /\ buffer \in Seq(Nat) /\ packet \in Seq(Nat) /\ taken \in Nat /\ sent \in Nat
        /\ Len(buffer) \in Nat /\ Len(packet) \in Nat
    BY DEF Inv, TypeOK
  <1>3. /\ buffer' \in Seq(Nat) /\ Len(buffer') = Len(buffer) + Len(packet)
        /\ \A i \in 1 .. Len(buffer) : buffer'[i] = buffer[i]
        /\ \A i \in 1 .. Len(packet) : buffer'[Len(buffer) + i] = packet[i]
    BY <1>1, <1>2, AppendFact
  <1>4. packet' \in Seq(Nat) /\ Len(packet') = 0
    BY <1>1
  <1>5. taken + Len(buffer) + Len(packet) = sent
    BY <1>1 DEF Inv, NoLossWhileActive
  <1>6. TypeOK'
    BY <1>1, <1>2, <1>3, <1>4 DEF TypeOK, ReaderPlaces, WriterPlaces
  <1>7. \A i \in 1 .. Len(buffer') : buffer'[i] = taken + i
    <2> TAKE i \in 1 .. Len(buffer')
    <2>1. CASE i <= Len(buffer)
      BY <1>2, <1>3, <2>1 DEF Inv, InOrder
    <2>2. CASE i > Len(buffer)
      <3>1. PICK j \in 1 .. Len(packet) : i = Len(buffer) + j
        <4>1. i - Len(buffer) \in 1 .. Len(packet) /\ i = Len(buffer) + (i - Len(buffer))
          BY <1>2, <1>3, <2>2
        <4> QED BY <4>1
      <3>2. buffer'[i] = packet[j]
        BY <1>3, <3>1
      <3>3. packet[j] = sent - Len(packet) + j
        BY DEF Inv, PacketHeld
      <3>4. sent - Len(packet) = taken + Len(buffer)
        BY <1>2, <1>5
      <3>5. taken + Len(buffer) + j = taken + i
        BY <1>2, <3>1
      <3> QED BY <3>2, <3>3, <3>4, <3>5
    <2> QED BY <1>2, <1>3, <2>1, <2>2
  <1>8. InOrder'
    BY <1>1, <1>7 DEF Inv, InOrder
  <1>9. NoLossWhileActive'
    BY <1>1, <1>2, <1>3, <1>4, <1>5 DEF NoLossWhileActive
  <1>10. NoLostWakeup' /\ PacketHeld'
    BY <1>1, <1>4 DEF Inv, NoLostWakeup, PacketHeld
  <1>11. ClosedByWriter' /\ EofIsFinal' /\ InactiveWhenOver' /\ CallInRange'
    BY <1>1
    DEF Inv, ClosedByWriter, EofIsFinal, InactiveWhenOver, CallInRange
  <1> QED BY <1>6, <1>8, <1>9, <1>10, <1>11 DEF Inv

\* Every step of either thread keeps the invariant.
LEMMA NextInv == Inv /\ [Next]_vars => Inv'
  <1> SUFFICES ASSUME Inv, [Next]_vars PROVE Inv'
    OBVIOUS
  <1> USE StreamAssumption
      DEF Inv, TypeOK, InOrder, NoLossWhileActive, NoLostWakeup, PacketHeld,
          ClosedByWriter, EofIsFinal, InactiveWhenOver, CallInRange,
          ReaderPlaces, WriterPlaces, readerVars, writerVars, vars
  <1>1. ASSUME NEW n \in 1 .. MaxRead, CallReadChunk(n) PROVE Inv'
    BY <1>1 DEF CallReadChunk
  <1>2. CASE ReadChunkEmpty
    BY <1>2 DEF ReadChunkEmpty
  <1>3. CASE ReadTimer
    BY <1>3 DEF ReadTimer
  <1>4. CASE ReadChunkTimedOut
    <2>1. CASE waitCount + 1 >= MaxWaitCount
      <3>1. /\ rpc = "timedout" /\ waitCount' = waitCount + 1
            /\ active' = FALSE /\ rpc' = "idle" /\ readRc' = "timeout" /\ chunk' = <<>>
            /\ UNCHANGED <<buffer, rsize, taken, wpc, packet, sent>>
        BY <1>4, <2>1 DEF ReadChunkTimedOut
      <3>2. chunk' \in Seq(Nat) /\ Len(chunk') = 0
        BY <3>1
      <3>6. waitCount < MaxWaitCount
        BY <3>1
      <3>7. waitCount' \in 0 .. MaxWaitCount
        BY <3>1, <3>6
      <3>8. TypeOK'
        BY <3>1, <3>2, <3>7
      <3>3. TypeOK' /\ CallInRange'
        BY <3>1, <3>8
      <3>4. InOrder' /\ NoLostWakeup' /\ PacketHeld'
        BY <3>1, <3>2
      <3>5. NoLossWhileActive' /\ ClosedByWriter' /\ EofIsFinal' /\ InactiveWhenOver'
        BY <3>1
      <3> QED BY <3>3, <3>4, <3>5
    <2>2. CASE ~(waitCount + 1 >= MaxWaitCount)
      BY <1>4, <2>2 DEF ReadChunkTimedOut
    <2> QED BY <2>1, <2>2
  <1>5. CASE ReadChunkEof
    BY <1>5 DEF ReadChunkEof
  <1>6. CASE ReadChunkTake
    BY <1>6, TakeInv
  <1>7. CASE FinishInstall
    BY <1>7 DEF FinishInstall, Woken
  <1>8. ASSUME NEW k \in 1 .. MaxPacket, CallPush(k) PROVE Inv'
    BY <1>8, PacketFact DEF CallPush
  <1>9. CASE PushDiscard
    BY <1>9 DEF PushDiscard
  <1>10. CASE PushWait
    BY <1>10 DEF PushWait
  <1>11. CASE PushTimer
    BY <1>11 DEF PushTimer
  <1>12. CASE PushRetry
    BY <1>12 DEF PushRetry
  <1>13. CASE PushAppend
    BY <1>13, AppendInv
  <1>14. CASE CloseStream
    <2>1. /\ wpc = "idle" /\ wpc' = "done" /\ active' = FALSE
          /\ rpc' = IF rpc = "wait" THEN "signalled" ELSE rpc
          /\ UNCHANGED <<buffer, rsize, waitCount, readRc, chunk, taken, packet, sent>>
      BY <1>14 DEF CloseStream, Woken
    <2>2. packet = <<>> /\ Len(packet) = 0
      BY <2>1
    <2>3. TypeOK' /\ CallInRange'
      BY <2>1
    <2>4. InOrder' /\ NoLostWakeup' /\ PacketHeld' /\ NoLossWhileActive'
      BY <2>1
    <2>5. ClosedByWriter' /\ EofIsFinal' /\ InactiveWhenOver'
      BY <2>1, <2>2
    <2> QED BY <2>3, <2>4, <2>5
  <1>15. CASE UNCHANGED vars
    BY <1>15
  <1> QED
    BY <1>1, <1>2, <1>3, <1>4, <1>5, <1>6, <1>7, <1>8, <1>9, <1>10, <1>11, <1>12,
       <1>13, <1>14, <1>15
    DEF Next, Reader, ReadStep, Writer, PushStep, Terminated
\* The invariant holds in every reachable state.
THEOREM Invariant == Spec => []Inv
  <1>1. Init => Inv
    BY InitInv
  <1>2. Inv /\ [Next]_vars => Inv'
    BY NextInv
  <1> QED BY <1>1, <1>2, PTL DEF Spec

\* Every variable keeps its type, and the wait count its limit.
THEOREM TypeCorrect == Spec => []TypeOK
  <1>1. Inv => TypeOK
    BY DEF Inv
  <1> QED BY <1>1, Invariant, PTL

\* ReadChunk hands out the bytes of the file in order, without gap or repeat.
THEOREM BytesInOrder == Spec => []InOrder
  <1>1. Inv => InOrder
    BY DEF Inv
  <1> QED BY <1>1, Invariant, PTL

\* No byte given to Push is lost while the stream is active.
THEOREM NothingLost == Spec => []NoLossWhileActive
  <1>1. Inv => NoLossWhileActive
    BY DEF Inv
  <1> QED BY <1>1, Invariant, PTL

\* No wake-up of condvarWakeOne is missed, in any interleaving.
THEOREM NoWakeupLost == Spec => []NoLostWakeup
  <1>1. Inv => NoLostWakeup
    BY DEF Inv
  <1> QED BY <1>1, Invariant, PTL

\* ReadChunk reports the end only after the last byte.
THEOREM EndAfterLastByte == Spec => []EofMeansAllTaken
  <1>1. Inv => EofMeansAllTaken
    BY DEF Inv, EofIsFinal, EofMeansAllTaken
  <1> QED BY <1>1, Invariant, PTL

-----------------------------------------------------------------------------
(* The stream implements the byte pipe *)

\* The new stream is an empty, open pipe.
LEMMA PipeInit == Init => Pipe!Init
  BY DEF Init, Pipe!Init

\* A read is a Get of the pipe: the chunk is the next stretch of the file.
LEMMA TakeIsGet == Inv /\ Inv' /\ ReadChunkTake => Pipe!Get
  <1> SUFFICES ASSUME Inv, Inv', ReadChunkTake PROVE Pipe!Get
    OBVIOUS
  <1> DEFINE n == SmallerOf(rsize, Len(buffer))
  <1>1. /\ rpc \in {"lock", "signalled"} /\ buffer # <<>>
        /\ chunk' = SubSeq(buffer, 1, n)
        /\ buffer' = SubSeq(buffer, n + 1, Len(buffer))
        /\ taken' = taken + n /\ readRc' = "data"
        /\ UNCHANGED active
    BY DEF ReadChunkTake
  <1>2. /\ buffer \in Seq(Nat) /\ taken \in Nat /\ Len(buffer) \in Nat
        /\ rsize >= 1 /\ rsize \in Nat
    <2>1. TypeOK /\ CallInRange
      BY DEF Inv
    <2>2. buffer \in Seq(Nat) /\ taken \in Nat /\ rsize \in Nat
      BY <2>1 DEF TypeOK
    <2>3. rsize >= 1
      BY <1>1, <2>1 DEF CallInRange
    <2> QED BY <2>2, <2>3
  <1>3. n \in 1 .. Len(buffer)
    BY <1>1, <1>2 DEF SmallerOf
  <1> HIDE DEF n
  <1>4. /\ chunk' \in Seq(Nat) /\ Len(chunk') = n
        /\ Len(buffer') = Len(buffer) - n
    <2>1. n \in 0 .. Len(buffer)
      BY <1>3
    <2> QED BY <1>1, <1>2, <2>1, SplitFact
  <1>5. taken' - taken = n
    BY <1>1, <1>2, <1>3
  <1>6. chunk' = [i \in 1 .. (taken' - taken) |-> taken + i]
    <2>1. \A i \in 1 .. n : chunk'[i] = taken' - n + i
      BY <1>4 DEF Inv, InOrder
    <2>2. \A i \in 1 .. n : chunk'[i] = taken + i
      BY <1>1, <1>2, <1>3, <2>1
    <2>3. chunk' = [i \in 1 .. n |-> chunk'[i]]
      BY <1>3, <1>4
    <2> QED BY <1>5, <2>2, <2>3
  <1>7. taken' \in (taken + 1) .. (taken + Len(buffer)) /\ taken < taken + Len(buffer)
    BY <1>1, <1>2, <1>3
  <1>8. taken' + Len(buffer') = taken + Len(buffer)
    <2>1. n \in Nat /\ taken' = taken + n /\ Len(buffer') = Len(buffer) - n
      BY <1>1, <1>3, <1>4
    <2> QED BY <1>2, <2>1
  <1>9. readRc # "eof"
    BY <1>1 DEF Inv, EofIsFinal
  <1> QED BY <1>1, <1>6, <1>7, <1>8, <1>9 DEF Pipe!Get

\* A Push that appends a packet is a Put of the pipe.
LEMMA AppendIsPut == Inv /\ PushAppend => [Pipe!Put]_(Pipe!vars)
  <1> SUFFICES ASSUME Inv, PushAppend PROVE [Pipe!Put]_(Pipe!vars)
    OBVIOUS
  <1>1. /\ active /\ buffer' = buffer \o packet
        /\ UNCHANGED <<active, readRc, chunk, taken>>
    BY DEF PushAppend
  <1>2. /\ buffer \in Seq(Nat) /\ packet \in Seq(Nat) /\ taken \in Nat
        /\ Len(buffer) \in Nat /\ Len(packet) \in Nat
    BY DEF Inv, TypeOK
  <1>3. Len(buffer') = Len(buffer) + Len(packet)
    BY <1>1, <1>2, AppendFact
  <1>4. CASE Len(packet) = 0
    <2>1. taken' + Len(buffer') = taken + Len(buffer)
      BY <1>1, <1>2, <1>3, <1>4
    <2> QED BY <1>1, <2>1 DEF Pipe!vars
  <1>5. CASE Len(packet) > 0
    <2>1. taken' + Len(buffer') > taken + Len(buffer) /\ taken' + Len(buffer') \in Nat
      BY <1>1, <1>2, <1>3, <1>5
    <2> QED BY <1>1, <2>1 DEF Pipe!Put
  <1> QED BY <1>2, <1>4, <1>5

\* Every step of the stream is a step of the pipe or leaves it alone.
LEMMA PipeNext == Inv /\ Inv' /\ [Next]_vars => [Pipe!Next]_(Pipe!vars)
  <1> SUFFICES ASSUME Inv, Inv', [Next]_vars PROVE [Pipe!Next]_(Pipe!vars)
    OBVIOUS
  <1> USE DEF readerVars, writerVars, vars, Pipe!vars
  <1>1. ASSUME NEW n \in 1 .. MaxRead, CallReadChunk(n) PROVE UNCHANGED Pipe!vars
    BY <1>1 DEF CallReadChunk
  <1>2. CASE ReadChunkEmpty
    BY <1>2 DEF ReadChunkEmpty
  <1>3. CASE ReadTimer
    BY <1>3 DEF ReadTimer
  <1>4. CASE ReadChunkTimedOut
    <2>1. CASE waitCount + 1 >= MaxWaitCount
      <3>1. CASE readRc = "eof"
        BY <1>4, <3>1 DEF ReadChunkTimedOut, Inv, EofIsFinal
      <3>2. CASE readRc # "eof"
        <4>1. /\ active' = FALSE /\ chunk' = <<>> /\ readRc' = "timeout"
              /\ UNCHANGED <<buffer, taken>>
          BY <1>4, <2>1 DEF ReadChunkTimedOut
        <4> QED BY <3>2, <4>1 DEF Pipe!Next, Pipe!Close
      <3> QED BY <3>1, <3>2
    <2>2. CASE ~(waitCount + 1 >= MaxWaitCount)
      BY <1>4, <2>2 DEF ReadChunkTimedOut
    <2> QED BY <2>1, <2>2
  <1>5. CASE ReadChunkEof
    <2>1. /\ ~active /\ buffer = <<>> /\ readRc' = "eof" /\ chunk' = <<>>
          /\ UNCHANGED <<active, buffer, taken>>
      BY <1>5 DEF ReadChunkEof
    <2>2. taken = taken + Len(buffer)
      BY <2>1 DEF Inv, TypeOK
    <2> QED BY <2>1, <2>2 DEF Pipe!Next, Pipe!Eof
  <1>6. CASE ReadChunkTake
    BY <1>6, TakeIsGet DEF Pipe!Next
  <1>7. CASE FinishInstall
    <2>1. active' = FALSE /\ UNCHANGED <<buffer, readRc, chunk, taken>>
      BY <1>7 DEF FinishInstall
    <2> QED BY <2>1 DEF Pipe!Next, Pipe!Close
  <1>8. ASSUME NEW k \in 1 .. MaxPacket, CallPush(k) PROVE UNCHANGED Pipe!vars
    BY <1>8 DEF CallPush
  <1>9. CASE PushDiscard
    BY <1>9 DEF PushDiscard
  <1>10. CASE PushWait
    BY <1>10 DEF PushWait
  <1>11. CASE PushTimer
    BY <1>11 DEF PushTimer
  <1>12. CASE PushRetry
    BY <1>12 DEF PushRetry
  <1>13. CASE PushAppend
    BY <1>13, AppendIsPut DEF Pipe!Next
  <1>14. CASE CloseStream
    <2>1. active' = FALSE /\ UNCHANGED <<buffer, readRc, chunk, taken>>
      BY <1>14 DEF CloseStream
    <2> QED BY <2>1 DEF Pipe!Next, Pipe!Close
  <1>15. CASE UNCHANGED vars
    BY <1>15
  <1> QED
    BY <1>1, <1>2, <1>3, <1>4, <1>5, <1>6, <1>7, <1>8, <1>9, <1>10, <1>11, <1>12,
       <1>13, <1>14, <1>15
    DEF Next, Reader, ReadStep, Writer, PushStep, Terminated

\* The stream implements the byte pipe: whatever the interleaving, timeouts and
\* aborts, what comes out is what went in, and the end comes last.
THEOREM StreamImplementsPipe == Spec => PipeSpec
  <1>1. Init => Pipe!Init
    BY PipeInit
  <1>2. Inv /\ Inv' /\ [Next]_vars => [Pipe!Next]_(Pipe!vars)
    BY PipeNext
  <1> QED BY <1>1, <1>2, Invariant, PTL DEF Spec, PipeSpec, Pipe!Spec
=============================================================================
