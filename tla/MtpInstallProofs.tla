-------------------------- MODULE MtpInstallProofs --------------------------
(***************************************************************************)
(* What the life of an install keeps, for files, buffers, packets, skips   *)
(* and retry limits of every size and any number of files.  The stream's   *)
(* invariant Inv (InstallStreamProofs) carries over: every step of         *)
(* MtpInstall is a step of the stream, leaves it alone, or replaces it.    *)
(* On it rests ReadUnderWay, which says what a Read has done so far in     *)
(* each place the install thread can be.                                   *)
(***************************************************************************)
EXTENDS MtpInstall, InstallStreamProofs

\* What Read asks of the next ReadChunk.
Ask == IF off > mOffset THEN SmallerOf(off - mOffset, SkipChunk) ELSE size

\* The ReadChunk that a Read is in has brought nothing yet.
Pending == ipc = "call" /\ rpc # "idle"

\* It has come back and is not accounted for yet.
Returned == ipc = "call" /\ rpc = "idle" /\ readRc # "timeout"

\* What was read stands in got, what is left is counted by size, and off is
\* past the front only while a gap is skipped.
ReadUnderWay ==
    /\ ipc \in {"read", "call"} =>
          /\ size >= 1
          /\ off + size = want.off + want.size
          /\ want.off <= off /\ mOffset <= off
          /\ off > mOffset => off = want.off
          /\ got = [i \in 1 .. (off - want.off) |-> want.off + i]
    /\ ipc = "call" => rsize = Ask
    /\ Pending => mOffset = taken
    /\ Returned => mOffset + Len(chunk) = taken /\ Len(chunk) <= rsize
    /\ ipc \in {"run", "read", "finish"} => rpc = "idle"

\* The types of what a Read works on.
ReadTypeOK ==
    /\ mOffset \in Nat /\ off \in Nat /\ size \in Nat
    /\ want \in [off : Nat, size : Nat]
    /\ got \in Seq(Nat)

MtpInv == Inv /\ ReadTypeOK /\ ReadUnderWay /\ ReadIsExact

-----------------------------------------------------------------------------
(* The stream under the life cycle *)

\* A call of any size keeps the invariant of the stream.
LEMMA CallInv == ASSUME NEW n \in Nat \ {0}, Inv, CallReadChunk(n) PROVE Inv'
  BY StreamAssumption
  DEF CallReadChunk, Inv, TypeOK, InOrder, NoLossWhileActive, NoLostWakeup,
      PacketHeld, ClosedByWriter, EofIsFinal, InactiveWhenOver, CallInRange,
      ReaderPlaces, WriterPlaces, writerVars

\* A new stream, and no stream, satisfy it.
LEMMA ReplacedInv == NewStream \/ NoStream => Inv'
  <1> SUFFICES ASSUME NewStream \/ NoStream PROVE Inv'
    OBVIOUS
  <1>1. /\ buffer' = <<>> /\ chunk' = <<>> /\ packet' = <<>>
        /\ rsize' = 0 /\ waitCount' = 0 /\ taken' = 0 /\ sent' = 0
        /\ readRc' = "none"
        /\ \/ active' = TRUE /\ rpc' = "idle" /\ wpc' = "idle"
           \/ active' = FALSE /\ rpc' = "done" /\ wpc' = "done"
    BY DEF NewStream, NoStream
  <1>2. /\ Len(buffer') = 0 /\ Len(chunk') = 0 /\ Len(packet') = 0
        /\ buffer' \in Seq(Nat) /\ chunk' \in Seq(Nat) /\ packet' \in Seq(Nat)
    BY <1>1
  <1>3. waitCount' \in 0 .. MaxWaitCount
    BY <1>1, StreamAssumption
  <1>4. TypeOK'
    BY <1>1, <1>2, <1>3 DEF TypeOK, ReaderPlaces, WriterPlaces
  <1>5. InOrder' /\ NoLossWhileActive' /\ NoLostWakeup' /\ PacketHeld'
    BY <1>1, <1>2 DEF InOrder, NoLossWhileActive, NoLostWakeup, PacketHeld
  <1>6. ClosedByWriter' /\ EofIsFinal' /\ InactiveWhenOver' /\ CallInRange'
    BY <1>1 DEF ClosedByWriter, EofIsFinal, InactiveWhenOver, CallInRange
  <1> QED BY <1>4, <1>5, <1>6 DEF Inv

\* So does the state before the first file.
LEMMA MtpInitInv == MtpInit => MtpInv
  <1> SUFFICES ASSUME MtpInit PROVE MtpInv
    OBVIOUS
  <1>1. Inv
    <2>1. /\ Len(buffer) = 0 /\ Len(chunk) = 0 /\ Len(packet) = 0
          /\ buffer \in Seq(Nat) /\ chunk \in Seq(Nat) /\ packet \in Seq(Nat)
      BY DEF MtpInit
    <2>2. waitCount \in 0 .. MaxWaitCount
      BY StreamAssumption DEF MtpInit
    <2>3. TypeOK
      BY <2>1, <2>2 DEF MtpInit, TypeOK, ReaderPlaces, WriterPlaces
    <2>4. InOrder /\ NoLossWhileActive /\ NoLostWakeup /\ PacketHeld
      BY <2>1 DEF MtpInit, InOrder, NoLossWhileActive, NoLostWakeup, PacketHeld
    <2>5. ClosedByWriter /\ EofIsFinal /\ InactiveWhenOver /\ CallInRange
      BY DEF MtpInit, ClosedByWriter, EofIsFinal, InactiveWhenOver, CallInRange
    <2> QED BY <2>3, <2>4, <2>5 DEF Inv
  <1>2. ReadTypeOK /\ ReadUnderWay /\ ReadIsExact
    BY DEF MtpInit, ReadTypeOK, ReadUnderWay, ReadIsExact, Pending, Returned
  <1> QED BY <1>1, <1>2 DEF MtpInv

-----------------------------------------------------------------------------
(* Stream::Read *)

\* Bytes that continue what was read make a longer read.
LEMMA DeliverFact ==
    ASSUME NEW a \in Nat, NEW b \in Nat, NEW c \in Seq(Nat),
           \A i \in 1 .. Len(c) : c[i] = b + a + i
    PROVE  [i \in 1 .. a |-> b + i] \o c = [i \in 1 .. (a + Len(c)) |-> b + i]
  <1> DEFINE g == [i \in 1 .. a |-> b + i]
  <1>1. g \in Seq(Nat) /\ Len(g) = a /\ \A i \in 1 .. a : g[i] = b + i
    OBVIOUS
  <1> HIDE DEF g
  <1>2. /\ g \o c \in Seq(Nat) /\ Len(g \o c) = a + Len(c) /\ Len(c) \in Nat
        /\ \A i \in 1 .. a : (g \o c)[i] = g[i]
        /\ \A i \in 1 .. Len(c) : (g \o c)[a + i] = c[i]
    <2>1. /\ g \o c \in Seq(Nat) /\ Len(g \o c) = Len(g) + Len(c)
          /\ \A i \in 1 .. Len(g) : (g \o c)[i] = g[i]
          /\ \A i \in 1 .. Len(c) : (g \o c)[Len(g) + i] = c[i]
      <3>1. g \in Seq(Nat)
        BY <1>1
      <3> QED BY <3>1, AppendFact
    <2>2. Len(g) = a
      BY <1>1
    <2> QED BY <2>1, <2>2
  <1>3. \A i \in 1 .. (a + Len(c)) : (g \o c)[i] = b + i
    <2> TAKE i \in 1 .. (a + Len(c))
    <2>1. CASE i <= a
      BY <1>1, <1>2, <2>1
    <2>2. CASE i > a
      <3>1. i - a \in 1 .. Len(c) /\ a + (i - a) = i
        BY <1>2, <2>2
      <3>2. (g \o c)[i] = c[i - a]
        BY <1>2, <3>1
      <3>3. c[i - a] = b + a + (i - a)
        BY <3>1
      <3> QED BY <3>2, <3>3
    <2> QED BY <1>2, <2>1, <2>2
  <1>4. g \o c = [i \in 1 .. (a + Len(c)) |-> (g \o c)[i]]
    <2>1. ASSUME NEW q \in Seq(Nat) PROVE q = [i \in 1 .. Len(q) |-> q[i]]
      OBVIOUS
    <2> QED BY <1>2, <2>1
  <1> QED BY <1>3, <1>4 DEF g

\* A Read begins with nothing delivered.
LEMMA BeginReadInv ==
    ASSUME NEW o \in Nat, NEW s \in Nat \ {0}, MtpInv, BeginRead(o, s)
    PROVE  MtpInv'
  <1>1. Inv'
    BY DEF MtpInv, BeginRead, vars, readerVars, writerVars, Inv, TypeOK, InOrder, NoLossWhileActive, NoLostWakeup,
        PacketHeld, ClosedByWriter, EofIsFinal, InactiveWhenOver, CallInRange
  <1>2. CASE o < mOffset
    BY <1>1, <1>2
    DEF MtpInv, BeginRead, ReadTypeOK, ReadUnderWay, ReadIsExact, Pending, Returned,
        readVars, vars, readerVars
  <1>3. CASE ~(o < mOffset)
    <2>1. /\ ipc = "run" /\ ipc' = "read" /\ off' = o /\ size' = s
          /\ want' = [off |-> o, size |-> s] /\ got' = <<>>
          /\ UNCHANGED <<mOffset, rpc, taken>>
      BY <1>3 DEF BeginRead, vars, readerVars
    <2>2. ReadTypeOK'
      BY <2>1 DEF MtpInv, ReadTypeOK
    <2>3. got' = [i \in 1 .. (off' - want'.off) |-> want'.off + i]
      BY <2>1
    <2>4. ReadUnderWay'
      BY <1>3, <2>1, <2>3 DEF MtpInv, ReadTypeOK, ReadUnderWay, Pending, Returned
    <2>5. ReadIsExact'
      BY <2>1 DEF MtpInv, ReadIsExact
    <2> QED BY <1>1, <2>2, <2>4, <2>5 DEF MtpInv
  <1> QED BY <1>2, <1>3

\* Read asks for part of the gap or for what is left, never for nothing.
LEMMA ReadNextInv == MtpInv /\ ReadNext => MtpInv'
  <1> SUFFICES ASSUME MtpInv, ReadNext PROVE MtpInv'
    OBVIOUS
  <1>1. /\ ipc = "read" /\ ipc' = "call" /\ CallReadChunk(Ask)
        /\ UNCHANGED <<mOffset, off, size, want, got>>
    BY DEF ReadNext, Ask, readVars
  <1>2. Ask \in Nat \ {0}
    BY <1>1, MtpAssumption DEF Ask, SmallerOf, MtpInv, ReadTypeOK, ReadUnderWay
  <1>3. Inv'
    BY <1>1, <1>2, CallInv DEF MtpInv
  <1>4. rpc' = "lock" /\ rsize' = Ask /\ taken' = taken
    BY <1>1 DEF CallReadChunk
  <1>5. ReadTypeOK'
    BY <1>1 DEF MtpInv, ReadTypeOK
  <1>6. Ask' = Ask
    BY <1>1 DEF Ask
  <1>7. ReadUnderWay'
    BY <1>1, <1>4, <1>6 DEF MtpInv, ReadUnderWay, ReadIsExact, Pending, Returned
  <1>8. ReadIsExact'
    BY <1>1 DEF ReadIsExact
  <1> QED BY <1>3, <1>5, <1>7, <1>8 DEF MtpInv

\* What came back is skipped or delivered, and all counters move with it.
LEMMA ReadReturnedInv == MtpInv /\ ReadReturned => MtpInv'
  <1> SUFFICES ASSUME MtpInv, ReadReturned PROVE MtpInv'
    OBVIOUS
  <1>1. ipc = "call" /\ rpc = "idle" /\ UNCHANGED vars
    BY DEF ReadReturned
  <1>2. Inv'
    BY <1>1 DEF MtpInv, vars, readerVars, writerVars, Inv, TypeOK, InOrder, NoLossWhileActive, NoLostWakeup,
        PacketHeld, ClosedByWriter, EofIsFinal, InactiveWhenOver, CallInRange
  <1>3. CASE readRc = "timeout"
    BY <1>1, <1>2, <1>3
    DEF MtpInv, ReadReturned, ReadTypeOK, ReadUnderWay, ReadIsExact, Pending, Returned,
        readVars, vars, readerVars
  <1>4. CASE readRc # "timeout"
    <2> DEFINE n == Len(chunk)
    <2>1. /\ n \in Nat /\ chunk \in Seq(Nat) /\ taken \in Nat
          /\ \A i \in 1 .. n : chunk[i] = taken - n + i
      BY DEF MtpInv, Inv, TypeOK, InOrder
    <2>2. /\ mOffset \in Nat /\ off \in Nat /\ size \in Nat
          /\ want \in [off : Nat, size : Nat] /\ want.off \in Nat /\ want.size \in Nat
          /\ got \in Seq(Nat)
      BY DEF MtpInv, ReadTypeOK
    <2>3. /\ size >= 1 /\ off + size = want.off + want.size
          /\ want.off <= off /\ mOffset <= off
          /\ off > mOffset => off = want.off
          /\ got = [i \in 1 .. (off - want.off) |-> want.off + i]
          /\ mOffset + n = taken /\ n <= Ask
      BY <1>1, <1>4 DEF MtpInv, ReadUnderWay, Returned
    <2>4. /\ mOffset' = mOffset + n
          /\ want' = want /\ rpc' = "idle" /\ taken' = taken
          /\ ipc' = IF size' = 0 THEN "run" ELSE "read"
      BY <1>1, <1>4 DEF ReadReturned, vars, readerVars
    <2>5. CASE off > mOffset
      <3>1. off' = off /\ size' = size /\ got' = got /\ ipc' = "read"
        BY <1>1, <1>4, <2>2, <2>3, <2>5 DEF ReadReturned
      <3>2. mOffset' <= off
        BY <2>1, <2>2, <2>3, <2>4, <2>5, MtpAssumption DEF Ask, SmallerOf
      <3>3. ReadTypeOK'
        BY <2>1, <2>2, <2>4, <3>1 DEF ReadTypeOK
      <3>4. ReadUnderWay'
        BY <2>3, <2>4, <2>5, <3>1, <3>2 DEF ReadUnderWay, Pending, Returned
      <3>5. ReadIsExact'
        BY <2>3, <2>4, <3>1 DEF ReadIsExact
      <3> QED BY <1>2, <3>3, <3>4, <3>5 DEF MtpInv
    <2>6. CASE ~(off > mOffset)
      <3>1. mOffset = off /\ n <= size
        BY <2>2, <2>3, <2>6 DEF Ask
      <3>2. off' = off + n /\ size' = size - n /\ got' = IF n = 0 THEN got ELSE got \o chunk
        BY <1>1, <1>4, <2>6 DEF ReadReturned
      <3>3. got' = [i \in 1 .. (off' - want.off) |-> want.off + i]
        <4>1. CASE n = 0
          BY <2>2, <2>3, <3>2, <4>1
        <4>2. CASE n # 0
          <5>1. \A i \in 1 .. n : chunk[i] = want.off + (off - want.off) + i
            <6> TAKE i \in 1 .. n
            <6>1. chunk[i] = taken - n + i
              BY <2>1
            <6>2. taken = off + n
              BY <2>3, <3>1
            <6> QED BY <2>1, <2>2, <6>1, <6>2
          <5>2. off - want.off \in Nat /\ (off - want.off) + n = off' - want.off
            BY <2>1, <2>2, <2>3, <3>2
          <5>3. got \o chunk = [i \in 1 .. ((off - want.off) + n) |-> want.off + i]
            BY <2>1, <2>2, <2>3, <5>1, <5>2, DeliverFact
          <5> QED BY <3>2, <4>2, <5>2, <5>3
        <4> QED BY <4>1, <4>2
      <3>4. got' \in Seq(Nat)
        BY <2>1, <2>2, <3>2, AppendFact
      <3>5. mOffset' = off' /\ off' \in Nat /\ size' \in Nat /\ want.off <= off'
            /\ off' + size' = want.off + want.size
        BY <2>1, <2>2, <2>3, <2>4, <3>1, <3>2
      <3>6. ReadTypeOK'
        BY <2>2, <2>4, <3>4, <3>5 DEF ReadTypeOK
      <3>7. ReadUnderWay'
        BY <2>4, <3>3, <3>5 DEF ReadUnderWay, Pending, Returned
      <3>8. ReadIsExact'
        <4>1. mOffset' = taken'
          BY <2>1, <2>3, <2>4
        <4>2. size' = 0 => off' - want.off = want.size
          BY <2>2, <3>5
        <4> QED BY <2>4, <3>3, <4>1, <4>2 DEF ReadIsExact
      <3> QED BY <1>2, <3>6, <3>7, <3>8 DEF MtpInv
    <2> QED BY <2>5, <2>6
  <1> QED BY <1>3, <1>4

\* A step of ReadChunk is one of a pending call, and brings at most what was
\* asked for.
LEMMA ReadStepInv == MtpInv /\ StreamReadStep => MtpInv'
  <1> SUFFICES ASSUME MtpInv, StreamReadStep PROVE MtpInv'
    OBVIOUS
  <1>1. Inv'
    BY NextInv DEF MtpInv, StreamReadStep, Next, Reader
  <1>2. ReadStep \/ ReadTimer
    BY DEF StreamReadStep
  <1>3. UNCHANGED <<ipc, mOffset, off, size, want, got>>
    BY DEF StreamReadStep, readVars
  <1>4. rpc # "idle" /\ rsize' = rsize
    BY <1>2 DEF ReadStep, ReadTimer, ReadChunkEmpty, ReadChunkTimedOut, ReadChunkEof, ReadChunkTake
  <1>5. rpc' # "idle" => taken' = taken
    BY <1>2 DEF ReadStep, ReadTimer, ReadChunkEmpty, ReadChunkTimedOut, ReadChunkEof, ReadChunkTake
  <1>6. /\ rpc' = "idle" /\ readRc' # "timeout" => taken' = taken + Len(chunk')
                                                   /\ Len(chunk') <= rsize
    <2>1. CASE ReadChunkEof
      BY <2>1 DEF ReadChunkEof, MtpInv, Inv, TypeOK
    <2>2. CASE ReadChunkTake
      <3>1. buffer \in Seq(Nat) /\ rsize \in Nat
        BY DEF MtpInv, Inv, TypeOK
      <3>2. SmallerOf(rsize, Len(buffer)) \in 0 .. Len(buffer) /\ SmallerOf(rsize, Len(buffer)) <= rsize
        BY <3>1 DEF SmallerOf
      <3>3. Len(chunk') = SmallerOf(rsize, Len(buffer))
        BY <2>2, <3>1, <3>2, SplitFact DEF ReadChunkTake
      <3> QED BY <2>2, <3>2, <3>3 DEF ReadChunkTake
    <2>3. CASE ReadTimer \/ ReadChunkEmpty \/ ReadChunkTimedOut
      BY <2>3 DEF ReadTimer, ReadChunkEmpty, ReadChunkTimedOut
    <2> QED BY <1>2, <2>1, <2>2, <2>3 DEF ReadStep
  <1>7. ReadTypeOK'
    BY <1>3 DEF MtpInv, ReadTypeOK
  <1>8. Ask' = Ask
    BY <1>3 DEF Ask
  <1>9. ReadUnderWay' /\ ReadIsExact'
    BY <1>3, <1>4, <1>5, <1>6, <1>8 DEF MtpInv, ReadUnderWay, ReadIsExact, Pending, Returned
  <1> QED BY <1>1, <1>7, <1>9 DEF MtpInv

-----------------------------------------------------------------------------
(* All other steps *)

\* Nothing of the Read changes, and at most a sleeping reader is woken.
OutsideRead ==
    /\ UNCHANGED <<ipc, mOffset, off, size, want, got, rsize, taken, chunk, readRc>>
    /\ rpc' = rpc \/ rpc' = Woken(rpc)

\* Such a step keeps what a Read has done.
LEMMA OutsideReadInv == MtpInv /\ Inv' /\ OutsideRead => MtpInv'
  <1> SUFFICES ASSUME MtpInv, Inv', OutsideRead PROVE MtpInv'
    OBVIOUS
  <1>1. rpc = "idle" <=> rpc' = "idle"
    BY DEF OutsideRead, Woken
  <1>2. ReadTypeOK' /\ ReadIsExact'
    BY DEF OutsideRead, MtpInv, ReadTypeOK, ReadIsExact
  <1>3. Ask' = Ask
    BY DEF OutsideRead, Ask
  <1>4. ReadUnderWay'
    BY <1>1, <1>3 DEF OutsideRead, MtpInv, ReadUnderWay, Pending, Returned
  <1> QED BY <1>2, <1>4 DEF MtpInv

\* A new file begins with nothing read, and nothing is left of a closed one.
LEMMA ReplacedReadInv ==
    ASSUME Inv', NoRead, ipc' \in {"run", "none"}, NewStream \/ NoStream,
           ipc' = "run" => NewStream
    PROVE  MtpInv'
  <1>1. ReadTypeOK'
    BY DEF NoRead, ReadTypeOK
  <1>2. ReadUnderWay' /\ ReadIsExact'
    <2>1. got' = <<>> /\ want'.size = 0 /\ mOffset' = 0
      BY DEF NoRead
    <2>2. ipc' = "run" => rpc' = "idle" /\ taken' = 0
      BY DEF NewStream
    <2> QED BY <2>1, <2>2 DEF ReadUnderWay, ReadIsExact, Pending, Returned
  <1> QED BY <1>1, <1>2 DEF MtpInv

\* The install thread ends the install, or itself.
LEMMA EndsInv ==
    ASSUME MtpInv, (\E rc \in {"ok", "failed"} : InstallEnds(rc)) \/ ThreadExit
    PROVE  MtpInv'
  <1>1. CASE \E rc \in {"ok", "failed"} : InstallEnds(rc)
    <2>1. Inv'
      BY <1>1 DEF InstallEnds, MtpInv, vars, readerVars, writerVars, Inv, TypeOK, InOrder, NoLossWhileActive, NoLostWakeup,
        PacketHeld, ClosedByWriter, EofIsFinal, InactiveWhenOver, CallInRange
    <2> QED BY <1>1, <2>1
        DEF InstallEnds, MtpInv, ReadTypeOK, ReadUnderWay, ReadIsExact, Pending, Returned,
            vars, readerVars, readVars
  <1>2. CASE ThreadExit
    <2>1. Inv'
      BY <1>2, NextInv DEF ThreadExit, MtpInv, Next, Reader
    <2> QED BY <1>2, <2>1
        DEF ThreadExit, FinishInstall, MtpInv, ReadTypeOK, ReadUnderWay, ReadIsExact,
            Pending, Returned, readVars
  <1> QED BY <1>1, <1>2

\* Every step of the threads keeps the invariant.
LEMMA MtpNextInv == MtpInv /\ [MtpNext]_mtpVars => MtpInv'
  <1> SUFFICES ASSUME MtpInv, [MtpNext]_mtpVars PROVE MtpInv'
    OBVIOUS
  <1> USE DEF readVars, ctxVars, vars, readerVars, writerVars
  <1>1. ASSUME NEW o \in 0 .. FileSize, NEW s \in 1 .. (FileSize - o), BeginRead(o, s)
        PROVE  MtpInv'
    BY <1>1, BeginReadInv, StreamAssumption
  <1>2. CASE ReadNext
    BY <1>2, ReadNextInv
  <1>3. CASE ReadReturned
    BY <1>3, ReadReturnedInv
  <1>4. CASE (\E rc \in {"ok", "failed"} : InstallEnds(rc)) \/ ThreadExit
    BY <1>4, EndsInv
  <1>5. CASE StreamReadStep
    BY <1>5, ReadStepInv
  <1>6. CASE OpenFileStart
    BY <1>6, ReplacedInv, ReplacedReadInv DEF OpenFileStart
  <1>7. CASE OpenFileFail
    BY <1>7, ReplacedInv, ReplacedReadInv DEF OpenFileFail
  <1>8. CASE CloseFileJoin
    BY <1>8, ReplacedInv, ReplacedReadInv DEF CloseFileJoin
  <1>9. ASSUME NEW k \in 1 .. MaxPacket, WriteFile(k) PROVE MtpInv'
    <2>1. Inv'
      BY <1>9, NextInv DEF WriteFile, MtpInv, Next, Writer
    <2> QED BY <1>9, <2>1, OutsideReadInv DEF WriteFile, CallPush, OutsideRead
  <1>10. CASE StreamPushStep
    <2>1. Inv'
      BY <1>10, NextInv DEF StreamPushStep, MtpInv, Next, Writer
    <2> QED BY <1>10, <2>1, OutsideReadInv
        DEF StreamPushStep, PushStep, PushDiscard, PushWait, PushRetry, PushAppend,
            PushTimer, OutsideRead
  <1>11. CASE CloseFile
    <2>1. Inv'
      BY <1>11, NextInv DEF CloseFile, MtpInv, Next, Writer
    <2> QED BY <1>11, <2>1, OutsideReadInv DEF CloseFile, CloseStream, OutsideRead
  <1>12. CASE Destroy /\ inProgress
    <2>1. Inv'
      BY <1>12, NextInv DEF Destroy, MtpInv, Next, Writer
    <2> QED BY <1>12, <2>1, OutsideReadInv DEF Destroy, CloseStream, OutsideRead
  <1>13. CASE UNCHANGED <<vars, ipc, readVars>>
    <2>1. Inv'
      BY <1>13, NextInv DEF MtpInv
    <2> QED BY <1>13, <2>1, OutsideReadInv DEF OutsideRead
  <1>14. CASE DestroyJoin
    <2>1. Inv'
      BY <1>14, NextInv DEF DestroyJoin, MtpInv
    <2> QED BY <1>14, <2>1
        DEF DestroyJoin, MtpInv, ReadTypeOK, ReadUnderWay, ReadIsExact, Pending, Returned
  <1>15. CASE OpenFileBusy \/ HazeExit \/ (Destroy /\ ~inProgress) \/ Gone
    BY <1>13, <1>15 DEF OpenFileBusy, HazeExit, Destroy, Gone, mtpVars
  <1>16. CASE UNCHANGED mtpVars
    BY <1>13, <1>16 DEF mtpVars
  <1> QED
    BY <1>1, <1>2, <1>3, <1>4, <1>5, <1>6, <1>7, <1>8, <1>9, <1>10, <1>11, <1>12,
       <1>14, <1>15, <1>16
    DEF MtpNext, InstallThread, Host, MtpThread

\* The invariant holds in every reachable state, with any number of files.
THEOREM MtpInvariant == MtpSpec => []MtpInv
  <1> QED BY MtpInitInv, MtpNextInv, PTL DEF MtpSpec

\* The context of an install has its types; an OpenFile that waits has not
\* counted its file yet.
ContextTypeOK ==
    /\ stream \in BOOLEAN /\ inProgress \in BOOLEAN
    /\ hpc \in HazePlaces /\ ipc \in InstallPlaces
    /\ files \in 0 .. MaxFiles
    /\ hpc = "openJoin" => files < MaxFiles
    /\ result \in [file : 0 .. MaxFiles, rc : {"ok", "failed"}]
    /\ report \in [file : 0 .. MaxFiles, rc : {"ok", "failed"}]

\* Every variable keeps its type, the number of files its limit.
THEOREM MtpTypeCorrect == MtpSpec => []MtpTypeOK
  <1>1. MtpInit => ContextTypeOK
    <2>1. 0 \in 0 .. MaxFiles
      BY MtpAssumption
    <2>2. [file |-> 0, rc |-> "ok"] \in [file : 0 .. MaxFiles, rc : {"ok", "failed"}]
      BY <2>1
    <2> QED BY <2>1, <2>2 DEF MtpInit, ContextTypeOK, HazePlaces, InstallPlaces
  <1>2. ContextTypeOK /\ [MtpNext]_mtpVars => ContextTypeOK'
    <2> SUFFICES ASSUME ContextTypeOK, [MtpNext]_mtpVars PROVE ContextTypeOK'
      OBVIOUS
    <2> USE MtpAssumption DEF ContextTypeOK, HazePlaces, InstallPlaces, ctxVars
    <2>1. CASE InstallThread
      <3>1. ipc' \in InstallPlaces /\ UNCHANGED <<ctxVars, report>>
        BY <2>1 DEF InstallThread, BeginRead, ReadNext, ReadReturned, InstallEnds, ThreadExit,
                    StreamReadStep
      <3>2. result' = result \/ \E rc \in {"ok", "failed"} : result' = [file |-> files, rc |-> rc]
        BY <2>1 DEF InstallThread, BeginRead, ReadNext, ReadReturned, InstallEnds, ThreadExit,
                    StreamReadStep
      <3> QED BY <3>1, <3>2
    <2>2. CASE Host
      BY <2>2 DEF Host, OpenFileBusy, WriteFile, CloseFile, HazeExit
    <2>3. CASE OpenFileStart \/ OpenFileFail
      <3>1. files' = files + 1 /\ files < MaxFiles
        BY <2>3 DEF OpenReady, OpenFileStart, OpenFileFail
      <3>2. /\ hpc' = "idle" /\ ipc' \in {"run", "none"}
            /\ stream' \in BOOLEAN /\ inProgress' \in BOOLEAN
            /\ UNCHANGED <<result, report>>
        BY <2>3 DEF OpenFileStart, OpenFileFail
      <3>3. files' \in 0 .. MaxFiles
        BY <3>1
      <3> QED BY <3>2, <3>3
    <2>4. CASE CloseFileJoin \/ Destroy \/ DestroyJoin \/ StreamPushStep
      BY <2>4 DEF CloseFileJoin, Destroy, DestroyJoin, StreamPushStep
    <2>5. CASE Gone \/ UNCHANGED mtpVars
      BY <2>5 DEF Gone, mtpVars
    <2> QED BY <2>1, <2>2, <2>3, <2>4, <2>5 DEF MtpNext, MtpThread
  <1>3. MtpInv /\ ContextTypeOK => MtpTypeOK
    BY DEF MtpInv, Inv, ReadTypeOK, ContextTypeOK, MtpTypeOK
  <1> QED BY <1>1, <1>2, <1>3, MtpInvariant, PTL DEF MtpSpec

\* A Read delivers exactly the bytes it was asked for, and m_offset never
\* drifts from the data, for packets, gaps and reads of every size.
THEOREM ReadDeliversExactly == MtpSpec => []ReadIsExact
  <1>1. MtpInv => ReadIsExact
    BY DEF MtpInv
  <1> QED BY <1>1, MtpInvariant, PTL

\* The stream's own guarantee holds through every change of files: bytes come
\* out in order, whoever opens, closes or destroys meanwhile.
THEOREM BytesInOrderOverMtp == MtpSpec => []InOrder
  <1>1. MtpInv => InOrder
    BY DEF MtpInv, Inv
  <1> QED BY <1>1, MtpInvariant, PTL

\* The stream is freed and replaced only when the install thread has ended.
THEOREM ThreadNeverOutlivesStream == MtpSpec => []StreamOutlivesThread
  <1>1. MtpInit => StreamOutlivesThread
    BY DEF MtpInit, StreamOutlivesThread
  <1>2. StreamOutlivesThread /\ [MtpNext]_mtpVars => StreamOutlivesThread'
    <2> SUFFICES ASSUME StreamOutlivesThread, [MtpNext]_mtpVars PROVE StreamOutlivesThread'
      OBVIOUS
    <2> USE DEF StreamOutlivesThread, ctxVars
    <2>1. CASE InstallThread
      BY <2>1 DEF InstallThread, BeginRead, ReadNext, ReadReturned, InstallEnds, ThreadExit,
                  StreamReadStep
    <2>2. CASE Host
      BY <2>2 DEF Host, OpenFileBusy, WriteFile, CloseFile, HazeExit
    <2>3. CASE MtpThread
      BY <2>3 DEF MtpThread, OpenFileStart, OpenFileFail, CloseFileJoin, Destroy, DestroyJoin,
                  Joined, StreamPushStep
    <2>4. CASE Gone \/ UNCHANGED mtpVars
      BY <2>4 DEF Gone, mtpVars
    <2> QED BY <2>1, <2>2, <2>3, <2>4 DEF MtpNext
  <1> QED BY <1>1, <1>2, PTL DEF MtpSpec

\* An install thread that has left its work has set the result of its file, and
\* while a CloseFile waits there is an install to wait for.
ResultInv ==
    /\ ipc \in {"finish", "exited"} => result.file = files
    /\ hpc \in {"idle", "openJoin", "closeJoin"} /\ stream => inProgress
    /\ hpc = "closeJoin" => stream

\* CloseFile reports the result of the install it has waited for, for any number
\* of files and whatever ended it.
THEOREM ReportIsOfItsInstallAlways == MtpSpec => ReportIsOfItsInstall
  <1>1. MtpInit => ResultInv
    BY DEF MtpInit, ResultInv
  <1>2. ResultInv /\ [MtpNext]_mtpVars => ResultInv'
    <2> SUFFICES ASSUME ResultInv, [MtpNext]_mtpVars PROVE ResultInv'
      OBVIOUS
    <2> USE DEF ResultInv, ctxVars
    <2>1. CASE InstallThread
      BY <2>1 DEF InstallThread, BeginRead, ReadNext, ReadReturned, InstallEnds, ThreadExit,
                  StreamReadStep
    <2>2. CASE Host
      BY <2>2 DEF Host, HazeFree, OpenFileBusy, WriteFile, CloseFile, HazeExit
    <2>3. CASE MtpThread
      BY <2>3 DEF MtpThread, OpenFileStart, OpenFileFail, CloseFileJoin, Destroy, DestroyJoin,
                  Joined, StreamPushStep
    <2>4. CASE Gone \/ UNCHANGED mtpVars
      BY <2>4 DEF Gone, mtpVars
    <2> QED BY <2>1, <2>2, <2>3, <2>4 DEF MtpNext
  <1>3. ResultInv /\ [MtpNext]_mtpVars => [hpc = "closeJoin" /\ hpc' = "idle" => report'.file = files]_mtpVars
    <2> SUFFICES ASSUME ResultInv, MtpNext, hpc = "closeJoin", hpc' = "idle"
                 PROVE  report'.file = files
      OBVIOUS
    <2>1. CloseFileJoin
      BY DEF MtpNext, InstallThread, BeginRead, ReadNext, ReadReturned, InstallEnds, ThreadExit,
             StreamReadStep, Host, HazeFree, OpenFileBusy, WriteFile, CloseFile, HazeExit, MtpThread, OpenReady,
             OpenFileStart, OpenFileFail, Destroy, DestroyJoin, StreamPushStep, Gone, mtpVars, ctxVars
    <2> QED BY <2>1 DEF CloseFileJoin, Joined, ResultInv
  <1> QED BY <1>1, <1>2, <1>3, PTL DEF MtpSpec, ReportIsOfItsInstall
=============================================================================
