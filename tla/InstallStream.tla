---------------------------- MODULE InstallStream ----------------------------
(***************************************************************************)
(* sphaira::mtp::InstallStream (source/install_stream.cpp): the byte queue *)
(* between the MTP thread, which Pushes what the host sends, and the       *)
(* install thread, which takes it with ReadChunk.                          *)
(*                                                                         *)
(* Every method holds m_mutex from its first test to its return, and gives *)
(* it up only in condvarWaitTimeout.  A critical section is therefore one  *)
(* step, and a thread is seen in one of these places:                      *)
(*   "idle"       outside the stream                                       *)
(*   "lock"       at the top of the method's loop, about to take m_mutex   *)
(*   "wait"       asleep in condvarWaitTimeout                             *)
(*   "signalled"  woken, the wait returns success once it has m_mutex      *)
(*   "timedout"   the timer ended the wait, m_mutex not yet taken again    *)
(*   "done"       the thread has finished with this stream                 *)
(* Bytes are their positions in the file, 1 .. FileSize.                   *)
(***************************************************************************)
EXTENDS Integers, Sequences

CONSTANTS
    MaxBufferSize,  \* MAX_BUFFER_SIZE, 8 MB in the code
    MaxWaitCount,   \* MAX_WAIT_COUNT, 30 in the code
    FileSize,       \* bytes the host may send (bounds the run)
    MaxPacket,      \* largest buffer of one WriteFile
    MaxRead         \* largest size asked of one ReadChunk

ASSUME StreamAssumption ==
    /\ MaxBufferSize \in Nat \ {0}
    /\ MaxWaitCount \in Nat \ {0}
    /\ FileSize \in Nat
    /\ MaxPacket \in Nat \ {0}
    /\ MaxRead \in Nat \ {0}

VARIABLES
    active,     \* m_active
    buffer,     \* m_buffer
    rpc,        \* where the install thread is in ReadChunk
    rsize,      \* the size argument of its call
    waitCount,  \* its local wait_count
    readRc,     \* how the last ReadChunk returned
    chunk,      \* the bytes the last ReadChunk returned
    taken,      \* number of bytes all its calls returned
    wpc,        \* where the MTP thread is in Push
    packet,     \* the bytes of its call
    sent        \* number of bytes all its calls were given

readerVars == <<rpc, rsize, waitCount, readRc, chunk, taken>>
writerVars == <<wpc, packet, sent>>
vars == <<active, buffer, readerVars, writerVars>>

ReaderPlaces == {"idle", "lock", "wait", "signalled", "timedout", "done"}
WriterPlaces == ReaderPlaces

\* No two of the stream's threads ever wait on the same condition variable, so
\* condvarWakeOne wakes the one waiter, if there is one.
Woken(pc) == IF pc = "wait" THEN "signalled" ELSE pc

SmallerOf(a, b) == IF a <= b THEN a ELSE b

Init ==
    /\ active = TRUE
    /\ buffer = <<>>
    /\ rpc = "idle" /\ rsize = 0 /\ waitCount = 0
    /\ readRc = "none" /\ chunk = <<>> /\ taken = 0
    /\ wpc = "idle" /\ packet = <<>> /\ sent = 0

-----------------------------------------------------------------------------
(* The install thread: ReadChunk *)

\* After an error the caller unwinds (R_TRY) and never reads again.
CallReadChunk(n) ==
    /\ rpc = "idle"
    /\ readRc # "timeout"
    /\ rpc' = "lock"
    /\ rsize' = n
    /\ waitCount' = 0
    /\ UNCHANGED <<active, buffer, readRc, chunk, taken, writerVars>>

\* Nothing to read yet: sleep on m_can_read.  A wake that brought neither data
\* nor the end of the stream goes round the loop after svcSleepThread.
ReadChunkEmpty ==
    /\ rpc \in {"lock", "signalled"}
    /\ active /\ buffer = <<>>
    /\ rpc' = IF rpc = "lock" THEN "wait" ELSE "lock"
    /\ waitCount' = IF rpc = "lock" THEN waitCount ELSE 0
    /\ UNCHANGED <<active, buffer, rsize, readRc, chunk, taken, writerVars>>

ReadTimer ==
    /\ rpc = "wait"
    /\ rpc' = "timedout"
    /\ UNCHANGED <<active, buffer, rsize, waitCount, readRc, chunk, taken, writerVars>>

\* Seeded fault: the timeouts are never counted.
TimedOutUncounted ==
    /\ rpc = "timedout"
    /\ rpc' = "lock"
    /\ UNCHANGED <<active, buffer, rsize, waitCount, readRc, chunk, taken, writerVars>>

\* Seeded fault: one timeout too many is waited for.
TimedOutOneLate ==
    /\ rpc = "timedout"
    /\ waitCount' = waitCount + 1
    /\ IF waitCount' > MaxWaitCount
         THEN active' = FALSE /\ rpc' = "idle" /\ readRc' = "timeout" /\ chunk' = <<>>
         ELSE rpc' = "lock" /\ UNCHANGED <<active, readRc, chunk>>
    /\ UNCHANGED <<buffer, rsize, taken, writerVars>>

\* The wait timed out and m_mutex is held again.  The last timeout gives the
\* transfer up without another look at m_buffer.
ReadChunkTimedOut ==
    /\ rpc = "timedout"
    /\ waitCount' = waitCount + 1
    /\ IF waitCount' >= MaxWaitCount
         THEN /\ active' = FALSE
              /\ rpc' = "idle"
              /\ readRc' = "timeout"
              /\ chunk' = <<>>
         ELSE /\ rpc' = "lock"
              /\ UNCHANGED <<active, readRc, chunk>>
    /\ UNCHANGED <<buffer, rsize, taken, writerVars>>

\* Seeded fault: the end is reported as soon as the stream is inactive.
EofWithoutDrain ==
    /\ rpc \in {"lock", "signalled"}
    /\ ~active
    /\ rpc' = "idle" /\ readRc' = "eof" /\ chunk' = <<>> /\ waitCount' = 0
    /\ UNCHANGED <<active, buffer, rsize, taken, writerVars>>

ReadChunkEof ==
    /\ rpc \in {"lock", "signalled"}
    /\ ~active /\ buffer = <<>>
    /\ rpc' = "idle"
    /\ readRc' = "eof"
    /\ chunk' = <<>>
    /\ waitCount' = 0
    /\ UNCHANGED <<active, buffer, rsize, taken, writerVars>>

\* Seeded fault: the whole request is erased, although less was copied.
TakeOffByOne ==
    /\ rpc \in {"lock", "signalled"}
    /\ buffer # <<>>
    /\ LET n == SmallerOf(rsize, Len(buffer)) IN
         /\ chunk' = SubSeq(buffer, 1, n)
         /\ buffer' = SubSeq(buffer, n, Len(buffer))
         /\ taken' = taken + n
    /\ rpc' = "idle" /\ readRc' = "data" /\ waitCount' = 0
    /\ wpc' = Woken(wpc)
    /\ UNCHANGED <<active, rsize, packet, sent>>

ReadChunkTake ==
    /\ rpc \in {"lock", "signalled"}
    /\ buffer # <<>>
    /\ LET n == SmallerOf(rsize, Len(buffer)) IN
         /\ chunk' = SubSeq(buffer, 1, n)
         /\ buffer' = SubSeq(buffer, n + 1, Len(buffer))
         /\ taken' = taken + n
    /\ rpc' = "idle"
    /\ readRc' = "data"
    /\ waitCount' = 0
    /\ wpc' = Woken(wpc)
    /\ UNCHANGED <<active, rsize, packet, sent>>

\* Seeded fault: the install thread leaves the stream active.
FinishQuietly ==
    /\ rpc = "idle"
    /\ rpc' = "done"
    /\ UNCHANGED <<active, buffer, rsize, waitCount, readRc, chunk, taken, writerVars>>

\* The install is over, well or badly, and the install thread Disables the
\* stream as its last act.
FinishInstall ==
    /\ rpc = "idle"
    /\ rpc' = "done"
    /\ active' = FALSE
    /\ wpc' = Woken(wpc)
    /\ UNCHANGED <<buffer, rsize, waitCount, readRc, chunk, taken, packet, sent>>

-----------------------------------------------------------------------------
(* The MTP thread: Push and Disable *)

CallPush(k) ==
    /\ wpc = "idle"
    /\ sent + k <= FileSize
    /\ wpc' = "lock"
    /\ packet' = [i \in 1 .. k |-> sent + i]
    /\ sent' = sent + k
    /\ UNCHANGED <<active, buffer, readerVars>>

\* The stream is no longer active: the data is dropped, and Push says true so
\* that the host carries on.
PushDiscard ==
    /\ wpc \in {"lock", "signalled", "timedout"}
    /\ ~active
    /\ wpc' = "idle"
    /\ packet' = <<>>
    /\ UNCHANGED <<active, buffer, readerVars, sent>>

PushWait ==
    /\ wpc = "lock"
    /\ active /\ Len(buffer) >= MaxBufferSize
    /\ wpc' = "wait"
    /\ UNCHANGED <<active, buffer, readerVars, packet, sent>>

PushTimer ==
    /\ wpc = "wait"
    /\ wpc' = "timedout"
    /\ UNCHANGED <<active, buffer, readerVars, packet, sent>>

\* Seeded fault: a timed out Push gives up, and says true.
RetryGivesUp ==
    /\ wpc = "timedout"
    /\ active
    /\ wpc' = "idle"
    /\ packet' = <<>>
    /\ UNCHANGED <<active, buffer, readerVars, sent>>

PushRetry ==
    /\ wpc = "timedout"
    /\ active
    /\ wpc' = "lock"
    /\ UNCHANGED <<active, buffer, readerVars, packet, sent>>

\* Seeded fault: the reader is not told that there is data.
AppendWithoutWake ==
    /\ wpc = "signalled" \/ (wpc = "lock" /\ Len(buffer) < MaxBufferSize)
    /\ active
    /\ buffer' = buffer \o packet
    /\ packet' = <<>> /\ wpc' = "idle"
    /\ UNCHANGED <<active, readerVars, sent>>

\* Seeded fault: the activity of the stream is not tested after the wait.
AppendUnchecked ==
    /\ wpc = "signalled" \/ (wpc = "lock" /\ Len(buffer) < MaxBufferSize)
    /\ buffer' = buffer \o packet
    /\ packet' = <<>> /\ wpc' = "idle"
    /\ rpc' = Woken(rpc)
    /\ UNCHANGED <<active, rsize, waitCount, readRc, chunk, taken, sent>>

\* Room was found, or the wait for it returned success: in the second case the
\* size of the buffer is not looked at again.
PushAppend ==
    /\ wpc = "signalled" \/ (wpc = "lock" /\ Len(buffer) < MaxBufferSize)
    /\ active
    /\ buffer' = buffer \o packet
    /\ packet' = <<>>
    /\ wpc' = "idle"
    /\ rpc' = Woken(rpc)
    /\ UNCHANGED <<active, rsize, waitCount, readRc, chunk, taken, sent>>

\* CloseFile Disables the stream: no more data will come.
CloseStream ==
    /\ wpc = "idle"
    /\ wpc' = "done"
    /\ active' = FALSE
    /\ rpc' = Woken(rpc)
    /\ UNCHANGED <<buffer, rsize, waitCount, readRc, chunk, taken, packet, sent>>

-----------------------------------------------------------------------------
ReadStep == ReadChunkEmpty \/ ReadChunkTimedOut \/ ReadChunkEof \/ ReadChunkTake

Reader ==
    \/ \E n \in 1 .. MaxRead : CallReadChunk(n)
    \/ ReadStep
    \/ ReadTimer
    \/ FinishInstall

PushStep == PushDiscard \/ PushWait \/ PushRetry \/ PushAppend

Writer ==
    \/ \E k \in 1 .. MaxPacket : CallPush(k)
    \/ PushStep
    \/ PushTimer
    \/ CloseStream

\* Both threads are finished with the stream.
Terminated == rpc = "done" /\ wpc = "done" /\ UNCHANGED vars

Next == Reader \/ Writer \/ Terminated

\* A runnable thread runs and a timed wait ends.  The install thread goes on
\* calling ReadChunk until it is finished, the host owes us nothing.
Fairness ==
    /\ WF_vars(Reader)
    /\ WF_vars(ReadTimer)
    /\ WF_vars(PushStep)
    /\ WF_vars(PushTimer)

Spec == Init /\ [][Next]_vars
FairSpec == Spec /\ Fairness

-----------------------------------------------------------------------------
(* Properties *)

\* Every variable has its type; the wait count stays under its limit.
TypeOK ==
    /\ active \in BOOLEAN
    /\ buffer \in Seq(Nat)
    /\ rpc \in ReaderPlaces
    /\ rsize \in Nat
    /\ waitCount \in 0 .. MaxWaitCount
    /\ readRc \in {"none", "data", "eof", "timeout"}
    /\ chunk \in Seq(Nat)
    /\ taken \in Nat
    /\ wpc \in WriterPlaces
    /\ packet \in Seq(Nat)
    /\ sent \in Nat

\* The install thread sees the bytes of the file in order, once each and
\* without a gap: what is queued continues what was taken, and the last chunk
\* is the end of what was taken (memcpy and erase against resize and memcpy).
InOrder ==
    /\ \A i \in 1 .. Len(buffer) : buffer[i] = taken + i
    /\ \A i \in 1 .. Len(chunk) : chunk[i] = taken - Len(chunk) + i

\* While the stream is active, everything the host handed to Push has been
\* taken, is queued, or is in the hands of the Push that is waiting: no
\* timeout, retry or wake-up of Push loses a packet.
NoLossWhileActive ==
    active => taken + Len(buffer) + Len(packet) = sent

\* Nobody sleeps on a condition that already holds: the reader sleeps only when
\* there is nothing to read and more may come, the writer on an active stream
\* only when the buffer is full.
NoLostWakeup ==
    /\ rpc = "wait" => active /\ buffer = <<>>
    /\ wpc = "wait" /\ active => Len(buffer) >= MaxBufferSize

\* The end of the stream is reported only when every byte the host sent has
\* been taken, although CloseFile may Disable the stream with data queued.
EofMeansAllTaken ==
    readRc = "eof" => taken = sent

\* ReadChunk always returns: with data, with the end, or after MaxWaitCount
\* timeouts with an error, whatever the host does.
ReadChunkReturns == (rpc = "lock") ~> (rpc = "idle")

\* Push always returns while the install thread is alive, because it goes on
\* reading or finally Disables the stream.
PushReturns == (wpc = "lock") ~> (wpc = "idle")

\* The stream implements the byte pipe: a byte counts as put when Push appends
\* it, so that a packet dropped by an inactive stream never went in.
Pipe == INSTANCE ByteStream WITH
            open <- active,
            put  <- taken + Len(buffer),
            got  <- taken,
            chunk <- chunk,
            eof  <- readRc = "eof"

PipeSpec == Pipe!Spec
=============================================================================
