-------------------------- MODULE TransferPipeline --------------------------
(***************************************************************************)
(* The three threads that install one NCA (yati.cpp: ThreadData,           *)
(* readFuncInternal, decompressFuncInternal, writeFuncInternal) and the    *)
(* coordinator that starts, watches and joins them (InstallNcaInternal).   *)
(*                                                                         *)
(* The threads are chained by two links, each a ring, a mutex and two      *)
(* condition variables:                                                    *)
(*     read --"in"--> decompress --"out"--> write                          *)
(* SetDecompressBuf and SetWriteBuf are Put on a link, GetDecompressBuf    *)
(* and GetWriteBuf are Get.  They differ only in the running flag they     *)
(* look at, PutWatch and GetWatch below.                                   *)
(*                                                                         *)
(* The data of the NCA are units 1, 2, ..., TotalUnits: the i-th buffer    *)
(* that is read holds, or inflates to, the units up to file.ends[i].       *)
(***************************************************************************)
EXTENDS RingBuf, FiniteSets

CONSTANTS
    Files,       \* the NCA files that may be installed
    FlushSize    \* INFLATE_BUFFER_MAX, in units

Threads == {"read", "decompress", "write"}

\* A file: where its buffers end, whether it is an NCZ, whose buffers after the
\* first are inflated, the size its NCA header states, and what may fail while
\* it is installed: a thread's call or the start of a thread.
FileType == [ends : Seq(Nat \ {0}), ncz : BOOLEAN, size : Nat \ {0},
             faults : SUBSET (Threads \cup {"start"})]

ASSUME PipelineAssumption ==
    /\ \A f \in Files :
         /\ f \in FileType
         /\ Len(f.ends) > 0
         /\ \A i \in 1 .. Len(f.ends) - 1 : f.ends[i] < f.ends[i + 1]
    /\ FlushSize \in Nat \ {0}

Links == {"in", "out"}
Producer == [in |-> "read", out |-> "decompress"]
Consumer == [in |-> "decompress", out |-> "write"]
PutWatch == [in |-> "write", out |-> "decompress"]
GetWatch == [in |-> "read", out |-> "decompress"]

VARIABLES
    file,        \* the file that is installed
    ring,        \* read_buffers and write_buffers
    mutex,       \* read_mutex and write_mutex: "free" or the thread that has it
    pc,          \* where each thread is
    hand,        \* the buffer each thread is about to Put, or has got
    running,     \* read_running, decompress_running, write_running
    result,      \* read_result, decompress_result, write_result
    ret,         \* what the thread's function returns
    readCount,   \* buffers read so far (read_offset)
    unread,      \* what the decompress thread has not inflated of its buffer
    inflateBuf,  \* inflate_buf up to inflate_offset
    inflated,    \* decompress_offset
    resume,      \* where the decompress thread goes on after a Put
    hashed,      \* nca->hash has been computed
    writeSize,   \* write_size
    written,     \* units written to the placeholder; its length is write_offset
    mpc,         \* where the coordinator is
    doneEvent,   \* m_uevent_done is signalled
    outcome      \* what InstallNcaInternal returns

linkVars == <<ring, mutex>>
flagVars == <<running, result>>
workVars == <<readCount, unread, inflateBuf, inflated, resume, hashed, writeSize, written>>
coordVars == <<mpc, doneEvent, outcome>>
vars == <<file, linkVars, pc, hand, flagVars, ret, workVars, coordVars>>

BufferCount == Len(file.ends)
UnitsBefore(i) == IF i = 1 THEN 0 ELSE file.ends[i - 1]
TotalUnits == UnitsBefore(BufferCount + 1)
ReadBuffer(i) == [k \in 1 .. file.ends[i] - UnitsBefore(i) |-> UnitsBefore(i) + k]

Init ==
    /\ file \in Files
    /\ ring = [l \in Links |-> NewRing]
    /\ mutex = [l \in Links |-> "free"]
    /\ pc = [t \in Threads |-> "created"]
    /\ hand = [t \in Threads |-> <<>>]
    /\ running = [t \in Threads |-> TRUE]
    /\ result = [t \in Threads |-> "ok"]
    /\ ret = [t \in Threads |-> "ok"]
    /\ readCount = 0 /\ unread = <<>> /\ inflateBuf = <<>> /\ inflated = 0
    /\ resume = "loop" /\ hashed = FALSE
    /\ writeSize = TotalUnits   \* nca->size, until the header is read
    /\ written = <<>>
    /\ mpc = "start" /\ doneEvent = FALSE /\ outcome = "none"

GetResults == \A t \in Threads : result[t] = "ok"

Goto(t, place) == pc' = [pc EXCEPT ![t] = place]

\* The function of thread t returns rc; ON_SCOPE_EXIT clears its flag next.
Return(t, rc) ==
    /\ Goto(t, "end")
    /\ ret' = [ret EXCEPT ![t] = rc]

-----------------------------------------------------------------------------
(* The two sides of a link *)

AfterPut(t) == IF t = "read" THEN "loop" ELSE resume
AfterGet(t) == IF t = "decompress" THEN "take" ELSE "store"

\* Seeded fault: the consumer is not woken.
DeliverSilent(l) ==
    IF GetResults
      THEN /\ ring' = [ring EXCEPT ![l] = RingPush(@, hand[Producer[l]])]
           /\ Goto(Producer[l], AfterPut(Producer[l]))
           /\ hand' = [hand EXCEPT ![Producer[l]] = <<>>]
           /\ UNCHANGED ret
      ELSE Return(Producer[l], "fail") /\ UNCHANGED <<ring, hand>>

\* The end of a Put, with the mutex held: give up if any thread has failed,
\* else push the buffer and wake the consumer.
Deliver(l) ==
    IF GetResults
      THEN /\ ring' = [ring EXCEPT ![l] = RingPush(@, hand[Producer[l]])]
           /\ pc' = [pc EXCEPT ![Producer[l]] = AfterPut(Producer[l]),
                               ![Consumer[l]] = IF @ = "getWait" THEN "getWoken" ELSE @]
           /\ hand' = [hand EXCEPT ![Producer[l]] = <<>>]
           /\ UNCHANGED ret
      ELSE /\ Return(Producer[l], "fail")
           /\ UNCHANGED <<ring, hand>>

\* Seeded fault: a full ring is not waited for.
PutUnbounded(l) ==
    /\ pc[Producer[l]] = "put" /\ mutex[l] = "free"
    /\ Deliver(l)
    /\ UNCHANGED <<file, mutex, flagVars, workVars, coordVars>>

\* Put takes the mutex.  If the ring is full and the watched thread has ended
\* it returns success, with the mutex still locked and the buffer not pushed.
Put(l) ==
    /\ pc[Producer[l]] = "put"
    /\ mutex[l] = "free"
    /\ IF ~RingFull(ring[l])
         THEN Deliver(l) /\ UNCHANGED mutex
         ELSE /\ mutex' = [mutex EXCEPT ![l] = Producer[l]]
              /\ Goto(Producer[l], IF running[PutWatch[l]] THEN "putSleep"
                                                           ELSE AfterPut(Producer[l]))
              /\ UNCHANGED <<ring, hand, ret>>
    /\ UNCHANGED <<file, flagVars, workVars, coordVars>>

\* condvarWait returned, with the mutex: the ring is not looked at again.
PutWoken(l) ==
    /\ pc[Producer[l]] = "putWoken"
    /\ mutex[l] = "free"
    /\ Deliver(l)
    /\ UNCHANGED <<file, mutex, flagVars, workVars, coordVars>>

\* The end of a Get, with the mutex held.
Fetch(l) ==
    IF GetResults
      THEN /\ hand' = [hand EXCEPT ![Consumer[l]] = RingFront(ring[l])]
           /\ ring' = [ring EXCEPT ![l] = RingPop(@)]
           /\ pc' = [pc EXCEPT ![Consumer[l]] = AfterGet(Consumer[l]),
                               ![Producer[l]] = IF @ = "putWait" THEN "putWoken" ELSE @]
           /\ UNCHANGED ret
      ELSE /\ Return(Consumer[l], "fail")
           /\ UNCHANGED <<ring, hand>>

\* Get takes the mutex.  If the ring is empty and the watched thread has ended
\* it returns an empty buffer, with the mutex still locked.
Get(l) ==
    /\ pc[Consumer[l]] = "get"
    /\ mutex[l] = "free"
    /\ IF RingSize(ring[l]) # 0
         THEN Fetch(l) /\ UNCHANGED mutex
         ELSE /\ mutex' = [mutex EXCEPT ![l] = Consumer[l]]
              /\ IF running[GetWatch[l]]
                   THEN Goto(Consumer[l], "getSleep") /\ UNCHANGED hand
                   ELSE /\ Goto(Consumer[l], AfterGet(Consumer[l]))
                        /\ hand' = [hand EXCEPT ![Consumer[l]] = <<>>]
              /\ UNCHANGED <<ring, ret>>
    /\ UNCHANGED <<file, flagVars, workVars, coordVars>>

GetWoken(l) ==
    /\ pc[Consumer[l]] = "getWoken"
    /\ mutex[l] = "free"
    /\ Fetch(l)
    /\ UNCHANGED <<file, mutex, flagVars, workVars, coordVars>>

\* condvarWait: the mutex is let go as the thread falls asleep.  The running
\* flag was looked at before, and nobody holds the mutex to change it.
FallAsleep(t, l, from, to) ==
    /\ pc[t] = from
    /\ Goto(t, to)
    /\ mutex' = [mutex EXCEPT ![l] = IF @ = t THEN "free" ELSE @]
    /\ UNCHANGED <<file, ring, hand, ret, flagVars, workVars, coordVars>>

PutSleep(l) == FallAsleep(Producer[l], l, "putSleep", "putWait")
GetSleep(l) == FallAsleep(Consumer[l], l, "getSleep", "getWait")

-----------------------------------------------------------------------------
(* The read thread *)

ReadLoop ==
    /\ pc["read"] = "loop"
    /\ IF readCount < BufferCount /\ GetResults
         THEN Goto("read", "source") /\ UNCHANGED ret
         ELSE Return("read", "ok")
    /\ UNCHANGED <<file, linkVars, hand, flagVars, workVars, coordVars>>

\* The next buffer from the source, and after the first one the NCZ headers.
ReadSource ==
    /\ pc["read"] = "source"
    /\ Goto("read", "put")
    /\ hand' = [hand EXCEPT !["read"] = ReadBuffer(readCount + 1)]
    /\ readCount' = readCount + 1
    /\ UNCHANGED <<file, linkVars, flagVars, ret, unread, inflateBuf, inflated, resume, hashed,
                   writeSize, written, coordVars>>

\* A call to the source, to a decoder or to the content storage fails.
FailsIn(t, places) ==
    /\ t \in file.faults
    /\ pc[t] \in places
    /\ Return(t, "fail")
    /\ UNCHANGED <<file, linkVars, hand, flagVars, workVars, coordVars>>

ReadFails == FailsIn("read", {"source"})

-----------------------------------------------------------------------------
(* The decompress thread *)

DecompressLoop ==
    /\ pc["decompress"] = "loop"
    /\ Goto("decompress", IF inflated < writeSize /\ GetResults THEN "get" ELSE "flush")
    /\ UNCHANGED <<file, linkVars, hand, ret, flagVars, workVars, coordVars>>

\* A buffer came; an empty one ends the loop.  The first one holds the NCA
\* header, whose size becomes write_size.  A buffer that needs no inflating
\* is counted and passed on.
TakeBuffer ==
    /\ pc["decompress"] = "take"
    /\ LET buf == hand["decompress"] IN
       IF buf = <<>>
         THEN Goto("decompress", "flush") /\ UNCHANGED <<hand, unread, inflated, resume, writeSize>>
         ELSE /\ writeSize' = IF buf[1] = 1 THEN file.size ELSE writeSize
              /\ IF file.ncz /\ buf[1] # 1
                   THEN /\ Goto("decompress", "work")
                        /\ unread' = buf
                        /\ hand' = [hand EXCEPT !["decompress"] = <<>>]
                        /\ UNCHANGED <<inflated, resume>>
                   ELSE /\ Goto("decompress", "put")
                        /\ resume' = "loop"
                        /\ inflated' = inflated + Len(buf)
                        /\ UNCHANGED <<hand, unread>>
    /\ UNCHANGED <<file, linkVars, flagVars, ret, readCount, inflateBuf, hashed, written, coordVars>>

\* Seeded fault: the unit that fills the inflate buffer is inflated twice.
InflateAgain ==
    /\ pc["decompress"] = "work" /\ unread # <<>> /\ GetResults
    /\ inflated' = inflated + 1
    /\ LET more == Append(inflateBuf, unread[1]) IN
       IF Len(more) >= FlushSize
         THEN /\ Goto("decompress", "put")
              /\ hand' = [hand EXCEPT !["decompress"] = more]
              /\ inflateBuf' = <<>> /\ resume' = "work" /\ UNCHANGED unread
         ELSE inflateBuf' = more /\ unread' = Tail(unread) /\ UNCHANGED <<pc, hand, resume>>
    /\ UNCHANGED <<file, linkVars, flagVars, ret, readCount, hashed, writeSize, written, coordVars>>

\* Inflate the next unit of the buffer; ncz_flush a full inflate buffer.
Inflate ==
    /\ pc["decompress"] = "work"
    /\ unread # <<>>
    /\ GetResults
    /\ unread' = Tail(unread)
    /\ inflated' = inflated + 1
    /\ LET more == Append(inflateBuf, unread[1]) IN
       IF Len(more) >= FlushSize
         THEN /\ Goto("decompress", "put")
              /\ hand' = [hand EXCEPT !["decompress"] = more]
              /\ inflateBuf' = <<>>
              /\ resume' = "work"
         ELSE inflateBuf' = more /\ UNCHANGED <<pc, hand, resume>>
    /\ UNCHANGED <<file, linkVars, flagVars, ret, readCount, hashed, writeSize, written, coordVars>>

\* The buffer is used up, or another thread failed meanwhile.
InflateEnds ==
    /\ pc["decompress"] = "work"
    /\ IF unread = <<>>
         THEN Goto("decompress", "loop") /\ UNCHANGED ret
         ELSE ~GetResults /\ Return("decompress", "fail")
    /\ UNCHANGED <<file, linkVars, hand, flagVars, workVars, coordVars>>

\* Seeded fault: what is left in the inflate buffer is forgotten.
NoFinalFlush ==
    /\ pc["decompress"] = "flush"
    /\ hashed' = TRUE
    /\ Return("decompress", "ok")
    /\ UNCHANGED <<file, linkVars, hand, flagVars, readCount, unread, inflateBuf, inflated, resume,
                   writeSize, written, coordVars>>

\* After the loop: flush what is left, then take the hash and return.
FinalFlush ==
    /\ pc["decompress"] = "flush"
    /\ IF inflateBuf # <<>>
         THEN /\ Goto("decompress", "put")
              /\ hand' = [hand EXCEPT !["decompress"] = inflateBuf]
              /\ inflateBuf' = <<>>
              /\ resume' = "flush"
              /\ UNCHANGED <<ret, hashed>>
         ELSE /\ hashed' = TRUE
              /\ Return("decompress", "ok")
              /\ UNCHANGED <<hand, inflateBuf, resume>>
    /\ UNCHANGED <<file, linkVars, flagVars, readCount, unread, inflated, writeSize, written, coordVars>>

\* The first buffer is refused (magic, ticket, placeholder size), or the
\* decoder or a missing NCZ block or section stops the inflating.
DecompressFails ==
    /\ \/ pc["decompress"] = "take" /\ hand["decompress"] # <<>> /\ hand["decompress"][1] = 1
       \/ pc["decompress"] = "work" /\ unread # <<>>
    /\ FailsIn("decompress", {"take", "work"})

-----------------------------------------------------------------------------
(* The write thread *)

WriteLoop ==
    /\ pc["write"] = "loop"
    /\ IF Len(written) < writeSize /\ GetResults
         THEN Goto("write", "get") /\ UNCHANGED ret
         ELSE Return("write", "ok")
    /\ UNCHANGED <<file, linkVars, hand, flagVars, workVars, coordVars>>

\* A buffer came and is written; an empty one ends the loop.  A failure
\* elsewhere is noticed before the write.
Store ==
    /\ pc["write"] = "store"
    /\ IF hand["write"] = <<>>
         THEN Return("write", "ok") /\ UNCHANGED written
         ELSE /\ Goto("write", "loop")
              /\ written' = IF Len(written) < writeSize /\ GetResults
                              THEN written \o hand["write"] ELSE written
              /\ UNCHANGED ret
    /\ hand' = [hand EXCEPT !["write"] = <<>>]
    /\ UNCHANGED <<file, linkVars, flagVars, readCount, unread, inflateBuf, inflated, resume, hashed,
                   writeSize, coordVars>>

WriteFails ==
    /\ hand["write"] # <<>> /\ Len(written) < writeSize /\ GetResults
    /\ FailsIn("write", {"store"})

-----------------------------------------------------------------------------
(* The end of a thread *)

\* ON_SCOPE_EXIT: the running flag is cleared, without a lock and without
\* waking anybody, before the result is stored.
ClearRunning(t) ==
    /\ pc[t] = "end"
    /\ Goto(t, "set")
    /\ running' = [running EXCEPT ![t] = FALSE]
    /\ UNCHANGED <<file, linkVars, hand, result, ret, workVars, coordVars>>

\* SetReadResult, SetDecompressResult, SetWriteResult: a failure, and any end
\* of the write thread, signals the coordinator.
SetResult(t) ==
    /\ pc[t] = "set"
    /\ Goto(t, "done")
    /\ result' = [result EXCEPT ![t] = ret[t]]
    /\ doneEvent' = (doneEvent \/ ret[t] = "fail" \/ t = "write")
    /\ UNCHANGED <<file, linkVars, hand, running, ret, workVars, mpc, outcome>>

-----------------------------------------------------------------------------
(* The coordinator *)

StartOrder == <<"read", "decompress", "write">>
Started == {t \in Threads : pc[t] # "created"}

StartThread ==
    /\ mpc = "start"
    /\ pc' = [pc EXCEPT ![StartOrder[Cardinality(Started) + 1]] = "loop"]
    /\ mpc' = IF Cardinality(Started) = 2 THEN "watch" ELSE "start"
    /\ UNCHANGED <<file, linkVars, hand, flagVars, ret, workVars, doneEvent, outcome>>

\* threadStart fails: the threads already started are joined, not told.
StartFails ==
    /\ "start" \in file.faults
    /\ mpc = "start"
    /\ mpc' = "join"
    /\ outcome' = "fail"
    /\ UNCHANGED <<file, linkVars, pc, hand, flagVars, ret, workVars, doneEvent>>

\* waitMulti returns for the done event.  (Progress only redraws; the cancel
\* event is never signalled.)
WatchDone ==
    /\ mpc = "watch"
    /\ doneEvent
    /\ mpc' = "close"
    /\ UNCHANGED <<file, linkVars, pc, hand, flagVars, ret, workVars, doneEvent, outcome>>

\* IsAnyRunning: the second term is decompress_result.
IsAnyRunning ==
    running["read"] \/ result["decompress"] # "ok" \/ running["write"]

\* WakeAllThreads wakes every sleeper.  It unlocks two mutexes it does not
\* own; what that does to a locked one is left open: nothing, or it is free.
WakeAll ==
    /\ mpc = "close"
    /\ IsAnyRunning
    /\ mpc' = "poll"
    /\ pc' = [t \in Threads |-> CASE pc[t] = "putWait" -> "putWoken"
                                  [] pc[t] = "getWait" -> "getWoken"
                                  [] OTHER -> pc[t]]
    /\ \E in, out \in BOOLEAN :
         mutex' = [in |-> IF in THEN "free" ELSE mutex["in"],
                   out |-> IF out THEN "free" ELSE mutex["out"]]
    /\ UNCHANGED <<file, ring, hand, flagVars, ret, workVars, doneEvent, outcome>>

\* waitSingleHandle on the three threads in turn.
Poll ==
    /\ mpc = "poll"
    /\ mpc' = IF \A t \in Threads : pc[t] = "done" THEN "closed" ELSE "close"
    /\ UNCHANGED <<file, linkVars, pc, hand, flagVars, ret, workVars, doneEvent, outcome>>

NoneRunning ==
    /\ mpc = "close"
    /\ ~IsAnyRunning
    /\ mpc' = "closed"
    /\ UNCHANGED <<file, linkVars, pc, hand, flagVars, ret, workVars, doneEvent, outcome>>

\* "threads closed": the results are looked at, and nca.hash.
TakeResults ==
    /\ mpc = "closed"
    /\ outcome' = IF GetResults THEN "ok" ELSE "fail"
    /\ mpc' = "join"
    /\ UNCHANGED <<file, linkVars, pc, hand, flagVars, ret, workVars, doneEvent>>

\* ON_SCOPE_EXIT: threadWaitForExit of every thread that was started.
Join ==
    /\ mpc = "join"
    /\ \A t \in Started : pc[t] = "done"
    /\ mpc' = "returned"
    /\ UNCHANGED <<file, linkVars, pc, hand, flagVars, ret, workVars, doneEvent, outcome>>

Returned == mpc = "returned" /\ UNCHANGED vars

-----------------------------------------------------------------------------
ReadThread ==
    \/ ReadLoop \/ ReadSource \/ ReadFails
    \/ Put("in") \/ PutSleep("in") \/ PutWoken("in")
    \/ ClearRunning("read") \/ SetResult("read")

DecompressThread ==
    \/ DecompressLoop \/ TakeBuffer \/ Inflate \/ InflateEnds \/ FinalFlush
    \/ DecompressFails
    \/ Get("in") \/ GetSleep("in") \/ GetWoken("in")
    \/ Put("out") \/ PutSleep("out") \/ PutWoken("out")
    \/ ClearRunning("decompress") \/ SetResult("decompress")

WriteThread ==
    \/ WriteLoop \/ Store \/ WriteFails
    \/ Get("out") \/ GetSleep("out") \/ GetWoken("out")
    \/ ClearRunning("write") \/ SetResult("write")

Coordinator ==
    \/ StartThread \/ StartFails \/ WatchDone \/ WakeAll \/ Poll \/ NoneRunning
    \/ TakeResults \/ Join

Next == ReadThread \/ DecompressThread \/ WriteThread \/ Coordinator \/ Returned

\* Every thread that can run does.
Fairness ==
    /\ WF_vars(ReadThread)
    /\ WF_vars(DecompressThread)
    /\ WF_vars(WriteThread)
    /\ WF_vars(Coordinator)

Spec == Init /\ [][Next]_vars
FairSpec == Spec /\ Fairness

-----------------------------------------------------------------------------
(* What the theorems assume of the files *)

\* The NCA header states the size that the buffers add up to.
Honest == \A f \in Files : f.size = f.ends[Len(f.ends)]

-----------------------------------------------------------------------------
(* Properties *)

\* While nothing fails a ring never holds more than its capacity, although it is
\* not looked at again after condvarWait.  After a failure a woken Put can
\* overrun its ring, but nobody reads from it any more.
RingsInBounds ==
    \A l \in Links : RingSize(ring[l]) > Capacity => file.faults # {} /\ ~running[Consumer[l]]

\* The placeholder gets the NCA from its start, in order, without a gap or a
\* repeat, even while other threads fail or drop what they hold.
WrittenInOrder ==
    written = [i \in 1 .. Len(written) |-> i]

FlattenRing(q) ==
    LET c == RingContents(q)
        flat[i \in 0 .. Len(c)] == IF i = 0 THEN <<>> ELSE flat[i - 1] \o c[i]
    IN flat[Len(c)]

\* What is under way, oldest first.  A buffer in the hand of the decompress
\* thread is behind its inflate buffer when it came in, before it when it
\* goes out.
InFlight ==
    LET mine == hand["decompress"]
        goingOut == pc["decompress"] # "take"
    IN hand["write"] \o FlattenRing(ring["out"])
         \o (IF goingOut THEN mine ELSE <<>>) \o inflateBuf \o unread
         \o (IF goingOut THEN <<>> ELSE mine)
         \o FlattenRing(ring["in"]) \o hand["read"]

\* Nothing is lost, doubled or overtaken on the way: what is written, queued,
\* held and inflated is all that was read, in order, until a thread ends badly.
NothingLost ==
    (\A t \in Threads : ret[t] = "ok" /\ running[t])
        => written \o InFlight = [i \in 1 .. UnitsBefore(readCount + 1) |-> i]

\* An install reported as good, and in which no thread failed, has the whole
\* NCA in its placeholder, although no thread checks that it saw the end.
OkMeansComplete ==
    outcome = "ok" /\ (\A t \in Threads : ret[t] = "ok")
        => written = [i \in 1 .. file.size |-> i]

\* While nothing fails the pipeline ends: InstallNcaInternal returns.
PipelineReturns == file.faults = {} => <>(mpc = "returned")

\* yati.cpp:1019 "if any of the threads failed, wake up all threads so they can
\* exit": a failure of a thread ends the install, with a failure.
FailureEndsInstall ==
    (\E t \in Threads : result[t] = "fail") ~> (mpc = "returned")
=============================================================================
