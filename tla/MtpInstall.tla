----------------------------- MODULE MtpInstall -----------------------------
(***************************************************************************)
(* The life of an install over MTP (source/main.cpp, FsInstall): the MTP   *)
(* thread opens a file, which makes a stream and starts an install thread, *)
(* writes into it and closes it; the install thread reads through          *)
(* Stream::Read (yati/source/stream.cpp), which only goes forward; the     *)
(* main thread stops MTP and destroys FsInstall.                           *)
(*                                                                         *)
(* The stream itself is InstallStream, whose actions are conjuncts of the  *)
(* actions here.  Its variables describe the stream of g_install_ctx; with *)
(* no stream both its threads are "done".  The install thread stands for   *)
(* the yati thread that reads: they take turns.                            *)
(***************************************************************************)
EXTENDS InstallStream

CONSTANTS
    MaxFiles,     \* files the host sends (bounds the run)
    SkipChunk     \* SKIP_CHUNK_SIZE, 8 MB in the code

ASSUME MtpAssumption ==
    /\ MaxFiles \in Nat
    /\ SkipChunk \in Nat \ {0}

VARIABLES
    stream,      \* g_install_ctx.stream is set
    inProgress,  \* g_install_ctx.in_progress
    hpc,         \* where the MTP thread, and then the main thread, is
    files,       \* number of files opened
    ipc,         \* where the install thread is
    mOffset,     \* Stream::m_offset
    off,         \* Read's off
    size,        \* Read's size: what is still to be read
    want,        \* the off and size Read was called with
    got,         \* the bytes Read wrote to the caller's buffer
    result,      \* g_install_ctx.install_result, and the file it is for
    report       \* what CloseFile reported last

readVars == <<mOffset, off, size, want, got>>
ctxVars == <<stream, inProgress, hpc, files>>
mtpVars == <<vars, ctxVars, ipc, readVars, result, report>>

HazePlaces == {"idle", "openJoin", "closeJoin", "exit", "dtorJoin", "gone"}
InstallPlaces == {"none", "run", "read", "call", "finish", "exited"}

\* g_install_ctx.stream.reset(): nothing is left of the stream.
NoStream ==
    /\ active' = FALSE /\ buffer' = <<>>
    /\ rpc' = "done" /\ rsize' = 0 /\ waitCount' = 0
    /\ readRc' = "none" /\ chunk' = <<>> /\ taken' = 0
    /\ wpc' = "done" /\ packet' = <<>> /\ sent' = 0

\* std::make_unique<InstallStream>: an empty stream with m_offset 0.
NewStream ==
    /\ active' = TRUE /\ buffer' = <<>>
    /\ rpc' = "idle" /\ rsize' = 0 /\ waitCount' = 0
    /\ readRc' = "none" /\ chunk' = <<>> /\ taken' = 0
    /\ wpc' = "idle" /\ packet' = <<>> /\ sent' = 0

NoRead == mOffset' = 0 /\ off' = 0 /\ size' = 0 /\ want' = [off |-> 0, size |-> 0] /\ got' = <<>>

MtpInit ==
    /\ active = FALSE /\ buffer = <<>>
    /\ rpc = "done" /\ rsize = 0 /\ waitCount = 0
    /\ readRc = "none" /\ chunk = <<>> /\ taken = 0
    /\ wpc = "done" /\ packet = <<>> /\ sent = 0
    /\ stream = FALSE /\ inProgress = FALSE /\ hpc = "idle" /\ files = 0
    /\ ipc = "none"
    /\ mOffset = 0 /\ off = 0 /\ size = 0 /\ want = [off |-> 0, size |-> 0] /\ got = <<>>
    /\ result = [file |-> 0, rc |-> "ok"]
    /\ report = [file |-> 0, rc |-> "ok"]

-----------------------------------------------------------------------------
(* The install thread *)

\* Yati asks its source for s bytes at offset o.  Going back is refused, and
\* the refusal ends the install.
BeginRead(o, s) ==
    /\ ipc = "run"
    /\ IF o < mOffset
         THEN /\ ipc' = "finish"
              /\ result' = [file |-> files, rc |-> "failed"]
              /\ UNCHANGED readVars
         ELSE /\ ipc' = "read"
              /\ off' = o /\ size' = s
              /\ want' = [off |-> o, size |-> s] /\ got' = <<>>
              /\ UNCHANGED <<mOffset, result>>
    /\ UNCHANGED <<vars, ctxVars, report>>

\* Seeded fault: the whole size is asked for again after a short chunk.
ReadWholeAgain ==
    /\ ipc = "read" /\ ipc' = "call"
    /\ CallReadChunk(IF off > mOffset THEN SmallerOf(off - mOffset, SkipChunk) ELSE want.size)
    /\ UNCHANGED <<ctxVars, readVars, result, report>>

\* The next ReadChunk of Read: part of the gap up to off, or of the wanted bytes.
ReadNext ==
    /\ ipc = "read"
    /\ ipc' = "call"
    /\ CallReadChunk(IF off > mOffset THEN SmallerOf(off - mOffset, SkipChunk) ELSE size)
    /\ UNCHANGED <<ctxVars, readVars, result, report>>

\* Seeded fault: what is left to be read is not counted down.
ReturnedKeepsSize ==
    /\ ipc = "call" /\ rpc = "idle" /\ readRc # "timeout"
    /\ mOffset' = mOffset + Len(chunk)
    /\ off' = IF off > mOffset THEN off ELSE off + Len(chunk)
    /\ ipc' = "read"
    /\ UNCHANGED <<size, want, got, vars, ctxVars, result, report>>

\* Seeded fault: the bytes of the gap are delivered.
ReturnedKeepsGap ==
    /\ ipc = "call" /\ rpc = "idle" /\ readRc # "timeout"
    /\ mOffset' = mOffset + Len(chunk) /\ off' = off + Len(chunk)
    /\ size' = IF Len(chunk) < size THEN size - Len(chunk) ELSE 0
    /\ got' = got \o chunk
    /\ ipc' = IF size' = 0 THEN "run" ELSE "read"
    /\ UNCHANGED <<want, result, vars, ctxVars, report>>

\* ReadChunk came back: an error ends the Read and the install, bytes of the
\* gap are discarded, wanted bytes are delivered.  A return without data
\* changes nothing and the loop goes on.
ReadReturned ==
    /\ ipc = "call" /\ rpc = "idle"
    /\ IF readRc = "timeout"
         THEN /\ ipc' = "finish"
              /\ result' = [file |-> files, rc |-> "failed"]
              /\ UNCHANGED readVars
         ELSE LET n == Len(chunk)
                  d == IF off > mOffset THEN 0 ELSE n
              IN /\ mOffset' = mOffset + n
                 /\ off' = off + d
                 /\ size' = size - d
                 /\ got' = IF d = 0 THEN got ELSE got \o chunk
                 /\ ipc' = IF size' = 0 THEN "run" ELSE "read"
                 /\ UNCHANGED <<want, result>>
    /\ UNCHANGED <<vars, ctxVars, report>>

\* InstallFromSource returns, or the SD card could not be opened at all.
InstallEnds(rc) ==
    /\ ipc = "run"
    /\ ipc' = "finish"
    /\ result' = [file |-> files, rc |-> rc]
    /\ UNCHANGED <<vars, ctxVars, readVars, report>>

\* Seeded fault: the install thread leaves without a Disable.
ExitWithoutDisable ==
    /\ ipc = "finish" /\ ipc' = "exited"
    /\ UNCHANGED <<vars, ctxVars, readVars, result, report>>

\* The last act of InstallThreadFunc is a Disable.
ThreadExit ==
    /\ ipc = "finish"
    /\ ipc' = "exited"
    /\ FinishInstall
    /\ UNCHANGED <<ctxVars, readVars, result, report>>

-----------------------------------------------------------------------------
(* The MTP thread, which handles one request at a time *)

HazeFree == hpc = "idle" /\ wpc \in {"idle", "done"}

\* WaitForInstallThread gets past threadWaitForExit.
Joined == inProgress => ipc = "exited"

\* OpenFile finds an install under way and waits for it.
OpenFileBusy ==
    /\ HazeFree
    /\ files < MaxFiles
    /\ inProgress
    /\ hpc' = "openJoin"
    /\ UNCHANGED <<vars, stream, inProgress, files, ipc, readVars, result, report>>

OpenReady ==
    \/ HazeFree /\ files < MaxFiles /\ ~inProgress
    \/ hpc = "openJoin" /\ Joined

\* OpenFile replaces the stream and starts an install thread on it.
OpenFileStart ==
    /\ OpenReady
    /\ hpc' = "idle"
    /\ files' = files + 1
    /\ stream' = TRUE
    /\ inProgress' = TRUE
    /\ NewStream
    /\ NoRead
    /\ ipc' = "run"
    /\ UNCHANGED <<result, report>>

\* threadCreate or threadStart failed: the new stream goes away again.
OpenFileFail ==
    /\ OpenReady
    /\ hpc' = "idle"
    /\ files' = files + 1
    /\ stream' = FALSE
    /\ inProgress' = FALSE
    /\ NoStream
    /\ NoRead
    /\ ipc' = "none"
    /\ UNCHANGED <<result, report>>

\* WriteFile is a Push; the thread is back when Push is.
WriteFile(k) ==
    /\ hpc = "idle" /\ stream
    /\ CallPush(k)
    /\ UNCHANGED <<ctxVars, ipc, readVars, result, report>>

\* CloseFile Disables the stream and waits for the install thread.  The host
\* may close before the last byte.
CloseFile ==
    /\ HazeFree
    /\ stream
    /\ CloseStream
    /\ hpc' = "closeJoin"
    /\ UNCHANGED <<stream, inProgress, files, ipc, readVars, result, report>>

\* Seeded fault: CloseFile does not wait for the install thread.
CloseWithoutJoin ==
    /\ hpc = "closeJoin" /\ hpc' = "idle"
    /\ inProgress' = FALSE
    /\ report' = result
    /\ stream' = FALSE /\ NoStream /\ NoRead
    /\ UNCHANGED <<files, ipc, result>>

CloseFileJoin ==
    /\ hpc = "closeJoin"
    /\ Joined
    /\ hpc' = "idle"
    /\ inProgress' = FALSE
    /\ ipc' = "none"
    /\ report' = result
    /\ stream' = FALSE
    /\ NoStream
    /\ NoRead
    /\ UNCHANGED <<files, result>>

\* haze::Exit has stopped the MTP thread between two requests, with a file
\* still open or not; what follows is the main thread, destroying FsInstall.
HazeExit ==
    /\ HazeFree
    /\ hpc' = "exit"
    /\ UNCHANGED <<vars, stream, inProgress, files, ipc, readVars, result, report>>

\* ~FsInstall
Destroy ==
    /\ hpc = "exit"
    /\ IF inProgress
         THEN hpc' = "dtorJoin" /\ CloseStream
         ELSE hpc' = "gone" /\ UNCHANGED vars
    /\ UNCHANGED <<stream, inProgress, files, ipc, readVars, result, report>>

DestroyJoin ==
    /\ hpc = "dtorJoin"
    /\ Joined
    /\ hpc' = "gone"
    /\ inProgress' = FALSE
    /\ ipc' = "none"
    /\ UNCHANGED <<vars, stream, files, readVars, result, report>>

-----------------------------------------------------------------------------
StreamReadStep == (ReadStep \/ ReadTimer) /\ UNCHANGED <<ctxVars, ipc, readVars, result, report>>
StreamPushStep == (PushStep \/ PushTimer) /\ UNCHANGED <<ctxVars, ipc, readVars, result, report>>

InstallThread ==
    \/ \E o \in 0 .. FileSize : \E s \in 1 .. (FileSize - o) : BeginRead(o, s)
    \/ ReadNext \/ ReadReturned
    \/ \E rc \in {"ok", "failed"} : InstallEnds(rc)
    \/ ThreadExit
    \/ StreamReadStep

Host ==
    \/ OpenFileBusy
    \/ \E k \in 1 .. MaxPacket : WriteFile(k)
    \/ CloseFile
    \/ HazeExit

MtpThread ==
    \/ OpenFileStart \/ OpenFileFail
    \/ CloseFileJoin
    \/ Destroy \/ DestroyJoin
    \/ StreamPushStep

Gone == hpc = "gone" /\ UNCHANGED mtpVars

MtpNext == InstallThread \/ Host \/ MtpThread \/ Gone

\* Threads that can run do, and timed waits end.  The host need not ask for
\* anything; a join that can return returns.
MtpFairness ==
    /\ WF_mtpVars(InstallThread)
    /\ WF_mtpVars(ReadTimer /\ StreamReadStep)
    /\ WF_mtpVars(StreamPushStep)
    /\ WF_mtpVars(hpc = "openJoin" /\ (OpenFileStart \/ OpenFileFail))
    /\ WF_mtpVars(CloseFileJoin \/ Destroy \/ DestroyJoin)

MtpSpec == MtpInit /\ [][MtpNext]_mtpVars
MtpFairSpec == MtpSpec /\ MtpFairness

-----------------------------------------------------------------------------
(* Properties *)

\* Every variable of the life cycle has its type.
MtpTypeOK ==
    /\ TypeOK
    /\ stream \in BOOLEAN /\ inProgress \in BOOLEAN
    /\ hpc \in HazePlaces /\ ipc \in InstallPlaces
    /\ files \in 0 .. MaxFiles
    /\ mOffset \in Nat /\ off \in Nat /\ size \in Nat
    /\ want \in [off : Nat, size : Nat]
    /\ got \in Seq(Nat)
    /\ {result, report} \subseteq [file : 0 .. MaxFiles, rc : {"ok", "failed"}]

\* The install thread never outlives what it works on: while it runs there is
\* a stream, the flag that makes OpenFile, CloseFile and the destructor wait
\* for it is up, and FsInstall has not been destroyed.
StreamOutlivesThread ==
    ipc \notin {"none", "exited"} => stream /\ inProgress /\ hpc # "gone"

\* install_result is one for all installs, and CloseFile reads it without the
\* mutex: what it reports is how the install of the last opened file ended, be
\* it that its thread failed early, timed out or was done long ago, and never
\* what an earlier install has left there.
ReportIsOfItsInstall ==
    [][hpc = "closeJoin" /\ hpc' = "idle" => report'.file = files]_mtpVars

\* A Read that succeeded delivered exactly the bytes it was asked for, however
\* the packets, the reads and the gaps it skips fall across each other; and
\* m_offset, which the next one starts from, never drifts from the data.
ReadIsExact ==
    /\ ipc = "run" => got = [i \in 1 .. want.size |-> want.off + i]
    /\ ipc \in {"run", "read"} => mOffset = taken

\* CloseFile and the destructor get past the join of the install thread when
\* the host has sent the whole file, wherever the two threads are.
WholeFileJoinReturns ==
    hpc \in {"closeJoin", "dtorJoin"} /\ sent = FileSize ~> hpc \in {"idle", "gone"}

\* A second OpenFile returns although nobody Disabled the stream of the first:
\* the first install ends by its timeouts (main.cpp:452-457).
OpenFileReturns == (hpc = "openJoin") ~> (hpc = "idle")

\* A WriteFile returns, even when the install it feeds has failed.
WriteFileReturns == (wpc = "lock") ~> (wpc \in {"idle", "done"})

\* main.cpp:226 and 229: the destructor Disables the stream so that the install
\* thread stops waiting, and makes sure that it exits.
DestructorReturns == (hpc = "dtorJoin") ~> (hpc = "gone")
=============================================================================
