---------------------------- MODULE MCMtpInstall ----------------------------
(***************************************************************************)
(* A small instance of MtpInstall: two files in turn, each one byte larger *)
(* than the buffer, so that both the reader and the writer have to wait,   *)
(* gaps are skipped in more than one piece, and the second install starts  *)
(* after, during or instead of the first.                                  *)
(***************************************************************************)
EXTENDS MtpInstall

MCMaxBufferSize == 2
MCMaxWaitCount == 2
MCFileSize == 3
MCMaxPacket == 2
MCMaxRead == 3
MCMaxFiles == 2
MCSkipChunk == 1
=============================================================================
