--------------------------- MODULE MCInstallStream ---------------------------
(***************************************************************************)
(* A small instance of InstallStream.  The file is three times the buffer, *)
(* so that the buffer fills, overfills and empties; packets and reads of   *)
(* one and two bytes straddle each other; two timeouts abort a read.       *)
(***************************************************************************)
EXTENDS InstallStream

MCMaxBufferSize == 2
MCMaxWaitCount == 2
MCFileSize == 6
MCMaxPacket == 2
MCMaxRead == 2
=============================================================================
