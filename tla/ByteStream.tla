------------------------------ MODULE ByteStream ------------------------------
(***************************************************************************)
(* What the MTP side and the install side promise each other through an    *)
(* install stream: a one-way byte pipe.  Bytes are numbered 1, 2, 3, ...   *)
(* in the order the host sends them.  Bytes put in while the pipe is open  *)
(* come out once, in order and without a gap; once closed nothing more     *)
(* goes in; the end of the stream is reported only when all is drained.    *)
(***************************************************************************)
EXTENDS Integers, Sequences

VARIABLES
    open,     \* the writer can still put bytes in
    put,      \* number of bytes that went in
    got,      \* number of bytes that came out
    chunk,    \* the bytes of the last successful read
    eof       \* the reader has been told the stream ended

vars == <<open, put, got, chunk, eof>>

Init == /\ open = TRUE
        /\ put = 0
        /\ got = 0
        /\ chunk = <<>>
        /\ eof = FALSE

Put == /\ open
       /\ put' > put
       /\ put' \in Nat
       /\ UNCHANGED <<open, got, chunk, eof>>

Get == /\ got < put
       /\ got' \in (got + 1) .. put
       /\ chunk' = [i \in 1 .. (got' - got) |-> got + i]
       /\ UNCHANGED <<open, put, eof>>

Close == /\ open' = FALSE
         /\ chunk' \in {chunk, <<>>}
         /\ UNCHANGED <<put, got, eof>>

Eof == /\ ~open
       /\ got = put
       /\ eof' = TRUE
       /\ chunk' = <<>>
       /\ UNCHANGED <<open, put, got>>

Next == Put \/ Get \/ Close \/ Eof

Spec == Init /\ [][Next]_vars
===============================================================================
