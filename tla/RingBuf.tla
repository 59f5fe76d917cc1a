------------------------------- MODULE RingBuf -------------------------------
(***************************************************************************)
(* RingBuf<Size> of yati.cpp: a ring of Capacity slots whose read and      *)
(* write indices run modulo twice the capacity, so that an empty and a     *)
(* full ring differ.  Nothing here checks for a full or an empty ring:     *)
(* that is the callers' affair.                                            *)
(***************************************************************************)
EXTENDS Integers, Sequences

CONSTANT Capacity   \* the template argument, 4 in ThreadData

ASSUME CapacityAssumption == Capacity \in Nat \ {0}

RingSpan == 2 * Capacity

NewRing == [slot |-> [i \in 0 .. Capacity - 1 |-> <<>>], r |-> 0, w |-> 0]

RingSize(q) == (q.w - q.r) % RingSpan

\* ringbuf_free is unsigned: it is zero when the ring holds its capacity, and
\* wraps to a huge number, which is not zero, when the ring holds more.
RingFull(q) == RingSize(q) = Capacity

\* Seeded fault: the slot is taken after the index moved on.
RingPushLate(q, x) ==
    [q EXCEPT !.slot[(q.w + 1) % Capacity] = x, !.w = (q.w + 1) % RingSpan]

RingPush(q, x) ==
    [q EXCEPT !.slot[q.w % Capacity] = x, !.w = (q.w + 1) % RingSpan]

RingFront(q) == q.slot[q.r % Capacity]

\* The slot keeps stale data.
RingPop(q) == [q EXCEPT !.r = (q.r + 1) % RingSpan]

\* The buffers in the ring, oldest first.
RingContents(q) ==
    [i \in 1 .. RingSize(q) |-> q.slot[(q.r + i - 1) % Capacity]]
=============================================================================
