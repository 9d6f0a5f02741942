----------------------------- MODULE BoundedFIFO -----------------------------
(***************************************************************************)
(* What a character queue promises its clients: at most Capacity           *)
(* characters, given out in the order in which they were put in.           *)
(***************************************************************************)
EXTENDS Integers, Sequences

CONSTANTS
  Char,
  Capacity   \* a natural number

VARIABLE queue

FIFOInit == queue = << >>

Put(c) == Len(queue) < Capacity /\ queue' = Append(queue, c)

Get == queue # << >> /\ queue' = Tail(queue)

FIFONext == Get \/ \E c \in Char : Put(c)

FIFOSpec == FIFOInit /\ [][FIFONext]_queue

=============================================================================
