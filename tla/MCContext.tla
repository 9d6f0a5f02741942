------------------------------ MODULE MCContext ------------------------------
(***************************************************************************)
(* TLC instance of Context: main and two more threads, slices of one and   *)
(* two ticks, and the timer interrupt unmasked.                            *)
(***************************************************************************)
EXTENDS Context, TLC

CONSTANTS a, b

MCThread == {main, a, b}
MCPrio == [t \in MCThread |-> IF t = b THEN 1 ELSE 0]
\* Only main boots and only b has a longer slice: no symmetry is declared.

\* The mask of a kernel that takes timer interrupts (0xfc): the committed
\* pic_init writes 0xfd, which leaves only the keyboard unmasked.
MCPicMask == 252

=============================================================================
