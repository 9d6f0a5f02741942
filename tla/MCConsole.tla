------------------------------ MODULE MCConsole ------------------------------
(***************************************************************************)
(* TLC instances of Console: main and three printers.                      *)
(***************************************************************************)
EXTENDS Console, TLC

CONSTANTS a, b, c

MCThread == {main, a, b, c}

\* A slice of one tick may end at any point of a console call, because a tick
\* may come at any point; a longer slice would add no interleaving.
MCPrio == [t \in MCThread |-> 0]

\* pic_init with the timer unmasked (0xfc): with the mask that it writes, 0xfd,
\* no thread is ever exchanged.
TimerUnmasked == 252

=============================================================================
