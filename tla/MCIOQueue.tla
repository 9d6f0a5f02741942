------------------------------ MODULE MCIOQueue ------------------------------
(***************************************************************************)
(* TLC instance of IOQueue: main and two readers, a ring of four slots of  *)
(* which two lie under the pointers of waiters, two characters.            *)
(***************************************************************************)
EXTENDS IOQueue, TLC

CONSTANTS a, b, x, y

MCThread == {main, a, b}
MCPrio == [t \in MCThread |-> 0]
MCChar == {x, y}
MCHeadNext == {0}
MCTailPrev == {1}

\* Timer and keyboard unmasked (0xfc).
MCPicMask == 252

MCSymmetry == Permutations({a, b}) \cup Permutations({x, y})

=============================================================================
