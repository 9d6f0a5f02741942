---------------------------- MODULE ReentrantLock ----------------------------
(***************************************************************************)
(* What lock_acquire and lock_release of kernel/thread/sync.c promise: one *)
(* owner at a time, which may acquire again, and gives the lock up with    *)
(* the release that matches its first acquisition.                         *)
(***************************************************************************)
EXTENDS Integers

CONSTANTS
  Thread,
  NoThread   \* not a member of Thread

VARIABLES owner, count

lockVars == <<owner, count>>

LockInit == owner = NoThread /\ count = 0

Acquire(t) ==
  /\ owner \in {NoThread, t}
  /\ owner' = t
  /\ count' = count + 1

Release(t) ==
  /\ owner = t
  /\ owner' = IF count = 1 THEN NoThread ELSE t
  /\ count' = count - 1

LockNext == \E t \in Thread : Acquire(t) \/ Release(t)

LockSpec == LockInit /\ [][LockNext]_lockVars

=============================================================================
