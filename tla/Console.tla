------------------------------- MODULE Console -------------------------------
(***************************************************************************)
(* device/console.c and the lock it is built on (kernel/thread/sync.c),    *)
(* used by the threads of kernel/main.c: main starts the printers with     *)
(* interrupts disabled, enables them and spins; each printer writes to the *)
(* console forever and may nest console_acquire.  The thread component is  *)
(* Threads; its timer interrupt comes between any two steps of a thread    *)
(* that runs with interrupts enabled.                                      *)
(***************************************************************************)
EXTENDS Threads

CONSTANTS
  NULL,
  MaxDepth   \* bound on nested acquisitions (the code's is 2^32 - 1)

Printer == Thread \ {main}

ASSUME ConsoleAssumption ==
  /\ NULL \notin Thread
  /\ MaxDepth \in Nat \ {0}

VARIABLES
  pc,                 \* where each thread is, see PC
  value, waiters,     \* console_lock.semaphore
  holder,             \* console_lock.holder
  holder_repeat_num   \* console_lock.holder_repeat_num

consoleVars == <<pc, value, waiters, holder, holder_repeat_num>>
vars == <<threadVars, consoleVars>>

(***************************************************************************)
(* boot, spin : main before and after its intr_enable                      *)
(* run        : outside the console                                        *)
(* down       : lock_acquire has seen another holder                       *)
(* loop       : at the while of semaphore_down, interrupts disabled; a     *)
(*              thread of in_block is about to leave thread_block first    *)
(* got, held  : semaphore taken; holder set                                *)
(* crit       : has the console                                            *)
(* rel, up    : holder cleared; holder_repeat_num cleared                  *)
(***************************************************************************)
PC == {"boot", "spin", "run", "down", "loop", "got", "held", "crit", "rel", "up"}

\* Points at which a thread owns the semaphore's only unit.
Owning == {"got", "held", "crit", "rel", "up"}

Runs(t, from) == t = current /\ pc[t] = from /\ ~panicked

Goto(t, to) == pc' = [pc EXCEPT ![t] = to]

\* A step that calls nothing of the thread component.
NoSwitch == UNCHANGED threadVars

ConsoleInit ==
  /\ ThreadsInit
  /\ pc = [t \in Thread |-> IF t = main THEN "boot" ELSE "run"]
  /\ value = 1
  /\ waiters = list_init
  /\ holder = NULL
  /\ holder_repeat_num = 0

-----------------------------------------------------------------------------
\* main.c: thread_start for each printer, then intr_enable, then while (1).
main_starts(t) ==
  /\ Runs(main, "boot")
  /\ t \in Printer /\ thread_start(t)
  /\ UNCHANGED consoleVars

main_enables ==
  /\ Runs(main, "boot")
  /\ intr_set_status(TRUE)
  /\ Goto(main, "spin")
  /\ UNCHANGED <<value, waiters, holder, holder_repeat_num>>

\* Mutant: a lock without holder is taken without its semaphore.
lock_acquire_TrustsHolder(t) ==
  /\ t \in Printer /\ Runs(t, "run")
  /\ Goto(t, IF holder = NULL THEN "got" ELSE "down")
  /\ UNCHANGED <<value, waiters, holder, holder_repeat_num>> /\ NoSwitch

\* lock_acquire up to the call of semaphore_down, which only the holder skips.
lock_acquire(t) ==
  /\ t \in Printer
  /\ \/ Runs(t, "run")
     \/ Runs(t, "crit") /\ holder_repeat_num < MaxDepth
  /\ IF holder = t
     THEN holder_repeat_num' = holder_repeat_num + 1 /\ Goto(t, "crit")
     ELSE Goto(t, "down") /\ UNCHANGED holder_repeat_num
  /\ UNCHANGED <<value, waiters, holder>> /\ NoSwitch

\* semaphore_down, in three steps: intr_disable; the test of value, with the
\* thread_block or the decrement that follows it; the return of thread_block.
semaphore_down(t) ==
  /\ Runs(t, "down")
  /\ intr_set_status(FALSE)
  /\ Goto(t, "loop")
  /\ UNCHANGED <<value, waiters, holder, holder_repeat_num>>

semaphore_wait(t) ==
  /\ Runs(t, "loop") /\ t \notin in_block
  /\ value = 0
  /\ IF list_find(waiters, t)
     THEN Panic /\ UNCHANGED waiters
     ELSE thread_block("TASK_BLOCKED") /\ waiters' = list_append(waiters, t)
  /\ UNCHANGED <<pc, value, holder, holder_repeat_num>>

\* Mutant: "if" for the "while" of semaphore_down.
semaphore_woken_NoRetest(t) ==
  /\ Runs(t, "loop") /\ t \in in_block
  /\ thread_block_return(TRUE)
  /\ Goto(t, "got") /\ value' = 0
  /\ UNCHANGED <<waiters, holder, holder_repeat_num>>

\* Mutant: thread_block enables interrupts instead of restoring their status.
semaphore_woken_Enabled(t) ==
  /\ Runs(t, "loop") /\ t \in in_block
  /\ thread_block_return(TRUE)
  /\ UNCHANGED consoleVars

semaphore_woken(t) ==
  /\ Runs(t, "loop") /\ t \in in_block
  /\ thread_block_return(FALSE)
  /\ UNCHANGED consoleVars

\* Mutant: value is decremented without the test of the while.
semaphore_take_Unchecked(t) ==
  /\ Runs(t, "loop") /\ t \notin in_block
  /\ value' = value - 1
  /\ intr_set_status(TRUE)
  /\ Goto(t, "got")
  /\ UNCHANGED <<waiters, holder, holder_repeat_num>>

semaphore_take(t) ==
  /\ Runs(t, "loop") /\ t \notin in_block
  /\ value # 0
  /\ value' = value - 1
  /\ IF value' = 0 THEN intr_set_status(TRUE) ELSE Panic
  /\ Goto(t, "got")
  /\ UNCHANGED <<waiters, holder, holder_repeat_num>>

\* The rest of lock_acquire, two assignments with interrupts enabled.
lock_acquire_holder(t) ==
  /\ Runs(t, "got")
  /\ holder' = t
  /\ Goto(t, "held")
  /\ UNCHANGED <<value, waiters, holder_repeat_num>> /\ NoSwitch

lock_acquire_repeat(t) ==
  /\ Runs(t, "held")
  /\ IF holder_repeat_num = 0 THEN NoSwitch ELSE Panic
  /\ holder_repeat_num' = 1
  /\ Goto(t, "crit")
  /\ UNCHANGED <<value, waiters, holder>>

\* lock_release up to holder = NULL.
lock_release(t) ==
  /\ Runs(t, "crit")
  /\ IF holder = t /\ holder_repeat_num >= 1 THEN NoSwitch ELSE Panic
  /\ IF holder_repeat_num > 1
     THEN holder_repeat_num' = holder_repeat_num - 1 /\ UNCHANGED <<pc, holder>>
     ELSE holder' = NULL /\ Goto(t, "rel") /\ UNCHANGED holder_repeat_num
  /\ UNCHANGED <<value, waiters>>

\* Mutant: holder_repeat_num is not reset.
lock_release_repeat_NoReset(t) ==
  /\ Runs(t, "rel")
  /\ Goto(t, "up")
  /\ UNCHANGED <<value, waiters, holder, holder_repeat_num>> /\ NoSwitch

lock_release_repeat(t) ==
  /\ Runs(t, "rel")
  /\ holder_repeat_num' = 0
  /\ Goto(t, "up")
  /\ UNCHANGED <<value, waiters, holder>> /\ NoSwitch

\* Mutants: nobody is woken; the unit is not given back; the woken thread
\* stays linked to waiters.
semaphore_up_NoWakeup(t) ==
  /\ Runs(t, "up")
  /\ value' = value + 1
  /\ Goto(t, "run")
  /\ UNCHANGED <<waiters, holder, holder_repeat_num>> /\ NoSwitch

semaphore_up_NoIncrement(t) ==
  /\ Runs(t, "up")
  /\ IF list_empty(waiters)
     THEN NoSwitch /\ UNCHANGED waiters
     ELSE thread_unblock(popped(waiters)) /\ waiters' = list_pop(waiters)
  /\ Goto(t, "run")
  /\ UNCHANGED <<value, holder, holder_repeat_num>>

semaphore_up_NoPop(t) ==
  /\ Runs(t, "up")
  /\ IF list_empty(waiters) THEN NoSwitch ELSE thread_unblock(popped(waiters))
  /\ value' = value + 1
  /\ Goto(t, "run")
  /\ UNCHANGED <<waiters, holder, holder_repeat_num>>

\* semaphore_up, all of it with interrupts disabled.
semaphore_up(t) ==
  /\ Runs(t, "up")
  /\ IF value # 0
     THEN Panic /\ UNCHANGED waiters
     ELSE IF list_empty(waiters)
     THEN NoSwitch /\ UNCHANGED waiters
     ELSE thread_unblock(popped(waiters)) /\ waiters' = list_pop(waiters)
  /\ value' = value + 1
  /\ Goto(t, "run")
  /\ UNCHANGED <<holder, holder_repeat_num>>

timer == intr_timer_handler /\ UNCHANGED consoleVars

ThreadStep(t) ==
  \/ lock_acquire(t) \/ semaphore_down(t) \/ semaphore_wait(t)
  \/ semaphore_woken(t) \/ semaphore_take(t)
  \/ lock_acquire_holder(t) \/ lock_acquire_repeat(t)
  \/ lock_release(t) \/ lock_release_repeat(t) \/ semaphore_up(t)

ConsoleNext ==
  \/ main_enables \/ \E t \in Printer : main_starts(t)
  \/ \E t \in Printer : ThreadStep(t)
  \/ timer

ConsoleSpec == ConsoleInit /\ [][ConsoleNext]_vars

(***************************************************************************)
(* The CPU executes the running thread between two ticks, however often    *)
(* the thread is preempted; a tick that comes while interrupts are         *)
(* disabled stays pending in the PIC until they are enabled.  A thread     *)
(* does not nest its calls for ever: the release that frees the lock comes. *)
(***************************************************************************)
lock_release_last(t) == lock_release(t) /\ holder_repeat_num = 1

Fairness ==
  /\ WF_vars(main_enables)
  /\ SF_vars(timer)
  /\ \A t \in Printer : SF_vars(ThreadStep(t)) /\ SF_vars(lock_release_last(t))

FairSpec == ConsoleSpec /\ Fairness

-----------------------------------------------------------------------------
ConsoleTypeOK ==
  /\ ThreadsTypeOK
  /\ pc \in [Thread -> PC]
  /\ value \in 0..255
  /\ waiters \in Seq(Thread)
  /\ holder \in Thread \cup {NULL}
  /\ holder_repeat_num \in 0..MaxDepth

\* No ASSERT of thread.c and sync.c on the way of a console call can fail:
\* list membership before every link, the binary semaphore, the repeat count,
\* and a ready list that is never empty when a thread blocks.
NoPanic == ~panicked

\* The semaphore's unit is either in value or with exactly one thread, which
\* is the holder as long as holder says so.
OneOwner ==
  /\ \A s, t \in Thread : pc[s] \in Owning /\ pc[t] \in Owning => s = t
  /\ value = IF \E t \in Thread : pc[t] \in Owning THEN 0 ELSE 1
  /\ \A t \in Thread : holder = t <=> pc[t] \in {"held", "crit"}
  /\ holder_repeat_num > 0 <=> \E t \in Thread : pc[t] \in {"crit", "rel"}

\* waiters and thread_ready_list link the threads through the same
\* general_tag: the blocked threads are on waiters, once, and on no other list.
WaitersExact ==
  /\ LinkedOnce(waiters)
  /\ \A t \in Thread : list_find(waiters, t) <=> status[t] = "TASK_BLOCKED"
  /\ \A t \in Thread : ~(list_find(waiters, t) /\ list_find(thread_ready_list, t))

\* While the lock is free and threads wait for it, one of them has been woken
\* and will test value again.
NoLostWakeup ==
  value = 1 /\ ~list_empty(waiters) =>
    \E t \in Printer : pc[t] = "loop" /\ status[t] \notin Blocking

\* Whoever is put on the CPU, by a tick, by another thread that blocks or for
\* the first time, finds the interrupt flag as the code it resumes has left it:
\* thread_block restores the status of semaphore_down, which is off, and iret
\* and kernel_thread enable interrupts.  The threads inside thread_block are the
\* ones in the loop of semaphore_down, and main never gets there.
Resumable ==
  /\ intr <=> pc[current] \notin {"boot", "loop"}
  /\ \A t \in Thread : t \in in_block => pc[t] = "loop"
  /\ \A t \in Thread : pc[t] = "loop" => t = current \/ t \in in_block
  /\ \A t \in Thread : pc[t] \in {"boot", "spin"} <=> t = main
  /\ \A t \in Thread : status[t] \in {"none", "TASK_READY", "TASK_RUNNING", "TASK_BLOCKED"}
  /\ \A t \in Thread : status[t] = "none" => pc[t] = "run"
  /\ status[main] # "none"
  /\ pc[main] = "boot" => current = main /\ \A t \in Printer : pc[t] = "run"

ConsoleInv ==
  /\ ConsoleTypeOK
  /\ SchedInv
  /\ NoPanic
  /\ OneOwner
  /\ WaitersExact
  /\ NoLostWakeup
  /\ Resumable

\* The lock as its callers see it: owned from the step that takes the
\* semaphore to the step that gives it back.  p is pc, n holder_repeat_num.
OwnerAt(p) == IF \E t \in Thread : p[t] \in Owning
              THEN CHOOSE t \in Thread : p[t] \in Owning ELSE NULL
CountAt(p, n) == IF OwnerAt(p) = NULL THEN 0
                 ELSE IF p[OwnerAt(p)] = "crit" THEN n ELSE 1

owner == OwnerAt(pc)
count == CountAt(pc, holder_repeat_num)

Lock == INSTANCE ReentrantLock WITH NoThread <- NULL

\* The lock of sync.c implements a reentrant lock.
LockImplemented == Lock!LockSpec

\* A runnable thread gets the CPU: the timer preempts whoever runs, and a
\* thread pushed to the front by a wake-up cannot keep the others off it.
ReadyRuns ==
  \A t \in Thread : status[t] = "TASK_READY" ~> status[t] = "TASK_RUNNING"

\* The console never stays taken: its owner is scheduled again, also after
\* having been preempted with the lock, and gives it up.
ConsoleFreed == value = 0 ~> value = 1

=============================================================================
