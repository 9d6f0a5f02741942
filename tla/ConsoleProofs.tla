---------------------------- MODULE ConsoleProofs ----------------------------
(***************************************************************************)
(* Proofs about the console and its lock, for any number of printers:      *)
(* ConsoleInv is inductive, so no ASSERT on the way of a console call      *)
(* fails, one thread at a time has the console, and no wake-up is lost.    *)
(***************************************************************************)
EXTENDS Console, ThreadsProofs

\* ConsoleInv includes the invariant of the thread component.
LEMMA ConsoleThreadsInv == ConsoleInv => ThreadsInv
  BY DEF ConsoleInv, ConsoleTypeOK, ThreadsInv

\* Which threads are off the CPU for good until woken, or not created yet.
SameStandstill ==
  \A t \in Thread :
    /\ status'[t] \in {"TASK_RUNNING", "TASK_READY"}
         <=> status[t] \in {"TASK_RUNNING", "TASK_READY"}
    /\ status'[t] \notin {"TASK_RUNNING", "TASK_READY"} => status'[t] = status[t]

\* The timer interrupt moves the CPU between runnable threads, never panics,
\* and leaves interrupts disabled only in a thread that was in thread_block.
LEMMA TimerEffect ==
  ASSUME ThreadsInv, intr_timer_handler
  PROVE  /\ panicked' = panicked /\ in_block' = in_block
         /\ intr' <=> current' \notin in_block
         /\ SameStandstill
  <1>1. /\ current \in Thread /\ thread_ready_list \in Seq(Thread)
        /\ status \in [Thread -> TaskStatus] /\ intr /\ current \notin in_block
        /\ status[current] = "TASK_RUNNING"
        /\ ~list_find(thread_ready_list, current)
    BY DEF ThreadsInv, ThreadsTypeOK, SchedInv, OneRunning, ReadyListExact,
           ResumePoints, intr_timer_handler
  <1>2. CASE ticks[current] # 0
    BY <1>1, <1>2 DEF intr_timer_handler, SameStandstill
  <1>3. CASE ticks[current] = 0
    <2> DEFINE ready == list_append(thread_ready_list, current)
               next == popped(ready)
    <2>1. /\ ready \in Seq(Thread) /\ ready # << >>
          /\ \A x : list_find(ready, x) <=> list_find(thread_ready_list, x) \/ x = current
      BY <1>1, AppendLinks
    <2>2. next \in Thread /\ list_find(ready, next)
      BY <2>1, PopUnlinks DEF list_empty
    <2> HIDE DEF ready
    <2>3. /\ status' = [status EXCEPT ![current] = "TASK_READY", ![next] = "TASK_RUNNING"]
          /\ current' = next /\ in_block' = in_block /\ intr' = (next \notin in_block)
          /\ panicked' = panicked
      BY <1>1, <1>3, <2>1 DEF intr_timer_handler, schedule, switch_to, list_empty, ready
    <2>4. next = current \/ status[next] = "TASK_READY"
      BY <2>1, <2>2 DEF ThreadsInv, SchedInv, ReadyListExact
    <2> HIDE DEF next
    <2> QED BY <1>1, <2>2, <2>3, <2>4 DEF SameStandstill
  <1> QED BY <1>2, <1>3

\* thread_block, with another thread ready, takes exactly the running thread
\* off the CPU and does not panic.
LEMMA BlockEffect ==
  ASSUME ThreadsInv, NEW b \in Blocking, thread_block(b),
         NEW r \in Thread, status[r] = "TASK_READY"
  PROVE  /\ panicked' = panicked /\ in_block' = in_block \cup {current}
         /\ intr' <=> current' \notin in_block'
         /\ current' \in Thread /\ current' # current
         /\ status'[current] = b
         /\ \A t \in Thread \ {current} :
              /\ status'[t] \in {"TASK_RUNNING", "TASK_READY"}
                   <=> status[t] \in {"TASK_RUNNING", "TASK_READY"}
              /\ status'[t] \notin {"TASK_RUNNING", "TASK_READY"} => status'[t] = status[t]
  <1> DEFINE next == popped(thread_ready_list)
             st == [status EXCEPT ![current] = b]
  <1>1. /\ current \in Thread /\ thread_ready_list \in Seq(Thread)
        /\ status \in [Thread -> TaskStatus] /\ status[current] = "TASK_RUNNING"
    BY DEF ThreadsInv, ThreadsTypeOK, SchedInv, OneRunning
  <1>2. st[current] = b /\ b # "TASK_RUNNING"
    BY <1>1 DEF Blocking
  <1>3. list_find(thread_ready_list, r)
    BY DEF ThreadsInv, SchedInv, ReadyListExact
  <1>4. ~list_empty(thread_ready_list)
    BY <1>1, <1>3, EmptyFindsNothing
  <1>5. next \in Thread /\ list_find(thread_ready_list, next)
    BY <1>1, <1>4, PopUnlinks
  <1>6. status[next] = "TASK_READY"
    BY <1>5 DEF ThreadsInv, SchedInv, ReadyListExact
  <1>7. /\ status' = [st EXCEPT ![current] = @, ![next] = "TASK_RUNNING"]
        /\ current' = next /\ in_block' = in_block \cup {current}
        /\ intr' = (next \notin in_block \cup {current})
        /\ panicked' = panicked
    BY <1>2, <1>4 DEF thread_block, schedule, switch_to
  <1>8. next # current
    BY <1>1, <1>6
  <1>9. /\ status'[current] = b
        /\ \A t \in Thread \ {current} :
             status'[t] = IF t = next THEN "TASK_RUNNING" ELSE status[t]
    BY <1>1, <1>5, <1>7, <1>8
  <1> HIDE DEF next, st
  <1> QED BY <1>5, <1>6, <1>7, <1>8, <1>9

\* thread_unblock of a blocked thread makes it ready and does not panic.
LEMMA UnblockEffect ==
  ASSUME ThreadsInv, NEW p \in Thread, status[p] \in Blocking, thread_unblock(p)
  PROVE  /\ status' = [status EXCEPT ![p] = "TASK_READY"]
         /\ UNCHANGED <<current, intr, in_block, panicked>>
  <1>1. ~list_find(thread_ready_list, p)
    BY DEF ThreadsInv, SchedInv, ReadyListExact, Blocking
  <1> QED BY <1>1 DEF thread_unblock

\* thread_start of a PCB never used before does not panic.
LEMMA StartEffect ==
  ASSUME ThreadsInv, NEW n \in Thread, thread_start(n)
  PROVE  /\ status[n] = "none"
         /\ status' = [status EXCEPT ![n] = "TASK_READY"]
         /\ UNCHANGED <<current, intr, in_block, panicked>>
  <1>1. status[n] = "none"
    BY DEF thread_start
  <1>2. ~list_find(thread_ready_list, n) /\ ~list_find(thread_all_list, n)
    BY <1>1 DEF ThreadsInv, SchedInv, ReadyListExact, AllListExact
  <1> QED BY <1>1, <1>2 DEF thread_start

-----------------------------------------------------------------------------
\* The console starts with its lock free, main booting and no thread waiting.
LEMMA ConsoleInitInv == ConsoleInit => ConsoleInv
  <1> SUFFICES ASSUME ConsoleInit PROVE ConsoleInv
    OBVIOUS
  <1>1. ThreadsInv
    BY InitInv DEF ConsoleInit
  <1>2. << >> \in Seq(Thread) /\ LinkedOnce(<< >>) /\ \A t : ~list_find(<< >>, t)
    BY EmptySeq DEF list_find, LinkedOnce, Range, IsInjective
  <1>3. main \in Thread /\ NULL \notin Thread /\ 0 \in 0..MaxDepth
    BY ThreadsAssumption, ConsoleAssumption
  <1>4. pc \in [Thread -> PC]
    BY DEF ConsoleInit, PC
  <1>5. OneOwner
    BY <1>3 DEF OneOwner, ConsoleInit, Owning
  <1>6. WaitersExact /\ NoLostWakeup
    BY <1>2 DEF WaitersExact, NoLostWakeup, ConsoleInit, ThreadsInit, list_init, list_empty
  <1>7. Resumable
    BY <1>3 DEF Resumable, ConsoleInit, ThreadsInit, Printer
  <1> QED BY <1>1, <1>2, <1>3, <1>4, <1>5, <1>6, <1>7
          DEF ConsoleInv, ConsoleTypeOK, ThreadsInv, ConsoleInit, ThreadsInit,
              NoPanic, list_init

-----------------------------------------------------------------------------
\* A running printer is no longer booting, and main has left the boot.
LEMMA PrinterRuns ==
  ASSUME ConsoleInv, NEW t \in Printer, t = current
  PROVE  /\ t \in Thread /\ t # main
         /\ pc[t] \notin {"boot", "spin"} /\ pc[main] # "boot"
         /\ status[t] = "TASK_RUNNING"
  BY ThreadsAssumption
     DEF ConsoleInv, ConsoleTypeOK, ThreadsTypeOK, SchedInv, OneRunning, Resumable, Printer

\* A step that leaves the threads, the semaphore and the waiters alone and
\* moves pc between two points with interrupts enabled keeps what ConsoleInv
\* says of them.
LEMMA LocalStep ==
  ASSUME ConsoleInv, NEW t \in Printer, t = current, NEW to \in PC,
         pc[t] \notin {"loop"}, to \notin {"boot", "spin", "loop"},
         pc' = [pc EXCEPT ![t] = to],
         NoSwitch, UNCHANGED <<value, waiters>>
  PROVE  /\ ThreadsInv' /\ NoPanic' /\ WaitersExact' /\ NoLostWakeup' /\ Resumable'
         /\ pc' \in [Thread -> PC] /\ value' \in 0..255 /\ waiters' \in Seq(Thread)
  <1>1. ThreadsInv'
    BY ConsoleThreadsInv, NextInv DEF NoSwitch
  <1>2. NoPanic' /\ WaitersExact'
    BY DEF ConsoleInv, NoPanic, WaitersExact, NoSwitch, threadVars
  <1>3. pc \in [Thread -> PC] /\ t \in Thread /\ t # main
    BY PrinterRuns DEF ConsoleInv, ConsoleTypeOK
  <1>4. /\ \A s \in Thread : s # t => pc'[s] = pc[s]
        /\ pc'[t] = to
    BY <1>3
  <1>5. NoLostWakeup'
    BY <1>3, <1>4 DEF ConsoleInv, NoLostWakeup, NoSwitch, threadVars, Printer
  <1>6. Resumable'
    BY <1>3, <1>4, PrinterRuns
       DEF ConsoleInv, Resumable, NoSwitch, threadVars, Printer
  <1> QED BY <1>1, <1>2, <1>3, <1>5, <1>6 DEF ConsoleInv, ConsoleTypeOK

\* One thread moves to another point and the lock's fields change with it:
\* what OneOwner says of them survives.
LEMMA OwnerStep ==
  ASSUME OneOwner, NEW t \in Thread, NEW to,
         NULL \notin Thread, holder_repeat_num \in Nat,
         \A s \in Thread : pc'[s] = IF s = t THEN to ELSE pc[s],
         to \in Owning => \A s \in Thread : s # t => pc[s] \notin Owning,
         value' = IF to \in Owning THEN 0 ELSE IF pc[t] \in Owning THEN 1 ELSE value,
         holder' = IF to \in {"held", "crit"} THEN t
                   ELSE IF pc[t] \in {"held", "crit"} THEN NULL ELSE holder,
         holder_repeat_num' \in Nat,
         to \in {"crit", "rel"} => holder_repeat_num' > 0,
         to \notin {"crit", "rel"} =>
           holder_repeat_num' = IF pc[t] \in {"crit", "rel"} THEN 0 ELSE holder_repeat_num
  PROVE  OneOwner'
  <1>1. \A r, s \in Thread : pc[r] \in Owning /\ pc[s] \in Owning => r = s
    BY DEF OneOwner
  <1>2. {"held", "crit"} \subseteq Owning /\ {"crit", "rel"} \subseteq Owning
    BY DEF Owning
  <1>3. (\A r, s \in Thread : pc[r] \in Owning /\ pc[s] \in Owning => r = s)'
    BY <1>1 DEF Owning
  <1>4. (value = IF \E s \in Thread : pc[s] \in Owning THEN 0 ELSE 1)'
    <2>1. value = IF \E s \in Thread : pc[s] \in Owning THEN 0 ELSE 1
      BY DEF OneOwner
    <2>2. CASE to \in Owning
      BY <2>2 DEF Owning
    <2>3. CASE to \notin Owning /\ pc[t] \in Owning
      BY <1>1, <2>3 DEF Owning
    <2>4. CASE to \notin Owning /\ pc[t] \notin Owning
      BY <2>1, <2>4 DEF Owning
    <2> QED BY <2>2, <2>3, <2>4
  <1>5. (\A s \in Thread : holder = s <=> pc[s] \in {"held", "crit"})'
    <2>1. \A s \in Thread : holder = s <=> pc[s] \in {"held", "crit"}
      BY DEF OneOwner
    <2>2. CASE to \in {"held", "crit"}
      BY <1>2, <2>2
    <2>3. CASE to \notin {"held", "crit"} /\ pc[t] \in {"held", "crit"}
      BY <1>1, <1>2, <2>3
    <2>4. CASE to \notin {"held", "crit"} /\ pc[t] \notin {"held", "crit"}
      BY <2>1, <2>4
    <2> QED BY <2>2, <2>3, <2>4
  <1>6. (holder_repeat_num > 0 <=> \E s \in Thread : pc[s] \in {"crit", "rel"})'
    <2>1. holder_repeat_num > 0 <=> \E s \in Thread : pc[s] \in {"crit", "rel"}
      BY DEF OneOwner
    <2>2. CASE to \in {"crit", "rel"}
      BY <2>2
    <2>3. CASE to \notin {"crit", "rel"} /\ pc[t] \in {"crit", "rel"}
      BY <1>1, <1>2, <2>3
    <2>4. CASE to \notin {"crit", "rel"} /\ pc[t] \notin {"crit", "rel"}
      BY <2>1, <2>4
    <2> QED BY <2>2, <2>3, <2>4
  <1> QED BY <1>3, <1>4, <1>5, <1>6 DEF OneOwner

\* lock_acquire: the holder counts, any other thread goes to the semaphore.
LEMMA AcquireInv ==
  ASSUME ConsoleInv, NEW t \in Printer, lock_acquire(t)
  PROVE  ConsoleInv'
  <1> DEFINE Kept == /\ ThreadsInv' /\ NoPanic' /\ WaitersExact' /\ NoLostWakeup'
                     /\ Resumable' /\ pc' \in [Thread -> PC]
                     /\ value' \in 0..255 /\ waiters' \in Seq(Thread)
  <1>1. /\ t = current /\ pc \in [Thread -> PC] /\ t \in Thread /\ MaxDepth \in Nat
        /\ holder_repeat_num \in 0..MaxDepth
        /\ pc[t] \in {"run", "crit"}
    BY PrinterRuns, ConsoleAssumption DEF lock_acquire, Runs, ConsoleInv, ConsoleTypeOK
  <1>2. holder = t <=> pc[t] = "crit"
    BY <1>1 DEF ConsoleInv, OneOwner
  <1>3. OneOwner /\ NULL \notin Thread /\ holder_repeat_num \in Nat
    BY <1>1, ConsoleAssumption DEF ConsoleInv
  <1>4. /\ value = IF pc[t] \in Owning THEN 0 ELSE value
        /\ pc[t] \in Owning => \A s \in Thread : s # t => pc[s] \notin Owning
    BY <1>1 DEF ConsoleInv, OneOwner
  <1>5. holder \in Thread \cup {NULL} /\ holder_repeat_num \in 0..MaxDepth
    BY DEF ConsoleInv, ConsoleTypeOK
  <1>6. CASE pc[t] = "crit"
    <2>1. /\ pc' = [pc EXCEPT ![t] = "crit"] /\ NoSwitch
          /\ holder_repeat_num' = holder_repeat_num + 1 /\ holder_repeat_num < MaxDepth
          /\ UNCHANGED <<value, waiters, holder>>
      BY <1>2, <1>6 DEF lock_acquire, Runs, Goto
    <2>2. pc' = pc
      BY <1>1, <1>6, <2>1
    <2>3. OneOwner'
      BY <1>1, <1>2, <1>6, <1>3, <1>4, <2>1, <2>2, OwnerStep
    <2>4. Kept
      BY <1>1, <1>6, <2>1, LocalStep DEF PC
    <2>5. holder_repeat_num' \in 0..MaxDepth
      BY <1>1, <2>1
    <2> QED BY <2>1, <2>2, <2>3, <2>4, <2>5, <1>5 DEF ConsoleInv, ConsoleTypeOK, ThreadsInv
  <1>7. CASE pc[t] = "run"
    <2>1. /\ pc' = [pc EXCEPT ![t] = "down"] /\ NoSwitch
          /\ UNCHANGED <<value, waiters, holder, holder_repeat_num>>
      BY <1>2, <1>7 DEF lock_acquire, Runs, Goto
    <2>2. \A s \in Thread : pc'[s] = IF s = t THEN "down" ELSE pc[s]
      BY <1>1, <2>1
    <2>3. OneOwner'
      BY <1>1, <1>2, <1>7, <1>3, <1>4, <2>1, <2>2, OwnerStep DEF Owning
    <2>4. Kept
      BY <1>1, <1>7, <2>1, LocalStep DEF PC
    <2> QED BY <2>1, <2>3, <2>4, <1>5 DEF ConsoleInv, ConsoleTypeOK, ThreadsInv
  <1> QED BY <1>1, <1>6, <1>7

\* The two assignments of lock_acquire, after the semaphore was taken.
LEMMA HolderInv ==
  ASSUME ConsoleInv, NEW t \in Printer,
         lock_acquire_holder(t) \/ lock_acquire_repeat(t)
  PROVE  ConsoleInv'
  <1> DEFINE Kept == /\ ThreadsInv' /\ NoPanic' /\ WaitersExact' /\ NoLostWakeup'
                     /\ Resumable' /\ pc' \in [Thread -> PC]
                     /\ value' \in 0..255 /\ waiters' \in Seq(Thread)
  <1>1. /\ t = current /\ pc \in [Thread -> PC] /\ t \in Thread
        /\ MaxDepth \in Nat \ {0} /\ NULL \notin Thread
        /\ pc[t] \in {"got", "held"}
    BY PrinterRuns, ConsoleAssumption
       DEF lock_acquire_holder, lock_acquire_repeat, Runs, ConsoleInv, ConsoleTypeOK
  <1>2. \A s \in Thread : s # t => pc[s] \notin Owning
    BY <1>1 DEF ConsoleInv, OneOwner, Owning
  <1>3. OneOwner /\ value = 0 /\ holder_repeat_num \in Nat
    BY <1>1, ConsoleAssumption DEF ConsoleInv, ConsoleTypeOK, OneOwner, Owning
  <1>4. holder \in Thread \cup {NULL} /\ holder_repeat_num \in 0..MaxDepth
    BY DEF ConsoleInv, ConsoleTypeOK
  <1>5. CASE lock_acquire_holder(t)
    <2>1. /\ pc[t] = "got" /\ pc' = [pc EXCEPT ![t] = "held"] /\ NoSwitch
          /\ holder' = t /\ UNCHANGED <<value, waiters, holder_repeat_num>>
      BY <1>5 DEF lock_acquire_holder, Runs, Goto
    <2>2. \A s \in Thread : pc'[s] = IF s = t THEN "held" ELSE pc[s]
      BY <1>1, <2>1
    <2>3. OneOwner'
      BY <1>1, <1>2, <2>1, <2>2, <1>3, OwnerStep DEF Owning
    <2>4. Kept
      BY <1>1, <2>1, LocalStep DEF PC
    <2> QED BY <1>1, <2>1, <2>3, <2>4, <1>4 DEF ConsoleInv, ConsoleTypeOK, ThreadsInv
  <1>6. CASE lock_acquire_repeat(t)
    <2>1. pc[t] = "held" /\ holder = t /\ holder_repeat_num = 0
      <3>1. pc[t] = "held"
        BY <1>6 DEF lock_acquire_repeat, Runs
      <3>2. ~ \E s \in Thread : pc[s] \in {"crit", "rel"}
        BY <1>1, <1>2, <3>1 DEF Owning
      <3> QED BY <1>1, <3>1, <3>2 DEF ConsoleInv, OneOwner, ConsoleTypeOK
    <2>2. /\ pc' = [pc EXCEPT ![t] = "crit"] /\ NoSwitch
          /\ holder_repeat_num' = 1 /\ UNCHANGED <<value, waiters, holder>>
      BY <1>6, <2>1 DEF lock_acquire_repeat, Runs, Goto
    <2>3. \A s \in Thread : pc'[s] = IF s = t THEN "crit" ELSE pc[s]
      BY <1>1, <2>2
    <2>4. OneOwner'
      BY <1>1, <1>2, <2>1, <2>2, <2>3, <1>3, OwnerStep DEF Owning
    <2>5. Kept
      BY <1>1, <2>1, <2>2, LocalStep DEF PC
    <2>6. 1 \in 0..MaxDepth
      BY <1>1
    <2> QED BY <2>2, <2>4, <2>5, <2>6, <1>4 DEF ConsoleInv, ConsoleTypeOK, ThreadsInv
  <1> QED BY <1>5, <1>6

\* lock_release before semaphore_up.
LEMMA ReleaseInv ==
  ASSUME ConsoleInv, NEW t \in Printer,
         lock_release(t) \/ lock_release_repeat(t)
  PROVE  ConsoleInv'
  <1> DEFINE Kept == /\ ThreadsInv' /\ NoPanic' /\ WaitersExact' /\ NoLostWakeup'
                     /\ Resumable' /\ pc' \in [Thread -> PC]
                     /\ value' \in 0..255 /\ waiters' \in Seq(Thread)
  <1>1. /\ t = current /\ pc \in [Thread -> PC] /\ t \in Thread
        /\ MaxDepth \in Nat \ {0} /\ NULL \notin Thread
        /\ holder_repeat_num \in 0..MaxDepth
        /\ pc[t] \in {"crit", "rel"}
    BY PrinterRuns, ConsoleAssumption
       DEF lock_release, lock_release_repeat, Runs, ConsoleInv, ConsoleTypeOK
  <1>2. \A s \in Thread : s # t => pc[s] \notin Owning
    BY <1>1 DEF ConsoleInv, OneOwner, Owning
  <1>3. OneOwner /\ value = 0 /\ holder_repeat_num \in Nat
    BY <1>1, ConsoleAssumption DEF ConsoleInv, ConsoleTypeOK, OneOwner, Owning
  <1>4. holder \in Thread \cup {NULL} /\ holder_repeat_num \in 0..MaxDepth
    BY DEF ConsoleInv, ConsoleTypeOK
  <1>5. holder_repeat_num > 0
    BY <1>1 DEF ConsoleInv, OneOwner
  <1>6. CASE lock_release(t)
    <2>1. pc[t] = "crit" /\ holder = t
      BY <1>1, <1>6 DEF lock_release, Runs, ConsoleInv, OneOwner
    <2>2. NoSwitch /\ UNCHANGED <<value, waiters>>
      BY <1>1, <1>5, <1>6, <2>1 DEF lock_release
    <2>3. CASE holder_repeat_num > 1
      <3>1. holder_repeat_num' = holder_repeat_num - 1 /\ UNCHANGED <<pc, holder>>
        BY <1>6, <2>3 DEF lock_release
      <3>2. holder_repeat_num' \in 0..MaxDepth /\ holder_repeat_num' > 0
        BY <1>1, <2>3, <3>1
      <3>3. OneOwner'
        BY <1>1, <1>2, <1>5, <1>3, <2>1, <2>2, <3>1, <3>2, OwnerStep DEF Owning
      <3>4. pc' = [pc EXCEPT ![t] = "crit"]
        BY <1>1, <2>1, <3>1
      <3>5. Kept
        BY <1>1, <2>1, <2>2, <3>4, LocalStep DEF PC
      <3> QED BY <2>2, <3>1, <3>2, <3>3, <3>5, <1>4 DEF ConsoleInv, ConsoleTypeOK, ThreadsInv
    <2>4. CASE ~(holder_repeat_num > 1)
      <3>1. /\ holder' = NULL /\ pc' = [pc EXCEPT ![t] = "rel"]
            /\ UNCHANGED holder_repeat_num
        BY <1>6, <2>4 DEF lock_release, Goto
      <3>2. \A s \in Thread : pc'[s] = IF s = t THEN "rel" ELSE pc[s]
        BY <1>1, <3>1
      <3>3. OneOwner'
        BY <1>1, <1>2, <1>5, <2>1, <2>2, <3>1, <3>2, <1>3, OwnerStep DEF Owning
      <3>4. Kept
        BY <1>1, <2>1, <2>2, <3>1, LocalStep DEF PC
      <3> QED BY <2>2, <3>1, <3>3, <3>4, <1>4 DEF ConsoleInv, ConsoleTypeOK, ThreadsInv
    <2> QED BY <2>3, <2>4
  <1>7. CASE lock_release_repeat(t)
    <2>1. /\ pc[t] = "rel" /\ pc' = [pc EXCEPT ![t] = "up"] /\ NoSwitch
          /\ holder_repeat_num' = 0 /\ UNCHANGED <<value, waiters, holder>>
      BY <1>7 DEF lock_release_repeat, Runs, Goto
    <2>2. \A s \in Thread : pc'[s] = IF s = t THEN "up" ELSE pc[s]
      BY <1>1, <2>1
    <2>3. OneOwner'
      BY <1>1, <1>2, <2>1, <2>2, <1>3, OwnerStep DEF Owning
    <2>4. Kept
      BY <1>1, <2>1, LocalStep DEF PC
    <2>5. 0 \in 0..MaxDepth
      BY <1>1
    <2> QED BY <2>1, <2>3, <2>4, <2>5, <1>4 DEF ConsoleInv, ConsoleTypeOK, ThreadsInv
  <1> QED BY <1>6, <1>7

\* main starts a printer while interrupts are still disabled.
LEMMA MainStartsInv ==
  ASSUME ConsoleInv, NEW t \in Printer, main_starts(t)
  PROVE  ConsoleInv'
  <1>1. /\ main = current /\ pc[main] = "boot" /\ t \in Thread /\ t # main
        /\ thread_start(t) /\ UNCHANGED consoleVars
        /\ status \in [Thread -> TaskStatus]
    BY DEF main_starts, Runs, Printer, ConsoleInv, ConsoleTypeOK, ThreadsTypeOK
  <1>2. /\ status[t] = "none" /\ status' = [status EXCEPT ![t] = "TASK_READY"]
        /\ UNCHANGED <<current, intr, in_block, panicked>>
    BY <1>1, ConsoleThreadsInv, StartEffect
  <1>3. ThreadsInv'
    BY <1>1, ConsoleThreadsInv, StartInv
  <1>4. \A s \in Thread : status'[s] = IF s = t THEN "TASK_READY" ELSE status[s]
    BY <1>1, <1>2
  <1>5. OneOwner' /\ NoPanic'
    BY <1>1, <1>2 DEF ConsoleInv, OneOwner, NoPanic, consoleVars
  <1>6. WaitersExact'
    <2>1. \A s \in Thread : list_find(waiters, s) <=> status'[s] = "TASK_BLOCKED"
      BY <1>2, <1>4 DEF ConsoleInv, WaitersExact
    <2>2. \A s \in Thread : list_find(thread_ready_list', s) <=> status'[s] = "TASK_READY"
      BY <1>3 DEF ThreadsInv, SchedInv, ReadyListExact
    <2> QED BY <1>1, <2>1, <2>2 DEF ConsoleInv, WaitersExact, consoleVars
  <1>7. NoLostWakeup'
    BY <1>1, <1>4 DEF ConsoleInv, NoLostWakeup, consoleVars, Printer, Blocking
  <1>8. Resumable'
    BY <1>1, <1>2, <1>4 DEF ConsoleInv, Resumable, consoleVars
  <1> QED BY <1>1, <1>3, <1>5, <1>6, <1>7, <1>8
          DEF ConsoleInv, ConsoleTypeOK, ThreadsInv, consoleVars

\* Steps that switch the interrupt flag or leave thread_block, and move one
\* thread: what they keep.
LEMMA FlagStep ==
  ASSUME ConsoleInv, NEW t \in Thread, NEW to \in PC, NEW st \in BOOLEAN,
         t = current,
         thread_block_return(st) \/ intr_set_status(st),
         pc' = [pc EXCEPT ![t] = to], UNCHANGED waiters,
         st <=> to # "loop", to # "boot",
         pc[t] \in {"boot", "spin"} <=> to = "spin",
         status[t] # "none",
         pc[t] = "loop" => \/ to = "loop"
                           \/ value' = 0
  PROVE  /\ ThreadsInv' /\ NoPanic' /\ WaitersExact' /\ Resumable'
         /\ UNCHANGED value => NoLostWakeup'
         /\ pc' \in [Thread -> PC] /\ waiters' \in Seq(Thread)
  <1>1. ThreadsInv'
    BY ConsoleThreadsInv, FlagInv
  <1>2. /\ intr' = st /\ panicked' = FALSE
        /\ in_block' = in_block \ {current}
        /\ UNCHANGED <<current, status, thread_ready_list>>
    BY DEF thread_block_return, intr_set_status
  <1>3. pc \in [Thread -> PC] /\ waiters \in Seq(Thread)
    BY DEF ConsoleInv, ConsoleTypeOK
  <1>4. \A s \in Thread : pc'[s] = IF s = t THEN to ELSE pc[s]
    BY <1>3
  <1>5. NoPanic' /\ WaitersExact'
    BY <1>2 DEF NoPanic, ConsoleInv, WaitersExact
  <1>6. Resumable'
    BY <1>2, <1>4 DEF ConsoleInv, Resumable, Printer
  <1>7. ASSUME UNCHANGED value PROVE NoLostWakeup'
    BY <1>2, <1>4, <1>7 DEF ConsoleInv, NoLostWakeup, Printer
  <1> QED BY <1>1, <1>3, <1>5, <1>6, <1>7

\* main enables interrupts and spins.
LEMMA MainEnablesInv ==
  ASSUME ConsoleInv, main_enables
  PROVE  ConsoleInv'
  <1>1. /\ main \in Thread /\ main = current /\ pc[main] = "boot"
        /\ intr_set_status(TRUE) /\ pc' = [pc EXCEPT ![main] = "spin"]
        /\ UNCHANGED <<value, waiters, holder, holder_repeat_num>>
        /\ status[main] # "none" /\ pc \in [Thread -> PC]
    BY ThreadsAssumption
       DEF main_enables, Runs, Goto, ConsoleInv, ConsoleTypeOK, Resumable
  <1>2. /\ ThreadsInv' /\ NoPanic' /\ WaitersExact' /\ Resumable' /\ NoLostWakeup'
        /\ pc' \in [Thread -> PC] /\ waiters' \in Seq(Thread)
    BY <1>1, FlagStep DEF PC
  <1>3. \A s \in Thread : pc'[s] = IF s = main THEN "spin" ELSE pc[s]
    BY <1>1
  <1>4. NULL \notin Thread /\ holder_repeat_num \in Nat
    BY ConsoleAssumption DEF ConsoleInv, ConsoleTypeOK
  <1>5. OneOwner'
    BY <1>1, <1>3, <1>4, OwnerStep DEF ConsoleInv, Owning
  <1> QED BY <1>1, <1>2, <1>5 DEF ConsoleInv, ConsoleTypeOK, ThreadsInv

\* semaphore_down up to its while, and the return of thread_block into it.
LEMMA DownInv ==
  ASSUME ConsoleInv, NEW t \in Printer, semaphore_down(t) \/ semaphore_woken(t)
  PROVE  ConsoleInv'
  <1>1. /\ t \in Thread /\ t = current /\ status[t] # "none"
        /\ pc[t] \in {"down", "loop"}
        /\ thread_block_return(FALSE) \/ intr_set_status(FALSE)
        /\ pc \in [Thread -> PC]
        /\ UNCHANGED <<value, waiters, holder, holder_repeat_num>>
    BY PrinterRuns DEF semaphore_down, semaphore_woken, Runs, consoleVars,
                       ConsoleInv, ConsoleTypeOK
  <1>2. pc' = [pc EXCEPT ![t] = "loop"]
    BY <1>1 DEF semaphore_down, semaphore_woken, Runs, Goto, consoleVars
  <1>3. /\ ThreadsInv' /\ NoPanic' /\ WaitersExact' /\ Resumable' /\ NoLostWakeup'
        /\ pc' \in [Thread -> PC] /\ waiters' \in Seq(Thread)
    BY <1>1, <1>2, FlagStep DEF PC
  <1>4. \A s \in Thread : pc'[s] = IF s = t THEN "loop" ELSE pc[s]
    BY <1>1, <1>2
  <1>5. NULL \notin Thread /\ holder_repeat_num \in Nat
    BY ConsoleAssumption DEF ConsoleInv, ConsoleTypeOK
  <1>6. OneOwner'
    BY <1>1, <1>4, <1>5, OwnerStep DEF ConsoleInv, Owning
  <1> QED BY <1>1, <1>3, <1>6 DEF ConsoleInv, ConsoleTypeOK, ThreadsInv

\* semaphore_down takes the only unit.
LEMMA TakeInv ==
  ASSUME ConsoleInv, NEW t \in Printer, semaphore_take(t)
  PROVE  ConsoleInv'
  <1>1. value = 1 /\ \A s \in Thread : pc[s] \notin Owning
    BY DEF semaphore_take, ConsoleInv, OneOwner
  <1>2. /\ t \in Thread /\ t = current /\ status[t] # "none" /\ pc[t] = "loop"
        /\ pc \in [Thread -> PC] /\ value' = 0
        /\ intr_set_status(TRUE)
        /\ pc' = [pc EXCEPT ![t] = "got"]
        /\ UNCHANGED <<waiters, holder, holder_repeat_num>>
    <2>1. t = current /\ pc[t] = "loop" /\ value' = value - 1
      BY DEF semaphore_take, Runs
    <2>2. value' = 0
      BY <1>1, <2>1
    <2>3. t \in Thread /\ status[t] # "none"
      BY <2>1, PrinterRuns
    <2>4. pc \in [Thread -> PC]
      BY DEF ConsoleInv, ConsoleTypeOK
    <2> QED BY <2>1, <2>2, <2>3, <2>4 DEF semaphore_take, Goto
  <1>3. /\ ThreadsInv' /\ NoPanic' /\ WaitersExact' /\ Resumable'
        /\ pc' \in [Thread -> PC] /\ waiters' \in Seq(Thread)
    BY <1>2, FlagStep DEF PC
  <1>4. \A s \in Thread : pc'[s] = IF s = t THEN "got" ELSE pc[s]
    BY <1>2
  <1>5. NULL \notin Thread /\ holder_repeat_num \in Nat
    BY ConsoleAssumption DEF ConsoleInv, ConsoleTypeOK
  <1>6. OneOwner'
    BY <1>1, <1>2, <1>4, <1>5, OwnerStep DEF ConsoleInv, Owning
  <1>7. NoLostWakeup'
    BY <1>2 DEF NoLostWakeup
  <1> QED BY <1>2, <1>3, <1>6, <1>7 DEF ConsoleInv, ConsoleTypeOK, ThreadsInv

\* main spins, so it is ready whenever a printer runs: the ready list is never
\* empty when a printer blocks.
LEMMA MainReady ==
  ASSUME ConsoleInv, NEW t \in Printer, t = current
  PROVE  main \in Thread /\ status[main] = "TASK_READY"
  <1>1. main \in Thread /\ main # t /\ t \in Thread
    BY ThreadsAssumption DEF Printer
  <1>2. status[main] \in TaskStatus /\ status[main] # "none"
    BY <1>1 DEF ConsoleInv, ConsoleTypeOK, ThreadsTypeOK, Resumable
  <1>3. status[main] # "TASK_RUNNING"
    BY <1>1 DEF ConsoleInv, SchedInv, OneRunning
  <1>4. status[main] \notin Blocking
    BY <1>1 DEF ConsoleInv, SchedInv, ResumePoints, Resumable
  <1> QED BY <1>1, <1>2, <1>3, <1>4 DEF TaskStatus

\* semaphore_down finds no unit, and the thread joins waiters and blocks.
LEMMA WaitInv ==
  ASSUME ConsoleInv, NEW t \in Printer, semaphore_wait(t)
  PROVE  ConsoleInv'
  <1>1. /\ t \in Thread /\ t = current /\ status[t] = "TASK_RUNNING" /\ pc[t] = "loop"
        /\ waiters \in Seq(Thread) /\ value = 0 /\ pc[main] # "boot"
        /\ UNCHANGED <<pc, value, holder, holder_repeat_num>>
    BY PrinterRuns DEF semaphore_wait, Runs, ConsoleInv, ConsoleTypeOK
  <1>2. ~list_find(waiters, t)
    BY <1>1 DEF ConsoleInv, WaitersExact
  <1>3. thread_block("TASK_BLOCKED") /\ waiters' = list_append(waiters, t)
    BY <1>2 DEF semaphore_wait
  <1>4. "TASK_BLOCKED" \in Blocking
    BY DEF Blocking
  <1>5. ThreadsInv'
    BY <1>3, <1>4, ConsoleThreadsInv, BlockInv
  <1>6. /\ panicked' = panicked /\ in_block' = in_block \cup {t}
        /\ intr' <=> current' \notin in_block'
        /\ current' \in Thread /\ current' # t
        /\ status'[t] = "TASK_BLOCKED"
        /\ \A s \in Thread \ {t} :
             /\ status'[s] \in {"TASK_RUNNING", "TASK_READY"}
                  <=> status[s] \in {"TASK_RUNNING", "TASK_READY"}
             /\ status'[s] \notin {"TASK_RUNNING", "TASK_READY"} => status'[s] = status[s]
    BY <1>1, <1>3, <1>4, ConsoleThreadsInv, MainReady, BlockEffect
  <1>7. /\ waiters' \in Seq(Thread)
        /\ LinkedOnce(waiters')
        /\ \A x : list_find(waiters', x) <=> list_find(waiters, x) \/ x = t
    BY <1>1, <1>2, <1>3, AppendLinks DEF ConsoleInv, WaitersExact
  <1>8. \A s \in Thread : status'[s] = "TASK_BLOCKED" <=> status[s] = "TASK_BLOCKED" \/ s = t
    BY <1>6
  <1>9. WaitersExact'
    <2>1. \A s \in Thread : list_find(thread_ready_list', s) <=> status'[s] = "TASK_READY"
      BY <1>5 DEF ThreadsInv, SchedInv, ReadyListExact
    <2>2. \A s \in Thread : list_find(waiters', s) <=> status'[s] = "TASK_BLOCKED"
      BY <1>7, <1>8 DEF ConsoleInv, WaitersExact
    <2> QED BY <1>7, <2>1, <2>2 DEF WaitersExact
  <1>10. OneOwner' /\ NoPanic'
    BY <1>1, <1>6 DEF ConsoleInv, OneOwner, NoPanic
  <1>11. NoLostWakeup'
    BY <1>1 DEF NoLostWakeup
  <1>12. Resumable'
    <2>1. intr' <=> pc[current'] \notin {"boot", "loop"}
      <3>1. \A s \in Thread : s # t => (pc[s] = "loop" <=> s \in in_block)
        BY <1>1 DEF ConsoleInv, Resumable
      <3>2. \A s \in Thread : pc[s] = "boot" => s = main
        BY DEF ConsoleInv, Resumable
      <3> QED BY <1>1, <1>6, <3>1, <3>2
    <2>2. \A s \in Thread : s \in in_block' => pc[s] = "loop"
      BY <1>1, <1>6 DEF ConsoleInv, Resumable
    <2>3. \A s \in Thread : pc[s] = "loop" => s \in in_block'
      BY <1>1, <1>6 DEF ConsoleInv, Resumable
    <2>4. /\ \A s \in Thread : status'[s] \in {"none", "TASK_READY", "TASK_RUNNING", "TASK_BLOCKED"}
          /\ \A s \in Thread : status'[s] = "none" => pc[s] = "run"
          /\ status'[main] # "none"
      BY <1>1, <1>6, MainReady DEF ConsoleInv, Resumable
    <2> QED BY <1>1, <2>1, <2>2, <2>3, <2>4 DEF ConsoleInv, Resumable
  <1> QED BY <1>1, <1>5, <1>7, <1>9, <1>10, <1>11, <1>12
          DEF ConsoleInv, ConsoleTypeOK, ThreadsInv

\* semaphore_up returns the unit and wakes the first waiter, if there is one.
LEMMA UpInv ==
  ASSUME ConsoleInv, NEW t \in Printer, semaphore_up(t)
  PROVE  ConsoleInv'
  <1>1. t = current /\ pc[t] = "up"
    BY DEF semaphore_up, Runs
  <1>2. /\ t \in Thread /\ t # main /\ main \in Thread /\ pc[main] # "boot" /\ status[t] = "TASK_RUNNING"
        /\ waiters \in Seq(Thread) /\ pc \in [Thread -> PC]
        /\ status \in [Thread -> TaskStatus]
        /\ NULL \notin Thread /\ holder_repeat_num \in Nat
    BY <1>1, PrinterRuns, ThreadsAssumption, ConsoleAssumption
       DEF ConsoleInv, ConsoleTypeOK, ThreadsTypeOK
  <1>3. value = 0 /\ \A s \in Thread : s # t => pc[s] \notin Owning
    BY <1>1, <1>2 DEF ConsoleInv, OneOwner, Owning
  <1>4. /\ value' = 1 /\ pc' = [pc EXCEPT ![t] = "run"]
        /\ UNCHANGED <<holder, holder_repeat_num>>
    BY <1>3 DEF semaphore_up, Goto
  <1>5. \A s \in Thread : pc'[s] = IF s = t THEN "run" ELSE pc[s]
    BY <1>2, <1>4
  <1>6. OneOwner'
    BY <1>1, <1>2, <1>3, <1>4, <1>5, OwnerStep DEF ConsoleInv, Owning
  <1>7. pc' \in [Thread -> PC]
    BY <1>2, <1>4 DEF PC
  <1>8. CASE list_empty(waiters)
    <2>1. NoSwitch /\ UNCHANGED waiters
      BY <1>3, <1>8 DEF semaphore_up
    <2>2. ThreadsInv'
      BY <2>1, ConsoleThreadsInv, NextInv DEF NoSwitch
    <2>3. NoPanic' /\ WaitersExact' /\ NoLostWakeup'
      BY <1>8, <2>1 DEF ConsoleInv, NoPanic, WaitersExact, NoLostWakeup, NoSwitch, threadVars
    <2>4. Resumable'
      BY <1>1, <1>2, <1>5, <2>1 DEF ConsoleInv, Resumable, NoSwitch, threadVars, Printer
    <2> QED BY <1>2, <1>4, <1>6, <1>7, <2>1, <2>2, <2>3, <2>4
            DEF ConsoleInv, ConsoleTypeOK, ThreadsInv
  <1>9. CASE ~list_empty(waiters)
    <2> DEFINE p == popped(waiters)
    <2>1. thread_unblock(p) /\ waiters' = list_pop(waiters)
      BY <1>3, <1>9 DEF semaphore_up
    <2>2. /\ waiters' \in Seq(Thread) /\ p \in Thread /\ list_find(waiters, p)
          /\ LinkedOnce(waiters')
          /\ \A x : list_find(waiters', x) <=> list_find(waiters, x) /\ x # p
      BY <1>2, <1>9, <2>1, PopUnlinks DEF ConsoleInv, WaitersExact
    <2> HIDE DEF p
    <2>3. status[p] = "TASK_BLOCKED"
      BY <2>2 DEF ConsoleInv, WaitersExact
    <2>4. /\ status' = [status EXCEPT ![p] = "TASK_READY"]
          /\ UNCHANGED <<current, intr, in_block, panicked>>
      BY <2>1, <2>2, <2>3, ConsoleThreadsInv, UnblockEffect DEF Blocking
    <2>5. ThreadsInv'
      BY <2>1, <2>2, ConsoleThreadsInv, UnblockInv
    <2>6. \A s \in Thread : status'[s] = IF s = p THEN "TASK_READY" ELSE status[s]
      BY <1>2, <2>4
    <2>7. p \in in_block /\ pc[p] = "loop" /\ p # t /\ p # main
      BY <1>2, <2>2, <2>3 DEF ConsoleInv, SchedInv, ResumePoints, Resumable, Blocking
    <2>8. WaitersExact'
      <3>1. \A s \in Thread : list_find(thread_ready_list', s) <=> status'[s] = "TASK_READY"
        BY <2>5 DEF ThreadsInv, SchedInv, ReadyListExact
      <3>2. \A s \in Thread : list_find(waiters', s) <=> status'[s] = "TASK_BLOCKED"
        BY <2>2, <2>6 DEF ConsoleInv, WaitersExact
      <3> QED BY <2>2, <3>1, <3>2 DEF WaitersExact
    <2>9. NoLostWakeup'
      <3>1. p \in Printer
        BY <2>2, <2>7 DEF Printer
      <3>2. pc'[p] = "loop" /\ status'[p] \notin Blocking
        BY <1>5, <2>2, <2>6, <2>7 DEF Blocking
      <3> QED BY <3>1, <3>2 DEF NoLostWakeup
    <2>10. NoPanic'
      BY <2>4 DEF ConsoleInv, NoPanic
    <2>11. Resumable'
      BY <1>1, <1>2, <1>5, <2>4, <2>6, <2>7 DEF ConsoleInv, Resumable, Printer
    <2> QED BY <1>2, <1>4, <1>6, <1>7, <2>2, <2>5, <2>8, <2>9, <2>10, <2>11
            DEF ConsoleInv, ConsoleTypeOK, ThreadsInv
  <1> QED BY <1>8, <1>9

\* A tick, with or without a switch, at any point of a console call.
LEMMA TickInv ==
  ASSUME ConsoleInv, timer
  PROVE  ConsoleInv'
  <1>1. intr_timer_handler /\ UNCHANGED consoleVars /\ intr
    BY DEF timer, intr_timer_handler
  <1>2. ThreadsInv'
    BY <1>1, ConsoleThreadsInv, TimerInv
  <1>3. /\ panicked' = panicked /\ in_block' = in_block
        /\ intr' <=> current' \notin in_block
        /\ SameStandstill
    BY <1>1, ConsoleThreadsInv, TimerEffect
  <1>4. /\ current' \in Thread /\ current \in Thread
        /\ main \in Thread /\ status \in [Thread -> TaskStatus]
    BY <1>2, ThreadsAssumption DEF ThreadsInv, ThreadsTypeOK, ConsoleInv, ConsoleTypeOK
  <1>5. OneOwner' /\ NoPanic'
    BY <1>1, <1>3 DEF ConsoleInv, OneOwner, NoPanic, consoleVars
  <1>6. WaitersExact'
    <2>1. \A s \in Thread : list_find(thread_ready_list', s) <=> status'[s] = "TASK_READY"
      BY <1>2 DEF ThreadsInv, SchedInv, ReadyListExact
    <2>2. \A s \in Thread : list_find(waiters, s) <=> status'[s] = "TASK_BLOCKED"
      BY <1>3 DEF ConsoleInv, WaitersExact, SameStandstill
    <2> QED BY <1>1, <2>1, <2>2 DEF ConsoleInv, WaitersExact, consoleVars
  <1>7. NoLostWakeup'
    <2>1. \A s \in Thread : status[s] \notin Blocking => status'[s] \notin Blocking
      BY <1>3 DEF SameStandstill, Blocking
    <2>2. UNCHANGED <<value, waiters, pc>>
      BY <1>1 DEF consoleVars
    <2> QED BY <2>1, <2>2 DEF ConsoleInv, NoLostWakeup, Printer, list_empty
  <1>8. Resumable'
    <2>1. /\ \A s \in Thread : pc[s] = "loop" <=> s \in in_block
          /\ \A s \in Thread : pc[s] # "boot"
      BY <1>1, <1>4 DEF ConsoleInv, Resumable
    <2>2. /\ \A s \in Thread : status'[s] \in {"none", "TASK_READY", "TASK_RUNNING", "TASK_BLOCKED"}
          /\ \A s \in Thread : status'[s] = "none" => pc[s] = "run"
          /\ status'[main] # "none"
      BY <1>3, <1>4 DEF ConsoleInv, Resumable, SameStandstill
    <2> QED BY <1>1, <1>3, <1>4, <2>1, <2>2 DEF ConsoleInv, Resumable, consoleVars
  <1> QED BY <1>1, <1>2, <1>5, <1>6, <1>7, <1>8
          DEF ConsoleInv, ConsoleTypeOK, ThreadsInv, consoleVars

\* Every step of the console's clients, of the lock and of the timer
\* preserves ConsoleInv.
LEMMA ConsoleNextInv == ConsoleInv /\ [ConsoleNext]_vars => ConsoleInv'
  <1> SUFFICES ASSUME ConsoleInv, [ConsoleNext]_vars PROVE ConsoleInv'
    OBVIOUS
  <1>1. CASE main_enables
    BY <1>1, MainEnablesInv
  <1>2. ASSUME NEW t \in Printer, main_starts(t) PROVE ConsoleInv'
    BY <1>2, MainStartsInv
  <1>3. ASSUME NEW t \in Printer, ThreadStep(t) PROVE ConsoleInv'
    BY <1>3, AcquireInv, DownInv, WaitInv, TakeInv, HolderInv, ReleaseInv, UpInv
       DEF ThreadStep
  <1>4. CASE timer
    BY <1>4, TickInv
  <1>5. CASE UNCHANGED vars
    <2>1. UNCHANGED threadVars /\ UNCHANGED consoleVars
      BY <1>5 DEF vars
    <2>2. ConsoleTypeOK'
      BY <2>1 DEF ConsoleInv, ConsoleTypeOK, ThreadsTypeOK, threadVars, consoleVars
    <2>3. SchedInv'
      BY <2>1 DEF ConsoleInv, SchedInv, OneRunning, ReadyListExact, AllListExact,
         ResumePoints, SliceAccounting, threadVars
    <2>4. NoPanic' /\ OneOwner'
      BY <2>1 DEF ConsoleInv, NoPanic, OneOwner, threadVars, consoleVars
    <2>5. WaitersExact' /\ NoLostWakeup'
      BY <2>1 DEF ConsoleInv, WaitersExact, NoLostWakeup, threadVars, consoleVars
    <2>6. Resumable'
      BY <2>1 DEF ConsoleInv, Resumable, threadVars, consoleVars
    <2> QED BY <2>2, <2>3, <2>4, <2>5, <2>6 DEF ConsoleInv
  <1> QED BY <1>1, <1>2, <1>3, <1>4, <1>5 DEF ConsoleNext

-----------------------------------------------------------------------------
\* The inductive invariant of the console, its lock and the threads.
LEMMA ConsoleSafety == ConsoleSpec => []ConsoleInv
  BY ConsoleInitInv, ConsoleNextInv, PTL DEF ConsoleSpec

\* schedule, thread_block and kernel_thread: a thread that gets the CPU finds the
\* interrupt flag as it left it, whoever has run in between.
THEOREM ThreadsResumable == ConsoleSpec => []Resumable
  <1>1. ConsoleInv => Resumable
    BY DEF ConsoleInv
  <1> QED BY <1>1, ConsoleSafety, PTL

\* sync.c's value, holder and repeat count and the threads' places stay in range.
THEOREM ConsoleTypes == ConsoleSpec => []ConsoleTypeOK
  <1>1. ConsoleInv => ConsoleTypeOK
    BY DEF ConsoleInv
  <1> QED BY <1>1, ConsoleSafety, PTL

\* No ASSERT of thread.c and sync.c fails on the way of a console call.
THEOREM ConsoleNeverPanics == ConsoleSpec => []NoPanic
  <1>1. ConsoleInv => NoPanic
    BY DEF ConsoleInv
  <1> QED BY <1>1, ConsoleSafety, PTL

\* lock_acquire and lock_release keep the console to one thread at a time.
THEOREM MutualExclusion == ConsoleSpec => []OneOwner
  <1>1. ConsoleInv => OneOwner
    BY DEF ConsoleInv
  <1> QED BY <1>1, ConsoleSafety, PTL

\* general_tag is on at most one list, and exactly the blocked threads wait.
THEOREM WaitersAreExact == ConsoleSpec => []WaitersExact
  <1>1. ConsoleInv => WaitersExact
    BY DEF ConsoleInv
  <1> QED BY <1>1, ConsoleSafety, PTL

\* A free lock that threads wait for has a woken thread on its way to it.
THEOREM WakeupsReachAThread == ConsoleSpec => []NoLostWakeup
  <1>1. ConsoleInv => NoLostWakeup
    BY DEF ConsoleInv
  <1> QED BY <1>1, ConsoleSafety, PTL

-----------------------------------------------------------------------------
\* The abstract lock's state when a thread owns it.
LEMMA OwnedState ==
  ASSUME NEW p, NEW n, NEW t \in Thread, p[t] \in Owning,
         \A s \in Thread : s # t => p[s] \notin Owning
  PROVE  OwnerAt(p) = t /\ CountAt(p, n) = IF p[t] = "crit" THEN n ELSE 1
  <1>1. (CHOOSE s \in Thread : p[s] \in Owning) = t
    OBVIOUS
  <1>2. OwnerAt(p) = t
    BY <1>1 DEF OwnerAt
  <1>3. t # NULL
    BY ConsoleAssumption
  <1> QED BY <1>2, <1>3 DEF CountAt

\* Nobody owns the lock: the abstract lock is free.
LEMMA FreeState ==
  ASSUME NEW p, NEW n, \A s \in Thread : p[s] \notin Owning
  PROVE  OwnerAt(p) = NULL /\ CountAt(p, n) = 0
  BY DEF OwnerAt, CountAt

\* A step that moves one thread, which owns the lock before and after, or
\* neither before nor after, changes nothing for the abstract lock but what
\* the count says.
LEMMA SameOwner ==
  ASSUME OneOwner, NEW t \in Thread, NEW to,
         \A s \in Thread : pc'[s] = IF s = t THEN to ELSE pc[s],
         pc[t] \notin Owning, to \notin Owning, UNCHANGED holder_repeat_num
  PROVE  UNCHANGED <<owner, count>>
  <1>1. CASE \E o \in Thread : pc[o] \in Owning
    <2>1. PICK o \in Thread : pc[o] \in Owning
      BY <1>1
    <2>2. \A s \in Thread : s # o => pc[s] \notin Owning
      BY <2>1 DEF OneOwner
    <2>3. /\ pc'[o] = pc[o]
          /\ \A s \in Thread : s # o => pc'[s] \notin Owning
      BY <2>1, <2>2
    <2>4. owner = o /\ count = IF pc[o] = "crit" THEN holder_repeat_num ELSE 1
      BY <2>1, <2>2, OwnedState DEF owner, count
    <2>5. owner' = o /\ count' = IF pc'[o] = "crit" THEN holder_repeat_num' ELSE 1
      BY <2>1, <2>3, OwnedState DEF owner, count
    <2> QED BY <2>3, <2>4, <2>5
  <1>2. CASE \A o \in Thread : pc[o] \notin Owning
    <2>1. owner = NULL /\ count = 0
      BY <1>2, FreeState DEF owner, count
    <2>2. \A s \in Thread : pc'[s] \notin Owning
      BY <1>2
    <2>3. owner' = NULL /\ count' = 0
      BY <2>2, FreeState DEF owner, count
    <2> QED BY <2>1, <2>3
  <1> QED BY <1>1, <1>2

\* Every step of a printer is a step of the abstract lock or changes nothing
\* for it: the lock changes hands in semaphore_take and semaphore_up.
LEMMA StepRefines ==
  ASSUME ConsoleInv, NEW t \in Printer, ThreadStep(t)
  PROVE  [Lock!LockNext]_(Lock!lockVars)
  <1> USE DEF Lock!LockNext, Lock!Acquire, Lock!Release, Lock!lockVars
  <1>1. t = current /\ t \in Thread /\ pc \in [Thread -> PC] /\ OneOwner
        /\ holder_repeat_num \in Nat
    <2>1. t = current
      BY DEF ThreadStep, lock_acquire, semaphore_down, semaphore_wait, semaphore_woken,
             semaphore_take, lock_acquire_holder, lock_acquire_repeat, lock_release,
             lock_release_repeat, semaphore_up, Runs
    <2>2. t \in Thread
      BY DEF Printer
    <2>3. pc \in [Thread -> PC] /\ OneOwner /\ holder_repeat_num \in 0..MaxDepth
      BY DEF ConsoleInv, ConsoleTypeOK
    <2>4. holder_repeat_num \in Nat
      BY <2>3, ConsoleAssumption
    <2> QED BY <2>1, <2>2, <2>3, <2>4
  <1>2. pc[t] \in Owning =>
          /\ \A s \in Thread : s # t => pc[s] \notin Owning
          /\ owner = t /\ count = IF pc[t] = "crit" THEN holder_repeat_num ELSE 1
    BY <1>1, OwnedState DEF OneOwner, owner, count
  <1>3. ASSUME NEW to \in Owning, pc[t] \in Owning, pc' = [pc EXCEPT ![t] = to]
        PROVE  owner' = t /\ count' = IF to = "crit" THEN holder_repeat_num' ELSE 1
    <2>1. /\ pc'[t] = to
          /\ \A s \in Thread : s # t => pc'[s] \notin Owning
      BY <1>1, <1>2, <1>3
    <2> QED BY <1>1, <1>3, <2>1, OwnedState DEF owner, count
  <1>4. ASSUME NEW to, to \notin Owning, pc[t] \notin Owning,
               pc' = [pc EXCEPT ![t] = to], UNCHANGED holder_repeat_num
        PROVE  UNCHANGED <<owner, count>>
    <2>1. \A s \in Thread : pc'[s] = IF s = t THEN to ELSE pc[s]
      BY <1>1, <1>4
    <2> QED BY <1>1, <1>4, <2>1, SameOwner
  <1>5. CASE lock_acquire(t)
    <2>1. holder = t <=> pc[t] \in {"held", "crit"}
      BY <1>1 DEF OneOwner
    <2>2. CASE pc[t] = "run"
      <3>1. pc' = [pc EXCEPT ![t] = "down"] /\ UNCHANGED holder_repeat_num
        BY <1>5, <2>1, <2>2 DEF lock_acquire, Goto
      <3>2. UNCHANGED <<owner, count>>
        BY <1>4, <2>2, <3>1 DEF Owning
      <3> QED BY <3>2
    <2>3. CASE pc[t] = "crit"
      <3>1. pc' = [pc EXCEPT ![t] = "crit"] /\ holder_repeat_num' = holder_repeat_num + 1
        BY <1>5, <2>1, <2>3 DEF lock_acquire, Goto
      <3>2. owner' = t /\ count' = holder_repeat_num + 1
        BY <1>3, <2>3, <3>1 DEF Owning
      <3> QED BY <1>1, <1>2, <2>3, <3>2 DEF Owning
    <2> QED BY <1>5, <2>2, <2>3 DEF lock_acquire, Runs
  <1>6. CASE semaphore_down(t) \/ semaphore_woken(t) \/ semaphore_wait(t)
    <2>1. \E to \in {"loop"} : /\ pc[t] \in {"down", "loop"} /\ pc' = [pc EXCEPT ![t] = to]
                              /\ UNCHANGED holder_repeat_num
      BY <1>1, <1>6 DEF semaphore_down, semaphore_woken, semaphore_wait, Runs, Goto, consoleVars
    <2>2. UNCHANGED <<owner, count>>
      BY <1>4, <2>1 DEF Owning
    <2> QED BY <2>2
  <1>7. CASE semaphore_take(t)
    <2>1. /\ pc[t] = "loop" /\ pc' = [pc EXCEPT ![t] = "got"] /\ value # 0
      BY <1>7 DEF semaphore_take, Runs, Goto
    <2>2. \A s \in Thread : pc[s] \notin Owning
      BY <2>1, <1>1 DEF OneOwner
    <2>3. owner = NULL /\ count = 0
      BY <2>2, FreeState DEF owner, count
    <2>4. /\ pc'[t] = "got" /\ "got" \in Owning
          /\ \A s \in Thread : s # t => pc'[s] \notin Owning
      BY <1>1, <2>1, <2>2 DEF Owning
    <2>5. owner' = t /\ count' = 1
      BY <1>1, <2>4, OwnedState DEF owner, count
    <2> QED BY <1>1, <2>3, <2>5
  <1>8. CASE lock_acquire_holder(t) \/ lock_acquire_repeat(t) \/ lock_release_repeat(t)
    <2>1. \/ pc[t] = "got" /\ pc' = [pc EXCEPT ![t] = "held"]
          \/ pc[t] = "held" /\ pc' = [pc EXCEPT ![t] = "crit"] /\ holder_repeat_num' = 1
          \/ pc[t] = "rel" /\ pc' = [pc EXCEPT ![t] = "up"]
      BY <1>8 DEF lock_acquire_holder, lock_acquire_repeat, lock_release_repeat, Runs, Goto
    <2>2. owner' = t /\ count' = 1 /\ owner = t /\ count = 1
      BY <1>2, <1>3, <2>1 DEF Owning
    <2> QED BY <2>2
  <1>9. CASE lock_release(t)
    <2>1. pc[t] = "crit" /\ owner = t /\ count = holder_repeat_num /\ holder_repeat_num > 0
      BY <1>1, <1>2, <1>9 DEF lock_release, Runs, Owning, OneOwner
    <2>2. CASE holder_repeat_num > 1
      <3>1. pc' = [pc EXCEPT ![t] = "crit"] /\ holder_repeat_num' = holder_repeat_num - 1
        BY <1>1, <1>9, <2>1, <2>2 DEF lock_release
      <3>2. owner' = t /\ count' = count - 1
        BY <1>3, <2>1, <3>1 DEF Owning
      <3> QED BY <1>1, <2>1, <2>2, <3>2
    <2>3. CASE ~(holder_repeat_num > 1)
      <3>1. pc' = [pc EXCEPT ![t] = "rel"]
        BY <1>9, <2>3 DEF lock_release, Goto
      <3>2. owner' = t /\ count' = 1
        BY <1>3, <2>1, <3>1 DEF Owning
      <3>3. count = 1
        BY <1>1, <2>1, <2>3
      <3> QED BY <2>1, <3>2, <3>3
    <2> QED BY <2>2, <2>3
  <1>10. CASE semaphore_up(t)
    <2>1. /\ pc[t] = "up" /\ pc' = [pc EXCEPT ![t] = "run"]
      BY <1>10 DEF semaphore_up, Runs, Goto
    <2>2. owner = t /\ count = 1
      BY <1>2, <2>1 DEF Owning
    <2>3. \A s \in Thread : pc'[s] \notin Owning
      BY <1>1, <1>2, <2>1 DEF Owning
    <2>4. owner' = NULL /\ count' = 0
      BY <2>3, FreeState DEF owner, count
    <2> QED BY <1>1, <2>2, <2>4
  <1> QED BY <1>5, <1>6, <1>7, <1>8, <1>9, <1>10 DEF ThreadStep

\* The lock of sync.c, in use by the console, is a reentrant lock.
THEOREM LockIsReentrantLock == ConsoleSpec => LockImplemented
  <1>1. ConsoleInit => Lock!LockInit
    <2> SUFFICES ASSUME ConsoleInit PROVE Lock!LockInit
      OBVIOUS
    <2>1. \A s \in Thread : pc[s] \notin Owning
      BY DEF ConsoleInit, Owning
    <2> QED BY <2>1, FreeState DEF Lock!LockInit, owner, count
  <1>2. ConsoleInv /\ [ConsoleNext]_vars => [Lock!LockNext]_(Lock!lockVars)
    <2> SUFFICES ASSUME ConsoleInv, [ConsoleNext]_vars
                 PROVE  [Lock!LockNext]_(Lock!lockVars)
      OBVIOUS
    <2>1. ASSUME NEW t \in Printer, ThreadStep(t) PROVE [Lock!LockNext]_(Lock!lockVars)
      BY <2>1, StepRefines
    <2>2. CASE main_enables
      <3>1. /\ pc[main] = "boot" /\ main \in Thread
            /\ \A s \in Thread : pc'[s] = IF s = main THEN "spin" ELSE pc[s]
            /\ UNCHANGED holder_repeat_num
        BY <2>2, ThreadsAssumption DEF main_enables, Runs, Goto, ConsoleInv, ConsoleTypeOK
      <3>2. UNCHANGED <<owner, count>>
        BY <3>1, SameOwner DEF ConsoleInv, Owning
      <3> QED BY <3>2 DEF Lock!lockVars
    <2>3. CASE UNCHANGED <<pc, holder_repeat_num>>
      <3>1. UNCHANGED <<owner, count>>
        BY <2>3 DEF owner, count
      <3> QED BY <3>1 DEF Lock!lockVars
    <2>4. ASSUME NEW t \in Printer, main_starts(t) PROVE UNCHANGED <<pc, holder_repeat_num>>
      BY <2>4 DEF main_starts, consoleVars
    <2>5. timer \/ UNCHANGED vars => UNCHANGED <<pc, holder_repeat_num>>
      BY DEF timer, vars, consoleVars
    <2> QED BY <2>1, <2>2, <2>3, <2>4, <2>5 DEF ConsoleNext
  <1> QED BY <1>1, <1>2, ConsoleSafety, PTL DEF ConsoleSpec, LockImplemented, Lock!LockSpec

=============================================================================
