------------------------------- MODULE Threads -------------------------------
(***************************************************************************)
(* Kernel threads of ToiletOS: kernel/thread/thread.c, the timer interrupt *)
(* handler of device/timer.c, the interrupt flag of kernel/interrupt.c and *)
(* switch_to of kernel/switch.S, on the single CPU the kernel runs on.     *)
(*                                                                         *)
(* A step is what happens between two points at which an interrupt can be  *)
(* taken: code between cli and sti, or inside an interrupt gate, is one    *)
(* action, up to and including the switch to another thread.  Clients of   *)
(* the component call its operations in any order the guards allow.        *)
(***************************************************************************)
EXTENDS ListSeq, Integers

CONSTANTS
  Thread,   \* the PCBs that get_kernel_pages can hand out, and main's
  main,     \* the boot thread (main_thread)
  Prio,     \* priority of each thread (uint8_t)
  PicMask   \* what pic_init writes to PIC_M_DATA: bit n set masks IRQ n

ASSUME ThreadsAssumption ==
  /\ main \in Thread
  /\ Prio \in [Thread -> 0..255]
  /\ PicMask \in 0..255

VARIABLES
  current,            \* running_thread(): the PCB of the page esp points into
  intr,               \* EFLAGS.IF
  status,             \* task_struct.status; "none" while there is no PCB
  thread_ready_list,
  thread_all_list,
  ticks,              \* task_struct.ticks
  charged,            \* elaspsed_ticks, counted from the last refill of ticks
  in_block,           \* threads whose saved stack resumes inside thread_block
  panicked            \* panic_spin was reached

threadVars == <<current, intr, status, thread_ready_list, thread_all_list,
                ticks, charged, in_block, panicked>>

\* The statuses thread_block accepts.  No code ever sets TASK_DIED.
Blocking == {"TASK_BLOCKED", "TASK_HANGING", "TASK_WAITTING"}
TaskStatus == {"none", "TASK_RUNNING", "TASK_READY"} \cup Blocking

IrqUnmasked(irq) == (PicMask \div 2^irq) % 2 = 0

-----------------------------------------------------------------------------
\* State after init_all: main runs with interrupts still disabled.
ThreadsInit ==
  /\ current = main
  /\ intr = FALSE
  /\ status = [t \in Thread |-> IF t = main THEN "TASK_RUNNING" ELSE "none"]
  /\ thread_ready_list = list_init
  /\ thread_all_list = list_append(list_init, main)
  /\ ticks = [t \in Thread |-> IF t = main THEN Prio[t] ELSE 0]
  /\ charged = [t \in Thread |-> 0]
  /\ in_block = {}
  /\ panicked = FALSE

\* A failing ASSERT: panic_spin disables interrupts and loops forever.
Panic ==
  /\ panicked' = TRUE
  /\ intr' = FALSE
  /\ UNCHANGED <<current, status, thread_ready_list, thread_all_list, ticks,
                 charged, in_block>>

\* thread_start: a fresh PCB, runnable from kernel_thread, joins both lists.
thread_start(n) ==
  /\ ~panicked /\ ~intr /\ current \notin in_block
  /\ status[n] = "none"
  /\ IF list_find(thread_ready_list, n) \/ list_find(thread_all_list, n)
     THEN Panic
     ELSE /\ status' = [status EXCEPT ![n] = "TASK_READY"]
          /\ ticks' = [ticks EXCEPT ![n] = Prio[n]]
          /\ charged' = [charged EXCEPT ![n] = 0]
          /\ thread_ready_list' = list_append(thread_ready_list, n)
          /\ thread_all_list' = list_append(thread_all_list, n)
          /\ UNCHANGED <<current, intr, in_block, panicked>>

\* switch_to(current, next), after which next's stack is in use.  A thread of
\* blk continues inside thread_block with interrupts still disabled, any other
\* in kernel_thread or intr_exit, which enable interrupts before anything else.
switch_to(next, blk) ==
  /\ current' = next
  /\ in_block' = blk
  /\ intr' = (next \notin blk)

\* Mutant: the next thread is popped first, and the preempted one pushed.
schedule_Pushes(st, blk) ==
  LET preempted == st[current] = "TASK_RUNNING"
      next      == popped(thread_ready_list)
      rest      == list_pop(thread_ready_list)
  IN  /\ ~list_empty(thread_ready_list)
      /\ thread_ready_list' = IF preempted THEN list_push(rest, current) ELSE rest
      /\ status' = [st EXCEPT ![current] = IF preempted THEN "TASK_READY" ELSE @,
                              ![next] = "TASK_RUNNING"]
      /\ switch_to(next, blk)
      /\ UNCHANGED <<ticks, charged, thread_all_list, panicked>>

\* schedule(), entered with statuses st; the threads of blk have left the CPU,
\* or are leaving it now, inside thread_block.
schedule(st, blk) ==
  LET preempted == st[current] = "TASK_RUNNING"
      ready == IF preempted THEN list_append(thread_ready_list, current)
                            ELSE thread_ready_list
      next  == popped(ready)
  IN  IF \/ preempted /\ list_find(thread_ready_list, current)
         \/ list_empty(ready)
      THEN Panic
      ELSE /\ thread_ready_list' = list_pop(ready)
           /\ status' = [st EXCEPT
                           ![current] = IF preempted THEN "TASK_READY" ELSE @,
                           ![next] = "TASK_RUNNING"]
           /\ ticks' = IF preempted THEN [ticks EXCEPT ![current] = Prio[current]]
                                    ELSE ticks
           /\ charged' = IF preempted THEN [charged EXCEPT ![current] = 0]
                                      ELSE charged
           /\ switch_to(next, blk)
           /\ UNCHANGED <<thread_all_list, panicked>>

\* Mutant: the handler charges a thread whose ticks are already used up.
intr_timer_handler_NoZeroTest ==
  /\ ~panicked /\ intr /\ IrqUnmasked(0)
  /\ ticks' = [ticks EXCEPT ![current] = @ - 1]
  /\ charged' = [charged EXCEPT ![current] = @ + 1]
  /\ UNCHANGED <<current, intr, status, thread_ready_list, thread_all_list,
                 in_block, panicked>>

\* IRQ0: charge the running thread, and switch when its ticks are used up.
intr_timer_handler ==
  /\ ~panicked /\ intr /\ IrqUnmasked(0)
  /\ \/ /\ ticks[current] # 0
        /\ ticks' = [ticks EXCEPT ![current] = @ - 1]
        /\ charged' = [charged EXCEPT ![current] = @ + 1]
        /\ UNCHANGED <<current, intr, status, thread_ready_list,
                       thread_all_list, in_block, panicked>>
     \/ /\ ticks[current] = 0
        /\ schedule(status, in_block)

\* thread_block(st), up to the switch.
thread_block(st) ==
  /\ ~panicked /\ current \notin in_block
  /\ schedule([status EXCEPT ![current] = st], in_block \cup {current})

\* The end of thread_block, when the thread has been scheduled again:
\* intr_set_status(old_status).
thread_block_return(old_status) ==
  /\ ~panicked /\ current \in in_block
  /\ in_block' = in_block \ {current}
  /\ intr' = old_status
  /\ UNCHANGED <<current, status, thread_ready_list, thread_all_list, ticks,
                 charged, panicked>>

\* Mutant: the woken thread is linked but keeps its blocked status.
thread_unblock_KeepsStatus(pthread) ==
  /\ ~panicked /\ current \notin in_block
  /\ status[pthread] \in Blocking
  /\ thread_ready_list' = list_push(thread_ready_list, pthread)
  /\ UNCHANGED <<current, intr, status, thread_all_list, ticks, charged,
                 in_block, panicked>>

\* pthread is the PCB of a thread that was created.
thread_unblock(pthread) ==
  /\ ~panicked /\ current \notin in_block
  /\ status[pthread] # "none"
  /\ IF \/ status[pthread] \notin Blocking
        \/ list_find(thread_ready_list, pthread)
     THEN Panic
     ELSE /\ thread_ready_list' = list_push(thread_ready_list, pthread)
          /\ status' = [status EXCEPT ![pthread] = "TASK_READY"]
          /\ UNCHANGED <<current, intr, thread_all_list, ticks, charged,
                         in_block, panicked>>

\* intr_enable and intr_disable, called by the running thread.
intr_set_status(st) ==
  /\ ~panicked /\ current \notin in_block
  /\ intr' = st
  /\ UNCHANGED <<current, status, thread_ready_list, thread_all_list, ticks,
                 charged, in_block, panicked>>

ThreadsNext ==
  \/ intr_timer_handler
  \/ \E t \in Thread : thread_start(t) \/ thread_unblock(t)
  \/ \E st \in Blocking : thread_block(st)
  \/ \E st \in BOOLEAN : thread_block_return(st) \/ intr_set_status(st)

ThreadsSpec == ThreadsInit /\ [][ThreadsNext]_threadVars

-----------------------------------------------------------------------------
ThreadsTypeOK ==
  /\ current \in Thread
  /\ intr \in BOOLEAN
  /\ status \in [Thread -> TaskStatus]
  /\ thread_ready_list \in Seq(Thread)
  /\ thread_all_list \in Seq(Thread)
  /\ ticks \in [Thread -> 0..255]
  /\ charged \in [Thread -> 0..255]
  /\ in_block \subseteq Thread
  /\ panicked \in BOOLEAN

\* Exactly the running thread has status TASK_RUNNING: schedule() and
\* switch_to keep the PCB statuses and the stack in use in step.
OneRunning == \A t \in Thread : status[t] = "TASK_RUNNING" <=> t = current

\* The ready list holds each TASK_READY thread once and nothing else, so no
\* runnable thread is lost and none is linked twice by its general_tag.
ReadyListExact ==
  /\ LinkedOnce(thread_ready_list)
  /\ \A t \in Thread : list_find(thread_ready_list, t) <=> status[t] = "TASK_READY"

\* thread_all_list holds every thread ever created once, whatever it does.
AllListExact ==
  /\ LinkedOnce(thread_all_list)
  /\ \A t \in Thread : list_find(thread_all_list, t) <=> status[t] # "none"

\* A blocked thread can only be resumed where it blocked, and the thread that
\* runs with interrupts enabled has left thread_block.
ResumePoints ==
  /\ \A t \in Thread : status[t] \in Blocking => t \in in_block
  /\ \A t \in in_block : status[t] # "none"
  /\ intr => current \notin in_block

\* What a thread was charged and what it has left add up to its priority:
\* no tick of a slice is lost over preemption, blocking and waking up.
SliceAccounting ==
  \A t \in Thread : status[t] # "none" => charged[t] + ticks[t] = Prio[t]

SchedInv == OneRunning /\ ReadyListExact /\ AllListExact /\ ResumePoints
              /\ SliceAccounting

\* A thread that leaves the CPU without blocking goes behind every thread that
\* is waiting for it: the round robin order of thread_ready_list is kept.
RoundRobin ==
  [][current' # current /\ status'[current] = "TASK_READY"
       => thread_ready_list' = Append(Tail(thread_ready_list), current)]_threadVars

=============================================================================
