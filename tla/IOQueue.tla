------------------------------- MODULE IOQueue -------------------------------
(***************************************************************************)
(* device/ioqueue.c as the keyboard buffer: the keyboard interrupt puts    *)
(* characters into the ring and threads take them out.  The thread         *)
(* component is Threads; its timer interrupt and the keyboard's come       *)
(* between any two steps of a thread that runs with interrupts enabled.    *)
(*                                                                         *)
(* ioqueue.h declares the member lock as a pointer, and every use passes   *)
(* &queue->lock where a struct lock is wanted.  The 28 bytes of that lock  *)
(* lie over the members:                                                   *)
(*    lock.holder               lock                                       *)
(*    lock.semaphore.value      the low byte of producer                   *)
(*    waiters.head.prev         consumer                                   *)
(*    waiters.head.next         buf[0..3]                                  *)
(*    waiters.tail.prev         buf[4..7]                                  *)
(*    waiters.tail.next         buf[8..11]                                 *)
(*    holder_repeat_num         buf[12..15]                                *)
(* A PCB starts a page, so the low byte of producer is 0 whatever producer *)
(* is: the semaphore never has a unit, and no lock_acquire ever returns.   *)
(***************************************************************************)
EXTENDS Threads

CONSTANTS
  NULL,
  buf_size,   \* 64
  Char,       \* what the keyboard handler queues
  LINK,       \* a byte of a list pointer
  HeadNext,   \* the indices of buf under waiters.head.next (0..3)
  TailPrev    \* and under waiters.tail.prev (4..7)

Reader == Thread \ {main}
Index == 0..buf_size - 1

ASSUME IOQueueAssumption ==
  /\ NULL \notin Thread
  /\ buf_size \in Nat \ {0, 1}
  /\ LINK \notin Char
  /\ HeadNext \subseteq Index /\ TailPrev \subseteq Index

VARIABLES
  pc,              \* "boot" and "spin" of main; "run", "call" and "wait" of readers
  head, tail, buf, consumer

queueVars == <<head, tail, buf, consumer>>
ioVars == <<threadVars, pc, queueVars>>

Runs(t, from) == t = current /\ pc[t] = from /\ ~panicked

Goto(t, to) == pc' = [pc EXCEPT ![t] = to]

\* keyboard_init, with the lock_init of ioqueue_init: an empty list of waiters.
IOQueueInit ==
  /\ ThreadsInit
  /\ pc = [t \in Thread |-> IF t = main THEN "boot" ELSE "run"]
  /\ head = 0 /\ tail = 0
  /\ buf = [i \in Index |-> LINK]
  /\ consumer = NULL

-----------------------------------------------------------------------------
\* Mutant: the index is not wrapped.
next_pos_NoWrap(pos) == pos + 1

next_pos(pos) == (pos + 1) % buf_size

\* Mutant: the ring is filled to its last slot.
is_queue_full_LastSlot == FALSE

is_queue_full == next_pos(head) = tail

is_queue_empty == head = tail

\* main and its thread_start calls, as in module Console.
main_starts(t) ==
  /\ Runs(main, "boot")
  /\ t \in Reader /\ thread_start(t)
  /\ UNCHANGED <<pc, queueVars>>

main_enables ==
  /\ Runs(main, "boot")
  /\ intr_set_status(TRUE)
  /\ Goto(main, "spin")
  /\ UNCHANGED queueVars

\* IRQ1, with a visible character: dropped when the ring is full, put into it
\* otherwise, so the wait of queue_putchar is never entered and producer
\* stays NULL.
queue_putchar(c) ==
  /\ ~panicked /\ intr /\ IrqUnmasked(1)
  /\ ~is_queue_full
  /\ buf' = [buf EXCEPT ![head] = c]
  /\ head' = next_pos(head)
  /\ IF consumer # NULL
     THEN thread_unblock(consumer) /\ consumer' = NULL
     ELSE UNCHANGED <<threadVars, consumer>>
  /\ UNCHANGED <<pc, tail>>

\* A reader disables interrupts, as queue_getchar demands, and calls it.
reader_calls(t) ==
  /\ t \in Reader /\ Runs(t, "run")
  /\ intr_set_status(FALSE)
  /\ Goto(t, "call")
  /\ UNCHANGED queueVars

\* queue_getchar with a character there, and the reader's intr_enable.
queue_getchar(t) ==
  /\ Runs(t, "call") /\ ~is_queue_empty
  /\ tail' = next_pos(tail)
  /\ intr_set_status(TRUE)
  /\ Goto(t, "run")
  /\ UNCHANGED <<head, buf, consumer>>

\* Mutant: the links of a waiter are written before the ring is seen empty.
queue_getchar_waits_Unchecked(t) ==
  /\ Runs(t, "call")
  /\ Goto(t, "wait")
  /\ thread_block("TASK_BLOCKED")
  /\ buf' = [i \in Index |-> IF i \in HeadNext \cup TailPrev THEN LINK ELSE buf[i]]
  /\ UNCHANGED <<head, tail, consumer>>

\* queue_getchar with the ring empty: lock_acquire and, in it, the list_find,
\* list_append and thread_block of semaphore_down.  The reader stays there and
\* does not come to queue_wait.  If characters have been written over the
\* pointers of waiters, list_find and list_append follow them anywhere: the
\* machine may stop in the page fault handler, or the reader is linked to
\* something or other (what that write hits outside the ring is left out).
queue_getchar_waits(t) ==
  /\ Runs(t, "call") /\ is_queue_empty
  /\ Goto(t, "wait")
  /\ \/ /\ thread_block("TASK_BLOCKED")
        /\ \E over \in {TailPrev, HeadNext \cup TailPrev} :
             buf' = [i \in Index |-> IF i \in over THEN LINK ELSE buf[i]]
     \/ /\ \E i \in HeadNext \cup TailPrev : buf[i] # LINK
        /\ Panic /\ UNCHANGED buf
  /\ UNCHANGED <<head, tail, consumer>>

timer == intr_timer_handler /\ UNCHANGED <<pc, queueVars>>

keyboard == \E c \in Char : queue_putchar(c)

ReaderStep(t) == reader_calls(t) \/ queue_getchar(t) \/ queue_getchar_waits(t)

IOQueueNext ==
  \/ main_enables \/ \E t \in Reader : main_starts(t)
  \/ \E t \in Reader : ReaderStep(t)
  \/ timer
  \/ keyboard

IOQueueSpec == IOQueueInit /\ [][IOQueueNext]_ioVars

(***************************************************************************)
(* Fairness of the CPU and the timer as in module Console, and a user who  *)
(* does not stop typing: keys are pressed while interrupts are enabled and *)
(* there is room for a character.                                          *)
(***************************************************************************)
IOQueueFair ==
  /\ IOQueueSpec
  /\ WF_ioVars(main_enables)
  /\ SF_ioVars(timer) /\ SF_ioVars(keyboard)
  /\ \A t \in Reader : SF_ioVars(ReaderStep(t))

-----------------------------------------------------------------------------
\* The characters in the ring, oldest first.
queue == [i \in 1..((head - tail) % buf_size) |-> buf[(tail + i - 1) % buf_size]]

IOQueueTypeOK ==
  /\ ThreadsTypeOK
  /\ pc \in [Thread -> {"boot", "spin", "run", "call", "wait"}]
  /\ head \in Index /\ tail \in Index
  /\ buf \in [Index -> Char \cup {LINK}]
  /\ consumer \in Thread \cup {NULL}

\* The pointers a waiting reader writes over the ring never hit a character
\* that is still to be read: waiters is touched only while the ring is empty.
NoCharOverwritten == \A i \in DOMAIN queue : queue[i] \in Char

\* The ring with its wrapped indices is a FIFO of buf_size - 1 characters,
\* however interrupts, wrap-around and readers are interleaved.
FIFO == INSTANCE BoundedFIFO WITH Capacity <- buf_size - 1
FIFOImplemented == FIFO!FIFOSpec

\* ioqueue.c, queue_getchar: on an empty queue it waits, so once characters
\* arrive it goes on.
WaitingReaderIsServed ==
  \A t \in Reader : pc[t] = "wait" ~> pc[t] = "run" \/ panicked

=============================================================================
