---------------------------- MODULE ThreadsProofs ----------------------------
(***************************************************************************)
(* What the list operations of ListSeq do to the set of linked elements    *)
(* and to the property that an element is linked at most once; and that    *)
(* the thread component keeps its lists, statuses, saved stacks and tick   *)
(* counts consistent, for any number of threads, any priorities and any    *)
(* interrupt mask.                                                         *)
(***************************************************************************)
EXTENDS Threads, SequenceTheorems, TLAPS

\* The elements of a list are members of the set it is a sequence over.
LEMMA FoundIsMember ==
  ASSUME NEW S, NEW s \in Seq(S), NEW e, list_find(s, e)
  PROVE  e \in S
  BY DEF list_find, Range

\* A list is empty exactly when nothing is found in it (list_empty).
LEMMA EmptyFindsNothing ==
  ASSUME NEW S, NEW s \in Seq(S)
  PROVE  list_empty(s) <=> \A e : ~list_find(s, e)
  <1>1. ASSUME s # << >> PROVE list_find(s, s[1])
    BY <1>1, 1 \in 1..Len(s), EmptySeq DEF list_find, Range
  <1> QED BY <1>1 DEF list_empty, list_find, Range

\* list_append links one more element, at the end.
LEMMA AppendLinks ==
  ASSUME NEW S, NEW s \in Seq(S), NEW e \in S
  PROVE  /\ list_append(s, e) \in Seq(S)
         /\ list_append(s, e) # << >>
         /\ \A x : list_find(list_append(s, e), x) <=> list_find(s, x) \/ x = e
         /\ LinkedOnce(s) /\ ~list_find(s, e) => LinkedOnce(list_append(s, e))
  <1> DEFINE n == Len(s)
             t == Append(s, e)
  <1>1. /\ n \in Nat /\ t \in Seq(S) /\ Len(t) = n + 1
        /\ DOMAIN s = 1..n /\ DOMAIN t = 1..(n + 1)
    OBVIOUS
  <1>2. \A i \in 1..n : t[i] = s[i]
    OBVIOUS
  <1>3. t[n + 1] = e
    OBVIOUS
  <1> HIDE DEF n, t
  <1>4. t # << >>
    BY <1>1
  <1>5. ASSUME NEW x PROVE x \in Range(t) <=> x \in Range(s) \/ x = e
    <2>1. ASSUME x \in Range(t) PROVE x \in Range(s) \/ x = e
      <3>1. PICK i \in 1..(n + 1) : x = t[i]
        BY <1>1, <2>1 DEF Range
      <3>2. CASE i \in 1..n
        BY <1>1, <1>2, <3>1, <3>2 DEF Range
      <3>3. CASE i = n + 1
        BY <1>3, <3>1, <3>3
      <3> QED BY <1>1, <3>2, <3>3
    <2>2. ASSUME x \in Range(s) PROVE x \in Range(t)
      <3>1. PICK i \in 1..n : x = s[i]
        BY <1>1, <2>2 DEF Range
      <3> QED BY <1>1, <1>2, <3>1 DEF Range
    <2>3. e \in Range(t)
      BY <1>1, <1>3 DEF Range
    <2> QED BY <2>1, <2>2, <2>3
  <1>6. ASSUME IsInjective(s), e \notin Range(s) PROVE IsInjective(t)
    <2>1. \A i \in 1..n : s[i] # e
      BY <1>1, <1>6 DEF Range
    <2>2. SUFFICES ASSUME NEW i \in 1..(n + 1), NEW j \in 1..(n + 1), t[i] = t[j]
                   PROVE  i = j
      BY <1>1 DEF IsInjective
    <2>3. CASE i \in 1..n /\ j \in 1..n
      BY <1>1, <1>2, <1>6, <2>2, <2>3 DEF IsInjective
    <2>4. CASE i = n + 1 \/ j = n + 1
      BY <1>1, <1>2, <1>3, <2>1, <2>2, <2>4
    <2> QED BY <1>1, <2>3, <2>4
  <1> QED BY <1>1, <1>4, <1>5, <1>6 DEF list_append, list_find, LinkedOnce, t

\* list_push links one more element, in front.
LEMMA PushLinks ==
  ASSUME NEW S, NEW s \in Seq(S), NEW e \in S
  PROVE  /\ list_push(s, e) \in Seq(S)
         /\ \A x : list_find(list_push(s, e), x) <=> list_find(s, x) \/ x = e
         /\ LinkedOnce(s) /\ ~list_find(s, e) => LinkedOnce(list_push(s, e))
  <1> DEFINE n == Len(s)
             t == <<e>> \o s
  <1>1. /\ n \in Nat /\ t \in Seq(S) /\ Len(t) = n + 1
        /\ DOMAIN s = 1..n /\ DOMAIN t = 1..(n + 1)
    OBVIOUS
  <1>2. \A i \in 1..n : t[i + 1] = s[i]
    OBVIOUS
  <1>3. t[1] = e
    OBVIOUS
  <1> HIDE DEF n, t
  <1>4. ASSUME NEW i \in 1..(n + 1), i # 1 PROVE i - 1 \in 1..n /\ t[i] = s[i - 1]
    BY <1>1, <1>2, <1>4
  <1>5. ASSUME NEW x PROVE x \in Range(t) <=> x \in Range(s) \/ x = e
    <2>1. ASSUME x \in Range(t) PROVE x \in Range(s) \/ x = e
      <3>1. PICK i \in 1..(n + 1) : x = t[i]
        BY <1>1, <2>1 DEF Range
      <3> QED BY <1>1, <1>3, <1>4, <3>1 DEF Range
    <2>2. ASSUME x \in Range(s) PROVE x \in Range(t)
      <3>1. PICK i \in 1..n : x = s[i]
        BY <1>1, <2>2 DEF Range
      <3>2. i + 1 \in 1..(n + 1)
        BY <1>1
      <3> QED BY <1>1, <1>2, <3>1, <3>2 DEF Range
    <2>3. e \in Range(t)
      BY <1>1, <1>3, 1 \in 1..(n + 1) DEF Range
    <2> QED BY <2>1, <2>2, <2>3
  <1>6. ASSUME IsInjective(s), e \notin Range(s) PROVE IsInjective(t)
    <2>1. \A i \in 1..n : s[i] # e
      BY <1>1, <1>6 DEF Range
    <2>2. SUFFICES ASSUME NEW i \in 1..(n + 1), NEW j \in 1..(n + 1), t[i] = t[j]
                   PROVE  i = j
      BY <1>1 DEF IsInjective
    <2>3. CASE i # 1 /\ j # 1
      <3>1. s[i - 1] = s[j - 1] /\ i - 1 \in 1..n /\ j - 1 \in 1..n
        BY <1>4, <2>2, <2>3
      <3>2. i - 1 = j - 1
        BY <1>1, <1>6, <3>1 DEF IsInjective
      <3> QED BY <1>1, <3>2
    <2>4. CASE i = 1 \/ j = 1
      BY <1>1, <1>3, <1>4, <2>1, <2>2, <2>4
    <2> QED BY <2>3, <2>4
  <1> QED BY <1>1, <1>5, <1>6 DEF list_push, list_find, LinkedOnce, t

\* list_pop unlinks the first element and no other.
LEMMA PopUnlinks ==
  ASSUME NEW S, NEW s \in Seq(S), ~list_empty(s)
  PROVE  /\ list_pop(s) \in Seq(S)
         /\ popped(s) \in S
         /\ list_find(s, popped(s))
         /\ LinkedOnce(s) =>
              /\ LinkedOnce(list_pop(s))
              /\ \A x : list_find(list_pop(s), x) <=> list_find(s, x) /\ x # popped(s)
  <1> DEFINE n == Len(s)
             t == Tail(s)
  <1>1. /\ s # << >> /\ n \in Nat \ {0} /\ t \in Seq(S) /\ Len(t) = n - 1
        /\ DOMAIN s = 1..n /\ DOMAIN t = 1..(n - 1)
    BY EmptySeq, HeadTailProperties, LenProperties DEF list_empty
  <1>2. \A i \in 1..(n - 1) : t[i] = s[i + 1]
    BY <1>1, HeadTailProperties
  <1>3. Head(s) = s[1] /\ Head(s) \in S
    BY <1>1
  <1> HIDE DEF n, t
  <1>4. Head(s) \in Range(s)
    BY <1>1, <1>3, 1 \in 1..n DEF Range
  <1>5. ASSUME IsInjective(s) PROVE IsInjective(t)
    <2>1. SUFFICES ASSUME NEW i \in 1..(n - 1), NEW j \in 1..(n - 1), t[i] = t[j]
                   PROVE  i = j
      BY <1>1 DEF IsInjective
    <2>2. i + 1 \in 1..n /\ j + 1 \in 1..n /\ s[i + 1] = s[j + 1]
      BY <1>1, <1>2, <2>1
    <2>3. i + 1 = j + 1
      BY <1>1, <1>5, <2>2 DEF IsInjective
    <2> QED BY <1>1, <2>3
  <1>6. ASSUME IsInjective(s), NEW x
        PROVE  x \in Range(t) <=> x \in Range(s) /\ x # s[1]
    <2>1. ASSUME x \in Range(t) PROVE x \in Range(s) /\ x # s[1]
      <3>1. PICK i \in 1..(n - 1) : x = t[i]
        BY <1>1, <2>1 DEF Range
      <3>2. i + 1 \in 1..n /\ x = s[i + 1] /\ i + 1 # 1 /\ 1 \in 1..n
        BY <1>1, <1>2, <3>1
      <3> QED BY <1>1, <1>6, <3>2 DEF Range, IsInjective
    <2>2. ASSUME x \in Range(s), x # s[1] PROVE x \in Range(t)
      <3>1. PICK i \in 1..n : x = s[i]
        BY <1>1, <2>2 DEF Range
      <3>2. i - 1 \in 1..(n - 1) /\ x = t[i - 1]
        BY <1>1, <1>2, <2>2, <3>1
      <3> QED BY <1>1, <3>2 DEF Range
    <2> QED BY <2>1, <2>2
  <1> QED BY <1>1, <1>3, <1>4, <1>5, <1>6
          DEF list_pop, popped, list_find, LinkedOnce, t

-----------------------------------------------------------------------------
\* Type correctness alone is not inductive: charged stays a byte because of
\* SliceAccounting, and the popped thread is one of the ready ones because of
\* ReadyListExact.
ThreadsInv == ThreadsTypeOK /\ SchedInv

-----------------------------------------------------------------------------
\* After thread_init only main is linked, running and charged nothing.
LEMMA InitInv == ThreadsInit => ThreadsInv
  <1> SUFFICES ASSUME ThreadsInit PROVE ThreadsInv
    OBVIOUS
  <1>1. main \in Thread /\ Prio \in [Thread -> 0..255]
    BY ThreadsAssumption
  <1>2. << >> \in Seq(Thread) /\ ~list_find(<< >>, main) /\ LinkedOnce(<< >>)
    BY EmptySeq DEF list_find, LinkedOnce, Range, IsInjective
  <1>3. /\ thread_all_list \in Seq(Thread)
        /\ LinkedOnce(thread_all_list)
        /\ \A t : list_find(thread_all_list, t) <=> t = main
    <2>1. \A t : ~list_find(<< >>, t)
      BY DEF list_find, Range
    <2> QED BY <1>1, <1>2, <2>1, AppendLinks DEF ThreadsInit, list_init
  <1>4. ThreadsTypeOK
    <2>1. status \in [Thread -> TaskStatus]
      BY DEF ThreadsInit, TaskStatus
    <2>2. \A t \in Thread : Prio[t] \in 0..255
      BY <1>1
    <2>3. ticks \in [Thread -> 0..255] /\ charged \in [Thread -> 0..255]
      BY <2>2 DEF ThreadsInit
    <2> QED BY <1>1, <1>2, <1>3, <2>1, <2>3
            DEF ThreadsInit, ThreadsTypeOK, list_init
  <1>5. OneRunning /\ AllListExact /\ ResumePoints
    BY <1>1, <1>3
       DEF ThreadsInit, OneRunning, AllListExact, ResumePoints, Blocking
  <1>6. ReadyListExact
    BY <1>2 DEF ThreadsInit, ReadyListExact, list_init, list_find, Range
  <1>7. SliceAccounting
    BY <1>1 DEF ThreadsInit, SliceAccounting
  <1> QED BY <1>4, <1>5, <1>6, <1>7 DEF ThreadsInv, SchedInv

\* panic_spin leaves the threads as they are.
LEMMA PanicInv ==
  ASSUME ThreadsInv, Panic
  PROVE  ThreadsInv'
  BY DEF ThreadsInv, ThreadsTypeOK, SchedInv, OneRunning, ReadyListExact,
         AllListExact, ResumePoints, SliceAccounting, Panic

\* schedule(), entered from the timer handler with the statuses as they are,
\* or from thread_block with that of the running thread set to a blocked one.
LEMMA ScheduleInv ==
  ASSUME ThreadsInv, ~panicked,
         NEW st \in [Thread -> TaskStatus], NEW blk \in SUBSET Thread,
         \/ st = status /\ blk = in_block /\ intr
         \/ /\ \E b \in Blocking : st = [status EXCEPT ![current] = b]
            /\ blk = in_block \cup {current},
         schedule(st, blk)
  PROVE  ThreadsInv'
  <1> DEFINE preempted == st[current] = "TASK_RUNNING"
             ready == IF preempted THEN list_append(thread_ready_list, current)
                                   ELSE thread_ready_list
             next == popped(ready)
             stays == /\ ~(preempted /\ list_find(thread_ready_list, current))
                      /\ ~list_empty(ready)
  <1> USE DEF ThreadsInv
  <1>1. CASE Panic
    BY <1>1, PanicInv
  <1>2. CASE stays
    <2>1. /\ thread_ready_list' = list_pop(ready)
          /\ status' = [st EXCEPT
                          ![current] = IF preempted THEN "TASK_READY" ELSE @,
                          ![next] = "TASK_RUNNING"]
          /\ ticks' = IF preempted THEN [ticks EXCEPT ![current] = Prio[current]]
                                   ELSE ticks
          /\ charged' = IF preempted THEN [charged EXCEPT ![current] = 0]
                                     ELSE charged
          /\ current' = next
          /\ in_block' = blk
          /\ intr' = (next \notin blk)
          /\ UNCHANGED <<thread_all_list, panicked>>
      BY <1>2 DEF schedule, switch_to
    <2>2. /\ current \in Thread /\ thread_ready_list \in Seq(Thread)
          /\ status \in [Thread -> TaskStatus]
          /\ ticks \in [Thread -> 0..255] /\ charged \in [Thread -> 0..255]
      BY DEF ThreadsTypeOK
    <2>3. preempted <=> st = status
      BY <2>2 DEF SchedInv, OneRunning, Blocking
    <2>4. \A t \in Thread \ {current} : st[t] = status[t]
      BY <2>2
    <2>5. /\ ready \in Seq(Thread)
          /\ LinkedOnce(ready)
          /\ \A t \in Thread : list_find(ready, t) <=>
               \/ t # current /\ status[t] = "TASK_READY"
               \/ t = current /\ preempted
      <3>1. /\ LinkedOnce(thread_ready_list)
            /\ \A t \in Thread : list_find(thread_ready_list, t) <=> status[t] = "TASK_READY"
            /\ status[current] = "TASK_RUNNING"
        BY <2>2 DEF SchedInv, ReadyListExact, OneRunning
      <3>2. CASE preempted
        <4>1. ~list_find(thread_ready_list, current)
          BY <3>1, <2>2
        <4>2. /\ list_append(thread_ready_list, current) \in Seq(Thread)
              /\ LinkedOnce(list_append(thread_ready_list, current))
              /\ \A x : list_find(list_append(thread_ready_list, current), x)
                          <=> list_find(thread_ready_list, x) \/ x = current
          BY <2>2, <3>1, <4>1, AppendLinks
        <4> QED BY <3>1, <3>2, <4>2
      <3>3. CASE ~preempted
        BY <2>2, <3>1, <3>3
      <3> QED BY <3>2, <3>3
    <2> HIDE DEF preempted, ready
    <2>6. /\ list_pop(ready) \in Seq(Thread)
          /\ next \in Thread
          /\ list_find(ready, next)
          /\ LinkedOnce(list_pop(ready))
          /\ \A x : list_find(list_pop(ready), x) <=> list_find(ready, x) /\ x # next
      BY <1>2, <2>5, PopUnlinks
    <2> HIDE DEF next
    <2>7. \A t \in Thread : status'[t] =
            IF t = next THEN "TASK_RUNNING"
            ELSE IF t = current /\ preempted THEN "TASK_READY" ELSE st[t]
      BY <2>1, <2>2, <2>6
    <2>8. OneRunning'
      <3>1. \A t \in Thread : t # current => st[t] # "TASK_RUNNING"
        BY <2>2, <2>4 DEF SchedInv, OneRunning
      <3>2. st[current] = "TASK_RUNNING" => preempted
        BY DEF preempted
      <3> QED BY <2>1, <2>2, <2>7, <3>1, <3>2 DEF OneRunning
    <2>9. ReadyListExact'
      <3>1. ~preempted => st[current] \in Blocking
        BY <2>2, <2>3
      <3>2. \A t \in Thread : list_find(list_pop(ready), t) <=> status'[t] = "TASK_READY"
        <4> SUFFICES ASSUME NEW t \in Thread
                     PROVE  list_find(list_pop(ready), t) <=> status'[t] = "TASK_READY"
          OBVIOUS
        <4>1. CASE t = next
          BY <2>6, <2>7, <4>1
        <4>2. CASE t # next /\ t = current
          BY <2>5, <2>6, <2>7, <3>1, <4>2 DEF Blocking
        <4>3. CASE t # next /\ t # current
          BY <2>4, <2>5, <2>6, <2>7, <4>3
        <4> QED BY <4>1, <4>2, <4>3
      <3> QED BY <2>1, <2>6, <3>2 DEF ReadyListExact
    <2>10. \A t \in Thread : status'[t] = "none" <=> status[t] = "none"
      <3>1. status[next] # "none"
        <4>1. status[current] = "TASK_RUNNING"
          BY <2>2 DEF SchedInv, OneRunning
        <4> QED BY <2>5, <2>6, <4>1
      <3>2. status[current] # "none" /\ st[current] # "none"
        BY <2>2 DEF SchedInv, OneRunning, Blocking
      <3> QED BY <2>4, <2>7, <3>1, <3>2
    <2>11. AllListExact'
      BY <2>1, <2>10 DEF AllListExact, SchedInv
    <2>12. ResumePoints'
      <3>1. \A t \in Thread : status'[t] \in Blocking => t \in blk
        BY <2>4, <2>7 DEF SchedInv, ResumePoints, Blocking
      <3>2. \A t \in blk : status[t] # "none"
        BY <2>2 DEF SchedInv, ResumePoints, OneRunning
      <3> QED BY <2>1, <2>10, <3>1, <3>2 DEF ResumePoints
    <2>13. SliceAccounting'
      <3>1. Prio[current] \in 0..255
        BY <2>2, ThreadsAssumption
      <3>2. ASSUME NEW t \in Thread, status[t] # "none"
            PROVE  charged'[t] + ticks'[t] = Prio[t]
        <4>1. charged[t] + ticks[t] = Prio[t]
          BY <3>2 DEF SchedInv, SliceAccounting
        <4>2. CASE preempted /\ t = current
          <5>1. ticks'[t] = Prio[t] /\ charged'[t] = 0
            BY <2>1, <2>2, <4>2
          <5> QED BY <3>1, <4>2, <5>1
        <4>3. CASE ~(preempted /\ t = current)
          <5>1. ticks'[t] = ticks[t] /\ charged'[t] = charged[t]
            BY <2>1, <2>2, <4>3
          <5> QED BY <4>1, <5>1
        <4> QED BY <4>2, <4>3
      <3> QED BY <2>10, <3>2 DEF SliceAccounting
    <2>14. ThreadsTypeOK'
      <3>1. status' \in [Thread -> TaskStatus]
        BY <2>1, <2>2 DEF TaskStatus
      <3>2. Prio[current] \in 0..255
        BY <2>2, ThreadsAssumption
      <3>3. ticks' \in [Thread -> 0..255] /\ charged' \in [Thread -> 0..255]
        <4>1. CASE preempted
          <5>1. /\ ticks' = [ticks EXCEPT ![current] = Prio[current]]
                /\ charged' = [charged EXCEPT ![current] = 0]
            BY <2>1, <4>1
          <5> QED BY <2>2, <3>2, <5>1, 0 \in 0..255
        <4>2. CASE ~preempted
          BY <2>1, <2>2, <4>2
        <4> QED BY <4>1, <4>2
      <3> QED BY <2>1, <2>6, <3>1, <3>3 DEF ThreadsTypeOK
    <2> QED BY <2>8, <2>9, <2>11, <2>12, <2>13, <2>14 DEF SchedInv
  <1> QED BY <1>1, <1>2 DEF schedule, switch_to

\* The timer interrupt charges the running thread or switches away from it.
LEMMA TimerInv ==
  ASSUME ThreadsInv, intr_timer_handler
  PROVE  ThreadsInv'
  <1>1. CASE ticks[current] = 0
    <2>1. ~panicked /\ intr /\ schedule(status, in_block)
      BY <1>1 DEF intr_timer_handler
    <2>2. status \in [Thread -> TaskStatus] /\ in_block \in SUBSET Thread
      BY DEF ThreadsInv, ThreadsTypeOK
    <2> QED BY <2>1, <2>2, ScheduleInv
  <1>2. CASE ticks[current] # 0
    <2>1. /\ ticks' = [ticks EXCEPT ![current] = @ - 1]
          /\ charged' = [charged EXCEPT ![current] = @ + 1]
          /\ UNCHANGED <<current, intr, status, thread_ready_list,
                         thread_all_list, in_block, panicked>>
      BY <1>2 DEF intr_timer_handler
    <2>2. /\ current \in Thread
          /\ ticks \in [Thread -> 0..255] /\ charged \in [Thread -> 0..255]
      BY DEF ThreadsInv, ThreadsTypeOK
    <2>3. charged[current] + ticks[current] = Prio[current] /\ Prio[current] \in 0..255
      BY <2>2, ThreadsAssumption
         DEF ThreadsInv, SchedInv, SliceAccounting, OneRunning
    <2>4. /\ ticks[current] \in Nat /\ charged[current] \in Nat
          /\ ticks[current] - 1 \in 0..255 /\ charged[current] + 1 \in 0..255
      <3>1. ticks[current] \in 0..255 /\ charged[current] \in 0..255
        BY <2>2
      <3> QED BY <1>2, <2>3, <3>1, SMTT(20)
    <2>5. ticks' \in [Thread -> 0..255] /\ charged' \in [Thread -> 0..255]
      BY <2>1, <2>2, <2>4
    <2>6. SliceAccounting'
      <3>1. ASSUME NEW t \in Thread, status[t] # "none"
            PROVE  charged'[t] + ticks'[t] = Prio[t]
        <4>1. CASE t = current
          <5>1. ticks'[t] = ticks[t] - 1 /\ charged'[t] = charged[t] + 1
            BY <2>1, <2>2, <4>1
          <5> QED BY <2>3, <2>4, <4>1, <5>1
        <4>2. CASE t # current
          <5>1. ticks'[t] = ticks[t] /\ charged'[t] = charged[t]
            BY <2>1, <2>2, <4>2
          <5> QED BY <3>1, <5>1 DEF ThreadsInv, SchedInv, SliceAccounting
        <4> QED BY <4>1, <4>2
      <3> QED BY <2>1, <3>1 DEF SliceAccounting
    <2>7. ThreadsTypeOK'
      BY <2>1, <2>5 DEF ThreadsInv, ThreadsTypeOK
    <2>8. (OneRunning /\ ReadyListExact /\ AllListExact /\ ResumePoints)'
      BY <2>1 DEF ThreadsInv, SchedInv, OneRunning, ReadyListExact,
                  AllListExact, ResumePoints
    <2> QED BY <2>7, <2>8, <2>6 DEF ThreadsInv, SchedInv
  <1> QED BY <1>1, <1>2

\* thread_start links a thread that was on neither list.
LEMMA StartInv ==
  ASSUME ThreadsInv, NEW n \in Thread, thread_start(n)
  PROVE  ThreadsInv'
  <1>1. CASE Panic
    BY <1>1, PanicInv
  <1>2. CASE ~Panic
    <2>1. /\ status[n] = "none"
          /\ status' = [status EXCEPT ![n] = "TASK_READY"]
          /\ ticks' = [ticks EXCEPT ![n] = Prio[n]]
          /\ charged' = [charged EXCEPT ![n] = 0]
          /\ thread_ready_list' = list_append(thread_ready_list, n)
          /\ thread_all_list' = list_append(thread_all_list, n)
          /\ UNCHANGED <<current, intr, in_block, panicked>>
          /\ ~list_find(thread_ready_list, n) /\ ~list_find(thread_all_list, n)
      BY <1>2 DEF thread_start
    <2>2. /\ current \in Thread
          /\ thread_ready_list \in Seq(Thread) /\ thread_all_list \in Seq(Thread)
          /\ status \in [Thread -> TaskStatus]
          /\ ticks \in [Thread -> 0..255] /\ charged \in [Thread -> 0..255]
          /\ Prio[n] \in 0..255
      BY ThreadsAssumption DEF ThreadsInv, ThreadsTypeOK
    <2>3. ReadyListExact'
      <3>1. /\ LinkedOnce(list_append(thread_ready_list, n))
            /\ \A x : list_find(list_append(thread_ready_list, n), x)
                        <=> list_find(thread_ready_list, x) \/ x = n
        BY <2>1, <2>2, AppendLinks DEF ThreadsInv, SchedInv, ReadyListExact
      <3> QED BY <2>1, <2>2, <3>1 DEF ThreadsInv, SchedInv, ReadyListExact
    <2>4. AllListExact'
      <3>1. /\ LinkedOnce(list_append(thread_all_list, n))
            /\ \A x : list_find(list_append(thread_all_list, n), x)
                        <=> list_find(thread_all_list, x) \/ x = n
        BY <2>1, <2>2, AppendLinks DEF ThreadsInv, SchedInv, AllListExact
      <3> QED BY <2>1, <2>2, <3>1 DEF ThreadsInv, SchedInv, AllListExact
    <2>5. OneRunning' /\ ResumePoints'
      BY <2>1, <2>2 DEF ThreadsInv, SchedInv, OneRunning, ResumePoints, Blocking
    <2>6. SliceAccounting'
      <3>1. ASSUME NEW t \in Thread, status'[t] # "none"
            PROVE  charged'[t] + ticks'[t] = Prio[t]
        <4>1. CASE t = n
          <5>1. ticks'[n] = Prio[n] /\ charged'[n] = 0
            BY <2>1, <2>2
          <5>2. Prio[n] \in 0..255
            BY <2>2
          <5> QED BY <4>1, <5>1, <5>2
        <4>2. CASE t # n
          <5>1. ticks'[t] = ticks[t] /\ charged'[t] = charged[t] /\ status[t] # "none"
            BY <2>1, <2>2, <3>1, <4>2
          <5> QED BY <5>1 DEF ThreadsInv, SchedInv, SliceAccounting
        <4> QED BY <4>1, <4>2
      <3> QED BY <3>1 DEF SliceAccounting
    <2>7. ThreadsTypeOK'
      <3>1. /\ list_append(thread_ready_list, n) \in Seq(Thread)
            /\ list_append(thread_all_list, n) \in Seq(Thread)
        BY <2>2, AppendLinks
      <3>2. status' \in [Thread -> TaskStatus]
        BY <2>1, <2>2 DEF TaskStatus
      <3>3. ticks' \in [Thread -> 0..255]
        BY <2>1, <2>2
      <3>4. charged' \in [Thread -> 0..255]
        BY <2>1, <2>2, 0 \in 0..255
      <3> QED BY <2>1, <3>1, <3>2, <3>3, <3>4 DEF ThreadsInv, ThreadsTypeOK
    <2> QED BY <2>3, <2>4, <2>5, <2>6, <2>7 DEF ThreadsInv, SchedInv
  <1> QED BY <1>1, <1>2

\* thread_block puts the running thread off the CPU and off the ready list.
LEMMA BlockInv ==
  ASSUME ThreadsInv, NEW b \in Blocking, thread_block(b)
  PROVE  ThreadsInv'
  <1> DEFINE st == [status EXCEPT ![current] = b]
             blk == in_block \cup {current}
  <1>1. ~panicked /\ schedule(st, blk)
    BY DEF thread_block
  <1>2. st \in [Thread -> TaskStatus] /\ blk \in SUBSET Thread
    BY DEF ThreadsInv, ThreadsTypeOK, TaskStatus
  <1>3. \E x \in Blocking : st = [status EXCEPT ![current] = x]
    OBVIOUS
  <1> HIDE DEF st
  <1> QED BY <1>1, <1>2, <1>3, ScheduleInv

\* thread_unblock links a blocked thread in front of the ready ones.
LEMMA UnblockInv ==
  ASSUME ThreadsInv, NEW p \in Thread, thread_unblock(p)
  PROVE  ThreadsInv'
  <1>1. CASE Panic
    BY <1>1, PanicInv
  <1>2. CASE ~Panic
    <2>1. /\ status[p] \in Blocking
          /\ ~list_find(thread_ready_list, p)
          /\ thread_ready_list' = list_push(thread_ready_list, p)
          /\ status' = [status EXCEPT ![p] = "TASK_READY"]
          /\ UNCHANGED <<current, intr, thread_all_list, ticks, charged,
                         in_block, panicked>>
      BY <1>2 DEF thread_unblock
    <2>2. /\ current \in Thread
          /\ thread_ready_list \in Seq(Thread)
          /\ status \in [Thread -> TaskStatus]
      BY DEF ThreadsInv, ThreadsTypeOK
    <2>3. /\ list_push(thread_ready_list, p) \in Seq(Thread)
          /\ LinkedOnce(list_push(thread_ready_list, p))
          /\ \A x : list_find(list_push(thread_ready_list, p), x)
                      <=> list_find(thread_ready_list, x) \/ x = p
      BY <2>1, <2>2, PushLinks DEF ThreadsInv, SchedInv, ReadyListExact
    <2>4. ReadyListExact'
      BY <2>1, <2>2, <2>3 DEF ThreadsInv, SchedInv, ReadyListExact
    <2>5. OneRunning' /\ AllListExact' /\ ResumePoints' /\ SliceAccounting'
      BY <2>1, <2>2 DEF ThreadsInv, SchedInv, OneRunning, AllListExact,
                        ResumePoints, SliceAccounting, Blocking
    <2>6. ThreadsTypeOK'
      BY <2>1, <2>2, <2>3 DEF ThreadsInv, ThreadsTypeOK, TaskStatus
    <2> QED BY <2>4, <2>5, <2>6 DEF ThreadsInv, SchedInv
  <1> QED BY <1>1, <1>2

\* Leaving thread_block and switching interrupts touch the flag alone.
LEMMA FlagInv ==
  ASSUME ThreadsInv, NEW st \in BOOLEAN,
         thread_block_return(st) \/ intr_set_status(st)
  PROVE  ThreadsInv'
  <1>1. /\ UNCHANGED <<current, status, thread_ready_list, thread_all_list, ticks,
                       charged, panicked>>
        /\ intr' \in BOOLEAN /\ in_block' = in_block \ {current}
        /\ current \notin in_block'
    BY DEF thread_block_return, intr_set_status
  <1>2. current \in Thread /\ status[current] = "TASK_RUNNING" /\ "TASK_RUNNING" \notin Blocking
    BY DEF ThreadsInv, ThreadsTypeOK, SchedInv, OneRunning, Blocking
  <1>3. ResumePoints'
    BY <1>1, <1>2 DEF ThreadsInv, SchedInv, ResumePoints
  <1>4. OneRunning' /\ ReadyListExact' /\ AllListExact' /\ SliceAccounting'
    BY <1>1 DEF ThreadsInv, SchedInv, OneRunning, ReadyListExact, AllListExact,
                SliceAccounting
  <1>5. ThreadsTypeOK'
    BY <1>1 DEF ThreadsInv, ThreadsTypeOK
  <1> QED BY <1>3, <1>4, <1>5 DEF ThreadsInv, SchedInv

\* Every step of the thread component preserves its invariant.
LEMMA NextInv == ThreadsInv /\ [ThreadsNext]_threadVars => ThreadsInv'
  <1> SUFFICES ASSUME ThreadsInv, [ThreadsNext]_threadVars PROVE ThreadsInv'
    OBVIOUS
  <1>1. CASE intr_timer_handler
    BY <1>1, TimerInv
  <1>2. ASSUME NEW t \in Thread, thread_start(t) PROVE ThreadsInv'
    BY <1>2, StartInv
  <1>3. ASSUME NEW t \in Thread, thread_unblock(t) PROVE ThreadsInv'
    BY <1>3, UnblockInv
  <1>4. ASSUME NEW st \in Blocking, thread_block(st) PROVE ThreadsInv'
    BY <1>4, BlockInv
  <1>5. ASSUME NEW st \in BOOLEAN, thread_block_return(st) \/ intr_set_status(st)
        PROVE  ThreadsInv'
    BY <1>5, FlagInv
  <1>6. CASE UNCHANGED threadVars
    BY <1>6 DEF threadVars, ThreadsInv, ThreadsTypeOK, SchedInv, OneRunning,
       ReadyListExact, AllListExact, ResumePoints, SliceAccounting
  <1> QED BY <1>1, <1>2, <1>3, <1>4, <1>5, <1>6 DEF ThreadsNext

-----------------------------------------------------------------------------
\* thread.c and timer.c keep every PCB field, list and byte counter in its
\* range: in particular ticks and charged never leave a uint8_t.
THEOREM TypeCorrectness == ThreadsSpec => []ThreadsTypeOK
  <1>1. ThreadsInv => ThreadsTypeOK
    BY DEF ThreadsInv
  <1> QED BY <1>1, InitInv, NextInv, PTL DEF ThreadsSpec

\* thread.c never loses a runnable thread nor links one twice, has exactly one
\* running thread, and charges ticks without loss.
THEOREM SchedulerSafety == ThreadsSpec => []SchedInv
  <1>1. ThreadsInv => SchedInv
    BY DEF ThreadsInv
  <1> QED BY <1>1, InitInv, NextInv, PTL DEF ThreadsSpec

\* A thread whose slice ends goes to the end of the queue: only schedule()
\* switches, and it appends a thread that it does not leave blocked.
THEOREM RoundRobinOrder == ThreadsSpec => RoundRobin
  <1> DEFINE Requeue == current' # current /\ status'[current] = "TASK_READY"
                          => thread_ready_list' = Append(Tail(thread_ready_list), current)
  <1>1. ASSUME ThreadsInv,
               NEW st \in [Thread -> TaskStatus], NEW blk,
               st = status \/ \E b \in Blocking : st = [status EXCEPT ![current] = b],
               schedule(st, blk)
        PROVE  Requeue
    <2> DEFINE preempted == st[current] = "TASK_RUNNING"
               ready == IF preempted THEN list_append(thread_ready_list, current)
                                     ELSE thread_ready_list
               next == popped(ready)
    <2>1. current \in Thread /\ thread_ready_list \in Seq(Thread)
      BY <1>1 DEF ThreadsInv, ThreadsTypeOK
    <2>2. SUFFICES ASSUME current' # current, status'[current] = "TASK_READY"
                   PROVE  thread_ready_list' = Append(Tail(thread_ready_list), current)
      OBVIOUS
    <2>3. /\ thread_ready_list' = list_pop(ready)
          /\ status' = [st EXCEPT
                          ![current] = IF preempted THEN "TASK_READY" ELSE @,
                          ![next] = "TASK_RUNNING"]
          /\ current' = next
          /\ ~list_empty(ready)
      BY <1>1, <2>2 DEF schedule, switch_to, Panic
    <2>4. preempted
      <3>1. st[current] = "TASK_RUNNING" \/ st[current] \in Blocking
        BY <1>1, <2>1 DEF ThreadsInv, ThreadsTypeOK, SchedInv, OneRunning
      <3>2. ~preempted => status'[current] = st[current]
        BY <2>1, <2>2, <2>3
      <3> QED BY <2>2, <3>1, <3>2 DEF Blocking
    <2>5. ready = Append(thread_ready_list, current)
      BY <2>4 DEF list_append
    <2>6. thread_ready_list # << >>
      BY <2>1, <2>2, <2>3, <2>5, HeadTailAppend DEF popped
    <2> QED BY <2>1, <2>3, <2>5, <2>6, HeadTailAppend DEF list_pop
  <1>2. ThreadsInv /\ [ThreadsNext]_threadVars => [Requeue]_threadVars
    <2> SUFFICES ASSUME ThreadsInv, ThreadsNext PROVE Requeue
      OBVIOUS
    <2>1. current \in Thread /\ status \in [Thread -> TaskStatus]
      BY DEF ThreadsInv, ThreadsTypeOK
    <2>2. CASE \E b \in Blocking : thread_block(b)
      <3>1. PICK b \in Blocking : schedule([status EXCEPT ![current] = b], in_block \cup {current})
        BY <2>2 DEF thread_block
      <3>2. [status EXCEPT ![current] = b] \in [Thread -> TaskStatus]
        BY <2>1 DEF TaskStatus
      <3> QED BY <1>1, <3>1, <3>2
    <2>3. CASE intr_timer_handler
      <3>1. current' = current \/ schedule(status, in_block)
        BY <2>3 DEF intr_timer_handler
      <3> QED BY <1>1, <2>1, <3>1
    <2>4. CASE \E t \in Thread : thread_start(t) \/ thread_unblock(t)
      <3>1. current' = current
        BY <2>4 DEF thread_start, thread_unblock, Panic
      <3> QED BY <3>1
    <2>5. CASE \E st \in BOOLEAN : thread_block_return(st) \/ intr_set_status(st)
      <3>1. current' = current
        BY <2>5 DEF thread_block_return, intr_set_status
      <3> QED BY <3>1
    <2> QED BY <2>2, <2>3, <2>4, <2>5 DEF ThreadsNext
  <1> QED BY <1>2, InitInv, NextInv, PTL DEF ThreadsSpec, RoundRobin

=============================================================================
