---------------------------- MODULE IOQueueProofs ----------------------------
(***************************************************************************)
(* Proofs about the character queue, for a ring of any size, any number of *)
(* readers and any set of characters: it is a bounded FIFO, and the list   *)
(* pointers of waiting readers hit no character that is still to be read.  *)
(***************************************************************************)
EXTENDS IOQueue, ThreadsProofs

-----------------------------------------------------------------------------
\* An index of the ring stays as it is.
LEMMA ModInRing ==
  ASSUME NEW N \in Nat \ {0}, NEW x \in 0..(N - 1)
  PROVE  x % N = x
  BY SMT

\* From N on one N too much is taken off.
LEMMA ModWraps ==
  ASSUME NEW N \in Nat \ {0}, NEW x \in N..(2 * N - 1)
  PROVE  x % N = x - N
  BY SMT

\* Below 0 one N is added.
LEMMA ModNegative ==
  ASSUME NEW N \in Nat \ {0}, NEW x \in (-N)..(-1)
  PROVE  x % N = x + N
  BY SMT

\* The index behind pos, and the number of slots from t up to h.
LEMMA RingSums ==
  ASSUME NEW N \in Nat \ {0, 1}, NEW h \in 0..(N - 1), NEW t \in 0..(N - 1)
  PROVE  /\ (h + 1) % N = IF h = N - 1 THEN 0 ELSE h + 1
         /\ (h - t) % N = IF h >= t THEN h - t ELSE h - t + N
         /\ \A i \in 1..N : (t + i - 1) % N = IF t + i - 1 < N THEN t + i - 1 ELSE t + i - 1 - N
  <1>1. (h + 1) % N = IF h = N - 1 THEN 0 ELSE h + 1
    BY ModInRing, ModWraps, SMT
  <1>2. (h - t) % N = IF h >= t THEN h - t ELSE h - t + N
    BY ModInRing, ModNegative, SMT
  <1>3. ASSUME NEW i \in 1..N
        PROVE  (t + i - 1) % N = IF t + i - 1 < N THEN t + i - 1 ELSE t + i - 1 - N
    <2>1. CASE t + i - 1 < N
      BY <2>1, ModInRing, SMT
    <2>2. CASE t + i - 1 >= N
      BY <2>2, ModWraps, SMT
    <2> QED BY <2>1, <2>2, SMT
  <1> QED BY <1>1, <1>2, <1>3

\* Moving head on, with a slot to spare, adds the slot it was at.
LEMMA RingPut ==
  ASSUME NEW N \in Nat \ {0, 1}, NEW h \in 0..(N - 1), NEW t \in 0..(N - 1),
         (h + 1) % N # t
  PROVE  /\ (h + 1) % N \in 0..(N - 1)
         /\ (h - t) % N \in 0..(N - 2)
         /\ (((h + 1) % N) - t) % N = ((h - t) % N) + 1
         /\ \A i \in 1..((h - t) % N) : (t + i - 1) % N \in (0..(N - 1)) \ {h}
         /\ (t + (((h - t) % N) + 1) - 1) % N = h
  <1> DEFINE g == (h + 1) % N
             n == (h - t) % N
  <1>1. g = IF h = N - 1 THEN 0 ELSE h + 1
    BY RingSums
  <1>2. n = IF h >= t THEN h - t ELSE h - t + N
    BY RingSums
  <1>3. g \in 0..(N - 1) /\ g # t
    BY <1>1, SMT
  <1> HIDE DEF g, n
  <1>4. (g - t) % N = IF g >= t THEN g - t ELSE g - t + N
    BY <1>3, RingSums
  <1>5. \A i \in 1..N : (t + i - 1) % N = IF t + i - 1 < N THEN t + i - 1 ELSE t + i - 1 - N
    BY RingSums
  <1>6. n \in 0..(N - 2) /\ (g - t) % N = n + 1
    BY <1>1, <1>2, <1>3, <1>4, SMT
  <1>7. (t + (n + 1) - 1) % N = h
    BY <1>2, <1>5, <1>6, SMT
  <1>8. \A i \in 1..n : (t + i - 1) % N \in (0..(N - 1)) \ {h}
    BY <1>2, <1>5, <1>6, SMT
  <1> QED BY <1>3, <1>6, <1>7, <1>8 DEF g, n

\* Moving tail on gives up the slot it was at and shifts the others by one.
LEMMA RingGet ==
  ASSUME NEW N \in Nat \ {0, 1}, NEW h \in 0..(N - 1), NEW t \in 0..(N - 1), h # t
  PROVE  /\ (t + 1) % N \in 0..(N - 1)
         /\ (h - t) % N \in 1..(N - 1)
         /\ (h - ((t + 1) % N)) % N = ((h - t) % N) - 1
         /\ \A i \in 1..(((h - t) % N) - 1) :
              (((t + 1) % N) + i - 1) % N = (t + (i + 1) - 1) % N
  <1> DEFINE u == (t + 1) % N
             n == (h - t) % N
  <1>1. u = IF t = N - 1 THEN 0 ELSE t + 1
    BY RingSums
  <1>2. n = IF h >= t THEN h - t ELSE h - t + N
    BY RingSums
  <1>3. u \in 0..(N - 1)
    BY <1>1, SMT
  <1> HIDE DEF u, n
  <1>4. \A i \in 1..N : (u + i - 1) % N = IF u + i - 1 < N THEN u + i - 1 ELSE u + i - 1 - N
    BY <1>3, RingSums
  <1>5. (h - u) % N = IF h >= u THEN h - u ELSE h - u + N
    BY <1>3, RingSums
  <1>6. \A i \in 1..N : (t + i - 1) % N = IF t + i - 1 < N THEN t + i - 1 ELSE t + i - 1 - N
    BY RingSums
  <1>7. n \in 1..(N - 1) /\ (h - u) % N = n - 1
    BY <1>1, <1>2, <1>5, SMT
  <1>8. ASSUME NEW i \in 1..(n - 1) PROVE (u + i - 1) % N = (t + (i + 1) - 1) % N
    <2>1. i \in 1..N /\ i + 1 \in 1..N
      BY <1>7, SMT
    <2>2. (t + (i + 1) - 1) % N = IF t + (i + 1) - 1 < N THEN t + (i + 1) - 1
                                                         ELSE t + (i + 1) - 1 - N
      BY <1>6, <2>1
    <2> QED BY <1>1, <1>4, <2>1, <2>2, SMT
  <1> QED BY <1>3, <1>7, <1>8 DEF u, n

-----------------------------------------------------------------------------
\* queue_wait is never reached, so nobody is ever recorded as consumer.
IOQueueInv ==
  /\ SchedInv
  /\ IOQueueTypeOK
  /\ NoCharOverwritten
  /\ consumer = NULL

Byte == Char \cup {LINK}

\* The characters of a ring with contents b and ends h and t.
Ring(b, h, t) == [i \in 1..((h - t) % buf_size) |-> b[(t + i - 1) % buf_size]]

\* Two sequences of the same length that agree on it are equal.
LEMMA SameSequence ==
  ASSUME NEW S, NEW s \in Seq(S), NEW r \in Seq(S), NEW n \in Nat,
         Len(s) = n, Len(r) = n, \A i \in 1..n : s[i] = r[i]
  PROVE  s = r
  BY SeqEqual

\* The ring holds a sequence; its length is the distance of the ends.
LEMMA RingIsASeq ==
  ASSUME NEW b \in [Index -> Byte], NEW h \in Index, NEW t \in Index
  PROVE  /\ Ring(b, h, t) \in Seq(Byte)
         /\ Len(Ring(b, h, t)) = (h - t) % buf_size
         /\ (h - t) % buf_size \in 0..(buf_size - 1)
         /\ \A i \in 1..((h - t) % buf_size) :
              Ring(b, h, t)[i] = b[(t + i - 1) % buf_size]
  <1> DEFINE n == (h - t) % buf_size
             e(i) == b[(t + i - 1) % buf_size]
  <1>1. buf_size \in Nat \ {0, 1} /\ h \in 0..(buf_size - 1) /\ t \in 0..(buf_size - 1)
    BY IOQueueAssumption DEF Index
  <1>2. n = IF h >= t THEN h - t ELSE h - t + buf_size
    BY <1>1, RingSums
  <1> HIDE DEF n
  <1>3. n \in Nat /\ n \in 0..(buf_size - 1)
    BY <1>1, <1>2, SMT
  <1>4. ASSUME NEW i \in 1..n PROVE e(i) \in Byte
    <2>1. i \in 1..buf_size
      BY <1>1, <1>3, SMT
    <2>2. (t + i - 1) % buf_size
             = IF t + i - 1 < buf_size THEN t + i - 1 ELSE t + i - 1 - buf_size
      BY <1>1, <2>1, RingSums
    <2>3. (t + i - 1) % buf_size \in Index
      BY <1>1, <2>1, <2>2, SMT DEF Index
    <2> QED BY <2>3
  <1>5. Ring(b, h, t) = [i \in 1..n |-> e(i)]
    BY DEF Ring, n
  <1> HIDE DEF e
  <1>6. [i \in 1..n |-> e(i)] \in Seq(Byte)
    BY <1>3, <1>4, IsASeq
  <1>7. Len([i \in 1..n |-> e(i)]) = n
    BY <1>3, SMT
  <1>8. \A i \in 1..n : Ring(b, h, t)[i] = e(i)
    BY <1>5
  <1> QED BY <1>3, <1>5, <1>6, <1>7, <1>8 DEF n, e

\* queue_putchar into a ring that is not full appends.
LEMMA PutAppends ==
  ASSUME NEW b \in [Index -> Byte], NEW h \in Index, NEW t \in Index, NEW c \in Byte,
         next_pos(h) # t
  PROVE  /\ next_pos(h) \in Index
         /\ Len(Ring(b, h, t)) < buf_size - 1
         /\ Ring([b EXCEPT ![h] = c], next_pos(h), t) = Append(Ring(b, h, t), c)
  <1> DEFINE n == (h - t) % buf_size
             g == next_pos(h)
             d == [b EXCEPT ![h] = c]
             s == Ring(b, h, t)
             r == Ring(d, g, t)
  <1>1. buf_size \in Nat \ {0, 1} /\ h \in 0..(buf_size - 1) /\ t \in 0..(buf_size - 1)
    BY IOQueueAssumption DEF Index
  <1>2. /\ g \in 0..(buf_size - 1)
        /\ n \in 0..(buf_size - 2)
        /\ (g - t) % buf_size = n + 1
        /\ \A i \in 1..n : (t + i - 1) % buf_size \in (0..(buf_size - 1)) \ {h}
        /\ (t + (n + 1) - 1) % buf_size = h
    <2>1. (h + 1) % buf_size # t
      BY DEF next_pos
    <2> QED BY <1>1, <2>1, RingPut DEF next_pos
  <1>3. g \in Index /\ d \in [Index -> Byte]
    BY <1>2 DEF Index
  <1>4. /\ s \in Seq(Byte) /\ Len(s) = n
        /\ \A i \in 1..n : s[i] = b[(t + i - 1) % buf_size]
    BY RingIsASeq
  <1> HIDE DEF g, d
  <1>5. /\ r \in Seq(Byte) /\ Len(r) = (g - t) % buf_size
        /\ \A i \in 1..((g - t) % buf_size) : r[i] = d[(t + i - 1) % buf_size]
    BY <1>3, RingIsASeq
  <1> HIDE DEF n, s, r
  <1>6. Len(r) = n + 1 /\ \A i \in 1..(n + 1) : r[i] = d[(t + i - 1) % buf_size]
    BY <1>2, <1>5
  <1>7. /\ Append(s, c) \in Seq(Byte) /\ Len(Append(s, c)) = n + 1
        /\ \A i \in 1..n : Append(s, c)[i] = s[i]
        /\ Append(s, c)[n + 1] = c
    BY <1>4, AppendProperties
  <1>8. ASSUME NEW i \in 1..(n + 1) PROVE r[i] = Append(s, c)[i]
    <2>1. CASE i = n + 1
      <3>1. r[n + 1] = d[h]
        BY <1>2, <1>6, <2>1
      <3> QED BY <1>7, <2>1, <3>1 DEF d
    <2>2. CASE i # n + 1
      <3>1. i \in 1..n
        BY <1>2, <2>2, SMT
      <3>2. (t + i - 1) % buf_size \in Index \ {h}
        BY <1>2, <3>1 DEF Index
      <3>3. d[(t + i - 1) % buf_size] = b[(t + i - 1) % buf_size]
        BY <3>2 DEF d
      <3> QED BY <1>4, <1>6, <1>7, <3>1, <3>3
    <2> QED BY <2>1, <2>2
  <1>9. n + 1 \in Nat /\ n < buf_size - 1
    BY <1>1, <1>2, SMT
  <1>10. r = Append(s, c)
    BY <1>5, <1>6, <1>7, <1>8, <1>9, SameSequence
  <1> QED BY <1>3, <1>4, <1>9, <1>10 DEF g, d, s, r

\* queue_getchar from a ring that is not empty takes the oldest character.
LEMMA GetTakesFirst ==
  ASSUME NEW b \in [Index -> Byte], NEW h \in Index, NEW t \in Index, h # t
  PROVE  /\ next_pos(t) \in Index
         /\ Ring(b, h, t) # << >>
         /\ Ring(b, h, next_pos(t)) = Tail(Ring(b, h, t))
  <1> DEFINE n == (h - t) % buf_size
             u == next_pos(t)
             s == Ring(b, h, t)
             r == Ring(b, h, u)
  <1>1. buf_size \in Nat \ {0, 1} /\ h \in 0..(buf_size - 1) /\ t \in 0..(buf_size - 1)
    BY IOQueueAssumption DEF Index
  <1>2. /\ u \in 0..(buf_size - 1)
        /\ n \in 1..(buf_size - 1)
        /\ (h - u) % buf_size = n - 1
        /\ \A i \in 1..(n - 1) : (u + i - 1) % buf_size = (t + (i + 1) - 1) % buf_size
    BY <1>1, RingGet DEF next_pos
  <1>3. u \in Index
    BY <1>2 DEF Index
  <1>4. /\ s \in Seq(Byte) /\ Len(s) = n
        /\ \A i \in 1..n : s[i] = b[(t + i - 1) % buf_size]
    BY RingIsASeq
  <1> HIDE DEF u
  <1>5. /\ r \in Seq(Byte) /\ Len(r) = (h - u) % buf_size
        /\ \A i \in 1..((h - u) % buf_size) : r[i] = b[(u + i - 1) % buf_size]
    BY <1>3, RingIsASeq
  <1> HIDE DEF n, s, r
  <1>6. Len(r) = n - 1 /\ \A i \in 1..(n - 1) : r[i] = b[(u + i - 1) % buf_size]
    BY <1>2, <1>5
  <1>7. s # << >>
    BY <1>2, <1>4, EmptySeq, SMT
  <1>8. /\ Tail(s) \in Seq(Byte) /\ Len(Tail(s)) = n - 1
        /\ \A i \in 1..(n - 1) : Tail(s)[i] = s[i + 1]
    BY <1>4, <1>7, HeadTailProperties
  <1>9. ASSUME NEW i \in 1..(n - 1) PROVE r[i] = Tail(s)[i]
    <2>1. i + 1 \in 1..n
      BY <1>2, SMT
    <2>2. s[i + 1] = b[(t + (i + 1) - 1) % buf_size]
      BY <1>4, <2>1
    <2> QED BY <1>2, <1>6, <1>8, <2>2
  <1>10. n - 1 \in Nat
    BY <1>2, SMT
  <1>11. r = Tail(s)
    BY <1>5, <1>6, <1>8, <1>9, <1>10, SameSequence
  <1> QED BY <1>3, <1>7, <1>11 DEF u, s, r

\* A ring whose ends are equal is empty.
LEMMA EmptyRing ==
  ASSUME NEW b \in [Index -> Byte], NEW h \in Index
  PROVE  Ring(b, h, h) = << >>
  <1>1. buf_size \in Nat \ {0, 1} /\ h \in 0..(buf_size - 1)
    BY IOQueueAssumption DEF Index
  <1>2. (h - h) % buf_size = 0
    BY <1>1, RingSums, SMT
  <1>3. Ring(b, h, h) \in Seq(Byte) /\ Len(Ring(b, h, h)) = 0
    BY <1>2, RingIsASeq
  <1> QED BY <1>3, EmptySeq

-----------------------------------------------------------------------------
\* The thread component and the ring's variables after keyboard_init.
LEMMA IOQueueInitInv == IOQueueInit => IOQueueInv /\ queue = << >>
  <1> SUFFICES ASSUME IOQueueInit PROVE IOQueueInv /\ queue = << >>
    OBVIOUS
  <1>1. ThreadsInv
    BY InitInv DEF IOQueueInit
  <1>2. head \in Index /\ tail = head /\ buf \in [Index -> Byte]
    BY IOQueueAssumption DEF IOQueueInit, Index, Byte
  <1>3. queue = << >>
    BY <1>2, EmptyRing DEF queue, Ring
  <1>4. pc \in [Thread -> {"boot", "spin", "run", "call", "wait"}]
    BY DEF IOQueueInit
  <1>5. NoCharOverwritten
    BY <1>3 DEF NoCharOverwritten
  <1> QED BY <1>1, <1>2, <1>3, <1>4, <1>5
          DEF IOQueueInv, IOQueueTypeOK, ThreadsInv, IOQueueInit, Byte

\* A step that leaves the ring alone leaves the queue alone.
LEMMA RingUnchanged ==
  ASSUME IOQueueInv, ThreadsInv', pc' \in [Thread -> {"boot", "spin", "run", "call", "wait"}],
         UNCHANGED queueVars
  PROVE  IOQueueInv' /\ queue' = queue
  BY DEF IOQueueInv, IOQueueTypeOK, ThreadsInv, queueVars, NoCharOverwritten, queue

\* main and its readers' calls change only the thread component and pc.
LEMMA ThreadSteps ==
  ASSUME IOQueueInv,
         \/ main_enables
         \/ \E t \in Reader : main_starts(t) \/ reader_calls(t)
         \/ timer
  PROVE  IOQueueInv' /\ queue' = queue
  <1>1. ThreadsInv /\ pc \in [Thread -> {"boot", "spin", "run", "call", "wait"}]
    BY DEF IOQueueInv, IOQueueTypeOK, ThreadsInv
  <1>2. ThreadsInv'
    BY <1>1, FlagInv, StartInv, TimerInv
       DEF main_enables, main_starts, reader_calls, timer, Reader
  <1>3. pc' \in [Thread -> {"boot", "spin", "run", "call", "wait"}] /\ UNCHANGED queueVars
    BY <1>1 DEF main_enables, main_starts, reader_calls, timer, Goto
  <1> QED BY <1>2, <1>3, RingUnchanged

\* The keyboard interrupt appends a character and wakes nobody.
LEMMA PutStep ==
  ASSUME IOQueueInv, NEW c \in Char, queue_putchar(c)
  PROVE  IOQueueInv' /\ Len(queue) < buf_size - 1 /\ queue' = Append(queue, c)
  <1>1. /\ head \in Index /\ tail \in Index /\ buf \in [Index -> Byte] /\ c \in Byte
        /\ next_pos(head) # tail /\ consumer = NULL
    BY DEF IOQueueInv, IOQueueTypeOK, queue_putchar, is_queue_full, Byte
  <1>2. /\ next_pos(head) \in Index
        /\ Len(queue) < buf_size - 1
        /\ queue' = Append(queue, c)
    <2>1. queue = Ring(buf, head, tail)
      BY DEF queue, Ring
    <2>2. queue' = Ring([buf EXCEPT ![head] = c], next_pos(head), tail)
      BY DEF queue, Ring, queue_putchar
    <2> QED BY <1>1, <2>1, <2>2, PutAppends
  <1>3. UNCHANGED <<threadVars, consumer, pc, tail>>
    BY <1>1 DEF queue_putchar
  <1>4. SchedInv' /\ ThreadsTypeOK'
    BY <1>3 DEF IOQueueInv, IOQueueTypeOK, threadVars, SchedInv, ThreadsTypeOK, OneRunning,
                ReadyListExact, AllListExact, ResumePoints, SliceAccounting
  <1>5. IOQueueTypeOK'
    BY <1>1, <1>2, <1>3, <1>4 DEF IOQueueInv, IOQueueTypeOK, queue_putchar, Byte
  <1>6. NoCharOverwritten'
    <2>1. queue \in Seq(Byte)
      BY <1>1, RingIsASeq DEF queue, Ring
    <2>2. /\ Append(queue, c) \in Seq(Byte) /\ Len(Append(queue, c)) = Len(queue) + 1
          /\ \A i \in 1..Len(queue) : Append(queue, c)[i] = queue[i]
          /\ Append(queue, c)[Len(queue) + 1] = c
      BY <1>1, <2>1, AppendProperties
    <2>3. Len(queue) \in Nat /\ DOMAIN queue = 1..Len(queue)
          /\ DOMAIN Append(queue, c) = 1..(Len(queue) + 1)
      BY <2>1, <2>2, LenProperties
    <2>4. \A i \in 1..Len(queue) : queue[i] \in Char
      BY <2>3 DEF IOQueueInv, NoCharOverwritten
    <2>5. \A i \in 1..(Len(queue) + 1) : Append(queue, c)[i] \in Char
      BY <2>2, <2>3, <2>4, SMT
    <2> QED BY <1>2, <2>3, <2>5 DEF NoCharOverwritten
  <1> QED BY <1>1, <1>2, <1>3, <1>4, <1>5, <1>6 DEF IOQueueInv

\* queue_getchar takes the oldest character out.
LEMMA GetStep ==
  ASSUME IOQueueInv, NEW t \in Reader, queue_getchar(t)
  PROVE  IOQueueInv' /\ queue # << >> /\ queue' = Tail(queue)
  <1>1. head \in Index /\ tail \in Index /\ buf \in [Index -> Byte] /\ head # tail
    BY DEF IOQueueInv, IOQueueTypeOK, queue_getchar, is_queue_empty, Byte
  <1>2. /\ next_pos(tail) \in Index
        /\ queue # << >>
        /\ queue' = Tail(queue)
    <2>1. queue = Ring(buf, head, tail)
      BY DEF queue, Ring
    <2>2. queue' = Ring(buf, head, next_pos(tail))
      BY DEF queue, Ring, queue_getchar
    <2> QED BY <1>1, <2>1, <2>2, GetTakesFirst
  <1>3. ThreadsInv'
    BY FlagInv DEF queue_getchar, IOQueueInv, IOQueueTypeOK, ThreadsInv
  <1>4. IOQueueTypeOK'
    BY <1>2, <1>3 DEF IOQueueInv, IOQueueTypeOK, queue_getchar, Goto, ThreadsInv
  <1>5. NoCharOverwritten'
    <2>1. queue \in Seq(Byte)
      BY <1>1, RingIsASeq DEF queue, Ring
    <2>2. /\ Tail(queue) \in Seq(Byte) /\ Len(Tail(queue)) = Len(queue) - 1
          /\ \A i \in 1..Len(Tail(queue)) : Tail(queue)[i] = queue[i + 1]
      BY <1>2, <2>1, HeadTailProperties
    <2>3. Len(queue) \in Nat /\ DOMAIN queue = 1..Len(queue)
          /\ DOMAIN Tail(queue) = 1..Len(Tail(queue))
      BY <2>1, <2>2, LenProperties
    <2>4. \A i \in 1..Len(queue) : queue[i] \in Char
      BY <2>3 DEF IOQueueInv, NoCharOverwritten
    <2>5. \A i \in 1..Len(Tail(queue)) : Tail(queue)[i] \in Char
      BY <2>2, <2>3, <2>4, SMT
    <2> QED BY <1>2, <2>3, <2>5 DEF NoCharOverwritten
  <1> QED BY <1>2, <1>3, <1>4, <1>5 DEF IOQueueInv, ThreadsInv, queue_getchar

\* The pointers of a reader that finds the ring empty hit an empty ring.
LEMMA WaitStep ==
  ASSUME IOQueueInv, NEW t \in Reader, queue_getchar_waits(t)
  PROVE  IOQueueInv' /\ queue' = queue
  <1>1. head \in Index /\ tail = head /\ buf \in [Index -> Byte]
    BY DEF IOQueueInv, IOQueueTypeOK, queue_getchar_waits, is_queue_empty, Byte
  <1>2. buf' \in [Index -> Byte] /\ head' = head /\ tail' = tail /\ consumer' = consumer
    BY <1>1 DEF queue_getchar_waits, Byte
  <1>3. queue = << >> /\ queue' = << >>
    BY <1>1, <1>2, EmptyRing DEF queue, Ring
  <1>4. ThreadsInv'
    <2>1. thread_block("TASK_BLOCKED") \/ Panic
      BY DEF queue_getchar_waits
    <2>2. ThreadsInv /\ "TASK_BLOCKED" \in Blocking
      BY DEF IOQueueInv, IOQueueTypeOK, ThreadsInv, Blocking
    <2> QED BY <2>1, <2>2, BlockInv, PanicInv
  <1>5. IOQueueTypeOK'
    BY <1>1, <1>2, <1>4 DEF IOQueueInv, IOQueueTypeOK, queue_getchar_waits, Goto, ThreadsInv, Byte
  <1> QED BY <1>2, <1>3, <1>4, <1>5 DEF IOQueueInv, ThreadsInv, NoCharOverwritten

\* What every step does to the characters: nothing, one in, or one out.
LEMMA QueueStep ==
  ASSUME IOQueueInv, [IOQueueNext]_ioVars
  PROVE  /\ IOQueueInv'
         /\ \/ queue' = queue
            \/ queue # << >> /\ queue' = Tail(queue)
            \/ \E c \in Char : Len(queue) < buf_size - 1 /\ queue' = Append(queue, c)
  <1>1. CASE main_enables \/ timer \/ \E t \in Reader : main_starts(t) \/ reader_calls(t)
    BY <1>1, ThreadSteps
  <1>2. CASE keyboard
    BY <1>2, PutStep DEF keyboard
  <1>3. CASE \E t \in Reader : queue_getchar(t)
    BY <1>3, GetStep
  <1>4. CASE \E t \in Reader : queue_getchar_waits(t)
    BY <1>4, WaitStep
  <1>5. CASE UNCHANGED ioVars
    <2>1. UNCHANGED <<threadVars, pc, queueVars>>
      BY <1>5 DEF ioVars
    <2>2. ThreadsInv'
      BY <2>1, NextInv DEF IOQueueInv, IOQueueTypeOK, ThreadsInv
    <2> QED BY <2>1, <2>2, RingUnchanged DEF IOQueueInv, IOQueueTypeOK
  <1> QED BY <1>1, <1>2, <1>3, <1>4, <1>5 DEF IOQueueNext, ReaderStep

\* The invariant holds throughout.
LEMMA IOQueueSafety == IOQueueSpec => []IOQueueInv
  <1>1. IOQueueInv /\ [IOQueueNext]_ioVars => IOQueueInv'
    BY QueueStep
  <1> QED BY IOQueueInitInv, <1>1, PTL DEF IOQueueSpec

\* ioqueue.c: head and tail stay inside buf, and every slot holds a character
\* or a piece of a list pointer.
THEOREM IOQueueTypes == IOQueueSpec => []IOQueueTypeOK
  <1>1. IOQueueInv => IOQueueTypeOK
    BY DEF IOQueueInv
  <1> QED BY <1>1, IOQueueSafety, PTL

\* ioqueue.h declares the lock as a pointer; what its list operations write over
\* the ring never reaches a character that is still to be read.
THEOREM CharactersSurvive == IOQueueSpec => []NoCharOverwritten
  <1>1. IOQueueInv => NoCharOverwritten
    BY DEF IOQueueInv
  <1> QED BY <1>1, IOQueueSafety, PTL

\* queue_putchar and queue_getchar on the ring are a FIFO of buf_size - 1
\* characters, for every size, whatever readers and interrupts do.
THEOREM RingIsFIFO == IOQueueSpec => FIFOImplemented
  <1>1. IOQueueInit => FIFO!FIFOInit
    BY IOQueueInitInv DEF FIFO!FIFOInit
  <1>2. IOQueueInv /\ [IOQueueNext]_ioVars => [FIFO!FIFONext]_queue
    BY QueueStep DEF FIFO!FIFONext, FIFO!Get, FIFO!Put
  <1> QED BY <1>1, <1>2, IOQueueSafety, PTL
          DEF IOQueueSpec, FIFOImplemented, FIFO!FIFOSpec

=============================================================================
