---------------------------- MODULE ContextProofs ----------------------------
(***************************************************************************)
(* The machine level carries out what Threads specifies, so what is proved *)
(* of the scheduler holds for it, for any threads, priorities and mask.    *)
(* Then, word by word, what every kernel stack holds, and that each thread *)
(* gets back the registers, the stack and the flag it left.                *)
(***************************************************************************)
EXTENDS Context, ThreadsProofs

\* Each step of the machine is a step of the scheduler or changes nothing of
\* its state: the stubs' entry and acknowledgement and a thread's own code.
LEMMA ContextStep ==
  ASSUME [ContextNext]_<<threadVars, contextVars>>
  PROVE  [ThreadsNext]_threadVars
  <1>1. CASE UNCHANGED <<threadVars, contextVars>>
    BY <1>1
  <1>2. CASE work \/ VECTOR \/ VECTOR_eoi
    BY <1>2 DEF work, VECTOR, VECTOR_eoi
  <1>3. CASE VECTOR_handler
    BY <1>3 DEF VECTOR_handler, ThreadsNext
  <1>4. CASE \E t \in Thread : context_thread_start(t)
    BY <1>4 DEF context_thread_start, ThreadsNext
  <1>5. CASE context_calls
    BY <1>5 DEF context_calls, ThreadsNext
  <1>6. CASE \E st \in Blocking : context_thread_block(st)
    BY <1>6 DEF context_thread_block, ThreadsNext
  <1>7. CASE context_thread_block_return
    <2>1. PICK old \in BOOLEAN : thread_block_return(old)
      BY <1>7 DEF context_thread_block_return
    <2> QED BY <2>1 DEF ThreadsNext
  <1> QED BY <1>1, <1>2, <1>3, <1>4, <1>5, <1>6, <1>7 DEF ContextNext

\* kernel.S and switch.S implement the scheduling that Threads describes.
LEMMA ContextImplementsThreads == ContextSpec => ThreadsSpec
  <1>1. ContextInit => ThreadsInit
    BY DEF ContextInit
  <1> QED BY <1>1, ContextStep, PTL DEF ContextSpec, ThreadsSpec

\* At the machine level too, the ready list holds each ready thread once.
THEOREM ContextReadyList == ContextSpec => []ReadyListExact
  <1>1. SchedInv => ReadyListExact
    BY DEF SchedInv
  <1> QED BY <1>1, ContextImplementsThreads, SchedulerSafety, PTL

-----------------------------------------------------------------------------
\* The in-service bit is set from the acceptance of a tick to the stub's end of
\* interrupt, and nowhere else: the handler, which may not come back for a
\* long time, runs without it.
InServiceInv == in_service <=> stub = "entered"

\* The end of interrupt precedes every switch (kernel.S): whichever thread runs
\* on, the PIC delivers the next tick.
THEOREM TickAfterTick == ContextSpec => []TimerRearmed
  <1>1. ContextInit => InServiceInv
    BY DEF ContextInit, InServiceInv
  <1>2. InServiceInv /\ [ContextNext]_<<threadVars, contextVars>> => InServiceInv'
    <2> SUFFICES ASSUME InServiceInv, [ContextNext]_<<threadVars, contextVars>>
                 PROVE  InServiceInv'
      OBVIOUS
    <2>1. CASE UNCHANGED <<threadVars, contextVars>>
      BY <2>1 DEF contextVars, InServiceInv
    <2>2. CASE work \/ VECTOR \/ VECTOR_eoi
      BY <2>2 DEF work, VECTOR, VECTOR_eoi, InServiceInv
    <2>3. CASE VECTOR_handler
      BY <2>3 DEF VECTOR_handler, Halts, InServiceInv
    <2>4. CASE \E t \in Thread : context_thread_start(t)
      BY <2>4 DEF context_thread_start, calls, Halts, InServiceInv
    <2>5. CASE context_calls
      BY <2>5 DEF context_calls, calls, Halts, InServiceInv
    <2>6. CASE \E st \in Blocking : context_thread_block(st)
      BY <2>6 DEF context_thread_block, Halts, InServiceInv
    <2>7. CASE context_thread_block_return
      BY <2>7 DEF context_thread_block_return, calls, Halts, InServiceInv
    <2> QED BY <2>1, <2>2, <2>3, <2>4, <2>5, <2>6, <2>7 DEF ContextNext
  <1>3. InServiceInv => TimerRearmed
    BY DEF InServiceInv, TimerRearmed
  <1> QED BY <1>1, <1>2, <1>3, PTL DEF ContextSpec

-----------------------------------------------------------------------------
\* What a stack holds, by what its thread is doing: the frames of switch_to
\* over the chain of calls that led to it, over what the program was doing.
Registers == [Register -> Word]

SegmentsSet(regs) == \A r \in Segments : regs[r] = <<"sel", r>>

\* What a thread counts on (e) is in the registers.
Kept(e, regs) == \A r \in Register : e[r] \in {Lost, regs[r]}

FirstRegisters == called(fresh([r \in Register |-> Zero]))

\* What switch_to leaves on top of a stack, under the registers it pushes.
frame(regs, t, next) ==
  <<regs["ebp"], regs["ebx"], regs["edi"], regs["esi"], ret("schedule"), pcb(t), pcb(next)>>

InTimer == <<ret("intr_timer_handler"), ret("intr_exit")>>
InBlock(t, old) == <<ret("thread_block"), old, <<t, "eip">>>>

\* What switch_to leaves on the stack of the thread it leaves, and the two call
\* chains it is reached by: from the timer's handler and from thread_block.
Framed(regs, t, next, chain) == frame(regs, t, next) \o chain
LeftStack(regs, t, next, frames, under) == Framed(regs, t, next, frames) \o under

TimerStack(t, saved, next, vec, regs) ==
  LeftStack(saved, t, next, InTimer, <<vec>> \o (intr_stack(t, regs, TRUE) \o bottom(t)))

BlockStack(t, saved, next, old) ==
  LeftStack(saved, t, next, InBlock(t, old), bottom(t))

\* A thread that does not run, was created, left by the timer or blocked (blk):
\* its stack is words, and the registers it counts on (e) are to be found there.
SavedAs(t, words, e, blk) ==
  \/ /\ ~blk
     /\ words = thread_stack(t) /\ e = FirstRegisters
  \/ /\ ~blk
     /\ \E saved, regs \in Registers, next \in Thread, vec \in Word :
          /\ words = TimerStack(t, saved, next, vec, regs)
          /\ Kept(e, regs) /\ SegmentsSet(regs)
  \/ /\ blk
     /\ \E saved \in Registers, next \in Thread, old \in Word :
          /\ words = BlockStack(t, saved, next, old)
          /\ Kept(e, called(saved)) /\ SegmentsSet(saved)

\* A thread that runs has its registers, and an empty stack outside thread_block.
RunningAs(t, words, e, regs, blk) ==
  /\ Kept(e, regs)
  /\ IF blk THEN \E old \in Word : words = <<old, <<t, "eip">>>> \o bottom(t)
     ELSE words = bottom(t)

-----------------------------------------------------------------------------
\* What is left of a stack without its first k words.
LEMMA RestOf ==
  ASSUME NEW S, NEW w \in Seq(S), NEW k \in 0..Len(w)
  PROVE  /\ SubSeq(w, k + 1, Len(w)) \in Seq(S)
         /\ Len(SubSeq(w, k + 1, Len(w))) = Len(w) - k
         /\ \A i \in 1..(Len(w) - k) : SubSeq(w, k + 1, Len(w))[i] = w[k + i]
  <1> DEFINE n == Len(w)
  <1>1. n \in Nat /\ k \in 0..n
    BY LenProperties
  <1>2. \A i \in (k + 1)..n : w[i] \in S
    BY ElementOfSeq, SMT
  <1> HIDE DEF n
  <1>3. /\ SubSeq(w, k + 1, n) \in Seq(S)
        /\ Len(SubSeq(w, k + 1, n)) = IF k + 1 <= n THEN n - (k + 1) + 1 ELSE 0
        /\ \A i \in 1..(n - (k + 1) + 1) : SubSeq(w, k + 1, n)[i] = w[(k + 1) + i - 1]
    BY <1>1, <1>2, SubSeqProperties
  <1>4. (IF k + 1 <= n THEN n - (k + 1) + 1 ELSE 0) = n - k
    BY <1>1, SMT
  <1>5. n - (k + 1) + 1 = n - k /\ \A i \in 1..(n - k) : (k + 1) + i - 1 = k + i
    BY <1>1, SMT
  <1>6. \A i \in 1..(n - k) : SubSeq(w, k + 1, n)[i] = w[k + i]
    BY <1>3, <1>5
  <1> QED BY <1>3, <1>4, <1>6 DEF n

\* Words pushed in two parts, with what was there before.
LEMMA Regrouped ==
  ASSUME NEW f \in Seq(Word), NEW c \in Seq(Word), NEW m \in Seq(Word), NEW b \in Seq(Word)
  PROVE  (f \o (c \o m)) \o b = (f \o c) \o (m \o b)
  <1>1. (f \o c) \o m = f \o (c \o m)
    BY ConcatAssociative, SMTT(30)
  <1>2. \A g \in Seq(Word) : (g \o m) \o b = g \o (m \o b)
    BY ConcatAssociative, SMTT(30)
  <1>3. f \o c \in Seq(Word)
    BY ConcatProperties, SMTT(30)
  <1>4. ((f \o c) \o m) \o b = (f \o c) \o (m \o b)
    BY <1>2, <1>3, Zenon
  <1> QED BY <1>1, <1>4, Zenon

\* The first words of a stack and the rest of it.
LEMMA TopAndRest ==
  ASSUME NEW S, NEW top \in Seq(S), NEW rest \in Seq(S)
  PROVE  /\ top \o rest \in Seq(S) /\ Len(top \o rest) = Len(top) + Len(rest)
         /\ \A i \in 1..Len(top) : (top \o rest)[i] = top[i]
         /\ SubSeq(top \o rest, Len(top) + 1, Len(top \o rest)) = rest
  <1> DEFINE w == top \o rest
  <1>1. /\ w \in Seq(S) /\ Len(w) = Len(top) + Len(rest)
        /\ \A i \in 1..(Len(top) + Len(rest)) :
             w[i] = IF i <= Len(top) THEN top[i] ELSE rest[i - Len(top)]
    BY ConcatProperties
  <1>2. Len(top) \in Nat /\ Len(rest) \in Nat
    BY LenProperties
  <1> HIDE DEF w
  <1>3. \A i \in 1..Len(top) : w[i] = top[i]
    BY <1>1, <1>2, SMT
  <1>4. w \in Seq(S) /\ Len(top) \in 0..Len(w) /\ Len(w) - Len(top) = Len(rest)
    BY <1>1, <1>2, SMT
  <1>5. /\ SubSeq(w, Len(top) + 1, Len(w)) \in Seq(S)
        /\ Len(SubSeq(w, Len(top) + 1, Len(w))) = Len(w) - Len(top)
        /\ \A i \in 1..(Len(w) - Len(top)) : SubSeq(w, Len(top) + 1, Len(w))[i] = w[Len(top) + i]
    BY <1>4, RestOf, SMTT(30)
  <1>6. \A i \in 1..Len(rest) : w[Len(top) + i] = rest[i]
    <2> SUFFICES ASSUME NEW i \in 1..Len(rest) PROVE w[Len(top) + i] = rest[i]
      OBVIOUS
    <2>1. /\ Len(top) + i \in 1..(Len(top) + Len(rest))
          /\ ~(Len(top) + i <= Len(top)) /\ (Len(top) + i) - Len(top) = i
      BY <1>2, SMT
    <2> QED BY <1>1, <2>1, Zenon
  <1>7. \A i \in 1..Len(rest) : SubSeq(w, Len(top) + 1, Len(w))[i] = rest[i]
    BY <1>4, <1>5, <1>6
  <1>8. SubSeq(w, Len(top) + 1, Len(w)) = rest
    BY <1>4, <1>5, <1>7, SeqEqual
  <1> QED BY <1>1, <1>3, <1>8 DEF w

\* What lies under a thread's stack.
LEMMA BottomWords ==
  ASSUME NEW t \in Thread
  PROVE  bottom(t) \in Seq(Word) /\ Len(bottom(t)) = 3
  <1> DEFINE x == <<t, "unused_retaddr">>
             y == <<t, "function">>
             z == <<t, "func_args">>
  <1>1. x \in Word /\ y \in Word /\ z \in Word
    BY DEF Word, Name
  <1> HIDE DEF x, y, z
  <1>2. <<x, y, z>> \in Seq(Word) /\ Len(<<x, y, z>>) = 3
    BY <1>1
  <1> QED BY <1>2 DEF bottom, x, y, z

\* The words that the code pushes are words.
LEMMA PushedWords ==
  ASSUME NEW t \in Thread, NEW n \in Thread, NEW regs \in Registers, NEW w \in Word
  PROVE  /\ frame(regs, t, n) \in Seq(Word) /\ Len(frame(regs, t, n)) = 7
         /\ InTimer \in Seq(Word) /\ Len(InTimer) = 2
         /\ InBlock(t, w) \in Seq(Word) /\ Len(InBlock(t, w)) = 3
         /\ <<w>> \in Seq(Word) /\ Len(<<w>>) = 1
         /\ <<w, <<t, "eip">>>> \in Seq(Word)
         /\ Zero \in Word /\ Lost \in Word
         /\ <<t, "eip">> \in Word
  <1>1. \A s \in {"pcb", "unused_retaddr", "function", "func_args", "eip"} : <<t, s>> \in Word /\ <<n, s>> \in Word
    BY DEF Word, Name
  <1>2. \A s \in {"schedule", "intr_timer_handler", "intr_exit", "thread_block", "kernel_thread"} : ret(s) \in Word
    BY DEF Word, Name, ret
  <1>3. regs["ebp"] \in Word /\ regs["ebx"] \in Word /\ regs["edi"] \in Word /\ regs["esi"] \in Word
    BY DEF Registers, Register, CalleeSaved
  <1>4. Zero \in Word /\ Lost \in Word
    BY DEF Word, Name, Zero, Lost
  <1>6. frame(regs, t, n) \in Seq(Word) /\ Len(frame(regs, t, n)) = 7
    <2> DEFINE x == ret("schedule") y == pcb(t) z == pcb(n)
               p == regs["ebp"] q == regs["ebx"] u == regs["edi"] v == regs["esi"]
    <2>1. x \in Word /\ y \in Word /\ z \in Word /\ p \in Word /\ q \in Word /\ u \in Word /\ v \in Word
      BY <1>1, <1>2, <1>3 DEF pcb
    <2> HIDE DEF x, y, z, p, q, u, v
    <2>2. <<p, q, u, v, x, y, z>> \in Seq(Word) /\ Len(<<p, q, u, v, x, y, z>>) = 7
      BY <2>1
    <2> QED BY <2>2 DEF frame, x, y, z, p, q, u, v
  <1>7. InTimer \in Seq(Word) /\ Len(InTimer) = 2
    BY <1>2 DEF InTimer
  <1>8. InBlock(t, w) \in Seq(Word) /\ Len(InBlock(t, w)) = 3
    <2> DEFINE x == ret("thread_block") z == <<t, "eip">>
    <2>1. x \in Word /\ z \in Word
      BY <1>1, <1>2
    <2> HIDE DEF x, z
    <2>2. <<x, w, z>> \in Seq(Word) /\ Len(<<x, w, z>>) = 3
      BY <2>1
    <2> QED BY <2>2 DEF InBlock, x, z
  <1>9. <<w>> \in Seq(Word) /\ Len(<<w>>) = 1
    OBVIOUS
  <1>10. <<t, "eip">> \in Word /\ <<w, <<t, "eip">>>> \in Seq(Word)
    <2> DEFINE z == <<t, "eip">>
    <2>1. z \in Word
      BY <1>1
    <2> HIDE DEF z
    <2>2. <<w, z>> \in Seq(Word)
      BY <2>1
    <2> QED BY <2>1, <2>2 DEF z
  <1> QED BY <1>4, <1>6, <1>7, <1>8, <1>9, <1>10

\* switch_to on top of a call chain: nine words under the timer's handler, ten
\* inside thread_block.  The arguments of switch_to are the sixth and seventh.
LEMMA FrameWords ==
  ASSUME NEW regs \in Registers, NEW t \in Thread, NEW next \in Thread,
         NEW chain \in Seq(Word)
  PROVE  LET w == Framed(regs, t, next, chain)
         IN  /\ w \in Seq(Word) /\ Len(w) = 7 + Len(chain)
             /\ w[1] = regs["ebp"] /\ w[2] = regs["ebx"]
             /\ w[3] = regs["edi"] /\ w[4] = regs["esi"]
             /\ w[5] = ret("schedule") /\ w[6] = pcb(t) /\ w[7] = pcb(next)
             /\ \A i \in 1..Len(chain) : w[7 + i] = chain[i]
  <1> DEFINE f == frame(regs, t, next)
             w == f \o chain
  <1>1. /\ f[1] = regs["ebp"] /\ f[2] = regs["ebx"] /\ f[3] = regs["edi"] /\ f[4] = regs["esi"]
        /\ f[5] = ret("schedule") /\ f[6] = pcb(t) /\ f[7] = pcb(next) /\ Len(f) = 7
    <2> DEFINE a == regs["ebp"] b == regs["ebx"] c == regs["edi"] d == regs["esi"]
               x == ret("schedule") y == pcb(t) z == pcb(next)
    <2> HIDE DEF a, b, c, d, x, y, z
    <2> DEFINE g == <<a, b, c, d, x, y, z>>
    <2>1. /\ g[1] = a /\ g[2] = b /\ g[3] = c /\ g[4] = d /\ g[5] = x /\ g[6] = y /\ g[7] = z
          /\ Len(g) = 7
      OBVIOUS
    <2> QED BY <2>1 DEF frame, a, b, c, d, x, y, z
  <1> HIDE DEF f
  <1>2. f \in Seq(Word)
    <2>1. Lost \in Word
      BY DEF Lost, Word, Name
    <2> QED BY <2>1, PushedWords DEF f
  <1>3. /\ w \in Seq(Word) /\ Len(w) = Len(f) + Len(chain)
        /\ \A i \in 1..(Len(f) + Len(chain)) :
             w[i] = IF i <= Len(f) THEN f[i] ELSE chain[i - Len(f)]
    BY <1>2, ConcatProperties
  <1> HIDE DEF w
  <1>4. Len(chain) \in Nat
    BY LenProperties
  <1>5. \A i \in 1..7 : w[i] = f[i]
    BY <1>1, <1>3, <1>4, SMT
  <1>6. \A i \in 1..Len(chain) : w[7 + i] = chain[i]
    BY <1>1, <1>3, <1>4, SMT
  <1>7. /\ w[1] = f[1] /\ w[2] = f[2] /\ w[3] = f[3] /\ w[4] = f[4] /\ w[5] = f[5]
        /\ w[6] = f[6] /\ w[7] = f[7]
    <2>1. 1 \in 1..7 /\ 2 \in 1..7 /\ 3 \in 1..7 /\ 4 \in 1..7 /\ 5 \in 1..7 /\ 6 \in 1..7 /\ 7 \in 1..7
      BY SMT
    <2> QED BY <1>5, <2>1, Zenon
  <1> QED BY <1>1, <1>3, <1>6, <1>7 DEF w, f, Framed

\* Where a stub's words hold register r.
Place(r) == CHOOSE i \in 1..12 : Pushed[i] = r

\* What an entry stub pushes: a word for each register, found again under its
\* place in Pushed, the error code, and the three words of the CPU.
LEMMA StubWords ==
  ASSUME NEW t \in Thread, NEW regs \in Registers
  PROVE  /\ intr_stack(t, regs, TRUE) \in Seq(Word) /\ Len(intr_stack(t, regs, TRUE)) = 16
         /\ \A r \in Register : /\ Place(r) \in 1..12
                                /\ intr_stack(t, regs, TRUE)[Place(r)] = regs[r]
         /\ intr_stack(t, regs, TRUE)[16] = eflags(TRUE)
  <1> DEFINE low == [i \in 1..12 |-> IF Pushed[i] \in Register THEN regs[Pushed[i]] ELSE Lost]
             cpus == << <<"0", "err_code">>, <<t, "eip">>, <<"sel", "cs">>, eflags(TRUE) >>
  <1>1. low \in Seq(Word) /\ Len(low) = 12
    <2>1. \A i \in 1..12 : low[i] \in Word
      <3>1. Lost \in Word
        BY DEF Lost, Word, Name
      <3> QED BY <3>1 DEF Registers
    <2> QED BY <2>1
  <1>2. cpus \in Seq(Word) /\ Len(cpus) = 4 /\ cpus[4] = eflags(TRUE)
    <2> DEFINE a == <<"0", "err_code">> b == <<t, "eip">> c == <<"sel", "cs">> d == eflags(TRUE)
    <2>1. a \in Word /\ b \in Word /\ c \in Word
      BY DEF Word, Name
    <2>2. d \in Word
      BY DEF Word, Name, eflags
    <2> HIDE DEF a, b, c, d
    <2>3. <<a, b, c, d>> \in Seq(Word) /\ Len(<<a, b, c, d>>) = 4 /\ <<a, b, c, d>>[4] = d
      BY <2>1, <2>2
    <2> QED BY <2>3 DEF a, b, c, d
  <1>3. \A r \in Register : /\ Place(r) \in 1..12
                            /\ Pushed[Place(r)] = r
    <2> SUFFICES ASSUME NEW r \in Register PROVE \E i \in 1..12 : Pushed[i] = r
      BY DEF Place
    <2>1. /\ Pushed[1] = "edi" /\ Pushed[2] = "esi" /\ Pushed[3] = "ebp" /\ Pushed[5] = "ebx"
          /\ Pushed[6] = "edx" /\ Pushed[7] = "ecx" /\ Pushed[8] = "eax" /\ Pushed[9] = "gs"
          /\ Pushed[10] = "fs" /\ Pushed[11] = "es" /\ Pushed[12] = "ds"
      BY DEF Pushed
    <2>2. r \in {"edi", "esi", "ebp", "ebx", "edx", "ecx", "eax", "gs", "fs", "es", "ds"}
      BY DEF Register, Segments, CalleeSaved, Scratch
    <2> QED BY <2>1, <2>2
  <1>4. \A r \in Register : low[Place(r)] = regs[r]
    BY <1>3
  <1> DEFINE w == intr_stack(t, regs, TRUE)
  <1>5. w = low \o cpus
    BY DEF intr_stack
  <1> HIDE DEF low, cpus, w
  <1>6. /\ w \in Seq(Word) /\ Len(w) = 16
        /\ \A i \in 1..(12 + 4) : w[i] = IF i <= 12 THEN low[i] ELSE cpus[i - 12]
    <2>1. /\ low \o cpus \in Seq(Word) /\ Len(low \o cpus) = Len(low) + Len(cpus)
          /\ \A i \in 1..(Len(low) + Len(cpus)) :
               (low \o cpus)[i] = IF i <= Len(low) THEN low[i] ELSE cpus[i - Len(low)]
      BY <1>1, <1>2, ConcatProperties
    <2>2. Len(low) + Len(cpus) = 16 /\ 12 + 4 = 16
      BY <1>1, <1>2, SMT
    <2> QED BY <1>1, <1>2, <1>5, <2>1, <2>2, Zenon
  <1>7. w[16] = eflags(TRUE)
    <2>1. 16 \in 1..(12 + 4) /\ ~(16 <= 12) /\ 16 - 12 = 4
      BY SMT
    <2> QED BY <1>2, <1>6, <2>1, Zenon
  <1>8. \A i \in 1..12 : w[i] = low[i]
    BY <1>6, SMT
  <1> QED BY <1>3, <1>4, <1>6, <1>7, <1>8 DEF w

\* intr_exit takes off exactly what a stub pushed, and restores the registers
\* and the flag.
LEMMA ExitRestores ==
  ASSUME NEW t \in Thread, NEW regs \in Registers, NEW vec \in Word
  PROVE  LET w == <<vec>> \o (intr_stack(t, regs, TRUE) \o bottom(t))
         IN  /\ w \in Seq(Word) /\ Len(w) = 20
             /\ intr_exit(w) = Machine(regs, TRUE, bottom(t))
  <1> DEFINE is == intr_stack(t, regs, TRUE)
             v == <<vec>>
             b == bottom(t)
             top == v \o is
             w == v \o (is \o b)
  <1>1. /\ is \in Seq(Word) /\ Len(is) = 16 /\ is[16] = eflags(TRUE)
        /\ \A r \in Register : Place(r) \in 1..12 /\ is[Place(r)] = regs[r]
    BY StubWords
  <1>2. b \in Seq(Word) /\ Len(b) = 3
    BY BottomWords
  <1>a. v \in Seq(Word) /\ Len(v) = 1
    OBVIOUS
  <1> HIDE DEF is, v, b
  <1>b. v \in Seq(Word) /\ is \in Seq(Word) /\ b \in Seq(Word)
    BY <1>1, <1>2, <1>a
  <1>3. w = top \o b
    BY <1>b, ConcatAssociative
  <1>4. /\ top \in Seq(Word) /\ Len(top) = 1 + 16
        /\ \A i \in 1..(1 + 16) : top[i] = IF i <= 1 THEN v[i] ELSE is[i - 1]
    <2>1. /\ top \in Seq(Word) /\ Len(top) = Len(v) + Len(is)
          /\ \A i \in 1..(Len(v) + Len(is)) : top[i] = IF i <= Len(v) THEN v[i] ELSE is[i - Len(v)]
      BY <1>1, <1>a, ConcatProperties
    <2> QED BY <1>1, <1>a, <2>1, Zenon
  <1> HIDE DEF top, w
  <1>5. \A i \in 1..16 : top[1 + i] = is[i]
    <2> SUFFICES ASSUME NEW i \in 1..16 PROVE top[1 + i] = is[i]
      OBVIOUS
    <2>1. 1 + i \in 1..(1 + 16) /\ ~(1 + i <= 1) /\ (1 + i) - 1 = i
      BY SMT
    <2> QED BY <1>4, <2>1, Zenon
  <1>6. /\ w \in Seq(Word) /\ Len(w) = Len(top) + Len(b)
        /\ \A i \in 1..Len(top) : w[i] = top[i]
        /\ SubSeq(w, Len(top) + 1, Len(w)) = b
    BY <1>2, <1>3, <1>4, TopAndRest, ZenonT(60)
  <1>7. Len(top) = 17 /\ Len(top) + 1 = 18 /\ Len(w) = 20
    <2>1. Len(w) = (1 + 16) + 3
      BY <1>2, <1>4, <1>6
    <2> QED BY <1>4, <2>1, SMT
  <1>8. \A i \in 1..16 : w[1 + i] = is[i]
    <2> SUFFICES ASSUME NEW i \in 1..16 PROVE w[1 + i] = is[i]
      OBVIOUS
    <2>1. 1 + i \in 1..17
      BY SMT
    <2> QED BY <1>5, <1>6, <1>7, <2>1
  <1>9. \A r \in Register : w[1 + Place(r)] = regs[r]
    <2> SUFFICES ASSUME NEW r \in Register PROVE w[1 + Place(r)] = regs[r]
      OBVIOUS
    <2>1. Place(r) \in 1..16
      BY <1>1, SMT
    <2> QED BY <1>1, <1>8, <2>1
  <1>10. w[17] = eflags(TRUE)
    <2>1. 16 \in 1..16 /\ 1 + 16 = 17
      BY SMT
    <2>2. w[1 + 16] = is[16]
      BY <1>8, <2>1
    <2> QED BY <1>1, <2>1, <2>2
  <1>11. [r \in Register |-> w[1 + Place(r)]] = regs
    <2>1. regs = [r \in Register |-> regs[r]]
      BY DEF Registers
    <2> QED BY <1>9, <2>1
  <1>12. SubSeq(w, 18, Len(w)) = b
    BY <1>6, <1>7
  <1>13. intr_exit(w) = Machine([r \in Register |-> w[1 + Place(r)]],
                                w[17] = eflags(TRUE), SubSeq(w, 18, Len(w)))
    BY DEF intr_exit, Place
  <1>14. w \in Seq(Word) /\ Len(w) = 20 /\ intr_exit(w) = Machine(regs, TRUE, b)
    BY <1>6, <1>7, <1>10, <1>11, <1>12, <1>13
  <1> QED BY <1>14 DEF w, is, v, b

\* A thread that was created and never ran begins in kernel_thread.
LEMMA NewThreadResumes ==
  ASSUME NEW t \in Thread, NEW c \in Registers, SegmentsSet(c)
  PROVE  /\ thread_stack(t) \in Seq(Word) /\ Len(thread_stack(t)) = 8
         /\ resumed(thread_stack(t), c) = Machine(FirstRegisters, TRUE, bottom(t))
  <1> DEFINE z == Zero
             k == ret("kernel_thread")
             b == bottom(t)
             top == <<z, z, z, z, k>>
             w == top \o b
  <1>1. z \in Word /\ k \in Word
    BY DEF Zero, ret, Word, Name
  <1>2. b \in Seq(Word) /\ Len(b) = 3
    BY BottomWords
  <1>3. w = thread_stack(t)
    BY DEF thread_stack
  <1> HIDE DEF z, k, b
  <1>4. /\ top \in Seq(Word) /\ Len(top) = 5
        /\ top[1] = z /\ top[2] = z /\ top[3] = z /\ top[4] = z /\ top[5] = k
    BY <1>1
  <1> HIDE DEF top
  <1>5. /\ w \in Seq(Word) /\ Len(w) = Len(top) + Len(b)
        /\ \A i \in 1..Len(top) : w[i] = top[i]
        /\ SubSeq(w, Len(top) + 1, Len(w)) = b
    BY <1>2, <1>4, TopAndRest, ZenonT(60)
  <1> HIDE DEF w
  <1>6. Len(w) = 8 /\ Len(top) + 1 = 6 /\ 1 \in 1..5 /\ 2 \in 1..5 /\ 3 \in 1..5 /\ 4 \in 1..5 /\ 5 \in 1..5
    <2>1. Len(w) = 5 + 3
      BY <1>2, <1>4, <1>5
    <2> QED BY <1>4, <2>1, SMT
  <1>7. /\ w[1] = z /\ w[2] = z /\ w[3] = z /\ w[4] = z /\ w[5] = k
        /\ SubSeq(w, 6, Len(w)) = b
    BY <1>4, <1>5, <1>6, Zenon
  <1>8. called(switch_to_pops(w, c)) = FirstRegisters
    <2> DEFINE e == fresh([r \in Register |-> Zero])
    <2>1. \A r \in Register : called(switch_to_pops(w, c))[r] = called(e)[r]
      <3> SUFFICES ASSUME NEW r \in Register
                   PROVE  called(switch_to_pops(w, c))[r] = called(e)[r]
        OBVIOUS
      <3>1. CASE r \in Scratch
        BY <3>1 DEF called
      <3>2. CASE r \in Segments
        <4>1. r \notin Scratch /\ r \notin CalleeSaved
          BY <3>2 DEF Segments, Scratch, CalleeSaved
        <4>2. switch_to_pops(w, c)[r] = c[r]
          BY <4>1 DEF switch_to_pops, Registers, CalleeSaved
        <4> QED BY <3>2, <4>1, <4>2 DEF called, fresh, SegmentsSet
      <3>3. CASE r \in CalleeSaved
        <4>1. r \notin Scratch /\ r \notin Segments
          BY <3>3 DEF Segments, Scratch, CalleeSaved
        <4>2. switch_to_pops(w, c)[r] = Zero
          BY <1>7, <3>3 DEF switch_to_pops, Registers, CalleeSaved, z
        <4> QED BY <4>1, <4>2 DEF called, fresh
      <3> QED BY <3>1, <3>2, <3>3 DEF Register
    <2> QED BY <2>1 DEF called, FirstRegisters
  <1>9. resumed(w, c) = Machine(FirstRegisters, TRUE, b)
    BY <1>7, <1>8 DEF resumed, kernel_thread, k
  <1> QED BY <1>3, <1>5, <1>6, <1>9 DEF b

\* switch_to takes the registers off, and schedule and its caller return: a
\* chain of three calls or more is left behind the caller's frame.
LEMMA ResumedWords ==
  ASSUME NEW w \in Seq(Word), Len(w) >= 10
  PROVE  LET rest == SubSeq(w, 6, Len(w))
         IN  /\ rest[3] = w[8]
             /\ SubSeq(rest, 4, Len(rest)) = SubSeq(w, 9, Len(w))
             /\ SubSeq(rest, 5, Len(rest)) = SubSeq(w, 10, Len(w))
  <1> DEFINE n == Len(w)
             rest == SubSeq(w, 6, n)
             m == Len(rest)
  <1>1. n \in Nat /\ n >= 10
    BY LenProperties
  <1>2. 5 \in 0..n /\ 5 + 1 = 6 /\ 8 \in 0..n /\ 8 + 1 = 9 /\ 9 \in 0..n /\ 9 + 1 = 10
    BY <1>1, SMT
  <1>3. /\ rest \in Seq(Word) /\ Len(rest) = n - 5
        /\ \A i \in 1..(n - 5) : rest[i] = w[5 + i]
    BY <1>2, RestOf, SMTT(30)
  <1>4. /\ SubSeq(w, 9, n) \in Seq(Word) /\ Len(SubSeq(w, 9, n)) = n - 8
        /\ \A i \in 1..(n - 8) : SubSeq(w, 9, n)[i] = w[8 + i]
    BY <1>2, RestOf, SMTT(30)
  <1>5. /\ SubSeq(w, 10, n) \in Seq(Word) /\ Len(SubSeq(w, 10, n)) = n - 9
        /\ \A i \in 1..(n - 9) : SubSeq(w, 10, n)[i] = w[9 + i]
    BY <1>2, RestOf, SMTT(30)
  <1> HIDE DEF rest, n
  <1>6. /\ m = n - 5 /\ 3 \in 0..m /\ 3 + 1 = 4 /\ 4 \in 0..m /\ 4 + 1 = 5
        /\ m - 3 = n - 8 /\ m - 4 = n - 9 /\ 3 \in 1..(n - 5) /\ 5 + 3 = 8
    BY <1>1, <1>3, SMT
  <1>7. /\ SubSeq(rest, 4, m) \in Seq(Word) /\ Len(SubSeq(rest, 4, m)) = m - 3
        /\ \A i \in 1..(m - 3) : SubSeq(rest, 4, m)[i] = rest[3 + i]
    BY <1>3, <1>6, RestOf, SMTT(30)
  <1>8. /\ SubSeq(rest, 5, m) \in Seq(Word) /\ Len(SubSeq(rest, 5, m)) = m - 4
        /\ \A i \in 1..(m - 4) : SubSeq(rest, 5, m)[i] = rest[4 + i]
    BY <1>3, <1>6, RestOf, SMTT(30)
  <1>9. SubSeq(rest, 4, m) = SubSeq(w, 9, n)
    <2>1. \A i \in 1..(n - 8) : 3 + i \in 1..(n - 5) /\ 5 + (3 + i) = 8 + i
      BY <1>1, SMT
    <2>2. \A i \in 1..(n - 8) : SubSeq(rest, 4, m)[i] = SubSeq(w, 9, n)[i]
      BY <1>3, <1>4, <1>6, <1>7, <2>1, SMTT(30)
    <2> QED BY <1>4, <1>6, <1>7, <2>2, SeqEqual, SMTT(30)
  <1>10. SubSeq(rest, 5, m) = SubSeq(w, 10, n)
    <2>1. \A i \in 1..(n - 9) : 4 + i \in 1..(n - 5) /\ 5 + (4 + i) = 9 + i
      BY <1>1, SMT
    <2>2. \A i \in 1..(n - 9) : SubSeq(rest, 5, m)[i] = SubSeq(w, 10, n)[i]
      BY <1>3, <1>5, <1>6, <1>8, <2>1, SMTT(30)
    <2> QED BY <1>5, <1>6, <1>8, <2>2, SeqEqual, SMTT(30)
  <1>11. rest[3] = w[8]
    BY <1>3, <1>6
  <1> QED BY <1>9, <1>10, <1>11 DEF rest, n

\* A thread that the timer's handler left returns through intr_exit.
LEMMA InterruptedResumes ==
  ASSUME NEW t \in Thread, NEW saved \in Registers, NEW regs \in Registers,
         NEW next \in Thread, NEW vec \in Word, NEW c \in Registers
  PROVE  /\ TimerStack(t, saved, next, vec, regs) \in Seq(Word)
         /\ Len(TimerStack(t, saved, next, vec, regs)) = 29
         /\ resumed(TimerStack(t, saved, next, vec, regs), c) = Machine(regs, TRUE, bottom(t))
  <1> DEFINE chain == InTimer
             top == Framed(saved, t, next, chain)
             low == <<vec>> \o (intr_stack(t, regs, TRUE) \o bottom(t))
             w == top \o low
  <1>1. chain \in Seq(Word) /\ Len(chain) = 2
    BY PushedWords
  <1>2. /\ chain[1] = ret("intr_timer_handler") /\ 7 + 2 = 9 /\ 7 + 1 = 8 /\ 1 \in 1..2
    BY DEF InTimer
  <1> HIDE DEF chain
  <1>3. /\ top \in Seq(Word) /\ Len(top) = 9
        /\ top[5] = ret("schedule") /\ top[8] = ret("intr_timer_handler")
    <2> HIDE DEF low, w
    <2>a. top \in Seq(Word) /\ Len(top) = 7 + Len(chain)
      BY <1>1, FrameWords, SMTT(10), ZenonT(60)
    <2>b. top[5] = ret("schedule") /\ \A i \in 1..Len(chain) : top[7 + i] = chain[i]
      BY <1>1, FrameWords, SMTT(10), ZenonT(60)
    <2>1. /\ top \in Seq(Word) /\ Len(top) = 7 + Len(chain) /\ top[5] = ret("schedule")
          /\ \A i \in 1..Len(chain) : top[7 + i] = chain[i]
      BY <2>a, <2>b
    <2> HIDE DEF top
    <2>2. top[7 + 1] = chain[1]
      BY <1>1, <1>2, <2>1
    <2> QED BY <1>1, <1>2, <2>1, <2>2
  <1>4. low \in Seq(Word) /\ Len(low) = 20 /\ intr_exit(low) = Machine(regs, TRUE, bottom(t))
    BY ExitRestores
  <1> HIDE DEF top, low
  <1>5. /\ w \in Seq(Word) /\ Len(w) = Len(top) + Len(low)
        /\ \A i \in 1..Len(top) : w[i] = top[i]
        /\ SubSeq(w, Len(top) + 1, Len(w)) = low
    BY <1>3, <1>4, TopAndRest, ZenonT(60)
  <1> HIDE DEF w
  <1>6. /\ Len(w) = 29 /\ Len(w) >= 10 /\ 5 \in 1..9 /\ 8 \in 1..9 /\ 9 + 1 = 10
    <2>1. Len(w) = 9 + 20
      BY <1>3, <1>4, <1>5
    <2> QED BY <2>1, SMT
  <1>7. w[5] = ret("schedule") /\ w[8] = ret("intr_timer_handler") /\ SubSeq(w, 10, Len(w)) = low
    BY <1>3, <1>5, <1>6
  <1>8. LET rest == SubSeq(w, 6, Len(w))
        IN  rest[3] = w[8] /\ SubSeq(rest, 5, Len(rest)) = low
    BY <1>5, <1>6, <1>7, ResumedWords
  <1>9. ret("schedule") # ret("kernel_thread") /\ ret("intr_timer_handler") # ret("thread_block")
    BY DEF ret
  <1>10. resumed(w, c) = intr_exit(low)
    BY <1>7, <1>8, <1>9 DEF resumed
  <1>11. w \in Seq(Word) /\ Len(w) = 29 /\ resumed(w, c) = Machine(regs, TRUE, bottom(t))
    BY <1>4, <1>5, <1>6, <1>10
  <1> QED BY <1>11 DEF w, top, low, chain, TimerStack, LeftStack

\* A thread that blocked goes on behind the call of schedule in thread_block,
\* with the registers a C function preserves, its flag still to be set.
LEMMA BlockedResumes ==
  ASSUME NEW t \in Thread, NEW saved \in Registers, SegmentsSet(saved),
         NEW next \in Thread, NEW old \in Word, NEW c \in Registers, SegmentsSet(c)
  PROVE  /\ BlockStack(t, saved, next, old) \in Seq(Word)
         /\ Len(BlockStack(t, saved, next, old)) = 13
         /\ resumed(BlockStack(t, saved, next, old), c)
              = Machine(called(saved), FALSE, <<old, <<t, "eip">>>> \o bottom(t))
  <1> DEFINE f == frame(saved, t, next)
             chain == <<ret("thread_block")>>
             mine == <<old, <<t, "eip">>>>
             b == bottom(t)
             top == Framed(saved, t, next, chain)
             low == mine \o b
             w == top \o low
  <1>1. /\ f \in Seq(Word) /\ mine \in Seq(Word) /\ b \in Seq(Word) /\ Len(b) = 3
    BY PushedWords, BottomWords
  <1>2. chain \in Seq(Word) /\ Len(chain) = 1 /\ chain[1] = ret("thread_block")
    <2> DEFINE x == ret("thread_block")
    <2>1. x \in Word
      BY DEF ret, Word, Name
    <2> HIDE DEF x
    <2>2. <<x>> \in Seq(Word) /\ Len(<<x>>) = 1 /\ <<x>>[1] = x
      BY <2>1
    <2> QED BY <2>2 DEF x
  <1>3. Len(mine) = 2
    OBVIOUS
  <1>4. InBlock(t, old) = chain \o mine
    BY DEF InBlock
  <1>5. InBlock(t, old) \in Seq(Word)
    BY PushedWords
  <1> HIDE DEF mine, chain, b
  <1>6. (f \o InBlock(t, old)) \o b = w
    <2>1. top = f \o chain
      BY DEF Framed
    <2> HIDE DEF f, top
    <2>a. f \in Seq(Word) /\ chain \in Seq(Word) /\ mine \in Seq(Word) /\ b \in Seq(Word)
      BY <1>1, <1>2
    <2>b. \A x, y, u, z \in Seq(Word) : (x \o (y \o u)) \o z = (x \o y) \o (u \o z)
      BY Regrouped
    <2>2. (f \o (chain \o mine)) \o b = (f \o chain) \o (mine \o b)
      BY <2>a, <2>b, SMTT(30), ZenonT(60)
    <2> QED BY <1>4, <2>1, <2>2, Zenon
  <1>7. /\ top \in Seq(Word) /\ Len(top) = 7 + Len(chain)
        /\ top[1] = saved["ebp"] /\ top[2] = saved["ebx"]
        /\ top[3] = saved["edi"] /\ top[4] = saved["esi"]
        /\ top[5] = ret("schedule")
        /\ \A i \in 1..Len(chain) : top[7 + i] = chain[i]
    <2>1. chain \in Seq(Word)
      BY <1>2
    <2> HIDE DEF low, w
    <2>2. /\ Framed(saved, t, next, chain) \in Seq(Word)
          /\ Len(Framed(saved, t, next, chain)) = 7 + Len(chain)
      BY <2>1, FrameWords, SMTT(10), ZenonT(60)
    <2>3. /\ Framed(saved, t, next, chain)[1] = saved["ebp"]
          /\ Framed(saved, t, next, chain)[2] = saved["ebx"]
          /\ Framed(saved, t, next, chain)[3] = saved["edi"]
          /\ Framed(saved, t, next, chain)[4] = saved["esi"]
      BY <2>1, FrameWords, SMTT(10), ZenonT(60)
    <2>4. /\ Framed(saved, t, next, chain)[5] = ret("schedule")
          /\ \A i \in 1..Len(chain) : Framed(saved, t, next, chain)[7 + i] = chain[i]
      BY <2>1, FrameWords, SMTT(10), ZenonT(60)
    <2> QED BY <2>2, <2>3, <2>4
  <1> HIDE DEF top
  <1>8. Len(top) = 8 /\ top[8] = ret("thread_block")
    <2>1. 7 + 1 = 8 /\ 1 \in 1..1
      BY SMT
    <2> QED BY <1>2, <1>7, <2>1
  <1>9. low \in Seq(Word) /\ Len(low) = 5
    <2>1. low \in Seq(Word) /\ Len(low) = Len(mine) + Len(b)
      BY <1>1, ConcatProperties
    <2> QED BY <1>1, <1>3, <2>1, SMT
  <1> HIDE DEF low
  <1>10. /\ w \in Seq(Word) /\ Len(w) = Len(top) + Len(low)
         /\ \A i \in 1..Len(top) : w[i] = top[i]
         /\ SubSeq(w, Len(top) + 1, Len(w)) = low
    BY <1>7, <1>9, TopAndRest, ZenonT(60)
  <1> HIDE DEF w
  <1>11. /\ Len(w) = 13 /\ Len(w) >= 10 /\ 8 + 1 = 9
         /\ 1 \in 1..8 /\ 2 \in 1..8 /\ 3 \in 1..8 /\ 4 \in 1..8 /\ 5 \in 1..8 /\ 8 \in 1..8
    <2>1. Len(w) = 8 + 5
      BY <1>8, <1>9, <1>10
    <2> QED BY <2>1, SMT
  <1>12. /\ w[1] = saved["ebp"] /\ w[2] = saved["ebx"] /\ w[3] = saved["edi"] /\ w[4] = saved["esi"]
         /\ w[5] = ret("schedule") /\ w[8] = ret("thread_block") /\ SubSeq(w, 9, Len(w)) = low
    BY <1>7, <1>8, <1>10, <1>11, Zenon
  <1>13. LET rest == SubSeq(w, 6, Len(w))
         IN  rest[3] = w[8] /\ SubSeq(rest, 4, Len(rest)) = low
    BY <1>10, <1>11, <1>12, ResumedWords
  <1>14. ret("schedule") # ret("kernel_thread")
    BY DEF ret
  <1>15. called(switch_to_pops(w, c)) = called(saved)
    <2>1. \A r \in Register : called(switch_to_pops(w, c))[r] = called(saved)[r]
      <3> SUFFICES ASSUME NEW r \in Register
                   PROVE  called(switch_to_pops(w, c))[r] = called(saved)[r]
        OBVIOUS
      <3>1. CASE r \in Scratch
        BY <3>1 DEF called
      <3>2. CASE r \in Segments
        <4>1. r \notin Scratch /\ r \notin CalleeSaved
          BY <3>2 DEF Segments, Scratch, CalleeSaved
        <4>2. switch_to_pops(w, c)[r] = c[r]
          BY <4>1 DEF switch_to_pops, Registers, CalleeSaved
        <4> QED BY <3>2, <4>1, <4>2 DEF called, SegmentsSet
      <3>3. CASE r \in CalleeSaved
        <4>1. r \notin Scratch
          BY <3>3 DEF Scratch, CalleeSaved
        <4>2. switch_to_pops(w, c)[r] = saved[r]
          BY <1>12, <3>3 DEF switch_to_pops, Registers, Register, CalleeSaved
        <4> QED BY <4>1, <4>2 DEF called
      <3> QED BY <3>1, <3>2, <3>3 DEF Register
    <2> QED BY <2>1 DEF called
  <1>16. resumed(w, c) = Machine(called(saved), FALSE, low)
    BY <1>12, <1>13, <1>14, <1>15 DEF resumed
  <1>17. w \in Seq(Word) /\ Len(w) = 13
    BY <1>10, <1>11
  <1>18. w = BlockStack(t, saved, next, old)
    BY <1>6 DEF BlockStack, LeftStack, Framed, f, b
  <1>19. resumed(w, c) = Machine(called(saved), FALSE, <<old, <<t, "eip">>>> \o bottom(t))
    BY <1>16 DEF low, mine, b
  <1> QED BY <1>11, <1>17, <1>18, <1>19

\* A C function leaves registers that are words, and the segments as they are.
LEMMA CalledRegisters ==
  ASSUME NEW regs \in Registers
  PROVE  /\ called(regs) \in Registers
         /\ SegmentsSet(regs) => SegmentsSet(called(regs))
         /\ \A e : Kept(e, regs) => Kept(called(e), called(regs))
  <1>1. Lost \in Word
    BY DEF Lost, Word, Name
  <1>2. called(regs) \in Registers
    BY <1>1 DEF called, Registers
  <1>3. SegmentsSet(regs) => SegmentsSet(called(regs))
    BY DEF SegmentsSet, called, Segments, Scratch, Register
  <1>4. \A e : Kept(e, regs) => Kept(called(e), called(regs))
    BY DEF Kept, called
  <1> QED BY <1>2, <1>3, <1>4

\* Whatever a thread's stack was left as, switch_to and the return addresses
\* on it lead to a thread that finds its registers and its stack.
LEMMA SavedResumes ==
  ASSUME NEW t \in Thread, NEW w, NEW e, NEW blk \in BOOLEAN, SavedAs(t, w, e, blk),
         NEW c \in Registers, SegmentsSet(c)
  PROVE  LET now == resumed(w, c)
         IN  /\ now.regs \in Registers /\ SegmentsSet(now.regs)
             /\ now.if = ~blk
             /\ now.words \in Seq(Word)
             /\ RunningAs(t, now.words, e, now.regs, blk)
  <1> DEFINE now == resumed(w, c)
  <1>b. bottom(t) \in Seq(Word) /\ Zero \in Word /\ Lost \in Word
    BY BottomWords DEF Zero, Lost, Word, Name
  <1>1. CASE ~blk /\ w = thread_stack(t) /\ e = FirstRegisters
    <2>1. now.regs = FirstRegisters /\ now.if = TRUE /\ now.words = bottom(t)
      BY <1>1, NewThreadResumes DEF Machine
    <2>2. FirstRegisters \in Registers /\ SegmentsSet(FirstRegisters)
      <3> DEFINE z == fresh([r \in Register |-> Zero])
      <3>1. z \in Registers
        <4>1. \A r \in Segments : <<"sel", r>> \in Word
          BY DEF Word, Name, Register
        <4> QED BY <1>b, <4>1 DEF fresh, Registers
      <3>2. SegmentsSet(z)
        BY DEF SegmentsSet, fresh, Register
      <3> HIDE DEF z
      <3>3. FirstRegisters = called(z)
        BY DEF FirstRegisters, z
      <3> QED BY <3>1, <3>2, <3>3, CalledRegisters
    <2>3. Kept(e, FirstRegisters)
      BY <1>1 DEF Kept
    <2> HIDE DEF now
    <2>4. RunningAs(t, now.words, e, now.regs, blk)
      BY <1>1, <2>1, <2>3 DEF RunningAs
    <2>5. now.if = ~blk
      BY <1>1, <2>1
    <2> QED BY <1>b, <2>1, <2>2, <2>4, <2>5 DEF now
  <1>2. CASE ~blk /\ ~(w = thread_stack(t) /\ e = FirstRegisters)
    <2>1. PICK saved \in Registers, regs \in Registers, next \in Thread, vec \in Word :
            /\ w = TimerStack(t, saved, next, vec, regs)
            /\ Kept(e, regs) /\ SegmentsSet(regs)
      BY <1>2 DEF SavedAs
    <2>2. now.regs = regs /\ now.if = TRUE /\ now.words = bottom(t)
      <3>1. resumed(TimerStack(t, saved, next, vec, regs), c) = Machine(regs, TRUE, bottom(t))
        BY InterruptedResumes, SMTT(10), ZenonT(60)
      <3>2. now = Machine(regs, TRUE, bottom(t))
        BY <2>1, <3>1, Zenon
      <3> HIDE DEF now
      <3> QED BY <3>2 DEF Machine
    <2> HIDE DEF now
    <2>3. RunningAs(t, now.words, e, now.regs, blk)
      BY <1>2, <2>1, <2>2 DEF RunningAs
    <2>4. now.if = ~blk
      BY <1>2, <2>2
    <2> QED BY <1>b, <2>1, <2>2, <2>3, <2>4 DEF now
  <1>3. CASE blk
    <2>1. PICK saved \in Registers, next \in Thread, old \in Word :
            /\ w = BlockStack(t, saved, next, old)
            /\ Kept(e, called(saved)) /\ SegmentsSet(saved)
      BY <1>3 DEF SavedAs
    <2> DEFINE mine == <<old, <<t, "eip">>>> \o bottom(t)
    <2>2. now.regs = called(saved) /\ now.if = FALSE /\ now.words = mine
      <3>1. now = Machine(called(saved), FALSE, mine)
        BY <2>1, BlockedResumes
      <3> HIDE DEF now, mine
      <3> QED BY <3>1 DEF Machine
    <2>3. <<old, <<t, "eip">>>> \o bottom(t) \in Seq(Word)
      BY <1>b, PushedWords, ConcatProperties
    <2>4. called(saved) \in Registers /\ SegmentsSet(called(saved))
      BY <2>1, CalledRegisters
    <2> HIDE DEF now
    <2>5. RunningAs(t, now.words, e, now.regs, blk)
      BY <1>3, <2>1, <2>2 DEF RunningAs
    <2>6. now.if = ~blk
      BY <1>3, <2>2
    <2> QED BY <2>2, <2>3, <2>4, <2>5, <2>6 DEF now
  <1> QED BY <1>1, <1>2, <1>3

-----------------------------------------------------------------------------
\* The stack of an interrupted thread, before or after the stub's last push.
StubAs(t, words, e, acked) ==
  \E regs \in Registers, vec \in Word :
    /\ Kept(e, regs) /\ SegmentsSet(regs)
    /\ words = IF acked THEN <<vec>> \o (intr_stack(t, regs, TRUE) \o bottom(t))
                        ELSE intr_stack(t, regs, TRUE) \o bottom(t)

MachineTypes ==
  /\ cpu \in Registers /\ SegmentsSet(cpu)
  /\ flag_if \in BOOLEAN
  /\ stack \in [Thread -> Seq(Word)]
  /\ stub \in {"none", "entered", "acked"}
  /\ in_service \in BOOLEAN
  /\ expected \in [Thread -> Registers]

RunningStack ==
  IF stub = "none"
  THEN RunningAs(current, stack[current], expected[current], cpu, current \in in_block)
  ELSE StubAs(current, stack[current], expected[current], stub = "acked")

OtherStacks ==
  \A t \in Thread \ {current} :
    IF status[t] = "none" THEN stack[t] = << >> /\ expected[t] = FirstRegisters
    ELSE SavedAs(t, stack[t], expected[t], t \in in_block)

\* What is on every stack, and that it belongs to the thread it lies under.
MachineInv ==
  /\ MachineTypes
  /\ stub = "none" => flag_if = intr
  /\ RunningStack
  /\ OtherStacks

-----------------------------------------------------------------------------
\* schedule() goes on in a thread that was ready, or in the one that runs.
LEMMA ScheduledThread ==
  ASSUME ThreadsInv, NEW st \in [Thread -> TaskStatus], NEW blk,
         st = status \/ \E b \in Blocking : st = [status EXCEPT ![current] = b],
         schedule(st, blk), ~panicked'
  PROVE  /\ current \in Thread /\ current' \in Thread
         /\ current' # current => status[current'] # "none"
         /\ in_block' = blk /\ intr' = (current' \notin blk)
         /\ \A t \in Thread : status'[t] = "none" <=> status[t] = "none"
  <1> DEFINE preempted == st[current] = "TASK_RUNNING"
             ready == IF preempted THEN list_append(thread_ready_list, current)
                                   ELSE thread_ready_list
             next == popped(ready)
  <1>1. /\ current \in Thread /\ status \in [Thread -> TaskStatus]
        /\ thread_ready_list \in Seq(Thread)
        /\ status[current] # "none"
        /\ \A t \in Thread : list_find(thread_ready_list, t) => status[t] = "TASK_READY"
    BY DEF ThreadsInv, ThreadsTypeOK, SchedInv, OneRunning, ReadyListExact
  <1>2. /\ ~list_empty(ready)
        /\ status' = [st EXCEPT ![current] = IF preempted THEN "TASK_READY" ELSE @,
                                ![next] = "TASK_RUNNING"]
        /\ current' = next /\ in_block' = blk /\ intr' = (next \notin blk)
    BY DEF schedule, Panic, switch_to
  <1>3. /\ ready \in Seq(Thread)
        /\ \A x : list_find(ready, x) => list_find(thread_ready_list, x) \/ x = current
    BY <1>1, AppendLinks
  <1>4. next \in Thread /\ list_find(ready, next)
    <2> HIDE DEF ready
    <2> QED BY <1>2, <1>3, PopUnlinks
  <1> HIDE DEF next, ready
  <1>5. next # current => status[next] = "TASK_READY"
    BY <1>1, <1>3, <1>4
  <1>6. \A t \in Thread : st[t] = "none" <=> status[t] = "none"
    BY <1>1 DEF Blocking
  <1>7. \A t \in Thread : status'[t] = "none" <=> st[t] = "none"
    <2>1. next \in Thread /\ status[next] # "none"
      BY <1>1, <1>4, <1>5
    <2> HIDE DEF preempted
    <2> QED BY <1>1, <1>2, <1>6, <2>1
  <1> QED BY <1>1, <1>2, <1>4, <1>5, <1>6, <1>7

\* What a thread that does not run left on its stack is at most the timer's
\* whole call chain.
LEMMA SavedWords ==
  ASSUME NEW t \in Thread, NEW w, NEW e, NEW blk \in BOOLEAN, SavedAs(t, w, e, blk)
  PROVE  w \in Seq(Word) /\ Len(w) \in Nat /\ Len(w) <= 29
  <1> DEFINE c == fresh([r \in Register |-> Zero])
  <1>1. c \in Registers /\ SegmentsSet(c)
    <2>1. Zero \in Word /\ \A r \in Segments : <<"sel", r>> \in Word
      BY DEF Zero, Word, Name, Register
    <2>2. c \in Registers
      BY <2>1 DEF fresh, Registers
    <2>3. SegmentsSet(c)
      BY DEF SegmentsSet, fresh, Register
    <2> QED BY <2>2, <2>3
  <1> HIDE DEF c
  <1>2. CASE w = thread_stack(t)
    <2>1. thread_stack(t) \in Seq(Word) /\ Len(thread_stack(t)) = 8
      BY <1>1, NewThreadResumes
    <2>2. Len(w) = 8
      BY <1>2, <2>1
    <2>3. Len(w) \in Nat /\ Len(w) <= 29
      BY <2>2, SMT
    <2> QED BY <1>2, <2>1, <2>3
  <1>3. CASE \E saved, regs \in Registers, next \in Thread, vec \in Word :
               w = TimerStack(t, saved, next, vec, regs)
    <2>1. PICK saved \in Registers, regs \in Registers, next \in Thread, vec \in Word :
            w = TimerStack(t, saved, next, vec, regs)
      BY <1>3
    <2>2. /\ TimerStack(t, saved, next, vec, regs) \in Seq(Word)
          /\ Len(TimerStack(t, saved, next, vec, regs)) = 29
      BY <1>1, InterruptedResumes
    <2>3. w \in Seq(Word) /\ Len(w) = 29
      BY <2>1, <2>2, Zenon
    <2> QED BY <2>3, SMT
  <1>4. CASE \E saved \in Registers, next \in Thread, old \in Word :
               w = BlockStack(t, saved, next, old) /\ SegmentsSet(saved)
    <2>1. PICK saved \in Registers, next \in Thread, old \in Word :
            w = BlockStack(t, saved, next, old) /\ SegmentsSet(saved)
      BY <1>4
    <2>2. BlockStack(t, saved, next, old) \in Seq(Word)
      BY <1>1, <2>1, BlockedResumes
    <2>3. Len(BlockStack(t, saved, next, old)) = 13
      BY <1>1, <2>1, BlockedResumes
    <2>4. w \in Seq(Word) /\ Len(w) = 13
      BY <2>1, <2>2, <2>3, Zenon
    <2> QED BY <2>4, SMT
  <1> QED BY <1>2, <1>3, <1>4, Zenon DEF SavedAs

\* switch_to finds its two arguments on the stack it leaves.
LEMMA SwitchArguments ==
  ASSUME NEW regs \in Registers, NEW t \in Thread, NEW next \in Thread,
         NEW frames \in Seq(Word), NEW under \in Seq(Word)
  PROVE  /\ LeftStack(regs, t, next, frames, under) \in Seq(Word)
         /\ LeftStack(regs, t, next, frames, under)[6] = pcb(t)
         /\ LeftStack(regs, t, next, frames, under)[7] = pcb(next)
  <1> DEFINE top == Framed(regs, t, next, frames)
             w == top \o under
  <1>0. w = LeftStack(regs, t, next, frames, under)
    BY DEF LeftStack
  <1>1. top \in Seq(Word) /\ Len(top) = 7 + Len(frames)
    BY FrameWords, SMTT(10), ZenonT(60)
  <1>2. top[6] = pcb(t) /\ top[7] = pcb(next)
    BY FrameWords, SMTT(10), ZenonT(60)
  <1> HIDE DEF top
  <1>3. /\ w \in Seq(Word)
        /\ \A i \in 1..Len(top) : w[i] = top[i]
    BY <1>1, TopAndRest
  <1> HIDE DEF w
  <1>4. 6 \in 1..Len(top) /\ 7 \in 1..Len(top)
    <2>1. Len(frames) \in Nat
      BY LenProperties
    <2> QED BY <1>1, <2>1, SMT
  <1>5. w[6] = pcb(t) /\ w[7] = pcb(next)
    BY <1>2, <1>3, <1>4
  <1> QED BY <1>0, <1>3, <1>5, Zenon

\* After switch_to the next thread runs as it was left, and every other thread
\* is left as it was or, the one that ran before, as switch_to leaves it.
LEMMA Switching ==
  ASSUME cpu \in Registers, SegmentsSet(cpu), stack \in [Thread -> Seq(Word)],
         current \in Thread, current' \in Thread,
         NEW frames \in Seq(Word), switches(frames),
         NEW blk \in SUBSET Thread, NEW e,
         SavedAs(current,
                 LeftStack(called(cpu), current, current', frames, stack[current]),
                 e[current], current \in blk),
         current' # current =>
           SavedAs(current', stack[current'], e[current'], current' \in blk)
  PROVE  /\ cpu' \in Registers /\ SegmentsSet(cpu')
         /\ flag_if' = (current' \notin blk)
         /\ stack' \in [Thread -> Seq(Word)]
         /\ RunningAs(current', stack'[current'], e[current'], cpu', current' \in blk)
         /\ current' # current => SavedAs(current, stack'[current], e[current], current \in blk)
         /\ \A t \in Thread \ {current, current'} : stack'[t] = stack[t]
  <1> DEFINE regs == called(cpu)
             words == LeftStack(regs, current, current', frames, stack[current])
             saved == [stack EXCEPT ![current] = words]
             now == resumed(saved[current'], regs)
  <1>1. regs \in Registers /\ SegmentsSet(regs)
    BY CalledRegisters
  <1>2. words \in Seq(Word) /\ words[6][1] = current /\ words[7][1] = current'
    <2> DEFINE u == stack[current]
               n == current'
    <2>1. u \in Seq(Word) /\ n \in Thread
      OBVIOUS
    <2>2. words = LeftStack(regs, current, n, frames, u)
      BY DEF u, n
    <2> HIDE DEF words, regs, u, n
    <2>3. words \in Seq(Word) /\ words[6] = pcb(current) /\ words[7] = pcb(n)
      BY <1>1, <2>1, <2>2, SwitchArguments
    <2> QED BY <2>3, SMT DEF n, pcb
  <1>3. /\ stack' = [saved EXCEPT ![current'] = now.words]
        /\ cpu' = now.regs /\ flag_if' = now.if
    <2>1. words = <<regs["ebp"], regs["ebx"], regs["edi"], regs["esi"],
                    ret("schedule"), pcb(current), pcb(current')>>
                    \o frames \o stack[current]
      BY DEF frame, LeftStack, Framed
    <2> HIDE DEF words
    <2>2. /\ stack' = [[stack EXCEPT ![words[6][1]] = words]
                         EXCEPT ![words[7][1]] =
                           resumed([stack EXCEPT ![words[6][1]] = words][words[7][1]], regs).words]
          /\ cpu' = resumed([stack EXCEPT ![words[6][1]] = words][words[7][1]], regs).regs
          /\ flag_if' = resumed([stack EXCEPT ![words[6][1]] = words][words[7][1]], regs).if
      BY <2>1, Zenon DEF switches
    <2> QED BY <1>2, <2>2, Zenon
  <1>4. SavedAs(current, words, e[current], current \in blk)
    OBVIOUS
  <1> HIDE DEF words, regs
  <1>5. SavedAs(current', saved[current'], e[current'], current' \in blk)
    <2>1. CASE current' = current
      <3>1. saved[current'] = words
        BY <2>1
      <3> HIDE DEF saved
      <3> QED BY <1>4, <2>1, <3>1, Zenon
    <2>2. CASE current' # current
      <3>1. saved[current'] = stack[current']
        BY <2>2
      <3> HIDE DEF saved
      <3> QED BY <2>2, <3>1, Zenon
    <2> QED BY <2>1, <2>2
  <1>6. saved \in [Thread -> Seq(Word)]
    BY <1>2
  <1> DEFINE in == current' \in blk
             ec == e[current']
             sc == saved[current']
  <1>7. in \in BOOLEAN
    OBVIOUS
  <1> HIDE DEF in, ec, sc
  <1>8. /\ now.regs \in Registers /\ SegmentsSet(now.regs)
        /\ now.if = ~in
        /\ now.words \in Seq(Word)
        /\ RunningAs(current', now.words, ec, now.regs, in)
    <2>1. SavedAs(current', sc, ec, in)
      BY <1>5 DEF in, ec, sc
    <2>2. resumed(sc, regs) = now
      BY DEF sc
    <2> HIDE DEF now
    <2>3. LET n == resumed(sc, regs)
          IN  /\ n.regs \in Registers /\ SegmentsSet(n.regs)
              /\ n.if = ~in
              /\ n.words \in Seq(Word)
              /\ RunningAs(current', n.words, ec, n.regs, in)
      BY <1>1, <1>7, <2>1, SavedResumes
    <2> QED BY <2>2, <2>3
  <1> HIDE DEF now, saved
  <1>9. stack' \in [Thread -> Seq(Word)] /\ stack'[current'] = now.words
    BY <1>3, <1>6, <1>8
  <1>10. \A t \in Thread : t # current' => stack'[t] = saved[t]
    BY <1>3, <1>6
  <1>11. saved[current] = words /\ \A t \in Thread : t # current => saved[t] = stack[t]
    BY DEF saved
  <1>12. current' # current => stack'[current] = words
    BY <1>10, <1>11
  <1>13. \A t \in Thread \ {current, current'} : stack'[t] = stack[t]
    BY <1>10, <1>11
  <1>14. flag_if' = (current' \notin blk)
    BY <1>3, <1>8 DEF in
  <1>15. RunningAs(current', stack'[current'], e[current'], cpu', current' \in blk)
    BY <1>3, <1>8, <1>9, Zenon DEF in, ec
  <1>16. cpu' \in Registers /\ SegmentsSet(cpu')
    BY <1>3, <1>8, Zenon
  <1>17. current' # current => SavedAs(current, stack'[current], e[current], current \in blk)
    BY <1>4, <1>12, Zenon
  <1> QED BY <1>9, <1>13, <1>14, <1>15, <1>16, <1>17, Zenon

\* The boot thread runs on its empty stack; nobody else has one.
LEMMA MachineInit == ContextInit => MachineInv
  <1> SUFFICES ASSUME ContextInit PROVE MachineInv
    OBVIOUS
  <1>1. main \in Thread /\ current = main /\ intr = FALSE /\ in_block = {} /\ stub = "none"
    BY ThreadsAssumption DEF ContextInit, ThreadsInit
  <1>2. \A regs \in Registers : fresh(regs) \in Registers /\ SegmentsSet(fresh(regs))
    <2>1. \A r \in Segments : <<"sel", r>> \in Word
      BY DEF Word, Name, Register
    <2> QED BY <2>1 DEF fresh, Registers, SegmentsSet, Register
  <1>3. [r \in Register |-> <<main, r>>] \in Registers /\ [r \in Register |-> Zero] \in Registers
    <2>1. Zero \in Word /\ \A r \in Register : <<main, r>> \in Word
      BY <1>1 DEF Zero, Word, Name
    <2> QED BY <2>1 DEF Registers
  <1>4. cpu \in Registers /\ SegmentsSet(cpu)
    BY <1>2, <1>3 DEF ContextInit
  <1>5. FirstRegisters \in Registers
    BY <1>2, <1>3, CalledRegisters DEF FirstRegisters
  <1>6. expected = [t \in Thread |-> IF t = main THEN cpu ELSE FirstRegisters]
    BY DEF ContextInit, FirstRegisters
  <1>7. stack = [t \in Thread |-> IF t = main THEN bottom(main) ELSE << >>]
    BY DEF ContextInit
  <1>8. stack \in [Thread -> Seq(Word)]
    <2>1. bottom(main) \in Seq(Word)
      BY <1>1, BottomWords
    <2> QED BY <1>7, <2>1, EmptySeq
  <1>9. MachineTypes
    BY <1>4, <1>5, <1>6, <1>8 DEF MachineTypes, ContextInit
  <1>10. RunningStack
    BY <1>1, <1>6, <1>7 DEF RunningStack, RunningAs, Kept
  <1>11. OtherStacks
    BY <1>1, <1>6, <1>7 DEF OtherStacks, ContextInit, ThreadsInit
  <1> QED BY <1>1, <1>9, <1>10, <1>11 DEF MachineInv, ContextInit

\* A failed ASSERT leaves everything but the flag as it is.
LEMMA HaltKeeps ==
  ASSUME MachineInv, Panic, Halts
  PROVE  MachineInv'
  BY DEF MachineInv, MachineTypes, RunningStack, OtherStacks, RunningAs, StubAs, SavedAs,
         Panic, Halts

\* The thread's own code changes its registers and what it counts on alike.
LEMMA WorkKeeps ==
  ASSUME ThreadsInv, MachineInv, work
  PROVE  MachineInv'
  <1>1. current \in Thread
    BY DEF ThreadsInv, ThreadsTypeOK
  <1>2. /\ stub = "none" /\ current \notin in_block
        /\ cpu' = [r \in Register |-> IF r \in Segments THEN cpu[r] ELSE <<current, r>>]
        /\ expected' = [expected EXCEPT ![current] = cpu']
        /\ UNCHANGED <<flag_if, stack, stub, in_service, current, intr, status, in_block>>
    BY DEF work, threadVars
  <1>3. MachineTypes /\ RunningStack /\ OtherStacks /\ flag_if = intr
    BY <1>2 DEF MachineInv
  <1>4. cpu' \in Registers /\ SegmentsSet(cpu')
    <2>1. \A r \in Register : <<current, r>> \in Word
      BY <1>1 DEF Word, Name
    <2>2. cpu' \in Registers
      BY <1>2, <1>3, <2>1 DEF MachineTypes, Registers
    <2>3. SegmentsSet(cpu')
      BY <1>2, <1>3 DEF MachineTypes, SegmentsSet, Register
    <2> QED BY <2>2, <2>3
  <1>5. MachineTypes'
    BY <1>1, <1>2, <1>3, <1>4 DEF MachineTypes
  <1>6. RunningStack'
    <2>1. stack[current] = bottom(current)
      BY <1>2, <1>3 DEF RunningStack, RunningAs
    <2>2. expected'[current] = cpu'
      BY <1>1, <1>2, <1>3 DEF MachineTypes
    <2> QED BY <1>2, <2>1, <2>2 DEF RunningStack, RunningAs, Kept
  <1>7. OtherStacks'
    <2>1. \A t \in Thread \ {current} : expected'[t] = expected[t]
      BY <1>1, <1>2, <1>3 DEF MachineTypes
    <2> QED BY <1>2, <1>3, <2>1 DEF OtherStacks, SavedAs
  <1> QED BY <1>2, <1>3, <1>5, <1>6, <1>7 DEF MachineInv

\* The CPU and the stub push a whole intr_stack on the running thread's empty
\* stack, with the registers as its program left them and IF set.
LEMMA VectorKeeps ==
  ASSUME ThreadsInv, MachineInv, VECTOR
  PROVE  MachineInv'
  <1>1. current \in Thread /\ (intr => current \notin in_block)
    BY DEF ThreadsInv, ThreadsTypeOK, SchedInv, ResumePoints
  <1>2. /\ stub = "none" /\ flag_if = TRUE
        /\ stack' = [stack EXCEPT ![current] = intr_stack(current, cpu, TRUE) \o @]
        /\ flag_if' = FALSE /\ in_service' = TRUE /\ stub' = "entered"
        /\ UNCHANGED <<cpu, expected, current, intr, status, in_block>>
    <2>1. flag_if = TRUE
      BY DEF VECTOR, MachineInv, MachineTypes
    <2> QED BY <2>1 DEF VECTOR, threadVars
  <1>3. MachineTypes /\ RunningStack /\ OtherStacks /\ flag_if = intr
    BY <1>2 DEF MachineInv
  <1>4. RunningAs(current, stack[current], expected[current], cpu, FALSE)
    <2>1. (current \in in_block) = FALSE
      BY <1>1, <1>2, <1>3
    <2> QED BY <1>2, <1>3, <2>1 DEF RunningStack
  <1>5. stack[current] = bottom(current) /\ Kept(expected[current], cpu)
    BY <1>4 DEF RunningAs
  <1> DEFINE w == intr_stack(current, cpu, TRUE) \o bottom(current)
  <1>6. w \in Seq(Word)
    <2>1. cpu \in Registers
      BY <1>3 DEF MachineTypes
    <2>2. intr_stack(current, cpu, TRUE) \in Seq(Word) /\ bottom(current) \in Seq(Word)
      BY <1>1, <2>1, StubWords, BottomWords
    <2> QED BY <2>2, ConcatProperties
  <1>7. stack' = [stack EXCEPT ![current] = w]
    BY <1>2, <1>5
  <1> HIDE DEF w
  <1>8. MachineTypes'
    BY <1>2, <1>3, <1>6, <1>7 DEF MachineTypes
  <1>9. stack'[current] = w /\ \A t \in Thread \ {current} : stack'[t] = stack[t]
    BY <1>1, <1>3, <1>7 DEF MachineTypes
  <1>10. RunningStack'
    <2>1. cpu \in Registers /\ SegmentsSet(cpu)
      BY <1>3 DEF MachineTypes
    <2>2. Lost \in Word
      BY DEF Lost, Word, Name
    <2>3. StubAs(current, w, expected[current], FALSE)
      BY <1>5, <2>1, <2>2 DEF StubAs, w
    <2>4. (stub' = "acked") = FALSE /\ stub' # "none"
      BY <1>2
    <2>5. RunningStack' = StubAs(current', stack'[current'], expected'[current'], stub' = "acked")
      BY <2>4 DEF RunningStack
    <2> QED BY <1>2, <1>9, <2>3, <2>4, <2>5
  <1>11. OtherStacks'
    BY <1>2, <1>3, <1>9 DEF OtherStacks, SavedAs
  <1> QED BY <1>2, <1>8, <1>10, <1>11 DEF MachineInv

\* The stub acknowledges the interrupt and pushes its number.
LEMMA EoiKeeps ==
  ASSUME ThreadsInv, MachineInv, VECTOR_eoi
  PROVE  MachineInv'
  <1> DEFINE vec == <<"0x20", "vec_no">>
  <1>1. current \in Thread
    BY DEF ThreadsInv, ThreadsTypeOK
  <1>2. /\ stub = "entered" /\ stub' = "acked"
        /\ cpu' = [cpu EXCEPT !["eax"] = Lost]
        /\ in_service' = FALSE
        /\ stack' = [stack EXCEPT ![current] = <<vec>> \o @]
        /\ UNCHANGED <<flag_if, expected, current, intr, status, in_block>>
    BY DEF VECTOR_eoi, threadVars
  <1>3. MachineTypes /\ RunningStack /\ OtherStacks
    BY DEF MachineInv
  <1>4. vec \in Word /\ Lost \in Word
    BY DEF Word, Name, Lost
  <1> HIDE DEF vec
  <1>5. PICK regs \in Registers : /\ Kept(expected[current], regs) /\ SegmentsSet(regs)
                                  /\ stack[current] = intr_stack(current, regs, TRUE) \o bottom(current)
    <2>1. (stub = "acked") = FALSE
      BY <1>2
    <2>2. StubAs(current, stack[current], expected[current], FALSE)
      BY <1>2, <1>3, <2>1 DEF RunningStack
    <2> QED BY <2>2 DEF StubAs
  <1>6. stack[current] \in Seq(Word)
    BY <1>1, <1>3 DEF MachineTypes
  <1>7. <<vec>> \o stack[current] \in Seq(Word)
    <2>1. <<vec>> \in Seq(Word)
      BY <1>4
    <2> QED BY <1>6, <2>1, ConcatProperties
  <1>8. /\ stack' \in [Thread -> Seq(Word)]
        /\ stack'[current] = <<vec>> \o stack[current]
        /\ \A t \in Thread \ {current} : stack'[t] = stack[t]
    BY <1>1, <1>2, <1>3, <1>7 DEF MachineTypes
  <1>9. cpu' \in Registers /\ SegmentsSet(cpu')
    BY <1>2, <1>3, <1>4 DEF MachineTypes, Registers, SegmentsSet, Segments, Register
  <1>10. MachineTypes'
    BY <1>2, <1>3, <1>8, <1>9 DEF MachineTypes
  <1>11. RunningStack'
    <2>1. stack'[current] = <<vec>> \o (intr_stack(current, regs, TRUE) \o bottom(current))
      BY <1>5, <1>8
    <2>2. StubAs(current, stack'[current], expected[current], TRUE)
      BY <1>4, <1>5, <2>1 DEF StubAs
    <2>3. (stub' = "acked") = TRUE /\ stub' # "none"
      BY <1>2
    <2>4. RunningStack' = StubAs(current', stack'[current'], expected'[current'], stub' = "acked")
      BY <2>3 DEF RunningStack
    <2> QED BY <1>2, <2>2, <2>3, <2>4
  <1>12. OtherStacks'
    BY <1>2, <1>3, <1>8 DEF OtherStacks, SavedAs
  <1> QED BY <1>2, <1>10, <1>11, <1>12 DEF MachineInv

\* The handler returns through intr_exit, or leaves for another thread.
LEMMA HandlerKeeps ==
  ASSUME ThreadsInv, ThreadsInv', MachineInv, VECTOR_handler
  PROVE  MachineInv'
  <1>1. /\ current \in Thread /\ current' \in Thread /\ current \notin in_block
        /\ in_block \in SUBSET Thread /\ panicked' \in BOOLEAN
        /\ status \in [Thread -> TaskStatus] /\ status[current] # "none"
    BY DEF VECTOR_handler, intr_timer_handler, ThreadsInv, ThreadsTypeOK, SchedInv, ResumePoints,
           OneRunning
  <1>2. stub = "acked" /\ intr_timer_handler /\ MachineTypes /\ RunningStack /\ OtherStacks
    BY DEF VECTOR_handler, MachineInv
  <1>3. PICK regs \in Registers, vec \in Word :
          /\ Kept(expected[current], regs) /\ SegmentsSet(regs)
          /\ stack[current] = <<vec>> \o (intr_stack(current, regs, TRUE) \o bottom(current))
    <2>1. (stub = "acked") = TRUE
      BY <1>2
    <2>2. StubAs(current, stack[current], expected[current], TRUE)
      BY <1>2, <2>1 DEF RunningStack
    <2> QED BY <2>2 DEF StubAs
  <1>4. CASE panicked'
    <2>1. Halts
      BY <1>4 DEF VECTOR_handler
    <2>2. Panic
      BY <1>4 DEF VECTOR_handler, intr_timer_handler, schedule
    <2> QED BY <2>1, <2>2, HaltKeeps
  <1>5. CASE ~panicked' /\ ticks[current] # 0
    <2>1. /\ UNCHANGED <<current, intr, status, in_block>> /\ intr
          /\ cpu' = intr_exit(stack[current]).regs
          /\ flag_if' = intr_exit(stack[current]).if
          /\ stack' = [stack EXCEPT ![current] = intr_exit(stack[current]).words]
          /\ stub' = "none" /\ UNCHANGED <<in_service, expected>>
      BY <1>5 DEF VECTOR_handler, intr_timer_handler
    <2>2. intr_exit(stack[current]) = Machine(regs, TRUE, bottom(current))
      BY <1>1, <1>3, ExitRestores
    <2>3. /\ cpu' = regs /\ flag_if' = TRUE
          /\ stack' = [stack EXCEPT ![current] = bottom(current)]
      BY <2>1, <2>2 DEF Machine
    <2>4. bottom(current) \in Seq(Word)
      BY <1>1, BottomWords
    <2>5. /\ stack' \in [Thread -> Seq(Word)] /\ stack'[current] = bottom(current)
          /\ \A t \in Thread \ {current} : stack'[t] = stack[t]
      BY <1>1, <1>2, <2>3, <2>4 DEF MachineTypes
    <2>6. MachineTypes'
      BY <1>2, <1>3, <2>1, <2>3, <2>5 DEF MachineTypes
    <2>7. RunningStack'
      BY <1>1, <1>3, <2>1, <2>3, <2>5 DEF RunningStack, RunningAs
    <2>8. OtherStacks'
      BY <1>2, <2>1, <2>5 DEF OtherStacks, SavedAs
    <2>9. intr' = TRUE
      BY <2>1 DEF ThreadsInv, ThreadsTypeOK
    <2> QED BY <2>3, <2>6, <2>7, <2>8, <2>9 DEF MachineInv
  <1>6. CASE ~panicked' /\ ticks[current] = 0
    <2>1. /\ schedule(status, in_block) /\ switches(InTimer)
          /\ stub' = "none" /\ UNCHANGED <<in_service, expected>>
      BY <1>6 DEF VECTOR_handler, intr_timer_handler, InTimer
    <2>2. /\ current' # current => status[current'] # "none"
          /\ in_block' = in_block /\ intr' = (current' \notin in_block)
          /\ \A t \in Thread : status'[t] = "none" <=> status[t] = "none"
      BY <1>1, <1>6, <2>1, ScheduledThread
    <2>3. cpu \in Registers /\ SegmentsSet(cpu) /\ stack \in [Thread -> Seq(Word)]
      BY <1>2 DEF MachineTypes
    <2>4. SavedAs(current, LeftStack(called(cpu), current, current', InTimer, stack[current]),
                  expected[current], current \in in_block)
      <3>1. LeftStack(called(cpu), current, current', InTimer, stack[current])
              = TimerStack(current, called(cpu), current', vec, regs)
        BY <1>3 DEF TimerStack
      <3>2. called(cpu) \in Registers
        BY <2>3, CalledRegisters
      <3> QED BY <1>1, <1>3, <3>1, <3>2 DEF SavedAs
    <2>5. current' # current =>
            SavedAs(current', stack[current'], expected[current'], current' \in in_block)
      BY <1>1, <1>2, <2>2 DEF OtherStacks
    <2>6. InTimer \in Seq(Word)
      BY <1>1, <2>3, PushedWords DEF Lost, Word, Name
    <2>7. /\ cpu' \in Registers /\ SegmentsSet(cpu')
          /\ flag_if' = (current' \notin in_block)
          /\ stack' \in [Thread -> Seq(Word)]
          /\ RunningAs(current', stack'[current'], expected[current'], cpu', current' \in in_block)
          /\ current' # current =>
               SavedAs(current, stack'[current], expected[current], current \in in_block)
          /\ \A t \in Thread \ {current, current'} : stack'[t] = stack[t]
      BY <1>1, <2>1, <2>3, <2>4, <2>5, <2>6, Switching
    <2>8. MachineTypes'
      BY <1>2, <2>1, <2>7 DEF MachineTypes
    <2>9. RunningStack'
      BY <2>1, <2>2, <2>7 DEF RunningStack
    <2>10. OtherStacks'
      <3> SUFFICES ASSUME NEW t \in Thread, t # current'
                   PROVE  IF status'[t] = "none"
                          THEN stack'[t] = << >> /\ expected'[t] = FirstRegisters
                          ELSE SavedAs(t, stack'[t], expected'[t], t \in in_block')
        BY DEF OtherStacks
      <3>1. CASE t = current
        BY <1>1, <2>1, <2>2, <2>7, <3>1
      <3>2. CASE t # current
        BY <1>2, <2>1, <2>2, <2>7, <3>2 DEF OtherStacks
      <3> QED BY <3>1, <3>2
    <2>11. flag_if' = intr'
      BY <2>2, <2>7
    <2> QED BY <2>8, <2>9, <2>10, <2>11 DEF MachineInv
  <1> QED BY <1>1, <1>4, <1>5, <1>6

\* An operation that switches to nobody returns to its caller, which counts on
\* the registers that a C function preserves.
LEMMA CallKeeps ==
  ASSUME ThreadsInv, MachineInv, calls, ~panicked', UNCHANGED <<current, in_block>>
  PROVE  /\ cpu' \in Registers /\ SegmentsSet(cpu')
         /\ flag_if' = intr' /\ UNCHANGED <<stub, in_service>> /\ stub = "none"
         /\ expected' \in [Thread -> Registers]
         /\ Kept(expected'[current], cpu')
         /\ \A t \in Thread \ {current} : expected'[t] = expected[t]
  <1>1. current \in Thread
    BY DEF ThreadsInv, ThreadsTypeOK
  <1>2. /\ stub = "none" /\ flag_if' = intr' /\ cpu' = called(cpu)
        /\ expected' = [expected EXCEPT ![current] = called(@)]
        /\ UNCHANGED <<stub, in_service>>
    BY DEF calls
  <1>3. MachineTypes /\ RunningStack
    BY DEF MachineInv
  <1>4. Kept(expected[current], cpu)
    BY <1>2, <1>3 DEF RunningStack, RunningAs
  <1>5. cpu \in Registers /\ SegmentsSet(cpu) /\ expected[current] \in Registers
    BY <1>1, <1>3 DEF MachineTypes
  <1>6. /\ called(cpu) \in Registers /\ SegmentsSet(called(cpu))
        /\ called(expected[current]) \in Registers
        /\ Kept(called(expected[current]), called(cpu))
    BY <1>4, <1>5, CalledRegisters
  <1>7. /\ expected' \in [Thread -> Registers]
        /\ expected'[current] = called(expected[current])
        /\ \A t \in Thread \ {current} : expected'[t] = expected[t]
    BY <1>1, <1>2, <1>3, <1>6 DEF MachineTypes
  <1> QED BY <1>2, <1>6, <1>7

\* thread_create lays out the first stack of a thread that had none.
LEMMA CreateKeeps ==
  ASSUME ThreadsInv, ThreadsInv', MachineInv, NEW n \in Thread, context_thread_start(n)
  PROVE  MachineInv'
  <1>1. /\ thread_start(n) /\ calls /\ current \in Thread /\ n # current /\ n \notin in_block
        /\ panicked' \in BOOLEAN /\ intr' \in BOOLEAN /\ status \in [Thread -> TaskStatus]
    <2>1. thread_start(n) /\ calls /\ status[n] = "none"
      BY DEF context_thread_start, thread_start
    <2> QED BY <2>1 DEF ThreadsInv, ThreadsTypeOK, SchedInv, ResumePoints, OneRunning
  <1>2. MachineTypes /\ RunningStack /\ OtherStacks
    BY DEF MachineInv
  <1>3. CASE panicked'
    <2>1. Halts
      BY <1>1, <1>3 DEF calls
    <2>2. Panic
      BY <1>1, <1>3 DEF thread_start
    <2> QED BY <2>1, <2>2, HaltKeeps
  <1>4. CASE ~panicked'
    <2>1. /\ UNCHANGED <<current, in_block>>
          /\ status' = [status EXCEPT ![n] = "TASK_READY"]
          /\ stack' = [stack EXCEPT ![n] = thread_stack(n)]
          /\ status[n] = "none" /\ current \notin in_block
      BY <1>1, <1>4 DEF context_thread_start, thread_start, Panic
    <2>2. /\ cpu' \in Registers /\ SegmentsSet(cpu')
          /\ flag_if' = intr' /\ UNCHANGED <<stub, in_service>> /\ stub = "none"
          /\ expected' \in [Thread -> Registers]
          /\ Kept(expected'[current], cpu')
          /\ \A t \in Thread \ {current} : expected'[t] = expected[t]
      BY <1>1, <1>4, <2>1, CallKeeps
    <2>3. thread_stack(n) \in Seq(Word)
      <3>1. cpu \in Registers /\ SegmentsSet(cpu)
        BY <1>2 DEF MachineTypes
      <3> QED BY <3>1, NewThreadResumes
    <2>4. /\ stack' \in [Thread -> Seq(Word)] /\ stack'[n] = thread_stack(n)
          /\ \A t \in Thread \ {n} : stack'[t] = stack[t]
      BY <1>2, <2>1, <2>3 DEF MachineTypes
    <2>5. MachineTypes'
      BY <1>1, <1>2, <2>2, <2>4 DEF MachineTypes
    <2>6. RunningStack'
      <3>1. stack[current] = bottom(current)
        BY <1>2, <2>1, <2>2 DEF RunningStack, RunningAs
      <3> QED BY <1>1, <2>1, <2>2, <2>4, <3>1 DEF RunningStack, RunningAs
    <2>7. OtherStacks'
      <3> SUFFICES ASSUME NEW t \in Thread, t # current
                   PROVE  IF status'[t] = "none"
                          THEN stack'[t] = << >> /\ expected'[t] = FirstRegisters
                          ELSE SavedAs(t, stack'[t], expected'[t], t \in in_block')
        BY <2>1 DEF OtherStacks
      <3>1. CASE t = n
        <4>1. status'[n] = "TASK_READY" /\ stack'[n] = thread_stack(n) /\ expected'[n] = FirstRegisters
          BY <1>1, <1>2, <2>1, <2>2, <2>4 DEF OtherStacks
        <4> QED BY <1>1, <2>1, <3>1, <4>1 DEF SavedAs
      <3>2. CASE t # n
        <4>1. status'[t] = status[t] /\ stack'[t] = stack[t] /\ expected'[t] = expected[t]
          BY <1>1, <2>1, <2>2, <2>4, <3>2
        <4> QED BY <1>2, <2>1, <4>1 DEF OtherStacks
      <3> QED BY <3>1, <3>2
    <2> QED BY <2>2, <2>5, <2>6, <2>7 DEF MachineInv
  <1> QED BY <1>1, <1>3, <1>4

\* thread_unblock and the flag's operations touch no stack.
LEMMA CallsKeep ==
  ASSUME ThreadsInv, ThreadsInv', MachineInv, context_calls
  PROVE  MachineInv'
  <1>1. /\ calls /\ UNCHANGED stack /\ current \in Thread
        /\ panicked' \in BOOLEAN /\ intr' \in BOOLEAN /\ status \in [Thread -> TaskStatus]
    BY DEF context_calls, ThreadsInv, ThreadsTypeOK
  <1>2. MachineTypes /\ RunningStack /\ OtherStacks
    BY DEF MachineInv
  <1>3. CASE panicked'
    <2>1. Halts
      BY <1>1, <1>3 DEF calls
    <2>2. Panic
      BY <1>3 DEF context_calls, thread_unblock, intr_set_status
    <2> QED BY <2>1, <2>2, HaltKeeps
  <1>4. CASE ~panicked'
    <2>1. /\ UNCHANGED <<current, in_block>> /\ current \notin in_block
          /\ \A t \in Thread : status'[t] = "none" <=> status[t] = "none"
      BY <1>1, <1>4 DEF context_calls, thread_unblock, intr_set_status, Panic
    <2>2. /\ cpu' \in Registers /\ SegmentsSet(cpu')
          /\ flag_if' = intr' /\ UNCHANGED <<stub, in_service>> /\ stub = "none"
          /\ expected' \in [Thread -> Registers]
          /\ Kept(expected'[current], cpu')
          /\ \A t \in Thread \ {current} : expected'[t] = expected[t]
      BY <1>1, <1>4, <2>1, CallKeeps
    <2>3. MachineTypes'
      BY <1>1, <1>2, <2>2 DEF MachineTypes
    <2>4. RunningStack'
      BY <1>1, <1>2, <2>1, <2>2 DEF RunningStack, RunningAs
    <2>5. OtherStacks'
      BY <1>1, <1>2, <2>1, <2>2 DEF OtherStacks
    <2> QED BY <2>2, <2>3, <2>4, <2>5 DEF MachineInv
  <1> QED BY <1>1, <1>3, <1>4

\* The end of thread_block takes its frame off the stack.
LEMMA BlockReturnKeeps ==
  ASSUME ThreadsInv, ThreadsInv', MachineInv, context_thread_block_return
  PROVE  MachineInv'
  <1>1. /\ calls /\ current \in Thread /\ current \in in_block /\ ~panicked'
        /\ UNCHANGED <<current, status>> /\ in_block' = in_block \ {current}
        /\ stack' = [stack EXCEPT ![current] = SubSeq(@, 3, Len(@))]
        /\ intr' \in BOOLEAN
    BY DEF context_thread_block_return, thread_block_return, ThreadsInv, ThreadsTypeOK
  <1>2. MachineTypes /\ RunningStack /\ OtherStacks
    BY DEF MachineInv
  <1>3. /\ stub = "none" /\ flag_if' = intr' /\ cpu' = called(cpu)
        /\ expected' = [expected EXCEPT ![current] = called(@)]
        /\ UNCHANGED <<stub, in_service>>
    BY <1>1 DEF calls
  <1>4. RunningAs(current, stack[current], expected[current], cpu, TRUE)
    <2>1. (current \in in_block) = TRUE
      BY <1>1
    <2> QED BY <1>2, <1>3, <2>1 DEF RunningStack
  <1>5. PICK old \in Word : stack[current] = <<old, <<current, "eip">>>> \o bottom(current)
    BY <1>4 DEF RunningAs
  <1>6. Kept(expected[current], cpu)
    BY <1>4 DEF RunningAs
  <1>7. SubSeq(stack[current], 3, Len(stack[current])) = bottom(current)
    <2> DEFINE mine == <<old, <<current, "eip">>>>
               b == bottom(current)
    <2>1. mine \in Seq(Word) /\ Len(mine) = 2
      <3>1. <<current, "eip">> \in Word
        BY <1>1 DEF Word, Name
      <3> DEFINE z == <<current, "eip">>
      <3> HIDE DEF z
      <3>2. <<old, z>> \in Seq(Word) /\ Len(<<old, z>>) = 2
        BY <3>1 DEF z
      <3> QED BY <3>2 DEF z
    <2>2. b \in Seq(Word)
      BY <1>1, BottomWords
    <2>3. stack[current] = mine \o b
      BY <1>5
    <2> HIDE DEF mine, b
    <2>4. SubSeq(mine \o b, Len(mine) + 1, Len(mine \o b)) = b
      BY <2>1, <2>2, TopAndRest
    <2>5. Len(mine) + 1 = 3
      BY <2>1, SMT
    <2>6. SubSeq(mine \o b, 3, Len(mine \o b)) = b
      BY <2>4, <2>5, Zenon
    <2> QED BY <2>3, <2>6, Zenon DEF b
  <1>8. /\ stack' \in [Thread -> Seq(Word)] /\ stack'[current] = bottom(current)
        /\ \A t \in Thread \ {current} : stack'[t] = stack[t]
    <2>1. bottom(current) \in Seq(Word)
      BY <1>1, BottomWords
    <2>2. stack' = [stack EXCEPT ![current] = bottom(current)]
      BY <1>1, <1>7
    <2> QED BY <1>1, <1>2, <2>1, <2>2 DEF MachineTypes
  <1>9. cpu \in Registers /\ SegmentsSet(cpu) /\ expected[current] \in Registers
    BY <1>1, <1>2 DEF MachineTypes
  <1>10. /\ called(cpu) \in Registers /\ SegmentsSet(called(cpu))
         /\ called(expected[current]) \in Registers
         /\ Kept(called(expected[current]), called(cpu))
    BY <1>6, <1>9, CalledRegisters
  <1>11. /\ expected' \in [Thread -> Registers]
         /\ expected'[current] = called(expected[current])
         /\ \A t \in Thread \ {current} : expected'[t] = expected[t]
    BY <1>1, <1>2, <1>3, <1>10 DEF MachineTypes
  <1>12. MachineTypes'
    BY <1>1, <1>2, <1>3, <1>8, <1>10, <1>11 DEF MachineTypes
  <1>13. RunningStack'
    <2>1. current' \notin in_block'
      BY <1>1
    <2> QED BY <1>1, <1>3, <1>8, <1>10, <1>11, <2>1 DEF RunningStack, RunningAs
  <1>14. OtherStacks'
    <2> SUFFICES ASSUME NEW t \in Thread, t # current
                 PROVE  IF status'[t] = "none"
                        THEN stack'[t] = << >> /\ expected'[t] = FirstRegisters
                        ELSE SavedAs(t, stack'[t], expected'[t], t \in in_block')
      BY <1>1 DEF OtherStacks
    <2>1. /\ status'[t] = status[t] /\ stack'[t] = stack[t] /\ expected'[t] = expected[t]
          /\ (t \in in_block') = (t \in in_block)
      BY <1>1, <1>8, <1>11
    <2> QED BY <1>2, <2>1 DEF OtherStacks
  <1> QED BY <1>3, <1>12, <1>13, <1>14 DEF MachineInv

\* thread_block leaves its frame and its caller's registers for the return.
LEMMA BlockKeeps ==
  ASSUME ThreadsInv, ThreadsInv', MachineInv, NEW b \in Blocking, context_thread_block(b)
  PROVE  MachineInv'
  <1> DEFINE st == [status EXCEPT ![current] = b]
             blk == in_block \cup {current}
             old == <<"old_status", eflags(flag_if)[2]>>
             frames == InBlock(current, old)
             e == expected'
  <1>1. /\ current \in Thread /\ current' \in Thread /\ current \notin in_block
        /\ in_block \in SUBSET Thread /\ panicked' \in BOOLEAN
        /\ status \in [Thread -> TaskStatus] /\ status[current] # "none"
    BY DEF context_thread_block, thread_block, ThreadsInv, ThreadsTypeOK, SchedInv, OneRunning
  <1>2. stub = "none" /\ ~panicked /\ schedule(st, blk) /\ MachineTypes /\ RunningStack /\ OtherStacks
    BY DEF context_thread_block, thread_block, MachineInv
  <1>3. CASE panicked'
    <2>1. Halts
      BY <1>3 DEF context_thread_block
    <2>2. Panic
      BY <1>2, <1>3 DEF schedule
    <2> QED BY <2>1, <2>2, HaltKeeps
  <1>4. CASE ~panicked'
    <2>1. /\ switches(frames)
          /\ expected' = [expected EXCEPT ![current] = called(@)]
          /\ UNCHANGED <<stub, in_service>>
      BY <1>4 DEF context_thread_block, InBlock
    <2>2. /\ current' # current => status[current'] # "none"
          /\ in_block' = blk /\ intr' = (current' \notin blk)
          /\ \A t \in Thread : status'[t] = "none" <=> status[t] = "none"
      <3>1. st \in [Thread -> TaskStatus] /\ \E x \in Blocking : st = [status EXCEPT ![current] = x]
        BY <1>1 DEF TaskStatus
      <3> HIDE DEF st, blk
      <3> QED BY <1>2, <1>4, <3>1, ScheduledThread
    <2>3. cpu \in Registers /\ SegmentsSet(cpu) /\ stack \in [Thread -> Seq(Word)]
      BY <1>2 DEF MachineTypes
    <2>4. stack[current] = bottom(current) /\ Kept(expected[current], cpu)
      BY <1>1, <1>2 DEF RunningStack, RunningAs
    <2>5. old \in Word
      BY DEF eflags, Word, Name
    <2> DEFINE saved == called(cpu)
    <2>6. saved \in Registers /\ SegmentsSet(saved) /\ called(expected[current]) \in Registers
          /\ Kept(called(expected[current]), called(saved))
      <3>1. saved \in Registers /\ SegmentsSet(saved) /\ called(expected[current]) \in Registers
        BY <1>1, <1>2, <2>3, CalledRegisters DEF MachineTypes
      <3>2. Kept(called(expected[current]), called(saved))
        BY <2>4 DEF Kept, called
      <3> QED BY <3>1, <3>2
    <2>7. /\ e \in [Thread -> Registers]
          /\ e[current] = called(expected[current])
          /\ \A t \in Thread \ {current} : e[t] = expected[t]
      BY <1>1, <1>2, <2>1, <2>6 DEF MachineTypes
    <2>8. SavedAs(current, LeftStack(saved, current, current', frames, stack[current]),
                  e[current], current \in blk)
      <3>1. LeftStack(saved, current, current', frames, stack[current])
              = BlockStack(current, saved, current', old)
        BY <2>4 DEF BlockStack
      <3>2. Kept(e[current], called(saved))
        BY <2>6, <2>7
      <3> HIDE DEF saved, old, frames, e
      <3> QED BY <1>1, <2>5, <2>6, <3>1, <3>2 DEF SavedAs
    <2>9. current' # current => SavedAs(current', stack[current'], e[current'], current' \in blk)
      <3> SUFFICES ASSUME current' # current
                   PROVE  SavedAs(current', stack[current'], e[current'], current' \in blk)
        OBVIOUS
      <3>1. (current' \in blk) = (current' \in in_block)
        OBVIOUS
      <3>2. SavedAs(current', stack[current'], expected[current'], current' \in in_block)
        BY <1>1, <1>2, <2>2 DEF OtherStacks
      <3>3. e[current'] = expected[current']
        BY <1>1, <2>7
      <3> HIDE DEF e, blk
      <3> QED BY <3>1, <3>2, <3>3
    <2>10. frames \in Seq(Word) /\ blk \in SUBSET Thread
      <3>1. frames \in Seq(Word)
        <4> HIDE DEF old
        <4> QED BY <1>1, <2>3, <2>5, PushedWords
      <3> QED BY <1>1, <3>1
    <2> HIDE DEF st, blk, old, frames, e, saved
    <2>11. /\ cpu' \in Registers /\ SegmentsSet(cpu')
           /\ flag_if' = (current' \notin blk)
           /\ stack' \in [Thread -> Seq(Word)]
           /\ RunningAs(current', stack'[current'], e[current'], cpu', current' \in blk)
           /\ current' # current => SavedAs(current, stack'[current], e[current], current \in blk)
           /\ \A t \in Thread \ {current, current'} : stack'[t] = stack[t]
      BY <1>1, <2>1, <2>3, <2>8, <2>9, <2>10, Switching DEF saved
    <2>12. MachineTypes'
      <3>1. expected' \in [Thread -> Registers]
        BY <2>7 DEF e
      <3> QED BY <1>2, <2>1, <2>11, <3>1 DEF MachineTypes
    <2>13. RunningStack'
      <3>1. RunningStack' = RunningAs(current', stack'[current'], expected'[current'], cpu', current' \in in_block')
        BY <1>2, <2>1 DEF RunningStack
      <3> QED BY <2>2, <2>11, <3>1 DEF e
    <2>14. OtherStacks'
      <3> SUFFICES ASSUME NEW t \in Thread, t # current'
                   PROVE  IF status'[t] = "none"
                          THEN stack'[t] = << >> /\ expected'[t] = FirstRegisters
                          ELSE SavedAs(t, stack'[t], expected'[t], t \in in_block')
        BY DEF OtherStacks
      <3>1. CASE t = current
        <4>1. status'[t] # "none"
          BY <1>1, <2>2, <3>1
        <4>2. SavedAs(t, stack'[t], expected'[t], t \in in_block')
          BY <2>2, <2>11, <3>1 DEF e
        <4> QED BY <4>1, <4>2
      <3>2. CASE t # current
        <4>1. /\ stack'[t] = stack[t] /\ expected'[t] = expected[t]
              /\ (t \in in_block') = (t \in in_block)
          BY <2>2, <2>7, <2>11, <3>2 DEF e, blk
        <4> QED BY <1>2, <2>2, <3>2, <4>1 DEF OtherStacks
      <3> QED BY <3>1, <3>2
    <2>15. flag_if' = intr'
      BY <2>2, <2>11
    <2> QED BY <2>12, <2>13, <2>14, <2>15 DEF MachineInv
  <1> QED BY <1>1, <1>3, <1>4

\* Every step of the machine preserves what is on the stacks.
LEMMA MachineStep ==
  ThreadsInv /\ MachineInv /\ [ContextNext]_<<threadVars, contextVars>> => MachineInv'
  <1> SUFFICES ASSUME ThreadsInv, MachineInv, [ContextNext]_<<threadVars, contextVars>>
               PROVE  MachineInv'
    OBVIOUS
  <1>1. ThreadsInv'
    BY ContextStep, NextInv
  <1>2. CASE UNCHANGED <<threadVars, contextVars>>
    BY <1>2 DEF threadVars, contextVars, MachineInv, MachineTypes, RunningStack, OtherStacks,
                RunningAs, StubAs, SavedAs
  <1>3. CASE work
    BY <1>3, WorkKeeps
  <1>4. CASE VECTOR
    BY <1>4, VectorKeeps
  <1>5. CASE VECTOR_eoi
    BY <1>5, EoiKeeps
  <1>6. CASE VECTOR_handler
    BY <1>1, <1>6, HandlerKeeps
  <1>7. CASE \E t \in Thread : context_thread_start(t)
    BY <1>1, <1>7, CreateKeeps
  <1>8. CASE context_calls
    BY <1>1, <1>8, CallsKeep
  <1>9. CASE \E st \in Blocking : context_thread_block(st)
    BY <1>1, <1>9, BlockKeeps
  <1>10. CASE context_thread_block_return
    BY <1>1, <1>10, BlockReturnKeeps
  <1> QED BY <1>2, <1>3, <1>4, <1>5, <1>6, <1>7, <1>8, <1>9, <1>10 DEF ContextNext

\* What lies on the stacks holds in every state of the machine.
LEMMA MachineAlways == ContextSpec => [](ThreadsInv /\ MachineInv)
  <1>1. ContextInit => ThreadsInv /\ MachineInv
    BY InitInv, MachineInit DEF ContextInit
  <1>2. ThreadsInv /\ MachineInv /\ [ContextNext]_<<threadVars, contextVars>>
          => ThreadsInv' /\ MachineInv'
    BY ContextStep, NextInv, MachineStep
  <1> QED BY <1>1, <1>2, PTL DEF ContextSpec

\* Whichever thread ran in between, and however it was left, a thread finds its
\* registers as its program left them.
THEOREM RegistersSurvive == ContextSpec => []RegistersKept
  <1>1. MachineInv => RegistersKept
    BY DEF MachineInv, RunningStack, RunningAs, Kept, RegistersKept
  <1> QED BY <1>1, MachineAlways, PTL

\* Interrupts, switches and blocking take off a stack what they put on it.
THEOREM NothingLeftOver == ContextSpec => []StackBalanced
  <1>1. MachineInv => StackBalanced
    BY DEF MachineInv, RunningStack, RunningAs, StackBalanced
  <1> QED BY <1>1, MachineAlways, PTL

\* eflags, as the stacks and kernel_thread give it back, is what the scheduler's
\* callers assume.
THEOREM FlagGivenBack == ContextSpec => []FlagAsScheduled
  <1>1. MachineInv => FlagAsScheduled
    BY DEF MachineInv, FlagAsScheduled
  <1> QED BY <1>1, MachineAlways, PTL

\* No stack ever holds more than the timer's call chain.
THEOREM StackDepth == ContextSpec => []ContextTypeOK
  <1>1. ThreadsInv /\ MachineInv => ContextTypeOK
    <2> SUFFICES ASSUME ThreadsInv, MachineInv PROVE ContextTypeOK
      OBVIOUS
    <2>1. MachineTypes /\ RunningStack /\ OtherStacks /\ current \in Thread
      BY DEF MachineInv, ThreadsInv, ThreadsTypeOK
    <2>2. ASSUME NEW t \in Thread, t # current PROVE Len(stack[t]) <= 29
      <3>1. CASE status[t] = "none"
        <4>1. stack[t] = << >>
          BY <2>1, <2>2, <3>1 DEF OtherStacks
        <4> QED BY <4>1
      <3>2. CASE status[t] # "none"
        <4>1. SavedAs(t, stack[t], expected[t], t \in in_block)
          BY <2>1, <2>2, <3>2 DEF OtherStacks
        <4>2. (t \in in_block) \in BOOLEAN
          OBVIOUS
        <4> QED BY <4>1, <4>2, SavedWords
      <3> QED BY <3>1, <3>2
    <2>3. Len(stack[current]) <= 29
      <3>1. bottom(current) \in Seq(Word) /\ Len(bottom(current)) = 3
        BY <2>1, BottomWords
      <3>2. CASE stub = "none"
        <4>1. CASE stack[current] = bottom(current)
          <5>1. Len(stack[current]) = 3
            BY <3>1, <4>1, Zenon
          <5> QED BY <5>1, SMT
        <4>2. CASE \E old \in Word : stack[current] = <<old, <<current, "eip">>>> \o bottom(current)
          <5>1. PICK old \in Word : stack[current] = <<old, <<current, "eip">>>> \o bottom(current)
            BY <4>2
          <5> DEFINE mine == <<old, <<current, "eip">>>>
          <5>2. mine \in Seq(Word) /\ Len(mine) = 2
            <6> DEFINE z == <<current, "eip">>
            <6>1. z \in Word
              BY <2>1 DEF Word, Name
            <6> HIDE DEF z
            <6>2. <<old, z>> \in Seq(Word) /\ Len(<<old, z>>) = 2
              BY <6>1
            <6> QED BY <6>2 DEF z
          <5> HIDE DEF mine
          <5>3. Len(mine \o bottom(current)) = 2 + 3
            <6> DEFINE b == bottom(current)
            <6>1. b \in Seq(Word) /\ Len(b) = 3
              BY <3>1
            <6> HIDE DEF b
            <6>2. Len(mine \o b) = Len(mine) + Len(b)
              BY <5>2, <6>1, ConcatProperties
            <6> QED BY <5>2, <6>1, <6>2, Zenon DEF b
          <5>4. Len(stack[current]) = 2 + 3
            BY <5>1, <5>3 DEF mine
          <5> QED BY <5>4, SMT
        <4> QED BY <2>1, <3>2, <4>1, <4>2 DEF RunningStack, RunningAs
      <3>3. CASE stub # "none"
        <4>1. StubAs(current, stack[current], expected[current], stub = "acked")
          BY <2>1, <3>3 DEF RunningStack
        <4>2. PICK regs \in Registers, vec \in Word :
                stack[current] = IF stub = "acked"
                                 THEN <<vec>> \o (intr_stack(current, regs, TRUE) \o bottom(current))
                                 ELSE intr_stack(current, regs, TRUE) \o bottom(current)
          BY <4>1 DEF StubAs
        <4> DEFINE low == intr_stack(current, regs, TRUE) \o bottom(current)
                   all == <<vec>> \o low
        <4>3. low \in Seq(Word) /\ Len(low) = 16 + 3
          <5>1. intr_stack(current, regs, TRUE) \in Seq(Word) /\ Len(intr_stack(current, regs, TRUE)) = 16
            BY <2>1, StubWords
          <5> DEFINE is == intr_stack(current, regs, TRUE)
                     b == bottom(current)
          <5>2. is \in Seq(Word) /\ Len(is) = 16 /\ b \in Seq(Word) /\ Len(b) = 3
            BY <3>1, <5>1
          <5> HIDE DEF is, b
          <5>3. is \o b \in Seq(Word) /\ Len(is \o b) = Len(is) + Len(b)
            BY <5>2, ConcatProperties
          <5> QED BY <5>2, <5>3, Zenon DEF is, b
        <4>4. Len(all) = 20
          BY <2>1, ExitRestores
        <4>5. Len(stack[current]) = 20 \/ Len(stack[current]) = 16 + 3
          <5> HIDE DEF all, low
          <5>1. stack[current] = all \/ stack[current] = low
            BY <4>2 DEF all, low
          <5> QED BY <4>3, <4>4, <5>1, Zenon
        <4> DEFINE n == Len(stack[current])
        <4>6. n = 20 \/ n = 16 + 3
          BY <4>5
        <4> HIDE DEF n, all, low
        <4>7. n <= 29
          BY <4>6, SMT
        <4> QED BY <4>7 DEF n
      <3> QED BY <3>2, <3>3
    <2>4. \A t \in Thread : stack[t] \in Seq(Word) /\ Len(stack[t]) <= 29
      BY <2>1, <2>2, <2>3 DEF MachineTypes
    <2>5. DOMAIN stack = Thread
      BY <2>1 DEF MachineTypes
    <2> QED BY <2>1, <2>4, <2>5 DEF MachineTypes, ContextTypeOK, Registers
  <1> QED BY <1>1, MachineAlways, PTL

=============================================================================
