------------------------------- MODULE Context -------------------------------
(***************************************************************************)
(* The machine level under the scheduler: the entry stubs and intr_exit of *)
(* kernel/kernel.S, switch_to of kernel/switch.S and the first stack that  *)
(* thread_create lays out.  The CPU's registers, the words on each kernel  *)
(* stack and the in-service bit of the PIC are state; where a thread goes  *)
(* on is decided by the return address on its stack.  Threads says what    *)
(* schedule does; here it is carried out.                                  *)
(*                                                                         *)
(* A stack is a sequence of words, its top first.  The words are pairs:    *)
(* <<t, r>> is what t's program left in register r.  Of a C function's     *)
(* frame only its return address and the locals named here are kept: C     *)
(* code preserves CalleeSaved and loses Scratch.                           *)
(***************************************************************************)
EXTENDS Threads

VARIABLES
  cpu,          \* the registers
  flag_if,      \* EFLAGS.IF
  stack,        \* the words between esp (or self_kstack) and the stack's bottom
  stub,         \* how far the timer's entry stub is: "none" when it is not entered
  in_service,   \* the PIC's in-service bit of IRQ0
  expected      \* history: the registers as each thread's program left them

contextVars == <<cpu, flag_if, stack, stub, in_service, expected>>

Segments == {"ds", "es", "fs", "gs"}
CalleeSaved == {"ebx", "ebp", "esi", "edi"}
Scratch == {"eax", "ecx", "edx"}
Register == Segments \cup CalleeSaved \cup Scratch

Lost == <<"any", "any">>
Zero == <<"0", "0">>
ret(label) == <<"ret", label>>
pcb(t) == <<t, "pcb">>
eflags(if) == <<"eflags", IF if THEN "IF" ELSE "0">>

\* The registers after a C function has been called.
called(regs) == [r \in Register |-> IF r \in Scratch THEN Lost ELSE regs[r]]

\* Registers with the segment selectors that the loader has set.
fresh(regs) == [r \in Register |-> IF r \in Segments THEN <<"sel", r>> ELSE regs[r]]

\* What lies under everything a thread pushes: kernel_thread's arguments.
bottom(t) == <<<<t, "unused_retaddr">>, <<t, "function">>, <<t, "func_args">>>>

-----------------------------------------------------------------------------
\* struct intr_stack above vec_no, as the CPU and the stub push it.
Pushed == <<"edi", "esi", "ebp", "esp_dummy", "ebx", "edx", "ecx", "eax",
            "gs", "fs", "es", "ds">>

\* Mutant: the stub of an interrupt without error code pushes none itself.
intr_stack_NoErrorCode(t, regs, if) ==
  [i \in 1..12 |-> IF Pushed[i] \in Register THEN regs[Pushed[i]] ELSE Lost]
    \o << <<t, "eip">>, <<"sel", "cs">>, eflags(if) >>

intr_stack(t, regs, if) ==
  [i \in 1..12 |-> IF Pushed[i] \in Register THEN regs[Pushed[i]] ELSE Lost]
    \o << <<"0", "err_code">>, <<t, "eip">>, <<"sel", "cs">>, eflags(if) >>

\* A machine state: registers, EFLAGS.IF and the stack in use.
Machine(regs, if, words) == [regs |-> regs, if |-> if, words |-> words]

\* intr_exit: skip vec_no, popad and the segments, skip err_code, iretd.
intr_exit(words) ==
  LET place(r) == CHOOSE i \in 1..12 : Pushed[i] = r
  IN  Machine([r \in Register |-> words[1 + place(r)]],
              words[17] = eflags(TRUE),
              SubSeq(words, 18, Len(words)))

\* Mutant: kernel_thread calls its function with interrupts disabled.
kernel_thread_NoEnable(regs, words) == Machine(called(regs), FALSE, words)

\* kernel_thread: intr_enable, then function(func_args), which never returns.
kernel_thread(regs, words) == Machine(called(regs), TRUE, words)

\* thread_create: struct thread_stack.
thread_stack(t) == <<Zero, Zero, Zero, Zero, ret("kernel_thread")>> \o bottom(t)

\* Mutant: the registers are popped in the order they were pushed in.
switch_to_pops_SameOrder(words, regs) ==
  [regs EXCEPT !["esi"] = words[1], !["edi"] = words[2],
               !["ebx"] = words[3], !["ebp"] = words[4]]

switch_to_pops(words, regs) ==
  [regs EXCEPT !["ebp"] = words[1], !["ebx"] = words[2],
               !["edi"] = words[3], !["esi"] = words[4]]

\* The second half of switch_to on the stack of the next thread, and the code
\* its return addresses lead to, up to where that thread can be interrupted
\* again or, inside thread_block, to intr_set_status(old_status).
resumed(words, c) ==
  LET regs == switch_to_pops(words, c)
      rest == SubSeq(words, 6, Len(words))
  IN  IF words[5] = ret("kernel_thread") THEN kernel_thread(regs, rest)
      ELSE IF rest[3] = ret("thread_block")
      THEN Machine(called(regs), FALSE, SubSeq(rest, 4, Len(rest)))
      ELSE intr_exit(SubSeq(rest, 5, Len(rest)))

\* switch_to(current, next) called by schedule, which was called from frames:
\* the arguments are found above the four registers and the return address.
switches(frames) ==
  LET regs  == called(cpu)
      words == <<regs["ebp"], regs["ebx"], regs["edi"], regs["esi"],
                 ret("schedule"), pcb(current), pcb(current')>>
                 \o frames \o stack[current]
      saved == [stack EXCEPT ![words[6][1]] = words]
      next  == words[7][1]
      now   == resumed(saved[next], regs)
  IN  /\ stack' = [saved EXCEPT ![next] = now.words]
      /\ cpu' = now.regs
      /\ flag_if' = now.if

\* A failed ASSERT: the machine stops where it is, interrupts disabled.
Halts == flag_if' = FALSE /\ UNCHANGED <<cpu, stack, stub, in_service, expected>>

-----------------------------------------------------------------------------
ContextInit ==
  /\ ThreadsInit
  /\ cpu = fresh([r \in Register |-> <<main, r>>])
  /\ flag_if = FALSE
  /\ stack = [t \in Thread |-> IF t = main THEN bottom(main) ELSE << >>]
  /\ stub = "none"
  /\ in_service = FALSE
  /\ expected = [t \in Thread |-> IF t = main THEN cpu
                                   ELSE called(fresh([r \in Register |-> Zero]))]

\* The code of a thread between two calls uses every register.
work ==
  /\ ~panicked /\ stub = "none" /\ current \notin in_block
  /\ cpu' = [r \in Register |-> IF r \in Segments THEN cpu[r] ELSE <<current, r>>]
  /\ expected' = [expected EXCEPT ![current] = cpu']
  /\ UNCHANGED <<flag_if, stack, stub, in_service>> /\ UNCHANGED threadVars

\* IRQ0 is accepted: the CPU pushes eflags, cs and eip and passes the gate,
\* which clears IF; the stub of vector 0x20 saves the rest.
VECTOR ==
  /\ ~panicked /\ stub = "none"
  /\ flag_if /\ IrqUnmasked(0) /\ ~in_service
  /\ stack' = [stack EXCEPT ![current] = intr_stack(current, cpu, flag_if) \o @]
  /\ flag_if' = FALSE
  /\ in_service' = TRUE
  /\ stub' = "entered"
  /\ UNCHANGED <<cpu, expected>> /\ UNCHANGED threadVars

\* Mutant: only the slave PIC is acknowledged.
VECTOR_eoi_SlaveOnly ==
  /\ ~panicked /\ stub = "entered"
  /\ cpu' = [cpu EXCEPT !["eax"] = Lost]
  /\ stack' = [stack EXCEPT ![current] = << <<"0x20", "vec_no">> >> \o @]
  /\ stub' = "acked"
  /\ UNCHANGED <<flag_if, in_service, expected>> /\ UNCHANGED threadVars

\* mov al, 0x20; out 0xa0, al; out 0x20, al; push 0x20: the end of interrupt
\* comes before the handler, which may leave for another thread.
VECTOR_eoi ==
  /\ ~panicked /\ stub = "entered"
  /\ cpu' = [cpu EXCEPT !["eax"] = Lost]
  /\ in_service' = FALSE
  /\ stack' = [stack EXCEPT ![current] = << <<"0x20", "vec_no">> >> \o @]
  /\ stub' = "acked"
  /\ UNCHANGED <<flag_if, expected>> /\ UNCHANGED threadVars

\* call [idt_table + 4 * 0x20]; jmp intr_exit, or a switch in between.
VECTOR_handler ==
  /\ stub = "acked"
  /\ intr_timer_handler
  /\ IF panicked' THEN Halts
     ELSE /\ IF ticks[current] # 0
             THEN LET now == intr_exit(stack[current])
                  IN  /\ cpu' = now.regs
                      /\ flag_if' = now.if
                      /\ stack' = [stack EXCEPT ![current] = now.words]
             ELSE switches(<<ret("intr_timer_handler"), ret("intr_exit")>>)
          /\ stub' = "none"
          /\ UNCHANGED <<in_service, expected>>

\* The running thread calls an operation of Threads that switches to nobody.
calls ==
  /\ stub = "none"
  /\ IF panicked' THEN Halts
     ELSE /\ flag_if' = intr'
          /\ cpu' = called(cpu)
          /\ expected' = [expected EXCEPT ![current] = called(@)]
          /\ UNCHANGED <<stub, in_service>>

context_thread_start(t) ==
  /\ thread_start(t)
  /\ calls
  /\ IF panicked' THEN UNCHANGED stack
     ELSE stack' = [stack EXCEPT ![t] = thread_stack(t)]

context_calls ==
  /\ \/ \E t \in Thread : thread_unblock(t)
     \/ \E st \in BOOLEAN : intr_set_status(st)
  /\ calls
  /\ UNCHANGED stack

\* thread_block: old_status is a local variable, on the stack with the return
\* address into the thread's code.
context_thread_block(st) ==
  /\ stub = "none"
  /\ thread_block(st)
  /\ IF panicked' THEN Halts
     ELSE /\ switches(<<ret("thread_block"), <<"old_status", eflags(flag_if)[2]>>,
                        <<current, "eip">>>>)
          /\ expected' = [expected EXCEPT ![current] = called(@)]
          /\ UNCHANGED <<stub, in_service>>

\* Mutant: the frame of thread_block stays on the stack.
context_thread_block_return_NoPop ==
  /\ thread_block_return(stack[current][1][2] = "IF")
  /\ calls
  /\ UNCHANGED stack

context_thread_block_return ==
  LET old_status == stack[current][1][2] = "IF"
  IN  /\ thread_block_return(old_status)
      /\ calls
      /\ stack' = [stack EXCEPT ![current] = SubSeq(@, 3, Len(@))]

ContextNext ==
  \/ work \/ VECTOR \/ VECTOR_eoi \/ VECTOR_handler
  \/ \E t \in Thread : context_thread_start(t)
  \/ context_calls
  \/ \E st \in Blocking : context_thread_block(st)
  \/ context_thread_block_return

ContextSpec == ContextInit /\ [][ContextNext]_<<threadVars, contextVars>>

-----------------------------------------------------------------------------
\* What a word is besides whose it is: a register, a label or a field.
Name == Register \cup
          {"any", "0", "IF", "cs", "eip", "err_code", "vec_no", "pcb",
           "kernel_thread", "schedule", "thread_block", "intr_timer_handler",
           "intr_exit", "unused_retaddr", "function", "func_args"}

Word == (Thread \cup {"any", "0", "ret", "sel", "eflags", "old_status", "0x20"})
          \X Name

\* The types of the machine state; a stack never holds more than one thread's
\* call chain: a whole intr_stack, the frames down to switch_to and bottom.
ContextTypeOK ==
  /\ cpu \in [Register -> Word]
  /\ flag_if \in BOOLEAN
  /\ DOMAIN stack = Thread
  /\ \A t \in Thread : stack[t] \in Seq(Word) /\ Len(stack[t]) <= 29
  /\ stub \in {"none", "entered", "acked"}
  /\ in_service \in BOOLEAN
  /\ expected \in [Thread -> [Register -> Word]]

\* A program that runs finds its registers as it left them (the ones a C call
\* may lose aside), whoever ran while it was interrupted or blocked.
RegistersKept ==
  stub = "none" /\ ~panicked =>
    \A r \in Register : expected[current][r] \in {Lost, cpu[r]}

\* A thread that runs outside thread_block has nothing left over on its stack:
\* no interrupt, switch or block leaks a word or takes one too many.
StackBalanced ==
  stub = "none" /\ ~panicked /\ current \notin in_block =>
    stack[current] = bottom(current)

\* The flag that the return addresses on the stacks lead to is the one that
\* schedule's callers count on: each thread gets back the flag it had.
FlagAsScheduled == stub = "none" /\ ~panicked => flag_if = intr

\* Whichever thread the handler left for, with interrupts enabled the PIC will
\* deliver the next tick.
TimerRearmed == stub = "none" => ~in_service

=============================================================================
