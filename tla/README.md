# ToiletOS in TLA+

A verification project for the ToiletOS kernel (`kernel/`, `device/`, `libs/`,
`mbr/`): TLA+ modules for its threads and context switches, lock, console, screen,
keyboard driver, character queue, page allocator and page tables, TLC runs on small
instances, and TLAPS proofs of the safety properties for every size of them. Paths and
line numbers refer to the source tree (`src/`). `PROJECT.json` maps each definition to the lines it models.

The kernel runs on one 32-bit x86 CPU. The only concurrency is that of
interrupts: the timer preempts a thread and may switch to another, the keyboard
handler runs on the stack of whatever thread it interrupts. A step of a model is
what happens between two points at which an interrupt can be taken; code between
`cli` and `sti`, or inside an interrupt gate, is one step.

## Inventory

| Component | State | Operations | Properties that make it correct |
|---|---|---|---|
| Threads and scheduler (`kernel/thread/thread.c`, `kernel/switch.S`) | status, ticks and `elaspsed_ticks` of each PCB, `thread_ready_list`, `thread_all_list`, the running thread | `thread_start`, `schedule`, `switch_to`, `thread_block`, `thread_unblock` | one running thread; lists match statuses; round robin; every ready thread runs |
| Lists (`include/kernel/list.c`) | links in the elements | `list_append`, `list_push`, `list_pop`, `list_find`, `list_empty` | an element is linked at most once |
| Interrupt flag and PIC (`kernel/interrupt.c`) | EFLAGS.IF, the PIC mask, the IDT | `intr_enable`, `intr_disable`, `intr_set_status`, `pic_init` | handlers run with interrupts off; the needed IRQs are unmasked |
| Interrupt entry and switch (`kernel/kernel.S`, `kernel/switch.S`, `thread_create`) | registers, the words on each kernel stack, the PIC's in-service bit | the `VECTOR` stub, `intr_exit`, `switch_to`, a thread's first stack | each thread gets back its registers, stack and flag; the next tick can come |
| Timer (`device/timer.c`) | the ticks of the running thread | `intr_timer_handler`, `frequency_set` | a slice is charged exactly, never below 0 |
| Semaphores and locks (`kernel/thread/sync.c`) | value and waiters; holder and `holder_repeat_num` | `semaphore_down`/`up`, `lock_acquire`/`release` | mutual exclusion, reentrancy, no lost wake-up, no failing ASSERT |
| Console (`device/console.c`) | `console_lock` | `console_acquire`/`release`, `console_put_*` | output of one thread at a time; the console is given up again |
| Keyboard (`device/keyboard.c`) | modifier flags, `ext_scan_code`, `keyboard_buffer` | the IRQ1 handler | a character from the right place of `keymap` for each key; no stuck modifier |
| Character queue (`device/ioqueue.c`) | ring, head, tail, producer, consumer, lock | `queue_putchar`, `queue_getchar`, `queue_wait`, `queue_wakeup` | FIFO, bounded, waiting readers are served |
| Page allocator (`kernel/memory.c`) | two pools, the virtual address pool | `mem_pool_init`, `malloc_page`, `get_kernel_pages` | no page or frame given out twice, each page on the frame taken for it; failure is reported |
| Page tables (`kernel/memory.c`, `mbr/loader.S`) | the directory and the tables in memory | `setup_page`, `pte_ptr`, `pde_ptr`, `page_table_add` | the MMU finds what the allocator recorded; no call maps a page to the tables themselves |
| Bitmaps (`kernel/bitmap.c`) | a byte array | `bitmap_init`, `bitmap_scan`, `bitmap_set` | finds a run of clear bits if there is one |
| Panic (`kernel/debug.c`) | - | `panic_spin` | stops the kernel for good |
| Initialisation (`kernel/init.c`, `kernel/main.c`) | - | `init_all`, `main` | leaves interrupts disabled and every component initialised |
| Screen (`libs/vga_basic.c`, `kernel/print.S`) | `cursor_x`, `cursor_y`, video memory, the cursor registers | `putchar`, `scroll`, `move_cursor`, `aput_char` | the two cursors agree; the register pair is written as a pair |
| Formatting (`libs/printk.c`), strings (`libs/string.c`), ports (`libs/port.c`) | `printk`'s static buffer | `printk`, `insert_str`, `uintTostring`, `num2hexstr`, `mem*`, `str*` | each directive is replaced by its argument; a message is not overwritten while it is written out |
| Boot (`mbr/`) and an older GRUB boot (`boot/`) | page directory, page tables, the memory size at 0xb00 | run once before the kernel | - |

How they interact:

* the timer interrupt calls `schedule`, which `thread_block` also calls; where a
  switched-out thread resumes (the end of the interrupt, `kernel_thread`, or inside
  `thread_block` with interrupts off) depends on how it left;
* `semaphore_down` and `semaphore_up` move a thread between `waiters` and
  `thread_ready_list` through one and the same `general_tag`;
* the console is a lock around `printk`; the keyboard handler does not take it, and
  writes to the same video memory and cursor registers (`put_char`), for an unknown key
  also to `printk`'s buffer and to `cursor_x` and `cursor_y` (`put_str`);
* the keyboard handler is the producer of `keyboard_buffer`; a thread that calls
  `queue_getchar` with interrupts disabled is its consumer;
* `thread_start` takes its PCB from `get_kernel_pages`; a failed ASSERT
  anywhere ends in `panic_spin`.

Hard to test: preemption between any two statements of `lock_acquire` and
`lock_release`; a woken thread that is overtaken before it runs; a thread
resumed in the middle of `thread_block`; codes of two bytes that arrive as two
interrupts, with other keys in any order; a ring at its limits while readers come
and go; the lock declared as a pointer; the bitmap's arithmetic at its end, and
memory behind it that nobody initialised; a word too many on a stack that is
only popped after several switches; a page table reached through an address computed
from another address; a key echoed between two register writes of a cursor update. `PROJECT.json` lists each at its line.

## Modules

| Module | Models |
|---|---|
| `ListSeq` | `list.c` as operators on sequences |
| `Threads` | scheduler, timer handler, interrupt flag and mask |
| `Context` (extends `Threads`) | the same on registers and stacks: stubs, `intr_exit`, `switch_to`, first stacks |
| `ReentrantLock` | abstract: what a lock promises |
| `Console` (extends `Threads`) | `sync.c` and `console.c`, with the threads of `main.c` |
| `Printk` | `printk` and the number conversions, as functions |
| `Screen` (extends `Printk`) | a printing thread step by step, and the keyboard handler's output |
| `Keyboard` | the keyboard and its handler |
| `BoundedFIFO` | abstract: what a character queue promises |
| `IOQueue` (extends `Threads`) | the ring, the keyboard interrupt and reader threads |
| `Memory` | the page allocator and its bitmaps |
| `Paging` (extends `Memory`) | the page directory and tables the allocator writes |
| `Induction` | lemmas: induction over the natural numbers, functions defined by recursion |
| `ThreadsProofs`, `ContextProofs`, `ConsoleProofs`, `ScreenProofs`, `KeyboardProofs`, `IOQueueProofs`, `MemoryProofs` | theorems and proofs |
| `MCContext`, `MCConsole`, `MCScreen`, `MCKeyboard`, `MCIOQueue`, `MCMemory` | instances for TLC |

### Threads

`current` is the PCB in whose page `esp` points (`running_thread`). `intr` is
EFLAGS.IF. `schedule` is one action fragment up to and including `switch_to`;
the next thread's `intr` depends on `in_block`, the set of threads whose stack
was left inside `thread_block`: they continue with interrupts off until the
`intr_set_status` there, every other thread resumes through `iretd` or the
`intr_enable` of `kernel_thread`. `charged` is `elaspsed_ticks`, counted from the
last refill, so that a slice can be audited. The specification `ThreadsSpec` calls
the operations in any order a client could. A failing ASSERT is `Panic`: it stops
everything; if the last running thread blocks, the kernel really stops. The run of
this module's properties is that of `Context`, which implements it.

`thread_start` is only called before `intr_enable` in this kernel (the calls in
`main.c` are commented out); it neither disables interrupts nor tolerates them,
and it has `~intr` as its guard.

### Context

Every action of `Threads` is carried out on the machine. A stack is a sequence of words, pushed and
popped as the assembly does: the CPU's three words and the stub's error code,
segments and general registers (`intr_stack`, `intr_exit`), the four registers of
`switch_to` under a return address, the arguments it finds by their offset, and the stack that
`thread_create` writes by hand. `resumed` decides from the **return addresses** on
the next thread's stack where it continues (`kernel_thread`, inside `thread_block`,
`intr_exit`), while `Threads` decides it from `in_block`; `FlagAsScheduled` says that the
two agree. `old_status` is a word of the stack too. `work` stands for a thread's own code, which
uses every register; `expected` is a history of what it left in them. The stub
has its two pauses (entered, acknowledged) as steps of their own, with interrupts
off. C code is taken to follow the calling convention (`CalleeSaved`, `Scratch`). One vector is
modelled, the timer's; all stubs are one macro.

### Console and lock

`pc` says at which point of a console call each thread is (the table is in the module).
Each point is one at which the timer may preempt: between the test of `holder`
and `semaphore_down`, between the return of `semaphore_down` and each of the
two assignments after it, and between the two assignments and the
`semaphore_up` of `lock_release`. Inside `semaphore_down`, where interrupts are
off, the only other thread that can run is one switched to by `thread_block`.
Printers do what the `console_put_*` functions do, and also nest acquisitions up to
`MaxDepth`, as the lock allows.

`ReentrantLock` has only an owner and a count. The refinement mapping takes the
owner to be the thread that holds the semaphore's only unit, wherever it is between taking and
giving it back, and the count to be `holder_repeat_num` in the critical section
and 1 on the way in and out, when that variable is behind.

### Printk and Screen

`Printk` has `printk` as the code runs it: the text is scanned by offset while arguments are spliced
into it, `printk_turn` being the body of its loop. `Expansion` is the reference: a map over the format. `Converted` is what the digits
of a number have to be.

In `Screen` the printing thread runs with interrupts enabled, so each test, assignment
and `outb` of `kputs_color`, `kputc_color`, `vga_putc`, `screen_uproll_once` and `move_cursor` is a step,
and the handler, whose interrupt gate keeps everyone else out, comes whole between any two. `vga_putc` works on
`cursor_x` and `cursor_y`; `aput_char` knows only the VGA's registers 14 and 15, reached
through one index register that both use. `key_echoed` is `put_char` of a key of `keymap`; `key_unknown`
is the `put_str` of a key that is not there, through the buffer and the cursor the
interrupted thread is using. A backspace at position 0 stores behind the limit of
the video segment: `faulted` stops the model. Histories say what to expect:
`printed` (text printed and not rolled away), `overwritten` (cells changed by
echoes) and `disturbed` (a key came since the last `vga_putc` began). When an echoed Enter or character rolls the screen, the
printed text moves up with it, but `cursor_y` does not: the histories roll too, and `gap` counts the cells by which the
cursor is then behind the end of the text. `EchoSpec` has the keys of `keymap` only, `ScreenSpec` the others as well.
One printing thread is enough: the console lock, which `Console` is about, admits no second one.
The text written before interrupts are enabled counts as blank; colours are left out.

### Keyboard

The environment holds keys down, repeats the last one and releases them in any
order, and sends one or two bytes each time; `init_keyboard_handler` reads one byte
per interrupt. A character is the slot of `keymap` it comes from, so that
the two columns, the characters both columns share and the invisible entries are
told apart, and nothing else is. So `QueuesRightColumn` judges the row and the column, not what stands there: that `keymap` has
the numbers 1 to 9 where the characters '1' to '9' are meant (`keyboard.c:56-65`; the number 8 acts as a backspace on
the screen, and 0 counts as invisible) is a hazard without a property. `caps_lock`'s list of unaffected keys is translated as it
stands and compared with the set of letters. The buffer is a
bounded FIFO here, which `IOQueue` justifies. The echo to the screen is in `Screen`. `KeyboardAssumption`
leaves out two codes no keyboard has: the break code of 0x60 would be the byte 0xe0, which the handler reads as a prefix.

### IOQueue

`ioqueue.h:11` declares `lock` as a pointer, while `ioqueue.c` uses `&queue->lock`
as a `struct lock`. The fields of that lock fall on `producer`, `consumer` and the first 16
bytes of `buf` (layout in the module). The semaphore's value is the low byte of
`producer`, which is 0 for NULL and for every page-aligned PCB. So a reader that finds the
ring empty blocks in `lock_acquire` for good, and the list operations on the way write pointers over
ring slots. The model has those writes (`LINK`), and, because characters may
since have been written over the pointers, both outcomes of following them: the
machine stops, or the reader is linked somewhere. `HeadNext` and `TailPrev` say
which slots are hit. `queue_wait` and the release of the lock are not reached.

The keyboard's `queue_putchar` finds the ring not full (its caller tests) and never waits.

### Memory

Pages and frames are numbers, a bitmap is a set. `free_pages` keeps the 16 bits
that the code gives it. `bitmap_scan` has the code's unit error in `bit_left`
and its unsigned wrap: the bits behind the bitmap it may then read are chosen
freely at start (`JunkBits`), and those it finds there are set like any others.

A call is taken apart, because a failing ASSERT of `bitmap_scan` stops the kernel where it is (`Panic` leaves everything
as it was done so far): `malloc_page` is `vaddr_get`, which sets the bits of the
pages, and each `malloc_page_loop` is a turn of the loop, which takes a frame (`palloc`, `frame_taken`) and maps a page
(`page_table_add`); `call` is the call on its way. Calls do not overlap: all callers run with interrupts disabled (see the hazards).
`PF_USER` returns NULL before any change.

The loader clears the page directory but not the tables, so an entry may be what memory held at power-on (`power_on.entries`, one of
`StaleTables`; `Stale` are its pages). It may name any frame: one of the pool, one behind it, or, as a negative number, one in front
of it, where the kernel, its bitmaps and its page tables are. `page_table_add` keeps such an entry. `get_kernel_pages`, the only
caller, then clears the page: a machine that has cleared memory in front of the pool is not followed any further (`Intact`). What
`FramesExclusive` says is therefore said of pages without such an entry; `OwnFrame`, which leaves none out, is violated.

### Paging

`table` holds the page directory and the kernel's tables as `setup_page` leaves them, by frame. `walk` is the MMU.
`pte_ptr` and `pde_ptr` compute virtual addresses from the page's address, and `table_add` goes through `walk` to
find what they point to: that the directory's last entry maps the directory itself
is what makes this an entry of the right table. The branch of `page_table_add` that allocates a page
table is not reached, because `setup_page` makes every kernel entry of the
directory present; `KernelTablesPresent` is the property that shows it. `PagingSpec` carries out each
step of `Memory` on the tables; the memory runs use it. The last turn of a call returns to `get_kernel_pages`, whose clearing
makes every entry absent of a table that a page of the call lies on (`pages_cleared`). `MappedAsRecorded` and `KernelTablesPresent` hold as
long as the machine is `Intact`; `TablesPrivate` holds after that as well.

## Runs

| Run | Shows | Bounds |
|---|---|---|
| `context` | three threads that start, block, wake each other and are preempted in every order: `ThreadsTypeOK`, `ReadyListExact`, `SchedInv`, `RoundRobin`; on their stacks `ContextTypeOK`, `RegistersKept`, `StackBalanced`, `FlagAsScheduled`, `TimerRearmed` | slices of one and two ticks |
| `console` | `ConsoleTypeOK`, `NoPanic`, `OneOwner`, `WaitersExact`, `NoLostWakeup`, `Resumable`, `LockImplemented`, and the liveness properties `ReadyRuns`, `ConsoleFreed` | main and three printers, nesting 2 |
| `keyboard` | `KeyboardTypeOK`, `NoStuckModifier`, `QueuesRightColumn` | ten keys, two of them down, three bytes on the way, two characters |
| `keyboard_shift` | **violated**: a modifier held on both sides is lost when one is released (`ModifiersRecorded`) | as above |
| `ioqueue` | `IOQueueTypeOK`, `NoCharOverwritten`, `FIFOImplemented` | two readers, four slots, two under the pointers, two characters |
| `ioqueue_reader` | **violated**: a reader that waits never returns (`WaitingReaderIsServed`) | as above |
| `memory` | `MemoryTypeOK`, `PoolLayout`, `RangesDisjoint`, `FramesExclusive`, `AllOrNothing`, `WithinBitmap`; in the tables `MappedAsRecorded`, `KernelTablesPresent`, `TablesPrivate` | 16, 19 and 33 free pages, one or two pages a call, one unknown bit, at most one entry of power-on, tables of eight entries |
| `memory_full` | **violated**: running out stops the kernel instead of returning -1 or NULL (`FailureIsReported`) | as above |
| `memory_scan` | **violated**: the scan misses a free run (`ScanFindsRoom`) | runs of up to nine bits |
| `memory_stale` | **violated**: a page whose entry memory held at power-on is handed out on that frame, not on the one taken for it (`OwnFrame`) | as `memory` |
| `screen` | `ScreenTypeOK`, `CursorFollowsText`, `ShowsText`, `HardwareCursorFollows`; `PrintkExpands` and `ConversionsExact` | three rows of three columns, registers of two bits, three keys; formats of up to five characters |
| `screen_unknown` | **violated**: a key that is not in `keymap`, pressed while a thread prints, moves the cursor off the screen (`CursorOnScreen`) | one key |

Why the bounds are enough:

* *context*: with three threads one is running, one blocked inside `thread_block` and one
  interrupted, each with its kind of frame; slices of one and two ticks (priorities 0 and 1) reach a tick that switches and
  one that does not.
* *console*: with three printers one has the lock, one waits and a third
  overtakes the one that was woken. Slices of one tick end at every point of a call,
  because a tick may come at any step. Nesting of 2 reaches both branches of
  `lock_acquire` and `lock_release`, also in the liveness properties. The proofs cover any number of threads and any nesting.
* *PIC mask*: `pic_init` writes 0xfd (253), which masks the timer, and the calls of `thread_start` in `main.c` are commented
  out: at this commit no thread is ever exchanged. The runs about preemption take 0xfc (252), the kernel that is meant. The proofs cover every mask.
* *keyboard*: two keys down at once is where two keys share a modifier, where a
  modifier meets a letter, and where bytes of two keys alternate; three bytes hold an extended
  code with another before or after it. The keys are one of each class the handler treats
  differently.
* *ioqueue*: four slots wrap, fill (three characters) and empty; one slot lies
  under each pointer and two under neither.
* *memory*: 16 to 33 pages give bitmaps of one and two bytes, the second with a
  frame left over; two pages a call leave the last clear bit to a search that runs off the end. `bit_left` is
  positive, zero and negative on the way. An entry of power-on (`MCStaleTables`) is one of a page at the front, in the middle, at the
  end of the bitmap or behind it, and maps low memory, the directory, a table, a frame of the pool or one behind it. `memory_scan` needs runs of more than a
  byte. With eight entries a table, low memory of two pages and the kernel's half at entry 4 the pool's pages
  lie in several tables, as they do in the kernel, and no index equals another by accident.
* *screen*: nine cells need both registers; a line wraps, a tab and a newline meet the last column, and
  the screen rolls more than once; three keys are enough for an echo that tears a cursor, one that is laid over
  text and one that rolls the screen. The formats have every sequence of directives, lone `%` and arguments that look
  like directives or are empty.

Deadlock checking is on for `console` and the keyboard runs. It is off where the kernel
really stops: `context` (a failed ASSERT, or interrupts disabled for good), the `ioqueue` runs
(the machine may stop on overwritten pointers), the `memory` runs (nothing is freed) and the screen
runs (a general protection fault in the handler).

### Fairness

`FairSpec` assumes that `main` reaches its `intr_enable` (`WF`), that the timer
interrupt is taken (`SF`), that each thread executes its next statement
(`SF`), and that a thread does not nest acquisitions for ever (`SF` on `lock_release_last`, the
outermost release: the `console_put_*` functions acquire and release once each). Strong fairness is what the hardware gives: a
tick that comes while interrupts are off stays pending in the PIC until they are
enabled, and a thread that is given the CPU again and again does execute between
two ticks. No fairness is assumed of which thread is chosen: that is what `schedule` decides and
`ReadyRuns` tests. Nothing is said about a single waiter: it can be
overtaken for ever, and no document promises otherwise.

`IOQueueFair` assumes the same, and a user who does not stop typing
(`SF` on the keyboard interrupt). It is used to refute: even then a waiting reader is not served.

## Theorems

| Theorem | For every | States |
|---|---|---|
| `TypeCorrectness`, `SchedulerSafety`, `RoundRobinOrder` | set of threads, priorities, mask | `ThreadsSpec => []ThreadsTypeOK`, `[]SchedInv`, `RoundRobin` |
| `ContextReadyList`, `TickAfterTick` | the same | `ContextSpec => []ReadyListExact`, `[]TimerRearmed` |
| `RegistersSurvive`, `NothingLeftOver`, `FlagGivenBack`, `StackDepth` | the same | `ContextSpec => []RegistersKept`, `[]StackBalanced`, `[]FlagAsScheduled`, `[]ContextTypeOK` |
| `ConsoleTypes`, `ThreadsResumable`, `ConsoleNeverPanics`, `MutualExclusion`, `WaitersAreExact`, `WakeupsReachAThread` | the same, and any nesting | `ConsoleSpec => []ConsoleTypeOK`, `[]Resumable`, `[]NoPanic`, `[]OneOwner`, `[]WaitersExact`, `[]NoLostWakeup` |
| `LockIsReentrantLock` | the same | `ConsoleSpec => LockImplemented` |
| `CursorAtEndOfText`, `CursorStaysOnScreen`, `TornCursorIsRepaired`, `PrintedTextIsShown` | screen and register size, messages, number of keys | `EchoSpec => []CursorFollowsText`, `[]CursorOnScreen`, `[]HardwareCursorFollows`, `[]ShowsText` |
| `ScreenTypesSafe` | the same | `EchoSpec => []ScreenTypeOK` |
| `PrintkIsExact`, `PrintkPrintsExpansion` | format and arguments that `PrintkAssumption` admits | `printk` leaves the expansion of the format in its buffer; `EchoSpec => []PrintkExpands` |
| `ConversionsAreExact`, `NumbersArePrintedExactly` | number from 0 to 2147483647 | `Converted(n)`: the digits stand for n; `EchoSpec => []ConversionsExact` |
| `KeyboardTypeCorrect`, `ModifiersComeOff`, `TypedCharactersQueued` | set of keys, keys down, bytes on the way, buffer size | `KeyboardSpec => []KeyboardTypeOK`, `[]NoStuckModifier`, `QueuesRightColumn` |
| `IOQueueTypes`, `CharactersSurvive`, `RingIsFIFO` | buffer size, readers, characters, slots under the pointers | `IOQueueSpec => []IOQueueTypeOK`, `[]NoCharOverwritten`, `FIFOImplemented` |
| `LayoutSafety` | memory size from 2 MB on | `MemorySpec => []PoolLayout` |
| `MemoryTypes`, `NoPageTwice`, `NoFrameTwice`, `NothingLeaks`, `ScanStaysInside` | the same, pages a call, content of memory at power-on | `MemorySpec => []MemoryTypeOK`, `[]RangesDisjoint`, `[]FramesExclusive`, `[]AllOrNothing`, `[]WithinBitmap` |
| `MappedWhereRecorded`, `KernelStaysMapped`, `TablesNeverHandedOut` | the same, and table sizes | `PagingSpec => []MappedAsRecorded`, `[]KernelTablesPresent`, `[]TablesPrivate` |

*Assumptions*: `ThreadsAssumption` (main is a thread, priorities and mask are
bytes), `ConsoleAssumption` (NULL is no thread, `MaxDepth` is positive),
`ScreenAssumption` (2 to 255 columns and rows, two registers hold every place on the
screen), `PrintkAssumption` (numbers are what `int` and `unsigned int` have in common, texts are sequences, and
a call has an argument for each directive of its format: without one `va_arg` is undefined, and every call in
the repository has them), `KeyboardAssumption` (keys have codes of one byte or of one behind 0xe0; see above),
`IOQueueAssumption` (at least two slots, a link is no character, the pointers lie over slots),
`MemoryAssumption` (at least 2 MB, 1 to 3839 pages a call) and `PagingAssumption` (the pool, the unknown bits behind it and one call
more fit into the directory's entries below the last, so that a scan that runs on ends at a page that has a table; an entry of power-on
names a frame, in front of the pool or behind).

*Induction*: the provers cannot instantiate the library's induction theorems, which take a predicate as a
parameter. `Induction` states what is needed with sets instead: the least element of a set of numbers from the
theorem about well-founded relations (`Least`), from it induction upwards (`UpTo`, `FromBelow`), and that a
function defined by recursion on a smaller argument exists (`Recursion`), which is what it takes to
use the equations of a recursive function. The tables, the conversions and the loop of `printk` are proved with these.

*Lists* (at the beginning of `ThreadsProofs`): what append, push and pop do to membership and to
"linked once". Everything about the scheduler's and the lock's lists cites these three lemmas.

*Scheduler*: `ThreadsInv` is `ThreadsTypeOK /\ SchedInv`. Types alone are not
inductive: `charged` stays a byte because `charged + ticks` is the priority
(`SliceAccounting`), and the thread popped is a thread that is ready because of `ReadyListExact`. One lemma per
operation; `schedule` is one lemma used by the timer and by `thread_block`.

*Context*: each action of the machine is built on one of the scheduler or leaves its state alone (`ContextImplementsThreads`, a lemma that
holds by this construction). So what is proved of `Threads` holds of the machine without a second proof; `ContextReadyList` is
an instance. `TickAfterTick` needs only that the stub is acknowledged before the handler runs.
The four theorems about stacks come from `MachineInv`, which says what every stack holds, word for word:
a thread that does not run has one of three (`SavedAs`), as `thread_create` wrote it, as the timer's handler left it or as
`thread_block` left it, and which of them is decided by `in_block`; the running thread's is empty, a frame of
`thread_block`, or what the stub has pushed so far. `SavedResumes` runs `switch_to` and the return
addresses on each of the three and finds the registers again; `Switching` carries this over to
the two stacks that a switch touches, and one lemma per action does the rest. That the next thread has a
stack at all is `SchedInv`: it was ready (`ScheduledThread`). TLC does not evaluate `MachineInv`, whose quantifiers range over
all registers; it checks the four properties.

*Console*: `ConsoleInv` (`ConsoleSafety`, a lemma) adds to the four properties what makes them inductive:
`SchedInv`, and `Resumable`, which ties a thread's place (`pc`) to the interrupt
flag and to `in_block`. Without it a thread at the `while` of `semaphore_down` might be running with
interrupts on, or be woken at a place where it does not test `value` again. `main` is never blocked, so
the ready list is not empty when a printer blocks (`MainReady`), and the ASSERT of `schedule` holds. Each
operation's effect on the thread component is a lemma (`TimerEffect`,
`BlockEffect`, `UnblockEffect`, `StartEffect`) and its preservation of `ConsoleInv`
another. The steps that change neither owner nor list share `LocalStep` and
`FlagStep`.

*Lock refinement*: from `ConsoleInv`, the owner is unique (`OwnedState`, `FreeState`),
so `semaphore_take` maps to `Acquire`, a nested `lock_acquire` to `Acquire`, a nested
`lock_release` and `semaphore_up` to `Release`, and every other step to a stutter.

*Screen*: `CursorInv` says for each place in `vga_putc` by how much the cursor lags behind
the text (`Behind`): one character between the store and the increments, a row less while the screen
rolls. A row that an echo rolls away leaves the text and comes to its `gap` (`RolledGap`), which closes when the next character is
stored. `RegisterInv` says which of the two bytes has been written, which register
is selected, and that only a key can make this untrue (`disturbed`). `TextInv` adds
to `ShowsText` that the place computed at the start is still the cursor's when the character is
stored: echoes do not move `cursor_x` and `cursor_y`. This is the step at which `key_unknown` fails, so the three are theorems of `EchoSpec`.
The types are part of no other invariant and are proved with `CursorInv`: the buffer ends with `\0`, so the scan
of `kputs` stops inside it (`BufferOK`); and every place that `aput_char` computes fits into two register bytes, also when it
starts from torn ones that point behind the last cell (`DeviceOK`, `PlaceOf`).

*Conversions*: `digits` and `func` are followed down to a number of one digit, and `Value` up from the first digit
(`ValueAppend`); that the two agree is `UintExact` and `HexExact`. A number below 2^31 has at most eight hexadecimal
digits (`EightDigits`), so the padding never has a negative length.

*Formatting*: `Expands` is the expansion of the format's first i characters, for every i. `Passed(k)` is the state of
the loop when it has passed k characters of the format: their expansion, then the rest of the format, with the offset
between the two. From there a turn goes to `Passed(k + 1)` (`PlainTurn`) or, over a directive, to `Passed(k + 2)`
(`DirectiveTurn`), whether the argument is empty or full of `%`, because nothing in front of the offset is looked at again.
After as many turns as there are characters the loop is at the end (`PrintkIs`).

*Keyboard*: `KeyboardInv` looks at the bytes still on the wire. `EndsClear`: the flag is off and no
make code of its keys is to come, or one of their break codes is to come and no make
code behind it. `Clears`: this holds of every modifier whose keys are up. `WholeCodes`
keeps codes and prefixes together; sending (`SentCode`) and reading (`ReceivedCode`) a byte are
two lemmas about the code at a place of the wire.

*Character queue*: with `consumer = NULL` in the invariant (no reader is ever recorded: finding 2) the
links are written only while the ring is empty. `RingSums`, `RingPut` and `RingGet` are the
arithmetic modulo `buf_size`; from them `PutAppends` and `GetTakesFirst` say what the two operations
do to the abstract queue.

*Layout*: linear arithmetic with division, from the four small lemmas about
halves, bytes, remainders and pages.

*Allocation*: `AllocInv` says that the pages handed out are the first k and the frames taken the first m (`FirstTaken`). Between calls
m is k, and the bits are these pages and what lay behind the bitmap at power-on (`AtRest`); in a call the pages mapped so far come on top
(`OnItsWay`), and these are the next ones when the frames suffice for the call. That `bit_left` is wrong does not hurt this: where enough
pages are left they are a single run, and a
scan either ends too early and takes nothing or finds the start of this run (`ScanFinds`); where too few are left
the frames do not suffice either, for both bitmaps are equally full, and the ASSERT of `palloc`'s scan stops the
kernel in the middle of the call, with its bits set and some of its pages mapped. Each step of `Paging` is one of `Memory` by
construction (`AllocWithTables`, a lemma).

*Page tables*: `TablesInv` says that the tables are `TablesOf(pte)`, a function of what `Memory` records, as long as no page was handed
out in front of the pool, and that after that an entry may be absent instead: the entry for page p
lies in table p + `KLOW` divided by `ENTRIES` at the remainder, and all else is as `setup_page` left it.
Through the directory's last entry `pte_ptr` leads to just this table (`Quotient` and `Division`, the arithmetic of a number in
base `ENTRIES`), so each turn of the loop of `malloc_page` records one more page (`EnterPage`), and the clearing of
the call's pages changes a table only if a page lies on it (`ClearPages`).
`MappedAsRecorded`, `KernelTablesPresent` and `TablesPrivate` are then facts about `TablesOf`; the last needs that
`used_mem` puts the pool's frames behind the tables (`PoolBehind`).

Every invariant and every action property of the runs is a theorem, and so are the two refinements that the runs check.
Only model-checked is liveness (`ReadyRuns`, `ConsoleFreed`): the prover does no fairness. What the theorems about the
screen say is said of `EchoSpec`; for `ScreenSpec`, which has keys that are not in `keymap`, `CursorOnScreen` is false (finding 6).

## Findings

1. `device/keyboard.c:138`: one flag for two keys; releasing one clears it while the
   other is down.
2. `device/ioqueue.h:11`: a pointer used as a lock; waiting readers sleep for ever.
3. `kernel/bitmap.c:29`: a full bitmap fails an ASSERT instead of returning -1, and
   `malloc_page` does not return NULL.
4. `kernel/bitmap.c:47`: `bit_left` mixes bytes and bits; free runs are missed.
5. `kernel/memory.c:170`: an entry that a page table held at power-on stays, so that two pages may share a frame, or a page lie on memory
   that `palloc` never gave out.
6. `libs/vga_basic.c:72` with `device/keyboard.c:147`: the text for an unknown key goes
   through `vga_putc` inside the handler. When it comes between the test of `cursor_y` and its increment
   in an interrupted `vga_putc`, the cursor leaves the screen and does not come back.

## Not modelled

* The exception handler `general_intr_handler`, which ends in an endless loop; it calls `set_cursor`
  (`interrupt.c:89`), the tail of an assembly routine, as a C function. The IDT, written once. Exceptions that push an
  error code of their own, to which the stubs add another (`kernel.S:65`): nothing returns from them.
* `frequency_set` (`timer.c:28`): `(uint8_t) counter_value >> 8` is 0, so the timer ticks about seven times
  too often. A tick is an event without a rate here.
* How long a slice is: the switch comes with the tick that finds `ticks` at 0, the n + 1st of a
  slice of n. The repository does not say clearly which is meant, and no property does.
* `list_length`, `list_traversal`, `bitmap_set(.., 0)`, `TASK_DIED`, `printbasic`: no caller or writer.
* `printk_color`: the loop of `printk` over a buffer of its own. The bounds of the buffers of `printk` (100 bytes) and of the conversions,
  and a negative argument of `num2hexstr` (`string.c:16`, which then reads in front of a local array): undefined behaviour that
  no call in the repository reaches.
* Preemption inside `thread_start` and `malloc_page`: neither is protected against it, and every call comes
  with interrupts disabled.
* That a held caps lock key toggles with each repeated code: the model has it, no property judges it.
* What follows after `get_kernel_pages` has cleared memory of the kernel's own through a stale entry; what a
  cleared frame of the pool held (another thread's stack, say).
* That 0xfd masks the timer (`interrupt.c:188`): with it nothing that the scheduler runs ask about can happen.
* The digits of `keymap` (see Keyboard).
* Boot: the disk reads, the memory detection, the descriptor table and `kernel_init`. What they leave
  behind is in the initial states; `setup_page` is in `Paging`.
* The GRUB boot of an earlier version: `boot.s` is not built, and nothing calls `entry.c`.

## Plan

Done, in this order: lists, threads, lock and console; keyboard, queue, memory; context switches, page
tables, formatting and the screen; the proofs of all their safety properties.

Next, to model:

1. `Keyboard` composed with `IOQueue` in place of its FIFO, and with `Screen`'s echo.
2. Overlapping calls of `Memory`, with vaddr_get and palloc split where an enabled timer could come, to
   say exactly what callers have to guarantee.

Next, to prove:

1. What is left of the screen when a key is not in `keymap`: which parts of `ScreenTypeOK` hold for `ScreenSpec` all the same.
2. For overlapping calls: that `RangesDisjoint` needs interrupts disabled in `vaddr_get`, and nothing else.
