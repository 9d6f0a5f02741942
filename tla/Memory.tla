-------------------------------- MODULE Memory --------------------------------
(***************************************************************************)
(* The page allocator: kernel/memory.c on the bitmaps of kernel/bitmap.c.  *)
(* Pages are numbered from K_HEAD_START, frames from the start of the      *)
(* kernel pool, and a bitmap is the set of its bits that are 1.            *)
(*                                                                         *)
(* Threads are created before main enables interrupts: calls do not        *)
(* overlap.  But a failed ASSERT stops the kernel where it is, so a call   *)
(* is taken apart: first vaddr_get, then each turn of the loop that takes  *)
(* a frame and maps a page.  Nothing is ever freed.  The user pool is laid *)
(* out but never allocated from: with PF_USER malloc_page returns NULL     *)
(* before it changes anything.                                             *)
(***************************************************************************)
EXTENDS Integers, FiniteSets, FiniteSetsExt

CONSTANTS
  MemSize,      \* the values the loader may leave at 0xb00 (bytes of memory)
  MaxPages,     \* bound on page_count (the code's is 3839)
  JunkBits,     \* how many bits behind the last bitmap have an unknown value
  StaleTables   \* page |-> frame, the present page table entries that memory
                \* may hold at power-on; a frame of the pool or any other

PAGE_SIZE == 4096

\* The low 1 MB, and the page directory with its page tables.
used_mem == PAGE_SIZE * 256 + 1048576

ASSUME MemoryAssumption ==
  /\ \A m \in MemSize : m \in Nat /\ m >= used_mem
  /\ MaxPages \in 1..3839
  /\ JunkBits \in Nat
  /\ \A t \in StaleTables : DOMAIN t \subseteq Nat /\ \A p \in DOMAIN t : t[p] \in Int

VARIABLES
  all_memory,
  kernel_bits,   \* kernel_pool.pool_bitmap
  vaddr_bits,    \* kernel_addr.vaddr_bitmap, and what lies behind it
  pte,           \* page |-> frame, of the page table entries with P set
  call,          \* the call of malloc_page that is in its loop, or NoCall
  power_on,      \* history: the bits and entries that memory held at power-on
  handed,        \* history: the ranges <<page, page_count>> that were returned
  panicked       \* a failed ASSERT has stopped the system

memoryVars == <<all_memory, kernel_bits, vaddr_bits, pte, call, power_on, handed, panicked>>

-----------------------------------------------------------------------------
\* mem_pool_init, with its uint16_t page counts.
free_pages(m) == ((m - used_mem) \div PAGE_SIZE) % 65536
kernel_free_pages(m) == free_pages(m) \div 2

\* Mutant: the user pool is given all of the free pages.
user_free_pages_All(m) == free_pages(m)

user_free_pages(m) == free_pages(m) - kernel_free_pages(m)

kernel_bitmap_length(m) == kernel_free_pages(m) \div 8
user_bitmap_length(m) == user_free_pages(m) \div 8

user_pool_start(m) == used_mem + kernel_free_pages(m) * PAGE_SIZE

\* Mutant: the bitmap of kernel_addr is a byte short.
vaddr_bitmap_length_Short(m) == kernel_bitmap_length(m) - 1

\* kernel_addr has as many pages as the kernel pool has frames.
vaddr_bitmap_length(m) == kernel_bitmap_length(m)

\* Offset from MEM_BITMAP_BASE, where the kernel pool's bitmap is, of the one
\* of kernel_addr: the user pool's lies between them.
vaddr_bitmap_offset(m) == kernel_bitmap_length(m) + user_bitmap_length(m)

\* The frame at 0xc009e000 is main's stack and PCB.
BitmapRoom == 4 * PAGE_SIZE

Frame == 0..(8 * kernel_bitmap_length(all_memory) - 1)

VaddrBits == 8 * vaddr_bitmap_length(all_memory)
Page == 0..(VaddrBits - 1)

NoCall == [start |-> 0, page_count |-> 0, left |-> 0]

\* bitmap_init clears the three bitmaps, the bits behind the last one have an
\* unknown value.  setup_page of the loader clears the page directory but none
\* of the tables it enters there: those hold whatever was in memory.
MemoryInit ==
  /\ all_memory \in MemSize
  /\ power_on \in [bits : SUBSET (VaddrBits..(VaddrBits + JunkBits - 1)), entries : StaleTables]
  /\ kernel_bits = {}
  /\ vaddr_bits = power_on.bits
  /\ pte = power_on.entries
  /\ call = NoCall
  /\ handed = {}
  /\ panicked = FALSE

-----------------------------------------------------------------------------
\* bitmap_scan of the bitmap of kernel_addr, when Page has a clear bit: the
\* bits up to bit_left behind the first clear one are tried.  bit_left is
\* unsigned: when it would be negative the search goes on behind the bitmap,
\* where every bit after the junk counts as clear.
bitmap_scan(bits, cnt) ==
  LET first    == Min(Page \ bits)
      bit_left == (vaddr_bitmap_length(all_memory) - first) * 8 - (first % 8)
      horizon  == IF bit_left >= 0 THEN first + bit_left
                                   ELSE VaddrBits + JunkBits + cnt
      found    == {last \in (first + cnt - 1)..horizon :
                     ((last - cnt + 1)..last) \cap bits = {}}
  IN  IF cnt = 1 THEN first
      ELSE IF found = {} THEN -1
      ELSE Min(found) - cnt + 1

\* Mutant: the pages are not marked as taken.
vaddr_taken_None(range) == vaddr_bits

\* The bitmap_set loop of vaddr_get.
vaddr_taken(range) == vaddr_bits \cup range

\* bitmap_scan(&kernel_pool, 1) of palloc: the lowest clear bit.
palloc == Min(Frame \ kernel_bits)

\* Mutants: the bit behind the frame's, or none, is set.
frame_taken_Next(f) == kernel_bits \cup {f + 1}
frame_taken_None(f) == kernel_bits

\* bitmap_set of palloc.
frame_taken(f) == kernel_bits \cup {f}

\* page_table_add: a page whose entry is present keeps it, whoever wrote it.
\* (setup_page has made every kernel page directory entry present, so no page
\* table is allocated.)
page_table_add(p, f) ==
  [x \in DOMAIN pte \cup {p} |-> IF x \in DOMAIN pte THEN pte[x] ELSE f]

\* bitmap_scan's ASSERT: what was done before it stays as it is.
Panic ==
  /\ panicked' = TRUE
  /\ UNCHANGED <<all_memory, kernel_bits, vaddr_bits, pte, call, power_on, handed>>

Pages(r) == r[1]..(r[1] + r[2] - 1)

AllPages == UNION {Pages(r) : r \in handed}

\* get_kernel_pages, malloc_page's only caller, clears the pages it is given.  A
\* page that an entry of power-on maps below the pool is one of the kernel's own:
\* its code, data or stack, a bitmap, the page directory or a table.  A machine
\* that has cleared one of these is not followed any further.
Intact == \A p \in AllPages : pte[p] >= 0

\* malloc_page(PF_KERNEL, page_count) as far as vaddr_get returns.  A failed
\* search returns NULL and changes nothing.
malloc_page(page_count) ==
  /\ Intact /\ ~panicked /\ call = NoCall
  /\ \/ /\ Page \subseteq vaddr_bits
        /\ Panic
     \/ /\ ~(Page \subseteq vaddr_bits)
        /\ LET start == bitmap_scan(vaddr_bits, page_count)
           IN  /\ start # -1
               /\ vaddr_bits' = vaddr_taken(start..(start + page_count - 1))
               /\ call' = [start |-> start, page_count |-> page_count, left |-> page_count]
               /\ UNCHANGED <<all_memory, kernel_bits, pte, power_on, handed, panicked>>

\* Mutant: palloc returns NULL, and malloc_page with it.
no_frame_left_ReturnsNull ==
  /\ call' = NoCall
  /\ UNCHANGED <<all_memory, kernel_bits, vaddr_bits, pte, power_on, handed, panicked>>

\* palloc when no frame is left.  (malloc_page's test for NULL is never reached.)
no_frame_left == Panic

\* vaddr, the page that the loop maps next.
next_page == call.start + (call.page_count - call.left)

\* One turn of the loop; the last one returns the range.
malloc_page_loop ==
  /\ Intact /\ ~panicked /\ call # NoCall
  /\ \/ /\ Frame \subseteq kernel_bits
        /\ no_frame_left
     \/ /\ ~(Frame \subseteq kernel_bits)
        /\ kernel_bits' = frame_taken(palloc)
        /\ pte' = page_table_add(next_page, palloc)
        /\ IF call.left = 1
           THEN call' = NoCall /\ handed' = handed \cup {<<call.start, call.page_count>>}
           ELSE call' = [call EXCEPT !.left = @ - 1] /\ UNCHANGED handed
        /\ UNCHANGED <<all_memory, vaddr_bits, power_on, panicked>>

MemoryNext ==
  \/ \E page_count \in 1..MaxPages : malloc_page(page_count)
  \/ malloc_page_loop

MemorySpec == MemoryInit /\ [][MemoryNext]_memoryVars

-----------------------------------------------------------------------------
\* The pages whose entry held something at power-on.
Stale == DOMAIN power_on.entries

\* The kernel runs, and no call of malloc_page is on its way.
Resting == Intact /\ ~panicked /\ call = NoCall

\* Every entry that was not there at power-on is of a frame that is taken.
MemoryTypeOK ==
  /\ all_memory \in MemSize
  /\ kernel_bits \subseteq Frame
  /\ vaddr_bits \subseteq Nat
  /\ DOMAIN pte \subseteq Nat
  /\ \A p \in DOMAIN pte : pte[p] \in IF p \in Stale THEN Int ELSE kernel_bits
  /\ call \in [start : Nat, page_count : 0..MaxPages, left : 0..MaxPages]
  /\ handed \subseteq Nat \X (1..MaxPages)
  /\ panicked \in BOOLEAN

\* The pools lie in memory behind the page tables, the kernel's before the
\* user's, have a frame for every bit, and their bitmaps end below main's PCB.
PoolLayout ==
  LET m == all_memory
  IN  /\ user_pool_start(m) + user_free_pages(m) * PAGE_SIZE <= m
      /\ used_mem + 8 * kernel_bitmap_length(m) * PAGE_SIZE <= user_pool_start(m)
      /\ vaddr_bitmap_offset(m) + vaddr_bitmap_length(m) <= BitmapRoom

\* No page is handed out twice, whatever bits the scan has read behind the
\* bitmap.
RangesDisjoint ==
  \A r, s \in handed : r # s => Pages(r) \cap Pages(s) = {}

\* Every page that was handed out is mapped, and two pages whose entries were
\* clear at power-on never share a frame, not even when the kernel stops half
\* way.  (Of the others it says nothing: OwnFrame.)
FramesExclusive ==
  /\ AllPages \subseteq DOMAIN pte
  /\ \A p, q \in DOMAIN pte \ Stale : pte[p] = pte[q] => p = q

\* memory.c, malloc_page and page_table_add: the pages that are handed out have
\* been mapped to the frames that palloc took for them, so writing to one
\* thread's PCB cannot change another's.
OwnFrame ==
  \A p, q \in AllPages : pte[p] \in kernel_bits /\ (pte[p] = pte[q] => p = q)

\* A call returns with all of its pages and frames, or has taken none: what
\* malloc_page has taken when palloc finds no frame is never left behind by a
\* call that returns, for then the kernel stops.
AllOrNothing ==
  Resting => /\ Cardinality(kernel_bits) = Cardinality(AllPages)
             /\ vaddr_bits \cap Page = AllPages

\* No page from behind the bitmap is handed out.  A search that succeeds there
\* has its bits set and some of its pages mapped, but the frames do not suffice
\* and the call never returns: between calls nothing behind the bitmap differs
\* from what was there at power-on.
WithinBitmap ==
  /\ AllPages \subseteq Page
  /\ Resting => vaddr_bits \ Page = power_on.bits /\ DOMAIN pte \subseteq Page \cup Stale

\* memory.c, vaddr_get, and bitmap.c, bitmap_scan: when there is not enough
\* room the result says so.
FailureIsReported == ~panicked

\* bitmap.c, bitmap_scan: it fails only when there is no run of cnt bits.
ScanFindsRoom ==
  \A cnt \in 1..MaxPages :
    (\E p \in Page : p..(p + cnt - 1) \subseteq Page \ vaddr_bits)
      => bitmap_scan(vaddr_bits, cnt) # -1

=============================================================================
