----------------------------- MODULE MemoryProofs -----------------------------
(***************************************************************************)
(* Proofs about Memory, for memory of every size, any bound on the pages   *)
(* of a call and any contents of the memory at power-on: the layout of the *)
(* pools, and that no page or frame is ever given out twice.  Paging, with *)
(* the page tables in memory, inherits all of it.                          *)
(***************************************************************************)
EXTENDS Paging, FiniteSetTheorems, Induction, TLAPS

-----------------------------------------------------------------------------
\* Half of n, rounded down.
LEMMA Halves ==
  ASSUME NEW n \in Nat
  PROVE  n \div 2 \in Nat /\ 2 * (n \div 2) <= n /\ n <= 2 * (n \div 2) + 1
  BY SMT

\* The whole bytes among n bits.
LEMMA Eighths ==
  ASSUME NEW n \in Nat
  PROVE  n \div 8 \in Nat /\ 8 * (n \div 8) <= n
  BY SMT

\* The remainder by 2^16, which is what a uint16_t keeps.
LEMMA Remainder ==
  ASSUME NEW n \in Nat
  PROVE  n % 65536 \in Nat /\ n % 65536 <= 65535 /\ n % 65536 <= n
  BY SMT

\* The pages of 4096 bytes that fit into n bytes.
LEMMA WholePages ==
  ASSUME NEW n \in Nat
  PROVE  n \div 4096 \in Nat /\ 4096 * (n \div 4096) <= n
  BY SMT

\* used_mem is 2 MB.
LEMMA UsedMem == used_mem = 2097152
  BY SMT DEF used_mem, PAGE_SIZE

\* mem_pool_init counts no more pages than there are, in spite of uint16_t.
LEMMA FreePages ==
  ASSUME NEW m \in Nat, m >= used_mem
  PROVE  /\ free_pages(m) \in Nat /\ free_pages(m) <= 65535
         /\ 2097152 + free_pages(m) * 4096 <= m
  <1>1. m - 2097152 \in Nat
    BY UsedMem, SMT
  <1> DEFINE pages == (m - 2097152) \div 4096
  <1>2. pages \in Nat /\ 4096 * pages <= m - 2097152
    BY <1>1, WholePages
  <1>3. free_pages(m) = pages % 65536
    BY UsedMem, SMT DEF free_pages, PAGE_SIZE
  <1> HIDE DEF pages
  <1>4. pages % 65536 \in Nat /\ pages % 65536 <= 65535 /\ pages % 65536 <= pages
    BY <1>2, Remainder
  <1> QED BY <1>2, <1>3, <1>4, SMT

\* Half of the pages for each pool, a bit for each page.
LEMMA LayoutArithmetic ==
  ASSUME NEW m \in Nat, NEW f \in Nat, f <= 65535, 2097152 + f * 4096 <= m,
         NEW k \in Nat, 2 * k <= f, f <= 2 * k + 1,
         NEW u \in Nat, u = f - k,
         NEW kb \in Nat, 8 * kb <= k, NEW ub \in Nat, 8 * ub <= u
  PROVE  /\ (2097152 + k * 4096) + u * 4096 <= m
         /\ 2097152 + 8 * kb * 4096 <= 2097152 + k * 4096
         /\ (kb + ub) + kb <= 4 * 4096
  BY SMT

\* The layout that mem_pool_init computes is sound for every size.
LEMMA LayoutFits ==
  ASSUME NEW m \in Nat, m >= used_mem
  PROVE  /\ user_pool_start(m) + user_free_pages(m) * PAGE_SIZE <= m
         /\ used_mem + 8 * kernel_bitmap_length(m) * PAGE_SIZE <= user_pool_start(m)
         /\ vaddr_bitmap_offset(m) + vaddr_bitmap_length(m) <= BitmapRoom
  <1>1. /\ free_pages(m) \in Nat /\ free_pages(m) <= 65535
        /\ 2097152 + free_pages(m) * 4096 <= m
    BY FreePages
  <1>2. /\ kernel_free_pages(m) \in Nat
        /\ 2 * kernel_free_pages(m) <= free_pages(m)
        /\ free_pages(m) <= 2 * kernel_free_pages(m) + 1
    BY <1>1, Halves DEF kernel_free_pages
  <1>3. /\ user_free_pages(m) = free_pages(m) - kernel_free_pages(m)
        /\ user_free_pages(m) \in Nat
    BY <1>1, <1>2, SMT DEF user_free_pages
  <1>4. /\ kernel_bitmap_length(m) \in Nat
        /\ 8 * kernel_bitmap_length(m) <= kernel_free_pages(m)
    BY <1>2, Eighths DEF kernel_bitmap_length
  <1>5. /\ user_bitmap_length(m) \in Nat
        /\ 8 * user_bitmap_length(m) <= user_free_pages(m)
    BY <1>3, Eighths DEF user_bitmap_length
  <1>6. /\ (2097152 + kernel_free_pages(m) * 4096) + user_free_pages(m) * 4096 <= m
        /\ 2097152 + 8 * kernel_bitmap_length(m) * 4096
              <= 2097152 + kernel_free_pages(m) * 4096
        /\ (kernel_bitmap_length(m) + user_bitmap_length(m)) + kernel_bitmap_length(m)
              <= 4 * 4096
    BY <1>1, <1>2, <1>3, <1>4, <1>5, LayoutArithmetic
  <1> QED BY <1>6, UsedMem, SMT
          DEF user_pool_start, vaddr_bitmap_offset, vaddr_bitmap_length, BitmapRoom, PAGE_SIZE

\* The pools and their bitmaps are where there is memory for them, and they
\* stay there.
THEOREM LayoutSafety == MemorySpec => []PoolLayout
  <1>1. MemoryInit => PoolLayout
    BY MemoryAssumption, LayoutFits DEF MemoryInit, PoolLayout, vaddr_bitmap_length
  <1>2. PoolLayout /\ [MemoryNext]_memoryVars => PoolLayout'
    BY DEF PoolLayout, MemoryNext, malloc_page, malloc_page_loop, no_frame_left, Panic, memoryVars,
           user_pool_start, user_free_pages, kernel_free_pages, kernel_bitmap_length,
           vaddr_bitmap_offset, user_bitmap_length, free_pages
  <1> QED BY <1>1, <1>2, PTL DEF MemorySpec

-----------------------------------------------------------------------------
\* The pages that were returned and the frames that are taken are the first k
\* and the first m.
FirstTaken(k, m) ==
  /\ AllPages = 0..(k - 1) /\ kernel_bits = 0..(m - 1)
  /\ k <= m /\ m <= VaddrBits

\* The entries of power-on are still there, each other one has a frame of its
\* own that is taken, and none lies further than a scan can run.
Entries ==
  /\ Stale \subseteq DOMAIN pte /\ \A p \in Stale : pte[p] = power_on.entries[p]
  /\ \A p \in DOMAIN pte \ Stale :
       p \in 0..(VaddrBits + JunkBits + MaxPages) /\ pte[p] \in kernel_bits
  /\ FramesExclusive

\* Between calls there are as many frames as pages, and what lies behind the
\* bitmap is as it was.
AtRest(k, m) ==
  /\ call = NoCall /\ m = k
  /\ vaddr_bits = (0..(k - 1)) \cup power_on.bits
  /\ DOMAIN pte = (0..(k - 1)) \cup Stale

\* In the loop done pages have been mapped.  When the rest of the pool suffices
\* for the call its pages are the next ones.
OnItsWay(k, m) ==
  LET done == call.page_count - call.left
      last == call.start + call.page_count - 1
  IN  /\ call.start \in Nat /\ call.page_count \in 1..MaxPages
      /\ call.left \in 1..call.page_count /\ m = k + done
      /\ vaddr_bits = (0..(k - 1)) \cup power_on.bits \cup (call.start..last)
      /\ DOMAIN pte = (0..(k - 1)) \cup Stale \cup (call.start..(call.start + done - 1))
      /\ last <= VaddrBits + JunkBits + MaxPages
      /\ k + call.page_count <= VaddrBits => call.start = k

AllocInv ==
  /\ all_memory \in MemSize /\ panicked \in BOOLEAN
  /\ power_on \in [bits : SUBSET (VaddrBits..(VaddrBits + JunkBits - 1)), entries : StaleTables]
  /\ vaddr_bits \subseteq Nat
  /\ call \in [start : Nat, page_count : 0..MaxPages, left : 0..MaxPages]
  /\ handed \subseteq Nat \X (1..MaxPages)
  /\ RangesDisjoint
  /\ Entries
  /\ \E k, m \in Nat :
       FirstTaken(k, m) /\ (~panicked => AtRest(k, m) \/ OnItsWay(k, m))

\* The bitmaps of the kernel pool and of kernel_addr have a length.
LEMMA LengthInNat ==
  ASSUME all_memory \in MemSize
  PROVE  /\ vaddr_bitmap_length(all_memory) \in Nat
         /\ kernel_bitmap_length(all_memory) = vaddr_bitmap_length(all_memory)
  <1>1. all_memory \in Nat /\ all_memory >= used_mem
    BY MemoryAssumption
  <1>2. free_pages(all_memory) \in Nat
    BY <1>1, FreePages
  <1>3. kernel_bitmap_length(all_memory) \in Nat
    BY <1>2, Halves, Eighths DEF kernel_free_pages, kernel_bitmap_length
  <1> QED BY <1>3 DEF vaddr_bitmap_length

\* There are as many pages as frames, eight for each byte of a bitmap.
LEMMA PoolSize ==
  ASSUME all_memory \in MemSize
  PROVE  VaddrBits \in Nat /\ Frame = Page /\ Page = 0..(VaddrBits - 1)
  BY LengthInNat, SMT DEF VaddrBits, Frame, Page

\* What is left of a bitmap whose first n bits are taken.
LEMMA BitsLeft ==
  ASSUME NEW size \in Nat, NEW n \in 0..size, NEW bits,
         bits \cap (0..(size - 1)) = 0..(n - 1)
  PROVE  /\ (0..(size - 1)) \ bits = n..(size - 1)
         /\ IsFiniteSet(n..(size - 1)) /\ Cardinality(n..(size - 1)) = size - n
  <1>1. (0..(size - 1)) \ bits = n..(size - 1)
    BY SMT
  <1> QED BY <1>1, FS_Interval, SMT

\* The least of a set of natural numbers.
LEMMA MinLeast ==
  ASSUME NEW S \in SUBSET Nat, S # {}
  PROVE  Min(S) \in S /\ \A y \in S : Min(S) <= y
  <1>1. \E n \in S : \A y \in S : n <= y
    BY Least
  <1> QED BY <1>1 DEF Min

\* palloc takes the frames in order.
LEMMA FramesInOrder ==
  ASSUME NEW size \in Nat, NEW m \in Nat, m <= size, Frame = 0..(size - 1),
         kernel_bits = 0..(m - 1), ~(Frame \subseteq kernel_bits)
  PROVE  m < size /\ palloc = m
  <1>1. m < size
    BY SMT
  <1>2. Frame \ kernel_bits = m..(size - 1)
    BY SMT
  <1>3. m..(size - 1) \in SUBSET Nat /\ m \in m..(size - 1)
    BY <1>1, SMT
  <1>4. palloc \in m..(size - 1) /\ \A y \in m..(size - 1) : palloc <= y
    BY <1>2, <1>3, MinLeast DEF palloc
  <1>5. palloc <= m /\ palloc \in m..(size - 1)
    BY <1>3, <1>4
  <1> QED BY <1>1, <1>5, SMT

\* How far bit_left reaches when it is not negative.
LEMMA BitLeft ==
  ASSUME NEW len \in Nat, NEW n \in Nat
  PROVE  n + ((len - n) * 8 - (n % 8)) \in Int /\ n + ((len - n) * 8 - (n % 8)) <= 8 * len
  BY SMT

\* A scan that finds pages does not run further than the junk behind the
\* bitmap, and finds the first clear ones when they are enough.
LEMMA ScanFinds ==
  ASSUME all_memory \in MemSize, NEW n \in 0..(VaddrBits - 1), NEW cnt \in Nat \ {0},
         Page \ vaddr_bits = n..(VaddrBits - 1), bitmap_scan(vaddr_bits, cnt) # -1
  PROVE  /\ bitmap_scan(vaddr_bits, cnt) \in Nat
         /\ bitmap_scan(vaddr_bits, cnt) + cnt - 1 <= VaddrBits + JunkBits + cnt
         /\ n + cnt <= VaddrBits => bitmap_scan(vaddr_bits, cnt) = n
  <1> DEFINE first == Min(Page \ vaddr_bits)
             len == vaddr_bitmap_length(all_memory)
             bit_left == (len - first) * 8 - (first % 8)
             horizon == IF bit_left >= 0 THEN first + bit_left
                                         ELSE VaddrBits + JunkBits + cnt
             found == {last \in (first + cnt - 1)..horizon :
                         ((last - cnt + 1)..last) \cap vaddr_bits = {}}
  <1>1. VaddrBits \in Nat /\ Page = 0..(VaddrBits - 1) /\ JunkBits \in Nat
    BY PoolSize, MemoryAssumption
  <1>2. first = n
    <2>1. n..(VaddrBits - 1) \in SUBSET Nat /\ n \in n..(VaddrBits - 1)
      BY <1>1, SMT
    <2>2. first \in n..(VaddrBits - 1) /\ first <= n
      BY <2>1, MinLeast
    <2> QED BY <1>1, <2>2, SMT
  <1>3. bitmap_scan(vaddr_bits, cnt)
          = IF cnt = 1 THEN first ELSE IF found = {} THEN -1 ELSE Min(found) - cnt + 1
    BY Zenon DEF bitmap_scan
  <1>4. horizon \in Int /\ horizon <= VaddrBits + JunkBits + cnt
    <2>1. len \in Nat /\ VaddrBits = 8 * len /\ n \in Nat
      BY <1>1, LengthInNat, SMT DEF VaddrBits
    <2>2. first + bit_left \in Int /\ first + bit_left <= VaddrBits
      BY <1>2, <2>1, BitLeft
    <2> HIDE DEF len, first, bit_left
    <2> QED BY <1>1, <2>2, SMT
  <1>5. ASSUME found # {}
        PROVE  /\ Min(found) \in Nat /\ n + cnt - 1 <= Min(found)
               /\ Min(found) <= VaddrBits + JunkBits + cnt
               /\ n + cnt <= VaddrBits => Min(found) = n + cnt - 1
    <2> DEFINE last == n + cnt - 1
               x == Min(found)
    <2> HIDE DEF horizon
    <2>1. \A y \in found : y \in Nat /\ last <= y /\ y <= horizon
      BY <1>1, <1>2, <1>4, SMT
    <2>2. found \in SUBSET Nat
      BY <2>1
    <2>3. x \in found /\ \A y \in found : x <= y
      BY <1>5, <2>2, MinLeast
    <2>4. ASSUME n + cnt <= VaddrBits PROVE last \in found
      <3>1. n..last \subseteq n..(VaddrBits - 1)
        BY <1>1, <2>4, SMT
      <3>2. last \in (first + cnt - 1)..horizon
        <4> HIDE DEF found, x
        <4> QED BY <1>1, <1>2, <1>4, <2>1, <2>3, SMT
      <3>3. (last - cnt + 1)..last = n..last
        BY <1>1, SMT
      <3> QED BY <3>1, <3>2, <3>3
    <2> HIDE DEF found, x
    <2>5. n + cnt <= VaddrBits => x = last
      BY <2>1, <2>3, <2>4, <1>1, SMT
    <2>6. x \in Nat /\ last <= x /\ x <= VaddrBits + JunkBits + cnt
      BY <1>1, <1>4, <2>1, <2>3, SMT
    <2> QED BY <2>5, <2>6 DEF x
  <1> HIDE DEF first, found
  <1>6. CASE cnt = 1
    BY <1>1, <1>2, <1>3, <1>6, SMT
  <1>7. CASE cnt # 1
    <2>1. found # {} /\ bitmap_scan(vaddr_bits, cnt) = Min(found) - cnt + 1
      BY <1>3, <1>7
    <2> QED BY <1>1, <1>5, <2>1, SMT
  <1> QED BY <1>6, <1>7

\* At power-on nothing is taken, whatever the memory holds.
LEMMA AllocInitially == MemoryInit => AllocInv
  <1> SUFFICES ASSUME MemoryInit PROVE AllocInv
    OBVIOUS
  <1> USE DEF MemoryInit
  <1>1. VaddrBits \in Nat /\ 0..(0 - 1) = {} /\ MaxPages \in Nat /\ JunkBits \in Nat
    BY PoolSize, MemoryAssumption, SMT
  <1>2. vaddr_bits \subseteq Nat
    BY <1>1, SMT
  <1>3. AllPages = {}
    BY DEF AllPages
  <1>4. Entries
    BY <1>3 DEF Entries, FramesExclusive, Stale
  <1>5. FirstTaken(0, 0) /\ AtRest(0, 0)
    BY <1>1, <1>3, SMT DEF FirstTaken, AtRest, Stale
  <1>6. call \in [start : Nat, page_count : 0..MaxPages, left : 0..MaxPages]
    <2>1. 0 \in Nat /\ 0 \in 0..MaxPages
      BY <1>1, SMT
    <2> QED BY <2>1 DEF NoCall
  <1>7. RangesDisjoint
    BY DEF RangesDisjoint
  <1> QED BY <1>2, <1>4, <1>5, <1>6, <1>7 DEF AllocInv

\* A call that is on its way has pages left.
LEMMA NotOnItsWay ==
  ASSUME call = NoCall, NEW k, NEW m
  PROVE  ~OnItsWay(k, m)
  <1> SUFFICES ASSUME OnItsWay(k, m) PROVE FALSE
    OBVIOUS
  <1>1. call.left = 0 /\ call.page_count = 0
    BY DEF NoCall
  <1> QED BY <1>1, SMT DEF OnItsWay

\* What a step leaves alone.
LEMMA SameSizes ==
  ASSUME all_memory' = all_memory
  PROVE  VaddrBits' = VaddrBits /\ Page' = Page /\ Frame' = Frame
  BY DEF VaddrBits, Page, Frame

\* Neither a failed ASSERT nor a step of others disturbs the order.
LEMMA AllocKept ==
  ASSUME AllocInv, UNCHANGED <<all_memory, kernel_bits, vaddr_bits, pte, call, power_on, handed>>,
         panicked' = TRUE \/ panicked' = panicked
  PROVE  AllocInv'
  <1>1. VaddrBits' = VaddrBits
    BY SameSizes
  <1>2. AllPages' = AllPages /\ Stale' = Stale
    BY DEF AllPages, Pages, Stale
  <1>3. Entries' /\ RangesDisjoint'
    BY <1>1, <1>2, Zenon DEF AllocInv, Entries, FramesExclusive, RangesDisjoint, Pages
  <1>4. PICK k \in Nat, m \in Nat :
          FirstTaken(k, m) /\ (~panicked => AtRest(k, m) \/ OnItsWay(k, m))
    BY DEF AllocInv
  <1>5. FirstTaken(k, m)'
    BY <1>1, <1>2, <1>4 DEF FirstTaken
  <1>6. AtRest(k, m) => AtRest(k, m)'
    BY <1>2 DEF AtRest, NoCall
  <1>7. OnItsWay(k, m) => OnItsWay(k, m)'
    BY <1>1, <1>2 DEF OnItsWay
  <1>8. ~panicked' => ~panicked
    BY DEF AllocInv
  <1> QED BY <1>1, <1>3, <1>4, <1>5, <1>6, <1>7, <1>8, Zenon DEF AllocInv

\* vaddr_get takes the next pages, or some behind the bitmap for which there
\* are not enough frames.
LEMMA AllocCall ==
  ASSUME AllocInv, NEW cnt \in 1..MaxPages, malloc_page(cnt)
  PROVE  AllocInv'
  <1>1. CASE Panic
    BY <1>1, AllocKept DEF Panic
  <1>2. CASE ~Panic
    <2> DEFINE start == bitmap_scan(vaddr_bits, cnt)
               range == start..(start + cnt - 1)
    <2>1. /\ ~panicked /\ call = NoCall /\ ~(Page \subseteq vaddr_bits) /\ start # -1
          /\ vaddr_bits' = vaddr_bits \cup range
          /\ call' = [start |-> start, page_count |-> cnt, left |-> cnt]
          /\ UNCHANGED <<all_memory, kernel_bits, pte, power_on, handed, panicked>>
      BY <1>2 DEF malloc_page, vaddr_taken
    <2>2. PICK k \in Nat, m \in Nat : FirstTaken(k, m) /\ (AtRest(k, m) \/ OnItsWay(k, m))
      BY <2>1 DEF AllocInv
    <2>3. /\ VaddrBits \in Nat /\ Page = 0..(VaddrBits - 1) /\ JunkBits \in Nat
          /\ cnt \in Nat \ {0} /\ MaxPages \in Nat /\ cnt <= MaxPages
      BY PoolSize, MemoryAssumption, SMT DEF AllocInv
    <2>4. ~OnItsWay(k, m)
      BY <2>1, NotOnItsWay
    <2>5. /\ m = k /\ k <= VaddrBits /\ DOMAIN pte = (0..(k - 1)) \cup Stale
          /\ vaddr_bits = (0..(k - 1)) \cup power_on.bits
          /\ power_on.bits \cap Page = {}
      <3>1. power_on.bits \subseteq VaddrBits..(VaddrBits + JunkBits - 1)
        BY DEF AllocInv
      <3>2. power_on.bits \cap Page = {}
        BY <2>3, <3>1, SMT
      <3> QED BY <2>2, <2>4, <3>2 DEF AtRest, FirstTaken
    <2>6. Page \ vaddr_bits = k..(VaddrBits - 1) /\ k \in 0..(VaddrBits - 1)
      <3>1. Page \ vaddr_bits = k..(VaddrBits - 1)
        <4>1. Page \ (0..(k - 1)) = k..(VaddrBits - 1)
          BY <2>3, SMT
        <4> QED BY <2>5, <4>1
      <3>2. k..(VaddrBits - 1) # {}
        BY <2>1, <3>1
      <3> QED BY <2>3, <3>1, <3>2, SMT
    <2>7. /\ start \in Nat /\ start + cnt - 1 <= VaddrBits + JunkBits + cnt
          /\ k + cnt <= VaddrBits => start = k
      BY <2>1, <2>3, <2>6, ScanFinds DEF AllocInv
    <2> HIDE DEF start
    <2>8. /\ VaddrBits' = VaddrBits /\ AllPages' = AllPages /\ Stale' = Stale
      BY <2>1, SameSizes DEF AllPages, Pages, Stale
    <2>9. FirstTaken(k, m)'
      BY <2>1, <2>2, <2>8 DEF FirstTaken
    <2>10. OnItsWay(k, m)'
      <3>1. call'.start = start /\ call'.page_count = cnt /\ call'.left = cnt
        BY <2>1
      <3>2. cnt \in 1..cnt /\ m = k + (cnt - cnt) /\ start..(start + (cnt - cnt) - 1) = {}
            /\ start + cnt - 1 <= VaddrBits + JunkBits + MaxPages
        BY <2>3, <2>5, <2>7, SMT
      <3>3. vaddr_bits' = (0..(k - 1)) \cup power_on'.bits \cup (start..(start + cnt - 1))
        BY <2>1, <2>5
      <3>4. DOMAIN pte' = (0..(k - 1)) \cup Stale' \cup (start..(start + (cnt - cnt) - 1))
        BY <2>1, <2>5, <2>8, <3>2
      <3> QED BY <2>7, <2>8, <3>1, <3>2, <3>3, <3>4 DEF OnItsWay
    <2>11. vaddr_bits' \subseteq Nat
      <3>1. range \subseteq Nat
        BY <2>3, <2>7, SMT
      <3> QED BY <2>1, <3>1 DEF AllocInv
    <2>12. call' \in [start : Nat, page_count : 0..MaxPages, left : 0..MaxPages]
      <3>1. cnt \in 0..MaxPages
        BY <2>3, SMT
      <3> QED BY <2>1, <2>7, <3>1
    <2>13. Entries' /\ RangesDisjoint'
      BY <2>1, <2>8, Zenon DEF AllocInv, Entries, FramesExclusive, RangesDisjoint, Pages
    <2> QED BY <2>1, <2>2, <2>8, <2>9, <2>10, <2>11, <2>12, <2>13 DEF AllocInv
  <1> QED BY <1>1, <1>2

\* A turn of the loop takes the next frame, and a call whose last turn finds one
\* has taken the next pages.
LEMMA AllocLoop ==
  ASSUME AllocInv, malloc_page_loop
  PROVE  AllocInv'
  <1>1. CASE no_frame_left
    BY <1>1, AllocKept DEF no_frame_left, Panic
  <1>2. CASE ~no_frame_left
    <2>1. /\ ~panicked /\ call # NoCall /\ ~(Frame \subseteq kernel_bits)
          /\ kernel_bits' = kernel_bits \cup {palloc}
          /\ pte' = page_table_add(next_page, palloc)
          /\ UNCHANGED <<all_memory, vaddr_bits, power_on, panicked>>
      BY <1>2 DEF malloc_page_loop, frame_taken
    <2>2. \/ /\ call.left = 1 /\ call' = NoCall
             /\ handed' = handed \cup {<<call.start, call.page_count>>}
          \/ /\ call.left # 1 /\ call' = [call EXCEPT !.left = @ - 1] /\ handed' = handed
      BY <1>2 DEF malloc_page_loop
    <2>3. PICK k \in Nat, m \in Nat : FirstTaken(k, m) /\ OnItsWay(k, m)
      BY <2>1 DEF AllocInv, AtRest
    <2> DEFINE start == call.start
               cnt == call.page_count
               left == call.left
               page == start + (cnt - left)
               last == start + cnt - 1
    <2>4. /\ VaddrBits \in Nat /\ Frame = 0..(VaddrBits - 1) /\ JunkBits \in Nat /\ MaxPages \in Nat
          /\ start \in Nat /\ cnt \in 1..MaxPages /\ left \in 1..cnt
      BY <2>3, PoolSize, MemoryAssumption, SMT DEF AllocInv, OnItsWay
    <2>5. /\ m = k + (cnt - left) /\ last <= VaddrBits + JunkBits + MaxPages
          /\ k + cnt <= VaddrBits => start = k
          /\ vaddr_bits = (0..(k - 1)) \cup power_on.bits \cup (start..last)
          /\ DOMAIN pte = (0..(k - 1)) \cup Stale \cup (start..(start + (cnt - left) - 1))
          /\ AllPages = 0..(k - 1) /\ kernel_bits = 0..(m - 1) /\ k <= m /\ m <= VaddrBits
      BY <2>3 DEF OnItsWay, FirstTaken
    <2>6. m < VaddrBits /\ palloc = m
      BY <2>1, <2>4, <2>5, FramesInOrder
    <2>7. VaddrBits' = VaddrBits /\ Stale' = Stale
      BY <2>1, SameSizes DEF Stale
    <2>8. pte' = [x \in DOMAIN pte \cup {page} |-> IF x \in DOMAIN pte THEN pte[x] ELSE m]
      BY <2>1, <2>6 DEF page_table_add, next_page
    <2> HIDE DEF start, cnt, left
    <2>9. /\ m + 1 \in Nat /\ m + 1 <= VaddrBits /\ k <= m + 1 /\ m + 1 = k + (cnt - (left - 1))
          /\ left # 1 => left - 1 \in 1..cnt
          /\ (0..(m - 1)) \cup {m} = 0..((m + 1) - 1) /\ m \notin 0..(m - 1)
          /\ page \in 0..(VaddrBits + JunkBits + MaxPages)
          /\ (start..(start + (cnt - left) - 1)) \cup {page}
                = start..(start + (cnt - (left - 1)) - 1)
      BY <2>4, <2>5, <2>6, SMT
    <2>10. kernel_bits' = 0..((m + 1) - 1)
      BY <2>1, <2>5, <2>6, <2>9
    <2>11. DOMAIN pte' = (0..(k - 1)) \cup Stale' \cup (start..(start + (cnt - (left - 1)) - 1))
      <3>1. DOMAIN pte' = DOMAIN pte \cup {page}
        BY <2>8
      <3> QED BY <2>5, <2>7, <2>9, <3>1
    <2>12. /\ Stale \subseteq DOMAIN pte'
           /\ \A p \in Stale : pte'[p] = power_on.entries[p]
           /\ \A p \in DOMAIN pte' \ Stale :
                p \in 0..(VaddrBits + JunkBits + MaxPages) /\ pte'[p] \in kernel_bits'
           /\ \A p, q \in DOMAIN pte' \ Stale : pte'[p] = pte'[q] => p = q
      <3>1. /\ Stale \subseteq DOMAIN pte /\ \A p \in Stale : pte[p] = power_on.entries[p]
            /\ \A p \in DOMAIN pte \ Stale :
                 p \in 0..(VaddrBits + JunkBits + MaxPages) /\ pte[p] \in kernel_bits
            /\ \A p, q \in DOMAIN pte \ Stale : pte[p] = pte[q] => p = q
        BY DEF AllocInv, Entries, FramesExclusive
      <3>2. m \notin kernel_bits /\ kernel_bits' = kernel_bits \cup {m}
        BY <2>1, <2>5, <2>6, <2>9
      <3> HIDE DEF page
      <3>3. /\ DOMAIN pte' = DOMAIN pte \cup {page}
            /\ \A x \in DOMAIN pte : pte'[x] = pte[x]
            /\ page \notin DOMAIN pte => pte'[page] = m
        BY <2>8
      <3>4. ASSUME NEW p \in DOMAIN pte' \ Stale
            PROVE  p \in 0..(VaddrBits + JunkBits + MaxPages) /\ pte'[p] \in kernel_bits'
        BY <2>9, <3>1, <3>2, <3>3
      <3>5. ASSUME NEW p \in DOMAIN pte' \ Stale, NEW q \in DOMAIN pte' \ Stale,
                   pte'[p] = pte'[q]
            PROVE  p = q
        BY <3>1, <3>2, <3>3, <3>5
      <3> QED BY <3>1, <3>3, <3>4, <3>5
    <2>13. CASE left = 1
      <3>1. /\ call' = NoCall /\ handed' = handed \cup {<<start, cnt>>}
        BY <2>2, <2>13 DEF start, cnt, left
      <3> PICK n \in Nat : n = k + cnt
        BY <2>4, SMT
      <3>2. /\ n = k + cnt /\ m + 1 = n /\ n <= n /\ n <= VaddrBits
            /\ start = k /\ last = n - 1 /\ start + cnt - 1 = n - 1 /\ cnt - (left - 1) = cnt
            /\ (0..(k - 1)) \cup (k..(n - 1)) = 0..(n - 1)
            /\ (k..(n - 1)) \cap (0..(k - 1)) = {}
        BY <2>4, <2>5, <2>6, <2>13, SMT
      <3> HIDE DEF last
      <3>3. Pages(<<start, cnt>>) = k..(n - 1)
        BY <3>2 DEF Pages
      <3>4. AllPages' = 0..(n - 1)
        <4>1. AllPages' = UNION {Pages(r) : r \in handed \cup {<<start, cnt>>}}
          BY <3>1 DEF AllPages, Pages
        <4>2. AllPages' = AllPages \cup Pages(<<start, cnt>>)
          BY <4>1 DEF AllPages
        <4> QED BY <2>5, <3>2, <3>3, <4>2
      <3>5. DOMAIN pte' = (0..(n - 1)) \cup Stale'
        BY <2>11, <3>2
      <3>6. FirstTaken(n, n)'
        BY <2>7, <2>10, <3>2, <3>4 DEF FirstTaken
      <3>7. AtRest(n, n)'
        <4>1. vaddr_bits' = (0..(n - 1)) \cup power_on'.bits
          BY <2>1, <2>5, <3>2
        <4> QED BY <3>1, <3>5, <4>1, Zenon DEF AtRest, NoCall
      <3>8. RangesDisjoint'
        <4>1. \A r \in handed : Pages(r) \cap (k..(n - 1)) = {}
          BY <2>5, <3>2 DEF AllPages
        <4>2. \A r \in handed' : r \in handed \/ r = <<start, cnt>>
          BY <3>1
        <4> QED BY <3>3, <4>1, <4>2 DEF AllocInv, RangesDisjoint, Pages
      <3>9. handed' \subseteq Nat \X (1..MaxPages)
        BY <2>4, <3>1 DEF AllocInv
      <3>10. call' \in [start : Nat, page_count : 0..MaxPages, left : 0..MaxPages]
        <4>1. 0 \in 0..MaxPages
          BY <2>4, SMT
        <4> QED BY <3>1, <4>1 DEF NoCall
      <3>11. Entries'
        <4>1. AllPages' \subseteq DOMAIN pte'
          BY <3>4, <3>5
        <4> QED BY <2>1, <2>7, <2>12, <4>1, Zenon DEF Entries, FramesExclusive
      <3> QED BY <2>1, <2>7, <3>6, <3>7, <3>8, <3>9, <3>10, <3>11 DEF AllocInv
    <2>14. CASE left # 1
      <3>1. call' = [call EXCEPT !.left = @ - 1] /\ handed' = handed
        BY <2>2, <2>14 DEF left
      <3>2. /\ call' \in [start : Nat, page_count : 0..MaxPages, left : 0..MaxPages]
            /\ call'.start = start /\ call'.page_count = cnt /\ call'.left = left - 1
        <4>1. call \in [start : Nat, page_count : 0..MaxPages, left : 0..MaxPages]
          BY DEF AllocInv
        <4>2. left - 1 \in 0..MaxPages
          BY <2>4, <2>14, SMT
        <4> QED BY <3>1, <4>1, <4>2 DEF start, cnt, left
      <3>3. AllPages' = AllPages
        BY <3>1 DEF AllPages, Pages
      <3>4. FirstTaken(k, m + 1)'
        BY <2>5, <2>7, <2>9, <2>10, <3>3 DEF FirstTaken
      <3>5. OnItsWay(k, m + 1)'
        <4>1. left - 1 \in 1..cnt /\ m + 1 = k + (cnt - (left - 1))
          BY <2>9, <2>14
        <4>2. vaddr_bits' = (0..(k - 1)) \cup power_on'.bits \cup (start..last)
          BY <2>1, <2>5
        <4> QED BY <2>4, <2>5, <2>7, <2>11, <3>2, <4>1, <4>2 DEF OnItsWay
      <3>6. Entries'
        <4>1. AllPages' \subseteq DOMAIN pte'
          BY <2>5, <2>11, <3>3
        <4> QED BY <2>1, <2>7, <2>12, <4>1, Zenon DEF Entries, FramesExclusive
      <3>7. RangesDisjoint'
        BY <3>1 DEF AllocInv, RangesDisjoint, Pages
      <3> QED BY <2>1, <2>7, <2>9, <3>1, <3>2, <3>4, <3>5, <3>6, <3>7 DEF AllocInv
    <2> QED BY <2>13, <2>14
  <1> QED BY <1>1, <1>2

\* The order holds in every reachable state.
LEMMA AllocSafety == MemorySpec => []AllocInv
  <1>1. AllocInv /\ [MemoryNext]_memoryVars => AllocInv'
    <2> SUFFICES ASSUME AllocInv, [MemoryNext]_memoryVars PROVE AllocInv'
      OBVIOUS
    <2>1. ASSUME NEW cnt \in 1..MaxPages, malloc_page(cnt) PROVE AllocInv'
      BY <2>1, AllocCall
    <2>2. CASE malloc_page_loop
      BY <2>2, AllocLoop
    <2>3. CASE UNCHANGED memoryVars
      BY <2>3, AllocKept DEF memoryVars
    <2> QED BY <2>1, <2>2, <2>3 DEF MemoryNext
  <1> QED BY AllocInitially, <1>1, PTL DEF MemorySpec

\* The bitmaps hold bits of the pools, and each page that a call has mapped has
\* a frame that is taken.
THEOREM MemoryTypes == MemorySpec => []MemoryTypeOK
  <1>1. AllocInv => MemoryTypeOK
    <2> SUFFICES ASSUME AllocInv PROVE MemoryTypeOK
      OBVIOUS
    <2>1. PICK k \in Nat, m \in Nat : FirstTaken(k, m)
      BY DEF AllocInv
    <2>2. VaddrBits \in Nat /\ Frame = 0..(VaddrBits - 1) /\ JunkBits \in Nat /\ MaxPages \in Nat
      BY PoolSize, MemoryAssumption, SMT DEF AllocInv
    <2>3. kernel_bits \subseteq Frame
      BY <2>1, <2>2, SMT DEF FirstTaken
    <2>4. \A p \in Stale : p \in Nat /\ power_on.entries[p] \in Int
      BY MemoryAssumption DEF AllocInv, Stale
    <2>5. ASSUME NEW p \in DOMAIN pte
          PROVE  p \in Nat /\ pte[p] \in IF p \in Stale THEN Int ELSE kernel_bits
      <3>1. CASE p \in Stale
        BY <2>4, <3>1 DEF AllocInv, Entries
      <3>2. CASE p \notin Stale
        <4>1. p \in 0..(VaddrBits + JunkBits + MaxPages) /\ pte[p] \in kernel_bits
          BY <3>2 DEF AllocInv, Entries
        <4>2. p \in Nat
          BY <2>2, <4>1, SMT
        <4> QED BY <3>2, <4>1, <4>2
      <3> QED BY <3>1, <3>2
    <2> QED BY <2>3, <2>5 DEF AllocInv, MemoryTypeOK
  <1> QED BY <1>1, AllocSafety, PTL

\* bitmap_scan and bitmap_set never give a page to two callers, although
\* bit_left is wrong and the scan may leave the bitmap.
THEOREM NoPageTwice == MemorySpec => []RangesDisjoint
  <1>1. AllocInv => RangesDisjoint
    BY DEF AllocInv
  <1> QED BY <1>1, AllocSafety, PTL

\* palloc and page_table_add: every page handed out is mapped, and no two pages
\* whose entries were clear at power-on share a frame, in the middle of a call
\* and after a panic neither.
THEOREM NoFrameTwice == MemorySpec => []FramesExclusive
  <1>1. AllocInv => FramesExclusive
    BY DEF AllocInv, Entries
  <1> QED BY <1>1, AllocSafety, PTL

\* A call of malloc_page that takes frames and then finds none left, as
\* malloc_page's return of NULL in its loop has it, never returns.
THEOREM NothingLeaks == MemorySpec => []AllOrNothing
  <1>1. AllocInv => AllOrNothing
    <2> SUFFICES ASSUME AllocInv, Resting
                 PROVE  /\ Cardinality(kernel_bits) = Cardinality(AllPages)
                        /\ vaddr_bits \cap Page = AllPages
      BY DEF AllOrNothing
    <2>1. PICK k \in Nat, m \in Nat : FirstTaken(k, m) /\ (AtRest(k, m) \/ OnItsWay(k, m))
      BY DEF AllocInv, Resting
    <2>2. AtRest(k, m)
      BY <2>1, NotOnItsWay DEF Resting
    <2>3. /\ kernel_bits = AllPages /\ AllPages = 0..(k - 1) /\ k <= VaddrBits
          /\ vaddr_bits = (0..(k - 1)) \cup power_on.bits
      BY <2>1, <2>2 DEF FirstTaken, AtRest
    <2>4. VaddrBits \in Nat /\ Page = 0..(VaddrBits - 1) /\ JunkBits \in Nat
          /\ power_on.bits \subseteq VaddrBits..(VaddrBits + JunkBits - 1)
      BY PoolSize, MemoryAssumption DEF AllocInv
    <2>5. power_on.bits \cap Page = {} /\ 0..(k - 1) \subseteq Page
      BY <2>3, <2>4, SMT
    <2> QED BY <2>3, <2>5
  <1> QED BY <1>1, AllocSafety, PTL

\* The scan that runs on behind the bitmap never hands out a page from there:
\* the calls that mark and map such pages stop the kernel before they return.
THEOREM ScanStaysInside == MemorySpec => []WithinBitmap
  <1>1. AllocInv => WithinBitmap
    <2> SUFFICES ASSUME AllocInv PROVE WithinBitmap
      OBVIOUS
    <2>1. PICK k \in Nat, m \in Nat :
            FirstTaken(k, m) /\ (~panicked => AtRest(k, m) \/ OnItsWay(k, m))
      BY DEF AllocInv
    <2>2. VaddrBits \in Nat /\ Page = 0..(VaddrBits - 1) /\ JunkBits \in Nat
          /\ power_on.bits \subseteq VaddrBits..(VaddrBits + JunkBits - 1)
      BY PoolSize, MemoryAssumption DEF AllocInv
    <2>3. k <= VaddrBits
      BY <2>1, <2>2, SMT DEF FirstTaken
    <2>4. AllPages \subseteq Page /\ 0..(k - 1) \subseteq Page
      BY <2>1, <2>2, <2>3, SMT DEF FirstTaken
    <2>5. ASSUME Resting
          PROVE  vaddr_bits \ Page = power_on.bits /\ DOMAIN pte \subseteq Page \cup Stale
      <3>1. AtRest(k, m)
        BY <2>1, <2>5, NotOnItsWay DEF Resting
      <3>2. power_on.bits \cap Page = {}
        BY <2>2, SMT
      <3> QED BY <2>4, <3>1, <3>2 DEF AtRest
    <2> QED BY <2>4, <2>5 DEF WithinBitmap
  <1> QED BY <1>1, AllocSafety, PTL

-----------------------------------------------------------------------------
\* A step of Paging is one of Memory.
LEMMA AllocWithTables == PagingSpec => MemorySpec
  <1>1. PagingInit => MemoryInit
    BY DEF PagingInit
  <1>2. [PagingNext]_<<memoryVars, table>> => [MemoryNext]_memoryVars
    BY DEF PagingNext, MemoryNext, paged_malloc_page, paged_malloc_page_loop
  <1> QED BY <1>1, <1>2, PTL DEF PagingSpec, MemorySpec

-----------------------------------------------------------------------------
\* A number below q rows of E is in a row below q.
LEMMA RowBelow ==
  ASSUME NEW E \in Nat \ {0}, NEW k \in Int, NEW q \in Int, NEW i \in 0..(E - 1),
         k * E + i < q * E
  PROVE  k < q
  <1>1. CASE q <= k
    <2>1. (k - q) * E >= 0 /\ (k - q) * E = k * E - q * E
      BY <1>1, SMT
    <2>2. k * E \in Int /\ q * E \in Int
      BY SMT
    <2> QED BY <2>1, <2>2, SMT
  <1> QED BY <1>1, SMT

LEMMA NoRowBelow ==
  ASSUME NEW E \in Nat \ {0}, NEW k \in Nat
  PROVE  k * E \in Nat /\ k * E >= 0
  BY SMT

LEMMA Quotient ==
  ASSUME NEW E \in Nat \ {0}, NEW q \in Int, NEW i \in 0..(E - 1)
  PROVE  (q * E + i) \div E = q /\ (q * E + i) % E = i
  BY SMT

LEMMA Division ==
  ASSUME NEW E \in Nat \ {0}, NEW v \in Nat
  PROVE  \E k \in Nat, i \in 0..(E - 1) : v = k * E + i
  <1>1. E \in Nat /\ E > 0
    BY SMT
  <1>2. v % E \in 0..(E - 1) /\ v \div E \in Int
    BY SMT
  <1>3. v % E = v - (v \div E) * E
    BY <1>1, SMTT(30)
  <1> DEFINE k == v \div E
             i == v % E
  <1>4. k * E \in Int
    BY <1>1, <1>2, SMT
  <1>5. v = k * E + i
    BY <1>1, <1>2, <1>3, <1>4, SMT
  <1>6. k \in Int /\ i \in 0..(E - 1)
    BY <1>2
  <1> HIDE DEF k, i
  <1>7. k >= 0
    <2>1. 0 * E <= k * E + i
      BY <1>5, SMT
    <2>2. CASE k < 0
      <3>1. (-1 - k) * E >= 0 /\ (-1 - k) * E = -E - k * E
        BY <1>1, <1>6, <2>2, SMT
      <3> QED BY <1>1, <1>4, <1>5, <1>6, <3>1, SMT
    <2> QED BY <2>2, <1>6, SMT
  <1> QED BY <1>5, <1>6, <1>7, SMT

-----------------------------------------------------------------------------
\* What the page tables hold, as a function of the frames that Memory records:
\* each table maps ENTRIES pages, the first of them low memory.
PageOf(f, i) == (f - Dir - 1) * ENTRIES + i - KLOW

EntryOf(q, f, i) ==
  IF f = Dir THEN page_dir[i]
  ELSE IF PageOf(f, i) < 0 THEN i
  ELSE IF PageOf(f, i) \in DOMAIN q THEN phy(q[PageOf(f, i)]) ELSE Absent

TablesOf(q) == [f \in TableFrame |-> [i \in Index |-> EntryOf(q, f, i)]]

\* An entry that get_kernel_pages has cleared is absent.  As long as no page
\* was handed out below the pool, it has cleared none.
TablesInv ==
  /\ Intact => table = TablesOf(pte)
  /\ \A f \in TableFrame, i \in Index : table[f][i] \in {EntryOf(pte, f, i), Absent}

LEMMA Sizes ==
  /\ ENTRIES \in Nat \ {0} /\ KDIR \in Nat \ {0} /\ KLOW \in Nat \ {0}
  /\ KDIR + 2 <= ENTRIES /\ KLOW < ENTRIES /\ Dir = KLOW
  /\ Index = 0..(ENTRIES - 1) /\ TableFrame = KLOW..(KLOW + ENTRIES - KDIR - 1)
  /\ Dir \in TableFrame
  BY PagingAssumption, SMT DEF Dir, Index, TableFrame

\* The frames of the pool lie behind the directory and the tables.
LEMMA PoolBehind == pool_start = KLOW + (ENTRIES - KDIR)
  <1>1. KLOW \in Int /\ KLOW + ENTRIES - KDIR - 1 \in Int
        /\ KLOW <= KLOW + ENTRIES - KDIR - 1
    BY Sizes, SMT
  <1>2. Cardinality(TableFrame) = (KLOW + ENTRIES - KDIR - 1) - KLOW + 1
    BY <1>1, Sizes, FS_Interval, SMT
  <1> QED BY <1>2, Sizes, SMT DEF pool_start

\* Where a kernel page has its entry: index i of the k-th table.
LEMMA PagePlace ==
  ASSUME NEW p \in KernelPage
  PROVE  \E k \in 0..(ENTRIES - 2 - KDIR), i \in Index :
            /\ KLOW + p = k * ENTRIES + i
            /\ vpage(p) = (KDIR + k) * ENTRIES + i
  <1> DEFINE q == ENTRIES - 1 - KDIR
             last == q * ENTRIES
  <1>1. q \in Int /\ KLOW \in Int
    BY Sizes, SMT
  <1>2. last \in Int
    BY <1>1, Sizes, SMT
  <1>3. p \in 0..(last - KLOW - 1)
    BY DEF KernelPage
  <1>4. KLOW + p \in Nat /\ KLOW + p < last /\ p \in Int
    <2> HIDE DEF q, last
    <2> QED BY <1>1, <1>2, <1>3, Sizes, SMT
  <1>5. PICK k \in Nat, i \in 0..(ENTRIES - 1) : KLOW + p = k * ENTRIES + i
    BY <1>4, Sizes, Division
  <1>6. k < q
    <2> HIDE DEF q
    <2> QED BY <1>1, <1>4, <1>5, Sizes, RowBelow
  <1>7. k \in 0..(ENTRIES - 2 - KDIR) /\ i \in Index
    BY <1>6, Sizes, SMT
  <1>8. vpage(p) = (KDIR + k) * ENTRIES + i
    <2>1. (KDIR + k) * ENTRIES = KDIR * ENTRIES + k * ENTRIES
      BY Sizes, SMT
    <2>2. KDIR * ENTRIES \in Int /\ k * ENTRIES \in Int
      BY Sizes, SMT
    <2> QED BY <1>4, <1>5, <2>1, <2>2, Sizes, SMT DEF vpage
  <1> QED BY <1>5, <1>7, <1>8

\* A kernel page is a number from 0 on.
LEMMA KernelPages ==
  ASSUME NEW p \in KernelPage
  PROVE  p \in Int /\ ~(p < 0)
  <1> DEFINE last == (ENTRIES - 1 - KDIR) * ENTRIES - KLOW - 1
  <1>1. p \in 0..last
    BY DEF KernelPage
  <1> HIDE DEF last
  <1> QED BY <1>1, SMT

\* The walk of the MMU through these tables.
LEMMA WalkTables ==
  ASSUME NEW q, NEW d \in Index, NEW i \in Index
  PROVE  walk(TablesOf(q), d * ENTRIES + i)
           = IF page_dir[d] \in TableFrame THEN EntryOf(q, page_dir[d], i) ELSE page_dir[d]
  <1>1. PDE_INDEX(d * ENTRIES + i) = d /\ PTE_INDEX(d * ENTRIES + i) = i
    <2>1. ENTRIES \in Nat \ {0} /\ d \in Int /\ i \in 0..(ENTRIES - 1)
      BY Sizes, SMT
    <2>2. (d * ENTRIES + i) \div ENTRIES = d /\ (d * ENTRIES + i) % ENTRIES = i
      BY <2>1, Quotient
    <2> QED BY <2>2 DEF PDE_INDEX, PTE_INDEX
  <1>2. TablesOf(q)[Dir][d] = page_dir[d]
    BY Sizes DEF TablesOf, EntryOf
  <1>3. \A f \in TableFrame : TablesOf(q)[f][i] = EntryOf(q, f, i)
    BY DEF TablesOf
  <1> QED BY <1>1, <1>2, <1>3, Zenon DEF walk

\* The entries of the directory.
LEMMA Directory ==
  /\ page_dir[0] = Dir + 1 /\ page_dir[ENTRIES - 1] = Dir
  /\ \A k \in 0..(ENTRIES - 2 - KDIR) : page_dir[KDIR + k] = Dir + 1 + k
  /\ \A d \in 0..(ENTRIES - 2) :
       page_dir[d] = Absent
         \/ \E k \in 0..(ENTRIES - 2 - KDIR) :
               page_dir[d] = Dir + 1 + k /\ (d = KDIR + k \/ (d = 0 /\ k = 0))
  <1>1. \A i \in Index :
          page_dir[i] = IF i = 0 \/ i = KDIR THEN Dir + 1
                        ELSE IF i = ENTRIES - 1 THEN Dir
                        ELSE IF i > KDIR THEN Dir + 1 + (i - KDIR)
                        ELSE Absent
    BY DEF page_dir
  <1>2. 0 \in Index /\ ENTRIES - 1 \in Index /\ ENTRIES - 1 # 0 /\ ENTRIES - 1 # KDIR
    BY Sizes, SMT
  <1>3. ASSUME NEW k \in 0..(ENTRIES - 2 - KDIR) PROVE page_dir[KDIR + k] = Dir + 1 + k
    <2>1. KDIR + k \in Index
      BY Sizes, SMT
    <2>2. page_dir[KDIR + k] = IF KDIR + k = 0 \/ KDIR + k = KDIR THEN Dir + 1
                        ELSE IF KDIR + k = ENTRIES - 1 THEN Dir
                        ELSE IF KDIR + k > KDIR THEN Dir + 1 + ((KDIR + k) - KDIR)
                        ELSE Absent
      BY <1>1, <2>1, Zenon
    <2>3. /\ KDIR + k # 0 /\ KDIR + k # ENTRIES - 1 /\ Dir + 1 + 0 = Dir + 1
          /\ (KDIR + k) - KDIR = k
          /\ KDIR + k = KDIR \/ KDIR + k > KDIR
          /\ KDIR + k = KDIR => k = 0
      BY Sizes, SMT
    <2> QED BY <2>2, <2>3, Zenon
  <1>4. ASSUME NEW d \in 0..(ENTRIES - 2)
        PROVE  page_dir[d] = Absent
                 \/ \E k \in 0..(ENTRIES - 2 - KDIR) :
                       page_dir[d] = Dir + 1 + k /\ (d = KDIR + k \/ (d = 0 /\ k = 0))
    <2>1. d \in Index /\ d # ENTRIES - 1
      BY Sizes, SMT
    <2>2. CASE d = 0 \/ d = KDIR
      <3>1. page_dir[d] = Dir + 1 + 0 /\ 0 \in 0..(ENTRIES - 2 - KDIR) /\ KDIR + 0 = KDIR
        BY <1>1, <2>1, <2>2, Sizes, SMT
      <3> QED BY <2>2, <3>1
    <2>3. CASE d > KDIR
      <3>1. page_dir[d] = Dir + 1 + (d - KDIR) /\ d - KDIR \in 0..(ENTRIES - 2 - KDIR)
            /\ d = KDIR + (d - KDIR)
        BY <1>1, <2>1, <2>3, Sizes, SMT
      <3> QED BY <3>1
    <2> QED BY <1>1, <2>1, <2>2, <2>3
  <1> QED BY <1>1, <1>2, <1>3, <1>4

LEMMA TableIsFrame ==
  ASSUME NEW k \in 0..(ENTRIES - 2 - KDIR), NEW i \in Index
  PROVE  /\ Dir + 1 + k \in TableFrame /\ Dir + 1 + k # Dir
         /\ PageOf(Dir + 1 + k, i) = k * ENTRIES + i - KLOW
  <1>1. Dir + 1 + k \in TableFrame /\ Dir + 1 + k # Dir /\ (Dir + 1 + k) - Dir - 1 = k
    BY Sizes, SMT
  <1> QED BY <1>1, Zenon DEF PageOf

\* Where a kernel page is found by the MMU, and by page_table_add.
LEMMA PageWalks ==
  ASSUME NEW p \in KernelPage, NEW q
  PROVE  \E t \in TableFrame \ {Dir}, i \in Index :
           /\ PageOf(t, i) = p
           /\ walk(TablesOf(q), vpage(p)) = EntryOf(q, t, i)
           /\ walk(TablesOf(q), pte_ptr(vpage(p))[1]) = t
           /\ pte_ptr(vpage(p))[2] = i
           /\ walk(TablesOf(q), pde_ptr(vpage(p))[1]) = Dir
  <1>1. PICK k \in 0..(ENTRIES - 2 - KDIR), i \in Index :
            /\ KLOW + p = k * ENTRIES + i
            /\ vpage(p) = (KDIR + k) * ENTRIES + i
    BY PagePlace
  <1> DEFINE t == Dir + 1 + k
             d == KDIR + k
  <1>2. /\ d \in Index /\ d \in Int /\ d # ENTRIES - 1 /\ ENTRIES - 1 \in Index
        /\ i \in 0..(ENTRIES - 1) /\ KLOW \in Int /\ KLOW + p \in Int /\ p \in Int
    <2>1. p \in Int
      BY KernelPages
    <2> QED BY <2>1, Sizes, SMT
  <1>3. t \in TableFrame \ {Dir} /\ PageOf(t, i) = p
    <2>1. t \in TableFrame /\ t # Dir /\ PageOf(t, i) = k * ENTRIES + i - KLOW
      BY TableIsFrame, Zenon
    <2>2. k * ENTRIES \in Int /\ i \in Int
      BY <1>2, Sizes, SMT
    <2> HIDE DEF t
    <2>3. PageOf(t, i) = p
      BY <1>1, <1>2, <2>1, <2>2, SMT
    <2> QED BY <2>1, <2>3
  <1>4. PDE_INDEX(vpage(p)) = d /\ PTE_INDEX(vpage(p)) = i
    <2>1. (d * ENTRIES + i) \div ENTRIES = d /\ (d * ENTRIES + i) % ENTRIES = i
      <3> HIDE DEF d
      <3> QED BY <1>2, Sizes, Quotient
    <2> QED BY <1>1, <2>1 DEF PDE_INDEX, PTE_INDEX
  <1>5. page_dir[d] = t
    BY Directory
  <1>6. walk(TablesOf(q), vpage(p)) = EntryOf(q, t, i)
    BY <1>1, <1>2, <1>3, <1>5, WalkTables
  <1>7. /\ pte_ptr(vpage(p)) = <<(ENTRIES - 1) * ENTRIES + d, i>>
        /\ pde_ptr(vpage(p)) = <<(ENTRIES - 1) * ENTRIES + (ENTRIES - 1), d>>
    BY <1>4 DEF pte_ptr, pde_ptr
  <1>8. \A j \in Index : walk(TablesOf(q), (ENTRIES - 1) * ENTRIES + j) = page_dir[j]
    <2> SUFFICES ASSUME NEW j \in Index
                 PROVE  walk(TablesOf(q), (ENTRIES - 1) * ENTRIES + j) = page_dir[j]
      OBVIOUS
    <2>1. page_dir[ENTRIES - 1] \in TableFrame /\ page_dir[ENTRIES - 1] = Dir
      BY Directory, Sizes, Zenon
    <2>2. walk(TablesOf(q), (ENTRIES - 1) * ENTRIES + j) = EntryOf(q, Dir, j)
      BY <1>2, <2>1, WalkTables, Zenon
    <2> QED BY <2>2, Zenon DEF EntryOf
  <1>9. walk(TablesOf(q), pte_ptr(vpage(p))[1]) = t /\ pte_ptr(vpage(p))[2] = i
    BY <1>2, <1>5, <1>7, <1>8
  <1>10. walk(TablesOf(q), pde_ptr(vpage(p))[1]) = Dir
    <2>1. pde_ptr(vpage(p))[1] = (ENTRIES - 1) * ENTRIES + (ENTRIES - 1)
      BY <1>7
    <2> QED BY <1>2, <1>8, <2>1, Directory, Zenon
  <1> HIDE DEF t, d
  <1> QED BY <1>3, <1>6, <1>9, <1>10

\* The MMU finds a kernel page where the entry has it.
LEMMA PageFound ==
  ASSUME NEW p \in KernelPage, NEW q
  PROVE  walk(TablesOf(q), vpage(p)) = IF p \in DOMAIN q THEN phy(q[p]) ELSE Absent
  <1>1. PICK t \in TableFrame \ {Dir}, i \in Index :
           PageOf(t, i) = p /\ walk(TablesOf(q), vpage(p)) = EntryOf(q, t, i)
    BY PageWalks
  <1>2. ~(p < 0)
    BY KernelPages
  <1> QED BY <1>1, <1>2 DEF EntryOf

\* Clearing pages that are not mapped to a table clears no entry, and clearing
\* others makes entries absent.
LEMMA ClearPages ==
  ASSUME NEW q, NEW pages, NEW tbl, tbl = pages_cleared(TablesOf(q), pages)
  PROVE  /\ \A f \in TableFrame, i \in Index : tbl[f][i] \in {EntryOf(q, f, i), Absent}
         /\ (\A p \in pages : walk(TablesOf(q), vpage(p)) \notin TableFrame) => tbl = TablesOf(q)
  <1> DEFINE hit == {walk(TablesOf(q), vpage(p)) : p \in pages}
  <1>1. tbl = [f \in TableFrame |-> IF f \in hit THEN [i \in Index |-> Absent]
                                                ELSE TablesOf(q)[f]]
    BY DEF pages_cleared
  <1>2. \A f \in TableFrame : TablesOf(q)[f] = [i \in Index |-> EntryOf(q, f, i)]
    BY DEF TablesOf
  <1>3. ASSUME NEW f \in TableFrame, NEW i \in Index
        PROVE  tbl[f][i] \in {EntryOf(q, f, i), Absent}
    <2> HIDE DEF hit
    <2>1. CASE f \in hit
      <3>1. tbl[f] = [j \in Index |-> Absent]
        BY <1>1, <2>1
      <3> QED BY <3>1
    <2>2. CASE f \notin hit
      <3>1. tbl[f] = [j \in Index |-> EntryOf(q, f, j)]
        BY <1>1, <1>2, <2>2
      <3> QED BY <3>1
    <2> QED BY <2>1, <2>2
  <1>4. ASSUME \A p \in pages : walk(TablesOf(q), vpage(p)) \notin TableFrame
        PROVE  tbl = TablesOf(q)
    <2>1. \A f \in TableFrame : f \notin hit
      BY <1>4
    <2> HIDE DEF hit
    <2>2. tbl = [f \in TableFrame |-> [i \in Index |-> EntryOf(q, f, i)]]
      BY <1>1, <1>2, <2>1
    <2> QED BY <2>2 DEF TablesOf
  <1> QED BY <1>3, <1>4

\* Two entries of the tables are of two pages.
LEMMA OneEntryPerPage ==
  ASSUME NEW t \in TableFrame \ {Dir}, NEW i \in Index,
         NEW u \in TableFrame \ {Dir}, NEW j \in Index,
         PageOf(t, i) = PageOf(u, j)
  PROVE  t = u /\ i = j
  <1> DEFINE k == t - Dir - 1
             l == u - Dir - 1
  <1>1. k \in Int /\ l \in Int /\ i \in 0..(ENTRIES - 1) /\ j \in 0..(ENTRIES - 1)
    BY Sizes, SMT
  <1>2. k * ENTRIES + i = l * ENTRIES + j
    <2>1. k * ENTRIES \in Int /\ l * ENTRIES \in Int
      BY <1>1, Sizes, SMT
    <2>2. k * ENTRIES + i - KLOW = l * ENTRIES + j - KLOW
      BY DEF PageOf
    <2> HIDE DEF k, l
    <2> QED BY <1>1, <2>1, <2>2, Sizes, SMT
  <1> HIDE DEF k, l
  <1>3. k = l /\ i = j
    <2>1. (k * ENTRIES + i) \div ENTRIES = k /\ (k * ENTRIES + i) % ENTRIES = i
      BY <1>1, Sizes, Quotient, Zenon
    <2>2. (l * ENTRIES + j) \div ENTRIES = l /\ (l * ENTRIES + j) % ENTRIES = j
      BY <1>1, Sizes, Quotient, Zenon
    <2> QED BY <1>2, <2>1, <2>2, Zenon
  <1> QED BY <1>3, Sizes, SMT DEF k, l

\* page_table_add of one page enters its frame, unless the entry is present.
Entered(q, p, f) == [x \in DOMAIN q \cup {p} |-> IF x \in DOMAIN q THEN q[x] ELSE f]

LEMMA EnterPage ==
  ASSUME NEW p \in KernelPage, NEW f, NEW q, \A x \in DOMAIN q : phy(q[x]) \in Nat
  PROVE  table_add(TablesOf(q), vpage(p), phy(f)) = TablesOf(Entered(q, p, f))
  <1>1. PICK t \in TableFrame \ {Dir}, i \in Index :
           /\ PageOf(t, i) = p
           /\ walk(TablesOf(q), pte_ptr(vpage(p))[1]) = t
           /\ pte_ptr(vpage(p))[2] = i
    BY PageWalks
  <1> DEFINE tbl == TablesOf(q)
             new == [tbl EXCEPT ![t][i] = phy(f)]
             r == Entered(q, p, f)
  <1>2. table_add(tbl, vpage(p), phy(f)) = IF tbl[t][i] = Absent THEN new ELSE tbl
    BY <1>1, Zenon DEF table_add
  <1>3. ~(p < 0)
    BY KernelPages
  <1>4. tbl[t][i] = IF p \in DOMAIN q THEN phy(q[p]) ELSE Absent
    BY <1>1, <1>3 DEF TablesOf, EntryOf
  <1>5. \A x \in DOMAIN q : phy(q[x]) # Absent
    BY SMT DEF Absent
  <1>6. DOMAIN r = DOMAIN q \cup {p} /\ \A x \in DOMAIN q : r[x] = q[x]
    BY DEF Entered
  <1>7. CASE p \in DOMAIN q
    <2>1. table_add(tbl, vpage(p), phy(f)) = tbl
      BY <1>2, <1>4, <1>5, <1>7
    <2>2. DOMAIN r = DOMAIN q
      BY <1>6, <1>7
    <2>3. \A v \in TableFrame, j \in Index : EntryOf(q, v, j) = EntryOf(r, v, j)
      BY <1>6, <2>2, Zenon DEF EntryOf
    <2>4. TablesOf(q) = TablesOf(r)
      BY <2>3, Zenon DEF TablesOf
    <2> QED BY <2>1, <2>4
  <1>8. CASE p \notin DOMAIN q
    <2>1. table_add(tbl, vpage(p), phy(f)) = new
      BY <1>2, <1>4, <1>8
    <2>2. r[p] = f
      BY <1>8 DEF Entered
    <2>3. EntryOf(r, t, i) = phy(f)
      BY <1>1, <1>3, <1>6, <2>2 DEF EntryOf
    <2>4. ASSUME NEW v \in TableFrame, NEW j \in Index, v # t \/ j # i
          PROVE  EntryOf(r, v, j) = EntryOf(q, v, j)
      <3>1. CASE v = Dir
        BY <3>1 DEF EntryOf
      <3>2. CASE v # Dir
        <4>1. PageOf(v, j) # p
          BY <1>1, <2>4, <3>2, OneEntryPerPage
        <4> QED BY <1>6, <4>1, Zenon DEF EntryOf
      <3> QED BY <3>1, <3>2
    <2>5. new = [v \in TableFrame |-> [j \in Index |->
                   IF v = t /\ j = i THEN phy(f) ELSE EntryOf(q, v, j)]]
      BY DEF TablesOf
    <2>6. new = TablesOf(r)
      BY <2>3, <2>4, <2>5 DEF TablesOf
    <2> QED BY <2>1, <2>6
  <1> QED BY <1>7, <1>8

\* Every frame that an entry maps, stale or not, is somewhere in memory, and
\* every page that has one is a kernel page.
LEMMA EntriesInMemory ==
  ASSUME AllocInv
  PROVE  /\ \A p \in DOMAIN pte : pte[p] \in Int /\ phy(pte[p]) \in Nat /\ p \in KernelPage
         /\ \A p \in 0..(VaddrBits + JunkBits + MaxPages) : p \in KernelPage
         /\ \A p \in DOMAIN pte \ Stale : phy(pte[p]) \notin TableFrame
  <1>1. VaddrBits \in Nat /\ Frame = 0..(VaddrBits - 1) /\ JunkBits \in Nat /\ MaxPages \in Nat
    BY PoolSize, MemoryAssumption, SMT DEF AllocInv
  <1>2. ASSUME NEW p \in 0..(VaddrBits + JunkBits + MaxPages) PROVE p \in KernelPage
    <2> DEFINE pages == (ENTRIES - 1 - KDIR) * ENTRIES
    <2>1. VaddrBits + JunkBits + MaxPages < pages - KLOW
      BY PagingAssumption DEF AllocInv, VaddrBits
    <2>2. pages \in Int /\ KLOW \in Int
      <3>1. ENTRIES - 1 - KDIR \in Int /\ ENTRIES \in Int /\ KLOW \in Int
        BY Sizes, SMT
      <3> QED BY <3>1, SMT
    <2> HIDE DEF pages
    <2>3. p \in 0..(pages - KLOW - 1)
      BY <1>1, <2>1, <2>2, SMT
    <2> QED BY <2>3 DEF KernelPage, pages
  <1>3. ASSUME NEW p \in Stale
        PROVE  pte[p] \in Int /\ phy(pte[p]) \in Nat /\ p \in KernelPage
    <2> DEFINE t == power_on.entries
               f == t[p]
    <2>1. t \in StaleTables /\ p \in DOMAIN t /\ pte[p] = f
      BY DEF AllocInv, Entries, Stale
    <2>2. f \in Int /\ f + KLOW + ENTRIES - KDIR \in Nat /\ p \in KernelPage
      BY <2>1, MemoryAssumption, PagingAssumption
    <2> HIDE DEF f
    <2>3. phy(f) \in Nat
      BY <2>2, PoolBehind, Sizes, SMT DEF phy
    <2> QED BY <2>1, <2>2, <2>3 DEF f
  <1>4. ASSUME NEW p \in DOMAIN pte \ Stale
        PROVE  /\ pte[p] \in Int /\ phy(pte[p]) \in Nat
               /\ phy(pte[p]) \notin TableFrame /\ p \in KernelPage
    <2> DEFINE f == pte[p]
    <2>1. p \in 0..(VaddrBits + JunkBits + MaxPages) /\ f \in kernel_bits
      BY DEF AllocInv, Entries
    <2>2. PICK k \in Nat, m \in Nat : FirstTaken(k, m)
      BY DEF AllocInv
    <2>3. f \in 0..(m - 1)
      BY <2>1, <2>2 DEF FirstTaken
    <2> HIDE DEF f
    <2>4. f \in Int /\ phy(f) \in Nat /\ phy(f) \notin TableFrame
      BY <2>3, PoolBehind, Sizes, SMT DEF phy
    <2> QED BY <1>2, <2>1, <2>4 DEF f
  <1> QED BY <1>2, <1>3, <1>4

\* setup_page builds these tables, and malloc_page keeps to them.
LEMMA TablesInitially == PagingInit => TablesInv
  <1> SUFFICES ASSUME PagingInit PROVE TablesInv
    OBVIOUS
  <1>1. ASSUME NEW f \in TableFrame, NEW i \in Index, f # Dir
        PROVE  page_table(KDIR + f - Dir - 1)[i] = EntryOf(pte, f, i)
    <2> DEFINE p == ((KDIR + f - Dir - 1) - KDIR) * ENTRIES + i - KLOW
    <2>1. p = PageOf(f, i)
      <3>1. (KDIR + f - Dir - 1) - KDIR = f - Dir - 1
        BY Sizes, SMT
      <3> QED BY <3>1, Zenon DEF PageOf
    <2>2. page_table(KDIR + f - Dir - 1)[i]
            = IF p < 0 THEN i ELSE IF p \in DOMAIN pte THEN phy(pte[p]) ELSE Absent
      BY Zenon DEF page_table
    <2> HIDE DEF p
    <2> QED BY <1>1, <2>1, <2>2, Zenon DEF EntryOf
  <1>2. table = [f \in TableFrame |->
                   IF f = Dir THEN page_dir ELSE page_table(KDIR + f - Dir - 1)]
    BY DEF PagingInit
  <1>3. \A f \in TableFrame :
          (IF f = Dir THEN page_dir ELSE page_table(KDIR + f - Dir - 1))
             = [i \in Index |-> EntryOf(pte, f, i)]
    <2>1. page_dir = [i \in Index |-> EntryOf(pte, Dir, i)]
      BY DEF page_dir, EntryOf
    <2>2. ASSUME NEW f \in TableFrame, f # Dir
          PROVE  page_table(KDIR + f - Dir - 1) = [i \in Index |-> EntryOf(pte, f, i)]
      BY <1>1, <2>2, Zenon DEF page_table
    <2> QED BY <2>1, <2>2
  <1>4. table = TablesOf(pte)
    BY <1>2, <1>3, Zenon DEF TablesOf
  <1>5. \A f \in TableFrame, i \in Index : TablesOf(pte)[f][i] = EntryOf(pte, f, i)
    BY DEF TablesOf
  <1> QED BY <1>4, <1>5 DEF TablesInv

\* The tables do not change when no entry does and no page is handed out.
LEMMA TablesKept ==
  ASSUME TablesInv, pte' = pte, table' = table, handed' = handed
  PROVE  TablesInv'
  BY Zenon DEF TablesInv, TablesOf, EntryOf, Intact, AllPages, Pages

\* A turn of the loop writes the entry that Memory records; the last one clears
\* an entry only on a page that is mapped to a table.
LEMMA TablesStep ==
  ASSUME AllocInv, TablesInv, paged_malloc_page_loop
  PROVE  TablesInv'
  <1>1. CASE Frame \subseteq kernel_bits
    BY <1>1, TablesKept DEF paged_malloc_page_loop, malloc_page_loop, no_frame_left, Panic
  <1>2. CASE ~(Frame \subseteq kernel_bits)
    <2> DEFINE pages == Pages(<<call.start, call.page_count>>)
               added == table_add(TablesOf(pte), vpage(next_page), phy(palloc))
    <2>1. /\ ~panicked /\ call # NoCall /\ pte' = Entered(pte, next_page, palloc)
          /\ table' = IF call.left = 1 THEN pages_cleared(added, pages) ELSE added
          /\ call.left = 1 => handed' = handed \cup {<<call.start, call.page_count>>}
      <3>1. table = TablesOf(pte)
        BY DEF paged_malloc_page_loop, malloc_page_loop, TablesInv
      <3>2. ~panicked /\ call # NoCall /\ pte' = page_table_add(next_page, palloc)
        BY <1>2, Zenon DEF paged_malloc_page_loop, malloc_page_loop
      <3>3. call.left = 1 => handed' = handed \cup {<<call.start, call.page_count>>}
        BY <1>2, Zenon DEF paged_malloc_page_loop, malloc_page_loop
      <3>4. table' = IF call.left = 1 THEN pages_cleared(added, pages) ELSE added
        BY <1>2, <3>1, Zenon DEF paged_malloc_page_loop
      <3> QED BY <3>2, <3>3, <3>4, Zenon DEF page_table_add, Entered
    <2>2. PICK k \in Nat, m \in Nat : FirstTaken(k, m) /\ OnItsWay(k, m)
      BY <2>1 DEF AllocInv, AtRest
    <2>3. next_page \in KernelPage /\ pages \subseteq KernelPage
      <3>1. VaddrBits \in Nat /\ JunkBits \in Nat /\ MaxPages \in Nat
        BY PoolSize, MemoryAssumption, SMT DEF AllocInv
      <3> DEFINE start == call.start
                 cnt == call.page_count
                 left == call.left
                 limit == VaddrBits + JunkBits + MaxPages
      <3>2. /\ start \in Nat /\ cnt \in 1..MaxPages /\ left \in 1..cnt
            /\ start + cnt - 1 <= limit
        BY <2>2 DEF OnItsWay
      <3>3. limit \in Int
        BY <3>1, SMT
      <3>4. next_page = start + (cnt - left) /\ pages = start..(start + cnt - 1)
        BY DEF next_page, Pages
      <3>5. \A p \in 0..limit : p \in KernelPage
        BY EntriesInMemory
      <3> HIDE DEF start, cnt, left, limit, pages
      <3>6. start + (cnt - left) \in 0..limit /\ start..(start + cnt - 1) \subseteq 0..limit
        BY <3>1, <3>2, <3>3, SMT
      <3> QED BY <3>4, <3>5, <3>6
    <2>4. \A x \in DOMAIN pte : pte[x] \in Int /\ phy(pte[x]) \in Nat
      BY EntriesInMemory
    <2> PICK q : q = pte'
      OBVIOUS
    <2>5. added = TablesOf(q)
      BY <2>1, <2>3, <2>4, EnterPage
    <2>6. \A x \in DOMAIN q : q[x] \in Int
      <3>1. palloc \in Int
        <4>1. VaddrBits \in Nat /\ Frame = 0..(VaddrBits - 1)
          BY PoolSize, SMT DEF AllocInv
        <4>2. kernel_bits = 0..(m - 1) /\ m <= VaddrBits
          BY <2>2 DEF FirstTaken
        <4>3. palloc = m
          BY <1>2, <4>1, <4>2, FramesInOrder
        <4> QED BY <4>3
      <3> QED BY <2>1, <2>4, <3>1 DEF Entered
    <2> HIDE DEF added, pages
    <2>7. \A f \in TableFrame, i \in Index : TablesOf(q)[f][i] = EntryOf(q, f, i)
      BY DEF TablesOf
    <2>8. /\ Intact' => table' = TablesOf(q)
          /\ \A f \in TableFrame, i \in Index : table'[f][i] \in {EntryOf(q, f, i), Absent}
      <3>1. CASE call.left # 1
        BY <2>1, <2>5, <2>7, <3>1
      <3>2. CASE call.left = 1
        <4>1. table' = pages_cleared(TablesOf(q), pages)
          BY <2>1, <2>5, <3>2
        <4>2. ASSUME Intact', NEW p \in pages
              PROVE  walk(TablesOf(q), vpage(p)) \notin TableFrame
          <5>1. p \in AllPages'
            <6>1. <<call.start, call.page_count>> \in handed'
              BY <2>1, <3>2
            <6> QED BY <6>1, Zenon DEF AllPages, Pages, pages
          <5>2. q[p] >= 0
            BY <4>2, <5>1, Zenon DEF Intact
          <5>3. walk(TablesOf(q), vpage(p)) = IF p \in DOMAIN q THEN phy(q[p]) ELSE Absent
            BY <2>3, PageFound
          <5>4. Absent \notin TableFrame
            BY Sizes, SMT DEF Absent
          <5>5. ASSUME p \in DOMAIN q PROVE phy(q[p]) \notin TableFrame
            <6> PICK f \in Int : f = q[p]
              BY <2>6, <5>5
            <6>1. f >= 0
              BY <5>2
            <6>2. phy(f) \notin TableFrame
              BY <6>1, PoolBehind, Sizes, SMT DEF phy
            <6> QED BY <6>2
          <5> QED BY <5>3, <5>4, <5>5
        <4> QED BY <4>1, <4>2, ClearPages
      <3> QED BY <3>1, <3>2
    <2> QED BY <2>8, Zenon DEF TablesInv, TablesOf, EntryOf
  <1> QED BY <1>1, <1>2

LEMMA TablesSafety == PagingSpec => [](AllocInv /\ TablesInv)
  <1>1. PagingInit => TablesInv
    BY TablesInitially
  <1>2. AllocInv /\ TablesInv /\ [PagingNext]_<<memoryVars, table>> => TablesInv'
    <2> SUFFICES ASSUME AllocInv, TablesInv, [PagingNext]_<<memoryVars, table>>
                 PROVE  TablesInv'
      OBVIOUS
    <2>1. ASSUME NEW cnt \in 1..MaxPages, paged_malloc_page(cnt) PROVE TablesInv'
      BY <2>1, TablesKept DEF paged_malloc_page, malloc_page, Panic
    <2>2. CASE paged_malloc_page_loop
      BY <2>2, TablesStep
    <2>3. CASE UNCHANGED <<memoryVars, table>>
      BY <2>3, TablesKept DEF memoryVars
    <2> QED BY <2>1, <2>2, <2>3 DEF PagingNext
  <1>3. PagingSpec => []AllocInv
    BY AllocWithTables, AllocSafety, PTL
  <1> QED BY <1>1, <1>2, <1>3, PTL DEF PagingSpec

-----------------------------------------------------------------------------
\* page_table_add writes through the directory's own entry the entries the MMU
\* reads: each page is mapped to the frame that Memory records, or not at all, as
\* long as none that was handed out lies on the kernel's own memory.
THEOREM MappedWhereRecorded == PagingSpec => []MappedAsRecorded
  <1>1. AllocInv /\ TablesInv => MappedAsRecorded
    BY PageFound DEF TablesInv, MappedAsRecorded
  <1> QED BY <1>1, TablesSafety, PTL

\* The entries for low memory, and the way to every entry of the pool, stay what
\* setup_page made them, as long as no page that was handed out lies on the
\* kernel's own memory.
THEOREM KernelStaysMapped == PagingSpec => []KernelTablesPresent
  <1>1. AllocInv /\ TablesInv => KernelTablesPresent
    <2> SUFFICES ASSUME AllocInv, TablesInv, Intact
                 PROVE  /\ \A i \in 0..(KLOW - 1) :
                             walk(table, i) = i /\ walk(table, KDIR * ENTRIES + i) = i
                        /\ \A p \in KernelPage :
                             /\ walk(table, pde_ptr(vpage(p))[1]) = Dir
                             /\ walk(table, pte_ptr(vpage(p))[1]) \in TableFrame \ {Dir}
      BY Zenon DEF KernelTablesPresent
    <2> table = TablesOf(pte)
      BY DEF TablesInv
    <2>1. ASSUME NEW i \in 0..(KLOW - 1)
          PROVE  walk(table, i) = i /\ walk(table, KDIR * ENTRIES + i) = i
      <3>1. i \in Index /\ 0 \in Index /\ KDIR \in Index /\ 0 * ENTRIES + i = i
            /\ 0 \in 0..(ENTRIES - 2 - KDIR) /\ KDIR + 0 = KDIR /\ Dir + 1 + 0 = Dir + 1
        BY Sizes, SMT
      <3>2. page_dir[0] = Dir + 1 /\ page_dir[KDIR] = Dir + 1
        BY <3>1, Directory
      <3>3. /\ Dir + 1 \in TableFrame /\ Dir + 1 # Dir
            /\ PageOf(Dir + 1, i) = 0 * ENTRIES + i - KLOW
        BY <3>1, TableIsFrame
      <3>4. PageOf(Dir + 1, i) < 0
        BY <3>1, <3>3, Sizes, SMT
      <3>5. EntryOf(pte, Dir + 1, i) = i
        BY <3>3, <3>4, Zenon DEF EntryOf
      <3>6. walk(TablesOf(pte), 0 * ENTRIES + i) = i
        BY <3>1, <3>2, <3>3, <3>5, WalkTables, Zenon
      <3>7. walk(TablesOf(pte), KDIR * ENTRIES + i) = i
        BY <3>1, <3>2, <3>3, <3>5, WalkTables, Zenon
      <3> QED BY <3>1, <3>6, <3>7, Zenon
    <2>2. ASSUME NEW p \in KernelPage
          PROVE  walk(table, pde_ptr(vpage(p))[1]) = Dir
                   /\ walk(table, pte_ptr(vpage(p))[1]) \in TableFrame \ {Dir}
      BY PageWalks, Zenon
    <2> QED BY <2>1, <2>2
  <1> QED BY <1>1, TablesSafety, PTL

\* palloc never gives out the frame of the directory or of a table: a page below
\* the directory's window that is mapped to one was so at power-on.
THEOREM TablesNeverHandedOut == PagingSpec => []TablesPrivate
  <1>1. AllocInv /\ TablesInv => TablesPrivate
    <2> SUFFICES ASSUME AllocInv, TablesInv,
                        NEW v \in 0..(ENTRIES * (ENTRIES - 1) - 1),
                        walk(table, v) \in TableFrame
                 PROVE  \E p \in Stale : v = vpage(p) \/ v = KLOW + p
      BY DEF TablesPrivate
    <2>1. v \in Nat /\ v < (ENTRIES - 1) * ENTRIES
      <3>1. ENTRIES * (ENTRIES - 1) = (ENTRIES - 1) * ENTRIES
            /\ ENTRIES * (ENTRIES - 1) \in Int
        BY Sizes, SMT
      <3> QED BY <3>1, SMT
    <2>2. PICK d \in Nat, i \in 0..(ENTRIES - 1) : v = d * ENTRIES + i
      BY <2>1, Sizes, Division
    <2>3. d < ENTRIES - 1
      BY <2>1, <2>2, Sizes, RowBelow
    <2>4. d \in 0..(ENTRIES - 2) /\ d \in Index /\ i \in Index
      BY <2>3, Sizes, SMT
    <2>5. Absent \notin TableFrame
      BY Sizes, SMT DEF Absent
    <2>6. page_dir[d] \in TableFrame /\ walk(table, v) = EntryOf(pte, page_dir[d], i)
      <3>1. PDE_INDEX(v) = d /\ PTE_INDEX(v) = i
        <4>1. d \in Int
          OBVIOUS
        <4>2. (d * ENTRIES + i) \div ENTRIES = d /\ (d * ENTRIES + i) % ENTRIES = i
          BY <4>1, Sizes, Quotient
        <4> QED BY <2>2, <4>2 DEF PDE_INDEX, PTE_INDEX
      <3>2. walk(table, v) = IF table[Dir][d] \in TableFrame
                             THEN table[table[Dir][d]][i] ELSE table[Dir][d]
        BY <3>1, Zenon DEF walk
      <3>3. table[Dir][d] = page_dir[d] \/ table[Dir][d] = Absent
        BY <2>4, Sizes DEF TablesInv, EntryOf
      <3>4. page_dir[d] \in TableFrame /\ walk(table, v) = table[page_dir[d]][i]
        BY <2>5, <3>2, <3>3
      <3> QED BY <2>4, <2>5, <3>4 DEF TablesInv
    <2>7. PICK k \in 0..(ENTRIES - 2 - KDIR) :
            /\ d = KDIR + k \/ (d = 0 /\ k = 0)
            /\ page_dir[d] = Dir + 1 + k
      BY <2>4, <2>6, <2>5, Directory
    <2>8. /\ Dir + 1 + k \in TableFrame /\ Dir + 1 + k # Dir
          /\ PageOf(Dir + 1 + k, i) = k * ENTRIES + i - KLOW
      BY <2>4, TableIsFrame
    <2> DEFINE p == PageOf(Dir + 1 + k, i)
    <2>9. k * ENTRIES \in Nat
      BY Sizes, NoRowBelow, SMT
    <2>10. EntryOf(pte, Dir + 1 + k, i)
             = IF p < 0 THEN i ELSE IF p \in DOMAIN pte THEN phy(pte[p]) ELSE Absent
      BY <2>8, Zenon DEF EntryOf
    <2>11. ~(p < 0)
      <3>1. ASSUME p < 0 PROVE i \notin TableFrame
        <4>1. i < KLOW
          BY <2>8, <2>9, <3>1, Sizes, SMT
        <4> QED BY <4>1, Sizes, SMT
      <3> QED BY <2>6, <2>7, <2>8, <2>10, <3>1, Zenon
    <2>12. p \in Stale
      BY <2>6, <2>5, <2>7, <2>8, <2>10, <2>11, EntriesInMemory
    <2>13. v = vpage(p) \/ v = KLOW + p
      <3>1. p = k * ENTRIES + i - KLOW
        BY <2>8
      <3> HIDE DEF p
      <3>2. CASE d = 0 /\ k = 0
        BY <2>2, <3>1, <3>2, Sizes, SMT
      <3>3. CASE d = KDIR + k
        <4>1. d * ENTRIES = KDIR * ENTRIES + k * ENTRIES /\ KDIR * ENTRIES \in Int
          BY <3>3, Sizes, SMT
        <4> QED BY <2>2, <2>9, <3>1, <4>1, Sizes, SMT DEF vpage
      <3> QED BY <2>7, <3>2, <3>3
    <2> QED BY <2>12, <2>13
  <1> QED BY <1>1, TablesSafety, PTL

=============================================================================
