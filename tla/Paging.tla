-------------------------------- MODULE Paging --------------------------------
(***************************************************************************)
(* The page tables: what setup_page of mbr/loader.S builds, the walk that  *)
(* the MMU does, and how page_table_add of kernel/memory.c reaches an      *)
(* entry through the last page directory entry, which maps the directory   *)
(* itself.  Memory records which frame a page was given (pte); here the    *)
(* entry is written to a table in memory and found there by the MMU.       *)
(*                                                                         *)
(* Virtual pages and frames are page numbers of the whole address space.   *)
(***************************************************************************)
EXTENDS Memory

CONSTANTS
  ENTRIES,   \* entries of a page directory or table (1024)
  KDIR,      \* the page directory entry of 0xc0000000 (768)
  KLOW       \* pages of low memory (256), and the frame of the page directory

\* The pages from K_HEAD_START up to the directory's window.
KernelPage == 0..((ENTRIES - 1 - KDIR) * ENTRIES - KLOW - 1)

\* Wherever a scan ends that runs on behind the bitmap, there is a table; a
\* stale entry of any of the tables maps any frame.
ASSUME PagingAssumption ==
  /\ ENTRIES \in Nat /\ KDIR \in 1..(ENTRIES - 2) /\ KLOW \in 1..(ENTRIES - 1)
  /\ \A m \in MemSize :
       8 * vaddr_bitmap_length(m) + JunkBits + MaxPages < (ENTRIES - 1 - KDIR) * ENTRIES - KLOW
  /\ \A t \in StaleTables : /\ DOMAIN t \subseteq KernelPage
                            /\ \A p \in DOMAIN t : t[p] + KLOW + ENTRIES - KDIR \in Nat

VARIABLE table   \* frame |-> index |-> entry, of the directory and the tables

Index == 0..(ENTRIES - 1)
Absent == -1     \* an entry with P clear

Dir == KLOW
TableFrame == Dir..(Dir + ENTRIES - KDIR - 1)

\* Mutant: the pool starts right behind low memory, on the page tables.
pool_start_OnTables == KLOW

\* kernel_pool.phy_addr_start: used_mem is low memory and the tables.
pool_start == KLOW + Cardinality(TableFrame)

phy(f) == pool_start + f

\* The virtual page of page p of the pool: K_HEAD_START is 0xc0100000.
vpage(p) == KDIR * ENTRIES + KLOW + p

PDE_INDEX(v) == v \div ENTRIES
PTE_INDEX(v) == v % ENTRIES

-----------------------------------------------------------------------------
\* setup_page: the directory is cleared, the first table entered for the low
\* 4 MB of both halves, the directory for its own last entry, and the tables
\* that follow for the rest of the kernel's half.
page_dir ==
  [i \in Index |-> IF i = 0 \/ i = KDIR THEN Dir + 1
                   ELSE IF i = ENTRIES - 1 THEN Dir
                   ELSE IF i > KDIR THEN Dir + 1 + (i - KDIR)
                   ELSE Absent]

\* Of the tables only the entries of low memory are written; the others keep
\* what memory held.
page_table(d) ==
  [i \in Index |-> LET p == (d - KDIR) * ENTRIES + i - KLOW
                   IN  IF p < 0 THEN i ELSE IF p \in DOMAIN pte THEN phy(pte[p]) ELSE Absent]

PagingInit ==
  /\ MemoryInit
  /\ table = [f \in TableFrame |->
                IF f = Dir THEN page_dir ELSE page_table(KDIR + f - Dir - 1)]

\* The MMU: the frame a virtual page is mapped to in the tables tbl.
walk(tbl, v) ==
  LET d == tbl[Dir][PDE_INDEX(v)]
  IN  IF d \in TableFrame THEN tbl[d][PTE_INDEX(v)] ELSE d

\* Mutant: the directory index of v does not enter the pointer.
pte_ptr_FirstTable(v) == <<(ENTRIES - 1) * ENTRIES, PTE_INDEX(v)>>

\* pte_ptr and pde_ptr: virtual page and index of the word they point to.
pte_ptr(v) == <<(ENTRIES - 1) * ENTRIES + PDE_INDEX(v), PTE_INDEX(v)>>
pde_ptr(v) == <<(ENTRIES - 1) * ENTRIES + (ENTRIES - 1), PDE_INDEX(v)>>

\* Mutant: the directory entry is set to the new frame.
table_add_Pde(tbl, v, f) ==
  [tbl EXCEPT ![walk(tbl, pde_ptr(v)[1])][pde_ptr(v)[2]] = f]

\* page_table_add(v, f) when *pde has P set, which KernelTablesPresent shows of
\* each page of the pool: the branch that takes a new page table is never run.
table_add(tbl, v, f) ==
  LET t == walk(tbl, pte_ptr(v)[1])
      i == pte_ptr(v)[2]
  IN  IF tbl[t][i] = Absent THEN [tbl EXCEPT ![t][i] = f] ELSE tbl

\* The memset of get_kernel_pages: P becomes clear in every entry of a table
\* that the pages lie on.
pages_cleared(tbl, pages) ==
  LET hit == {walk(tbl, vpage(p)) : p \in pages}
  IN  [f \in TableFrame |-> IF f \in hit THEN [i \in Index |-> Absent] ELSE tbl[f]]

\* vaddr_get leaves the tables alone, and a turn of the loop adds an entry.  The
\* last turn returns to get_kernel_pages.
paged_malloc_page(page_count) == malloc_page(page_count) /\ UNCHANGED table

paged_malloc_page_loop ==
  /\ malloc_page_loop
  /\ LET added == table_add(table, vpage(next_page), phy(palloc))
     IN  table' = IF Frame \subseteq kernel_bits THEN table
                  ELSE IF call.left = 1
                       THEN pages_cleared(added, Pages(<<call.start, call.page_count>>))
                       ELSE added

PagingNext ==
  \/ \E page_count \in 1..MaxPages : paged_malloc_page(page_count)
  \/ paged_malloc_page_loop

PagingSpec == PagingInit /\ [][PagingNext]_<<memoryVars, table>>

-----------------------------------------------------------------------------
\* The MMU finds each page of the kernel where Memory recorded it, and no page
\* that was not given a frame and had none at power-on: the entries
\* page_table_add writes through the directory's own entry are the ones the MMU
\* reads.
MappedAsRecorded ==
  Intact =>
    \A p \in KernelPage :
      walk(table, vpage(p)) = IF p \in DOMAIN pte THEN phy(pte[p]) ELSE Absent

\* Allocation never disturbs what the kernel stands on, unless it hands a table
\* out: low memory stays mapped at 0 and at 0xc0000000, where its code, stack,
\* bitmaps and screen are, and every entry of its pages remains reachable through
\* the directory.
KernelTablesPresent ==
  Intact =>
    /\ \A i \in 0..(KLOW - 1) : walk(table, i) = i /\ walk(table, KDIR * ENTRIES + i) = i
    /\ \A p \in KernelPage : walk(table, pde_ptr(vpage(p))[1]) = Dir
                               /\ walk(table, pte_ptr(vpage(p))[1]) \in TableFrame \ {Dir}

\* No call maps a page to the directory or to a table.  Below the directory's
\* window only an entry that memory held at power-on can: that of a kernel page,
\* which the first table also maps behind low memory.
TablesPrivate ==
  \A v \in 0..(ENTRIES * (ENTRIES - 1) - 1) :
    walk(table, v) \in TableFrame => \E p \in Stale : v = vpage(p) \/ v = KLOW + p

=============================================================================
