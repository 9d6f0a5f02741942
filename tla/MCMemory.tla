------------------------------- MODULE MCMemory -------------------------------
(***************************************************************************)
(* TLC instances of Memory and Paging: machines with 16 to 33 free frames, *)
(* that is bitmaps of one and two bytes with frames left over, and page    *)
(* tables of eight or ten entries, so that the kernel's pages lie in       *)
(* several of them.  At power-on memory holds no page table entry or one,  *)
(* of a page in the bitmap or behind it, that maps low memory, the         *)
(* directory, another table, a frame of the pool or a frame behind it.     *)
(***************************************************************************)
EXTENDS Paging

MCMemSize == {used_mem + n * PAGE_SIZE : n \in {16, 19, 33}}

MCStaleTables ==
  UNION {[D -> {KDIR - ENTRIES - 1, KDIR - ENTRIES, KDIR - ENTRIES + 2, 1, 40}] : D \in {{}, {0}, {3}, {7}, {17}}}

=============================================================================
