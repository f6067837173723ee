---------------------------- MODULE MC_MemoryMap ----------------------------
(***************************************************************************)
(* A word of 64 values and an arena that ends near its last one, so that   *)
(* lengths round up past both the window and the word.                     *)
(***************************************************************************)
EXTENDS MemoryMap
MC_Layout  == default_layout(20, 40)
MC_heap_base  == MC_Layout.heap_base
MC_heap_limit == MC_Layout.heap_limit
MC_mmap_base  == MC_Layout.mmap_base
MC_mmap_limit == MC_Layout.mmap_limit
MC_Lengths == {0, 1, 3, 4, 5, 9, 29, 30, 33, 40, 41, 61, 63}
=============================================================================
