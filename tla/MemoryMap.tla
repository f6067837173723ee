----------------------------- MODULE MemoryMap -----------------------------
(***************************************************************************)
(* shim/memory_map.rs: the guest's heap break and its anonymous-mapping    *)
(* arena, two windows of guest RAM.  Nothing is ever reclaimed.  Words     *)
(* run to MaxWord (u64::MAX), and the arithmetic is checked against it.    *)
(***************************************************************************)
EXTENDS Integers

CONSTANTS
    MaxWord,        \* u64::MAX
    PAGE_SIZE,
    heap_base, heap_limit, mmap_base, mmap_limit,   \* ArenaLayout
    Lengths         \* the lengths and breaks a guest may ask for

ASSUME MemoryMapAssumption ==
    /\ MaxWord \in Nat /\ PAGE_SIZE \in Nat \ {0}
    /\ heap_base \in Nat /\ heap_limit \in Nat /\ mmap_base \in Nat /\ mmap_limit \in Nat
    /\ heap_base <= heap_limit /\ heap_limit <= mmap_base
    /\ mmap_base <= mmap_limit /\ mmap_limit <= MaxWord
    /\ Lengths \subseteq 0 .. MaxWord

VARIABLES
    brk,        \* the program break
    mmap_next,  \* first address the next mapping may use
    granted     \* every mapping handed out: its base, and the length asked for

mapVars == <<brk, mmap_next, granted>>

\* shim/mod.rs default_layout: a quarter of RAM in, and half way.
default_layout(ram_base, ram_bytes) ==
    [heap_base |-> ram_base + ram_bytes \div 4, heap_limit |-> ram_base + ram_bytes \div 2,
     mmap_base |-> ram_base + ram_bytes \div 2, mmap_limit |-> ram_base + ram_bytes]

MapInit == brk = heap_base /\ mmap_next = mmap_base /\ granted = {}

\* Mutant: a request below the window is not refused.
set_brk_no_floor(current, requested) == IF requested <= heap_limit THEN requested ELSE current

\* set_brk: the break after a request, which is also what the call returns.
set_brk(current, requested) ==
    IF heap_base <= requested /\ requested <= heap_limit THEN requested ELSE current

div_ceil(a, b) == (a + b - 1) \div b

\* Mutant: the length is rounded down to whole pages.
size_of_map_floor(length) == (length \div PAGE_SIZE) * PAGE_SIZE

\* Mutant: the arena is moved on by the length asked for, not by whole pages.
size_of_map_exact(length) == length

\* The bytes map() takes from the arena for a length.
size_of_map(length) == div_ceil(length, PAGE_SIZE) * PAGE_SIZE

\* Mutant: the end of the mapping is not compared with the limit.
map_fits_unlimited(next, length) == length # 0

\* Mutant: a mapping that exactly fills the arena is refused.
map_fits_strict(next, length) ==
    length # 0 /\ next + size_of_map(length) <= MaxWord /\ next + size_of_map(length) < mmap_limit

\* map returns Some: no early return is taken, of four.
map_fits(next, length) ==
    /\ length # 0
    /\ size_of_map(length) <= MaxWord
    /\ next + size_of_map(length) <= MaxWord
    /\ next + size_of_map(length) <= mmap_limit

SetBrk(requested) == brk' = set_brk(brk, requested) /\ UNCHANGED <<mmap_next, granted>>

Map(length) ==
    /\ map_fits(mmap_next, length)
    /\ mmap_next' = mmap_next + size_of_map(length)
    /\ granted' = granted \cup {[base |-> mmap_next, length |-> length]}
    /\ UNCHANGED brk

MapRefused(length) == ~map_fits(mmap_next, length) /\ UNCHANGED mapVars

MapNext == \E n \in Lengths : SetBrk(n) \/ Map(n) \/ MapRefused(n)
MapSpec == MapInit /\ [][MapNext]_mapVars

(***************************************************************************)
(* Properties.                                                             *)
(***************************************************************************)
\* The break, the next mapping and the grants are words (MemoryMap's u64 fields):
\* checked_mul and checked_add in map() never let one leave the word.
MapTypeOK ==
    /\ brk \in 0 .. MaxWord /\ mmap_next \in 0 .. MaxWord
    /\ granted \subseteq [base : 0 .. MaxWord, length : 1 .. MaxWord]

\* The bytes [a, a + n) and [b, b + m) do not meet.
Disjoint(a, n, b, m) == a + n <= b \/ b + m <= a

\* No two mappings the guest holds share a byte, and none shares one with the
\* heap at any break it can have: MemoryMap::map never hands out memory that
\* map or set_brk has handed out before, at the edges of the word included.
NoOverlap ==
    /\ \A g, h \in granted : g # h => Disjoint(g.base, g.length, h.base, h.length)
    /\ \A g \in granted : Disjoint(g.base, g.length, heap_base, brk - heap_base)

\* Every byte the guest is told it may use is inside the arena the harness set
\* out: each mapping lies in the mmap window, and the heap's bytes, the ones from
\* heap_base up to and without the break, in the heap window.  The break itself
\* may be heap_limit (set_brk compares with <=), where the heap fills its window.
InsideWindows ==
    /\ heap_base <= brk /\ brk <= heap_limit
    /\ \A g \in granted : mmap_base <= g.base /\ g.base + g.length <= mmap_limit
    /\ mmap_base <= mmap_next /\ mmap_next <= mmap_limit

\* A refused mapping was really impossible: the arena has no room for its pages
\* (or it asks for nothing), so ENOMEM is never returned while the pages are free.
RefusalIsExhaustion ==
    \A n \in Lengths : ~map_fits(mmap_next, n) =>
        n = 0 \/ mmap_limit - mmap_next < div_ceil(n, PAGE_SIZE) * PAGE_SIZE
=============================================================================
