----------------------------- MODULE ShimProofs -----------------------------
(***************************************************************************)
(* Theorems about MemoryMap for every layout, page size and word, and then *)
(* about Shim, which embeds it, for every RAM, layout, budget, host and    *)
(* guest.                                                                  *)
(***************************************************************************)
EXTENDS Shim, IsaProofs, SequenceTheorems, WellFoundedInduction

(***************************************************************************)
(* Rounding a length up to whole pages never loses any of it: the fact     *)
(* about div_ceil that the arena rests on.                                 *)
(***************************************************************************)
LEMMA RoundUp ==
    ASSUME NEW n \in Nat
    PROVE  size_of_map(n) \in Nat /\ size_of_map(n) >= n
<1>1. PAGE_SIZE \in Nat /\ PAGE_SIZE > 0
  BY MemoryMapAssumption
<1> DEFINE a == n + PAGE_SIZE - 1
           q == a \div PAGE_SIZE
<1>2. a \in Nat
  BY <1>1
<1>3. q \in Nat /\ a = PAGE_SIZE * q + (a % PAGE_SIZE) /\ a % PAGE_SIZE \in 0 .. PAGE_SIZE - 1
  BY <1>1, <1>2, Z3
<1>4. q * PAGE_SIZE = PAGE_SIZE * q /\ q * PAGE_SIZE \in Nat
  BY <1>1, <1>3
<1>5. q * PAGE_SIZE >= n
  BY <1>1, <1>2, <1>3, <1>4
<1> QED
  BY <1>4, <1>5 DEF size_of_map, div_ceil

(***************************************************************************)
(* The inductive invariant.  NoOverlap alone is not inductive: that a new  *)
(* mapping misses the old ones needs every old one to end at or before     *)
(* mmap_next.  PagesInv says the same of the whole pages a mapping takes,  *)
(* and that each starts a whole number of pages above mmap_base.           *)
(***************************************************************************)
GrantsBelowNext == \A g \in granted : g.base + g.length <= mmap_next

PageAbove(address) == \E k \in Nat : address = mmap_base + k * PAGE_SIZE

PagesInv ==
    /\ PageAbove(mmap_next)
    /\ \A g \in granted : PageAbove(g.base) /\ g.base + size_of_map(g.length) <= mmap_next
    /\ \A g, h \in granted : g # h =>
          Disjoint(g.base, size_of_map(g.length), h.base, size_of_map(h.length))

MapInv == MapTypeOK /\ InsideWindows /\ GrantsBelowNext /\ NoOverlap /\ PagesInv

LEMMA PagesInvInit == MapInit => PagesInv
<1>1. mmap_base = mmap_base + 0 * PAGE_SIZE
  BY MemoryMapAssumption
<1>2. PageAbove(mmap_base)
  BY <1>1 DEF PageAbove
<1> QED
  BY <1>2 DEF MapInit, PagesInv

LEMMA MapInvInit == MapInit => MapInv
  BY MemoryMapAssumption, PagesInvInit
  DEF MapInit, MapInv, MapTypeOK, InsideWindows, GrantsBelowNext, NoOverlap

\* set_brk keeps the break in its window, and the heap below every mapping.
LEMMA SetBrkKeepsInv ==
    ASSUME MapInv, NEW n \in 0 .. MaxWord, SetBrk(n)
    PROVE  MapInv'
<1>1. n \in Nat /\ brk \in Nat /\ heap_base \in Nat /\ heap_limit \in Nat /\ mmap_base \in Nat
      /\ heap_limit <= mmap_base /\ heap_base <= brk /\ brk <= heap_limit
  BY MemoryMapAssumption DEF MapInv, MapTypeOK, InsideWindows
<1>2. brk' \in 0 .. MaxWord /\ heap_base <= brk' /\ brk' <= heap_limit
  BY <1>1, MemoryMapAssumption DEF SetBrk, set_brk
<1>3. mmap_next' = mmap_next /\ granted' = granted
  BY DEF SetBrk
<1>4. MapTypeOK' /\ InsideWindows' /\ GrantsBelowNext'
  BY <1>2, <1>3 DEF MapInv, MapTypeOK, InsideWindows, GrantsBelowNext
<1>5. ASSUME NEW g \in granted
      PROVE  Disjoint(g.base, g.length, heap_base, brk' - heap_base)
  <2>1. g.base \in Nat /\ g.length \in Nat /\ mmap_base <= g.base
    BY <1>5 DEF MapInv, MapTypeOK, InsideWindows
  <2> QED
    BY <1>1, <1>2, <2>1 DEF Disjoint
<1>6. NoOverlap'
  BY <1>3, <1>5 DEF MapInv, NoOverlap
<1>7. PagesInv'
  BY <1>3 DEF MapInv, PagesInv, PageAbove, size_of_map, div_ceil, Disjoint
<1> QED
  BY <1>4, <1>6, <1>7 DEF MapInv

\* map moves on by whole pages, past every page it handed out before.
LEMMA MapKeepsPages ==
    ASSUME MapInv, NEW n \in 0 .. MaxWord, Map(n)
    PROVE  PagesInv'
<1> DEFINE new == [base |-> mmap_next, length |-> n]
           size == size_of_map(n)
           q == (n + PAGE_SIZE - 1) \div PAGE_SIZE
<1>1. n \in Nat /\ mmap_next \in Nat /\ PAGE_SIZE \in Nat /\ PAGE_SIZE > 0 /\ mmap_base \in Nat
  BY MemoryMapAssumption DEF MapInv, MapTypeOK
<1>2. size \in Nat
  BY <1>1, RoundUp
<1>3. q \in Nat
  BY <1>1, Z3
<1>4. size = q * PAGE_SIZE
  BY DEF size_of_map, div_ceil
<1>5. mmap_next' = mmap_next + size /\ granted' = granted \cup {new}
  BY DEF Map
<1>6. PICK k \in Nat : mmap_next = mmap_base + k * PAGE_SIZE
  BY DEF MapInv, PagesInv, PageAbove
<1>7. (k + q) * PAGE_SIZE = k * PAGE_SIZE + q * PAGE_SIZE /\ k + q \in Nat
      /\ k * PAGE_SIZE \in Nat /\ q * PAGE_SIZE \in Nat
  BY <1>1, <1>3, <1>6, Z3
<1>8. mmap_next' = mmap_base + (k + q) * PAGE_SIZE
  BY <1>1, <1>4, <1>5, <1>6, <1>7
<1>9. PageAbove(mmap_next) /\ PageAbove(mmap_next')
  BY <1>6, <1>7, <1>8 DEF PageAbove
<1>10. new.base = mmap_next /\ new.length = n
  OBVIOUS
<1> HIDE DEF new, size, q
<1>11. ASSUME NEW g \in granted
       PROVE  /\ g.base \in Nat /\ size_of_map(g.length) \in Nat /\ PageAbove(g.base)
              /\ g.base + size_of_map(g.length) <= mmap_next
  <2>1. g.base \in Nat /\ g.length \in Nat
    BY DEF MapInv, MapTypeOK
  <2> QED
    BY <2>1, RoundUp DEF MapInv, PagesInv
<1>12. ASSUME NEW g \in granted'
       PROVE  PageAbove(g.base) /\ g.base + size_of_map(g.length) <= mmap_next'
  <2>1. CASE g \in granted
    BY <1>1, <1>2, <1>5, <1>11, <2>1
  <2>2. CASE g = new
    BY <1>1, <1>2, <1>5, <1>9, <1>10, <2>2 DEF size
  <2> QED
    BY <1>5, <2>1, <2>2
<1>13. ASSUME NEW g \in granted
       PROVE  Disjoint(g.base, size_of_map(g.length), new.base, size_of_map(new.length))
              /\ Disjoint(new.base, size_of_map(new.length), g.base, size_of_map(g.length))
  BY <1>1, <1>10, <1>11 DEF Disjoint
<1>14. ASSUME NEW g \in granted', NEW h \in granted', g # h
       PROVE  Disjoint(g.base, size_of_map(g.length), h.base, size_of_map(h.length))
  BY <1>5, <1>13, <1>14 DEF MapInv, PagesInv
<1>15. PageAbove(mmap_next)'
  BY <1>9 DEF PageAbove
<1> QED
  BY <1>12, <1>14, <1>15 DEF PagesInv, PageAbove, size_of_map, div_ceil, Disjoint

\* map hands out memory above everything it handed out before.
LEMMA MapKeepsInv ==
    ASSUME MapInv, NEW n \in 0 .. MaxWord, Map(n)
    PROVE  MapInv'
<1> DEFINE new == [base |-> mmap_next, length |-> n]
<1>1. n \in Nat /\ brk \in Nat /\ mmap_next \in Nat
  BY MemoryMapAssumption DEF MapInv, MapTypeOK
<1>2. size_of_map(n) \in Nat /\ size_of_map(n) >= n
  BY <1>1, RoundUp
<1>3. mmap_next' = mmap_next + size_of_map(n) /\ mmap_next' <= mmap_limit
  BY DEF Map, map_fits
<1>4. granted' = granted \cup {new} /\ brk' = brk
  BY DEF Map
<1>5. MapTypeOK'
  <2>1. n \in 1 .. MaxWord /\ mmap_next \in 0 .. MaxWord /\ mmap_next' \in 0 .. MaxWord
    BY <1>1, <1>2, <1>3, MemoryMapAssumption DEF Map, map_fits, MapInv, MapTypeOK
  <2>2. new \in [base : 0 .. MaxWord, length : 1 .. MaxWord]
    BY <2>1
  <2> QED
    BY <2>1, <2>2, <1>4 DEF MapInv, MapTypeOK
<1>6. heap_base \in Nat /\ heap_limit \in Nat /\ mmap_base \in Nat /\ mmap_limit \in Nat
      /\ heap_limit <= mmap_base /\ mmap_base <= mmap_next
      /\ heap_base <= brk /\ brk <= heap_limit
  BY MemoryMapAssumption DEF MapInv, InsideWindows
<1>7. ASSUME NEW g \in granted
      PROVE  /\ g.base \in Nat /\ g.length \in Nat
             /\ mmap_base <= g.base /\ g.base + g.length <= mmap_next
             /\ g.base + g.length <= mmap_limit
  BY <1>7 DEF MapInv, MapTypeOK, InsideWindows, GrantsBelowNext
<1>8. new.base = mmap_next /\ new.length = n
  OBVIOUS
<1>9. InsideWindows'
  BY <1>1, <1>2, <1>3, <1>4, <1>6, <1>7, <1>8 DEF InsideWindows
<1>10. GrantsBelowNext'
  BY <1>1, <1>2, <1>3, <1>4, <1>7, <1>8 DEF GrantsBelowNext
<1>11. ASSUME NEW g \in granted
       PROVE  Disjoint(g.base, g.length, new.base, new.length)
              /\ Disjoint(new.base, new.length, g.base, g.length)
  BY <1>1, <1>7, <1>8, <1>11 DEF Disjoint
<1>12. Disjoint(new.base, new.length, heap_base, brk' - heap_base)
  BY <1>1, <1>4, <1>6, <1>8 DEF Disjoint
<1>13. NoOverlap'
  <2>1. ASSUME NEW g \in granted', NEW h \in granted', g # h
        PROVE  Disjoint(g.base, g.length, h.base, h.length)
    BY <1>4, <1>11, <2>1 DEF MapInv, NoOverlap
  <2>2. ASSUME NEW g \in granted'
        PROVE  Disjoint(g.base, g.length, heap_base, brk' - heap_base)
    BY <1>4, <1>12, <2>2 DEF MapInv, NoOverlap
  <2> QED
    BY <2>1, <2>2 DEF NoOverlap
<1> QED
  BY <1>5, <1>9, <1>10, <1>13, MapKeepsPages DEF MapInv

LEMMA MapInvStep == MapInv /\ [MapNext]_mapVars => MapInv'
<1> SUFFICES ASSUME MapInv, [MapNext]_mapVars
             PROVE  MapInv'
  OBVIOUS
<1>1. CASE UNCHANGED mapVars
  <2>1. MapTypeOK' /\ InsideWindows' /\ GrantsBelowNext' /\ NoOverlap'
    BY <1>1 DEF mapVars, MapInv, MapTypeOK, InsideWindows, GrantsBelowNext, NoOverlap, Disjoint
  <2>2. PagesInv'
    BY <1>1 DEF mapVars, MapInv, PagesInv, PageAbove, size_of_map, div_ceil, Disjoint
  <2> QED
    BY <2>1, <2>2 DEF MapInv
<1>2. CASE MapNext
  <2>1. PICK n \in Lengths : SetBrk(n) \/ Map(n) \/ MapRefused(n)
    BY <1>2 DEF MapNext
  <2>2. CASE MapRefused(n)
    BY <1>1, <2>2 DEF MapRefused
  <2>3. n \in 0 .. MaxWord
    BY MemoryMapAssumption
  <2> QED
    BY <2>1, <2>2, <2>3, SetBrkKeepsInv, MapKeepsInv
<1> QED
  BY <1>1, <1>2

\* What map refuses does not fit: the comparison with u64::MAX never refuses
\* what the comparison with the limit would let through.
LEMMA RefusalJustified ==
    ASSUME MapInv, NEW n \in 0 .. MaxWord, ~map_fits(mmap_next, n)
    PROVE  n = 0 \/ mmap_limit - mmap_next < div_ceil(n, PAGE_SIZE) * PAGE_SIZE
<1>1. n \in Nat /\ mmap_next \in Nat /\ mmap_limit \in Nat /\ MaxWord \in Nat /\ mmap_limit <= MaxWord
  BY MemoryMapAssumption DEF MapInv, MapTypeOK
<1>2. size_of_map(n) \in Nat
  BY <1>1, RoundUp
<1>3. n = 0 \/ mmap_limit - mmap_next < size_of_map(n)
  BY <1>1, <1>2 DEF map_fits
<1> QED
  BY <1>3 DEF size_of_map

\* The arena's state always has its type, whatever the guest asks for.
THEOREM MapTypeCorrect == MapSpec => []MapTypeOK
<1>1. MapInv => MapTypeOK
  BY DEF MapInv
<1> QED
  BY <1>1, MapInvInit, MapInvStep, PTL DEF MapSpec

\* No byte is ever handed out twice, by map or by brk (memory_map.rs), for
\* every layout whose heap window lies below its mmap window.
THEOREM NothingHandedOutTwice == MapSpec => []NoOverlap
<1>1. MapInv => NoOverlap
  BY DEF MapInv
<1> QED
  BY <1>1, MapInvInit, MapInvStep, PTL DEF MapSpec

\* Whatever is handed out lies inside the windows of the layout, although the
\* lengths a guest asks for run up to the last value of the word.
THEOREM HandedOutInsideWindows == MapSpec => []InsideWindows
<1>1. MapInv => InsideWindows
  BY DEF MapInv
<1> QED
  BY <1>1, MapInvInit, MapInvStep, PTL DEF MapSpec

\* ENOMEM is never returned while the pages asked for are free (map's four early
\* returns), for every length up to u64::MAX.
THEOREM RefusalsAreExhaustion == MapSpec => []RefusalIsExhaustion
<1>1. MapInv => RefusalIsExhaustion
  BY RefusalJustified, MemoryMapAssumption DEF RefusalIsExhaustion
<1> QED
  BY <1>1, MapInvInit, MapInvStep, PTL DEF MapSpec


(***************************************************************************)
(* The inductive invariant.  Exactness of the budget needs the guest's     *)
(* share to be what is left, not at most that, and the exit of an earlier  *)
(* run to be forgotten when a new one starts.  That X0 stays a word needs  *)
(* a bound on what a writev or readv has moved: its vectors lie one after  *)
(* the other in RAM, so there are at most RamSize / 16 of them.            *)
(***************************************************************************)
BudgetInv ==
    /\ icount <= deadline
    /\ phase = "Guest" => icount + left = deadline
    /\ phase # "Idle" => exit = NoExit
    /\ exit.kind = "BudgetExhausted" => icount = deadline

VectorInv ==
    phase = "Call" =>
        /\ index * IOVEC_BYTES <= RamSize
        /\ index > 0 => args(1) >= RamBase
        /\ done <= index * MAX_TRANSFER
        /\ number = WRITEV => done = Len(sent)

ShimInv == ShimTypeOK /\ BudgetInv /\ VectorInv /\ MapInv

(***************************************************************************)
(* Values.                                                                 *)
(***************************************************************************)
LEMMA ConstantFacts ==
    /\ MaxWord = 255 /\ Word = 0 .. 255 /\ Word = 0 .. MaxWord
    /\ RamBase \in Nat /\ RamSize \in Nat /\ RamBase + RamSize <= 255
    /\ MAX_TRANSFER \in Nat /\ MAX_TRANSFER <= 215
    /\ \A i \in 0 .. 5 : i \in XRegs
    /\ 8 \in XRegs
  BY ShimAssumption, IsaAssumption, TransferAssumption DEF Word

LEMMA ErrnoType ==
    /\ Fault \in Word /\ NoEnt \in Word /\ NoMem \in Word /\ Inval \in Word
    /\ NoTty \in Word /\ NoSys \in Word /\ HostFails \subseteq Word
    /\ IsError(Fault) /\ IsError(NoEnt) /\ IsError(NoMem) /\ IsError(Inval)
    /\ IsError(NoTty) /\ IsError(NoSys) /\ \A v \in HostFails : IsError(v)
<1>1. \A v \in HostFails : v \in Word /\ IsError(v)
  BY ShimAssumption DEF HostFails, Err_, IsError, Word
<1> QED
  BY <1>1 DEF Fault, NoEnt, NoMem, Inval, NoTty, NoSys, Err_, IsError, Word

LEMMA RegisterTypes ==
    ASSUME ShimTypeOK
    PROVE  /\ number \in Word /\ \A i \in 0 .. 5 : args(i) \in Word
           /\ regs.pc \in Word
  BY ConstantFacts DEF ShimTypeOK, RegFile, number, args

LEMMA MinOfType ==
    ASSUME NEW a \in Nat, NEW b \in Nat
    PROVE  MinOf(a, b) \in Nat /\ MinOf(a, b) <= a /\ MinOf(a, b) <= b
  BY DEF MinOf

\* A window of RAM is in RAM.
LEMMA InWindowCells ==
    ASSUME NEW address \in Nat, NEW len \in Nat, in_window(address, len),
           NEW i \in 1 .. len
    PROVE  address + i - 1 \in Ram
  BY ConstantFacts DEF in_window, Ram

LEMMA SliceType ==
    ASSUME mem \in Memory, NEW address \in Nat, NEW len \in Nat, in_window(address, len)
    PROVE  slice(address, len) \in Seq({0, 1}) /\ Len(slice(address, len)) = len
<1>1. \A i \in 1 .. len : mem[address + i - 1] \in {0, 1}
  BY InWindowCells DEF Memory
<1>2. slice(address, len) \in [1 .. len -> {0, 1}]
  BY <1>1 DEF slice
<1> QED
  BY <1>2

LEMMA FilledType ==
    ASSUME mem \in Memory, NEW address, NEW count, NEW bit \in {0, 1}
    PROVE  filled(address, count, bit) \in Memory
  BY DEF Memory, filled

\* The registers a call returns with.
LEMMA ResumedType ==
    ASSUME ShimTypeOK, NEW value \in Word
    PROVE  /\ resumed(value) \in RegFile
           /\ resumed(value).x[0] = value
<1>1. 0 \in Gpr /\ 0 # ZR /\ 0 # SP /\ 0 \in XRegs /\ INSN_BYTES \in Int
  BY ConstantFacts DEF Gpr, ZR, SP, INSN_BYTES
<1>2. write_x(regs, 0, value) \in RegFile /\ write_x(regs, 0, value).x[0] = value
  BY <1>1, WriteXType DEF ShimTypeOK, write_x, RegFile
<1>3. wrapping_add(regs.pc, INSN_BYTES) \in Word
  BY <1>1, RegisterTypes, WrappingAddType
<1> QED
  BY <1>2, <1>3, SetPcType DEF resumed, set_pc, RegFile

(***************************************************************************)
(* The invariant holds at first, and every action keeps it.                *)
(***************************************************************************)
LEMMA ShimInvInit == ShimInit => ShimInv
<1> SUFFICES ASSUME ShimInit PROVE ShimInv
  OBVIOUS
<1>1. regs \in RegFile /\ mem \in Memory
  BY ShimAssumption DEF ShimInit
<1>2. MapInv /\ MapTypeOK
  BY MapInvInit DEF ShimInit, MapInv
<1>3. UnhandledIsASet
  BY ShimAssumption DEF ShimInit, UnhandledIsASet
<1>4. ShimTypeOK
  BY <1>1, <1>2, <1>3 DEF ShimInit, ShimTypeOK, NoExit, Word
<1>5. BudgetInv /\ VectorInv
  BY DEF ShimInit, BudgetInv, VectorInv, NoExit
<1> QED
  BY <1>2, <1>4, <1>5 DEF ShimInv

\* A step that leaves the arena alone keeps its invariant.
LEMMA MapUnchanged ==
    ASSUME MapInv, UNCHANGED mapVars
    PROVE  MapInv' /\ MapTypeOK'
  BY MapInvStep DEF MapInv

\* A call that returns to the loop keeps the invariant if what it leaves in
\* memory, in its reports and in the arena is well formed.
LEMMA ReturnsKeepsInv ==
    ASSUME ShimInv, phase = "Call", NEW value \in Word, Returns(value),
           mem' \in Memory, sent' \in Seq({0, 1}), MapInv',
           unhandled' \in Seq(Word), UnhandledIsASet'
    PROVE  ShimInv'
<1>1. regs' \in RegFile
  BY ResumedType DEF ShimInv, Returns
<1>2. ShimTypeOK'
  BY <1>1 DEF ShimInv, ShimTypeOK, Returns, MapInv
<1>3. BudgetInv' /\ VectorInv'
  BY DEF ShimInv, BudgetInv, VectorInv, Returns
<1> QED
  BY <1>2, <1>3 DEF ShimInv

LEMMA ReturnsInMemoryKeepsInv ==
    ASSUME ShimInv, phase = "Call", NEW value \in Word, Returns(value),
           mem' \in Memory, sent' \in Seq({0, 1}), UNCHANGED <<unhandled, mapVars>>
    PROVE  ShimInv'
<1>1. MapInv'
  BY MapUnchanged DEF ShimInv
<1>2. unhandled' \in Seq(Word) /\ UnhandledIsASet'
  BY DEF ShimInv, ShimTypeOK, UnhandledIsASet
<1> QED
  BY <1>1, <1>2, ReturnsKeepsInv

LEMMA ReturnsOnlyKeepsInv ==
    ASSUME ShimInv, phase = "Call", NEW value \in Word, ReturnsOnly(value)
    PROVE  ShimInv'
<1>1. mem' \in Memory /\ sent' \in Seq({0, 1})
  BY DEF ShimInv, ShimTypeOK, ReturnsOnly
<1> QED
  BY <1>1, ReturnsInMemoryKeepsInv DEF ReturnsOnly

\* The run returns to its caller.
LEMMA ReturnWithKeepsInv ==
    ASSUME ShimInv, NEW result \in {Exhausted, Trapped} \cup {Exited(st) : st \in Word},
           ReturnWith(result), exit_status' \in -1 .. 255,
           result = Exhausted => icount = deadline
    PROVE  ShimInv'
<1>1. MapInv' /\ MapTypeOK'
  BY MapUnchanged DEF ShimInv, ReturnWith
<1>2. exit' \in [kind : {"None", "Exited", "Trapped", "BudgetExhausted"}, info : Word]
      /\ (exit'.kind = "BudgetExhausted" => icount = deadline)
  BY DEF ReturnWith, Exhausted, Trapped, Exited, Word
<1>3. ShimTypeOK'
  BY <1>1, <1>2 DEF ShimInv, ShimTypeOK, UnhandledIsASet, ReturnWith, guestVars, ioVars
<1>4. BudgetInv' /\ VectorInv'
  BY <1>2 DEF ShimInv, BudgetInv, VectorInv, ReturnWith
<1> QED
  BY <1>1, <1>3, <1>4 DEF ShimInv

(***************************************************************************)
(* Shim::run.                                                              *)
(***************************************************************************)
LEMMA ShimRunKeepsInv ==
    ASSUME ShimInv, NEW b \in ShimBudgets, ShimRun(b)
    PROVE  ShimInv'
<1>1. MapInv' /\ MapTypeOK'
  BY MapUnchanged DEF ShimInv, ShimRun
<1>2. b \in Nat
  BY ShimAssumption
<1>3. ShimTypeOK'
  BY <1>1, <1>2 DEF ShimInv, ShimTypeOK, UnhandledIsASet, ShimRun, guestVars, ioVars, NoExit, Word
<1>4. BudgetInv' /\ VectorInv'
  BY <1>2 DEF ShimInv, ShimTypeOK, BudgetInv, VectorInv, ShimRun, NoExit
<1> QED
  BY <1>1, <1>3, <1>4 DEF ShimInv

LEMMA EnterGuestKeepsInv ==
    ASSUME ShimInv, EnterGuest
    PROVE  ShimInv'
<1>1. MapInv' /\ MapTypeOK'
  BY MapUnchanged DEF ShimInv, EnterGuest
<1>2. ShimTypeOK'
  BY <1>1 DEF ShimInv, ShimTypeOK, UnhandledIsASet, EnterGuest, guestVars, ioVars
<1>3. BudgetInv' /\ VectorInv'
  BY DEF ShimInv, ShimTypeOK, BudgetInv, VectorInv, EnterGuest
<1> QED
  BY <1>1, <1>2, <1>3 DEF ShimInv

LEMMA OutOfBudgetKeepsInv ==
    ASSUME ShimInv, OutOfBudget
    PROVE  ShimInv'
<1>1. icount = deadline
  BY DEF ShimInv, ShimTypeOK, BudgetInv, OutOfBudget
<1>2. ReturnWith(Exhausted) /\ exit_status' \in -1 .. 255
  BY DEF OutOfBudget, ShimInv, ShimTypeOK
<1> QED
  BY <1>1, <1>2, ReturnWithKeepsInv

LEMMA GuestKeepsInv ==
    ASSUME ShimInv, Guest
    PROVE  ShimInv'
<1>1. ASSUME NEW s \in Setups, NEW pc \in GuestPcs, GuestRetire(s, pc)
      PROVE  ShimInv'
  <2>1. MapInv' /\ MapTypeOK'
    BY <1>1, MapUnchanged DEF ShimInv, GuestRetire
  <2>2. regs' \in RegFile /\ mem' \in Memory
    BY <1>1, ShimAssumption, SetPcType DEF GuestRetire
  <2>3. ShimTypeOK'
    BY <1>1, <2>1, <2>2 DEF ShimInv, ShimTypeOK, UnhandledIsASet, GuestRetire, Executing, ioVars
  <2>4. BudgetInv' /\ VectorInv'
    BY <1>1 DEF ShimInv, ShimTypeOK, BudgetInv, VectorInv, GuestRetire, Executing
  <2> QED
    BY <2>1, <2>3, <2>4 DEF ShimInv
<1>2. CASE GuestTrap
  <2>1. ReturnWith(Trapped) /\ exit_status' \in -1 .. 255 /\ Trapped # Exhausted
    BY <1>2 DEF GuestTrap, ShimInv, ShimTypeOK, Trapped, Exhausted
  <2> QED
    BY <2>1, ReturnWithKeepsInv
<1>3. CASE GuestSvc
  <2>1. MapInv' /\ MapTypeOK'
    BY <1>3, MapUnchanged DEF ShimInv, GuestSvc
  <2>2. ShimTypeOK'
    BY <1>3, <2>1 DEF ShimInv, ShimTypeOK, UnhandledIsASet, GuestSvc, guestVars
  <2>3. BudgetInv'
    BY <1>3 DEF ShimInv, ShimTypeOK, BudgetInv, GuestSvc, Executing
  <2>4. VectorInv'
    <3>1. index' = 0 /\ done' = 0 /\ Len(sent') = 0 /\ RamSize \in Nat /\ MAX_TRANSFER \in Nat
      BY <1>3, ConstantFacts DEF GuestSvc
    <3>2. index' * IOVEC_BYTES = 0 /\ index' * MAX_TRANSFER = 0
      BY <3>1 DEF IOVEC_BYTES
    <3> QED
      BY <3>1, <3>2 DEF VectorInv
  <2> QED
    BY <2>1, <2>2, <2>3, <2>4 DEF ShimInv
<1> QED
  BY <1>1, <1>2, <1>3 DEF Guest

(***************************************************************************)
(* Shim::service, call by call.                                            *)
(***************************************************************************)
LEMMA ExitKeepsInv ==
    ASSUME ShimInv, Exit
    PROVE  ShimInv'
<1> DEFINE status == masked(args(0), "W32")
<1>1. status \in Word
  BY RegisterTypes, WordIsInt, MaskedType DEF ShimInv, Widths
<1>2. ReturnWith(Exited(status)) /\ exit_status' \in -1 .. 255 /\ Exited(status) # Exhausted
  BY <1>1 DEF Exit, Exited, Exhausted, Word
<1> QED
  BY <1>1, <1>2, ReturnWithKeepsInv

LEMMA SimpleKeepsInv ==
    ASSUME ShimInv, Simple
    PROVE  ShimInv'
<1>1. PICK value \in {0, 1, NoEnt, NoSys, NoTty} \cup HostFails : ReturnsOnly(value)
  BY DEF Simple
<1>2. value \in Word /\ phase = "Call"
  BY <1>1, ErrnoType DEF Simple, Word
<1> QED
  BY <1>1, <1>2, ReturnsOnlyKeepsInv

\* record_unhandled keeps a list of distinct numbers within its capacity.
LEMMA RecordedIsASet ==
    ASSUME NEW list \in Seq(Word), NEW n \in Word \ Handled,
           \A i, j \in DOMAIN list : list[i] = list[j] => i = j,
           \A i \in DOMAIN list : list[i] \notin Handled,
           Len(list) <= UNHANDLED_CAPACITY
    PROVE  LET new == recorded(list, n)
           IN  /\ new \in Seq(Word)
               /\ \A i, j \in DOMAIN new : new[i] = new[j] => i = j
               /\ \A i \in DOMAIN new : new[i] \notin Handled
               /\ Len(new) <= UNHANDLED_CAPACITY
<1>1. CASE (\E i \in DOMAIN list : list[i] = n) \/ Len(list) >= UNHANDLED_CAPACITY
  BY <1>1 DEF recorded
<1>2. CASE ~((\E i \in DOMAIN list : list[i] = n) \/ Len(list) >= UNHANDLED_CAPACITY)
  <2>1. recorded(list, n) = Append(list, n)
    BY <1>2 DEF recorded
  <2>2. UNHANDLED_CAPACITY \in Nat /\ Len(list) \in Nat /\ DOMAIN list = 1 .. Len(list)
    BY ShimAssumption
  <2> DEFINE new == Append(list, n)
  <2>3. /\ new \in Seq(Word) /\ Len(new) = Len(list) + 1 /\ DOMAIN new = 1 .. Len(list) + 1
        /\ new[Len(list) + 1] = n /\ \A i \in 1 .. Len(list) : new[i] = list[i]
    BY <2>2
  <2>4. \A i \in 1 .. Len(list) : list[i] # n
    BY <1>2, <2>2
  <2>5. ASSUME NEW i \in DOMAIN new, NEW j \in DOMAIN new, new[i] = new[j]
        PROVE  i = j
    BY <2>2, <2>3, <2>4, <2>5
  <2>6. \A i \in DOMAIN new : new[i] \notin Handled
    BY <2>2, <2>3
  <2> QED
    BY <1>2, <2>1, <2>2, <2>3, <2>5, <2>6
<1> QED
  BY <1>1, <1>2

LEMMA UnhandledKeepsInv ==
    ASSUME ShimInv, Unhandled
    PROVE  ShimInv'
<1>1. number \in Word \ Handled
  BY RegisterTypes DEF ShimInv, Unhandled
<1>2. unhandled' = recorded(unhandled, number)
  BY DEF Unhandled
<1>3. unhandled' \in Seq(Word) /\ UnhandledIsASet'
  BY <1>1, <1>2, RecordedIsASet DEF ShimInv, ShimTypeOK, UnhandledIsASet
<1>4. MapInv' /\ mem' \in Memory /\ sent' \in Seq({0, 1})
  BY MapUnchanged DEF Unhandled, ShimInv, ShimTypeOK
<1> QED
  BY <1>3, <1>4, ErrnoType, ReturnsKeepsInv DEF Unhandled

LEMMA BrkKeepsInv ==
    ASSUME ShimInv, Brk
    PROVE  ShimInv'
<1>1. args(0) \in 0 .. MaxWord
  BY RegisterTypes, ConstantFacts DEF ShimInv
<1>2. MapInv'
  BY <1>1, SetBrkKeepsInv DEF ShimInv, Brk
<1>3. set_brk(brk, args(0)) = brk' /\ brk' \in Word
  BY <1>2, ConstantFacts DEF Brk, SetBrk, MapInv, MapTypeOK
<1>4. /\ mem' \in Memory /\ sent' \in Seq({0, 1})
      /\ unhandled' \in Seq(Word) /\ UnhandledIsASet'
  BY DEF Brk, ShimInv, ShimTypeOK, UnhandledIsASet
<1> QED
  BY <1>2, <1>3, <1>4, ReturnsKeepsInv DEF Brk, Calling

LEMMA MmapKeepsInv ==
    ASSUME ShimInv, Mmap
    PROVE  ShimInv'
<1>1. args(1) \in 0 .. MaxWord
  BY RegisterTypes, ConstantFacts DEF ShimInv
<1>2. MapInv'
  BY <1>1, MapKeepsInv, MapUnchanged DEF ShimInv, Mmap, MapRefused
<1>3. mmap_next \in Word
  BY ConstantFacts DEF ShimInv, MapInv, MapTypeOK
<1>4. /\ mem' \in Memory /\ sent' \in Seq({0, 1})
      /\ unhandled' \in Seq(Word) /\ UnhandledIsASet'
  BY DEF Mmap, ShimInv, ShimTypeOK, UnhandledIsASet
<1> QED
  BY <1>2, <1>3, <1>4, ErrnoType, ReturnsKeepsInv DEF Mmap, Calling

(***************************************************************************)
(* Transfers.                                                              *)
(***************************************************************************)
\* What the host may answer is a count within the buffer or an error.
LEMMA HostAnswer ==
    ASSUME NEW len \in Nat, len <= MAX_TRANSFER, NEW r \in host_write(len)
    PROVE  /\ r.value \in Word /\ r.ok \in BOOLEAN
           /\ r.ok => r.value \in 0 .. len /\ ~IsError(r.value)
           /\ ~r.ok => IsError(r.value)
<1>1. MAX_TRANSFER \in Nat /\ MAX_TRANSFER <= 215
  BY ConstantFacts
<1>2. CASE r \in [ok : {TRUE}, value : 0 .. len]
  <2>1. r.ok = TRUE /\ r.value \in 0 .. len
    BY <1>2
  <2>2. r.value \in Word /\ ~IsError(r.value)
    BY <1>1, <2>1 DEF IsError, Word
  <2> QED
    BY <2>1, <2>2
<1>3. CASE r \in [ok : {FALSE}, value : HostFails]
  BY <1>3, ErrnoType
<1> QED
  BY <1>2, <1>3 DEF host_write

LEMMA InWindowPrefix ==
    ASSUME NEW address \in Nat, NEW len \in Nat, in_window(address, len), NEW n \in 0 .. len
    PROVE  in_window(address, n)
  BY ConstantFacts DEF in_window

LEMMA WriteKeepsInv ==
    ASSUME ShimInv, Write
    PROVE  ShimInv'
<1> DEFINE len == MinOf(args(2), MAX_TRANSFER)
<1>1. phase = "Call" /\ args(1) \in Nat /\ args(2) \in Nat /\ mem \in Memory
  BY RegisterTypes, WordIsInt DEF ShimInv, ShimTypeOK, Write, Calling
<1>2. len \in Nat /\ len <= MAX_TRANSFER
  BY <1>1, ConstantFacts, MinOfType
<1>3. CASE ~in_window(args(1), len)
  BY <1>1, <1>3, ErrnoType, ReturnsOnlyKeepsInv DEF Write
<1>4. CASE in_window(args(1), len)
  <2>1. PICK r \in host_write(len) :
            /\ sent' = (IF r.ok THEN slice(args(1), r.value) ELSE <<>>)
            /\ Returns(r.value) /\ UNCHANGED <<mem, unhandled, mapVars>>
    BY <1>4 DEF Write
  <2>2. r.value \in Word /\ (r.ok => r.value \in 0 .. len)
    BY <1>2, HostAnswer
  <2>3. sent' \in Seq({0, 1})
    BY <1>1, <1>2, <1>4, <2>1, <2>2, InWindowPrefix, SliceType
  <2> QED
    BY <1>1, <2>1, <2>2, <2>3, ReturnsInMemoryKeepsInv
<1> QED
  BY <1>3, <1>4

LEMMA ReadKeepsInv ==
    ASSUME ShimInv, Read
    PROVE  ShimInv'
<1> DEFINE len == MinOf(args(2), MAX_TRANSFER)
<1>1. phase = "Call" /\ args(2) \in Nat /\ mem \in Memory /\ sent \in Seq({0, 1})
  BY RegisterTypes, WordIsInt DEF ShimInv, ShimTypeOK, Read, Calling
<1>2. len \in Nat /\ len <= MAX_TRANSFER
  BY <1>1, ConstantFacts, MinOfType
<1>3. PICK r \in host_write(len), bit \in {0, 1} :
          IF ~r.ok THEN ReturnsOnly(r.value)
          ELSE IF ~in_window(args(1), r.value) THEN ReturnsOnly(Fault)
          ELSE /\ mem' = filled(args(1), cells_written(len, r.value), bit)
               /\ Returns(r.value) /\ UNCHANGED <<unhandled, sent, mapVars>>
  BY DEF Read, host_read
<1>4. r.value \in Word
  BY <1>2, HostAnswer
<1>5. CASE ReturnsOnly(r.value) \/ ReturnsOnly(Fault)
  BY <1>1, <1>4, <1>5, ErrnoType, ReturnsOnlyKeepsInv
<1>6. CASE /\ mem' = filled(args(1), cells_written(len, r.value), bit)
           /\ Returns(r.value) /\ UNCHANGED <<unhandled, sent, mapVars>>
  BY <1>1, <1>4, <1>6, FilledType, ReturnsInMemoryKeepsInv
<1> QED
  BY <1>3, <1>5, <1>6

\* A vector that can be read lies in RAM after all the earlier ones.
LEMMA IovecFacts ==
    ASSUME ShimInv, phase = "Call", has_iovec
    PROVE  /\ iov_base \in Word /\ iov_len \in Word
           /\ moved \in Nat /\ moved <= MAX_TRANSFER /\ moved <= iov_len
           /\ args(1) \in Nat /\ args(1) >= RamBase
           /\ index \in Nat /\ (index + 1) * IOVEC_BYTES <= RamSize
<1>1. args(1) \in Nat /\ index \in Nat /\ mem \in Memory
  BY RegisterTypes, WordIsInt DEF ShimInv, ShimTypeOK
<1>2. index > 0 => args(1) >= RamBase
  BY DEF ShimInv, VectorInv
<1>3. /\ entry = args(1) + index * 16
      /\ entry >= RamBase /\ entry + 16 - RamBase <= RamSize
      /\ in_window(entry, 8) /\ in_window(entry + 8, 8)
  BY <1>1, ConstantFacts DEF has_iovec, in_window, entry, IOVEC_BYTES
<1>4. entry \in Word /\ entry + 8 \in Word /\ 8 \in SourceBits
  <2>1. entry \in Nat
    BY <1>1, <1>3
  <2>2. entry \in 0 .. 255 /\ entry + 8 \in 0 .. 255
    BY <1>3, <2>1, ConstantFacts, SMTT(30)
  <2> QED
    BY <2>2 DEF SourceBits, Word
<1>5. iov_base \in Word /\ iov_len \in Word
  BY <1>1, <1>3, <1>4, ReadUintType DEF iov_base, iov_len
<1>6. moved \in Nat /\ moved <= MAX_TRANSFER /\ moved <= iov_len
  BY <1>5, ConstantFacts, WordIsInt, MinOfType DEF moved
<1>7. args(1) >= RamBase /\ (index + 1) * IOVEC_BYTES <= RamSize
  BY <1>1, <1>2, <1>3, ConstantFacts DEF IOVEC_BYTES
<1> QED
  BY <1>1, <1>5, <1>6, <1>7

\* What n vectors in RAM have moved is a count, not an error.
LEMMA VectorsBound ==
    ASSUME NEW n \in Nat, n * IOVEC_BYTES <= RamSize, NEW total \in Nat, total <= n * MAX_TRANSFER
    PROVE  total \in Word /\ ~IsError(total)
<1> DEFINE q == RamSize \div IOVEC_BYTES
           k == q - n
<1>1. RamSize \in Nat /\ MAX_TRANSFER \in Nat /\ q * MAX_TRANSFER <= 215
  BY ConstantFacts, TransferAssumption
<1>2. q \in Nat /\ n <= q
  BY <1>1 DEF IOVEC_BYTES
<1>3. k \in Nat /\ q = n + k
  BY <1>2
<1>4. k * MAX_TRANSFER \in Nat /\ n * MAX_TRANSFER \in Nat
      /\ (n + k) * MAX_TRANSFER = n * MAX_TRANSFER + k * MAX_TRANSFER
  BY <1>1, <1>3
<1> HIDE DEF q, k
<1>5. n * MAX_TRANSFER <= 215
  BY <1>1, <1>3, <1>4
<1> QED
  BY <1>4, <1>5 DEF Word, IsError

LEMMA VectorDoneKeepsInv ==
    ASSUME ShimInv, phase = "Call", has_iovec, NEW count \in 0 .. moved, VectorDone(count),
           mem' \in Memory, sent' \in Seq({0, 1}), number = WRITEV => Len(sent') = Len(sent) + count,
           UNCHANGED <<unhandled, mapVars>>
    PROVE  /\ ShimInv'
           /\ done + count \in Word /\ ~IsError(done + count)
<1>1. /\ moved \in Nat /\ moved <= MAX_TRANSFER /\ index \in Nat
      /\ (index + 1) * IOVEC_BYTES <= RamSize /\ args(1) >= RamBase
  BY IovecFacts
<1>2. done \in Nat /\ done <= index * MAX_TRANSFER /\ count \in Nat /\ count <= MAX_TRANSFER
      /\ MAX_TRANSFER \in Nat
  BY <1>1, ConstantFacts DEF ShimInv, ShimTypeOK, VectorInv
<1>3. (index + 1) * MAX_TRANSFER = index * MAX_TRANSFER + MAX_TRANSFER /\ index * MAX_TRANSFER \in Nat
  BY <1>1, <1>2
<1>4. done + count \in Nat /\ done + count <= (index + 1) * MAX_TRANSFER
  BY <1>2, <1>3
<1>5. done + count \in Word /\ ~IsError(done + count)
  BY <1>1, <1>4, VectorsBound
<1>6. CASE is_short(count)
  BY <1>5, <1>6, ReturnsInMemoryKeepsInv DEF VectorDone
<1>7. CASE ~is_short(count)
  <2>1. /\ index' = index + 1 /\ done' = done + count /\ regs' = regs /\ exit_status' = exit_status
        /\ UNCHANGED <<icount, deadline, left, phase, exit>>
    BY <1>7 DEF VectorDone, loopVars
  <2>2. MapInv' /\ MapTypeOK'
    BY MapUnchanged DEF ShimInv
  <2>3. ShimTypeOK'
    BY <1>1, <1>4, <2>1, <2>2 DEF ShimInv, ShimTypeOK, UnhandledIsASet
  <2>4. BudgetInv'
    BY <2>1 DEF ShimInv, BudgetInv
  <2>5. VectorInv'
    <3>1. number' = number /\ args(1)' = args(1)
      BY <2>1 DEF number, args
    <3>2. number = WRITEV => done = Len(sent)
      BY DEF ShimInv, VectorInv
    <3> QED
      BY <1>1, <1>4, <2>1, <3>1, <3>2 DEF VectorInv
  <2> QED
    BY <1>5, <2>2, <2>3, <2>4, <2>5 DEF ShimInv
<1> QED
  BY <1>6, <1>7

LEMMA VectorsEndKeepsInv ==
    ASSUME ShimInv, VectorsEnd
    PROVE  ShimInv' /\ done \in Word
<1>1. phase = "Call" /\ index \in Nat /\ done \in Nat
      /\ index * IOVEC_BYTES <= RamSize /\ done <= index * MAX_TRANSFER
  BY DEF VectorsEnd, ShimInv, ShimTypeOK, VectorInv
<1>2. done \in Word
  BY <1>1, VectorsBound
<1> QED
  BY <1>1, <1>2, ErrnoType, ReturnsOnlyKeepsInv DEF VectorsEnd

LEMMA WritevStepKeepsInv ==
    ASSUME ShimInv, WritevStep
    PROVE  ShimInv'
<1>1. /\ phase = "Call" /\ has_iovec /\ mem \in Memory /\ sent \in Seq({0, 1})
      /\ iov_base \in Nat /\ moved \in Nat /\ moved <= MAX_TRANSFER
  BY IovecFacts, WordIsInt DEF WritevStep, Calling, ShimInv, ShimTypeOK
<1>2. CASE iov_len = 0
  <2>1. /\ index' = index + 1 /\ done' = done /\ sent' = sent
        /\ UNCHANGED <<regs, mem, icount, deadline, left, phase, exit, exit_status, unhandled, mapVars>>
    BY <1>2 DEF WritevStep, guestVars, loopVars
  <2>2. MapInv' /\ MapTypeOK'
    BY <2>1, MapUnchanged DEF ShimInv
  <2>3. ShimTypeOK'
    BY <2>1, <2>2 DEF ShimInv, ShimTypeOK, UnhandledIsASet
  <2>4. BudgetInv'
    BY <2>1 DEF ShimInv, BudgetInv
  <2>5. /\ index \in Nat /\ done \in Nat /\ MAX_TRANSFER \in Nat
        /\ (index + 1) * IOVEC_BYTES <= RamSize /\ args(1) >= RamBase
        /\ done <= index * MAX_TRANSFER /\ (number = WRITEV => done = Len(sent))
    BY <1>1, ConstantFacts, IovecFacts DEF ShimInv, ShimTypeOK, VectorInv
  <2>6. (index + 1) * MAX_TRANSFER = index * MAX_TRANSFER + MAX_TRANSFER /\ index * MAX_TRANSFER \in Nat
    BY <2>5
  <2>7. done <= (index + 1) * MAX_TRANSFER
    BY <2>5, <2>6
  <2>8. VectorInv'
    BY <2>1, <2>5, <2>7 DEF VectorInv, number, args
  <2> QED
    BY <2>2, <2>3, <2>4, <2>8 DEF ShimInv
<1>3. CASE iov_len # 0 /\ ~in_window(iov_base, moved)
  BY <1>1, <1>3, ErrnoType, ReturnsOnlyKeepsInv DEF WritevStep
<1>4. CASE iov_len # 0 /\ in_window(iov_base, moved)
  <2>1. PICK r \in host_write(moved) :
            IF ~r.ok THEN ReturnsOnly(r.value)
            ELSE /\ sent' = sent \o slice(iov_base, r.value)
                 /\ VectorDone(r.value) /\ UNCHANGED <<mem, unhandled, mapVars>>
    BY <1>4 DEF WritevStep
  <2>2. r.value \in Word /\ (r.ok => r.value \in 0 .. moved)
    BY <1>1, HostAnswer
  <2>3. CASE ~r.ok
    BY <1>1, <2>1, <2>2, <2>3, ReturnsOnlyKeepsInv
  <2>4. CASE r.ok
    <3>1. slice(iov_base, r.value) \in Seq({0, 1}) /\ Len(slice(iov_base, r.value)) = r.value
      BY <1>1, <1>4, <2>2, <2>4, InWindowPrefix, SliceType
    <3>2. sent' \in Seq({0, 1}) /\ Len(sent') = Len(sent) + r.value
      <4>1. sent' = sent \o slice(iov_base, r.value)
        BY <2>1, <2>4
      <4>2. ASSUME NEW t \in Seq({0, 1})
            PROVE  sent \o t \in Seq({0, 1}) /\ Len(sent \o t) = Len(sent) + Len(t)
        BY <1>1
      <4> QED
        BY <3>1, <4>1, <4>2
    <3> QED
      BY <1>1, <2>1, <2>2, <2>4, <3>2, VectorDoneKeepsInv
  <2> QED
    BY <2>3, <2>4
<1> QED
  BY <1>2, <1>3, <1>4

LEMMA ReadvStepKeepsInv ==
    ASSUME ShimInv, ReadvStep
    PROVE  ShimInv'
<1>1. /\ phase = "Call" /\ has_iovec /\ mem \in Memory /\ sent \in Seq({0, 1})
      /\ moved \in Nat /\ moved <= MAX_TRANSFER /\ number # WRITEV
  BY IovecFacts DEF ReadvStep, Calling, ShimInv, ShimTypeOK, READV, WRITEV
<1>2. PICK r \in host_write(moved), bit \in {0, 1} :
          IF ~r.ok THEN ReturnsOnly(r.value)
          ELSE IF ~in_window(iov_base, r.value) THEN ReturnsOnly(Fault)
          ELSE /\ mem' = filled(iov_base, cells_written(moved, r.value), bit)
               /\ VectorDone(r.value) /\ UNCHANGED <<unhandled, sent, mapVars>>
  BY DEF ReadvStep, host_read
<1>3. r.value \in Word /\ (r.ok => r.value \in 0 .. moved)
  BY <1>1, HostAnswer
<1>4. CASE ~r.ok \/ ~in_window(iov_base, r.value)
  BY <1>1, <1>2, <1>3, <1>4, ErrnoType, ReturnsOnlyKeepsInv
<1>5. CASE r.ok /\ in_window(iov_base, r.value)
  <2>1. mem' \in Memory /\ sent' \in Seq({0, 1})
    BY <1>1, <1>2, <1>5, FilledType
  <2> QED
    BY <1>1, <1>2, <1>3, <1>5, <2>1, VectorDoneKeepsInv
<1> QED
  BY <1>4, <1>5

(***************************************************************************)
(* The calls that write a structure.                                       *)
(***************************************************************************)
LEMMA OpenatKeepsInv ==
    ASSUME ShimInv, Openat
    PROVE  ShimInv'
<1>1. PICK value \in {3, Fault, Inval} \cup HostFails : ReturnsOnly(value)
  BY DEF Openat
<1>2. value \in Word /\ phase = "Call"
  BY <1>1, ErrnoType DEF Openat, Calling, Word
<1> QED
  BY <1>1, <1>2, ReturnsOnlyKeepsInv

LEMMA WritesStructKeepsInv ==
    ASSUME ShimInv, phase = "Call", NEW address, NEW len, NEW bit \in {0, 1}, NEW value \in Word,
           WritesStruct(address, len, bit, value)
    PROVE  ShimInv'
<1>1. CASE ~in_window(address, len)
  BY <1>1, ErrnoType, ReturnsOnlyKeepsInv DEF WritesStruct
<1>2. CASE in_window(address, len)
  <2>1. /\ Returns(value) /\ UNCHANGED <<unhandled, mapVars>>
        /\ mem' \in Memory /\ sent' \in Seq({0, 1})
    BY <1>2, FilledType DEF WritesStruct, ShimInv, ShimTypeOK
  <2> QED
    BY <2>1, ReturnsInMemoryKeepsInv
<1> QED
  BY <1>1, <1>2

LEMMA StructCallsKeepInv ==
    ASSUME ShimInv, Fstat \/ Uname \/ Getrandom
    PROVE  ShimInv'
<1>1. phase = "Call" /\ 0 \in Word
  BY DEF Fstat, Uname, Getrandom, Calling, Word
<1>2. CASE Fstat
  BY <1>1, <1>2, ErrnoType, ReturnsOnlyKeepsInv, WritesStructKeepsInv DEF Fstat
<1>3. CASE Uname
  BY <1>1, <1>3, WritesStructKeepsInv DEF Uname
<1>4. CASE Getrandom
  <2>1. MinOf(args(1), MAX_TRANSFER) \in Word
    <3>1. args(1) \in Nat /\ MAX_TRANSFER \in Nat /\ MAX_TRANSFER <= 215
      BY RegisterTypes, WordIsInt, ConstantFacts DEF ShimInv
    <3>2. MinOf(args(1), MAX_TRANSFER) \in 0 .. 255
      BY <3>1 DEF MinOf
    <3> QED
      BY <3>2 DEF Word
  <2> QED
    BY <1>1, <1>4, <2>1, WritesStructKeepsInv DEF Getrandom
<1> QED
  BY <1>2, <1>3, <1>4

LEMMA AffinityKeepsInv ==
    ASSUME ShimInv, Affinity
    PROVE  ShimInv'
<1>1. phase = "Call" /\ args(2) \in Word /\ mem \in Memory /\ sent \in Seq({0, 1})
      /\ 8 \in SourceBits /\ 8 \in Word /\ 1 \in Word
  BY RegisterTypes DEF Affinity, Calling, ShimInv, ShimTypeOK, SourceBits, Word
<1>2. CASE ReturnsOnly(Inval) \/ ReturnsOnly(Fault)
  BY <1>1, <1>2, ErrnoType, ReturnsOnlyKeepsInv
<1>3. CASE mem' = write_uint(mem, args(2), 8, 1) /\ Returns(8) /\ UNCHANGED <<unhandled, sent, mapVars>>
  BY <1>1, <1>3, WriteUintType, ReturnsInMemoryKeepsInv
<1> QED
  BY <1>2, <1>3 DEF Affinity

LEMMA ClockGettimeKeepsInv ==
    ASSUME ShimInv, ClockGettime
    PROVE  ShimInv'
<1>1. phase = "Call" /\ args(1) \in Word /\ mem \in Memory /\ sent \in Seq({0, 1})
      /\ 8 \in SourceBits /\ {0, 1} \subseteq Word
  BY RegisterTypes DEF ClockGettime, Calling, ShimInv, ShimTypeOK, SourceBits, Word
<1>2. PICK seconds \in {0, 1}, nanos \in {0, 1} :
          LET first == write_uint(mem, args(1), 8, seconds)
          IN  IF ~in_window(args(1), 8) THEN ReturnsOnly(Fault)
              ELSE IF ~in_window(args(1) + 8, 8)
              THEN mem' = first /\ Returns(Fault) /\ UNCHANGED <<unhandled, sent, mapVars>>
              ELSE /\ mem' = write_uint(first, args(1) + 8, 8, nanos)
                   /\ Returns(0) /\ UNCHANGED <<unhandled, sent, mapVars>>
  BY DEF ClockGettime
<1> DEFINE first == write_uint(mem, args(1), 8, seconds)
<1>3. first \in Memory
  BY <1>1, WriteUintType
<1> HIDE DEF first
<1>4. CASE ~in_window(args(1), 8)
  BY <1>1, <1>2, <1>4, ErrnoType, ReturnsOnlyKeepsInv
<1>5. CASE in_window(args(1), 8) /\ ~in_window(args(1) + 8, 8)
  BY <1>1, <1>2, <1>3, <1>5, ErrnoType, ReturnsInMemoryKeepsInv DEF first
<1>6. CASE in_window(args(1), 8) /\ in_window(args(1) + 8, 8)
  <2>1. args(1) + 8 \in Word
    <3>1. args(1) \in Nat
      BY <1>1, WordIsInt
    <3>2. (args(1) + 8) - RamBase + 8 <= RamSize
      BY <1>6 DEF in_window
    <3>3. args(1) + 8 \in 0 .. 255
      BY <3>1, <3>2, ConstantFacts
    <3> QED
      BY <3>3 DEF Word
  <2>2. write_uint(first, args(1) + 8, 8, nanos) \in Memory
    BY <1>1, <1>3, <2>1, WriteUintType
  <2> QED
    BY <1>1, <1>2, <1>6, <2>2, ReturnsInMemoryKeepsInv DEF first
<1> QED
  BY <1>4, <1>5, <1>6

LEMMA ServiceKeepsInv ==
    ASSUME ShimInv, Service
    PROVE  ShimInv'
  BY ExitKeepsInv, SimpleKeepsInv, UnhandledKeepsInv, BrkKeepsInv, MmapKeepsInv, WriteKeepsInv,
     ReadKeepsInv, VectorsEndKeepsInv, WritevStepKeepsInv, ReadvStepKeepsInv, OpenatKeepsInv,
     StructCallsKeepInv, AffinityKeepsInv, ClockGettimeKeepsInv
  DEF Service

LEMMA ShimInvStep == ShimInv /\ [ShimNext]_shimVars => ShimInv'
<1> SUFFICES ASSUME ShimInv, [ShimNext]_shimVars
             PROVE  ShimInv'
  OBVIOUS
<1>1. CASE UNCHANGED shimVars
  <2>1. MapInv' /\ MapTypeOK'
    BY <1>1, MapUnchanged DEF ShimInv, shimVars
  <2>2. ShimTypeOK'
    BY <1>1, <2>1 DEF shimVars, guestVars, loopVars, ioVars, ShimInv, ShimTypeOK, UnhandledIsASet
  <2>3. BudgetInv' /\ VectorInv'
    BY <1>1 DEF shimVars, guestVars, loopVars, ioVars, ShimInv, BudgetInv, VectorInv, number, args
  <2> QED
    BY <2>1, <2>2, <2>3 DEF ShimInv
<1>2. CASE ShimNext
  BY <1>2, ShimRunKeepsInv, EnterGuestKeepsInv, OutOfBudgetKeepsInv, GuestKeepsInv, ServiceKeepsInv
  DEF ShimNext, Progress
<1> QED
  BY <1>1, <1>2

LEMMA ShimInvariant == ShimSpec => []ShimInv
  BY ShimInvInit, ShimInvStep, PTL DEF ShimSpec

(***************************************************************************)
(* The theorems.                                                           *)
(***************************************************************************)
\* The shim's state always has its type, X0 after every call included, and its
\* report of unimplemented calls (record_unhandled) is a set within its capacity.
THEOREM ShimTypeCorrect == ShimSpec => []ShimTypeOK
<1>1. ShimInv => ShimTypeOK
  BY DEF ShimInv
<1> QED
  BY <1>1, ShimInvariant, PTL

\* Shim::run never retires more than its budget however supervisor calls cut it
\* up, and exactly that many when it reports exhaustion: for every guest, host
\* and budget.
THEOREM ShimBudgetIsExact == ShimSpec => []BudgetIsExact
<1>1. ShimInv => BudgetIsExact
  BY DEF ShimInv, ShimTypeOK, BudgetInv, BudgetIsExact
<1> QED
  BY <1>1, ShimInvariant, PTL

\* Nothing is handed out twice or outside its window through the system calls
\* either: brk and mmap reach the arena (memory_map.rs) with any word of a register.
THEOREM ShimKeepsArena == ShimSpec => [](NoOverlap /\ InsideWindows)
<1>1. ShimInv => NoOverlap /\ InsideWindows
  BY DEF ShimInv, MapInv
<1> QED
  BY <1>1, ShimInvariant, PTL

\* A whole number of pages above an address on a page is on a page.
LEMMA PagesStayAligned ==
    ASSUME NEW p \in Nat, p > 0, NEW b \in Nat, b % p = 0, NEW k \in Nat
    PROVE  (b + k * p) % p = 0
<1> DEFINE q == b \div p
<1>1. q \in Nat /\ b = p * q + (b % p)
  BY Z3
<1>2. b = p * q
  BY <1>1
<1>3. b + k * p = p * (q + k) /\ q + k \in Nat
  BY <1>1, <1>2, Z3
<1> HIDE DEF q
<1>4. ASSUME NEW m \in Nat
      PROVE  (p * m) % p = 0
  BY Z3
<1> QED
  BY <1>3, <1>4

\* The same calls hand out pages that are distinct, aligned and inside guest RAM
\* to their last byte (memory_map.rs, default_layout), for every page size, RAM,
\* host and guest, and every layout inside that RAM whose mmap window starts on
\* a page.
THEOREM GrantsAlwaysUsable == ShimSpec => []GrantsAreUsable
<1>1. ASSUME MapInv
      PROVE  GrantsAreUsable
  <2>1. /\ heap_base \in Nat /\ heap_limit \in Nat /\ mmap_base \in Nat /\ mmap_limit \in Nat
        /\ heap_base <= heap_limit /\ heap_limit <= mmap_base /\ mmap_base <= mmap_limit
        /\ RamBase \in Nat /\ RamSize \in Nat /\ RamBase <= heap_base
        /\ mmap_limit <= RamBase + RamSize
    BY MemoryMapAssumption, ConstantFacts, LayoutAssumption
  <2>2. brk \in Nat /\ brk <= heap_limit /\ heap_base <= brk /\ mmap_next \in Nat /\ mmap_next <= mmap_limit
    BY MemoryMapAssumption, <1>1 DEF MapInv, MapTypeOK, InsideWindows
  <2>3. in_window(heap_base, brk - heap_base)
    BY <2>1, <2>2 DEF in_window
  <2>4. ASSUME NEW g \in granted
        PROVE  g.base % PAGE_SIZE = 0 /\ in_window(g.base, whole_pages(g.length))
    <3>1. g.base \in Nat /\ g.length \in Nat /\ mmap_base <= g.base
      BY <1>1 DEF MapInv, MapTypeOK, InsideWindows
    <3>2. size_of_map(g.length) \in Nat /\ g.base + size_of_map(g.length) <= mmap_next
      BY <1>1, <3>1, RoundUp DEF MapInv, PagesInv
    <3>3. in_window(g.base, size_of_map(g.length))
      BY <2>1, <2>2, <3>1, <3>2 DEF in_window
    <3>4. PICK k \in Nat : g.base = mmap_base + k * PAGE_SIZE
      BY <1>1 DEF MapInv, PagesInv, PageAbove
    <3>5. g.base % PAGE_SIZE = 0
      <4>1. PAGE_SIZE \in Nat /\ PAGE_SIZE > 0 /\ mmap_base \in Nat /\ mmap_base % PAGE_SIZE = 0
        BY MemoryMapAssumption, LayoutAssumption
      <4>2. (mmap_base + k * PAGE_SIZE) % PAGE_SIZE = 0
        BY <4>1, PagesStayAligned
      <4> QED
        BY <3>4, <4>2
    <3> QED
      BY <3>3, <3>5 DEF whole_pages, size_of_map
  <2>5. ASSUME NEW g \in granted, NEW h \in granted, g # h
        PROVE  Disjoint(g.base, whole_pages(g.length), h.base, whole_pages(h.length))
    BY <1>1, <2>5 DEF MapInv, PagesInv, whole_pages, size_of_map
  <2> QED
    BY <2>3, <2>4, <2>5 DEF GrantsAreUsable
<1>2. ShimInv => GrantsAreUsable
  BY <1>1 DEF ShimInv
<1> QED
  BY <1>2, ShimInvariant, PTL

(***************************************************************************)
(* What a step may never do.                                               *)
(***************************************************************************)
\* The registers and the phase after a call that returned.
LEMMA AfterReturn ==
    ASSUME ShimInv, NEW value \in Word, Returns(value)
    PROVE  regs'.x[0] = value
  BY ResumedType DEF ShimInv, Returns

\* The calls share no number, so a step on a number is a step of its call.
LEMMA StepOfWrite ==
    ASSUME ShimNext, phase = "Call", number \in {WRITE, WRITEV}
    PROVE  Write \/ VectorsEnd \/ WritevStep
<1>1. number \in {64, 66}
  BY DEF WRITE, WRITEV
<1>2. ~Exit /\ ~Simple /\ ~Unhandled
  BY <1>1 DEF Exit, Simple, Unhandled, EXIT, Zero, One, Absent, Refused, CLOSE, IOCTL, Handled,
     WRITE, WRITEV
<1>3. ~Brk /\ ~Mmap /\ ~Read /\ ~ReadvStep /\ ~Openat
  BY <1>1 DEF Brk, Mmap, Read, ReadvStep, Openat, Calling, BRK, MMAP, READ, READV, OPENAT
<1>4. ~Fstat /\ ~Uname /\ ~Getrandom /\ ~Affinity /\ ~ClockGettime
  BY <1>1 DEF Fstat, Uname, Getrandom, Affinity, ClockGettime, Calling, FSTAT, NEWFSTATAT, UNAME,
     GETRANDOM, SCHED_GETAFFINITY, CLOCK_GETTIME
<1>5. Service
  BY DEF ShimNext, Progress, ShimRun, EnterGuest, OutOfBudget, Guest, GuestRetire, GuestTrap,
     GuestSvc, Executing
<1> QED
  BY <1>2, <1>3, <1>4, <1>5 DEF Service

LEMMA WriteCounts ==
    ASSUME ShimInv, Write, ~IsError(regs'.x[0])
    PROVE  regs'.x[0] = Len(sent')
<1> DEFINE len == MinOf(args(2), MAX_TRANSFER)
<1>1. args(1) \in Nat /\ args(2) \in Nat /\ mem \in Memory
  BY RegisterTypes, WordIsInt DEF ShimInv, ShimTypeOK
<1>2. len \in Nat /\ len <= MAX_TRANSFER
  BY <1>1, ConstantFacts, MinOfType
<1>3. CASE ~in_window(args(1), len)
  BY <1>3, ErrnoType, AfterReturn DEF Write, ReturnsOnly
<1>4. CASE in_window(args(1), len)
  <2>1. PICK r \in host_write(len) :
            sent' = (IF r.ok THEN slice(args(1), r.value) ELSE <<>>) /\ Returns(r.value)
    BY <1>4 DEF Write
  <2>2. r.value \in Word /\ (r.ok => r.value \in 0 .. len) /\ (~r.ok => IsError(r.value))
    BY <1>2, HostAnswer
  <2>3. regs'.x[0] = r.value /\ r.ok
    BY <2>1, <2>2, AfterReturn
  <2> QED
    BY <1>1, <1>2, <1>4, <2>1, <2>2, <2>3, InWindowPrefix, SliceType
<1> QED
  BY <1>3, <1>4

LEMMA WritevCounts ==
    ASSUME ShimInv, VectorsEnd \/ WritevStep, phase' = "Loop", number = WRITEV, ~IsError(regs'.x[0])
    PROVE  regs'.x[0] = Len(sent')
<1>1. phase = "Call" /\ done = Len(sent) /\ mem \in Memory /\ sent \in Seq({0, 1})
  BY DEF VectorsEnd, WritevStep, Calling, ShimInv, ShimTypeOK, VectorInv
<1>2. CASE VectorsEnd
  BY <1>1, <1>2, VectorsEndKeepsInv, ErrnoType, AfterReturn DEF VectorsEnd, ReturnsOnly
<1>3. CASE WritevStep
  <2>1. has_iovec /\ iov_base \in Nat /\ moved \in Nat /\ moved <= MAX_TRANSFER
    BY <1>1, <1>3, IovecFacts, WordIsInt DEF WritevStep
  <2>2. iov_len # 0
    BY <1>1, <1>3 DEF WritevStep, loopVars
  <2>3. in_window(iov_base, moved)
    BY <1>3, <2>2, ErrnoType, AfterReturn DEF WritevStep, ReturnsOnly
  <2>4. PICK r \in host_write(moved) :
            IF ~r.ok THEN ReturnsOnly(r.value)
            ELSE /\ sent' = sent \o slice(iov_base, r.value)
                 /\ VectorDone(r.value) /\ UNCHANGED <<mem, unhandled, mapVars>>
    BY <1>3, <2>2, <2>3 DEF WritevStep
  <2>5. r.value \in Word /\ (r.ok => r.value \in 0 .. moved) /\ (~r.ok => IsError(r.value))
    BY <2>1, HostAnswer
  <2>6. r.ok
    BY <2>4, <2>5, AfterReturn DEF ReturnsOnly
  <2>7. slice(iov_base, r.value) \in Seq({0, 1}) /\ Len(slice(iov_base, r.value)) = r.value
    BY <1>1, <2>1, <2>3, <2>5, <2>6, InWindowPrefix, SliceType
  <2>8. sent' = sent \o slice(iov_base, r.value) /\ VectorDone(r.value)
        /\ UNCHANGED <<mem, unhandled, mapVars>>
    BY <2>4, <2>6
  <2>9. sent' \in Seq({0, 1}) /\ Len(sent') = Len(sent) + r.value
    <3>1. ASSUME NEW t \in Seq({0, 1})
          PROVE  sent \o t \in Seq({0, 1}) /\ Len(sent \o t) = Len(sent) + Len(t)
      BY <1>1
    <3> QED
      BY <2>7, <2>8, <3>1
  <2>10. Returns(done + r.value)
    BY <1>1, <2>8 DEF VectorDone, loopVars
  <2>11. done + r.value \in Word
    BY <1>1, <2>1, <2>5, <2>6, <2>8, <2>9, VectorDoneKeepsInv
  <2> QED
    BY <1>1, <2>9, <2>10, <2>11, AfterReturn
<1> QED
  BY <1>2, <1>3

\* write and writev that do not fail report to the guest the number of bytes the
\* host was handed (transfer_out, writev), whatever the host accepts of each
\* vector: no byte is counted twice or lost between the two accounts.
THEOREM CountsAgree == ShimSpec => ReturnCountsSent
<1>1. ShimInv /\ [ShimNext]_shimVars =>
          [phase = "Call" /\ phase' = "Loop" /\ number \in {WRITE, WRITEV} /\ ~IsError(regs'.x[0])
              => regs'.x[0] = Len(sent')]_shimVars
  <2> SUFFICES ASSUME ShimInv, ShimNext, phase = "Call", phase' = "Loop",
                      number \in {WRITE, WRITEV}, ~IsError(regs'.x[0])
               PROVE  regs'.x[0] = Len(sent')
    OBVIOUS
  <2>1. CASE Write
    BY <2>1, WriteCounts
  <2>2. CASE VectorsEnd \/ WritevStep
    <3>1. number = WRITEV
      BY <2>2 DEF VectorsEnd, WritevStep, Calling, WRITE, WRITEV, READV
    <3> QED
      BY <2>2, <3>1, WritevCounts
  <2> QED
    BY <2>1, <2>2, StepOfWrite
<1> QED
  BY <1>1, ShimInvariant, PTL DEF ReturnCountsSent, ShimSpec

(***************************************************************************)
(* Guest memory.                                                           *)
(***************************************************************************)
\* A step that leaves memory alone satisfies both.
LEMMA SameMemory ==
    ASSUME mem' = mem
    PROVE  ReadStaysInCount /\ FailedCallKeepsMemory
  BY DEF ReadStaysInCount, FailedCallKeepsMemory

\* So does one that returns a count that is not an error, if it is not a read.
LEMMA Succeeded ==
    ASSUME ~IsError(regs'.x[0]), number # READ
    PROVE  ReadStaysInCount /\ FailedCallKeepsMemory
  BY DEF ReadStaysInCount, FailedCallKeepsMemory, Calling

LEMMA ReadWritesItsResult ==
    ASSUME ShimInv, Read
    PROVE  ReadStaysInCount /\ FailedCallKeepsMemory
<1> DEFINE len == MinOf(args(2), MAX_TRANSFER)
<1>0. args(2) \in Nat
  BY RegisterTypes, WordIsInt DEF ShimInv
<1>1. len \in Nat /\ len <= MAX_TRANSFER
  BY <1>0, ConstantFacts, MinOfType
<1>2. PICK r \in host_write(len), bit \in {0, 1} :
          IF ~r.ok THEN ReturnsOnly(r.value)
          ELSE IF ~in_window(args(1), r.value) THEN ReturnsOnly(Fault)
          ELSE /\ mem' = filled(args(1), cells_written(len, r.value), bit)
               /\ Returns(r.value) /\ UNCHANGED <<unhandled, sent, mapVars>>
  BY DEF Read, host_read
<1>3. CASE ~r.ok \/ ~in_window(args(1), r.value)
  BY <1>2, <1>3, SameMemory DEF ReturnsOnly
<1>4. CASE r.ok /\ in_window(args(1), r.value)
  <2>1. r.value \in Word /\ ~IsError(r.value)
    BY <1>1, <1>4, HostAnswer
  <2>2. regs'.x[0] = r.value
    BY <1>2, <1>4, <2>1, AfterReturn
  <2>3. \A a \in Ram : mem'[a] # mem[a] => args(1) <= a /\ a < args(1) + r.value
    BY <1>2, <1>4 DEF filled, cells_written
  <2> QED
    BY <2>1, <2>2, <2>3 DEF ReadStaysInCount, FailedCallKeepsMemory
<1> QED
  BY <1>3, <1>4

LEMMA ReadvWritesItsResult ==
    ASSUME ShimInv, ReadvStep
    PROVE  ReadStaysInCount /\ FailedCallKeepsMemory
<1>1. /\ phase = "Call" /\ has_iovec /\ mem \in Memory /\ sent \in Seq({0, 1})
      /\ moved \in Nat /\ moved <= MAX_TRANSFER /\ number # WRITEV /\ number # READ
  BY IovecFacts DEF ReadvStep, Calling, ShimInv, ShimTypeOK, READV, WRITEV, READ
<1>2. PICK r \in host_write(moved), bit \in {0, 1} :
          IF ~r.ok THEN ReturnsOnly(r.value)
          ELSE IF ~in_window(iov_base, r.value) THEN ReturnsOnly(Fault)
          ELSE /\ mem' = filled(iov_base, cells_written(moved, r.value), bit)
               /\ VectorDone(r.value) /\ UNCHANGED <<unhandled, sent, mapVars>>
  BY DEF ReadvStep, host_read
<1>3. CASE ~r.ok \/ ~in_window(iov_base, r.value)
  BY <1>2, <1>3, SameMemory DEF ReturnsOnly
<1>4. CASE r.ok /\ in_window(iov_base, r.value)
  <2>1. r.value \in 0 .. moved
    BY <1>1, <1>4, HostAnswer
  <2>2. mem' \in Memory /\ sent' \in Seq({0, 1}) /\ VectorDone(r.value)
        /\ UNCHANGED <<unhandled, mapVars>>
    BY <1>1, <1>2, <1>4, FilledType
  <2>3. done + r.value \in Word /\ ~IsError(done + r.value)
    BY <1>1, <2>1, <2>2, VectorDoneKeepsInv
  <2>4. CASE is_short(r.value)
    BY <1>1, <2>2, <2>3, <2>4, AfterReturn, Succeeded DEF VectorDone
  <2>5. CASE ~is_short(r.value)
    BY <1>1, <2>2, <2>5 DEF VectorDone, loopVars, ReadStaysInCount, FailedCallKeepsMemory
  <2> QED
    BY <2>4, <2>5
<1> QED
  BY <1>3, <1>4

LEMMA StructWritesItsResult ==
    ASSUME ShimInv, number # READ, NEW address, NEW len, NEW bit, NEW value \in Word, ~IsError(value),
           WritesStruct(address, len, bit, value)
    PROVE  ReadStaysInCount /\ FailedCallKeepsMemory
<1>1. CASE ~in_window(address, len)
  BY <1>1, SameMemory DEF WritesStruct, ReturnsOnly
<1>2. CASE in_window(address, len)
  BY <1>2, AfterReturn, Succeeded DEF WritesStruct
<1> QED
  BY <1>1, <1>2

LEMMA StructCallsWriteTheirResult ==
    ASSUME ShimInv, Fstat \/ Uname \/ Getrandom
    PROVE  ReadStaysInCount /\ FailedCallKeepsMemory
<1>1. number # READ /\ 0 \in Word /\ ~IsError(0)
  BY DEF Fstat, Uname, Getrandom, Calling, FSTAT, NEWFSTATAT, UNAME, GETRANDOM, READ, IsError, Word
<1>2. CASE Fstat
  BY <1>1, <1>2, SameMemory, StructWritesItsResult DEF Fstat, ReturnsOnly
<1>3. CASE Uname
  BY <1>1, <1>3, StructWritesItsResult DEF Uname
<1>4. CASE Getrandom
  <2> DEFINE len == MinOf(args(1), MAX_TRANSFER)
  <2>1. args(1) \in Nat /\ MAX_TRANSFER \in Nat /\ MAX_TRANSFER <= 215
    BY RegisterTypes, WordIsInt, ConstantFacts DEF ShimInv
  <2>2. len \in 0 .. 215
    BY <2>1 DEF MinOf
  <2>3. len \in Word /\ ~IsError(len)
    BY <2>2 DEF Word, IsError
  <2> QED
    BY <1>1, <1>4, <2>3, StructWritesItsResult DEF Getrandom
<1> QED
  BY <1>2, <1>3, <1>4

LEMMA AffinityWritesItsResult ==
    ASSUME ShimInv, Affinity
    PROVE  ReadStaysInCount /\ FailedCallKeepsMemory
<1>1. number # READ /\ 8 \in Word /\ ~IsError(8)
  BY DEF Affinity, Calling, SCHED_GETAFFINITY, READ, IsError, Word
<1>2. CASE ReturnsOnly(Inval) \/ ReturnsOnly(Fault)
  BY <1>2, SameMemory DEF ReturnsOnly
<1>3. CASE Returns(8)
  BY <1>1, <1>3, AfterReturn, Succeeded
<1> QED
  BY <1>2, <1>3 DEF Affinity

\* clock_gettime stores the seconds before it finds out that the nanoseconds
\* do not fit, and nothing else.
LEMMA ClockGettimeWritesItsResult ==
    ASSUME ShimInv, ClockGettime
    PROVE  ReadStaysInCount /\ FailedCallKeepsMemory
<1>1. number = CLOCK_GETTIME /\ number # READ /\ 0 \in Word /\ ~IsError(0)
  BY DEF ClockGettime, Calling, CLOCK_GETTIME, READ, IsError, Word
<1>2. PICK seconds \in {0, 1} :
          \/ ReturnsOnly(Fault)
          \/ mem' = write_uint(mem, args(1), 8, seconds)
          \/ Returns(0)
  BY DEF ClockGettime
<1>3. CASE ReturnsOnly(Fault)
  BY <1>3, SameMemory DEF ReturnsOnly
<1>4. CASE mem' = write_uint(mem, args(1), 8, seconds)
  <2>1. \A a \in Ram : mem'[a] # mem[a] => args(1) <= a /\ a < args(1) + 8
    BY <1>4 DEF write_uint
  <2> QED
    BY <1>1, <2>1 DEF ReadStaysInCount, FailedCallKeepsMemory, Calling
<1>5. CASE Returns(0)
  BY <1>1, <1>5, AfterReturn, Succeeded
<1> QED
  BY <1>2, <1>3, <1>4, <1>5

\* The calls that write no memory at all.
LEMMA OtherCallsKeepMemory ==
    ASSUME Exit \/ Simple \/ Unhandled \/ Brk \/ Mmap \/ Write \/ VectorsEnd \/ WritevStep \/ Openat
    PROVE  mem' = mem
<1>1. ASSUME NEW value, ReturnsOnly(value)
      PROVE  mem' = mem
  BY <1>1 DEF ReturnsOnly
<1>2. CASE Exit \/ Simple \/ Unhandled \/ Brk \/ Mmap \/ Openat
  BY <1>1, <1>2 DEF Exit, ReturnWith, guestVars, Simple, Unhandled, Brk, Mmap, Openat
<1>3. CASE Write \/ VectorsEnd \/ WritevStep
  BY <1>1, <1>3 DEF Write, VectorsEnd, WritevStep, guestVars
<1> QED
  BY <1>2, <1>3

\* A call writes guest memory only where its result says it did: read no further
\* than the count it returns (transfer_in), and a call that fails not at all,
\* except that clock_gettime may have stored the seconds (write_timespec).
THEOREM CallsWriteTheirResult == ShimSpec => CallWritesItsResult
<1>1. ShimInv /\ [ShimNext]_shimVars => [ReadStaysInCount /\ FailedCallKeepsMemory]_shimVars
  <2> SUFFICES ASSUME ShimInv, ShimNext
               PROVE  ReadStaysInCount /\ FailedCallKeepsMemory
    OBVIOUS
  <2>1. CASE Service
    BY <2>1, SameMemory, OtherCallsKeepMemory, ReadWritesItsResult, ReadvWritesItsResult,
       StructCallsWriteTheirResult, AffinityWritesItsResult, ClockGettimeWritesItsResult
    DEF Service
  <2>2. CASE phase # "Call"
    BY <2>2 DEF ReadStaysInCount, FailedCallKeepsMemory, Calling
  <2> QED
    BY <2>1, <2>2
    DEF ShimNext, Progress, ShimRun, EnterGuest, OutOfBudget, Guest, GuestRetire, GuestTrap,
        GuestSvc, Executing
<1> QED
  BY <1>1, ShimInvariant, PTL DEF CallWritesItsResult, ShimSpec

(***************************************************************************)
(* The gather of a writev.  FlattenSeq is a recursive function, so what it *)
(* computes is shown by induction: a set of counterexamples has a least    *)
(* element.                                                                *)
(***************************************************************************)
LEMMA LeastOf ==
    ASSUME NEW T \in SUBSET Nat, T # {}
    PROVE  \E x \in T : \A y \in T : x <= y
<1> DEFINE R == OpToRel(<, Nat)
<1>1. IsWellFoundedOn(R, Nat)
  BY NatLessThanWellFounded
<1>2. \A x \in Nat, y \in Nat : <<y, x>> \in R <=> y < x
  BY DEF OpToRel
<1> HIDE DEF R
<1>3. T \subseteq Nat
  OBVIOUS
<1>4. PICK x \in T : \A y \in T : ~(<<y, x>> \in R)
  BY <1>1, <1>3, WFMin
<1>5. ASSUME NEW y \in T PROVE x <= y
  <2>1. x \in Nat /\ y \in Nat /\ ~(y < x)
    BY <1>2, <1>3, <1>4
  <2> QED
    BY <2>1
<1> QED
  BY <1>5

Joined(v, g, i) == IF i = 1 THEN v[i] ELSE g[i - 1] \o v[i]
Joins(v, g, n)  == g = [i \in 1 .. n |-> Joined(v, g, i)]

\* One more element extends the loop.
LEMMA JoinsOneMore ==
    ASSUME NEW v, NEW n \in Nat, NEW g, Joins(v, g, n)
    PROVE  \E h : Joins(v, h, n + 1)
<1> DEFINE h == [i \in 1 .. n + 1 |-> IF i = n + 1 THEN Joined(v, g, n + 1) ELSE g[i]]
<1>1. ASSUME NEW i \in 1 .. n + 1 PROVE h[i] = Joined(v, h, i)
  <2>1. CASE i = n + 1
    <3>1. i # 1 => h[i - 1] = g[i - 1]
      BY <2>1
    <3>2. h[i] = Joined(v, g, i)
      BY <2>1
    <3> HIDE DEF h
    <3> QED
      BY <3>1, <3>2 DEF Joined
  <2>2. CASE i # n + 1
    <3>1. i \in 1 .. n
      BY <2>2
    <3>2. g[i] = Joined(v, g, i)
      BY <3>1 DEF Joins
    <3>3. h[i] = g[i] /\ (i # 1 => h[i - 1] = g[i - 1])
      BY <2>2, <3>1
    <3> HIDE DEF h
    <3> QED
      BY <3>2, <3>3 DEF Joined
  <2> QED
    BY <2>1, <2>2
<1>2. h = [i \in 1 .. n + 1 |-> Joined(v, h, i)]
  BY <1>1
<1> HIDE DEF h
<1> QED
  BY <1>2 DEF Joins

LEMMA JoinsExists ==
    ASSUME NEW v, NEW n \in Nat
    PROVE  \E g : Joins(v, g, n)
<1> DEFINE P(k) == \E g : Joins(v, g, k)
           Bad  == {k \in Nat : ~P(k)}
<1>1. P(0)
  <2>1. [i \in 1 .. 0 |-> 0] = [i \in 1 .. 0 |-> Joined(v, [j \in 1 .. 0 |-> 0], i)]
    OBVIOUS
  <2> QED
    BY <2>1 DEF Joins
<1>2. ASSUME NEW k \in Nat, P(k) PROVE P(k + 1)
  BY <1>2, JoinsOneMore
<1> HIDE DEF P
<1>3. ASSUME Bad # {} PROVE FALSE
  <2>1. Bad \in SUBSET Nat
    OBVIOUS
  <2>2. PICK k \in Bad : \A m \in Bad : k <= m
    <3> HIDE DEF Bad
    <3> QED
      BY <1>3, <2>1, LeastOf
  <2>3. k \in Nat /\ k # 0 /\ ~P(k)
    BY <1>1, <2>2
  <2>4. k - 1 \in Nat /\ (k - 1) + 1 = k
    BY <2>3
  <2>5. P(k - 1)
    BY <2>2, <2>3, <2>4
  <2> QED
    BY <1>2, <2>3, <2>4, <2>5
<1>4. P(n)
  BY <1>3
<1> QED
  BY <1>4 DEF P

\* Two loops agree as far as both go.
LEMMA JoinsAgree ==
    ASSUME NEW v, NEW n \in Nat, NEW m \in Nat, n <= m,
           NEW g, NEW h, Joins(v, g, n), Joins(v, h, m)
    PROVE  \A i \in 1 .. n : g[i] = h[i]
<1> DEFINE Bad == {i \in Nat : i \in 1 .. n /\ g[i] # h[i]}
<1>1. ASSUME NEW i \in 1 .. n PROVE g[i] = Joined(v, g, i) /\ h[i] = Joined(v, h, i)
  <2>1. i \in 1 .. m
    OBVIOUS
  <2>2. ASSUME NEW f, NEW k \in Nat, Joins(v, f, k), NEW j \in 1 .. k PROVE f[j] = Joined(v, f, j)
    <3>1. f = [x \in 1 .. k |-> Joined(v, f, x)]
      BY <2>2 DEF Joins
    <3>2. [x \in 1 .. k |-> Joined(v, f, x)][j] = Joined(v, f, j)
      OBVIOUS
    <3> QED
      BY <3>1, <3>2, Zenon
  <2> QED
    BY <2>1, <2>2
<1>2. ASSUME Bad # {} PROVE FALSE
  <2>1. Bad \in SUBSET Nat
    OBVIOUS
  <2>2. PICK i \in Bad : \A j \in Bad : i <= j
    <3> HIDE DEF Bad
    <3> QED
      BY <1>2, <2>1, LeastOf
  <2>3. i \in 1 .. n /\ g[i] # h[i]
    BY <2>2
  <2>4. i # 1
    BY <1>1, <2>3 DEF Joined
  <2>5. i - 1 \in Nat /\ i - 1 \in 1 .. n /\ i - 1 \notin Bad
    BY <2>2, <2>3, <2>4
  <2>6. g[i - 1] = h[i - 1]
    BY <2>5
  <2> QED
    BY <1>1, <2>3, <2>4, <2>6 DEF Joined
<1> QED
  BY <1>2

\* The first n sequences of v, end to end.
FirstOf(v, n) == FlattenSeq([i \in 1 .. n |-> v[i]])

LEMMA FirstOfJoins ==
    ASSUME NEW v, NEW n \in Nat \ {0}
    PROVE  \E g : Joins(v, g, n) /\ FirstOf(v, n) = g[n]
<1> DEFINE s == [i \in 1 .. n |-> v[i]]
           g == CHOOSE f : f = [i \in 1 .. n |-> IF i = 1 THEN s[i] ELSE f[i - 1] \o s[i]]
<1>1. Len(s) = n /\ Len(s) # 0
  OBVIOUS
<1> DEFINE Loop(f) == [i \in 1 .. n |-> IF i = 1 THEN s[i] ELSE f[i - 1] \o s[i]]
<1>2. \A f : Loop(f) = [i \in 1 .. n |-> Joined(v, f, i)]
  BY DEF Joined
<1>3. \E f : f = [i \in 1 .. n |-> IF i = 1 THEN s[i] ELSE f[i - 1] \o s[i]]
  <2>1. PICK f : f = [i \in 1 .. n |-> Joined(v, f, i)]
    BY JoinsExists DEF Joins
  <2>2. f = Loop(f)
    <3> HIDE DEF Loop
    <3> QED
      BY <1>2, <2>1
  <2> QED
    BY <2>2
<1>4. g = [i \in 1 .. n |-> IF i = 1 THEN s[i] ELSE g[i - 1] \o s[i]]
  BY <1>3
<1>5. Joins(v, g, n)
  <2> HIDE DEF g
  <2> QED
    BY <1>2, <1>4 DEF Joins
<1>6. FlattenSeq(s) = g[n]
  <2> HIDE DEF s
  <2> QED
    BY <1>1 DEF FlattenSeq
<1> QED
  BY <1>5, <1>6 DEF FirstOf

LEMMA FirstOfNone == \A v : FirstOf(v, 0) = <<>>
  BY DEF FirstOf, FlattenSeq

LEMMA FirstOfOneMore ==
    ASSUME NEW v, NEW n \in Nat, NEW S, \A i \in 1 .. n + 1 : v[i] \in Seq(S)
    PROVE  FirstOf(v, n + 1) = FirstOf(v, n) \o v[n + 1]
<1>1. PICK h : Joins(v, h, n + 1) /\ FirstOf(v, n + 1) = h[n + 1]
  BY FirstOfJoins
<1>2. h[n + 1] = Joined(v, h, n + 1)
  BY <1>1 DEF Joins
<1>3. CASE n = 0
  <2>1. v[1] \in Seq(S)
    BY <1>3
  <2>2. <<>> \o v[1] = v[1]
    BY <2>1
  <2> QED
    BY <1>1, <1>2, <1>3, <2>2, FirstOfNone DEF Joined
<1>4. CASE n # 0
  <2>1. PICK g : Joins(v, g, n) /\ FirstOf(v, n) = g[n]
    BY <1>4, FirstOfJoins
  <2>2. g[n] = h[n]
    BY <1>1, <1>4, <2>1, JoinsAgree
  <2>3. (n + 1) - 1 = n /\ n + 1 # 1
    BY <1>4
  <2>4. h[n + 1] = h[n] \o v[n + 1]
    BY <1>2, <2>3 DEF Joined
  <2> QED
    BY <1>1, <2>1, <2>2, <2>4
<1> QED
  BY <1>3, <1>4

LEMMA FirstOfType ==
    ASSUME NEW v, NEW n \in Nat, NEW S, \A i \in 1 .. n : v[i] \in Seq(S)
    PROVE  \A k \in 0 .. n : FirstOf(v, k) \in Seq(S)
<1> DEFINE Bad == {k \in Nat : k <= n /\ FirstOf(v, k) \notin Seq(S)}
<1>1. ASSUME Bad # {} PROVE FALSE
  <2>1. Bad \in SUBSET Nat
    OBVIOUS
  <2>2. PICK k \in Bad : \A m \in Bad : k <= m
    <3> HIDE DEF Bad
    <3> QED
      BY <1>1, <2>1, LeastOf
  <2>3. k \in Nat /\ k <= n /\ FirstOf(v, k) \notin Seq(S)
    BY <2>2
  <2>4. k # 0
    <3>1. <<>> \in Seq(S)
      OBVIOUS
    <3> QED
      BY <2>3, <3>1, FirstOfNone
  <2>5. PICK j \in Nat : k = j + 1 /\ j \notin Bad /\ j <= n
    <3>1. k - 1 \in Nat /\ k = (k - 1) + 1 /\ k - 1 \notin Bad /\ k - 1 <= n
      BY <2>2, <2>3, <2>4
    <3> QED
      BY <3>1
  <2>6. FirstOf(v, j) \in Seq(S) /\ v[j + 1] \in Seq(S)
    BY <2>3, <2>5
  <2>7. FirstOf(v, j + 1) = FirstOf(v, j) \o v[j + 1]
    BY <2>3, <2>5, FirstOfOneMore
  <2>8. ASSUME NEW a \in Seq(S), NEW b \in Seq(S) PROVE a \o b \in Seq(S)
    OBVIOUS
  <2> QED
    BY <2>3, <2>5, <2>6, <2>7, <2>8
<1> QED
  BY <1>1

\* A sequence starts with its first sequences.
Starts(a, b) == Len(a) <= Len(b) /\ \A i \in 1 .. Len(a) : b[i] = a[i]

LEMMA StartsFacts ==
    ASSUME NEW S, NEW a \in Seq(S), NEW b \in Seq(S), NEW c \in Seq(S)
    PROVE  /\ Starts(a, a) /\ Starts(a, a \o b)
           /\ Starts(a, b) /\ Starts(b, c) => Starts(a, c)
           /\ Starts(b, c) => Starts(a \o b, a \o c)
           /\ Starts(a, b) => IsPrefix(a, b)
<1>1. Starts(a, a) /\ Starts(a, a \o b)
  BY DEF Starts
<1>2. ASSUME Starts(a, b), Starts(b, c) PROVE Starts(a, c)
  <2>1. Len(a) \in Nat /\ Len(b) \in Nat /\ Len(c) \in Nat
    OBVIOUS
  <2> QED
    BY <1>2, <2>1 DEF Starts
<1>3. ASSUME Starts(b, c) PROVE Starts(a \o b, a \o c)
  <2>1. /\ Len(a) \in Nat /\ Len(b) \in Nat /\ Len(c) \in Nat
        /\ Len(a \o b) = Len(a) + Len(b) /\ Len(a \o c) = Len(a) + Len(c)
    OBVIOUS
  <2>2. ASSUME NEW i \in 1 .. Len(a \o b) PROVE (a \o c)[i] = (a \o b)[i]
    <3>1. CASE i <= Len(a)
      BY <2>1, <3>1
    <3>2. CASE ~(i <= Len(a))
      <4>0. i > Len(a)
        BY <2>1, <3>2
      <4>1. i - Len(a) \in 1 .. Len(b) /\ i - Len(a) \in 1 .. Len(c)
        BY <1>3, <2>1, <4>0 DEF Starts
      <4>2. (a \o b)[i] = b[i - Len(a)] /\ (a \o c)[i] = c[i - Len(a)]
        BY <2>1, <4>0, <4>1
      <4> QED
        BY <1>3, <4>1, <4>2 DEF Starts
    <3> QED
      BY <3>1, <3>2, Zenon
  <2> QED
    BY <1>3, <2>1, <2>2 DEF Starts
<1>4. ASSUME Starts(a, b) PROVE IsPrefix(a, b)
  BY <1>4 DEF Starts, IsPrefix
<1> QED
  BY <1>1, <1>2, <1>3, <1>4

LEMMA FirstOfStarts ==
    ASSUME NEW v, NEW n \in Nat, NEW S, \A i \in 1 .. n : v[i] \in Seq(S), NEW m \in 0 .. n
    PROVE  Starts(FirstOf(v, m), FirstOf(v, n))
<1> DEFINE Bad == {k \in Nat : m <= k /\ k <= n /\ ~Starts(FirstOf(v, m), FirstOf(v, k))}
<1>1. \A k \in 0 .. n : FirstOf(v, k) \in Seq(S)
  BY FirstOfType
<1>2. ASSUME Bad # {} PROVE FALSE
  <2>1. Bad \in SUBSET Nat
    OBVIOUS
  <2>2. PICK k \in Bad : \A j \in Bad : k <= j
    <3> HIDE DEF Bad
    <3> QED
      BY <1>2, <2>1, LeastOf
  <2>3. k \in Nat /\ m <= k /\ k <= n /\ ~Starts(FirstOf(v, m), FirstOf(v, k))
    BY <2>2
  <2>4. k # m
    BY <1>1, <2>3, StartsFacts
  <2>5. PICK j \in Nat : k = j + 1 /\ j \notin Bad /\ m <= j /\ j <= n
    <3>1. k - 1 \in Nat /\ k = (k - 1) + 1 /\ k - 1 \notin Bad /\ m <= k - 1 /\ k - 1 <= n
      BY <2>2, <2>3, <2>4
    <3> QED
      BY <3>1
  <2>6. Starts(FirstOf(v, m), FirstOf(v, j))
    BY <2>5
  <2>7. FirstOf(v, m) \in Seq(S) /\ FirstOf(v, j) \in Seq(S) /\ v[j + 1] \in Seq(S)
    BY <1>1, <2>3, <2>5
  <2>8. FirstOf(v, k) = FirstOf(v, j) \o v[j + 1]
    BY <2>3, <2>5, FirstOfOneMore
  <2>9. FirstOf(v, k) \in Seq(S) /\ Starts(FirstOf(v, j), FirstOf(v, k))
    BY <1>1, <2>3, <2>7, <2>8, StartsFacts
  <2> QED
    BY <2>3, <2>6, <2>7, <2>9, StartsFacts
<1> QED
  BY <1>2

\* What a vector names is bits and gaps.
LEMMA VectorType ==
    ASSUME ShimInv, NEW k \in Nat \ {0}
    PROVE  vector_bytes(k) \in Seq({0, 1, Unmapped})
<1> DEFINE at   == args(1) + (k - 1) * IOVEC_BYTES
           base == read_uint(mem, at, 8)
           len  == read_uint(mem, at + 8, 8)
<1>1. args(1) \in Nat /\ mem \in Memory
  BY RegisterTypes, WordIsInt DEF ShimInv, ShimTypeOK
<1>2. CASE in_window(at, IOVEC_BYTES)
  <2>1. (k - 1) * 16 \in Nat /\ at = args(1) + (k - 1) * 16 /\ IOVEC_BYTES = 16
    BY DEF IOVEC_BYTES
  <2> HIDE DEF at
  <2>2. at \in Nat
    BY <1>1, <2>1
  <2>3. at \in Word /\ at + 8 \in Word /\ 8 \in SourceBits /\ in_window(at, 8) /\ in_window(at + 8, 8)
    BY <1>2, <2>1, <2>2, ConstantFacts DEF in_window, SourceBits
  <2>4. base \in Word /\ len \in Word
    BY <1>1, <2>3, ReadUintType
  <2>5. len \in Nat
    BY <2>4, WordIsInt
  <2> HIDE DEF base, len
  <2>6. \A i \in 1 .. len : (IF base + i - 1 \in Ram THEN mem[base + i - 1] ELSE Unmapped) \in {0, 1, Unmapped}
    BY <1>1 DEF Memory
  <2>7. vector_bytes(k) = [i \in 1 .. len |-> IF base + i - 1 \in Ram THEN mem[base + i - 1] ELSE Unmapped]
    BY <1>2 DEF vector_bytes, base, len, at
  <2>8. vector_bytes(k) \in [1 .. len -> {0, 1, Unmapped}]
    BY <2>6, <2>7
  <2> QED
    BY <2>5, <2>8
<1>3. CASE ~in_window(at, IOVEC_BYTES)
  <2>1. vector_bytes(k) = <<>>
    BY <1>3 DEF vector_bytes
  <2> QED
    BY <2>1
<1> QED
  BY <1>2, <1>3

\* What the host takes of a vector is the start of its bytes.
LEMMA VectorSlice ==
    ASSUME ShimInv, phase = "Call", has_iovec, NEW n \in Nat, n <= iov_len, in_window(iov_base, n)
    PROVE  /\ Starts(slice(iov_base, n), vector_bytes(index + 1))
           /\ n = iov_len => slice(iov_base, n) = vector_bytes(index + 1)
<1>1. index \in Nat /\ iov_base \in Nat /\ iov_len \in Nat /\ mem \in Memory /\ args(1) \in Nat
  BY IovecFacts, WordIsInt DEF ShimInv, ShimTypeOK
<1>2. (index + 1) - 1 = index /\ in_window(entry, IOVEC_BYTES)
  BY <1>1, ConstantFacts DEF has_iovec, in_window, IOVEC_BYTES, entry
<1>3. vector_bytes(index + 1)
          = [i \in 1 .. iov_len |-> IF iov_base + i - 1 \in Ram THEN mem[iov_base + i - 1] ELSE Unmapped]
  BY <1>2 DEF vector_bytes, entry, iov_base, iov_len
<1>4. ASSUME NEW i \in 1 .. n PROVE iov_base + i - 1 \in Ram
  BY <1>1, InWindowCells
<1>5. slice(iov_base, n) = [i \in 1 .. n |-> mem[iov_base + i - 1]]
  BY DEF slice
<1>6. Len(slice(iov_base, n)) = n /\ Len(vector_bytes(index + 1)) = iov_len
  BY <1>1, <1>3, <1>5
<1>7. ASSUME NEW i \in 1 .. n PROVE vector_bytes(index + 1)[i] = slice(iov_base, n)[i]
  <2>1. i \in 1 .. iov_len
    BY <1>1
  <2> QED
    BY <1>3, <1>4, <1>5, <2>1
<1>8. ASSUME n = iov_len PROVE slice(iov_base, n) = vector_bytes(index + 1)
  BY <1>3, <1>4, <1>5, <1>8
<1> QED
  BY <1>6, <1>7, <1>8 DEF Starts

\* While a writev is under way, what the host has is every vector so far, whole.
GatherInv == Calling(WRITEV) => index <= args(2) /\ sent = FirstOf(Vectors, index)

LEMMA WritevGathers ==
    ASSUME ShimInv, GatherInv, WritevStep
    PROVE  GatherInv' /\ (sent' # sent => IsPrefix(sent', FlattenSeq(Vectors)))
<1> DEFINE n == args(2)
           v == Vectors
           S == {0, 1, Unmapped}
<1>1. /\ phase = "Call" /\ number = WRITEV /\ has_iovec /\ index \in Nat /\ index < n /\ n \in Nat
      /\ mem \in Memory /\ iov_base \in Nat /\ iov_len \in Nat /\ sent = FirstOf(v, index)
      /\ moved \in Nat /\ moved <= iov_len /\ moved <= MAX_TRANSFER
  BY RegisterTypes, WordIsInt, IovecFacts DEF WritevStep, Calling, GatherInv, ShimInv, ShimTypeOK
<1>2. v = [i \in 1 .. n |-> vector_bytes(i)] /\ \A i \in 1 .. n : v[i] = vector_bytes(i) /\ v[i] \in Seq(S)
  BY VectorType DEF Vectors
<1>3. FlattenSeq(v) = FirstOf(v, n)
  <2>1. v = [i \in 1 .. n |-> v[i]]
    BY <1>2
  <2> QED
    BY <2>1 DEF FirstOf
<1>4. index + 1 \in 1 .. n /\ v[index + 1] = vector_bytes(index + 1) /\ v[index + 1] \in Seq(S)
  BY <1>1, <1>2
<1> HIDE DEF v, n
<1>5. FirstOf(v, index + 1) = sent \o vector_bytes(index + 1)
  <2>1. \A i \in 1 .. index + 1 : v[i] \in Seq(S)
    BY <1>1, <1>2
  <2> QED
    BY <1>1, <1>4, <2>1, FirstOfOneMore
<1>6. \A k \in 0 .. n : FirstOf(v, k) \in Seq(S) /\ Starts(FirstOf(v, k), FirstOf(v, n))
  BY <1>1, <1>2, FirstOfType, FirstOfStarts
<1>7. sent \in Seq(S) /\ vector_bytes(index + 1) \in Seq(S) /\ FirstOf(v, n) \in Seq(S)
      /\ FirstOf(v, index + 1) \in Seq(S) /\ Starts(FirstOf(v, index + 1), FirstOf(v, n))
  BY <1>1, <1>4, <1>6
\* What a step that stays in the call leaves as it was.
<1>8. ASSUME UNCHANGED <<regs, mem>> PROVE Vectors' = v /\ args(2)' = n /\ number' = number
  <2>1. \A i \in 1 .. args(2) : vector_bytes(i)' = vector_bytes(i)
    BY <1>8 DEF vector_bytes, args
  <2> QED
    BY <1>8, <2>1 DEF Vectors, v, n, args, number
<1>9. ASSUME UNCHANGED <<regs, mem>>, index' = index + 1, sent' = sent \o vector_bytes(index + 1)
      PROVE  GatherInv'
  <2>1. index' <= args(2)'
    BY <1>4, <1>8, <1>9
  <2>2. sent' = FirstOf(Vectors', index')
    BY <1>5, <1>8, <1>9
  <2> QED
    BY <2>1, <2>2 DEF GatherInv
<1>10. CASE iov_len = 0
  <2>1. index' = index + 1 /\ sent' = sent /\ UNCHANGED <<regs, mem>>
    BY <1>10 DEF WritevStep, guestVars
  <2>2. (index + 1) - 1 = index /\ in_window(entry, IOVEC_BYTES)
    BY <1>1, RegisterTypes, WordIsInt, ConstantFacts DEF has_iovec, in_window, IOVEC_BYTES, entry, ShimInv
  <2>3. vector_bytes(index + 1) = [i \in 1 .. iov_len |->
            IF iov_base + i - 1 \in Ram THEN mem[iov_base + i - 1] ELSE Unmapped]
    BY <2>2 DEF vector_bytes, entry, iov_base, iov_len
  <2>4. Len(vector_bytes(index + 1)) = 0
    BY <1>10, <2>3
  <2>5. sent \o vector_bytes(index + 1) = sent
    BY <1>7, <2>4
  <2> QED
    BY <1>9, <2>1, <2>5
<1>11. CASE iov_len # 0 /\ ~in_window(iov_base, moved)
  BY <1>11 DEF WritevStep, ReturnsOnly, Returns, GatherInv, Calling
<1>12. CASE iov_len # 0 /\ in_window(iov_base, moved)
  <2>1. PICK r \in host_write(moved) :
            IF ~r.ok THEN ReturnsOnly(r.value)
            ELSE /\ sent' = sent \o slice(iov_base, r.value)
                 /\ VectorDone(r.value) /\ UNCHANGED <<mem, unhandled, mapVars>>
    BY <1>12 DEF WritevStep
  <2>2. CASE ~r.ok
    BY <2>1, <2>2 DEF ReturnsOnly, Returns, GatherInv, Calling
  <2>3. CASE r.ok
    <3>1. PICK count \in Nat : count = r.value /\ count <= moved
      BY <1>1, <2>3, HostAnswer
    <3>2. count <= iov_len /\ in_window(iov_base, count)
      BY <1>1, <1>12, <3>1, InWindowPrefix
    <3>3. /\ Starts(slice(iov_base, count), vector_bytes(index + 1))
          /\ count = iov_len => slice(iov_base, count) = vector_bytes(index + 1)
      BY <1>1, <3>2, VectorSlice
    <3>4. slice(iov_base, count) \in Seq(S)
      <4>1. slice(iov_base, count) \in Seq({0, 1})
        BY <1>1, <3>2, SliceType
      <4> QED
        BY <4>1
    <3>5. sent' = sent \o slice(iov_base, count) /\ VectorDone(count) /\ mem' = mem
      BY <2>1, <2>3, <3>1
    <3>6. IsPrefix(sent', FirstOf(v, n))
      <4>1. Starts(sent', FirstOf(v, index + 1))
        <5>1. Starts(sent \o slice(iov_base, count), sent \o vector_bytes(index + 1))
          <6> HIDE DEF S
          <6> QED
            BY <1>7, <3>3, <3>4, StartsFacts
        <5> QED
          BY <1>5, <3>5, <5>1
      <4>2. sent' \in Seq(S)
        BY <1>7, <3>4, <3>5
      <4>3. Starts(sent', FirstOf(v, n))
        BY <1>7, <4>1, <4>2, StartsFacts
      <4> QED
        BY <1>7, <4>2, <4>3, StartsFacts
    <3>7. GatherInv'
      <4>1. CASE is_short(count)
        BY <3>5, <4>1 DEF VectorDone, Returns, GatherInv, Calling
      <4>2. CASE ~is_short(count)
        <5>1. count = iov_len
          BY <1>1, <3>2, <4>2 DEF is_short
        <5>2. index' = index + 1 /\ regs' = regs
          BY <3>5, <4>2 DEF VectorDone
        <5> QED
          BY <1>9, <3>3, <3>5, <5>1, <5>2
      <4> QED
        BY <4>1, <4>2
    <3> QED
      BY <1>3, <3>6, <3>7 DEF v
  <2> QED
    BY <2>2, <2>3
<1> QED
  BY <1>10, <1>11, <1>12

\* No other step is inside a writev and stays there, or hands the host a byte
\* of one.
LEMMA OthersGather ==
    ASSUME ShimInv, GatherInv, ShimNext, ~WritevStep
    PROVE  GatherInv' /\ (Calling(WRITEV) => sent' = sent)
<1>1. ASSUME NEW value, Returns(value) PROVE phase' = "Loop"
  BY <1>1 DEF Returns
<1>2. CASE Simple \/ Unhandled \/ Brk \/ Mmap \/ Openat \/ VectorsEnd
  BY <1>1, <1>2 DEF Simple, Unhandled, Brk, Mmap, Openat, VectorsEnd, ReturnsOnly, GatherInv, Calling
<1>3. CASE Affinity \/ ClockGettime \/ Fstat \/ Uname \/ Getrandom
  BY <1>1, <1>3 DEF Affinity, ClockGettime, Fstat, Uname, Getrandom, WritesStruct, ReturnsOnly,
                    GatherInv, Calling
<1>4. CASE Write
  BY <1>1, <1>4 DEF Write, ReturnsOnly, GatherInv, Calling, WRITE, WRITEV
<1>5. CASE Read
  BY <1>1, <1>5 DEF Read, ReturnsOnly, GatherInv, Calling, READ, WRITEV
<1>6. CASE ReadvStep
  <2>1. number = READV /\ READV # WRITEV
    BY <1>6 DEF ReadvStep, Calling, READV, WRITEV
  <2>2. phase' = "Loop" \/ number' = number
    BY <1>1, <1>6 DEF ReadvStep, ReturnsOnly, VectorDone, number
  <2> QED
    BY <2>1, <2>2 DEF GatherInv, Calling
<1>7. CASE Exit \/ EnterGuest \/ OutOfBudget \/ GuestTrap \/ \E b \in ShimBudgets : ShimRun(b)
  BY <1>7 DEF Exit, EnterGuest, OutOfBudget, GuestTrap, ShimRun, ReturnWith, ioVars, GatherInv, Calling
<1>8. CASE \E s \in Setups, pc \in GuestPcs : GuestRetire(s, pc)
  BY <1>8 DEF GuestRetire, Executing, GatherInv, Calling
<1>9. CASE GuestSvc
  <2>1. phase = "Guest" /\ index' = 0 /\ sent' = <<>> /\ regs' = regs
    BY <1>9 DEF GuestSvc, Executing, guestVars
  <2>2. args(2)' \in Nat
    BY <2>1, RegisterTypes, WordIsInt DEF ShimInv, args
  <2> QED
    BY <2>1, <2>2, FirstOfNone DEF GatherInv, Calling
<1> QED
  BY <1>2, <1>3, <1>4, <1>5, <1>6, <1>7, <1>8, <1>9 DEF ShimNext, Progress, Service, Guest

\* writev hands the host a prefix of the bytes its vectors name, in order, with
\* none skipped or repeated, whatever the host takes of each vector and however
\* long they are (shim/dispatch.rs, writev).
THEOREM WritevSendsItsGather == ShimSpec => SentIsGatherPrefix
<1>1. ShimInit => GatherInv
  BY DEF ShimInit, GatherInv, Calling
<1>2. ShimInv /\ GatherInv /\ [ShimNext]_shimVars => GatherInv'
  <2> SUFFICES ASSUME ShimInv, GatherInv, [ShimNext]_shimVars PROVE GatherInv'
    OBVIOUS
  <2>1. CASE UNCHANGED shimVars
    <3>1. \A i \in 1 .. args(2) : vector_bytes(i)' = vector_bytes(i)
      BY <2>1 DEF shimVars, guestVars, vector_bytes, args
    <3> QED
      BY <2>1, <3>1 DEF shimVars, guestVars, loopVars, ioVars, GatherInv, Calling, Vectors, args, number
  <2> QED
    BY <2>1, WritevGathers, OthersGather
<1>3. ShimInv /\ GatherInv /\ [ShimNext]_shimVars
          => [Calling(WRITEV) /\ sent' # sent => IsPrefix(sent', FlattenSeq(Vectors))]_shimVars
  BY WritevGathers, OthersGather
<1> QED
  BY <1>1, <1>2, <1>3, ShimInvariant, PTL DEF SentIsGatherPrefix, ShimSpec
=============================================================================
