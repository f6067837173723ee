----------------------------- MODULE CpuProofs -----------------------------
(***************************************************************************)
(* What is proved of the vCPU for every memory size, register set, decode  *)
(* table, cache size, trap log capacity and host.  The inductive invariant *)
(* is the type invariant, the coherence of the decode cache (without it a  *)
(* step need not execute the word in memory) and the agreement of the      *)
(* shadow registers with the differ's reconstruction.                      *)
(***************************************************************************)
EXTENDS Cpu, IsaProofs, WellFoundedInduction

IInv == TypeOK /\ CacheCoherent /\ ShadowIsReplay

TrapLogType == [entries : Seq([encoding : Word, count : Nat]), dropped : Nat, total : Nat]
CacheType   == [tags : [Slots -> Encoding], entries : [Slots -> Instruction],
                hits : Nat, misses : Nat]

(***************************************************************************)
(* The decode cache.                                                       *)
(***************************************************************************)
LEMMA SlotType ==
    ASSUME NEW pc \in Word
    PROVE  slot(pc) \in Slots
<1>1. pc \div 4 \in Nat
  BY DEF Word
<1>2. DECODE_CACHE_ENTRIES \in Nat /\ DECODE_CACHE_ENTRIES > 0
  BY CpuAssumption
<1> QED
  BY <1>1, <1>2 DEF slot, Slots

LEMMA EmptyTagDecodes ==
    EMPTY_TAG \in Encoding /\ Decode \in [Encoding -> Instruction]
  BY IsaAssumption DEF EMPTY_TAG, Encoding

\* Whatever the cache answers is what decoding the word afresh would answer.
LEMMA DecodedIsDecode ==
    ASSUME CacheCoherent, NEW pc \in Word, NEW e \in Encoding
    PROVE  decoded(cache, pc, e) = Decode[e]
  BY SlotType DEF CacheCoherent, decoded, is_hit

LEMMA LookedUpKeeps ==
    ASSUME cache \in CacheType, CacheCoherent, NEW pc \in Word, NEW e \in Encoding,
           cache' = looked_up(cache, pc, e)
    PROVE  cache' \in CacheType /\ CacheCoherent'
<1>1. slot(pc) \in Slots /\ Decode[e] \in Instruction
  BY SlotType, EmptyTagDecodes
<1>2. CASE is_hit(cache, pc, e)
  BY <1>1, <1>2 DEF looked_up, CacheType, CacheCoherent
<1>3. CASE ~is_hit(cache, pc, e)
  <2>1. cache' = [cache EXCEPT !.misses = @ + 1, !.tags[slot(pc)] = e,
                               !.entries[slot(pc)] = Decode[e]]
    BY <1>3 DEF looked_up
  <2> DEFINE tags    == [cache.tags EXCEPT ![slot(pc)] = e]
             entries == [cache.entries EXCEPT ![slot(pc)] = Decode[e]]
  <2>2. /\ cache.tags \in [Slots -> Encoding] /\ cache.entries \in [Slots -> Instruction]
        /\ cache.misses + 1 \in Nat /\ cache.hits \in Nat
    BY DEF CacheType
  <2>3. tags \in [Slots -> Encoding] /\ entries \in [Slots -> Instruction]
    BY <1>1, <2>2
  <2>4. cache' = [tags |-> tags, entries |-> entries, hits |-> cache.hits,
                  misses |-> cache.misses + 1]
    BY <2>1 DEF CacheType
  <2>5. \A s \in Slots : tags[s] # EMPTY_TAG => entries[s] = Decode[tags[s]]
    BY <1>1, <2>2 DEF CacheCoherent
  <2> HIDE DEF tags, entries
  <2>6. cache' \in CacheType
    BY <2>2, <2>3, <2>4 DEF CacheType
  <2> QED
    BY <2>4, <2>5, <2>6 DEF CacheCoherent
<1> QED
  BY <1>2, <1>3

(***************************************************************************)
(* The trap log.                                                           *)
(***************************************************************************)
LEMMA RecordTrapType ==
    ASSUME NEW log \in TrapLogType, NEW trap \in Trap
    PROVE  record_trap(log, trap) \in TrapLogType
<1> DEFINE E      == [encoding : Word, count : Nat]
           e      == trap.info
           old    == log.entries
           log1   == [log EXCEPT !.total = @ + 1]
           bumped == [i \in DOMAIN old |->
                        IF i \in find(log, e) THEN [old[i] EXCEPT !.count = @ + 1] ELSE old[i]]
           more   == Append(old, [encoding |-> e, count |-> 1])
<1>1. e \in Word /\ [encoding |-> e, count |-> 1] \in E
  BY DEF Trap
<1>2. old \in Seq(E) /\ log.dropped \in Nat /\ log.total \in Nat
  BY DEF TrapLogType
<1>3. log1 = [entries |-> old, dropped |-> log.dropped, total |-> log.total + 1]
  BY DEF TrapLogType
<1>4. \A x \in E : [x EXCEPT !.count = @ + 1] \in E
  OBVIOUS
<1> HIDE DEF E, old, e
<1>5. bumped \in Seq(E)
  <2>1. Len(old) \in Nat /\ DOMAIN old = 1 .. Len(old) /\ \A i \in 1 .. Len(old) : old[i] \in E
    BY <1>2
  <2>2. bumped \in [1 .. Len(old) -> E]
    BY <1>4, <2>1
  <2> QED
    BY <2>1, <2>2
<1>6. more \in Seq(E)
  BY <1>1, <1>2
<1> HIDE DEF bumped, more, log1
<1>7. /\ [log1 EXCEPT !.entries = bumped]
          = [entries |-> bumped, dropped |-> log.dropped, total |-> log.total + 1]
      /\ [log1 EXCEPT !.dropped = @ + 1]
          = [entries |-> old, dropped |-> log.dropped + 1, total |-> log.total + 1]
      /\ [log1 EXCEPT !.entries = more]
          = [entries |-> more, dropped |-> log.dropped, total |-> log.total + 1]
  BY <1>3
<1>8. /\ [log1 EXCEPT !.entries = bumped] \in TrapLogType
      /\ [log1 EXCEPT !.dropped = @ + 1] \in TrapLogType
      /\ [log1 EXCEPT !.entries = more] \in TrapLogType
  <2>1. TrapLogType = [entries : Seq(E), dropped : Nat, total : Nat]
    BY DEF TrapLogType, E
  <2> QED
    BY <1>2, <1>5, <1>6, <1>7, <2>1
<1>9. record(log, e) \in {[log1 EXCEPT !.entries = bumped], [log1 EXCEPT !.dropped = @ + 1],
                          [log1 EXCEPT !.entries = more]}
  <2>1. log1.entries = old
    BY <1>3
  <2> QED
    BY <2>1 DEF record, bumped, more, log1, old
<1> QED
  BY <1>8, <1>9 DEF record_trap, e

(***************************************************************************)
(* The trace.                                                              *)
(***************************************************************************)
LEMMA TraceMapType ==
    ASSUME NEW rg \in RegFile
    PROVE  TraceMap(rg) \in [TraceIds -> Word]
<1>1. SUFFICES ASSUME NEW id \in TraceIds
               PROVE  TraceMap(rg)[id] \in Word
  BY DEF TraceMap
<1>2. CASE id \in XRegs
  BY <1>2, IsaAssumption
     DEF TraceMap, RegFile, ID_SP, ID_PC, ID_PSTATE, ID_FPCR, ID_FPSR
<1>3. CASE id \in 31 .. 35
  <2>1. to_bits(rg.nzcv) \in Word
    BY DEF to_bits, Word
  <2> QED
    BY <1>3, <2>1, IsaAssumption
       DEF TraceMap, RegFile, ID_SP, ID_PC, ID_PSTATE, ID_FPCR, ID_FPSR
<1>4. CASE id >= 64
  <2>1. PICK n \in VRegs : id = vec_lo(n) \/ id = vec_hi(n)
    <3>1. id \notin 0 .. 30 /\ id \notin 31 .. 35
      BY <1>4
    <3>2. id \notin XRegs
      BY <3>1, IsaAssumption, Zenon
    <3>3. id \in {vec_lo(n) : n \in VRegs} \cup {vec_hi(n) : n \in VRegs}
      BY <3>1, <3>2, Zenon DEF TraceIds
    <3> QED
      BY <3>3, Zenon
  <2>2. n \in Int /\ (id - 64) \div 2 = n /\ 1 + (id % 2) \in 1 .. 2
    BY <2>1, IsaAssumption DEF vec_lo, vec_hi
  <2>3. rg.v[n] \in Word \X Word
    BY DEF RegFile
  <2>4. TraceMap(rg)[id] = rg.v[(id - 64) \div 2][1 + (id % 2)]
    BY <1>4, IsaAssumption DEF TraceMap, ID_SP, ID_PC, ID_PSTATE, ID_FPCR, ID_FPSR
  <2> QED
    BY <2>2, <2>3, <2>4
<1>5. id \in XRegs \/ id \in 31 .. 35 \/ id >= 64
  BY IsaAssumption DEF TraceIds, vec_lo, vec_hi
<1> QED
  BY <1>2, <1>3, <1>4, <1>5

\* deltas_between leaves out nothing that changed: applied to what the shadow
\* shows they give what the registers show, and without a shadow they are total.
LEMMA DeltasReplay ==
    ASSUME NEW prev, NEW rg, NEW state,
           prev.known => state = TraceMap(prev.regs)
    PROVE  applyDeltas(state, deltas_between(prev, rg)) = TraceMap(rg)
<1> DEFINE d == deltas_between(prev, rg)
<1>1. DOMAIN d = Changed(prev, rg) /\ \A id \in Changed(prev, rg) : d[id] = TraceMap(rg)[id]
  BY DEF deltas_between
<1> HIDE DEF d
<1>2. ASSUME NEW id \in TraceIds
      PROVE  (IF id \in DOMAIN d THEN d[id] ELSE state[id]) = TraceMap(rg)[id]
  <2>1. CASE id \in Changed(prev, rg)
    BY <1>1, <2>1
  <2>2. CASE id \notin Changed(prev, rg)
    <3>1. prev.known /\ state[id] = TraceMap(prev.regs)[id]
      BY <2>2 DEF Changed
    <3>2. CASE id < 64
      BY <2>2, <1>1, <3>1, <3>2 DEF Changed
    <3>3. CASE ~(id < 64)
      <4>1. prev.regs.v[(id - 64) \div 2] = rg.v[(id - 64) \div 2]
        BY <2>2, <3>1, <3>3 DEF Changed
      <4>2. id \notin XRegs /\ id \notin {31, 32, 33, 34, 35}
        BY <3>3, IsaAssumption DEF TraceIds
      <4>3. /\ TraceMap(prev.regs)[id] = prev.regs.v[(id - 64) \div 2][1 + (id % 2)]
            /\ TraceMap(rg)[id] = rg.v[(id - 64) \div 2][1 + (id % 2)]
        BY <4>2 DEF TraceMap, ID_SP, ID_PC, ID_PSTATE, ID_FPCR, ID_FPSR
      <4> QED
        BY <1>1, <2>2, <3>1, <4>1, <4>3
    <3> QED
      BY <3>2, <3>3
  <2> QED
    BY <2>1, <2>2
<1> QED
  BY <1>2 DEF applyDeltas, TraceMap, d

\* on_block leaves the reader with the registers entering the block.
LEMMA OnBlockReplays ==
    ASSUME ShadowIsReplay, on_block, ENABLED_SINK
    PROVE  /\ replay' = TraceMap(regs)
           /\ record_out' = [kind |-> "Block", pc |-> regs.pc, icount |-> icount]
           /\ previous' = Some(regs)
<1>1. previous.known => replay = TraceMap(previous.regs)
  BY DEF ShadowIsReplay
<1>2. applyDeltas(replay, deltas_between(previous, regs)) = TraceMap(regs)
  BY <1>1, DeltasReplay
<1> QED
  BY <1>2 DEF on_block

\* The part of TypeOK that on_block may disturb.
TraceTypeOK ==
    /\ previous \in Shadow
    /\ replay \in [TraceIds -> Word]
    /\ record_out \in [kind : {"Start", "Block", "Exception"}, pc : Word, icount : Nat]

LEMMA OnBlockKeeps ==
    ASSUME IInv, on_block
    PROVE  TraceTypeOK' /\ ShadowIsReplay'
<1>1. regs \in RegFile /\ icount \in Nat /\ TraceTypeOK /\ ShadowIsReplay
  BY DEF IInv, TypeOK, TraceTypeOK
<1>2. CASE ENABLED_SINK
  <2>1. /\ replay' = TraceMap(regs)
        /\ record_out' = [kind |-> "Block", pc |-> regs.pc, icount |-> icount]
        /\ previous' = Some(regs)
    BY <1>1, <1>2, OnBlockReplays
  <2>2. regs.pc \in Word /\ TraceMap(regs) \in [TraceIds -> Word]
    BY <1>1, TraceMapType DEF RegFile
  <2>3. previous' \in Shadow /\ previous'.regs = regs
    BY <1>1, <2>1 DEF Some, Shadow
  <2> QED
    BY <1>1, <2>1, <2>2, <2>3 DEF TraceTypeOK, ShadowIsReplay
<1>3. CASE ~ENABLED_SINK
  <2>1. UNCHANGED <<replay, record_out, previous>>
    BY <1>3 DEF on_block
  <2> QED
    BY <1>1, <2>1 DEF TraceTypeOK, ShadowIsReplay
<1> QED
  BY <1>2, <1>3

(***************************************************************************)
(* The step.                                                               *)
(***************************************************************************)
\* A step whose fetch succeeds executes the instruction that memory spells.
LEMMA StepFacts ==
    ASSUME IInv, in_window(regs.pc, INSN_BYTES)
    PROVE  /\ regs \in RegFile /\ mem \in Memory /\ regs.pc \in Word
           /\ fetched \in Encoding /\ insn = Decode[fetched] /\ insn \in Instruction
           /\ Sound(outcome, regs, mem, insn, regs.pc)
           /\ advanced(outcome, regs.pc) \in RegFile
<1>1. regs \in RegFile /\ mem \in Memory /\ regs.pc \in Word /\ CacheCoherent
  BY DEF IInv, TypeOK, RegFile
<1>2. fetched \in Encoding
  BY <1>1, FetchType DEF fetched
<1>3. insn = Decode[fetched] /\ insn \in Instruction
  BY <1>1, <1>2, DecodedIsDecode, EmptyTagDecodes DEF insn
<1>4. Sound(outcome, regs, mem, insn, regs.pc)
  BY <1>1, <1>3, ExecuteSound DEF outcome
<1>5. advanced(outcome, regs.pc) \in RegFile
  BY <1>1, <1>3, AdvancedType DEF outcome
<1> QED
  BY <1>1, <1>2, <1>3, <1>4, <1>5

LEMMA NoneType == None \in Shadow /\ None.known = FALSE
<1>1. ZeroRegs \in RegFile
  BY DEF ZeroRegs, RegFile, Word, Nzcv
<1> QED
  BY <1>1 DEF None, Shadow

LEMMA InitIInv == Init => IInv
<1> SUFFICES ASSUME Init PROVE IInv
  OBVIOUS
<1>1. regs \in RegFile /\ mem \in Memory
  BY CpuAssumption DEF Init
<1>2. cache \in CacheType /\ CacheCoherent
  <2>1. /\ cache.tags = [s \in Slots |-> EMPTY_TAG]
        /\ cache.entries = [s \in Slots |-> Decode[EMPTY_TAG]]
        /\ cache = [tags |-> cache.tags, entries |-> cache.entries, hits |-> 0, misses |-> 0]
    BY DEF Init, EmptyCache
  <2>2. Decode[EMPTY_TAG] \in Instruction
    BY EmptyTagDecodes
  <2>3. cache.tags \in [Slots -> Encoding] /\ cache.entries \in [Slots -> Instruction]
    BY <2>1, <2>2, EmptyTagDecodes
  <2> QED
    BY <2>1, <2>3 DEF CacheType, CacheCoherent
<1>3. icount \in Nat /\ left \in Nat /\ stop \in Trap \cup {Running, BudgetExhausted}
  BY DEF Init
<1>4. trap_log \in TrapLogType
  BY DEF Init, EmptyLog, TrapLogType
<1>5. previous \in Shadow /\ previous.known = FALSE
  BY NoneType DEF Init
<1>6. replay \in [TraceIds -> Word]
  BY DEF Init, EmptyState, Word
<1>7. record_out \in [kind : {"Start", "Block", "Exception"}, pc : Word, icount : Nat]
  BY DEF Init, Word
<1> QED
  BY <1>1, <1>2, <1>3, <1>4, <1>5, <1>6, <1>7
     DEF IInv, TypeOK, ShadowIsReplay, CacheType, TrapLogType

LEMMA StepRetireKeeps == IInv /\ StepRetire => IInv'
<1> SUFFICES ASSUME IInv, StepRetire PROVE IInv'
  OBVIOUS
<1>1. /\ Sound(outcome, regs, mem, insn, regs.pc) /\ advanced(outcome, regs.pc) \in RegFile
      /\ regs.pc \in Word /\ fetched \in Encoding
  BY StepFacts DEF StepRetire
<1>2. regs' \in RegFile /\ mem' \in Memory
  BY <1>1 DEF StepRetire, Sound
<1>3. cache' \in CacheType /\ CacheCoherent'
  <2>1. cache \in CacheType /\ CacheCoherent /\ cache' = looked_up(cache, regs.pc, fetched)
    BY DEF IInv, TypeOK, CacheType, StepRetire
  <2> QED
    BY <1>1, <2>1, LookedUpKeeps
<1>4. TraceTypeOK' /\ ShadowIsReplay'
  BY OnBlockKeeps DEF StepRetire
<1>5. icount' \in Nat /\ left' \in Nat /\ UNCHANGED <<trap_log, stop>>
  BY DEF StepRetire, Stepping, IInv, TypeOK
<1> QED
  BY <1>2, <1>3, <1>4, <1>5 DEF IInv, TypeOK, TraceTypeOK, CacheType

LEMMA StepTrapKeeps == IInv /\ StepTrap => IInv'
<1> SUFFICES ASSUME IInv, StepTrap PROVE IInv'
  OBVIOUS
<1>1. /\ Sound(outcome, regs, mem, insn, regs.pc)
      /\ regs.pc \in Word /\ fetched \in Encoding
  BY StepFacts DEF StepTrap
<1>2. regs' \in RegFile /\ mem' \in Memory /\ outcome.trap \in Trap
  BY <1>1 DEF StepTrap, Sound
<1>3. cache' \in CacheType /\ CacheCoherent'
  <2>1. cache \in CacheType /\ CacheCoherent /\ cache' = looked_up(cache, regs.pc, fetched)
    BY DEF IInv, TypeOK, CacheType, StepTrap
  <2> QED
    BY <1>1, <2>1, LookedUpKeeps
<1>4. TraceTypeOK' /\ ShadowIsReplay'
  BY OnBlockKeeps DEF StepTrap
<1>5. trap_log' \in TrapLogType
  <2>1. trap_log \in TrapLogType /\ trap_log' = record_trap(trap_log, outcome.trap)
    BY DEF IInv, TypeOK, TrapLogType, StepTrap
  <2> QED
    BY <1>2, <2>1, RecordTrapType
<1>6. left' \in Nat /\ stop' \in Trap /\ icount' \in Nat
  BY <1>2 DEF StepTrap, IInv, TypeOK
<1> QED
  BY <1>2, <1>3, <1>4, <1>5, <1>6 DEF IInv, TypeOK, TraceTypeOK, CacheType, TrapLogType

\* What a host step leaves alone keeps its share of the invariant.
LEMMA HostKeeps ==
    ASSUME IInv, regs' \in RegFile, mem' \in Memory, UNCHANGED <<cpuVars, left, stop>>
    PROVE  IInv'
  BY DEF IInv, TypeOK, CacheCoherent, ShadowIsReplay, cpuVars

LEMMA HostServiceType ==
    ASSUME IInv, NEW w \in HostWords, HostService(w)
    PROVE  regs' \in RegFile
<1>1. regs \in RegFile /\ 0 \in Gpr /\ w \in Word /\ regs.pc \in Word /\ INSN_BYTES \in Int
  BY IsaAssumption, CpuAssumption DEF IInv, TypeOK, Gpr, RegFile, INSN_BYTES
<1>2. write_x(regs, 0, w) \in RegFile /\ wrapping_add(regs.pc, INSN_BYTES) \in Word
  BY <1>1, WriteXType, WrappingAddType
<1> QED
  BY <1>2, SetPcType DEF HostService

LEMMA HostWriteFpType ==
    ASSUME IInv, NEW n \in VRegs, NEW w \in HostWords, HostWriteFp(n, 0, w)
    PROVE  regs' \in RegFile
<1>1. regs \in RegFile /\ w \in Word /\ 0 \in Word
  BY CpuAssumption DEF IInv, TypeOK, Word
<1>2. <<0, w>> \in Word \X Word
  BY <1>1
<1> QED
  BY <1>1, <1>2 DEF HostWriteFp, RegFile

LEMMA OnExceptionKeeps ==
    ASSUME IInv, NEW w \in HostWords, OnException(w)
    PROVE  IInv' /\ regs' \in RegFile
<1>1. regs \in RegFile /\ w \in Word
  BY CpuAssumption DEF IInv, TypeOK
<1>2. set_pc(regs, w) \in RegFile
  BY <1>1, SetPcType
<1>3. TraceTypeOK' /\ ShadowIsReplay'
  <2>1. CASE ENABLED_SINK
    <3>1. replay' \in [TraceIds -> Word]
      BY <1>2, <2>1, TraceMapType DEF OnException, exception_state, applyException
    <3>2. previous' \in Shadow /\ previous'.known = FALSE
      BY <2>1, NoneType DEF OnException
    <3>3. record_out' \in [kind : {"Start", "Block", "Exception"}, pc : Word, icount : Nat]
      BY <1>1, <2>1 DEF OnException, IInv, TypeOK
    <3> QED
      BY <3>1, <3>2, <3>3 DEF TraceTypeOK, ShadowIsReplay
  <2>2. CASE ~ENABLED_SINK
    BY <2>2 DEF OnException, IInv, TypeOK, TraceTypeOK, ShadowIsReplay
  <2> QED
    BY <2>1, <2>2
<1> QED
  BY <1>2, <1>3 DEF OnException, IInv, TypeOK, TraceTypeOK, CacheCoherent

LEMMA NextIInv == IInv /\ [Next]_vars => IInv'
<1> SUFFICES ASSUME IInv, [Next]_vars PROVE IInv'
  OBVIOUS
<1>0. regs \in RegFile /\ mem \in Memory
  BY DEF IInv, TypeOK
<1>1. ASSUME NEW b \in Budgets, Run(b) PROVE IInv'
  <2>1. b \in Nat
    BY CpuAssumption
  <2> QED
    BY <1>1, <2>1 DEF Run, IInv, TypeOK, CacheCoherent, ShadowIsReplay, cpuVars
<1>2. CASE StepFetchAbort
  <2>1. instruction_abort(regs.pc) \in Trap
    BY <1>0 DEF instruction_abort, Trap, TrapKinds, RegFile
  <2> QED
    BY <1>2, <2>1 DEF StepFetchAbort, IInv, TypeOK, CacheCoherent, ShadowIsReplay, cpuVars
<1>3. CASE StepRetire
  BY <1>3, StepRetireKeeps
<1>4. CASE StepTrap
  BY <1>4, StepTrapKeeps
<1>5. CASE Exhaust
  BY <1>5 DEF Exhaust, IInv, TypeOK, CacheCoherent, ShadowIsReplay, cpuVars
<1>6. ASSUME NEW w \in HostWords, HostService(w) PROVE IInv'
  BY <1>0, <1>6, HostServiceType, HostKeeps DEF HostService
<1>7. ASSUME NEW a \in HostCells, NEW bit \in {0, 1}, HostStore(a, bit) PROVE IInv'
  <2>1. regs' \in RegFile /\ mem' \in Memory
    BY <1>0, <1>7, CpuAssumption DEF HostStore, Memory
  <2> QED
    BY <1>7, <2>1, HostKeeps DEF HostStore
<1>8. ASSUME NEW n \in VRegs, NEW w \in HostWords, HostWriteFp(n, 0, w) PROVE IInv'
  BY <1>0, <1>8, HostWriteFpType, HostKeeps DEF HostWriteFp
<1>9. ASSUME NEW w \in HostWords, OnException(w) PROVE IInv'
  BY <1>9, OnExceptionKeeps
<1>10. CASE UNCHANGED vars
  BY <1>10 DEF vars, cpuVars, IInv, TypeOK, CacheCoherent, ShadowIsReplay
<1> QED
  BY <1>1, <1>2, <1>3, <1>4, <1>5, <1>6, <1>7, <1>8, <1>9, <1>10 DEF Next, Step

LEMMA AlwaysIInv == Spec => []IInv
  BY InitIInv, NextIInv, PTL DEF Spec

\* Every field of Cpu keeps its type in every behaviour.
THEOREM CpuTypeCorrect == Spec => []TypeOK
<1>1. IInv => TypeOK
  BY DEF IInv
<1> QED
  BY <1>1, AlwaysIInv, PTL

\* The decode cache (interp/cache.rs) never holds a decoding that is not of
\* its own tag, so self-modifying code needs no invalidation.
THEOREM DecodeCacheCoherent == Spec => []CacheCoherent
<1>1. IInv => CacheCoherent
  BY DEF IInv
<1> QED
  BY <1>1, AlwaysIInv, PTL

\* Whatever the host does between runs, the registers the vCPU remembers for
\* its next diff (Cpu::previous) are the ones the differ reconstructed.
THEOREM DifferFollowsShadow == Spec => []ShadowIsReplay
<1>1. IInv => ShadowIsReplay
  BY DEF IInv
<1> QED
  BY <1>1, AlwaysIInv, PTL

(***************************************************************************)
(* Action properties.                                                      *)
(***************************************************************************)
LEMMA StopsAreNotTraps ==
    /\ Running \notin Trap /\ BudgetExhausted \notin Trap /\ Running # BudgetExhausted
    /\ Running.kind = "Running"
    /\ "Running" \notin TrapKinds
  BY DEF Running, BudgetExhausted, Trap, TrapKinds

\* While a run is in progress only the loop moves.
LEMMA RunningMoves ==
    ASSUME Next, stop = Running
    PROVE  StepFetchAbort \/ StepRetire \/ StepTrap \/ Exhaust
<1>1. stop.kind # "SupervisorCall" /\ stop.kind \notin TrapKinds
  BY StopsAreNotTraps DEF TrapKinds
<1> QED
  BY <1>1 DEF Next, Step, Run, HostService, HostStore, HostWriteFp, OnException

LEMMA PreciseTrapStep == IInv /\ [Next]_vars => [PreciseTrap]_vars
<1> SUFFICES ASSUME IInv, Next, stop = Running, stop' \in Trap
             PROVE  /\ regs' = regs /\ mem' = mem
                    /\ stop'.pc = regs.pc /\ icount' = icount
  BY DEF PreciseTrap
<1>1. CASE StepFetchAbort
  BY <1>1 DEF StepFetchAbort, instruction_abort, cpuVars
<1>2. CASE StepRetire
  BY <1>2, StopsAreNotTraps DEF StepRetire
<1>3. CASE StepTrap
  <2>1. Sound(outcome, regs, mem, insn, regs.pc)
    BY <1>3, StepFacts DEF StepTrap
  <2> QED
    BY <1>3, <2>1 DEF StepTrap, Sound
<1>4. CASE Exhaust
  BY <1>4, StopsAreNotTraps DEF Exhaust
<1> QED
  BY <1>1, <1>2, <1>3, <1>4, RunningMoves

\* A trapping instruction (dispatch.rs: a faulting load or store, SVC, BRK, an
\* undefined encoding, a failed fetch) leaves registers, memory and icount as
\* it found them, and the trap names its PC.
THEOREM TrapsArePrecise == Spec => PreciseTraps
  BY AlwaysIInv, PreciseTrapStep, PTL DEF Spec, PreciseTraps

LEMMA BlockReplaysStep == IInv /\ [Next]_vars => [BlockReplays]_vars
<1> SUFFICES ASSUME IInv, Next, ENABLED_SINK, cache' # cache
             PROVE  /\ replay' = TraceMap(regs)
                    /\ record_out' = [kind |-> "Block", pc |-> regs.pc, icount |-> icount]
  BY DEF BlockReplays
<1>1. StepRetire \/ StepTrap
  BY DEF Next, Step, Run, Exhaust, StepFetchAbort, HostService, HostStore, HostWriteFp,
         OnException, cpuVars
<1>2. on_block /\ ShadowIsReplay
  BY <1>1 DEF StepRetire, StepTrap, IInv
<1> QED
  BY <1>2, OnBlockReplays

\* At every block record the differ holds the whole register file entering the
\* block (Cpu::step emits it before the instruction runs).
THEOREM DifferSeesEntryState == Spec => BlocksReplayEntryState
  BY AlwaysIInv, BlockReplaysStep, PTL DEF Spec, BlocksReplayEntryState

\* TrapLog::record counts a drop only for an encoding it has no entry for.
LEMMA RecordDrops ==
    ASSUME NEW log \in TrapLogType, NEW e, record(log, e).dropped > log.dropped
    PROVE  find(log, e) = {}
<1> SUFFICES ASSUME find(log, e) # {} PROVE FALSE
  OBVIOUS
<1>1. record(log, e).dropped = log.dropped /\ log.dropped \in Nat
  BY DEF record, TrapLogType
<1> QED
  BY <1>1

LEMMA DropStep == IInv /\ [Next]_vars => [DropIsUnknown]_vars
<1> SUFFICES ASSUME IInv, Next, trap_log'.dropped > trap_log.dropped
             PROVE  \A i \in DOMAIN trap_log.entries : trap_log.entries[i].encoding # fetched
  BY DEF DropIsUnknown
<1>0. trap_log \in TrapLogType /\ trap_log.dropped \in Nat
  BY DEF IInv, TypeOK, TrapLogType
<1>1. trap_log' # trap_log
  BY <1>0
<1>2. StepTrap
  BY <1>1 DEF Next, Step, Run, Exhaust, StepFetchAbort, StepRetire, HostService, HostStore,
              HostWriteFp, OnException, cpuVars
<1>3. outcome.trap.kind = "UndefinedInstruction" /\ trap_log' = record(trap_log, outcome.trap.info)
  BY <1>1, <1>2 DEF StepTrap, record_trap
<1>4. outcome.trap.info = fetched
  <2>1. /\ Sound(outcome, regs, mem, insn, regs.pc) /\ outcome.flow = "Err"
        /\ insn = Decode[fetched] /\ fetched \in Encoding
    BY <1>2, StepFacts DEF StepTrap
  <2>2. insn.encoding = fetched
    BY <2>1, IsaAssumption
  <2> QED
    BY <1>3, <2>1, <2>2 DEF Sound
<1>5. find(trap_log, fetched) = {}
  BY <1>0, <1>3, <1>4, RecordDrops
<1> QED
  BY <1>5 DEF find

\* A full trap log (trap.rs) goes on counting the encodings it knows: an
\* encounter is dropped only when the log has no entry for the word executed.
THEOREM LogDropsOnlyUnknown == Spec => DropsOnlyUnknown
  BY AlwaysIInv, DropStep, PTL DEF Spec, DropsOnlyUnknown

(***************************************************************************)
(* The trap log's accounts.  The sum over its entries is a recursive       *)
(* function, so what a step does to it is shown by induction: the least    *)
(* place at which it fails would have no predecessor.                      *)
(***************************************************************************)
LEMMA LeastPlace ==
    ASSUME NEW T \in SUBSET Nat, T # {}
    PROVE  \E x \in T : \A y \in T : x <= y
<1> DEFINE R == OpToRel(<, Nat)
<1>1. IsWellFoundedOn(R, Nat)
  BY NatLessThanWellFounded
<1>2. \A x \in Nat, y \in Nat : <<y, x>> \in R <=> y < x
  BY DEF OpToRel
<1> HIDE DEF R
<1>3. PICK x \in T : \A y \in T : ~(<<y, x>> \in R)
  BY <1>1, WFMin
<1>4. ASSUME NEW y \in T PROVE x <= y
  <2>1. x \in Nat /\ y \in Nat /\ ~(y < x)
    BY <1>2, <1>3
  <2>2. QED BY <2>1
<1>5. QED BY <1>4

CountStep(s, g, n) == IF n = 0 THEN 0 ELSE g[n - 1] + s[n].count
IsCount(s, g, n)   == g = [i \in 0 .. n |-> CountStep(s, g, i)]
Counted(s)         == CHOOSE g : IsCount(s, g, Len(s))
LogEntry           == [encoding : Word, count : Nat]

LEMMA CountExists ==
    ASSUME NEW s, NEW n \in Nat
    PROVE  \E g : IsCount(s, g, n)
<1> DEFINE P(k) == \E g : IsCount(s, g, k)
           Bad  == {k \in Nat : ~P(k)}
<1>1. P(0)
  <2> DEFINE e == [i \in 0 .. 0 |-> 0]
  <2>1. e = [i \in 0 .. 0 |-> CountStep(s, e, i)]
    BY DEF CountStep
  <2>2. IsCount(s, e, 0)
    BY <2>1 DEF IsCount
  <2>3. QED BY <2>2
<1>2. ASSUME NEW k \in Nat, P(k) PROVE P(k + 1)
  <2>1. PICK h : IsCount(s, h, k)
    BY <1>2
  <2> DEFINE e == [i \in 0 .. k + 1 |-> IF i = k + 1 THEN CountStep(s, h, k + 1) ELSE h[i]]
  <2>2. ASSUME NEW i \in 0 .. k PROVE e[i] = h[i]
    OBVIOUS
  <2>3. e[k + 1] = CountStep(s, h, k + 1)
    OBVIOUS
  <2>4. ASSUME NEW i \in 0 .. k + 1 PROVE CountStep(s, e, i) = CountStep(s, h, i)
    <3>1. i # 0 => i - 1 \in 0 .. k
      OBVIOUS
    <3>2. i # 0 => e[i - 1] = h[i - 1]
      BY <2>2, <3>1
    <3> HIDE DEF e
    <3>3. QED BY <3>2 DEF CountStep
  <2>5. ASSUME NEW i \in 0 .. k + 1 PROVE e[i] = CountStep(s, e, i)
    <3> HIDE DEF e
    <3>1. CASE i = k + 1
      BY <2>3, <2>4, <3>1
    <3>2. CASE i # k + 1
      <4>1. i \in 0 .. k
        BY <3>2
      <4>2. h[i] = CountStep(s, h, i)
        BY <4>1, <2>1 DEF IsCount
      <4>3. QED BY <4>1, <4>2, <2>2, <2>4
    <3>3. QED BY <3>1, <3>2
  <2>6. IsCount(s, e, k + 1)
    BY <2>5 DEF IsCount
  <2> HIDE DEF e
  <2>7. QED BY <2>6
<1> HIDE DEF P
<1>3. ASSUME Bad # {} PROVE FALSE
  <2>1. PICK k \in Bad : \A m \in Bad : k <= m
    <3>1. Bad \in SUBSET Nat
      OBVIOUS
    <3> HIDE DEF Bad
    <3>2. QED BY <1>3, <3>1, LeastPlace
  <2>2. k \in Nat /\ ~P(k) /\ k # 0
    BY <2>1, <1>1
  <2>3. k - 1 \in Nat /\ ~(k <= k - 1) /\ (k - 1) + 1 = k
    BY <2>2
  <2>4. P(k - 1)
    BY <2>1, <2>3
  <2>5. QED BY <2>2, <2>3, <2>4, <1>2
<1>4. P(n)
  BY <1>3
<1>5. QED BY <1>4 DEF P

LEMMA CountedSteps ==
    ASSUME NEW s \in Seq(LogEntry)
    PROVE  /\ Counted(s)[0] = 0
           /\ \A n \in 1 .. Len(s) : Counted(s)[n] = Counted(s)[n - 1] + s[n].count
<1> DEFINE g == Counted(s)
<1>1. IsCount(s, g, Len(s))
  BY CountExists DEF Counted
<1> HIDE DEF g
<1>2. ASSUME NEW n \in 0 .. Len(s) PROVE g[n] = CountStep(s, g, n)
  BY <1>1 DEF IsCount
<1>3. 0 \in 0 .. Len(s) /\ \A n \in 1 .. Len(s) : n \in 0 .. Len(s) /\ n # 0
  OBVIOUS
<1>4. QED BY <1>2, <1>3 DEF CountStep, g

\* Adding one at place p of the table adds one to every sum that includes it.
Raised(s, t, n, p) == \A i \in 1 .. n : t[i].count = s[i].count + (IF i = p THEN 1 ELSE 0)

LEMMA CountsDiffer ==
    ASSUME NEW s \in Seq(LogEntry), NEW t \in Seq(LogEntry), NEW n \in Nat, n <= Len(s), n <= Len(t),
           NEW p \in Nat \ {0}, Raised(s, t, n, p)
    PROVE  Counted(s)[n] \in Nat /\ Counted(t)[n] = Counted(s)[n] + (IF p <= n THEN 1 ELSE 0)
<1> DEFINE g    == Counted(s)
           h    == Counted(t)
           P(k) == g[k] \in Nat /\ h[k] = g[k] + (IF p <= k THEN 1 ELSE 0)
           Bad  == {k \in Nat : k <= n /\ ~P(k)}
<1>0. Len(s) \in Nat /\ Len(t) \in Nat
  OBVIOUS
<1>1. /\ g[0] = 0 /\ \A i \in 1 .. Len(s) : g[i] = g[i - 1] + s[i].count
      /\ h[0] = 0 /\ \A i \in 1 .. Len(t) : h[i] = h[i - 1] + t[i].count
  BY CountedSteps
<1> HIDE DEF g, h
<1>2. P(0)
  BY <1>1
<1>3. ASSUME NEW k \in Nat, k + 1 <= n, P(k) PROVE P(k + 1)
  <2>1. k + 1 \in 1 .. n /\ k + 1 \in 1 .. Len(s) /\ k + 1 \in 1 .. Len(t) /\ (k + 1) - 1 = k
    BY <1>0, <1>3
  <2>2. g[k + 1] = g[k] + s[k + 1].count /\ h[k + 1] = h[k] + t[k + 1].count
    BY <1>1, <2>1
  <2>3. s[k + 1] \in LogEntry
    BY <2>1
  <2>4. s[k + 1].count \in Nat
    BY <2>3 DEF LogEntry
  <2>5. t[k + 1].count = s[k + 1].count + (IF k + 1 = p THEN 1 ELSE 0)
    BY <2>1 DEF Raised
  <2>6. PICK c \in Nat : c = s[k + 1].count
    BY <2>4
  <2>7. PICK a \in Nat : a = g[k]
    BY <1>3
  <2>8. g[k + 1] = a + c /\ g[k + 1] \in Nat
    BY <2>2, <2>6, <2>7
  <2>9. h[k] = a + (IF p <= k THEN 1 ELSE 0)
    BY <1>3, <2>7
  <2>10. h[k + 1] = h[k] + (c + (IF k + 1 = p THEN 1 ELSE 0))
    BY <2>2, <2>5, <2>6
  <2>11. h[k + 1] = g[k + 1] + (IF p <= k + 1 THEN 1 ELSE 0)
    <3>1. CASE p <= k
      BY <3>1, <2>8, <2>9, <2>10
    <3>2. CASE p = k + 1
      BY <3>2, <2>8, <2>9, <2>10
    <3>3. CASE p > k + 1
      BY <3>3, <2>8, <2>9, <2>10
    <3>4. QED BY <3>1, <3>2, <3>3
  <2>12. QED BY <2>8, <2>11
<1> HIDE DEF P
<1>4. ASSUME Bad # {} PROVE FALSE
  <2>1. PICK k \in Bad : \A m \in Bad : k <= m
    <3>1. Bad \in SUBSET Nat
      OBVIOUS
    <3> HIDE DEF Bad
    <3>2. QED BY <1>4, <3>1, LeastPlace
  <2>2. k \in Nat /\ k <= n /\ ~P(k) /\ k # 0
    BY <2>1, <1>2
  <2>3. k - 1 \in Nat /\ k - 1 <= n /\ (k - 1) + 1 <= n /\ ~(k <= k - 1) /\ (k - 1) + 1 = k
    BY <2>2
  <2>4. P(k - 1)
    BY <2>1, <2>3
  <2>5. QED BY <2>2, <2>3, <2>4, <1>3
<1>5. P(n)
  BY <1>4
<1>6. QED BY <1>5 DEF P, g, h

LEMMA CountedIsNat ==
    ASSUME NEW s \in Seq(LogEntry)
    PROVE  Counted(s)[Len(s)] \in Nat
<1> DEFINE n == Len(s)
           p == n + 1
<1>1. n \in Nat /\ p \in Nat \ {0} /\ \A i \in 1 .. n : i # p /\ s[i] \in LogEntry
  OBVIOUS
<1>2. Raised(s, s, n, p)
  BY <1>1 DEF LogEntry, Raised
<1> HIDE DEF p
<1>3. QED BY <1>1, <1>2, CountsDiffer

Accounts(log) ==
    /\ \A i, j \in DOMAIN log.entries : log.entries[i].encoding = log.entries[j].encoding => i = j
    /\ Len(log.entries) <= TRAP_LOG_CAPACITY
    /\ log.dropped > 0 => Len(log.entries) = TRAP_LOG_CAPACITY
    /\ log.total = Counted(log.entries)[Len(log.entries)] + log.dropped

LEMMA RecordAccounts ==
    ASSUME NEW log \in TrapLogType, Accounts(log), NEW e \in Word
    PROVE  Accounts(record(log, e))
<1> DEFINE old    == log.entries
           L      == Len(old)
           known  == find(log, e)
           log1   == [log EXCEPT !.total = @ + 1]
           bumped == [i \in DOMAIN old |->
                        IF i \in known THEN [old[i] EXCEPT !.count = @ + 1] ELSE old[i]]
           x      == [encoding |-> e, count |-> 1]
           more   == Append(old, x)
<1>1. old \in Seq(LogEntry) /\ log.dropped \in Nat /\ log.total \in Nat
  BY DEF TrapLogType, LogEntry
<1>2. log1 = [entries |-> old, dropped |-> log.dropped, total |-> log.total + 1]
  BY DEF TrapLogType
<1>3. L \in Nat /\ DOMAIN old = 1 .. L /\ TRAP_LOG_CAPACITY \in Nat
  BY <1>1, TrapLogAssumption
<1>4. /\ \A i, j \in 1 .. L : old[i].encoding = old[j].encoding => i = j
      /\ L <= TRAP_LOG_CAPACITY
      /\ log.dropped > 0 => L = TRAP_LOG_CAPACITY
      /\ log.total = Counted(old)[L] + log.dropped
  BY <1>3 DEF Accounts
<1>5. known = {i \in 1 .. L : old[i].encoding = e}
  BY <1>3 DEF find
<1>6. /\ known # {} => record(log, e) = [entries |-> bumped, dropped |-> log.dropped, total |-> log.total + 1]
      /\ known = {} /\ L = TRAP_LOG_CAPACITY
           => record(log, e) = [entries |-> old, dropped |-> log.dropped + 1, total |-> log.total + 1]
      /\ known = {} /\ L # TRAP_LOG_CAPACITY
           => record(log, e) = [entries |-> more, dropped |-> log.dropped, total |-> log.total + 1]
  <2>1. /\ [log1 EXCEPT !.entries = bumped]
            = [entries |-> bumped, dropped |-> log.dropped, total |-> log.total + 1]
        /\ [log1 EXCEPT !.dropped = @ + 1]
            = [entries |-> old, dropped |-> log.dropped + 1, total |-> log.total + 1]
        /\ [log1 EXCEPT !.entries = more]
            = [entries |-> more, dropped |-> log.dropped, total |-> log.total + 1]
        /\ log1.entries = old
    <3> HIDE DEF bumped, more, log1
    <3>1. QED BY <1>2
  <2>2. record(log, e) = IF known # {} THEN [log1 EXCEPT !.entries = bumped]
                         ELSE IF L = TRAP_LOG_CAPACITY THEN [log1 EXCEPT !.dropped = @ + 1]
                         ELSE [log1 EXCEPT !.entries = more]
    BY <2>1 DEF record
  <2> HIDE DEF known, bumped, more, log1
  <2>3. QED BY <2>1, <2>2
<1>7. ASSUME NEW i \in 1 .. L PROVE old[i] \in LogEntry /\ old[i].count \in Nat
  <2> HIDE DEF old
  <2>1. old[i] \in LogEntry
    BY <1>1
  <2>2. QED BY <2>1 DEF LogEntry
<1> HIDE DEF known, old, more, bumped
<1>8. CASE known # {}
  <2>1. PICK p \in 1 .. L : p \in known
    BY <1>5, <1>8
  <2>2. ASSUME NEW i \in 1 .. L
        PROVE  /\ bumped[i].encoding = old[i].encoding /\ bumped[i] \in LogEntry
               /\ bumped[i].count = old[i].count + (IF i = p THEN 1 ELSE 0)
    <3>1. i \in known <=> i = p
      BY <1>4, <1>5, <2>1
    <3>2. PICK w \in Word, c \in Nat : old[i] = [encoding |-> w, count |-> c]
      BY <1>7 DEF LogEntry
    <3>3. CASE i = p
      <4>1. bumped[i] = [old[i] EXCEPT !.count = @ + 1]
        BY <3>1, <3>3, <1>3 DEF bumped
      <4>2. bumped[i] = [encoding |-> w, count |-> c + 1]
        BY <3>2, <4>1
      <4>3. QED BY <3>2, <3>3, <4>2 DEF LogEntry
    <3>4. CASE i # p
      <4>1. bumped[i] = old[i]
        BY <3>1, <3>4, <1>3 DEF bumped
      <4>2. QED BY <3>2, <3>4, <4>1, <1>7
    <3>5. QED BY <3>3, <3>4
  <2>3. DOMAIN bumped = 1 .. L
    BY <1>3 DEF bumped
  <2>4. bumped \in Seq(LogEntry) /\ Len(bumped) = L
    <3>1. bumped = [i \in 1 .. L |-> bumped[i]]
      BY <1>3 DEF bumped
    <3>2. bumped \in [1 .. L -> LogEntry]
      BY <2>2, <3>1
    <3>3. QED BY <3>2, <2>3, <1>3
  <2>5. Counted(old)[L] \in Nat /\ Counted(bumped)[L] = Counted(old)[L] + 1
    <3>1. p \in Nat \ {0} /\ p <= L /\ L <= Len(old) /\ L <= Len(bumped)
      BY <1>3, <2>4
    <3>0. Raised(old, bumped, L, p)
      BY <2>2 DEF Raised
    <3>2. Counted(old)[L] \in Nat /\ Counted(bumped)[L] = Counted(old)[L] + (IF p <= L THEN 1 ELSE 0)
      BY <1>1, <1>3, <2>4, <3>0, <3>1, CountsDiffer
    <3>3. QED BY <3>1, <3>2
  <2> DEFINE next == record(log, e)
  <2>6. next.entries = bumped /\ next.dropped = log.dropped /\ next.total = log.total + 1
    BY <1>6, <1>8
  <2>7. \A i, j \in 1 .. L : bumped[i].encoding = bumped[j].encoding => i = j
    BY <1>4, <2>2
  <2> HIDE DEF next
  <2>8. next.total = Counted(bumped)[L] + next.dropped
    <3>1. PICK sum \in Nat, dropped \in Nat : sum = Counted(old)[L] /\ dropped = log.dropped
      BY <1>1, <2>5
    <3>2. next.total = (sum + dropped) + 1 /\ Counted(bumped)[L] = sum + 1 /\ next.dropped = dropped
      BY <1>4, <2>5, <2>6, <3>1
    <3>3. QED BY <3>2
  <2>9. Accounts(next)
    BY <1>4, <2>3, <2>4, <2>6, <2>7, <2>8 DEF Accounts
  <2>10. QED BY <2>9 DEF next
<1>9. CASE known = {} /\ L = TRAP_LOG_CAPACITY
  <2> DEFINE next == record(log, e)
  <2>1. next.entries = old /\ next.dropped = log.dropped + 1 /\ next.total = log.total + 1
    BY <1>6, <1>9
  <2>2. Counted(old)[L] \in Nat
    BY <1>1, <1>3, CountedIsNat
  <2> HIDE DEF next
  <2>3. next.total = Counted(old)[L] + next.dropped
    <3>1. PICK sum \in Nat, dropped \in Nat : sum = Counted(old)[L] /\ dropped = log.dropped
      BY <1>1, <2>2
    <3>2. next.total = (sum + dropped) + 1 /\ next.dropped = dropped + 1
      BY <1>4, <2>1, <3>1
    <3>3. QED BY <3>1, <3>2
  <2>4. Accounts(next)
    BY <1>3, <1>4, <1>9, <2>1, <2>3 DEF Accounts
  <2>5. QED BY <2>4 DEF next
<1>10. CASE known = {} /\ L # TRAP_LOG_CAPACITY
  <2>1. x \in LogEntry /\ x.encoding = e /\ x.count = 1
    BY DEF LogEntry
  <2> HIDE DEF x
  <2>2. /\ more \in Seq(LogEntry) /\ Len(more) = L + 1 /\ more[L + 1] = x
        /\ \A i \in 1 .. L : more[i] = old[i]
    BY <1>1, <1>3, <2>1 DEF more
  <2>3. DOMAIN more = 1 .. L + 1
    BY <2>2
  <2>4. Counted(old)[L] \in Nat /\ Counted(more)[L] = Counted(old)[L]
    <3>1. L + 1 \in Nat \ {0} /\ L <= L + 1 /\ ~(L + 1 <= L) /\ \A i \in 1 .. L : i # L + 1
      BY <1>3
    <3>2. \A i \in 1 .. L : more[i].count = old[i].count + (IF i = L + 1 THEN 1 ELSE 0)
      BY <1>7, <2>2, <3>1
    <3> DEFINE q == L + 1
    <3>3. q \in Nat \ {0} /\ L <= Len(more) /\ L <= Len(old) /\ ~(q <= L) /\ Raised(old, more, L, q)
      BY <1>3, <2>2, <3>1, <3>2 DEF Raised
    <3> HIDE DEF q
    <3>4. Counted(old)[L] \in Nat /\ Counted(more)[L] = Counted(old)[L] + (IF q <= L THEN 1 ELSE 0)
      BY <1>1, <1>3, <2>2, <3>3, CountsDiffer
    <3>5. QED BY <3>3, <3>4
  <2>5. Counted(more)[L + 1] = Counted(old)[L] + 1
    <3>1. L + 1 \in 1 .. Len(more) /\ (L + 1) - 1 = L
      BY <1>3, <2>2
    <3>2. Counted(more)[L + 1] = Counted(more)[L] + more[L + 1].count
      BY <2>2, <3>1, CountedSteps
    <3>3. QED BY <2>1, <2>2, <2>4, <3>2
  <2> DEFINE next == record(log, e)
  <2>6. next.entries = more /\ next.dropped = log.dropped /\ next.total = log.total + 1
    BY <1>6, <1>10
  <2>7. ASSUME NEW i \in 1 .. L + 1, NEW j \in 1 .. L + 1, more[i].encoding = more[j].encoding
        PROVE  i = j
    <3>1. \A k \in 1 .. L : old[k].encoding # e
      BY <1>5, <1>10
    <3>2. \A k \in 1 .. L + 1 : k = L + 1 \/ k \in 1 .. L
      BY <1>3
    <3>3. QED BY <1>4, <2>1, <2>2, <2>7, <3>1, <3>2
  <2>8. next.total = Counted(more)[L + 1] + next.dropped
    <3>1. log.total = Counted(old)[L] + log.dropped
      BY <1>4
    <3> HIDE DEF next, L
    <3>2. QED BY <1>1, <2>4, <2>5, <2>6, <3>1
  <2>9. L + 1 <= TRAP_LOG_CAPACITY /\ ~(log.dropped > 0)
    <3>1. L <= TRAP_LOG_CAPACITY /\ L # TRAP_LOG_CAPACITY /\ ~(log.dropped > 0)
      BY <1>4, <1>10
    <3> HIDE DEF L
    <3>2. QED BY <1>3, <3>1
  <2> HIDE DEF next
  <2>10. Accounts(next)
    BY <2>2, <2>3, <2>6, <2>7, <2>8, <2>9 DEF Accounts
  <2>11. QED BY <2>10 DEF next
<1>11. QED BY <1>8, <1>9, <1>10

LEMMA LogStep == IInv /\ Accounts(trap_log) /\ [Next]_vars => Accounts(trap_log)'
<1> SUFFICES ASSUME IInv, Accounts(trap_log), [Next]_vars PROVE Accounts(trap_log)'
  OBVIOUS
<1>1. CASE StepTrap
  <2>1. trap_log \in TrapLogType /\ trap_log' = record_trap(trap_log, outcome.trap)
    BY <1>1 DEF IInv, TypeOK, TrapLogType, StepTrap
  <2>2. outcome.trap \in Trap
    BY <1>1, StepFacts DEF StepTrap, Sound
  <2>3. outcome.trap.info \in Word
    BY <2>2 DEF Trap
  <2>4. CASE outcome.trap.kind = "UndefinedInstruction"
    <3>1. trap_log' = record(trap_log, outcome.trap.info)
      BY <2>1, <2>4 DEF record_trap
    <3>2. Accounts(record(trap_log, outcome.trap.info))
      BY <2>1, <2>3, RecordAccounts
    <3>3. QED BY <3>1, <3>2
  <2>5. CASE outcome.trap.kind # "UndefinedInstruction"
    BY <2>1, <2>5 DEF record_trap
  <2>6. QED BY <2>4, <2>5
<1>2. CASE ~StepTrap
  <2>1. trap_log' = trap_log
    BY <1>2 DEF Next, Step, Run, Exhaust, StepFetchAbort, StepRetire, HostService, HostStore,
                HostWriteFp, OnException, cpuVars, vars
  <2>2. QED BY <2>1
<1>3. QED BY <1>1, <1>2

\* The trap log (trap.rs TrapLog::record) accounts for every unimplemented
\* encoding a guest reaches, whatever its capacity and however often they come.
THEOREM LogAccounts == Spec => []TrapLogAccounts
<1>1. Init => Accounts(trap_log)
  <2> SUFFICES ASSUME Init PROVE Accounts(trap_log)
    OBVIOUS
  <2>1. trap_log.entries = <<>> /\ trap_log.dropped = 0 /\ trap_log.total = 0
    BY DEF Init, EmptyLog
  <2>2. <<>> \in Seq(LogEntry) /\ Len(<<>>) = 0
    OBVIOUS
  <2>3. Counted(<<>>)[0] = 0
    BY <2>2, CountedSteps
  <2>4. QED BY <2>1, <2>2, <2>3, TrapLogAssumption DEF Accounts
<1>2. Accounts(trap_log) => TrapLogAccounts
  BY DEF Accounts, TrapLogAccounts, Counted, IsCount, CountStep
<1>3. QED BY <1>1, <1>2, AlwaysIInv, LogStep, PTL DEF Spec

(***************************************************************************)
(* Refinement.                                                             *)
(***************************************************************************)
LEMMA InitRefines == Init => M!Init
  BY CpuAssumption DEF Init, M!Init

LEMMA StepRefines == IInv /\ [Next]_vars => [M!Next]_(M!vars)
<1> SUFFICES ASSUME IInv, Next PROVE M!Next
  BY DEF vars, M!vars
<1>0. regs \in RegFile /\ mem \in Memory
  BY DEF IInv, TypeOK
<1>1. ASSUME NEW b \in Budgets, Run(b) PROVE M!Next
  BY <1>1 DEF Run, M!Next, M!Resume
<1>2. CASE StepFetchAbort
  <2>1. ~Uncached(regs, mem).retires /\ Uncached(regs, mem).trap = instruction_abort(regs.pc)
    BY <1>2 DEF Uncached, StepFetchAbort
  <2> QED
    BY <1>2, <2>1 DEF StepFetchAbort, Stepping, M!Next, M!TakeTrap
<1>3. ASSUME in_window(regs.pc, INSN_BYTES)
      PROVE  Uncached(regs, mem) =
               IF outcome.flow = "Err" THEN [retires |-> FALSE, trap |-> outcome.trap]
               ELSE [retires |-> TRUE, regs |-> advanced(outcome, regs.pc), mem |-> outcome.mem]
  <2>1. insn = Decode[read_uint(mem, regs.pc, INSN_BYTES)]
    BY <1>3, StepFacts DEF fetched
  <2> QED
    BY <1>3, <2>1 DEF Uncached, outcome
<1>4. CASE StepRetire
  BY <1>3, <1>4 DEF StepRetire, Stepping, M!Next, M!Retire
<1>5. CASE StepTrap
  <2>1. regs' = regs /\ mem' = mem
    <3>1. Sound(outcome, regs, mem, insn, regs.pc)
      BY <1>5, StepFacts DEF StepTrap
    <3> QED
      BY <1>5, <3>1 DEF StepTrap, Sound
  <2> QED
    BY <1>3, <1>5, <2>1 DEF StepTrap, Stepping, M!Next, M!TakeTrap
<1>6. CASE Exhaust
  BY <1>6 DEF Exhaust, M!Next, M!Pause
<1>7. ASSUME stop # Running, regs' \in RegFile, mem' \in Memory, UNCHANGED stop
      PROVE  M!Next
  BY <1>7 DEF M!Next, M!Host
<1>8. stop.kind \in TrapKinds => stop # Running
  BY StopsAreNotTraps
<1>9. ASSUME NEW w \in HostWords, HostService(w) PROVE M!Next
  <2>1. stop # Running
    BY <1>8, <1>9 DEF HostService, TrapKinds
  <2> QED
    BY <1>0, <1>7, <1>9, <2>1, HostServiceType DEF HostService
<1>10. ASSUME NEW a \in HostCells, NEW bit \in {0, 1}, HostStore(a, bit) PROVE M!Next
  <2>1. mem' \in Memory
    BY <1>0, <1>10, CpuAssumption DEF HostStore, Memory
  <2> QED
    BY <1>0, <1>7, <1>10, <2>1 DEF HostStore
<1>11. ASSUME NEW n \in VRegs, NEW w \in HostWords, HostWriteFp(n, 0, w) PROVE M!Next
  BY <1>0, <1>7, <1>11, HostWriteFpType DEF HostWriteFp
<1>12. ASSUME NEW w \in HostWords, OnException(w) PROVE M!Next
  BY <1>0, <1>7, <1>8, <1>12, OnExceptionKeeps DEF OnException
<1> QED
  BY <1>1, <1>2, <1>4, <1>5, <1>6, <1>9, <1>10, <1>11, <1>12 DEF Next, Step

\* The vCPU, with its decode cache, its budget, its trap log and its trace,
\* implements the plain machine that decodes the word at PC on every step.
THEOREM CpuImplementsMachine == Spec => RefinesMachine
  BY InitRefines, StepRefines, AlwaysIInv, PTL DEF Spec, RefinesMachine, M!Spec
=============================================================================
