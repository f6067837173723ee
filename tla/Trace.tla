------------------------------- MODULE Trace -------------------------------
(***************************************************************************)
(* The trace stream: which register deltas a block record carries          *)
(* (trace/sink.rs deltas_between, reg.rs trace_reg_id) and what a reader   *)
(* of the stream reconstructs from them (tests/differ/compare.mjs,         *)
(* RegisterState).                                                         *)
(***************************************************************************)
EXTENDS Isa, FiniteSets

CONSTANT MAX_DELTAS_PER_BLOCK   \* DeltaBuffer's length

\* trace_reg_id.
ID_SP     == 31
ID_PC     == 32
ID_PSTATE == 33
ID_FPCR   == 34
ID_FPSR   == 35
vec_lo(n) == 64 + 2 * n
vec_hi(n) == 64 + 2 * n + 1
TraceIds  == XRegs \cup (31 .. 35) \cup {vec_lo(n) : n \in VRegs} \cup {vec_hi(n) : n \in VRegs}

\* DeltaBuffer::push drops what does not fit; no reachable diff overflows it.
ASSUME TraceAssumption == /\ MAX_DELTAS_PER_BLOCK \in Nat
                          /\ Cardinality(TraceIds) <= MAX_DELTAS_PER_BLOCK

\* The value a register file shows under each trace id.  PSTATE's word is NZCV:
\* its other fields are constant at EL0.
TraceMap(regs) ==
    [id \in TraceIds |->
        CASE id \in XRegs     -> regs.x[id]
          [] id = ID_SP       -> regs.sp
          [] id = ID_PC       -> regs.pc
          [] id = ID_PSTATE   -> to_bits(regs.nzcv)
          [] id = ID_FPCR     -> regs.fpcr
          [] id = ID_FPSR     -> regs.fpsr
          [] OTHER            -> regs.v[(id - 64) \div 2][1 + (id % 2)]]

\* Cpu::previous, an Option<RegFile>: the registers as of the last block record.
ZeroRegs   == [x |-> [r \in XRegs |-> 0], sp |-> 0, pc |-> 0, v |-> [r \in VRegs |-> <<0, 0>>],
               nzcv |-> [n |-> FALSE, z |-> FALSE, c |-> FALSE, v |-> FALSE], fpcr |-> 0, fpsr |-> 0]
None       == [known |-> FALSE, regs |-> ZeroRegs]
Some(regs) == [known |-> TRUE, regs |-> regs]
Shadow     == [known : BOOLEAN, regs : RegFile]

\* Mutant: only the low half of a vector register is compared.
Changed_low_half_only(previous, regs) ==
    IF ~previous.known THEN TraceIds
    ELSE {id \in TraceIds :
            IF id < 64 THEN TraceMap(previous.regs)[id] # TraceMap(regs)[id]
            ELSE previous.regs.v[(id - 64) \div 2][1] # regs.v[(id - 64) \div 2][1]}

\* The ids deltas_between emits.  Both halves of a vector register are emitted
\* when either differs.  DeltaBuffer::push never finds its array full: there is
\* room for all of the code's 100 ids (TraceAssumption).
Changed(previous, regs) ==
    IF ~previous.known THEN TraceIds
    ELSE {id \in TraceIds :
            IF id < 64 THEN TraceMap(previous.regs)[id] # TraceMap(regs)[id]
            ELSE previous.regs.v[(id - 64) \div 2] # regs.v[(id - 64) \div 2]}

deltas_between(previous, regs) == [id \in Changed(previous, regs) |-> TraceMap(regs)[id]]

\* The differ's reconstruction: a map that every delta overwrites, and that an
\* exception record overwrites whole.  An id never seen reads as zero.
EmptyState == [id \in TraceIds |-> 0]
applyDeltas(state, deltas) ==
    [id \in TraceIds |-> IF id \in DOMAIN deltas THEN deltas[id] ELSE state[id]]
applyException(regs) == TraceMap(regs)
=============================================================================
