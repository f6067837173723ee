-------------------------------- MODULE Cdt --------------------------------
(***************************************************************************)
(* The CDT v1 trace file: the encoding both producers write                *)
(* (crates/core/src/trace/format.rs and writer.rs,                         *)
(* tests/qemu-plugin/cdt_format.h and coracle_trace.c) and the reader      *)
(* (tests/differ/reader.mjs, cdt.mjs).                                     *)
(*                                                                         *)
(* A file is a sequence of cells of 8 bytes; every cell is a number, so    *)
(* that a reader that loses its place reads some number.  Bytes past the   *)
(* last whole cell are never read: the loop of loadTrace stops before      *)
(* them.                                                                   *)
(***************************************************************************)
EXTENDS Integers, Sequences, SequencesExt

CONSTANTS NUM_GPR, NUM_VREG, NUM_SYSREG,   \* 31, 32 and 20 in the code
          FLAGS,                           \* values of the prologue's flags byte
          LENGTHS                          \* values of its length field, in cells

\* Register ids (enum cdt_reg_id, RegId).
SP       == 31
PC       == 32
PSTATE   == 33
FPCR     == 34
FPSR     == 35
V_BASE   == 64
SYS_BASE == 256
GprIds   == 0 .. NUM_GPR - 1
VecIds   == V_BASE .. V_BASE + 2 * NUM_VREG - 1
SysIds   == SYS_BASE .. SYS_BASE + NUM_SYSREG - 1
CoreIds  == GprIds \cup {SP, PC, PSTATE}
FpIds    == {FPCR, FPSR} \cup VecIds
Ids      == CoreIds \cup FpIds \cup SysIds

\* The order of the dense state an exception record carries.
StateIds == [n \in 1 .. NUM_GPR |-> n - 1] \o <<SP, PC, PSTATE>>
            \o [n \in 1 .. NUM_SYSREG |-> SYS_BASE + n - 1] \o <<FPCR, FPSR>>
            \o [n \in 1 .. 2 * NUM_VREG |-> V_BASE + n - 1]

BLOCK     == 1
EXCEPTION == 2
MARKER    == 3
END       == 4
TRACE_START == 1

PRECISE_FP  == 1
HAS_VREGS   == 2
HAS_SYSREGS == 4
BLOCK_DELTAS == 8

MAGIC          == 77
FORMAT_VERSION == 1
HEADER         == 4      \* cells of the header, the producer's name left out
BLOCK_PREFIX   == 4

ASSUME CdtAssumption == /\ NUM_GPR \in 1 .. 31
                        /\ NUM_VREG \in 1 .. 32
                        /\ NUM_SYSREG \in Nat
                        /\ FLAGS \in Nat
                        /\ LENGTHS \in Nat
                        /\ Len(StateIds) < FLAGS
                        /\ BLOCK_PREFIX + 2 * FLAGS <= LENGTHS

-----------------------------------------------------------------------------
(* Writing.  The prologue's fields are cut to their widths.                *)

prologue(type, flags, length) == type + 8 * ((flags % FLAGS) + FLAGS * (length % LENGTHS))
type_of(cell)   == cell % 8
flags_of(cell)  == (cell \div 8) % FLAGS
length_of(cell) == cell \div (8 * FLAGS)

file_header(flags, feature) == <<MAGIC, FORMAT_VERSION, flags, feature>>

\* A record as the reader returns it; deltas are a sequence of [regId, value].
Block(pc, icount, n_insns, deltas) ==
    [type |-> BLOCK, pc |-> pc, icount |-> icount, nInsns |-> n_insns, deltas |-> deltas]
Exception(icount, from_pc, to_pc, discon, state) ==
    [type |-> EXCEPTION, icount |-> icount, fromPc |-> from_pc, toPc |-> to_pc,
     disconType |-> discon, state |-> state]
Marker(icount, kind, value) == [type |-> MARKER, icount |-> icount, kind |-> kind, value |-> value]
End(icount, reason) == [type |-> END, icount |-> icount, reason |-> reason]

\* Mutant: the length counts the deltas and not the prefix.
block_length_deltas_only(deltas) == 1 + 2 * Len(deltas)

block_length(deltas) == BLOCK_PREFIX + 2 * Len(deltas)

encode(r) ==
    CASE r.type = BLOCK ->
            <<prologue(BLOCK, Len(r.deltas), block_length(r.deltas)), r.pc, r.icount, r.nInsns>>
            \o FlattenSeq([n \in DOMAIN r.deltas |-> <<r.deltas[n].regId, r.deltas[n].value>>])
      [] r.type = EXCEPTION ->
            <<prologue(EXCEPTION, 0, 5 + Len(StateIds)), r.icount, r.fromPc, r.toPc, r.disconType>>
            \o [n \in DOMAIN StateIds |-> r.state[StateIds[n]]]
      [] r.type = MARKER -> <<prologue(MARKER, 0, 4), r.icount, r.kind, r.value>>
      [] r.type = END    -> <<prologue(END, 0, 3), r.icount, r.reason>>

-----------------------------------------------------------------------------
(* Reading.                                                                *)

\* Cells that readRecord touches; a field past the end of the file throws.
cells_read(cell) == CASE type_of(cell) = BLOCK     -> BLOCK_PREFIX + 2 * flags_of(cell)
                      [] type_of(cell) = EXCEPTION -> 5 + Len(StateIds)
                      [] type_of(cell) = MARKER    -> 4
                      [] type_of(cell) = END       -> 3
                      [] OTHER                     -> 1

readBlock(file, at) ==
    Block(file[at + 1], file[at + 2], file[at + 3],
          [n \in 1 .. flags_of(file[at]) |-> [regId |-> file[at + BLOCK_PREFIX + 2 * (n - 1)],
                                              value |-> file[at + BLOCK_PREFIX + 2 * (n - 1) + 1]]])

readException(file, at) ==
    Exception(file[at + 1], file[at + 2], file[at + 3], file[at + 4],
              [id \in Ids |-> file[at + 4 + CHOOSE n \in DOMAIN StateIds : StateIds[n] = id]])

readRecord(file, at) ==
    CASE type_of(file[at]) = BLOCK     -> readBlock(file, at)
      [] type_of(file[at]) = EXCEPTION -> readException(file, at)
      [] type_of(file[at]) = MARKER    -> Marker(file[at + 1], file[at + 2], file[at + 3])
      [] type_of(file[at]) = END       -> End(file[at + 1], file[at + 2])
      [] OTHER                         -> [type |-> type_of(file[at])]

is_whole(file, at) == /\ length_of(file[at]) >= 1
                      /\ at - 1 + cells_read(file[at]) <= Len(file)
                      /\ at - 1 + length_of(file[at]) <= Len(file)

TraceFormatError == [ok |-> FALSE]

loadTrace(file) ==
    LET from[at \in HEADER + 1 .. Len(file) + 1] ==
            IF at > Len(file) THEN [ok |-> TRUE, flags |-> file[3], feature |-> file[4], records |-> <<>>]
            ELSE IF ~is_whole(file, at) THEN TraceFormatError
            ELSE LET rest == from[at + length_of(file[at])]
                 IN  IF rest.ok THEN [rest EXCEPT !.records = <<readRecord(file, at)>> \o @] ELSE rest
    IN  IF Len(file) >= HEADER /\ file[1] = MAGIC /\ file[2] = FORMAT_VERSION
        THEN from[HEADER + 1]
        ELSE TraceFormatError

\* cdt.mjs is-complete: the trace is readable and its last record is an END.
is_complete(file) == LET trace == loadTrace(file)
                     IN  trace.ok /\ trace.records # <<>> /\ Last(trace.records).type = END
=============================================================================
