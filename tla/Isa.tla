-------------------------------- MODULE Isa --------------------------------
(***************************************************************************)
(* What one decoded instruction does to the register file and to guest     *)
(* memory: regfile.rs, interp/memory.rs, the address computation of        *)
(* interp/fetch.rs and every arm of interp/dispatch.rs.  All of it is      *)
(* pure; Machine and Cpu make the steps.                                   *)
(*                                                                         *)
(* Scale (see Alu): one model bit is one byte, so a memory cell holds 0 or *)
(* 1, an instruction is still INSN_BYTES = 4 cells (hence 16 encodings),   *)
(* and the access sizes are still 1, 2, 4 and 8 cells of an 8-cell         *)
(* register.  Misaligned fetches, accesses that straddle the window and    *)
(* stores into code are all expressible.                                   *)
(***************************************************************************)
EXTENDS Alu

CONSTANTS
    XRegs,      \* the indices of the general-purpose registers modelled
    VRegs,      \* the indices of the vector registers modelled
    RamBase,    \* FlatMemory::base
    RamSize,    \* FlatMemory's length in cells
    Decode      \* decode::decode, a total function of the encoding

INSN_BYTES == 4
Encoding   == 0 .. 15
Ram        == RamBase .. RamBase + RamSize - 1

\* Gpr::SP and Gpr::ZR; x31 is resolved to one of them by the decoder.
SP  == 100
ZR  == 101
Gpr == XRegs \cup {SP, ZR}

Arith     == {"Add", "Sub"}
Logical   == {"And", "Orr", "Eor", "Bic", "Orn", "Eon"}
BranchImm == {"B", "Bl"}
BranchInd == {"Br", "Blr", "Ret"}
\* Udiv and Csel stand for the opcodes the decoder names and execute does not.
Ops == Arith \cup Logical \cup BranchImm \cup BranchInd
       \cup {"Nop", "Ldr", "Str", "Svc", "Brk", "Udiv", "Csel", "Unallocated"}

\* BranchCond and Pair stand for the forms an implemented opcode may carry and
\* its arm rejects: a conditional B, and a load or store with a second register.
Forms == {"RegImm", "RegShifted", "RegExtended", "Branch", "BranchCond", "BranchIndirect",
          "LoadStore", "Pair", "Imm", "None"}

\* decode::Instruction.  A field a form does not have holds any value; the decoder
\* keeps a shift under the width of its registers (DecodeContract OperandsInRange).
Instruction ==
    [encoding : Encoding, op : Ops, form : Forms, width : Widths, sets_flags : BOOLEAN,
     rd : Gpr, rn : Gpr, rm : Gpr, kind : ShiftKinds, amount : 0 .. XBits - 1,
     source_bits : SourceBits, ext_signed : BOOLEAN, imm : Word,
     mode : {"Immediate", "Register", "BaseOnly", "PcRelative"},
     writeback : {"None", "Pre", "Post"}, bytes : SourceBits, is_signed : BOOLEAN]

ASSUME IsaAssumption ==
    /\ {0, 8, 30} \subseteq XRegs /\ XRegs \subseteq 0 .. 30
    /\ VRegs \subseteq 0 .. 31
    /\ RamBase \in Word /\ RamSize \in Nat /\ RamBase + RamSize <= 255
    /\ Decode \in [Encoding -> Instruction]
    /\ \A e \in Encoding : Decode[e].encoding = e
    /\ Decode[0].op = "Unallocated"

(***************************************************************************)
(* The register file.                                                      *)
(***************************************************************************)
\* PSTATE's other fields (DAIF, EL, SPSel) are constant at EL0.
RegFile == [x : [XRegs -> Word], sp : Word, pc : Word, v : [VRegs -> Word \X Word],
            nzcv : Nzcv, fpcr : Word, fpsr : Word]

read_x(regs, r) == IF r = ZR THEN 0 ELSE IF r = SP THEN regs.sp ELSE regs.x[r]

write_x(regs, r, value) ==
    IF r = ZR THEN regs
    ELSE IF r = SP THEN [regs EXCEPT !.sp = value]
    ELSE [regs EXCEPT !.x[r] = value]

\* A W-form write zero-extends.
write_w(regs, r, value) == write_x(regs, r, value)

set_pc(regs, value) == [regs EXCEPT !.pc = value]
set_nzcv(regs, f)   == [regs EXCEPT !.nzcv = f]

read_gpr(regs, r, width)       == masked(read_x(regs, r), width)
read_shifted(regs, insn)       == shifted(read_x(regs, insn.rm), insn.kind, insn.amount, insn.width)
read_extended(regs, insn)      == extended(read_x(regs, insn.rm), insn.source_bits,
                                           insn.ext_signed, insn.amount)
write_result(regs, r, value, width) ==
    IF width = "W32" THEN write_w(regs, r, masked(value, "W32")) ELSE write_x(regs, r, value)

wrapping_add(a, b) == (a + b) % 256

(***************************************************************************)
(* Guest memory.                                                           *)
(***************************************************************************)
Memory == [Ram -> {0, 1}]

\* FlatMemory::offset succeeds: both subtraction and addition are checked.
in_window(address, len) == address >= RamBase /\ address - RamBase + len <= RamSize

\* The cell at address + i as bit i of the result, for i < len.
cell(mem, address, i, len) == IF i < len THEN mem[address + i] ELSE 0

\* read_uint, for an access inside the window.
read_uint(mem, address, len) == FromBits([i \in 0 .. 7 |-> cell(mem, address, i, len)])

\* write_uint, for an access inside the window.
write_uint(mem, address, len, value) ==
    [a \in Ram |-> IF address <= a /\ a < address + len THEN Bit(value, a - address) ELSE mem[a]]

(***************************************************************************)
(* Traps.                                                                  *)
(***************************************************************************)
TrapKinds == {"UndefinedInstruction", "SupervisorCall", "Breakpoint", "DataAbortRead",
              "DataAbortWrite", "InstructionAbort"}
\* info is the encoding, the immediate or the address the trap carries.
Trap == [kind : TrapKinds, pc : Word, info : Word]
undefined(pc, insn)    == [kind |-> "UndefinedInstruction", pc |-> pc, info |-> insn.encoding]
instruction_abort(pc)  == [kind |-> "InstructionAbort", pc |-> pc, info |-> pc]
data_abort(pc, address, is_write) ==
    [kind |-> IF is_write THEN "DataAbortWrite" ELSE "DataAbortRead", pc |-> pc, info |-> address]

(***************************************************************************)
(* The arms.  Each returns the registers and the memory as the arm leaves  *)
(* them, on success and on failure alike, with the Flow or the Trap.       *)
(***************************************************************************)
Next_(regs, mem)         == [flow |-> "Next", regs |-> regs, mem |-> mem]
Branched(regs, mem)      == [flow |-> "Branched", regs |-> regs, mem |-> mem]
Err(regs, mem, trap)     == [flow |-> "Err", regs |-> regs, mem |-> mem, trap |-> trap]

operand(regs, insn) ==
    CASE insn.form = "RegImm"      -> insn.imm
      [] insn.form = "RegShifted"  -> read_shifted(regs, insn)
      [] insn.form = "RegExtended" -> read_extended(regs, insn)

flags_if(insn, regs, f) == IF insn.sets_flags THEN set_nzcv(regs, f) ELSE regs

arithmetic(regs, mem, insn) ==
    IF insn.form \notin {"RegImm", "RegShifted", "RegExtended"}
    THEN Err(regs, mem, undefined(regs.pc, insn))
    ELSE LET is_sub == insn.op = "Sub"
             right  == IF is_sub THEN BitNot(operand(regs, insn)) ELSE operand(regs, insn)
             result == add_with_carry(read_gpr(regs, insn.rn, insn.width), right, is_sub, insn.width)
         IN  Next_(flags_if(insn, write_result(regs, insn.rd, result.value, insn.width), result.flags),
                   mem)

bitwise(op, left, right) ==
    CASE op = "And" -> BitAnd(left, right)
      [] op = "Bic" -> BitAnd(left, BitNot(right))
      [] op = "Orr" -> BitOr(left, right)
      [] op = "Orn" -> BitOr(left, BitNot(right))
      [] op = "Eor" -> BitXor(left, right)
      [] OTHER      -> BitXor(left, BitNot(right))

logical(regs, mem, insn) ==
    IF insn.form \notin {"RegImm", "RegShifted"}
    THEN Err(regs, mem, undefined(regs.pc, insn))
    ELSE LET value == bitwise(insn.op, read_gpr(regs, insn.rn, insn.width), operand(regs, insn))
         IN  Next_(flags_if(insn, write_result(regs, insn.rd, value, insn.width),
                            logical_flags(value, insn.width)), mem)

\* BL and BLR write the link register before PC moves.
linked(regs, pc) == write_x(regs, 30, wrapping_add(pc, INSN_BYTES))

\* Mutant: the target of a branch is not wrapped to the word.
branch_immediate_unwrapped(regs, mem, insn, pc) ==
    IF insn.form # "Branch"
    THEN Err(regs, mem, undefined(pc, insn))
    ELSE LET after == IF insn.op = "Bl" THEN linked(regs, pc) ELSE regs
         IN  Branched(set_pc(after, pc + insn.imm), mem)

branch_immediate(regs, mem, insn, pc) ==
    IF insn.form # "Branch"
    THEN Err(regs, mem, undefined(pc, insn))
    ELSE LET after == IF insn.op = "Bl" THEN linked(regs, pc) ELSE regs
         IN  Branched(set_pc(after, wrapping_add(pc, insn.imm)), mem)

\* The target is read before BLR overwrites X30.
branch_register(regs, mem, insn, pc) ==
    IF insn.form # "BranchIndirect"
    THEN Err(regs, mem, undefined(pc, insn))
    ELSE LET target == read_x(regs, insn.rn)
             after  == IF insn.op = "Blr" THEN linked(regs, pc) ELSE regs
         IN  Branched(set_pc(after, target), mem)

\* The address an access forms and the base write-back it owes (none: ZR, 0).
effective_address(regs, insn, pc) ==
    LET offset  == CASE insn.mode = "Immediate" -> insn.imm
                     [] insn.mode = "Register"  -> read_extended(regs, insn)
                     [] OTHER                   -> 0
        wb      == IF insn.mode \in {"Immediate", "Register"} THEN insn.writeback ELSE "None"
        base    == read_x(regs, insn.rn)
        updated == wrapping_add(base, offset)
    IN  IF insn.mode = "PcRelative"
        THEN [address |-> wrapping_add(pc, insn.imm), writes |-> FALSE, updated |-> 0]
        ELSE [address |-> IF wb = "Post" THEN base ELSE updated,
              writes |-> wb # "None", updated |-> updated]

\* write_result of the loaded value, sign-extended when the size says so.
loaded(regs, mem, insn, address) ==
    LET raw == read_uint(mem, address, insn.bytes)
    IN  write_result(regs, insn.rd,
                     IF insn.is_signed THEN sign_extend_to_64(raw, insn.bytes) ELSE raw, insn.width)

stored(regs, mem, insn, address) ==
    write_uint(mem, address, insn.bytes, read_gpr(regs, insn.rd, insn.width))

write_back(regs, insn, computed) ==
    IF computed.writes THEN write_x(regs, insn.rn, computed.updated) ELSE regs

\* Mutant: write-back is applied whether or not the access succeeded.
load_store_writes_back_first(regs, mem, insn, pc) ==
    LET computed == effective_address(regs, insn, pc)
        is_write == insn.op = "Str"
        early    == write_back(regs, insn, computed)
    IN  IF insn.form # "LoadStore" THEN Err(regs, mem, undefined(pc, insn))
        ELSE IF ~in_window(computed.address, insn.bytes)
        THEN Err(early, mem, data_abort(pc, computed.address, is_write))
        ELSE IF is_write
        THEN Next_(early, stored(regs, mem, insn, computed.address))
        ELSE Next_(loaded(early, mem, insn, computed.address), mem)

\* Write-back only after the access succeeds, and after the loaded value.
load_store(regs, mem, insn, pc) ==
    LET computed == effective_address(regs, insn, pc)
        is_write == insn.op = "Str"
    IN  IF insn.form # "LoadStore" THEN Err(regs, mem, undefined(pc, insn))
        ELSE IF ~in_window(computed.address, insn.bytes)
        THEN Err(regs, mem, data_abort(pc, computed.address, is_write))
        ELSE IF is_write
        THEN Next_(write_back(regs, insn, computed), stored(regs, mem, insn, computed.address))
        ELSE Next_(write_back(loaded(regs, mem, insn, computed.address), insn, computed), mem)

\* SVC and BRK.  The cast to u16 changes nothing: the decoder's field has 16 bits.
immediate_trap(regs, mem, insn, pc, kind) ==
    Err(regs, mem, IF insn.form = "Imm" THEN [kind |-> kind, pc |-> pc, info |-> insn.imm]
                                        ELSE undefined(pc, insn))

execute(regs, mem, insn, pc) ==
    CASE insn.op \in Arith          -> arithmetic(regs, mem, insn)
      [] insn.op \in Logical        -> logical(regs, mem, insn)
      [] insn.op \in BranchImm      -> branch_immediate(regs, mem, insn, pc)
      [] insn.op \in BranchInd      -> branch_register(regs, mem, insn, pc)
      [] insn.op = "Nop"            -> Next_(regs, mem)
      [] insn.op \in {"Ldr", "Str"} -> load_store(regs, mem, insn, pc)
      [] insn.op = "Svc"            -> immediate_trap(regs, mem, insn, pc, "SupervisorCall")
      [] insn.op = "Brk"            -> immediate_trap(regs, mem, insn, pc, "Breakpoint")
      [] OTHER                      -> Err(regs, mem, undefined(pc, insn))

\* The registers after a step: PC advances unless the arm set it.
advanced(r, pc) ==
    IF r.flow = "Next" THEN set_pc(r.regs, wrapping_add(pc, INSN_BYTES)) ELSE r.regs
=============================================================================
