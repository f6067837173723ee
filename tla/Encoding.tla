------------------------------ MODULE Encoding ------------------------------
(***************************************************************************)
(* The vocabulary of the instruction decoder: the bit fields of a word     *)
(* (decode/group/mod.rs), register slots (reg.rs), operand and addressing  *)
(* shapes (decode/operand.rs, decode/address.rs) and the Instruction a     *)
(* group decoder builds (decode/instruction.rs).                           *)
(*                                                                         *)
(* Conventions.  A 32-bit word is its two halves, since TLC's integers     *)
(* stop short of 2^31.  A u64 immediate is the set of its one bits.  An    *)
(* Option is a set of at most one element.  A Form is a record whose kind  *)
(* names the variant; its fields keep the source's names, and a nested     *)
(* ShiftedReg or ExtendedReg is laid out flat beside its register.         *)
(***************************************************************************)
EXTENDS Integers, FiniteSets, Sequences

\* 2^i, spelled out for the provers.
Pow2 == [i \in 0 .. 26 |->
    <<1, 2, 4, 8, 16, 32, 64, 128, 256, 512, 1024, 2048, 4096, 8192, 16384, 32768, 65536,
      131072, 262144, 524288, 1048576, 2097152, 4194304, 8388608, 16777216, 33554432,
      67108864>>[i + 1]]

Half   == 0 .. Pow2[16] - 1
Word32 == [hi : Half, lo : Half]

\* The field hi..lo of a word, inclusive at both ends.
bits(w, hi, lo) ==
    IF lo >= 16 THEN (w.hi \div Pow2[lo - 16]) % Pow2[hi - lo + 1]
    ELSE IF hi < 16 THEN (w.lo \div Pow2[lo]) % Pow2[hi - lo + 1]
    ELSE (w.lo \div Pow2[lo]) + (w.hi % Pow2[hi - 15]) * Pow2[16 - lo]

bit(w, i) == bits(w, i, i) = 1

sign_extend(value, width) == IF value < Pow2[width - 1] THEN value ELSE value - Pow2[width]

\* A u64 as the set of its one bits, its left shift and its low bits.
OneBits(n)  == {i \in 0 .. 25 : (n \div Pow2[i]) % 2 = 1}
ShlBits(b, k) == {i + k : i \in b} \cap 0 .. 63
ShrBits(b, k) == {i - k : i \in b} \cap 0 .. 63

None    == {}
Some(x) == {x}

(***************************************************************************)
(* Registers.  Slot 31 is the zero register or the stack pointer according *)
(* to the operand's role, and only the decoder knows the role.             *)
(***************************************************************************)
SP  == 100
ZR  == 101
Gpr == 0 .. 30 \cup {SP, ZR}
Vec == 0 .. 31

from_index_zr(i) == IF i = 31 THEN ZR ELSE i
from_index_sp(i) == IF i = 31 THEN SP ELSE i

\* The register fields every group shares.
Rd(w) == bits(w, 4, 0)
Rn(w) == bits(w, 9, 5)
Rm(w) == bits(w, 20, 16)
Ra(w) == bits(w, 14, 10)

Rd_zr(w) == from_index_zr(Rd(w))
Rn_zr(w) == from_index_zr(Rn(w))
Rn_sp(w) == from_index_sp(Rn(w))
Rm_zr(w) == from_index_zr(Rm(w))

(***************************************************************************)
(* Operand shapes.                                                         *)
(***************************************************************************)
from_sf(sf)       == IF sf THEN "X64" ELSE "W32"
width_bits(width) == IF width = "W32" THEN 32 ELSE 64

Shift == <<"Lsl", "Lsr", "Asr", "Ror">>
shift_kind(field) == Shift[field + 1]

Extend == <<"Uxtb", "Uxth", "Uxtw", "Uxtx", "Sxtb", "Sxth", "Sxtw", "Sxtx">>
from_option(option) == Extend[option + 1]

CondCode == <<"Eq", "Ne", "Cs", "Cc", "Mi", "Pl", "Vs", "Vc",
              "Hi", "Ls", "Ge", "Lt", "Gt", "Le", "Al", "Nv">>
from_bits(field) == CondCode[field + 1]

\* ElemSize by the log2 of its bytes: B8 is 0 and Q128 is 4.
B8 == 0
H16 == 1
S32 == 2
D64 == 3
Q128 == 4
ElemSize == B8 .. Q128
elem_bits(elem) == 8 * Pow2[elem]

\* VecOperand.  A scalar has one lane; index is the lane of an Element.
scalar(reg, elem) ==
    [reg |-> reg, shape |-> "Scalar", elem |-> elem, count |-> 1, half |-> "Full", index |-> 0]
vector(reg, elem, is_quad) ==
    [reg |-> reg, shape |-> "Vector", elem |-> elem,
     count |-> (IF is_quad THEN 128 ELSE 64) \div elem_bits(elem),
     half |-> IF is_quad THEN "Full" ELSE "Low", index |-> 0]
element(reg, elem, lane) ==
    [reg |-> reg, shape |-> "Element", elem |-> elem, count |-> 1, half |-> "Full", index |-> lane]

\* AccessSize and Ordering.
access(bytes, is_signed) == [bytes |-> bytes, is_signed |-> is_signed]
PLAIN == [is_acquire |-> FALSE, is_release |-> FALSE, is_exclusive |-> FALSE]

\* AddrMode.  A mode without a register, an offset or a write-back holds the default.
Address(mode, base, offset, writeback) ==
    [mode |-> mode, base |-> base, offset |-> offset, writeback |-> writeback,
     index |-> None, extend |-> "Uxtx", amount |-> 0]
at_immediate(base, offset, writeback) == Address("Immediate", Some(base), offset, writeback)
at_register(base, index, extend, amount, writeback) ==
    [mode |-> "Register", base |-> Some(base), offset |-> 0, writeback |-> writeback,
     index |-> Some(index), extend |-> extend, amount |-> amount]
at_pc(offset) == Address("PcRelative", None, offset, "None")
at_base(base) == Address("BaseOnly", Some(base), 0, "None")

has_writeback(addr) == addr.writeback # "None"

(***************************************************************************)
(* Instructions.                                                           *)
(***************************************************************************)
new(w, op, form) ==
    [encoding |-> w, op |-> op, form |-> form,
     width |-> "X64", round |-> "Current", sets_flags |-> FALSE]
with_width(insn, width) == [insn EXCEPT !.width = width]
with_round(insn, round) == [insn EXCEPT !.round = round]
setting_flags(insn, is) == [insn EXCEPT !.sets_flags = is]

NoForm         == [kind |-> "None"]
unallocated(w) == new(w, "Unallocated", NoForm)
is_unallocated(insn) == insn.op = "Unallocated"

\* The forms more than one decoder builds.
RegImm(rd, rn, imm) == [kind |-> "RegImm", rd |-> rd, rn |-> rn, imm |-> imm]
RegShifted(rd, rn, rm, shift, amount) ==
    [kind |-> "RegShifted", rd |-> rd, rn |-> rn, rm |-> rm, shift |-> shift, amount |-> amount]
Bitfield(rd, rn, rm, immr, imms) ==
    [kind |-> "Bitfield", rd |-> rd, rn |-> rn, rm |-> rm, immr |-> immr, imms |-> imms]
CondSelect(rd, rn, rm, cond) ==
    [kind |-> "CondSelect", rd |-> rd, rn |-> rn, rm |-> rm, cond |-> cond]
LoadStore(rt, rt2, rs, addr, size, ordering) ==
    [kind |-> "LoadStore", rt |-> rt, rt2 |-> rt2, rs |-> rs, addr |-> addr, size |-> size,
     ordering |-> ordering]
Prefetch(prfop, addr) == [kind |-> "Prefetch", prfop |-> prfop, addr |-> addr]
LoadStoreVec(vt, count, addr) ==
    [kind |-> "LoadStoreVec", vt |-> vt, count |-> count, addr |-> addr, ordering |-> PLAIN]
VecData(vd, vn, vm, va) == [kind |-> "VecData", vd |-> vd, vn |-> vn, vm |-> vm, va |-> va]
VecImm(vd, vn, imm)     == [kind |-> "VecImm", vd |-> vd, vn |-> vn, imm |-> imm]
VecGprMove(gpr, vec)    == [kind |-> "VecGprMove", gpr |-> gpr, vec |-> vec]
Imm(imm)                == [kind |-> "Imm", imm |-> OneBits(imm)]
System(rt, sysreg)      == [kind |-> "System", rt |-> rt, sysreg |-> sysreg]
BranchReg(rt, offset, tested) ==
    [kind |-> "BranchReg", rt |-> rt, offset |-> offset, tested |-> tested]
=============================================================================
