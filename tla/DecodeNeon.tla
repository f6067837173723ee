----------------------------- MODULE DecodeNeon -----------------------------
(***************************************************************************)
(* op0 = x111 with bit 28 clear, the advanced SIMD this build claims:      *)
(* decode/group/simd_fp/neon.rs.                                           *)
(***************************************************************************)
EXTENDS Encoding

is_quad(w) == bit(w, 30)

\* Same-shaped vector operands.
vec_rd(w, elem) == vector(Rd(w), elem, is_quad(w))
vec_rn(w, elem) == vector(Rn(w), elem, is_quad(w))
vec_rm(w, elem) == vector(Rm(w), elem, is_quad(w))
unary(w, op, elem)  == new(w, op, VecData(vec_rd(w, elem), vec_rn(w, elem), None, None))
binary(w, op, elem) == new(w, op, VecData(vec_rd(w, elem), vec_rn(w, elem), Some(vec_rm(w, elem)), None))

\* size selects the operation, which is bitwise, so every lane is a byte.
three_same_logical(w) ==
    LET op == IF bit(w, 29) THEN <<"VecEor", "VecBsl", "VecBit", "VecBif">>
              ELSE <<"VecAnd", "VecBic", "VecOrr", "VecOrn">>
    IN  binary(w, op[bits(w, 23, 22) + 1], B8)

three_same_op(opcode, is_unsigned) ==
    LET choice(signed, unsigned) == Some(IF is_unsigned THEN unsigned ELSE signed)
    IN  CASE opcode = 1  -> choice("Sshl", "Ushl")
          [] opcode = 6  -> choice("VecCmgt", "VecCmhi")
          [] opcode = 7  -> choice("VecCmge", "VecCmhs")
          [] opcode = 16 -> choice("VecAdd", "VecSub")
          [] opcode = 17 /\ is_unsigned -> Some("VecCmeq")
          [] opcode = 18 -> choice("VecMla", "VecMls")
          [] opcode = 19 -> Some("VecMul")
          [] opcode = 23 -> Some("Addp")
          [] OTHER -> None

\* A 64-bit vector of 64-bit lanes is refused.
three_same(w) ==
    LET op   == three_same_op(bits(w, 15, 11), bit(w, 29))
        elem == bits(w, 23, 22)
    IN  IF op = None \/ (elem = D64 /\ ~is_quad(w)) THEN unallocated(w)
        ELSE binary(w, CHOOSE o \in op : TRUE, elem)

\* A reduction writes one element.
across_lanes(w) ==
    LET elem   == bits(w, 23, 22)
        opcode == bits(w, 16, 12)
        op == CASE opcode = 26 /\ bit(w, 29) -> "Uminv"
                [] opcode = 10 /\ bit(w, 29) -> "Umaxv"
                [] opcode = 27 -> "Addv"
                [] OTHER -> "Unallocated"
    IN  IF op = "Unallocated" THEN unallocated(w)
        ELSE new(w, op, VecData(scalar(Rd(w), elem), vec_rn(w, elem), None, None))

\* The lowest one bit of imm5 is the element width, the bits above it the lane.
lane_from_imm5(imm5) ==
    LET lowest == {e \in B8 .. D64 : imm5 % Pow2[e] = 0 /\ (imm5 \div Pow2[e]) % 2 = 1}
    IN  {<<e, imm5 \div Pow2[e + 1]>> : e \in lowest}

duplicate_from_gpr(w, elem) == new(w, "Dup", VecGprMove(Rn_zr(w), vec_rd(w, elem)))

duplicate_from_element(w, elem, lane) ==
    new(w, "Dup", VecData(vec_rd(w, elem), element(Rn(w), elem, lane), None, None))

insert_from_gpr(w, elem, lane) ==
    new(w, "InsGpr", VecGprMove(Rn_zr(w), element(Rd(w), elem, lane)))

move_to_gpr(w, elem, lane, is_signed) ==
    with_width(new(w, IF is_signed THEN "Smov" ELSE "Umov",
                   VecGprMove(Rd_zr(w), element(Rn(w), elem, lane))), from_sf(is_quad(w)))

\* imm4 is the source lane, scaled by the element.
insert_element(w, elem, destination) ==
    new(w, "Ins", VecData(element(Rd(w), elem, destination),
                          element(Rn(w), elem, bits(w, 14, 11) \div Pow2[elem]), None, None))

\* Bit 29 set is the insert between elements, whose imm4 selects no operation.
copy_lane(w, elem, lane) ==
    LET imm4 == bits(w, 14, 11)
    IN  IF bit(w, 29) THEN insert_element(w, elem, lane)
        ELSE CASE imm4 = 0 -> duplicate_from_element(w, elem, lane)
               [] imm4 = 1 -> duplicate_from_gpr(w, elem)
               [] imm4 = 3 -> insert_from_gpr(w, elem, lane)
               [] imm4 = 5 -> move_to_gpr(w, elem, lane, TRUE)
               [] imm4 = 7 -> move_to_gpr(w, elem, lane, FALSE)
               [] OTHER -> unallocated(w)

copy(w) ==
    LET found == lane_from_imm5(Rm(w))
        f     == CHOOSE x \in found : TRUE
    IN  IF found = None THEN unallocated(w) ELSE copy_lane(w, f[1], f[2])

table_lookup(w) ==
    new(w, IF bit(w, 12) THEN "Tbx" ELSE "Tbl",
        [kind |-> "TableLookup", vd |-> vec_rd(w, B8), table |-> Rn(w),
         table_len |-> bits(w, 14, 13) + 1, vm |-> Some(vec_rm(w, B8))])

\* VecImm has no slot for Rm, which the interpreter takes from the encoding.
extract(w) ==
    LET index == bits(w, 14, 11)
    IN  IF ~is_quad(w) /\ index >= 8 THEN unallocated(w)
        ELSE new(w, "Ext", VecImm(vec_rd(w, B8), vec_rn(w, B8), OneBits(index)))

\* NOT and CNT are byte-shaped whatever size says.
two_register(w) ==
    LET opcode == bits(w, 16, 12)
        op == CASE opcode = 0 /\ ~bit(w, 29) -> "VecRev64"
                [] opcode = 1 /\ ~bit(w, 29) -> "VecRev16"
                [] opcode = 5  -> (IF bit(w, 29) THEN "VecNot" ELSE "VecCnt")
                [] opcode = 11 -> (IF bit(w, 29) THEN "VecNeg" ELSE "VecAbs")
                [] OTHER -> "Unallocated"
    IN  IF op = "Unallocated" THEN unallocated(w)
        ELSE unary(w, op, IF opcode = 5 THEN B8 ELSE bits(w, 23, 22))

expand_float32(imm8) ==
    LET sign     == IF 7 \in OneBits(imm8) THEN {31} ELSE {}
        exponent == IF 6 \in OneBits(imm8) THEN 25 .. 29 ELSE {30}
    IN  sign \cup exponent \cup ShlBits(OneBits((imm8 \div 16) % 4), 23)
             \cup ShlBits(OneBits(imm8 % 16), 19)

\* cmode 111x: a byte, a byte mask, or a float.
expand_wide_immediate(imm8, cmode, is_inverted) ==
    CASE cmode = 14 /\ ~is_inverted -> Some(<<OneBits(imm8), B8>>)
      [] cmode = 14 /\ is_inverted  -> Some(<<{i \in 0 .. 63 : i \div 8 \in OneBits(imm8)}, D64>>)
      [] cmode = 15 /\ ~is_inverted -> Some(<<expand_float32(imm8), S32>>)
      [] OTHER -> None

\* The immediate of one element and the element's width.  The shift of the
\* trailing-ones form reads a bit of cmode that is always zero there.
expand_advsimd_immediate(imm8, cmode, is_inverted) ==
    LET half  == cmode \div 2
        shift == 8 * ((half % 2) + 1)
    IN  CASE half < 4       -> Some(<<ShlBits(OneBits(imm8), 8 * half), S32>>)
          [] half \in {4, 5} -> Some(<<ShlBits(OneBits(imm8), 8 * (half % 2)), H16>>)
          [] half = 6       -> Some(<<ShlBits(OneBits(imm8), shift) \cup 0 .. shift - 1, S32>>)
          [] OTHER          -> expand_wide_immediate(imm8, cmode, is_inverted)

\* cmode 14 inverted is the 64-bit MOVI.
move_immediate(w) ==
    LET cmode       == bits(w, 15, 12)
        is_inverted == bit(w, 29)
        imm8        == bits(w, 18, 16) * 32 + bits(w, 9, 5)
        found       == expand_advsimd_immediate(imm8, cmode, is_inverted)
        expanded    == CHOOSE f \in found : TRUE
        vd          == vec_rd(w, expanded[2])
    IN  IF found = None THEN unallocated(w)
        ELSE new(w, IF is_inverted /\ cmode # 14 THEN "Mvni" ELSE "Movi",
                 VecImm(vd, vd, expanded[1]))

\* The highest one bit of immh is the element width.
element_from_immh(immh) == {e \in B8 .. D64 : Pow2[e] <= immh /\ immh < Pow2[e + 1]}

\* A left shift counts up from the width, a right shift down from twice it.
shift_by_immediate(w) ==
    LET immh    == bits(w, 22, 19)
        found   == element_from_immh(immh)
        elem    == CHOOSE e \in found : TRUE
        width   == elem_bits(elem)
        encoded == immh * 8 + bits(w, 18, 16)
        opcode  == bits(w, 15, 11)
        is_left == opcode = 10
        op      == IF is_left THEN "VecShl" ELSE IF bit(w, 29) THEN "VecUshr" ELSE "VecSshr"
    IN  IF found = None \/ opcode \notin {0, 10} THEN unallocated(w)
        ELSE new(w, op, VecImm(vec_rd(w, elem), vec_rn(w, elem),
                 OneBits(IF is_left THEN encoded - width ELSE 2 * width - encoded)))

immediate_or_shift(w) ==
    IF bits(w, 22, 19) = 0 THEN move_immediate(w) ELSE shift_by_immediate(w)

permute(w) ==
    LET elem   == bits(w, 23, 22)
        opcode == bits(w, 14, 12)
        op     == <<"Uzp1", "Trn1", "Zip1", "", "Uzp2", "Trn2", "Zip2">>
    IN  IF opcode \in {0, 4} \/ (elem = D64 /\ ~is_quad(w)) THEN unallocated(w)
        ELSE binary(w, op[opcode], elem)

bit21_clear(w) ==
    IF bit(w, 10) THEN copy(w)
    ELSE IF ~bit(w, 11) THEN table_lookup(w)
    ELSE IF ~bit(w, 29) THEN permute(w)
    ELSE IF bits(w, 23, 22) # 0 THEN unallocated(w)
    ELSE extract(w)

bit21_set(w) ==
    LET is_misc == bits(w, 11, 10) = 2
    IN  CASE is_misc /\ bits(w, 20, 17) = 8 -> across_lanes(w)
          [] is_misc /\ bits(w, 20, 17) = 0 -> two_register(w)
          [] bits(w, 15, 10) = 7 -> three_same_logical(w)
          [] bit(w, 10) /\ bits(w, 15, 10) # 7 -> three_same(w)
          [] OTHER -> unallocated(w)

\* Bit 31 is clear throughout, and bits 28..24 choose the half.
data_processing(w) ==
    IF bit(w, 31) THEN unallocated(w)
    ELSE IF bits(w, 28, 24) = 15 THEN immediate_or_shift(w)
    ELSE IF bits(w, 28, 24) # 14 THEN unallocated(w)
    ELSE IF bit(w, 21) THEN bit21_set(w) ELSE bit21_clear(w)
=============================================================================
