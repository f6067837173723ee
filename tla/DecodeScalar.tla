---------------------------- MODULE DecodeScalar ----------------------------
(***************************************************************************)
(* op0 = x111 with bit 28 set, scalar floating point:                      *)
(* decode/group/simd_fp/scalar.rs.                                         *)
(***************************************************************************)
EXTENDS Encoding

\* The 2-bit ftype: 1 is double, 3 is half and 2 names no format.
float_size(ftype) == CASE ftype = 0 -> Some(S32) [] ftype = 1 -> Some(D64)
                       [] ftype = 3 -> Some(H16) [] OTHER -> None

the(option) == CHOOSE x \in option : TRUE

three_source(w, size) ==
    LET op == IF bit(w, 21) THEN IF bit(w, 15) THEN "Fnmsub" ELSE "Fnmadd"
              ELSE IF bit(w, 15) THEN "Fmsub" ELSE "Fmadd"
    IN  new(w, op, VecData(scalar(Rd(w), size), scalar(Rn(w), size),
                           Some(scalar(Rm(w), size)), Some(scalar(Ra(w), size))))

two_source_op == <<"Fmul", "Fdiv", "Fadd", "Fsub", "Fmax", "Fmin", "Fmaxnm", "Fminnm", "Fnmul">>

two_source(w, size) ==
    LET opcode == bits(w, 15, 12)
    IN  IF opcode > 8 THEN unallocated(w)
        ELSE new(w, two_source_op[opcode + 1],
                 VecData(scalar(Rd(w), size), scalar(Rn(w), size), Some(scalar(Rm(w), size)), None))

conditional_select(w, size) ==
    new(w, "Fcsel", [kind |-> "VecCond", vd |-> scalar(Rd(w), size), vn |-> scalar(Rn(w), size),
                     vm |-> Some(scalar(Rm(w), size)), cond |-> from_bits(bits(w, 15, 12))])

conditional_compare(w, size) ==
    new(w, IF bit(w, 4) THEN "Fccmpe" ELSE "Fccmp",
        [kind |-> "VecCondCompare", vn |-> scalar(Rn(w), size), vm |-> Some(scalar(Rm(w), size)),
         nzcv |-> bits(w, 3, 0), cond |-> from_bits(bits(w, 15, 12))])

\* Bits 4..0 are not a register: bit 4 signals and bit 3 compares with zero.
compare(w, size) ==
    LET is_zero_form == bit(w, 3)
    IN  IF bits(w, 2, 0) # 0 \/ (is_zero_form /\ Rm(w) # 0) THEN unallocated(w)
        ELSE new(w, IF bit(w, 4) THEN "Fcmpe" ELSE "Fcmp",
                 [kind |-> "VecCompare", vn |-> scalar(Rn(w), size),
                  vm |-> IF is_zero_form THEN None ELSE Some(scalar(Rm(w), size))])

\* VFPExpandImm: sign, NOT b, b repeated, cd, and a 4-bit mantissa, in a format
\* with e bits of exponent and m of mantissa.
expanded_float(imm8, e, m) ==
    LET repeated == IF 6 \in OneBits(imm8) THEN 2 .. e - 2 ELSE {}
        not_b    == IF 6 \in OneBits(imm8) THEN {} ELSE {e - 1}
        exponent == not_b \cup repeated \cup OneBits((imm8 \div 16) % 4)
        sign     == IF 7 \in OneBits(imm8) THEN {e + m} ELSE {}
    IN  sign \cup ShlBits(exponent, m) \cup ShlBits(OneBits(imm8 % 16), m - 4)

expand_float_immediate(imm8, size) ==
    CASE size = H16 -> expanded_float(imm8, 5, 10)
      [] size = D64 -> expanded_float(imm8, 11, 52)
      [] OTHER      -> expanded_float(imm8, 8, 23)

move_immediate(w, size) ==
    IF bits(w, 9, 5) # 0 THEN unallocated(w)
    ELSE new(w, "FmovImm", VecImm(scalar(Rd(w), size), scalar(Rd(w), size),
                                  expand_float_immediate(bits(w, 20, 13), size)))

\* FCVT names its target in the low bits of the opcode, which must differ from
\* the source.  FRINTX and FRINTI both round in the current mode.
one_source(w, size) ==
    LET opcode == bits(w, 20, 15)
        target == float_size(opcode % 4)
        is_cvt == opcode \in {4, 5, 7}
        op == CASE opcode < 4 -> <<"Fmov", "Fabs", "Fneg", "Fsqrt">>[opcode + 1]
                [] is_cvt /\ target # Some(size) -> "Fcvt"
                [] opcode \in {8, 9, 10, 11, 12, 14, 15} -> "Frint"
                [] OTHER -> "Unallocated"
        round == IF opcode \in 8 .. 12
                 THEN <<"Nearest", "Plus", "Minus", "Zero", "NearestAway">>[opcode - 7]
                 ELSE "Current"
    IN  IF op = "Unallocated" THEN unallocated(w)
        ELSE with_round(new(w, op, VecData(scalar(Rd(w), IF is_cvt THEN the(target) ELSE size),
                                           scalar(Rn(w), size), None, None)), round)

\* A one-hot field names the family.
compare_or_one_source(w, size) ==
    CASE bits(w, 14, 10) = 16 -> one_source(w, size)
      [] bits(w, 14, 10) = 8  -> compare(w, size)
      [] bits(w, 14, 10) = 4  -> move_immediate(w, size)
      [] OTHER -> unallocated(w)

\* ConversionKind: rmode rounds the conversions to an integer, ties-away has
\* opcodes of its own, and round toward zero has an Op of its own.
conversion_kind(rmode, opcode) ==
    LET kind(op, round, to_gpr) == Some([op |-> op, round |-> round, is_to_gpr |-> to_gpr])
    IN  CASE opcode \in {0, 1} ->
             (IF rmode = 3 THEN kind(<<"Fcvtzs", "Fcvtzu">>[opcode + 1], "Zero", TRUE)
              ELSE kind(<<"Fcvts", "Fcvtu">>[opcode + 1],
                        <<"Nearest", "Plus", "Minus">>[rmode + 1], TRUE))
          [] opcode \in {2, 3} /\ rmode = 0 ->
             kind(<<"Scvtf", "Ucvtf">>[opcode - 1], "Current", FALSE)
          [] opcode \in {4, 5} /\ rmode = 0 ->
             kind(<<"Fcvts", "Fcvtu">>[opcode - 3], "NearestAway", TRUE)
          [] opcode \in {6, 7} /\ rmode < 2 ->
             kind(<<"FmovFromVec", "FmovToVec">>[opcode - 5], "Current", opcode = 6)
          [] OTHER -> None

\* The general-purpose side is the destination or the source.
gpr_side(w, is_to_gpr) == IF is_to_gpr THEN Rd_zr(w) ELSE Rn_zr(w)
vec_side(w, is_to_gpr) == IF is_to_gpr THEN Rn(w) ELSE Rd(w)

\* rmode 1 is the high half of a Q register: X only, and only with ftype 2.
\* The plain transfer needs both sides to be as wide.
move_between_files(w, width, kind) ==
    LET is_high_half == bits(w, 20, 19) = 1
        ftype        == bits(w, 23, 22)
        size         == float_size(ftype)
        v            == vec_side(w, kind.is_to_gpr)
        insn(vec)    == with_width(new(w, kind.op, VecGprMove(gpr_side(w, kind.is_to_gpr), vec)), width)
    IN  CASE is_high_half /\ width = "X64" /\ ftype = 2 -> insn(element(v, D64, 1))
          [] ~is_high_half /\ size # None /\ ((size = Some(D64)) = (width = "X64")) ->
             insn(scalar(v, the(size)))
          [] OTHER -> unallocated(w)

integer_conversion(w) ==
    LET width  == from_sf(bit(w, 31))
        found  == conversion_kind(bits(w, 20, 19), bits(w, 18, 16))
        kind   == the(found)
        size   == float_size(bits(w, 23, 22))
        vec    == scalar(vec_side(w, kind.is_to_gpr), the(size))
    IN  IF found = None THEN unallocated(w)
        ELSE IF kind.op \in {"FmovFromVec", "FmovToVec"} THEN move_between_files(w, width, kind)
        ELSE IF size = None THEN unallocated(w)
        ELSE with_round(with_width(new(w, kind.op, VecGprMove(gpr_side(w, kind.is_to_gpr), vec)), width),
                        kind.round)

\* scale counts down from 64; the form leaves it in the encoding.
fixed_point_conversion(w) ==
    LET size      == float_size(bits(w, 23, 22))
        width     == from_sf(bit(w, 31))
        fractional_bits == 64 - bits(w, 15, 10)
        rmode     == bits(w, 20, 19)
        opcode    == bits(w, 18, 16)
        is_to_gpr == rmode = 3 /\ opcode < 2
        is_to_vec == rmode = 0 /\ opcode \in {2, 3}
        vec       == scalar(vec_side(w, is_to_gpr), the(size))
    IN  IF \/ size = None
           \/ width = "W32" /\ fractional_bits > 32
           \/ ~is_to_gpr /\ ~is_to_vec
        THEN unallocated(w)
        ELSE with_round(with_width(new(w, <<"Fcvtzs", "Fcvtzu", "Scvtf", "Ucvtf">>[opcode + 1],
                            VecGprMove(gpr_side(w, is_to_gpr), vec)), width), "Zero")

\* Bit 31 is sf for the conversions and clear for every other family.
data_processing(w) ==
    LET is_three_source == bit(w, 24)
        is_fixed_point  == ~is_three_source /\ ~bit(w, 21)
        is_integer_conversion == ~is_three_source /\ bit(w, 21) /\ bits(w, 15, 10) = 0
        size == float_size(bits(w, 23, 22))
    IN  IF bit(w, 29) \/ bit(w, 30) \/ (bit(w, 31) /\ ~(is_fixed_point \/ is_integer_conversion))
        THEN unallocated(w)
        ELSE IF is_fixed_point THEN fixed_point_conversion(w)
        ELSE IF is_integer_conversion THEN integer_conversion(w)
        ELSE IF size = None THEN unallocated(w)
        ELSE IF is_three_source THEN three_source(w, the(size))
        ELSE CASE bits(w, 11, 10) = 0 -> compare_or_one_source(w, the(size))
               [] bits(w, 11, 10) = 1 -> conditional_compare(w, the(size))
               [] bits(w, 11, 10) = 2 -> two_source(w, the(size))
               [] bits(w, 11, 10) = 3 -> conditional_select(w, the(size))
=============================================================================
