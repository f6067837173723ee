--------------------------- MODULE DecodeRegister ---------------------------
(***************************************************************************)
(* op0 = x101, data processing (register): decode/group/dp_register.rs.    *)
(***************************************************************************)
EXTENDS Encoding

width_of(w)  == from_sf(bit(w, 31))
sets_bit(w)  == bit(w, 29)

\* Rd, Rn and Rm as data operands, Rm shifted.
shifted(w, kind, amount) == RegShifted(Rd_zr(w), Rn_zr(w), Rm_zr(w), kind, amount)

\* A shift amount that indexes past a 32-bit operand.
amount_too_wide(w) == ~bit(w, 31) /\ bit(w, 15)

\* Mutant: the 32-bit form takes the whole six-bit shift amount.
logical_shifted_any_amount(w) ==
    LET opc == bits(w, 30, 29)
        op  == IF bit(w, 21) THEN <<"Bic", "Orn", "Eon", "Bic">> ELSE <<"And", "Orr", "Eor", "And">>
    IN  setting_flags(with_width(new(w, op[opc + 1],
            shifted(w, shift_kind(bits(w, 23, 22)), bits(w, 15, 10))), width_of(w)), opc = 3)

logical_shifted(w) ==
    LET opc == bits(w, 30, 29)
        op  == IF bit(w, 21) THEN <<"Bic", "Orn", "Eon", "Bic">> ELSE <<"And", "Orr", "Eor", "And">>
    IN  IF amount_too_wide(w) THEN unallocated(w)
        ELSE setting_flags(with_width(new(w, op[opc + 1],
                 shifted(w, shift_kind(bits(w, 23, 22)), bits(w, 15, 10))), width_of(w)), opc = 3)

finish_arithmetic(w, form, width) ==
    setting_flags(with_width(new(w, IF bit(w, 30) THEN "Sub" ELSE "Add", form), width), sets_bit(w))

add_sub_shifted(w) ==
    LET shift == bits(w, 23, 22)
    IN  IF shift = 3 \/ amount_too_wide(w) THEN unallocated(w)
        ELSE finish_arithmetic(w, shifted(w, shift_kind(shift), bits(w, 15, 10)), width_of(w))

\* Rn may be the stack pointer, and Rd may be when no flags are set.
add_sub_extended(w) ==
    LET amount == bits(w, 12, 10)
        rd     == IF sets_bit(w) THEN Rd_zr(w) ELSE from_index_sp(Rd(w))
    IN  IF bits(w, 23, 22) # 0 \/ amount > 4 THEN unallocated(w)
        ELSE finish_arithmetic(w,
                 [kind |-> "RegExtended", rd |-> rd, rn |-> Rn_sp(w), rm |-> Rm_zr(w),
                  extend |-> from_option(bits(w, 15, 13)), amount |-> amount], width_of(w))

\* Mutant: the fixed field beside Rm is not looked at.
add_sub_with_carry_unchecked(w) ==
    setting_flags(with_width(new(w, IF bit(w, 30) THEN "Sbc" ELSE "Adc",
        shifted(w, "Lsl", 0)), width_of(w)), sets_bit(w))

add_sub_with_carry(w) ==
    IF bits(w, 15, 10) # 0 THEN unallocated(w)
    ELSE setting_flags(with_width(new(w, IF bit(w, 30) THEN "Sbc" ELSE "Adc",
             shifted(w, "Lsl", 0)), width_of(w)), sets_bit(w))

\* The register form borrows CondSelect, which has no room for nzcv.
conditional_compare(w) ==
    LET cond == from_bits(bits(w, 15, 12))
        form == IF bit(w, 11)
                THEN [kind |-> "CondCompare", rn |-> Rn_zr(w), imm |-> OneBits(Rm(w)),
                      nzcv |-> bits(w, 3, 0), cond |-> cond]
                ELSE CondSelect(ZR, Rn_zr(w), Rm_zr(w), cond)
    IN  IF ~sets_bit(w) \/ bit(w, 10) \/ bit(w, 4) THEN unallocated(w)
        ELSE setting_flags(with_width(new(w, IF bit(w, 30) THEN "Ccmp" ELSE "Ccmn", form),
                                      width_of(w)), TRUE)

conditional_select(w) ==
    LET op2 == bits(w, 11, 10)
        op  == IF bit(w, 30) THEN <<"Csinv", "Csneg">> ELSE <<"Csel", "Csinc">>
    IN  IF sets_bit(w) \/ op2 >= 2 THEN unallocated(w)
        ELSE with_width(new(w, op[op2 + 1],
                 CondSelect(Rd_zr(w), Rn_zr(w), Rm_zr(w), from_bits(bits(w, 15, 12)))), width_of(w))

\* The opcodes left out are CRC32, PACGA and the MTE subtractions.
two_source(w) ==
    LET opcode == bits(w, 15, 10)
        op == CASE opcode = 2 -> "Udiv"  [] opcode = 3  -> "Sdiv"
                [] opcode = 8 -> "Lslv"  [] opcode = 9  -> "Lsrv"
                [] opcode = 10 -> "Asrv" [] opcode = 11 -> "Rorv"
                [] OTHER -> "Unallocated"
    IN  IF op = "Unallocated" THEN unallocated(w)
        ELSE with_width(new(w, op, shifted(w, "Lsl", 0)), width_of(w))

\* The source stands in both source slots.  REV of a W register is opcode 2,
\* which is REV32 of an X register.
one_source(w) ==
    LET opcode == bits(w, 15, 10)
        wide   == bit(w, 31)
        op == CASE opcode = 0 -> "Rbit" [] opcode = 1 -> "Rev16"
                [] opcode = 2 -> (IF wide THEN "Rev32" ELSE "Rev")
                [] opcode = 3 /\ wide -> "Rev"
                [] opcode = 4 -> "Clz" [] opcode = 5 -> "Cls"
                [] OTHER -> "Unallocated"
    IN  IF Rm(w) # 0 \/ op = "Unallocated" THEN unallocated(w)
        ELSE with_width(new(w, op, RegShifted(Rd_zr(w), Rn_zr(w), Rn_zr(w), "Lsl", 0)), width_of(w))

two_source_or_one_source(w) ==
    CASE sets_bit(w) -> unallocated(w)
      [] ~sets_bit(w) /\ bit(w, 30) -> one_source(w)
      [] OTHER -> two_source(w)

\* The widening and high-half multiplies exist at 64 bits only.
three_source(w) ==
    LET op31 == bits(w, 23, 21)
        o0   == bit(w, 15)
        wide == bit(w, 31)
        op == CASE op31 = 0 -> (IF o0 THEN "Msub" ELSE "Madd")
                [] op31 = 1 /\ wide -> (IF o0 THEN "Smsubl" ELSE "Smaddl")
                [] op31 = 2 /\ wide /\ ~o0 -> "Smulh"
                [] op31 = 5 /\ wide -> (IF o0 THEN "Umsubl" ELSE "Umaddl")
                [] op31 = 6 /\ wide /\ ~o0 -> "Umulh"
                [] OTHER -> "Unallocated"
    IN  IF bits(w, 30, 29) # 0 \/ op = "Unallocated" THEN unallocated(w)
        ELSE with_width(new(w, op, [kind |-> "ThreeSource", rd |-> Rd_zr(w), rn |-> Rn_zr(w),
                                    rm |-> Rm_zr(w), ra |-> from_index_zr(Ra(w))]), width_of(w))

\* Rows 1 and 3 of the upper half are FlagM and row 5 is unallocated.
data_processing_register(w) ==
    LET op2 == bits(w, 24, 21)
    IN  IF ~bit(w, 28)
        THEN CASE op2 < 8                -> logical_shifted(w)
               [] op2 >= 8 /\ op2 % 2 = 0 -> add_sub_shifted(w)
               [] OTHER                  -> add_sub_extended(w)
        ELSE CASE op2 = 0  -> add_sub_with_carry(w)
               [] op2 = 2  -> conditional_compare(w)
               [] op2 = 4  -> conditional_select(w)
               [] op2 = 6  -> two_source_or_one_source(w)
               [] op2 >= 8 -> three_source(w)
               [] OTHER    -> unallocated(w)
=============================================================================
