-------------------------- MODULE DecodeImmediate --------------------------
(***************************************************************************)
(* op0 = 100x, data processing (immediate): decode/group/dp_immediate.rs.  *)
(***************************************************************************)
EXTENDS Encoding

\* ADR and ADRP.  The offset is counted in bytes or in pages; the source
\* multiplies it out, which would leave TLC's integers.
pc_relative(w) ==
    LET is_page == bit(w, 31)
        imm     == bits(w, 23, 5) * 4 + bits(w, 30, 29)
    IN  new(w, IF is_page THEN "Adrp" ELSE "Adr",
            [kind |-> "PcRelAddr", rd |-> Rd_zr(w), offset |-> sign_extend(imm, 21),
             unit |-> IF is_page THEN 4096 ELSE 1])

\* Slot 31 as a destination: the zero register exactly when flags are set.
destination(w, sets_flags) == IF sets_flags THEN Rd_zr(w) ELSE from_index_sp(Rd(w))

add_sub_immediate(w) ==
    LET sh    == bits(w, 23, 22)
        flags == bit(w, 29)
        imm   == ShlBits(OneBits(bits(w, 21, 10)), IF sh % 2 = 0 THEN 0 ELSE 12)
        insn  == new(w, IF bit(w, 30) THEN "Sub" ELSE "Add",
                     RegImm(destination(w, flags), Rn_sp(w), imm))
    IN  IF sh >= 2 THEN unallocated(w)
        ELSE setting_flags(with_width(insn, from_sf(bit(w, 31))), flags)

\* The position of the highest one bit of a number of at most seven bits.
highest_bit(n) == CHOOSE i \in 0 .. 6 : Pow2[i] <= n /\ n < Pow2[i + 1]

mask_of(n) == 0 .. n - 1

\* The value doubled until it fills the operand.
replicate(pattern, esize, width) ==
    {i \in 0 .. width_bits(width) - 1 : i % esize \in pattern}

\* Mutant: the rotation is left unmasked, as a rotation of the whole register.
rotated_ones_unmasked(s, r, esize) ==
    LET ones == 0 .. s
    IN  IF r = 0 THEN ones ELSE ShrBits(ones, r) \cup ShlBits(ones, 64 - r)

\* s + 1 low ones rotated right by r within the element, not within the register.
rotated_ones(s, r, esize) ==
    LET ones == 0 .. s
    IN  IF r = 0 THEN ones ELSE (ShrBits(ones, r) \cup ShlBits(ones, esize - r)) \cap mask_of(esize)

decode_bit_masks(n, immr, imms, width) ==
    LET combined == 64 * n + (63 - imms)
        len      == highest_bit(combined)
        esize    == Pow2[len]
        s        == imms % esize
        r        == immr % esize
    IN  IF combined = 0 \/ (width = "W32" /\ len = 6) \/ s = esize - 1 THEN None
        ELSE Some(replicate(rotated_ones(s, r, esize), esize, width))

logical_op == <<"And", "Orr", "Eor", "And">>

logical_immediate(w) ==
    LET width == from_sf(bit(w, 31))
        n     == bits(w, 22, 22)
        masks == decode_bit_masks(n, bits(w, 21, 16), bits(w, 15, 10), width)
        opc   == bits(w, 30, 29)
        flags == opc = 3
        imm   == CHOOSE m \in masks : TRUE
    IN  IF (width = "W32" /\ n = 1) \/ masks = None THEN unallocated(w)
        ELSE setting_flags(with_width(new(w, logical_op[opc + 1],
                 RegImm(destination(w, flags), Rn_zr(w), imm)), width), flags)

move_wide(w) ==
    LET width == from_sf(bit(w, 31))
        hw    == bits(w, 22, 21)
        opc   == bits(w, 30, 29)
        op    == <<"Movn", "Unallocated", "Movz", "Movk">>[opc + 1]
    IN  IF (width = "W32" /\ hw >= 2) \/ opc = 1 THEN unallocated(w)
        ELSE with_width(new(w, op, [kind |-> "MoveWide", rd |-> Rd_zr(w),
                                    imm16 |-> bits(w, 20, 5), hw |-> hw]), width)

\* Bitfield has one source, which stands in both source slots.
bitfield(w) ==
    LET width == from_sf(bit(w, 31))
        immr  == bits(w, 21, 16)
        imms  == bits(w, 15, 10)
        opc   == bits(w, 30, 29)
    IN  IF bit(w, 22) # bit(w, 31) \/ (width = "W32" /\ (immr >= 32 \/ imms >= 32)) \/ opc = 3
        THEN unallocated(w)
        ELSE with_width(new(w, <<"Sbfm", "Bfm", "Ubfm">>[opc + 1],
                            Bitfield(Rd_zr(w), Rn_zr(w), Rn_zr(w), immr, imms)), width)

extract(w) ==
    LET width == from_sf(bit(w, 31))
        imms  == bits(w, 15, 10)
    IN  IF \/ bits(w, 30, 29) # 0 \/ bit(w, 21) \/ bit(w, 22) # bit(w, 31)
           \/ width = "W32" /\ imms >= 32
        THEN unallocated(w)
        ELSE with_width(new(w, "Extr", Bitfield(Rd_zr(w), Rn_zr(w), Rm_zr(w), 0, imms)), width)

\* 3 is add/sub with tags, which needs MTE.
data_processing_immediate(w) ==
    LET op0 == bits(w, 25, 23)
    IN  CASE op0 \in {0, 1} -> pc_relative(w)
          [] op0 = 2        -> add_sub_immediate(w)
          [] op0 = 4        -> logical_immediate(w)
          [] op0 = 5        -> move_wide(w)
          [] op0 = 6        -> bitfield(w)
          [] op0 = 7        -> extract(w)
          [] OTHER          -> unallocated(w)
=============================================================================
