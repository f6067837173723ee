-------------------------------- MODULE Alu --------------------------------
(***************************************************************************)
(* The integer datapath of the interpreter: NZCV production and            *)
(* consumption (interp/flags.rs), operand shifting and extension           *)
(* (interp/fetch.rs) and the sign extension of loads (interp/dispatch.rs). *)
(*                                                                         *)
(* Scale.  One model bit stands for one byte of the machine: a u64 is an   *)
(* 8-bit word, a W register 4 bits, and the four source widths of an       *)
(* extension (8, 16, 32 and 64 bits) are 1, 2, 4 and 8.  Every ratio       *)
(* between the widths, which is what the definitions depend on, is kept.   *)
(* No operator here is recursive, so that theorems can be proved about the *)
(* modules that use them.                                                  *)
(***************************************************************************)
EXTENDS Integers

XBits  == 8
Word   == 0 .. 255
Widths == {"W32", "X64"}

\* 2^n for the bit positions of a word.
Pow2 == [n \in 0 .. 8 |->
          CASE n = 0 -> 1 [] n = 1 -> 2  [] n = 2 -> 4  [] n = 3 -> 8
            [] n = 4 -> 16 [] n = 5 -> 32 [] n = 6 -> 64 [] n = 7 -> 128
            [] OTHER -> 256]

\* RegWidth::bits and RegWidth::mask; masking is reduction modulo 2^bits.
bits(width)        == IF width = "W32" THEN 4 ELSE XBits
modulus(width)     == IF width = "W32" THEN 16 ELSE 256
masked(v, width)   == v % modulus(width)
\* The low n bits of v (mask_to).
mask_to(v, n)      == v % Pow2[n]

Bit(v, i)    == (v \div Pow2[i]) % 2
FromBits(b)  == b[0] + 2 * b[1] + 4 * b[2] + 8 * b[3]
                + 16 * b[4] + 32 * b[5] + 64 * b[6] + 128 * b[7]
BitNot(v)    == 255 - v
BitAnd(a, b) == FromBits([i \in 0 .. 7 |-> IF Bit(a, i) = 1 /\ Bit(b, i) = 1 THEN 1 ELSE 0])
BitOr(a, b)  == FromBits([i \in 0 .. 7 |-> IF Bit(a, i) = 1 \/ Bit(b, i) = 1 THEN 1 ELSE 0])
BitXor(a, b) == FromBits([i \in 0 .. 7 |-> IF Bit(a, i) # Bit(b, i) THEN 1 ELSE 0])

\* u64 shifts and the i64 arithmetic shift; n < XBits.
Shl(v, n) == (v * Pow2[n]) % 256
Shr(v, n) == v \div Pow2[n]
\* The two's complement reading of an n-bit value.
Signed(v, n) == IF v >= Pow2[n - 1] THEN v - Pow2[n] ELSE v
Sar(v, n) == (Signed(v, XBits) \div Pow2[n]) % 256

(***************************************************************************)
(* NZCV.                                                                   *)
(***************************************************************************)
Nzcv == [n : BOOLEAN, z : BOOLEAN, c : BOOLEAN, v : BOOLEAN]

\* Nzcv::to_bits, the nibble the trace word carries.
to_bits(f) == (IF f.n THEN 8 ELSE 0) + (IF f.z THEN 4 ELSE 0)
              + (IF f.c THEN 2 ELSE 0) + (IF f.v THEN 1 ELSE 0)

sign_bit(v, width) == Bit(v, bits(width) - 1) = 1

\* Mutant: the carry is taken out of the top of the register, not of the width.
carry_out_of_register(unsigned, width) == unsigned >= 256

\* unsigned >> bits # 0.
carry_out(unsigned, width) == unsigned >= modulus(width)

\* left + right + carry_in at width, with the flags it would set.
add_with_carry(l, r, carry_in, width) ==
    LET left     == masked(l, width)
        right    == masked(r, width)
        unsigned == left + right + (IF carry_in THEN 1 ELSE 0)
        value    == masked(unsigned, width)
    IN  [value |-> value,
         flags |-> [n |-> sign_bit(value, width),
                    z |-> value = 0,
                    c |-> carry_out(unsigned, width),
                    v |-> sign_bit(BitAnd(BitXor(left, value), BitXor(right, value)), width)]]

logical_flags(v, width) ==
    LET value == masked(v, width)
    IN  [n |-> sign_bit(value, width), z |-> value = 0, c |-> FALSE, v |-> FALSE]

Conds == {"Eq", "Ne", "Cs", "Cc", "Mi", "Pl", "Vs", "Vc", "Hi", "Ls", "Ge", "Lt", "Gt", "Le",
          "Al", "Nv"}

\* The two compound tests the last six conditions are built from.
unsigned_higher(f) == f.c /\ ~f.z
signed_greater(f)  == ~f.z /\ (f.n = f.v)

is_condition_met(cond, f) ==
    CASE cond = "Eq" -> f.z
      [] cond = "Ne" -> ~f.z
      [] cond = "Cs" -> f.c
      [] cond = "Cc" -> ~f.c
      [] cond = "Mi" -> f.n
      [] cond = "Pl" -> ~f.n
      [] cond = "Vs" -> f.v
      [] cond = "Vc" -> ~f.v
      [] cond = "Hi" -> unsigned_higher(f)
      [] cond = "Ls" -> ~unsigned_higher(f)
      [] cond = "Ge" -> f.n = f.v
      [] cond = "Lt" -> f.n # f.v
      [] cond = "Gt" -> signed_greater(f)
      [] cond = "Le" -> ~signed_greater(f)
      [] OTHER       -> TRUE   \* Al and Nv

(***************************************************************************)
(* Operand fetch.                                                          *)
(***************************************************************************)
ShiftKinds == {"Lsl", "Lsr", "Asr", "Ror"}

\* (value << shift) as i64 >> shift, for an n-bit value.
sign_extend_to_64(v, n) ==
    IF n >= XBits THEN v ELSE Sar(Shl(v, XBits - n), XBits - n)

\* u64::rotate_right.
rotate_right(v, n) == Shr(v, n) + Shl(v % Pow2[n], (XBits - n) % XBits)

\* The bits a W rotate must pull back down from the 64-bit rotation.
rotate_carry(v, amount, n) ==
    IF n >= XBits \/ amount = 0 THEN 0 ELSE Shl(v, n - (amount % n))

\* read_shifted on a register value; the decoder keeps amount < bits(width).
shifted(v, kind, amount, width) ==
    LET value == masked(v, width)
        n     == bits(width)
        raw   == CASE kind = "Lsl" -> Shl(value, amount)
                   [] kind = "Lsr" -> Shr(value, amount)
                   [] kind = "Asr" -> Sar(sign_extend_to_64(value, n), amount)
                   [] kind = "Ror" -> BitOr(rotate_right(value, amount),
                                            rotate_carry(value, amount, n))
    IN  masked(raw, width)

\* ExtendKind::source_bits at the model's scale; is_signed is the other field.
SourceBits == {1, 2, 4, 8}

\* read_extended on a register value: extend from source_bits, then shift left.
extended(v, source_bits, is_signed, amount) ==
    Shl(IF is_signed THEN sign_extend_to_64(v, source_bits)
                     ELSE mask_to(v, source_bits), amount)
=============================================================================
