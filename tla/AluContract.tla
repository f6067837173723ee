----------------------------- MODULE AluContract -----------------------------
(***************************************************************************)
(* What the integer datapath of Alu promises of two operands: its bit      *)
(* level definitions compute the integers they stand for.                  *)
(***************************************************************************)
EXTENDS Alu

FitsSigned(i, n) == -Pow2[n - 1] <= i /\ i < Pow2[n - 1]

(***************************************************************************)
(* What add_with_carry (interp/flags.rs) promises: at either width the     *)
(* value is the sum modulo 2^bits, C is the unsigned overflow, V the       *)
(* signed overflow, N the sign and Z zero of the truncated sum.            *)
(***************************************************************************)
AddFlagsMeanOverflow(left, right) ==
    \A width \in Widths, carry \in BOOLEAN :
        LET n == bits(width)
            l == masked(left, width)
            r == masked(right, width)
            c == IF carry THEN 1 ELSE 0
            sum == add_with_carry(left, right, carry, width)
            true_signed == Signed(l, n) + Signed(r, n) + c
        IN  /\ sum.value = (l + r + c) % Pow2[n]
            /\ sum.flags.c = (l + r + c >= Pow2[n])
            /\ sum.flags.v = ~FitsSigned(true_signed, n)
            /\ sum.flags.n = (Signed(sum.value, n) < 0)
            /\ sum.flags.z = (sum.value = 0)

(***************************************************************************)
(* A compare (SUBS: right inverted, carry in set, dispatch.rs arithmetic)  *)
(* followed by a condition decides the integer relation the condition is   *)
(* named for, unsigned and signed, at both widths; and a condition and the *)
(* one that inverts it are never both met.                                 *)
(***************************************************************************)
CompareDecidesOrder(left, right) ==
    \A width \in Widths :
        LET n == bits(width)
            l == masked(left, width)
            r == masked(right, width)
            f == add_with_carry(left, BitNot(right), TRUE, width).flags
            met(cond) == is_condition_met(cond, f)
        IN  /\ met("Eq") = (l = r) /\ met("Ne") = (l # r)
            /\ met("Cs") = (l >= r) /\ met("Cc") = (l < r)
            /\ met("Hi") = (l > r) /\ met("Ls") = (l <= r)
            /\ met("Ge") = (Signed(l, n) >= Signed(r, n))
            /\ met("Lt") = (Signed(l, n) < Signed(r, n))
            /\ met("Gt") = (Signed(l, n) > Signed(r, n))
            /\ met("Le") = (Signed(l, n) <= Signed(r, n))
            /\ met("Vs") # met("Vc") /\ met("Mi") # met("Pl")
            /\ met("Al") /\ met("Nv")

(***************************************************************************)
(* read_shifted (interp/fetch.rs): a rotate of a W register, built from a  *)
(* 64-bit rotate and rotate_carry, moves each bit round within the width;  *)
(* ASR is floor division of the signed value; LSL and LSR scale it.        *)
(***************************************************************************)
ShiftsStayInWidth(left, right) ==
    \A width \in Widths :
        LET n == bits(width)
            v == masked(left, width)
            a == right
        IN  a < n =>
            /\ \A i \in 0 .. 7 :
                  Bit(shifted(left, "Ror", a, width), i)
                    = IF i < n THEN Bit(v, (i + a) % n) ELSE 0
            /\ shifted(left, "Asr", a, width) = (Signed(v, n) \div Pow2[a]) % Pow2[n]
            /\ shifted(left, "Lsl", a, width) = (v * Pow2[a]) % Pow2[n]
            /\ shifted(left, "Lsr", a, width) = v \div Pow2[a]

(***************************************************************************)
(* read_extended (interp/fetch.rs): the low source_bits of the register,   *)
(* read signed or unsigned, times 2^amount, modulo the register.           *)
(***************************************************************************)
ExtensionIsArithmetic(left, right) ==
    \A sb \in SourceBits, signed \in BOOLEAN :
        right <= 4 =>
            LET low == left % Pow2[sb]
                value == IF signed THEN Signed(low, sb) ELSE low
            IN  extended(left, sb, signed, right) = (value * Pow2[right]) % 256
=============================================================================
