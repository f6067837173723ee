----------------------------- MODULE Decompose ------------------------------
(***************************************************************************)
(* fp/softfloat/decompose.rs and nan.rs: unpacking, the one rounding step, *)
(* packing, and NaN propagation.  An unpacked value has its leading        *)
(* significand bit at scale(f) when it is normalised.  Loops that shift    *)
(* until a bit arrives are the closed form of where it arrives.            *)
(*                                                                         *)
(* Throughout: f a format, r the rounding mode, c the FpControl.           *)
(***************************************************************************)
EXTENDS FpFormat

GUARD_BITS == 3
scale(f)   == f.mantissa_bits + GUARD_BITS
min_exponent(f) == 1 - exponent_bias(f)

\* The position of the leading bit, -1 for zero: 63 - leading_zeros.
leading(n) == IF n = 0 THEN -1 ELSE CHOOSE k \in 0 .. 2 * WORD : pow2[k] <= n /\ n < pow2[k + 1]

\* n >> shift in a register of `width` bits, and whether a set bit fell out.
shift_right(n, shift, width) ==
    IF shift >= width THEN [kept |-> 0, lost |-> n # 0]
    ELSE [kept |-> n \div pow2[shift], lost |-> n % pow2[shift] # 0]

Unpacked(negative, exponent, significand) ==
    [is_negative |-> negative, exponent |-> exponent, significand |-> significand]
UnpackedZero(negative) == Unpacked(negative, 0, 0)

with_flags(result, raised) == [result EXCEPT !.raised = @ \cup raised]

(***************************************************************************)
(* nan.rs.                                                                 *)
(***************************************************************************)
any_nan(operands, f) == \E i \in DOMAIN operands : is_nan(f, operands[i])
signalling_among(operands, f) == \E i \in DOMAIN operands : is_signalling_nan(f, operands[i])

first_nan(operands, f) ==
    LET i == CHOOSE i \in DOMAIN operands : is_nan(f, operands[i]) /\
                 \A j \in DOMAIN operands : is_nan(f, operands[j]) => i <= j
    IN  operands[i]

\* Mutant: FPCR.DN is not looked at.
quiet_result_keeps_payload(bits, f, c) == quieten(f, bits)

quiet_result(bits, f, c) == IF c.default_nan THEN default_nan(f) ELSE quieten(f, bits)

\* propagate, when any operand is a NaN.
propagate(operands, f, c) ==
    Raising(quiet_result(first_nan(operands, f), f, c),
            IF signalling_among(operands, f) THEN {"INVALID"} ELSE {})

invalid_operation(f) == Raising(default_nan(f), {"INVALID"})

(***************************************************************************)
(* decompose.rs.                                                           *)
(***************************************************************************)
unpack(bits, f) ==
    LET m     == mantissa(f, bits)
        shift == f.mantissa_bits - leading(m)
    IN  IF raw_exponent(f, bits) # 0
        THEN Unpacked(is_negative(f, bits), raw_exponent(f, bits) - exponent_bias(f),
                      (m + pow2[f.mantissa_bits]) * pow2[GUARD_BITS])
        ELSE IF m = 0 THEN UnpackedZero(is_negative(f, bits))
        ELSE Unpacked(is_negative(f, bits), min_exponent(f) - shift,
                      (m * pow2[shift + GUARD_BITS]) % pow2[scale(f) + 1])

normalise(value, sticky, f) ==
    LET up == leading(value.significand) - scale(f)
    IN  IF up >= 0
        THEN LET s == shift_right(value.significand, up, WORD)
             IN  [value  |-> [value EXCEPT !.significand = s.kept, !.exponent = @ + up],
                  sticky |-> sticky \/ s.lost]
        ELSE [value  |-> [value EXCEPT !.significand = @ * pow2[-up], !.exponent = @ + up],
              sticky |-> sticky]

should_round_up(discarded, sticky, significand, r, negative) ==
    LET half == pow2[GUARD_BITS - 1]
    IN  CASE r = "Nearest"     -> \/ discarded > half
                                  \/ discarded = half /\ sticky
                                  \/ discarded = half /\ (significand \div pow2[GUARD_BITS]) % 2 = 1
          [] r = "NearestAway" -> discarded >= half
          [] r = "Plus"        -> ~negative
          [] r = "Minus"       -> negative
          [] r \in {"Zero", "Odd"} -> FALSE

round_significand(significand, exponent, sticky, r, negative) ==
    LET discarded == significand % pow2[GUARD_BITS]
        truncated == significand - discarded
        rounded   == IF should_round_up(discarded, sticky, significand, r, negative)
                     THEN truncated + pow2[GUARD_BITS] ELSE truncated
    IN  IF discarded = 0 /\ ~sticky
        THEN [significand |-> significand, exponent |-> exponent, raised |-> {}]
        ELSE IF leading(rounded) > leading(significand)
        THEN [significand |-> rounded \div 2, exponent |-> exponent + 1, raised |-> {"INEXACT"}]
        ELSE [significand |-> rounded, exponent |-> exponent, raised |-> {"INEXACT"}]

overflow(negative, f, r) ==
    LET to_infinity == CASE r \in {"Nearest", "NearestAway"} -> TRUE
                         [] r \in {"Zero", "Odd"}            -> FALSE
                         [] r = "Plus"                       -> ~negative
                         [] r = "Minus"                      -> negative
    IN  Raising(IF to_infinity THEN signed_infinity(f, negative)
                ELSE max_finite(f) + zero(f, negative),
                {"OVERFLOW", "INEXACT"})

round_to_zero_or_minimum(negative, f, r) ==
    zero(f, negative) + (IF (r = "Plus" /\ ~negative) \/ (r = "Minus" /\ negative) THEN 1 ELSE 0)

\* Rounding may have halved the significand; its exponent is not looked at.
pack_subnormal(value, sticky, f, r) ==
    LET shift   == min_exponent(f) - value.exponent
        s       == shift_right(value.significand, shift, WORD)
        rounded == round_significand(s.kept, min_exponent(f), sticky \/ s.lost, r, value.is_negative)
    IN  IF shift >= scale(f) + 1
        THEN Raising(round_to_zero_or_minimum(value.is_negative, f, r), {"UNDERFLOW", "INEXACT"})
        ELSE Raising(zero(f, value.is_negative) + (rounded.significand \div pow2[GUARD_BITS]),
                     IF rounded.raised = {} THEN {} ELSE {"INEXACT", "UNDERFLOW"})

pack_normalised(value, sticky, f, r) ==
    LET rounded == round_significand(value.significand, value.exponent, sticky, r, value.is_negative)
    IN  IF value.exponent < min_exponent(f) THEN pack_subnormal(value, sticky, f, r)
        ELSE IF rounded.exponent > exponent_bias(f) THEN overflow(value.is_negative, f, r)
        ELSE Raising(zero(f, value.is_negative)
                     + (rounded.exponent + exponent_bias(f)) * pow2[f.mantissa_bits]
                     + ((rounded.significand \div pow2[GUARD_BITS]) % pow2[f.mantissa_bits]),
                     rounded.raised)

apply_flush_to_zero(result, f, c) ==
    IF ~is_flushing(f, c) \/ ~is_subnormal(f, result.bits) THEN result
    ELSE Raising(zero(f, is_negative(f, result.bits)), result.raised \cup {"UNDERFLOW", "INEXACT"})

round_and_pack(value, sticky, f, r, c) ==
    IF value.significand = 0 THEN Exact(zero(f, value.is_negative))
    ELSE LET n == normalise(value, sticky, f)
         IN  apply_flush_to_zero(pack_normalised(n.value, n.sticky, f, r), f, c)
=============================================================================
