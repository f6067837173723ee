---------------------------- MODULE SoftConvert -----------------------------
(***************************************************************************)
(* fp/softfloat/convert.rs and compare.rs: conversions between formats, to *)
(* and from integers, rounding to an integral value, comparison, and the   *)
(* extrema.  An IntFormat is a record [bits, is_signed].                   *)
(***************************************************************************)
EXTENDS Decompose

(***************************************************************************)
(* Between formats.                                                        *)
(***************************************************************************)
\* The payload is left-aligned in both formats.
moved_payload(bits, source, target) ==
    LET wider == target.mantissa_bits - source.mantissa_bits
    IN  IF wider >= 0 THEN (mantissa(source, bits) * pow2[wider]) % quiet_bit(target)
        ELSE (mantissa(source, bits) \div pow2[-wider]) % quiet_bit(target)

convert_nan(bits, source, target, c) ==
    Raising(IF c.default_nan THEN default_nan(target)
            ELSE zero(target, is_negative(source, bits)) + default_nan(target)
                 + moved_payload(bits, source, target),
            IF is_signalling_nan(source, bits) THEN {"INVALID"} ELSE {})

\* Mutant: narrowing forgets the bits it drops.
rescale_exact(significand, source, target) ==
    LET wider == scale(target) - scale(source)
    IN  IF wider >= 0 THEN [kept |-> significand * pow2[wider], lost |-> FALSE]
        ELSE [kept |-> significand \div pow2[-wider], lost |-> FALSE]

rescale(significand, source, target) ==
    LET wider == scale(target) - scale(source)
    IN  IF wider >= 0 THEN [kept |-> significand * pow2[wider], lost |-> FALSE]
        ELSE shift_right(significand, -wider, WORD)

convert_format(bits, source, target, c, r) ==
    LET value == unpack(bits, source)
        s     == rescale(value.significand, source, target)
    IN  IF is_nan(source, bits) THEN convert_nan(bits, source, target, c)
        ELSE IF is_infinite(source, bits) THEN Exact(signed_infinity(target, is_negative(source, bits)))
        ELSE IF is_zero(source, bits) THEN Exact(zero(target, is_negative(source, bits)))
        ELSE round_and_pack([value EXCEPT !.significand = s.kept], s.lost, target, r, c)

(***************************************************************************)
(* Rounding at the units place.                                            *)
(***************************************************************************)
points_away(r, negative) == (r = "Plus" /\ ~negative) \/ (r = "Minus" /\ negative)

\* Mutant: a tie away from zero is broken to even.
rounds_away_tie_even(truncated, remainder, shift, r, negative) ==
    LET half == pow2[shift - 1]
    IN  CASE r \in {"Nearest", "NearestAway"} ->
                 remainder > half \/ (remainder = half /\ truncated % 2 = 1)
          [] r = "Zero"        -> FALSE
          [] r \in {"Plus", "Minus"} -> points_away(r, negative)
          [] r = "Odd"         -> truncated % 2 = 0

\* Whether a non-zero remainder rounds the magnitude up.
rounds_away(truncated, remainder, shift, r, negative) ==
    LET half == pow2[shift - 1]
    IN  CASE r = "Nearest"     -> remainder > half \/ (remainder = half /\ truncated % 2 = 1)
          [] r = "NearestAway" -> remainder >= half
          [] r = "Zero"        -> FALSE
          [] r \in {"Plus", "Minus"} -> points_away(r, negative)
          [] r = "Odd"         -> truncated % 2 = 0

\* The significand shifted right and rounded to an integer.
rounded_at(significand, shift, r, negative) ==
    LET remainder == significand % pow2[shift]
        truncated == significand \div pow2[shift]
    IN  IF remainder # 0 /\ rounds_away(truncated, remainder, shift, r, negative)
        THEN truncated + 1 ELSE truncated

round_to_integral(bits, f, r, c) ==
    LET value    == unpack(bits, f)
        shift    == scale(f) - value.exponent
        integral == rounded_at(value.significand, shift, r, value.is_negative)
        one      == Unpacked(value.is_negative, 0, pow2[scale(f)])
        nothing  == Exact(zero(f, value.is_negative))
    IN  IF is_nan(f, bits) THEN propagate(<<bits>>, f, c)
        ELSE IF is_infinite(f, bits) \/ is_zero(f, bits) \/ shift <= 0 THEN Exact(bits)
        ELSE IF shift >= WORD
        THEN IF points_away(r, value.is_negative) THEN round_and_pack(one, FALSE, f, r, c) ELSE nothing
        ELSE IF integral = 0 THEN nothing
        ELSE round_and_pack([value EXCEPT !.significand = integral * pow2[shift]], FALSE, f, r, c)

(***************************************************************************)
(* To and from integers.                                                   *)
(***************************************************************************)
mask_to_width(value, target) == value % pow2[target.bits]

\* integral_magnitude: the rounded absolute value in a u128, and whether it is
\* inexact.  A left shift by less than the width drops the bits it pushes out.
integral_magnitude(value, f, r) ==
    LET shift == value.exponent - scale(f)
    IN  IF shift >= 2 * WORD THEN [kept |-> pow2[2 * WORD] - 1, lost |-> FALSE]
        ELSE IF shift >= 0
        THEN [kept |-> (value.significand * pow2[shift]) % pow2[2 * WORD], lost |-> FALSE]
        ELSE IF -shift >= WORD
        THEN [kept |-> IF points_away(r, value.is_negative) THEN 1 ELSE 0, lost |-> TRUE]
        ELSE [kept |-> rounded_at(value.significand, -shift, r, value.is_negative),
              lost |-> value.significand % pow2[-shift] # 0]

\* Mutant: both signs share the positive limit.
magnitude_limit_symmetric(negative, target) ==
    IF ~target.is_signed THEN pow2[target.bits] - 1 ELSE pow2[target.bits - 1] - 1

magnitude_limit(negative, target) ==
    IF ~target.is_signed THEN pow2[target.bits] - 1
    ELSE IF negative THEN pow2[target.bits - 1] ELSE pow2[target.bits - 1] - 1

saturate(negative, target) ==
    IF target.is_signed THEN pow2[target.bits - 1] - (IF negative THEN 0 ELSE 1)
    ELSE IF negative THEN 0 ELSE pow2[target.bits] - 1

encode_integer(m, negative, target) ==
    IF ~target.is_signed /\ negative THEN Raising(0, {"INVALID"})
    ELSE IF m.kept > magnitude_limit(negative, target)
    THEN Raising(saturate(negative, target), {"INVALID"})
    ELSE Raising(mask_to_width(IF negative THEN pow2[WORD] - m.kept ELSE m.kept, target),
                 IF m.lost THEN {"INEXACT"} ELSE {})

to_integer(bits, f, target, r) ==
    IF is_nan(f, bits) THEN Raising(0, {"INVALID"})
    ELSE IF is_infinite(f, bits) THEN Raising(saturate(is_negative(f, bits), target), {"INVALID"})
    ELSE IF is_zero(f, bits) THEN Exact(0)
    ELSE encode_integer(integral_magnitude(unpack(bits, f), f, r), is_negative(f, bits), target)

is_negative_source(value, source) == source.is_signed /\ value >= pow2[source.bits - 1]

from_integer(value0, source, target, r, c) ==
    LET value     == mask_to_width(value0, source)
        negative  == is_negative_source(value, source)
        magnitude == IF negative THEN mask_to_width(pow2[WORD] - value, source) ELSE value
        up        == leading(magnitude) - scale(target)
        s         == IF up <= 0 THEN [kept |-> magnitude * pow2[-up], lost |-> FALSE]
                     ELSE shift_right(magnitude, up, WORD)
    IN  IF magnitude = 0 THEN Exact(zero(target, FALSE))
        ELSE round_and_pack(Unpacked(negative, leading(magnitude), s.kept), s.lost, target, r, c)

(***************************************************************************)
(* Comparison and the extrema.                                             *)
(***************************************************************************)
\* Mutant: the order of the patterns is not reversed for negative values.
ordering_unreversed(lhs, rhs, f) ==
    IF (is_zero(f, lhs) /\ is_zero(f, rhs)) \/ lhs = rhs THEN "Equal"
    ELSE IF is_negative(f, lhs) # is_negative(f, rhs)
    THEN IF is_negative(f, lhs) THEN "Less" ELSE "Greater"
    ELSE IF magnitude_bits(f, lhs) < magnitude_bits(f, rhs) THEN "Less" ELSE "Greater"

ordering(lhs, rhs, f) ==
    IF (is_zero(f, lhs) /\ is_zero(f, rhs)) \/ lhs = rhs THEN "Equal"
    ELSE IF is_negative(f, lhs) # is_negative(f, rhs)
    THEN IF is_negative(f, lhs) THEN "Less" ELSE "Greater"
    ELSE IF (magnitude_bits(f, lhs) < magnitude_bits(f, rhs)) = is_negative(f, lhs)
    THEN "Greater" ELSE "Less"

compare(lhs, rhs, f, is_signalling) ==
    IF any_nan(<<lhs, rhs>>, f)
    THEN [ordering |-> "Unordered",
          raised   |-> IF is_signalling \/ signalling_among(<<lhs, rhs>>, f) THEN {"INVALID"} ELSE {}]
    ELSE [ordering |-> ordering(lhs, rhs, f), raised |-> {}]

is_maximum(which)        == which \in {"Max", "MaxNum"}
ignores_quiet_nan(which) == which \in {"MaxNum", "MinNum"}

\* numeric_nan_case: exactly one operand is a NaN, and it is quiet.
lone_quiet_nan(lhs, rhs, f) ==
    ~signalling_among(<<lhs, rhs>>, f) /\ is_nan(f, lhs) # is_nan(f, rhs)

extremum(lhs, rhs, which, f, c) ==
    IF ignores_quiet_nan(which) /\ lone_quiet_nan(lhs, rhs, f)
    THEN Exact(IF is_nan(f, lhs) THEN rhs ELSE lhs)
    ELSE IF any_nan(<<lhs, rhs>>, f) THEN propagate(<<lhs, rhs>>, f, c)
    ELSE IF is_zero(f, lhs) /\ is_zero(f, rhs)
    THEN Exact(zero(f, IF is_maximum(which) THEN is_negative(f, lhs) /\ is_negative(f, rhs)
                       ELSE is_negative(f, lhs) \/ is_negative(f, rhs)))
    ELSE Exact(IF (ordering(lhs, rhs, f) = "Greater") = is_maximum(which) THEN lhs ELSE rhs)
=============================================================================
