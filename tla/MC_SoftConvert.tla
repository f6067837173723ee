--------------------------- MODULE MC_SoftConvert ---------------------------
(***************************************************************************)
(* A sweep of the conversions: every Double pattern (and the Single, Half  *)
(* and integer patterns that its low bits are) through every conversion.   *)
(* Half and Single are those of MC_Softfloat.  A Double with 5 mantissa    *)
(* bits and a word of 10 lets narrowing drop bits below the guard bits and *)
(* gives NaNs a payload that moves between formats; a Double with 2 and a  *)
(* word of 7 has values beyond the range of a u128.                        *)
(* Integers have 4 bits or those of the word.                              *)
(***************************************************************************)
EXTENDS Softfloat, Ieee

MC_Half   == [name |-> "Half", mantissa_bits |-> 1, exponent_bits |-> 2]
MC_Single == [name |-> "Single", mantissa_bits |-> 2, exponent_bits |-> 3]
MC_Double == [name |-> "Double", mantissa_bits |-> 2, exponent_bits |-> 5]
MC_LongDouble == [name |-> "Double", mantissa_bits |-> 5, exponent_bits |-> 5]

\* Half, Single and Double are each no wider than the next, and the integers a
\* mantissa can hold are in the range of Single and Double.
ASSUME WidthAssumption ==
    /\ Half.mantissa_bits <= Single.mantissa_bits /\ Half.exponent_bits <= Single.exponent_bits
    /\ Single.mantissa_bits <= Double.mantissa_bits /\ Single.exponent_bits <= Double.exponent_bits
    /\ \A f \in {Single, Double} : f.mantissa_bits <= exponent_bias(f)

VARIABLE x

Init == x = 0
Next == x + 1 \in Patterns(Double) /\ x' = x + 1
Spec == Init /\ [][Next]_x

Ieee754    == from_bits(0)
IntFormats == [bits : {4, WORD}, is_signed : BOOLEAN]

IsNumber(f) == IsFinite(f, x) /\ ~is_zero(f, x)

\* x of format f as an integer of the target, or the nearest end of its range.
ExpectedInteger(f, target, r) ==
    LET q        == Scaled(f, x, 0)
        negative == is_negative(f, x)
        n        == RoundedInteger(q.num, q.den, negative, r)
        value    == IF negative THEN -n ELSE n
        low      == IF target.is_signed THEN -(pow2[target.bits - 1]) ELSE 0
        high     == IF target.is_signed THEN pow2[target.bits - 1] - 1 ELSE pow2[target.bits] - 1
        pattern(v) == v % pow2[target.bits]
    IN  IF negative /\ ~target.is_signed THEN Raising(0, {"INVALID"})
        ELSE IF value < low THEN Raising(pattern(low), {"INVALID"})
        ELSE IF value > high THEN Raising(pattern(high), {"INVALID"})
        ELSE Raising(pattern(value), IF n * q.den = q.num THEN {} ELSE {"INEXACT"})

(***************************************************************************)
(* "An out-of-range FP-to-integer conversion saturates and raises invalid  *)
(* rather than wrapping" (convert.rs): the result is the rounded value, or *)
(* the end of the range with INVALID, for both signs and widths and every  *)
(* mode.  Values of 2^128 and beyond are left to NeverWraps; a negative    *)
(* value has no unsigned result, even one that would round to zero.        *)
(***************************************************************************)
IntegerOrSaturated ==
    \A f \in Formats, target \in IntFormats, r \in Modes :
        x \in Patterns(f) /\ IsNumber(f) /\ unpack(x, f).exponent < 2 * WORD =>
            to_integer(x, f, target, r) = ExpectedInteger(f, target, r)

\* The same sentence of convert.rs, for every finite value.
NeverWraps ==
    \A f \in Formats, target \in IntFormats, r \in Modes :
        x \in Patterns(f) /\ IsNumber(f) =>
            to_integer(x, f, target, r) = ExpectedInteger(f, target, r)

(***************************************************************************)
(* SCVTF and UCVTF are correctly rounded from either width and signedness  *)
(* (from_integer), the most negative integer included.                     *)
(***************************************************************************)
FromIntegerIsRounded ==
    \A f \in Formats, source \in IntFormats, r \in Modes :
        x < pow2[WORD] =>
            LET low   == x % pow2[source.bits]
                value == IF source.is_signed /\ low >= pow2[source.bits - 1]
                         THEN low - pow2[source.bits] ELSE low
            IN  from_integer(x, source, f, r, Ieee754)
                  = RoundedSum(value * pow2[UnitBits(f)], 1, FALSE, f, r)

ExpectedNarrow(source, target, r) ==
    LET q == Scaled(source, x, UnitBits(target))
    IN  Rounded(q.num, q.den, is_negative(source, x), target, r)

Narrowings == {<<Double, Single>>, <<Double, Half>>, <<Single, Half>>}

(***************************************************************************)
(* FCVT to a narrower format rounds once and raises IEEE's flags (rescale  *)
(* keeps what it drops in the sticky bit), but for the subnormal carry.    *)
(***************************************************************************)
NarrowingIsRounded ==
    \A n \in Narrowings, r \in Modes :
        x \in Patterns(n[1]) /\ IsNumber(n[1]) =>
            LET q == Scaled(n[1], x, UnitBits(n[2]))
            IN  RoundedOrHalved(convert_format(x, n[1], n[2], Ieee754, r),
                                ExpectedNarrow(n[1], n[2], r), q.num, q.den, n[2])

(***************************************************************************)
(* FCVT to a wider format and back is the identity, on subnormals too, and *)
(* a quiet NaN keeps its payload (convert_nan aligns it to the left).      *)
(***************************************************************************)
WideningRoundTrips ==
    \A n \in Narrowings :
        x \in Patterns(n[2]) =>
            LET wide == convert_format(x, n[2], n[1], Ieee754, "Nearest")
                back == convert_format(wide.bits, n[1], n[2], Ieee754, "Nearest")
            IN  IF is_signalling_nan(n[2], x)
                THEN wide.raised = {"INVALID"} /\ back = Exact(quieten(n[2], x))
                ELSE wide.raised = {} /\ back = Exact(x)

\* Conversions into a format, from integers and from wider formats, round once,
\* and into a wider one lose nothing (from_integer, convert_format, convert_nan).
ConversionIsRounded == FromIntegerIsRounded /\ NarrowingIsRounded /\ WideningRoundTrips

(***************************************************************************)
(* pack_subnormal (decompose.rs): "Rounding a subnormal up can reach the   *)
(* smallest normal, which encodes naturally: the implicit bit lands in the *)
(* exponent field."                                                        *)
(***************************************************************************)
SubnormalRoundsUp ==
    \A n \in Narrowings, r \in Modes :
        x \in Patterns(n[1]) /\ IsNumber(n[1]) =>
            LET correct == ExpectedNarrow(n[1], n[2], r)
            IN  magnitude_bits(n[2], correct.bits) = pow2[n[2].mantissa_bits] =>
                    convert_format(x, n[1], n[2], Ieee754, r) = correct

(***************************************************************************)
(* FRINT returns the integral value of the rounding mode with the sign of  *)
(* its operand, a zero included (round_to_integral), and an operand that   *)
(* is an integer already raises nothing.  Whether another raises INEXACT   *)
(* is left open: scalar.rs says FRINTX and FRINTI differ in it, and both   *)
(* reach round_to_integral, which never raises it.                         *)
(***************************************************************************)
IntegralIsRounded ==
    \A f \in {Single, Double}, r \in Modes :
        x \in Patterns(f) /\ IsNumber(f) =>
            LET q      == Scaled(f, x, 0)
                n      == RoundedInteger(q.num, q.den, is_negative(f, x), r)
                result == round_to_integral(x, f, r, Ieee754)
                q2     == Scaled(f, result.bits, 0)
            IN  /\ q2.num = n * q2.den
                /\ is_negative(f, result.bits) = is_negative(f, x)
                /\ result.raised \subseteq IF q.num = n * q.den THEN {} ELSE {"INEXACT"}
=============================================================================
