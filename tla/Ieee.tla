-------------------------------- MODULE Ieee --------------------------------
(***************************************************************************)
(* What the softfloat is measured against: IEEE 754 rounding stated over   *)
(* exact rationals.  Magnitudes are counted in a format's smallest         *)
(* subnormal.  The patterns 0 .. infinity(f) are in the order of their     *)
(* values, so the neighbours of a value are consecutive patterns.          *)
(***************************************************************************)
EXTENDS FpFormat

\* The magnitude of a finite pattern; infinity(f) counts as the next binade.
Ulps(f, bits) ==
    LET e == raw_exponent(f, bits)
    IN  IF e = 0 THEN mantissa(f, bits)
        ELSE (mantissa(f, bits) + pow2[f.mantissa_bits]) * pow2[e - 1]

SignedUlps(f, bits) == IF is_negative(f, bits) THEN -Ulps(f, bits) ELSE Ulps(f, bits)

IsFinite(f, bits) == raw_exponent(f, bits) # max_exponent(f)

\* log2 of the number of smallest subnormals in 1.
UnitBits(f) == f.mantissa_bits + exponent_bias(f) - 1

Abs(n) == IF n < 0 THEN -n ELSE n

\* The magnitude of a pattern times 2^k, as a fraction in small integers.
Scaled(f, bits, k) ==
    LET e     == raw_exponent(f, bits)
        digit == IF e = 0 THEN mantissa(f, bits) ELSE mantissa(f, bits) + pow2[f.mantissa_bits]
        shift == (IF e = 0 THEN 0 ELSE e - 1) - UnitBits(f) + k
    IN  [num |-> IF shift >= 0 THEN digit * pow2[shift] ELSE digit,
         den |-> IF shift >= 0 THEN 1 ELSE pow2[-shift]]

\* The largest pattern whose value is at most num / den.
Floor(num, den, f) ==
    CHOOSE b \in 0 .. infinity(f) :
        /\ Ulps(f, b) * den <= num
        /\ b < infinity(f) => num < Ulps(f, b + 1) * den

\* Whether num / den, strictly between two neighbours, goes to the upper one.
GoesUp(num, den, low, high, is_even, negative, r) ==
    CASE r = "Nearest"     -> \/ 2 * num > (low + high) * den
                              \/ 2 * num = (low + high) * den /\ ~is_even
      [] r = "NearestAway" -> 2 * num >= (low + high) * den
      [] r = "Zero"        -> FALSE
      [] r = "Plus"        -> ~negative
      [] r = "Minus"       -> negative

RoundedPattern(num, den, negative, f, r) ==
    LET b == Floor(num, den, f)
    IN  IF b = infinity(f)
        THEN IF r \in {"Nearest", "NearestAway"} \/ GoesUp(1, 1, 0, 0, TRUE, negative, r)
             THEN b ELSE b - 1
        ELSE IF Ulps(f, b) * den = num THEN b
        ELSE IF GoesUp(num, den, Ulps(f, b), Ulps(f, b + 1), b % 2 = 0, negative, r)
        THEN b + 1 ELSE b

\* num / den > 0 correctly rounded to f, with its flags.  Overflow is the
\* unbounded result passing the largest finite; underflow is tininess before
\* rounding with a loss.
Rounded(num, den, negative, f, r) ==
    LET b          == RoundedPattern(num, den, negative, f, r)
        is_exact   == b < infinity(f) /\ Ulps(f, b) * den = num
        overflows  == \/ b = infinity(f)
                      \/ b = max_finite(f) /\ num >= Ulps(f, infinity(f)) * den
        underflows == ~is_exact /\ num < pow2[f.mantissa_bits] * den
    IN  Raising(zero(f, negative) + b,
                (IF is_exact THEN {} ELSE {"INEXACT"})
                \cup (IF overflows THEN {"OVERFLOW"} ELSE {})
                \cup (IF underflows THEN {"UNDERFLOW"} ELSE {}))

\* result is `correct`, the rounding of num / den, except that below the normal
\* range a rounding that carries into a new bit may come out halved: what
\* pack_subnormal does, and what SubnormalRoundsUp of MC_SoftConvert is about.
RoundedOrHalved(result, correct, num, den, f) ==
    \/ result = correct
    \/ /\ num < pow2[f.mantissa_bits] * den
       /\ \E k \in 0 .. f.mantissa_bits : magnitude_bits(f, correct.bits) = pow2[k]
       /\ magnitude_bits(f, result.bits) = magnitude_bits(f, correct.bits) \div 2
       /\ is_negative(f, result.bits) = is_negative(f, correct.bits)
       /\ result.raised = correct.raised /\ "UNDERFLOW" \in correct.raised
       /\ Ulps(f, correct.bits) * den > num

\* The modes an FPCR or an encoding can name; FCVTXN's never reaches the packer.
Modes == {"Nearest", "Plus", "Minus", "Zero", "NearestAway"}

\* A signed sum of magnitudes: an exact zero has the sign of its equal-signed
\* terms, and otherwise that of the rounding mode.
RoundedSum(num, den, zero_negative, f, r) ==
    IF num = 0 THEN Exact(zero(f, zero_negative)) ELSE Rounded(Abs(num), den, num < 0, f, r)

IeeeAdd(lhs, rhs, f, r) ==
    RoundedSum(SignedUlps(f, lhs) + SignedUlps(f, rhs), 1,
               IF is_negative(f, lhs) = is_negative(f, rhs) THEN is_negative(f, lhs) ELSE r = "Minus",
               f, r)

IeeeMul(lhs, rhs, f, r) ==
    LET negative == is_negative(f, lhs) # is_negative(f, rhs)
        num      == Ulps(f, lhs) * Ulps(f, rhs)
    IN  IF num = 0 THEN Exact(zero(f, negative)) ELSE Rounded(num, pow2[UnitBits(f)], negative, f, r)

\* Division by a non-zero.
IeeeDiv(lhs, rhs, f, r) ==
    LET negative == is_negative(f, lhs) # is_negative(f, rhs)
        num      == Ulps(f, lhs) * pow2[UnitBits(f)]
    IN  IF num = 0 THEN Exact(zero(f, negative)) ELSE Rounded(num, Ulps(f, rhs), negative, f, r)

\* addend + product, the product of two finite patterns with the sign given.
IeeeFma(lhs, rhs, negative, addend, f, r) ==
    LET product == Ulps(f, lhs) * Ulps(f, rhs)
    IN  RoundedSum((IF negative THEN -product ELSE product) + SignedUlps(f, addend) * pow2[UnitBits(f)],
                   pow2[UnitBits(f)],
                   IF negative = is_negative(f, addend) THEN negative ELSE r = "Minus", f, r)

\* The root of a positive value: the neighbours are compared by their squares.
IeeeSqrt(bits, f, r) ==
    LET x  == Ulps(f, bits) * pow2[UnitBits(f)]
        b  == CHOOSE b \in 0 .. max_finite(f) :
                 Ulps(f, b) * Ulps(f, b) <= x /\ x < Ulps(f, b + 1) * Ulps(f, b + 1)
        middle == Ulps(f, b) + Ulps(f, b + 1)
    IN  IF Ulps(f, b) * Ulps(f, b) = x THEN Exact(b)
        ELSE Raising(IF r = "Plus" \/ (r \in {"Nearest", "NearestAway"} /\ 4 * x > middle * middle)
                     THEN b + 1 ELSE b, {"INEXACT"})

\* num / den rounded to an integer.
RoundedInteger(num, den, negative, r) ==
    LET n == num \div den
    IN  IF n * den = num THEN n
        ELSE IF GoesUp(num, den, n, n + 1, n % 2 = 0, negative, r) THEN n + 1 ELSE n

\* The patterns a host operation may answer with, rounding to nearest: one for
\* a number, any NaN where the result is a NaN, whose payload wasm leaves open.
HostAnswers(op, lhs, rhs, f) ==
    LET left  == lhs
        right == IF op = "Sub" THEN negated(f, rhs) ELSE rhs
        inf(b)   == is_infinite(f, b)
        null(b)  == is_zero(f, b)
        differ   == is_negative(f, left) # is_negative(f, right)
        invalid  == \/ is_nan(f, left) \/ is_nan(f, right)
                    \/ op \in {"Add", "Sub"} /\ inf(left) /\ inf(right) /\ differ
                    \/ op = "Mul" /\ ((inf(left) /\ null(right)) \/ (null(left) /\ inf(right)))
                    \/ op = "Div" /\ ((inf(left) /\ inf(right)) \/ (null(left) /\ null(right)))
    IN  IF invalid THEN {b \in Patterns(f) : is_nan(f, b)}
        ELSE {CASE op \in {"Add", "Sub"} ->
                     IF inf(left) THEN left ELSE IF inf(right) THEN right
                     ELSE IeeeAdd(left, right, f, "Nearest").bits
                [] op = "Mul" ->
                     IF inf(left) \/ inf(right) THEN signed_infinity(f, differ)
                     ELSE IeeeMul(left, right, f, "Nearest").bits
                [] op = "Div" ->
                     IF inf(left) \/ null(right) THEN signed_infinity(f, differ)
                     ELSE IF inf(right) THEN zero(f, differ)
                     ELSE IeeeDiv(left, right, f, "Nearest").bits}

\* partial_order of two host floats.
HostOrder(lhs, rhs, f) ==
    LET value(b) == (IF is_negative(f, b) THEN -1 ELSE 1)
                    * (IF is_infinite(f, b) THEN Ulps(f, infinity(f)) ELSE Ulps(f, b))
    IN  IF is_nan(f, lhs) \/ is_nan(f, rhs) THEN "Unordered"
        ELSE IF value(lhs) < value(rhs) THEN "Less"
        ELSE IF value(lhs) > value(rhs) THEN "Greater" ELSE "Equal"

\* A host cast between formats.
HostCast(bits, source, target) ==
    LET q == Scaled(source, bits, UnitBits(target))
    IN  IF is_nan(source, bits) THEN {b \in Patterns(target) : is_nan(target, b)}
        ELSE {IF is_infinite(source, bits) THEN signed_infinity(target, is_negative(source, bits))
              ELSE IF is_zero(source, bits) THEN zero(target, is_negative(source, bits))
              ELSE Rounded(q.num, q.den, is_negative(source, bits), target, "Nearest").bits}
=============================================================================
