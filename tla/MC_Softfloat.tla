---------------------------- MODULE MC_Softfloat ----------------------------
(***************************************************************************)
(* A sweep of the softfloat over whole formats: Half has 1 mantissa and 2  *)
(* exponent bits, Single 2 and 3, Double 2 and 5, and a u64 has 7 bits, so *)
(* that shifts past the word, subnormals, overflow, and doubles beyond the *)
(* range of a u128 all happen.  Each behaviour fixes the left operand and  *)
(* steps the right one; the properties compare the code's bit arithmetic   *)
(* with exact rationals.                                                   *)
(***************************************************************************)
EXTENDS Softfloat, Ieee

MC_Half   == [name |-> "Half", mantissa_bits |-> 1, exponent_bits |-> 2]
MC_Single == [name |-> "Single", mantissa_bits |-> 2, exponent_bits |-> 3]
MC_Double == [name |-> "Double", mantissa_bits |-> 2, exponent_bits |-> 5]

\* In every format of AArch64 the exponent reaches below the square of the
\* smallest subnormal's unit: f32 has a bias of 127 and 23 mantissa bits.  The
\* root of the least operand is then a normal number.
ASSUME RootAssumption == exponent_bias(Single) > Single.mantissa_bits

VARIABLES lhs, rhs

Init == lhs \in Patterns(Single) /\ rhs = 0
Next == rhs + 1 \in Patterns(Single) /\ rhs' = rhs + 1 /\ UNCHANGED lhs
Spec == Init /\ [][Next]_<<lhs, rhs>>

Ieee754 == from_bits(0)
Flush   == from_bits(FZ_BIT + FZ16_BIT)
DefaultNan == from_bits(DN_BIT)

BothFinite == IsFinite(Single, lhs) /\ IsFinite(Single, rhs)

(***************************************************************************)
(* FADD and FSUB are correctly rounded for every pair of finite operands   *)
(* in every mode, with IEEE's flags: guard and sticky bits and the borrow  *)
(* of subtract_aligned lose nothing (arithmetic.rs add).                   *)
(***************************************************************************)
SumIsCorrectlyRounded ==
    BothFinite => \A r \in Modes :
        /\ add(lhs, rhs, FALSE, Single, r, Ieee754) = IeeeAdd(lhs, rhs, Single, r)
        /\ add(lhs, rhs, TRUE, Single, r, Ieee754) = IeeeAdd(lhs, negated(Single, rhs), Single, r)

(***************************************************************************)
(* FMUL, FDIV by a non-zero and FSQRT are correctly rounded with IEEE's    *)
(* flags (arithmetic.rs multiply, divide and square_root: the sticky bits  *)
(* of a narrowed product and of a remainder, the odd exponents of a root), *)
(* but for the carry below the normal range that SubnormalRoundsUp is      *)
(* about.                                                                  *)
(***************************************************************************)
ScalingIsCorrectlyRounded ==
    \A r \in Modes :
        /\ BothFinite =>
              RoundedOrHalved(multiply(lhs, rhs, Single, r, Ieee754), IeeeMul(lhs, rhs, Single, r),
                              Ulps(Single, lhs) * Ulps(Single, rhs), pow2[UnitBits(Single)], Single)
        /\ BothFinite /\ ~is_zero(Single, rhs) =>
              RoundedOrHalved(divide(lhs, rhs, Single, r, Ieee754), IeeeDiv(lhs, rhs, Single, r),
                              Ulps(Single, lhs) * pow2[UnitBits(Single)], Ulps(Single, rhs), Single)
        /\ IsFinite(Single, lhs) /\ ~is_negative(Single, lhs) /\ ~is_zero(Single, lhs) =>
              square_root(lhs, Single, r, Ieee754) = IeeeSqrt(lhs, Single, r)

(***************************************************************************)
(* The NaN to answer when an operand is one and FPCR.DN is clear: the      *)
(* first in operand order, quietened (nan.rs: "the first NaN operand in    *)
(* operand order wins").  FSUB flips the sign of its second operand before *)
(* it looks for NaNs; which sign that operand's NaN has is left open.      *)
(***************************************************************************)
NanOperands(op) ==
    IF is_nan(Single, lhs) THEN {quieten(Single, lhs)}
    ELSE {quieten(Single, rhs)} \cup
         (IF op = "Sub" THEN {quieten(Single, negated(Single, rhs))} ELSE {})

(***************************************************************************)
(* Every operation that computes has a NaN result exactly when an operand  *)
(* is a NaN or the operation is invalid, the NaN is quiet, it is the       *)
(* default one for an invalid operation and under FPCR.DN and the first    *)
(* NaN operand otherwise, and INVALID is raised for a signalling operand   *)
(* or an invalid operation and for nothing else (nan.rs propagate, behind  *)
(* the sign flip and the flushing of arithmetic.rs).                       *)
(***************************************************************************)
NansAreAccounted ==
    LET signalling == signalling_among(<<lhs, rhs>>, Single)
        nan        == any_nan(<<lhs, rhs>>, Single)
        inf(x)     == is_infinite(Single, x)
        null(x)    == is_zero(Single, x)
        differ     == is_negative(Single, lhs) # is_negative(Single, rhs)
        invalid(op) == CASE op = "Add" -> inf(lhs) /\ inf(rhs) /\ differ
                         [] op = "Sub" -> inf(lhs) /\ inf(rhs) /\ ~differ
                         [] op = "Mul" -> (inf(lhs) /\ null(rhs)) \/ (null(lhs) /\ inf(rhs))
                         [] op = "Div" -> (inf(lhs) /\ inf(rhs)) \/ (null(lhs) /\ null(rhs))
                         [] OTHER      -> FALSE
    IN  \A op \in {"Add", "Sub", "Mul", "Div", "Max", "Min"}, c \in {Ieee754, DefaultNan} :
          LET result == soft_binary(op, [lhs |-> lhs, rhs |-> rhs, format |-> Single,
                                         rounding |-> "Nearest"], c)
          IN  /\ is_nan(Single, result.bits) = (nan \/ invalid(op))
              /\ ~is_signalling_nan(Single, result.bits)
              /\ ("INVALID" \in result.raised) = (signalling \/ invalid(op))
              /\ is_nan(Single, result.bits) /\ (invalid(op) \/ c.default_nan)
                    => result.bits = default_nan(Single)
              /\ nan /\ ~c.default_nan => result.bits \in NanOperands(op)

(***************************************************************************)
(* FCMP and the extrema follow the order of the values: the zeroes are     *)
(* equal, negative patterns are reversed, a maximum is an operand that no  *)
(* operand exceeds, and FMAX prefers +0 (compare.rs).                      *)
(***************************************************************************)
OrderIsNumeric ==
    LET value(x) == IF is_infinite(Single, x)
                    THEN (IF is_negative(Single, x) THEN -1 ELSE 1) * Ulps(Single, infinity(Single))
                    ELSE SignedUlps(Single, x)
        max == extremum(lhs, rhs, "Max", Single, Ieee754).bits
        min == extremum(lhs, rhs, "Min", Single, Ieee754).bits
        order == compare(lhs, rhs, Single, FALSE).ordering
    IN  ~any_nan(<<lhs, rhs>>, Single) =>
          /\ (order = "Less") = (value(lhs) < value(rhs))
          /\ (order = "Equal") = (value(lhs) = value(rhs))
          /\ (order = "Greater") = (value(lhs) > value(rhs))
          /\ {max, min} = {lhs, rhs}
          /\ value(min) <= value(max)
          /\ lhs # rhs /\ value(min) = value(max) => is_negative(Single, min) /\ ~is_negative(Single, max)

(***************************************************************************)
(* Fused multiply-add, with every addend and both signs of the product.    *)
(* The product of multiplicands is symmetric and only its sign counts, so  *)
(* unordered pairs of non-negative ones are all of them.                   *)
(***************************************************************************)
NewPair == lhs <= rhs /\ rhs < sign_bit(Single)

Operands(addend, negate) ==
    [multiplicand |-> lhs, multiplier |-> rhs, addend |-> addend,
     is_product_negated |-> negate, is_addend_negated |-> FALSE]

Fused(addend, negate, r, c) == multiply_add(Operands(addend, negate), Single, r, c)

\* The exact value, in smallest subnormals over 2^UnitBits, and its magnitude.
ExactFused(addend, negate) ==
    LET product == Ulps(Single, lhs) * Ulps(Single, rhs)
    IN  (IF negate THEN -product ELSE product) + SignedUlps(Single, addend) * pow2[UnitBits(Single)]

\* The terms have opposite signs and alignment drops bits of the smaller one.
LosesBorrow(addend, negate) ==
    /\ Ulps(Single, lhs) # 0 /\ Ulps(Single, rhs) # 0 /\ Ulps(Single, addend) # 0
    /\ negate # is_negative(Single, addend)
    /\ fused_align(exact_product(Operands(addend, negate), Single),
                   wide_addend(addend, Single)).sticky

AllFinite(addend) == IsFinite(Single, lhs) /\ IsFinite(Single, rhs) /\ IsFinite(Single, addend)

(***************************************************************************)
(* FMADD rounds the exact sum once, however much cancels (fused.rs         *)
(* accumulate, round_wide).  Left out: the carry below the normal range,   *)
(* and subtractions that lose bits in alignment, which FusedRoundsOnce is  *)
(* about.                                                                  *)
(***************************************************************************)
FusedIsCorrectlyRounded ==
    NewPair => \A addend \in Patterns(Single), negate \in BOOLEAN, r \in Modes :
        AllFinite(addend) /\ ~LosesBorrow(addend, negate) =>
            RoundedOrHalved(Fused(addend, negate, r, Ieee754),
                            IeeeFma(lhs, rhs, negate, addend, Single, r),
                            Abs(ExactFused(addend, negate)), pow2[UnitBits(Single)], Single)

(***************************************************************************)
(* backend.rs: "Fused multiply-add: `addend + product`, rounded once."     *)
(* Over results in the normal range, so that only the sum is in question.  *)
(***************************************************************************)
FusedRoundsOnce ==
    NewPair => \A addend \in Patterns(Single), negate \in BOOLEAN, r \in Modes :
        AllFinite(addend)
          /\ Abs(ExactFused(addend, negate)) >= pow2[Single.mantissa_bits] * pow2[UnitBits(Single)] =>
            Fused(addend, negate, r, Ieee754) = IeeeFma(lhs, rhs, negate, addend, Single, r)

(***************************************************************************)
(* With FPCR.FZ set, the operations of arithmetic.rs neither see nor       *)
(* return a subnormal: the result is the one for the flushed operands, it  *)
(* is never subnormal, and each flushed operand raises INPUT_DENORMAL.     *)
(* fused.rs flushes no operand, and flushes every result that it computes  *)
(* (it returns the addend of a zero product as it is).                     *)
(***************************************************************************)
FlushHidesSubnormals ==
    LET flat(x) == IF is_subnormal(Single, x) THEN zero(Single, is_negative(Single, x)) ELSE x
        denormal == is_subnormal(Single, lhs) \/ is_subnormal(Single, rhs)
    IN  \A r \in Modes :
          /\ \A op \in {"Add", "Sub", "Mul", "Div"} :
               LET run(x, y) == soft_binary(op, [lhs |-> x, rhs |-> y, format |-> Single,
                                                 rounding |-> r], Flush)
               IN  /\ ~is_subnormal(Single, run(lhs, rhs).bits)
                   /\ run(lhs, rhs).bits = run(flat(lhs), flat(rhs)).bits
                   /\ ("INPUT_DENORMAL" \in run(lhs, rhs).raised) = denormal
          /\ NewPair /\ ~is_zero(Single, lhs) => \A addend \in Patterns(Single), negate \in BOOLEAN :
               AllFinite(addend) =>
                 Fused(addend, negate, r, Flush).bits = flat(Fused(addend, negate, r, Ieee754).bits)
=============================================================================
