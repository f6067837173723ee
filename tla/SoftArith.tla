----------------------------- MODULE SoftArith ------------------------------
(***************************************************************************)
(* fp/softfloat/arithmetic.rs.  Each operation is a chain of early         *)
(* returns, special operands first, ending in one call of round_and_pack.  *)
(***************************************************************************)
EXTENDS Decompose

\* Mutant: flush_input replaces the operand and forgets the flag.
flushed_unflagged(bits, f, c) ==
    IF is_flushing(f, c) /\ is_subnormal(f, bits)
    THEN Exact(zero(f, is_negative(f, bits))) ELSE Exact(bits)

\* flush_input: the operand as the arithmetic sees it, and what that raises.
flushed(bits, f, c) ==
    IF is_flushing(f, c) /\ is_subnormal(f, bits)
    THEN Raising(zero(f, is_negative(f, bits)), {"INPUT_DENORMAL"}) ELSE Exact(bits)

(***************************************************************************)
(* Addition and subtraction.                                               *)
(***************************************************************************)
add_infinities(lhs, rhs, f) ==
    IF is_infinite(f, lhs) /\ is_infinite(f, rhs) /\ is_negative(f, lhs) # is_negative(f, rhs)
    THEN invalid_operation(f)
    ELSE Exact(IF is_infinite(f, lhs) THEN lhs ELSE rhs)

is_larger(lhs, rhs) ==
    \/ lhs.exponent > rhs.exponent
    \/ lhs.exponent = rhs.exponent /\ lhs.significand >= rhs.significand

\* Mutant: the bits shifted out do not borrow.
subtract_aligned_no_borrow(larger, aligned, r) ==
    LET significand == larger.significand - aligned.kept
    IN  IF significand = 0 /\ ~aligned.lost
        THEN [value |-> UnpackedZero(r = "Minus"), sticky |-> FALSE]
        ELSE [value |-> [larger EXCEPT !.significand = significand], sticky |-> aligned.lost]

\* The bits shifted out borrow one unit.
subtract_aligned(larger, aligned, r) ==
    LET significand == larger.significand - aligned.kept - (IF aligned.lost THEN 1 ELSE 0)
    IN  IF significand = 0 /\ ~aligned.lost
        THEN [value |-> UnpackedZero(r = "Minus"), sticky |-> FALSE]
        ELSE [value |-> [larger EXCEPT !.significand = significand], sticky |-> aligned.lost]

add_finite(lhs, rhs, r) ==
    LET larger  == IF is_larger(lhs, rhs) THEN lhs ELSE rhs
        smaller == IF is_larger(lhs, rhs) THEN rhs ELSE lhs
        aligned == shift_right(smaller.significand, larger.exponent - smaller.exponent, WORD)
        exactly(value) == [value |-> value, sticky |-> FALSE]
    IN  IF lhs.significand = 0 /\ rhs.significand = 0
        THEN exactly(UnpackedZero(IF lhs.is_negative = rhs.is_negative THEN lhs.is_negative
                                  ELSE r = "Minus"))
        ELSE IF lhs.significand = 0 THEN exactly(rhs)
        ELSE IF rhs.significand = 0 THEN exactly(lhs)
        ELSE IF lhs.is_negative = rhs.is_negative
        THEN [value |-> [larger EXCEPT !.significand = @ + aligned.kept], sticky |-> aligned.lost]
        ELSE subtract_aligned(larger, aligned, r)

\* A subtraction flips the second operand's sign before anything looks at it.
add(lhs0, rhs0, is_subtracting, f, r, c) ==
    LET left  == flushed(lhs0, f, c)
        right == flushed(rhs0, f, c)
        lhs   == left.bits
        rhs   == IF is_subtracting THEN negated(f, right.bits) ELSE right.bits
        sum   == add_finite(unpack(lhs, f), unpack(rhs, f), r)
    IN  with_flags(IF any_nan(<<lhs, rhs>>, f) THEN propagate(<<lhs, rhs>>, f, c)
                   ELSE IF is_infinite(f, lhs) \/ is_infinite(f, rhs) THEN add_infinities(lhs, rhs, f)
                   ELSE round_and_pack(sum.value, sum.sticky, f, r, c),
                   left.raised \cup right.raised)

(***************************************************************************)
(* Multiplication, division and square root.                               *)
(***************************************************************************)
multiply(lhs0, rhs0, f, r, c) ==
    LET left     == flushed(lhs0, f, c)
        right    == flushed(rhs0, f, c)
        lhs      == left.bits
        rhs      == right.bits
        negative == is_negative(f, lhs) # is_negative(f, rhs)
        infinite == is_infinite(f, lhs) \/ is_infinite(f, rhs)
        null     == is_zero(f, lhs) \/ is_zero(f, rhs)
        a        == unpack(lhs, f)
        b        == unpack(rhs, f)
        product  == shift_right(a.significand * b.significand, scale(f), 2 * WORD)
    IN  with_flags(IF any_nan(<<lhs, rhs>>, f) THEN propagate(<<lhs, rhs>>, f, c)
                   ELSE IF infinite /\ null THEN invalid_operation(f)
                   ELSE IF infinite THEN Exact(signed_infinity(f, negative))
                   ELSE IF null THEN Exact(zero(f, negative))
                   ELSE round_and_pack(Unpacked(negative, a.exponent + b.exponent, product.kept),
                                       product.lost, f, r, c),
                   left.raised \cup right.raised)

divide_specials(lhs, rhs, negative, f) ==
    IF (is_infinite(f, lhs) /\ is_infinite(f, rhs)) \/ (is_zero(f, lhs) /\ is_zero(f, rhs))
    THEN invalid_operation(f)
    ELSE IF is_infinite(f, lhs) THEN Exact(signed_infinity(f, negative))
    ELSE IF is_infinite(f, rhs) THEN Exact(zero(f, negative))
    ELSE IF is_zero(f, rhs) THEN Raising(signed_infinity(f, negative), {"DIVIDE_BY_ZERO"})
    ELSE Exact(zero(f, negative))

divide(lhs0, rhs0, f, r, c) ==
    LET left      == flushed(lhs0, f, c)
        right     == flushed(rhs0, f, c)
        lhs       == left.bits
        rhs       == right.bits
        negative  == is_negative(f, lhs) # is_negative(f, rhs)
        special   == \E x \in {lhs, rhs} : is_infinite(f, x) \/ is_zero(f, x)
        a         == unpack(lhs, f)
        b         == unpack(rhs, f)
        numerator == a.significand * pow2[scale(f)]
    IN  with_flags(IF any_nan(<<lhs, rhs>>, f) THEN propagate(<<lhs, rhs>>, f, c)
                   ELSE IF special THEN divide_specials(lhs, rhs, negative, f)
                   ELSE round_and_pack(Unpacked(negative, a.exponent - b.exponent,
                                                numerator \div b.significand),
                                       numerator % b.significand # 0, f, r, c),
                   left.raised \cup right.raised)

\* isqrt_u128, bit by bit from the highest even position down.
isqrt(value) ==
    LET top == (leading(value) \div 2)
        after[k \in -1 .. top] ==       \* the state when the bits above 4^k are done
            IF k = top THEN [remainder |-> value, root |-> 0]
            ELSE LET s   == after[k + 1]
                     bit == pow2[2 * (k + 1)]
                 IN  IF s.remainder >= s.root + bit
                     THEN [remainder |-> s.remainder - s.root - bit, root |-> (s.root \div 2) + bit]
                     ELSE [remainder |-> s.remainder, root |-> s.root \div 2]
    IN  IF value = 0 THEN 0 ELSE after[-1].root

\* Mutant: an odd exponent is halved without doubling the significand.
radicand_even(value, f) == value.significand * pow2[scale(f)]

\* The integer whose root integer_square_root takes.
radicand(value, f) == value.significand * pow2[value.exponent % 2] * pow2[scale(f)]

square_root(value0, f, r, c) ==
    LET operand == flushed(value0, f, c)
        value   == operand.bits
        u       == unpack(value, f)
        root    == isqrt(radicand(u, f))
    IN  with_flags(IF is_nan(f, value) THEN propagate(<<value>>, f, c)
                   ELSE IF is_zero(f, value) THEN Exact(value)
                   ELSE IF is_negative(f, value) THEN invalid_operation(f)
                   ELSE IF is_infinite(f, value) THEN Exact(value)
                   ELSE round_and_pack(Unpacked(FALSE, u.exponent \div 2, root),
                                       root * root # radicand(u, f), f, r, c),
                   operand.raised)
=============================================================================
