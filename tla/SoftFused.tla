----------------------------- MODULE SoftFused ------------------------------
(***************************************************************************)
(* fp/softfloat/fused.rs: addend + multiplicand * multiplier with one      *)
(* rounding.  The exact product has its leading bit at 2 * scale(f) or one *)
(* above; the addend is raised to the same scale.                          *)
(***************************************************************************)
EXTENDS Decompose

\* FusedOperands o; the sign controls separate FMADD, FMSUB, FNMADD and FNMSUB.
signed_addend(o, f) == IF o.is_addend_negated THEN negated(f, o.addend) ELSE o.addend

product_negative(o, f) ==
    (is_negative(f, o.multiplicand) # is_negative(f, o.multiplier)) # o.is_product_negated

zero_product(addend, negative, f, r) ==
    IF ~is_zero(f, addend) THEN Exact(addend)
    ELSE Exact(zero(f, IF is_negative(f, addend) = negative THEN negative ELSE r = "Minus"))

\* Mutant: the leading bit is not brought to its place before narrowing.
round_wide_unnormalised(value, sticky, f, r, c) ==
    LET narrowed == shift_right(value.significand, scale(f), 2 * WORD)
    IN  round_and_pack([value EXCEPT !.significand = narrowed.kept], sticky \/ narrowed.lost, f, r, c)

\* Normalised at twice the scale, then narrowed by one.
round_wide(value, sticky, f, r, c) ==
    LET up       == leading(value.significand) - 2 * scale(f)
        fitted   == IF up > 0 THEN shift_right(value.significand, up, 2 * WORD)
                    ELSE [kept |-> value.significand * pow2[-up], lost |-> FALSE]
        narrowed == shift_right(fitted.kept, scale(f), 2 * WORD)
    IN  IF value.significand = 0 THEN Exact(zero(f, value.is_negative))
        ELSE round_and_pack(Unpacked(value.is_negative, value.exponent + up, narrowed.kept),
                            sticky \/ fitted.lost \/ narrowed.lost, f, r, c)

exact_product(o, f) ==
    LET left  == unpack(o.multiplicand, f)
        right == unpack(o.multiplier, f)
    IN  Unpacked(product_negative(o, f), left.exponent + right.exponent,
                 left.significand * right.significand)

\* The addend at the product's scale.
wide_addend(addend, f) ==
    LET u == unpack(addend, f) IN [u EXCEPT !.significand = @ * pow2[scale(f)]]

\* align: the two on the larger exponent, and whether the other lost bits.
fused_align(product, addend) ==
    LET gap == product.exponent - addend.exponent
        s   == IF gap >= 0 THEN shift_right(addend.significand, gap, 2 * WORD)
               ELSE shift_right(product.significand, -gap, 2 * WORD)
    IN  [product  |-> IF gap >= 0 THEN product.significand ELSE s.kept,
         addend   |-> IF gap >= 0 THEN s.kept ELSE addend.significand,
         exponent |-> IF gap >= 0 THEN product.exponent ELSE addend.exponent,
         sticky   |-> s.lost]

\* A subtraction takes no borrow for the bits that alignment lost.
accumulate_product(product, addend, f, r, c) ==
    LET wide == wide_addend(addend, f)
        a    == fused_align(product, wide)
        sum  == IF product.is_negative = wide.is_negative
                THEN Unpacked(product.is_negative, a.exponent, a.product + a.addend)
                ELSE IF a.product >= a.addend
                THEN Unpacked(product.is_negative, a.exponent, a.product - a.addend)
                ELSE Unpacked(wide.is_negative, a.exponent, a.addend - a.product)
    IN  IF is_zero(f, addend) THEN round_wide(product, FALSE, f, r, c)
        ELSE IF sum.significand = 0 /\ ~a.sticky THEN Exact(zero(f, r = "Minus"))
        ELSE round_wide(sum, a.sticky /\ sum.significand # 0, f, r, c)

multiply_add(o, f, r, c) ==
    LET inputs   == <<o.multiplicand, o.multiplier, o.addend>>
        addend   == signed_addend(o, f)
        infinite == is_infinite(f, o.multiplicand) \/ is_infinite(f, o.multiplier)
        null     == is_zero(f, o.multiplicand) \/ is_zero(f, o.multiplier)
        negative == product_negative(o, f)
    IN  IF any_nan(inputs, f) THEN propagate(inputs, f, c)
        ELSE IF infinite /\ null THEN invalid_operation(f)
        ELSE IF infinite
        THEN IF is_infinite(f, addend) /\ is_negative(f, addend) # negative
             THEN invalid_operation(f) ELSE Exact(signed_infinity(f, negative))
        ELSE IF is_infinite(f, addend) THEN Exact(addend)
        ELSE IF null THEN zero_product(addend, negative, f, r)
        ELSE accumulate_product(exact_product(o, f), addend, f, r, c)
=============================================================================
