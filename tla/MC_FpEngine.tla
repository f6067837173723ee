---------------------------- MODULE MC_FpEngine -----------------------------
(***************************************************************************)
(* Single and Half as in MC_Softfloat; Double has 2 mantissa and 4         *)
(* exponent bits.  The calls are one or two of every method: exact and     *)
(* inexact, NaNs of both kinds, the zeroes, infinity, a tie, a rounding    *)
(* mode named by the instruction, and all three formats.                   *)
(***************************************************************************)
EXTENDS FpEngine

MC_Half   == [name |-> "Half", mantissa_bits |-> 1, exponent_bits |-> 2]
MC_Single == [name |-> "Single", mantissa_bits |-> 2, exponent_bits |-> 3]
MC_Double == [name |-> "Double", mantissa_bits |-> 2, exponent_bits |-> 4]

\* Single patterns.
One == 12
OneAndAHalf == 14
Three == 18
Smallest == 1
Largest == 27
Infinity == 28
Signalling == 29
MinusOne == 44
MinusZero == 32

BinaryCall(op, l, r, f, rounding) ==
    [op |-> op, method |-> "binary",
     operands |-> [rounding |-> rounding, lhs |-> l, rhs |-> r, format |-> f]]
CompareCall(method, l, r, f, signals) ==
    [method |-> method,
     operands |-> [rounding |-> "Nearest", lhs |-> l, rhs |-> r, format |-> f],
     is_signalling |-> signals]
Value(pattern, f) == [format |-> f, bits |-> pattern]

MC_Calls ==
    {BinaryCall("Add", One, Signalling, Single, "Nearest"),
     BinaryCall("Add", Three, Smallest, Single, "Nearest"),
     BinaryCall("Add", Three, Smallest, Single, "Plus"),
     BinaryCall("Sub", MinusZero, MinusZero, Single, "Nearest"),
     BinaryCall("Sub", Infinity, Infinity, Single, "Nearest"),
     BinaryCall("Mul", Largest, Three, Single, "Nearest"),
     BinaryCall("Mul", Smallest, OneAndAHalf, Single, "Nearest"),
     BinaryCall("Div", One, MinusZero, Single, "Nearest"),
     BinaryCall("Div", One, Three, Single, "Nearest"),
     BinaryCall("Div", One, Three, Single, "Zero"),
     BinaryCall("Add", 2, 3, Half, "Nearest"),
     BinaryCall("Sub", 30, 29, Double, "Nearest"),
     BinaryCall("Max", Signalling, One, Single, "Nearest"),
     BinaryCall("MinNum", One, MinusOne, Single, "Nearest")}
    \cup {[op |-> op, rounding |-> "Nearest", method |-> "unary", operand |-> Value(b, Single)] :
             op \in {"Sqrt", "RoundToIntegral"}, b \in {Three, OneAndAHalf}}
    \cup {[method |-> "fused_multiply_add",
           operands |-> [rounding |-> "Nearest", format |-> Single,
                         multiplicand |-> OneAndAHalf, multiplier |-> Three, addend |-> MinusOne,
                         is_product_negated |-> FALSE, is_addend_negated |-> n]] : n \in BOOLEAN}
    \cup {CompareCall("compare", One, l, Single, s) : l \in {MinusOne, Three, 30}, s \in BOOLEAN}
    \cup {CompareCall("compare_ordering", 0, MinusZero, Single, FALSE),
          CompareCall("compare", 3, 7, Half, FALSE)}
    \cup {[method |-> "convert_format", operand |-> Value(b, Single), target |-> f] :
             b \in {Three, Signalling, Smallest}, f \in {Half, Double}}
    \cup {[method |-> "convert_format", operand |-> Value(27, Double), target |-> Single]}
    \cup {[method |-> "to_integer", operand |-> Value(OneAndAHalf, Single),
           target |-> [rounding |-> "Zero", format |-> [bits |-> 4, is_signed |-> TRUE],
                       fractional_bits |-> n]] : n \in {0, 1}}
    \cup {[method |-> "convert_from_integer", value |-> 13,
           source |-> [rounding |-> "Nearest", format |-> [bits |-> WORD, is_signed |-> FALSE],
                       target |-> Single, fractional_bits |-> 0]]}
    \cup {[op |-> op, method |-> "copy_sign", operand |-> Value(MinusOne, Single)] :
             op \in {"Negate", "Absolute"}}

\* Default mode, each meaningful field of FPCR, and a bit that means nothing.
MC_Fpcrs == {0, 1, 3, 4, 8, 16, 32, 64}
MC_Fpsrs == {{}, {"INPUT_DENORMAL"}}
=============================================================================
