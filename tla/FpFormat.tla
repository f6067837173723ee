------------------------------ MODULE FpFormat ------------------------------
(***************************************************************************)
(* fp/operand.rs and fp/control.rs: IEEE formats as bit patterns, FPCR and *)
(* FPSR.  A bit pattern is a natural number; `x & mask` and `x >> n` are   *)
(* remainder and quotient, and `|` of disjoint patterns is a sum.  The     *)
(* code's three formats differ only in their field widths, so the widths   *)
(* are parameters here.  FPSR is the set of its bits.                      *)
(***************************************************************************)
EXTENDS Integers, Sequences

CONSTANTS
    Half, Single, Double,   \* the formats: records [name, mantissa_bits, exponent_bits]
    WORD                    \* bits of u64; a u128 has twice as many

Formats   == {Half, Single, Double}
Roundings == {"Nearest", "Plus", "Minus", "Zero", "NearestAway", "Odd"}

ASSUME FormatAssumption ==
    /\ WORD \in Nat
    /\ \A f \in Formats :
         /\ f.name \in {"Half", "Single", "Double"}
         /\ f.mantissa_bits \in Nat \ {0} /\ f.exponent_bits \in Nat \ {0, 1}
         /\ f.mantissa_bits + 5 <= WORD

\* 1 << n, a byte at a time.
pow2[n \in Nat] == IF n < 8 THEN <<1, 2, 4, 8, 16, 32, 64, 128>>[n + 1] ELSE 256 * pow2[n - 8]

(***************************************************************************)
(* FpFormat.                                                               *)
(***************************************************************************)
max_exponent(f)  == pow2[f.exponent_bits] - 1
exponent_bias(f) == pow2[f.exponent_bits - 1] - 1
sign_bit(f)      == pow2[f.mantissa_bits + f.exponent_bits]
Patterns(f)      == 0 .. 2 * sign_bit(f) - 1
infinity(f)      == max_exponent(f) * pow2[f.mantissa_bits]
quiet_bit(f)     == pow2[f.mantissa_bits - 1]
default_nan(f)   == infinity(f) + quiet_bit(f)
max_finite(f)    == infinity(f) - 1

raw_exponent(f, bits) == (bits \div pow2[f.mantissa_bits]) % pow2[f.exponent_bits]
mantissa(f, bits)     == bits % pow2[f.mantissa_bits]
magnitude_bits(f, bits) == bits % sign_bit(f)

is_nan(f, bits)       == raw_exponent(f, bits) = max_exponent(f) /\ mantissa(f, bits) # 0
is_quiet(f, bits)     == mantissa(f, bits) >= quiet_bit(f)
is_signalling_nan(f, bits) == is_nan(f, bits) /\ ~is_quiet(f, bits)
is_infinite(f, bits)  == raw_exponent(f, bits) = max_exponent(f) /\ mantissa(f, bits) = 0
is_zero(f, bits)      == magnitude_bits(f, bits) = 0
is_subnormal(f, bits) == raw_exponent(f, bits) = 0 /\ mantissa(f, bits) # 0
is_negative(f, bits)  == (bits \div sign_bit(f)) % 2 = 1

quieten(f, bits) == IF is_signalling_nan(f, bits) THEN bits + quiet_bit(f) ELSE bits
zero(f, negative)            == IF negative THEN sign_bit(f) ELSE 0
signed_infinity(f, negative) == infinity(f) + zero(f, negative)
negated(f, bits) == magnitude_bits(f, bits) + zero(f, ~is_negative(f, bits))

\* FpComparison::to_nzcv.
to_nzcv(ordering) == CASE ordering = "Less"    -> 8
                       [] ordering = "Equal"   -> 6
                       [] ordering = "Greater" -> 2
                       [] OTHER                -> 3

\* FpResult.
Exact(bits)           == [bits |-> bits, raised |-> {}]
Raising(bits, raised) == [bits |-> bits, raised |-> raised]

(***************************************************************************)
(* FPCR.  Its fields sit at model positions: RMode in the low two bits,    *)
(* then FZ, DN, AHP and FZ16; every higher bit is stored and means nothing.*)
(***************************************************************************)
FZ_BIT   == 4
DN_BIT   == 8
AHP_BIT  == 16
FZ16_BIT == 32

FpcrBit(fpcr, bit) == (fpcr \div bit) % 2 = 1

from_rmode(rmode) == <<"Nearest", "Plus", "Minus", "Zero">>[(rmode % 4) + 1]

\* FpControl::from_bits.
from_bits(fpcr) ==
    [rounding            |-> from_rmode(fpcr % 4),
     flush_to_zero       |-> FpcrBit(fpcr, FZ_BIT),
     default_nan         |-> FpcrBit(fpcr, DN_BIT),
     alternative_fp16    |-> FpcrBit(fpcr, AHP_BIT),
     flush_to_zero_fp16  |-> FpcrBit(fpcr, FZ16_BIT)]

is_default_mode(control) ==
    /\ control.rounding = "Nearest"
    /\ ~control.flush_to_zero /\ ~control.flush_to_zero_fp16
    /\ ~control.default_nan /\ ~control.alternative_fp16

\* Mutant: FZ16, out of line with the other fields, is left out of the mask.
is_default_mode_bits_no_fz16(fpcr) == fpcr % FZ16_BIT = 0

\* fpcr & MEANINGFUL_BITS == 0: the meaningful bits are the low ones.
is_default_mode_bits(fpcr) == fpcr % (2 * FZ16_BIT) = 0

Flags == {"INVALID", "DIVIDE_BY_ZERO", "OVERFLOW", "UNDERFLOW", "INEXACT", "INPUT_DENORMAL"}

\* Mutant: FPSR is replaced by the flags of the last operation.
accumulate_replaces(fpsr, raised) == raised

accumulate(fpsr, raised) == fpsr \cup raised

\* Whether FPCR flushes this format's subnormals.
is_flushing(f, control) ==
    IF f.name = "Half" THEN control.flush_to_zero_fp16 ELSE control.flush_to_zero
=============================================================================
