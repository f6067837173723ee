-------------------------- MODULE FpEngineProofs ----------------------------
(***************************************************************************)
(* The arithmetic of the softfloat over whole formats of every width: NaNs *)
(* and INVALID, flushing, order, and correct rounding of sums, products,   *)
(* quotients, roots and fused operations; and the engine's cached choice   *)
(* of backend, its sticky flags and the host's answers, which are the      *)
(* softfloat's, for every build, set of register values and set of calls.  *)
(***************************************************************************)
EXTENDS SoftfloatProofs, MC_Softfloat, FpEngine

\* with_flags keeps the bits and adds the flags.
LEMMA WithFlagsIs ==
    ASSUME NEW p, NEW B, NEW Q, p \in [bits : B, raised : Q], NEW R
    PROVE  with_flags(p, R).bits = p.bits /\ with_flags(p, R).raised = p.raised \cup R
  BY DEF with_flags

\* multiply and divide are their cores with the flags of the flushed operands.
LEMMA MultiplyIs ==
    ASSUME NEW f, NEW x, NEW y, NEW r, NEW c
    PROVE  multiply(x, y, f, r, c)
             = with_flags(multiplied(flushed(x, f, c).bits, flushed(y, f, c).bits, f, r, c),
                          flushed(x, f, c).raised \cup flushed(y, f, c).raised)
  BY DEF multiply, multiplied

\* The same of divide.
LEMMA DivideIs ==
    ASSUME NEW f, NEW x, NEW y, NEW r, NEW c
    PROVE  divide(x, y, f, r, c)
             = with_flags(divided(flushed(x, f, c).bits, flushed(y, f, c).bits, f, r, c),
                          flushed(x, f, c).raised \cup flushed(y, f, c).raised)
  BY DEF divide, divided

\* Without FZ an operand is used as it is.
LEMMA UnflushedIs ==
    ASSUME NEW f, NEW x, NEW c, ~is_flushing(f, c)
    PROVE  flushed(x, f, c).bits = x /\ flushed(x, f, c).raised = {}
  BY DEF flushed, Exact

\* The controls the sweep uses.
LEMMA Controls ==
    /\ Ieee754.default_nan = FALSE /\ ~Ieee754.flush_to_zero /\ ~Ieee754.flush_to_zero_fp16
    /\ DefaultNan.default_nan = TRUE /\ ~DefaultNan.flush_to_zero /\ ~DefaultNan.flush_to_zero_fp16
    /\ Flush.default_nan = FALSE /\ Flush.flush_to_zero /\ Flush.flush_to_zero_fp16
<1>1. /\ (0 \div 8) % 2 # 1 /\ (0 \div 4) % 2 # 1 /\ (0 \div 32) % 2 # 1
      /\ (8 \div 8) % 2 = 1 /\ (8 \div 4) % 2 # 1 /\ (8 \div 32) % 2 # 1
      /\ (36 \div 8) % 2 # 1 /\ (36 \div 4) % 2 = 1 /\ (36 \div 32) % 2 = 1 /\ 4 + 32 = 36
  BY Z3
<1>2. ASSUME NEW b
      PROVE  /\ from_bits(b).default_nan = ((b \div 8) % 2 = 1)
             /\ from_bits(b).flush_to_zero = ((b \div 4) % 2 = 1)
             /\ from_bits(b).flush_to_zero_fp16 = ((b \div 32) % 2 = 1)
  BY DEF from_bits, FpcrBit, FZ_BIT, DN_BIT, FZ16_BIT
<1>3. QED BY <1>1, <1>2 DEF Ieee754, DefaultNan, Flush, FZ_BIT, DN_BIT, FZ16_BIT

\* Which of the sweep's controls flush.
LEMMA Unflushing ==
    ASSUME NEW f
    PROVE  ~is_flushing(f, Ieee754) /\ ~is_flushing(f, DefaultNan) /\ is_flushing(f, Flush)
  BY Controls DEF is_flushing

\* The operands of a subtraction are those of an addition, but for a sign.
LEMMA NegatedKinds ==
    ASSUME NEW f \in Formats, NEW y \in Patterns(f)
    PROVE  LET z == negated(f, y)
           IN  /\ z \in Patterns(f) /\ is_negative(f, z) = ~is_negative(f, y)
               /\ is_nan(f, z) = is_nan(f, y) /\ is_signalling_nan(f, z) = is_signalling_nan(f, y)
               /\ is_infinite(f, z) = is_infinite(f, y) /\ is_zero(f, z) = is_zero(f, y)
               /\ is_subnormal(f, z) = is_subnormal(f, y)
<1> DEFINE z == negated(f, y)
<1>1. /\ z \in Patterns(f) /\ raw_exponent(f, z) = raw_exponent(f, y) /\ mantissa(f, z) = mantissa(f, y)
      /\ is_negative(f, z) = ~is_negative(f, y) /\ magnitude_bits(f, z) = magnitude_bits(f, y)
  BY NegatedFlipsSign
<1> HIDE DEF z
<1>2. QED BY <1>1 DEF z, is_nan, is_signalling_nan, is_quiet, is_infinite, is_zero, is_subnormal

\* The conclusion NansAreAccounted draws of a result.
NanConclusion(res, x, y, invalid, f, c) ==
    /\ is_nan(f, res.bits) = (any_nan(<<x, y>>, f) \/ invalid)
    /\ ~is_signalling_nan(f, res.bits)
    /\ ("INVALID" \in res.raised) = (signalling_among(<<x, y>>, f) \/ invalid)
    /\ is_nan(f, res.bits) /\ (invalid \/ c.default_nan) => res.bits = default_nan(f)

\* The predicates on patterns are Booleans.
LEMMA KindsAreBoolean ==
    ASSUME NEW f, NEW z, NEW s
    PROVE  /\ is_nan(f, z) \in BOOLEAN /\ is_signalling_nan(f, z) \in BOOLEAN
           /\ is_infinite(f, z) \in BOOLEAN /\ is_zero(f, z) \in BOOLEAN /\ is_subnormal(f, z) \in BOOLEAN
           /\ any_nan(s, f) \in BOOLEAN /\ signalling_among(s, f) \in BOOLEAN
  BY DEF is_nan, is_signalling_nan, is_infinite, is_zero, is_subnormal, any_nan, signalling_among

\* What the property says follows from the accounting.
LEMMA AccountedConclusion ==
    ASSUME NEW f \in Formats, NEW x, NEW y, NEW c, NEW p, NEW invalid \in BOOLEAN,
           Accounted(p, x, y, invalid, f, c), NEW res,
           invalid => ~is_nan(f, x) /\ ~is_nan(f, y),
           res.bits = p.bits, res.raised = p.raised
    PROVE  NanConclusion(res, x, y, invalid, f, c)
<1>1. \A z : is_signalling_nan(f, z) => is_nan(f, z)
  BY DEF is_signalling_nan
<1>2. CASE is_nan(f, x) \/ is_nan(f, y)
  <2>1. AnswersNan(p, x, y, f, c) /\ ~invalid
    BY <1>2 DEF Accounted
  <2>2. /\ any_nan(<<x, y>>, f) = TRUE /\ is_nan(f, res.bits) = TRUE /\ ~is_signalling_nan(f, res.bits)
        /\ c.default_nan => res.bits = default_nan(f)
    BY <1>2, <2>1, PairOfOperands, KindsAreBoolean DEF AnswersNan
  <2>3. ("INVALID" \in res.raised) = signalling_among(<<x, y>>, f)
    BY <2>1, PairOfOperands, KindsAreBoolean DEF AnswersNan
  <2>4. signalling_among(<<x, y>>, f) \in BOOLEAN
    BY KindsAreBoolean
  <2>5. QED BY <2>1, <2>2, <2>3, <2>4 DEF NanConclusion
<1>3. CASE ~(is_nan(f, x) \/ is_nan(f, y)) /\ invalid
  <2>1. AnswersInvalid(p, f)
    BY <1>3 DEF Accounted
  <2>2. is_nan(f, default_nan(f)) /\ ~is_signalling_nan(f, default_nan(f))
    BY DefaultNanIsNan
  <2>3. QED BY <1>3, <2>1, <2>2, PairOfOperands, KindsAreBoolean DEF AnswersInvalid, NanConclusion
<1>4. CASE ~(is_nan(f, x) \/ is_nan(f, y)) /\ ~invalid
  <2>1. AnswersNumber(p, f)
    BY <1>4 DEF Accounted
  <2>2. QED BY <1>1, <1>4, <2>1, PairOfOperands, KindsAreBoolean DEF AnswersNumber, NanConclusion
<1>5. QED BY <1>2, <1>3, <1>4

\* An accounted answer is a pattern and a set of flags.
LEMMA AccountedResult ==
    ASSUME NEW p, NEW x, NEW y, NEW invalid \in BOOLEAN, NEW f, NEW c, Accounted(p, x, y, invalid, f, c)
    PROVE  p \in Results(f)
  BY DEF Accounted, AnswersNan, AnswersInvalid, AnswersNumber

\* Adding no flags changes nothing.
LEMMA PlainFlags ==
    ASSUME NEW p, NEW f, p \in Results(f), NEW R, R = {}
    PROVE  with_flags(p, R \cup R).bits = p.bits /\ with_flags(p, R \cup R).raised = p.raised
<1>1. with_flags(p, R \cup R).bits = p.bits /\ with_flags(p, R \cup R).raised = p.raised \cup (R \cup R)
  BY WithFlagsIs DEF Results
<1>2. QED BY <1>1

\* Infinities and zeroes are no NaNs.
LEMMA InfiniteIsNoNan ==
    ASSUME NEW f \in Formats, NEW x \in Patterns(f)
    PROVE  is_infinite(f, x) \/ is_zero(f, x) => ~is_nan(f, x)
<1>1. max_exponent(f) # 0
  BY FormatSizes DEF Sizes
<1>2. QED BY <1>1, IsZeroIs DEF is_infinite, is_nan

\* The property for FADD and FSUB,
LEMMA SumNans ==
    ASSUME NEW f \in Formats, NEW x \in Patterns(f), NEW y \in Patterns(f), NEW r, NEW c,
           ~is_flushing(f, c), NEW sub \in BOOLEAN, NEW invalid \in BOOLEAN,
           invalid = (is_infinite(f, x) /\ is_infinite(f, y)
                      /\ ((is_negative(f, x) # is_negative(f, y)) # sub))
    PROVE  NanConclusion(add(x, y, sub, f, r, c), x, y, invalid, f, c)
<1> DEFINE z == IF sub THEN negated(f, y) ELSE y
           p == added(x, z, f, r, c)
           res == add(x, y, sub, f, r, c)
<1>1. res = with_flags(p, {} \cup {})
  <2>1. /\ flushed(x, f, c).bits = x /\ flushed(x, f, c).raised = {}
        /\ flushed(y, f, c).bits = y /\ flushed(y, f, c).raised = {}
    BY UnflushedIs
  <2>2. z = IF sub THEN negated(f, flushed(y, f, c).bits) ELSE flushed(y, f, c).bits
    BY <2>1
  <2> HIDE DEF z
  <2>3. add(x, y, sub, f, r, c) = with_flags(added(flushed(x, f, c).bits, z, f, r, c),
                                             flushed(x, f, c).raised \cup flushed(y, f, c).raised)
    BY <2>2 DEF add, added
  <2>4. QED BY <2>1, <2>3
<1>2. /\ z \in Patterns(f) /\ is_nan(f, z) = is_nan(f, y) /\ is_signalling_nan(f, z) = is_signalling_nan(f, y)
      /\ is_infinite(f, z) = is_infinite(f, y)
      /\ is_negative(f, z) = (is_negative(f, y) # sub)
  <2>1. is_negative(f, y) \in BOOLEAN
    BY PatternOfFields
  <2>2. CASE sub
    BY <2>1, <2>2, NegatedKinds
  <2>3. CASE ~sub
    BY <2>1, <2>3
  <2>4. QED BY <2>2, <2>3
<1> HIDE DEF z
<1>3. is_negative(f, x) \in BOOLEAN /\ is_negative(f, y) \in BOOLEAN
  BY PatternOfFields
<1>4. invalid = (is_infinite(f, x) /\ is_infinite(f, z) /\ is_negative(f, x) # is_negative(f, z))
  BY <1>2, <1>3
<1>5. Accounted(p, x, z, invalid, f, c)
  BY <1>2, <1>4, AddedAccounted
<1>6. Accounted(p, x, y, invalid, f, c)
  BY <1>2, <1>5 DEF Accounted, AnswersNan
<1> HIDE DEF p
<1>7. res.bits = p.bits /\ res.raised = p.raised
  BY <1>1, <1>6, AccountedResult, PlainFlags
<1>8. invalid => ~is_nan(f, x) /\ ~is_nan(f, y)
  BY InfiniteIsNoNan
<1> HIDE DEF res
<1>9. QED BY <1>6, <1>7, <1>8, AccountedConclusion DEF res

\* for FMUL,
LEMMA ProductNans ==
    ASSUME NEW f \in Formats, NEW x \in Patterns(f), NEW y \in Patterns(f), NEW r, NEW c,
           ~is_flushing(f, c), NEW invalid \in BOOLEAN,
           invalid = ((is_infinite(f, x) /\ is_zero(f, y)) \/ (is_zero(f, x) /\ is_infinite(f, y)))
    PROVE  NanConclusion(multiply(x, y, f, r, c), x, y, invalid, f, c)
<1> DEFINE p == multiplied(x, y, f, r, c)
           res == multiply(x, y, f, r, c)
<1>1. res = with_flags(p, {} \cup {})
  <2>1. /\ flushed(x, f, c).bits = x /\ flushed(x, f, c).raised = {}
        /\ flushed(y, f, c).bits = y /\ flushed(y, f, c).raised = {}
    BY UnflushedIs
  <2>2. QED BY <2>1, MultiplyIs
<1>2. Accounted(p, x, y, invalid, f, c)
  BY MultipliedAccounted
<1> HIDE DEF p
<1>3. res.bits = p.bits /\ res.raised = p.raised
  BY <1>1, <1>2, AccountedResult, PlainFlags
<1>4. invalid => ~is_nan(f, x) /\ ~is_nan(f, y)
  BY InfiniteIsNoNan
<1> HIDE DEF res
<1>5. QED BY <1>2, <1>3, <1>4, AccountedConclusion DEF res

\* and for FDIV.
LEMMA QuotientNans ==
    ASSUME NEW f \in Formats, NEW x \in Patterns(f), NEW y \in Patterns(f), NEW r, NEW c,
           ~is_flushing(f, c), NEW invalid \in BOOLEAN,
           invalid = ((is_infinite(f, x) /\ is_infinite(f, y)) \/ (is_zero(f, x) /\ is_zero(f, y)))
    PROVE  NanConclusion(divide(x, y, f, r, c), x, y, invalid, f, c)
<1> DEFINE p == divided(x, y, f, r, c)
           res == divide(x, y, f, r, c)
<1>1. res = with_flags(p, {} \cup {})
  <2>1. /\ flushed(x, f, c).bits = x /\ flushed(x, f, c).raised = {}
        /\ flushed(y, f, c).bits = y /\ flushed(y, f, c).raised = {}
    BY UnflushedIs
  <2>2. QED BY <2>1, DivideIs
<1>2. Accounted(p, x, y, invalid, f, c)
  BY DividedAccounted
<1> HIDE DEF p
<1>3. res.bits = p.bits /\ res.raised = p.raised
  BY <1>1, <1>2, AccountedResult, PlainFlags
<1>4. invalid => ~is_nan(f, x) /\ ~is_nan(f, y)
  BY InfiniteIsNoNan
<1> HIDE DEF res
<1>5. QED BY <1>2, <1>3, <1>4, AccountedConclusion DEF res

\* The operands of the sweep are patterns.
SweepType == lhs \in Patterns(Single) /\ rhs \in Patterns(Single)

\* The sweep stays within the patterns of Single.
LEMMA SweepTyped == Spec => []SweepType
<1>1. Init => SweepType
  <2>1. 0 \in Patterns(Single)
    BY FormatSizes DEF Sizes, Patterns, Formats
  <2>2. QED BY <2>1 DEF Init, SweepType
<1>2. SweepType /\ [Next]_<<lhs, rhs>> => SweepType'
  BY DEF SweepType, Next
<1>3. QED BY <1>1, <1>2, PTL DEF Spec

\* What propagate answers when FPCR.DN is clear, with or without more flags.
LEMMA PropagatedOperand ==
    ASSUME NEW f, NEW a, NEW b, NEW c, is_nan(f, a) \/ is_nan(f, b), ~c.default_nan, NEW R
    PROVE  LET q == quieten(f, IF is_nan(f, a) THEN a ELSE b)
           IN  propagate(<<a, b>>, f, c).bits = q /\ with_flags(propagate(<<a, b>>, f, c), R).bits = q
<1> DEFINE q == quieten(f, IF is_nan(f, a) THEN a ELSE b)
           s == IF signalling_among(<<a, b>>, f) THEN {"INVALID"} ELSE {}
<1>1. propagate(<<a, b>>, f, c) = Raising(q, s)
  BY FirstNanOfPair DEF propagate, quiet_result
<1> HIDE DEF q, s
<1>2. Raising(q, s).bits = q /\ with_flags(Raising(q, s), R).bits = q
  BY DEF Raising, with_flags
<1>3. QED BY <1>1, <1>2 DEF q

\* The NaN every operation answers is one of its operands.
LEMMA NanIsAnOperand ==
    ASSUME SweepType, NEW op \in {"Add", "Sub", "Mul", "Div", "Max", "Min"}, NEW c,
           ~is_flushing(Single, c), is_nan(Single, lhs) \/ is_nan(Single, rhs), ~c.default_nan
    PROVE  soft_binary(op, [lhs |-> lhs, rhs |-> rhs, format |-> Single,
                            rounding |-> "Nearest"], c).bits \in NanOperands(op)
<1> DEFINE f == Single
           result == soft_binary(op, [lhs |-> lhs, rhs |-> rhs, format |-> f, rounding |-> "Nearest"], c)
           R == flushed(lhs, f, c).raised \cup flushed(rhs, f, c).raised
           first(b) == quieten(f, IF is_nan(f, lhs) THEN lhs ELSE b)
<1>1. flushed(lhs, f, c).bits = lhs /\ flushed(rhs, f, c).bits = rhs
  BY UnflushedIs
<1>2. f \in Formats /\ rhs \in Patterns(f)
  BY DEF SweepType, Formats
<1>3. first(rhs) \in NanOperands(op)
  BY DEF NanOperands
<1> SUFFICES result.bits = first(rhs) \/ (op = "Sub" /\ result.bits = first(negated(f, rhs)))
  BY <1>3 DEF NanOperands
<1>4. any_nan(<<lhs, rhs>>, f)
  BY PairOfOperands
<1>5. CASE op \in {"Add", "Sub"}
  <2> DEFINE z == IF op = "Sub" THEN negated(f, rhs) ELSE rhs
  <2>1. result = with_flags(added(lhs, z, f, "Nearest", c), R)
    BY <1>1, <1>5 DEF soft_binary, add, added
  <2>2. is_nan(f, lhs) \/ is_nan(f, z)
    BY <1>2, NegatedKinds
  <2> HIDE DEF z
  <2>3. added(lhs, z, f, "Nearest", c) = propagate(<<lhs, z>>, f, c)
    BY <2>2, PairOfOperands DEF added
  <2>4. result.bits = first(z)
    BY <2>1, <2>2, <2>3, PropagatedOperand
  <2>5. QED BY <2>4 DEF z
<1>6. CASE op = "Mul"
  <2>1. result = with_flags(propagate(<<lhs, rhs>>, f, c), R)
    BY <1>1, <1>4, <1>6 DEF soft_binary, multiply
  <2>2. QED BY <2>1, PropagatedOperand
<1>7. CASE op = "Div"
  <2>1. result = with_flags(propagate(<<lhs, rhs>>, f, c), R)
    BY <1>1, <1>4, <1>7 DEF soft_binary, divide
  <2>2. QED BY <2>1, PropagatedOperand
<1>8. CASE op \in {"Max", "Min"}
  <2>1. result = propagate(<<lhs, rhs>>, f, c)
    BY <1>4, <1>8 DEF soft_binary, extremum, ignores_quiet_nan
  <2>2. QED BY <2>1, PropagatedOperand
<1>9. QED BY <1>5, <1>6, <1>7, <1>8

\* Every pair of patterns satisfies the property.
LEMMA NansAccountedNow == SweepType => NansAreAccounted
<1> DEFINE signalling == signalling_among(<<lhs, rhs>>, Single)
           nan        == any_nan(<<lhs, rhs>>, Single)
           inf(x)     == is_infinite(Single, x)
           null(x)    == is_zero(Single, x)
           differ     == is_negative(Single, lhs) # is_negative(Single, rhs)
           invalid(op) == CASE op = "Add" -> inf(lhs) /\ inf(rhs) /\ differ
                            [] op = "Sub" -> inf(lhs) /\ inf(rhs) /\ ~differ
                            [] op = "Mul" -> (inf(lhs) /\ null(rhs)) \/ (null(lhs) /\ inf(rhs))
                            [] op = "Div" -> (inf(lhs) /\ inf(rhs)) \/ (null(lhs) /\ null(rhs))
                            [] OTHER      -> FALSE
           result(op, c) == soft_binary(op, [lhs |-> lhs, rhs |-> rhs, format |-> Single,
                                             rounding |-> "Nearest"], c)
           Good(op, c) == /\ is_nan(Single, result(op, c).bits) = (nan \/ invalid(op))
                          /\ ~is_signalling_nan(Single, result(op, c).bits)
                          /\ ("INVALID" \in result(op, c).raised) = (signalling \/ invalid(op))
                          /\ is_nan(Single, result(op, c).bits) /\ (invalid(op) \/ c.default_nan)
                                => result(op, c).bits = default_nan(Single)
<1>1. SUFFICES ASSUME SweepType, NEW op \in {"Add", "Sub", "Mul", "Div", "Max", "Min"},
                      NEW c \in {Ieee754, DefaultNan}
               PROVE  Good(op, c)
  <2>1. ASSUME SweepType, NEW op \in {"Add", "Sub", "Mul", "Div", "Max", "Min"},
               NEW c \in {Ieee754, DefaultNan}, nan, ~c.default_nan
        PROVE  result(op, c).bits \in NanOperands(op)
    BY <2>1, NanIsAnOperand, PairOfOperands, Unflushing
  <2>2. QED BY <2>1 DEF NansAreAccounted
<1>2. lhs \in Patterns(Single) /\ rhs \in Patterns(Single) /\ Single \in Formats /\ ~is_flushing(Single, c)
  BY <1>1, Unflushing DEF SweepType, Formats
<1>3. PICK v \in BOOLEAN : v = invalid(op)
  OBVIOUS
<1>4. is_negative(Single, lhs) \in BOOLEAN /\ is_negative(Single, rhs) \in BOOLEAN
  BY <1>2, PatternOfFields
<1>5. SUFFICES NanConclusion(result(op, c), lhs, rhs, v, Single, c)
  BY <1>3 DEF NanConclusion
<1>6. CASE op = "Add"
  <2>1. PICK s \in BOOLEAN : ~s
    OBVIOUS
  <2>2. result(op, c) = add(lhs, rhs, s, Single, "Nearest", c)
    BY <1>6, <2>1 DEF soft_binary
  <2>3. v = (inf(lhs) /\ inf(rhs) /\ ((is_negative(Single, lhs) # is_negative(Single, rhs)) # s))
    BY <1>3, <1>4, <1>6, <2>1
  <2>4. QED BY <1>2, <2>2, <2>3, SumNans
<1>7. CASE op = "Sub"
  <2>1. PICK s \in BOOLEAN : s
    OBVIOUS
  <2>2. result(op, c) = add(lhs, rhs, s, Single, "Nearest", c)
    BY <1>7, <2>1 DEF soft_binary
  <2>3. v = (inf(lhs) /\ inf(rhs) /\ ((is_negative(Single, lhs) # is_negative(Single, rhs)) # s))
    BY <1>3, <1>4, <1>7, <2>1
  <2>4. QED BY <1>2, <2>2, <2>3, SumNans
<1>8. CASE op = "Mul"
  <2>1. result(op, c) = multiply(lhs, rhs, Single, "Nearest", c)
    BY <1>8 DEF soft_binary
  <2>2. v = ((inf(lhs) /\ null(rhs)) \/ (null(lhs) /\ inf(rhs)))
    BY <1>3, <1>8
  <2>3. QED BY <1>2, <2>1, <2>2, ProductNans
<1>9. CASE op = "Div"
  <2>1. result(op, c) = divide(lhs, rhs, Single, "Nearest", c)
    BY <1>9 DEF soft_binary
  <2>2. v = ((inf(lhs) /\ inf(rhs)) \/ (null(lhs) /\ null(rhs)))
    BY <1>3, <1>9
  <2>3. QED BY <1>2, <2>1, <2>2, QuotientNans
<1>10. CASE op \in {"Max", "Min"}
  <2>1. result(op, c) = extremum(lhs, rhs, op, Single, c)
    BY <1>10 DEF soft_binary
  <2>2. ~v
    BY <1>3, <1>10
  <2> DEFINE p == extremum(lhs, rhs, op, Single, c)
  <2>3. Accounted(p, lhs, rhs, v, Single, c)
    BY <1>2, <1>10, <2>2, ExtremumAccounted
  <2> HIDE DEF p
  <2>4. NanConclusion(p, lhs, rhs, v, Single, c)
    BY <1>2, <2>2, <2>3, AccountedConclusion
  <2>5. QED BY <2>1, <2>4 DEF p
<1>11. QED BY <1>6, <1>7, <1>8, <1>9, <1>10

\* A result is a NaN exactly when an operand is one or the operation is
\* invalid; the NaN is quiet, is the default one for an invalid operation and
\* under FPCR.DN and the first NaN operand otherwise (for FSUB's second operand
\* up to its sign), and INVALID is raised for signalling operands and invalid
\* operations and for nothing else:
\* for every width of the format (nan.rs, arithmetic.rs, compare.rs).
THEOREM NansAlwaysAccounted == Spec => []NansAreAccounted
  BY SweepTyped, NansAccountedNow, PTL

(***************************************************************************)
(* Flush to zero.                                                          *)
(***************************************************************************)
\* x as an operation under FPCR.FZ sees it.
flat_of(f, x) == IF is_subnormal(f, x) THEN zero(f, is_negative(f, x)) ELSE x

\* flushed, under FZ, replaces a subnormal by its zero.
LEMMA FlatIs ==
    ASSUME NEW f \in Formats, NEW x \in Patterns(f)
    PROVE  /\ flat_of(f, x) \in Patterns(f) /\ ~is_subnormal(f, flat_of(f, x))
           /\ flat_of(f, flat_of(f, x)) = flat_of(f, x)
           /\ flushed(x, f, Flush).bits = flat_of(f, x)
           /\ flushed(x, f, Flush).raised = IF is_subnormal(f, x) THEN {"INPUT_DENORMAL"} ELSE {}
<1>1. is_negative(f, x) \in BOOLEAN
  BY PatternOfFields
<1>2. zero(f, is_negative(f, x)) \in Patterns(f) /\ ~is_subnormal(f, zero(f, is_negative(f, x)))
  BY <1>1, ZeroIsZero
<1>3. flat_of(f, x) \in Patterns(f) /\ ~is_subnormal(f, flat_of(f, x))
  BY <1>2 DEF flat_of
<1>4. flat_of(f, flat_of(f, x)) = flat_of(f, x)
  BY <1>3 DEF flat_of
<1>5. /\ flushed(x, f, Flush).bits = flat_of(f, x)
      /\ flushed(x, f, Flush).raised = IF is_subnormal(f, x) THEN {"INPUT_DENORMAL"} ELSE {}
  BY Unflushing DEF flushed, flat_of, Raising, Exact
<1>6. QED BY <1>3, <1>4, <1>5

\* Flushing a result is flattening it.
LEMMA RoundAndPackFlat ==
    ASSUME NEW f \in Formats, NEW v, v.is_negative \in BOOLEAN, NEW sticky, NEW r
    PROVE  /\ round_and_pack(v, sticky, f, r, Flush).bits
                = flat_of(f, round_and_pack(v, sticky, f, r, Ieee754).bits)
           /\ ~is_subnormal(f, round_and_pack(v, sticky, f, r, Flush).bits)
<1> DEFINE n == normalise(v, sticky, f)
           p == pack_normalised(n.value, n.sticky, f, r)
<1>1. CASE v.significand = 0
  <2>1. /\ round_and_pack(v, sticky, f, r, Flush).bits = zero(f, v.is_negative)
        /\ round_and_pack(v, sticky, f, r, Ieee754).bits = zero(f, v.is_negative)
    BY <1>1 DEF round_and_pack, Exact
  <2>2. ~is_subnormal(f, zero(f, v.is_negative))
    BY ZeroIsZero
  <2>3. QED BY <2>1, <2>2 DEF flat_of
<1>2. CASE v.significand # 0
  <2>1. /\ round_and_pack(v, sticky, f, r, Flush) = apply_flush_to_zero(p, f, Flush)
        /\ round_and_pack(v, sticky, f, r, Ieee754) = apply_flush_to_zero(p, f, Ieee754)
    BY <1>2 DEF round_and_pack
  <2> HIDE DEF p
  <2>2. apply_flush_to_zero(p, f, Ieee754) = p
    BY Unflushing DEF apply_flush_to_zero
  <2>3. apply_flush_to_zero(p, f, Flush).bits = flat_of(f, p.bits)
    BY Unflushing DEF apply_flush_to_zero, flat_of, Raising
  <2>4. ~is_subnormal(f, flat_of(f, p.bits))
    <3>1. is_negative(f, p.bits) \in BOOLEAN
      BY DEF is_negative
    <3>2. ~is_subnormal(f, zero(f, is_negative(f, p.bits)))
      BY <3>1, ZeroIsZero
    <3>3. QED BY <3>2 DEF flat_of
  <2>5. QED BY <2>1, <2>2, <2>3, <2>4
<1>3. QED BY <1>1, <1>2

\* NaNs and infinities are not subnormal,
LEMMA SpecialIsNotSubnormal ==
    ASSUME NEW f \in Formats, NEW x, is_nan(f, x) \/ is_infinite(f, x)
    PROVE  ~is_subnormal(f, x)
<1>1. max_exponent(f) # 0
  BY FormatSizes DEF Sizes
<1>2. QED BY <1>1 DEF is_nan, is_infinite, is_subnormal

\* nor is a propagated NaN,
LEMMA PropagatedIsNotSubnormal ==
    ASSUME NEW f \in Formats, NEW a \in Patterns(f), NEW b \in Patterns(f), is_nan(f, a) \/ is_nan(f, b), NEW c
    PROVE  ~is_subnormal(f, propagate(<<a, b>>, f, c).bits)
<1>1. is_nan(f, propagate(<<a, b>>, f, c).bits)
  BY PropagatePair
<1>2. QED BY <1>1, SpecialIsNotSubnormal

\* nor the default one.
LEMMA InvalidIsNotSubnormal ==
    ASSUME NEW f \in Formats
    PROVE  ~is_subnormal(f, invalid_operation(f).bits)
  BY DefaultNanIsNan, RaisingIs DEF invalid_operation

\* Under FZ no sum is subnormal,
LEMMA AddedIsNotSubnormal ==
    ASSUME NEW f \in Formats, NEW a \in Patterns(f), NEW b \in Patterns(f), NEW r
    PROVE  ~is_subnormal(f, added(a, b, f, r, Flush).bits)
<1> DEFINE p == added(a, b, f, r, Flush)
<1>1. CASE is_nan(f, a) \/ is_nan(f, b)
  <2>1. p = propagate(<<a, b>>, f, Flush)
    BY <1>1, PairOfOperands DEF added
  <2>2. QED BY <1>1, <2>1, PropagatedIsNotSubnormal
<1>2. CASE ~(is_nan(f, a) \/ is_nan(f, b)) /\ (is_infinite(f, a) \/ is_infinite(f, b))
  <2>1. p = add_infinities(a, b, f)
    BY <1>2, PairOfOperands DEF added
  <2>2. \/ p = invalid_operation(f)
        \/ p = Exact(a) /\ is_infinite(f, a)
        \/ p = Exact(b) /\ is_infinite(f, b)
    BY <1>2, <2>1 DEF add_infinities
  <2>3. QED BY <2>2, InvalidIsNotSubnormal, SpecialIsNotSubnormal, RaisingIs
<1>3. CASE ~(is_nan(f, a) \/ is_nan(f, b)) /\ ~(is_infinite(f, a) \/ is_infinite(f, b))
  <2> DEFINE s == add_finite(unpack(a, f), unpack(b, f), r)
  <2>1. p = round_and_pack(s.value, s.sticky, f, r, Flush)
    BY <1>3, PairOfOperands DEF added
  <2>2. s.value.is_negative \in BOOLEAN
    BY UnpackIsOperand, AddFiniteFits DEF UnpackedValues
  <2> HIDE DEF s
  <2>3. QED BY <2>1, <2>2, RoundAndPackFlat
<1>4. QED BY <1>1, <1>2, <1>3

\* no product,
LEMMA MultipliedIsNotSubnormal ==
    ASSUME NEW f \in Formats, NEW x \in Patterns(f), NEW y \in Patterns(f), NEW r
    PROVE  ~is_subnormal(f, multiplied(x, y, f, r, Flush).bits)
<1> DEFINE p == multiplied(x, y, f, r, Flush)
<1>0. PICK n \in BOOLEAN : n = (is_negative(f, x) # is_negative(f, y))
  OBVIOUS
<1>1. CASE is_nan(f, x) \/ is_nan(f, y)
  <2>1. p = propagate(<<x, y>>, f, Flush)
    BY <1>1, PairOfOperands DEF multiplied
  <2>2. QED BY <1>1, <2>1, PropagatedIsNotSubnormal
<1>2. CASE ~(is_nan(f, x) \/ is_nan(f, y))
  <2>1. \/ p = invalid_operation(f) \/ p = Exact(signed_infinity(f, n)) \/ p = Exact(zero(f, n))
        \/ \E e, S, t : p = round_and_pack(Unpacked(n, e, S), t, f, r, Flush)
    BY <1>0, <1>2, PairOfOperands DEF multiplied
  <2>2. \A e, S : Unpacked(n, e, S).is_negative = n
    BY DEF Unpacked
  <2>3. CASE \E e, S, t : p = round_and_pack(Unpacked(n, e, S), t, f, r, Flush)
    <3> HIDE DEF p
    <3>1. PICK e, S, t : p = round_and_pack(Unpacked(n, e, S), t, f, r, Flush)
      BY <2>3
    <3> DEFINE v == Unpacked(n, e, S)
    <3>2. v.is_negative \in BOOLEAN
      BY <2>2
    <3> HIDE DEF v
    <3>3. ~is_subnormal(f, round_and_pack(v, t, f, r, Flush).bits)
      BY <3>2, RoundAndPackFlat
    <3>4. QED BY <3>1, <3>3 DEF v, p
  <2>4. CASE ~\E e, S, t : p = round_and_pack(Unpacked(n, e, S), t, f, r, Flush)
    BY <2>1, <2>4, InvalidIsNotSubnormal, InfinityIsInfinite, ZeroIsZero, RaisingIs
  <2>5. QED BY <2>3, <2>4
<1>3. QED BY <1>1, <1>2

\* and no quotient.
LEMMA DividedIsNotSubnormal ==
    ASSUME NEW f \in Formats, NEW x \in Patterns(f), NEW y \in Patterns(f), NEW r
    PROVE  ~is_subnormal(f, divided(x, y, f, r, Flush).bits)
<1> DEFINE p == divided(x, y, f, r, Flush)
<1>0. PICK n \in BOOLEAN : n = (is_negative(f, x) # is_negative(f, y))
  OBVIOUS
<1>1. CASE is_nan(f, x) \/ is_nan(f, y)
  <2>1. p = propagate(<<x, y>>, f, Flush)
    BY <1>1, PairOfOperands DEF divided
  <2>2. QED BY <1>1, <2>1, PropagatedIsNotSubnormal
<1>2. CASE ~(is_nan(f, x) \/ is_nan(f, y))
  <2>1. \/ p = divide_specials(x, y, n, f)
        \/ \E e, S, t : p = round_and_pack(Unpacked(n, e, S), t, f, r, Flush)
    BY <1>0, <1>2, PairOfOperands DEF divided
  <2>2. \A e, S : Unpacked(n, e, S).is_negative = n
    BY DEF Unpacked
  <2>3. CASE \E e, S, t : p = round_and_pack(Unpacked(n, e, S), t, f, r, Flush)
    <3> HIDE DEF p
    <3>1. PICK e, S, t : p = round_and_pack(Unpacked(n, e, S), t, f, r, Flush)
      BY <2>3
    <3> DEFINE v == Unpacked(n, e, S)
    <3>2. v.is_negative \in BOOLEAN
      BY <2>2
    <3> HIDE DEF v
    <3>3. ~is_subnormal(f, round_and_pack(v, t, f, r, Flush).bits)
      BY <3>2, RoundAndPackFlat
    <3>4. QED BY <3>1, <3>3 DEF v, p
  <2>4. CASE p = divide_specials(x, y, n, f)
    <3>1. \/ p = invalid_operation(f) \/ p = Exact(signed_infinity(f, n)) \/ p = Exact(zero(f, n))
          \/ p = Raising(signed_infinity(f, n), {"DIVIDE_BY_ZERO"})
      BY <2>4 DEF divide_specials
    <3>2. QED BY <3>1, InvalidIsNotSubnormal, InfinityIsInfinite, ZeroIsZero, RaisingIs
  <2>5. QED BY <2>1, <2>3, <2>4
<1>3. QED BY <1>1, <1>2

\* What FlushHidesSubnormals says of a result, and of that for the flat operands.
FlushConclusion(res, flat, x, y, f) ==
    /\ ~is_subnormal(f, res.bits)
    /\ res.bits = flat.bits
    /\ ("INPUT_DENORMAL" \in res.raised) = (is_subnormal(f, x) \/ is_subnormal(f, y))

\* What the property says of one operation.
LEMMA FlushConcluded ==
    ASSUME NEW f \in Formats, NEW x \in Patterns(f), NEW y \in Patterns(f), NEW p, p \in Results(f),
           ~is_subnormal(f, p.bits), NEW flags, NEW res, NEW flat,
           res = with_flags(p, flushed(x, f, Flush).raised \cup flushed(y, f, Flush).raised),
           flat = with_flags(p, flags)
    PROVE  FlushConclusion(res, flat, x, y, f)
<1> DEFINE R == flushed(x, f, Flush).raised \cup flushed(y, f, Flush).raised
<1>1. /\ with_flags(p, R).bits = p.bits /\ with_flags(p, R).raised = p.raised \cup R
      /\ with_flags(p, flags).bits = p.bits
  BY WithFlagsIs DEF Results
<1>2. "INPUT_DENORMAL" \notin p.raised
  BY DEF Results, Losses
<1>3. ("INPUT_DENORMAL" \in R) = (is_subnormal(f, x) \/ is_subnormal(f, y))
  <2>1. /\ flushed(x, f, Flush).raised = IF is_subnormal(f, x) THEN {"INPUT_DENORMAL"} ELSE {}
        /\ flushed(y, f, Flush).raised = IF is_subnormal(f, y) THEN {"INPUT_DENORMAL"} ELSE {}
    BY FlatIs
  <2>2. QED BY <2>1
<1> HIDE DEF R
<1>4. res = with_flags(p, R)
  BY DEF R
<1>5. QED BY <1>1, <1>2, <1>3, <1>4 DEF FlushConclusion

\* It holds of FADD and FSUB,
LEMMA SumFlushes ==
    ASSUME NEW f \in Formats, NEW x \in Patterns(f), NEW y \in Patterns(f), NEW r, NEW sub \in BOOLEAN
    PROVE  FlushConclusion(add(x, y, sub, f, r, Flush),
                           add(flat_of(f, x), flat_of(f, y), sub, f, r, Flush), x, y, f)
<1> DEFINE a == flat_of(f, x)
           b == flat_of(f, y)
           z == IF sub THEN negated(f, b) ELSE b
           p == added(a, z, f, r, Flush)
           flags == flushed(a, f, Flush).raised \cup flushed(b, f, Flush).raised
<1>1. /\ a \in Patterns(f) /\ b \in Patterns(f)
      /\ flushed(x, f, Flush).bits = a /\ flushed(y, f, Flush).bits = b
      /\ flushed(a, f, Flush).bits = a /\ flushed(b, f, Flush).bits = b
  <2>1. a \in Patterns(f) /\ b \in Patterns(f)
    BY FlatIs
  <2>2. flat_of(f, a) = a /\ flat_of(f, b) = b
    BY FlatIs
  <2>3. flushed(x, f, Flush).bits = a /\ flushed(y, f, Flush).bits = b
    BY FlatIs
  <2> HIDE DEF a, b
  <2>4. flushed(a, f, Flush).bits = a /\ flushed(b, f, Flush).bits = b
    BY <2>1, <2>2, FlatIs
  <2>5. QED BY <2>1, <2>3, <2>4
<1> HIDE DEF a, b
<1>2. z \in Patterns(f)
  BY <1>1, NegatedKinds
<1>3. add(x, y, sub, f, r, Flush)
        = with_flags(p, flushed(x, f, Flush).raised \cup flushed(y, f, Flush).raised)
  <2>1. z = IF sub THEN negated(f, flushed(y, f, Flush).bits) ELSE flushed(y, f, Flush).bits
    BY <1>1
  <2> HIDE DEF z
  <2>2. add(x, y, sub, f, r, Flush)
          = with_flags(added(flushed(x, f, Flush).bits, z, f, r, Flush),
                       flushed(x, f, Flush).raised \cup flushed(y, f, Flush).raised)
    BY <2>1 DEF add, added
  <2>3. QED BY <1>1, <2>2
<1>4. add(a, b, sub, f, r, Flush) = with_flags(p, flags)
  <2>1. z = IF sub THEN negated(f, flushed(b, f, Flush).bits) ELSE flushed(b, f, Flush).bits
    BY <1>1
  <2> HIDE DEF z
  <2>2. add(a, b, sub, f, r, Flush)
          = with_flags(added(flushed(a, f, Flush).bits, z, f, r, Flush), flags)
    BY <2>1 DEF add, added
  <2>3. QED BY <1>1, <2>2
<1> HIDE DEF z
<1>5. p \in Results(f)
  <2>1. PICK v \in BOOLEAN : v = (is_infinite(f, a) /\ is_infinite(f, z) /\ is_negative(f, a) # is_negative(f, z))
    OBVIOUS
  <2>2. Accounted(p, a, z, v, f, Flush)
    BY <1>1, <1>2, <2>1, AddedAccounted
  <2> HIDE DEF p
  <2>3. QED BY <2>2, AccountedResult
<1>6. ~is_subnormal(f, p.bits)
  BY <1>1, <1>2, AddedIsNotSubnormal
<1> HIDE DEF p, flags
<1> DEFINE res == add(x, y, sub, f, r, Flush)
           flat == add(a, b, sub, f, r, Flush)
<1>7. /\ res = with_flags(p, flushed(x, f, Flush).raised \cup flushed(y, f, Flush).raised)
      /\ flat = with_flags(p, flags)
  BY <1>3, <1>4
<1> HIDE DEF res, flat
<1>8. FlushConclusion(res, flat, x, y, f)
  BY <1>5, <1>6, <1>7, FlushConcluded
<1>9. QED BY <1>8 DEF res, flat, a, b

\* and of FMUL and FDIV.
LEMMA ProductFlushes ==
    ASSUME NEW f \in Formats, NEW x \in Patterns(f), NEW y \in Patterns(f), NEW r
    PROVE  /\ FlushConclusion(multiply(x, y, f, r, Flush),
                              multiply(flat_of(f, x), flat_of(f, y), f, r, Flush), x, y, f)
           /\ FlushConclusion(divide(x, y, f, r, Flush),
                              divide(flat_of(f, x), flat_of(f, y), f, r, Flush), x, y, f)
<1> DEFINE a == flat_of(f, x)
           b == flat_of(f, y)
           flags == flushed(a, f, Flush).raised \cup flushed(b, f, Flush).raised
<1>1. /\ a \in Patterns(f) /\ b \in Patterns(f)
      /\ flushed(x, f, Flush).bits = a /\ flushed(y, f, Flush).bits = b
      /\ flushed(a, f, Flush).bits = a /\ flushed(b, f, Flush).bits = b
  <2>1. a \in Patterns(f) /\ b \in Patterns(f)
    BY FlatIs
  <2>2. flat_of(f, a) = a /\ flat_of(f, b) = b
    BY FlatIs
  <2>3. flushed(x, f, Flush).bits = a /\ flushed(y, f, Flush).bits = b
    BY FlatIs
  <2> HIDE DEF a, b
  <2>4. flushed(a, f, Flush).bits = a /\ flushed(b, f, Flush).bits = b
    BY <2>1, <2>2, FlatIs
  <2>5. QED BY <2>1, <2>3, <2>4
<1> HIDE DEF a, b
<1>2. FlushConclusion(multiply(x, y, f, r, Flush), multiply(a, b, f, r, Flush), x, y, f)
  <2> DEFINE p == multiplied(a, b, f, r, Flush)
             res == multiply(x, y, f, r, Flush)
             flat == multiply(a, b, f, r, Flush)
  <2>1. /\ res = with_flags(p, flushed(x, f, Flush).raised \cup flushed(y, f, Flush).raised)
        /\ flat = with_flags(p, flags)
    BY <1>1, MultiplyIs
  <2>2. PICK v \in BOOLEAN :
            v = ((is_infinite(f, a) /\ is_zero(f, b)) \/ (is_zero(f, a) /\ is_infinite(f, b)))
    OBVIOUS
  <2>3. Accounted(p, a, b, v, f, Flush) /\ ~is_subnormal(f, p.bits)
    BY <1>1, <2>2, MultipliedAccounted, MultipliedIsNotSubnormal
  <2> HIDE DEF p, flags, res, flat
  <2>4. p \in Results(f)
    BY <2>3, AccountedResult
  <2>5. FlushConclusion(res, flat, x, y, f)
    BY <2>1, <2>3, <2>4, FlushConcluded
  <2>6. QED BY <2>5 DEF res, flat
<1>3. FlushConclusion(divide(x, y, f, r, Flush), divide(a, b, f, r, Flush), x, y, f)
  <2> DEFINE p == divided(a, b, f, r, Flush)
             res == divide(x, y, f, r, Flush)
             flat == divide(a, b, f, r, Flush)
  <2>1. /\ res = with_flags(p, flushed(x, f, Flush).raised \cup flushed(y, f, Flush).raised)
        /\ flat = with_flags(p, flags)
    BY <1>1, DivideIs
  <2>2. PICK v \in BOOLEAN :
            v = ((is_infinite(f, a) /\ is_infinite(f, b)) \/ (is_zero(f, a) /\ is_zero(f, b)))
    OBVIOUS
  <2>3. Accounted(p, a, b, v, f, Flush) /\ ~is_subnormal(f, p.bits)
    BY <1>1, <2>2, DividedAccounted, DividedIsNotSubnormal
  <2> HIDE DEF p, flags, res, flat
  <2>4. p \in Results(f)
    BY <2>3, AccountedResult
  <2>5. FlushConclusion(res, flat, x, y, f)
    BY <2>1, <2>3, <2>4, FlushConcluded
  <2>6. QED BY <2>5 DEF res, flat
<1>4. QED BY <1>2, <1>3 DEF a, b

\* round_wide under FZ is its unflushed result, flushed,
LEMMA RoundWideFlat ==
    ASSUME NEW f \in Formats, NEW v, v.is_negative \in BOOLEAN, NEW sticky, NEW r
    PROVE  round_wide(v, sticky, f, r, Flush).bits
             = flat_of(f, round_wide(v, sticky, f, r, Ieee754).bits)
<1>1. CASE v.significand = 0
  <2>1. /\ round_wide(v, sticky, f, r, Flush).bits = zero(f, v.is_negative)
        /\ round_wide(v, sticky, f, r, Ieee754).bits = zero(f, v.is_negative)
    BY <1>1 DEF round_wide, Exact
  <2>2. ~is_subnormal(f, zero(f, v.is_negative))
    BY ZeroIsZero
  <2>3. QED BY <2>1, <2>2 DEF flat_of
<1>2. CASE v.significand # 0
  <2>1. \E e, S, t : /\ round_wide(v, sticky, f, r, Flush)
                          = round_and_pack(Unpacked(v.is_negative, e, S), t, f, r, Flush)
                     /\ round_wide(v, sticky, f, r, Ieee754)
                          = round_and_pack(Unpacked(v.is_negative, e, S), t, f, r, Ieee754)
    BY <1>2 DEF round_wide
  <2>2. PICK e, S, t : /\ round_wide(v, sticky, f, r, Flush)
                            = round_and_pack(Unpacked(v.is_negative, e, S), t, f, r, Flush)
                       /\ round_wide(v, sticky, f, r, Ieee754)
                            = round_and_pack(Unpacked(v.is_negative, e, S), t, f, r, Ieee754)
    BY <2>1
  <2> DEFINE w == Unpacked(v.is_negative, e, S)
  <2>3. w.is_negative \in BOOLEAN
    BY DEF Unpacked
  <2> HIDE DEF w
  <2>4. round_and_pack(w, t, f, r, Flush).bits = flat_of(f, round_and_pack(w, t, f, r, Ieee754).bits)
    BY <2>3, RoundAndPackFlat
  <2>5. QED BY <2>2, <2>4 DEF w
<1>3. QED BY <1>1, <1>2

\* and so is accumulate.
LEMMA AccumulateFlat ==
    ASSUME NEW f \in Formats, NEW product, product.is_negative \in BOOLEAN,
           NEW addend \in Patterns(f), NEW r
    PROVE  accumulate_product(product, addend, f, r, Flush).bits
             = flat_of(f, accumulate_product(product, addend, f, r, Ieee754).bits)
<1> DEFINE wide == wide_addend(addend, f)
           a    == fused_align(product, wide)
           sum  == IF product.is_negative = wide.is_negative
                   THEN Unpacked(product.is_negative, a.exponent, a.product + a.addend)
                   ELSE IF a.product >= a.addend
                   THEN Unpacked(product.is_negative, a.exponent, a.product - a.addend)
                   ELSE Unpacked(wide.is_negative, a.exponent, a.addend - a.product)
           run(c) == accumulate_product(product, addend, f, r, c)
<1>1. \A c : run(c) = IF is_zero(f, addend) THEN round_wide(product, FALSE, f, r, c)
                      ELSE IF sum.significand = 0 /\ ~a.sticky THEN Exact(zero(f, r = "Minus"))
                      ELSE round_wide(sum, a.sticky /\ sum.significand # 0, f, r, c)
  BY DEF accumulate_product
<1>2. wide.is_negative \in BOOLEAN
  <2>1. unpack(addend, f) \in UnpackedValues
    BY UnpackIsOperand DEF IsOperand
  <2>2. QED BY <2>1 DEF wide_addend, UnpackedValues
<1>3. sum.is_negative \in BOOLEAN
  <2> HIDE DEF wide, a
  <2>1. QED BY <1>2 DEF Unpacked
<1> HIDE DEF wide, a, sum, run
<1>4. CASE is_zero(f, addend)
  <2>1. PICK no \in BOOLEAN : ~no
    OBVIOUS
  <2>2. \A c : run(c) = round_wide(product, no, f, r, c)
    BY <1>1, <1>4, <2>1
  <2>3. round_wide(product, no, f, r, Flush).bits = flat_of(f, round_wide(product, no, f, r, Ieee754).bits)
    BY RoundWideFlat
  <2>4. QED BY <2>2, <2>3 DEF run
<1>5. CASE ~is_zero(f, addend) /\ sum.significand = 0 /\ ~a.sticky
  <2>1. PICK n \in BOOLEAN : n = (r = "Minus")
    OBVIOUS
  <2>2. run(Flush).bits = zero(f, n) /\ run(Ieee754).bits = zero(f, n)
    BY <1>1, <1>5, <2>1 DEF Exact
  <2>3. ~is_subnormal(f, zero(f, n))
    BY ZeroIsZero
  <2>4. QED BY <2>2, <2>3 DEF run, flat_of
<1>6. CASE ~is_zero(f, addend) /\ ~(sum.significand = 0 /\ ~a.sticky)
  <2>1. PICK t : t = (a.sticky /\ sum.significand # 0)
    OBVIOUS
  <2>2. \A c : run(c) = round_wide(sum, t, f, r, c)
    BY <1>1, <1>6, <2>1
  <2>3. round_wide(sum, t, f, r, Flush).bits = flat_of(f, round_wide(sum, t, f, r, Ieee754).bits)
    BY <1>3, RoundWideFlat
  <2>4. QED BY <2>2, <2>3 DEF run
<1>7. QED BY <1>4, <1>5, <1>6

\* any_nan over three operands.
LEMMA TripleOfOperands ==
    ASSUME NEW f, NEW a, NEW b, NEW d
    PROVE  any_nan(<<a, b, d>>, f) = (is_nan(f, a) \/ is_nan(f, b) \/ is_nan(f, d))
<1>1. DOMAIN <<a, b, d>> = 1 .. 3 /\ <<a, b, d>>[1] = a /\ <<a, b, d>>[2] = b /\ <<a, b, d>>[3] = d
  OBVIOUS
<1>2. \A i \in 1 .. 3 : i = 1 \/ i = 2 \/ i = 3
  OBVIOUS
<1>3. any_nan(<<a, b, d>>, f) \in BOOLEAN
  BY KindsAreBoolean
<1>4. any_nan(<<a, b, d>>, f) <=> (is_nan(f, a) \/ is_nan(f, b) \/ is_nan(f, d))
  BY <1>1, <1>2 DEF any_nan
<1>5. QED BY <1>3, <1>4

\* Finite operands and a non-zero product leave one path through multiply_add.
LEMMA FusedIs ==
    ASSUME NEW f, NEW x, NEW y, NEW z, NEW r, NEW c,
           IsFinite(f, x), IsFinite(f, y), IsFinite(f, z), ~is_zero(f, x), ~is_zero(f, y), NEW o,
           o.multiplicand = x, o.multiplier = y, o.addend = z, ~o.is_addend_negated
    PROVE  multiply_add(o, f, r, c) = accumulate_product(exact_product(o, f), z, f, r, c)
<1>2. ~any_nan(<<x, y, z>>, f)
  BY TripleOfOperands DEF IsFinite, is_nan
<1>3. ~is_infinite(f, x) /\ ~is_infinite(f, y) /\ ~is_infinite(f, z)
  BY DEF IsFinite, is_infinite
<1>4. signed_addend(o, f) = z
  BY DEF signed_addend
<1>5. QED BY <1>2, <1>3, <1>4 DEF multiply_add

\* FMADD of finite operands and a non-zero product flushes its result.
LEMMA FusedFlushes ==
    ASSUME SweepType, NewPair, ~is_zero(Single, lhs), NEW addend \in Patterns(Single), AllFinite(addend),
           NEW negate \in BOOLEAN, NEW r
    PROVE  Fused(addend, negate, r, Flush).bits = flat_of(Single, Fused(addend, negate, r, Ieee754).bits)
<1> DEFINE o == Operands(addend, negate)
           v == exact_product(o, Single)
<1>1. Single \in Formats
  BY DEF Formats
<1>2. ~is_zero(Single, rhs)
  <2>1. lhs \in Nat /\ rhs \in Nat /\ sign_bit(Single) \in Nat \ {0}
    BY <1>1, FormatSizes DEF SweepType, Patterns, Sizes
  <2>2. lhs % sign_bit(Single) = lhs /\ rhs % sign_bit(Single) = rhs
    BY <2>1 DEF NewPair
  <2>3. QED BY <2>1, <2>2 DEF is_zero, magnitude_bits, NewPair
<1>3. \A c : Fused(addend, negate, r, c) = accumulate_product(v, addend, Single, r, c)
  <2>1. TAKE c
  <2>2. o.multiplicand = lhs /\ o.multiplier = rhs /\ o.addend = addend /\ ~o.is_addend_negated
    BY DEF Operands
  <2> HIDE DEF o
  <2>3. IsFinite(Single, lhs) /\ IsFinite(Single, rhs) /\ IsFinite(Single, addend)
    BY DEF AllFinite
  <2> HIDE DEF v
  <2>4. multiply_add(o, Single, r, c) = accumulate_product(exact_product(o, Single), addend, Single, r, c)
    BY <1>2, <2>2, <2>3, FusedIs
  <2>5. QED BY <2>4 DEF Fused, o, v
<1>4. v.is_negative \in BOOLEAN
  BY DEF exact_product, Unpacked, product_negative
<1> HIDE DEF v
<1>5. accumulate_product(v, addend, Single, r, Flush).bits
        = flat_of(Single, accumulate_product(v, addend, Single, r, Ieee754).bits)
  BY <1>1, <1>4, AccumulateFlat
<1>6. QED BY <1>3, <1>5

\* Every pair of patterns satisfies the property.
LEMMA FlushHidesNow == SweepType => FlushHidesSubnormals
<1> DEFINE flat(x) == IF is_subnormal(Single, x) THEN zero(Single, is_negative(Single, x)) ELSE x
           denormal == is_subnormal(Single, lhs) \/ is_subnormal(Single, rhs)
           run(op, r, x, y) == soft_binary(op, [lhs |-> x, rhs |-> y, format |-> Single,
                                                rounding |-> r], Flush)
<1>0. SUFFICES ASSUME SweepType PROVE FlushHidesSubnormals
  OBVIOUS
<1>1. lhs \in Patterns(Single) /\ rhs \in Patterns(Single) /\ Single \in Formats
  BY <1>0 DEF SweepType, Formats
<1>2. \A x : flat(x) = flat_of(Single, x)
  BY DEF flat_of
<1> HIDE DEF flat
<1>3. ASSUME NEW r \in Modes, NEW op \in {"Add", "Sub", "Mul", "Div"}
      PROVE  /\ ~is_subnormal(Single, run(op, r, lhs, rhs).bits)
             /\ run(op, r, lhs, rhs).bits = run(op, r, flat(lhs), flat(rhs)).bits
             /\ ("INPUT_DENORMAL" \in run(op, r, lhs, rhs).raised) = denormal
  <2>1. SUFFICES FlushConclusion(run(op, r, lhs, rhs), run(op, r, flat(lhs), flat(rhs)), lhs, rhs, Single)
    BY DEF FlushConclusion
  <2>2. CASE op = "Add"
    <3>1. PICK s \in BOOLEAN : ~s
      OBVIOUS
    <3>2. \A x, y : run(op, r, x, y) = add(x, y, s, Single, r, Flush)
      BY <2>2, <3>1 DEF soft_binary
    <3>3. QED BY <1>1, <1>2, <3>2, SumFlushes
  <2>3. CASE op = "Sub"
    <3>1. PICK s \in BOOLEAN : s
      OBVIOUS
    <3>2. \A x, y : run(op, r, x, y) = add(x, y, s, Single, r, Flush)
      BY <2>3, <3>1 DEF soft_binary
    <3>3. QED BY <1>1, <1>2, <3>2, SumFlushes
  <2>4. CASE op = "Mul"
    <3>1. \A x, y : run(op, r, x, y) = multiply(x, y, Single, r, Flush)
      BY <2>4 DEF soft_binary
    <3>2. QED BY <1>1, <1>2, <3>1, ProductFlushes
  <2>5. CASE op = "Div"
    <3>1. \A x, y : run(op, r, x, y) = divide(x, y, Single, r, Flush)
      BY <2>5 DEF soft_binary
    <3>2. QED BY <1>1, <1>2, <3>1, ProductFlushes
  <2>6. QED BY <2>2, <2>3, <2>4, <2>5
<1>4. ASSUME NEW r \in Modes, NewPair, ~is_zero(Single, lhs), NEW addend \in Patterns(Single),
             NEW negate \in BOOLEAN, AllFinite(addend)
      PROVE  Fused(addend, negate, r, Flush).bits = flat(Fused(addend, negate, r, Ieee754).bits)
  BY <1>0, <1>2, <1>4, FusedFlushes
<1> HIDE DEF denormal
<1>5. QED BY <1>3, <1>4 DEF FlushHidesSubnormals, flat, denormal

\* With FPCR.FZ no operation of arithmetic.rs sees or returns a subnormal, each
\* flushed operand raises INPUT_DENORMAL, and fused.rs flushes what it computes:
\* for every width of the format.
THEOREM FlushAlwaysHidesSubnormals == Spec => []FlushHidesSubnormals
  BY SweepTyped, FlushHidesNow, PTL

\* ordering in terms of the signs and magnitudes: u and v the values.
LEMMA OrderingIs ==
    ASSUME NEW f \in Formats, NEW x \in Patterns(f), NEW y \in Patterns(f)
    PROVE  LET u == SignedUlps(f, x)
               v == SignedUlps(f, y)
               o == ordering(x, y, f)
           IN  /\ u \in Int /\ v \in Int
               /\ o \in {"Less", "Equal", "Greater"}
               /\ (o = "Less") = (u < v) /\ (o = "Equal") = (u = v) /\ (o = "Greater") = (u > v)
               /\ ~(is_zero(f, x) /\ is_zero(f, y)) /\ u = v => x = y
<1> DEFINE a == magnitude_bits(f, x)
           b == magnitude_bits(f, y)
           p == Ulps(f, x)
           q == Ulps(f, y)
           m == is_negative(f, x)
           n == is_negative(f, y)
           u == SignedUlps(f, x)
           v == SignedUlps(f, y)
           o == ordering(x, y, f)
<1>1. /\ a \in Nat /\ b \in Nat /\ p \in Nat /\ q \in Nat
      /\ (p < q) = (a < b) /\ (p = q) = (a = b) /\ (p > q) = (a > b)
      /\ (a = 0 => p = 0) /\ (b = 0 => q = 0)
      /\ (a = b /\ m = n => x = y)
  BY UlpsOrder
<1>1a. (p = 0) = (a = 0) /\ (q = 0) = (b = 0)
  <2>1. PICK z \in Patterns(f) : magnitude_bits(f, z) = 0
    BY ZeroIsZero
  <2>2. Ulps(f, z) = 0
    BY <2>1, UlpsOrder
  <2>3. ASSUME NEW w \in Patterns(f) PROVE (Ulps(f, w) = Ulps(f, z)) = (magnitude_bits(f, w) = magnitude_bits(f, z))
    BY <2>1, UlpsOrder
  <2>4. QED BY <2>1, <2>2, <2>3
<1>2. m \in BOOLEAN /\ n \in BOOLEAN
  BY PatternOfFields
<1>3. u = (IF m THEN -p ELSE p) /\ v = (IF n THEN -q ELSE q)
  BY DEF SignedUlps
<1>4. is_zero(f, x) = (a = 0) /\ is_zero(f, y) = (b = 0)
  BY DEF is_zero
<1>5. o = IF (a = 0 /\ b = 0) \/ x = y THEN "Equal"
          ELSE IF m # n THEN IF m THEN "Less" ELSE "Greater"
          ELSE IF (a < b) = m THEN "Greater" ELSE "Less"
  BY <1>4 DEF ordering
<1>6. x = y => a = b /\ m = n
  OBVIOUS
<1> HIDE DEF a, b, p, q, m, n, u, v, o
<1>7. u \in Int /\ v \in Int
  BY <1>1, <1>2, <1>3
<1>8. ~(a = 0 /\ b = 0) /\ u = v => x = y
  BY <1>1, <1>1a, <1>2, <1>3
<1>9. o \in {"Less", "Equal", "Greater"}
  BY <1>5
<1>10. CASE (a = 0 /\ b = 0) \/ x = y
  <2>1. u = v
    <3>1. a = b
      BY <1>6, <1>10
    <3>2. p = q
      BY <1>1, <3>1
    <3>3. CASE a = 0 /\ b = 0
      BY <1>1, <1>2, <1>3, <3>3
    <3>4. CASE m = n
      BY <1>3, <3>2, <3>4
    <3>5. QED BY <1>6, <1>10, <3>3, <3>4
  <2>2. o = "Equal"
    BY <1>5, <1>10
  <2>3. (o = "Less") = (u < v) /\ (o = "Equal") = (u = v) /\ (o = "Greater") = (u > v)
    BY <1>7, <2>1, <2>2
  <2>4. QED BY <1>4, <1>7, <1>8, <1>9, <2>3 DEF a, b, u, v, o
<1>11. CASE ~((a = 0 /\ b = 0) \/ x = y) /\ m # n
  <2>1. o = IF m THEN "Less" ELSE "Greater"
    BY <1>5, <1>11
  <2>2. IF m THEN u < v ELSE v < u
    <3>1. p > 0 \/ q > 0
      BY <1>1, <1>1a, <1>11
    <3>2. CASE m
      <4>1. u = -p /\ v = q
        BY <1>2, <1>3, <1>11, <3>2
      <4>2. QED BY <1>1, <3>1, <3>2, <4>1
    <3>3. CASE ~m
      <4>1. u = p /\ v = -q
        BY <1>2, <1>3, <1>11, <3>3
      <4>2. QED BY <1>1, <3>1, <3>3, <4>1
    <3>4. QED BY <3>2, <3>3
  <2>3. CASE m
    <3>1. o = "Less" /\ u < v
      BY <2>1, <2>2, <2>3
    <3>2. QED BY <1>4, <1>7, <1>8, <1>9, <3>1 DEF a, b, u, v, o
  <2>4. CASE ~m
    <3>1. o = "Greater" /\ v < u
      BY <2>1, <2>2, <2>4
    <3>2. QED BY <1>4, <1>7, <1>8, <1>9, <3>1 DEF a, b, u, v, o
  <2>5. QED BY <2>3, <2>4
<1>12. CASE ~((a = 0 /\ b = 0) \/ x = y) /\ m = n
  <2>1. a # b
    BY <1>1, <1>12
  <2>2. CASE m
    <3>1. u = -p /\ v = -q
      BY <1>3, <1>12, <2>2
    <3>2. CASE a < b
      <4>1. o = "Greater"
        BY <1>5, <1>12, <2>2, <3>2
      <4>2. u > v
        BY <1>1, <3>1, <3>2
      <4>3. QED BY <1>4, <1>7, <1>8, <1>9, <4>1, <4>2 DEF a, b, u, v, o
    <3>3. CASE ~(a < b)
      <4>1. o = "Less"
        BY <1>5, <1>12, <2>2, <3>3
      <4>2. u < v
        BY <1>1, <2>1, <3>1, <3>3
      <4>3. QED BY <1>4, <1>7, <1>8, <1>9, <4>1, <4>2 DEF a, b, u, v, o
    <3>4. QED BY <3>2, <3>3
  <2>3. CASE ~m
    <3>1. u = p /\ v = q
      BY <1>3, <1>12, <2>3
    <3>2. CASE a < b
      <4>1. o = "Less"
        BY <1>2, <1>5, <1>12, <2>3, <3>2
      <4>2. u < v
        BY <1>1, <3>1, <3>2
      <4>3. QED BY <1>4, <1>7, <1>8, <1>9, <4>1, <4>2 DEF a, b, u, v, o
    <3>3. CASE ~(a < b)
      <4>1. o = "Greater"
        BY <1>2, <1>5, <1>12, <2>3, <3>3
      <4>2. u > v
        BY <1>1, <2>1, <3>1, <3>3
      <4>3. QED BY <1>4, <1>7, <1>8, <1>9, <4>1, <4>2 DEF a, b, u, v, o
    <3>4. QED BY <3>2, <3>3
  <2>4. QED BY <2>2, <2>3
<1>13. QED BY <1>10, <1>11, <1>12

\* FMAX and FMIN return the two operands in order, +0 above -0.
LEMMA ExtremumIs ==
    ASSUME NEW f \in Formats, NEW x \in Patterns(f), NEW y \in Patterns(f), ~is_nan(f, x), ~is_nan(f, y), NEW c,
           NEW max, max = extremum(x, y, "Max", f, c).bits, NEW min, min = extremum(x, y, "Min", f, c).bits
    PROVE  /\ {max, min} = {x, y}
           /\ SignedUlps(f, min) <= SignedUlps(f, max)
           /\ x # y /\ SignedUlps(f, min) = SignedUlps(f, max)
                => is_negative(f, min) /\ ~is_negative(f, max)
<1> DEFINE u == SignedUlps(f, x)
           v == SignedUlps(f, y)
           o == ordering(x, y, f)
<1>1. /\ u \in Int /\ v \in Int
      /\ (o = "Greater") = (u > v) /\ (~(is_zero(f, x) /\ is_zero(f, y)) /\ u = v => x = y)
  BY OrderingIs
<1>2. /\ is_maximum("Max") /\ ~is_maximum("Min") /\ ~ignores_quiet_nan("Max") /\ ~ignores_quiet_nan("Min")
      /\ ~any_nan(<<x, y>>, f)
  BY PairOfOperands DEF is_maximum, ignores_quiet_nan
<1>3. CASE is_zero(f, x) /\ is_zero(f, y)
  <2>1. PICK m \in BOOLEAN : m = is_negative(f, x)
    BY PatternOfFields
  <2>2. PICK n \in BOOLEAN : n = is_negative(f, y)
    BY PatternOfFields
  <2>3. x = zero(f, m) /\ Ulps(f, x) = 0 /\ y = zero(f, n) /\ Ulps(f, y) = 0
    BY <1>3, <2>1, <2>2, ZeroOfSign
  <2>4. max = zero(f, m /\ n) /\ min = zero(f, m \/ n)
    BY <1>2, <1>3, <2>1, <2>2 DEF extremum, Exact
  <2>5. u = 0 /\ v = 0
    <3>1. Ulps(f, x) \in Nat /\ Ulps(f, x) < 1 /\ Ulps(f, y) \in Nat /\ Ulps(f, y) < 1
      BY <2>3
    <3>2. \A i \in Nat : i < 1 => -i = i
      BY NegatedZero
    <3>3. u = Ulps(f, x) /\ v = Ulps(f, y)
      BY <3>1, <3>2 DEF SignedUlps
    <3>4. QED BY <2>3, <3>3
  <2>6. CASE m = n
    <3>1. max = x /\ min = x /\ x = y
      BY <2>3, <2>4, <2>6
    <3>2. QED BY <2>5, <3>1
  <2>7. CASE m /\ ~n
    <3>1. max = y /\ min = x
      BY <2>3, <2>4, <2>7 DEF zero
    <3>2. {max, min} = {x, y}
      BY <3>1
    <3>3. is_negative(f, min) /\ ~is_negative(f, max)
      BY <2>1, <2>2, <2>7, <3>1
    <3>4. SignedUlps(f, min) <= SignedUlps(f, max)
      BY <2>5, <3>1
    <3>5. QED BY <3>2, <3>3, <3>4
  <2>8. CASE n /\ ~m
    <3>1. max = x /\ min = y
      BY <2>3, <2>4, <2>8 DEF zero
    <3>2. {max, min} = {x, y}
      BY <3>1
    <3>3. is_negative(f, min) /\ ~is_negative(f, max)
      BY <2>1, <2>2, <2>8, <3>1
    <3>4. SignedUlps(f, min) <= SignedUlps(f, max)
      BY <2>5, <3>1
    <3>5. QED BY <3>2, <3>3, <3>4
  <2>9. QED BY <2>6, <2>7, <2>8
<1>4. CASE ~(is_zero(f, x) /\ is_zero(f, y))
  <2>1. /\ max = (IF (o = "Greater") = TRUE THEN x ELSE y)
        /\ min = (IF (o = "Greater") = FALSE THEN x ELSE y)
    <3>1. is_maximum("Max") = TRUE /\ is_maximum("Min") = FALSE
      BY DEF is_maximum
    <3>2. QED BY <1>2, <1>4, <3>1 DEF extremum, Exact
  <2> HIDE DEF o
  <2>2. CASE o = "Greater"
    <3>1. max = x /\ min = y /\ u > v
      BY <1>1, <2>1, <2>2
    <3>2. QED BY <1>1, <3>1
  <2>3. CASE o # "Greater"
    <3>1. max = y /\ min = x /\ ~(u > v)
      BY <1>1, <2>1, <2>3
    <3>2. QED BY <1>1, <1>4, <3>1
  <2>4. QED BY <2>2, <2>3
<1>5. QED BY <1>3, <1>4

\* Every pair of patterns satisfies the property.
LEMMA OrderIsNumericNow == SweepType => OrderIsNumeric
<1> DEFINE value(x) == IF is_infinite(Single, x)
                       THEN (IF is_negative(Single, x) THEN -1 ELSE 1) * Ulps(Single, infinity(Single))
                       ELSE SignedUlps(Single, x)
           max == extremum(lhs, rhs, "Max", Single, Ieee754).bits
           min == extremum(lhs, rhs, "Min", Single, Ieee754).bits
           order == compare(lhs, rhs, Single, FALSE).ordering
           u == SignedUlps(Single, lhs)
           v == SignedUlps(Single, rhs)
<1>0. SUFFICES ASSUME SweepType, ~any_nan(<<lhs, rhs>>, Single)
               PROVE  /\ (order = "Less") = (value(lhs) < value(rhs))
                      /\ (order = "Equal") = (value(lhs) = value(rhs))
                      /\ (order = "Greater") = (value(lhs) > value(rhs))
                      /\ {max, min} = {lhs, rhs}
                      /\ value(min) <= value(max)
                      /\ lhs # rhs /\ value(min) = value(max)
                           => is_negative(Single, min) /\ ~is_negative(Single, max)
  BY DEF OrderIsNumeric
<1>1. lhs \in Patterns(Single) /\ rhs \in Patterns(Single) /\ Single \in Formats
  BY <1>0 DEF SweepType, Formats
<1>2. ASSUME NEW x \in Patterns(Single) PROVE value(x) = SignedUlps(Single, x)
  <2>1. CASE is_infinite(Single, x)
    <3>1. PICK no \in BOOLEAN : ~no
      OBVIOUS
    <3>2. infinity(Single) = signed_infinity(Single, no)
      <4>1. infinity(Single) \in Int
        <5>1. /\ infinity(Single) = (pow2[Single.exponent_bits] - 1) * pow2[Single.mantissa_bits]
              /\ pow2[Single.exponent_bits] \in Nat /\ pow2[Single.mantissa_bits] \in Nat
          BY <1>1, FormatSizes DEF Sizes
        <5>2. QED BY <5>1, TimesTyped
      <4>2. QED BY <3>1, <4>1 DEF signed_infinity, zero
    <3>3. raw_exponent(Single, infinity(Single)) = max_exponent(Single) /\ mantissa(Single, infinity(Single)) = 0
      BY <1>1, <3>2, InfinityIsInfinite
    <3>4. raw_exponent(Single, x) = max_exponent(Single) /\ mantissa(Single, x) = 0
      BY <2>1 DEF is_infinite
    <3>5. Ulps(Single, x) = Ulps(Single, infinity(Single))
      BY <3>3, <3>4 DEF Ulps
    <3>6. Ulps(Single, x) \in Nat
      BY <1>1, UlpsOrder
    <3>7. QED BY <2>1, <3>5, <3>6 DEF SignedUlps
  <2>2. CASE ~is_infinite(Single, x)
    BY <2>2
  <2>3. QED BY <2>1, <2>2
<1> HIDE DEF value
<1>3. order = ordering(lhs, rhs, Single)
  BY <1>0 DEF compare
<1>4. /\ (order = "Less") = (u < v) /\ (order = "Equal") = (u = v) /\ (order = "Greater") = (u > v)
  <2> DEFINE o == ordering(lhs, rhs, Single)
  <2>1. (o = "Less") = (u < v) /\ (o = "Equal") = (u = v) /\ (o = "Greater") = (u > v)
    BY <1>1, OrderingIs
  <2> HIDE DEF o, u, v, order
  <2>2. order = o
    BY <1>3 DEF o
  <2>3. QED BY <2>1, <2>2
<1>5. value(lhs) = u /\ value(rhs) = v
  BY <1>1, <1>2
<1>6. /\ {max, min} = {lhs, rhs}
      /\ SignedUlps(Single, min) <= SignedUlps(Single, max)
      /\ lhs # rhs /\ SignedUlps(Single, min) = SignedUlps(Single, max)
            => is_negative(Single, min) /\ ~is_negative(Single, max)
  <2>1. ~is_nan(Single, lhs) /\ ~is_nan(Single, rhs)
    BY <1>0, PairOfOperands
  <2> HIDE DEF max, min
  <2>2. max = extremum(lhs, rhs, "Max", Single, Ieee754).bits /\ min = extremum(lhs, rhs, "Min", Single, Ieee754).bits
    BY DEF max, min
  <2>3. QED BY <1>1, <2>1, <2>2, ExtremumIs
<1> HIDE DEF max, min, order, u, v
<1>7. max \in Patterns(Single) /\ min \in Patterns(Single)
  BY <1>1, <1>6
<1>8. value(max) = SignedUlps(Single, max) /\ value(min) = SignedUlps(Single, min)
  BY <1>2, <1>7
<1>9. QED BY <1>4, <1>5, <1>6, <1>8

\* FCMP, FMAX and FMIN follow the order of the values, for every width of the
\* format (compare.rs compares bit patterns).
THEOREM OrderAlwaysNumeric == Spec => []OrderIsNumeric
  BY SweepTyped, OrderIsNumericNow, PTL

\* A multiple of d plus or minus a smaller term, divided by d.
LEMMA DivSum ==
    ASSUME NEW A \in Nat, NEW B \in Nat, NEW d \in Nat \ {0}
    PROVE  d * A + B \in Nat /\ (d * A + B) \div d = A + (B \div d) /\ (d * A + B) % d = B % d
<1> DEFINE Y == d * A + B
           q == B \div d
           s == B % d
           z == A + q
<1>1. q \in Int /\ s \in 0 .. d - 1 /\ B = d * q + s
  BY DivMod
<1> HIDE DEF q, s
<1>2. d * z = d * A + d * q /\ d * A \in Nat /\ d * q \in Int
  BY <1>1, Z3
<1>3. z \in Int /\ Y = d * z + s /\ Y \in Nat
  BY <1>1, <1>2
<1> HIDE DEF z
<1>4. (d * z + s) \div d = z /\ (d * z + s) % d = s
  BY <1>1, <1>3, DivUnique
<1>5. QED BY <1>3, <1>4 DEF z, q, s

\* The quotient of a difference borrows for what the division drops.
LEMMA DivDifference ==
    ASSUME NEW A \in Nat, NEW B \in Nat, NEW d \in Nat \ {0}, B <= d * A
    PROVE  /\ d * A - B \in Nat /\ (d * A - B) \div d = A - (B \div d) - (IF B % d # 0 THEN 1 ELSE 0)
           /\ (d * A - B) % d # 0 <=> B % d # 0
<1> DEFINE Y == d * A - B
           q == B \div d
           s == B % d
<1>1. q \in Int /\ s \in 0 .. d - 1 /\ B = d * q + s
  BY DivMod
<1>0. d * A \in Nat /\ Y \in Nat
  BY Z3
<1> HIDE DEF q, s
<1>2. CASE s = 0
  <2> DEFINE z == A - q
  <2>1. d * z = d * A - d * q /\ d * q \in Int
    BY <1>1, Z3
  <2>2. z \in Int /\ Y = d * z + 0 /\ 0 \in 0 .. d - 1
    BY <1>0, <1>1, <1>2, <2>1
  <2> HIDE DEF z
  <2>3. (d * z + 0) \div d = z /\ (d * z + 0) % d = 0
    BY <2>2, DivUnique
  <2>4. Y \div d = z /\ Y % d = 0
    BY <2>2, <2>3
  <2>5. QED BY <1>0, <1>1, <1>2, <2>4 DEF z, q, s
<1>3. CASE s # 0
  <2> DEFINE z == A - q - 1
             w == d - s
  <2>1. d * z = d * A - d * q - d /\ d * q \in Int
    BY <1>1, Z3
  <2>2. z \in Int /\ w \in 0 .. d - 1 /\ w # 0 /\ Y = d * z + w
    BY <1>0, <1>1, <1>3, <2>1
  <2> HIDE DEF z, w
  <2>3. (d * z + w) \div d = z /\ (d * z + w) % d = w
    BY <2>2, DivUnique
  <2>4. Y \div d = z /\ Y % d # 0
    BY <2>2, <2>3
  <2>5. QED BY <1>0, <1>1, <1>3, <2>4 DEF z, q, s
<1>4. QED BY <1>2, <1>3

\* Two exact terms, d binary places apart.
Terms(A, B, a, b, d, U, V, den, no, f) ==
    no \in BOOLEAN /\ d = a - b /\ ~no /\ Stands(A, no, a, U, den, f) /\ Stands(B, no, b, V, den, f)

\* They are multiples of one power of two.
Common(i, j, A, B, b, d, U, V, den, f) ==
    /\ i - j = b - min_exponent(f) - 3
    /\ B * (den * pow2[i]) = V * pow2[j]
    /\ (pow2[d] * A) * (den * pow2[i]) = U * pow2[j]

\* Two terms in a common unit.
LEMMA CommonUnit ==
    ASSUME NEW f \in Formats, NEW A \in Nat, NEW B \in Nat, NEW a \in Int, NEW b \in Int,
           NEW d \in Nat, NEW U \in Nat, NEW V \in Nat, NEW den \in Nat \ {0},
           NEW no, Terms(A, B, a, b, d, U, V, den, no, f)
    PROVE  \E i, j \in Nat : Common(i, j, A, B, b, d, U, V, den, f)
<1> DEFINE me == min_exponent(f)
<1>0. no \in BOOLEAN /\ d = a - b /\ ~no /\ Stands(A, no, a, U, den, f) /\ Stands(B, no, b, V, den, f)
  BY DEF Terms
<1>1. me \in Int
  BY MinExponentIs
<1>2. PICK i \in Nat, j \in Nat : i - j = b - me - 3 /\ Floors(B, no, V * pow2[j], den * pow2[i])
  BY <1>0 DEF Stands
<1> DEFINE x == i + d
<1>3. x \in Nat /\ x - j = a - me - 3 /\ x = i + d
  BY <1>0, <1>1, <1>2
<1> HIDE DEF x
<1>4. pow2[i] \in Nat \ {0} /\ pow2[j] \in Nat \ {0} /\ pow2[d] \in Nat \ {0} /\ pow2[x] = pow2[i] * pow2[d]
      /\ pow2[x] \in Nat \ {0}
  <2>1. pow2[x] = pow2[i] * pow2[d]
    BY <1>3, PowSplit
  <2>2. QED BY <1>3, <2>1, PowSucc
<1>5. Floors(A, no, U * pow2[j], den * pow2[x])
  BY <1>0, <1>1, <1>2, <1>3, StandsAt, SMTT(30)
<1>6. /\ den * pow2[i] \in Nat \ {0} /\ den * pow2[x] \in Nat \ {0} /\ V * pow2[j] \in Nat /\ U * pow2[j] \in Nat
  BY <1>4, TimesTyped
<1>7. A * (den * pow2[x]) = U * pow2[j] /\ B * (den * pow2[i]) = V * pow2[j]
  <2> DEFINE p == den * pow2[x]
             q == den * pow2[i]
             y == U * pow2[j]
             z == V * pow2[j]
  <2>1. p \in Nat \ {0} /\ q \in Nat \ {0} /\ y \in Nat /\ z \in Nat /\ Floors(A, no, y, p) /\ Floors(B, no, z, q)
    BY <1>2, <1>5, <1>6
  <2> HIDE DEF p, q, y, z
  <2>2. A * p = y /\ B * q = z
    BY <1>0, <2>1, ExactFloors
  <2>3. QED BY <2>2 DEF p, q, y, z
<1>8. A * (den * (pow2[i] * pow2[d])) = (pow2[d] * A) * (den * pow2[i])
  <2>1. \A p, q \in Nat : A * (den * (p * q)) = (q * A) * (den * p)
    BY Z3
  <2>2. QED BY <1>4, <2>1
<1>9. QED BY <1>2, <1>4, <1>7, <1>8 DEF Common

\* B shifted right by d.
Aligns(lost, K, B, d) == lost \in BOOLEAN /\ (lost <=> B % pow2[d] # 0) /\ K = B \div pow2[d]

\* The larger term exceeds the smaller one.
Covers(A, B, d) == B <= pow2[d] * A

\* The sum, and the difference with its borrow, stand for theirs.
Combined(A, K, lost, a, U, V, den, f) ==
    Stands(A + K, lost, a, U + V, den, f)

\* The aligned difference stands for the difference.
Borrowed(A, K, lost, a, U, V, den, f) ==
    /\ V <= U
    /\ A - K - (IF lost THEN 1 ELSE 0) \in Nat
    /\ Stands(A - K - (IF lost THEN 1 ELSE 0), lost, a, U - V, den, f)

\* Aligning the smaller term on the larger: what is kept and what is lost.
LEMMA AlignedStands ==
    ASSUME NEW f \in Formats, NEW A \in Nat, NEW B \in Nat, NEW a \in Int, NEW b \in Int,
           NEW d \in Nat, NEW U \in Nat, NEW V \in Nat, NEW den \in Nat \ {0},
           NEW no, Terms(A, B, a, b, d, U, V, den, no, f),
           NEW lost, NEW K, Aligns(lost, K, B, d)
    PROVE  /\ Combined(A, K, lost, a, U, V, den, f)
           /\ Covers(A, B, d) => Borrowed(A, K, lost, a, U, V, den, f)
<1> DEFINE me == min_exponent(f)
           D == pow2[d]
<1>0. d = a - b /\ ~no /\ no \in BOOLEAN /\ lost \in BOOLEAN
  BY DEF Terms, Aligns
<1>1. me \in Int /\ D \in Nat \ {0} /\ min_exponent(f) \in Int
  BY MinExponentIs, PowSucc
<1>2a. PICK i \in Nat, j \in Nat : Common(i, j, A, B, b, d, U, V, den, f)
  BY CommonUnit
<1>2. /\ i - j = b - me - 3
      /\ B * (den * pow2[i]) = V * pow2[j]
      /\ (D * A) * (den * pow2[i]) = U * pow2[j]
  BY <1>2a DEF Common
<1> DEFINE P == den * pow2[i]
           N == pow2[j]
           X == D * A
<1>3. P \in Nat \ {0} /\ N \in Nat \ {0} /\ X \in Nat
  <2>1. pow2[i] \in Nat \ {0} /\ pow2[j] \in Nat \ {0}
    BY PowSucc
  <2>2. den * pow2[i] \in Int /\ den * pow2[i] > 0
    BY <2>1, TimesTyped
  <2>3. D * A \in Int /\ D * A >= 0
    BY <1>1, TimesTyped
  <2>4. QED BY <2>1, <2>2, <2>3
<1>4. B * P = V * N /\ X * P = U * N /\ K = B \div D /\ (lost <=> B % D # 0)
  BY <1>2 DEF Aligns
<1>5. b + d = a
  BY <1>0
<1>6. i - j = b - min_exponent(f) - 3
  BY <1>2
<1>7. \A z, Z \in Nat : z * P = Z * N => Stands(z, no, b, Z, den, f)
  <2> SUFFICES ASSUME NEW z \in Nat, NEW Z \in Nat, z * P = Z * N PROVE Stands(z, no, b, Z, den, f)
    OBVIOUS
  <2>1. Z * N \in Nat
    BY <1>3, TimesTyped
  <2>2. Floors(z, no, Z * N, P)
    BY <1>0, <1>3, <2>1, ExactFloors
  <2>3. QED BY <1>6, <2>2 DEF Stands
<1> HIDE DEF me, D, P, N
<1>8. Stands(A + K, lost, a, U + V, den, f)
  <2> DEFINE Y == D * A + B
  <2>1. Y \in Nat /\ Y \div D = A + K /\ Y % D = B % D
    <3>1. Y \in Nat /\ Y \div D = A + (B \div D) /\ Y % D = B % D
      <4>1. D \in Nat \ {0}
        BY <1>1
      <4>2. QED BY <4>1, DivSum, ZenonT(60)
    <3>2. QED BY <1>4, <3>1
  <2>2. Y * P = (U + V) * N
    <3>1. (X + B) * P = X * P + B * P /\ (U + V) * N = U * N + V * N
      BY <1>3, Z3
    <3>2. QED BY <1>4, <3>1
  <2> HIDE DEF Y
  <2> DEFINE Z == U + V
  <2>3. Z \in Nat /\ Y * P = Z * N
    BY <2>2
  <2> HIDE DEF Z
  <2>4. Stands(Y, no, b, Z, den, f)
    BY <1>7, <2>1, <2>3
  <2>5. lost <=> (no \/ Y % pow2[d] # 0)
    BY <1>0, <1>4, <2>1 DEF D
  <2>6. Stands(Y \div pow2[d], lost, b + d, Z, den, f)
    BY <1>0, <1>1, <2>1, <2>3, <2>4, <2>5, StandsShift
  <2>7. QED BY <1>5, <2>1, <2>6 DEF D, Z
<1>9. ASSUME B <= X
      PROVE  /\ V <= U /\ (U = V <=> B = X)
             /\ A - K - (IF lost THEN 1 ELSE 0) \in Nat
             /\ Stands(A - K - (IF lost THEN 1 ELSE 0), lost, a, U - V, den, f)
  <2> DEFINE Y == D * A - B
  <2>1. /\ Y \in Nat /\ Y \div D = A - K - (IF lost THEN 1 ELSE 0) /\ (Y % D # 0 <=> B % D # 0)
    <3>1. B <= D * A
      BY <1>9
    <3>2. /\ Y \in Nat /\ Y \div D = A - (B \div D) - (IF B % D # 0 THEN 1 ELSE 0)
          /\ Y % D # 0 <=> B % D # 0
      BY <1>1, <3>1, DivDifference, ZenonT(60)
    <3>3. QED BY <1>4, <3>2
  <2>2. V <= U /\ (U = V <=> B = X)
    <3>1. B * P <= X * P /\ B * P \in Int /\ X * P \in Int /\ V * N \in Int /\ U * N \in Int
      BY <1>3, <1>9, TimesMono, TimesTyped
    <3>2. ~(U < V)
      <4>1. U < V => U * N < V * N
        BY <1>3, TimesStrict
      <4>2. QED BY <1>4, <3>1, <4>1
    <3>3. U < V \/ U = V \/ V < U
      OBVIOUS
    <3>4. ASSUME U = V PROVE B = X
      <4>1. B < X => B * P < X * P
        BY <1>3, TimesStrict
      <4>2. QED BY <1>3, <1>4, <1>9, <3>1, <3>4, <4>1
    <3>5. ASSUME B = X PROVE U = V
      <4>1. V < U => V * N < U * N
        BY <1>3, TimesStrict
      <4>2. QED BY <1>4, <3>1, <3>2, <3>3, <3>5, <4>1
    <3>6. QED BY <3>2, <3>3, <3>4, <3>5
  <2> DEFINE Z == U - V
  <2>3. Z \in Nat /\ Y * P = Z * N
    <3>1. (X - B) * P = X * P - B * P /\ (U - V) * N = U * N - V * N
      BY <1>3, Z3
    <3>2. QED BY <1>4, <2>2, <3>1
  <2> HIDE DEF Y, Z
  <2>4. Stands(Y, no, b, Z, den, f)
    BY <1>7, <2>1, <2>3
  <2>5. lost <=> (no \/ Y % pow2[d] # 0)
    BY <1>0, <1>4, <2>1 DEF D
  <2>5a. Y \in Nat /\ Z \in Nat
    BY <2>1, <2>3
  <2>6. Y \div pow2[d] \in Nat /\ Stands(Y \div pow2[d], lost, b + d, Z, den, f)
    <3> HIDE DEF X
    <3>1. QED BY <1>0, <1>1, <2>4, <2>5, <2>5a, StandsShift
  <2>7. QED BY <1>5, <2>1, <2>2, <2>6 DEF D, Z
<1>10. QED BY <1>8, <1>9 DEF D, Covers, Combined, Borrowed

\* What shift_right keeps and loses of an operand, whatever the width.
LEMMA AlignmentIs ==
    ASSUME NEW f \in Formats, NEW M, M = pow2[f.mantissa_bits], NEW B \in Nat, 8 * M <= B, B < 16 * M,
           B % 8 = 0, NEW d \in Nat
    PROVE  LET s == shift_right(B, d, WORD)
           IN  /\ s.kept \in Nat /\ s.lost \in BOOLEAN /\ Aligns(s.lost, s.kept, B, d) /\ s.kept <= B
               /\ s.lost => s.kept < M
<1> DEFINE s == shift_right(B, d, WORD)
           D == pow2[d]
<1>1. M \in Nat \ {0} /\ WORD \in Nat /\ D \in Nat \ {0} /\ 16 * M <= pow2[WORD]
  <2>1. /\ M \in Nat \ {0} /\ WORD \in Nat /\ pow2[scale(f) + 1] = 16 * M /\ scale(f) + 1 \in Nat
        /\ scale(f) + 1 <= WORD
    BY Scales
  <2>2. pow2[scale(f) + 1] <= pow2[WORD]
    BY <2>1, PowMono
  <2>3. QED BY <2>1, <2>2, PowSucc
<1>2. /\ s.kept \in Nat /\ s.kept <= B /\ s.lost \in BOOLEAN
      /\ d < WORD => s.kept = B \div D /\ s.lost = (B % D # 0)
      /\ ~(d < WORD) => s.kept = 0 /\ s.lost = (B # 0)
  <2>1. WORD \in Nat
    BY <1>1
  <2>2. /\ s.kept \in Nat /\ s.kept <= B /\ s.lost \in BOOLEAN
        /\ d < WORD => s.kept = B \div pow2[d] /\ s.lost = (B % pow2[d] # 0)
        /\ ~(d < WORD) => s.kept = 0 /\ s.lost = (B # 0)
    BY <2>1, ShiftRightIs, SMTT(30)
  <2>3. QED BY <2>2
<1>3. ~(d < WORD) => B \div D = 0 /\ B % D = B
  <2>1. SUFFICES ASSUME ~(d < WORD) PROVE B \div D = 0 /\ B % D = B
    OBVIOUS
  <2>2. pow2[WORD] <= D /\ pow2[WORD] \in Nat
    BY <1>1, <2>1, PowMono, PowSucc
  <2>3. B < D
    BY <1>1, <2>2
  <2> HIDE DEF D
  <2>4. B \in 0 .. D - 1 /\ 0 \in Int /\ B = D * 0 + B
    BY <1>1, <2>3
  <2>5. (D * 0 + B) \div D = 0 /\ (D * 0 + B) % D = B
    BY <1>1, <2>4, DivUnique
  <2>6. QED BY <2>4, <2>5
<1>4. Aligns(s.lost, s.kept, B, d)
  BY <1>2, <1>3 DEF Aligns
<1>5. ASSUME s.lost PROVE s.kept < M
  <2>1. B % D # 0 /\ s.kept = B \div D
    BY <1>4, <1>5 DEF Aligns
  <2>2. d >= 4
    <3>1. SUFFICES ASSUME d \in 0 .. 3 PROVE FALSE
      OBVIOUS
    <3>2. D = 1 \/ D = 2 \/ D = 4 \/ D = 8
      BY <3>1, PowValues
    <3> HIDE DEF D, s
    <3>3. QED BY <2>1, <3>2
  <2>3. pow2[4] <= D /\ pow2[4] = 16
    BY <2>2, PowMono, PowValues
  <2> HIDE DEF D, s
  <2>4. B < D * M
    <3>1. 16 * M <= D * M /\ D * M \in Int
      BY <1>1, <2>3, TimesMono, TimesTyped
    <3>2. QED BY <1>1, <3>1
  <2>5. B \div D < M
    BY <1>1, <2>4, DivBelow
  <2>6. QED BY <2>1, <2>5
<1>6. QED BY <1>2, <1>4, <1>5

\* The two ways add_finite combines the larger operand and the aligned one.
LEMMA SumReady ==
    ASSUME NEW f \in Formats, NEW L \in UnpackedValues, NEW l \in UnpackedValues, NEW U \in Nat, NEW V \in Nat,
           Carries(L, U, f), Carries(l, V, f), is_larger(L, l),
           NEW t, t = shift_right(l.significand, L.exponent - l.exponent, WORD),
           NEW X, X = L.significand + t.kept,
           NEW Y, Y = L.significand - t.kept - (IF t.lost THEN 1 ELSE 0)
    PROVE  /\ t.lost \in BOOLEAN /\ X \in Nat /\ Y \in Nat /\ V <= U
           /\ Ready(X, t.lost, L.exponent, U + V, 1, f)
           /\ U = V => Y = 0 /\ ~t.lost
           /\ U # V => Y # 0 /\ Ready(Y, t.lost, L.exponent, U - V, 1, f)
<1> DEFINE M == pow2[f.mantissa_bits]
           A == L.significand
           B == l.significand
           a == L.exponent
           b == l.exponent
           d == a - b
           K == t.kept
           lost == t.lost
<1>1. M \in Nat \ {0} /\ pow2[scale(f)] = 8 * M /\ 32 * M <= pow2[WORD] /\ pow2[WORD] \in Nat
  <2>1. /\ M \in Nat \ {0} /\ WORD \in Nat /\ pow2[scale(f)] = 8 * M /\ pow2[scale(f) + 1] = 16 * M
        /\ scale(f) \in Nat /\ scale(f) + 2 <= WORD
    BY Scales
  <2>2. scale(f) + 1 + 1 = scale(f) + 2 /\ scale(f) + 1 \in Nat /\ scale(f) + 2 \in Nat
    BY <2>1
  <2>3. pow2[scale(f) + 2] = 32 * M
    BY <2>1, <2>2, PowSucc
  <2>4. pow2[scale(f) + 2] <= pow2[WORD] /\ pow2[WORD] \in Nat
    BY <2>1, <2>2, PowMono, PowSucc
  <2>5. QED BY <2>1, <2>3, <2>4
<1>2. A \in Nat /\ B \in Nat /\ a \in Int /\ b \in Int
  BY DEF UnpackedValues
<1>3. 8 * M <= A /\ A < 16 * M /\ 8 * M <= B /\ B < 16 * M /\ B % 8 = 0
  BY Scales DEF Carries
<1>4. d \in Nat /\ (d = 0 => B <= A)
  BY <1>2 DEF is_larger
<1>5. PICK no \in BOOLEAN : ~no
  OBVIOUS
<1>6. Stands(A, no, a, U, 1, f) /\ Stands(B, no, b, V, 1, f)
  BY <1>5, CarriesStands
<1>7. Terms(A, B, a, b, d, U, V, 1, no, f)
  BY <1>5, <1>6 DEF Terms
<1>8. t = shift_right(B, d, WORD) /\ X = A + K /\ Y = A - K - (IF lost THEN 1 ELSE 0)
  OBVIOUS
<1> HIDE DEF A, B, a, b, d, M
<1>9. /\ K \in Nat /\ lost \in BOOLEAN /\ Aligns(lost, K, B, d) /\ K <= B
      /\ lost => K < M
  <2>1. M = pow2[f.mantissa_bits]
    BY DEF M
  <2>2. QED BY <1>2, <1>3, <1>4, <1>8, <2>1, AlignmentIs
<1>10. Covers(A, B, d)
  <2>0. B <= pow2[d] * A => Covers(A, B, d)
    BY DEF Covers
  <2>1. CASE d = 0
    <3>1. pow2[0] = 1
      BY PowValues
    <3>2. QED BY <1>2, <1>4, <2>0, <2>1, <3>1
  <2>2. CASE d # 0
    <3>1. pow2[1] <= pow2[d] /\ pow2[1] = 2 /\ pow2[d] \in Nat
      BY <1>4, <2>2, PowMono, PowValues, PowSucc
    <3>2. 2 * A <= pow2[d] * A /\ pow2[d] * A \in Int
      BY <1>2, <3>1, TimesMono, TimesTyped
    <3>3. QED BY <1>1, <1>2, <1>3, <2>0, <3>2
  <2>3. QED BY <2>1, <2>2
<1> HIDE DEF K, lost
<1>11. /\ Stands(A + K, lost, a, U + V, 1, f)
       /\ V <= U
       /\ A - K - (IF lost THEN 1 ELSE 0) \in Nat
       /\ Stands(A - K - (IF lost THEN 1 ELSE 0), lost, a, U - V, 1, f)
  <2> DEFINE one == 1
  <2>1. one \in Nat \ {0} /\ Terms(A, B, a, b, d, U, V, one, no, f)
    BY <1>7
  <2>2. A \in Nat /\ B \in Nat /\ a \in Int /\ b \in Int /\ d \in Nat /\ lost \in BOOLEAN
        /\ Aligns(lost, K, B, d)
    BY <1>2, <1>4, <1>9
  <2> HIDE DEF one
  <2>3. Combined(A, K, lost, a, U, V, one, f) /\ (Covers(A, B, d) => Borrowed(A, K, lost, a, U, V, one, f))
    BY <2>1, <2>2, AlignedStands
  <2>4. QED BY <1>10, <2>3 DEF one, Combined, Borrowed
<1>12. X \in Nat /\ Y \in Nat /\ Stands(X, lost, a, U + V, 1, f) /\ Stands(Y, lost, a, U - V, 1, f)
  BY <1>2, <1>8, <1>9, <1>11
<1>13. Ready(X, lost, a, U + V, 1, f)
  <2>1. X # 0 /\ X < pow2[WORD] /\ pow2[scale(f)] <= 2 * X
    BY <1>1, <1>2, <1>3, <1>8, <1>9
  <2>2. QED BY <1>12, <2>1 DEF Ready
<1>14. U - V \in Nat
  BY <1>11
<1>15. U - V = 0 <=> (Y = 0 /\ ~lost)
  <2> DEFINE Z == U - V
  <2>1. Z \in Nat /\ Stands(Y, lost, a, Z, 1, f) /\ 1 \in Nat \ {0}
    BY <1>12, <1>14
  <2> HIDE DEF Z
  <2>2. Z = 0 <=> (Y = 0 /\ ~lost)
    BY <1>9, <1>12, <2>1, StandsZero
  <2>3. QED BY <2>2 DEF Z
<1>16. lost => Y # 0 /\ pow2[scale(f)] <= 2 * Y
  BY <1>1, <1>2, <1>3, <1>8, <1>9
<1>17. Y < pow2[WORD]
  BY <1>1, <1>2, <1>3, <1>8, <1>9
<1>18. U # V => Y # 0 /\ Ready(Y, lost, a, U - V, 1, f)
  <2>1. SUFFICES ASSUME U # V PROVE Y # 0 /\ Ready(Y, lost, a, U - V, 1, f)
    OBVIOUS
  <2>2. Y # 0
    BY <1>14, <1>15, <1>16, <2>1
  <2>3. QED BY <1>12, <1>16, <1>17, <2>2 DEF Ready
<1>19. U = V => Y = 0 /\ ~lost
  BY <1>15
<1>20. QED BY <1>9, <1>11, <1>12, <1>13, <1>18, <1>19 DEF lost, a

\* What RoundAndPackRounds says of an integer number of smallest subnormals.
LEMMA WholeRounds ==
    ASSUME NEW f \in Formats, NEW n \in BOOLEAN, NEW e \in Int, NEW S \in Nat, NEW t \in BOOLEAN, NEW U \in Nat,
           Ready(S, t, e, U, 1, f), NEW r \in Modes, NEW c, ~is_flushing(f, c), NEW zn
    PROVE  round_and_pack(Unpacked(n, e, S), t, f, r, c) = RoundedSum(Sign(n, U), 1, zn, f, r)
<1> DEFINE v == Unpacked(n, e, S)
           one == 1
<1>1. v \in UnpackedValues /\ v.is_negative = n /\ v.exponent = e /\ v.significand = S /\ one \in Nat \ {0}
      /\ one = 1
  BY UnpackedIs
<1>2. Ready(v.significand, t, v.exponent, U, one, f)
  BY <1>1
<1> HIDE DEF v, one
<1>3. round_and_pack(v, t, f, r, c) = Rounded(U, one, v.is_negative, f, r)
  BY <1>1, <1>2, RoundAndPackRounds
<1>4. U # 0
  <2>1. Stands(S, t, e, U, one, f) /\ S # 0
    BY <1>1 DEF Ready
  <2>2. U = 0 <=> (S = 0 /\ ~t)
    BY <1>1, <2>1, StandsZero
  <2>3. QED BY <2>1, <2>2
<1>5. RoundedSum(Sign(n, U), one, zn, f, r) = Rounded(U, one, n, f, r)
  BY <1>4, SignedRounded
<1>6. QED BY <1>1, <1>3, <1>5 DEF v

\* The sum and the difference that add_finite forms, rounded.
LEMMA PairRounds ==
    ASSUME NEW f \in Formats, NEW L \in UnpackedValues, NEW l \in UnpackedValues, NEW U \in Nat, NEW V \in Nat,
           Carries(L, U, f), Carries(l, V, f), is_larger(L, l), NEW r \in Modes, NEW c, ~is_flushing(f, c),
           NEW t, t = shift_right(l.significand, L.exponent - l.exponent, WORD),
           NEW s, s = subtract_aligned(L, t, r), NEW zn
    PROVE  /\ round_and_pack([L EXCEPT !.significand = L.significand + t.kept], t.lost, f, r, c)
                = RoundedSum(Sign(L.is_negative, U + V), 1, zn, f, r)
           /\ V <= U
           /\ round_and_pack(s.value, s.sticky, f, r, c)
                = RoundedSum(Sign(L.is_negative, U - V), 1, r = "Minus", f, r)
<1> DEFINE n == L.is_negative
           e == L.exponent
           X == L.significand + t.kept
           Y == L.significand - t.kept - (IF t.lost THEN 1 ELSE 0)
<1>1. /\ t.lost \in BOOLEAN /\ X \in Nat /\ Y \in Nat /\ V <= U
      /\ Ready(X, t.lost, e, U + V, 1, f)
      /\ U = V => Y = 0 /\ ~t.lost
      /\ U # V => Y # 0 /\ Ready(Y, t.lost, e, U - V, 1, f)
  <2>1. X = L.significand + t.kept /\ Y = L.significand - t.kept - (IF t.lost THEN 1 ELSE 0)
    OBVIOUS
  <2> HIDE DEF X, Y
  <2>2. QED BY <2>1, SumReady
<1>2. n \in BOOLEAN /\ e \in Int
  BY DEF UnpackedValues
<1>3. PICK lost \in BOOLEAN : lost = t.lost
  BY <1>1
<1>4. [L EXCEPT !.significand = X] = Unpacked(n, e, X) /\ [L EXCEPT !.significand = Y] = Unpacked(n, e, Y)
  BY <1>1, <1>2, UnpackedUpdate
<1>5. s = IF Y = 0 /\ ~lost THEN [value |-> UnpackedZero(r = "Minus"), sticky |-> FALSE]
          ELSE [value |-> Unpacked(n, e, Y), sticky |-> t.lost]
  BY <1>3, <1>4 DEF subtract_aligned
<1>6. /\ Ready(X, lost, e, U + V, 1, f)
      /\ U # V => Y # 0 /\ Ready(Y, lost, e, U - V, 1, f)
  BY <1>1, <1>3
<1> HIDE DEF X, Y, n, e
<1>7. round_and_pack(Unpacked(n, e, X), lost, f, r, c) = RoundedSum(Sign(n, U + V), 1, zn, f, r)
  <2> DEFINE Z == U + V
  <2>1. Z \in Nat /\ Ready(X, lost, e, Z, 1, f)
    BY <1>6
  <2> HIDE DEF Z
  <2>2. round_and_pack(Unpacked(n, e, X), lost, f, r, c) = RoundedSum(Sign(n, Z), 1, zn, f, r)
    BY <1>1, <1>2, <2>1, WholeRounds
  <2>3. QED BY <2>2 DEF Z
<1>8. CASE U # V
  <2> DEFINE Z == U - V
             m == r = "Minus"
  <2>1. Z \in Nat /\ Ready(Y, lost, e, Z, 1, f)
    BY <1>1, <1>6, <1>8
  <2>2. s.value = Unpacked(n, e, Y) /\ s.sticky = lost
    BY <1>3, <1>5, <1>6, <1>8
  <2> HIDE DEF Z, m
  <2>3. round_and_pack(Unpacked(n, e, Y), lost, f, r, c) = RoundedSum(Sign(n, Z), 1, m, f, r)
    BY <1>1, <1>2, <2>1, WholeRounds
  <2>4. QED BY <1>1, <1>3, <1>4, <1>7, <2>2, <2>3 DEF Z, m, n, X
<1>9. CASE U = V
  <2> DEFINE Z == U - V
             m == r = "Minus"
  <2>1. Z \in Nat /\ Z = 0 /\ m \in BOOLEAN
    BY <1>9
  <2>2. s.value = Unpacked(m, 0, 0)
    BY <1>1, <1>3, <1>5, <1>9 DEF UnpackedZero
  <2> HIDE DEF Z, m
  <2>3. round_and_pack(s.value, s.sticky, f, r, c) = Exact(zero(f, m))
    BY <2>1, <2>2, UnpackedIs DEF round_and_pack
  <2>4. RoundedSum(Sign(n, Z), 1, m, f, r) = Exact(zero(f, m))
    BY <1>2, <2>1, SignedRounded
  <2>5. QED BY <1>1, <1>3, <1>4, <1>7, <2>3, <2>4 DEF Z, m, n, X
<1>10. QED BY <1>8, <1>9

\* The signed sum of two magnitudes is that of their sum or of their difference.
LEMMA SignedTerms ==
    ASSUME NEW n \in BOOLEAN, NEW m \in BOOLEAN, NEW U \in Nat, NEW V \in Nat
    PROVE  /\ n = m => Sign(n, U) + Sign(m, V) = Sign(n, U + V)
           /\ n # m => Sign(n, U) + Sign(m, V) = Sign(n, U - V)
           /\ Sign(n, U) + Sign(m, V) = Sign(m, V) + Sign(n, U)
           /\ V = 0 => Sign(n, U) + Sign(m, V) = Sign(n, U)
           /\ U = 0 => Sign(n, U) + Sign(m, V) = Sign(m, V)
  BY DEF Sign

\* What add_finite passes on of two non-zero operands, the larger one first.
PairSum(L, l, r) ==
    LET t == shift_right(l.significand, L.exponent - l.exponent, WORD)
    IN  IF L.is_negative = l.is_negative
        THEN [value |-> [L EXCEPT !.significand = L.significand + t.kept], sticky |-> t.lost]
        ELSE subtract_aligned(L, t, r)

\* The aligned sum or difference of two operands rounds correctly.
LEMMA PairSumRounds ==
    ASSUME NEW f \in Formats, NEW L \in UnpackedValues, NEW l \in UnpackedValues, NEW U \in Nat, NEW V \in Nat,
           Carries(L, U, f), Carries(l, V, f), is_larger(L, l), NEW r \in Modes, NEW c, ~is_flushing(f, c), NEW zn,
           L.is_negative # l.is_negative => zn = (r = "Minus")
    PROVE  round_and_pack(PairSum(L, l, r).value, PairSum(L, l, r).sticky, f, r, c)
             = RoundedSum(Sign(L.is_negative, U) + Sign(l.is_negative, V), 1, zn, f, r)
<1> DEFINE t == shift_right(l.significand, L.exponent - l.exponent, WORD)
           s == subtract_aligned(L, t, r)
           x == [L EXCEPT !.significand = L.significand + t.kept]
<1>1. PairSum(L, l, r) = IF L.is_negative = l.is_negative THEN [value |-> x, sticky |-> t.lost] ELSE s
  BY DEF PairSum
<1>2. t = shift_right(l.significand, L.exponent - l.exponent, WORD) /\ s = subtract_aligned(L, t, r)
  OBVIOUS
<1> HIDE DEF t, s
<1>3. /\ round_and_pack(x, t.lost, f, r, c) = RoundedSum(Sign(L.is_negative, U + V), 1, zn, f, r)
      /\ V <= U
      /\ round_and_pack(s.value, s.sticky, f, r, c) = RoundedSum(Sign(L.is_negative, U - V), 1, r = "Minus", f, r)
  BY <1>2, PairRounds
<1> HIDE DEF x
<1>4. L.is_negative \in BOOLEAN /\ l.is_negative \in BOOLEAN
  BY DEF UnpackedValues
<1>5. CASE L.is_negative = l.is_negative
  <2>1. PairSum(L, l, r).value = x /\ PairSum(L, l, r).sticky = t.lost
    BY <1>1, <1>5
  <2>2. Sign(L.is_negative, U) + Sign(l.is_negative, V) = Sign(L.is_negative, U + V)
    BY <1>4, <1>5, SignedTerms
  <2>3. QED BY <1>3, <2>1, <2>2
<1>6. CASE L.is_negative # l.is_negative
  <2>1. PairSum(L, l, r) = s
    BY <1>1, <1>6
  <2>2. Sign(L.is_negative, U) + Sign(l.is_negative, V) = Sign(L.is_negative, U - V)
    BY <1>4, <1>6, SignedTerms
  <2>3. QED BY <1>3, <1>6, <2>1, <2>2
<1>7. QED BY <1>5, <1>6

\* add_finite rounds correctly, zero operands included.
LEMMA AddFiniteRounds ==
    ASSUME NEW f \in Formats, NEW a \in UnpackedValues, NEW b \in UnpackedValues, NEW U \in Nat, NEW V \in Nat,
           Measures(a, U, f), Measures(b, V, f), NEW r \in Modes, NEW c, ~is_flushing(f, c), NEW zn \in BOOLEAN,
           zn = IF a.is_negative = b.is_negative THEN a.is_negative ELSE r = "Minus"
    PROVE  round_and_pack(add_finite(a, b, r).value, add_finite(a, b, r).sticky, f, r, c)
             = RoundedSum(Sign(a.is_negative, U) + Sign(b.is_negative, V), 1, zn, f, r)
<1> DEFINE na == a.is_negative
           nb == b.is_negative
           sum == add_finite(a, b, r)
<1>1. na \in BOOLEAN /\ nb \in BOOLEAN /\ a.exponent \in Int /\ b.exponent \in Int
      /\ a.significand \in Nat /\ b.significand \in Nat
  BY DEF UnpackedValues
<1>2. PICK no \in BOOLEAN : ~no
  OBVIOUS
<1>3. CASE a.significand = 0 /\ b.significand = 0
  <2>1. U = 0 /\ V = 0
    BY <1>3 DEF Measures
  <2>2. sum.value = Unpacked(zn, 0, 0) /\ Unpacked(zn, 0, 0).significand = 0 /\ Unpacked(zn, 0, 0).is_negative = zn
    BY <1>3, UnpackedIs DEF add_finite, UnpackedZero
  <2>3. round_and_pack(sum.value, sum.sticky, f, r, c) = Exact(zero(f, zn))
    <3> HIDE DEF sum
    <3>1. QED BY <2>2 DEF round_and_pack
  <2> HIDE DEF na, nb, sum
  <2>4. Sign(na, U) + Sign(nb, V) = Sign(na, U)
    BY <1>1, <2>1, SignedTerms
  <2>5. RoundedSum(Sign(na, U), 1, zn, f, r) = Exact(zero(f, zn))
    BY <1>1, <2>1, SignedRounded
  <2>6. QED BY <2>3, <2>4, <2>5 DEF sum, na, nb
<1>4. CASE a.significand = 0 /\ b.significand # 0
  <2>1. U = 0 /\ Carries(b, V, f)
    BY <1>4 DEF Measures
  <2>2. sum.value = b /\ sum.sticky = no
    BY <1>2, <1>4 DEF add_finite
  <2>3. Ready(b.significand, no, b.exponent, V, 1, f) /\ b = Unpacked(b.is_negative, b.exponent, b.significand)
    BY <1>2, <2>1, OperandReady
  <2> HIDE DEF sum
  <2>4. round_and_pack(b, no, f, r, c) = RoundedSum(Sign(nb, V), 1, zn, f, r)
    BY <1>1, <2>3, WholeRounds
  <2>5. Sign(na, U) + Sign(nb, V) = Sign(nb, V)
    <3> HIDE DEF na, nb
    <3>1. QED BY <1>1, <2>1, SignedTerms
  <2>6. QED BY <2>2, <2>4, <2>5 DEF sum
<1>5. CASE a.significand # 0 /\ b.significand = 0
  <2>1. V = 0 /\ Carries(a, U, f)
    BY <1>5 DEF Measures
  <2>2. sum.value = a /\ sum.sticky = no
    BY <1>2, <1>5 DEF add_finite
  <2>3. Ready(a.significand, no, a.exponent, U, 1, f) /\ a = Unpacked(a.is_negative, a.exponent, a.significand)
    BY <1>2, <2>1, OperandReady
  <2> HIDE DEF sum
  <2>4. round_and_pack(a, no, f, r, c) = RoundedSum(Sign(na, U), 1, zn, f, r)
    BY <1>1, <2>3, WholeRounds
  <2>5. Sign(na, U) + Sign(nb, V) = Sign(na, U)
    <3> HIDE DEF na, nb
    <3>1. QED BY <1>1, <2>1, SignedTerms
  <2>6. QED BY <2>2, <2>4, <2>5 DEF sum
<1>6. CASE a.significand # 0 /\ b.significand # 0
  <2>1. Carries(a, U, f) /\ Carries(b, V, f)
    BY <1>6 DEF Measures
  <2>2. a.is_negative # b.is_negative => zn = (r = "Minus")
    OBVIOUS
  <2>3. CASE is_larger(a, b)
    <3>1. sum = PairSum(a, b, r)
      BY <1>6, <2>3 DEF add_finite, PairSum
    <3> HIDE DEF sum
    <3>2. round_and_pack(PairSum(a, b, r).value, PairSum(a, b, r).sticky, f, r, c)
             = RoundedSum(Sign(na, U) + Sign(nb, V), 1, zn, f, r)
      BY <2>1, <2>2, <2>3, PairSumRounds
    <3>3. QED BY <3>1, <3>2 DEF sum
  <2>4. CASE ~is_larger(a, b)
    <3>1. is_larger(b, a)
      BY <1>1, <2>4 DEF is_larger
    <3>2. sum = PairSum(b, a, r)
      BY <1>1, <1>6, <2>4 DEF add_finite, PairSum
    <3> HIDE DEF sum
    <3>3. b.is_negative # a.is_negative => zn = (r = "Minus")
      BY <2>2
    <3>4. round_and_pack(PairSum(b, a, r).value, PairSum(b, a, r).sticky, f, r, c)
             = RoundedSum(Sign(nb, V) + Sign(na, U), 1, zn, f, r)
      BY <2>1, <3>1, <3>3, PairSumRounds
    <3>5. Sign(na, U) + Sign(nb, V) = Sign(nb, V) + Sign(na, U)
      <4> HIDE DEF na, nb
      <4>1. QED BY <1>1, SignedTerms
    <3>6. QED BY <3>2, <3>4, <3>5 DEF sum
  <2>5. QED BY <2>3, <2>4
<1>7. QED BY <1>3, <1>4, <1>5, <1>6

\* No flag of a flushed operand leaves a result as it is.
LEMMA NoFlags ==
    ASSUME NEW B, NEW Q, NEW R, R = {}
    PROVE  with_flags(Raising(B, Q), R \cup R) = Raising(B, Q)
<1>1. Q \cup (R \cup R) = Q
  OBVIOUS
<1>2. with_flags(Raising(B, Q), R \cup R) = [bits |-> B, raised |-> Q \cup (R \cup R)]
  BY DEF with_flags, Raising
<1>3. QED BY <1>1, <1>2 DEF Raising

\* The shape of the reference's answers.
LEMMA RoundedForm ==
    ASSUME NEW num, NEW den, NEW n, NEW f, NEW r
    PROVE  /\ \E B, Q : Rounded(num, den, n, f, r) = Raising(B, Q)
           /\ \E B, Q : RoundedSum(num, den, n, f, r) = Raising(B, Q)
           /\ \E B, Q : Exact(num) = Raising(B, Q)
<1>1. ASSUME NEW x, NEW y, NEW z
      PROVE  \E B, Q : Rounded(x, y, z, f, r) = Raising(B, Q)
  BY DEF Rounded
<1>2. \A x : \E B, Q : Exact(x) = Raising(B, Q)
  BY DEF Exact, Raising
<1>3. CASE num = 0
  BY <1>1, <1>2, <1>3 DEF RoundedSum
<1>4. CASE num # 0
  BY <1>1, <1>2, <1>4 DEF RoundedSum
<1>5. QED BY <1>3, <1>4

\* FADD and FSUB after the operands are flushed,
LEMMA AddedRounds ==
    ASSUME NEW f \in Formats, NEW x \in Patterns(f), NEW y \in Patterns(f), IsFinite(f, x), IsFinite(f, y),
           NEW r \in Modes, NEW c, ~is_flushing(f, c)
    PROVE  added(x, y, f, r, c) = IeeeAdd(x, y, f, r)
<1> DEFINE a == unpack(x, f)
           b == unpack(y, f)
           U == Ulps(f, x)
           V == Ulps(f, y)
<1>1. /\ ~is_nan(f, x) /\ ~is_infinite(f, x) /\ U \in Nat /\ a \in UnpackedValues /\ Measures(a, U, f)
      /\ a.is_negative = is_negative(f, x) /\ is_negative(f, x) \in BOOLEAN
      /\ SignedUlps(f, x) = Sign(is_negative(f, x), U)
  BY FiniteOperand
<1>2. /\ ~is_nan(f, y) /\ ~is_infinite(f, y) /\ V \in Nat /\ b \in UnpackedValues /\ Measures(b, V, f)
      /\ b.is_negative = is_negative(f, y) /\ is_negative(f, y) \in BOOLEAN
      /\ SignedUlps(f, y) = Sign(is_negative(f, y), V)
  BY FiniteOperand
<1>3. added(x, y, f, r, c) = round_and_pack(add_finite(a, b, r).value, add_finite(a, b, r).sticky, f, r, c)
  BY <1>1, <1>2, PairOfOperands DEF added
<1> HIDE DEF a, b, U, V
<1>4. PICK zn \in BOOLEAN : zn = IF a.is_negative = b.is_negative THEN a.is_negative ELSE r = "Minus"
  BY <1>1, <1>2
<1>5. round_and_pack(add_finite(a, b, r).value, add_finite(a, b, r).sticky, f, r, c)
        = RoundedSum(Sign(a.is_negative, U) + Sign(b.is_negative, V), 1, zn, f, r)
  BY <1>1, <1>2, <1>4, AddFiniteRounds
<1>6. QED BY <1>1, <1>2, <1>3, <1>4, <1>5 DEF IeeeAdd

\* and as the instructions call them.
LEMMA SumRounds ==
    ASSUME NEW f \in Formats, NEW x \in Patterns(f), NEW y \in Patterns(f), IsFinite(f, x), IsFinite(f, y),
           NEW r \in Modes, NEW c, ~is_flushing(f, c), NEW sub \in BOOLEAN
    PROVE  add(x, y, sub, f, r, c) = IeeeAdd(x, IF sub THEN negated(f, y) ELSE y, f, r)
<1> DEFINE z == IF sub THEN negated(f, y) ELSE y
<1>1. z \in Patterns(f) /\ IsFinite(f, z)
  <2>1. negated(f, y) \in Patterns(f) /\ raw_exponent(f, negated(f, y)) = raw_exponent(f, y)
    BY NegatedFlipsSign
  <2>2. QED BY <2>1 DEF IsFinite
<1>2. /\ flushed(x, f, c).bits = x /\ flushed(x, f, c).raised = {}
      /\ flushed(y, f, c).bits = y /\ flushed(y, f, c).raised = {}
  BY UnflushedIs
<1> HIDE DEF z
<1>3. add(x, y, sub, f, r, c) = with_flags(added(x, z, f, r, c), {} \cup {})
  <2>1. z = IF sub THEN negated(f, flushed(y, f, c).bits) ELSE flushed(y, f, c).bits
    BY <1>2 DEF z
  <2>2. add(x, y, sub, f, r, c)
          = with_flags(added(flushed(x, f, c).bits, z, f, r, c),
                       flushed(x, f, c).raised \cup flushed(y, f, c).raised)
    BY <2>1 DEF add, added
  <2>3. QED BY <1>2, <2>2
<1>4. added(x, z, f, r, c) = IeeeAdd(x, z, f, r)
  BY <1>1, AddedRounds
<1>5. PICK B, Q : IeeeAdd(x, z, f, r) = Raising(B, Q)
  BY RoundedForm DEF IeeeAdd
<1>6. with_flags(Raising(B, Q), {} \cup {}) = Raising(B, Q)
  BY NoFlags
<1>7. QED BY <1>3, <1>4, <1>5, <1>6 DEF z

\* Every pair of patterns satisfies the property.
LEMMA SumRoundedNow == SweepType => SumIsCorrectlyRounded
<1>1. SUFFICES ASSUME SweepType, BothFinite, NEW r \in Modes
               PROVE  /\ add(lhs, rhs, FALSE, Single, r, Ieee754) = IeeeAdd(lhs, rhs, Single, r)
                      /\ add(lhs, rhs, TRUE, Single, r, Ieee754) = IeeeAdd(lhs, negated(Single, rhs), Single, r)
  BY DEF SumIsCorrectlyRounded
<1>2. /\ lhs \in Patterns(Single) /\ rhs \in Patterns(Single) /\ Single \in Formats
      /\ IsFinite(Single, lhs) /\ IsFinite(Single, rhs) /\ ~is_flushing(Single, Ieee754)
  BY <1>1, Unflushing DEF SweepType, Formats, BothFinite
<1>3. ASSUME NEW sub \in BOOLEAN
      PROVE  add(lhs, rhs, sub, Single, r, Ieee754)
               = IeeeAdd(lhs, IF sub THEN negated(Single, rhs) ELSE rhs, Single, r)
  BY <1>2, SumRounds
<1>4. QED BY <1>3

\* FADD and FSUB are correctly rounded, with IEEE's flags, for every pair of
\* finite operands and every mode, whatever the width of the format.
THEOREM SumAlwaysCorrectlyRounded == Spec => []SumIsCorrectlyRounded
  BY SweepTyped, SumRoundedNow, PTL

\* The product of two significands is exactly the product of the magnitudes.
LEMMA ProductStands ==
    ASSUME NEW f \in Formats, NEW Sa \in Nat, NEW Sb \in Nat, NEW ea \in Int, NEW eb \in Int, NEW U \in Nat, NEW V \in Nat,
           NEW i, NEW j, Weighs(Sa, ea, U, i, j, f), NEW k, NEW l, Weighs(Sb, eb, V, k, l, f),
           NEW no \in BOOLEAN, ~no
    PROVE  Stands(Sa * Sb, no, ea + eb - scale(f), U * V, pow2[UnitBits(f)], f)
<1> DEFINE B == UnitBits(f)
           D == pow2[B]
           x == i + k
           y == j + l
           w == y + B
<1>1. i \in Nat /\ j \in Nat /\ k \in Nat /\ l \in Nat /\ B \in Nat /\ D \in Nat \ {0}
  BY UnitBitsIs DEF Weighs
<1>2. /\ pow2[i] \in Nat \ {0} /\ pow2[j] \in Nat \ {0} /\ pow2[k] \in Nat \ {0} /\ pow2[l] \in Nat \ {0}
      /\ x \in Nat /\ y \in Nat /\ w \in Nat /\ pow2[x] = pow2[i] * pow2[k] /\ pow2[y] = pow2[j] * pow2[l]
      /\ pow2[w] = pow2[y] * D /\ pow2[x] \in Nat \ {0} /\ pow2[y] \in Nat \ {0}
  <2> HIDE DEF B
  <2>1. x \in Nat /\ y \in Nat /\ w \in Nat
    BY <1>1
  <2>2. x = i + k /\ y = j + l /\ w = y + B
    OBVIOUS
  <2> HIDE DEF x, y, w
  <2>3. QED BY <1>1, <2>1, <2>2, PowSplit
<1>3. x - w = (ea + eb - scale(f)) - min_exponent(f) - 3
  <2>1. i - j = ea - min_exponent(f) - 3 /\ k - l = eb - min_exponent(f) - 3 /\ B = scale(f) - min_exponent(f) - 3
    BY UnitBitsIs DEF Weighs
  <2>2. min_exponent(f) \in Int /\ scale(f) \in Int
    BY MinExponentIs, Scales
  <2> HIDE DEF B
  <2>3. QED BY <1>1, <2>1, <2>2
<1>4. (Sa * Sb) * pow2[x] = (U * V) * pow2[y]
  <2>1. (Sa * Sb) * (pow2[i] * pow2[k]) = (Sa * pow2[i]) * (Sb * pow2[k])
    BY <1>2, FourFactors
  <2>2. (U * V) * (pow2[j] * pow2[l]) = (U * pow2[j]) * (V * pow2[l])
    BY <1>2, FourFactors
  <2>3. Sa * pow2[i] = U * pow2[j] /\ Sb * pow2[k] = V * pow2[l]
    BY DEF Weighs
  <2>4. QED BY <1>2, <2>1, <2>2, <2>3
<1> DEFINE S == Sa * Sb
           N == U * V
           p == pow2[x]
           q == pow2[y]
<1>5. S \in Nat /\ N \in Nat /\ p \in Nat \ {0} /\ q \in Nat \ {0} /\ pow2[w] = q * D /\ S * p = N * q
  <2>1. Sa * Sb \in Int /\ Sa * Sb >= 0 /\ U * V \in Int /\ U * V >= 0
    BY TimesTyped
  <2>2. QED BY <1>2, <1>4, <2>1
<1>6. pow2[x] = p
  OBVIOUS
<1> HIDE DEF S, N, p, q, D, x, w
<1>7. S * (D * p) = N * (q * D) /\ D * p \in Nat \ {0} /\ N * (q * D) \in Nat
  <2>1. \A a, b, c \in Nat : a * (b * c) = (a * c) * b
    BY Z3
  <2>2. S * (D * p) = (S * p) * D /\ N * (q * D) = (N * D) * q /\ (N * q) * D = N * (D * q) /\ D * q = q * D
    <3>1. \A a, b, c \in Nat : (a * b) * c = a * (c * b) /\ a * b = b * a
      BY Z3
    <3>2. QED BY <1>1, <1>5, <2>1, <3>1
  <2>3. D * p \in Int /\ D * p > 0 /\ q * D \in Int /\ q * D >= 0
    BY <1>1, <1>5, TimesTyped
  <2>4. N * (q * D) \in Int /\ N * (q * D) >= 0
    BY <1>5, <2>3, TimesTyped
  <2>5. QED BY <1>5, <2>2, <2>3, <2>4
<1>8. Floors(S, no, N * (q * D), D * p)
  <2> DEFINE X == D * p
             Y == N * (q * D)
  <2>1. X \in Nat \ {0} /\ Y \in Nat /\ S * X = Y
    BY <1>7
  <2> HIDE DEF X, Y
  <2>2. Floors(S, no, Y, X)
    BY <1>5, <2>1, ExactFloors
  <2>3. QED BY <2>2 DEF X, Y
<1>9. Floors(S, no, N * pow2[w], D * pow2[x])
  BY <1>5, <1>6, <1>8
<1>10. QED BY <1>2, <1>3, <1>9 DEF Stands, S, N, D

\* The narrowed product of significands stands for the product.
LEMMA ProductReady ==
    ASSUME NEW f \in Formats, NEW a \in UnpackedValues, NEW b \in UnpackedValues, NEW U \in Nat, NEW V \in Nat,
           Carries(a, U, f), Carries(b, V, f), NEW t, t = shift_right(a.significand * b.significand, scale(f), 2 * WORD)
    PROVE  /\ t.kept \in Nat /\ t.lost \in BOOLEAN
           /\ Ready(t.kept, t.lost, a.exponent + b.exponent, U * V, pow2[UnitBits(f)], f)
<1> DEFINE A == a.significand
           B == b.significand
           H == pow2[scale(f)]
           S == A * B
           e == a.exponent + b.exponent - scale(f)
           D == pow2[UnitBits(f)]
           N == U * V
<1>1. /\ A \in Nat /\ a.exponent \in Int /\ H <= A /\ A < 2 * H /\ B \in Nat /\ b.exponent \in Int /\ H <= B /\ B < 2 * H
      /\ H \in Nat \ {0} /\ scale(f) \in Nat /\ scale(f) < 2 * WORD /\ WORD \in Nat /\ 4 * H <= pow2[WORD]
      /\ pow2[WORD] \in Nat
  BY Normalised
<1>2. PICK no \in BOOLEAN : ~no
  OBVIOUS
<1>3. Stands(S, no, e, N, D, f)
  <2>1. PICK i, j \in Nat : Weighs(A, a.exponent, U, i, j, f)
    BY CarriesWeighs
  <2>2. PICK k, l \in Nat : Weighs(B, b.exponent, V, k, l, f)
    BY CarriesWeighs
  <2> DEFINE ea == a.exponent
             eb == b.exponent
  <2>3. /\ Weighs(A, ea, U, i, j, f) /\ Weighs(B, eb, V, k, l, f) /\ ea \in Int /\ eb \in Int
        /\ A \in Nat /\ B \in Nat /\ no \in BOOLEAN /\ ~no
    BY <1>1, <1>2, <2>1, <2>2
  <2> HIDE DEF A, B, ea, eb, H, S, e, D, N
  <2>4. Stands(A * B, no, ea + eb - scale(f), U * V, pow2[UnitBits(f)], f)
    BY <2>3, ProductStands, Z3
  <2>5. QED BY <2>4 DEF ea, eb, S, e, D, N
<1>4. S \in Nat /\ N \in Nat /\ D \in Nat \ {0} /\ e \in Int /\ min_exponent(f) \in Int
  <2> HIDE DEF A, B
  <2>1. A * B \in Int /\ A * B >= 0 /\ U * V \in Int /\ U * V >= 0
    BY <1>1, TimesTyped
  <2>2. QED BY <1>1, <2>1, UnitBitsIs, MinExponentIs
<1>5. t.kept = S \div H /\ t.lost \in BOOLEAN /\ (t.lost <=> S % H # 0)
  <2> DEFINE w == 2 * WORD
             s == scale(f)
  <2>1. w \in Nat /\ s \in Nat /\ s < w /\ t = shift_right(S, s, w) /\ H = pow2[s]
    BY <1>1
  <2> HIDE DEF S, H, s, w
  <2> DEFINE z == shift_right(S, s, w)
  <2>2. /\ z.kept \in Nat /\ z.kept <= S /\ z.lost \in BOOLEAN
        /\ s < w => z.kept = S \div pow2[s] /\ z.lost = (S % pow2[s] # 0)
        /\ ~(s < w) => z.kept = 0 /\ z.lost = (S # 0)
    BY <1>4, <2>1, ShiftRightIs, Zenon
  <2> HIDE DEF z
  <2>3. t = z
    BY <2>1 DEF z
  <2>4. QED BY <2>1, <2>2, <2>3
<1>6. S \div H \in Nat /\ H <= S \div H /\ S \div H < 4 * H
  <2> HIDE DEF A, B, H
  <2>1. H * H <= A * B /\ A * B < H * (4 * H)
    <3>1. H * H <= A * H /\ A * H <= A * B
      BY <1>1, TimesMono
    <3>2. A * B <= A * (2 * H) /\ A * (2 * H) < (2 * H) * (2 * H)
      <4> DEFINE G == 2 * H
      <4>1. G \in Nat \ {0} /\ B <= G /\ A < G
        BY <1>1
      <4> HIDE DEF G
      <4>2. A * B <= A * G /\ A * G < G * G
        BY <1>1, <4>1, TimesMono, TimesStrict
      <4>3. QED BY <4>2 DEF G
    <3>3. (2 * H) * (2 * H) = H * (4 * H) /\ A * B \in Int /\ H * H \in Int /\ A * H \in Int /\ A * (2 * H) \in Int
          /\ H * (4 * H) \in Int
      BY <1>1, Z3
    <3>4. QED BY <3>1, <3>2, <3>3
  <2> DEFINE h == 4 * H
  <2>2. h \in Nat /\ A * B < H * h
    BY <1>1, <2>1
  <2> HIDE DEF h
  <2>3. S \in Nat /\ H * H <= S /\ S < H * h
    BY <1>4, <2>1, <2>2
  <2> HIDE DEF S
  <2>4. S \div H \in Nat /\ H <= S \div H /\ S \div H < h
    BY <1>1, <2>2, <2>3, DivBetween
  <2>5. QED BY <2>4 DEF h
<1>7. Stands(S \div H, t.lost, e + scale(f), N, D, f)
  <2> DEFINE u == t.lost
             s == scale(f)
  <2>1. u \in BOOLEAN /\ s \in Nat /\ (u <=> (no \/ S % pow2[s] # 0))
    BY <1>1, <1>2, <1>5
  <2> HIDE DEF S, e, N, D, u, s
  <2>2. Stands(S \div pow2[s], u, e + s, N, D, f)
    BY <1>2, <1>3, <1>4, <2>1, StandsShift
  <2>3. QED BY <2>2 DEF u, s, H
<1>8. e + scale(f) = a.exponent + b.exponent
  BY <1>1
<1> DEFINE K == S \div H
<1>9. K \in Nat /\ H <= K /\ K < 4 * H /\ t.kept = K /\ Stands(K, t.lost, e + scale(f), N, D, f)
  BY <1>5, <1>6, <1>7
<1> HIDE DEF K, S, N, D, H, e
<1>10. K # 0 /\ K < pow2[WORD] /\ pow2[scale(f)] <= 2 * K
  BY <1>1, <1>9 DEF H
<1>11. QED BY <1>5, <1>8, <1>9, <1>10 DEF Ready, N, D

\* FMUL rounds correctly, or halves below the normal range.
LEMMA MultipliedRounds ==
    ASSUME NEW f \in Formats, NEW x \in Patterns(f), NEW y \in Patterns(f), IsFinite(f, x), IsFinite(f, y),
           NEW r \in Modes, NEW c, ~is_flushing(f, c)
    PROVE  RoundedOrHalved(multiplied(x, y, f, r, c), IeeeMul(x, y, f, r),
                           Ulps(f, x) * Ulps(f, y), pow2[UnitBits(f)], f)
<1> DEFINE a == unpack(x, f)
           b == unpack(y, f)
           U == Ulps(f, x)
           V == Ulps(f, y)
           D == pow2[UnitBits(f)]
<1>1. /\ ~is_nan(f, x) /\ ~is_infinite(f, x) /\ U \in Nat /\ a \in UnpackedValues /\ Measures(a, U, f)
      /\ is_negative(f, x) \in BOOLEAN
      /\ (is_zero(f, x) <=> U = 0) /\ (a.significand = 0 <=> is_zero(f, x))
  BY FiniteOperand
<1>2. /\ ~is_nan(f, y) /\ ~is_infinite(f, y) /\ V \in Nat /\ b \in UnpackedValues /\ Measures(b, V, f)
      /\ is_negative(f, y) \in BOOLEAN
      /\ (is_zero(f, y) <=> V = 0) /\ (b.significand = 0 <=> is_zero(f, y))
  BY FiniteOperand
<1>3. PICK n \in BOOLEAN : n = (is_negative(f, x) # is_negative(f, y))
  OBVIOUS
<1>4. U * V \in Nat /\ (U * V = 0 <=> U = 0 \/ V = 0) /\ D \in Nat \ {0}
  <2> HIDE DEF U, V, D
  <2>1. U * V \in Int /\ U * V >= 0 /\ (U > 0 /\ V > 0 => U * V > 0)
    BY <1>1, <1>2, TimesTyped
  <2>2. U = 0 \/ V = 0 => U * V = 0
    BY <1>1, <1>2
  <2>3. QED BY <1>1, <1>2, <2>1, <2>2, UnitBitsIs DEF D
<1>5. IeeeMul(x, y, f, r) = IF U * V = 0 THEN Exact(zero(f, n)) ELSE Rounded(U * V, D, n, f, r)
  BY <1>3 DEF IeeeMul
<1>6. CASE is_zero(f, x) \/ is_zero(f, y)
  <2>1. multiplied(x, y, f, r, c) = Exact(zero(f, n))
    BY <1>1, <1>2, <1>3, <1>6, PairOfOperands DEF multiplied
  <2>2. QED BY <1>1, <1>2, <1>4, <1>5, <1>6, <2>1 DEF RoundedOrHalved
<1>7. CASE ~is_zero(f, x) /\ ~is_zero(f, y)
  <2> DEFINE t == shift_right(a.significand * b.significand, scale(f), 2 * WORD)
             e == a.exponent + b.exponent
  <2>1. multiplied(x, y, f, r, c) = round_and_pack(Unpacked(n, e, t.kept), t.lost, f, r, c)
    BY <1>1, <1>2, <1>3, <1>7, PairOfOperands DEF multiplied
  <2>2. IeeeMul(x, y, f, r) = Rounded(U * V, D, n, f, r)
    BY <1>1, <1>2, <1>4, <1>5, <1>7
  <2>3. Carries(a, U, f) /\ Carries(b, V, f)
    BY <1>1, <1>2, <1>7 DEF Measures
  <2>4. t = shift_right(a.significand * b.significand, scale(f), 2 * WORD)
    OBVIOUS
  <2> HIDE DEF t
  <2>5. t.kept \in Nat /\ t.lost \in BOOLEAN /\ Ready(t.kept, t.lost, e, U * V, D, f)
    <3> HIDE DEF U, V, a, b
    <3>1. QED BY <1>1, <1>2, <2>3, <2>4, ProductReady
  <2>6. e \in Int
    BY <1>1, <1>2 DEF UnpackedValues
  <2> DEFINE v == Unpacked(n, e, t.kept)
             N == U * V
  <2>7. v \in UnpackedValues /\ v.significand = t.kept /\ v.exponent = e /\ v.is_negative = n
    BY <2>5, <2>6, UnpackedIs
  <2>8. Ready(v.significand, t.lost, v.exponent, N, D, f) /\ N \in Nat
    BY <1>4, <2>5, <2>7
  <2> HIDE DEF v, N, D, e
  <2>9. RoundedOrHalved(round_and_pack(v, t.lost, f, r, c), Rounded(N, D, v.is_negative, f, r), N, D, f)
    BY <1>4, <2>5, <2>7, <2>8, RoundAndPackRounds
  <2>10. QED BY <2>1, <2>2, <2>7, <2>9 DEF v, N, D
<1>8. QED BY <1>6, <1>7

\* A quotient of significands, with its remainder, stands for the quotient of
\* the magnitudes.
LEMMA QuotientStands ==
    ASSUME NEW f \in Formats, NEW Sa \in Nat, NEW Sb \in Nat \ {0}, NEW ea \in Int, NEW eb \in Int,
           NEW U \in Nat, NEW V \in Nat \ {0},
           NEW i, NEW j, Weighs(Sa, ea, U, i, j, f), NEW k, NEW l, Weighs(Sb, eb, V, k, l, f),
           NEW q \in Nat, NEW t \in BOOLEAN, Floors(q, t, Sa * pow2[scale(f)], Sb)
    PROVE  Stands(q, t, ea - eb, U * pow2[UnitBits(f)], V, f)
<1> DEFINE B == UnitBits(f)
           s == scale(f)
           w == i + k
           x == w + B
           a == l + i
           A == a + B
           y == j + k
           b == y + s
<1>1. i \in Nat /\ j \in Nat /\ k \in Nat /\ l \in Nat /\ B \in Nat /\ s \in Nat
  BY UnitBitsIs, Scales DEF Weighs
<1>2. /\ w \in Nat /\ x \in Nat /\ a \in Nat /\ A \in Nat /\ y \in Nat /\ b \in Nat
      /\ w = i + k /\ x = w + B /\ a = l + i /\ A = a + B /\ y = j + k /\ b = y + s
      /\ A - b = (ea - eb) - min_exponent(f) - 3
  <2>1. i - j = ea - min_exponent(f) - 3 /\ k - l = eb - min_exponent(f) - 3 /\ B = s - min_exponent(f) - 3
    BY UnitBitsIs DEF Weighs
  <2>2. min_exponent(f) \in Int
    BY MinExponentIs
  <2> HIDE DEF B, s
  <2>3. QED BY <1>1, <2>1, <2>2
<1> HIDE DEF B, s, w, x, a, A, y, b
<1> DEFINE pi == pow2[i]
           pj == pow2[j]
           pk == pow2[k]
           pl == pow2[l]
           D == pow2[B]
           H == pow2[s]
<1>3. /\ pi \in Nat \ {0} /\ pj \in Nat \ {0} /\ pk \in Nat \ {0} /\ pl \in Nat \ {0} /\ D \in Nat \ {0} /\ H \in Nat \ {0}
      /\ pow2[w] = pi * pk /\ pow2[x] = pow2[w] * D /\ pow2[a] = pl * pi /\ pow2[A] = pow2[a] * D
      /\ pow2[y] = pj * pk /\ pow2[b] = pow2[y] * H /\ pow2[x] \in Nat \ {0}
  <2>1. pow2[w] = pi * pk /\ pi \in Nat \ {0} /\ pk \in Nat \ {0}
    BY <1>1, <1>2, PowSplit
  <2>2. pow2[x] = pow2[w] * D /\ D \in Nat \ {0} /\ pow2[x] \in Nat \ {0}
    BY <1>1, <1>2, PowSplit
  <2>3. pow2[a] = pl * pi /\ pl \in Nat \ {0}
    BY <1>1, <1>2, PowSplit
  <2>4. pow2[A] = pow2[a] * D
    BY <1>1, <1>2, PowSplit
  <2>5. pow2[y] = pj * pk /\ pj \in Nat \ {0}
    BY <1>1, <1>2, PowSplit
  <2>6. pow2[b] = pow2[y] * H /\ H \in Nat \ {0}
    BY <1>1, <1>2, PowSplit
  <2>7. QED BY <2>1, <2>2, <2>3, <2>4, <2>5, <2>6
<1>4. Sa * pi = U * pj /\ Sb * pk = V * pl
  BY DEF Weighs
<1> DEFINE X == pow2[x]
<1>5. Floors(q, t, Sa * H, Sb)
  BY DEF H, s
<1>6. X \in Nat \ {0} /\ X = (pi * pk) * D
  BY <1>3
<1>7. (U * D) * pow2[b] = (U * D) * ((pj * pk) * H) /\ V * pow2[A] = V * ((pl * pi) * D)
  BY <1>3
<1>8. D = pow2[UnitBits(f)]
  BY DEF B
<1> HIDE DEF X, H, D, pi, pj, pk, pl
<1>9. \A m, n, o \in Nat : (m * n) * o = m * (n * o) /\ m * n = n * m /\ m * n \in Nat
  BY Z3
<1>10. (Sa * H) * X = (U * D) * ((pj * pk) * H)
  <2>1. (Sa * H) * ((pi * pk) * D) = (Sa * (pi * pk)) * (H * D)
    BY <1>3, <1>9, FourFactors
  <2>2. Sa * (pi * pk) = (Sa * pi) * pk /\ (U * pj) * pk = U * (pj * pk)
    BY <1>3, <1>9
  <2>3. (U * D) * ((pj * pk) * H) = (U * (pj * pk)) * (D * H) /\ D * H = H * D
    BY <1>3, <1>9, FourFactors
  <2>4. QED BY <1>4, <1>6, <2>1, <2>2, <2>3
<1>11. Sb * X = V * ((pl * pi) * D)
  <2>1. Sb * ((pi * pk) * D) = (Sb * (pi * pk)) * D /\ V * ((pl * pi) * D) = (V * (pl * pi)) * D
    BY <1>3, <1>9
  <2>2. pi * pk = pk * pi /\ Sb * (pk * pi) = (Sb * pk) * pi /\ (V * pl) * pi = V * (pl * pi)
    BY <1>3, <1>9
  <2>3. QED BY <1>4, <1>6, <2>1, <2>2
<1>12. Floors(q, t, (Sa * H) * X, Sb * X)
  <2> DEFINE N == Sa * H
  <2>1. N \in Nat /\ Floors(q, t, N, Sb)
    BY <1>3, <1>5, <1>9
  <2> HIDE DEF N
  <2>2. Floors(q, t, N * X, Sb * X)
    BY <1>6, <2>1, FloorsScale
  <2>3. QED BY <2>2 DEF N
<1>13. Floors(q, t, (U * D) * pow2[b], V * pow2[A])
  BY <1>7, <1>10, <1>11, <1>12
<1>14. QED BY <1>2, <1>8, <1>13 DEF Stands

\* A quotient and its remainder are a floor.
LEMMA DivFloors ==
    ASSUME NEW n \in Nat, NEW d \in Nat \ {0}, NEW t \in BOOLEAN, t <=> n % d # 0
    PROVE  n \div d \in Nat /\ Floors(n \div d, t, n, d)
<1> DEFINE q == n \div d
           s == n % d
<1>1. q \in Nat /\ s \in 0 .. d - 1 /\ n = d * q + s
  <2>1. n \in Int /\ q \in Nat
    BY DivAtMost
  <2>2. QED BY <2>1, DivMod
<1>2. t <=> s # 0
  OBVIOUS
<1> HIDE DEF q, s
<1>3. (q + 1) * d = q * d + d /\ q * d \in Int /\ d * q = q * d
  BY <1>1, TimesSucc, TimesTyped
<1>4. QED BY <1>1, <1>2, <1>3 DEF Floors, q

\* The quotient of significands stands for the quotient.
LEMMA QuotientReady ==
    ASSUME NEW f \in Formats, NEW a \in UnpackedValues, NEW b \in UnpackedValues, NEW U \in Nat, NEW V \in Nat \ {0},
           Carries(a, U, f), Carries(b, V, f), NEW t \in BOOLEAN,
           t <=> (a.significand * pow2[scale(f)]) % b.significand # 0
    PROVE  LET q == (a.significand * pow2[scale(f)]) \div b.significand
           IN  q \in Nat /\ Ready(q, t, a.exponent - b.exponent, U * pow2[UnitBits(f)], V, f)
<1> DEFINE A == a.significand
           B == b.significand
           H == pow2[scale(f)]
           N == A * H
           q == N \div B
           ea == a.exponent
           eb == b.exponent
<1>1. /\ A \in Nat /\ ea \in Int /\ H <= A /\ A < 2 * H /\ B \in Nat \ {0} /\ eb \in Int /\ H <= B /\ B < 2 * H
      /\ H \in Nat \ {0} /\ 4 * H <= pow2[WORD] /\ pow2[WORD] \in Nat
  BY Normalised
<1>2. PICK i, j \in Nat : Weighs(A, ea, U, i, j, f)
  BY CarriesWeighs
<1>3. PICK k, l \in Nat : Weighs(B, eb, V, k, l, f)
  BY CarriesWeighs
<1>4. t <=> N % B # 0
  OBVIOUS
<1>5. H = pow2[scale(f)]
  OBVIOUS
<1> HIDE DEF A, B, H, ea, eb
<1>6. N \in Nat /\ q \in Nat /\ Floors(q, t, N, B)
  <2>1. N \in Nat
    <3>1. A * H \in Int /\ A * H >= 0
      BY <1>1, TimesTyped
    <3>2. QED BY <3>1
  <2> HIDE DEF N
  <2>2. QED BY <1>1, <1>4, <2>1, DivFloors
<1> HIDE DEF q
<1>7. Stands(q, t, ea - eb, U * pow2[UnitBits(f)], V, f)
  <2>1. Floors(q, t, A * pow2[scale(f)], B)
    BY <1>5, <1>6
  <2>2. QED BY <1>1, <1>2, <1>3, <1>6, <2>1, QuotientStands
<1>8. H <= 2 * q /\ q < 4 * H
  <2>1. q * B <= A * H /\ A * H < (q + 1) * B
    BY <1>6 DEF Floors
  <2>2. H * H <= A * H /\ H * B <= H * (2 * H) - H /\ A * H < (2 * H) * H
    <3>1. H * H <= A * H /\ A * H < (2 * H) * H
      <4> DEFINE G == 2 * H
      <4>1. G \in Int /\ A < G
        BY <1>1
      <4> HIDE DEF G
      <4>2. H * H <= A * H /\ A * H < G * H
        BY <1>1, <4>1, TimesMono, TimesStrict
      <4>3. QED BY <4>2 DEF G
    <3>2. H * B <= H * (2 * H - 1) /\ H * (2 * H - 1) = H * (2 * H) - H
      <4> DEFINE G == 2 * H - 1
      <4>1. G \in Int /\ B <= G
        BY <1>1
      <4>2. H * G = H * (2 * H) - H
        BY <1>1, Z3
      <4> HIDE DEF G
      <4>3. H * B <= H * G
        BY <1>1, <4>1, TimesMono
      <4>4. QED BY <4>2, <4>3 DEF G
    <3>3. QED BY <3>1, <3>2
  <2>3. H <= 2 * q
    <3>0. PICK M \in Nat : H = 8 * M
      BY <1>5, Scales
    <3>1. SUFFICES ASSUME 2 * q + 2 <= H PROVE FALSE
      BY <1>1, <1>6, <3>0
    <3>2. 2 * ((q + 1) * B) <= H * B
      <4> DEFINE p == 2 * q + 2
      <4>1. p \in Int /\ p <= H
        BY <1>1, <1>6, <3>1
      <4>2. 2 * ((q + 1) * B) = p * B
        BY <1>1, <1>6, Z3
      <4> HIDE DEF p
      <4>3. p * B <= H * B
        BY <1>1, <4>1, TimesMono
      <4>4. QED BY <4>2, <4>3
    <3>3. 2 * (H * H) = H * (2 * H) /\ H * H \in Int /\ A * H \in Int /\ (q + 1) * B \in Int /\ H * B \in Int
      BY <1>1, <1>6, Z3
    <3>4. QED BY <1>1, <2>1, <2>2, <3>2, <3>3
  <2>4. q < 4 * H
    <3>1. SUFFICES ASSUME 2 * H <= q PROVE FALSE
      BY <1>1, <1>6
    <3>2. (2 * H) * H <= q * B
      <4> DEFINE G == 2 * H
      <4>1. G \in Int /\ G \in Nat /\ G <= q
        BY <1>1, <3>1
      <4> HIDE DEF G
      <4>2. G * H <= G * B /\ G * B <= q * B
        BY <1>1, <1>6, <4>1, TimesMono
      <4>3. G * H \in Int /\ G * B \in Int /\ q * B \in Int
        BY <1>1, <1>6, <4>1, TimesTyped
      <4>4. QED BY <4>2, <4>3 DEF G
    <3>3. (2 * H) * H \in Int /\ q * B \in Int /\ A * H \in Int
      BY <1>1, <1>6, Z3
    <3>4. QED BY <2>1, <2>2, <3>2, <3>3
  <2>5. QED BY <2>3, <2>4
<1>9. q # 0 /\ q < pow2[WORD] /\ pow2[scale(f)] <= 2 * q
  BY <1>1, <1>5, <1>6, <1>8
<1>10. QED BY <1>6, <1>7, <1>9 DEF Ready, q, A, B, H, ea, eb

\* FDIV rounds correctly, or halves below the normal range.
LEMMA DividedRounds ==
    ASSUME NEW f \in Formats, NEW x \in Patterns(f), NEW y \in Patterns(f), IsFinite(f, x), IsFinite(f, y),
           ~is_zero(f, y), NEW r \in Modes, NEW c, ~is_flushing(f, c)
    PROVE  RoundedOrHalved(divided(x, y, f, r, c), IeeeDiv(x, y, f, r),
                           Ulps(f, x) * pow2[UnitBits(f)], Ulps(f, y), f)
<1> DEFINE a == unpack(x, f)
           b == unpack(y, f)
           U == Ulps(f, x)
           V == Ulps(f, y)
           D == pow2[UnitBits(f)]
<1>1. /\ ~is_nan(f, x) /\ ~is_infinite(f, x) /\ U \in Nat /\ a \in UnpackedValues /\ Measures(a, U, f)
      /\ is_negative(f, x) \in BOOLEAN
      /\ (is_zero(f, x) <=> U = 0) /\ (a.significand = 0 <=> is_zero(f, x))
  BY FiniteOperand
<1>2. /\ ~is_nan(f, y) /\ ~is_infinite(f, y) /\ V \in Nat \ {0} /\ b \in UnpackedValues /\ Carries(b, V, f)
      /\ is_negative(f, y) \in BOOLEAN
  BY FiniteOperand DEF Measures
<1>3. PICK n \in BOOLEAN : n = (is_negative(f, x) # is_negative(f, y))
  OBVIOUS
<1>4. U * D \in Nat /\ (U * D = 0 <=> U = 0) /\ D \in Nat \ {0}
  <2>0. D \in Nat \ {0}
    BY UnitBitsIs
  <2> HIDE DEF U, D
  <2>1. U * D \in Int /\ U * D >= 0 /\ (U > 0 => U * D > 0)
    BY <1>1, <2>0, TimesTyped
  <2>2. U = 0 => U * D = 0
    BY <2>0
  <2>3. QED BY <1>1, <2>0, <2>1, <2>2
<1>5. IeeeDiv(x, y, f, r) = IF U * D = 0 THEN Exact(zero(f, n)) ELSE Rounded(U * D, V, n, f, r)
  BY <1>3 DEF IeeeDiv
<1>6. CASE is_zero(f, x)
  <2>1. divided(x, y, f, r, c) = divide_specials(x, y, n, f)
    BY <1>1, <1>2, <1>3, <1>6, PairOfOperands DEF divided
  <2>2. divide_specials(x, y, n, f) = Exact(zero(f, n))
    BY <1>1, <1>2, <1>6 DEF divide_specials
  <2>3. QED BY <1>1, <1>4, <1>5, <1>6, <2>1, <2>2 DEF RoundedOrHalved
<1>7. CASE ~is_zero(f, x)
  <2> DEFINE N == a.significand * pow2[scale(f)]
             q == N \div b.significand
             e == a.exponent - b.exponent
  <2>0. PICK t \in BOOLEAN : t = (N % b.significand # 0)
    OBVIOUS
  <2>1. divided(x, y, f, r, c) = round_and_pack(Unpacked(n, e, q), t, f, r, c)
    BY <1>1, <1>2, <1>3, <1>7, <2>0, PairOfOperands DEF divided
  <2>2. IeeeDiv(x, y, f, r) = Rounded(U * D, V, n, f, r)
    BY <1>1, <1>4, <1>5, <1>7
  <2>3. Carries(a, U, f) /\ (t <=> (a.significand * pow2[scale(f)]) % b.significand # 0)
    BY <1>1, <1>7, <2>0 DEF Measures
  <2>4. q \in Nat /\ Ready(q, t, e, U * D, V, f)
    <3> HIDE DEF U, V, a, b
    <3>1. QED BY <1>1, <1>2, <2>3, QuotientReady
  <2>5. e \in Int
    BY <1>1, <1>2 DEF UnpackedValues
  <2> HIDE DEF q, e
  <2> DEFINE v == Unpacked(n, e, q)
             Z == U * D
  <2>6. v \in UnpackedValues /\ v.significand = q /\ v.exponent = e /\ v.is_negative = n
    BY <2>4, <2>5, UnpackedIs
  <2>7. Ready(v.significand, t, v.exponent, Z, V, f) /\ Z \in Nat
    BY <1>4, <2>4, <2>6
  <2> HIDE DEF v, Z, V
  <2>8. RoundedOrHalved(round_and_pack(v, t, f, r, c), Rounded(Z, V, v.is_negative, f, r), Z, V, f)
    BY <1>2, <2>6, <2>7, RoundAndPackRounds
  <2>9. QED BY <2>1, <2>2, <2>6, <2>8 DEF v, Z, V
<1>8. QED BY <1>6, <1>7

(***************************************************************************)
(* Square root.                                                            *)
(***************************************************************************)
\* One turn of isqrt's loop, for the bit pow2[2 * (k + 1)], and the states of
\* all of them.
RootStep(s, bit) ==
    IF s.remainder >= s.root + bit
    THEN [remainder |-> s.remainder - s.root - bit, root |-> (s.root \div 2) + bit]
    ELSE [remainder |-> s.remainder, root |-> s.root \div 2]

\* The states of isqrt's loop.
RootStates(g, value, top) ==
    [k \in -1 .. top |-> IF k = top THEN [remainder |-> value, root |-> 0]
                         ELSE RootStep(g[k + 1], pow2[2 * (k + 1)])]

\* The states from k up.
IsRootTail(g, value, top, k) ==
    \A i \in k .. top : g[i] = IF i = top THEN [remainder |-> value, root |-> 0]
                               ELSE RootStep(g[i + 1], pow2[2 * (i + 1)])

\* The loop's states exist, by adding one turn at a time.
LEMMA RootTails ==
    ASSUME NEW value, NEW top \in Nat, NEW n \in Nat, n <= top + 1
    PROVE  \E g : IsRootTail(g, value, top, top - n)
<1> DEFINE P(j) == j <= top + 1 => \E g : IsRootTail(g, value, top, top - j)
           Bad  == {j \in Nat : ~P(j)}
<1>1. P(0)
  <2> DEFINE e == [i \in -1 .. top |-> [remainder |-> value, root |-> 0]]
  <2>1. ASSUME NEW i \in top - 0 .. top PROVE i = top /\ e[i] = [remainder |-> value, root |-> 0]
    OBVIOUS
  <2> HIDE DEF e
  <2>2. IsRootTail(e, value, top, top - 0)
    BY <2>1 DEF IsRootTail
  <2>3. QED BY <2>2
<1>2. ASSUME NEW j \in Nat, P(j) PROVE P(j + 1)
  <2>1. SUFFICES ASSUME j + 1 <= top + 1 PROVE \E g : IsRootTail(g, value, top, top - (j + 1))
    OBVIOUS
  <2>2. PICK h : IsRootTail(h, value, top, top - j)
    BY <1>2, <2>1
  <2> DEFINE k == top - (j + 1)
             s == RootStep(h[k + 1], pow2[2 * (k + 1)])
             e == [i \in -1 .. top |-> IF i = k THEN s ELSE h[i]]
  <2>3. k \in -1 .. top /\ k # top /\ k + 1 = top - j /\ k + 1 \in -1 .. top /\ k + 1 # k
    BY <2>1
  <2>4. e[k] = s /\ e[k + 1] = h[k + 1]
    BY <2>3
  <2>5. ASSUME NEW i \in k .. top, i # k
        PROVE  /\ i \in top - j .. top /\ e[i] = h[i]
               /\ i # top => e[i + 1] = h[i + 1]
    BY <2>3, <2>5
  <2> HIDE DEF e
  <2>6. ASSUME NEW i \in k .. top
        PROVE  e[i] = IF i = top THEN [remainder |-> value, root |-> 0] ELSE RootStep(e[i + 1], pow2[2 * (i + 1)])
    <3>1. CASE i = k
      BY <2>3, <2>4, <3>1
    <3>2. CASE i # k
      <4>1. h[i] = IF i = top THEN [remainder |-> value, root |-> 0] ELSE RootStep(h[i + 1], pow2[2 * (i + 1)])
        BY <2>2, <2>5, <3>2 DEF IsRootTail
      <4>2. QED BY <2>5, <3>2, <4>1
    <3>3. QED BY <3>1, <3>2
  <2>7. IsRootTail(e, value, top, k)
    BY <2>6 DEF IsRootTail
  <2>8. QED BY <2>7
<1>3. SUFFICES ASSUME Bad # {} PROVE FALSE
  OBVIOUS
<1>4. PICK j \in Bad : \A y \in Bad : j <= y
  <2>1. Bad \in SUBSET Nat
    OBVIOUS
  <2> HIDE DEF Bad
  <2>2. QED BY <1>3, <2>1, LeastNatural
<1>5. j \in Nat /\ ~P(j)
  BY <1>4
<1> HIDE DEF P
<1>6. j # 0
  BY <1>1, <1>5
<1>7. j - 1 \in Nat /\ j - 1 \notin Bad
  BY <1>4, <1>5, <1>6
<1>8. P(j - 1)
  BY <1>7
<1>9. P(j - 1 + 1)
  BY <1>2, <1>7, <1>8
<1>10. j - 1 + 1 = j
  BY <1>5
<1>11. QED BY <1>5, <1>9, <1>10

\* isqrt ends in the last of its loop's states.
LEMMA RootUnfolds ==
    ASSUME NEW value \in Nat \ {0}, NEW top \in Nat, top = leading(value) \div 2
    PROVE  \E g : IsRootTail(g, value, top, -1) /\ isqrt(value) = g[-1].root
<1> DEFINE G(g) == RootStates(g, value, top)
           after == CHOOSE g : g = G(g)
<1>1. \E g : g = G(g)
  <2> DEFINE n == top + 1
  <2>1. n \in Nat /\ n <= top + 1 /\ top - n = -1
    OBVIOUS
  <2> HIDE DEF n
  <2>2. PICK h : IsRootTail(h, value, top, top - n)
    BY <2>1, RootTails
  <2> DEFINE e == [i \in -1 .. top |-> h[i]]
  <2>3. ASSUME NEW i \in -1 .. top
        PROVE  e[i] = IF i = top THEN [remainder |-> value, root |-> 0] ELSE RootStep(e[i + 1], pow2[2 * (i + 1)])
    <3>1. e[i] = h[i] /\ (i # top => e[i + 1] = h[i + 1])
      OBVIOUS
    <3>2. h[i] = IF i = top THEN [remainder |-> value, root |-> 0] ELSE RootStep(h[i + 1], pow2[2 * (i + 1)])
      BY <2>1, <2>2 DEF IsRootTail
    <3> HIDE DEF e
    <3>3. QED BY <3>1, <3>2
  <2>4. e = G(e)
    BY <2>3 DEF RootStates
  <2> HIDE DEF e
  <2>5. QED BY <2>4
<1>2. after = G(after)
  BY <1>1
<1>3. isqrt(value) = after[-1].root
  BY DEF isqrt, RootStates, RootStep
<1> HIDE DEF after
<1>4. IsRootTail(after, value, top, -1)
  BY <1>2 DEF RootStates, IsRootTail
<1>5. QED BY <1>3, <1>4

\* With the bits of the root above y settled, in units of Q = 4^(k + 1).
RootIs(s, value, y, Q) ==
    /\ s.root = y * Q /\ s.remainder = value - (y * y) * Q
    /\ (y * y) * Q <= value /\ value < ((y + 1) * (y + 1)) * Q

\* Products in the loop of isqrt.
LEMMA Squares ==
    ASSUME NEW y \in Nat, NEW Q \in Nat
    PROVE  /\ y * Q \in Nat /\ (y * y) * Q \in Nat
           /\ y * (4 * Q) = 4 * (y * Q) /\ (y * y) * (4 * Q) = 4 * ((y * y) * Q)
           /\ ((y + 1) * (y + 1)) * Q = (y * y) * Q + 2 * (y * Q) + Q
           /\ ((y + 1) * (y + 1)) * (4 * Q) = 4 * ((y * y) * Q) + 8 * (y * Q) + 4 * Q
           /\ (2 * y) * Q = 2 * (y * Q) /\ (2 * y + 1) * Q = 2 * (y * Q) + Q
           /\ ((2 * y) * (2 * y)) * Q = 4 * ((y * y) * Q)
           /\ ((2 * y + 1) * (2 * y + 1)) * Q = 4 * ((y * y) * Q) + 4 * (y * Q) + Q
           /\ ((2 * y + 2) * (2 * y + 2)) * Q = 4 * ((y * y) * Q) + 8 * (y * Q) + 4 * Q
<1> DEFINE Z == y * y
           A == Z * Q
           B == y * Q
<1>1. /\ Z \in Nat /\ (y + 1) * (y + 1) = Z + 2 * y + 1 /\ (2 * y) * (2 * y) = 4 * Z
      /\ (2 * y + 1) * (2 * y + 1) = 4 * Z + 4 * y + 1 /\ (2 * y + 2) * (2 * y + 2) = 4 * Z + 8 * y + 4
  BY Z3
<1> HIDE DEF Z
<1>2. /\ A \in Nat /\ B \in Nat /\ (Z + 2 * y + 1) * Q = A + 2 * B + Q /\ (4 * Z) * Q = 4 * A
      /\ (4 * Z + 4 * y + 1) * Q = 4 * A + 4 * B + Q /\ (4 * Z + 8 * y + 4) * Q = 4 * A + 8 * B + 4 * Q
      /\ (Z + 2 * y + 1) * (4 * Q) = 4 * A + 8 * B + 4 * Q /\ Z * (4 * Q) = 4 * A /\ y * (4 * Q) = 4 * B
      /\ (2 * y) * Q = 2 * B /\ (2 * y + 1) * Q = 2 * B + Q
  BY <1>1, Z3
<1> HIDE DEF A, B
<1>3. QED BY <1>1, <1>2 DEF A, B, Z

\* A turn of the loop settles one more bit.
LEMMA RootStepIs ==
    ASSUME NEW value \in Nat, NEW y \in Nat, NEW Q \in Nat \ {0}, NEW s, RootIs(s, value, y, 4 * Q)
    PROVE  \E z \in Nat : RootIs(RootStep(s, Q), value, z, Q)
<1> DEFINE A == (y * y) * Q
           B == y * Q
           u == RootStep(s, Q)
<1>1. /\ B \in Nat /\ A \in Nat
      /\ y * (4 * Q) = 4 * B /\ (y * y) * (4 * Q) = 4 * A
      /\ ((y + 1) * (y + 1)) * (4 * Q) = 4 * A + 8 * B + 4 * Q
      /\ (2 * y) * Q = 2 * B /\ (2 * y + 1) * Q = 2 * B + Q
      /\ ((2 * y) * (2 * y)) * Q = 4 * A
      /\ ((2 * y + 1) * (2 * y + 1)) * Q = 4 * A + 4 * B + Q
      /\ ((2 * y + 2) * (2 * y + 2)) * Q = 4 * A + 8 * B + 4 * Q
  BY Squares
<1>2. /\ s.root = 4 * B /\ s.remainder = value - 4 * A
      /\ 4 * A <= value /\ value < 4 * A + 8 * B + 4 * Q
  BY <1>1 DEF RootIs
<1> HIDE DEF A, B
<1>3. CASE s.remainder >= s.root + Q
  <2> DEFINE z == 2 * y + 1
  <2>1. u = [remainder |-> s.remainder - s.root - Q, root |-> (s.root \div 2) + Q]
    BY <1>3 DEF RootStep
  <2>2. (s.root \div 2) + Q = 2 * B + Q
    BY <1>1, <1>2
  <2>3. s.remainder - s.root - Q = value - (4 * A + 4 * B + Q) /\ 4 * A + 4 * B + Q <= value
    BY <1>1, <1>2, <1>3
  <2>4. z + 1 = 2 * y + 2 /\ z \in Nat
    OBVIOUS
  <2>5. RootIs(u, value, z, Q)
    BY <1>1, <1>2, <2>1, <2>2, <2>3, <2>4 DEF RootIs
  <2>6. QED BY <2>4, <2>5
<1>4. CASE ~(s.remainder >= s.root + Q)
  <2> DEFINE z == 2 * y
  <2>1. u = [remainder |-> s.remainder, root |-> s.root \div 2]
    BY <1>4 DEF RootStep
  <2>2. s.root \div 2 = 2 * B /\ value < 4 * A + 4 * B + Q
    BY <1>1, <1>2, <1>4
  <2>3. z + 1 = 2 * y + 1 /\ z \in Nat
    OBVIOUS
  <2>4. RootIs(u, value, z, Q)
    BY <1>1, <1>2, <2>1, <2>2, <2>3 DEF RootIs
  <2>5. QED BY <2>3, <2>4
<1>5. QED BY <1>3, <1>4

\* isqrt is the integer square root.
LEMMA RootIsFloor ==
    ASSUME NEW value \in Nat \ {0}, value < pow2[2 * WORD + 1]
    PROVE  /\ isqrt(value) \in Nat
           /\ isqrt(value) * isqrt(value) <= value
           /\ value < (isqrt(value) + 1) * (isqrt(value) + 1)
<1> DEFINE l == leading(value)
           top == l \div 2
<1>1. l \in Nat /\ value < pow2[l + 1] /\ WORD \in Nat
  <2>1. l \in 0 .. 2 * WORD /\ value < pow2[l + 1]
    BY LeadingIs
  <2>2. WORD \in Nat
    BY FormatAssumption
  <2>3. QED BY <2>1, <2>2
<1> HIDE DEF l
<1>2. top \in Nat /\ l + 1 <= 2 * (top + 1)
  BY <1>1
<1>3. PICK g : IsRootTail(g, value, top, -1) /\ isqrt(value) = g[-1].root
  <2>1. top = leading(value) \div 2
    BY DEF l
  <2> HIDE DEF top
  <2>2. QED BY <1>2, <2>1, RootUnfolds
<1> HIDE DEF top
<1> DEFINE Inv(k) == \E y \in Nat : RootIs(g[k], value, y, pow2[2 * (k + 1)])
           P(j) == j <= top + 1 => Inv(top - j)
           Bad  == {j \in Nat : ~P(j)}
<1>4. P(0)
  <2> DEFINE Q == pow2[2 * (top + 1)]
             o == 0
  <2>1. g[top] = [remainder |-> value, root |-> 0]
    BY <1>2, <1>3 DEF IsRootTail
  <2>2. Q \in Nat \ {0} /\ value < Q
    <3>1. 2 * (top + 1) \in Nat /\ l + 1 \in Nat
      BY <1>1, <1>2
    <3>2. pow2[l + 1] <= Q /\ Q \in Nat \ {0} /\ pow2[l + 1] \in Nat
      BY <1>2, <3>1, PowMono, PowSucc
    <3>3. QED BY <1>1, <3>2
  <2> HIDE DEF Q
  <2>3. o \in Nat /\ (o * o) * Q = 0 /\ o * Q = 0 /\ ((o + 1) * (o + 1)) * Q = Q
    BY <2>2
  <2>4. RootIs(g[top], value, o, Q)
    <3>1. g[top].root = 0 /\ g[top].remainder = value /\ value - 0 = value
      BY <2>1
    <3> HIDE DEF o
    <3>2. QED BY <2>2, <2>3, <3>1 DEF RootIs
  <2>5. top - 0 = top
    BY <1>2
  <2>6. QED BY <2>3, <2>4, <2>5 DEF Q
<1>5. ASSUME NEW j \in Nat, P(j) PROVE P(j + 1)
  <2>1. SUFFICES ASSUME j + 1 <= top + 1 PROVE Inv(top - (j + 1))
    OBVIOUS
  <2> DEFINE k == top - (j + 1)
             Q == pow2[2 * (k + 1)]
  <2>2. k \in -1 .. top /\ k # top /\ k + 1 = top - j /\ 2 * (k + 1) \in Nat /\ 2 * ((k + 1) + 1) = 2 * (k + 1) + 2
    BY <1>2, <2>1
  <2>3. g[k] = RootStep(g[k + 1], Q)
    BY <1>3, <2>2 DEF IsRootTail
  <2>4. Q \in Nat \ {0} /\ pow2[2 * ((k + 1) + 1)] = 4 * Q
    <3>1. Q \in Nat \ {0} /\ pow2[2 * (k + 1) + 1] = 2 * Q /\ 2 * (k + 1) + 1 \in Nat
      BY <2>2, PowSucc
    <3>2. pow2[(2 * (k + 1) + 1) + 1] = 2 * pow2[2 * (k + 1) + 1]
      BY <3>1, PowSucc
    <3>3. (2 * (k + 1) + 1) + 1 = 2 * (k + 1) + 2
      BY <2>2
    <3>4. QED BY <2>2, <3>1, <3>2, <3>3
  <2>5. PICK y \in Nat : RootIs(g[k + 1], value, y, 4 * Q)
    <3>1. Inv(top - j)
      BY <1>2, <1>5, <2>1
    <3>2. Inv(k + 1)
      <4> HIDE DEF Inv, k
      <4>1. QED BY <2>2, <3>1
    <3>3. PICK y \in Nat : RootIs(g[k + 1], value, y, pow2[2 * ((k + 1) + 1)])
      BY <3>2
    <3>4. QED BY <2>4, <3>3
  <2> HIDE DEF Q
  <2> DEFINE s == g[k + 1]
  <2>6. RootIs(s, value, y, 4 * Q)
    BY <2>5
  <2> HIDE DEF s
  <2>7. \E z \in Nat : RootIs(RootStep(s, Q), value, z, Q)
    BY <2>4, <2>6, RootStepIs
  <2>8. QED BY <2>3, <2>7 DEF Q, s
<1>6. P(top + 1)
  <2>1. SUFFICES ASSUME Bad # {} PROVE FALSE
    <3>1. top + 1 \in Nat
      BY <1>2
    <3> HIDE DEF P
    <3>2. QED BY <3>1
  <2>2. PICK j \in Bad : \A y \in Bad : j <= y
    <3>1. Bad \in SUBSET Nat
      OBVIOUS
    <3> HIDE DEF Bad
    <3>2. QED BY <2>1, <3>1, LeastNatural
  <2>3. j \in Nat /\ ~P(j)
    BY <2>2
  <2> HIDE DEF P
  <2>4. j # 0
    BY <1>4, <2>3
  <2>5. j - 1 \in Nat /\ j - 1 \notin Bad
    BY <2>2, <2>3, <2>4
  <2>6. P(j - 1)
    BY <2>5
  <2>7. P(j - 1 + 1)
    BY <1>5, <2>5, <2>6
  <2>8. j - 1 + 1 = j
    BY <2>3
  <2>9. QED BY <2>3, <2>7, <2>8
<1>7. Inv(-1)
  <2>1. top - (top + 1) = -1 /\ top + 1 <= top + 1
    BY <1>2
  <2> HIDE DEF Inv
  <2>2. QED BY <1>6, <2>1
<1>8. PICK y \in Nat : RootIs(g[-1], value, y, 1)
  <2>1. 2 * (-1 + 1) = 0 /\ pow2[0] = 1
    BY PowValues
  <2>2. QED BY <1>7, <2>1
<1>9. y * 1 = y /\ (y * y) * 1 = y * y /\ ((y + 1) * (y + 1)) * 1 = (y + 1) * (y + 1)
  BY Z3
<1>10. isqrt(value) = y /\ y * y <= value /\ value < (y + 1) * (y + 1)
  BY <1>3, <1>8, <1>9 DEF RootIs
<1>11. QED BY <1>10

\* Squares are monotone.
LEMMA SquareOrder ==
    ASSUME NEW a \in Nat, NEW b \in Nat
    PROVE  /\ a * a \in Nat
           /\ a <= b => a * a <= b * b
           /\ a < b => a * a < b * b
           /\ a * a <= b * b => a <= b
<1>1. a * a \in Nat /\ a * b \in Nat /\ b * b \in Nat
  BY Z3
<1>2. a <= b => a * a <= a * b /\ a * b <= b * b
  BY TimesMono
<1>3. a < b => a * a <= a * b /\ a * b < b * b
  <2>1. SUFFICES ASSUME a < b PROVE a * a <= a * b /\ a * b < b * b
    OBVIOUS
  <2>2. b \in Nat \ {0}
    BY <2>1
  <2>3. QED BY <2>1, <2>2, TimesMono, TimesStrict
<1>4. b < a => b * b <= b * a /\ b * a < a * a /\ b * a = a * b
  <2>1. SUFFICES ASSUME b < a PROVE b * b <= b * a /\ b * a < a * a /\ b * a = a * b
    OBVIOUS
  <2>2. a \in Nat \ {0}
    BY <2>1
  <2>3. QED BY <2>1, <2>2, TimesMono, TimesStrict, TimesTyped
<1>5. QED BY <1>1, <1>2, <1>3, <1>4

\* q is the integer root of R, t whether it is inexact.
Roots(q, t, R) == q * q <= R /\ R < (q + 1) * (q + 1) /\ (t <=> q * q # R)

\* The guard bits of an integer root decide as the root itself does, and a root
\* is never half way.
LEMMA RootGuards ==
    ASSUME NEW q \in Nat, NEW t \in BOOLEAN, NEW R \in Nat, Roots(q, t, R), NEW T, T = q \div 8, NEW D, D = q % 8,
           NEW z \in Nat, R = 32 * z
    PROVE  /\ (8 * T) * (8 * T) <= R /\ R < (8 * T + 8) * (8 * T + 8)
           /\ (8 * T) * (8 * T) = R <=> (D = 0 /\ ~t)
           /\ R > (8 * T + 4) * (8 * T + 4) <=> (D > 4 \/ (D = 4 /\ t))
           /\ D = 4 => t
<1>1. T \in Nat /\ D \in 0 .. 7 /\ q = 8 * T + D
  BY EighthsAre
<1>2. q * q <= R /\ R < (q + 1) * (q + 1) /\ (t <=> q * q # R) /\ q * q \in Nat /\ (q + 1) * (q + 1) \in Nat
  <2>1. q \in Nat /\ q + 1 \in Nat
    OBVIOUS
  <2>2. QED BY <2>1, SquareOrder DEF Roots
<1> DEFINE A == 8 * T
           B == 8 * T + 4
           C == 8 * T + 8
           AA == A * A
           BB == B * B
           CC == C * C
           QQ == q * q
           PP == (q + 1) * (q + 1)
<1>3. A \in Nat /\ B \in Nat /\ C \in Nat /\ q + 1 \in Nat /\ q = A + D /\ B = A + 4 /\ C = A + 8
  BY <1>1
<1>4. AA \in Nat /\ BB \in Nat /\ CC \in Nat /\ QQ \in Nat /\ PP \in Nat
  BY <1>2, <1>3, SquareOrder
<1>5. AA <= QQ /\ PP <= CC /\ (D # 0 => AA < QQ) /\ (D = 0 => AA = QQ)
  <2>1. A <= q /\ q + 1 <= C /\ (D # 0 => A < q) /\ (D = 0 => A = q)
    BY <1>1, <1>3
  <2> HIDE DEF A, C
  <2>2. AA <= QQ /\ PP <= CC
    BY <1>3, <2>1, SquareOrder
  <2>3. D # 0 => AA < QQ
    BY <1>3, <2>1, SquareOrder
  <2>4. QED BY <2>1, <2>2, <2>3
<1>6. (D > 4 => BB < QQ) /\ (D = 4 => BB = QQ) /\ (D < 4 => PP <= BB)
  <2>1. (D > 4 => B < q) /\ (D = 4 => B = q) /\ (D < 4 => q + 1 <= B)
    BY <1>1, <1>3
  <2> HIDE DEF B
  <2>2. D > 4 => BB < QQ
    BY <1>3, <2>1, SquareOrder
  <2>3. D < 4 => PP <= BB
    BY <1>3, <2>1, SquareOrder
  <2>4. QED BY <2>1, <2>2, <2>3
<1>7. BB # R
  <2>1. BB = 64 * (T * T) + 64 * T + 16 /\ T * T \in Nat
    BY <1>1, Z3
  <2> DEFINE Y == T * T
  <2>2. Y \in Nat /\ BB = 64 * Y + 64 * T + 16
    BY <2>1
  <2> HIDE DEF Y, BB
  <2>3. QED BY <1>1, <2>2
<1>8. QQ <= R /\ R < PP /\ (t <=> QQ # R)
  BY <1>2
<1> HIDE DEF AA, BB, CC, QQ, PP
<1>9. AA <= R /\ R < CC /\ (AA = R <=> (D = 0 /\ ~t))
  BY <1>4, <1>5, <1>8
<1>10. R > BB <=> (D > 4 \/ (D = 4 /\ t))
  <2>1. D > 4 \/ D = 4 \/ D < 4
    BY <1>1
  <2>2. CASE D > 4
    BY <1>4, <1>6, <1>8, <2>2
  <2>3. CASE D = 4
    BY <1>4, <1>6, <1>8, <2>3
  <2>4. CASE D < 4
    BY <1>1, <1>4, <1>6, <1>8, <2>4
  <2>5. QED BY <2>1, <2>2, <2>3, <2>4
<1>11. D = 4 => t
  BY <1>4, <1>6, <1>7, <1>8
<1>12. QED BY <1>9, <1>10, <1>11 DEF AA, BB, CC, A, B, C

\* Squares in units of P: v and x in smallest subnormals, n and R in units.
LEMMA ScaledSquares ==
    ASSUME NEW x \in Nat, NEW R \in Nat, NEW P \in Nat \ {0}, x * 64 = R * (P * P), NEW v \in Nat, NEW n \in Nat
    PROVE  /\ 8 * v = n * P => (v * v <= x <=> n * n <= R) /\ (v * v = x <=> n * n = R)
           /\ 4 * v = n * P => (4 * x > v * v <=> R > n * n)
<1> DEFINE PP == P * P
           N == n * n
           V == v * v
<1>1. PP \in Nat \ {0} /\ N \in Nat /\ V \in Nat /\ x * 64 = R * PP
  <2>1. P * P \in Int /\ P * P > 0
    BY TimesTyped
  <2>2. QED BY <2>1, SquareOrder
<1>2. (n * P) * (n * P) = N * PP /\ (8 * v) * (8 * v) = 64 * V /\ (4 * v) * (4 * v) = 16 * V
  <2>1. (n * P) * (n * P) = (n * n) * (P * P)
    BY FourFactors
  <2>2. (8 * v) * (8 * v) = 64 * (v * v) /\ (4 * v) * (4 * v) = 16 * (v * v)
    BY Z3
  <2>3. QED BY <2>1, <2>2
<1> HIDE DEF PP, N, V
<1>3. /\ N <= R <=> N * PP <= R * PP
      /\ N = R <=> N * PP = R * PP
      /\ N * PP \in Int /\ R * PP \in Int
  <2>1. N * PP \in Int /\ R * PP \in Int
    BY <1>1, TimesTyped
  <2>2. N <= R => N * PP <= R * PP
    BY <1>1, TimesMono
  <2>3. R < N => R * PP < N * PP
    BY <1>1, TimesStrict
  <2>4. N < R => N * PP < R * PP
    BY <1>1, TimesStrict
  <2>5. QED BY <1>1, <2>1, <2>2, <2>3, <2>4
<1>4. 8 * v = n * P => (V <= x <=> N <= R) /\ (V = x <=> N = R)
  <2>1. SUFFICES ASSUME 8 * v = n * P PROVE (V <= x <=> N <= R) /\ (V = x <=> N = R)
    OBVIOUS
  <2>2. N * PP = 64 * V
    BY <1>2, <2>1
  <2>3. QED BY <1>1, <1>3, <2>2
<1>5. 4 * v = n * P => (4 * x > V <=> R > N)
  <2>1. SUFFICES ASSUME 4 * v = n * P PROVE 4 * x > V <=> R > N
    OBVIOUS
  <2>2. N * PP = 16 * V
    BY <1>2, <2>1
  <2>3. QED BY <1>1, <1>3, <2>2
<1>6. QED BY <1>4, <1>5 DEF N, V

\* A root in the normal range: q has m + 4 bits, T of them above the guard bits D,
\* in units of P = 2^k smallest subnormals; x is its square in their squares.
IsRoot(q, t, R, T, D, k, P, x, b, f) ==
    /\ Roots(q, t, R) /\ (\E z \in Nat : R = 32 * z) /\ T = q \div 8 /\ D = q % 8
    /\ pow2[f.mantissa_bits] <= T /\ T < 2 * pow2[f.mantissa_bits]
    /\ k + 2 < max_exponent(f) /\ P = pow2[k] /\ x * 64 = R * (P * P)
    /\ b = k * pow2[f.mantissa_bits] + T

\* What both the code and the reference answer for it.
RootAnswer(T, D, t, b, r) ==
    IF D = 0 /\ ~t THEN Exact(b)
    ELSE Raising(IF r = "Plus" \/ (r \in {"Nearest", "NearestAway"} /\ (D > 4 \/ (D = 4 /\ t))) THEN b + 1 ELSE b,
                 {"INEXACT"})

\* The neighbours of a root.
LEMMA RootNeighbours ==
    ASSUME NEW f \in Formats, NEW q \in Nat, NEW t, NEW R \in Nat, NEW T, NEW D, NEW k \in Nat, NEW P,
           NEW x \in Nat, NEW b, IsRoot(q, t, R, T, D, k, P, x, b, f)
    PROVE  /\ T \in Nat /\ D \in 0 .. 7 /\ q = 8 * T + D /\ P \in Nat \ {0}
           /\ b \in Nat /\ b + 1 < infinity(f) /\ b % 2 = T % 2 /\ infinity(f) \in Nat
           /\ Ulps(f, b) = T * P /\ Ulps(f, b + 1) = (T + 1) * P
<1> DEFINE M == pow2[f.mantissa_bits]
<1>1. T \in Nat /\ D \in 0 .. 7 /\ q = 8 * T + D
  BY EighthsAre DEF IsRoot
<1>2. M \in Nat \ {0} /\ infinity(f) = max_exponent(f) * M /\ max_exponent(f) \in Nat /\ infinity(f) \in Nat
  BY FormatSizes, Magnitudes DEF Sizes
<1>3. /\ M <= T /\ T < 2 * M /\ k + 2 < max_exponent(f) /\ P = pow2[k] /\ b = k * M + T
      /\ M = pow2[f.mantissa_bits]
  BY DEF IsRoot
<1> HIDE DEF M
<1>4. P \in Nat \ {0}
  BY <1>3, PowSucc
<1>5. k + 1 < max_exponent(f)
  BY <1>2, <1>3
<1>6. b \in Nat /\ b < infinity(f) /\ b % 2 = T % 2 /\ Ulps(f, b) = T * P /\ Ulps(f, b + 1) = (T + 1) * P
  BY <1>1, <1>3, <1>5, UlpsNormal
<1>7. b + 1 < infinity(f)
  <2>1. k * M + 2 * M = (k + 2) * M /\ k * M \in Int /\ (k + 2) * M \in Int
    BY <1>2, Z3
  <2>2. (k + 2) * M < max_exponent(f) * M
    BY <1>2, <1>3, TimesStrict
  <2>3. max_exponent(f) * M \in Int
    BY <1>2, TimesTyped
  <2>4. QED BY <1>1, <1>2, <1>3, <2>1, <2>2, <2>3
<1>8. QED BY <1>1, <1>2, <1>4, <1>6, <1>7

\* The reference root of such an operand.
LEMMA IeeeRootIs ==
    ASSUME NEW f \in Formats, NEW q \in Nat, NEW t \in BOOLEAN, NEW R \in Nat, NEW T, NEW D, NEW k \in Nat, NEW P,
           NEW x \in Nat, NEW b, IsRoot(q, t, R, T, D, k, P, x, b, f), NEW bits, NEW r \in Modes,
           x = Ulps(f, bits) * pow2[UnitBits(f)]
    PROVE  IeeeSqrt(bits, f, r) = RootAnswer(T, D, t, b, r)
<1> DEFINE U(c) == Ulps(f, c)
           I == infinity(f)
           Is(c) == U(c) * U(c) <= x /\ x < U(c + 1) * U(c + 1)
           low == U(b)
           high == U(b + 1)
           mid == low + high
<1>1. /\ T \in Nat /\ D \in 0 .. 7 /\ q = 8 * T + D /\ P \in Nat \ {0} /\ b \in Nat /\ b + 1 < I /\ I \in Nat
      /\ low = T * P /\ high = (T + 1) * P
  BY RootNeighbours
<1>2. PICK z \in Nat : R = 32 * z
  BY DEF IsRoot
<1>3. Roots(q, t, R) /\ T = q \div 8 /\ D = q % 8 /\ x * 64 = R * (P * P)
  BY DEF IsRoot
<1>4. /\ (8 * T) * (8 * T) <= R /\ R < (8 * T + 8) * (8 * T + 8)
      /\ (8 * T) * (8 * T) = R <=> (D = 0 /\ ~t)
      /\ R > (8 * T + 4) * (8 * T + 4) <=> (D > 4 \/ (D = 4 /\ t))
  BY <1>2, <1>3, RootGuards
<1>5. low \in Nat /\ high \in Nat /\ mid \in Nat
      /\ 8 * low = (8 * T) * P /\ 8 * high = (8 * T + 8) * P /\ 4 * mid = (8 * T + 4) * P
  <2> HIDE DEF low, high
  <2>1. T * P \in Nat /\ (T + 1) * P = T * P + P /\ 8 * (T * P) = (8 * T) * P
        /\ (8 * T + 8) * P = 8 * (T * P) + 8 * P /\ (8 * T + 4) * P = 8 * (T * P) + 4 * P
    BY <1>1, Z3
  <2>2. QED BY <1>1, <2>1
<1> HIDE DEF low, high, mid
<1>6. (low * low <= x) /\ (low * low = x <=> (D = 0 /\ ~t))
  <2> DEFINE n == 8 * T
  <2>1. n \in Nat /\ 8 * low = n * P /\ n * n <= R /\ (n * n = R <=> (D = 0 /\ ~t))
    BY <1>1, <1>4, <1>5
  <2> HIDE DEF n
  <2>2. (low * low <= x <=> n * n <= R) /\ (low * low = x <=> n * n = R)
    BY <1>1, <1>3, <1>5, <2>1, ScaledSquares
  <2>3. QED BY <2>1, <2>2
<1>7. x < high * high
  <2> DEFINE n == 8 * T + 8
  <2>1. n \in Nat /\ 8 * high = n * P /\ R < n * n
    BY <1>1, <1>4, <1>5
  <2> HIDE DEF n
  <2>2. high * high <= x <=> n * n <= R
    BY <1>1, <1>3, <1>5, <2>1, ScaledSquares
  <2>3. n * n \in Nat /\ high * high \in Nat
    BY <1>5, <2>1, SquareOrder
  <2>4. QED BY <2>1, <2>2, <2>3
<1>8. 4 * x > mid * mid <=> (D > 4 \/ (D = 4 /\ t))
  <2> DEFINE n == 8 * T + 4
  <2>1. n \in Nat /\ 4 * mid = n * P /\ (R > n * n <=> (D > 4 \/ (D = 4 /\ t)))
    BY <1>1, <1>4, <1>5
  <2> HIDE DEF n
  <2>2. 4 * x > mid * mid <=> R > n * n
    BY <1>1, <1>3, <1>5, <2>1, ScaledSquares
  <2>3. QED BY <2>1, <2>2
<1>9. max_finite(f) = I - 1
  BY DEF max_finite
<1>10. b \in 0 .. max_finite(f) /\ Is(b)
  <2>1. Is(b)
    BY <1>6, <1>7 DEF low, high
  <2>2. b \in 0 .. max_finite(f)
    BY <1>1, <1>9
  <2>3. QED BY <2>1, <2>2
<1>11. ASSUME NEW c \in 0 .. max_finite(f), NEW d \in 0 .. max_finite(f), Is(c), Is(d), c < d PROVE FALSE
  <2>1. c \in 0 .. I /\ c + 1 \in 0 .. I /\ d \in 0 .. I /\ (c + 1 = d \/ c + 1 < d)
    BY <1>1, <1>9, <1>11
  <2> DEFINE p == U(c + 1)
             s == U(d)
  <2>2. p \in Nat /\ s \in Nat /\ p <= s
    BY <2>1, Magnitudes
  <2>3. x < p * p /\ s * s <= x
    BY <1>11
  <2> HIDE DEF p, s
  <2>4. p * p <= s * s /\ p * p \in Nat /\ s * s \in Nat
    BY <2>2, SquareOrder
  <2>5. QED BY <2>3, <2>4
<1> HIDE DEF Is
<1>12. \A c \in 0 .. max_finite(f) : Is(c) => c = b
  <2>1. SUFFICES ASSUME NEW c \in 0 .. max_finite(f), Is(c) PROVE c = b
    OBVIOUS
  <2>2. ~(c < b) /\ ~(b < c)
    BY <1>10, <1>11, <2>1
  <2>3. QED BY <1>1, <1>9, <2>2
<1> DEFINE ch == CHOOSE c \in 0 .. max_finite(f) : Is(c)
<1>13. ch = b
  BY <1>10, <1>12
<1>14. IeeeSqrt(bits, f, r)
         = LET e == CHOOSE c \in 0 .. max_finite(f) : U(c) * U(c) <= x /\ x < U(c + 1) * U(c + 1)
               middle == U(e) + U(e + 1)
           IN  IF U(e) * U(e) = x THEN Exact(e)
               ELSE Raising(IF r = "Plus" \/ (r \in {"Nearest", "NearestAway"} /\ 4 * x > middle * middle)
                            THEN e + 1 ELSE e, {"INEXACT"})
  BY DEF IeeeSqrt
<1>15. IeeeSqrt(bits, f, r)
         = IF low * low = x THEN Exact(b)
           ELSE Raising(IF r = "Plus" \/ (r \in {"Nearest", "NearestAway"} /\ 4 * x > mid * mid)
                        THEN b + 1 ELSE b, {"INEXACT"})
  <2>1. ch = CHOOSE c \in 0 .. max_finite(f) : U(c) * U(c) <= x /\ x < U(c + 1) * U(c + 1)
    BY DEF Is
  <2> HIDE DEF ch
  <2>2. QED BY <1>13, <1>14, <2>1 DEF low, high, mid
<1>16. QED BY <1>6, <1>8, <1>15 DEF RootAnswer

\* Twice the root, and one where it is inexact.
RootSum(num, q, t, P) == num = (2 * q + (IF t THEN 1 ELSE 0)) * P

\* The rational between q and q + 1 that stands for an inexact root.
LEMMA RoundedRoot ==
    ASSUME NEW f \in Formats, NEW q \in Nat, NEW t \in BOOLEAN, NEW R \in Nat, NEW T, NEW D, NEW k \in Nat, NEW P,
           NEW x \in Nat, NEW b, IsRoot(q, t, R, T, D, k, P, x, b, f), NEW r \in Modes, NEW pos \in BOOLEAN, ~pos,
           NEW num, RootSum(num, q, t, P)
    PROVE  /\ num \in Nat /\ Floors(q, t, num * pow2[3], 16 * pow2[k])
           /\ num >= pow2[f.mantissa_bits] * 16
           /\ Rounded(num, 16, pos, f, r) = RootAnswer(T, D, t, b, r)
<1> DEFINE h == IF t THEN 1 ELSE 0
           Q == 16 * P
           low == Ulps(f, b)
           high == Ulps(f, b + 1)
           M == pow2[f.mantissa_bits]
<1>1. /\ T \in Nat /\ D \in 0 .. 7 /\ q = 8 * T + D /\ P \in Nat \ {0} /\ b \in Nat /\ b + 1 < infinity(f)
      /\ infinity(f) \in Nat /\ b % 2 = T % 2
      /\ low = T * P /\ high = (T + 1) * P
  BY RootNeighbours
<1>2. /\ T = q \div 8 /\ D = q % 8 /\ P = pow2[k] /\ M <= T /\ M \in Nat
  BY Scales DEF IsRoot
<1>3. D = 4 => t
  <2>1. PICK z \in Nat : R = 32 * z
    BY DEF IsRoot
  <2>2. Roots(q, t, R)
    BY DEF IsRoot
  <2>3. QED BY <1>2, <2>1, <2>2, RootGuards
<1>4. h \in 0 .. 1 /\ (t <=> h = 1)
  OBVIOUS
<1> HIDE DEF h
<1>5. num = 2 * (q * P) + h * P /\ q * P \in Nat /\ h * P \in Nat /\ (q + 1) * P = q * P + P
  <2>1. (2 * q + h) * P = 2 * (q * P) + h * P /\ q * P \in Nat /\ h * P \in Nat /\ (q + 1) * P = q * P + P
    BY <1>1, <1>4, Z3
  <2>2. QED BY <2>1 DEF h, RootSum
<1>6. num \in Nat /\ Q \in Nat \ {0}
  BY <1>1, <1>5
<1>7. Floors(q, t, num * 8, Q)
  <2>1. q * (16 * P) = 16 * (q * P) /\ (q + 1) * (16 * P) = 16 * ((q + 1) * P)
    BY <1>1, Z3
  <2> DEFINE Y == q * P
  <2>2. q * Q = 16 * Y /\ (q + 1) * Q = 16 * Y + 16 * P /\ num = 2 * Y + h * P /\ Y \in Nat
    <3>1. q * P = Y /\ Q = 16 * P
      OBVIOUS
    <3> HIDE DEF Y, Q
    <3>2. QED BY <1>1, <1>5, <2>1, <3>1
  <2>3. (h = 1 => h * P = P) /\ (h = 0 => h * P = 0)
    BY <1>1
  <2> HIDE DEF Y, Q
  <2>4. CASE h = 1
    BY <1>1, <1>4, <2>2, <2>3, <2>4 DEF Floors
  <2>5. CASE h = 0
    BY <1>1, <1>4, <2>2, <2>3, <2>5 DEF Floors
  <2>6. QED BY <1>4, <2>4, <2>5
<1>8. Guards(T, D, t, num, Q)
  BY <1>2, <1>6, <1>7, FloorsGuards
<1>9. low * 16 = T * Q /\ high * 16 = (T + 1) * Q /\ (low + high) * 16 = (2 * T + 1) * Q /\ T * Q \in Nat
      /\ (2 * T + 1) * Q \in Nat
  <2>1. (T * P) * 16 = T * (16 * P) /\ ((T + 1) * P) * 16 = (T + 1) * (16 * P)
        /\ (T * P + (T + 1) * P) * 16 = (2 * T + 1) * (16 * P) /\ T * (16 * P) \in Nat
        /\ (2 * T + 1) * (16 * P) \in Nat
    BY <1>1, Z3
  <2>2. QED BY <1>1, <2>1
<1>10. PICK exact \in BOOLEAN : exact <=> (D = 0 /\ ~t)
  OBVIOUS
<1> DEFINE mid == (low + high) * 16
           up == Upward(num, mid, b, pos, r)
           c == IF ~exact /\ up THEN b + 1 ELSE b
<1>11. Between(num, 16, b, exact, f)
  <2>1. T * Q <= num /\ num < (T + 1) * Q /\ (num = T * Q <=> (D = 0 /\ ~t))
    BY <1>8 DEF Guards
  <2> HIDE DEF Q
  <2>2. QED BY <1>1, <1>9, <1>10, <2>1 DEF Between
<1>12. c \in Nat /\ Chosen(c, num, 16, b, exact, pos, f, r) /\ c # infinity(f)
  BY <1>1 DEF Chosen
<1>13. num >= M * 16
  <2>1. M * P <= T * P /\ T * P \in Int /\ M * P \in Int /\ M <= M * P
    <3>1. M * 1 <= M * P /\ M * 1 = M
      BY <1>1, <1>2, TimesMono
    <3>2. QED BY <1>1, <1>2, <3>1, TimesMono, TimesTyped
  <2>2. q * P = 8 * (T * P) + D * P /\ D * P \in Nat
    BY <1>1, Z3
  <2>3. QED BY <1>2, <1>5, <2>1, <2>2
<1>14. Rounded(num, 16, pos, f, r) = Raising(zero(f, pos) + c, Flagged(exact, c, num, 16, f))
  <2> DEFINE den == 16
  <2>1. /\ num \in Nat /\ den \in Nat \ {0} /\ b \in Nat /\ c \in Nat
        /\ Between(num, den, b, exact, f) /\ Chosen(c, num, den, b, exact, pos, f, r)
    BY <1>1, <1>6, <1>11, <1>12
  <2> HIDE DEF den, c
  <2>2. Rounded(num, den, pos, f, r) = Raising(zero(f, pos) + c, Flagged(exact, c, num, den, f))
    BY <2>1, RoundedIs
  <2>3. QED BY <2>2 DEF den
<1>15. zero(f, pos) + c = c
  BY <1>12 DEF zero
<1>16. Flagged(exact, c, num, 16, f) = IF exact THEN {} ELSE {"INEXACT"}
  <2>1. ~(num < pow2[f.mantissa_bits] * 16)
    BY <1>2, <1>6, <1>13
  <2> HIDE DEF c
  <2>2. QED BY <1>12, <2>1 DEF Flagged
<1>17. up <=> (r = "Plus" \/ (r \in {"Nearest", "NearestAway"} /\ (D > 4 \/ (D = 4 /\ t))))
  <2>1. (2 * num > mid <=> (D > 4 \/ (D = 4 /\ t))) /\ (2 * num = mid <=> (D = 4 /\ ~t)) /\ mid \in Nat
    BY <1>8, <1>9 DEF Guards
  <2>2. 2 * num # mid
    BY <1>3, <2>1
  <2> HIDE DEF mid
  <2>3. 2 * num >= mid <=> 2 * num > mid
    BY <1>6, <2>1, <2>2
  <2>4. QED BY <2>1, <2>2, <2>3 DEF Upward, Modes
<1>18. Rounded(num, 16, pos, f, r) = RootAnswer(T, D, t, b, r)
  <2> HIDE DEF up, mid
  <2>1. c = IF ~exact /\ up THEN b + 1 ELSE b
    OBVIOUS
  <2> HIDE DEF c
  <2>2. QED BY <1>10, <1>14, <1>15, <1>16, <1>17, <2>1 DEF RootAnswer, Exact, Raising
<1>19. pow2[3] = 8
  BY PowValues
<1>20. QED BY <1>2, <1>6, <1>7, <1>13, <1>18, <1>19 DEF M

\* The radicand, of twice the length of a significand.
LEMMA RadicandIs ==
    ASSUME NEW f \in Formats, NEW u \in UnpackedValues, NEW U, Carries(u, U, f), NEW H, H = pow2[scale(f)],
           NEW R, R = radicand(u, f)
    PROVE  /\ R \in Nat \ {0} /\ H * H <= R /\ R < (2 * H) * (2 * H) /\ R < pow2[2 * WORD + 1]
           /\ \E z \in Nat : R = 32 * z
<1> DEFINE S == u.significand
           p == pow2[u.exponent % 2]
           M == pow2[f.mantissa_bits]
           A == S * p
<1>1. S \in Nat \ {0} /\ u.exponent \in Int /\ H <= S /\ S < 2 * H /\ H \in Nat \ {0} /\ H = 8 * M /\ M \in Nat
  BY Normalised, Scales
<1>2. p = 1 \/ p = 2
  <2>1. u.exponent % 2 \in 0 .. 1
    BY <1>1
  <2>2. pow2[0] = 1 /\ pow2[1] = 2
    BY PowValues
  <2>3. QED BY <2>1, <2>2
<1>3. S % 8 = 0
  BY DEF Carries
<1>4. R = A * H
  BY DEF radicand
<1> HIDE DEF S, p, M
<1>5. A \in Nat /\ H <= A /\ A < 4 * H /\ A % 8 = 0
  <2>1. CASE p = 1
    BY <1>1, <1>3, <2>1
  <2>2. CASE p = 2
    BY <1>1, <1>3, <2>2
  <2>3. QED BY <1>2, <2>1, <2>2
<1> HIDE DEF A
<1>6. H * H <= A * H /\ A * H < (4 * H) * H /\ (4 * H) * H = (2 * H) * (2 * H) /\ H * H \in Int /\ H * H > 0
      /\ A * H \in Int /\ (4 * H) * H \in Int
  <2> DEFINE G == 4 * H
  <2>1. G \in Int /\ A < G
    BY <1>1, <1>5
  <2>2. G * H = (2 * H) * (2 * H)
    BY <1>1, Z3
  <2> HIDE DEF G
  <2>3. H * H <= A * H /\ A * H < G * H /\ H * H \in Int /\ H * H > 0 /\ A * H \in Int /\ G * H \in Int
    BY <1>1, <1>5, <2>1, TimesMono, TimesStrict, TimesTyped
  <2>4. QED BY <2>2, <2>3 DEF G
<1>7. R \in Nat \ {0} /\ H * H <= R /\ R < (2 * H) * (2 * H)
  BY <1>4, <1>6
<1>8. R < pow2[2 * WORD + 1]
  <2>1. pow2[2 * WORD + 1] \in Nat /\ (16 * M) * (16 * M) <= pow2[2 * WORD + 1]
    BY WordHolds DEF M
  <2>2. 16 * M = 2 * H
    BY <1>1
  <2>3. (2 * H) * (2 * H) <= pow2[2 * WORD + 1]
    BY <2>1, <2>2
  <2>4. (2 * H) * (2 * H) \in Int
    BY <1>6
  <2>5. QED BY <1>7, <2>1, <2>3, <2>4
<1>9. \E z \in Nat : R = 32 * z
  <2> DEFINE a == A \div 8
  <2>1. a \in Nat /\ A = 8 * a
    BY <1>5
  <2> HIDE DEF a
  <2> DEFINE y == a * M
  <2>2. (8 * a) * (8 * M) = 64 * y /\ y \in Nat
    BY <1>1, <2>1, Z3
  <2>3. R = 64 * y
    BY <1>1, <1>4, <2>1, <2>2
  <2> HIDE DEF y
  <2>4. 2 * y \in Nat /\ R = 32 * (2 * y)
    BY <2>2, <2>3
  <2>5. QED BY <2>4
<1>10. QED BY <1>7, <1>8, <1>9

\* Its root has the length of a significand.
LEMMA RootLength ==
    ASSUME NEW R \in Nat, NEW H \in Nat \ {0}, H * H <= R, R < (2 * H) * (2 * H), NEW q \in Nat,
           q * q <= R, R < (q + 1) * (q + 1)
    PROVE  H <= q /\ q < 2 * H
<1> DEFINE G == 2 * H
           j == q + 1
<1>1. G \in Nat /\ j \in Nat /\ R < G * G /\ R < j * j
  OBVIOUS
<1> HIDE DEF G, j
<1>2. H * H \in Nat /\ G * G \in Nat /\ j * j \in Nat /\ q * q \in Nat
  BY <1>1, SquareOrder
<1>3. H < j
  <2>1. SUFFICES ASSUME j <= H PROVE FALSE
    BY <1>1
  <2>2. j * j <= H * H
    BY <1>1, <2>1, SquareOrder
  <2>3. QED BY <1>1, <1>2, <2>2
<1>4. q < G
  <2>1. SUFFICES ASSUME G <= q PROVE FALSE
    BY <1>1
  <2>2. G * G <= q * q
    BY <1>1, <2>1, SquareOrder
  <2>3. QED BY <1>1, <1>2, <2>2
<1>5. QED BY <1>3, <1>4 DEF G, j

\* Exponents on both sides of the scaled radicand.
Balances(i, j, k, p, B, s) == (i + B) + 6 = (((p + s) + k) + k) + j

\* How the exponents of operand, unit and root are related.
RadicandExponents(i, j, k, B, s, me, e) == B = s - me - 3 /\ i - j = e - me - 3 /\ k = (e \div 2) - me

\* The powers of two with those exponents.
PowersBalance(i, j, k, p, B, s) ==
    pow2[i] * pow2[B] * 64 = (((pow2[p] * pow2[s]) * pow2[k]) * pow2[k]) * pow2[j]

\* They are equal.
LEMMA Balance ==
    ASSUME NEW i \in Int, NEW j \in Int, NEW k \in Int, NEW p \in Int, NEW B \in Int, NEW s \in Int, NEW me \in Int,
           NEW e \in Int, NEW g \in Int, B = s - me - 3, i = j + e - me - 3, e = 2 * g + p, k = g - me
    PROVE  Balances(i, j, k, p, B, s)
  BY DEF Balances

\* The powers of two they stand for.
LEMMA PowBalance ==
    ASSUME NEW i \in Nat, NEW j \in Nat, NEW k \in Nat, NEW p \in Nat, NEW B \in Nat, NEW s \in Nat,
           Balances(i, j, k, p, B, s)
    PROVE  pow2[i] * pow2[B] * 64 = (((pow2[p] * pow2[s]) * pow2[k]) * pow2[k]) * pow2[j]
<1>1. PICK a \in Nat : a = i + B
  OBVIOUS
<1>2. PICK b \in Nat : b = p + s
  OBVIOUS
<1>3. PICK c \in Nat : c = b + k
  BY <1>2
<1>4. PICK d \in Nat : d = c + k
  BY <1>3
<1>5. PICK w \in Nat : w = d + j
  BY <1>4
<1>6. w = a + 6
  BY <1>1, <1>2, <1>3, <1>4, <1>5 DEF Balances
<1>7. pow2[a] = pow2[i] * pow2[B]
  BY <1>1, PowAdd
<1>8. pow2[b] = pow2[p] * pow2[s]
  BY <1>2, PowAdd
<1>9. pow2[c] = pow2[b] * pow2[k]
  BY <1>3, PowAdd
<1>10. pow2[d] = pow2[c] * pow2[k]
  BY <1>4, PowAdd
<1>11. pow2[w] = pow2[d] * pow2[j]
  BY <1>5, PowAdd
<1>12. pow2[w] = pow2[a] * 64
  <2>1. PICK t \in Nat : t = 3
    OBVIOUS
  <2>2. PICK h \in Nat : h = t + t
    OBVIOUS
  <2>3. pow2[h] = pow2[t] * pow2[t]
    BY <2>2, PowAdd
  <2>4. pow2[t] = 8
    BY <2>1, PowValues
  <2>5. pow2[h] = 64
    BY <2>3, <2>4
  <2>6. w = a + h
    BY <1>6, <2>1, <2>2
  <2>7. pow2[w] = pow2[a] * pow2[h]
    BY <2>6, PowAdd
  <2>8. QED BY <2>5, <2>7
<1>13. QED BY <1>7, <1>8, <1>9, <1>10, <1>11, <1>12

\* The powers of two that scale the radicand.
LEMMA RadicandPowers ==
    ASSUME NEW i \in Nat, NEW j \in Nat, NEW k \in Nat, NEW B \in Nat, NEW s \in Nat, NEW me \in Int, NEW e \in Int,
           RadicandExponents(i, j, k, B, s, me, e)
    PROVE  PowersBalance(i, j, k, e % 2, B, s)
<1>1. PICK p \in Nat : p = e % 2
  OBVIOUS
<1>2. PICK g \in Int : g = e \div 2
  OBVIOUS
<1>3. e = 2 * g + p
  BY <1>1, <1>2
<1>4. k = g - me
  BY <1>2 DEF RadicandExponents
<1>5. i = j + e - me - 3 /\ B = s - me - 3
  BY DEF RadicandExponents
<1>6. Balances(i, j, k, p, B, s)
  BY <1>3, <1>4, <1>5, Balance
<1>7. pow2[i] * pow2[B] * 64 = (((pow2[p] * pow2[s]) * pow2[k]) * pow2[k]) * pow2[j]
  BY <1>6, PowBalance, SMTT(30)
<1>8. QED BY <1>1, <1>7 DEF PowersBalance

\* The radicand is the square of the root in squared units of the result.
LEMMA RadicandScales ==
    ASSUME NEW f \in Formats, NEW u \in UnpackedValues, NEW U \in Nat, Carries(u, U, f), NEW R, R = radicand(u, f),
           NEW k \in Nat, k = (u.exponent \div 2) - min_exponent(f), NEW x, x = U * pow2[UnitBits(f)],
           NEW P, P = pow2[k]
    PROVE  x \in Nat /\ x * 64 = R * (P * P)
<1> DEFINE S == u.significand
           e == u.exponent
           p == e % 2
           B == UnitBits(f)
           s == scale(f)
           D == pow2[B]
           H == pow2[s]
           J == pow2[p]
           me == min_exponent(f)
<1>1. PICK i, j \in Nat : Weighs(S, e, U, i, j, f)
  BY CarriesWeighs
<1>2. /\ S \in Nat /\ e \in Int /\ p \in Nat /\ e = 2 * (e \div 2) + p /\ B \in Nat /\ s \in Nat
      /\ B = s - me - 3 /\ me \in Int /\ e \div 2 \in Int
  <2>1. S \in Nat /\ e \in Int
    BY DEF UnpackedValues
  <2> HIDE DEF S, e, B
  <2>2. p \in Nat /\ e = 2 * (e \div 2) + p /\ e \div 2 \in Int
    BY <2>1
  <2>3. QED BY <2>1, <2>2, UnitBitsIs, Scales, MinExponentIs DEF B
<1>3. /\ pow2[i] \in Nat \ {0} /\ pow2[j] \in Nat \ {0} /\ D \in Nat \ {0} /\ H \in Nat \ {0} /\ J \in Nat \ {0}
      /\ P \in Nat \ {0} /\ S * pow2[i] = U * pow2[j] /\ i - j = e - me - 3
  <2> HIDE DEF B, s, p
  <2>1. QED BY <1>1, <1>2, PowSucc DEF Weighs
<1>4. R = (S * J) * H /\ x = U * D
  BY DEF radicand
<1> HIDE DEF S, e, p, B, s, me
<1>6. pow2[i] * D * 64 = (((J * H) * P) * P) * pow2[j]
  <2>1. i - j = e - me - 3 /\ k = (e \div 2) - me
    BY <1>3 DEF e, me
  <2>2. i \in Nat /\ j \in Nat /\ k \in Nat /\ B \in Nat /\ s \in Nat /\ me \in Int /\ e \in Int
        /\ RadicandExponents(i, j, k, B, s, me, e)
    BY <1>2, <2>1 DEF RadicandExponents
  <2>3. PowersBalance(i, j, k, e % 2, B, s)
    BY <2>2, RadicandPowers
  <2>4. QED BY <2>3 DEF p, PowersBalance
<1> DEFINE pi == pow2[i]
           pj == pow2[j]
<1>7. pi \in Nat \ {0} /\ pj \in Nat \ {0} /\ S * pi = U * pj /\ (pi * D) * 64 = (((J * H) * P) * P) * pj
  BY <1>3, <1>6
<1> HIDE DEF pi, pj, D, H, J
<1>8. \A m, n, o \in Nat : (m * n) * o = m * (n * o) /\ m * n = n * m /\ m * n \in Nat
  BY Z3
<1>9. x \in Nat /\ R \in Nat /\ P * P \in Nat
  BY <1>2, <1>3, <1>4, <1>8
<1>10. (x * 64) * pj = (R * (P * P)) * pj
  <2> DEFINE V == (J * H) * P
             L == 64
  <2>1. V \in Nat /\ V * P \in Nat /\ J * H \in Nat /\ L \in Nat /\ pi * D \in Nat /\ (pi * D) * L = (V * P) * pj
    BY <1>3, <1>7, <1>8
  <2>2. (x * L) * pj = (U * D) * (pj * L) /\ (U * D) * (pj * L) = (U * pj) * (D * L)
    <3>1. (x * L) * pj = x * (L * pj) /\ L * pj = pj * L
      BY <1>7, <1>8, <1>9, <2>1
    <3>2. (U * D) * (pj * L) = (U * pj) * (D * L)
      BY <1>3, <1>7, <2>1, FourFactors
    <3>3. QED BY <1>4, <3>1, <3>2
  <2>3. (S * pi) * (D * L) = S * ((pi * D) * L)
    <3>1. D * L \in Nat /\ (S * pi) * (D * L) = S * (pi * (D * L)) /\ pi * (D * L) = (pi * D) * L
      BY <1>2, <1>3, <1>7, <1>8, <2>1
    <3>2. QED BY <3>1
  <2>4. S * ((V * P) * pj) = (S * (V * P)) * pj
    BY <1>2, <1>7, <1>8, <2>1
  <2>5. S * (V * P) = R * (P * P)
    <3>1. V * P = (J * H) * (P * P)
      BY <1>3, <1>8, <2>1
    <3>2. S * ((J * H) * (P * P)) = (S * (J * H)) * (P * P)
      BY <1>2, <1>8, <1>9, <2>1
    <3>3. S * (J * H) = (S * J) * H
      BY <1>2, <1>3, <1>8
    <3> HIDE DEF V
    <3>4. QED BY <1>4, <3>1, <3>2, <3>3
  <2> HIDE DEF V
  <2>6. (x * L) * pj = (R * (P * P)) * pj
    BY <1>7, <2>1, <2>2, <2>3, <2>4, <2>5
  <2>7. QED BY <2>6
<1>11. x * 64 = R * (P * P)
  <2> DEFINE a == x * 64
             b == R * (P * P)
  <2>1. a \in Nat /\ b \in Nat /\ a * pj = b * pj
    BY <1>8, <1>9, <1>10
  <2> HIDE DEF a, b
  <2>2. (a < b => a * pj < b * pj) /\ (b < a => b * pj < a * pj)
    BY <1>7, <2>1, TimesStrict
  <2>3. a * pj \in Int
    BY <1>7, <2>1, TimesTyped
  <2>4. a = b
    BY <2>1, <2>2, <2>3
  <2>5. QED BY <2>4 DEF a, b
<1>12. QED BY <1>9, <1>11

\* A finite operand's exponent is between that of the smallest subnormal and
\* the bias.
LEMMA FiniteExponent ==
    ASSUME NEW f \in Formats, NEW x \in Patterns(f), IsFinite(f, x), ~is_zero(f, x)
    PROVE  LET e == unpack(x, f).exponent
           IN  e \in Int /\ min_exponent(f) - f.mantissa_bits <= e /\ e <= exponent_bias(f)
<1> DEFINE u == unpack(x, f)
           e == u.exponent
           me == min_exponent(f)
           B == exponent_bias(f)
           m == f.mantissa_bits
           w == raw_exponent(f, x)
           y == mantissa(f, x)
           n == is_negative(f, x)
<1>1. u \in UnpackedValues /\ Carries(u, Ulps(f, x), f)
  BY UnpackFits
<1>2. me \in Int /\ B \in Nat /\ me = 1 - B /\ max_exponent(f) = 2 * B + 1 /\ m \in Nat /\ B >= 1
  BY FormatSizes, Scales DEF Sizes, min_exponent
<1>3. e \in Int /\ e - me >= -m
  BY <1>1 DEF UnpackedValues, Carries
<1>4. w \in 0 .. max_exponent(f) /\ w # max_exponent(f)
  BY PatternOfFields DEF IsFinite
<1>5. w # 0 => e = w - B
  BY DEF unpack, Unpacked
<1>6. w = 0 => e <= me
  <2>1. SUFFICES ASSUME w = 0 PROVE e <= me
    OBVIOUS
  <2>2. y # 0 /\ y \in 0 .. pow2[m] - 1 /\ pow2[m] \in Nat
    BY <2>1, IsZeroIs, PatternOfFields, Scales
  <2>3. y \in Nat \ {0} /\ y < pow2[m]
    BY <2>2
  <2>4. e = me - (m - leading(y))
    BY <2>1, <2>2 DEF unpack, Unpacked
  <2>5. leading(y) \in Nat /\ leading(y) <= m
    <3> HIDE DEF y
    <3>1. m + 5 <= WORD /\ WORD \in Nat
      BY FormatAssumption
    <3> HIDE DEF m
    <3>2. pow2[m] <= pow2[2 * WORD + 1] /\ pow2[2 * WORD + 1] \in Nat /\ 2 * WORD + 1 \in Nat
      BY <1>2, <3>1, PowMono, PowSucc
    <3>3. y < pow2[2 * WORD + 1]
      BY <2>2, <2>3, <3>2
    <3>4. leading(y) \in 0 .. 2 * WORD /\ pow2[leading(y)] <= y
      BY <2>3, <3>3, LeadingIs
    <3> DEFINE l == leading(y)
    <3>5. l \in Nat
      BY <3>1, <3>4
    <3> HIDE DEF l
    <3>6. m < l => pow2[m] <= pow2[l] /\ pow2[l] \in Nat
      BY <1>2, <3>5, PowMono, PowSucc
    <3>7. pow2[l] \in Nat /\ pow2[l] <= y
      BY <3>4, <3>5, PowSucc DEF l
    <3>8. QED BY <1>2, <2>2, <2>3, <3>5, <3>6, <3>7 DEF l
  <2> HIDE DEF me, m, e, y
  <2>6. QED BY <1>2, <2>4, <2>5
<1> HIDE DEF u, e, me, B, m, w
<1>7. e <= B
  BY <1>2, <1>3, <1>4, <1>5, <1>6
<1>8. QED BY <1>2, <1>3, <1>7 DEF u, e, me, B, m

\* A root is neither subnormal nor near overflow, where the bias exceeds the
\* width of the mantissa.
LEMMA RootExponent ==
    ASSUME NEW f \in Formats, NEW x \in Patterns(f), IsFinite(f, x), ~is_zero(f, x), exponent_bias(f) > f.mantissa_bits,
           NEW k, k = (unpack(x, f).exponent \div 2) - min_exponent(f)
    PROVE  k \in Nat /\ k + 2 < max_exponent(f)
<1> DEFINE e == unpack(x, f).exponent
           me == min_exponent(f)
           B == exponent_bias(f)
           m == f.mantissa_bits
           g == e \div 2
<1>1. e \in Int /\ me - m <= e /\ e <= B
  BY FiniteExponent
<1>2. me \in Int /\ B \in Nat /\ me = 1 - B /\ max_exponent(f) = 2 * B + 1 /\ m \in Nat /\ B > m
  BY FormatSizes, Scales DEF Sizes, min_exponent
<1>3. k = g - me
  OBVIOUS
<1> HIDE DEF e, me, B, m
<1>4. g \in Int /\ 2 * g <= e /\ e <= 2 * g + 1
  BY <1>1
<1> HIDE DEF g
<1>5. k \in Int
  BY <1>2, <1>3, <1>4
<1>6. 2 * g + 1 >= 2 * me
  BY <1>1, <1>2, <1>4
<1>7. g >= me
  BY <1>2, <1>4, <1>6
<1>8. g <= B
  BY <1>1, <1>2, <1>4
<1>9. k >= 0 /\ k + 2 < max_exponent(f)
  BY <1>1, <1>2, <1>3, <1>4, <1>7, <1>8
<1>10. QED BY <1>5, <1>9

\* What the root of a finite operand is to the format.
LEMMA RootOfOperand ==
    ASSUME NEW f \in Formats, NEW u \in UnpackedValues, NEW U \in Nat, Carries(u, U, f), NEW R, R = radicand(u, f),
           NEW k \in Nat, k = (u.exponent \div 2) - min_exponent(f), k + 2 < max_exponent(f),
           NEW q, q = isqrt(R), NEW t \in BOOLEAN, t <=> q * q # R, NEW x, x = U * pow2[UnitBits(f)]
    PROVE  /\ q \in Nat /\ R \in Nat /\ x \in Nat /\ pow2[scale(f)] <= q /\ q < 2 * pow2[scale(f)]
           /\ IsRoot(q, t, R, q \div 8, q % 8, k, pow2[k], x, k * pow2[f.mantissa_bits] + (q \div 8), f)
<1> DEFINE H == pow2[scale(f)]
           M == pow2[f.mantissa_bits]
           P == pow2[k]
<1>1. H \in Nat \ {0} /\ H = 8 * M /\ M \in Nat \ {0}
  BY Normalised, Scales
<1> HIDE DEF H
<1>2. /\ R \in Nat \ {0} /\ H * H <= R /\ R < (2 * H) * (2 * H) /\ R < pow2[2 * WORD + 1]
      /\ \E z \in Nat : R = 32 * z
  BY RadicandIs DEF H
<1>3. q \in Nat /\ q * q <= R /\ R < (q + 1) * (q + 1)
  BY <1>2, RootIsFloor
<1>4. H <= q /\ q < 2 * H
  BY <1>1, <1>2, <1>3, RootLength
<1>5. P = pow2[k]
  OBVIOUS
<1> HIDE DEF P, M
<1>6. x \in Nat /\ x * 64 = R * (P * P)
  BY <1>5, RadicandScales
<1>7. Roots(q, t, R)
  BY <1>3 DEF Roots
<1>8. M <= q \div 8 /\ q \div 8 < 2 * M
  BY <1>1, <1>3, <1>4
<1>9. QED BY <1>2, <1>3, <1>4, <1>5, <1>6, <1>7, <1>8 DEF IsRoot, H, P, M

\* square_root is correctly rounded, where the bias exceeds the width of the
\* mantissa.
LEMMA RootPacked ==
    ASSUME NEW f \in Formats, NEW u \in UnpackedValues, NEW U \in Nat, Carries(u, U, f),
           NEW k \in Nat, k = (u.exponent \div 2) - min_exponent(f), k + 2 < max_exponent(f),
           NEW q, q = isqrt(radicand(u, f)), NEW t \in BOOLEAN, t <=> q * q # radicand(u, f),
           NEW bits, U = Ulps(f, bits), NEW no \in BOOLEAN, ~no, NEW r \in Modes, NEW c, ~is_flushing(f, c)
    PROVE  round_and_pack(Unpacked(no, u.exponent \div 2, q), t, f, r, c) = IeeeSqrt(bits, f, r)
<1> DEFINE R == radicand(u, f)
           x == U * pow2[UnitBits(f)]
           T == q \div 8
           D == q % 8
           b == k * pow2[f.mantissa_bits] + T
           P == pow2[k]
           num == (2 * q + (IF t THEN 1 ELSE 0)) * P
           den == 16
           H == pow2[scale(f)]
           g == u.exponent \div 2
<1>1. /\ q \in Nat /\ R \in Nat /\ x \in Nat /\ H <= q /\ q < 2 * H /\ IsRoot(q, t, R, T, D, k, P, x, b, f)
  BY RootOfOperand
<1>2. x = Ulps(f, bits) * pow2[UnitBits(f)]
  OBVIOUS
<1>2a. RootSum(num, q, t, P) /\ den \in Nat \ {0} /\ den = 16
  BY DEF RootSum
<1>3. g \in Int /\ g - min_exponent(f) = k /\ min_exponent(f) \in Int
  <2>1. u.exponent \in Int
    BY DEF UnpackedValues
  <2>2. QED BY <2>1, MinExponentIs
<1>4. H \in Nat \ {0} /\ 4 * H <= pow2[WORD] /\ pow2[WORD] \in Nat
  BY Normalised
<1> HIDE DEF R, x, T, D, b, P, num, den, H, g
<1>5. IeeeSqrt(bits, f, r) = RootAnswer(T, D, t, b, r)
  BY <1>1, <1>2, IeeeRootIs
<1>6. /\ num \in Nat /\ Floors(q, t, num * pow2[3], 16 * pow2[k])
      /\ num >= pow2[f.mantissa_bits] * 16
      /\ Rounded(num, 16, no, f, r) = RootAnswer(T, D, t, b, r)
  BY <1>1, <1>2a, RoundedRoot
<1>7. Stands(q, t, g, num, den, f)
  <2>1. 3 \in Nat /\ k - 3 = g - min_exponent(f) - 3
    BY <1>3
  <2>2. Floors(q, t, num * pow2[3], den * pow2[k])
    BY <1>2a, <1>6
  <2>3. QED BY <2>1, <2>2 DEF Stands
<1>8. Ready(q, t, g, num, den, f)
  <2>1. q # 0 /\ q < pow2[WORD] /\ pow2[scale(f)] <= 2 * q
    BY <1>1, <1>4 DEF H
  <2>2. QED BY <1>7, <2>1 DEF Ready
<1> DEFINE v == Unpacked(no, g, q)
<1>9. v \in UnpackedValues /\ v.significand = q /\ v.exponent = g /\ v.is_negative = no
  BY <1>1, <1>3, UnpackedIs
<1> HIDE DEF v
<1>10. Ready(v.significand, t, v.exponent, num, den, f)
  BY <1>8, <1>9
<1>11. RoundedOrHalved(round_and_pack(v, t, f, r, c), Rounded(num, den, v.is_negative, f, r), num, den, f)
  BY <1>2a, <1>6, <1>9, <1>10, RoundAndPackRounds
<1>12. ~(num < pow2[f.mantissa_bits] * den)
  <2> DEFINE Z == pow2[f.mantissa_bits] * den
  <2>1. Z \in Int /\ num >= Z
    <3>1. pow2[f.mantissa_bits] \in Nat
      BY Scales
    <3>2. QED BY <1>2a, <1>6, <3>1
  <2> HIDE DEF Z
  <2>2. ~(num < Z)
    BY <1>6, <2>1
  <2>3. QED BY <2>2 DEF Z
<1>13. round_and_pack(v, t, f, r, c) = Rounded(num, den, no, f, r)
  BY <1>9, <1>11, <1>12 DEF RoundedOrHalved
<1>14. QED BY <1>2a, <1>5, <1>6, <1>13 DEF v, g

\* FSQRT of a positive finite operand.
LEMMA RootRounds ==
    ASSUME NEW f \in Formats, NEW x \in Patterns(f), IsFinite(f, x), ~is_zero(f, x), ~is_negative(f, x),
           exponent_bias(f) > f.mantissa_bits, NEW r \in Modes, NEW c, ~is_flushing(f, c)
    PROVE  square_root(x, f, r, c) = IeeeSqrt(x, f, r)
<1> DEFINE u == unpack(x, f)
           U == Ulps(f, x)
           R == radicand(u, f)
           q == isqrt(R)
           k == (u.exponent \div 2) - min_exponent(f)
<1>1. /\ ~is_nan(f, x) /\ ~is_infinite(f, x) /\ U \in Nat /\ u \in UnpackedValues /\ Carries(u, U, f)
  BY FiniteOperand DEF Measures
<1>2. k \in Nat /\ k + 2 < max_exponent(f)
  BY RootExponent
<1>3. PICK t \in BOOLEAN : t = (q * q # R)
  OBVIOUS
<1>4. PICK no \in BOOLEAN : no = FALSE
  OBVIOUS
<1> DEFINE p == round_and_pack(Unpacked(no, u.exponent \div 2, q), t, f, r, c)
<1>5. p = IeeeSqrt(x, f, r)
  <2>1. q = isqrt(radicand(u, f)) /\ (t <=> q * q # radicand(u, f)) /\ U = Ulps(f, x) /\ ~no
        /\ k = (u.exponent \div 2) - min_exponent(f)
    BY <1>3, <1>4
  <2> HIDE DEF u, U, q, k
  <2>2. QED BY <1>1, <1>2, <2>1, RootPacked
<1>6. flushed(x, f, c).bits = x /\ flushed(x, f, c).raised = {}
  BY UnflushedIs
<1>7. square_root(x, f, r, c) = with_flags(p, {})
  <2>1. PICK z : z = flushed(x, f, c)
    OBVIOUS
  <2>2. z.bits = x /\ z.raised = {}
    BY <1>6, <2>1
  <2>3. square_root(x, f, r, c) = with_flags(IF is_nan(f, z.bits) THEN propagate(<<z.bits>>, f, c)
                   ELSE IF is_zero(f, z.bits) THEN Exact(z.bits)
                   ELSE IF is_negative(f, z.bits) THEN invalid_operation(f)
                   ELSE IF is_infinite(f, z.bits) THEN Exact(z.bits)
                   ELSE round_and_pack(Unpacked(FALSE, unpack(z.bits, f).exponent \div 2, isqrt(radicand(unpack(z.bits, f), f))),
                                       isqrt(radicand(unpack(z.bits, f), f)) * isqrt(radicand(unpack(z.bits, f), f)) # radicand(unpack(z.bits, f), f), f, r, c), z.raised)
    BY <2>1 DEF square_root
  <2>4. QED BY <1>1, <1>3, <1>4, <2>2, <2>3
<1>8. PICK B, Q : IeeeSqrt(x, f, r) = Raising(B, Q)
  BY DEF IeeeSqrt, Exact, Raising
<1>9. with_flags(Raising(B, Q), {} \cup {}) = Raising(B, Q) /\ {} \cup {} = {}
  BY NoFlags
<1> HIDE DEF p
<1>10. QED BY <1>5, <1>7, <1>8, <1>9

\* multiply, divide and square_root are correctly rounded on the operands of
\* the sweep.
LEMMA ScalingRoundedNow == SweepType => ScalingIsCorrectlyRounded
<1> DEFINE U(z) == Ulps(Single, z)
           D == pow2[UnitBits(Single)]
<1>1. SUFFICES ASSUME SweepType, NEW r \in Modes
               PROVE  /\ BothFinite =>
                            RoundedOrHalved(multiply(lhs, rhs, Single, r, Ieee754), IeeeMul(lhs, rhs, Single, r),
                                            U(lhs) * U(rhs), D, Single)
                      /\ BothFinite /\ ~is_zero(Single, rhs) =>
                            RoundedOrHalved(divide(lhs, rhs, Single, r, Ieee754), IeeeDiv(lhs, rhs, Single, r),
                                            U(lhs) * D, U(rhs), Single)
                      /\ IsFinite(Single, lhs) /\ ~is_negative(Single, lhs) /\ ~is_zero(Single, lhs) =>
                            square_root(lhs, Single, r, Ieee754) = IeeeSqrt(lhs, Single, r)
  BY DEF ScalingIsCorrectlyRounded
<1>2. /\ lhs \in Patterns(Single) /\ rhs \in Patterns(Single) /\ Single \in Formats
      /\ ~is_flushing(Single, Ieee754)
  BY <1>1, Unflushing DEF SweepType, Formats
<1>3. /\ flushed(lhs, Single, Ieee754).bits = lhs /\ flushed(lhs, Single, Ieee754).raised = {}
      /\ flushed(rhs, Single, Ieee754).bits = rhs /\ flushed(rhs, Single, Ieee754).raised = {}
  BY <1>2, UnflushedIs
<1>4. \A p \in Results(Single) : with_flags(p, {} \cup {}) = p
  <2>1. SUFFICES ASSUME NEW p \in Results(Single) PROVE with_flags(p, {} \cup {}) = p
    OBVIOUS
  <2>2. p.raised \cup ({} \cup {}) = p.raised /\ p = Raising(p.bits, p.raised)
    BY DEF Results, Raising
  <2>3. with_flags(Raising(p.bits, p.raised), {} \cup {}) = Raising(p.bits, p.raised)
    BY NoFlags
  <2>4. QED BY <2>2, <2>3
<1>5. ASSUME BothFinite
      PROVE  RoundedOrHalved(multiply(lhs, rhs, Single, r, Ieee754), IeeeMul(lhs, rhs, Single, r),
                             U(lhs) * U(rhs), D, Single)
  <2> DEFINE p == multiplied(lhs, rhs, Single, r, Ieee754)
  <2>1. RoundedOrHalved(p, IeeeMul(lhs, rhs, Single, r), U(lhs) * U(rhs), D, Single)
    BY <1>2, <1>5, MultipliedRounds DEF BothFinite
  <2>2. p \in Results(Single)
    <3>1. PICK invalid \in BOOLEAN : invalid = ((is_infinite(Single, lhs) /\ is_zero(Single, rhs))
                                                \/ (is_zero(Single, lhs) /\ is_infinite(Single, rhs)))
      OBVIOUS
    <3>2. Accounted(p, lhs, rhs, invalid, Single, Ieee754)
      BY <1>2, <3>1, MultipliedAccounted
    <3> HIDE DEF p
    <3>3. QED BY <3>2, AccountedResult
  <2>3. multiply(lhs, rhs, Single, r, Ieee754) = with_flags(p, {} \cup {})
    BY <1>3 DEF multiply, multiplied
  <2> HIDE DEF p
  <2>4. QED BY <1>4, <2>1, <2>2, <2>3
<1>6. ASSUME BothFinite, ~is_zero(Single, rhs)
      PROVE  RoundedOrHalved(divide(lhs, rhs, Single, r, Ieee754), IeeeDiv(lhs, rhs, Single, r),
                             U(lhs) * D, U(rhs), Single)
  <2> DEFINE p == divided(lhs, rhs, Single, r, Ieee754)
  <2>1. RoundedOrHalved(p, IeeeDiv(lhs, rhs, Single, r), U(lhs) * D, U(rhs), Single)
    BY <1>2, <1>6, DividedRounds DEF BothFinite
  <2>2. p \in Results(Single)
    <3>1. PICK invalid \in BOOLEAN : invalid = ((is_infinite(Single, lhs) /\ is_infinite(Single, rhs))
                                                \/ (is_zero(Single, lhs) /\ is_zero(Single, rhs)))
      OBVIOUS
    <3>2. Accounted(p, lhs, rhs, invalid, Single, Ieee754)
      BY <1>2, <3>1, DividedAccounted
    <3> HIDE DEF p
    <3>3. QED BY <3>2, AccountedResult
  <2>3. divide(lhs, rhs, Single, r, Ieee754) = with_flags(p, {} \cup {})
    BY <1>3 DEF divide, divided
  <2> HIDE DEF p
  <2>4. QED BY <1>4, <2>1, <2>2, <2>3
<1>7. ASSUME IsFinite(Single, lhs), ~is_negative(Single, lhs), ~is_zero(Single, lhs)
      PROVE  square_root(lhs, Single, r, Ieee754) = IeeeSqrt(lhs, Single, r)
  BY <1>2, <1>7, RootAssumption, RootRounds
<1>8. QED BY <1>5, <1>6, <1>7

\* FMUL, FDIV by a non-zero and FSQRT are correctly rounded, but for the halved
\* carry below the normal range, whatever the widths.
THEOREM ScalingAlwaysCorrectlyRounded == Spec => []ScalingIsCorrectlyRounded
  BY SweepTyped, ScalingRoundedNow, PTL

\* The u128 holds a significand at twice the scale, with four bits to spare.
LEMMA WideSizes ==
    ASSUME NEW f \in Formats, NEW h, h = scale(f), NEW g, g = 2 * h, NEW w, w = 2 * WORD
    PROVE  /\ h \in Nat /\ g \in Nat /\ w \in Nat /\ h < w /\ g + 4 <= w
           /\ pow2[h] \in Nat \ {0} /\ pow2[g] \in Nat \ {0} /\ pow2[g] = pow2[h] * pow2[h]
           /\ pow2[w] \in Nat /\ 16 * pow2[g] <= pow2[w]
           /\ pow2[WORD] \in Nat /\ 2 * pow2[h] <= pow2[WORD] /\ min_exponent(f) \in Int
<1>1. scale(f) \in Nat /\ WORD \in Nat /\ scale(f) + 2 <= WORD
  BY Scales
<1>2. h \in Nat /\ g \in Nat /\ w \in Nat /\ h < w /\ g + 4 <= w /\ g = h + h
  BY <1>1
<1>3. pow2[g] = pow2[h] * pow2[h] /\ pow2[h] \in Nat \ {0} /\ pow2[g] \in Nat \ {0}
  BY <1>2, PowSplit
<1>4. 2 * pow2[h] <= pow2[WORD] /\ pow2[WORD] \in Nat
  BY <1>1, PowMono, PowSucc
<1>5. 16 * pow2[g] <= pow2[w] /\ pow2[w] \in Nat
  <2> DEFINE k == g + 4
             four == 4
  <2>1. k \in Nat /\ k <= w /\ four \in Nat /\ k = g + four
    BY <1>2
  <2> HIDE DEF k, four
  <2>2. pow2[k] = pow2[g] * pow2[four] /\ pow2[k] \in Nat
    BY <1>2, <2>1, PowSplit
  <2>3. pow2[four] = 16
    BY PowValues DEF four
  <2>4. pow2[k] <= pow2[w] /\ pow2[w] \in Nat
    BY <1>2, <2>1, PowMono, PowSucc
  <2>5. QED BY <1>3, <2>2, <2>3, <2>4
<1>6. QED BY <1>1, <1>2, <1>3, <1>4, <1>5, MinExponentIs

\* Shifting by the width of the word or more loses all of it, as division does.
LEMMA WideAlignment ==
    ASSUME NEW B \in Nat, NEW w \in Nat, B < pow2[w], NEW d \in Nat, NEW s, s = shift_right(B, d, w)
    PROVE  s.kept \in Nat /\ s.kept <= B /\ Aligns(s.lost, s.kept, B, d)
<1>1. /\ s.kept \in Nat /\ s.kept <= B /\ s.lost \in BOOLEAN
      /\ d < w => s.kept = B \div pow2[d] /\ s.lost = (B % pow2[d] # 0)
      /\ ~(d < w) => s.kept = 0 /\ s.lost = (B # 0)
  BY ShiftRightIs
<1>2. CASE d < w
  BY <1>1, <1>2 DEF Aligns
<1>3. CASE ~(d < w)
  <2> DEFINE p == pow2[d]
             none == 0
  <2>1. p \in Nat \ {0} /\ B < p
    BY <1>3, PowMono, PowSucc
  <2> HIDE DEF p
  <2>2. (p * none + B) \div p = none /\ (p * none + B) % p = B
    <3>1. none \in Int /\ B \in 0 .. p - 1
      BY <2>1
    <3> HIDE DEF none
    <3>2. QED BY <2>1, <3>1, DivUnique
  <2>3. p * none + B = B
    BY <2>1
  <2>4. B \div p = 0 /\ B % p = B
    BY <2>2, <2>3
  <2>5. QED BY <1>1, <1>3, <2>4 DEF Aligns, p
<1>4. QED BY <1>2, <1>3

\* F, with u for what is lost, is S with its leading bit brought to the place of G.
InPlace(F, u, G, x, num, den, f) ==
    F \in Nat /\ u \in BOOLEAN /\ G <= F /\ F < 2 * G /\ Stands(F, u, x, num, den, f)

\* The right shift of round_wide.
LEMMA PlacedDown ==
    ASSUME NEW f \in Formats, NEW S \in Nat, NEW t \in BOOLEAN, NEW x \in Int, NEW num \in Nat, NEW den \in Nat \ {0},
           Stands(S, t, x, num, den, f), NEW g \in Nat, NEW up \in Nat, NEW k, k = g + up,
           pow2[k] <= S, S < 2 * pow2[k], NEW w \in Nat, up < w, NEW s, s = shift_right(S, up, w),
           NEW u \in BOOLEAN, u <=> (t \/ s.lost)
    PROVE  InPlace(s.kept, u, pow2[g], x + up, num, den, f)
<1> DEFINE p == pow2[up]
           G == pow2[g]
<1>1. pow2[k] = G * p /\ G \in Nat \ {0} /\ p \in Nat \ {0}
  BY PowSplit
<1>2. s.kept = S \div p /\ (s.lost <=> S % p # 0)
  <2>1. /\ s.kept \in Nat /\ s.kept <= S /\ s.lost \in BOOLEAN
        /\ up < w => s.kept = S \div pow2[up] /\ s.lost = (S % pow2[up] # 0)
        /\ ~(up < w) => s.kept = 0 /\ s.lost = (S # 0)
    BY ShiftRightIs, SMTT(30)
  <2>2. QED BY <2>1
<1>3. min_exponent(f) \in Int /\ (u <=> (t \/ S % p # 0))
  BY <1>2, MinExponentIs
<1>4. S \div p \in Nat /\ Stands(S \div p, u, x + up, num, den, f)
  BY <1>3, StandsShift
<1>5. G <= S \div p /\ S \div p < 2 * G
  <2> DEFINE hi == 2 * G
  <2>1. hi \in Nat /\ p * G <= S /\ S < p * hi
    <3> HIDE DEF p, G
    <3>1. G * p = p * G /\ p * (2 * G) = 2 * (G * p)
      BY <1>1, Z3
    <3>2. QED BY <1>1, <3>1
  <2> HIDE DEF hi, p, G
  <2>2. G <= S \div p /\ S \div p < hi
    BY <1>1, <2>1, DivBetween
  <2>3. QED BY <2>2 DEF hi
<1>6. QED BY <1>2, <1>4, <1>5 DEF InPlace

\* Its left shift, which is exact: a significand that lost bits does not need one.
LEMMA PlacedUp ==
    ASSUME NEW f \in Formats, NEW S \in Nat, NEW t \in BOOLEAN, NEW x \in Int, NEW num \in Nat, NEW den \in Nat \ {0},
           Stands(S, t, x, num, den, f), NEW g \in Nat, NEW up \in Nat, NEW k \in Nat, g = k + up,
           pow2[k] <= S, S < 2 * pow2[k], t => up = 0
    PROVE  InPlace(S * pow2[up], t, pow2[g], x - up, num, den, f)
<1> DEFINE p == pow2[up]
           L == pow2[k]
<1>1. pow2[g] = L * p /\ L \in Nat \ {0} /\ p \in Nat \ {0} /\ min_exponent(f) \in Int
  BY PowSplit, MinExponentIs
<1>2. S * p \in Nat /\ Stands(S * p, t, x - up, num, den, f)
  <2>1. CASE t
    <3>1. p = 1 /\ x - up = x
      BY <2>1, PowValues
    <3>2. S * p = S
      BY <3>1
    <3>3. QED BY <3>1, <3>2
  <2>2. CASE ~t
    BY <1>1, <2>2, StandsUp
  <2>3. QED BY <2>1, <2>2
<1>3. L * p <= S * p /\ S * p < 2 * (L * p)
  <2> DEFINE M == 2 * L
  <2>1. M \in Int /\ L \in Int /\ S \in Int /\ L <= S /\ S < M /\ p \in Nat \ {0} /\ p \in Nat
    BY <1>1
  <2> HIDE DEF L, p
  <2>2. M * p = 2 * (L * p)
    BY <1>1, Z3
  <2> HIDE DEF M
  <2>3. L * p <= S * p
    BY <2>1, TimesMono
  <2>4. S * p < M * p
    BY <2>1, TimesStrict
  <2>5. QED BY <2>2, <2>3, <2>4
<1>4. QED BY <1>1, <1>2, <1>3 DEF InPlace

\* A placed significand, narrowed by the scale, is ready to be rounded.
LEMMA NarrowedReady ==
    ASSUME NEW f \in Formats, NEW F, NEW u, NEW h, h = scale(f), NEW x \in Int, NEW num \in Nat, NEW den \in Nat \ {0},
           InPlace(F, u, pow2[h] * pow2[h], x, num, den, f), NEW w, w = 2 * WORD,
           NEW s, s = shift_right(F, h, w), NEW v \in BOOLEAN, v <=> (u \/ s.lost)
    PROVE  s.kept \in Nat /\ Ready(s.kept, v, x + h, num, den, f)
<1> DEFINE H == pow2[h]
           g == 2 * h
<1>1. /\ h \in Nat /\ w \in Nat /\ h < w /\ H \in Nat \ {0} /\ pow2[WORD] \in Nat /\ 2 * H <= pow2[WORD]
      /\ g = h + h
  <2>1. g = 2 * h
    OBVIOUS
  <2> HIDE DEF g
  <2>2. QED BY <2>1, WideSizes
<1>2. pow2[g] = H * H
  <2>1. h \in Nat /\ g = h + h
    BY <1>1
  <2> HIDE DEF g
  <2>2. pow2[g] = pow2[h] * pow2[h]
    BY <2>1, PowSplit
  <2>3. QED BY <2>2
<1>3. F \in Nat /\ u \in BOOLEAN /\ H * H <= F /\ F < 2 * (H * H) /\ Stands(F, u, x, num, den, f)
  BY DEF InPlace
<1>4. pow2[g] <= F /\ F < 2 * pow2[g]
  BY <1>2, <1>3
<1>5. InPlace(s.kept, v, pow2[h], x + h, num, den, f)
  <2> HIDE DEF H
  <2>1. QED BY <1>1, <1>3, <1>4, PlacedDown
<1>6. QED BY <1>1, <1>5 DEF InPlace, Ready

\* round_wide rounds what its operand stands for, at twice the scale.
LEMMA RoundWideRounds ==
    ASSUME NEW f \in Formats, NEW n \in BOOLEAN, NEW e \in Int, NEW S \in Nat \ {0}, NEW t \in BOOLEAN,
           NEW num \in Nat, NEW den \in Nat \ {0}, Stands(S, t, e - scale(f), num, den, f),
           S < pow2[2 * WORD], t => pow2[2 * scale(f)] <= S, NEW r \in Modes, NEW c, ~is_flushing(f, c)
    PROVE  RoundedOrHalved(round_wide(Unpacked(n, e, S), t, f, r, c), Rounded(num, den, n, f, r), num, den, f)
<1> DEFINE h == scale(f)
           g == 2 * h
           w == 2 * WORD
           l == leading(S)
           up == l - g
           x == e - h
           fitted == IF up > 0 THEN shift_right(S, up, w) ELSE [kept |-> S * pow2[-up], lost |-> FALSE]
           narrowed == shift_right(fitted.kept, h, w)
<1>1. /\ h = scale(f) /\ g = 2 * h /\ w = 2 * WORD
  OBVIOUS
<1>2. /\ h \in Nat /\ g \in Nat /\ w \in Nat /\ h < w /\ g + 4 <= w
      /\ pow2[h] \in Nat \ {0} /\ pow2[g] \in Nat \ {0} /\ pow2[g] = pow2[h] * pow2[h]
      /\ pow2[w] \in Nat /\ 16 * pow2[g] <= pow2[w] /\ x \in Int
  <2> HIDE DEF h, g, w
  <2>1. QED BY <1>1, WideSizes
<1>3. l \in Nat /\ l < w /\ pow2[l] <= S /\ S < 2 * pow2[l] /\ up \in Int
  <2> DEFINE k == w + 1
  <2>1. pow2[k] = 2 * pow2[w]
    BY <1>2, PowSucc
  <2>2. S < pow2[2 * WORD + 1]
    BY <1>2, <2>1
  <2>3. leading(S) \in 0 .. 2 * WORD /\ pow2[leading(S)] <= S /\ S < pow2[leading(S) + 1]
    BY <2>2, LeadingIs
  <2>4. pow2[l + 1] = 2 * pow2[l] /\ l \in Nat /\ pow2[l] \in Nat
    BY <2>3, PowSucc
  <2> HIDE DEF l
  <2>5. l < w
    <3>1. SUFFICES ASSUME ~(l < w) PROVE FALSE
      OBVIOUS
    <3>2. pow2[w] <= pow2[l]
      BY <1>2, <2>4, <3>1, PowMono
    <3>3. QED BY <1>2, <2>3, <2>4, <3>2 DEF l, w
  <2>6. QED BY <1>2, <2>3, <2>4, <2>5 DEF l
<1>4. round_wide(Unpacked(n, e, S), t, f, r, c)
        = round_and_pack(Unpacked(n, e + up, narrowed.kept), t \/ fitted.lost \/ narrowed.lost, f, r, c)
  <2>1. Unpacked(n, e, S).is_negative = n /\ Unpacked(n, e, S).exponent = e /\ Unpacked(n, e, S).significand = S
    BY UnpackedIs
  <2>2. QED BY <2>1 DEF round_wide
<1>5. PICK u \in BOOLEAN : u <=> (t \/ fitted.lost)
  OBVIOUS
<1>6. InPlace(fitted.kept, u, pow2[g], x + up, num, den, f)
  <2>1. CASE up > 0
    <3>1. fitted = shift_right(S, up, w) /\ up \in Nat /\ l = g + up /\ up < w
      BY <1>2, <1>3, <2>1
    <3> DEFINE s == fitted
    <3>2. s = shift_right(S, up, w) /\ (u <=> (t \/ s.lost)) /\ Stands(S, t, x, num, den, f)
      BY <1>5, <3>1
    <3> HIDE DEF up, g, l, w, s, x
    <3>3. /\ S \in Nat /\ x \in Int /\ Stands(S, t, x, num, den, f) /\ g \in Nat /\ up \in Nat /\ l = g + up
          /\ pow2[l] <= S /\ S < 2 * pow2[l] /\ w \in Nat /\ up < w /\ s = shift_right(S, up, w)
          /\ u \in BOOLEAN /\ (u <=> (t \/ s.lost))
      BY <1>2, <1>3, <3>1, <3>2
    <3>4. InPlace(s.kept, u, pow2[g], x + up, num, den, f)
      BY <3>3, PlacedDown, SMTT(30)
    <3>5. QED BY <3>4 DEF s
  <2>2. CASE ~(up > 0)
    <3> DEFINE down == -up
    <3>1. /\ fitted = [kept |-> S * pow2[down], lost |-> FALSE] /\ down \in Nat /\ g = l + down
          /\ x - down = x + up
      BY <1>2, <1>3, <2>2
    <3>2. fitted.kept = S * pow2[down] /\ (u <=> t)
      BY <1>5, <3>1
    <3>3. t => down = 0
      <4> HIDE DEF l, g, up, h
      <4>1. SUFFICES ASSUME t, down # 0 PROVE FALSE
        OBVIOUS
      <4>2. l < g /\ pow2[g] <= S
        BY <1>2, <1>3, <3>1, <4>1 DEF g, h
      <4>3. 2 * pow2[l] <= pow2[g] /\ pow2[l] \in Nat
        BY <1>2, <1>3, <4>2, PowMono, PowSucc
      <4>4. QED BY <1>2, <1>3, <4>2, <4>3
    <3>4. Stands(S, t, x, num, den, f)
      OBVIOUS
    <3> HIDE DEF up, g, l, w, x, down, fitted
    <3>5. InPlace(S * pow2[down], t, pow2[g], x - down, num, den, f)
      BY <1>2, <1>3, <3>1, <3>3, <3>4, PlacedUp
    <3>6. u = t
      BY <3>2
    <3>7. QED BY <3>1, <3>2, <3>5, <3>6
  <2>3. QED BY <2>1, <2>2
<1>7. PICK v \in BOOLEAN : v <=> (u \/ narrowed.lost)
  OBVIOUS
<1>8. narrowed.kept \in Nat /\ Ready(narrowed.kept, v, x + up + h, num, den, f)
  <2> DEFINE F == fitted.kept
             y == x + up
  <2>1. /\ InPlace(F, u, pow2[h] * pow2[h], y, num, den, f) /\ y \in Int /\ narrowed = shift_right(F, h, w)
    BY <1>2, <1>3, <1>6
  <2> HIDE DEF F, y, h, w, narrowed
  <2>2. narrowed.kept \in Nat /\ Ready(narrowed.kept, v, y + h, num, den, f)
    BY <1>1, <1>7, <2>1, NarrowedReady
  <2>3. QED BY <2>2 DEF y
<1>9. (t \/ fitted.lost \/ narrowed.lost) = v /\ x + up + h = e + up
  BY <1>2, <1>3, <1>5, <1>7
<1> DEFINE N == narrowed.kept
           z == Unpacked(n, e + up, N)
<1>10. e + up \in Int /\ N \in Nat /\ Ready(N, v, e + up, num, den, f)
  BY <1>3, <1>8, <1>9
<1>11. round_wide(Unpacked(n, e, S), t, f, r, c) = round_and_pack(z, v, f, r, c)
  BY <1>4, <1>9
<1> HIDE DEF N
<1>12. z \in UnpackedValues /\ z.is_negative = n /\ z.significand = N /\ z.exponent = e + up
  <2> HIDE DEF up
  <2>1. QED BY <1>10, UnpackedIs
<1> HIDE DEF z, up
<1>13. Ready(z.significand, v, z.exponent, num, den, f)
  BY <1>10, <1>12
<1>14. RoundedOrHalved(round_and_pack(z, v, f, r, c), Rounded(num, den, z.is_negative, f, r), num, den, f)
  BY <1>12, <1>13, RoundAndPackRounds
<1>15. QED BY <1>11, <1>12, <1>14

\* What stands for a fraction stands for it in larger terms.
LEMMA StandsScaled ==
    ASSUME NEW f \in Formats, NEW S \in Nat, NEW t \in BOOLEAN, NEW e, NEW num \in Nat, NEW den \in Nat \ {0},
           Stands(S, t, e, num, den, f), NEW D \in Nat \ {0}
    PROVE  Stands(S, t, e, num * D, den * D, f)
<1>1. PICK a, b \in Nat : a - b = e - min_exponent(f) - 3 /\ Floors(S, t, num * pow2[b], den * pow2[a])
  BY DEF Stands
<1> DEFINE N == num * pow2[b]
           P == den * pow2[a]
<1>2. pow2[a] \in Nat \ {0} /\ pow2[b] \in Nat \ {0}
  BY PowSucc
<1>3. N \in Nat /\ P \in Nat \ {0}
  <2> DEFINE p == pow2[a]
             q == pow2[b]
  <2>1. p \in Nat \ {0} /\ q \in Nat
    BY <1>2
  <2> HIDE DEF p, q
  <2>2. num * q \in Int /\ num * q >= 0 /\ den * p \in Int /\ den * p > 0
    BY <2>1, TimesTyped
  <2>3. QED BY <2>2 DEF p, q
<1>4. N * D = (num * D) * pow2[b] /\ P * D = (den * D) * pow2[a]
  BY <1>2, Z3
<1>5. Floors(S, t, N * D, P * D)
  <2> HIDE DEF N, P
  <2>1. Floors(S, t, N, P)
    BY <1>1 DEF N, P
  <2>2. QED BY <1>3, <2>1, FloorsScale
<1>6. Floors(S, t, (num * D) * pow2[b], (den * D) * pow2[a])
  BY <1>4, <1>5
<1>7. QED BY <1>1, <1>6 DEF Stands

\* The difference of two terms at one exponent, neither of which lost anything.
LEMMA DifferenceStands ==
    ASSUME NEW f \in Formats, NEW A \in Nat, NEW B \in Nat, B <= A, NEW e \in Int, NEW U \in Nat, NEW V \in Nat,
           NEW den \in Nat \ {0}, NEW no \in BOOLEAN, ~no, Stands(A, no, e, U, den, f), Stands(B, no, e, V, den, f)
    PROVE  V <= U /\ A - B \in Nat /\ Stands(A - B, no, e, U - V, den, f)
<1> DEFINE d == e - e
<1>1. d = 0 /\ d \in Nat /\ pow2[d] = 1
  BY PowValues
<1>2. B \div 1 = B /\ B % 1 = 0 /\ 1 * A = A
  OBVIOUS
<1>3. Aligns(no, B, B, d) /\ Covers(A, B, d)
  BY <1>1, <1>2 DEF Aligns, Covers
<1>4. Terms(A, B, e, e, d, U, V, den, no, f)
  BY DEF Terms
<1> HIDE DEF d
<1>5. Borrowed(A, B, no, e, U, V, den, f)
  BY <1>1, <1>3, <1>4, AlignedStands
<1>6. A - B - (IF no THEN 1 ELSE 0) = A - B
  OBVIOUS
<1>7. QED BY <1>5, <1>6 DEF Borrowed

\* K and lost are B aligned to the exponent of A.
OneAligned(A, B, K, lost, x, U, V, den, no, f) ==
    /\ K \in Nat /\ K <= B /\ lost \in BOOLEAN /\ Stands(A + K, lost, x, U + V, den, f)
    /\ ~lost => Stands(K, no, x, V, den, f)

\* What alignment makes of one of two terms.
LEMMA AlignsOne ==
    ASSUME NEW f \in Formats, NEW A \in Nat, NEW B \in Nat, NEW x \in Int, NEW y \in Int, NEW d \in Nat,
           NEW U \in Nat, NEW V \in Nat, NEW den \in Nat \ {0}, NEW no, Terms(A, B, x, y, d, U, V, den, no, f),
           NEW w \in Nat, B < pow2[w], NEW s, s = shift_right(B, d, w)
    PROVE  OneAligned(A, B, s.kept, s.lost, x, U, V, den, no, f)
<1> DEFINE K == s.kept
           lost == s.lost
<1>1. K \in Nat /\ K <= B /\ Aligns(lost, K, B, d)
  BY WideAlignment
<1>2. no \in BOOLEAN /\ ~no /\ d = x - y /\ Stands(B, no, y, V, den, f)
  BY DEF Terms
<1> HIDE DEF K, lost
<1>3. Combined(A, K, lost, x, U, V, den, f)
  BY <1>1, AlignedStands
<1>4. ASSUME ~lost PROVE Stands(K, no, x, V, den, f)
  <2>1. K = B \div pow2[d] /\ (no <=> (no \/ B % pow2[d] # 0)) /\ min_exponent(f) \in Int /\ y + d = x
    BY <1>1, <1>2, <1>4, MinExponentIs DEF Aligns
  <2>2. Stands(B \div pow2[d], no, y + d, V, den, f)
    BY <1>2, <2>1, StandsShift
  <2>3. QED BY <2>1, <2>2
<1>5. lost \in BOOLEAN
  BY <1>1 DEF Aligns
<1>6. QED BY <1>1, <1>3, <1>4, <1>5 DEF OneAligned, Combined, K, lost

\* The sizes of the two terms at twice the scale, and what they stand for.
Wide(S, e, num, den, G, no, f) ==
    S \in Nat /\ e \in Int /\ G <= S /\ S < 4 * G /\ Stands(S, no, e - scale(f), num, den, f)

\* The widths in which BothAligned's terms lie.
Roomy(G, f) == G \in Nat \ {0} /\ G = pow2[2 * scale(f)] /\ pow2[2 * WORD] \in Nat /\ 16 * G <= pow2[2 * WORD]

\* What fused_align leaves of two terms, at the exponent it chose.
BothAligned(a, h, U, V, den, G, no, f) ==
    /\ a.product \in Nat /\ a.addend \in Nat /\ a.exponent \in Int /\ a.sticky \in BOOLEAN
    /\ a.product + a.addend < 8 * G /\ G <= a.product + a.addend
    /\ Stands(a.product + a.addend, a.sticky, a.exponent - h, U + V, den, f)
    /\ ~a.sticky => /\ Stands(a.product, no, a.exponent - h, U, den, f)
                    /\ Stands(a.addend, no, a.exponent - h, V, den, f)

\* fused_align on two terms at twice the scale.
LEMMA FusedAligns ==
    ASSUME NEW f \in Formats, NEW U \in Nat, NEW V \in Nat, NEW den \in Nat \ {0}, NEW no \in BOOLEAN, ~no,
           NEW G, Roomy(G, f), NEW P, NEW e, Wide(P, e, U, den, G, no, f), NEW W, NEW i, Wide(W, i, V, den, G, no, f),
           NEW n, NEW m, NEW a, a = fused_align(Unpacked(n, e, P), Unpacked(m, i, W))
    PROVE  BothAligned(a, scale(f), U, V, den, G, no, f)
<1> DEFINE h == scale(f)
           w == 2 * WORD
           x == e - h
           y == i - h
           gap == e - i
<1>0. /\ P \in Nat /\ e \in Int /\ G <= P /\ P < 4 * G /\ Stands(P, no, x, U, den, f)
      /\ W \in Nat /\ i \in Int /\ G <= W /\ W < 4 * G /\ Stands(W, no, y, V, den, f)
  BY DEF Wide
<1>1. G \in Nat /\ P < pow2[w] /\ W < pow2[w] /\ w \in Nat /\ w = 2 * WORD /\ h \in Nat
  BY <1>0, Scales DEF Roomy
<1>2. /\ Unpacked(n, e, P).exponent = e /\ Unpacked(n, e, P).significand = P
      /\ Unpacked(m, i, W).exponent = i /\ Unpacked(m, i, W).significand = W
  BY DEF Unpacked
<1>3. CASE gap >= 0
  <2> DEFINE s == shift_right(W, gap, w)
  <2>1. a = [product |-> P, addend |-> s.kept, exponent |-> e, sticky |-> s.lost]
    BY <1>2, <1>3 DEF fused_align
  <2>2. x \in Int /\ y \in Int /\ gap \in Nat /\ gap = x - y /\ s = shift_right(W, gap, w)
    BY <1>3, <1>0, <1>1
  <2>3. Stands(P, no, x, U, den, f) /\ Stands(W, no, y, V, den, f)
    BY <1>0
  <2> HIDE DEF h, w, x, y, gap, s
  <2>4. OneAligned(P, W, s.kept, s.lost, x, U, V, den, no, f)
    <3>1. Terms(P, W, x, y, gap, U, V, den, no, f)
      BY <2>2, <2>3 DEF Terms
    <3>2. QED BY <1>0, <1>1, <2>2, <3>1, AlignsOne
  <2>5. /\ s.kept \in Nat /\ s.kept <= W /\ s.lost \in BOOLEAN /\ Stands(P + s.kept, s.lost, x, U + V, den, f)
        /\ ~s.lost => Stands(s.kept, no, x, V, den, f)
    BY <2>4 DEF OneAligned
  <2>6. a.product = P /\ a.addend = s.kept /\ a.exponent = e /\ a.sticky = s.lost /\ a.exponent - h = x
    BY <2>1 DEF x
  <2>7. P + s.kept < 8 * G /\ G <= P + s.kept
    BY <1>0, <1>1, <2>5
  <2>8. QED BY <1>0, <2>3, <2>5, <2>6, <2>7 DEF BothAligned, h
<1>4. CASE ~(gap >= 0)
  <2> DEFINE d == -gap
             s == shift_right(P, d, w)
  <2>1. a = [product |-> s.kept, addend |-> W, exponent |-> i, sticky |-> s.lost]
    BY <1>2, <1>4 DEF fused_align
  <2>2. x \in Int /\ y \in Int /\ d \in Nat /\ d = y - x /\ s = shift_right(P, d, w)
    BY <1>4, <1>0, <1>1
  <2>3. Stands(P, no, x, U, den, f) /\ Stands(W, no, y, V, den, f)
    BY <1>0
  <2> HIDE DEF h, w, x, y, gap, s, d
  <2>4. OneAligned(W, P, s.kept, s.lost, y, V, U, den, no, f)
    <3>1. Terms(W, P, y, x, d, V, U, den, no, f)
      BY <2>2, <2>3 DEF Terms
    <3>2. QED BY <1>0, <1>1, <2>2, <3>1, AlignsOne
  <2>5. /\ s.kept \in Nat /\ s.kept <= P /\ s.lost \in BOOLEAN /\ Stands(W + s.kept, s.lost, y, V + U, den, f)
        /\ ~s.lost => Stands(s.kept, no, y, U, den, f)
    BY <2>4 DEF OneAligned
  <2>6. a.product = s.kept /\ a.addend = W /\ a.exponent = i /\ a.sticky = s.lost /\ a.exponent - h = y
    BY <2>1 DEF y
  <2>7. W + s.kept < 8 * G /\ G <= W + s.kept /\ W + s.kept = s.kept + W /\ V + U = U + V
    BY <1>0, <1>1, <2>5
  <2>8. QED BY <1>0, <2>3, <2>5, <2>6, <2>7 DEF BothAligned, h
<1>5. QED BY <1>3, <1>4

\* The exact product,
LEMMA ExactProductStands ==
    ASSUME NEW f \in Formats, NEW a \in UnpackedValues, NEW b \in UnpackedValues, NEW U \in Nat, NEW V \in Nat,
           Carries(a, U, f), Carries(b, V, f), NEW no \in BOOLEAN, ~no
    PROVE  Wide(a.significand * b.significand, a.exponent + b.exponent, U * V, pow2[UnitBits(f)],
                pow2[scale(f)] * pow2[scale(f)], no, f)
<1> DEFINE A == a.significand
           B == b.significand
           ea == a.exponent
           eb == b.exponent
           H == pow2[scale(f)]
<1>1. /\ A \in Nat /\ ea \in Int /\ H <= A /\ A < 2 * H /\ B \in Nat /\ eb \in Int /\ H <= B /\ B < 2 * H
      /\ H \in Nat \ {0} /\ scale(f) \in Nat
  BY Normalised
<1>2. PICK i, j \in Nat : Weighs(A, ea, U, i, j, f)
  BY CarriesWeighs
<1>3. PICK k, l \in Nat : Weighs(B, eb, V, k, l, f)
  BY CarriesWeighs
<1>4. Weighs(A, ea, U, i, j, f) /\ Weighs(B, eb, V, k, l, f) /\ ea \in Int /\ eb \in Int /\ A \in Nat /\ B \in Nat
  BY <1>1, <1>2, <1>3
<1> HIDE DEF A, B, ea, eb, H
<1>5. Stands(A * B, no, ea + eb - scale(f), U * V, pow2[UnitBits(f)], f)
  BY <1>4, ProductStands, Z3
<1>6. A * B \in Nat
  <2>1. A * B \in Int /\ A * B >= 0
    BY <1>1, TimesTyped
  <2>2. QED BY <2>1
<1>7. H * H <= A * B /\ A * B < 4 * (H * H)
  <2>1. H * H <= A * H /\ A * H <= A * B
    BY <1>1, TimesMono
  <2> DEFINE G == 2 * H
  <2>2. G \in Nat \ {0} /\ B <= G /\ A < G
    BY <1>1
  <2>3. G * G = 4 * (H * H) /\ H * H \in Int /\ A * H \in Int
    BY <1>1, Z3
  <2> HIDE DEF G
  <2>4. A * B <= A * G /\ A * G < G * G /\ A * G \in Int
    BY <1>1, <2>2, TimesMono, TimesStrict, TimesTyped
  <2>5. QED BY <1>6, <2>1, <2>3, <2>4
<1>8. QED BY <1>1, <1>5, <1>6, <1>7 DEF Wide, A, B, ea, eb, H

\* and the addend raised to its scale.
LEMMA WideAddendStands ==
    ASSUME NEW f \in Formats, NEW u \in UnpackedValues, NEW Z \in Nat, Carries(u, Z, f), NEW no \in BOOLEAN, ~no
    PROVE  Wide(u.significand * pow2[scale(f)], u.exponent, Z * pow2[UnitBits(f)], pow2[UnitBits(f)],
                pow2[scale(f)] * pow2[scale(f)], no, f)
<1> DEFINE S == u.significand
           e == u.exponent
           h == scale(f)
           H == pow2[h]
           D == pow2[UnitBits(f)]
           one == 1
<1>1. S \in Nat /\ e \in Int /\ H <= S /\ S < 2 * H /\ H \in Nat \ {0} /\ h \in Nat
  BY Normalised
<1>2. D \in Nat \ {0} /\ min_exponent(f) \in Int
  BY UnitBitsIs, MinExponentIs
<1>3. Stands(S, no, e, Z, one, f) /\ one \in Nat \ {0}
  BY CarriesStands
<1>4. Stands(S, no, e, Z * D, D, f) /\ Z * D \in Nat
  <2>1. one * D = D
    BY <1>2
  <2> HIDE DEF S, e, D, one
  <2>2. Z * D \in Int /\ Z * D >= 0
    BY <1>2, TimesTyped
  <2>3. Stands(S, no, e, Z * D, one * D, f)
    BY <1>1, <1>2, <1>3, StandsScaled
  <2>4. QED BY <2>1, <2>2, <2>3
<1> DEFINE N == Z * D
<1>5. Stands(S * H, no, e - h, N, D, f) /\ S * H \in Nat
  <2>1. N \in Nat /\ Stands(S, no, e, N, D, f)
    BY <1>4
  <2> HIDE DEF S, e, N, D, h
  <2>2. QED BY <1>1, <1>2, <2>1, StandsUp
<1>6. H * H <= S * H /\ S * H < 4 * (H * H)
  <2> DEFINE G == 2 * H
  <2>1. G \in Nat \ {0} /\ S < G
    BY <1>1
  <2> HIDE DEF S, H
  <2>2. G * H = 2 * (H * H) /\ H * H \in Int /\ H * H >= 0
    BY <1>1, Z3
  <2> HIDE DEF G
  <2>3. H * H <= S * H /\ S * H < G * H
    BY <1>1, <2>1, TimesMono, TimesStrict
  <2>4. QED BY <1>5, <2>2, <2>3
<1>7. QED BY <1>1, <1>5, <1>6 DEF Wide

\* round_wide on a sum with its sign.
LEMMA RoundWideSum ==
    ASSUME NEW f \in Formats, NEW n \in BOOLEAN, NEW e \in Int, NEW S \in Nat \ {0}, NEW t \in BOOLEAN,
           NEW num \in Nat, NEW den \in Nat \ {0}, Stands(S, t, e - scale(f), num, den, f),
           S < pow2[2 * WORD], t => pow2[2 * scale(f)] <= S, NEW r \in Modes, NEW c, ~is_flushing(f, c),
           NEW T, T = Sign(n, num), NEW zn
    PROVE  RoundedOrHalved(round_wide(Unpacked(n, e, S), t, f, r, c), RoundedSum(T, den, zn, f, r), Abs(T), den, f)
<1>1. num # 0
  BY StandsZero
<1>2. RoundedSum(T, den, zn, f, r) = Rounded(num, den, n, f, r)
  BY <1>1, SignedRounded
<1>3. Abs(T) = num
  BY DEF Abs, Sign
<1>4. RoundedOrHalved(round_wide(Unpacked(n, e, S), t, f, r, c), Rounded(num, den, n, f, r), num, den, f)
  BY RoundWideRounds
<1>5. QED BY <1>2, <1>3, <1>4

\* accumulate's sum of aligned terms, rounded.
FusedSum(product, wide, a, f, r, c) ==
    LET sum == IF product.is_negative = wide.is_negative
               THEN Unpacked(product.is_negative, a.exponent, a.product + a.addend)
               ELSE IF a.product >= a.addend
               THEN Unpacked(product.is_negative, a.exponent, a.product - a.addend)
               ELSE Unpacked(wide.is_negative, a.exponent, a.addend - a.product)
    IN  IF sum.significand = 0 /\ ~a.sticky THEN Exact(zero(f, r = "Minus"))
        ELSE round_wide(sum, a.sticky /\ sum.significand # 0, f, r, c)

\* Terms of one sign.
LEMMA FusedSumSame ==
    ASSUME NEW f \in Formats, NEW n \in BOOLEAN, NEW p, p.is_negative = n, NEW q, q.is_negative = n,
           NEW a, NEW U \in Nat, NEW V \in Nat, NEW D \in Nat \ {0}, NEW G, Roomy(G, f), NEW no,
           BothAligned(a, scale(f), U, V, D, G, no, f), NEW r \in Modes, NEW c, ~is_flushing(f, c), NEW zn,
           NEW T, T = Sign(n, U) + Sign(n, V)
    PROVE  RoundedOrHalved(FusedSum(p, q, a, f, r, c), RoundedSum(T, D, zn, f, r), Abs(T), D, f)
<1> DEFINE S == a.product + a.addend
           e == a.exponent
           N == U + V
<1>1. /\ S \in Nat \ {0} /\ e \in Int /\ a.sticky \in BOOLEAN /\ S < pow2[2 * WORD] /\ pow2[2 * scale(f)] <= S
      /\ Stands(S, a.sticky, e - scale(f), N, D, f)
  BY DEF BothAligned, Roomy
<1>2. T = Sign(n, N) /\ N \in Nat
  BY SignedTerms
<1>3. Unpacked(n, e, S).significand = S
  BY DEF Unpacked
<1>4. FusedSum(p, q, a, f, r, c) = round_wide(Unpacked(n, e, S), a.sticky, f, r, c)
  <2>1. (a.sticky /\ S # 0) = a.sticky
    BY <1>1
  <2>2. QED BY <1>1, <1>3, <2>1 DEF FusedSum
<1> DEFINE t == a.sticky
<1> HIDE DEF S, e, N, t
<1>5. t \in BOOLEAN /\ Stands(S, t, e - scale(f), N, D, f) /\ (t => pow2[2 * scale(f)] <= S)
  BY <1>1 DEF t
<1>6. RoundedOrHalved(round_wide(Unpacked(n, e, S), t, f, r, c), RoundedSum(T, D, zn, f, r), Abs(T), D, f)
  BY <1>1, <1>2, <1>5, RoundWideSum
<1>7. QED BY <1>4, <1>6 DEF t

\* Two terms at one exponent, the first larger, neither of which lost anything.
Apart(A, B, e, U, V, D, G, no, f) ==
    /\ A \in Nat /\ B \in Nat /\ B < A /\ A < 8 * G /\ e \in Int /\ no \in BOOLEAN /\ ~no
    /\ Stands(A, no, e - scale(f), U, D, f) /\ Stands(B, no, e - scale(f), V, D, f)

\* round_wide on an exact difference that is not zero.
LEMMA RoundsDifference ==
    ASSUME NEW f \in Formats, NEW n \in BOOLEAN, NEW m \in BOOLEAN, n # m, NEW U \in Nat, NEW V \in Nat,
           NEW D \in Nat \ {0}, NEW G, Roomy(G, f), NEW A, NEW B, NEW e, NEW no, Apart(A, B, e, U, V, D, G, no, f),
           NEW r \in Modes, NEW c, ~is_flushing(f, c), NEW zn, NEW T, T = Sign(n, U) + Sign(m, V)
    PROVE  RoundedOrHalved(round_wide(Unpacked(n, e, A - B), no, f, r, c), RoundedSum(T, D, zn, f, r), Abs(T), D, f)
<1>0. /\ A \in Nat /\ B \in Nat /\ B < A /\ A < 8 * G /\ e \in Int /\ no \in BOOLEAN /\ ~no
      /\ Stands(A, no, e - scale(f), U, D, f) /\ Stands(B, no, e - scale(f), V, D, f)
  BY DEF Apart
<1> DEFINE x == e - scale(f)
           S == A - B
           N == U - V
<1>1. x \in Int
  BY <1>0, Scales
<1>2. V <= U /\ S \in Nat /\ Stands(S, no, x, N, D, f)
  <2>1. Stands(A, no, x, U, D, f) /\ Stands(B, no, x, V, D, f) /\ B <= A
    BY <1>0
  <2> HIDE DEF x
  <2>2. QED BY <1>0, <1>1, <2>1, DifferenceStands
<1>3. T = Sign(n, N) /\ N \in Nat
  BY <1>2, SignedTerms
<1>4. S \in Nat \ {0} /\ S < pow2[2 * WORD]
  BY <1>0, <1>2 DEF Roomy
<1>5. Stands(S, no, e - scale(f), N, D, f)
  BY <1>2
<1> HIDE DEF x, S, N
<1>6. RoundedOrHalved(round_wide(Unpacked(n, e, S), no, f, r, c), RoundedSum(T, D, zn, f, r), Abs(T), D, f)
  BY <1>0, <1>3, <1>4, <1>5, RoundWideSum
<1>7. QED BY <1>6 DEF S

\* Terms of two signs: alignment lost nothing, and a zero has the sign of the mode.
Opposed(p, q, n, m, a, zn, r) ==
    p.is_negative = n /\ q.is_negative = m /\ n # m /\ ~a.sticky /\ zn = (r = "Minus")

\* Terms of two signs, when alignment lost nothing.
LEMMA FusedSumOther ==
    ASSUME NEW f \in Formats, NEW n \in BOOLEAN, NEW m \in BOOLEAN, NEW p, NEW q, NEW zn, NEW r \in Modes,
           NEW a, Opposed(p, q, n, m, a, zn, r), NEW U \in Nat, NEW V \in Nat, NEW D \in Nat \ {0}, NEW G, Roomy(G, f), NEW no \in BOOLEAN, ~no,
           BothAligned(a, scale(f), U, V, D, G, no, f), NEW c, ~is_flushing(f, c),
           NEW T, T = Sign(n, U) + Sign(m, V)
    PROVE  RoundedOrHalved(FusedSum(p, q, a, f, r, c), RoundedSum(T, D, zn, f, r), Abs(T), D, f)
<1> DEFINE A == a.product
           B == a.addend
           e == a.exponent
<1>0. p.is_negative = n /\ q.is_negative = m /\ n # m /\ ~a.sticky /\ zn = (r = "Minus")
  BY DEF Opposed
<1>1. /\ A \in Nat /\ B \in Nat /\ e \in Int /\ A < 8 * G /\ B < 8 * G /\ G \in Nat
      /\ Stands(A, no, e - scale(f), U, D, f) /\ Stands(B, no, e - scale(f), V, D, f)
  BY <1>0 DEF BothAligned, Roomy
<1>2. \A i \in BOOLEAN : Unpacked(i, e, A - B).significand = A - B /\ Unpacked(i, e, B - A).significand = B - A
  BY DEF Unpacked
<1>3. CASE A = B
  <2>1. FusedSum(p, q, a, f, r, c) = Exact(zero(f, zn))
    <3>1. A - B = 0 /\ A >= B
      BY <1>1, <1>3
    <3>2. QED BY <1>0, <1>2, <3>1 DEF FusedSum
  <2>2. U = V
    <3> DEFINE x == e - scale(f)
    <3>1. x \in Int /\ Stands(A, no, x, U, D, f) /\ Stands(B, no, x, V, D, f) /\ A <= B /\ B <= A
      BY <1>1, <1>3, Scales
    <3> HIDE DEF x, A, B
    <3>2. V <= U
      BY <1>1, <3>1, DifferenceStands
    <3>3. U <= V
      BY <1>1, <3>1, DifferenceStands
    <3>4. QED BY <3>2, <3>3
  <2>3. T = 0
    BY <1>0, <2>2 DEF Sign
  <2>4. RoundedSum(T, D, zn, f, r) = Exact(zero(f, zn))
    BY <2>3 DEF RoundedSum
  <2>5. QED BY <2>1, <2>4 DEF RoundedOrHalved
<1>4. CASE B < A
  <2>1. FusedSum(p, q, a, f, r, c) = round_wide(Unpacked(n, e, A - B), no, f, r, c)
    <3>1. A - B # 0 /\ A >= B /\ (a.sticky /\ A - B # 0) = no
      BY <1>0, <1>1, <1>4
    <3>2. QED BY <1>0, <1>2, <3>1 DEF FusedSum
  <2>2. Apart(A, B, e, U, V, D, G, no, f)
    BY <1>1, <1>4 DEF Apart
  <2> HIDE DEF A, B, e
  <2>3. RoundedOrHalved(round_wide(Unpacked(n, e, A - B), no, f, r, c), RoundedSum(T, D, zn, f, r), Abs(T), D, f)
    BY <2>2, <1>0, RoundsDifference
  <2>4. QED BY <2>1, <2>3
<1>5. CASE A < B
  <2>1. FusedSum(p, q, a, f, r, c) = round_wide(Unpacked(m, e, B - A), no, f, r, c)
    <3>1. B - A # 0 /\ ~(A >= B) /\ (a.sticky /\ B - A # 0) = no
      BY <1>0, <1>1, <1>5
    <3>2. QED BY <1>0, <1>2, <3>1 DEF FusedSum
  <2>2. T = Sign(m, V) + Sign(n, U) /\ m # n
    BY <1>0, SignedTerms
  <2>3. Apart(B, A, e, V, U, D, G, no, f)
    BY <1>1, <1>5 DEF Apart
  <2> HIDE DEF A, B, e
  <2>4. RoundedOrHalved(round_wide(Unpacked(m, e, B - A), no, f, r, c), RoundedSum(T, D, zn, f, r), Abs(T), D, f)
    BY <2>3, <2>2, <1>0, RoundsDifference
  <2>5. QED BY <2>1, <2>4
<1>6. QED BY <1>1, <1>3, <1>4, <1>5

\* The exact sum is rounded once, unless alignment dropped bits of a term to subtract.
LEMMA AccumulateRounds ==
    ASSUME NEW f \in Formats, NEW n \in BOOLEAN, NEW e, NEW P, NEW U \in Nat, NEW D, D = pow2[UnitBits(f)],
           NEW no \in BOOLEAN, ~no, Wide(P, e, U, D, pow2[scale(f)] * pow2[scale(f)], no, f),
           NEW z \in Patterns(f), IsFinite(f, z), NEW product, product = Unpacked(n, e, P),
           NEW m, m = is_negative(f, z), NEW r \in Modes, NEW c, ~is_flushing(f, c),
           n # m /\ ~is_zero(f, z) => ~fused_align(product, wide_addend(z, f)).sticky,
           NEW zn, zn = IF n = m THEN n ELSE r = "Minus", NEW T, T = Sign(n, U) + Sign(m, Ulps(f, z) * D)
    PROVE  RoundedOrHalved(accumulate_product(product, z, f, r, c), RoundedSum(T, D, zn, f, r), Abs(T), D, f)
<1> DEFINE h == scale(f)
           g == 2 * h
           w == 2 * WORD
           G == pow2[h] * pow2[h]
           u == unpack(z, f)
           Z == Ulps(f, z)
           V == Z * D
<1>1. /\ h \in Nat /\ w \in Nat /\ w = 2 * WORD /\ pow2[g] = G /\ G \in Nat \ {0} /\ pow2[w] \in Nat /\ 16 * G <= pow2[w]
  <2>1. h = scale(f) /\ g = 2 * h /\ w = 2 * WORD
    OBVIOUS
  <2> HIDE DEF h, g, w
  <2>2. QED BY <2>1, WideSizes
<1>2. Roomy(G, f)
  BY <1>1 DEF Roomy
<1>3. /\ P \in Nat /\ e \in Int /\ G <= P /\ P < 4 * G /\ Stands(P, no, e - h, U, D, f)
  BY DEF Wide
<1>4. D \in Nat \ {0}
  BY UnitBitsIs
<1>5. /\ Z \in Nat /\ u \in UnpackedValues /\ Measures(u, Z, f) /\ u.is_negative = m /\ m \in BOOLEAN
      /\ (is_zero(f, z) <=> Z = 0) /\ (u.significand = 0 <=> is_zero(f, z))
  BY FiniteOperand
<1>6. V \in Nat /\ (Z = 0 => V = 0)
  <2> HIDE DEF Z
  <2>1. Z * D \in Int /\ Z * D >= 0
    BY <1>4, <1>5, TimesTyped
  <2>2. QED BY <1>4, <1>5, <2>1
<1>7. CASE is_zero(f, z)
  <2>1. accumulate_product(product, z, f, r, c) = round_wide(Unpacked(n, e, P), no, f, r, c)
    BY <1>7 DEF accumulate_product
  <2>2. T = Sign(n, U)
    <3>1. V = 0 /\ T = Sign(n, U) + Sign(m, V)
      BY <1>5, <1>6, <1>7
    <3> HIDE DEF V
    <3>2. QED BY <1>5, <1>6, <3>1, SignedTerms
  <2>3. P \in Nat \ {0} /\ P < pow2[2 * WORD] /\ Stands(P, no, e - scale(f), U, D, f)
    BY <1>1, <1>3
  <2>4. RoundedOrHalved(round_wide(Unpacked(n, e, P), no, f, r, c), RoundedSum(T, D, zn, f, r), Abs(T), D, f)
    BY <1>3, <1>4, <2>2, <2>3, RoundWideSum
  <2>5. QED BY <2>1, <2>4
<1>8. CASE ~is_zero(f, z)
  <2> DEFINE W == u.significand * pow2[h]
             i == u.exponent
             q == Unpacked(m, i, W)
             a == fused_align(product, q)
  <2>1. Carries(u, Z, f)
    BY <1>5, <1>8 DEF Measures
  <2>2. Wide(W, i, V, D, G, no, f) /\ W \in Nat
    <3> HIDE DEF u, Z
    <3>1. Wide(W, i, V, D, G, no, f)
      BY <1>5, <2>1, WideAddendStands
    <3>2. QED BY <3>1 DEF Wide
  <2>3. wide_addend(z, f) = q
    <3> DEFINE X == W
    <3>1. X \in Nat /\ wide_addend(z, f) = [u EXCEPT !.significand = X]
      BY <2>2 DEF wide_addend
    <3> HIDE DEF X, u
    <3>2. [u EXCEPT !.significand = X] = Unpacked(u.is_negative, u.exponent, X)
      BY <1>5, <3>1 DEF Unpacked, UnpackedValues
    <3>3. QED BY <1>5, <3>1, <3>2 DEF X
  <2>4. accumulate_product(product, z, f, r, c) = FusedSum(product, q, a, f, r, c)
    <3> HIDE DEF q
    <3>1. QED BY <1>8, <2>3 DEF accumulate_product, FusedSum
  <2>5. product.is_negative = n /\ q.is_negative = m
    BY DEF Unpacked
  <2>6. BothAligned(a, h, U, V, D, G, no, f)
    <3>1. a = fused_align(Unpacked(n, e, P), Unpacked(m, i, W)) /\ Wide(P, e, U, D, G, no, f)
      OBVIOUS
    <3> HIDE DEF G, W, i, V, a
    <3>2. QED BY <1>2, <1>4, <1>6, <2>2, <3>1, FusedAligns
  <2>7. T = Sign(n, U) + Sign(m, V)
    OBVIOUS
  <2> HIDE DEF q, a, V, G
  <2>8. CASE n = m
    <3>1. q.is_negative = n /\ T = Sign(n, U) + Sign(n, V)
      BY <2>5, <2>7, <2>8
    <3>2. RoundedOrHalved(FusedSum(product, q, a, f, r, c), RoundedSum(T, D, zn, f, r), Abs(T), D, f)
      BY <1>2, <1>4, <1>6, <2>5, <2>6, <3>1, FusedSumSame
    <3>3. QED BY <2>4, <3>2
  <2>9. CASE n # m
    <3>1. ~a.sticky /\ zn = (r = "Minus")
      BY <1>8, <2>3, <2>9 DEF a
    <3>2. Opposed(product, q, n, m, a, zn, r)
      BY <2>5, <2>9, <3>1 DEF Opposed
    <3>3. RoundedOrHalved(FusedSum(product, q, a, f, r, c), RoundedSum(T, D, zn, f, r), Abs(T), D, f)
      BY <1>2, <1>4, <1>5, <1>6, <2>6, <2>7, <3>2, FusedSumOther
    <3>4. QED BY <2>4, <3>3
  <2>10. QED BY <2>8, <2>9
<1>9. QED BY <1>7, <1>8

\* A fused operation on finite operands, of any signs and roles.
FusedOn(o, x, y, z, n, f) ==
    /\ o.multiplicand = x /\ o.multiplier = y /\ o.addend = z /\ ~o.is_addend_negated
    /\ n = product_negative(o, f)
    /\ IsFinite(f, x) /\ IsFinite(f, y) /\ IsFinite(f, z)

\* A zero product leaves the addend as it is.
LEMMA ZeroProductRounds ==
    ASSUME NEW f \in Formats, NEW x \in Patterns(f), NEW y \in Patterns(f), NEW z \in Patterns(f), NEW o, NEW n \in BOOLEAN,
           FusedOn(o, x, y, z, n, f), is_zero(f, x) \/ is_zero(f, y),
           NEW m, m = is_negative(f, z), NEW r \in Modes, NEW c, NEW D \in Nat \ {0}, NEW U, U = 0,
           NEW zn, zn = IF n = m THEN n ELSE r = "Minus", NEW T, T = Sign(n, U) + Sign(m, Ulps(f, z) * D)
    PROVE  multiply_add(o, f, r, c) = RoundedSum(T, D, zn, f, r)
<1> DEFINE Z == Ulps(f, z)
           V == Z * D
<1>1. multiply_add(o, f, r, c) = zero_product(z, n, f, r)
  <2>0. /\ o.multiplicand = x /\ o.multiplier = y /\ o.addend = z /\ ~o.is_addend_negated /\ n = product_negative(o, f)
        /\ IsFinite(f, x) /\ IsFinite(f, y) /\ IsFinite(f, z)
    BY DEF FusedOn
  <2>1. ~any_nan(<<x, y, z>>, f)
    BY <2>0, TripleOfOperands DEF IsFinite, is_nan
  <2>2. ~is_infinite(f, x) /\ ~is_infinite(f, y) /\ ~is_infinite(f, z)
    BY <2>0 DEF IsFinite, is_infinite
  <2>3. signed_addend(o, f) = z
    BY <2>0 DEF signed_addend
  <2>4. QED BY <2>0, <2>1, <2>2, <2>3 DEF multiply_add
<1>2. IsFinite(f, z) /\ Z \in Nat /\ m \in BOOLEAN /\ (is_zero(f, z) <=> Z = 0)
  BY FiniteOperand DEF FusedOn
<1>3. V \in Nat /\ (V = 0 <=> Z = 0)
  <2> HIDE DEF Z
  <2>1. Z * D \in Int /\ Z * D >= 0 /\ (Z > 0 => Z * D > 0)
    BY <1>2, TimesTyped
  <2>2. Z = 0 => Z * D = 0
    OBVIOUS
  <2>3. QED BY <1>2, <2>1, <2>2
<1>4. T = Sign(m, V)
  <2>1. T = Sign(n, U) + Sign(m, V) /\ U \in Nat
    OBVIOUS
  <2> HIDE DEF V
  <2>2. QED BY <1>2, <1>3, <2>1, SignedTerms
<1>5. CASE is_zero(f, z)
  <2>1. RoundedSum(T, D, zn, f, r) = Exact(zero(f, zn))
    BY <1>2, <1>3, <1>4, <1>5, SignedRounded
  <2>2. zero_product(z, n, f, r) = Exact(zero(f, zn))
    BY <1>5 DEF zero_product
  <2>3. QED BY <1>1, <2>1, <2>2
<1>6. CASE ~is_zero(f, z)
  <2> DEFINE d == magnitude_bits(f, z)
  <2>1. d \in Nat /\ d < infinity(f) /\ Ulps(f, d) = Z /\ z = zero(f, m) + d
    BY <1>2, MagnitudeOf
  <2>2. Ulps(f, d) * D = V
    BY <2>1
  <2>3. RoundedSum(T, D, zn, f, r) = Rounded(V, D, m, f, r)
    BY <1>2, <1>3, <1>4, <1>6, SignedRounded
  <2> HIDE DEF d, V
  <2>4. Rounded(V, D, m, f, r) = Exact(zero(f, m) + d)
    BY <1>2, <1>3, <2>1, <2>2, ExactlyRounded
  <2>5. zero_product(z, n, f, r) = Exact(z)
    BY <1>6 DEF zero_product
  <2>6. QED BY <1>1, <2>1, <2>3, <2>4, <2>5
<1>7. QED BY <1>5, <1>6

\* The exact value of a fused operation, rounded once.
LEMMA FusedRounds ==
    ASSUME NEW f \in Formats, NEW x \in Patterns(f), NEW y \in Patterns(f), NEW z \in Patterns(f), NEW o, NEW n \in BOOLEAN,
           FusedOn(o, x, y, z, n, f), NEW m, m = is_negative(f, z), NEW r \in Modes, NEW c, ~is_flushing(f, c),
           ~is_zero(f, x) /\ ~is_zero(f, y) /\ ~is_zero(f, z) /\ n # m
              => ~fused_align(exact_product(o, f), wide_addend(z, f)).sticky,
           NEW D, D = pow2[UnitBits(f)], NEW zn, zn = IF n = m THEN n ELSE r = "Minus",
           NEW T, T = Sign(n, Ulps(f, x) * Ulps(f, y)) + Sign(m, Ulps(f, z) * D)
    PROVE  RoundedOrHalved(multiply_add(o, f, r, c), RoundedSum(T, D, zn, f, r), Abs(T), D, f)
<1> DEFINE a == unpack(x, f)
           b == unpack(y, f)
           X == Ulps(f, x)
           Y == Ulps(f, y)
           U == X * Y
<1>1. IsFinite(f, x) /\ IsFinite(f, y) /\ IsFinite(f, z)
  BY DEF FusedOn
<1>2. X \in Nat /\ a \in UnpackedValues /\ Measures(a, X, f) /\ (is_zero(f, x) <=> X = 0) /\ (a.significand = 0 <=> is_zero(f, x))
  BY <1>1, FiniteOperand
<1>3. Y \in Nat /\ b \in UnpackedValues /\ Measures(b, Y, f) /\ (is_zero(f, y) <=> Y = 0) /\ (b.significand = 0 <=> is_zero(f, y))
  BY <1>1, FiniteOperand
<1>4. D \in Nat \ {0}
  BY UnitBitsIs
<1>5. CASE is_zero(f, x) \/ is_zero(f, y)
  <2>1. U = 0 /\ T = Sign(n, U) + Sign(m, Ulps(f, z) * D)
    BY <1>2, <1>3, <1>5
  <2> HIDE DEF U
  <2>2. multiply_add(o, f, r, c) = RoundedSum(T, D, zn, f, r)
    BY <1>4, <1>5, <2>1, ZeroProductRounds
  <2>3. QED BY <2>2 DEF RoundedOrHalved
<1>6. CASE ~is_zero(f, x) /\ ~is_zero(f, y)
  <2> DEFINE P == a.significand * b.significand
             e == a.exponent + b.exponent
             product == exact_product(o, f)
  <2>1. multiply_add(o, f, r, c) = accumulate_product(product, z, f, r, c)
    BY <1>6, FusedIs DEF FusedOn
  <2>2. product = Unpacked(n, e, P)
    BY DEF exact_product, FusedOn
  <2>3. Carries(a, X, f) /\ Carries(b, Y, f)
    BY <1>2, <1>3, <1>6 DEF Measures
  <2>4. PICK no \in BOOLEAN : ~no
    OBVIOUS
  <2>5. Wide(P, e, U, D, pow2[scale(f)] * pow2[scale(f)], no, f)
    <3> HIDE DEF a, b, X, Y
    <3>1. QED BY <1>2, <1>3, <2>3, <2>4, ExactProductStands
  <2>6. U \in Nat
    <3> HIDE DEF X, Y
    <3>1. X * Y \in Int /\ X * Y >= 0
      BY <1>2, <1>3, TimesTyped
    <3>2. QED BY <3>1
  <2>7. n # m /\ ~is_zero(f, z) => ~fused_align(product, wide_addend(z, f)).sticky
    BY <1>6
  <2>8. T = Sign(n, U) + Sign(m, Ulps(f, z) * D)
    OBVIOUS
  <2> HIDE DEF P, e, product, U
  <2>9. RoundedOrHalved(accumulate_product(product, z, f, r, c), RoundedSum(T, D, zn, f, r), Abs(T), D, f)
    BY <1>1, <2>2, <2>4, <2>5, <2>6, <2>7, <2>8, AccumulateRounds
  <2>10. QED BY <2>1, <2>9
<1>7. QED BY <1>5, <1>6

\* The exact value in the terms of IeeeFma and of ExactFused.
LEMMA ExactValueIs ==
    ASSUME NEW n \in BOOLEAN, NEW m \in BOOLEAN, NEW p \in Nat, NEW Z \in Nat, NEW D \in Nat
    PROVE  (IF n THEN -p ELSE p) + Sign(m, Z) * D = Sign(n, p) + Sign(m, Z * D)
<1>1. (-Z) * D = -(Z * D) /\ Z * D \in Int
  BY Z3
<1>2. Sign(m, Z) * D = Sign(m, Z * D)
  BY <1>1 DEF Sign
<1>3. QED BY <1>2 DEF Sign

\* The property in every state of the sweep.
LEMMA FusedRoundedNow == SweepType => FusedIsCorrectlyRounded
<1> DEFINE f == Single
           D == pow2[UnitBits(f)]
<1>1. SUFFICES ASSUME SweepType, NewPair, NEW addend \in Patterns(f), NEW negate \in BOOLEAN, NEW r \in Modes,
                      AllFinite(addend), ~LosesBorrow(addend, negate)
               PROVE  RoundedOrHalved(Fused(addend, negate, r, Ieee754), IeeeFma(lhs, rhs, negate, addend, f, r),
                                      Abs(ExactFused(addend, negate)), D, f)
  BY DEF FusedIsCorrectlyRounded
<1> DEFINE o == Operands(addend, negate)
           m == is_negative(f, addend)
           X == Ulps(f, lhs)
           Y == Ulps(f, rhs)
           Z == Ulps(f, addend)
           zn == IF negate = m THEN negate ELSE r = "Minus"
           T == Sign(negate, X * Y) + Sign(m, Z * D)
<1>2. /\ f \in Formats /\ lhs \in Patterns(f) /\ rhs \in Patterns(f) /\ addend \in Patterns(f)
      /\ ~is_flushing(f, Ieee754) /\ IsFinite(f, lhs) /\ IsFinite(f, rhs) /\ IsFinite(f, addend)
  BY <1>1, Unflushing DEF SweepType, Formats, AllFinite
<1>3. ~is_negative(f, lhs) /\ ~is_negative(f, rhs)
  <2>1. lhs \in Nat /\ rhs \in Nat /\ sign_bit(f) \in Nat \ {0}
    BY <1>2, FormatSizes DEF Patterns, Sizes
  <2>2. lhs < sign_bit(f) /\ rhs < sign_bit(f)
    BY <1>1, <2>1 DEF NewPair
  <2>3. QED BY <2>1, <2>2 DEF is_negative
<1>4. FusedOn(o, lhs, rhs, addend, negate, f)
  <2>1. /\ o.multiplicand = lhs /\ o.multiplier = rhs /\ o.addend = addend /\ ~o.is_addend_negated
        /\ o.is_product_negated = negate
    BY DEF Operands
  <2> HIDE DEF o
  <2>2. product_negative(o, f) = negate
    <3>1. product_negative(o, f) = ((is_negative(f, lhs) # is_negative(f, rhs)) # negate)
      BY <2>1 DEF product_negative
    <3>2. is_negative(f, lhs) = FALSE /\ is_negative(f, rhs) = FALSE
      BY <1>2, <1>3, PatternOfFields
    <3>3. (is_negative(f, lhs) # is_negative(f, rhs)) = FALSE
      BY <3>2
    <3>4. (FALSE # negate) = negate
      OBVIOUS
    <3>5. QED BY <3>1, <3>3, <3>4
  <2>3. QED BY <1>2, <2>1, <2>2 DEF FusedOn
<1>5. /\ X \in Nat /\ Y \in Nat /\ Z \in Nat /\ m \in BOOLEAN /\ SignedUlps(f, addend) = Sign(m, Z)
      /\ (is_zero(f, lhs) <=> X = 0) /\ (is_zero(f, rhs) <=> Y = 0) /\ (is_zero(f, addend) <=> Z = 0)
  BY <1>2, FiniteOperand
<1>6. ~is_zero(f, lhs) /\ ~is_zero(f, rhs) /\ ~is_zero(f, addend) /\ negate # m
        => ~fused_align(exact_product(o, f), wide_addend(addend, f)).sticky
  BY <1>1, <1>5 DEF LosesBorrow
<1>7. (IF negate THEN -(X * Y) ELSE X * Y) + SignedUlps(f, addend) * D = T
  <2> DEFINE p == X * Y
  <2>1. p \in Nat /\ D \in Nat
    <3>1. D \in Nat
      BY <1>2, UnitBitsIs
    <3> HIDE DEF X, Y, D
    <3>2. X * Y \in Int /\ X * Y >= 0
      BY <1>5, TimesTyped
    <3>3. QED BY <3>1, <3>2
  <2> HIDE DEF p, m, Z, D
  <2>2. (IF negate THEN -p ELSE p) + Sign(m, Z) * D = Sign(negate, p) + Sign(m, Z * D)
    BY <1>5, <2>1, ExactValueIs
  <2>3. QED BY <1>5, <2>2 DEF p
<1>8. ExactFused(addend, negate) = T
  BY <1>7 DEF ExactFused
<1>9. IeeeFma(lhs, rhs, negate, addend, f, r) = RoundedSum(T, D, zn, f, r)
  BY <1>7 DEF IeeeFma
<1>10. Fused(addend, negate, r, Ieee754) = multiply_add(o, f, r, Ieee754)
  BY DEF Fused
<1>11. D = pow2[UnitBits(f)] /\ zn = (IF negate = m THEN negate ELSE r = "Minus") /\ m = is_negative(f, addend)
       /\ T = Sign(negate, Ulps(f, lhs) * Ulps(f, rhs)) + Sign(m, Ulps(f, addend) * D)
  OBVIOUS
<1> DEFINE c == Ieee754
<1>12. ~is_flushing(f, c)
  BY <1>2
<1> HIDE DEF f, o, D, m, X, Y, Z, zn, T, c
<1>13. RoundedOrHalved(multiply_add(o, f, r, c), RoundedSum(T, D, zn, f, r), Abs(T), D, f)
  BY <1>2, <1>4, <1>6, <1>11, <1>12, FusedRounds
<1>14. QED BY <1>8, <1>9, <1>10, <1>13 DEF c

\* FMADD and its relatives round the exact sum of the addend and the product once,
\* with IEEE's flags, for every width of the format, every finite operand and every
\* mode, but for the carry below the normal range and for subtractions in which
\* alignment drops bits (fused.rs accumulate, round_wide).
THEOREM FusedAlwaysCorrectlyRounded == Spec => []FusedIsCorrectlyRounded
  BY SweepTyped, FusedRoundedNow, PTL

\* What SelectionIsInvisible asks of a host's pattern and the softfloat's result.
Agrees(b, soft, f) ==
    IF is_nan(f, soft.bits) THEN is_nan(f, b) ELSE "UNDERFLOW" \in soft.raised \/ b = soft.bits

\* The correctly rounded pattern agrees with a softfloat answer that may be halved.
LEMMA HalvedAgrees ==
    ASSUME NEW f, NEW soft, NEW correct, NEW num, NEW den, RoundedOrHalved(soft, correct, num, den, f),
           ~is_nan(f, soft.bits), NEW b, b = correct.bits
    PROVE  Agrees(b, soft, f)
  BY DEF RoundedOrHalved, Agrees

\* A finite pattern is neither a NaN nor an infinity, and the other way round.
LEMMA FiniteOrSpecial ==
    ASSUME NEW f \in Formats, NEW x \in Patterns(f), ~is_nan(f, x), ~is_infinite(f, x)
    PROVE  IsFinite(f, x)
<1>1. mantissa(f, x) = 0 \/ mantissa(f, x) # 0
  OBVIOUS
<1>2. QED BY <1>1 DEF is_nan, is_infinite, IsFinite

\* An infinity is not a zero.
LEMMA InfiniteIsNoZero ==
    ASSUME NEW f \in Formats, NEW x \in Patterns(f), is_infinite(f, x)
    PROVE  ~is_zero(f, x)
<1>1. max_exponent(f) # 0
  BY FormatSizes DEF Sizes
<1>2. QED BY <1>1, IsZeroIs DEF is_infinite

\* Without flushing, add is its arithmetic.
LEMMA PlainAdd ==
    ASSUME NEW f \in Formats, NEW x, NEW y, NEW r, NEW c, ~is_flushing(f, c), NEW sub \in BOOLEAN,
           NEW z, z = IF sub THEN negated(f, y) ELSE y, is_infinite(f, x) \/ is_infinite(f, z),
           ~any_nan(<<x, z>>, f), ~(is_infinite(f, x) /\ is_infinite(f, z) /\ is_negative(f, x) # is_negative(f, z))
    PROVE  add(x, y, sub, f, r, c).bits = IF is_infinite(f, x) THEN x ELSE z
<1>1. /\ flushed(x, f, c).bits = x /\ flushed(x, f, c).raised = {}
      /\ flushed(y, f, c).bits = y /\ flushed(y, f, c).raised = {}
  BY UnflushedIs
<1>2. z = IF sub THEN negated(f, flushed(y, f, c).bits) ELSE flushed(y, f, c).bits
  BY <1>1
<1>3. add(x, y, sub, f, r, c)
        = with_flags(added(flushed(x, f, c).bits, z, f, r, c),
                     flushed(x, f, c).raised \cup flushed(y, f, c).raised)
  BY <1>2 DEF add, added
<1>4. added(x, z, f, r, c) = Exact(IF is_infinite(f, x) THEN x ELSE z)
  BY DEF added, add_infinities
<1> DEFINE w == IF is_infinite(f, x) THEN x ELSE z
<1>5. PICK none : none = {}
  OBVIOUS
<1>6. add(x, y, sub, f, r, c) = with_flags(Raising(w, none), none \cup none)
  BY <1>1, <1>3, <1>4, <1>5 DEF Exact, Raising
<1> HIDE DEF w
<1>7. add(x, y, sub, f, r, c) = Raising(w, none)
  BY <1>5, <1>6, NoFlags
<1>8. QED BY <1>7, RaisingIs DEF w

\* The host's sum and difference.
LEMMA HostSumAgrees ==
    ASSUME NEW f \in Formats, NEW x \in Patterns(f), NEW y \in Patterns(f), NEW c, ~is_flushing(f, c),
           NEW op \in {"Add", "Sub"}, NEW sub \in BOOLEAN, sub <=> op = "Sub", NEW r, r = "Nearest",
           NEW b \in HostAnswers(op, x, y, f)
    PROVE  Agrees(b, add(x, y, sub, f, r, c), f)
<1> DEFINE z == IF sub THEN negated(f, y) ELSE y
           soft == add(x, y, sub, f, r, c)
<1>1. PICK invalid \in BOOLEAN : invalid = (is_infinite(f, x) /\ is_infinite(f, y)
                                            /\ ((is_negative(f, x) # is_negative(f, y)) # sub))
  OBVIOUS
<1>2. NanConclusion(soft, x, y, invalid, f, c)
  BY <1>1, SumNans
<1>3. is_nan(f, soft.bits) <=> (is_nan(f, x) \/ is_nan(f, y) \/ invalid)
  BY <1>2, PairOfOperands DEF NanConclusion
<1>4. is_negative(f, x) \in BOOLEAN /\ is_negative(f, y) \in BOOLEAN
  BY PatternOfFields
<1>5. /\ z \in Patterns(f) /\ (is_nan(f, z) <=> is_nan(f, y)) /\ (is_infinite(f, z) <=> is_infinite(f, y))
      /\ is_negative(f, z) = (is_negative(f, y) # sub)
  <2>1. CASE sub
    BY <1>4, <2>1, NegatedKinds
  <2>2. CASE ~sub
    BY <1>4, <2>2
  <2>3. QED BY <2>1, <2>2
<1>6. z = IF op = "Sub" THEN negated(f, y) ELSE y
  OBVIOUS
<1>7. invalid <=> (is_infinite(f, x) /\ is_infinite(f, z) /\ is_negative(f, x) # is_negative(f, z))
  BY <1>1, <1>4, <1>5
<1> HIDE DEF z, soft
<1>8. CASE is_nan(f, x) \/ is_nan(f, y) \/ invalid
  <2>1. b \in {p \in Patterns(f) : is_nan(f, p)}
    BY <1>5, <1>6, <1>7, <1>8 DEF HostAnswers
  <2>2. QED BY <1>3, <1>8, <2>1 DEF Agrees, soft
<1>9. CASE ~(is_nan(f, x) \/ is_nan(f, y) \/ invalid)
  <2>1. b = IF is_infinite(f, x) THEN x ELSE IF is_infinite(f, z) THEN z ELSE IeeeAdd(x, z, f, "Nearest").bits
    BY <1>5, <1>6, <1>7, <1>9 DEF HostAnswers
  <2>2. CASE is_infinite(f, x) \/ is_infinite(f, z)
    <3>1. ~any_nan(<<x, z>>, f)
      BY <1>5, <1>9, PairOfOperands
    <3>2. soft.bits = IF is_infinite(f, x) THEN x ELSE z
      BY <1>7, <1>9, <2>2, <3>1, PlainAdd DEF z, soft
    <3>3. QED BY <1>3, <1>9, <2>1, <2>2, <3>2 DEF Agrees, soft
  <2>3. CASE ~(is_infinite(f, x) \/ is_infinite(f, z))
    <3>1. IsFinite(f, x) /\ IsFinite(f, y)
      BY <1>5, <1>9, <2>3, FiniteOrSpecial
    <3>2. r \in Modes
      BY DEF Modes
    <3>3. soft = IeeeAdd(x, z, f, r)
      BY <3>1, <3>2, SumRounds DEF soft, z
    <3>4. QED BY <1>3, <1>9, <2>1, <2>3, <3>3 DEF Agrees, soft
  <2>4. QED BY <2>2, <2>3
<1>10. QED BY <1>8, <1>9

\* So is multiply,
LEMMA PlainMultiply ==
    ASSUME NEW f \in Formats, NEW x, NEW y, NEW r, NEW c, ~is_flushing(f, c), NEW p, p = multiplied(x, y, f, r, c),
           p \in Results(f)
    PROVE  multiply(x, y, f, r, c).bits = p.bits /\ multiply(x, y, f, r, c).raised = p.raised
<1>1. /\ flushed(x, f, c).bits = x /\ flushed(x, f, c).raised = {}
      /\ flushed(y, f, c).bits = y /\ flushed(y, f, c).raised = {}
  BY UnflushedIs
<1>2. PICK none : none = {}
  OBVIOUS
<1>3. multiply(x, y, f, r, c) = with_flags(p, none \cup none)
  BY <1>1, <1>2, MultiplyIs
<1>4. QED BY <1>2, <1>3, PlainFlags

\* and divide.
LEMMA PlainDivide ==
    ASSUME NEW f \in Formats, NEW x, NEW y, NEW r, NEW c, ~is_flushing(f, c), NEW p, p = divided(x, y, f, r, c),
           p \in Results(f)
    PROVE  divide(x, y, f, r, c).bits = p.bits /\ divide(x, y, f, r, c).raised = p.raised
<1>1. /\ flushed(x, f, c).bits = x /\ flushed(x, f, c).raised = {}
      /\ flushed(y, f, c).bits = y /\ flushed(y, f, c).raised = {}
  BY UnflushedIs
<1>2. PICK none : none = {}
  OBVIOUS
<1>3. divide(x, y, f, r, c) = with_flags(p, none \cup none)
  BY <1>1, <1>2, DivideIs
<1>4. QED BY <1>2, <1>3, PlainFlags

\* The host's product.
LEMMA HostProductAgrees ==
    ASSUME NEW f \in Formats, NEW x \in Patterns(f), NEW y \in Patterns(f), NEW c, ~is_flushing(f, c),
           NEW r, r = "Nearest", NEW b \in HostAnswers("Mul", x, y, f)
    PROVE  Agrees(b, multiply(x, y, f, r, c), f)
<1> DEFINE soft == multiply(x, y, f, r, c)
           p == multiplied(x, y, f, r, c)
           n == is_negative(f, x) # is_negative(f, y)
<1>1. PICK invalid \in BOOLEAN : invalid = ((is_infinite(f, x) /\ is_zero(f, y)) \/ (is_zero(f, x) /\ is_infinite(f, y)))
  OBVIOUS
<1>2. Accounted(p, x, y, invalid, f, c)
  BY <1>1, MultipliedAccounted
<1>3. p \in Results(f)
  <2> HIDE DEF p
  <2>1. QED BY <1>2, AccountedResult
<1>4. is_nan(f, p.bits) <=> (is_nan(f, x) \/ is_nan(f, y) \/ invalid)
  <2> HIDE DEF p
  <2>1. is_nan(f, default_nan(f))
    BY DefaultNanIsNan
  <2>2. QED BY <1>2, <2>1 DEF Accounted, AnswersNan, AnswersInvalid, AnswersNumber
<1>5. soft.bits = p.bits /\ soft.raised = p.raised
  <2>1. p = multiplied(x, y, f, r, c)
    OBVIOUS
  <2> HIDE DEF p
  <2>2. QED BY <1>3, <2>1, PlainMultiply
<1> HIDE DEF soft
<1>6. CASE is_nan(f, x) \/ is_nan(f, y) \/ invalid
  <2>1. b \in {q \in Patterns(f) : is_nan(f, q)}
    BY <1>1, <1>6 DEF HostAnswers
  <2>2. QED BY <1>4, <1>5, <1>6, <2>1 DEF Agrees, soft
<1>7. CASE ~(is_nan(f, x) \/ is_nan(f, y) \/ invalid)
  <2>1. b = IF is_infinite(f, x) \/ is_infinite(f, y) THEN signed_infinity(f, n)
            ELSE IeeeMul(x, y, f, "Nearest").bits
    BY <1>1, <1>7 DEF HostAnswers
  <2>2. CASE is_infinite(f, x) \/ is_infinite(f, y)
    <3>1. p = Exact(signed_infinity(f, n))
      <4>1. ~any_nan(<<x, y>>, f) /\ ~(is_zero(f, x) \/ is_zero(f, y))
        BY <1>1, <1>7, <2>2, PairOfOperands, InfiniteIsNoZero
      <4>2. QED BY <2>2, <4>1 DEF multiplied
    <3>2. b = soft.bits
      BY <1>5, <2>1, <2>2, <3>1, RaisingIs
    <3>3. QED BY <1>4, <1>5, <1>7, <3>2 DEF Agrees, soft
  <2>3. CASE ~(is_infinite(f, x) \/ is_infinite(f, y))
    <3>1. IsFinite(f, x) /\ IsFinite(f, y)
      BY <1>7, <2>3, FiniteOrSpecial
    <3>2. r \in Modes
      BY DEF Modes
    <3>3. RoundedOrHalved(p, IeeeMul(x, y, f, r), Ulps(f, x) * Ulps(f, y), pow2[UnitBits(f)], f)
      BY <3>1, <3>2, MultipliedRounds
    <3>4. Agrees(b, p, f)
      <4>1. b = IeeeMul(x, y, f, r).bits
        BY <2>1, <2>3
      <4> HIDE DEF p
      <4>2. QED BY <1>4, <1>7, <3>3, <4>1, HalvedAgrees
    <3>5. QED BY <1>5, <3>4 DEF Agrees, soft
  <2>4. QED BY <2>2, <2>3
<1>8. QED BY <1>6, <1>7

\* The host's quotient.
LEMMA HostQuotientAgrees ==
    ASSUME NEW f \in Formats, NEW x \in Patterns(f), NEW y \in Patterns(f), NEW c, ~is_flushing(f, c),
           NEW r, r = "Nearest", NEW b \in HostAnswers("Div", x, y, f)
    PROVE  Agrees(b, divide(x, y, f, r, c), f)
<1> DEFINE soft == divide(x, y, f, r, c)
           p == divided(x, y, f, r, c)
           n == is_negative(f, x) # is_negative(f, y)
<1>1. PICK invalid \in BOOLEAN : invalid = ((is_infinite(f, x) /\ is_infinite(f, y)) \/ (is_zero(f, x) /\ is_zero(f, y)))
  OBVIOUS
<1>2. Accounted(p, x, y, invalid, f, c)
  BY <1>1, DividedAccounted
<1>3. p \in Results(f)
  <2> HIDE DEF p
  <2>1. QED BY <1>2, AccountedResult
<1>4. is_nan(f, p.bits) <=> (is_nan(f, x) \/ is_nan(f, y) \/ invalid)
  <2> HIDE DEF p
  <2>1. is_nan(f, default_nan(f))
    BY DefaultNanIsNan
  <2>2. QED BY <1>2, <2>1 DEF Accounted, AnswersNan, AnswersInvalid, AnswersNumber
<1>5. soft.bits = p.bits /\ soft.raised = p.raised
  <2>1. p = divided(x, y, f, r, c)
    OBVIOUS
  <2> HIDE DEF p
  <2>2. QED BY <1>3, <2>1, PlainDivide
<1> HIDE DEF soft
<1>6. CASE is_nan(f, x) \/ is_nan(f, y) \/ invalid
  <2>1. b \in {q \in Patterns(f) : is_nan(f, q)}
    BY <1>1, <1>6 DEF HostAnswers
  <2>2. QED BY <1>4, <1>5, <1>6, <2>1 DEF Agrees, soft
<1>7. CASE ~(is_nan(f, x) \/ is_nan(f, y) \/ invalid)
  <2>1. b = IF is_infinite(f, x) \/ is_zero(f, y) THEN signed_infinity(f, n)
            ELSE IF is_infinite(f, y) THEN zero(f, n) ELSE IeeeDiv(x, y, f, "Nearest").bits
    BY <1>1, <1>7 DEF HostAnswers
  <2>2. is_infinite(f, y) => ~is_zero(f, y)
    BY InfiniteIsNoZero
  <2>3. CASE is_infinite(f, x) \/ is_zero(f, y) \/ is_infinite(f, y)
    <3>1. p = divide_specials(x, y, n, f)
      BY <1>7, <2>3, PairOfOperands DEF divided
    <3>2. divide_specials(x, y, n, f).bits = b
      BY <1>1, <1>7, <2>1, <2>2, <2>3 DEF divide_specials, Exact, Raising
    <3>3. QED BY <1>4, <1>5, <1>7, <3>1, <3>2 DEF Agrees, soft
  <2>4. CASE ~(is_infinite(f, x) \/ is_zero(f, y) \/ is_infinite(f, y))
    <3>1. IsFinite(f, x) /\ IsFinite(f, y)
      BY <1>7, <2>4, FiniteOrSpecial
    <3>2. r \in Modes
      BY DEF Modes
    <3>3. RoundedOrHalved(p, IeeeDiv(x, y, f, r), Ulps(f, x) * pow2[UnitBits(f)], Ulps(f, y), f)
      BY <2>4, <3>1, <3>2, DividedRounds
    <3>4. Agrees(b, p, f)
      <4>1. b = IeeeDiv(x, y, f, r).bits
        BY <2>1, <2>4
      <4> HIDE DEF p
      <4>2. QED BY <1>4, <1>7, <3>3, <4>1, HalvedAgrees
    <3>5. QED BY <1>5, <3>4 DEF Agrees, soft
  <2>5. QED BY <2>3, <2>4
<1>8. QED BY <1>6, <1>7

\* The host's value of a pattern.
HostValue(f, b) ==
    (IF is_negative(f, b) THEN -1 ELSE 1) * (IF is_infinite(f, b) THEN Ulps(f, infinity(f)) ELSE Ulps(f, b))

\* It is the value in units, infinities included.
LEMMA HostValueIs ==
    ASSUME NEW f \in Formats, NEW x \in Patterns(f)
    PROVE  HostValue(f, x) = SignedUlps(f, x)
<1>1. is_infinite(f, x) => Ulps(f, x) = Ulps(f, infinity(f))
  <2>1. SUFFICES ASSUME is_infinite(f, x) PROVE Ulps(f, x) = Ulps(f, infinity(f))
    OBVIOUS
  <2>2. PICK no \in BOOLEAN : ~no
    OBVIOUS
  <2>3. infinity(f) = signed_infinity(f, no)
    <3>1. infinity(f) \in Int
      BY Magnitudes
    <3>2. QED BY <2>2, <3>1 DEF signed_infinity, zero
  <2>4. raw_exponent(f, infinity(f)) = max_exponent(f) /\ mantissa(f, infinity(f)) = 0
    BY <2>3, InfinityIsInfinite
  <2>5. raw_exponent(f, x) = max_exponent(f) /\ mantissa(f, x) = 0
    BY <2>1 DEF is_infinite
  <2>6. QED BY <2>4, <2>5 DEF Ulps
<1>2. Ulps(f, x) \in Nat
  BY UlpsOrder
<1> DEFINE U == IF is_infinite(f, x) THEN Ulps(f, infinity(f)) ELSE Ulps(f, x)
<1>3. U = Ulps(f, x)
  BY <1>1
<1> HIDE DEF U
<1>4. HostValue(f, x) = (IF is_negative(f, x) THEN -1 ELSE 1) * U
  BY DEF HostValue, U
<1>5. QED BY <1>2, <1>3, <1>4 DEF SignedUlps

\* The host orders as the softfloat does.
LEMMA HostOrderAgrees ==
    ASSUME NEW f \in Formats, NEW x \in Patterns(f), NEW y \in Patterns(f), NEW s
    PROVE  HostOrder(x, y, f) = compare(x, y, f, s).ordering
<1> DEFINE u == HostValue(f, x)
           v == HostValue(f, y)
           o == ordering(x, y, f)
<1>1. HostOrder(x, y, f) = IF is_nan(f, x) \/ is_nan(f, y) THEN "Unordered"
                           ELSE IF u < v THEN "Less" ELSE IF u > v THEN "Greater" ELSE "Equal"
  BY DEF HostOrder, HostValue
<1>2. compare(x, y, f, s).ordering = IF is_nan(f, x) \/ is_nan(f, y) THEN "Unordered" ELSE o
  BY PairOfOperands DEF compare
<1>3. /\ u \in Int /\ v \in Int /\ o \in {"Less", "Equal", "Greater"}
      /\ (o = "Less") = (u < v) /\ (o = "Equal") = (u = v) /\ (o = "Greater") = (u > v)
  BY HostValueIs, OrderingIs
<1> HIDE DEF u, v, o
<1>4. o = IF u < v THEN "Less" ELSE IF u > v THEN "Greater" ELSE "Equal"
  BY <1>3
<1>5. QED BY <1>1, <1>2, <1>4

\* A converted NaN is a NaN.
LEMMA ConvertedNan ==
    ASSUME NEW f \in Formats, NEW g \in Formats, NEW y \in Patterns(f), NEW c
    PROVE  is_nan(g, convert_nan(y, f, g, c).bits)
<1> DEFINE n == is_negative(f, y)
           p == moved_payload(y, f, g)
           Q == quiet_bit(g)
           M == pow2[g.mantissa_bits]
           m == Q + p
           b == zero(g, n) + default_nan(g) + p
<1>1. /\ Q \in Nat \ {0} /\ M = 2 * Q /\ M \in Nat \ {0} /\ infinity(g) = max_exponent(g) * M
      /\ max_exponent(g) \in Nat
  BY FormatSizes DEF Sizes
<1>2. n \in BOOLEAN /\ mantissa(f, y) \in Nat /\ f.mantissa_bits \in Int /\ g.mantissa_bits \in Int
  <2>1. mantissa(f, y) \in 0 .. pow2[f.mantissa_bits] - 1 /\ pow2[f.mantissa_bits] \in Nat
    BY PatternOfFields, Scales
  <2>2. QED BY <2>1, PatternOfFields, Scales
<1>3. p \in 0 .. Q - 1
  <2> DEFINE w == g.mantissa_bits - f.mantissa_bits
             v == -w
             k == mantissa(f, y)
  <2> HIDE DEF Q
  <2>1. \A z \in Nat : z % Q \in 0 .. Q - 1
    BY <1>1, Z3
  <2>2. CASE w >= 0
    <3>1. w \in Nat
      BY <1>2, <2>2
    <3>2. p = (k * pow2[w]) % Q
      BY <2>2 DEF moved_payload, Q
    <3> HIDE DEF w, k
    <3>3. pow2[w] \in Nat
      BY <3>1, PowSucc
    <3>4. k * pow2[w] \in Nat
      <4>1. k \in Nat
        BY <1>2 DEF k
      <4>2. k * pow2[w] \in Int /\ k * pow2[w] >= 0
        BY <3>3, <4>1, TimesTyped
      <4>3. QED BY <4>2
    <3>5. QED BY <2>1, <3>2, <3>4
  <2>3. CASE ~(w >= 0)
    <3>1. v \in Nat
      BY <1>2, <2>3
    <3>2. p = (k \div pow2[v]) % Q
      BY <2>3 DEF moved_payload, Q
    <3> HIDE DEF w, v, k
    <3>3. pow2[v] \in Nat \ {0} /\ k \in Nat
      BY <1>2, <3>1, PowSucc DEF k
    <3>4. k \div pow2[v] \in Nat
      BY <3>3, DivAtMost
    <3>5. QED BY <2>1, <3>2, <3>4
  <2>4. QED BY <2>2, <2>3
<1> HIDE DEF p, Q, n
<1>4. m \in 0 .. M - 1 /\ m # 0
  BY <1>1, <1>3
<1>5. b = Pattern(g, n, max_exponent(g), m)
  <2>1. zero(g, n) \in Nat /\ max_exponent(g) * M \in Int
    <3>1. sign_bit(g) \in Nat
      BY FormatSizes DEF Sizes
    <3>2. QED BY <1>1, <3>1, TimesTyped DEF zero
  <2>2. default_nan(g) = max_exponent(g) * M + Q
    BY <1>1 DEF default_nan, Q
  <2>3. QED BY <1>1, <1>3, <2>1, <2>2 DEF Pattern
<1>6. is_nan(g, b)
  <2>1. max_exponent(g) \in 0 .. max_exponent(g)
    BY <1>1
  <2> HIDE DEF m
  <2>2. raw_exponent(g, Pattern(g, n, max_exponent(g), m)) = max_exponent(g)
        /\ mantissa(g, Pattern(g, n, max_exponent(g), m)) = m
    BY <1>2, <1>4, <2>1, FieldsOfPattern
  <2>3. QED BY <1>4, <1>5, <2>2 DEF is_nan
<1>7. CASE c.default_nan
  BY <1>7, DefaultNanIsNan DEF convert_nan, Raising
<1>8. CASE ~c.default_nan
  BY <1>6, <1>8 DEF convert_nan, Raising, n, p
<1>9. QED BY <1>7, <1>8

\* What FCVT of a finite value answers is a number.
LEMMA ConvertedNumber ==
    ASSUME NEW f \in Formats, NEW g \in Formats, NEW y \in Patterns(f), IsFinite(f, y), ~is_zero(f, y), NEW r, NEW c
    PROVE  ~is_nan(g, convert_format(y, f, g, c, r).bits)
<1> DEFINE u == unpack(y, f)
           t == rescale(u.significand, f, g)
           q == Scaled(f, y, UnitBits(g))
<1>1. /\ ~is_nan(f, y) /\ ~is_infinite(f, y) /\ Ulps(f, y) \in Nat /\ u \in UnpackedValues /\ Measures(u, Ulps(f, y), f)
      /\ (u.significand = 0 <=> is_zero(f, y))
  BY FiniteOperand
<1>2. Carries(u, Ulps(f, y), f)
  BY <1>1 DEF Measures
<1>3. IsScaled(q.num, q.den, Ulps(f, y), UnitBits(g), f)
  BY UnitBitsIs, ScaledIs
<1>4. q.num \in Nat /\ q.den \in Nat \ {0}
  BY <1>3 DEF IsScaled
<1>5. convert_format(y, f, g, c, r) = round_and_pack([u EXCEPT !.significand = t.kept], t.lost, g, r, c)
  BY <1>1 DEF convert_format
<1>6. t = rescale(u.significand, f, g)
  OBVIOUS
<1> HIDE DEF t, u, q
<1>7. t.kept \in Nat /\ t.lost \in BOOLEAN /\ Ready(t.kept, t.lost, u.exponent, q.num, q.den, g)
  BY <1>1, <1>2, <1>3, <1>4, <1>6, RescaledReady
<1> DEFINE v == [u EXCEPT !.significand = t.kept]
<1>8. v \in UnpackedValues /\ v.significand = t.kept
  BY <1>1, <1>7 DEF UnpackedValues
<1>9. v.significand < pow2[2 * WORD + 1]
  <2>1. t.kept < pow2[WORD]
    BY <1>7 DEF Ready
  <2>2. WORD \in Nat /\ 2 * WORD + 1 \in Nat /\ WORD <= 2 * WORD + 1
    BY WideEnough
  <2>3. pow2[WORD] <= pow2[2 * WORD + 1] /\ pow2[WORD] \in Nat /\ pow2[2 * WORD + 1] \in Nat
    BY <2>2, PowMono, PowSucc
  <2>4. QED BY <1>7, <1>8, <2>1, <2>3
<1> HIDE DEF v
<1>10. IsRoundedNumber(round_and_pack(v, t.lost, g, r, c), g, v.is_negative)
  BY <1>7, <1>8, <1>9, RoundAndPackIsNumber
<1>11. QED BY <1>5, <1>10 DEF v, IsRoundedNumber

\* The host's cast.
LEMMA HostCastAgrees ==
    ASSUME NEW f \in Formats, NEW g \in Formats, NEW y \in Patterns(f), NEW c, ~is_flushing(g, c),
           NEW r, r = "Nearest", NEW b \in HostCast(y, f, g)
    PROVE  Agrees(b, convert_format(y, f, g, c, r), g)
<1> DEFINE soft == convert_format(y, f, g, c, r)
           n == is_negative(f, y)
<1>1. n \in BOOLEAN
  BY PatternOfFields
<1>2. CASE is_nan(f, y)
  <2>1. b \in {q \in Patterns(g) : is_nan(g, q)}
    BY <1>2 DEF HostCast
  <2>2. soft = convert_nan(y, f, g, c)
    BY <1>2 DEF convert_format
  <2>3. is_nan(g, soft.bits)
    BY <2>2, ConvertedNan
  <2> HIDE DEF soft
  <2>4. QED BY <2>1, <2>3 DEF Agrees, soft
<1>3. CASE ~is_nan(f, y) /\ is_infinite(f, y)
  <2>1. b = signed_infinity(g, n)
    BY <1>3 DEF HostCast
  <2>2. soft = Exact(signed_infinity(g, n))
    BY <1>3 DEF convert_format
  <2>3. b = soft.bits
    BY <2>1, <2>2, RaisingIs
  <2> HIDE DEF soft
  <2>4. QED BY <2>3 DEF Agrees, soft
<1>4. CASE ~is_nan(f, y) /\ ~is_infinite(f, y) /\ is_zero(f, y)
  <2>1. b = zero(g, n)
    BY <1>4 DEF HostCast
  <2>2. soft = Exact(zero(g, n))
    BY <1>4 DEF convert_format
  <2>3. b = soft.bits
    BY <2>1, <2>2, RaisingIs
  <2> HIDE DEF soft
  <2>4. QED BY <2>3 DEF Agrees, soft
<1>5. CASE ~is_nan(f, y) /\ ~is_infinite(f, y) /\ ~is_zero(f, y)
  <2>1. PICK q : q = Scaled(f, y, UnitBits(g))
    OBVIOUS
  <2>2. b = Rounded(q.num, q.den, n, g, r).bits
    BY <1>5, <2>1 DEF HostCast
  <2>3. IsFinite(f, y) /\ r \in Modes
    BY <1>5, FiniteOrSpecial DEF Modes
  <2>4. RoundedOrHalved(soft, Rounded(q.num, q.den, n, g, r), q.num, q.den, g)
    BY <1>5, <2>1, <2>3, ConvertRounds
  <2>5. ~is_nan(g, soft.bits)
    BY <1>5, <2>3, ConvertedNumber
  <2> HIDE DEF soft
  <2>6. QED BY <2>2, <2>4, <2>5, HalvedAgrees DEF soft
<1>6. QED BY <1>2, <1>3, <1>4, <1>5

\* The bit test of is_default_mode_bits is the field test of is_default_mode:
\* the mask names every field from_bits reads and no other bit.
LEMMA MaskIsDefaultMode ==
    ASSUME NEW bits \in Nat
    PROVE  is_default_mode_bits(bits) <=> is_default_mode(from_bits(bits))
<1>1. bits % 64 = 0 <=> /\ (bits % 4) % 4 = 0
                        /\ (bits \div 4) % 2 # 1 /\ (bits \div 8) % 2 # 1
                        /\ (bits \div 16) % 2 # 1 /\ (bits \div 32) % 2 # 1
  BY Z3
<1>2. from_rmode(bits % 4) = "Nearest" <=> (bits % 4) % 4 = 0
  <2>1. (bits % 4) % 4 \in 0 .. 3
    BY Z3
  <2>2. QED BY <2>1 DEF from_rmode
<1>3. is_default_mode_bits(bits) <=> bits % 64 = 0
  BY DEF is_default_mode_bits, FZ16_BIT
<1>4. is_default_mode(from_bits(bits)) <=>
        /\ from_rmode(bits % 4) = "Nearest"
        /\ (bits \div 4) % 2 # 1 /\ (bits \div 8) % 2 # 1
        /\ (bits \div 16) % 2 # 1 /\ (bits \div 32) % 2 # 1
  BY Zenon DEF is_default_mode, from_bits, FpcrBit, FZ_BIT, DN_BIT, AHP_BIT, FZ16_BIT
<1>5. QED BY <1>1, <1>2, <1>3, <1>4

\* What the engine keeps is a function of the FPCR last written.
Cached ==
    /\ fpcr \in Nat
    /\ control = from_bits(fpcr)
    /\ selected = select(fpcr)

\* The cached selection is the one the property asks for.
LEMMA CachedImpliesSelection == Cached => SelectionFollowsFpcr
  BY MaskIsDefaultMode DEF Cached, SelectionFollowsFpcr, select

\* No operation touches what the engine keeps, or clears a flag.
LEMMA OperateOnlyAccumulates ==
    ASSUME NEW call, Operate(call)
    PROVE  UNCHANGED <<fpcr, selected, control>> /\ exceptions \subseteq exceptions'
<1>1. CASE Binary(call)
  BY <1>1 DEF Binary, record_answer, accumulate
<1>2. CASE Unary(call)
  BY <1>2 DEF Unary, record_answer, accumulate
<1>3. CASE FusedMultiplyAdd(call)
  BY <1>3 DEF FusedMultiplyAdd, record_answer, accumulate
<1>4. CASE ToInteger(call)
  BY <1>4 DEF ToInteger, record_answer, accumulate
<1>5. CASE ConvertFromInteger(call)
  BY <1>5 DEF ConvertFromInteger, record_answer, accumulate
<1>6. CASE ConvertFormat(call)
  BY <1>6 DEF ConvertFormat, record_answer, accumulate
<1>7. CASE Compare(call)
  BY <1>7 DEF Compare, record_answer, accumulate
<1>8. CASE CompareOrdering(call)
  BY <1>8 DEF CompareOrdering, record_answer, accumulate
<1>9. CASE CopySign(call)
  BY <1>9 DEF CopySign
<1>10. QED BY <1>1, <1>2, <1>3, <1>4, <1>5, <1>6, <1>7, <1>8, <1>9 DEF Operate

\* The selection cached at the last FPCR write is that of the FPCR.
LEMMA CachedInvariant == EngineSpec => []Cached
<1>1. EngineInit => Cached
  BY DEF EngineInit, Cached
<1>2. Cached /\ [EngineNext]_engineVars => Cached'
  <2> SUFFICES ASSUME Cached, [EngineNext]_engineVars PROVE Cached'
    OBVIOUS
  <2>1. ASSUME NEW bits \in Fpcrs, set_fpcr(bits) PROVE Cached'
    BY <2>1, EngineAssumption DEF set_fpcr, Cached
  <2>2. ASSUME NEW fpsr \in Fpsrs, set_exceptions(fpsr) PROVE Cached'
    BY <2>2 DEF set_exceptions, Cached, select
  <2>3. ASSUME NEW call \in Calls, Operate(call) PROVE Cached'
    BY <2>3, OperateOnlyAccumulates DEF Cached, select
  <2>4. CASE UNCHANGED engineVars
    BY <2>4 DEF engineVars, Cached, select
  <2>5. QED BY <2>1, <2>2, <2>3, <2>4 DEF EngineNext
<1>3. QED BY <1>1, <1>2, PTL DEF EngineSpec

\* The cached backend is always the one machine-spec.md section 6 asks for under
\* the FPCR in force, after any sequence of register writes and operations.
THEOREM SelectionAlwaysFollowsFpcr == EngineSpec => []SelectionFollowsFpcr
  BY CachedInvariant, CachedImpliesSelection, PTL

\* No operation and no change of backend clears a flag of FPSR.
THEOREM FlagsStaySticky == EngineSpec => FlagsAreSticky
<1>1. [EngineNext]_engineVars =>
        [answer'.method # "set_exceptions" => exceptions \subseteq exceptions']_engineVars
  <2> SUFFICES ASSUME EngineNext, answer'.method # "set_exceptions"
               PROVE  exceptions \subseteq exceptions'
    OBVIOUS
  <2>1. ASSUME NEW bits \in Fpcrs, set_fpcr(bits) PROVE exceptions \subseteq exceptions'
    BY <2>1 DEF set_fpcr
  <2>2. ASSUME NEW fpsr \in Fpsrs, set_exceptions(fpsr) PROVE FALSE
    BY <2>2 DEF set_exceptions
  <2>3. ASSUME NEW call \in Calls, Operate(call) PROVE exceptions \subseteq exceptions'
    BY <2>3, OperateOnlyAccumulates
  <2>4. QED BY <2>1, <2>2, <2>3 DEF EngineNext
<1>2. QED BY <1>1, PTL DEF EngineSpec, FlagsAreSticky

\* Whatever FPCR selects the host flushes nothing and rounds to nearest.
LEMMA NativeControl ==
    ASSUME Cached, selected = "Native", NEW f
    PROVE  ~is_flushing(f, control) /\ control.rounding = "Nearest"
<1>1. is_default_mode(control)
  BY MaskIsDefaultMode DEF Cached, select
<1>2. QED BY <1>1 DEF is_default_mode, is_flushing

\* The answer to a call stands in the relation SelectionIsInvisible asks for.
BinaryInvisible(call, bits) ==
    Agrees(bits, soft_binary(call.op, call.operands, control), call.operands.format)

\* The same of a conversion,
CastInvisible(call, bits) ==
    Agrees(bits, soft_convert_format(call.operand, call.target, control), call.target)

\* and of a comparison, whose flags are exact.
CompareInvisible(call, bits) ==
    bits = to_nzcv(soft_compare(call.operands, call.is_signalling).ordering)

\* A call that softfloat serves is served by softfloat.
LEMMA SoftAgrees ==
    ASSUME NEW f, NEW soft
    PROVE  Agrees(soft.bits, soft, f)
  BY DEF Agrees

\* A host's answer to an operation it can serve agrees with the softfloat's.
LEMMA NativeBinaryAgrees ==
    ASSUME NEW op, NEW o, o.format \in Formats, o.lhs \in Patterns(o.format), o.rhs \in Patterns(o.format),
           NEW c, ~is_flushing(o.format, c), NEW result \in native_binary(op, o, c)
    PROVE  Agrees(result.bits, soft_binary(op, o, c), o.format)
<1> DEFINE f == o.format
           x == o.lhs
           y == o.rhs
           r == o.rounding
<1>1. CASE ~(can_serve(f, r) /\ op \in {"Add", "Sub", "Mul", "Div"})
  <2>1. result = soft_binary(op, o, c)
    BY <1>1 DEF native_binary
  <2>2. QED BY <2>1, SoftAgrees
<1>2. CASE can_serve(f, r) /\ op \in {"Add", "Sub", "Mul", "Div"}
  <2>1. PICK b \in HostAnswers(op, x, y, f) : result = Exact(b)
    BY <1>2 DEF native_binary
  <2>2. result.bits = b
    BY <2>1, RaisingIs
  <2>3. r = "Nearest" /\ f \in Formats /\ x \in Patterns(f) /\ y \in Patterns(f) /\ ~is_flushing(f, c)
    BY <1>2 DEF can_serve
  <2>4. CASE op = "Add"
    <3>1. soft_binary(op, o, c) = add(x, y, FALSE, f, r, c)
      BY <2>4 DEF soft_binary
    <3>2. PICK sub \in BOOLEAN : ~sub
      OBVIOUS
    <3>3. sub = FALSE /\ (sub <=> op = "Sub")
      BY <2>4, <3>2
    <3> HIDE DEF f, x, y, r
    <3>4. Agrees(b, add(x, y, sub, f, r, c), f)
      BY <2>1, <2>3, <2>4, <3>3, HostSumAgrees
    <3>5. QED BY <2>2, <3>1, <3>3, <3>4 DEF f
  <2>5. CASE op = "Sub"
    <3>1. soft_binary(op, o, c) = add(x, y, TRUE, f, r, c)
      BY <2>5 DEF soft_binary
    <3>2. PICK sub \in BOOLEAN : sub
      OBVIOUS
    <3>3. sub = TRUE /\ (sub <=> op = "Sub")
      BY <2>5, <3>2
    <3> HIDE DEF f, x, y, r
    <3>4. Agrees(b, add(x, y, sub, f, r, c), f)
      BY <2>1, <2>3, <2>5, <3>3, HostSumAgrees
    <3>5. QED BY <2>2, <3>1, <3>3, <3>4 DEF f
  <2>6. CASE op = "Mul"
    <3>1. soft_binary(op, o, c) = multiply(x, y, f, r, c)
      BY <2>6 DEF soft_binary
    <3> HIDE DEF f, x, y, r
    <3>2. Agrees(b, multiply(x, y, f, r, c), f)
      BY <2>1, <2>3, <2>6, HostProductAgrees
    <3>3. QED BY <2>2, <3>1, <3>2 DEF f
  <2>7. CASE op = "Div"
    <3>1. soft_binary(op, o, c) = divide(x, y, f, r, c)
      BY <2>7 DEF soft_binary
    <3> HIDE DEF f, x, y, r
    <3>2. Agrees(b, divide(x, y, f, r, c), f)
      BY <2>1, <2>3, <2>7, HostQuotientAgrees
    <3>3. QED BY <2>2, <3>1, <3>2 DEF f
  <2>8. QED BY <1>2, <2>4, <2>5, <2>6, <2>7
<1>3. QED BY <1>1, <1>2

\* A served operation keeps the selection invisible: a binary one,
LEMMA BinaryStep ==
    ASSUME Cached, NEW call \in Calls, Binary(call)
    PROVE  answer'.method = "binary" /\ answer'.call = call /\ BinaryInvisible(call, answer'.bits)
<1> DEFINE o == call.operands
           soft == soft_binary(call.op, o, control)
<1>1. call.method = "binary" /\ o.format \in Formats /\ o.lhs \in Patterns(o.format) /\ o.rhs \in Patterns(o.format)
  BY CallsAssumption DEF Binary
<1>2. PICK result \in IF selected = "Native" THEN native_binary(call.op, o, control) ELSE {soft} :
          record_answer(call, result.bits, result.raised)
  BY DEF Binary
<1>3. answer'.method = "binary" /\ answer'.call = call /\ answer'.bits = result.bits
  BY <1>1, <1>2 DEF record_answer
<1>4. Agrees(result.bits, soft, o.format)
  <2>1. CASE selected = "Native"
    <3>1. ~is_flushing(o.format, control)
      BY <2>1, NativeControl
    <3>2. result \in native_binary(call.op, o, control)
      BY <1>2, <2>1
    <3> HIDE DEF o
    <3>3. QED BY <1>1, <3>1, <3>2, NativeBinaryAgrees
  <2>2. CASE selected # "Native"
    <3>1. result = soft
      BY <1>2, <2>2
    <3>2. QED BY <3>1, SoftAgrees
  <2>3. QED BY <2>1, <2>2
<1>5. QED BY <1>3, <1>4 DEF BinaryInvisible

\* a conversion,
LEMMA CastStep ==
    ASSUME Cached, NEW call \in Calls, ConvertFormat(call)
    PROVE  answer'.method = "convert_format" /\ answer'.call = call /\ CastInvisible(call, answer'.bits)
<1> DEFINE v == call.operand
           g == call.target
           soft == soft_convert_format(v, g, control)
<1>1. call.method = "convert_format" /\ v.format \in Formats /\ g \in Formats /\ v.bits \in Patterns(v.format)
  BY CallsAssumption DEF ConvertFormat
<1>2. PICK result \in IF selected = "Native" THEN native_convert_format(v, g, control) ELSE {soft} :
          record_answer(call, result.bits, result.raised)
  BY DEF ConvertFormat
<1>3. answer'.method = "convert_format" /\ answer'.call = call /\ answer'.bits = result.bits
  BY <1>1, <1>2 DEF record_answer
<1>4. Agrees(result.bits, soft, g)
  <2>1. CASE selected = "Native" /\ {v.format.name, g.name} = {"Single", "Double"}
    <3>1. ~is_flushing(g, control) /\ control.rounding = "Nearest"
      BY <2>1, NativeControl
    <3>2. PICK b \in HostCast(v.bits, v.format, g) : result = Exact(b)
      BY <1>2, <2>1 DEF native_convert_format
    <3>3. result.bits = b
      BY <3>2, RaisingIs
    <3>4. soft = convert_format(v.bits, v.format, g, control, control.rounding)
      BY DEF soft_convert_format
    <3> DEFINE f == v.format
               y == v.bits
               r == control.rounding
    <3>5. f \in Formats /\ g \in Formats /\ y \in Patterns(f) /\ b \in HostCast(y, f, g) /\ r = "Nearest"
      BY <1>1, <3>1, <3>2
    <3> HIDE DEF f, y, r, g
    <3>6. Agrees(b, convert_format(y, f, g, control, r), g)
      BY <3>1, <3>5, HostCastAgrees
    <3>7. QED BY <3>3, <3>4, <3>6 DEF f, y, r
  <2>2. CASE ~(selected = "Native" /\ {v.format.name, g.name} = {"Single", "Double"})
    <3>1. result = soft
      BY <1>2, <2>2 DEF native_convert_format
    <3>2. QED BY <3>1, SoftAgrees
  <2>3. QED BY <2>1, <2>2
<1>5. QED BY <1>3, <1>4 DEF CastInvisible

\* and a comparison.
LEMMA CompareStep ==
    ASSUME NEW call \in Calls, Compare(call)
    PROVE  answer'.method = "compare" /\ answer'.call = call /\ CompareInvisible(call, answer'.bits)
<1> DEFINE o == call.operands
           s == call.is_signalling
<1>1. call.method = "compare" /\ o.format \in Formats /\ o.lhs \in Patterns(o.format) /\ o.rhs \in Patterns(o.format)
  BY CallsAssumption DEF Compare
<1>2. answer'.method = "compare" /\ answer'.call = call /\ answer'.bits = to_nzcv(Compared(call).ordering)
  BY <1>1 DEF Compare, record_answer
<1>3. Compared(call).ordering = soft_compare(o, s).ordering
  <2>1. HostOrder(o.lhs, o.rhs, o.format) = compare(o.lhs, o.rhs, o.format, s).ordering
    <3> HIDE DEF o, s
    <3>1. QED BY <1>1, HostOrderAgrees DEF o
  <2>2. QED BY <2>1 DEF Compared, native_compare, soft_compare
<1>4. QED BY <1>2, <1>3 DEF CompareInvisible

\* So every step keeps it.
LEMMA InvisibleStep ==
    ASSUME Cached, SelectionIsInvisible, [EngineNext]_engineVars
    PROVE  SelectionIsInvisible'
<1> USE DEF BinaryInvisible, CastInvisible, CompareInvisible
<1>1. ASSUME NEW bits \in Fpcrs, set_fpcr(bits) PROVE SelectionIsInvisible'
  <2>1. answer'.method = "None"
    BY <1>1 DEF set_fpcr, NoAnswer
  <2>2. QED BY <2>1 DEF SelectionIsInvisible
<1>2. ASSUME NEW fpsr \in Fpsrs, set_exceptions(fpsr) PROVE SelectionIsInvisible'
  <2>1. answer'.method = "set_exceptions"
    BY <1>2 DEF set_exceptions
  <2>2. QED BY <2>1 DEF SelectionIsInvisible
<1>3. ASSUME NEW call \in Calls, Operate(call) PROVE SelectionIsInvisible'
  <2>1. control' = control
    BY <1>3, OperateOnlyAccumulates
  <2>2. CASE Binary(call)
    <3>1. answer'.method = "binary" /\ answer'.call = call /\ BinaryInvisible(call, answer'.bits)
      BY <2>2, BinaryStep
    <3>2. QED BY <2>1, <3>1 DEF SelectionIsInvisible, Agrees
  <2>3. CASE ConvertFormat(call)
    <3>1. answer'.method = "convert_format" /\ answer'.call = call /\ CastInvisible(call, answer'.bits)
      BY <2>3, CastStep
    <3>2. QED BY <2>1, <3>1 DEF SelectionIsInvisible, Agrees
  <2>4. CASE Compare(call)
    <3>1. answer'.method = "compare" /\ answer'.call = call /\ CompareInvisible(call, answer'.bits)
      BY <2>4, CompareStep
    <3>2. QED BY <3>1 DEF SelectionIsInvisible
  <2>5. CASE Unary(call) \/ FusedMultiplyAdd(call) \/ ToInteger(call) \/ ConvertFromInteger(call)
             \/ CompareOrdering(call) \/ CopySign(call)
    <3>1. answer'.method \in {"unary", "fused_multiply_add", "to_integer", "convert_from_integer",
                              "compare_ordering", "copy_sign"}
      BY <2>5 DEF Unary, FusedMultiplyAdd, ToInteger, ConvertFromInteger, CompareOrdering, CopySign, record_answer
    <3>2. QED BY <3>1 DEF SelectionIsInvisible
  <2>6. QED BY <1>3, <2>2, <2>3, <2>4, <2>5 DEF Operate
<1>4. CASE UNCHANGED engineVars
  BY <1>4 DEF engineVars, SelectionIsInvisible
<1>5. QED BY <1>1, <1>2, <1>3, <1>4 DEF EngineNext

\* Which backend serves an operation cannot be seen in its result, for every
\* format, build, FPCR and call: a NaN answers a NaN, and a number that does not
\* underflow the same number, however the registers were written before.
THEOREM SelectionAlwaysInvisible == EngineSpec => []SelectionIsInvisible
<1>1. EngineInit => SelectionIsInvisible
  BY DEF EngineInit, NoAnswer, SelectionIsInvisible
<1>2. Cached /\ SelectionIsInvisible /\ [EngineNext]_engineVars => SelectionIsInvisible'
  BY InvisibleStep
<1>3. QED BY <1>1, <1>2, CachedInvariant, PTL DEF EngineSpec
=============================================================================
