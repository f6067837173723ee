------------------------- MODULE SoftConvertProofs --------------------------
(***************************************************************************)
(* The conversions of the softfloat for every width of the formats: to and *)
(* from integers, between formats, and to an integral value.  An operand   *)
(* is a fraction; shifting its significand gives an equal fraction         *)
(* (SameRatio), and equal fractions are rounded to the same integer.       *)
(***************************************************************************)
EXTENDS SoftfloatProofs, MC_SoftConvert

\* An integer, moved to its place and packed, is rounded once.
LEMMA IntegerRounds ==
    ASSUME NEW f \in Formats, NEW m \in Nat \ {0}, m < pow2[WORD], NEW n \in BOOLEAN, NEW r \in Modes, NEW c, ~is_flushing(f, c),
           NEW k, k = leading(m), NEW t, t = Placed(m, k, f), NEW num, num = m * pow2[UnitBits(f)]
    PROVE  num \in Nat \ {0} /\ round_and_pack(Unpacked(n, k, t.kept), t.lost, f, r, c) = Rounded(num, 1, n, f, r)
<1> DEFINE B == UnitBits(f)
           g == scale(f)
           e == k + (g - k)
<1>1. WORD \in Nat /\ pow2[WORD] \in Nat /\ min_exponent(f) \in Int /\ g \in Nat
  BY WideEnough
<1>2. k \in Nat /\ pow2[k] <= m /\ m < 2 * pow2[k] /\ k < WORD
  <2>1. 2 * WORD + 1 \in Nat /\ WORD <= 2 * WORD + 1
    BY <1>1
  <2>2. pow2[WORD] <= pow2[2 * WORD + 1] /\ pow2[2 * WORD + 1] \in Nat
    BY <1>1, <2>1, PowMono, PowSucc
  <2>3. m < pow2[2 * WORD + 1]
    BY <1>1, <2>2
  <2>4. k \in 0 .. 2 * WORD /\ pow2[k] <= m /\ m < pow2[k + 1]
    BY <2>3, LeadingIs
  <2>5. k \in Nat
    BY <1>1, <2>4
  <2>6. pow2[k] \in Nat /\ pow2[k + 1] = 2 * pow2[k]
    BY <2>5, PowSucc
  <2>7. WORD <= k => pow2[WORD] <= pow2[k]
    BY <1>1, <2>5, PowMono
  <2>8. ~(WORD <= k)
    BY <1>1, <2>4, <2>6, <2>7
  <2>9. QED BY <1>1, <2>4, <2>5, <2>6, <2>8
<1>3. B \in Nat /\ B = g - min_exponent(f) - 3 /\ pow2[B] \in Nat \ {0}
  BY UnitBitsIs
<1>4. num \in Nat \ {0} /\ num = m * pow2[B]
  <2> DEFINE p == pow2[B]
  <2>1. p \in Nat \ {0} /\ num = m * p
    BY <1>3
  <2> HIDE DEF p
  <2>2. m * p \in Int /\ m * p > 0
    BY <2>1, TimesTyped
  <2>3. QED BY <2>1, <2>2 DEF p
<1>5. PICK no \in BOOLEAN : ~no
  OBVIOUS
<1>6. Stands(m, no, e, num, 1, f)
  <2>1. e \in Int /\ B - 0 = e - min_exponent(f) - 3 /\ 0 \in Nat
    BY <1>1, <1>2, <1>3
  <2>2. Floors(m, no, num * pow2[0], 1 * pow2[B])
    <3> DEFINE N == num * pow2[0]
               P == 1 * pow2[B]
    <3>1. pow2[0] = 1
      BY PowValues
    <3>2. N = num /\ P = pow2[B]
      BY <1>3, <1>4, <3>1
    <3>3. N \in Nat /\ P \in Nat \ {0} /\ m * P = N
      BY <1>3, <1>4, <3>2
    <3> HIDE DEF N, P
    <3>4. Floors(m, no, N, P)
      BY <1>5, <3>3, ExactFloors
    <3>5. QED BY <3>4 DEF N, P
  <2> HIDE DEF B, e
  <2>3. QED BY <1>3, <2>1, <2>2 DEF Stands
<1>7. Leads(m, no, k, k, num, 1, f)
  BY <1>2, <1>5, <1>6 DEF Leads
<1> DEFINE den == 1
<1>8. k \in Int /\ num \in Nat /\ den \in Nat \ {0} /\ Leads(m, no, k, k, num, den, f)
  BY <1>2, <1>4, <1>7
<1> HIDE DEF den
<1>9. t.kept \in Nat /\ t.lost \in BOOLEAN /\ Ready(t.kept, t.lost, k, num, den, f)
  BY <1>2, <1>8, PlacedReady
<1> DEFINE v == Unpacked(n, k, t.kept)
<1>10. v \in UnpackedValues /\ v.significand = t.kept /\ v.exponent = k /\ v.is_negative = n
  BY <1>8, <1>9, UnpackedIs
<1>11. Ready(v.significand, t.lost, v.exponent, num, den, f)
  BY <1>9, <1>10
<1> HIDE DEF v
<1>12. den = 1 => round_and_pack(v, t.lost, f, r, c) = Rounded(num, den, v.is_negative, f, r)
  BY <1>8, <1>9, <1>10, <1>11, RoundAndPackRounds
<1>13. QED BY <1>4, <1>10, <1>12 DEF v, den

\* Negating an integer of a width no greater than the word's.
LEMMA MaskedNegation ==
    ASSUME NEW w \in Nat, w <= WORD, NEW low \in Nat \ {0}, low < pow2[w]
    PROVE  (pow2[WORD] - low) % pow2[w] = pow2[w] - low
<1>1. WORD \in Nat
  BY FormatAssumption
<1> DEFINE d == WORD - w
<1>2. d \in Nat /\ WORD = d + w
  BY <1>1
<1> HIDE DEF d
<1> DEFINE p == pow2[d]
           q == pow2[w]
<1>3. pow2[WORD] = p * q /\ p \in Nat \ {0} /\ q \in Nat \ {0}
  BY <1>2, PowSplit
<1> HIDE DEF p, q
<1>4. p * q - low = (p - 1) * q + (q - low) /\ p - 1 \in Nat /\ q - low \in Nat /\ q - low < q
  <2>1. \A i \in Int : ((i - 1) + 1) * q = (i - 1) * q + q
    BY <1>3, TimesSucc
  <2>2. (p - 1) + 1 = p /\ low < q /\ (p - 1) * q \in Int
    BY <1>3, TimesSucc DEF q
  <2>3. QED BY <1>3, <2>1, <2>2
<1>5. ((p - 1) * q + (q - low)) % q = q - low
  <2> DEFINE i == p - 1
             j == q - low
  <2>1. i \in Nat /\ j \in Nat /\ j < q
    BY <1>4
  <2> HIDE DEF i, j
  <2>2. (i * q + j) % q = j
    BY <1>3, <2>1, DivUnique, SMTT(30)
  <2>3. QED BY <2>2 DEF i, j
<1>6. QED BY <1>3, <1>4, <1>5 DEF q

\* The value of the low w bits of an integer.
IntegerValue(low, w, signed) == IF signed /\ low >= pow2[w - 1] THEN low - pow2[w] ELSE low

\* A power of two and its half.
LEMMA HalfPower ==
    ASSUME NEW w \in Nat \ {0}
    PROVE  w - 1 \in Nat /\ pow2[w - 1] \in Nat \ {0} /\ pow2[w] = 2 * pow2[w - 1] /\ pow2[w] \in Nat \ {0}
<1> DEFINE k == w - 1
<1>1. k \in Nat /\ w = k + 1
  OBVIOUS
<1> HIDE DEF k
<1>2. pow2[k] \in Nat \ {0} /\ pow2[k + 1] = 2 * pow2[k]
  BY <1>1, PowSucc
<1>3. QED BY <1>1, <1>2 DEF k

\* The magnitude from_integer takes is that of the value.
LEMMA IntegerMagnitude ==
    ASSUME NEW w \in Nat \ {0}, w <= WORD, NEW low \in Nat, low < pow2[w], NEW signed \in BOOLEAN,
           NEW n \in BOOLEAN, n <=> (signed /\ low >= pow2[w - 1]),
           NEW m, m = IF n THEN (pow2[WORD] - low) % pow2[w] ELSE low
    PROVE  m \in Nat /\ m < pow2[WORD] /\ IntegerValue(low, w, signed) = Sign(n, m) /\ (m = 0 => ~n)
<1>1. /\ w - 1 \in Nat /\ pow2[w - 1] \in Nat \ {0} /\ pow2[w] = 2 * pow2[w - 1] /\ pow2[w] \in Nat \ {0}
  BY HalfPower
<1>2. WORD \in Nat /\ pow2[w] <= pow2[WORD] /\ pow2[WORD] \in Nat
  <2>1. WORD \in Nat
    BY FormatAssumption
  <2>2. QED BY <2>1, PowMono, PowSucc
<1>3. CASE n
  <2>1. low \in Nat \ {0}
    BY <1>1, <1>3
  <2>2. m = pow2[w] - low
    BY <1>3, <2>1, MaskedNegation
  <2>3. QED BY <1>1, <1>2, <1>3, <2>1, <2>2 DEF IntegerValue, Sign
<1>4. CASE ~n
  BY <1>1, <1>2, <1>4 DEF IntegerValue, Sign
<1>5. QED BY <1>3, <1>4

\* A product with a sign.
LEMMA SignTimes ==
    ASSUME NEW n \in BOOLEAN, NEW m \in Nat, NEW p \in Nat
    PROVE  Sign(n, m) * p = Sign(n, m * p)
<1>1. (-m) * p = -(m * p)
  BY Z3
<1>2. QED BY <1>1 DEF Sign

\* SCVTF and UCVTF round once.
LEMMA FromIntegerRounds ==
    ASSUME NEW f \in Formats, NEW source, NEW w \in Nat \ {0}, source.bits = w, w <= WORD,
           NEW signed \in BOOLEAN, source.is_signed = signed, NEW v \in Nat, NEW r \in Modes, NEW c, ~is_flushing(f, c),
           NEW zn \in BOOLEAN, ~zn
    PROVE  from_integer(v, source, f, r, c)
             = RoundedSum(IntegerValue(v % pow2[w], w, signed) * pow2[UnitBits(f)], 1, zn, f, r)
<1> DEFINE low == v % pow2[w]
           p == pow2[UnitBits(f)]
<1>1. low \in Nat /\ low < pow2[w]
  <2> DEFINE q == pow2[w]
  <2>1. q \in Nat \ {0}
    BY PowSucc
  <2> HIDE DEF q
  <2>2. v % q \in 0 .. q - 1
    BY <2>1, Z3
  <2>3. QED BY <2>1, <2>2 DEF q
<1> HIDE DEF low
<1>2. PICK n \in BOOLEAN : n <=> (signed /\ low >= pow2[w - 1])
  OBVIOUS
<1> DEFINE m == IF n THEN (pow2[WORD] - low) % pow2[w] ELSE low
<1>3. m \in Nat /\ m < pow2[WORD] /\ IntegerValue(low, w, signed) = Sign(n, m) /\ (m = 0 => ~n)
  <2>1. m = IF n THEN (pow2[WORD] - low) % pow2[w] ELSE low
    OBVIOUS
  <2> HIDE DEF m
  <2>2. QED BY <1>1, <1>2, <2>1, IntegerMagnitude
<1> DEFINE k == leading(m)
           t == Placed(m, k, f)
<1>4. from_integer(v, source, f, r, c)
        = IF m = 0 THEN Exact(zero(f, FALSE))
          ELSE round_and_pack(Unpacked(n, k, t.kept), t.lost, f, r, c)
  <2>1. /\ mask_to_width(v, source) = low /\ is_negative_source(low, source) = n
        /\ mask_to_width(pow2[WORD] - low, source) = (pow2[WORD] - low) % pow2[w]
    BY <1>2 DEF mask_to_width, is_negative_source, low
  <2>2. m = IF n THEN mask_to_width(pow2[WORD] - low, source) ELSE low
    BY <2>1
  <2> DEFINE up == k - scale(f)
             s == IF up <= 0 THEN [kept |-> m * pow2[-up], lost |-> FALSE] ELSE shift_right(m, up, WORD)
  <2>3. m # 0 => s = t
    <3> HIDE DEF m
    <3>1. SUFFICES ASSUME m # 0 PROVE s = t
      OBVIOUS
    <3>2. WORD \in Nat /\ pow2[WORD] <= pow2[2 * WORD + 1] /\ pow2[2 * WORD + 1] \in Nat /\ pow2[WORD] \in Nat
      <4>1. WORD \in Nat /\ 2 * WORD + 1 \in Nat /\ WORD <= 2 * WORD + 1
        BY WideEnough
      <4>2. QED BY <4>1, PowMono, PowSucc
    <3>3. m < pow2[2 * WORD + 1]
      BY <1>3, <3>2
    <3>4. k \in Int /\ scale(f) \in Int
      BY <1>3, <3>1, <3>2, <3>3, LeadingIs, WideEnough
    <3> HIDE DEF k
    <3>5. (up <= 0 <=> scale(f) >= k) /\ -up = scale(f) - k
      BY <3>4
    <3>6. QED BY <3>5 DEF Placed
  <2>4. from_integer(v, source, f, r, c)
          = IF m = 0 THEN Exact(zero(f, FALSE)) ELSE round_and_pack(Unpacked(n, k, s.kept), s.lost, f, r, c)
    <3> HIDE DEF m
    <3>1. QED BY <2>1, <2>2 DEF from_integer
  <2> HIDE DEF m, k, s, t
  <2>5. CASE m = 0
    BY <2>4, <2>5
  <2>6. CASE m # 0
    BY <2>3, <2>4, <2>6
  <2>7. QED BY <2>5, <2>6
<1>5. p \in Nat \ {0}
  BY UnitBitsIs
<1>6. IntegerValue(low, w, signed) * p = Sign(n, m * p)
  <2> HIDE DEF m, p
  <2>1. QED BY <1>3, <1>5, SignTimes
<1>7. CASE m = 0
  <2>1. m * p = 0
    BY <1>5, <1>7
  <2>2. zn = FALSE
    OBVIOUS
  <2> DEFINE U == m * p
  <2>3. U \in Nat /\ U = 0
    BY <2>1
  <2> HIDE DEF U
  <2>4. RoundedSum(Sign(n, U), 1, zn, f, r) = Exact(zero(f, zn))
    BY <2>3, SignedRounded
  <2>5. QED BY <1>4, <1>6, <1>7, <2>2, <2>4 DEF U, low
<1>8. CASE m # 0
  <2> DEFINE num == m * p
  <2>1. m \in Nat \ {0} /\ num = m * pow2[UnitBits(f)] /\ t = Placed(m, k, f) /\ k = leading(m)
    BY <1>3, <1>8
  <2> HIDE DEF num, t, k, m
  <2>2. num \in Nat \ {0} /\ round_and_pack(Unpacked(n, k, t.kept), t.lost, f, r, c) = Rounded(num, 1, n, f, r)
    BY <1>3, <2>1, IntegerRounds
  <2>3. RoundedSum(Sign(n, num), 1, zn, f, r) = Rounded(num, 1, n, f, r)
    BY <2>2, SignedRounded
  <2>4. QED BY <1>4, <1>6, <1>8, <2>2, <2>3 DEF num, low
<1>9. QED BY <1>7, <1>8

\* num / den and S / Q are the same number.
SameRatio(num, den, S, Q) ==
    num \in Nat /\ den \in Nat \ {0} /\ S \in Nat /\ Q \in Nat \ {0} /\ num * Q = S * den

\* Comparing products compares their other factors.
LEMMA Cancels ==
    ASSUME NEW a \in Int, NEW b \in Int, NEW k \in Nat \ {0}
    PROVE  (a * k < b * k <=> a < b) /\ (a * k = b * k <=> a = b)
<1>1. a < b => a * k < b * k
  BY TimesStrict
<1>2. b < a => b * k < a * k
  BY TimesStrict
<1>3. a * k \in Int /\ b * k \in Int
  BY TimesTyped
<1>4. a < b \/ b < a \/ a = b
  OBVIOUS
<1> DEFINE p == a * k
           q == b * k
<1>5. p \in Int /\ q \in Int /\ (a < b => p < q) /\ (b < a => q < p) /\ (a = b => p = q)
  BY <1>1, <1>2, <1>3
<1> HIDE DEF p, q
<1>6. (p < q <=> a < b) /\ (p = q <=> a = b)
  BY <1>4, <1>5
<1>7. QED BY <1>6 DEF p, q

\* An integer is on the same side of equal fractions.
LEMMA RatioCompares ==
    ASSUME NEW num, NEW den, NEW S, NEW Q, SameRatio(num, den, S, Q), NEW k \in Nat
    PROVE  /\ k * den \in Nat /\ k * Q \in Nat
           /\ k * den < num <=> k * Q < S
           /\ k * den = num <=> k * Q = S
           /\ num < k * den <=> S < k * Q
<1>1. num \in Nat /\ den \in Nat \ {0} /\ S \in Nat /\ Q \in Nat \ {0} /\ num * Q = S * den
  BY DEF SameRatio
<1> DEFINE a == k * den
           b == k * Q
<1>2. a \in Int /\ b \in Int /\ a >= 0 /\ b >= 0
  BY <1>1, TimesTyped
<1>3. a * Q = b * den
  <2>1. (k * den) * Q = (k * Q) * den
    BY <1>1, Z3
  <2>2. QED BY <2>1
<1>4. a \in Nat /\ b \in Nat
  BY <1>2
<1> HIDE DEF a, b
<1>5. (a * Q < num * Q <=> a < num) /\ (a * Q = num * Q <=> a = num)
  BY <1>1, <1>2, Cancels
<1>6. (num * Q < a * Q <=> num < a)
  BY <1>1, <1>2, Cancels
<1>7. (b * den < S * den <=> b < S) /\ (b * den = S * den <=> b = S)
  BY <1>1, <1>2, Cancels
<1>8. (S * den < b * den <=> S < b)
  BY <1>1, <1>2, Cancels
<1>9. (a < num <=> b < S) /\ (a = num <=> b = S) /\ (num < a <=> S < b)
  BY <1>1, <1>3, <1>5, <1>6, <1>7, <1>8
<1>10. QED BY <1>4, <1>9 DEF a, b

\* Equal fractions have one quotient.
LEMMA RatioDivides ==
    ASSUME NEW num, NEW den, NEW S, NEW Q, SameRatio(num, den, S, Q)
    PROVE  num \div den \in Nat /\ num \div den = S \div Q
<1>1. num \in Nat /\ den \in Nat \ {0} /\ S \in Nat /\ Q \in Nat \ {0}
  BY DEF SameRatio
<1> DEFINE n == S \div Q
<1>2. n \in Nat /\ n * Q <= S /\ S < (n + 1) * Q
  <2>1. n \in Nat /\ S % Q \in 0 .. Q - 1 /\ S = Q * n + (S % Q)
    <3>1. n \in Nat
      BY <1>1, DivAtMost
    <3>2. S \in Int
      BY <1>1
    <3>3. S % Q \in 0 .. Q - 1 /\ S = Q * (S \div Q) + (S % Q)
      BY <1>1, <3>2, DivMod, Zenon
    <3>4. QED BY <3>1, <3>3
  <2> HIDE DEF n
  <2>2. (n + 1) * Q = n * Q + Q /\ n * Q = Q * n /\ n * Q \in Int
    BY <1>1, <2>1, TimesSucc, TimesTyped
  <2>3. QED BY <1>1, <2>1, <2>2
<1> HIDE DEF n
<1>3. n * den <= num
  <2>1. n * den \in Nat /\ n * Q \in Nat /\ (num < n * den <=> S < n * Q)
    BY <1>2, RatioCompares
  <2>2. QED BY <1>1, <1>2, <2>1
<1>4. num < (n + 1) * den
  <2>1. n + 1 \in Nat
    BY <1>2
  <2>2. num < (n + 1) * den <=> S < (n + 1) * Q
    BY <2>1, RatioCompares
  <2>3. QED BY <1>2, <2>2
<1>5. n + 1 \in Nat /\ den * n <= num /\ num < den * (n + 1)
  <2>1. den * n = n * den /\ den * (n + 1) = (n + 1) * den
    BY <1>1, <1>2, TimesTyped
  <2>2. QED BY <1>2, <1>3, <1>4, <2>1
<1> DEFINE hi == n + 1
           m == num \div den
<1>6. m \in Nat /\ n <= m /\ m < hi
  <2>1. hi \in Nat /\ den * n <= num /\ num < den * hi
    BY <1>5
  <2> HIDE DEF hi
  <2>2. QED BY <1>1, <1>2, <2>1, DivBetween
<1> HIDE DEF m
<1>7. m = n
  BY <1>2, <1>6
<1>8. QED BY <1>6, <1>7 DEF m, n

\* Equal fractions are rounded to one integer.
LEMMA RatioRounds ==
    ASSUME NEW num, NEW den, NEW S, NEW Q, SameRatio(num, den, S, Q), NEW n \in BOOLEAN, NEW r \in Modes
    PROVE  RoundedInteger(num, den, n, r) = RoundedInteger(S, Q, n, r)
<1>1. num \in Nat /\ den \in Nat \ {0} /\ S \in Nat /\ Q \in Nat \ {0} /\ num * Q = S * den
  BY DEF SameRatio
<1> DEFINE k == num \div den
<1>2. k \in Nat /\ k = S \div Q
  BY RatioDivides
<1> HIDE DEF k
<1>3. k * den = num <=> k * Q = S
  BY <1>2, RatioCompares
<1> DEFINE A == 2 * num
           B == 2 * S
           h == k + (k + 1)
<1>4. SameRatio(A, den, B, Q) /\ h \in Nat
  <2>1. (2 * num) * Q = 2 * (num * Q) /\ (2 * S) * den = 2 * (S * den)
    BY <1>1, Z3
  <2>2. QED BY <1>1, <1>2, <2>1 DEF SameRatio
<1>5. A > h * den <=> B > h * Q
  <2> HIDE DEF A, B, h
  <2>1. h * den \in Nat /\ h * Q \in Nat /\ (h * den < A <=> h * Q < B) /\ A \in Nat /\ B \in Nat
    BY <1>4, RatioCompares DEF SameRatio
  <2>2. QED BY <2>1
<1>6. A = h * den <=> B = h * Q
  <2> HIDE DEF A, B, h
  <2>1. h * den = A <=> h * Q = B
    BY <1>4, RatioCompares
  <2>2. QED BY <2>1
<1>7. A >= h * den <=> B >= h * Q
  <2> DEFINE a == h * den
             b == h * Q
  <2>1. a \in Nat /\ b \in Nat /\ A \in Nat /\ B \in Nat
    <3> HIDE DEF A, B, h
    <3>1. QED BY <1>4, RatioCompares DEF SameRatio
  <2>2. (A > a <=> B > b) /\ (A = a <=> B = b)
    BY <1>5, <1>6
  <2> HIDE DEF a, b, A, B
  <2>3. A >= a <=> B >= b
    BY <2>1, <2>2
  <2>4. QED BY <2>3 DEF a, b
<1> DEFINE e == k % 2 = 0
<1>8. GoesUp(num, den, k, k + 1, e, n, r) <=> GoesUp(S, Q, k, k + 1, e, n, r)
  <2> HIDE DEF e
  <2>1. QED BY <1>5, <1>6, <1>7 DEF GoesUp, Modes
<1>9. QED BY <1>2, <1>3, <1>8 DEF RoundedInteger, k

\* S = k * Q + m, against the middle H of Q.
Halves(S, H, Q, k, m) ==
    /\ k \in Nat /\ m \in Nat /\ m < Q
    /\ k * Q = S <=> m = 0
    /\ 2 * S > (k + (k + 1)) * Q <=> m > H
    /\ 2 * S = (k + (k + 1)) * Q <=> m = H
    /\ 2 * S >= (k + (k + 1)) * Q <=> m >= H
    /\ (k + 1) * Q # S

\* Dividing by a power of two, and the middle between two integers.
LEMMA HalfwayIs ==
    ASSUME NEW S \in Nat, NEW H \in Nat \ {0}, NEW Q, Q = 2 * H, NEW k, k = S \div Q, NEW m, m = S % Q
    PROVE  Halves(S, H, Q, k, m)
<1>1. Q \in Nat \ {0}
  OBVIOUS
<1>2. k \in Nat
  BY <1>1, DivAtMost
<1>3. m \in 0 .. Q - 1 /\ S = Q * k + m
  <2>1. S \in Int
    OBVIOUS
  <2>2. S % Q \in 0 .. Q - 1 /\ S = Q * (S \div Q) + (S % Q)
    BY <1>1, <2>1, DivMod, Zenon
  <2>3. QED BY <2>2
<1> DEFINE p == k * Q
<1>4. p \in Int /\ Q * k = p
  BY <1>1, <1>2, TimesTyped
<1>5. (k + (k + 1)) * Q = 2 * p + Q
  <2>1. k \in Nat /\ Q \in Nat
    BY <1>1, <1>2
  <2>2. (2 * k + 1) * Q = 2 * (k * Q) + Q
    BY <2>1, GuardProducts, Zenon
  <2>3. k + (k + 1) = 2 * k + 1
    BY <2>1
  <2>4. QED BY <2>2, <2>3
<1>6. (k + 1) * Q = p + Q
  <2>1. k \in Nat /\ Q \in Nat
    BY <1>1, <1>2
  <2>2. QED BY <2>1, GuardProducts, Zenon
<1> HIDE DEF p
<1>7. m \in Nat /\ m < Q /\ S = p + m
  BY <1>1, <1>3, <1>4
<1>8. (p = S <=> m = 0) /\ (2 * S > 2 * p + Q <=> m > H) /\ (2 * S = 2 * p + Q <=> m = H)
        /\ (2 * S >= 2 * p + Q <=> m >= H) /\ p + Q # S
  BY <1>1, <1>4, <1>7
<1>9. QED BY <1>2, <1>5, <1>6, <1>7, <1>8 DEF p, Halves

\* Shifting a significand right and rounding is dividing and rounding.
LEMMA RoundedAtIs ==
    ASSUME NEW S \in Nat, NEW s \in Nat \ {0}, NEW n \in BOOLEAN, NEW r \in Modes, NEW Q, Q = pow2[s],
           NEW k, k = rounded_at(S, s, r, n)
    PROVE  /\ k = RoundedInteger(S, Q, n, r) /\ Q \in Nat \ {0}
           /\ S \div Q \in Nat /\ k \in {S \div Q, (S \div Q) + 1}
           /\ k * Q = S <=> S % Q = 0
<1> DEFINE H == pow2[s - 1]
           t == S \div Q
           m == S % Q
<1>1. H \in Nat \ {0} /\ Q = 2 * H
  BY HalfPower
<1>2. t = S \div Q /\ m = S % Q
  OBVIOUS
<1> HIDE DEF H, t, m
<1>3. /\ t \in Nat /\ m \in Nat /\ m < Q
      /\ t * Q = S <=> m = 0
      /\ 2 * S > (t + (t + 1)) * Q <=> m > H
      /\ 2 * S = (t + (t + 1)) * Q <=> m = H
      /\ 2 * S >= (t + (t + 1)) * Q <=> m >= H
      /\ (t + 1) * Q # S
  <2>1. /\ S \in Nat /\ H \in Nat \ {0} /\ Q = 2 * H /\ t = S \div Q /\ m = S % Q
    BY <1>1, <1>2
  <2>2. Halves(S, H, Q, t, m)
    BY <2>1, HalfwayIs
  <2>3. QED BY <2>2 DEF Halves
<1> DEFINE e == t % 2 = 0
           up == rounds_away(t, m, s, r, n)
<1>4. k = IF m # 0 /\ up THEN t + 1 ELSE t
  <2> HIDE DEF up
  <2>1. k = IF m # 0 /\ rounds_away(t, m, s, r, n) THEN t + 1 ELSE t
    BY DEF rounded_at, t, m
  <2>2. QED BY <2>1 DEF up
<1>5. up <=> GoesUp(S, Q, t, t + 1, e, n, r)
  <2>1. ~(t % 2 = 0) <=> t % 2 = 1
    BY <1>3, Parity
  <2>2. points_away(r, n) <=> (r = "Plus" /\ ~n) \/ (r = "Minus" /\ n)
    BY DEF points_away
  <2> DEFINE odd == t % 2 = 1
             w == (t + (t + 1)) * Q
  <2>3. ~e <=> odd
    BY <2>1
  <2>4. (2 * S > w <=> m > H) /\ (2 * S = w <=> m = H) /\ (2 * S >= w <=> m >= H)
    BY <1>3
  <2>5. rounds_away(t, m, s, r, n)
          <=> CASE r = "Nearest"     -> m > H \/ (m = H /\ odd)
                [] r = "NearestAway" -> m >= H
                [] r = "Zero"        -> FALSE
                [] r \in {"Plus", "Minus"} -> points_away(r, n)
                [] r = "Odd"         -> t % 2 = 0
    BY DEF rounds_away, H
  <2>6. GoesUp(S, Q, t, t + 1, e, n, r)
          <=> CASE r = "Nearest"     -> 2 * S > w \/ (2 * S = w /\ ~e)
                [] r = "NearestAway" -> 2 * S >= w
                [] r = "Zero"        -> FALSE
                [] r = "Plus"        -> ~n
                [] r = "Minus"       -> n
    BY DEF GoesUp
  <2> HIDE DEF e, odd, w
  <2>7. CASE r = "Nearest"
    BY <2>3, <2>4, <2>5, <2>6, <2>7
  <2>8. CASE r = "NearestAway"
    BY <2>4, <2>5, <2>6, <2>8
  <2>9. CASE r = "Zero"
    BY <2>5, <2>6, <2>9
  <2>10. CASE r = "Plus"
    BY <2>2, <2>5, <2>6, <2>10
  <2>11. CASE r = "Minus"
    BY <2>2, <2>5, <2>6, <2>11
  <2>12. QED BY <2>7, <2>8, <2>9, <2>10, <2>11 DEF Modes
<1>6. RoundedInteger(S, Q, n, r)
        = IF t * Q = S THEN t ELSE IF GoesUp(S, Q, t, t + 1, e, n, r) THEN t + 1 ELSE t
  BY DEF RoundedInteger, t
<1> HIDE DEF up, e
<1>7. k = RoundedInteger(S, Q, n, r)
  BY <1>3, <1>4, <1>5, <1>6
<1>8. k * Q = S <=> m = 0
  BY <1>3, <1>4
<1>9. k \in {t, t + 1}
  BY <1>4
<1>10. QED BY <1>1, <1>3, <1>7, <1>8, <1>9 DEF t, m

\* A fraction below a half is rounded to zero, or to one when the mode points away.
LEMMA BelowHalfRounds ==
    ASSUME NEW S \in Nat \ {0}, NEW Q \in Nat, 2 * S < Q, NEW n \in BOOLEAN, NEW r \in Modes,
           NEW k, k = IF points_away(r, n) THEN 1 ELSE 0
    PROVE  k \in {0, 1} /\ RoundedInteger(S, Q, n, r) = k /\ k * Q # S
<1>1. Q \in Nat \ {0} /\ Q * 0 <= S /\ S < Q * 1
  OBVIOUS
<1>2. S \div Q = 0
  <2> DEFINE lo == 0
             hi == 1
  <2>1. lo \in Nat /\ hi \in Nat /\ Q * lo <= S /\ S < Q * hi /\ hi = lo + 1 /\ lo = 0
    BY <1>1
  <2> HIDE DEF lo, hi
  <2>2. S \div Q \in Nat /\ lo <= S \div Q /\ S \div Q < hi
    BY <1>1, <2>1, DivBetween
  <2> DEFINE d == S \div Q
  <2> HIDE DEF d
  <2>3. d \in Nat /\ lo <= d /\ d < hi
    BY <2>2 DEF d
  <2>4. d = 0
    BY <2>1, <2>3
  <2>5. QED BY <2>4 DEF d
<1> DEFINE e == 0 % 2 = 0
           up == GoesUp(S, Q, 0, 0 + 1, e, n, r)
<1>3. RoundedInteger(S, Q, n, r) = IF up THEN 1 ELSE 0
  <2> DEFINE d == S \div Q
             v == GoesUp(S, Q, d, d + 1, d % 2 = 0, n, r)
  <2>1. RoundedInteger(S, Q, n, r) = IF d * Q = S THEN d ELSE IF v THEN d + 1 ELSE d
    BY DEF RoundedInteger
  <2>2. d = 0
    BY <1>2
  <2>3. v <=> up
    BY <2>2
  <2> HIDE DEF v, d, up
  <2>4. d * Q # S
    BY <2>2
  <2>5. QED BY <2>1, <2>2, <2>3, <2>4
<1>4. up <=> points_away(r, n)
  <2>1. ~(2 * S > (0 + (0 + 1)) * Q) /\ ~(2 * S = (0 + (0 + 1)) * Q) /\ ~(2 * S >= (0 + (0 + 1)) * Q)
    OBVIOUS
  <2> HIDE DEF e
  <2>2. QED BY <2>1 DEF GoesUp, points_away, Modes
<1>5. k * Q # S
  OBVIOUS
<1>6. QED BY <1>3, <1>4, <1>5

\* Cancelling the units of a value and of its significand.
LEMMA UnitsCancel ==
    ASSUME NEW num \in Nat, NEW den \in Nat, NEW S \in Nat, NEW U \in Nat,
           NEW pi \in Nat \ {0}, NEW pj \in Nat \ {0}, NEW pB \in Nat \ {0}, NEW pa \in Nat \ {0}, NEW pb \in Nat \ {0},
           num * pB = U * den, S * pi = U * pj, pi * pb = (pj * pB) * pa
    PROVE  num * pb = (S * pa) * den
<1> DEFINE c == pj * pB
<1>1. c \in Nat \ {0}
  <2>1. pj * pB \in Int /\ pj * pB > 0
    BY TimesTyped
  <2>2. QED BY <2>1
<1>2. (num * pb) * c = ((S * pa) * den) * c
  <2>1. (num * pb) * (pj * pB) = (num * pB) * (pb * pj)
    BY Z3
  <2>2. (U * den) * (pb * pj) = (U * pj) * (den * pb)
    BY Z3
  <2>3. (S * pi) * (den * pb) = (S * den) * (pi * pb)
    BY Z3
  <2>4. (S * den) * ((pj * pB) * pa) = ((S * pa) * den) * (pj * pB)
    BY Z3
  <2>5. QED BY <2>1, <2>2, <2>3, <2>4
<1> DEFINE l == num * pb
           r == (S * pa) * den
<1>3. l \in Int /\ r \in Int
  BY TimesTyped
<1>4. l * c = r * c
  BY <1>2
<1> HIDE DEF c, l, r
<1>5. l = r
  BY <1>1, <1>3, <1>4, Cancels
<1>6. QED BY <1>5 DEF l, r

\* The value of an operand, as a fraction and as its shifted significand.
LEMMA OperandRatio ==
    ASSUME NEW f \in Formats, NEW y \in Patterns(f), IsFinite(f, y), ~is_zero(f, y),
           NEW u, u = unpack(y, f), NEW none, none = 0, NEW q, q = Scaled(f, y, none),
           NEW a \in Nat, NEW b \in Nat, a - b = u.exponent - scale(f)
    PROVE  q.num * pow2[b] = (u.significand * pow2[a]) * q.den /\ q.num \in Nat /\ q.den \in Nat \ {0}
<1> DEFINE U == Ulps(f, y)
           S == u.significand
           e == u.exponent
           B == UnitBits(f)
<1>1. u \in UnpackedValues /\ Carries(u, U, f) /\ U \in Nat
  BY FiniteOperand DEF Measures
<1>2. S \in Nat /\ e \in Int
  BY <1>1 DEF UnpackedValues
<1>3. PICK i \in Nat, j \in Nat : Weighs(S, e, U, i, j, f)
  <2> HIDE DEF U
  <2>1. QED BY <1>1, CarriesWeighs
<1>4. i - j = e - min_exponent(f) - 3 /\ S * pow2[i] = U * pow2[j]
  BY <1>3 DEF Weighs
<1>5. B \in Nat /\ B = scale(f) - min_exponent(f) - 3 /\ min_exponent(f) \in Int /\ scale(f) \in Nat
  BY UnitBitsIs, WideEnough
<1>6. q.num \in Nat /\ q.den \in Nat \ {0} /\ q.num * pow2[B] = U * q.den
  <2>1. none \in Nat
    OBVIOUS
  <2>2. IsScaled(q.num, q.den, U, none, f)
    BY <2>1, ScaledIs
  <2>3. U * pow2[none] = U
    BY <1>1, PowValues
  <2>4. QED BY <2>2, <2>3 DEF IsScaled
<1> HIDE DEF U, S, e, B
<1> DEFINE m == j + B
           total == i + b
<1>7. m \in Nat /\ total \in Nat /\ total = m + a
  BY <1>2, <1>4, <1>5 DEF S, e
<1>8. pow2[i] * pow2[b] = (pow2[j] * pow2[B]) * pow2[a]
  <2>1. pow2[m] = pow2[j] * pow2[B]
    BY <1>5, <1>7, PowSplit
  <2>2. pow2[total] = pow2[i] * pow2[b]
    BY <1>7, PowSplit
  <2> HIDE DEF m, total
  <2>3. pow2[total] = pow2[m] * pow2[a]
    BY <1>7, PowSplit
  <2>4. QED BY <2>1, <2>2, <2>3
<1> DEFINE pi == pow2[i]
           pj == pow2[j]
           pB == pow2[B]
           pa == pow2[a]
           pb == pow2[b]
           num == q.num
           den == q.den
<1>9. /\ pi \in Nat \ {0} /\ pj \in Nat \ {0} /\ pB \in Nat \ {0} /\ pa \in Nat \ {0} /\ pb \in Nat \ {0}
      /\ num \in Nat /\ den \in Nat /\ S \in Nat /\ U \in Nat
      /\ num * pB = U * den /\ S * pi = U * pj /\ pi * pb = (pj * pB) * pa
  BY <1>1, <1>2, <1>4, <1>5, <1>6, <1>8, PowSucc
<1> HIDE DEF pi, pj, pB, pa, pb, num, den
<1>10. num * pb = (S * pa) * den
  BY <1>9, UnitsCancel
<1>11. QED BY <1>6, <1>10 DEF num, pb, S, pa, den

\* A significand shifted left by less than the width of a u128 stays in it.
LEMMA ShiftedFits ==
    ASSUME NEW f \in Formats, NEW S \in Nat, S < 2 * pow2[scale(f)], NEW a \in Nat, a + scale(f) < 2 * WORD
    PROVE  S * pow2[a] \in Nat /\ (S * pow2[a]) % pow2[2 * WORD] = S * pow2[a]
<1> DEFINE g == scale(f)
           W == 2 * WORD
           total == a + g
           p == pow2[a]
           s == pow2[g]
           w == pow2[W]
<1>1. g \in Nat /\ W \in Nat /\ total \in Nat /\ total < W
  BY WideEnough
<1>2. pow2[total] = p * s /\ p \in Nat \ {0} /\ s \in Nat \ {0}
  BY <1>1, PowSplit
<1>3. 2 * pow2[total] <= w /\ w \in Nat \ {0}
  <2> HIDE DEF total, W
  <2>1. QED BY <1>1, PowMono, PowSucc DEF w
<1>4. S < 2 * s
  OBVIOUS
<1> HIDE DEF p, s, w, total, W
<1>5. S * p < (2 * s) * p /\ S * p \in Int /\ S * p >= 0
  BY <1>2, <1>4, TimesStrict, TimesTyped
<1>6. (2 * s) * p = 2 * (p * s) /\ p * s \in Int
  BY <1>2, Z3
<1>7. S * p \in Nat /\ S * p < w
  BY <1>2, <1>3, <1>5, <1>6
<1> DEFINE v == S * p
<1>8. v \in Nat /\ v < w
  BY <1>7
<1> HIDE DEF v
<1>9. v % w = v
  BY <1>3, <1>8, Z3
<1>10. QED BY <1>8, <1>9 DEF v, p, w, W

\* A whole number is its own rounding.
LEMMA WholeRoundsToItself ==
    ASSUME NEW S \in Nat, NEW n, NEW r, NEW Q, Q = 1
    PROVE  RoundedInteger(S, Q, n, r) = S /\ S * Q = S
<1> DEFINE k == S \div Q
<1>1. k = S
  <2>1. S \div 1 = S
    BY Z3
  <2>2. QED BY <2>1
<1>2. k * Q = S
  BY <1>1
<1> HIDE DEF k
<1>3. RoundedInteger(S, Q, n, r)
        = IF k * Q = S THEN k ELSE IF GoesUp(S, Q, k, k + 1, k % 2 = 0, n, r) THEN k + 1 ELSE k
  BY DEF RoundedInteger, k
<1>4. QED BY <1>1, <1>2, <1>3

\* What FCVTZS and its like make of an operand: m is the operand q.num / q.den
\* rounded to an integer, and whether that lost anything.
IsIntegral(m, q, n, r) ==
    /\ m.kept \in Nat /\ m.kept = RoundedInteger(q.num, q.den, n, r)
    /\ m.lost <=> m.kept * q.den # q.num

\* Being the rounding of a fraction is being that of an equal one.
LEMMA RatioIntegral ==
    ASSUME NEW q, NEW S, NEW Q, SameRatio(q.num, q.den, S, Q), NEW n \in BOOLEAN, NEW r \in Modes,
           NEW m, m.kept \in Nat, m.kept = RoundedInteger(S, Q, n, r), m.lost <=> m.kept * Q # S
    PROVE  IsIntegral(m, q, n, r)
<1>1. RoundedInteger(q.num, q.den, n, r) = RoundedInteger(S, Q, n, r)
  BY RatioRounds
<1> DEFINE k == m.kept
<1>2. k \in Nat
  OBVIOUS
<1> HIDE DEF k
<1>3. k * q.den = q.num <=> k * Q = S
  BY <1>2, RatioCompares
<1>4. QED BY <1>1, <1>3 DEF IsIntegral, k

\* integral_magnitude rounds the operand, in every branch of its shift.
LEMMA MagnitudeIs ==
    ASSUME NEW f \in Formats, NEW y \in Patterns(f), IsFinite(f, y), ~is_zero(f, y),
           NEW u, u = unpack(y, f), u.exponent < 2 * WORD, NEW none, none = 0, NEW q, q = Scaled(f, y, none),
           NEW n, n = is_negative(f, y), NEW r \in Modes
    PROVE  n \in BOOLEAN /\ IsIntegral(integral_magnitude(u, f, r), q, n, r)
<1> DEFINE S == u.significand
           e == u.exponent
           g == scale(f)
           h == e - g
           m == integral_magnitude(u, f, r)
<1>1. u \in UnpackedValues /\ Carries(u, Ulps(f, y), f) /\ u.is_negative = n /\ n \in BOOLEAN
  BY FiniteOperand DEF Measures
<1>2. /\ S \in Nat \ {0} /\ e \in Int /\ pow2[g] <= S /\ S < 2 * pow2[g] /\ g \in Nat /\ pow2[g] \in Nat \ {0}
      /\ WORD \in Nat /\ 4 * pow2[g] <= pow2[WORD] /\ pow2[WORD] \in Nat
  BY <1>1, Normalised
<1>3. h \in Int
  BY <1>2
<1>4. m = IF h >= 2 * WORD THEN [kept |-> pow2[2 * WORD] - 1, lost |-> FALSE]
          ELSE IF h >= 0 THEN [kept |-> (S * pow2[h]) % pow2[2 * WORD], lost |-> FALSE]
          ELSE IF -h >= WORD THEN [kept |-> IF points_away(r, n) THEN 1 ELSE 0, lost |-> TRUE]
          ELSE [kept |-> rounded_at(S, -h, r, n), lost |-> S % pow2[-h] # 0]
  BY <1>1 DEF integral_magnitude
<1>5. \A a, b \in Nat : a - b = h =>
          q.num * pow2[b] = (S * pow2[a]) * q.den /\ q.num \in Nat /\ q.den \in Nat \ {0}
  BY OperandRatio
<1> HIDE DEF m, S, g
<1>6. CASE h >= 0
  <2> DEFINE a == h
             b == 0
             T == S * pow2[a]
             Q == 1
  <2>1. a \in Nat /\ b \in Nat /\ a - b = h /\ a + g < 2 * WORD
    BY <1>2, <1>3, <1>6
  <2>2. T \in Nat /\ T % pow2[2 * WORD] = T
    <3> HIDE DEF a
    <3>1. QED BY <1>2, <2>1, ShiftedFits DEF S, g
  <2>3. m = [kept |-> T, lost |-> FALSE]
    <3>1. ~(h >= 2 * WORD)
      BY <1>2, <1>3, <2>1
    <3>2. QED BY <1>4, <1>6, <2>2, <3>1
  <2>4. SameRatio(q.num, q.den, T, Q)
    <3>1. q.num * pow2[b] = T * q.den /\ q.num \in Nat /\ q.den \in Nat \ {0}
      BY <1>5, <2>1
    <3>2. pow2[b] = 1
      BY PowValues
    <3>3. QED BY <2>2, <3>1, <3>2 DEF SameRatio
  <2>5. Q = 1
    OBVIOUS
  <2> HIDE DEF T, Q
  <2>6. RoundedInteger(T, Q, n, r) = T /\ T * Q = T
    BY <2>2, <2>5, WholeRoundsToItself
  <2>7. m.kept \in Nat /\ m.kept = RoundedInteger(T, Q, n, r) /\ (m.lost <=> m.kept * Q # T)
    BY <2>2, <2>3, <2>6
  <2>8. IsIntegral(m, q, n, r)
    BY <1>1, <2>4, <2>7, RatioIntegral
  <2>9. QED BY <1>1, <2>8 DEF m
<1>7. CASE h < 0
  <2> DEFINE a == 0
             b == -h
             Q == pow2[b]
  <2>1. a \in Nat /\ b \in Nat \ {0} /\ a - b = h /\ b > 0
    BY <1>3, <1>7
  <2>2. Q \in Nat \ {0}
    <3> HIDE DEF b
    <3>1. QED BY <2>1, PowSucc
  <2>3. SameRatio(q.num, q.den, S, Q)
    <3>1. q.num * pow2[b] = (S * pow2[a]) * q.den /\ q.num \in Nat /\ q.den \in Nat \ {0}
      BY <1>5, <2>1
    <3>2. pow2[a] = 1
      BY PowValues
    <3>3. S * pow2[a] = S
      BY <1>2, <3>2
    <3>4. QED BY <1>2, <2>2, <3>1, <3>3 DEF SameRatio
  <2>4. m.kept \in Nat /\ m.kept = RoundedInteger(S, Q, n, r) /\ (m.lost <=> m.kept * Q # S)
    <3>1. CASE b >= WORD
      <4> DEFINE k == IF points_away(r, n) THEN 1 ELSE 0
      <4>1. m = [kept |-> k, lost |-> TRUE]
        <5>1. ~(h >= 2 * WORD) /\ ~(h >= 0) /\ -h >= WORD
          BY <1>2, <1>3, <1>7, <3>1
        <5>2. QED BY <1>4, <5>1
      <4>2. 2 * S < Q /\ Q \in Nat
        <5> HIDE DEF b
        <5>1. pow2[WORD] <= pow2[b]
          BY <1>2, <2>1, <3>1, PowMono
        <5>2. QED BY <1>2, <2>2, <5>1
      <4>3. k = IF points_away(r, n) THEN 1 ELSE 0
        OBVIOUS
      <4> HIDE DEF k, Q
      <4>4. k \in {0, 1} /\ RoundedInteger(S, Q, n, r) = k /\ k * Q # S
        BY <1>1, <1>2, <4>2, <4>3, BelowHalfRounds
      <4>5. QED BY <4>1, <4>4
    <3>2. CASE ~(b >= WORD)
      <4> DEFINE k == rounded_at(S, b, r, n)
      <4>1. m = [kept |-> k, lost |-> S % Q # 0]
        <5>1. ~(h >= 2 * WORD) /\ ~(h >= 0) /\ ~(-h >= WORD)
          BY <1>2, <1>3, <1>7, <3>2
        <5>2. QED BY <1>4, <5>1
      <4>2. Q = pow2[b] /\ k = rounded_at(S, b, r, n)
        OBVIOUS
      <4> HIDE DEF k, Q, b
      <4>3. /\ k = RoundedInteger(S, Q, n, r) /\ S \div Q \in Nat /\ k \in {S \div Q, (S \div Q) + 1}
            /\ (k * Q = S <=> S % Q = 0)
        BY <1>1, <1>2, <2>1, <4>2, RoundedAtIs
      <4>4. k \in Nat
        <5> DEFINE d == S \div Q
        <5>1. d \in Nat /\ k \in {d, d + 1}
          BY <4>3
        <5> HIDE DEF d
        <5>2. QED BY <5>1
      <4>5. QED BY <4>1, <4>3, <4>4
    <3>3. QED BY <3>1, <3>2
  <2> HIDE DEF Q
  <2>5. IsIntegral(m, q, n, r)
    BY <1>1, <2>3, <2>4, RatioIntegral
  <2>6. QED BY <1>1, <2>5 DEF m
<1>8. QED BY <1>3, <1>6, <1>7

\* The integer of w bits that +-N is, or the end of the range it lies beyond.
IntegerOrEnd(N, lost, neg, w, signed) ==
    LET value == IF neg THEN -N ELSE N
        low   == IF signed THEN -(pow2[w - 1]) ELSE 0
        high  == IF signed THEN pow2[w - 1] - 1 ELSE pow2[w] - 1
    IN  IF neg /\ ~signed THEN Raising(0, {"INVALID"})
        ELSE IF value < low THEN Raising(low % pow2[w], {"INVALID"})
        ELSE IF value > high THEN Raising(high % pow2[w], {"INVALID"})
        ELSE Raising(value % pow2[w], IF lost THEN {"INEXACT"} ELSE {})

\* Remainders modulo 2 * P.
LEMMA SmallRemainders ==
    ASSUME NEW P \in Nat \ {0}, NEW W, W = 2 * P
    PROVE  (-P) % W = P /\ (P - 1) % W = P - 1 /\ (W - 1) % W = W - 1
<1>1. W \in Nat \ {0} /\ P \in 0 .. W - 1 /\ P - 1 \in 0 .. W - 1 /\ W - 1 \in 0 .. W - 1
  OBVIOUS
<1> DEFINE i == -1
           z == 0
<1>2. i \in Int /\ z \in Int
  OBVIOUS
<1>3. W * i + P = -P /\ W * z + (P - 1) = P - 1 /\ W * z + (W - 1) = W - 1
  BY <1>1
<1> HIDE DEF i, z
<1>4. (W * i + P) % W = P
  BY <1>1, <1>2, DivUnique
<1>5. \A s \in 0 .. W - 1 : (W * z + s) % W = s
  BY <1>1, <1>2, DivUnique
<1>6. QED BY <1>1, <1>3, <1>4, <1>5

\* Two's complement in the word and in a narrower width.
LEMMA NegationMasks ==
    ASSUME NEW w \in Nat, w <= WORD, NEW N \in Nat
    PROVE  (pow2[WORD] - N) % pow2[w] = (-N) % pow2[w]
<1>1. WORD \in Nat
  BY FormatAssumption
<1> DEFINE d == WORD - w
<1>2. d \in Nat /\ WORD = d + w
  BY <1>1
<1> HIDE DEF d
<1> DEFINE p == pow2[d]
           W == pow2[w]
           a == -N
           q == a \div W
           s == a % W
<1>3. pow2[WORD] = p * W /\ p \in Nat \ {0} /\ W \in Nat \ {0}
  BY <1>2, PowSplit
<1> HIDE DEF p, W
<1>4. a \in Int
  OBVIOUS
<1> HIDE DEF a
<1>5. q \in Int /\ s \in 0 .. W - 1 /\ a = W * q + s
  BY <1>3, <1>4, DivMod, Zenon
<1> HIDE DEF q, s
<1> DEFINE k == p + q
<1>6. k \in Int /\ p * W + a = W * k + s
  <2>1. W * (p + q) = p * W + W * q /\ p * W \in Int /\ W * q \in Int
    BY <1>3, <1>5, Z3
  <2>2. QED BY <1>3, <1>5, <2>1
<1> HIDE DEF k
<1>7. (W * k + s) % W = s
  BY <1>3, <1>5, <1>6, DivUnique
<1>8. pow2[WORD] - N = p * W + a
  <2>1. p * W \in Int
    BY <1>3, TimesTyped
  <2>2. QED BY <1>3, <2>1 DEF a
<1>9. QED BY <1>6, <1>7, <1>8 DEF s, a, W

\* encode_integer saturates on the value it is given.
LEMMA EncodeIs ==
    ASSUME NEW w \in Nat \ {0}, w <= WORD, NEW target, target.bits = w, NEW signed \in BOOLEAN,
           target.is_signed = signed, NEW neg \in BOOLEAN, NEW N \in Nat, NEW m, m.kept = N,
           NEW lost \in BOOLEAN, m.lost <=> lost
    PROVE  encode_integer(m, neg, target) = IntegerOrEnd(N, lost, neg, w, signed)
<1> DEFINE P == pow2[w - 1]
           W == pow2[w]
           flags == IF lost THEN {"INEXACT"} ELSE {}
<1>1. P \in Nat \ {0} /\ W = 2 * P /\ W \in Nat \ {0}
  BY HalfPower
<1>2. (-P) % W = P /\ (P - 1) % W = P - 1 /\ (W - 1) % W = W - 1
  <2> HIDE DEF P, W
  <2>1. QED BY <1>1, SmallRemainders
<1>3. (pow2[WORD] - N) % W = (-N) % W
  BY NegationMasks
<1>4. encode_integer(m, neg, target)
        = IF ~signed /\ neg THEN Raising(0, {"INVALID"})
          ELSE IF N > (IF ~signed THEN W - 1 ELSE IF neg THEN P ELSE P - 1)
          THEN Raising(IF signed THEN P - (IF neg THEN 0 ELSE 1) ELSE IF neg THEN 0 ELSE W - 1, {"INVALID"})
          ELSE Raising((IF neg THEN pow2[WORD] - N ELSE N) % W, flags)
  BY DEF encode_integer, magnitude_limit, saturate, mask_to_width
<1>5. IntegerOrEnd(N, lost, neg, w, signed)
        = IF neg /\ ~signed THEN Raising(0, {"INVALID"})
          ELSE IF (IF neg THEN -N ELSE N) < (IF signed THEN -P ELSE 0)
          THEN Raising((IF signed THEN -P ELSE 0) % W, {"INVALID"})
          ELSE IF (IF neg THEN -N ELSE N) > (IF signed THEN P - 1 ELSE W - 1)
          THEN Raising((IF signed THEN P - 1 ELSE W - 1) % W, {"INVALID"})
          ELSE Raising((IF neg THEN -N ELSE N) % W, flags)
  BY DEF IntegerOrEnd
<1> HIDE DEF P, W, flags
<1>6. CASE neg /\ ~signed
  BY <1>4, <1>5, <1>6
<1>7. CASE neg /\ signed
  <2>1. (-N < -P <=> N > P) /\ ~(-N > P - 1) /\ P - 0 = P
    BY <1>1
  <2>2. QED BY <1>2, <1>3, <1>4, <1>5, <1>7, <2>1
<1>8. CASE ~neg /\ signed
  <2>1. ~(N < -P)
    BY <1>1
  <2>2. QED BY <1>2, <1>4, <1>5, <1>8, <2>1
<1>9. CASE ~neg /\ ~signed
  <2>1. ~(N < 0)
    OBVIOUS
  <2>2. QED BY <1>2, <1>4, <1>5, <1>9, <2>1
<1>10. QED BY <1>6, <1>7, <1>8, <1>9

\* FCVTZS and its like: the rounded value, or the end of the range.
LEMMA ToIntegerIs ==
    ASSUME NEW f \in Formats, NEW y \in Patterns(f), IsFinite(f, y), ~is_zero(f, y),
           unpack(y, f).exponent < 2 * WORD, NEW none, none = 0, NEW q, q = Scaled(f, y, none),
           NEW w \in Nat \ {0}, w <= WORD, NEW target, target.bits = w, NEW signed \in BOOLEAN,
           target.is_signed = signed, NEW r \in Modes,
           NEW N, N = RoundedInteger(q.num, q.den, is_negative(f, y), r),
           NEW lost \in BOOLEAN, lost <=> N * q.den # q.num
    PROVE  to_integer(y, f, target, r) = IntegerOrEnd(N, lost, is_negative(f, y), w, signed)
<1> DEFINE u == unpack(y, f)
           n == is_negative(f, y)
           m == integral_magnitude(u, f, r)
<1>1. n \in BOOLEAN /\ IsIntegral(m, q, n, r)
  BY MagnitudeIs
<1>2. m.kept = N /\ N \in Nat /\ (m.lost <=> lost)
  BY <1>1 DEF IsIntegral
<1>3. ~is_nan(f, y) /\ ~is_infinite(f, y)
  BY FiniteOperand
<1>4. to_integer(y, f, target, r) = encode_integer(m, n, target)
  BY <1>3 DEF to_integer
<1> HIDE DEF m, n
<1>5. encode_integer(m, n, target) = IntegerOrEnd(N, lost, n, w, signed)
  BY <1>1, <1>2, EncodeIs
<1>6. QED BY <1>4, <1>5 DEF n

\* A number of at most a mantissa's digits, within the range, is a pattern's value.
LEMMA Representable ==
    ASSUME NEW f \in Formats, NEW D \in Nat \ {0}, D < 2 * pow2[f.mantissa_bits], NEW K \in Nat,
           D * pow2[K] < Ulps(f, infinity(f))
    PROVE  \E b \in Nat : b < infinity(f) /\ Ulps(f, b) = D * pow2[K]
<1> DEFINE mb == f.mantissa_bits
           M == pow2[mb]
           X == max_exponent(f) - 1
           k == leading(D)
           s == mb - k
<1>1. mb \in Nat /\ M \in Nat \ {0} /\ WORD \in Nat /\ 32 * M <= pow2[2 * WORD + 1] /\ pow2[2 * WORD + 1] \in Nat
  BY Scales, WordHolds
<1>2. k \in Nat /\ pow2[k] <= D /\ D < pow2[k + 1]
  <2>1. D < pow2[2 * WORD + 1]
    BY <1>1
  <2>2. k \in 0 .. 2 * WORD /\ pow2[k] <= D /\ D < pow2[k + 1]
    BY <2>1, LeadingIs
  <2>3. QED BY <1>1, <2>2
<1> HIDE DEF k
<1>3. pow2[k] \in Nat \ {0} /\ pow2[k + 1] = 2 * pow2[k]
  BY <1>2, PowSucc
<1>4. s \in Nat /\ mb = k + s
  <2>1. mb < k => 2 * M <= pow2[k]
    BY <1>1, <1>2, PowMono
  <2>2. ~(mb < k)
    BY <1>1, <1>2, <1>3, <2>1
  <2>3. QED BY <1>1, <1>2, <2>2
<1> HIDE DEF s
<1>5. M = pow2[k] * pow2[s] /\ pow2[s] \in Nat \ {0}
  BY <1>2, <1>4, PowSplit
<1> DEFINE p == pow2[s]
           h == pow2[k]
           T == D * p
<1>6. T \in Nat /\ M <= T /\ T < 2 * M
  <2>1. h \in Nat \ {0} /\ p \in Nat \ {0} /\ h <= D /\ D < 2 * h /\ M = h * p
    BY <1>2, <1>3, <1>5
  <2> HIDE DEF h, p, M
  <2>2. h * p <= D * p /\ D * p < (2 * h) * p /\ (2 * h) * p = 2 * (h * p) /\ D * p \in Int /\ h * p \in Int
    <3>1. h * p <= D * p
      BY <2>1, TimesMono
    <3>2. D * p < (2 * h) * p
      BY <2>1, TimesStrict
    <3>3. (2 * h) * p = 2 * (h * p) /\ D * p \in Int /\ h * p \in Int
      BY <2>1, Z3
    <3>4. QED BY <3>1, <3>2, <3>3
  <2>3. QED BY <1>1, <2>1, <2>2 DEF M
<1>7. X \in Nat /\ Ulps(f, infinity(f)) = M * pow2[X]
  <2> DEFINE mx == max_exponent(f)
  <2>1. mx - 1 \in Nat /\ Ulps(f, infinity(f)) = pow2[f.mantissa_bits] * pow2[mx - 1]
    BY UlpsOfInfinity
  <2>2. QED BY <2>1
<1>8. CASE K >= s
  <2> DEFINE j == K - s
  <2>1. j \in Nat /\ K = s + j
    BY <1>4, <1>8
  <2> HIDE DEF j
  <2> DEFINE w == pow2[j]
             z == pow2[X]
  <2>2. pow2[K] = p * w /\ w \in Nat \ {0} /\ z \in Nat \ {0}
    <3>1. pow2[K] = pow2[s] * pow2[j] /\ pow2[j] \in Nat \ {0}
      BY <1>4, <2>1, PowSplit
    <3>2. z \in Nat \ {0}
      BY <1>7, PowSucc
    <3>3. QED BY <3>1, <3>2
  <2>3. D * pow2[K] = T * w
    <3>1. D * (p * w) = (D * p) * w
      BY <1>5, <2>2, Z3
    <3>2. QED BY <2>2, <3>1
  <2>4. w < z
    <3>1. T * w < M * z
      BY <1>7, <2>3
    <3> HIDE DEF T, M, w, z
    <3>2. M * w <= T * w
      BY <1>1, <1>6, <2>2, TimesMono
    <3>3. w >= z => M * z <= M * w
      <4>1. SUFFICES ASSUME w >= z PROVE M * z <= M * w
        OBVIOUS
      <4>2. z <= w /\ z \in Int /\ w \in Int /\ M \in Nat
        BY <1>1, <2>2, <4>1
      <4>3. QED BY <4>2, TimesMono
    <3>4. M * z \in Int /\ M * w \in Int /\ T * w \in Int
      BY <1>1, <1>6, <2>2, TimesTyped
    <3>5. QED BY <2>2, <3>1, <3>2, <3>3, <3>4
  <2>5. j < X
    <3>1. X <= j => z <= w
      BY <1>7, <2>1, PowMono
    <3>2. QED BY <1>7, <2>1, <2>2, <2>4, <3>1
  <2> DEFINE b == j * M + T
  <2>6. max_exponent(f) \in Int /\ j + 1 < max_exponent(f)
    <3>1. max_exponent(f) \in Int
      BY FormatSizes DEF Sizes
    <3>2. QED BY <2>1, <2>5, <3>1
  <2>7. M = pow2[f.mantissa_bits] /\ b = j * M + T
    OBVIOUS
  <2> HIDE DEF b, T, M
  <2>8. b \in Nat /\ b < infinity(f) /\ Ulps(f, b) = T * pow2[j]
    BY <1>6, <2>1, <2>6, <2>7, UlpsNormal
  <2>9. QED BY <2>3, <2>8
<1>9. CASE K < s
  <2> DEFINE w == pow2[K]
             y == D * w
  <2>1. 2 * w <= p /\ w \in Nat \ {0}
    BY <1>4, <1>9, PowMono, PowSucc
  <2>2. y \in Nat /\ y <= M
    <3> HIDE DEF w, p
    <3>1. D * (2 * w) <= D * p /\ D * (2 * w) = 2 * (D * w) /\ D * w \in Int /\ D * w >= 0
      <4>1. D * (2 * w) <= D * p
        BY <1>5, <2>1, TimesMono DEF p
      <4>2. D * (2 * w) = 2 * (D * w) /\ D * w \in Int
        BY <2>1, Z3
      <4>3. D * w >= 0
        BY <2>1, TimesTyped
      <4>4. QED BY <4>1, <4>2, <4>3
    <3>2. QED BY <1>1, <1>6, <3>1
  <2>3. PICK n \in BOOLEAN : ~n
    OBVIOUS
  <2> HIDE DEF y
  <2>4. Ulps(f, y) = y /\ y < infinity(f)
    BY <2>2, <2>3, UlpsSubnormal
  <2>5. QED BY <2>2, <2>4 DEF y
<1>10. QED BY <1>4, <1>8, <1>9

\* The signed pattern of a magnitude.
LEMMA SignedPattern ==
    ASSUME NEW f \in Formats, NEW n \in BOOLEAN, NEW b \in Nat, b < infinity(f), NEW z, z = zero(f, n) + b
    PROVE  /\ z \in Patterns(f) /\ is_negative(f, z) = n /\ IsFinite(f, z)
           /\ magnitude_bits(f, z) = b /\ Ulps(f, z) = Ulps(f, b)
<1> DEFINE M == pow2[f.mantissa_bits]
           raw == raw_exponent(f, b)
           y == mantissa(f, b)
           no == is_negative(f, b)
<1>1. b \in Patterns(f) /\ magnitude_bits(f, b) = b /\ infinity(f) \in Nat
  BY Magnitudes
<1>2. no \in BOOLEAN /\ raw \in 0 .. max_exponent(f) /\ y \in 0 .. M - 1 /\ b = Pattern(f, no, raw, y)
  BY <1>1, PatternOfFields
<1>3. b = raw * M + y
  <2>1. magnitude_bits(f, b) = raw * M + y
    <3> HIDE DEF raw, y, no
    <3>1. magnitude_bits(f, Pattern(f, no, raw, y)) = raw * pow2[f.mantissa_bits] + y
      BY <1>2, FieldsOfPattern
    <3>2. QED BY <1>2, <3>1
  <2>2. QED BY <1>1, <2>1
<1>4. M \in Nat \ {0} /\ max_exponent(f) \in Nat /\ infinity(f) = max_exponent(f) * M
  BY FormatSizes DEF Sizes
<1>5. raw # max_exponent(f)
  <2> HIDE DEF raw, y, M
  <2>1. raw = max_exponent(f) => infinity(f) = raw * M
    BY <1>4
  <2>2. raw * M \in Int
    BY <1>2, <1>4, TimesTyped
  <2>3. QED BY <1>1, <1>2, <1>3, <2>1, <2>2
<1>6. z = Pattern(f, n, raw, y)
  BY <1>3 DEF Pattern
<1> HIDE DEF raw, y
<1>7. /\ z \in Patterns(f) /\ raw_exponent(f, z) = raw /\ mantissa(f, z) = y
      /\ magnitude_bits(f, z) = raw * M + y /\ is_negative(f, z) = n
  BY <1>2, <1>6, FieldsOfPattern
<1>8. Ulps(f, z) = Ulps(f, b)
  BY <1>7 DEF Ulps, raw, y
<1>9. QED BY <1>3, <1>5, <1>7, <1>8 DEF IsFinite

\* A pattern worth N units is the integer N, and the other way round.
LEMMA WholeScaled ==
    ASSUME NEW f \in Formats, NEW z \in Patterns(f), NEW N \in Nat, NEW none, none = 0, NEW q, q = Scaled(f, z, none)
    PROVE  /\ q.num \in Nat /\ q.den \in Nat \ {0}
           /\ Ulps(f, z) = N * pow2[UnitBits(f)] <=> q.num = N * q.den
<1> DEFINE U == Ulps(f, z)
           p == pow2[UnitBits(f)]
           num == q.num
           den == q.den
<1>1. num \in Nat /\ den \in Nat \ {0} /\ U \in Nat /\ num * p = U * den
  <2>1. none \in Nat
    OBVIOUS
  <2>2. IsScaled(q.num, q.den, U, none, f)
    BY <2>1, ScaledIs
  <2>3. U * pow2[none] = U
    BY <2>2, PowValues DEF IsScaled
  <2>4. QED BY <2>2, <2>3 DEF IsScaled
<1>2. p \in Nat \ {0}
  BY UnitBitsIs
<1> HIDE DEF U, p, num, den
<1> DEFINE a == N * p
           b == N * den
<1>3. a \in Int /\ b \in Int
  BY <1>1, <1>2, TimesTyped
<1>4. a * den = b * p
  <2>1. (N * p) * den = (N * den) * p
    BY <1>1, <1>2, Z3
  <2>2. QED BY <2>1
<1> HIDE DEF a, b
<1>5. U * den = a * den <=> U = a
  BY <1>1, <1>3, Cancels
<1>6. num * p = b * p <=> num = b
  BY <1>1, <1>2, <1>3, Cancels
<1>7. QED BY <1>1, <1>4, <1>5, <1>6 DEF U, p, num, den, a, b

\* Every integer of at most a mantissa's bits is a pattern's value.
LEMMA WholePattern ==
    ASSUME NEW f \in Formats, f.mantissa_bits <= exponent_bias(f), NEW N \in Nat \ {0}, N <= pow2[f.mantissa_bits]
    PROVE  \E b \in Nat : b < infinity(f) /\ Ulps(f, b) = N * pow2[UnitBits(f)]
<1> DEFINE mb == f.mantissa_bits
           M == pow2[mb]
           B == UnitBits(f)
           top == max_exponent(f)
           X == top - 1
           p == pow2[B]
           z == pow2[X]
<1>1. mb \in Nat \ {0} /\ M \in Nat \ {0} /\ N < 2 * M
  BY Scales
<1>2. top \in Nat /\ exponent_bias(f) \in Nat /\ top = 2 * exponent_bias(f) + 1
  BY FormatSizes DEF Sizes
<1>3. B \in Nat /\ B < X /\ p \in Nat \ {0}
  <2>1. B \in Nat /\ p \in Nat \ {0}
    BY UnitBitsIs
  <2>2. B = mb + exponent_bias(f) - 1
    BY DEF UnitBits
  <2>3. QED BY <1>1, <1>2, <2>1, <2>2
<1>4. X \in Nat /\ Ulps(f, infinity(f)) = M * z
  BY UlpsOfInfinity
<1>5. 2 * p <= z /\ z \in Nat \ {0}
  <2> HIDE DEF X, B
  <2>1. QED BY <1>3, <1>4, PowMono, PowSucc
<1>6. N * p < M * z
  <2>1. N <= M
    OBVIOUS
  <2> HIDE DEF M, p, z
  <2>2. N * p <= M * p
    BY <1>1, <1>3, <2>1, TimesMono
  <2>3. p < z /\ p \in Int /\ z \in Int
    BY <1>3, <1>5
  <2>4. M * p < M * z
    BY <1>1, <2>3, TimesStrict
  <2>5. N * p \in Int /\ M * p \in Int /\ M * z \in Int
    BY <1>1, <1>3, <1>5, TimesTyped
  <2>6. QED BY <2>2, <2>4, <2>5
<1>7. N * pow2[B] < Ulps(f, infinity(f))
  BY <1>4, <1>6
<1> HIDE DEF B
<1>8. \E b \in Nat : b < infinity(f) /\ Ulps(f, b) = N * pow2[B]
  BY <1>1, <1>3, <1>7, Representable
<1>9. QED BY <1>8 DEF B

\* An integer that is a pattern's value is packed as that pattern.
LEMMA WholePacked ==
    ASSUME NEW f \in Formats, NEW N \in Nat \ {0}, NEW b \in Nat, b < infinity(f),
           Ulps(f, b) = N * pow2[UnitBits(f)], NEW n \in BOOLEAN, NEW r \in Modes, NEW c, ~is_flushing(f, c),
           NEW s \in Nat, NEW S, S = N * pow2[s], S < pow2[WORD], NEW e, e = scale(f) - s, NEW no \in BOOLEAN, ~no
    PROVE  round_and_pack(Unpacked(n, e, S), no, f, r, c) = Exact(zero(f, n) + b)
<1> DEFINE B == UnitBits(f)
           g == scale(f)
           num == N * pow2[B]
           den == 1
<1>1. min_exponent(f) \in Int /\ g \in Int /\ e \in Int
  BY WideEnough
<1>2. B \in Nat /\ B = g - min_exponent(f) - 3 /\ pow2[B] \in Nat \ {0}
  BY UnitBitsIs
<1>3. num \in Nat \ {0}
  <2> DEFINE p == pow2[B]
  <2>1. p \in Nat \ {0}
    BY <1>2
  <2> HIDE DEF p
  <2>2. N * p \in Int /\ N * p > 0
    BY <2>1, TimesTyped
  <2>3. QED BY <2>2 DEF p
<1>4. Stands(N, no, g, num, den, f)
  <2>1. B - 0 = g - min_exponent(f) - 3 /\ 0 \in Nat
    BY <1>1, <1>2
  <2>2. Floors(N, no, num * pow2[0], den * pow2[B])
    <3> DEFINE A == num * pow2[0]
               P == den * pow2[B]
    <3>1. pow2[0] = 1
      BY PowValues
    <3>2. A = num /\ P = pow2[B]
      BY <1>2, <1>3, <3>1
    <3>3. A \in Nat /\ P \in Nat \ {0} /\ N * P = A
      BY <1>2, <1>3, <3>2
    <3> HIDE DEF A, P
    <3>4. Floors(N, no, A, P)
      BY <3>3, ExactFloors
    <3>5. QED BY <3>4 DEF A, P
  <2> HIDE DEF B, num, den, g
  <2>3. QED BY <1>2, <2>1, <2>2 DEF Stands
<1>5. den \in Nat \ {0} /\ num \in Nat
  BY <1>3
<1> HIDE DEF num, den
<1>6. S \in Nat /\ Stands(S, no, e, num, den, f)
  <2>1. N * pow2[s] \in Nat /\ Stands(N * pow2[s], no, g - s, num, den, f)
    <3> HIDE DEF g
    <3>1. QED BY <1>1, <1>4, <1>5, StandsUp
  <2>2. QED BY <2>1
<1>7. S # 0
  <2> DEFINE p == pow2[s]
  <2>1. p \in Nat \ {0}
    BY PowSucc
  <2> HIDE DEF p
  <2>2. N * p > 0
    BY <2>1, TimesTyped
  <2>3. QED BY <2>2 DEF p
<1>8. Ready(S, no, e, num, den, f)
  BY <1>6, <1>7 DEF Ready
<1> DEFINE v == Unpacked(n, e, S)
<1>9. v \in UnpackedValues /\ v.significand = S /\ v.exponent = e /\ v.is_negative = n
  BY <1>1, <1>6, UnpackedIs
<1>10. Ready(v.significand, no, v.exponent, num, den, f)
  BY <1>8, <1>9
<1> HIDE DEF v
<1>11. den = 1 => round_and_pack(v, no, f, r, c) = Rounded(num, den, v.is_negative, f, r)
  BY <1>5, <1>9, <1>10, RoundAndPackRounds
<1>12. Ulps(f, b) * den = num
  BY <1>3, <1>5 DEF num, den, B
<1>13. Rounded(num, den, n, f, r) = Exact(zero(f, n) + b)
  BY <1>5, <1>12, ExactlyRounded
<1>14. QED BY <1>9, <1>11, <1>13 DEF v, den

\* An exact result: the pattern of the integer N with a sign.
IsWhole(res, N, n, f) ==
    \E z \in Patterns(f) : /\ res = Exact(z) /\ is_negative(f, z) = n
                           /\ Ulps(f, z) = N * pow2[UnitBits(f)]

\* The pattern found for an integer is such a result,
LEMMA WholeOf ==
    ASSUME NEW f \in Formats, NEW b \in Nat, b < infinity(f), NEW N, Ulps(f, b) = N * pow2[UnitBits(f)],
           NEW n \in BOOLEAN, NEW res, res = Exact(zero(f, n) + b)
    PROVE  IsWhole(res, N, n, f)
<1> DEFINE z == zero(f, n) + b
<1>1. z \in Patterns(f) /\ is_negative(f, z) = n /\ Ulps(f, z) = Ulps(f, b)
  BY SignedPattern
<1>2. res = Exact(z)
  OBVIOUS
<1> HIDE DEF z
<1>3. QED BY <1>1, <1>2 DEF IsWhole

\* and so is a zero.
LEMMA NothingIsWhole ==
    ASSUME NEW f \in Formats, NEW N, N = 0, NEW n \in BOOLEAN, NEW res, res = Exact(zero(f, n))
    PROVE  IsWhole(res, N, n, f)
<1> DEFINE z == zero(f, n)
<1>1. z \in Patterns(f) /\ is_negative(f, z) = n /\ is_zero(f, z)
  BY ZeroIsZero
<1>2. Ulps(f, z) = 0
  BY <1>1, UnpackZero
<1>3. N * pow2[UnitBits(f)] = 0
  BY UnitBitsIs
<1> HIDE DEF z
<1>4. QED BY <1>1, <1>2, <1>3 DEF IsWhole, z

\* A significand that loses bits when rounded to an integer leaves fewer than a mantissa has.
LEMMA RoundedDigits ==
    ASSUME NEW f \in Formats, NEW S \in Nat, S < 2 * pow2[scale(f)], S % 8 = 0, NEW s \in Nat,
           NEW Q, Q = pow2[s], S % Q # 0
    PROVE  S \div Q < pow2[f.mantissa_bits]
<1> DEFINE M == pow2[f.mantissa_bits]
<1>1. M \in Nat \ {0} /\ pow2[scale(f)] = 8 * M
  BY Scales
<1>2. s > 3
  <2>1. SUFFICES ASSUME s <= 3 PROVE FALSE
    OBVIOUS
  <2>2. Q \in {1, 2, 4, 8}
    <3>1. s = 0 \/ s = 1 \/ s = 2 \/ s = 3
      BY <2>1
    <3>2. QED BY <3>1, PowValues
  <2>3. S = 8 * (S \div 8) /\ S \div 8 \in Nat
    BY EighthsAre
  <2> DEFINE t == S \div 8
  <2>4. S = 8 * t /\ t \in Nat
    BY <2>3
  <2> HIDE DEF t
  <2>5. (8 * t) % 1 = 0 /\ (8 * t) % 2 = 0 /\ (8 * t) % 4 = 0 /\ (8 * t) % 8 = 0
    BY <2>4
  <2>6. QED BY <2>2, <2>4, <2>5
<1>3. 16 <= Q /\ Q \in Nat \ {0}
  <2>1. pow2[4] <= pow2[s]
    BY <1>2, PowMono
  <2>2. pow2[s] \in Nat \ {0}
    BY PowSucc
  <2>3. QED BY <2>1, <2>2, PowValues
<1> HIDE DEF M
<1>4. S < Q * M
  <2>1. 16 * M <= Q * M /\ Q * M \in Int
    BY <1>1, <1>3, TimesMono, TimesTyped
  <2>2. QED BY <1>1, <2>1
<1>5. QED BY <1>1, <1>3, <1>4, DivBelow DEF M

\* FRINT: the rounded integer, exactly, with the sign of the operand.
LEMMA IntegralIs ==
    ASSUME NEW f \in Formats, f.mantissa_bits <= exponent_bias(f), NEW y \in Patterns(f), IsFinite(f, y),
           ~is_zero(f, y), NEW none, none = 0, NEW q, q = Scaled(f, y, none), NEW r \in Modes, NEW c, ~is_flushing(f, c),
           NEW n, n = is_negative(f, y), NEW N, N = RoundedInteger(q.num, q.den, n, r)
    PROVE  n \in BOOLEAN /\ N \in Nat /\ IsWhole(round_to_integral(y, f, r, c), N, n, f)
<1> DEFINE u == unpack(y, f)
           S == u.significand
           e == u.exponent
           g == scale(f)
           s == g - e
           res == round_to_integral(y, f, r, c)
           M == pow2[f.mantissa_bits]
<1>1. /\ u \in UnpackedValues /\ Carries(u, Ulps(f, y), f) /\ u.is_negative = n /\ n \in BOOLEAN
      /\ ~is_nan(f, y) /\ ~is_infinite(f, y)
  BY FiniteOperand DEF Measures
<1>2. /\ S \in Nat \ {0} /\ e \in Int /\ pow2[g] <= S /\ S < 2 * pow2[g] /\ g \in Nat /\ pow2[g] \in Nat \ {0}
      /\ WORD \in Nat /\ 4 * pow2[g] <= pow2[WORD] /\ pow2[WORD] \in Nat
  BY <1>1, Normalised
<1>3. S % 8 = 0
  BY <1>1 DEF Carries
<1>4. PICK no \in BOOLEAN : no = FALSE
  OBVIOUS
<1>5. res = IF s <= 0 THEN Exact(y)
            ELSE IF s >= WORD
            THEN IF points_away(r, n) THEN round_and_pack(Unpacked(n, 0, pow2[g]), no, f, r, c) ELSE Exact(zero(f, n))
            ELSE IF rounded_at(S, s, r, n) = 0 THEN Exact(zero(f, n))
            ELSE round_and_pack([u EXCEPT !.significand = rounded_at(S, s, r, n) * pow2[s]], no, f, r, c)
  BY <1>1, <1>4 DEF round_to_integral
<1>6. \A a, b \in Nat : a - b = e - g =>
          q.num * pow2[b] = (S * pow2[a]) * q.den /\ q.num \in Nat /\ q.den \in Nat \ {0}
  BY OperandRatio
<1>7. M \in Nat \ {0} /\ M >= 2 /\ s \in Int
  BY <1>2, Scales
<1> HIDE DEF res, S, g, u, e
<1>8. CASE s <= 0
  <2> DEFINE a == e - g
             b == 0
             T == S * pow2[a]
             Q == 1
  <2>1. a \in Nat /\ b \in Nat /\ a - b = e - g
    BY <1>2, <1>8
  <2>2. T \in Nat
    <3> DEFINE p == pow2[a]
    <3>1. p \in Nat
      <4> HIDE DEF a
      <4>1. QED BY <2>1, PowSucc
    <3> HIDE DEF p
    <3>2. S * p \in Int /\ S * p >= 0
      BY <1>2, <3>1, TimesTyped
    <3>3. QED BY <3>2 DEF p
  <2>3. SameRatio(q.num, q.den, T, Q) /\ q.num = T * q.den
    <3>1. q.num * pow2[b] = T * q.den /\ q.num \in Nat /\ q.den \in Nat \ {0}
      BY <1>6, <2>1
    <3>2. pow2[b] = 1
      BY PowValues
    <3>3. QED BY <2>2, <3>1, <3>2 DEF SameRatio
  <2>4. Q = 1
    OBVIOUS
  <2> HIDE DEF T, Q
  <2>5. N = T
    <3>1. RoundedInteger(T, Q, n, r) = T
      BY <2>2, <2>4, WholeRoundsToItself
    <3>2. RoundedInteger(q.num, q.den, n, r) = RoundedInteger(T, Q, n, r)
      BY <1>1, <2>3, RatioRounds
    <3>3. QED BY <3>1, <3>2
  <2>6. Ulps(f, y) = N * pow2[UnitBits(f)]
    <3>1. N \in Nat /\ q.num = N * q.den
      BY <2>2, <2>3, <2>5
    <3>2. QED BY <3>1, WholeScaled
  <2>7. res = Exact(y)
    BY <1>5, <1>8
  <2>8. QED BY <1>1, <2>2, <2>5, <2>6, <2>7 DEF IsWhole, res
<1>9. CASE s > 0
  <2> DEFINE b == s
             a == 0
             Q == pow2[b]
  <2>1. a \in Nat /\ b \in Nat \ {0} /\ a - b = e - g
    BY <1>2, <1>7, <1>9
  <2>2. Q \in Nat \ {0} /\ b \in Nat
    <3> HIDE DEF b
    <3>1. QED BY <2>1, PowSucc
  <2>3. SameRatio(q.num, q.den, S, Q)
    <3>1. q.num * pow2[b] = (S * pow2[a]) * q.den /\ q.num \in Nat /\ q.den \in Nat \ {0}
      BY <1>6, <2>1
    <3>2. pow2[a] = 1
      BY PowValues
    <3>3. S * pow2[a] = S
      BY <1>2, <3>2
    <3>4. QED BY <1>2, <2>2, <3>1, <3>3 DEF SameRatio
  <2>4. N = RoundedInteger(S, Q, n, r)
    <3> HIDE DEF Q
    <3>1. QED BY <1>1, <2>3, RatioRounds
  <2>5. CASE b >= WORD
    <3> DEFINE k == IF points_away(r, n) THEN 1 ELSE 0
    <3>1. 2 * S < Q /\ Q \in Nat
      <4> HIDE DEF b
      <4>1. pow2[WORD] <= pow2[b]
        BY <1>2, <2>2, <2>5, PowMono
      <4>2. QED BY <1>2, <2>2, <4>1
    <3>2. k = IF points_away(r, n) THEN 1 ELSE 0
      OBVIOUS
    <3> HIDE DEF k, Q
    <3>3. k \in {0, 1} /\ RoundedInteger(S, Q, n, r) = k
      BY <1>1, <1>2, <3>1, <3>2, BelowHalfRounds
    <3>4. N = k /\ N \in Nat
      BY <2>4, <3>3
    <3>5. ~(s <= 0) /\ s >= WORD
      BY <1>7, <1>9, <2>5
    <3>6. CASE ~points_away(r, n)
      <4>1. res = Exact(zero(f, n)) /\ N = 0
        BY <1>5, <3>2, <3>4, <3>5, <3>6
      <4>2. IsWhole(res, N, n, f)
        BY <1>1, <4>1, NothingIsWhole
      <4>3. QED BY <1>1, <3>4, <4>2 DEF res
    <3>7. CASE points_away(r, n)
      <4>1. N = 1 /\ N \in Nat \ {0} /\ N <= M
        BY <1>7, <3>2, <3>4, <3>7
      <4>2. PICK d \in Nat : d < infinity(f) /\ Ulps(f, d) = N * pow2[UnitBits(f)]
        BY <4>1, WholePattern
      <4> DEFINE K == N * pow2[g]
                 z == 0
      <4>3. K = pow2[g] /\ K < pow2[WORD] /\ z = scale(f) - g
        BY <1>2, <4>1 DEF g
      <4>4. K = N * pow2[g]
        OBVIOUS
      <4> HIDE DEF K, z
      <4>5. round_and_pack(Unpacked(n, z, K), no, f, r, c) = Exact(zero(f, n) + d)
        BY <1>1, <1>2, <1>4, <4>1, <4>2, <4>3, <4>4, WholePacked
      <4>6. res = Exact(zero(f, n) + d)
        BY <1>5, <3>5, <3>7, <4>3, <4>5 DEF z
      <4>7. IsWhole(res, N, n, f)
        BY <1>1, <4>1, <4>2, <4>6, WholeOf
      <4>8. QED BY <1>1, <3>4, <4>7 DEF res
    <3>8. QED BY <3>6, <3>7
  <2>6. CASE ~(b >= WORD)
    <3> DEFINE k == rounded_at(S, b, r, n)
               t == S \div Q
    <3>1. Q = pow2[b] /\ k = rounded_at(S, b, r, n) /\ ~(s <= 0) /\ ~(s >= WORD) /\ s < WORD
      BY <1>2, <1>7, <1>9, <2>6
    <3> HIDE DEF k, Q
    <3>2. /\ k = RoundedInteger(S, Q, n, r) /\ t \in Nat /\ k \in {t, t + 1} /\ (k * Q = S <=> S % Q = 0)
      <4> HIDE DEF b
      <4>1. QED BY <1>1, <1>2, <2>1, <3>1, RoundedAtIs
    <3>3. t * Q <= S
      <4>1. S \in Int
        BY <1>2
      <4>2. S % Q \in 0 .. Q - 1 /\ S = Q * (S \div Q) + (S % Q)
        BY <2>2, <4>1, DivMod, Zenon
      <4> HIDE DEF t
      <4>3. t * Q = Q * t /\ t * Q \in Int
        BY <2>2, <3>2, TimesTyped
      <4>4. QED BY <1>2, <2>2, <4>2, <4>3 DEF t
    <3> HIDE DEF t
    <3>4. N = k /\ N \in Nat
      BY <2>4, <3>2
    <3>5. CASE N = 0
      <4>1. res = Exact(zero(f, n))
        BY <1>5, <3>1, <3>4, <3>5
      <4>2. IsWhole(res, N, n, f)
        BY <1>1, <3>5, <4>1, NothingIsWhole
      <4>3. QED BY <1>1, <3>4, <4>2 DEF res
    <3>6. CASE N # 0
      <4> DEFINE K == N * Q
      <4>1. K \in Nat /\ K < pow2[WORD]
        <5>1. 2 * Q <= pow2[WORD]
          <6> HIDE DEF b
          <6>1. b < WORD
            BY <2>2, <3>1, <1>2, <2>6
          <6>2. QED BY <1>2, <2>2, <3>1, <6>1, PowMono
        <5>2. K = t * Q \/ K = t * Q + Q
          <6>1. (t + 1) * Q = t * Q + Q
            BY <2>2, <3>2, TimesSucc
          <6>2. QED BY <3>2, <3>4, <6>1
        <5>3. K \in Int /\ K >= 0 /\ t * Q \in Int
          BY <2>2, <3>2, <3>4, TimesTyped
        <5> DEFINE l == t * Q
        <5>4. l \in Int /\ (K = l \/ K = l + Q) /\ l <= S
          BY <3>3, <5>2, <5>3
        <5> HIDE DEF l, K
        <5>5. QED BY <1>2, <2>2, <5>1, <5>3, <5>4
      <4>2. \E d \in Nat : d < infinity(f) /\ Ulps(f, d) = N * pow2[UnitBits(f)]
        <5>1. CASE S % Q = 0
          <6>1. N * q.den = q.num
            <7>1. N * Q = S
              BY <3>2, <3>4, <5>1
            <7>2. QED BY <2>3, <3>4, <7>1, RatioCompares
          <6>2. Ulps(f, y) = N * pow2[UnitBits(f)]
            BY <3>4, <6>1, WholeScaled
          <6> DEFINE d == magnitude_bits(f, y)
          <6>3. d \in Nat /\ d < infinity(f) /\ Ulps(f, d) = Ulps(f, y)
            BY MagnitudeOf
          <6>4. QED BY <6>2, <6>3
        <5>2. CASE S % Q # 0
          <6>1. t < M
            <7> HIDE DEF b
            <7>1. S < 2 * pow2[scale(f)]
              BY <1>2 DEF g
            <7>2. QED BY <1>2, <1>3, <2>2, <3>1, <5>2, <7>1, RoundedDigits DEF t
          <6>2. N \in Nat \ {0} /\ N <= M
            BY <1>7, <3>2, <3>4, <3>6, <6>1
          <6>3. QED BY <6>2, WholePattern
        <5>3. QED BY <5>1, <5>2
      <4>3. PICK d \in Nat : d < infinity(f) /\ Ulps(f, d) = N * pow2[UnitBits(f)]
        BY <4>2
      <4>4. [u EXCEPT !.significand = K] = Unpacked(n, e, K)
        <5> HIDE DEF K
        <5>1. u \in UnpackedValues /\ K \in Nat /\ e \in Int
          BY <1>1, <1>2, <4>1
        <5>2. [u EXCEPT !.significand = K] = Unpacked(u.is_negative, u.exponent, K)
          BY <5>1, UnpackedUpdate
        <5>3. QED BY <1>1, <5>2 DEF e
      <4>5. res = round_and_pack(Unpacked(n, e, K), no, f, r, c)
        BY <1>5, <3>1, <3>4, <3>6, <4>4
      <4>6. N \in Nat \ {0} /\ K = N * pow2[b] /\ e = scale(f) - b /\ ~no
        BY <1>2, <1>4, <3>1, <3>4, <3>6 DEF g
      <4> HIDE DEF K, b
      <4>7. round_and_pack(Unpacked(n, e, K), no, f, r, c) = Exact(zero(f, n) + d)
        BY <1>1, <1>4, <2>2, <4>1, <4>3, <4>6, WholePacked
      <4>8. res = Exact(zero(f, n) + d)
        BY <4>5, <4>7
      <4>9. IsWhole(res, N, n, f)
        BY <1>1, <4>3, <4>8, WholeOf
      <4>10. QED BY <1>1, <3>4, <4>9 DEF res
    <3>7. QED BY <3>5, <3>6
  <2>7. QED BY <2>5, <2>6
<1>10. QED BY <1>7, <1>8, <1>9

\* g has no fewer bits than f in either field.
Wider(g, f) == f.mantissa_bits <= g.mantissa_bits /\ f.exponent_bits <= g.exponent_bits

\* The sizes of two such formats.
LEMMA WiderSizes ==
    ASSUME NEW f \in Formats, NEW g \in Formats, Wider(g, f)
    PROVE  /\ exponent_bias(f) \in Nat /\ exponent_bias(g) \in Nat /\ exponent_bias(f) <= exponent_bias(g)
           /\ f.mantissa_bits \in Nat \ {0} /\ g.mantissa_bits \in Nat \ {0} /\ f.mantissa_bits <= g.mantissa_bits
           /\ pow2[f.mantissa_bits] <= pow2[g.mantissa_bits]
           /\ max_exponent(f) = 2 * exponent_bias(f) + 1 /\ max_exponent(g) = 2 * exponent_bias(g) + 1
           /\ UnitBits(g) - UnitBits(f) \in Nat
<1>1. /\ exponent_bias(f) \in Nat /\ exponent_bias(g) \in Nat
      /\ max_exponent(f) = 2 * exponent_bias(f) + 1 /\ max_exponent(g) = 2 * exponent_bias(g) + 1
  BY FormatSizes DEF Sizes
<1>2. /\ f.mantissa_bits \in Nat \ {0} /\ g.mantissa_bits \in Nat \ {0} /\ f.mantissa_bits <= g.mantissa_bits
      /\ f.exponent_bits \in Nat \ {0, 1} /\ g.exponent_bits \in Nat \ {0, 1} /\ f.exponent_bits <= g.exponent_bits
  BY FormatAssumption DEF Wider
<1>3. pow2[f.mantissa_bits] <= pow2[g.mantissa_bits]
  <2> DEFINE a == f.mantissa_bits
             b == g.mantissa_bits
  <2>1. a \in Nat /\ b \in Nat /\ a <= b
    BY <1>2
  <2> HIDE DEF a, b
  <2>2. pow2[a] <= pow2[b]
    BY <2>1, PowMono
  <2>3. QED BY <2>2 DEF a, b
<1>4. exponent_bias(f) <= exponent_bias(g)
  <2> DEFINE a == f.exponent_bits - 1
             b == g.exponent_bits - 1
  <2>1. a \in Nat /\ b \in Nat /\ a <= b
    BY <1>2
  <2> HIDE DEF a, b
  <2>2. pow2[a] <= pow2[b] /\ pow2[a] \in Nat /\ pow2[b] \in Nat
    BY <2>1, PowMono, PowSucc
  <2>3. QED BY <2>2 DEF a, b, exponent_bias
<1>5. UnitBits(g) - UnitBits(f) \in Nat
  BY <1>1, <1>2, <1>4 DEF UnitBits
<1>6. QED BY <1>1, <1>2, <1>3, <1>4, <1>5

\* Every finite value of f is one of g.
LEMMA WidenedValue ==
    ASSUME NEW f \in Formats, NEW g \in Formats, Wider(g, f), NEW y \in Patterns(f), IsFinite(f, y), ~is_zero(f, y),
           NEW w, w = UnitBits(g) - UnitBits(f)
    PROVE  w \in Nat /\ \E b \in Nat : b < infinity(g) /\ Ulps(g, b) = Ulps(f, y) * pow2[w]
<1> DEFINE D == ScaledDigit(f, y)
           P == ScaledPlaces(f, y)
           U == Ulps(f, y)
           Mf == pow2[f.mantissa_bits]
           Mg == pow2[g.mantissa_bits]
<1>1. D \in Nat /\ P \in Nat /\ U = D * pow2[P] /\ U \in Nat
  BY UlpsScaled
<1>2. /\ exponent_bias(f) \in Nat /\ exponent_bias(g) \in Nat /\ exponent_bias(f) <= exponent_bias(g)
      /\ f.mantissa_bits \in Nat \ {0} /\ g.mantissa_bits \in Nat \ {0}
      /\ Mf <= Mg
      /\ max_exponent(f) = 2 * exponent_bias(f) + 1 /\ max_exponent(g) = 2 * exponent_bias(g) + 1
      /\ w \in Nat
  BY WiderSizes
<1>3. Mf \in Nat \ {0} /\ Mg \in Nat \ {0}
  BY Scales
<1>4. D \in Nat \ {0} /\ D < 2 * Mf /\ P <= max_exponent(f) - 2
  <2>1. raw_exponent(f, y) \in 0 .. max_exponent(f) /\ mantissa(f, y) \in 0 .. Mf - 1 /\ raw_exponent(f, y) # max_exponent(f)
    BY PatternOfFields DEF IsFinite
  <2>2. ~(raw_exponent(f, y) = 0 /\ mantissa(f, y) = 0)
    BY IsZeroIs
  <2>3. max_exponent(f) >= 2
    <3>1. max_exponent(f) \in Int /\ max_exponent(f) >= 3
      BY FormatSizes DEF Sizes
    <3>2. QED BY <3>1
  <2> HIDE DEF Mf
  <2>4. QED BY <1>2, <1>3, <2>1, <2>2, <2>3 DEF ScaledDigit, ScaledPlaces, Mf
<1> DEFINE K == P + w
           X == max_exponent(g) - 1
           p == pow2[K]
           z == pow2[X]
<1>5. K \in Nat /\ p \in Nat \ {0} /\ U * pow2[w] = D * p
  <2>1. pow2[K] = pow2[P] * pow2[w] /\ pow2[P] \in Nat \ {0} /\ pow2[w] \in Nat \ {0} /\ pow2[K] \in Nat \ {0}
    BY <1>1, <1>2, PowSplit
  <2> DEFINE i == pow2[P]
             j == pow2[w]
  <2>2. i \in Nat /\ j \in Nat /\ p = i * j /\ U = D * i
    BY <1>1, <2>1
  <2> HIDE DEF i, j, D, p, U
  <2>3. (D * i) * j = D * (i * j)
    BY <1>1, <2>2, Z3
  <2>4. QED BY <1>1, <1>2, <2>1, <2>2, <2>3 DEF j, p
\* K + the bits of D stay within g: P <= 2 bias_f - 1.
<1>6. X \in Nat /\ Ulps(g, infinity(g)) = Mg * z /\ z \in Nat \ {0}
  <2>1. X \in Nat /\ Ulps(g, infinity(g)) = Mg * z
    BY UlpsOfInfinity
  <2> HIDE DEF X
  <2>2. QED BY <2>1, PowSucc
<1>7. D * p < Mg * z
  <2> DEFINE a == f.mantissa_bits + K + 1
             b == g.mantissa_bits + X
             k1 == K + 1
  <2>1. a \in Nat /\ b \in Nat /\ a <= b /\ k1 \in Nat /\ a = f.mantissa_bits + k1
    <3>1. w = (g.mantissa_bits + exponent_bias(g) - 1) - (f.mantissa_bits + exponent_bias(f) - 1)
      BY DEF UnitBits
    <3> HIDE DEF P
    <3>2. QED BY <1>1, <1>2, <1>4, <3>1
  <2>2. pow2[b] = Mg * z
    <3> HIDE DEF X
    <3>1. QED BY <1>2, <1>6, PowSplit
  <2>3. pow2[a] = Mf * pow2[k1]
    <3> HIDE DEF k1, a
    <3>1. QED BY <1>2, <2>1, PowSplit
  <2>4. pow2[k1] = 2 * p
    <3> HIDE DEF K
    <3>1. QED BY <1>5, PowSucc
  <2>5. pow2[a] <= pow2[b] /\ pow2[a] \in Nat /\ pow2[b] \in Nat
    <3> HIDE DEF a, b
    <3>1. QED BY <2>1, PowMono, PowSucc
  <2>6. D * p < Mf * (2 * p)
    <3> HIDE DEF D, p, Mf
    <3>1. D * p < (2 * Mf) * p
      BY <1>3, <1>4, <1>5, TimesStrict
    <3>2. (2 * Mf) * p = Mf * (2 * p)
      BY <1>3, <1>5, Z3
    <3>3. QED BY <3>1, <3>2
  <2>7. D * p \in Int
    <3> HIDE DEF D, p
    <3>1. QED BY <1>4, <1>5, TimesTyped
  <2> DEFINE l == D * p
             A == pow2[a]
             C == pow2[b]
  <2>8. l \in Int /\ A \in Nat /\ C \in Nat /\ l < A /\ A <= C
    BY <2>3, <2>4, <2>5, <2>6, <2>7
  <2> HIDE DEF l, A, C
  <2>9. l < C
    BY <2>8
  <2>10. QED BY <2>2, <2>9 DEF l, C
<1>8. D < 2 * Mg /\ D * pow2[K] < Ulps(g, infinity(g))
  BY <1>2, <1>3, <1>4, <1>6, <1>7
<1> HIDE DEF D, K, U
<1>9. \E b \in Nat : b < infinity(g) /\ Ulps(g, b) = D * pow2[K]
  BY <1>4, <1>5, <1>8, Representable
<1>10. QED BY <1>2, <1>5, <1>9 DEF U

\* Converting a number that the target has gives that number.
LEMMA ExactConversion ==
    ASSUME NEW f \in Formats, NEW g \in Formats, NEW y \in Patterns(f), IsFinite(f, y), ~is_zero(f, y),
           NEW r \in Modes, NEW c, ~is_flushing(g, c), NEW q, q = Scaled(f, y, UnitBits(g)),
           NEW b \in Nat, b < infinity(g), Ulps(g, b) * q.den = q.num, NEW n, n = is_negative(f, y)
    PROVE  convert_format(y, f, g, c, r) = Exact(zero(g, n) + b)
<1> DEFINE P == convert_format(y, f, g, c, r)
           num == q.num
           den == q.den
           R == Rounded(num, den, n, g, r)
<1>1. num \in Nat /\ den \in Nat \ {0} /\ RoundedOrHalved(P, R, num, den, g)
  BY ConvertRounds
<1>2. n \in BOOLEAN
  BY PatternOfFields
<1>3. Ulps(g, b) * den = num
  OBVIOUS
<1> HIDE DEF P, num, den
<1>4. R = Exact(zero(g, n) + b)
  BY <1>1, <1>2, <1>3, ExactlyRounded
<1>5. "UNDERFLOW" \notin R.raised
  BY <1>4 DEF Exact
<1> HIDE DEF R
<1>6. P = R
  BY <1>1, <1>5 DEF RoundedOrHalved
<1>7. QED BY <1>4, <1>6 DEF P

\* The units of two formats, one wider than the other.
LEMMA UnitsOf ==
    ASSUME NEW f \in Formats, NEW g \in Formats, NEW w \in Nat, w = UnitBits(g) - UnitBits(f),
           NEW i, i = pow2[UnitBits(f)], NEW j, j = pow2[UnitBits(g)], NEW p, p = pow2[w]
    PROVE  i \in Nat \ {0} /\ j \in Nat \ {0} /\ p \in Nat \ {0} /\ j = p * i
<1> DEFINE A == UnitBits(f)
           B == UnitBits(g)
<1>1. A \in Nat /\ B \in Nat
  BY UnitBitsIs
<1>2. B = w + A
  BY <1>1
<1> HIDE DEF A, B
<1>3. pow2[B] = pow2[w] * pow2[A] /\ pow2[w] \in Nat \ {0} /\ pow2[A] \in Nat \ {0} /\ pow2[B] \in Nat \ {0}
  BY <1>1, <1>2, PowSplit
<1>4. QED BY <1>3 DEF A, B

\* Widening is exact.
LEMMA WidenIs ==
    ASSUME NEW f \in Formats, NEW g \in Formats, Wider(g, f), NEW y \in Patterns(f), IsFinite(f, y), ~is_zero(f, y),
           NEW r \in Modes, NEW c, ~is_flushing(g, c), NEW n, n = is_negative(f, y),
           NEW w, w = UnitBits(g) - UnitBits(f)
    PROVE  /\ w \in Nat
           /\ \E b \in Nat : /\ b < infinity(g) /\ Ulps(g, b) = Ulps(f, y) * pow2[w]
                             /\ convert_format(y, f, g, c, r) = Exact(zero(g, n) + b)
<1>1. w \in Nat
  BY WidenedValue
<1>2. PICK b \in Nat : b < infinity(g) /\ Ulps(g, b) = Ulps(f, y) * pow2[w]
  BY WidenedValue
<1> DEFINE k == UnitBits(g)
           q == Scaled(f, y, k)
           num == q.num
           den == q.den
           U == Ulps(f, y)
           i == pow2[UnitBits(f)]
           j == pow2[UnitBits(g)]
           p == pow2[w]
<1>3. i \in Nat \ {0} /\ j \in Nat \ {0} /\ p \in Nat \ {0} /\ j = p * i
  BY <1>1, UnitsOf
<1>4. num \in Nat /\ den \in Nat \ {0} /\ U \in Nat /\ num * i = (U * j) * den
  <2>1. k \in Nat
    BY UnitBitsIs
  <2>2. IsScaled(q.num, q.den, U, k, f)
    BY <2>1, ScaledIs
  <2>3. QED BY <2>2 DEF IsScaled
<1> HIDE DEF num, den, U, i, j, p
<1>5. (U * p) * den = num
  <2>1. (U * (p * i)) * den = ((U * p) * den) * i
    BY <1>3, <1>4, Z3
  <2> DEFINE a == (U * p) * den
  <2>2. num * i = a * i
    BY <1>3, <1>4, <2>1
  <2>3. a \in Int
    BY <1>3, <1>4, TimesTyped
  <2> HIDE DEF a
  <2>4. num = a
    BY <1>3, <1>4, <2>2, <2>3, Cancels
  <2>5. QED BY <2>4 DEF a
<1>6. Ulps(g, b) * q.den = q.num
  BY <1>2, <1>5 DEF U, p, num, den
<1>7. convert_format(y, f, g, c, r) = Exact(zero(g, n) + b)
  BY <1>2, <1>6, ExactConversion
<1>8. QED BY <1>1, <1>2, <1>7

\* Narrowing a value that was widened gives it back.
LEMMA NarrowsBack ==
    ASSUME NEW f \in Formats, NEW g \in Formats, NEW y \in Patterns(f), IsFinite(f, y),
           NEW w \in Nat, w = UnitBits(g) - UnitBits(f), NEW z \in Patterns(g), IsFinite(g, z), ~is_zero(g, z),
           Ulps(g, z) = Ulps(f, y) * pow2[w], is_negative(g, z) = is_negative(f, y),
           NEW r \in Modes, NEW c, ~is_flushing(f, c)
    PROVE  convert_format(z, g, f, c, r) = Exact(y)
<1> DEFINE k == UnitBits(f)
           q == Scaled(g, z, k)
           num == q.num
           den == q.den
           U == Ulps(f, y)
           i == pow2[UnitBits(f)]
           j == pow2[UnitBits(g)]
           p == pow2[w]
           d == magnitude_bits(f, y)
<1>1. i \in Nat \ {0} /\ j \in Nat \ {0} /\ p \in Nat \ {0} /\ j = p * i
  BY UnitsOf
<1>2. d \in Nat /\ d < infinity(f) /\ Ulps(f, d) = U /\ y = zero(f, is_negative(f, y)) + d
  BY MagnitudeOf
<1>3. U \in Nat
  BY FiniteOperand
<1>4. num \in Nat /\ den \in Nat \ {0} /\ num * j = ((U * p) * i) * den
  <2>1. k \in Nat
    BY UnitBitsIs
  <2> DEFINE V == Ulps(g, z)
  <2>2. IsScaled(q.num, q.den, V, k, g)
    BY <2>1, ScaledIs
  <2>3. V = U * p
    OBVIOUS
  <2>4. num \in Nat /\ den \in Nat \ {0} /\ num * j = (V * i) * den
    BY <2>2 DEF IsScaled
  <2>5. QED BY <2>3, <2>4
<1> HIDE DEF num, den, U, i, j, p
<1>5. U * den = num
  <2>1. ((U * p) * i) * den = (U * den) * (p * i)
    BY <1>1, <1>3, <1>4, Z3
  <2> DEFINE a == U * den
  <2>2. num * j = a * j
    BY <1>1, <1>4, <2>1
  <2>3. a \in Int
    BY <1>3, <1>4, TimesTyped
  <2> HIDE DEF a
  <2>4. num = a
    BY <1>1, <1>4, <2>2, <2>3, Cancels
  <2>5. QED BY <2>4 DEF a
<1>6. Ulps(f, d) * q.den = q.num
  BY <1>2, <1>5 DEF num, den
<1> DEFINE n == is_negative(g, z)
<1> HIDE DEF d
<1>7. convert_format(z, g, f, c, r) = Exact(zero(f, n) + d)
  BY <1>2, <1>6, ExactConversion
<1>8. QED BY <1>2, <1>7

\* A finite number survives a wider format.
LEMMA FiniteRoundTrip ==
    ASSUME NEW f \in Formats, NEW g \in Formats, Wider(g, f), NEW y \in Patterns(f), IsFinite(f, y), ~is_zero(f, y),
           NEW r \in Modes, NEW c, ~is_flushing(f, c), ~is_flushing(g, c), NEW wide, wide = convert_format(y, f, g, c, r)
    PROVE  wide.raised = {} /\ convert_format(wide.bits, g, f, c, r) = Exact(y)
<1> DEFINE n == is_negative(f, y)
           w == UnitBits(g) - UnitBits(f)
<1>1. w \in Nat /\ n \in BOOLEAN /\ Ulps(f, y) \in Nat \ {0}
  <2>1. w \in Nat
    BY WidenIs
  <2>2. n \in BOOLEAN /\ Ulps(f, y) \in Nat \ {0}
    BY FiniteOperand
  <2>3. QED BY <2>1, <2>2
<1>2. PICK b \in Nat : /\ b < infinity(g) /\ Ulps(g, b) = Ulps(f, y) * pow2[w]
                       /\ wide = Exact(zero(g, n) + b)
  BY WidenIs
<1> DEFINE z == zero(g, n) + b
<1>3. wide.raised = {} /\ wide.bits = z
  BY <1>2 DEF Exact
<1>4. z \in Patterns(g) /\ is_negative(g, z) = n /\ IsFinite(g, z) /\ Ulps(g, z) = Ulps(g, b)
  BY <1>1, <1>2, SignedPattern
<1> HIDE DEF z
<1>5. ~is_zero(g, z)
  <2> DEFINE U == Ulps(f, y)
             p == pow2[w]
  <2>1. p \in Nat \ {0} /\ U \in Nat \ {0}
    BY <1>1, PowSucc
  <2> HIDE DEF U, p
  <2>2. U * p > 0
    BY <2>1, TimesTyped
  <2>3. Ulps(g, z) # 0
    BY <1>2, <1>4, <2>2 DEF U, p
  <2>4. QED BY <1>4, <2>3, FiniteOperand
<1>6. convert_format(z, g, f, c, r) = Exact(y)
  BY <1>1, <1>2, <1>4, <1>5, NarrowsBack
<1>7. QED BY <1>3, <1>6

\* The payload P of a mantissa Y, shifted left by a factor w, and what narrowing makes of it.
Moved(Y, w, Q, P, V, A) ==
    /\ (Y * w) % V = A /\ A \in Nat /\ A < V /\ V \in Nat \ {0}
    /\ (V + A) \div w = Q + P /\ (Q + P) % Q = P

\* A payload moved to a wider mantissa and back.
LEMMA PayloadMoves ==
    ASSUME NEW Q \in Nat \ {0}, NEW w \in Nat \ {0}, NEW P \in 0 .. Q - 1, NEW k \in {0, 1}, NEW Y, Y = k * Q + P,
           NEW V, V = Q * w, NEW A, A = P * w
    PROVE  Moved(Y, w, Q, P, V, A)
<1>1. V \in Int /\ V > 0 /\ A \in Int /\ A >= 0
  BY TimesTyped
<1>2. A < V
  BY TimesStrict
<1>3. Y * w = V * k + A
  <2>1. (k * Q + P) * w = (Q * w) * k + P * w
    BY Z3
  <2>2. QED BY <2>1
<1>4. (V * k + A) % V = A
  <2>1. V \in Nat \ {0} /\ A \in 0 .. V - 1 /\ k \in Int
    BY <1>1, <1>2
  <2>2. QED BY <2>1, DivUnique
<1>5. (V + A) \div w = Q + P
  <2> DEFINE t == Q + P
             z == 0
  <2>1. t \in Int /\ z \in 0 .. w - 1
    OBVIOUS
  <2>2. V + A = w * t + z
    <3>1. w * (Q + P) = Q * w + P * w /\ Q * w \in Int /\ P * w \in Int
      BY Z3
    <3>2. QED BY <1>1, <3>1
  <2> HIDE DEF t, z
  <2>3. (w * t + z) \div w = t
    BY <2>1, DivUnique
  <2>4. QED BY <2>2, <2>3 DEF t
<1>6. (Q + P) % Q = P
  <2> DEFINE i == 1
  <2>1. i \in Int /\ Q * i + P = Q + P
    OBVIOUS
  <2> HIDE DEF i
  <2>2. (Q * i + P) % Q = P
    BY <2>1, DivUnique
  <2>3. QED BY <2>1, <2>2
<1>7. QED BY <1>1, <1>2, <1>3, <1>4, <1>5, <1>6 DEF Moved

\* The pattern of a quiet NaN.
LEMMA QuietNan ==
    ASSUME NEW f \in Formats, NEW n \in BOOLEAN, NEW P \in Nat, P < quiet_bit(f),
           NEW z, z = zero(f, n) + default_nan(f) + P
    PROVE  /\ z \in Patterns(f) /\ is_nan(f, z) /\ ~is_signalling_nan(f, z) /\ is_negative(f, z) = n
           /\ mantissa(f, z) = quiet_bit(f) + P
<1> DEFINE M == pow2[f.mantissa_bits]
           top == max_exponent(f)
           q == quiet_bit(f)
           y == q + P
<1>1. M \in Nat \ {0} /\ top \in Nat /\ q \in Nat \ {0} /\ M = 2 * q /\ infinity(f) = top * M /\ sign_bit(f) \in Nat
  BY FormatSizes DEF Sizes
<1>2. y \in 0 .. M - 1 /\ y # 0 /\ top \in 0 .. max_exponent(f)
  <2>1. P < q
    OBVIOUS
  <2> HIDE DEF q, M
  <2>2. QED BY <1>1, <2>1
<1>3. z = Pattern(f, n, top, y)
  <2>1. zero(f, n) \in Int /\ infinity(f) \in Int
    BY <1>1, Magnitudes DEF zero
  <2>2. Pattern(f, n, top, y) = zero(f, n) + (infinity(f) + (q + P))
    BY <1>1 DEF Pattern
  <2>3. z = zero(f, n) + (infinity(f) + q) + P
    BY DEF default_nan
  <2> HIDE DEF q
  <2>4. QED BY <1>1, <2>1, <2>2, <2>3
<1> HIDE DEF y
<1>4. z \in Patterns(f) /\ raw_exponent(f, z) = top /\ mantissa(f, z) = y /\ is_negative(f, z) = n
  BY <1>2, <1>3, FieldsOfPattern
<1>5. y >= q
  BY <1>1 DEF y
<1>6. QED BY <1>2, <1>4, <1>5 DEF is_nan, is_signalling_nan, is_quiet, y

\* A NaN survives a wider format, quietened.
LEMMA NanRoundTrip ==
    ASSUME NEW f \in Formats, NEW g \in Formats, Wider(g, f), NEW y \in Patterns(f), is_nan(f, y),
           NEW r, NEW c, ~c.default_nan, NEW wide, wide = convert_format(y, f, g, c, r),
           NEW raised, raised = IF is_signalling_nan(f, y) THEN {"INVALID"} ELSE {}
    PROVE  wide.raised = raised /\ convert_format(wide.bits, g, f, c, r) = Exact(quieten(f, y))
<1> DEFINE n == is_negative(f, y)
           Y == mantissa(f, y)
           Q == quiet_bit(f)
           V == quiet_bit(g)
           d == g.mantissa_bits - f.mantissa_bits
           w == pow2[d]
           top == max_exponent(f)
           M == pow2[f.mantissa_bits]
<1>1. M \in Nat \ {0} /\ top \in Nat /\ Q \in Nat \ {0} /\ M = 2 * Q /\ infinity(f) = top * M /\ sign_bit(f) \in Nat
  BY FormatSizes DEF Sizes
<1>2. n \in BOOLEAN /\ raw_exponent(f, y) = top /\ Y \in 0 .. M - 1 /\ y = Pattern(f, n, top, Y)
  BY PatternOfFields DEF is_nan
<1>3. d \in Nat /\ f.mantissa_bits \in Nat \ {0} /\ g.mantissa_bits \in Nat \ {0}
  BY WiderSizes
<1>4. w \in Nat \ {0} /\ V = Q * w
  <2> DEFINE a == f.mantissa_bits - 1
             b == g.mantissa_bits - 1
  <2>1. a \in Nat /\ b = a + d
    BY <1>3
  <2> HIDE DEF a, b, d
  <2>2. pow2[b] = pow2[a] * pow2[d] /\ pow2[d] \in Nat \ {0}
    BY <1>3, <2>1, PowSplit
  <2>3. QED BY <2>2 DEF a, b, quiet_bit
<1> DEFINE quiet == ~is_signalling_nan(f, y)
           k == IF quiet THEN 1 ELSE 0
           P == IF quiet THEN Y - Q ELSE Y
<1>5. (quiet <=> Y >= Q) /\ k \in {0, 1} /\ P \in 0 .. Q - 1 /\ Y = k * Q + P
  <2>1. quiet <=> Y >= Q
    BY DEF is_signalling_nan, is_quiet
  <2> HIDE DEF quiet, Q, Y, M
  <2>2. QED BY <1>1, <1>2, <2>1
<1> HIDE DEF k, P, Q, V, Y
<1> DEFINE A == P * w
<1>6. /\ (Y * w) % V = A /\ A \in Nat /\ A < V /\ V \in Nat \ {0}
      /\ (V + A) \div w = Q + P /\ (Q + P) % Q = P
  <2>1. A = P * w
    OBVIOUS
  <2> HIDE DEF A, w
  <2>2. /\ Q \in Nat \ {0} /\ w \in Nat \ {0} /\ P \in 0 .. Q - 1 /\ k \in {0, 1} /\ Y = k * Q + P
        /\ V = Q * w /\ A = P * w
    BY <1>1, <1>4, <1>5, <2>1
  <2>3. Moved(Y, w, Q, P, V, A)
    BY <2>2, PayloadMoves
  <2>4. QED BY <2>3 DEF Moved
<1>7. moved_payload(y, f, g) = A
  <2>1. g.mantissa_bits - f.mantissa_bits >= 0
    BY <1>3
  <2>2. moved_payload(y, f, g) = (Y * w) % V
    BY <2>1 DEF moved_payload, Y, V
  <2>3. QED BY <1>6, <2>2
<1> DEFINE z == zero(g, n) + default_nan(g) + A
<1>8. wide = Raising(z, raised)
  <2>1. wide = convert_nan(y, f, g, c)
    BY DEF convert_format
  <2>2. QED BY <1>7, <2>1 DEF convert_nan
<1>9. /\ z \in Patterns(g) /\ is_nan(g, z) /\ ~is_signalling_nan(g, z) /\ is_negative(g, z) = n
      /\ mantissa(g, z) = V + A
  <2>1. A \in Nat /\ A < quiet_bit(g) /\ z = zero(g, n) + default_nan(g) + A
    BY <1>6 DEF V
  <2> HIDE DEF A, z
  <2>2. QED BY <1>2, <2>1, QuietNan DEF V
<1> HIDE DEF z, A
<1>10. moved_payload(z, g, f) = P
  <2> DEFINE h == f.mantissa_bits - g.mantissa_bits
  <2>1. h \in Int /\ -h = d
    BY <1>3
  <2>2. moved_payload(z, g, f) = IF h >= 0 THEN ((V + A) * pow2[h]) % Q ELSE ((V + A) \div pow2[-h]) % Q
    BY <1>9 DEF moved_payload, Q
  <2>3. CASE h >= 0
    <3>1. h = 0 /\ d = 0
      BY <1>3, <2>1, <2>3
    <3>2. pow2[h] = 1 /\ w = 1
      BY <3>1, PowValues
    <3>3. (V + A) * pow2[h] = V + A /\ (V + A) \div w = V + A
      <4> DEFINE t == V + A
      <4>1. t \in Nat
        BY <1>6
      <4> HIDE DEF t, w
      <4>2. t * 1 = t /\ t \div 1 = t
        BY <4>1, Z3
      <4>3. QED BY <3>2, <4>2 DEF t
    <3>4. QED BY <1>6, <2>2, <2>3, <3>3
  <2>4. CASE ~(h >= 0)
    BY <1>6, <2>1, <2>2, <2>4
  <2>5. QED BY <2>3, <2>4
<1>11. convert_format(z, g, f, c, r) = Exact(zero(f, n) + default_nan(f) + P)
  <2>1. convert_format(z, g, f, c, r) = convert_nan(z, g, f, c)
    BY <1>9 DEF convert_format
  <2>2. QED BY <1>9, <1>10, <2>1 DEF convert_nan, Exact, Raising
<1>12. quieten(f, y) = zero(f, n) + default_nan(f) + P
  <2>1. zero(f, n) \in Int /\ infinity(f) \in Int
    BY <1>1, Magnitudes DEF zero
  <2>2. y = zero(f, n) + (infinity(f) + Y)
    BY <1>1, <1>2 DEF Pattern
  <2>3. default_nan(f) = infinity(f) + Q
    BY DEF default_nan, Q
  <2>4. quieten(f, y) = IF quiet THEN y ELSE y + Q
    BY DEF quieten, Q
  <2>5. Y \in Int /\ Q \in Int /\ P = IF quiet THEN Y - Q ELSE Y
    BY <1>1, <1>2 DEF P
  <2> HIDE DEF quiet
  <2>6. QED BY <2>1, <2>2, <2>3, <2>4, <2>5
<1>13. wide.raised = raised /\ wide.bits = z
  BY <1>8 DEF Raising
<1>14. QED BY <1>11, <1>12, <1>13

\* Widening and narrowing again is the identity, but for a NaN's quiet bit.
LEMMA RoundTripIs ==
    ASSUME NEW f \in Formats, NEW g \in Formats, Wider(g, f), NEW y \in Patterns(f), NEW r \in Modes,
           NEW c, ~c.default_nan, ~is_flushing(f, c), ~is_flushing(g, c), NEW wide, wide = convert_format(y, f, g, c, r)
    PROVE  LET back == convert_format(wide.bits, g, f, c, r)
           IN  IF is_signalling_nan(f, y)
               THEN wide.raised = {"INVALID"} /\ back = Exact(quieten(f, y))
               ELSE wide.raised = {} /\ back = Exact(y)
<1> DEFINE n == is_negative(f, y)
<1>1. n \in BOOLEAN
  BY PatternOfFields
<1>2. CASE is_nan(f, y)
  <2> DEFINE raised == IF is_signalling_nan(f, y) THEN {"INVALID"} ELSE {}
  <2>1. wide.raised = raised /\ convert_format(wide.bits, g, f, c, r) = Exact(quieten(f, y))
    BY <1>2, NanRoundTrip
  <2>2. ~is_signalling_nan(f, y) => quieten(f, y) = y
    BY DEF quieten
  <2>3. QED BY <2>1, <2>2
<1>3. CASE ~is_nan(f, y)
  <2>1. ~is_signalling_nan(f, y)
    BY <1>3 DEF is_signalling_nan
  <2>2. CASE is_infinite(f, y)
    <3> DEFINE z == signed_infinity(g, n)
    <3>1. wide = Exact(z)
      BY <1>3, <2>2 DEF convert_format
    <3>2. is_infinite(g, z) /\ ~is_nan(g, z) /\ is_negative(g, z) = n
      BY <1>1, InfinityIsInfinite
    <3>3. wide.raised = {} /\ wide.bits = z
      BY <3>1 DEF Exact
    <3> HIDE DEF z
    <3>4. convert_format(z, g, f, c, r) = Exact(signed_infinity(f, n))
      BY <3>2 DEF convert_format
    <3>5. y = signed_infinity(f, n)
      <4>1. signed_infinity(f, n) = Pattern(f, n, max_exponent(f), 0)
        BY <1>1, InfinityIsInfinite
      <4>2. y = Pattern(f, n, raw_exponent(f, y), mantissa(f, y))
        BY PatternOfFields
      <4>3. QED BY <2>2, <4>1, <4>2 DEF is_infinite
    <3>6. QED BY <2>1, <3>3, <3>4, <3>5
  <2>3. CASE is_zero(f, y) /\ ~is_infinite(f, y)
    <3> DEFINE z == zero(g, n)
    <3>1. wide = Exact(z)
      BY <1>3, <2>3 DEF convert_format
    <3>2. is_zero(g, z) /\ ~is_nan(g, z) /\ ~is_infinite(g, z) /\ is_negative(g, z) = n
      BY <1>1, ZeroIsZero
    <3>3. wide.raised = {} /\ wide.bits = z
      BY <3>1 DEF Exact
    <3> HIDE DEF z
    <3>4. convert_format(z, g, f, c, r) = Exact(zero(f, n))
      BY <3>2 DEF convert_format
    <3>5. y = zero(f, n)
      BY <1>1, <2>3, ZeroOfSign
    <3>6. QED BY <2>1, <3>3, <3>4, <3>5
  <2>4. CASE ~is_zero(f, y) /\ ~is_infinite(f, y)
    <3>1. IsFinite(f, y)
      BY <1>3, <2>4 DEF IsFinite, is_nan, is_infinite
    <3>2. QED BY <2>1, <2>4, <3>1, FiniteRoundTrip
  <2>5. QED BY <2>2, <2>3, <2>4
<1>4. QED BY <1>2, <1>3

\* The controls of the sweep neither flush nor replace NaNs.
LEMMA ZeroControl ==
    ASSUME NEW f
    PROVE  ~is_flushing(f, Ieee754) /\ ~Ieee754.default_nan
<1>1. (0 \div 8) % 2 # 1 /\ (0 \div 4) % 2 # 1 /\ (0 \div 32) % 2 # 1
  BY Z3
<1>2. ~FpcrBit(0, FZ_BIT) /\ ~FpcrBit(0, DN_BIT) /\ ~FpcrBit(0, FZ16_BIT)
  BY <1>1 DEF FpcrBit, FZ_BIT, DN_BIT, FZ16_BIT
<1>3. ~Ieee754.flush_to_zero /\ ~Ieee754.default_nan /\ ~Ieee754.flush_to_zero_fp16
  BY <1>2 DEF Ieee754, from_bits
<1>4. QED BY <1>3 DEF is_flushing

\* The integer formats are no wider than the word.
LEMMA IntWidths ==
    ASSUME NEW target \in IntFormats
    PROVE  target.bits \in Nat \ {0} /\ target.bits <= WORD /\ target.is_signed \in BOOLEAN
<1>1. WORD \in Nat /\ Half.mantissa_bits \in Nat /\ Half.mantissa_bits + 5 <= WORD
  BY FormatAssumption DEF Formats
<1>2. target.bits \in {4, WORD} /\ target.is_signed \in BOOLEAN
  BY DEF IntFormats
<1>3. QED BY <1>1, <1>2

\* A conversion to an integer gives the rounded value or the end of the range.
LEMMA IntegerOrSaturatedNow == IntegerOrSaturated
<1>1. SUFFICES ASSUME NEW f \in Formats, NEW target \in IntFormats, NEW r \in Modes,
                      x \in Patterns(f), IsFinite(f, x), ~is_zero(f, x), unpack(x, f).exponent < 2 * WORD
               PROVE  to_integer(x, f, target, r) = ExpectedInteger(f, target, r)
  BY DEF IntegerOrSaturated, IsNumber
<1> DEFINE y == x
           w == target.bits
           s == target.is_signed
           none == 0
           q == Scaled(f, y, none)
           n == is_negative(f, y)
           N == RoundedInteger(q.num, q.den, n, r)
<1>2. w \in Nat \ {0} /\ w <= WORD /\ s \in BOOLEAN
  BY IntWidths
<1>3. PICK lost \in BOOLEAN : lost <=> N * q.den # q.num
  OBVIOUS
<1>4. to_integer(y, f, target, r) = IntegerOrEnd(N, lost, n, w, s)
  <2>1. none = 0 /\ q = Scaled(f, y, none) /\ N = RoundedInteger(q.num, q.den, is_negative(f, y), r)
    OBVIOUS
  <2>2. y \in Patterns(f) /\ IsFinite(f, y) /\ ~is_zero(f, y) /\ unpack(y, f).exponent < 2 * WORD
    BY <1>1
  <2> HIDE DEF y, none, q, N, w, s
  <2>3. target.bits = w /\ target.is_signed = s
    BY DEF w, s
  <2>4. QED BY <1>1, <1>2, <1>3, <2>1, <2>2, <2>3, ToIntegerIs DEF n
<1>5. ExpectedInteger(f, target, r) = IntegerOrEnd(N, lost, n, w, s)
  <2> DEFINE inexact == IF N * q.den = q.num THEN {} ELSE {"INEXACT"}
  <2>1. inexact = IF lost THEN {"INEXACT"} ELSE {}
    BY <1>3
  <2>2. ExpectedInteger(f, target, r)
          = LET value == IF n THEN -N ELSE N
                low   == IF s THEN -(pow2[w - 1]) ELSE 0
                high  == IF s THEN pow2[w - 1] - 1 ELSE pow2[w] - 1
            IN  IF n /\ ~s THEN Raising(0, {"INVALID"})
                ELSE IF value < low THEN Raising(low % pow2[w], {"INVALID"})
                ELSE IF value > high THEN Raising(high % pow2[w], {"INVALID"})
                ELSE Raising(value % pow2[w], inexact)
    BY DEF ExpectedInteger
  <2> HIDE DEF inexact, N, n, w, s
  <2>3. QED BY <2>1, <2>2 DEF IntegerOrEnd
<1>6. QED BY <1>4, <1>5

(***************************************************************************)
(* "An out-of-range FP-to-integer conversion saturates and raises invalid  *)
(* rather than wrapping" (convert.rs), for every width of the formats and  *)
(* of the word: the value rounded in the mode, or the end of the range.    *)
(***************************************************************************)
THEOREM IntegersAlwaysSaturate == Spec => []IntegerOrSaturated
<1>1. IntegerOrSaturated
  BY IntegerOrSaturatedNow
<1>2. QED BY <1>1, PTL

\* SCVTF and UCVTF round once.
LEMMA FromIntegerIsRoundedNow == x \in Nat => FromIntegerIsRounded
<1>1. SUFFICES ASSUME x \in Nat, NEW f \in Formats, NEW source \in IntFormats, NEW r \in Modes
               PROVE  LET low   == x % pow2[source.bits]
                          value == IF source.is_signed /\ low >= pow2[source.bits - 1]
                                   THEN low - pow2[source.bits] ELSE low
                      IN  from_integer(x, source, f, r, Ieee754)
                            = RoundedSum(value * pow2[UnitBits(f)], 1, FALSE, f, r)
  BY DEF FromIntegerIsRounded
<1> DEFINE y == x
           w == source.bits
           s == source.is_signed
<1>2. w \in Nat \ {0} /\ w <= WORD /\ s \in BOOLEAN /\ y \in Nat
  BY <1>1, IntWidths
<1>3. PICK zn \in BOOLEAN : zn = FALSE
  OBVIOUS
<1>4. ~is_flushing(f, Ieee754)
  BY ZeroControl
<1>5. source.bits = w /\ source.is_signed = s
  OBVIOUS
<1> HIDE DEF y, w, s
<1>6. from_integer(y, source, f, r, Ieee754)
        = RoundedSum(IntegerValue(y % pow2[w], w, s) * pow2[UnitBits(f)], 1, zn, f, r)
  BY <1>1, <1>2, <1>3, <1>4, <1>5, FromIntegerRounds
<1>7. QED BY <1>3, <1>6 DEF IntegerValue, y, w, s

\* The narrowings are between formats, of which the first is the wider.
LEMMA NarrowingsAre ==
    ASSUME NEW n \in Narrowings
    PROVE  n[1] \in Formats /\ n[2] \in Formats /\ Wider(n[1], n[2])
<1>1. n = <<Double, Single>> \/ n = <<Double, Half>> \/ n = <<Single, Half>>
  BY DEF Narrowings
<1>2. \A f \in Formats : f.mantissa_bits \in Nat /\ f.exponent_bits \in Nat
  BY FormatAssumption
<1>3. Half \in Formats /\ Single \in Formats /\ Double \in Formats
  BY DEF Formats
<1>4. Wider(Double, Single) /\ Wider(Single, Half)
  BY WidthAssumption DEF Wider
<1>5. Wider(Double, Half)
  BY <1>2, <1>3, <1>4 DEF Wider
<1>6. CASE n = <<Double, Single>>
  BY <1>3, <1>4, <1>6
<1>7. CASE n = <<Double, Half>>
  BY <1>3, <1>5, <1>7
<1>8. CASE n = <<Single, Half>>
  BY <1>3, <1>4, <1>8
<1>9. QED BY <1>1, <1>6, <1>7, <1>8

\* FCVT to a narrower format rounds once.
LEMMA NarrowingIsRoundedNow == NarrowingIsRounded
<1>1. SUFFICES ASSUME NEW n \in Narrowings, NEW r \in Modes,
                      x \in Patterns(n[1]), IsFinite(n[1], x), ~is_zero(n[1], x)
               PROVE  LET q == Scaled(n[1], x, UnitBits(n[2]))
                      IN  RoundedOrHalved(convert_format(x, n[1], n[2], Ieee754, r),
                                          ExpectedNarrow(n[1], n[2], r), q.num, q.den, n[2])
  BY DEF NarrowingIsRounded, IsNumber
<1> DEFINE f == n[1]
           g == n[2]
           y == x
           q == Scaled(f, y, UnitBits(g))
<1>2. f \in Formats /\ g \in Formats
  BY NarrowingsAre
<1>3. ~is_flushing(g, Ieee754)
  BY ZeroControl
<1>4. y \in Patterns(f) /\ IsFinite(f, y) /\ ~is_zero(f, y) /\ q = Scaled(f, y, UnitBits(g))
  BY <1>1
<1>5. ExpectedNarrow(f, g, r) = Rounded(q.num, q.den, is_negative(f, y), g, r)
  BY DEF ExpectedNarrow
<1> HIDE DEF f, g, y, q
<1>6. RoundedOrHalved(convert_format(y, f, g, Ieee754, r), Rounded(q.num, q.den, is_negative(f, y), g, r), q.num, q.den, g)
  BY <1>1, <1>2, <1>3, <1>4, ConvertRounds
<1>7. QED BY <1>5, <1>6 DEF f, g, y, q

\* FCVT to a wider format loses nothing.
LEMMA WideningRoundTripsNow == WideningRoundTrips
<1>1. SUFFICES ASSUME NEW n \in Narrowings, x \in Patterns(n[2])
               PROVE  LET wide == convert_format(x, n[2], n[1], Ieee754, "Nearest")
                          back == convert_format(wide.bits, n[1], n[2], Ieee754, "Nearest")
                      IN  IF is_signalling_nan(n[2], x)
                          THEN wide.raised = {"INVALID"} /\ back = Exact(quieten(n[2], x))
                          ELSE wide.raised = {} /\ back = Exact(x)
  BY DEF WideningRoundTrips
<1> DEFINE f == n[2]
           g == n[1]
           y == x
<1>2. f \in Formats /\ g \in Formats /\ Wider(g, f)
  BY NarrowingsAre
<1>3. ~is_flushing(f, Ieee754) /\ ~is_flushing(g, Ieee754) /\ ~Ieee754.default_nan
  BY ZeroControl
<1>4. PICK r \in Modes : r = "Nearest"
  BY DEF Modes
<1> DEFINE wide == convert_format(y, f, g, Ieee754, r)
           back == convert_format(wide.bits, g, f, Ieee754, r)
<1>5. y \in Patterns(f) /\ wide = convert_format(y, f, g, Ieee754, r)
  BY <1>1
<1> HIDE DEF f, g, y, wide
<1>6. IF is_signalling_nan(f, y)
      THEN wide.raised = {"INVALID"} /\ back = Exact(quieten(f, y))
      ELSE wide.raised = {} /\ back = Exact(y)
  BY <1>2, <1>3, <1>4, <1>5, RoundTripIs
<1>7. QED BY <1>4, <1>6 DEF f, g, y, wide

\* The sweep goes up through the naturals.
LEMMA SweepIsNatural == Spec => [](x \in Nat)
<1>1. Init => x \in Nat
  BY DEF Init
<1>2. x \in Nat /\ [Next]_x => (x \in Nat)'
  BY DEF Next
<1>3. QED BY <1>1, <1>2, PTL DEF Spec

(***************************************************************************)
(* Conversions round once for every width of the formats: integers of      *)
(* either sign and width (from_integer) and narrowings (convert_format)    *)
(* are IEEE's rounding of the value; widening and coming back is the       *)
(* identity, on subnormals too, and keeps a NaN's payload (convert_nan).   *)
(***************************************************************************)
THEOREM ConversionsAlwaysRounded == Spec => []ConversionIsRounded
<1>1. x \in Nat => ConversionIsRounded
  BY FromIntegerIsRoundedNow, NarrowingIsRoundedNow, WideningRoundTripsNow DEF ConversionIsRounded
<1>2. QED BY <1>1, SweepIsNatural, PTL

\* FRINT gives the rounded integer with the operand's sign; that it never raises a
\* flag is more than the property says.
LEMMA IntegralIsRoundedNow == IntegralIsRounded
<1>1. SUFFICES ASSUME NEW f \in {Single, Double}, NEW r \in Modes,
                      x \in Patterns(f), IsFinite(f, x), ~is_zero(f, x)
               PROVE  LET q      == Scaled(f, x, 0)
                          n      == RoundedInteger(q.num, q.den, is_negative(f, x), r)
                          result == round_to_integral(x, f, r, Ieee754)
                          q2     == Scaled(f, result.bits, 0)
                      IN  /\ q2.num = n * q2.den
                          /\ is_negative(f, result.bits) = is_negative(f, x)
                          /\ result.raised = {}
  BY DEF IntegralIsRounded, IsNumber
<1> DEFINE y == x
           none == 0
           q == Scaled(f, y, none)
           n == is_negative(f, y)
           N == RoundedInteger(q.num, q.den, n, r)
           res == round_to_integral(y, f, r, Ieee754)
<1>2. f \in Formats /\ f.mantissa_bits <= exponent_bias(f) /\ ~is_flushing(f, Ieee754)
  BY WidthAssumption, ZeroControl DEF Formats
<1>3. /\ y \in Patterns(f) /\ IsFinite(f, y) /\ ~is_zero(f, y) /\ none = 0 /\ q = Scaled(f, y, none)
      /\ n = is_negative(f, y) /\ N = RoundedInteger(q.num, q.den, n, r)
  BY <1>1
<1> HIDE DEF y, none, q, n, N
<1>4. N \in Nat /\ IsWhole(res, N, n, f)
  BY <1>1, <1>2, <1>3, IntegralIs
<1>5. PICK z \in Patterns(f) : res = Exact(z) /\ is_negative(f, z) = n /\ Ulps(f, z) = N * pow2[UnitBits(f)]
  BY <1>4 DEF IsWhole
<1> DEFINE q2 == Scaled(f, z, none)
<1>6. q2.num = N * q2.den
  <2>1. q2 = Scaled(f, z, none) /\ none = 0
    BY <1>3
  <2> HIDE DEF q2
  <2>2. QED BY <1>2, <1>4, <1>5, <2>1, WholeScaled
<1>7. res.bits = z /\ res.raised = {}
  BY <1>5 DEF Exact
<1> HIDE DEF res
<1>8. QED BY <1>5, <1>6, <1>7 DEF N, n, q, none, y, res

(***************************************************************************)
(* FRINT (round_to_integral), for every width of the formats: the result   *)
(* is the operand rounded to an integer in the mode, exactly, with the     *)
(* operand's sign, a zero included, and no flag if it was one already.     *)
(***************************************************************************)
THEOREM IntegralAlwaysRounded == Spec => []IntegralIsRounded
<1>1. IntegralIsRounded
  BY IntegralIsRoundedNow
<1>2. QED BY <1>1, PTL
=============================================================================
