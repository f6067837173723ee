-------------------------- MODULE SoftfloatProofs ---------------------------
(***************************************************************************)
(* The softfloat's rounding step, for every width of the formats: powers   *)
(* of two, the fields of a pattern, what the operations answer, that       *)
(* round_and_pack rounds correctly, and so does convert_format.            *)
(*                                                                         *)
(* A significand with its guard bits and a sticky bit stands for a         *)
(* rational: it is the rational's floor at its exponent, and the sticky    *)
(* bit says whether anything is left (Floors, Stands).  normalise keeps    *)
(* that, and the guard bits then decide as the rational itself does.       *)
(***************************************************************************)
EXTENDS Softfloat, Ieee, NaturalsInduction, WellFoundedInduction, TLAPS

\* A set of naturals that is not empty has a least element.
LEMMA LeastNatural ==
    ASSUME NEW T \in SUBSET Nat, T # {}
    PROVE  \E x \in T : \A y \in T : x <= y
<1> DEFINE R == OpToRel(<, Nat)
<1>1. IsWellFoundedOn(R, Nat)
  BY NatLessThanWellFounded
<1>2. \A x \in Nat, y \in Nat : <<y, x>> \in R <=> y < x
  BY DEF OpToRel
<1> HIDE DEF R
<1>3. T \subseteq Nat
  OBVIOUS
<1>4. PICK x \in T : \A y \in T : ~(<<y, x>> \in R)
  BY <1>1, <1>3, WFMin
<1>5. ASSUME NEW y \in T PROVE x <= y
  <2>1. x \in Nat /\ y \in Nat /\ ~(y < x)
    BY <1>2, <1>3, <1>4
  <2>2. QED BY <2>1
<1>6. QED BY <1>5

\* One entry of pow2 from the earlier ones, and a table of the first n + 1.
PowStep(g, i) == IF i < 8 THEN <<1, 2, 4, 8, 16, 32, 64, 128>>[i + 1] ELSE 256 * g[i - 8]

\* g is pow2 up to n.
IsPow(g, n)   == g = [i \in 0 .. n |-> PowStep(g, i)]

\* There is such a table for every n.
LEMMA PowTableExists ==
    ASSUME NEW n \in Nat
    PROVE  \E g : IsPow(g, n)
<1> DEFINE P(k) == \E g : IsPow(g, k)
           Bad  == {k \in Nat : ~P(k)}
<1>1. P(0)
  <2> DEFINE e == [i \in 0 .. 0 |-> 1]
  <2>1. e = [i \in 0 .. 0 |-> PowStep(e, i)]
    <3>1. ASSUME NEW i \in 0 .. 0 PROVE PowStep(e, i) = 1
      <4>1. i = 0
        OBVIOUS
      <4>2. QED BY <4>1 DEF PowStep
    <3>2. QED BY <3>1
  <2>2. IsPow(e, 0)
    BY <2>1 DEF IsPow
  <2>3. QED BY <2>2
<1>2. ASSUME NEW k \in Nat, P(k) PROVE P(k + 1)
  <2>1. PICK h : IsPow(h, k)
    BY <1>2
  <2> DEFINE e == [i \in 0 .. k + 1 |-> IF i = k + 1 THEN PowStep(h, k + 1) ELSE h[i]]
  <2>2. ASSUME NEW i \in 0 .. k PROVE e[i] = h[i]
    OBVIOUS
  <2>3. e[k + 1] = PowStep(h, k + 1)
    OBVIOUS
  <2>4. ASSUME NEW i \in 0 .. k + 1 PROVE PowStep(e, i) = PowStep(h, i)
    <3>1. ~(i < 8) => i - 8 \in 0 .. k
      OBVIOUS
    <3>2. ~(i < 8) => e[i - 8] = h[i - 8]
      BY <2>2, <3>1
    <3> HIDE DEF e
    <3>3. QED BY <3>2 DEF PowStep
  <2>5. ASSUME NEW i \in 0 .. k + 1 PROVE e[i] = PowStep(e, i)
    <3> HIDE DEF e
    <3>1. CASE i = k + 1
      BY <2>3, <2>4, <3>1
    <3>2. CASE i # k + 1
      <4>1. i \in 0 .. k
        BY <3>2
      <4>2. h[i] = PowStep(h, i)
        BY <4>1, <2>1 DEF IsPow
      <4>3. QED BY <4>1, <4>2, <2>2, <2>4
    <3>3. QED BY <3>1, <3>2
  <2>6. IsPow(e, k + 1)
    BY <2>5 DEF IsPow
  <2> HIDE DEF e
  <2>7. QED BY <2>6
<1>3. SUFFICES ASSUME Bad # {} PROVE FALSE
  OBVIOUS
<1>4. PICK k \in Bad : \A y \in Bad : k <= y
  <2>1. Bad \in SUBSET Nat
    OBVIOUS
  <2> HIDE DEF Bad
  <2>2. QED BY <1>3, <2>1, LeastNatural
<1>5. k \in Nat /\ ~P(k)
  BY <1>4
<1>6. k # 0
  <2> HIDE DEF P
  <2>1. QED BY <1>1, <1>5
<1>7. k - 1 \in Nat /\ k - 1 \notin Bad
  BY <1>4, <1>5, <1>6
<1>8. P(k - 1)
  <2> HIDE DEF P
  <2>1. QED BY <1>7
<1>9. P(k - 1 + 1)
  <2> HIDE DEF P
  <2>1. QED BY <1>2, <1>7, <1>8
<1>10. k - 1 + 1 = k
  BY <1>5
<1>11. QED
  <2> HIDE DEF P
  <2>1. QED BY <1>5, <1>9, <1>10

\* Two tables agree where both are defined.
LEMMA PowTablesAgree ==
    ASSUME NEW n \in Nat, NEW m \in Nat, NEW g, NEW h, IsPow(g, n), IsPow(h, m),
           NEW i \in Nat, i <= n, i <= m
    PROVE  g[i] = h[i]
<1> DEFINE Bad == {j \in Nat : j <= n /\ j <= m /\ g[j] # h[j]}
<1>1. SUFFICES ASSUME Bad # {} PROVE FALSE
  OBVIOUS
<1>2. PICK j \in Bad : \A y \in Bad : j <= y
  <2>1. Bad \in SUBSET Nat
    OBVIOUS
  <2> HIDE DEF Bad
  <2>2. QED BY <1>1, <2>1, LeastNatural
<1>3. j \in Nat /\ j \in 0 .. n /\ j \in 0 .. m /\ g[j] # h[j]
  BY <1>2
<1>4. g[j] = PowStep(g, j) /\ h[j] = PowStep(h, j)
  BY <1>3 DEF IsPow
<1>5. ~(j < 8) => g[j - 8] = h[j - 8]
  <2>1. HAVE ~(j < 8)
  <2>2. j - 8 \in Nat /\ j - 8 <= n /\ j - 8 <= m /\ j - 8 \notin Bad
    BY <2>1, <1>2, <1>3
  <2>3. QED BY <2>2
<1>6. QED BY <1>3, <1>4, <1>5 DEF PowStep

\* pow2 is the function its definition describes.
LEMMA PowUnfolds ==
    /\ DOMAIN pow2 = Nat
    /\ \A n \in Nat : pow2[n] = IF n < 8 THEN <<1, 2, 4, 8, 16, 32, 64, 128>>[n + 1]
                                ELSE 256 * pow2[n - 8]
<1> DEFINE T(n) == CHOOSE g : IsPow(g, n)
           G    == [n \in Nat |-> T(n)[n]]
<1>1. ASSUME NEW n \in Nat PROVE IsPow(T(n), n)
  <2>1. \E g : IsPow(g, n)
    BY PowTableExists
  <2>2. QED BY <2>1
<1>2. ASSUME NEW n \in Nat PROVE G[n] = PowStep(G, n)
  <2>1. T(n)[n] = PowStep(T(n), n)
    <3>1. n \in 0 .. n
      OBVIOUS
    <3>2. QED BY <1>1, <3>1 DEF IsPow
  <2>2. G[n] = T(n)[n]
    OBVIOUS
  <2>3. CASE n < 8
    <3> HIDE DEF G, T
    <3>1. QED BY <2>1, <2>2, <2>3 DEF PowStep
  <2>4. CASE ~(n < 8)
    <3>1. n - 8 \in Nat /\ n - 8 <= n /\ n - 8 <= n - 8
      BY <2>4
    <3>2. G[n - 8] = T(n - 8)[n - 8]
      BY <3>1
    <3>3. IsPow(T(n), n) /\ IsPow(T(n - 8), n - 8)
      BY <1>1, <3>1
    <3> HIDE DEF G, T
    <3>4. T(n)[n - 8] = T(n - 8)[n - 8]
      BY <3>1, <3>3, PowTablesAgree
    <3>5. QED BY <2>1, <2>2, <2>4, <3>2, <3>4 DEF PowStep
  <2>5. QED BY <2>3, <2>4
<1>3. G = [n \in Nat |-> PowStep(G, n)]
  <2> DEFINE H == [n \in Nat |-> PowStep(G, n)]
  <2>1. \A n \in Nat : G[n] = H[n]
    BY <1>2
  <2>2. G = H
    BY <2>1
  <2>3. QED BY <2>2
<1> HIDE DEF G
<1>4. \E g : g = [n \in Nat |-> PowStep(g, n)]
  BY <1>3
<1>5. pow2 = [n \in Nat |-> PowStep(pow2, n)]
  BY <1>4 DEF pow2, PowStep
<1>6. QED BY <1>5 DEF PowStep

\* 1 << (n + 1) is twice 1 << n.
LEMMA PowSucc ==
    ASSUME NEW n \in Nat
    PROVE  pow2[n] \in Nat \ {0} /\ pow2[n + 1] = 2 * pow2[n]
<1> DEFINE P(k) == pow2[k] \in Nat \ {0} /\ pow2[k + 1] = 2 * pow2[k]
           Bad  == {k \in Nat : ~P(k)}
<1>1. ASSUME NEW k \in Nat, k < 8 PROVE P(k)
  <2>1. pow2[k] = <<1, 2, 4, 8, 16, 32, 64, 128>>[k + 1]
    BY <1>1, PowUnfolds
  <2>2. CASE k < 7
    <3>1. pow2[k + 1] = <<1, 2, 4, 8, 16, 32, 64, 128>>[k + 2]
      BY <2>2, PowUnfolds
    <3>2. k = 0 \/ k = 1 \/ k = 2 \/ k = 3 \/ k = 4 \/ k = 5 \/ k = 6
      BY <2>2
    <3>3. QED BY <2>1, <3>1, <3>2
  <2>3. CASE k = 7
    <3>1. pow2[8] = 256 * pow2[0] /\ pow2[0] = 1
      BY PowUnfolds
    <3>2. QED BY <2>1, <2>3, <3>1
  <2>4. QED BY <1>1, <2>2, <2>3
<1>2. SUFFICES ASSUME Bad # {} PROVE FALSE
  OBVIOUS
<1>3. PICK k \in Bad : \A y \in Bad : k <= y
  <2>1. Bad \in SUBSET Nat
    OBVIOUS
  <2> HIDE DEF Bad
  <2>2. QED BY <1>2, <2>1, LeastNatural
<1>4. k \in Nat /\ ~P(k)
  BY <1>3
<1>5. ~(k < 8)
  <2> HIDE DEF P
  <2>1. QED BY <1>1, <1>4
<1>6. k - 8 \in Nat /\ k - 8 \notin Bad
  BY <1>3, <1>4, <1>5
<1>7. P(k - 8)
  <2> HIDE DEF P
  <2>1. QED BY <1>6
<1>8. pow2[k] = 256 * pow2[k - 8] /\ pow2[k + 1] = 256 * pow2[k - 7]
  BY <1>4, <1>5, PowUnfolds
<1>9. k - 8 + 1 = k - 7
  BY <1>4
<1>10. QED BY <1>4, <1>7, <1>8, <1>9

\* The first powers of two.
LEMMA PowValues ==
    /\ pow2[0] = 1 /\ pow2[1] = 2 /\ pow2[2] = 4 /\ pow2[3] = 8 /\ pow2[4] = 16
  BY PowUnfolds

\* Shifting twice is shifting by the sum.
LEMMA PowAdd ==
    ASSUME NEW a \in Nat, NEW b \in Nat
    PROVE  pow2[a + b] = pow2[a] * pow2[b]
<1> DEFINE Bad  == {k \in Nat : pow2[a + k] # pow2[a] * pow2[k]}
<1>1. SUFFICES ASSUME Bad # {} PROVE FALSE
  OBVIOUS
<1>2. PICK k \in Bad : \A y \in Bad : k <= y
  <2>1. Bad \in SUBSET Nat
    OBVIOUS
  <2> HIDE DEF Bad
  <2>2. QED BY <1>1, <2>1, LeastNatural
<1>3. k \in Nat /\ pow2[a + k] # pow2[a] * pow2[k]
  BY <1>2
<1>4. k # 0
  <2>1. SUFFICES ASSUME k = 0 PROVE FALSE
    OBVIOUS
  <2>2. a + k = a /\ pow2[a] \in Nat
    BY <2>1, PowSucc
  <2>3. QED BY <1>3, <2>1, <2>2, PowValues
<1>5. k - 1 \in Nat /\ k - 1 \notin Bad
  BY <1>2, <1>3, <1>4
<1>6. pow2[a + (k - 1)] = pow2[a] * pow2[k - 1]
  BY <1>5
<1>7. pow2[k] = 2 * pow2[k - 1] /\ pow2[k - 1] \in Nat
  <2>1. k = k - 1 + 1
    BY <1>3
  <2>2. QED BY <2>1, <1>5, PowSucc
<1>8. pow2[a + k] = 2 * pow2[a + (k - 1)]
  <2>1. a + (k - 1) \in Nat /\ a + (k - 1) + 1 = a + k
    BY <1>3, <1>5
  <2>2. QED BY <2>1, PowSucc
<1>9. pow2[a] \in Nat
  BY PowSucc
<1>10. QED BY <1>3, <1>6, <1>7, <1>8, <1>9, Z3

\* Powers of two increase.
LEMMA PowMono ==
    ASSUME NEW a \in Nat, NEW b \in Nat
    PROVE  /\ a <= b => pow2[a] <= pow2[b]
           /\ a < b => 2 * pow2[a] <= pow2[b]
<1>1. ASSUME NEW c \in Nat, NEW d \in Nat, c <= d PROVE pow2[c] <= pow2[d]
  <2>1. d - c \in Nat /\ c + (d - c) = d
    BY <1>1
  <2>2. pow2[d] = pow2[c] * pow2[d - c]
    BY <2>1, PowAdd
  <2>3. pow2[c] \in Nat /\ pow2[d - c] \in Nat \ {0}
    BY <2>1, PowSucc
  <2>4. QED BY <2>2, <2>3, Z3
<1>2. pow2[a + 1] = 2 * pow2[a]
  BY PowSucc
<1>3. a < b => a + 1 \in Nat /\ a + 1 <= b
  OBVIOUS
<1>4. QED BY <1>1, <1>2, <1>3

(***************************************************************************)
(* Quotients and remainders.                                               *)
(***************************************************************************)
LEMMA DivMod ==
    ASSUME NEW a \in Int, NEW d \in Nat \ {0}
    PROVE  /\ a \div d \in Int /\ a % d \in 0 .. d - 1
           /\ a = d * (a \div d) + (a % d)
  BY Z3

\* Quotient and remainder are determined.
LEMMA DivUnique ==
    ASSUME NEW d \in Nat \ {0}, NEW q \in Int, NEW s \in 0 .. d - 1
    PROVE  (d * q + s) \div d = q /\ (d * q + s) % d = s
<1> DEFINE a == d * q + s
<1>1. a \in Int
  BY Z3
<1> HIDE DEF a
<1>2. a \div d \in Int /\ a % d \in 0 .. d - 1 /\ a = d * (a \div d) + (a % d)
  BY <1>1, DivMod
<1>3. d * (a \div d) + (a % d) = d * q + s
  BY <1>2 DEF a
<1>4. a \div d = q
  <2> DEFINE p == a \div d
             t == a % d
  <2>1. p \in Int /\ t \in 0 .. d - 1 /\ d * p + t = d * q + s
    BY <1>2, <1>3
  <2> HIDE DEF p, t
  <2>2. ~(p < q)
    <3>1. SUFFICES ASSUME p + 1 <= q PROVE FALSE
      BY <2>1
    <3>2. d * (p + 1) <= d * q
      BY <2>1, <3>1, Z3
    <3>3. d * (p + 1) = d * p + d
      BY <2>1, Z3
    <3>4. QED BY <2>1, <3>2, <3>3, Z3
  <2>3. ~(q < p)
    <3>1. SUFFICES ASSUME q + 1 <= p PROVE FALSE
      BY <2>1
    <3>2. d * (q + 1) <= d * p
      BY <2>1, <3>1, Z3
    <3>3. d * (q + 1) = d * q + d
      BY <2>1, Z3
    <3>4. QED BY <2>1, <3>2, <3>3, Z3
  <2>4. p = q
    BY <2>1, <2>2, <2>3
  <2>5. QED BY <2>4 DEF p
<1>5. QED
  <2>1. a % d = s
    BY <1>1, <1>2, <1>3, <1>4, Z3
  <2>2. QED BY <1>4, <2>1 DEF a

\* The pattern with these three fields.
Pattern(f, n, x, y) == zero(f, n) + (x * pow2[f.mantissa_bits] + y)

\* The sizes of a format's fields, as the proofs use them.
Sizes(f, M, E, h) ==
    /\ M \in Nat \ {0} /\ E \in Nat /\ E >= 4 /\ h \in Nat \ {0, 1}
    /\ M = pow2[f.mantissa_bits] /\ E = pow2[f.exponent_bits] /\ h = pow2[f.exponent_bits - 1]
    /\ M = 2 * quiet_bit(f) /\ quiet_bit(f) \in Nat \ {0} /\ E = 2 * h
    /\ sign_bit(f) = M * E /\ sign_bit(f) \in Nat \ {0} /\ max_exponent(f) = E - 1
    /\ exponent_bias(f) = h - 1 /\ infinity(f) = (E - 1) * M

\* The sizes of a format's fields.
LEMMA FormatSizes ==
    ASSUME NEW f \in Formats
    PROVE  Sizes(f, pow2[f.mantissa_bits], pow2[f.exponent_bits], pow2[f.exponent_bits - 1])
<1> DEFINE m == f.mantissa_bits
           e == f.exponent_bits
<1>1. m \in Nat \ {0} /\ e \in Nat \ {0, 1}
  BY FormatAssumption
<1> HIDE DEF m, e
<1>2. m - 1 \in Nat /\ m - 1 + 1 = m /\ e - 1 \in Nat /\ e - 1 + 1 = e /\ 1 <= e - 1
  BY <1>1
<1>3. pow2[m] \in Nat \ {0} /\ pow2[e] \in Nat \ {0} /\ pow2[m - 1] \in Nat \ {0} /\ pow2[e - 1] \in Nat \ {0}
  BY <1>1, <1>2, PowSucc
<1>4. pow2[m] = 2 * pow2[m - 1] /\ pow2[e] = 2 * pow2[e - 1]
  BY <1>2, PowSucc
<1>5. pow2[e - 1] >= 2
  BY <1>2, PowMono, PowValues
<1>6. pow2[m + e] = pow2[m] * pow2[e]
  BY <1>1, PowAdd
<1>7. pow2[m] * pow2[e] \in Nat \ {0}
  BY <1>3, Z3
<1>8. quiet_bit(f) = pow2[m - 1] /\ sign_bit(f) = pow2[m + e] /\ max_exponent(f) = pow2[e] - 1
      /\ exponent_bias(f) = pow2[e - 1] - 1 /\ infinity(f) = (pow2[e] - 1) * pow2[m]
  BY DEF quiet_bit, sign_bit, max_exponent, exponent_bias, infinity, m, e
<1>9. Sizes(f, pow2[m], pow2[e], pow2[e - 1])
  BY <1>3, <1>4, <1>5, <1>6, <1>7, <1>8 DEF Sizes, m, e
<1>10. QED BY <1>9 DEF m, e

\* A pattern has the fields it is put together from.
LEMMA FieldsOfPattern ==
    ASSUME NEW f \in Formats, NEW n \in BOOLEAN, NEW x \in 0 .. max_exponent(f),
           NEW y \in 0 .. pow2[f.mantissa_bits] - 1
    PROVE  LET b == Pattern(f, n, x, y)
           IN  /\ b \in Patterns(f)
               /\ raw_exponent(f, b) = x /\ mantissa(f, b) = y
               /\ magnitude_bits(f, b) = x * pow2[f.mantissa_bits] + y
               /\ is_negative(f, b) = n
<1> DEFINE M == pow2[f.mantissa_bits]
           E == pow2[f.exponent_bits]
           s == IF n THEN 1 ELSE 0
           b == Pattern(f, n, x, y)
           low == x * M + y
<1>1. Sizes(f, M, E, pow2[f.exponent_bits - 1])
  BY FormatSizes
<1>2. M \in Nat \ {0} /\ E \in Nat \ {0} /\ sign_bit(f) = M * E /\ max_exponent(f) = E - 1
  BY <1>1 DEF Sizes
<1>3. s \in {0, 1} /\ x \in 0 .. E - 1 /\ y \in 0 .. M - 1 /\ x \in Int /\ y \in Int
  BY <1>2
<1>4. zero(f, n) = (M * E) * s /\ M * E \in Nat \ {0}
  <2>1. M * E \in Nat \ {0}
    BY <1>2, Z3
  <2> HIDE DEF M, E
  <2>2. zero(f, n) = IF n THEN M * E ELSE 0
    BY <1>2 DEF zero
  <2>3. QED BY <2>1, <2>2
<1> HIDE DEF M, E, s
<1>5. low \in 0 .. (M * E) - 1
  <2>1. x * M + M <= E * M /\ x * M >= 0
    <3>1. (x + 1) * M <= E * M
      BY <1>2, <1>3, Z3
    <3>2. (x + 1) * M = x * M + M
      BY <1>2, <1>3, Z3
    <3>3. x * M >= 0
      BY <1>2, <1>3, Z3
    <3>4. QED BY <3>1, <3>2, <3>3
  <2>2. x * M \in Int /\ E * M = M * E
    BY <1>2, <1>3, Z3
  <2>3. QED BY <2>1, <2>2, <1>2, <1>3, <1>4
<1>6. b = (M * E) * s + low
  BY <1>4 DEF Pattern, M
<1>7. b % (M * E) = low /\ b \div (M * E) = s
  <2> HIDE DEF low, b
  <2>1. s \in Int
    BY <1>3
  <2>2. QED BY <1>4, <1>5, <1>6, <2>1, DivUnique
<1>8. b = M * (E * s + x) + y
  <2>1. (M * E) * s + (x * M + y) = M * (E * s + x) + y
    BY <1>2, <1>3, Z3
  <2>2. QED BY <1>6, <2>1
<1>9. b % M = y /\ b \div M = E * s + x
  <2> HIDE DEF b
  <2>1. E * s + x \in Int
    BY <1>2, <1>3, Z3
  <2> DEFINE q == E * s + x
  <2> HIDE DEF q
  <2>2. b = M * q + y /\ q \in Int
    BY <1>8, <2>1 DEF q
  <2>3. b % M = y /\ b \div M = q
    BY <1>2, <1>3, <2>2, DivUnique
  <2>4. QED BY <2>3 DEF q
<1>10. (E * s + x) % E = x
  <2>1. s \in Int
    BY <1>3
  <2>2. QED BY <1>2, <1>3, <2>1, DivUnique
<1>11. b \in Patterns(f)
  <2> HIDE DEF b, low
  <2>1. (M * E) * s \in 0 .. (M * E)
    BY <1>3, <1>4
  <2>2. b \in 0 .. 2 * (M * E) - 1
    BY <1>4, <1>5, <1>6, <2>1
  <2>3. QED BY <1>2, <2>2 DEF Patterns
<1>12. is_negative(f, b) = n
  <2>1. (s % 2 = 1) = n
    BY DEF s
  <2>2. QED BY <1>2, <1>7, <2>1 DEF is_negative
<1>13. raw_exponent(f, b) = x /\ mantissa(f, b) = y /\ magnitude_bits(f, b) = low
  <2> HIDE DEF b, low
  <2>1. raw_exponent(f, b) = (b \div M) % E /\ mantissa(f, b) = b % M
        /\ magnitude_bits(f, b) = b % sign_bit(f)
    BY DEF raw_exponent, mantissa, magnitude_bits, M, E
  <2>2. QED BY <1>2, <1>7, <1>9, <1>10, <2>1
<1>14. QED BY <1>11, <1>12, <1>13 DEF M

\* Every pattern is put together from its fields.
LEMMA PatternOfFields ==
    ASSUME NEW f \in Formats, NEW bits \in Patterns(f)
    PROVE  /\ is_negative(f, bits) \in BOOLEAN
           /\ raw_exponent(f, bits) \in 0 .. max_exponent(f)
           /\ mantissa(f, bits) \in 0 .. pow2[f.mantissa_bits] - 1
           /\ bits = Pattern(f, is_negative(f, bits), raw_exponent(f, bits), mantissa(f, bits))
<1> DEFINE M == pow2[f.mantissa_bits]
           E == pow2[f.exponent_bits]
           s == bits \div (M * E)
           low == bits % (M * E)
           x == low \div M
           y == low % M
<1>1. Sizes(f, M, E, pow2[f.exponent_bits - 1])
  BY FormatSizes
<1>2. M \in Nat \ {0} /\ E \in Nat \ {0} /\ sign_bit(f) = M * E /\ max_exponent(f) = E - 1
      /\ M * E \in Nat \ {0}
  BY <1>1 DEF Sizes
<1>3. bits \in Int /\ bits >= 0 /\ bits <= 2 * (M * E) - 1
  BY <1>2 DEF Patterns
<1> HIDE DEF M, E
<1>4. s \in Int /\ low \in 0 .. (M * E) - 1 /\ bits = (M * E) * s + low
  BY <1>2, <1>3, DivMod
<1>5. s \in {0, 1}
  <2> DEFINE T == M * E
  <2>1. T \in Nat \ {0} /\ s \in Int /\ low \in 0 .. T - 1 /\ T * s + low <= 2 * T - 1 /\ T * s + low >= 0
    BY <1>2, <1>3, <1>4
  <2> HIDE DEF T, s, low
  <2>2. ~(s >= 2)
    <3>1. s >= 2 => T * s >= T * 2
      BY <2>1, Z3
    <3>2. QED BY <2>1, <3>1, Z3
  <2>3. ~(s <= -1)
    <3>1. s <= -1 => T * s <= T * (-1)
      BY <2>1, Z3
    <3>2. QED BY <2>1, <3>1, Z3
  <2>4. QED BY <2>1, <2>2, <2>3
<1>6. x \in Int /\ y \in 0 .. M - 1 /\ low = M * x + y
  <2> HIDE DEF low
  <2>1. low \in Int
    BY <1>2, <1>4
  <2>2. QED BY <1>2, <2>1, DivMod
<1>7. x \in 0 .. E - 1
  <2>1. low >= 0 /\ low < M * E
    BY <1>2, <1>4
  <2> HIDE DEF low, x, y
  <2>2. ~(x >= E)
    <3>1. x >= E => M * x >= M * E
      BY <1>2, <1>6, Z3
    <3>2. M * x \in Int
      BY <1>2, <1>6, Z3
    <3>3. QED BY <1>2, <1>6, <2>1, <3>1, <3>2
  <2>3. ~(x <= -1)
    <3>1. x <= -1 => M * x <= M * (-1)
      BY <1>2, <1>6, Z3
    <3>2. M * x \in Int /\ M * (-1) = -M
      BY <1>2, <1>6, Z3
    <3>3. QED BY <1>2, <1>6, <2>1, <3>1, <3>2
  <2>4. QED BY <1>2, <1>6, <2>2, <2>3
<1> DEFINE n == s = 1
<1>8. bits = Pattern(f, n, x, y)
  <2>1. zero(f, n) = (M * E) * s
    <3> HIDE DEF s
    <3>1. QED BY <1>2, <1>5 DEF zero
  <2>2. x * M = M * x
    <3> HIDE DEF x
    <3>1. QED BY <1>2, <1>7, Z3
  <2>3. QED BY <1>4, <1>6, <2>1, <2>2 DEF Pattern, M
<1>9. n \in BOOLEAN /\ x \in 0 .. max_exponent(f) /\ y \in 0 .. M - 1
  BY <1>2, <1>6, <1>7
<1> HIDE DEF n, x, y
<1>10. raw_exponent(f, bits) = x /\ mantissa(f, bits) = y /\ is_negative(f, bits) = n
  BY <1>8, <1>9, FieldsOfPattern DEF M
<1>11. QED BY <1>8, <1>9, <1>10 DEF M

(***************************************************************************)
(* The named patterns.                                                     *)
(***************************************************************************)
LEMMA ZeroIsZero ==
    ASSUME NEW f \in Formats, NEW n \in BOOLEAN
    PROVE  /\ zero(f, n) = Pattern(f, n, 0, 0) /\ zero(f, n) \in Patterns(f)
           /\ raw_exponent(f, zero(f, n)) = 0 /\ mantissa(f, zero(f, n)) = 0
           /\ is_negative(f, zero(f, n)) = n /\ magnitude_bits(f, zero(f, n)) = 0
           /\ is_zero(f, zero(f, n)) /\ ~is_nan(f, zero(f, n)) /\ ~is_infinite(f, zero(f, n))
           /\ ~is_subnormal(f, zero(f, n)) /\ ~is_signalling_nan(f, zero(f, n))
<1> DEFINE M == pow2[f.mantissa_bits]
<1>1. M \in Nat \ {0} /\ sign_bit(f) \in Nat /\ max_exponent(f) \in Nat \ {0}
  BY FormatSizes DEF Sizes
<1>2. 0 * M + 0 = 0 /\ zero(f, n) \in Int
  BY <1>1 DEF zero
<1>3. Pattern(f, n, 0, 0) = zero(f, n)
  BY <1>2 DEF Pattern
<1>4. 0 \in 0 .. max_exponent(f) /\ 0 \in 0 .. M - 1
  BY <1>1
<1> DEFINE b == zero(f, n)
<1>5. /\ b \in Patterns(f) /\ raw_exponent(f, b) = 0 /\ mantissa(f, b) = 0
      /\ magnitude_bits(f, b) = 0 /\ is_negative(f, b) = n
  BY <1>2, <1>3, <1>4, FieldsOfPattern
<1> HIDE DEF b
<1>6. is_zero(f, b) /\ ~is_nan(f, b) /\ ~is_infinite(f, b) /\ ~is_subnormal(f, b) /\ ~is_signalling_nan(f, b)
  BY <1>1, <1>5 DEF is_zero, is_nan, is_infinite, is_subnormal, is_signalling_nan
<1>7. QED BY <1>3, <1>5, <1>6 DEF b

\* signed_infinity is an infinity of the sign asked for.
LEMMA InfinityIsInfinite ==
    ASSUME NEW f \in Formats, NEW n \in BOOLEAN
    PROVE  LET b == signed_infinity(f, n)
           IN  /\ b = Pattern(f, n, max_exponent(f), 0) /\ b \in Patterns(f)
               /\ raw_exponent(f, b) = max_exponent(f) /\ mantissa(f, b) = 0
               /\ is_negative(f, b) = n /\ is_infinite(f, b) /\ ~is_nan(f, b) /\ ~is_zero(f, b)
               /\ ~is_subnormal(f, b) /\ ~is_signalling_nan(f, b)
<1> DEFINE M == pow2[f.mantissa_bits]
           x == max_exponent(f)
           b == signed_infinity(f, n)
<1>1. M \in Nat \ {0} /\ sign_bit(f) \in Nat /\ x \in Nat \ {0}
  BY FormatSizes DEF Sizes
<1>2. x * M \in Nat \ {0} /\ zero(f, n) \in Int
  <2> HIDE DEF x, M
  <2>1. QED BY <1>1, Z3 DEF zero
<1>3. Pattern(f, n, x, 0) = b
  <2>1. infinity(f) = x * M
    BY DEF infinity
  <2>2. b = x * M + zero(f, n) /\ Pattern(f, n, x, 0) = zero(f, n) + (x * M + 0)
    BY <2>1 DEF signed_infinity, Pattern
  <2> HIDE DEF x, M, b
  <2>3. QED BY <1>2, <2>2
<1>4. x \in 0 .. max_exponent(f) /\ 0 \in 0 .. M - 1
  BY <1>1
<1>5. /\ b \in Patterns(f) /\ raw_exponent(f, b) = x /\ mantissa(f, b) = 0
      /\ magnitude_bits(f, b) = x * M + 0 /\ is_negative(f, b) = n
  <2>1. \A p : p = Pattern(f, n, x, 0) => /\ p \in Patterns(f) /\ raw_exponent(f, p) = x /\ mantissa(f, p) = 0
      /\ magnitude_bits(f, p) = x * M + 0 /\ is_negative(f, p) = n
    BY <1>4, FieldsOfPattern
  <2>2. QED BY <2>1, <1>3
<1> HIDE DEF b
<1>6. is_infinite(f, b) /\ ~is_zero(f, b) /\ ~is_nan(f, b) /\ ~is_subnormal(f, b) /\ ~is_signalling_nan(f, b)
  BY <1>1, <1>2, <1>5 DEF is_zero, is_nan, is_infinite, is_subnormal, is_signalling_nan
<1>7. QED BY <1>3, <1>5, <1>6 DEF b

\* The default NaN is quiet.
LEMMA DefaultNanIsNan ==
    ASSUME NEW f \in Formats
    PROVE  LET b == default_nan(f)
           IN  /\ b \in Patterns(f) /\ is_nan(f, b) /\ ~is_signalling_nan(f, b)
               /\ ~is_subnormal(f, b) /\ ~is_infinite(f, b) /\ ~is_zero(f, b)
<1> DEFINE M == pow2[f.mantissa_bits]
           x == max_exponent(f)
           q == quiet_bit(f)
           b == default_nan(f)
<1>0. PICK n \in BOOLEAN : ~n
  OBVIOUS
<1>1. M \in Nat \ {0} /\ x \in Nat \ {0} /\ q \in Nat \ {0} /\ M = 2 * q
  BY FormatSizes DEF Sizes
<1>2. x * M \in Nat \ {0} /\ zero(f, n) = 0
  <2> HIDE DEF x, M
  <2>1. x * M \in Nat \ {0}
    BY <1>1, Z3
  <2>2. QED BY <1>0, <2>1 DEF zero
<1>3. Pattern(f, n, x, q) = b
  <2>1. infinity(f) = x * M
    BY DEF infinity
  <2>2. b = x * M + q /\ Pattern(f, n, x, q) = 0 + (x * M + q)
    BY <1>2, <2>1 DEF default_nan, Pattern
  <2> HIDE DEF x, M, b, q
  <2>3. QED BY <1>1, <1>2, <2>2
<1>4. x \in 0 .. max_exponent(f) /\ q \in 0 .. M - 1
  BY <1>1
<1>5. /\ b \in Patterns(f) /\ raw_exponent(f, b) = x /\ mantissa(f, b) = q
      /\ magnitude_bits(f, b) = x * M + q
  <2>1. \A p : p = Pattern(f, n, x, q) => /\ p \in Patterns(f) /\ raw_exponent(f, p) = x
           /\ mantissa(f, p) = q /\ magnitude_bits(f, p) = x * M + q
    BY <1>4, FieldsOfPattern
  <2>2. QED BY <2>1, <1>3
<1>6. quiet_bit(f) = q
  OBVIOUS
<1> HIDE DEF b, q
<1>7. is_nan(f, b) /\ ~is_signalling_nan(f, b) /\ ~is_subnormal(f, b) /\ ~is_infinite(f, b) /\ ~is_zero(f, b)
  BY <1>1, <1>2, <1>5, <1>6 DEF is_zero, is_nan, is_infinite, is_subnormal, is_signalling_nan, is_quiet
<1>8. QED BY <1>5, <1>7 DEF b

\* quieten leaves a quiet NaN.
LEMMA QuietenIsQuiet ==
    ASSUME NEW f \in Formats, NEW bits \in Patterns(f), is_nan(f, bits)
    PROVE  LET b == quieten(f, bits)
           IN  /\ b \in Patterns(f) /\ is_nan(f, b) /\ ~is_signalling_nan(f, b)
<1> DEFINE M == pow2[f.mantissa_bits]
           x == max_exponent(f)
           q == quiet_bit(f)
           y == mantissa(f, bits)
           n == is_negative(f, bits)
<1>1. M \in Nat \ {0} /\ x \in Nat \ {0} /\ q \in Nat \ {0} /\ M = 2 * q
  BY FormatSizes DEF Sizes
<1>2. /\ n \in BOOLEAN /\ raw_exponent(f, bits) = x /\ y \in 0 .. M - 1 /\ y # 0
      /\ bits = Pattern(f, n, x, y)
  BY PatternOfFields DEF is_nan
<1>3. CASE ~is_signalling_nan(f, bits)
  BY <1>3 DEF quieten
<1>4. CASE is_signalling_nan(f, bits)
  <2>1. y < q /\ quieten(f, bits) = bits + q
    <3>1. ~(y >= q)
      BY <1>4 DEF is_signalling_nan, is_quiet
    <3>2. quieten(f, bits) = bits + q
      BY <1>4 DEF quieten
    <3> HIDE DEF y, q
    <3>3. QED BY <1>1, <1>2, <3>1, <3>2
  <2>2. y + q \in 0 .. M - 1 /\ y + q # 0 /\ x \in 0 .. max_exponent(f)
    <3> HIDE DEF y, q, M
    <3>1. QED BY <1>1, <1>2, <2>1
  <2>3. bits + q = Pattern(f, n, x, y + q)
    <3>1. x * M \in Int /\ zero(f, n) \in Int
      <4>1. sign_bit(f) \in Int
        BY FormatSizes DEF Sizes
      <4> HIDE DEF x, M
      <4>2. QED BY <1>1, <1>2, <4>1, Z3 DEF zero
    <3>2. bits = zero(f, n) + (x * M + y) /\ Pattern(f, n, x, y + q) = zero(f, n) + (x * M + (y + q))
      BY <1>2 DEF Pattern
    <3> HIDE DEF y, q, M, x, n
    <3>3. QED BY <1>1, <1>2, <3>1, <3>2
  <2> DEFINE b == bits + q
  <2>4. b \in Patterns(f) /\ raw_exponent(f, b) = x /\ mantissa(f, b) = y + q
    <3>1. \A p : p = Pattern(f, n, x, y + q) =>
             p \in Patterns(f) /\ raw_exponent(f, p) = x /\ mantissa(f, p) = y + q
      <4> DEFINE z == y + q
      <4>1. z \in 0 .. M - 1
        BY <2>2
      <4> HIDE DEF z
      <4>2. \A p : p = Pattern(f, n, x, z) =>
             p \in Patterns(f) /\ raw_exponent(f, p) = x /\ mantissa(f, p) = z
        BY <1>2, <2>2, <4>1, FieldsOfPattern
      <4>3. QED BY <4>2 DEF z
    <3>2. QED BY <3>1, <2>3
  <2>5. quiet_bit(f) = q /\ max_exponent(f) = x
    OBVIOUS
  <2> HIDE DEF b, q, x, y
  <2>6. is_nan(f, b) /\ ~is_signalling_nan(f, b)
    BY <1>1, <1>2, <2>2, <2>4, <2>5 DEF is_nan, is_signalling_nan, is_quiet
  <2>7. QED BY <2>1, <2>4, <2>6 DEF b
<1>5. QED BY <1>3, <1>4

\* Negation changes the sign and nothing else.
LEMMA NegatedFlipsSign ==
    ASSUME NEW f \in Formats, NEW bits \in Patterns(f)
    PROVE  LET b == negated(f, bits)
           IN  /\ b \in Patterns(f) /\ raw_exponent(f, b) = raw_exponent(f, bits)
               /\ mantissa(f, b) = mantissa(f, bits) /\ is_negative(f, b) = ~is_negative(f, bits)
               /\ magnitude_bits(f, b) = magnitude_bits(f, bits)
<1> DEFINE x == raw_exponent(f, bits)
           y == mantissa(f, bits)
           n == is_negative(f, bits)
           M == pow2[f.mantissa_bits]
<1>1. /\ n \in BOOLEAN /\ x \in 0 .. max_exponent(f) /\ y \in 0 .. M - 1 /\ bits = Pattern(f, n, x, y)
  BY PatternOfFields
<1>2. M \in Nat \ {0} /\ max_exponent(f) \in Nat /\ sign_bit(f) \in Nat
  BY FormatSizes DEF Sizes
<1> HIDE DEF x, y, n
<1>3. magnitude_bits(f, bits) = x * M + y
  <2>1. \A p : p = Pattern(f, n, x, y) => magnitude_bits(f, p) = x * M + y
    BY <1>1, FieldsOfPattern
  <2>2. QED BY <2>1, <1>1
<1>4. x * M + y \in Int /\ zero(f, ~n) \in Int
  <2> HIDE DEF M
  <2>1. QED BY <1>1, <1>2, Z3 DEF zero
<1>5. negated(f, bits) = Pattern(f, ~n, x, y)
  <2>1. negated(f, bits) = (x * M + y) + zero(f, ~n) /\ Pattern(f, ~n, x, y) = zero(f, ~n) + (x * M + y)
    BY <1>3 DEF negated, Pattern, n
  <2> HIDE DEF M
  <2>2. QED BY <1>4, <2>1
<1>6. \A p, s : s \in BOOLEAN /\ p = Pattern(f, s, x, y) =>
         /\ p \in Patterns(f) /\ raw_exponent(f, p) = x /\ mantissa(f, p) = y
         /\ magnitude_bits(f, p) = x * M + y /\ is_negative(f, p) = s
  BY <1>1, FieldsOfPattern
<1>7. (~n) \in BOOLEAN
  OBVIOUS
<1>8. QED BY <1>3, <1>5, <1>6, <1>7 DEF x, y, n

\* any_nan and signalling_among over two operands.
LEMMA PairOfOperands ==
    ASSUME NEW f, NEW a, NEW b
    PROVE  /\ any_nan(<<a, b>>, f) <=> is_nan(f, a) \/ is_nan(f, b)
           /\ signalling_among(<<a, b>>, f) <=> is_signalling_nan(f, a) \/ is_signalling_nan(f, b)
<1>1. DOMAIN <<a, b>> = {1, 2} /\ <<a, b>>[1] = a /\ <<a, b>>[2] = b
  OBVIOUS
<1>2. QED BY <1>1 DEF any_nan, signalling_among

\* first_nan of two operands.
LEMMA FirstNanOfPair ==
    ASSUME NEW f, NEW a, NEW b, is_nan(f, a) \/ is_nan(f, b)
    PROVE  first_nan(<<a, b>>, f) = IF is_nan(f, a) THEN a ELSE b
<1> DEFINE s == <<a, b>>
           OK(i) == is_nan(f, s[i]) /\ \A j \in DOMAIN s : is_nan(f, s[j]) => i <= j
<1>1. DOMAIN s = {1, 2} /\ s[1] = a /\ s[2] = b
  OBVIOUS
<1> HIDE DEF s
<1>2. first_nan(s, f) = s[CHOOSE i \in DOMAIN s : OK(i)]
  BY DEF first_nan
<1>3. CASE is_nan(f, a)
  <2>1. OK(1) /\ ~OK(2)
    BY <1>1, <1>3
  <2> HIDE DEF OK
  <2>2. (CHOOSE i \in DOMAIN s : OK(i)) = 1
    <3>1. \E i \in DOMAIN s : OK(i)
      BY <1>1, <2>1
    <3>2. QED BY <1>1, <2>1, <3>1
  <2>3. QED BY <1>1, <1>2, <1>3, <2>2 DEF s
<1>4. CASE ~is_nan(f, a)
  <2>1. OK(2) /\ ~OK(1)
    BY <1>1, <1>4
  <2> HIDE DEF OK
  <2>2. (CHOOSE i \in DOMAIN s : OK(i)) = 2
    <3>1. \E i \in DOMAIN s : OK(i)
      BY <1>1, <2>1
    <3>2. QED BY <1>1, <2>1, <3>1
  <2>3. QED BY <1>1, <1>2, <1>4, <2>2 DEF s
<1>5. QED BY <1>3, <1>4

\* A propagated NaN is quiet, the default one when FPCR.DN says so, and INVALID
\* is raised exactly for a signalling operand.
LEMMA PropagatePair ==
    ASSUME NEW f \in Formats, NEW a \in Patterns(f), NEW b \in Patterns(f), NEW c,
           is_nan(f, a) \/ is_nan(f, b)
    PROVE  LET p == propagate(<<a, b>>, f, c)
           IN  /\ p.bits \in Patterns(f) /\ is_nan(f, p.bits) /\ ~is_signalling_nan(f, p.bits)
               /\ c.default_nan => p.bits = default_nan(f)
               /\ p.raised = IF is_signalling_nan(f, a) \/ is_signalling_nan(f, b)
                             THEN {"INVALID"} ELSE {}
<1> DEFINE x == first_nan(<<a, b>>, f)
           p == propagate(<<a, b>>, f, c)
<1>1. x \in Patterns(f) /\ is_nan(f, x)
  BY FirstNanOfPair
<1>2. p.bits = quiet_result(x, f, c) /\ p.raised = IF signalling_among(<<a, b>>, f) THEN {"INVALID"} ELSE {}
  BY DEF propagate, Raising
<1>3. p.raised = IF is_signalling_nan(f, a) \/ is_signalling_nan(f, b) THEN {"INVALID"} ELSE {}
  BY <1>2, PairOfOperands
<1> HIDE DEF x, p
<1>4. CASE c.default_nan
  BY <1>2, <1>3, <1>4, DefaultNanIsNan DEF quiet_result, p
<1>5. CASE ~c.default_nan
  <2>1. p.bits = quieten(f, x)
    BY <1>2, <1>5 DEF quiet_result
  <2>2. QED BY <1>1, <1>3, <1>5, <2>1, QuietenIsQuiet DEF p
<1>6. QED BY <1>4, <1>5

(***************************************************************************)
(* The leading bit.                                                        *)
(***************************************************************************)
LEMMA LeadingIs ==
    ASSUME NEW n \in Nat \ {0}, n < pow2[2 * WORD + 1]
    PROVE  leading(n) \in 0 .. 2 * WORD /\ pow2[leading(n)] <= n /\ n < pow2[leading(n) + 1]
<1> DEFINE T == {j \in Nat : n < pow2[j]}
<1>1. WORD \in Nat /\ 2 * WORD + 1 \in T
  BY FormatAssumption
<1>2. PICK j \in T : \A y \in T : j <= y
  <2>1. T \in SUBSET Nat /\ T # {}
    BY <1>1
  <2> HIDE DEF T
  <2>2. QED BY <2>1, LeastNatural
<1>3. j \in Nat /\ n < pow2[j] /\ j <= 2 * WORD + 1
  BY <1>1, <1>2
<1>4. j # 0
  BY <1>3, PowValues
<1>5. j - 1 \in 0 .. 2 * WORD /\ j - 1 \in Nat /\ j - 1 + 1 = j
  BY <1>1, <1>3, <1>4
<1>6. pow2[j - 1] <= n
  <2>1. ~(j <= j - 1)
    BY <1>3
  <2>2. j - 1 \notin T
    <3> HIDE DEF T
    <3>1. QED BY <1>2, <2>1
  <2>3. pow2[j - 1] \in Nat
    BY <1>5, PowSucc
  <2>4. QED BY <1>5, <2>2, <2>3
<1>7. \E k \in 0 .. 2 * WORD : pow2[k] <= n /\ n < pow2[k + 1]
  BY <1>3, <1>5, <1>6
<1>8. leading(n) = CHOOSE k \in 0 .. 2 * WORD : pow2[k] <= n /\ n < pow2[k + 1]
  BY DEF leading
<1>9. QED BY <1>7, <1>8

\* Only one position is the leading one.
LEMMA LeadingUnique ==
    ASSUME NEW n \in Nat, NEW k \in 0 .. 2 * WORD, pow2[k] <= n, n < pow2[k + 1]
    PROVE  leading(n) = k
<1>1. WORD \in Nat
  BY FormatAssumption
<1>2. k \in Nat /\ k + 1 \in Nat /\ 2 * WORD + 1 \in Nat /\ k + 1 <= 2 * WORD + 1
  BY <1>1
<1>3. pow2[k] \in Nat \ {0} /\ pow2[k + 1] <= pow2[2 * WORD + 1] /\ pow2[k + 1] \in Nat
      /\ pow2[2 * WORD + 1] \in Nat
  BY <1>2, PowSucc, PowMono
<1>4. n \in Nat \ {0} /\ n < pow2[2 * WORD + 1]
  BY <1>3
<1> DEFINE l == leading(n)
<1>5. l \in 0 .. 2 * WORD /\ pow2[l] <= n /\ n < pow2[l + 1]
  BY <1>4, LeadingIs
<1> HIDE DEF l
<1>6. l \in Nat /\ l + 1 \in Nat /\ pow2[l] \in Nat /\ pow2[l + 1] \in Nat
  BY <1>1, <1>5, PowSucc
<1>7. ~(l + 1 <= k)
  BY <1>2, <1>3, <1>5, <1>6, PowMono
<1>8. ~(k + 1 <= l)
  BY <1>2, <1>3, <1>5, <1>6, PowMono
<1>9. l = k
  BY <1>2, <1>6, <1>7, <1>8
<1>10. QED BY <1>9 DEF l

(***************************************************************************)
(* Rounding and packing.                                                   *)
(***************************************************************************)
UnpackedValues == [is_negative : BOOLEAN, exponent : Int, significand : Nat]

\* The flags that rounding raises.
Losses         == {"OVERFLOW", "UNDERFLOW", "INEXACT"}

\* A number with the sign given, and no flag but those of rounding.
IsRoundedNumber(res, f, n) ==
    /\ res \in [bits : Patterns(f), raised : SUBSET Losses]
    /\ ~is_nan(f, res.bits) /\ is_negative(f, res.bits) = n

\* The widths of a significand with its guard bits.
LEMMA Scales ==
    ASSUME NEW f \in Formats
    PROVE  /\ f.mantissa_bits \in Nat \ {0} /\ scale(f) = f.mantissa_bits + 3 /\ scale(f) \in Nat
           /\ WORD \in Nat /\ scale(f) + 2 <= WORD
           /\ pow2[scale(f)] = 8 * pow2[f.mantissa_bits] /\ pow2[scale(f) + 1] = 16 * pow2[f.mantissa_bits]
           /\ pow2[f.mantissa_bits] \in Nat \ {0} /\ pow2[f.mantissa_bits] >= 2
<1>1. f.mantissa_bits \in Nat \ {0} /\ WORD \in Nat /\ f.mantissa_bits + 5 <= WORD
  BY FormatAssumption
<1> DEFINE m == f.mantissa_bits
<1>2. scale(f) = m + 3
  BY DEF scale, GUARD_BITS
<1> HIDE DEF m
<1>3. pow2[m + 3] = pow2[m] * 8 /\ pow2[m + 4] = pow2[m] * 16 /\ pow2[m] \in Nat \ {0}
  <2>1. m \in Nat
    BY <1>1 DEF m
  <2>2. pow2[m + 3] = pow2[m] * pow2[3]
    BY <2>1, PowAdd
  <2>3. pow2[m + 4] = pow2[m] * pow2[4]
    BY <2>1, PowAdd
  <2>4. QED BY <2>1, <2>2, <2>3, PowSucc, PowValues
<1>4. pow2[m] >= 2
  BY <1>1, PowMono, PowValues DEF m
<1>5. m + 3 + 1 = m + 4 /\ m + 3 \in Nat /\ m + 3 + 2 <= WORD
  BY <1>1 DEF m
<1>6. QED BY <1>1, <1>2, <1>3, <1>4, <1>5 DEF m

\* A quotient of naturals.
LEMMA DivAtMost ==
    ASSUME NEW n \in Nat, NEW d \in Nat \ {0}
    PROVE  n \div d \in Nat /\ n \div d <= n
<1> DEFINE q == n \div d
           t == n % d
<1>1. q \in Int /\ t \in 0 .. d - 1 /\ n = d * q + t
  BY DivMod
<1> HIDE DEF q, t
<1>2. q >= 0
  <2>1. q <= -1 => d * q <= d * (-1)
    BY <1>1, Z3
  <2>2. d * q \in Int /\ d * (-1) = -d
    BY <1>1, Z3
  <2>3. QED BY <1>1, <2>1, <2>2
<1>3. q <= d * q /\ d * q \in Int
  BY <1>1, <1>2, Z3
<1>4. q \in Nat /\ q <= n
  BY <1>1, <1>2, <1>3
<1>5. QED BY <1>4 DEF q

\* What shift_right keeps and loses.
LEMMA ShiftRightIs ==
    ASSUME NEW n \in Nat, NEW shift \in Nat, NEW width \in Nat
    PROVE  LET s == shift_right(n, shift, width)
           IN  /\ s.kept \in Nat /\ s.kept <= n /\ s.lost \in BOOLEAN
               /\ shift < width => s.kept = n \div pow2[shift] /\ s.lost = (n % pow2[shift] # 0)
               /\ ~(shift < width) => s.kept = 0 /\ s.lost = (n # 0)
<1> DEFINE d == pow2[shift]
           s == shift_right(n, shift, width)
<1>1. d \in Nat \ {0}
  BY PowSucc
<1> HIDE DEF d
<1>2. n \div d \in Nat /\ n \div d <= n
  BY <1>1, DivAtMost
<1>3. CASE shift >= width
  <2>1. s = [kept |-> 0, lost |-> n # 0]
    BY <1>3 DEF shift_right
  <2> HIDE DEF s
  <2>2. QED BY <1>3, <2>1 DEF s
<1>4. CASE ~(shift >= width)
  <2>1. s = [kept |-> n \div d, lost |-> n % d # 0]
    BY <1>4 DEF shift_right, d
  <2> HIDE DEF s
  <2>2. QED BY <1>2, <1>4, <2>1 DEF s, d
<1>5. QED BY <1>3, <1>4

\* A quotient is below q when the number is below q times the divisor.
LEMMA DivBelow ==
    ASSUME NEW a \in Int, NEW d \in Nat \ {0}, NEW q \in Int, a < d * q
    PROVE  a \div d < q
<1> DEFINE p == a \div d
           t == a % d
<1>1. p \in Int /\ t \in 0 .. d - 1 /\ a = d * p + t
  BY DivMod
<1> HIDE DEF p, t
<1>2. ~(p >= q)
  <2>1. p >= q => d * p >= d * q
    BY <1>1, Z3
  <2>2. d * p \in Int /\ d * q \in Int
    BY <1>1, Z3
  <2>3. QED BY <1>1, <2>1, <2>2
<1>3. QED BY <1>1, <1>2 DEF p

\* A struct update of an unpacked value.
LEMMA UnpackedUpdate ==
    ASSUME NEW v \in UnpackedValues, NEW x \in Nat, NEW y \in Int
    PROVE  /\ [v EXCEPT !.significand = x, !.exponent = y] = Unpacked(v.is_negative, y, x)
           /\ [v EXCEPT !.significand = x] = Unpacked(v.is_negative, v.exponent, x)
           /\ Unpacked(v.is_negative, y, x) \in UnpackedValues
<1>1. v.is_negative \in BOOLEAN /\ v.exponent \in Int /\ v.significand \in Nat
  BY DEF UnpackedValues
<1>2. Unpacked(v.is_negative, y, x) \in UnpackedValues
  BY <1>1 DEF UnpackedValues, Unpacked
<1>3. [v EXCEPT !.significand = x, !.exponent = y] = Unpacked(v.is_negative, y, x)
  <2> DEFINE w == [v EXCEPT !.significand = x, !.exponent = y]
  <2>1. DOMAIN v = {"is_negative", "exponent", "significand"}
    BY DEF UnpackedValues
  <2>2. w = [i \in DOMAIN v |-> IF i = "exponent" THEN y ELSE IF i = "significand" THEN x ELSE v[i]]
    BY <2>1
  <2>3. Unpacked(v.is_negative, y, x)
          = [i \in DOMAIN v |-> IF i = "exponent" THEN y ELSE IF i = "significand" THEN x ELSE v[i]]
    BY <2>1 DEF Unpacked
  <2>4. QED BY <2>2, <2>3
<1>4. [v EXCEPT !.significand = x] = Unpacked(v.is_negative, v.exponent, x)
  BY DEF UnpackedValues, Unpacked
<1>5. QED BY <1>2, <1>3, <1>4

\* What normalise does, by the distance its leading bit moves.
LEMMA NormaliseIs ==
    ASSUME NEW f \in Formats, NEW v \in UnpackedValues, NEW sticky \in BOOLEAN,
           NEW up \in Int, up = leading(v.significand) - scale(f)
    PROVE  normalise(v, sticky, f) =
             IF up >= 0
             THEN [value  |-> Unpacked(v.is_negative, v.exponent + up,
                                       shift_right(v.significand, up, WORD).kept),
                   sticky |-> sticky \/ shift_right(v.significand, up, WORD).lost]
             ELSE [value  |-> Unpacked(v.is_negative, v.exponent + up, v.significand * pow2[-up]),
                   sticky |-> sticky]
<1>0. v.significand \in Nat /\ v.exponent \in Int /\ v.exponent + up \in Int /\ WORD \in Nat
  BY Scales DEF UnpackedValues
<1>1. CASE up >= 0
  <2> DEFINE s == shift_right(v.significand, up, WORD)
  <2>1. normalise(v, sticky, f) =
          [value |-> [v EXCEPT !.significand = s.kept, !.exponent = v.exponent + up],
           sticky |-> sticky \/ s.lost]
    BY <1>1 DEF normalise
  <2>2. s.kept \in Nat
    <3>1. up \in Nat
      BY <1>1
    <3>2. QED BY <1>0, <3>1, ShiftRightIs
  <2> HIDE DEF s
  <2>3. [v EXCEPT !.significand = s.kept, !.exponent = v.exponent + up]
          = Unpacked(v.is_negative, v.exponent + up, s.kept)
    BY <1>0, <2>2, UnpackedUpdate
  <2>4. QED BY <1>1, <2>1, <2>3 DEF s
<1>2. CASE ~(up >= 0)
  <2> DEFINE x == v.significand * pow2[-up]
  <2>1. normalise(v, sticky, f) =
          [value |-> [v EXCEPT !.significand = x, !.exponent = v.exponent + up],
           sticky |-> sticky]
    BY <1>2 DEF normalise
  <2>2. x \in Nat
    <3> DEFINE z == -up
    <3>1. z \in Nat
      BY <1>2
    <3> HIDE DEF z
    <3>2. pow2[z] \in Nat
      BY <3>1, PowSucc
    <3>3. v.significand * pow2[z] \in Nat
      BY <1>0, <3>2, Z3
    <3>4. QED BY <3>3 DEF z
  <2> HIDE DEF x
  <2>3. [v EXCEPT !.significand = x, !.exponent = v.exponent + up]
          = Unpacked(v.is_negative, v.exponent + up, x)
    BY <1>0, <2>2, UnpackedUpdate
  <2>4. QED BY <1>2, <2>1, <2>3 DEF x
<1>3. QED BY <1>1, <1>2

\* normalise puts the leading bit at scale(f) or drops everything.
LEMMA NormaliseFits ==
    ASSUME NEW f \in Formats, NEW v \in UnpackedValues, NEW sticky \in BOOLEAN,
           v.significand # 0, v.significand < pow2[2 * WORD + 1]
    PROVE  LET n == normalise(v, sticky, f)
           IN  /\ n.value \in UnpackedValues /\ n.sticky \in BOOLEAN
               /\ n.value.is_negative = v.is_negative
               /\ n.value.significand < pow2[scale(f) + 1]
<1> DEFINE S == v.significand
           k == leading(S)
           g == scale(f)
           up == k - g
           n == normalise(v, sticky, f)
<1>1. S \in Nat \ {0} /\ v.is_negative \in BOOLEAN /\ v.exponent \in Int
  BY DEF UnpackedValues
<1>2. g \in Nat /\ WORD \in Nat
  BY Scales
<1>3. k \in Nat /\ S < pow2[k + 1] /\ pow2[k] <= S
  BY <1>1, <1>2, LeadingIs
<1> HIDE DEF k, g
<1>4. up \in Int /\ k + 1 = up + (g + 1) /\ g + 1 \in Nat /\ v.exponent + up \in Int
  BY <1>1, <1>2, <1>3
<1>5. n = IF up >= 0
          THEN [value  |-> Unpacked(v.is_negative, v.exponent + up, shift_right(S, up, WORD).kept),
                sticky |-> sticky \/ shift_right(S, up, WORD).lost]
          ELSE [value  |-> Unpacked(v.is_negative, v.exponent + up, S * pow2[-up]),
                sticky |-> sticky]
  BY <1>4, NormaliseIs DEF k, g
<1> HIDE DEF up, n, S
<1>6. ASSUME NEW x \in Nat, x < pow2[g + 1], NEW t \in BOOLEAN,
             n = [value |-> Unpacked(v.is_negative, v.exponent + up, x), sticky |-> t]
      PROVE  /\ n.value \in UnpackedValues /\ n.sticky \in BOOLEAN
             /\ n.value.is_negative = v.is_negative
             /\ n.value.significand < pow2[g + 1]
  BY <1>1, <1>4, <1>6 DEF UnpackedValues, Unpacked
<1>7. CASE up >= 0
  <2> DEFINE s == shift_right(S, up, WORD)
  <2>1. up \in Nat
    BY <1>4, <1>7
  <2>2. /\ s.kept \in Nat /\ s.lost \in BOOLEAN
        /\ up < WORD => s.kept = S \div pow2[up]
        /\ ~(up < WORD) => s.kept = 0
    BY <1>1, <1>2, <2>1, ShiftRightIs
  <2>3. pow2[g + 1] \in Nat \ {0} /\ pow2[up] \in Nat \ {0} /\ pow2[k + 1] = pow2[up] * pow2[g + 1]
    <3>1. pow2[up + (g + 1)] = pow2[up] * pow2[g + 1]
      BY <1>4, <2>1, PowAdd
    <3>2. pow2[g + 1] \in Nat \ {0} /\ pow2[up] \in Nat \ {0}
      BY <1>4, <2>1, PowSucc
    <3>3. QED BY <1>4, <3>1, <3>2
  <2> HIDE DEF s
  <2>4. s.kept < pow2[g + 1]
    <3>1. up < WORD => s.kept < pow2[g + 1]
      BY <1>1, <1>3, <2>2, <2>3, DivBelow
    <3>2. QED BY <2>2, <2>3, <3>1
  <2>5. QED BY <1>5, <1>6, <1>7, <2>2, <2>4 DEF s, n, g
<1>8. CASE ~(up >= 0)
  <2> DEFINE z == -up
  <2>1. z \in Nat /\ k + 1 \in Nat /\ (k + 1) + z = g + 1
    BY <1>3, <1>4, <1>8
  <2>2. n = [value  |-> Unpacked(v.is_negative, v.exponent + up, S * pow2[z]), sticky |-> sticky]
    BY <1>5, <1>8
  <2> HIDE DEF z
  <2>3. pow2[z] \in Nat \ {0} /\ pow2[k + 1] \in Nat /\ pow2[g + 1] = pow2[k + 1] * pow2[z]
    BY <2>1, PowAdd, PowSucc
  <2>4. S * pow2[z] \in Nat /\ S * pow2[z] < pow2[k + 1] * pow2[z]
    BY <1>1, <1>3, <2>3, Z3
  <2>5. QED BY <1>6, <2>2, <2>3, <2>4 DEF n, g
<1>9. QED BY <1>7, <1>8

\* Rounding changes the significand by less than one unit above the guard bits,
\* and at most doubles its scale.
LEMMA RoundSignificandFits ==
    ASSUME NEW S \in Nat, NEW e \in Int, NEW sticky, NEW r, NEW n
    PROVE  LET t == round_significand(S, e, sticky, r, n)
           IN  /\ t.significand \in Nat /\ t.exponent \in {e, e + 1} /\ t.raised \in {{}, {"INEXACT"}}
               /\ t.significand \div 8 <= (S \div 8) + 1
<1> DEFINE D == S % 8
           T == S - D
           R == IF should_round_up(D, sticky, S, r, n) THEN T + 8 ELSE T
           t == round_significand(S, e, sticky, r, n)
<1>1. D \in 0 .. 7 /\ T = 8 * (S \div 8) /\ S \div 8 \in Nat
  BY Z3
<1>2. R \in Nat /\ (R = 8 * (S \div 8) + 8 \/ R = 8 * (S \div 8))
  <2> HIDE DEF D, T
  <2>1. QED BY <1>1
<1>3. \/ t = [significand |-> S, exponent |-> e, raised |-> {}]
      \/ t = [significand |-> R \div 2, exponent |-> e + 1, raised |-> {"INEXACT"}]
      \/ t = [significand |-> R, exponent |-> e, raised |-> {"INEXACT"}]
  BY PowValues DEF round_significand, GUARD_BITS
<1> HIDE DEF t, R, T, D
<1>4. CASE t = [significand |-> S, exponent |-> e, raised |-> {}]
  BY <1>1, <1>4 DEF t
<1>5. CASE t = [significand |-> R \div 2, exponent |-> e + 1, raised |-> {"INEXACT"}]
  <2>1. R \div 2 \in Nat /\ (R \div 2) \div 8 <= (S \div 8) + 1
    BY <1>1, <1>2, Z3
  <2>2. QED BY <1>5, <2>1 DEF t
<1>6. CASE t = [significand |-> R, exponent |-> e, raised |-> {"INEXACT"}]
  <2>1. R \div 8 <= (S \div 8) + 1
    BY <1>1, <1>2, Z3
  <2>2. QED BY <1>2, <1>6, <2>1 DEF t
<1>7. QED BY <1>3, <1>4, <1>5, <1>6

\* Fields below the largest exponent make a finite pattern.
LEMMA FinitePattern ==
    ASSUME NEW f \in Formats, NEW n \in BOOLEAN, NEW x \in 0 .. max_exponent(f) - 1,
           NEW y \in 0 .. pow2[f.mantissa_bits] - 1, NEW b, b = Pattern(f, n, x, y)
    PROVE  b \in Patterns(f) /\ ~is_nan(f, b) /\ is_negative(f, b) = n
<1>1. max_exponent(f) \in Nat
  BY FormatSizes DEF Sizes
<1>2. x \in 0 .. max_exponent(f) /\ x # max_exponent(f)
  BY <1>1
<1>3. b \in Patterns(f) /\ raw_exponent(f, b) = x /\ is_negative(f, b) = n
  BY <1>2, FieldsOfPattern
<1>4. QED BY <1>2, <1>3 DEF is_nan

\* A magnitude of at most one unit above the subnormals is a finite pattern.
LEMMA SmallPattern ==
    ASSUME NEW f \in Formats, NEW n \in BOOLEAN, NEW t \in 0 .. pow2[f.mantissa_bits],
           NEW b, b = zero(f, n) + t
    PROVE  b \in Patterns(f) /\ ~is_nan(f, b) /\ is_negative(f, b) = n
<1> DEFINE M == pow2[f.mantissa_bits]
<1>1. M \in Nat \ {0} /\ max_exponent(f) \in Nat /\ max_exponent(f) >= 3 /\ zero(f, n) \in Nat
  BY FormatSizes DEF Sizes, zero
<1>2. CASE t < M
  <2>1. 0 \in 0 .. max_exponent(f) - 1 /\ t \in 0 .. M - 1
    BY <1>1, <1>2
  <2>2. b = Pattern(f, n, 0, t)
    BY <1>1 DEF Pattern
  <2>3. QED BY <2>1, <2>2, FinitePattern
<1>3. CASE t = M
  <2>1. 1 \in 0 .. max_exponent(f) - 1 /\ 0 \in 0 .. M - 1
    BY <1>1
  <2>2. b = Pattern(f, n, 1, 0)
    BY <1>1, <1>3 DEF Pattern
  <2>3. QED BY <2>1, <2>2, FinitePattern
<1>4. t < M \/ t = M
  BY <1>1
<1>5. QED BY <1>2, <1>3, <1>4

\* The fields of a result.
LEMMA RaisingIs ==
    ASSUME NEW b, NEW R
    PROVE  /\ Raising(b, R) = [bits |-> b, raised |-> R]
           /\ Raising(b, R).bits = b /\ Raising(b, R).raised = R
           /\ Exact(b) = [bits |-> b, raised |-> {}] /\ Exact(b).bits = b /\ Exact(b).raised = {}
  BY DEF Raising, Exact

\* A pattern that is no NaN, with a rounding's flags.
LEMMA NumberOf ==
    ASSUME NEW f \in Formats, NEW n \in BOOLEAN, NEW b \in Patterns(f), ~is_nan(f, b),
           is_negative(f, b) = n, NEW R \in SUBSET Losses
    PROVE  IsRoundedNumber(Raising(b, R), f, n) /\ IsRoundedNumber(Exact(b), f, n)
<1>1. Raising(b, R) \in [bits : Patterns(f), raised : SUBSET Losses] /\ Raising(b, R).bits = b
  BY DEF Raising
<1>2. Exact(b) \in [bits : Patterns(f), raised : SUBSET Losses] /\ Exact(b).bits = b
  BY DEF Exact
<1>3. QED BY <1>1, <1>2 DEF IsRoundedNumber

\* pack_subnormal returns a number of its operand's sign.
LEMMA PackSubnormalIsNumber ==
    ASSUME NEW f \in Formats, NEW v \in UnpackedValues, NEW sticky \in BOOLEAN, NEW r,
           v.significand < pow2[scale(f) + 1], v.exponent < min_exponent(f)
    PROVE  IsRoundedNumber(pack_subnormal(v, sticky, f, r), f, v.is_negative)
<1> DEFINE shift == min_exponent(f) - v.exponent
           s     == shift_right(v.significand, shift, WORD)
           t     == round_significand(s.kept, min_exponent(f), sticky \/ s.lost, r, v.is_negative)
           M     == pow2[f.mantissa_bits]
           n     == v.is_negative
<1>1. min_exponent(f) \in Int /\ M \in Nat \ {0, 1} /\ pow2[scale(f) + 1] = 16 * M /\ scale(f) \in Nat
      /\ WORD \in Nat /\ scale(f) + 2 <= WORD
  BY FormatSizes, Scales DEF min_exponent, Sizes
<1>2. v.significand \in Nat /\ n \in BOOLEAN /\ v.exponent \in Int
  BY DEF UnpackedValues
<1>3. shift \in Nat /\ shift >= 1
  BY <1>1, <1>2
<1> HIDE DEF shift
<1>4. s.kept \in Nat /\ s.lost \in BOOLEAN /\ (shift < WORD => s.kept = v.significand \div pow2[shift])
  <2> DEFINE S == v.significand
  <2>1. S \in Nat
    BY <1>2
  <2> HIDE DEF S
  <2>2. LET z == shift_right(S, shift, WORD)
        IN  z.kept \in Nat /\ z.lost \in BOOLEAN /\ (shift < WORD => z.kept = S \div pow2[shift])
    BY <1>1, <1>3, <2>1, ShiftRightIs
  <2>3. QED BY <2>2 DEF S
<1>5. CASE shift >= scale(f) + 1
  <2> DEFINE u == IF (r = "Plus" /\ ~n) \/ (r = "Minus" /\ n) THEN 1 ELSE 0
  <2>1. pack_subnormal(v, sticky, f, r) = Raising(zero(f, n) + u, {"UNDERFLOW", "INEXACT"})
    BY <1>5 DEF pack_subnormal, round_to_zero_or_minimum, shift
  <2>2. u \in 0 .. M
    BY <1>1
  <2> DEFINE b == zero(f, n) + u
  <2>3. b \in Patterns(f) /\ ~is_nan(f, b) /\ is_negative(f, b) = n
    <3> HIDE DEF u, n
    <3>1. QED BY <1>2, <2>2, SmallPattern
  <2>4. {"UNDERFLOW", "INEXACT"} \in SUBSET Losses
    BY DEF Losses
  <2> HIDE DEF b, n
  <2>5. IsRoundedNumber(Raising(b, {"UNDERFLOW", "INEXACT"}), f, n)
    BY <1>2, <2>3, <2>4, NumberOf
  <2>6. QED BY <2>1, <2>5 DEF b, n
<1>6. CASE ~(shift >= scale(f) + 1)
  <2>1. s.kept = v.significand \div pow2[shift] /\ pow2[shift] \in Nat \ {0} /\ pow2[shift] >= 2
    <3>1. shift < WORD
      BY <1>1, <1>3, <1>6
    <3>2. pow2[shift] \in Nat \ {0}
      BY <1>3, PowSucc
    <3>3. pow2[shift] >= pow2[1]
      BY <1>3, PowMono
    <3>4. QED BY <1>4, <3>1, <3>2, <3>3, PowValues
  <2>2. s.kept < 8 * M
    <3>1. v.significand < pow2[shift] * (8 * M)
      <4> DEFINE d == pow2[shift]
      <4> HIDE DEF d, M
      <4>1. d \in Nat /\ d >= 2
        BY <2>1 DEF d
      <4>2. 2 * (8 * M) <= d * (8 * M)
        BY <1>1, <4>1, Z3
      <4>3. d * (8 * M) \in Int
        BY <1>1, <4>1, Z3
      <4>4. QED BY <1>1, <1>2, <4>2, <4>3 DEF d
    <3>2. 8 * M \in Int
      BY <1>1
    <3>3. QED BY <1>2, <2>1, <3>1, <3>2, DivBelow
  <2> HIDE DEF s
  <2>3. t.significand \in Nat /\ t.significand \div 8 <= (s.kept \div 8) + 1 /\ t.raised \in {{}, {"INEXACT"}}
    BY <1>1, <1>4, RoundSignificandFits
  <2> HIDE DEF t
  <2> DEFINE u == t.significand \div 8
             R == IF t.raised = {} THEN {} ELSE {"INEXACT", "UNDERFLOW"}
             b == zero(f, n) + u
  <2>4. u \in 0 .. M
    <3> HIDE DEF M
    <3>1. s.kept \div 8 < M
      BY <1>1, <1>4, <2>2, Z3
    <3>2. t.significand \div 8 \in Nat /\ s.kept \div 8 \in Nat
      BY <1>4, <2>3, Z3
    <3>3. QED BY <1>1, <2>3, <3>1, <3>2
  <2>5. pack_subnormal(v, sticky, f, r) = Raising(b, R)
    BY <1>6, PowValues DEF pack_subnormal, shift, s, t, GUARD_BITS
  <2>6. b \in Patterns(f) /\ ~is_nan(f, b) /\ is_negative(f, b) = n
    <3> HIDE DEF u, n
    <3>1. QED BY <1>2, <2>4, SmallPattern
  <2>7. R \in SUBSET Losses
    BY DEF Losses
  <2> HIDE DEF b, n, R
  <2>8. IsRoundedNumber(Raising(b, R), f, n)
    BY <1>2, <2>6, <2>7, NumberOf
  <2>9. QED BY <2>5, <2>8 DEF n
<1>7. QED BY <1>5, <1>6

\* So does overflow,
LEMMA OverflowIsNumber ==
    ASSUME NEW f \in Formats, NEW n \in BOOLEAN, NEW r
    PROVE  IsRoundedNumber(overflow(n, f, r), f, n)
<1> DEFINE M == pow2[f.mantissa_bits]
           x == max_exponent(f) - 1
           R == {"OVERFLOW", "INEXACT"}
           big == max_finite(f) + zero(f, n)
<1>1. M \in Nat \ {0} /\ x \in Nat /\ infinity(f) = (x + 1) * M /\ sign_bit(f) \in Nat
  BY FormatSizes DEF Sizes, infinity
<1>2. R \in SUBSET Losses
  BY DEF Losses
<1>3. overflow(n, f, r) = Raising(signed_infinity(f, n), R) \/ overflow(n, f, r) = Raising(big, R)
  BY DEF overflow
<1>4. IsRoundedNumber(Raising(signed_infinity(f, n), R), f, n)
  <2> HIDE DEF R
  <2> DEFINE b == signed_infinity(f, n)
  <2>1. b \in Patterns(f) /\ ~is_nan(f, b) /\ is_negative(f, b) = n
    BY InfinityIsInfinite
  <2> HIDE DEF b
  <2>2. IsRoundedNumber(Raising(b, R), f, n)
    BY <1>2, <2>1, NumberOf
  <2>3. QED BY <2>2 DEF b
<1>5. IsRoundedNumber(Raising(big, R), f, n)
  <2>1. big = Pattern(f, n, x, M - 1)
    <3>1. zero(f, n) \in Int
      BY <1>1 DEF zero
    <3>2. big = ((x + 1) * M - 1) + zero(f, n) /\ Pattern(f, n, x, M - 1) = zero(f, n) + (x * M + (M - 1))
      BY <1>1 DEF max_finite, Pattern
    <3> HIDE DEF big, x, M
    <3>3. (x + 1) * M = x * M + M /\ x * M \in Int
      BY <1>1, Z3
    <3>4. QED BY <1>1, <3>1, <3>2, <3>3
  <2>2. x \in 0 .. max_exponent(f) - 1 /\ M - 1 \in 0 .. M - 1
    BY <1>1
  <2>3. big \in Patterns(f) /\ ~is_nan(f, big) /\ is_negative(f, big) = n
    <3> HIDE DEF big, x
    <3>1. QED BY <2>1, <2>2, FinitePattern
  <2> HIDE DEF R, big
  <2>4. QED BY <1>2, <2>3, NumberOf
<1>6. QED BY <1>3, <1>4, <1>5

\* and pack_normalised,
LEMMA PackNormalisedIsNumber ==
    ASSUME NEW f \in Formats, NEW v \in UnpackedValues, NEW sticky \in BOOLEAN, NEW r,
           v.significand < pow2[scale(f) + 1]
    PROVE  IsRoundedNumber(pack_normalised(v, sticky, f, r), f, v.is_negative)
<1> DEFINE t == round_significand(v.significand, v.exponent, sticky, r, v.is_negative)
           M == pow2[f.mantissa_bits]
           n == v.is_negative
           B == exponent_bias(f)
<1>1. B \in Nat \ {0} /\ min_exponent(f) = 1 - B /\ M \in Nat \ {0} /\ max_exponent(f) = 2 * B + 1
  BY FormatSizes DEF min_exponent, Sizes
<1>2. v.significand \in Nat /\ n \in BOOLEAN /\ v.exponent \in Int
  BY DEF UnpackedValues
<1>3. t.significand \in Nat /\ t.exponent \in {v.exponent, v.exponent + 1} /\ t.raised \in {{}, {"INEXACT"}}
  BY <1>2, RoundSignificandFits
<1>4. CASE v.exponent < min_exponent(f)
  <2>1. pack_normalised(v, sticky, f, r) = pack_subnormal(v, sticky, f, r)
    BY <1>4 DEF pack_normalised
  <2>2. QED BY <1>4, <2>1, PackSubnormalIsNumber
<1>5. CASE ~(v.exponent < min_exponent(f)) /\ t.exponent > B
  <2>1. pack_normalised(v, sticky, f, r) = overflow(n, f, r)
    BY <1>5 DEF pack_normalised
  <2>2. QED BY <1>2, <2>1, OverflowIsNumber
<1>6. CASE ~(v.exponent < min_exponent(f)) /\ ~(t.exponent > B)
  <2> DEFINE x == t.exponent + B
             y == (t.significand \div 8) % M
             b == zero(f, n) + x * M + y
  <2>1. pack_normalised(v, sticky, f, r) = Raising(b, t.raised)
    BY <1>6, PowValues DEF pack_normalised, GUARD_BITS
  <2> HIDE DEF t, M, B
  <2>2. x \in 0 .. max_exponent(f) - 1
    BY <1>1, <1>2, <1>3, <1>6
  <2>3. y \in 0 .. M - 1
    <3> DEFINE q == t.significand \div 8
    <3>1. q \in Int
      BY <1>3, Z3
    <3> HIDE DEF q
    <3>2. q % M \in 0 .. M - 1
      BY <1>1, <3>1, DivMod
    <3>3. QED BY <3>2 DEF q
  <2>4. b = Pattern(f, n, x, y)
    <3>1. zero(f, n) \in Int /\ x * M \in Int /\ y \in Int
      <4>1. sign_bit(f) \in Int
        BY FormatSizes DEF Sizes
      <4>2. zero(f, n) \in Int
        BY <4>1 DEF zero
      <4>3. x \in Int /\ y \in Int
        BY <1>1, <2>2, <2>3
      <4> HIDE DEF x, y
      <4>4. x * M \in Int
        BY <1>1, <4>3, Z3
      <4>5. QED BY <4>2, <4>3, <4>4
    <3>2. b = zero(f, n) + x * M + y /\ Pattern(f, n, x, y) = zero(f, n) + (x * M + y)
      BY DEF Pattern, M
    <3> HIDE DEF x, y, b, n
    <3>3. QED BY <3>1, <3>2
  <2> HIDE DEF x, y, b, n
  <2>5. b \in Patterns(f) /\ ~is_nan(f, b) /\ is_negative(f, b) = n
    BY <1>2, <2>2, <2>3, <2>4, FinitePattern DEF M
  <2>6. t.raised \in SUBSET Losses
    BY <1>3 DEF Losses
  <2>7. IsRoundedNumber(Raising(b, t.raised), f, n)
    BY <1>2, <2>5, <2>6, NumberOf
  <2>8. QED BY <2>1, <2>7 DEF n
<1>7. QED BY <1>4, <1>5, <1>6

\* and flushing the result changes neither.
LEMMA FlushIsNumber ==
    ASSUME NEW f \in Formats, NEW n \in BOOLEAN, NEW res, IsRoundedNumber(res, f, n), NEW c
    PROVE  IsRoundedNumber(apply_flush_to_zero(res, f, c), f, n)
<1>1. CASE ~is_flushing(f, c) \/ ~is_subnormal(f, res.bits)
  BY <1>1 DEF apply_flush_to_zero
<1>2. CASE ~(~is_flushing(f, c) \/ ~is_subnormal(f, res.bits))
  <2> DEFINE b == zero(f, n)
             R == res.raised \cup {"UNDERFLOW", "INEXACT"}
  <2>1. apply_flush_to_zero(res, f, c) = Raising(b, R)
    BY <1>2 DEF apply_flush_to_zero, IsRoundedNumber
  <2>2. b \in Patterns(f) /\ ~is_nan(f, b) /\ is_negative(f, b) = n
    BY ZeroIsZero
  <2>3. R \in SUBSET Losses
    BY DEF IsRoundedNumber, Losses
  <2> HIDE DEF b, R
  <2>4. QED BY <2>1, <2>2, <2>3, NumberOf
<1>3. QED BY <1>1, <1>2

\* Whatever significand fits a u128, what comes out is a number of its sign.
LEMMA RoundAndPackIsNumber ==
    ASSUME NEW f \in Formats, NEW v \in UnpackedValues, NEW sticky \in BOOLEAN, NEW r, NEW c,
           v.significand < pow2[2 * WORD + 1]
    PROVE  IsRoundedNumber(round_and_pack(v, sticky, f, r, c), f, v.is_negative)
<1>0. v.is_negative \in BOOLEAN
  BY DEF UnpackedValues
<1>1. CASE v.significand = 0
  <2> DEFINE b == zero(f, v.is_negative)
  <2>1. b \in Patterns(f) /\ ~is_nan(f, b) /\ is_negative(f, b) = v.is_negative
    BY <1>0, ZeroIsZero
  <2>2. round_and_pack(v, sticky, f, r, c) = Exact(b)
    BY <1>1 DEF round_and_pack
  <2> HIDE DEF b
  <2>3. QED BY <1>0, <2>1, <2>2, NumberOf
<1>2. CASE v.significand # 0
  <2> DEFINE n == normalise(v, sticky, f)
             p == pack_normalised(n.value, n.sticky, f, r)
  <2>1. /\ n.value \in UnpackedValues /\ n.sticky \in BOOLEAN /\ n.value.is_negative = v.is_negative
        /\ n.value.significand < pow2[scale(f) + 1]
    BY <1>2, NormaliseFits
  <2>2. IsRoundedNumber(p, f, v.is_negative)
    <3> HIDE DEF n
    <3>1. IsRoundedNumber(p, f, n.value.is_negative)
      BY <2>1, PackNormalisedIsNumber
    <3>2. QED BY <2>1, <3>1
  <2>3. round_and_pack(v, sticky, f, r, c) = apply_flush_to_zero(p, f, c)
    BY <1>2 DEF round_and_pack
  <2> HIDE DEF p
  <2>4. QED BY <1>0, <2>2, <2>3, FlushIsNumber
<1>3. QED BY <1>1, <1>2

(***************************************************************************)
(* Unpacking.                                                              *)
(***************************************************************************)
\* u is the magnitude of `ulps` smallest subnormals, with its leading bit at
\* scale(f) and its guard bits clear.
Carries(u, ulps, f) ==
    LET k == u.exponent - min_exponent(f)
    IN  /\ k \in Int /\ k >= -f.mantissa_bits
        /\ pow2[scale(f)] <= u.significand /\ u.significand < pow2[scale(f) + 1]
        /\ u.significand % 8 = 0
        /\ k >= 0 => u.significand * pow2[k] = 8 * ulps
        /\ k < 0  => u.significand = 8 * ulps * pow2[-k]

\* is_zero in terms of the fields.
LEMMA IsZeroIs ==
    ASSUME NEW f \in Formats, NEW bits \in Patterns(f)
    PROVE  is_zero(f, bits) <=> raw_exponent(f, bits) = 0 /\ mantissa(f, bits) = 0
<1> DEFINE x == raw_exponent(f, bits)
           y == mantissa(f, bits)
           n == is_negative(f, bits)
           M == pow2[f.mantissa_bits]
<1>1. /\ n \in BOOLEAN /\ x \in 0 .. max_exponent(f) /\ y \in 0 .. M - 1 /\ bits = Pattern(f, n, x, y)
  BY PatternOfFields
<1>2. M \in Nat \ {0} /\ max_exponent(f) \in Nat
  BY FormatSizes DEF Sizes
<1> HIDE DEF x, y, n
<1>3. magnitude_bits(f, bits) = x * M + y
  <2>1. \A p : p = Pattern(f, n, x, y) => magnitude_bits(f, p) = x * M + y
    BY <1>1, FieldsOfPattern
  <2>2. QED BY <2>1, <1>1
<1> HIDE DEF M
<1>4. x * M + y = 0 <=> x = 0 /\ y = 0
  <2>1. x \in Nat /\ y \in Nat
    BY <1>1, <1>2
  <2>2. x # 0 => x * M \in Nat \ {0}
    BY <1>2, <2>1, Z3
  <2>3. x = 0 => x * M = 0
    BY <1>2, Z3
  <2>4. QED BY <2>1, <2>2, <2>3
<1>5. QED BY <1>3, <1>4 DEF is_zero, x, y

\* unpack of a normal pattern is normalised and exact.
LEMMA UnpackNormal ==
    ASSUME NEW f \in Formats, NEW bits \in Patterns(f), raw_exponent(f, bits) # 0
    PROVE  LET u == unpack(bits, f)
           IN  /\ u \in UnpackedValues /\ u.is_negative = is_negative(f, bits)
               /\ u.significand # 0 /\ u.significand < pow2[scale(f) + 1]
               /\ Carries(u, Ulps(f, bits), f)
<1> DEFINE x == raw_exponent(f, bits)
           y == mantissa(f, bits)
           n == is_negative(f, bits)
           M == pow2[f.mantissa_bits]
           u == unpack(bits, f)
           S == (y + M) * 8
           B == exponent_bias(f)
<1>1. /\ n \in BOOLEAN /\ x \in 0 .. max_exponent(f) /\ y \in 0 .. M - 1
  BY PatternOfFields
<1>2. M \in Nat \ {0} /\ max_exponent(f) \in Nat /\ pow2[scale(f)] = 8 * M /\ pow2[scale(f) + 1] = 16 * M
      /\ B \in Int /\ min_exponent(f) = 1 - B /\ f.mantissa_bits \in Nat
  BY FormatSizes, Scales DEF Sizes, min_exponent
<1>3. u = Unpacked(n, x - B, S)
  BY PowValues DEF unpack, GUARD_BITS
<1>4. x \in Nat \ {0} /\ y \in Nat /\ y < M /\ x - 1 \in Nat
  BY <1>1, <1>2
<1>5. Ulps(f, bits) = (y + M) * pow2[x - 1]
  BY <1>4 DEF Ulps
<1>6. pow2[x - 1] \in Nat
  BY <1>4, PowSucc
<1> HIDE DEF x, y, n, M, B
<1>7. S \in Nat /\ 8 * M <= S /\ S < 16 * M /\ S % 8 = 0 /\ S # 0
  BY <1>2, <1>4, Z3
<1>8. S * pow2[x - 1] = 8 * ((y + M) * pow2[x - 1])
  <2> DEFINE p == pow2[x - 1]
  <2> HIDE DEF p
  <2>1. p \in Nat
    BY <1>6 DEF p
  <2>2. ((y + M) * 8) * p = 8 * ((y + M) * p)
    BY <1>2, <1>4, <2>1, Z3
  <2>3. QED BY <2>2 DEF p
<1> HIDE DEF S, u
<1>9. u.is_negative = n /\ u.exponent = x - B /\ u.significand = S
  BY <1>3 DEF Unpacked
<1>10. u \in UnpackedValues
  BY <1>1, <1>2, <1>3, <1>4, <1>7 DEF Unpacked, UnpackedValues
<1>11. u.exponent - min_exponent(f) = x - 1
  BY <1>2, <1>4, <1>9
<1>12. Carries(u, Ulps(f, bits), f)
  BY <1>2, <1>4, <1>5, <1>7, <1>8, <1>9, <1>11 DEF Carries
<1>13. QED BY <1>2, <1>7, <1>9, <1>10, <1>12 DEF u, n

\* So is unpack of a subnormal, which it shifts up.
LEMMA UnpackSubnormal ==
    ASSUME NEW f \in Formats, NEW bits \in Patterns(f), is_subnormal(f, bits)
    PROVE  LET u == unpack(bits, f)
           IN  /\ u \in UnpackedValues /\ u.is_negative = is_negative(f, bits)
               /\ u.significand # 0 /\ u.significand < pow2[scale(f) + 1]
               /\ Carries(u, Ulps(f, bits), f)
<1> DEFINE y == mantissa(f, bits)
           n == is_negative(f, bits)
           m == f.mantissa_bits
           M == pow2[m]
           u == unpack(bits, f)
           l == leading(y)
           shift == m - l
           B == exponent_bias(f)
           S == y * pow2[shift + 3]
<1>1. n \in BOOLEAN /\ y \in 0 .. M - 1 /\ y # 0 /\ raw_exponent(f, bits) = 0
  BY PatternOfFields DEF is_subnormal
<1>2. /\ M \in Nat \ {0} /\ pow2[scale(f)] = 8 * M /\ pow2[scale(f) + 1] = 16 * M /\ scale(f) = m + 3
      /\ B \in Int /\ min_exponent(f) = 1 - B /\ m \in Nat /\ WORD \in Nat /\ m + 5 <= WORD
  BY FormatSizes, Scales, FormatAssumption DEF Sizes, min_exponent
<1>3. y \in Nat \ {0} /\ y < M
  BY <1>1, <1>2
<1> HIDE DEF y, m, M
<1>4. M <= pow2[2 * WORD + 1] /\ pow2[2 * WORD + 1] \in Nat
  <2>1. 2 * WORD + 1 \in Nat /\ m <= 2 * WORD + 1
    BY <1>2
  <2>2. QED BY <1>2, <2>1, PowMono, PowSucc DEF M
<1>5. l \in 0 .. 2 * WORD /\ pow2[l] <= y /\ y < pow2[l + 1]
  <2>1. y < pow2[2 * WORD + 1]
    BY <1>2, <1>3, <1>4
  <2>2. QED BY <1>3, <2>1, LeadingIs
<1>6. l \in Nat /\ l + 1 <= m /\ pow2[l] \in Nat /\ pow2[l + 1] \in Nat
  <2> HIDE DEF l
  <2>1. l \in Nat /\ l + 1 \in Nat /\ pow2[l] \in Nat /\ pow2[l + 1] \in Nat
    BY <1>2, <1>5, PowSucc
  <2>2. m <= l => M <= pow2[l]
    BY <1>2, <2>1, PowMono DEF M
  <2>3. QED BY <1>2, <1>3, <1>5, <2>1, <2>2
<1> HIDE DEF l
<1>7. shift \in Nat /\ shift <= m /\ shift >= 1 /\ shift + 3 \in Nat
  BY <1>2, <1>6
<1>8. S \in Nat /\ 8 * M <= S /\ S < 16 * M
  <2> DEFINE z == shift + 3
  <2>1. z \in Nat /\ l + z = m + 3 /\ (l + 1) + z = m + 4 /\ l + 1 \in Nat
    BY <1>2, <1>6, <1>7
  <2> HIDE DEF z
  <2>2. pow2[m + 3] = pow2[l] * pow2[z] /\ pow2[m + 4] = pow2[l + 1] * pow2[z] /\ pow2[z] \in Nat \ {0}
    <3>1. pow2[l + z] = pow2[l] * pow2[z] /\ pow2[z] \in Nat \ {0}
      BY <1>6, <2>1, PowAdd, PowSucc
    <3>2. pow2[(l + 1) + z] = pow2[l + 1] * pow2[z]
      BY <2>1, PowAdd
    <3>3. QED BY <2>1, <3>1, <3>2
  <2>3. pow2[l] * pow2[z] <= y * pow2[z] /\ y * pow2[z] < pow2[l + 1] * pow2[z] /\ y * pow2[z] \in Nat
    BY <1>3, <1>5, <1>6, <2>2, Z3
  <2>4. pow2[m + 3] = 8 * M /\ pow2[m + 4] = 16 * M
    <3>1. m + 3 + 1 = m + 4
      BY <1>2
    <3>2. QED BY <1>2, <3>1
  <2>5. QED BY <2>2, <2>3, <2>4 DEF z
<1>9. S = 8 * y * pow2[shift] /\ S % 8 = 0 /\ S # 0
  <2>1. pow2[shift + 3] = pow2[shift] * 8 /\ pow2[shift] \in Nat
    <3> HIDE DEF shift
    <3>1. pow2[shift + 3] = pow2[shift] * pow2[3]
      BY <1>7, PowAdd
    <3>2. QED BY <1>7, <3>1, PowValues, PowSucc
  <2> DEFINE p == pow2[shift]
  <2> HIDE DEF p
  <2>2. S = y * (p * 8) /\ p \in Nat
    BY <2>1 DEF p
  <2>3. y * (p * 8) = 8 * y * p
    BY <1>3, <2>2, Z3
  <2>4. (8 * (y * p) + 0) % 8 = 0
    <3>1. y * p \in Int
      BY <1>3, <2>2, Z3
    <3>2. QED BY <3>1, DivUnique
  <2>5. 8 * y * p = 8 * (y * p) + 0
    BY <1>3, <2>2, Z3
  <2> HIDE DEF S
  <2>6. S # 0
    BY <1>2, <1>8
  <2>7. QED BY <2>2, <2>3, <2>4, <2>5, <2>6 DEF p
<1>10. S % (16 * M) = S
  <2> DEFINE d == 16 * M
  <2>1. d \in Nat \ {0} /\ S \in 0 .. d - 1 /\ 0 \in Int
    BY <1>2, <1>8
  <2> HIDE DEF d, S
  <2>2. (d * 0 + S) % d = S
    BY <2>1, DivUnique
  <2>3. d * 0 + S = S
    BY <2>1, Z3
  <2>4. QED BY <2>2, <2>3 DEF d
<1>11. u = Unpacked(n, min_exponent(f) - shift, S % (16 * M))
  <2>1. mantissa(f, bits) = y /\ f.mantissa_bits = m /\ leading(y) = l
    BY DEF y, m, l
  <2>2. u = Unpacked(n, min_exponent(f) - shift, S % pow2[scale(f) + 1])
    <3> HIDE DEF n
    <3>1. QED BY <1>1, <2>1 DEF unpack, GUARD_BITS, n
  <2>3. QED BY <1>2, <2>2
<1>12. Ulps(f, bits) = y
  BY <1>1 DEF Ulps, y
<1> HIDE DEF S, u, n, shift, B
<1>13. u.is_negative = n /\ u.exponent = min_exponent(f) - shift /\ u.significand = S
  BY <1>10, <1>11 DEF Unpacked
<1>14. min_exponent(f) \in Int
  BY <1>2
<1>15. u \in UnpackedValues
  BY <1>1, <1>7, <1>8, <1>10, <1>11, <1>14 DEF Unpacked, UnpackedValues
<1>16. u.exponent - min_exponent(f) = -shift /\ -(-shift) = shift
  BY <1>7, <1>13, <1>14
<1>17. Carries(u, y, f)
  <2>1. u.significand = 8 * y * pow2[-(u.exponent - min_exponent(f))]
    BY <1>9, <1>13, <1>16
  <2>2. QED BY <1>2, <1>7, <1>8, <1>9, <1>13, <1>14, <1>16, <2>1 DEF Carries, m
<1>18. QED BY <1>2, <1>8, <1>9, <1>12, <1>13, <1>15, <1>17 DEF u, n

\* unpack of a zero.
LEMMA UnpackZero ==
    ASSUME NEW f \in Formats, NEW bits \in Patterns(f), is_zero(f, bits)
    PROVE  unpack(bits, f) = Unpacked(is_negative(f, bits), 0, 0) /\ Ulps(f, bits) = 0
<1>1. raw_exponent(f, bits) = 0 /\ mantissa(f, bits) = 0
  BY IsZeroIs
<1>2. QED BY <1>1 DEF unpack, UnpackedZero, Ulps

\* What holds of every unpacked operand.
LEMMA UnpackFits ==
    ASSUME NEW f \in Formats, NEW bits \in Patterns(f)
    PROVE  LET u == unpack(bits, f)
           IN  /\ u \in UnpackedValues /\ u.is_negative = is_negative(f, bits)
               /\ u.significand < pow2[scale(f) + 1]
               /\ u.significand = 0 <=> is_zero(f, bits)
               /\ ~is_zero(f, bits) => Carries(u, Ulps(f, bits), f)
<1>1. is_negative(f, bits) \in BOOLEAN
  BY PatternOfFields
<1>2. CASE is_zero(f, bits)
  <2>1. unpack(bits, f) = Unpacked(is_negative(f, bits), 0, 0)
    BY <1>2, UnpackZero
  <2>2. pow2[scale(f) + 1] > 0
    BY Scales
  <2>3. QED BY <1>1, <1>2, <2>1, <2>2 DEF Unpacked, UnpackedValues
<1>3. CASE ~is_zero(f, bits) /\ raw_exponent(f, bits) # 0
  BY <1>3, UnpackNormal
<1>4. CASE ~is_zero(f, bits) /\ raw_exponent(f, bits) = 0
  <2>1. is_subnormal(f, bits)
    BY <1>4, IsZeroIs DEF is_subnormal
  <2>2. QED BY <1>4, <2>1, UnpackSubnormal
<1>5. QED BY <1>2, <1>3, <1>4

(***************************************************************************)
(* What an operation answers: a number, a propagated NaN, or the default   *)
(* NaN of an invalid operation.                                            *)
(***************************************************************************)
Results(f) == [bits : Patterns(f), raised : SUBSET (Losses \cup {"INVALID", "DIVIDE_BY_ZERO"})]

\* What an operation may answer: a number, the default NaN with INVALID, or
\* a quiet NaN of its operands.
AnswersNumber(p, f) ==
    p \in Results(f) /\ ~is_nan(f, p.bits) /\ "INVALID" \notin p.raised

\* An invalid operation's answer.
AnswersInvalid(p, f) ==
    p \in Results(f) /\ p.bits = default_nan(f) /\ "INVALID" \in p.raised

\* The answer to an operand that is a NaN.
AnswersNan(p, a, b, f, c) ==
    /\ p \in Results(f) /\ is_nan(f, p.bits) /\ ~is_signalling_nan(f, p.bits)
    /\ c.default_nan => p.bits = default_nan(f)
    /\ "INVALID" \in p.raised <=> is_signalling_nan(f, a) \/ is_signalling_nan(f, b)

\* A rounded number is one of these answers.
LEMMA NumberAnswers ==
    ASSUME NEW f, NEW n, NEW p, IsRoundedNumber(p, f, n)
    PROVE  AnswersNumber(p, f)
<1>1. p \in [bits : Patterns(f), raised : SUBSET Losses] /\ ~is_nan(f, p.bits)
  BY DEF IsRoundedNumber
<1>2. p.raised \subseteq Losses /\ "INVALID" \notin Losses
  BY <1>1 DEF Losses
<1>3. p \in Results(f)
  BY <1>1 DEF Results
<1>4. QED BY <1>1, <1>2, <1>3 DEF AnswersNumber

\* So is an operand returned as it is.
LEMMA ExactAnswers ==
    ASSUME NEW f, NEW b \in Patterns(f), ~is_nan(f, b)
    PROVE  AnswersNumber(Exact(b), f) /\ AnswersNumber(Raising(b, {"DIVIDE_BY_ZERO"}), f)
  BY DEF AnswersNumber, Results, Exact, Raising

\* invalid_operation answers the default NaN.
LEMMA InvalidAnswers ==
    ASSUME NEW f \in Formats
    PROVE  AnswersInvalid(invalid_operation(f), f)
<1>1. default_nan(f) \in Patterns(f)
  BY DefaultNanIsNan
<1>2. QED BY <1>1 DEF AnswersInvalid, Results, invalid_operation, Raising

\* propagate answers a quiet NaN.
LEMMA PropagateAnswers ==
    ASSUME NEW f \in Formats, NEW a \in Patterns(f), NEW b \in Patterns(f), NEW c,
           is_nan(f, a) \/ is_nan(f, b)
    PROVE  AnswersNan(propagate(<<a, b>>, f, c), a, b, f, c)
<1> DEFINE p == propagate(<<a, b>>, f, c)
<1>1. /\ p.bits \in Patterns(f) /\ is_nan(f, p.bits) /\ ~is_signalling_nan(f, p.bits)
      /\ c.default_nan => p.bits = default_nan(f)
      /\ p.raised = IF is_signalling_nan(f, a) \/ is_signalling_nan(f, b) THEN {"INVALID"} ELSE {}
  BY PropagatePair
<1>2. p = [bits |-> p.bits, raised |-> p.raised]
  BY DEF propagate, Raising
<1> HIDE DEF p
<1>3. p \in Results(f)
  BY <1>1, <1>2 DEF Results
<1>4. QED BY <1>1, <1>3 DEF AnswersNan, p

(***************************************************************************)
(* Addition.                                                               *)
(***************************************************************************)
\* A finite operand is zero or normalised.
IsOperand(u, f) ==
    /\ u \in UnpackedValues /\ u.significand < pow2[scale(f) + 1]
    /\ u.significand # 0 => pow2[scale(f)] <= u.significand

\* Every unpacked pattern is an operand of the arithmetic.
LEMMA UnpackIsOperand ==
    ASSUME NEW f \in Formats, NEW bits \in Patterns(f)
    PROVE  IsOperand(unpack(bits, f), f)
  BY UnpackFits DEF IsOperand, Carries

\* Aligning the smaller operand leaves no more than the larger one, borrow
\* included: subtract_aligned does not wrap.
LEMMA AlignedFits ==
    ASSUME NEW f \in Formats, NEW a, NEW b, IsOperand(a, f), IsOperand(b, f),
           a.significand # 0, b.significand # 0, is_larger(a, b)
    PROVE  LET s == shift_right(b.significand, a.exponent - b.exponent, WORD)
           IN  /\ s.kept \in Nat /\ s.lost \in BOOLEAN /\ s.kept <= b.significand
               /\ a.significand - s.kept - (IF s.lost THEN 1 ELSE 0) \in Nat
<1> DEFINE A == a.significand
           B == b.significand
           d == a.exponent - b.exponent
           s == shift_right(B, d, WORD)
           M == pow2[f.mantissa_bits]
<1>1. A \in Nat /\ B \in Nat /\ d \in Int /\ a.exponent \in Int /\ b.exponent \in Int
  BY DEF IsOperand, UnpackedValues
<1>2. M \in Nat \ {0} /\ pow2[scale(f)] = 8 * M /\ pow2[scale(f) + 1] = 16 * M /\ WORD \in Nat
  BY Scales
<1>3. 8 * M <= A /\ A < 16 * M /\ 8 * M <= B /\ B < 16 * M
  BY <1>2 DEF IsOperand
<1>4. d \in Nat /\ (d = 0 => A >= B)
  BY <1>1 DEF is_larger
<1> HIDE DEF A, B, d, M
<1>5. /\ s.kept \in Nat /\ s.kept <= B /\ s.lost \in BOOLEAN
      /\ d < WORD => s.kept = B \div pow2[d] /\ s.lost = (B % pow2[d] # 0)
      /\ ~(d < WORD) => s.kept = 0
  BY <1>1, <1>2, <1>4, ShiftRightIs
<1> HIDE DEF s
<1>6. A - s.kept - (IF s.lost THEN 1 ELSE 0) \in Nat
  <2>1. CASE d = 0
    <3>1. 0 < WORD
      BY <1>2, Scales
    <3>2. B % 1 = 0
      BY <1>1
    <3>3. ~s.lost
      BY <1>5, <2>1, <3>1, <3>2, PowValues
    <3>4. QED BY <1>1, <1>4, <1>5, <2>1, <3>3
  <2>2. CASE d # 0 /\ d < WORD
    <3>1. pow2[d] \in Nat \ {0} /\ pow2[d] >= 2
      BY <1>4, <2>2, PowSucc, PowMono, PowValues
    <3>2. B < pow2[d] * (8 * M)
      <4> DEFINE p == pow2[d]
      <4> HIDE DEF p
      <4>1. p \in Nat /\ p >= 2
        BY <3>1 DEF p
      <4>2. p * (8 * M) >= 2 * (8 * M) /\ p * (8 * M) \in Int
        BY <1>2, <4>1, Z3
      <4>3. QED BY <1>1, <1>2, <1>3, <4>2 DEF p
    <3>3. B \div pow2[d] < 8 * M
      <4>1. 8 * M \in Int
        BY <1>2
      <4>2. QED BY <1>1, <3>1, <3>2, <4>1, DivBelow
    <3>4. QED BY <1>1, <1>2, <1>3, <1>5, <2>2, <3>3
  <2>3. CASE ~(d < WORD)
    BY <1>1, <1>2, <1>3, <1>5, <2>3
  <2>4. QED BY <2>1, <2>2, <2>3
<1>7. QED BY <1>5, <1>6 DEF s, A, B, d

\* A u128 holds the product of two significands.
LEMMA WordHolds ==
    ASSUME NEW f \in Formats
    PROVE  pow2[2 * WORD + 1] \in Nat
           /\ 32 * pow2[f.mantissa_bits] <= pow2[2 * WORD + 1]
           /\ (16 * pow2[f.mantissa_bits]) * (16 * pow2[f.mantissa_bits]) <= pow2[2 * WORD + 1]
<1> DEFINE m == f.mantissa_bits
           M == pow2[m]
<1>1. m \in Nat /\ WORD \in Nat /\ m + 5 <= WORD /\ M \in Nat \ {0}
  BY Scales, FormatAssumption
<1> HIDE DEF m
<1>2. pow2[m + 4] = M * 16
  <2>1. pow2[m + 4] = M * pow2[4]
    BY <1>1, PowAdd
  <2>2. QED BY <2>1, PowValues
<1>3. pow2[(m + 4) + (m + 4)] = (M * 16) * (M * 16)
  <2>1. m + 4 \in Nat
    BY <1>1
  <2>2. QED BY <1>2, <2>1, PowAdd
<1>4. (m + 4) + (m + 4) \in Nat /\ 2 * WORD + 1 \in Nat /\ (m + 4) + (m + 4) <= 2 * WORD + 1
  BY <1>1
<1>5. pow2[2 * WORD + 1] \in Nat /\ pow2[(m + 4) + (m + 4)] <= pow2[2 * WORD + 1]
  BY <1>4, PowSucc, PowMono
<1> HIDE DEF M
<1>6. M * 16 = 16 * M /\ 32 * M <= (M * 16) * (M * 16) /\ (M * 16) * (M * 16) \in Int
  BY <1>1, Z3
<1>7. QED BY <1>1, <1>3, <1>5, <1>6 DEF m, M

\* The sum of two operands fits a register.
LEMMA AddFiniteFits ==
    ASSUME NEW f \in Formats, NEW a, NEW b, IsOperand(a, f), IsOperand(b, f), NEW r
    PROVE  LET s == add_finite(a, b, r)
           IN  s.value \in UnpackedValues /\ s.sticky \in BOOLEAN
               /\ s.value.significand < pow2[2 * WORD + 1]
<1> DEFINE M == pow2[f.mantissa_bits]
           s == add_finite(a, b, r)
           W == pow2[2 * WORD + 1]
<1>1. W \in Nat /\ 32 * M <= W /\ M \in Nat \ {0} /\ pow2[scale(f) + 1] = 16 * M
  BY WordHolds, Scales
<1>2. a \in UnpackedValues /\ b \in UnpackedValues /\ a.significand < 16 * M /\ b.significand < 16 * M
      /\ a.significand \in Nat /\ b.significand \in Nat /\ a.is_negative \in BOOLEAN /\ b.is_negative \in BOOLEAN
      /\ a.exponent \in Int /\ b.exponent \in Int
  BY <1>1 DEF IsOperand, UnpackedValues
<1> HIDE DEF W, M
<1>3. CASE a.significand = 0 \/ b.significand = 0
  <2>1. \/ s = [value |-> a, sticky |-> FALSE] \/ s = [value |-> b, sticky |-> FALSE]
        \/ \E n \in BOOLEAN : s = [value |-> Unpacked(n, 0, 0), sticky |-> FALSE]
    <3>1. (r = "Minus") \in BOOLEAN
      OBVIOUS
    <3>2. QED BY <1>2, <1>3, <3>1 DEF add_finite, UnpackedZero
  <2>2. \A n \in BOOLEAN : Unpacked(n, 0, 0) \in UnpackedValues /\ Unpacked(n, 0, 0).significand = 0
    BY DEF Unpacked, UnpackedValues
  <2> HIDE DEF s
  <2>3. PICK u \in UnpackedValues : s = [value |-> u, sticky |-> FALSE] /\ u.significand < 16 * M
    <3>1. 0 < 16 * M
      BY <1>1
    <3>2. CASE \E n \in BOOLEAN : s = [value |-> Unpacked(n, 0, 0), sticky |-> FALSE]
      BY <2>2, <3>1, <3>2
    <3>3. CASE s = [value |-> a, sticky |-> FALSE]
      BY <1>2, <3>3
    <3>4. CASE s = [value |-> b, sticky |-> FALSE]
      BY <1>2, <3>4
    <3>5. QED BY <2>1, <3>2, <3>3, <3>4
  <2>4. s.value = u /\ s.sticky \in BOOLEAN /\ u.significand < W
    BY <1>1, <2>3 DEF UnpackedValues
  <2>5. QED BY <2>4 DEF s, W
<1>4. CASE a.significand # 0 /\ b.significand # 0
  <2>1. PICK L, l : /\ IsOperand(L, f) /\ IsOperand(l, f) /\ L.significand # 0 /\ l.significand # 0
                    /\ is_larger(L, l) /\ {L, l} = {a, b}
                    /\ L = (IF is_larger(a, b) THEN a ELSE b)
                    /\ l = (IF is_larger(a, b) THEN b ELSE a)
    <3>1. is_larger(a, b) \/ is_larger(b, a)
      BY <1>2 DEF is_larger
    <3>2. QED BY <1>4, <3>1
  <2> DEFINE t == shift_right(l.significand, L.exponent - l.exponent, WORD)
             D == L.significand - t.kept - (IF t.lost THEN 1 ELSE 0)
             A == L.significand + t.kept
  <2>2. t.kept \in Nat /\ t.lost \in BOOLEAN /\ t.kept <= l.significand /\ D \in Nat
    BY <2>1, AlignedFits
  <2>3. L \in UnpackedValues /\ L.significand \in Nat /\ L.significand < 16 * M
        /\ l.significand \in Nat /\ l.significand < 16 * M /\ L.is_negative \in BOOLEAN /\ L.exponent \in Int
    BY <1>2, <2>1
  <2>4. \/ s = [value |-> [L EXCEPT !.significand = L.significand + t.kept], sticky |-> t.lost]
        \/ s = subtract_aligned(L, t, r)
    BY <1>4, <2>1 DEF add_finite
  <2>5. \/ s = [value |-> [L EXCEPT !.significand = A], sticky |-> t.lost]
        \/ s = [value |-> UnpackedZero(r = "Minus"), sticky |-> FALSE]
        \/ s = [value |-> [L EXCEPT !.significand = D], sticky |-> t.lost]
    BY <2>4 DEF subtract_aligned
  <2>6. A \in Nat /\ A < W /\ D < W
    <3> HIDE DEF t
    <3>1. QED BY <1>1, <2>2, <2>3
  <2> HIDE DEF A, D, t, s
  <2>7. [L EXCEPT !.significand = A] = Unpacked(L.is_negative, L.exponent, A)
        /\ [L EXCEPT !.significand = D] = Unpacked(L.is_negative, L.exponent, D)
    BY <2>2, <2>3, <2>6, UnpackedUpdate
  <2>8. ASSUME NEW x \in Nat, x < W, NEW n \in BOOLEAN, NEW e \in Int, NEW k \in BOOLEAN,
               s = [value |-> Unpacked(n, e, x), sticky |-> k]
        PROVE  s.value \in UnpackedValues /\ s.sticky \in BOOLEAN /\ s.value.significand < W
    BY <2>8 DEF Unpacked, UnpackedValues
  <2>9. CASE s = [value |-> [L EXCEPT !.significand = A], sticky |-> t.lost]
    BY <2>2, <2>3, <2>6, <2>7, <2>8, <2>9 DEF s, W
  <2>10. CASE s = [value |-> UnpackedZero(r = "Minus"), sticky |-> FALSE]
    <3>1. 0 \in Nat /\ 0 < W /\ 0 \in Int /\ (r = "Minus") \in BOOLEAN
      BY <1>1, <2>6
    <3>2. PICK k \in BOOLEAN : s.value = [is_negative |-> k, exponent |-> 0, significand |-> 0]
      BY <2>10 DEF UnpackedZero, Unpacked
    <3>3. s.value \in UnpackedValues /\ s.value.significand = 0 /\ s.sticky \in BOOLEAN
      BY <2>10, <3>2 DEF UnpackedValues
    <3>4. QED BY <3>1, <3>3 DEF s, W
  <2>11. CASE s = [value |-> [L EXCEPT !.significand = D], sticky |-> t.lost]
    BY <2>2, <2>3, <2>6, <2>7, <2>8, <2>11 DEF s, W
  <2>12. QED BY <2>5, <2>9, <2>10, <2>11
<1>5. QED BY <1>3, <1>4

\* add, once flush_input and the sign of a subtraction are behind it.
added(a, b, f, r, c) ==
    LET sum == add_finite(unpack(a, f), unpack(b, f), r)
    IN  IF any_nan(<<a, b>>, f) THEN propagate(<<a, b>>, f, c)
        ELSE IF is_infinite(f, a) \/ is_infinite(f, b) THEN add_infinities(a, b, f)
        ELSE round_and_pack(sum.value, sum.sticky, f, r, c)

\* What is said of an operation's answer, given when it is invalid.
Accounted(p, a, b, invalid, f, c) ==
    /\ is_nan(f, a) \/ is_nan(f, b) => AnswersNan(p, a, b, f, c)
    /\ ~(is_nan(f, a) \/ is_nan(f, b)) /\ invalid => AnswersInvalid(p, f)
    /\ ~(is_nan(f, a) \/ is_nan(f, b)) /\ ~invalid => AnswersNumber(p, f)

\* The answer of add to its operands is accounted for.
LEMMA AddedAccounted ==
    ASSUME NEW f \in Formats, NEW a \in Patterns(f), NEW b \in Patterns(f), NEW r, NEW c,
           NEW invalid \in BOOLEAN,
           invalid = (is_infinite(f, a) /\ is_infinite(f, b) /\ is_negative(f, a) # is_negative(f, b))
    PROVE  Accounted(added(a, b, f, r, c), a, b, invalid, f, c)
<1> DEFINE p == added(a, b, f, r, c)
<1>1. CASE is_nan(f, a) \/ is_nan(f, b)
  <2>1. p = propagate(<<a, b>>, f, c)
    BY <1>1, PairOfOperands DEF added
  <2>2. QED BY <1>1, <2>1, PropagateAnswers DEF Accounted
<1>2. CASE ~(is_nan(f, a) \/ is_nan(f, b)) /\ (is_infinite(f, a) \/ is_infinite(f, b))
  <2>1. p = add_infinities(a, b, f)
    BY <1>2, PairOfOperands DEF added
  <2>2. CASE invalid
    <3>1. p = invalid_operation(f)
      BY <2>1, <2>2 DEF add_infinities
    <3>2. QED BY <1>2, <2>2, <3>1, InvalidAnswers DEF Accounted
  <2>3. CASE ~invalid
    <3>1. p = Exact(a) \/ p = Exact(b)
      BY <2>1, <2>3 DEF add_infinities
    <3>2. AnswersNumber(Exact(a), f) /\ AnswersNumber(Exact(b), f)
      BY <1>2, ExactAnswers
    <3>3. QED BY <1>2, <2>3, <3>1, <3>2 DEF Accounted
  <2>4. QED BY <2>2, <2>3
<1>3. CASE ~(is_nan(f, a) \/ is_nan(f, b)) /\ ~(is_infinite(f, a) \/ is_infinite(f, b))
  <2> DEFINE s == add_finite(unpack(a, f), unpack(b, f), r)
  <2>1. p = round_and_pack(s.value, s.sticky, f, r, c)
    BY <1>3, PairOfOperands DEF added
  <2>2. s.value \in UnpackedValues /\ s.sticky \in BOOLEAN /\ s.value.significand < pow2[2 * WORD + 1]
    BY UnpackIsOperand, AddFiniteFits
  <2> HIDE DEF s
  <2>3. IsRoundedNumber(round_and_pack(s.value, s.sticky, f, r, c), f, s.value.is_negative)
    BY <2>2, RoundAndPackIsNumber
  <2>4. AnswersNumber(p, f)
    BY <2>1, <2>3, NumberAnswers
  <2>5. ~invalid
    BY <1>3
  <2>6. QED BY <1>3, <2>4, <2>5 DEF Accounted
<1>4. QED BY <1>1, <1>2, <1>3

\* multiply and divide after the operands are flushed.
multiplied(lhs_bits, rhs_bits, f, r, c) ==
    LET negative == is_negative(f, lhs_bits) # is_negative(f, rhs_bits)
        infinite == is_infinite(f, lhs_bits) \/ is_infinite(f, rhs_bits)
        null     == is_zero(f, lhs_bits) \/ is_zero(f, rhs_bits)
        a        == unpack(lhs_bits, f)
        b        == unpack(rhs_bits, f)
        product  == shift_right(a.significand * b.significand, scale(f), 2 * WORD)
    IN  IF any_nan(<<lhs_bits, rhs_bits>>, f) THEN propagate(<<lhs_bits, rhs_bits>>, f, c)
        ELSE IF infinite /\ null THEN invalid_operation(f)
        ELSE IF infinite THEN Exact(signed_infinity(f, negative))
        ELSE IF null THEN Exact(zero(f, negative))
        ELSE round_and_pack(Unpacked(negative, a.exponent + b.exponent, product.kept),
                            product.lost, f, r, c)

\* The fields of an unpacked value.
LEMMA UnpackedIs ==
    ASSUME NEW n \in BOOLEAN, NEW e \in Int, NEW S \in Nat
    PROVE  /\ Unpacked(n, e, S) \in UnpackedValues
           /\ Unpacked(n, e, S).is_negative = n /\ Unpacked(n, e, S).exponent = e
           /\ Unpacked(n, e, S).significand = S
  BY DEF Unpacked, UnpackedValues

\* The answer of multiply is accounted for.
LEMMA MultipliedAccounted ==
    ASSUME NEW f \in Formats, NEW x \in Patterns(f), NEW y \in Patterns(f), NEW r, NEW c,
           NEW invalid \in BOOLEAN,
           invalid = ((is_infinite(f, x) /\ is_zero(f, y)) \/ (is_zero(f, x) /\ is_infinite(f, y)))
    PROVE  Accounted(multiplied(x, y, f, r, c), x, y, invalid, f, c)
<1> DEFINE p == multiplied(x, y, f, r, c)
           infinite == is_infinite(f, x) \/ is_infinite(f, y)
           null == is_zero(f, x) \/ is_zero(f, y)
<1>0. PICK n \in BOOLEAN : n = (is_negative(f, x) # is_negative(f, y))
  OBVIOUS
<1>1. \A z \in Patterns(f) : ~(is_infinite(f, z) /\ is_zero(f, z))
  <2>1. max_exponent(f) # 0
    BY FormatSizes DEF Sizes
  <2>2. QED BY <2>1, IsZeroIs DEF is_infinite
<1>2. CASE is_nan(f, x) \/ is_nan(f, y)
  <2>1. p = propagate(<<x, y>>, f, c)
    BY <1>2, PairOfOperands DEF multiplied
  <2>2. QED BY <1>2, <2>1, PropagateAnswers DEF Accounted
<1>3. CASE ~(is_nan(f, x) \/ is_nan(f, y)) /\ infinite /\ null
  <2>1. p = invalid_operation(f)
    BY <1>3, PairOfOperands DEF multiplied
  <2>2. invalid
    BY <1>1, <1>3
  <2>3. QED BY <1>3, <2>1, <2>2, InvalidAnswers DEF Accounted
<1>4. CASE ~(is_nan(f, x) \/ is_nan(f, y)) /\ infinite /\ ~null
  <2>1. p = Exact(signed_infinity(f, n))
    BY <1>0, <1>4, PairOfOperands DEF multiplied
  <2>2. AnswersNumber(Exact(signed_infinity(f, n)), f)
    BY InfinityIsInfinite, ExactAnswers
  <2>3. ~invalid
    BY <1>4
  <2>4. QED BY <1>4, <2>1, <2>2, <2>3 DEF Accounted
<1>5. CASE ~(is_nan(f, x) \/ is_nan(f, y)) /\ ~infinite /\ null
  <2>1. p = Exact(zero(f, n))
    BY <1>0, <1>5, PairOfOperands DEF multiplied
  <2>2. AnswersNumber(Exact(zero(f, n)), f)
    BY ZeroIsZero, ExactAnswers
  <2>3. ~invalid
    BY <1>5
  <2>4. QED BY <1>5, <2>1, <2>2, <2>3 DEF Accounted
<1>6. CASE ~(is_nan(f, x) \/ is_nan(f, y)) /\ ~infinite /\ ~null
  <2> DEFINE a == unpack(x, f)
             b == unpack(y, f)
             s == shift_right(a.significand * b.significand, scale(f), 2 * WORD)
             M == pow2[f.mantissa_bits]
             W == pow2[2 * WORD + 1]
             e == a.exponent + b.exponent
  <2>1. p = round_and_pack(Unpacked(n, e, s.kept), s.lost, f, r, c)
    BY <1>0, <1>6, PairOfOperands DEF multiplied
  <2>2. /\ a.significand \in Nat /\ b.significand \in Nat /\ a.exponent \in Int /\ b.exponent \in Int
        /\ a.significand < 16 * M /\ b.significand < 16 * M
    BY UnpackFits, Scales DEF UnpackedValues
  <2> HIDE DEF a, b
  <2>3. M \in Nat /\ W \in Nat /\ (16 * M) * (16 * M) <= W /\ scale(f) \in Nat /\ 2 * WORD \in Nat
    BY WordHolds, Scales
  <2> HIDE DEF M, W
  <2>4. s.kept \in Nat /\ s.lost \in BOOLEAN /\ s.kept < W
    <3> DEFINE q == a.significand * b.significand
    <3>1. q \in Nat /\ q <= (16 * M) * (16 * M) - 1
      <4> DEFINE A == a.significand
                 B == b.significand
                 N == 16 * M
      <4>1. A \in Nat /\ B \in Nat /\ N \in Nat /\ A <= N - 1 /\ B <= N - 1
        BY <2>2, <2>3
      <4> HIDE DEF A, B, N
      <4>2. A * B \in Nat /\ A * B <= (N - 1) * (N - 1)
        BY <4>1, Z3
      <4>3. (N - 1) * (N - 1) <= N * N - 1
        BY <4>1, Z3
      <4>4. A * B <= N * N - 1
        BY <4>1, <4>2, <4>3, Z3
      <4>5. QED BY <4>2, <4>4 DEF A, B, N
    <3> HIDE DEF q
    <3>2. LET z == shift_right(q, scale(f), 2 * WORD) IN z.kept \in Nat /\ z.lost \in BOOLEAN /\ z.kept <= q
      <4> DEFINE w == 2 * WORD
      <4>1. w \in Nat
        BY <2>3
      <4> HIDE DEF w
      <4>2. LET z == shift_right(q, scale(f), w) IN z.kept \in Nat /\ z.lost \in BOOLEAN /\ z.kept <= q
        BY <2>3, <3>1, <4>1, ShiftRightIs
      <4>3. QED BY <4>2 DEF w
    <3>3. s = shift_right(q, scale(f), 2 * WORD)
      BY DEF q
    <3> HIDE DEF s
    <3>4. (16 * M) * (16 * M) \in Int
      BY <2>3, Z3
    <3>5. QED BY <2>3, <3>1, <3>2, <3>3, <3>4
  <2> HIDE DEF s, e
  <2>5. e \in Int
    BY <2>2 DEF e
  <2> DEFINE v == Unpacked(n, e, s.kept)
  <2>6. v \in UnpackedValues /\ v.significand = s.kept
    BY <2>4, <2>5, UnpackedIs
  <2> HIDE DEF v
  <2>7. IsRoundedNumber(round_and_pack(v, s.lost, f, r, c), f, v.is_negative)
    BY <2>4, <2>6, RoundAndPackIsNumber DEF W
  <2>8. AnswersNumber(p, f)
    BY <2>1, <2>7, NumberAnswers DEF v
  <2>9. ~invalid
    BY <1>6
  <2>10. QED BY <1>6, <2>8, <2>9 DEF Accounted
<1>7. QED BY <1>2, <1>3, <1>4, <1>5, <1>6

\* divide after its guards, as one step.
divided(lhs_bits, rhs_bits, f, r, c) ==
    LET negative  == is_negative(f, lhs_bits) # is_negative(f, rhs_bits)
        special   == \E x \in {lhs_bits, rhs_bits} : is_infinite(f, x) \/ is_zero(f, x)
        a         == unpack(lhs_bits, f)
        b         == unpack(rhs_bits, f)
        numerator == a.significand * pow2[scale(f)]
    IN  IF any_nan(<<lhs_bits, rhs_bits>>, f) THEN propagate(<<lhs_bits, rhs_bits>>, f, c)
        ELSE IF special THEN divide_specials(lhs_bits, rhs_bits, negative, f)
        ELSE round_and_pack(Unpacked(negative, a.exponent - b.exponent,
                                     numerator \div b.significand),
                            numerator % b.significand # 0, f, r, c)

\* The answer of divide is accounted for.
LEMMA DividedAccounted ==
    ASSUME NEW f \in Formats, NEW x \in Patterns(f), NEW y \in Patterns(f), NEW r, NEW c,
           NEW invalid \in BOOLEAN,
           invalid = ((is_infinite(f, x) /\ is_infinite(f, y)) \/ (is_zero(f, x) /\ is_zero(f, y)))
    PROVE  Accounted(divided(x, y, f, r, c), x, y, invalid, f, c)
<1> DEFINE p == divided(x, y, f, r, c)
           special == \E z \in {x, y} : is_infinite(f, z) \/ is_zero(f, z)
<1>0. PICK n \in BOOLEAN : n = (is_negative(f, x) # is_negative(f, y))
  OBVIOUS
<1>2. CASE is_nan(f, x) \/ is_nan(f, y)
  <2>1. p = propagate(<<x, y>>, f, c)
    BY <1>2, PairOfOperands DEF divided
  <2>2. QED BY <1>2, <2>1, PropagateAnswers DEF Accounted
<1>3. CASE ~(is_nan(f, x) \/ is_nan(f, y)) /\ special
  <2>1. p = divide_specials(x, y, n, f)
    BY <1>0, <1>3, PairOfOperands DEF divided
  <2>2. CASE invalid
    <3>1. p = invalid_operation(f)
      BY <2>1, <2>2 DEF divide_specials
    <3>2. QED BY <1>3, <2>2, <3>1, InvalidAnswers DEF Accounted
  <2>3. CASE ~invalid
    <3>1. \/ p = Exact(signed_infinity(f, n)) \/ p = Exact(zero(f, n))
          \/ p = Raising(signed_infinity(f, n), {"DIVIDE_BY_ZERO"})
      BY <2>1, <2>3 DEF divide_specials
    <3>2. AnswersNumber(Exact(signed_infinity(f, n)), f) /\ AnswersNumber(Exact(zero(f, n)), f)
          /\ AnswersNumber(Raising(signed_infinity(f, n), {"DIVIDE_BY_ZERO"}), f)
      BY InfinityIsInfinite, ZeroIsZero, ExactAnswers
    <3>3. QED BY <1>3, <2>3, <3>1, <3>2 DEF Accounted
  <2>4. QED BY <2>2, <2>3
<1>4. CASE ~(is_nan(f, x) \/ is_nan(f, y)) /\ ~special
  <2> DEFINE a == unpack(x, f)
             b == unpack(y, f)
             B == b.significand
             N == a.significand * pow2[scale(f)]
             M == pow2[f.mantissa_bits]
             W == pow2[2 * WORD + 1]
             e == a.exponent - b.exponent
  <2>0. PICK t \in BOOLEAN : t = (N % B # 0)
    OBVIOUS
  <2>1. p = round_and_pack(Unpacked(n, e, N \div B), t, f, r, c)
    BY <1>0, <1>4, <2>0, PairOfOperands DEF divided
  <2>2. /\ a.significand \in Nat /\ B \in Nat \ {0} /\ a.exponent \in Int /\ b.exponent \in Int
        /\ a.significand < 16 * M /\ pow2[scale(f)] = 8 * M
    BY <1>4, UnpackFits, Scales DEF UnpackedValues
  <2> HIDE DEF a, b, B
  <2>3. M \in Nat \ {0} /\ W \in Nat /\ (16 * M) * (16 * M) <= W
    BY WordHolds, Scales
  <2> HIDE DEF M, W
  <2>4. N \in Nat /\ N < W
    <3> DEFINE A == a.significand
    <3>1. A \in Nat /\ A <= 16 * M /\ N = A * (8 * M)
      BY <2>2, <2>3
    <3> HIDE DEF A, N
    <3>2. A * (8 * M) \in Nat /\ A * (8 * M) <= (16 * M) * (8 * M)
      BY <2>3, <3>1, Z3
    <3>3. (16 * M) * (8 * M) < (16 * M) * (16 * M) /\ (16 * M) * (8 * M) \in Int /\ (16 * M) * (16 * M) \in Int
      BY <2>3, Z3
    <3>4. QED BY <2>3, <3>1, <3>2, <3>3
  <2> HIDE DEF N, e
  <2>5. e \in Int /\ N \div B \in Nat /\ N \div B < W
    <3>1. N \div B \in Nat /\ N \div B <= N
      BY <2>2, <2>4, DivAtMost
    <3>2. QED BY <2>2, <2>3, <2>4, <3>1 DEF e
  <2> DEFINE q == N \div B
             v == Unpacked(n, e, q)
  <2> HIDE DEF q
  <2>6. v \in UnpackedValues /\ v.significand < W
    BY <2>5, UnpackedIs DEF q
  <2> HIDE DEF v
  <2>7. IsRoundedNumber(round_and_pack(v, t, f, r, c), f, v.is_negative)
    BY <2>0, <2>6, RoundAndPackIsNumber DEF W
  <2>8. AnswersNumber(p, f)
    BY <2>1, <2>7, NumberAnswers DEF v, q
  <2>9. ~invalid
    BY <1>4
  <2>10. QED BY <1>4, <2>8, <2>9 DEF Accounted
<1>5. QED BY <1>2, <1>3, <1>4

\* The answer of FMAX and FMIN is accounted for.
LEMMA ExtremumAccounted ==
    ASSUME NEW f \in Formats, NEW x \in Patterns(f), NEW y \in Patterns(f), NEW c,
           NEW which \in {"Max", "Min"}, NEW invalid \in BOOLEAN, ~invalid
    PROVE  Accounted(extremum(x, y, which, f, c), x, y, invalid, f, c)
<1> DEFINE p == extremum(x, y, which, f, c)
<1>1. ~ignores_quiet_nan(which)
  BY DEF ignores_quiet_nan
<1>2. CASE is_nan(f, x) \/ is_nan(f, y)
  <2>1. p = propagate(<<x, y>>, f, c)
    BY <1>1, <1>2, PairOfOperands DEF extremum
  <2>2. QED BY <1>2, <2>1, PropagateAnswers DEF Accounted
<1>3. CASE ~(is_nan(f, x) \/ is_nan(f, y))
  <2>1. PICK n \in BOOLEAN : n = IF is_maximum(which) THEN is_negative(f, x) /\ is_negative(f, y)
                                 ELSE is_negative(f, x) \/ is_negative(f, y)
    BY PatternOfFields
  <2>2. p = Exact(zero(f, n)) \/ p = Exact(x) \/ p = Exact(y)
    BY <1>1, <1>3, <2>1, PairOfOperands DEF extremum
  <2>3. AnswersNumber(Exact(zero(f, n)), f) /\ AnswersNumber(Exact(x), f) /\ AnswersNumber(Exact(y), f)
    BY <1>3, ZeroIsZero, ExactAnswers
  <2>4. QED BY <1>3, <2>2, <2>3 DEF Accounted
<1>4. QED BY <1>2, <1>3

(***************************************************************************)
(* The order of the patterns is the order of the values.                   *)
(***************************************************************************)
LEMMA TimesSucc ==
    ASSUME NEW p \in Int, NEW q \in Int
    PROVE  (p + 1) * q = p * q + q /\ p * q \in Int
  BY Z3

\* Products are monotone,
LEMMA TimesMono ==
    ASSUME NEW p \in Int, NEW q \in Int, p <= q, NEW k \in Nat
    PROVE  p * k <= q * k /\ k * p <= k * q
  BY Z3

\* strictly so for a positive factor,
LEMMA TimesStrict ==
    ASSUME NEW p \in Int, NEW q \in Int, p < q, NEW k \in Nat \ {0}
    PROVE  p * k < q * k /\ k * p < k * q
  BY Z3

\* and keep the signs.
LEMMA TimesTyped ==
    ASSUME NEW p \in Int, NEW q \in Int
    PROVE  /\ p * q \in Int /\ p * q = q * p
           /\ p >= 0 /\ q >= 0 => p * q >= 0
           /\ p > 0 /\ q > 0 => p * q > 0
  BY Z3

\* The magnitude of a pattern by its fields.
LEMMA UlpsIs ==
    ASSUME NEW f \in Formats, NEW e \in 0 .. max_exponent(f), NEW y \in 0 .. pow2[f.mantissa_bits] - 1,
           NEW b, raw_exponent(f, b) = e, mantissa(f, b) = y
    PROVE  /\ Ulps(f, b) \in Nat
           /\ e = 0 => Ulps(f, b) = y
           /\ e # 0 => /\ e - 1 \in Nat /\ pow2[e - 1] \in Nat \ {0}
                       /\ Ulps(f, b) = (y + pow2[f.mantissa_bits]) * pow2[e - 1]
<1>1. pow2[f.mantissa_bits] \in Nat \ {0} /\ max_exponent(f) \in Nat
  BY FormatSizes DEF Sizes
<1>2. CASE e = 0
  BY <1>1, <1>2 DEF Ulps
<1>3. CASE e # 0
  <2>1. e - 1 \in Nat
    BY <1>1, <1>3
  <2>2. pow2[e - 1] \in Nat \ {0}
    BY <2>1, PowSucc
  <2>3. Ulps(f, b) = (y + pow2[f.mantissa_bits]) * pow2[e - 1]
    BY <1>3 DEF Ulps
  <2>4. y + pow2[f.mantissa_bits] \in Nat
    BY <1>1
  <2>5. (y + pow2[f.mantissa_bits]) * pow2[e - 1] \in Nat
    BY <2>2, <2>4, Z3
  <2>6. QED BY <1>3, <2>1, <2>2, <2>3, <2>5
<1>4. QED BY <1>2, <1>3

\* A larger pair of fields is a larger magnitude.
LEMMA UlpsIncrease ==
    ASSUME NEW f \in Formats, NEW M, M = pow2[f.mantissa_bits],
           NEW d \in 0 .. max_exponent(f), NEW x \in 0 .. M - 1,
           NEW e \in 0 .. max_exponent(f), NEW y \in 0 .. M - 1,
           d * M + x < e * M + y,
           NEW a, raw_exponent(f, a) = d, mantissa(f, a) = x,
           NEW b, raw_exponent(f, b) = e, mantissa(f, b) = y
    PROVE  Ulps(f, a) < Ulps(f, b)
<1>1. M \in Nat \ {0} /\ max_exponent(f) \in Nat
  BY FormatSizes DEF Sizes
<1>2. d \in Nat /\ e \in Nat /\ x \in Nat /\ y \in Nat /\ x < M /\ y < M
  BY <1>1
<1>3. /\ Ulps(f, a) \in Nat
      /\ d = 0 => Ulps(f, a) = x
      /\ d # 0 => d - 1 \in Nat /\ pow2[d - 1] \in Nat \ {0} /\ Ulps(f, a) = (x + M) * pow2[d - 1]
  BY UlpsIs
<1>4. /\ Ulps(f, b) \in Nat
      /\ e = 0 => Ulps(f, b) = y
      /\ e # 0 => e - 1 \in Nat /\ pow2[e - 1] \in Nat \ {0} /\ Ulps(f, b) = (y + M) * pow2[e - 1]
  BY UlpsIs
<1>5. d <= e
  <2>1. SUFFICES ASSUME d > e PROVE FALSE
    BY <1>2
  <2>2. d * M >= (e + 1) * M
    BY <1>1, <1>2, <2>1, Z3
  <2>3. (e + 1) * M = e * M + M /\ e * M \in Int /\ d * M \in Int
    BY <1>1, <1>2, TimesSucc
  <2>4. QED BY <1>1, <1>2, <2>2, <2>3
<1>6. CASE d = e
  <2>1. x < y
    <3>1. e * M \in Int
      BY <1>1, <1>2, Z3
    <3>2. QED BY <1>2, <1>6, <3>1
  <2>2. CASE e = 0
    BY <1>3, <1>4, <1>6, <2>1, <2>2
  <2>3. CASE e # 0
    <3>1. \A p \in Nat \ {0} : (x + M) * p < (y + M) * p
      BY <1>1, <1>2, <2>1, Z3
    <3>2. QED BY <1>3, <1>4, <1>6, <2>3, <3>1
  <2>4. QED BY <2>2, <2>3
<1>7. CASE d < e
  <2>0. e # 0
    BY <1>2, <1>7
  <2>1. (y + M) * pow2[e - 1] >= M * pow2[e - 1]
    <3>1. \A p \in Nat \ {0} : (y + M) * p >= M * p
      BY <1>1, <1>2, Z3
    <3>2. QED BY <1>4, <2>0, <3>1
  <2>2. CASE d = 0
    <3>1. \A p \in Nat \ {0} : M * p >= M
      BY <1>1, Z3
    <3>2. M * pow2[e - 1] >= M
      BY <1>4, <2>0, <3>1
    <3>3. \A p \in Nat : M * p \in Nat /\ (y + M) * p \in Nat
      BY <1>1, <1>2, Z3
    <3>4. M * pow2[e - 1] \in Nat /\ (y + M) * pow2[e - 1] \in Nat
      BY <1>4, <2>0, <3>3
    <3>5. QED BY <1>1, <1>2, <1>3, <1>4, <2>0, <2>1, <2>2, <3>2, <3>4
  <2>3. CASE d # 0
    <3>1. pow2[d] = 2 * pow2[d - 1] /\ pow2[d] <= pow2[e - 1] /\ pow2[d] \in Nat \ {0}
      <4>1. d - 1 \in Nat /\ d - 1 + 1 = d /\ e - 1 \in Nat /\ d <= e - 1
        BY <1>2, <1>7, <2>3
      <4>2. pow2[d] = 2 * pow2[d - 1]
        BY <4>1, PowSucc
      <4>3. pow2[d] <= pow2[e - 1]
        BY <1>2, <4>1, PowMono
      <4>4. QED BY <1>2, <4>2, <4>3, PowSucc
    <3>2. \A p \in Nat \ {0} : (x + M) * p < M * (2 * p)
      BY <1>1, <1>2, Z3
    <3>3. (x + M) * pow2[d - 1] < M * pow2[d]
      BY <1>3, <2>3, <3>1, <3>2
    <3>4. \A p, q \in Nat : p <= q => M * p <= M * q
      BY <1>1, Z3
    <3>5. M * pow2[d] <= M * pow2[e - 1]
      BY <1>4, <2>0, <3>1, <3>4
    <3>6. \A p \in Nat : M * p \in Nat /\ (y + M) * p \in Nat /\ (x + M) * p \in Nat
      BY <1>1, <1>2, Z3
    <3>7. M * pow2[d] \in Nat /\ M * pow2[e - 1] \in Nat /\ (y + M) * pow2[e - 1] \in Nat
      BY <1>4, <2>0, <3>1, <3>6
    <3>8. QED BY <1>3, <1>4, <2>0, <2>1, <2>3, <3>3, <3>5, <3>7
  <2>4. QED BY <2>2, <2>3
<1>8. QED BY <1>2, <1>5, <1>6, <1>7

\* The patterns of a sign are in the order of their magnitudes.
LEMMA UlpsOrder ==
    ASSUME NEW f \in Formats, NEW x \in Patterns(f), NEW y \in Patterns(f)
    PROVE  LET a == magnitude_bits(f, x)
               b == magnitude_bits(f, y)
           IN  /\ a \in Nat /\ b \in Nat /\ Ulps(f, x) \in Nat /\ Ulps(f, y) \in Nat
               /\ (Ulps(f, x) < Ulps(f, y)) = (a < b) /\ (Ulps(f, x) = Ulps(f, y)) = (a = b)
               /\ (Ulps(f, x) > Ulps(f, y)) = (a > b)
               /\ a = 0 => Ulps(f, x) = 0
               /\ b = 0 => Ulps(f, y) = 0
               /\ a = b /\ is_negative(f, x) = is_negative(f, y) => x = y
<1> DEFINE M == pow2[f.mantissa_bits]
           d == raw_exponent(f, x)
           m == mantissa(f, x)
           e == raw_exponent(f, y)
           n == mantissa(f, y)
           a == magnitude_bits(f, x)
           b == magnitude_bits(f, y)
           u == Ulps(f, x)
           v == Ulps(f, y)
<1>1. M \in Nat \ {0} /\ max_exponent(f) \in Nat
  BY FormatSizes DEF Sizes
<1>2. /\ d \in 0 .. max_exponent(f) /\ m \in 0 .. M - 1 /\ e \in 0 .. max_exponent(f) /\ n \in 0 .. M - 1
      /\ is_negative(f, x) \in BOOLEAN /\ is_negative(f, y) \in BOOLEAN
      /\ x = Pattern(f, is_negative(f, x), d, m) /\ y = Pattern(f, is_negative(f, y), e, n)
  BY PatternOfFields
<1> HIDE DEF d, e, m, n, M
<1>3. a = d * M + m /\ b = e * M + n
  <2>1. \A s \in BOOLEAN : \A i \in 0 .. max_exponent(f), j \in 0 .. M - 1 :
          magnitude_bits(f, Pattern(f, s, i, j)) = i * M + j
    BY FieldsOfPattern DEF M
  <2>2. QED BY <1>2, <2>1
<1>4. u \in Nat /\ v \in Nat
  BY <1>2, UlpsIs DEF d, e, m, n, M
<1>5. a < b => u < v
  BY <1>2, <1>3, UlpsIncrease DEF d, e, m, n, M
<1>6. b < a => v < u
  BY <1>2, <1>3, UlpsIncrease DEF d, e, m, n, M
<1>7. a = b => d = e /\ m = n
  <2>1. d \in Nat /\ e \in Nat /\ m \in Nat /\ n \in Nat /\ m < M /\ n < M
    BY <1>1, <1>2
  <2>2. ASSUME NEW p \in Nat, NEW q \in Nat, p < q, NEW i \in Nat, NEW j \in Nat, i < M, j < M
        PROVE  p * M + i < q * M + j
    <3>1. (p + 1) * M <= q * M
      BY <1>1, <2>2, Z3
    <3>2. (p + 1) * M = p * M + M /\ p * M \in Int /\ q * M \in Int
      BY <1>1, Z3
    <3>3. QED BY <1>1, <2>2, <3>1, <3>2
  <2>3. d * M \in Int /\ e * M \in Int
    BY <1>1, <2>1, Z3
  <2>4. a = b => ~(d < e) /\ ~(e < d)
    BY <1>3, <2>1, <2>2, <2>3
  <2>5. QED BY <1>3, <2>1, <2>3, <2>4
<1>8. a = b => u = v
  BY <1>7 DEF Ulps, d, e, m, n
<1>9. a \in Nat /\ b \in Nat
  <2>1. d \in Nat /\ e \in Nat /\ m \in Nat /\ n \in Nat
    BY <1>1, <1>2
  <2>2. d * M \in Nat /\ e * M \in Nat
    BY <1>1, <2>1, Z3
  <2>3. QED BY <1>3, <2>1, <2>2
<1>10. (a = 0 => u = 0) /\ (b = 0 => v = 0)
  <2>1. ASSUME NEW i \in 0 .. max_exponent(f), NEW j \in 0 .. M - 1, i * M + j = 0
        PROVE  i = 0 /\ j = 0
    <3>1. i \in Nat /\ j \in Nat
      BY <1>1
    <3>2. i # 0 => i * M > 0
      BY <1>1, <3>1, Z3
    <3>3. i * M \in Nat
      BY <1>1, <3>1, Z3
    <3>4. QED BY <2>1, <3>1, <3>2, <3>3
  <2>2. a = 0 => d = 0 /\ m = 0
    BY <1>2, <1>3, <2>1
  <2>3. b = 0 => e = 0 /\ n = 0
    BY <1>2, <1>3, <2>1
  <2>4. QED BY <2>2, <2>3 DEF Ulps, d, e, m, n
<1>11. a = b /\ is_negative(f, x) = is_negative(f, y) => x = y
  BY <1>2, <1>7
<1> HIDE DEF a, b, u, v
<1>12. (u < v) = (a < b) /\ (u = v) = (a = b) /\ (u > v) = (a > b)
  BY <1>4, <1>5, <1>6, <1>8, <1>9
<1>13. QED BY <1>4, <1>9, <1>10, <1>11, <1>12 DEF a, b, u, v

\* A zero is determined by its sign.
LEMMA ZeroOfSign ==
    ASSUME NEW f \in Formats, NEW x \in Patterns(f), is_zero(f, x), NEW n \in BOOLEAN, n = is_negative(f, x)
    PROVE  x = zero(f, n) /\ Ulps(f, x) = 0
<1>1. /\ is_negative(f, zero(f, n)) = n /\ magnitude_bits(f, zero(f, n)) = 0 /\ zero(f, n) \in Patterns(f)
  BY ZeroIsZero
<1> DEFINE z == zero(f, n)
<1> HIDE DEF z
<1>2. z \in Patterns(f) /\ magnitude_bits(f, x) = magnitude_bits(f, z) /\ is_negative(f, x) = is_negative(f, z)
  BY <1>1 DEF is_zero, z
<1>3. x = z /\ Ulps(f, x) = 0
  BY <1>2, UlpsOrder DEF is_zero
<1>4. QED BY <1>3 DEF z

\* Zero is its own negation.
LEMMA NegatedZero ==
    ASSUME NEW i \in Nat, i < 1
    PROVE  -i = i
  OBVIOUS

(***************************************************************************)
(* What a significand and a sticky bit know of an exact value.             *)
(***************************************************************************)
\* S is N / P rounded down, and t says whether anything was left.
Floors(S, t, N, P) == S * P <= N /\ N < (S + 1) * P /\ (t <=> N # S * P)

\* Shifting right keeps a floor, the sticky bit gathering what is lost.
LEMMA FloorsShift ==
    ASSUME NEW S \in Nat, NEW t \in BOOLEAN, NEW N \in Nat, NEW P \in Nat \ {0}, Floors(S, t, N, P),
           NEW d \in Nat \ {0}, NEW u \in BOOLEAN, u <=> (t \/ S % d # 0)
    PROVE  Floors(S \div d, u, N, d * P)
<1> DEFINE K == S \div d
           L == S % d
<1>0. K \in Nat /\ L \in 0 .. d - 1 /\ S = d * K + L /\ (u <=> (t \/ L # 0))
  <2>1. K \in Nat
    BY DivAtMost
  <2>2. S \in Int
    OBVIOUS
  <2>3. QED BY <2>1, <2>2, DivMod
<1> HIDE DEF K, L
<1>1. /\ L \in Nat /\ L < d /\ d * K \in Nat /\ d * P \in Nat \ {0}
  <2>1. d * K \in Nat /\ d * P \in Int /\ d * P > 0
    BY <1>0, TimesTyped
  <2>2. QED BY <1>0, <2>1
<1>2. K * (d * P) = (d * K) * P /\ (K + 1) * (d * P) = (d * K + d) * P
  BY <1>0, Z3
<1>3. (d * K) * P <= S * P /\ (S + 1) * P <= (d * K + d) * P
  <2>1. S + 1 <= d * K + d /\ d * K <= S
    BY <1>0, <1>1
  <2>2. QED BY <1>1, <2>1, TimesMono
<1>4. L # 0 => (d * K) * P < S * P
  <2>1. L # 0 => d * K < S
    BY <1>0, <1>1
  <2>2. QED BY <1>1, <2>1, TimesStrict
<1>5. L = 0 => (d * K) * P = S * P
  BY <1>0, <1>1
<1>6. S * P \in Int /\ (S + 1) * P \in Int /\ (d * K) * P \in Int /\ (d * K + d) * P \in Int
  BY <1>1, TimesTyped
<1> DEFINE A == (d * K) * P
           B == (d * K + d) * P
           C == S * P
           E == (S + 1) * P
<1>7. /\ A \in Int /\ B \in Int /\ C \in Int /\ E \in Int /\ A <= C /\ E <= B
      /\ L # 0 => A < C
      /\ L = 0 => A = C
      /\ C <= N /\ N < E /\ (t <=> N # C)
  BY <1>3, <1>4, <1>5, <1>6 DEF Floors
<1> HIDE DEF A, B, C, E
<1>8. A <= N /\ N < B /\ (u <=> N # A)
  BY <1>0, <1>7
<1>9. Floors(K, u, N, d * P)
  BY <1>2, <1>8 DEF Floors, A, B
<1>10. QED BY <1>9 DEF K

\* Floors do not depend on the unit.
LEMMA FloorsScale ==
    ASSUME NEW S \in Nat, NEW t \in BOOLEAN, NEW N \in Nat, NEW P \in Nat \ {0}, NEW c \in Nat \ {0}
    PROVE  Floors(S, t, N, P) <=> Floors(S, t, N * c, P * c)
<1>1. S * (P * c) = (S * P) * c /\ (S + 1) * (P * c) = ((S + 1) * P) * c
  BY Z3
<1> DEFINE A == S * P
           B == (S + 1) * P
<1>2. A \in Int /\ B \in Int
  BY TimesTyped
<1> HIDE DEF A, B
<1>3. (A <= N) <=> (A * c <= N * c)
  BY <1>2, TimesMono, TimesStrict, TimesTyped
<1>4. (N < B) <=> (N * c < B * c)
  BY <1>2, TimesMono, TimesStrict, TimesTyped
<1>5. (N = A) <=> (N * c = A * c)
  BY <1>2, TimesMono, TimesStrict, TimesTyped
<1>6. QED BY <1>1, <1>3, <1>4, <1>5 DEF Floors, A, B

\* An exact floor may be shifted left.
LEMMA FloorsUp ==
    ASSUME NEW S \in Nat, NEW t \in BOOLEAN, ~t, NEW N \in Nat, NEW P \in Nat \ {0}, Floors(S, t, N, P),
           NEW c \in Nat \ {0}
    PROVE  Floors(S * c, t, N * c, P)
<1>1. N = S * P
  BY DEF Floors
<1>2. (S * P) * c = (S * c) * P /\ (S * c + 1) * P = (S * c) * P + P /\ (S * c) * P \in Int
  BY Z3
<1>3. QED BY <1>1, <1>2 DEF Floors

\* The significand S with exponent e, and the sticky bit t, stand for num / den
\* smallest subnormals: one unit of S is 2^(e - min_exponent - 3) of them.
Stands(S, t, e, num, den, f) ==
    \E a, b \in Nat : /\ a - b = e - min_exponent(f) - 3
                      /\ Floors(S, t, num * pow2[b], den * pow2[a])

\* A significand stands for its rational at every pair of shifts.
LEMMA StandsAt ==
    ASSUME NEW f, min_exponent(f) \in Int, NEW S \in Nat, NEW t \in BOOLEAN, NEW e \in Int,
           NEW num \in Nat, NEW den \in Nat \ {0}, Stands(S, t, e, num, den, f),
           NEW a \in Nat, NEW b \in Nat, a - b = e - min_exponent(f) - 3
    PROVE  Floors(S, t, num * pow2[b], den * pow2[a])
<1>1. PICK i, j \in Nat : i - j = e - min_exponent(f) - 3 /\ Floors(S, t, num * pow2[j], den * pow2[i])
  BY DEF Stands
<1>2. ASSUME NEW k \in Nat
      PROVE  /\ pow2[k] \in Nat \ {0} /\ num * pow2[k] \in Nat /\ den * pow2[k] \in Nat \ {0}
  <2>1. pow2[k] \in Nat \ {0}
    BY PowSucc
  <2>2. num * pow2[k] \in Int /\ num * pow2[k] >= 0 /\ den * pow2[k] \in Int /\ den * pow2[k] > 0
    BY <2>1, TimesTyped
  <2>3. QED BY <2>1, <2>2
<1>3. ASSUME NEW k \in Nat, NEW c \in Nat
      PROVE  num * pow2[k + c] = (num * pow2[k]) * pow2[c] /\ den * pow2[k + c] = (den * pow2[k]) * pow2[c]
  <2>1. pow2[k + c] = pow2[k] * pow2[c]
    BY PowAdd
  <2>2. \A x, y, z \in Nat : x * (y * z) = (x * y) * z
    BY Z3
  <2> DEFINE p == pow2[k]
             q == pow2[c]
  <2>3. p \in Nat /\ q \in Nat /\ pow2[k + c] = p * q
    BY <1>2, <2>1
  <2> HIDE DEF p, q
  <2>4. num * (p * q) = (num * p) * q /\ den * (p * q) = (den * p) * q
    BY <2>2, <2>3
  <2>5. QED BY <2>3, <2>4 DEF p, q
<1>4. CASE b >= j
  <2> DEFINE c == b - j
  <2>1. c \in Nat /\ b = j + c /\ a = i + c
    BY <1>1, <1>4
  <2> HIDE DEF c
  <2>2. Floors(S, t, (num * pow2[j]) * pow2[c], (den * pow2[i]) * pow2[c])
    BY <1>1, <1>2, <2>1, FloorsScale
  <2>3. QED BY <1>1, <1>3, <2>1, <2>2
<1>5. CASE b < j
  <2> DEFINE c == j - b
  <2>1. c \in Nat /\ j = b + c /\ i = a + c
    BY <1>1, <1>5
  <2> HIDE DEF c
  <2>2. Floors(S, t, (num * pow2[b]) * pow2[c], (den * pow2[a]) * pow2[c])
    BY <1>1, <1>3, <2>1
  <2>3. QED BY <1>2, <2>1, <2>2, FloorsScale
<1>6. QED BY <1>4, <1>5

\* Shifting it right adds to the exponent,
LEMMA StandsShift ==
    ASSUME NEW f, min_exponent(f) \in Int, NEW S \in Nat, NEW t \in BOOLEAN, NEW e \in Int,
           NEW num \in Nat, NEW den \in Nat \ {0}, Stands(S, t, e, num, den, f),
           NEW s \in Nat, NEW u \in BOOLEAN, u <=> (t \/ S % pow2[s] # 0)
    PROVE  S \div pow2[s] \in Nat /\ Stands(S \div pow2[s], u, e + s, num, den, f)
<1>1. PICK a, b \in Nat : a - b = e - min_exponent(f) - 3 /\ Floors(S, t, num * pow2[b], den * pow2[a])
  BY DEF Stands
<1> DEFINE d == pow2[s]
           K == S \div d
           N == num * pow2[b]
           P == den * pow2[a]
<1>2. d \in Nat \ {0} /\ pow2[a] \in Nat \ {0} /\ pow2[b] \in Nat \ {0} /\ pow2[a + s] = pow2[a] * d
  BY PowSucc, PowAdd
<1> HIDE DEF d
<1>3. K \in Nat
  BY <1>2, DivAtMost
<1>4. N \in Nat /\ P \in Nat \ {0}
  <2>1. N \in Int /\ N >= 0 /\ P \in Int /\ P > 0
    BY <1>2, TimesTyped
  <2>2. QED BY <2>1
<1>5. den * pow2[a + s] = d * P
  <2>1. \A x, y, z \in Nat : x * (y * z) = z * (x * y)
    BY Z3
  <2>2. QED BY <1>2, <2>1
<1>6. u <=> (t \/ S % d # 0)
  BY DEF d
<1> HIDE DEF N, P
<1>7. Floors(S, t, N, P)
  BY <1>1 DEF N, P
<1>8. Floors(K, u, N, d * P)
  BY <1>2, <1>4, <1>6, <1>7, FloorsShift
<1> HIDE DEF K
<1>9. a + s \in Nat /\ (a + s) - b = (e + s) - min_exponent(f) - 3
  BY <1>1
<1>10. Stands(K, u, e + s, num, den, f)
  BY <1>5, <1>8, <1>9 DEF Stands, N
<1>11. QED BY <1>3, <1>10 DEF K, d

\* and shifting it left, when nothing is lost yet, takes from it.
LEMMA StandsUp ==
    ASSUME NEW f, min_exponent(f) \in Int, NEW S \in Nat, NEW t \in BOOLEAN, ~t, NEW e \in Int,
           NEW num \in Nat, NEW den \in Nat \ {0}, Stands(S, t, e, num, den, f), NEW s \in Nat
    PROVE  S * pow2[s] \in Nat /\ Stands(S * pow2[s], t, e - s, num, den, f)
<1>1. PICK a, b \in Nat : a - b = e - min_exponent(f) - 3 /\ Floors(S, t, num * pow2[b], den * pow2[a])
  BY DEF Stands
<1> DEFINE d == pow2[s]
           N == num * pow2[b]
           P == den * pow2[a]
<1>2. d \in Nat \ {0} /\ pow2[a] \in Nat \ {0} /\ pow2[b] \in Nat \ {0} /\ pow2[b + s] = pow2[b] * d
  BY PowSucc, PowAdd
<1> HIDE DEF d
<1>3. N \in Nat /\ P \in Nat \ {0} /\ S * d \in Nat
  <2>1. N \in Int /\ N >= 0 /\ P \in Int /\ P > 0 /\ S * d \in Int /\ S * d >= 0
    BY <1>2, TimesTyped
  <2>2. QED BY <2>1
<1>4. num * pow2[b + s] = N * d
  <2>1. \A x, y, z \in Nat : x * (y * z) = (x * y) * z
    BY Z3
  <2>2. QED BY <1>2, <2>1
<1> HIDE DEF N, P
<1>5. Floors(S, t, N, P)
  BY <1>1 DEF N, P
<1>6. Floors(S * d, t, N * d, P)
  BY <1>2, <1>3, <1>5, FloorsUp
<1>7. b + s \in Nat /\ a - (b + s) = (e - s) - min_exponent(f) - 3
  BY <1>1
<1>8. Stands(S * d, t, e - s, num, den, f)
  BY <1>4, <1>6, <1>7 DEF Stands, P
<1>9. QED BY <1>3, <1>8 DEF d

\* As Stands, but S may come from one bit less, doubled: the leading bit of a
\* quotient, or of a difference, can be one place short.
NearStands(S, t, e, num, den, f) ==
    \/ Stands(S, t, e, num, den, f)
    \/ \E q \in Nat : S = 2 * q /\ Stands(q, t, e + 1, num, den, f)

\* PowAdd, with the types of its powers.
LEMMA PowSplit ==
    ASSUME NEW a \in Nat, NEW b \in Nat, NEW c, c = a + b
    PROVE  /\ pow2[c] = pow2[a] * pow2[b] /\ pow2[a] \in Nat \ {0} /\ pow2[b] \in Nat \ {0}
           /\ pow2[c] \in Nat \ {0}
<1>1. pow2[a + b] = pow2[a] * pow2[b]
  BY PowAdd
<1>2. a + b \in Nat
  OBVIOUS
<1>3. QED BY <1>1, <1>2, PowSucc

\* The least exponent and the bias.
LEMMA MinExponentIs ==
    ASSUME NEW f \in Formats
    PROVE  min_exponent(f) \in Int /\ exponent_bias(f) \in Int /\ min_exponent(f) = 1 - exponent_bias(f)
  BY FormatSizes DEF Sizes, min_exponent

\* normalise keeps what a significand stands for, up to one doubling.
LEMMA NormaliseStands ==
    ASSUME NEW f \in Formats, NEW v \in UnpackedValues, NEW t \in BOOLEAN,
           v.significand # 0, v.significand < pow2[WORD],
           NEW num \in Nat, NEW den \in Nat \ {0},
           Stands(v.significand, t, v.exponent, num, den, f),
           t => pow2[scale(f)] <= 2 * v.significand
    PROVE  LET n == normalise(v, t, f)
           IN  /\ n.value \in UnpackedValues /\ n.value.is_negative = v.is_negative /\ n.sticky \in BOOLEAN
               /\ pow2[scale(f)] <= n.value.significand /\ n.value.significand < pow2[scale(f) + 1]
               /\ NearStands(n.value.significand, n.sticky, n.value.exponent, num, den, f)
<1> DEFINE S == v.significand
           e == v.exponent
           k == leading(S)
           g == scale(f)
           up == k - g
           n == normalise(v, t, f)
<1>1. S \in Nat \ {0} /\ v.is_negative \in BOOLEAN /\ e \in Int
  BY DEF UnpackedValues
<1>2. g \in Nat /\ WORD \in Nat /\ min_exponent(f) \in Int
  BY Scales, MinExponentIs
<1>3. k \in Nat /\ S < pow2[k + 1] /\ pow2[k] <= S /\ k < WORD
  <2>1. pow2[WORD] <= pow2[2 * WORD + 1] /\ pow2[WORD] \in Nat /\ pow2[2 * WORD + 1] \in Nat
    BY <1>2, PowMono, PowSucc
  <2>2. S < pow2[2 * WORD + 1]
    BY <1>1, <2>1
  <2>3. k \in Nat /\ S < pow2[k + 1] /\ pow2[k] <= S
    BY <1>1, <1>2, <2>2, LeadingIs
  <2> HIDE DEF k, S
  <2>4. ~(WORD <= k)
    <3>1. WORD <= k => pow2[WORD] <= pow2[k]
      BY <1>2, <2>3, PowMono
    <3>2. pow2[k] \in Nat
      BY <2>3, PowSucc
    <3>3. QED BY <1>1, <2>1, <2>3, <3>1, <3>2 DEF S
  <2>5. QED BY <1>2, <2>3, <2>4
<1>3a. Stands(S, t, e, num, den, f) /\ (t => pow2[g] <= 2 * S)
  OBVIOUS
<1> HIDE DEF k, g
<1>4. up \in Int /\ up < WORD /\ k = up + g
  BY <1>1, <1>2, <1>3
<1>5. n = IF up >= 0
          THEN [value  |-> Unpacked(v.is_negative, e + up, shift_right(S, up, WORD).kept),
                sticky |-> t \/ shift_right(S, up, WORD).lost]
          ELSE [value  |-> Unpacked(v.is_negative, e + up, S * pow2[-up]),
                sticky |-> t]
  BY <1>4, NormaliseIs DEF k, g
<1> HIDE DEF up, n, S, e
<1>6. ASSUME NEW x \in Nat, NEW u \in BOOLEAN, pow2[g] <= x, x < pow2[g + 1],
             NearStands(x, u, e + up, num, den, f),
             n = [value |-> Unpacked(v.is_negative, e + up, x), sticky |-> u]
      PROVE  /\ n.value \in UnpackedValues /\ n.value.is_negative = v.is_negative /\ n.sticky \in BOOLEAN
             /\ pow2[g] <= n.value.significand /\ n.value.significand < pow2[g + 1]
             /\ NearStands(n.value.significand, n.sticky, n.value.exponent, num, den, f)
  <2>1. e + up \in Int
    BY <1>1, <1>4
  <2>2. /\ n.value = Unpacked(v.is_negative, e + up, x) /\ n.sticky = u
    BY <1>6
  <2>3. n.value \in UnpackedValues /\ n.value.is_negative = v.is_negative
        /\ n.value.exponent = e + up /\ n.value.significand = x
    BY <1>1, <2>1, <2>2 DEF UnpackedValues, Unpacked
  <2>4. QED BY <1>6, <2>2, <2>3
<1>7. CASE up >= 0
  <2> DEFINE s == shift_right(S, up, WORD)
  <2>1. up \in Nat
    BY <1>4, <1>7
  <2>2. s.kept = S \div pow2[up] /\ s.lost = (S % pow2[up] # 0)
    BY <1>1, <1>2, <1>4, <2>1, ShiftRightIs
  <2>3. PICK u \in BOOLEAN : u = (t \/ s.lost)
    OBVIOUS
  <2>4. u <=> (t \/ S % pow2[up] # 0)
    BY <2>2, <2>3
  <2>5. S \div pow2[up] \in Nat /\ Stands(S \div pow2[up], u, e + up, num, den, f)
    BY <1>1, <1>2, <1>3a, <2>1, <2>4, StandsShift
  <2>6. pow2[up] \in Nat \ {0} /\ pow2[g] \in Nat /\ pow2[g + 1] \in Nat
        /\ pow2[k] = pow2[up] * pow2[g] /\ pow2[k + 1] = pow2[up] * pow2[g + 1]
    <3>1. k + 1 = up + (g + 1) /\ g + 1 \in Nat
      BY <1>2, <1>4, <2>1
    <3>2. pow2[k] = pow2[up] * pow2[g] /\ pow2[up] \in Nat \ {0} /\ pow2[g] \in Nat
      BY <1>2, <1>4, <2>1, PowSplit
    <3>3. pow2[k + 1] = pow2[up] * pow2[g + 1] /\ pow2[g + 1] \in Nat
      BY <2>1, <3>1, PowSplit
    <3>4. QED BY <3>2, <3>3
  <2> DEFINE x == S \div pow2[up]
  <2>7. x < pow2[g + 1]
    BY <1>1, <1>3, <2>6, DivBelow
  <2>8. pow2[g] <= x
    <3> DEFINE d == pow2[up]
               G == pow2[g]
    <3>1. d \in Nat \ {0} /\ G \in Nat /\ d * G <= S /\ S \in Int
      BY <1>1, <1>3, <2>6
    <3> HIDE DEF d, G
    <3>2. S \div d \in Int /\ S % d \in 0 .. d - 1 /\ S = d * (S \div d) + (S % d)
      BY <3>1, DivMod
    <3> DEFINE q == S \div d
               l == S % d
    <3> HIDE DEF q, l
    <3>3. q \in Int /\ l \in Int /\ l < d /\ d * G <= d * q + l
      BY <3>1, <3>2 DEF q, l
    <3>4. ~(q < G)
      <4>1. q < G => (q + 1) * d <= G * d
        BY <3>1, <3>3, TimesMono
      <4>2. (q + 1) * d = q * d + d /\ q * d \in Int /\ q * d = d * q /\ G * d = d * G /\ d * G \in Int
        BY <3>1, <3>3, TimesSucc, TimesTyped
      <4>3. QED BY <3>1, <3>3, <4>1, <4>2
    <3>5. QED BY <3>1, <3>3, <3>4 DEF q, d, G
  <2>9. n = [value |-> Unpacked(v.is_negative, e + up, x), sticky |-> u]
    BY <1>5, <1>7, <2>2, <2>3
  <2>10. NearStands(x, u, e + up, num, den, f)
    BY <2>5 DEF NearStands
  <2> HIDE DEF x
  <2>11. x \in Nat
    BY <2>5 DEF x
  <2>12. QED BY <1>6, <2>7, <2>8, <2>9, <2>10, <2>11 DEF S, g, n
<1>8. CASE ~(up >= 0)
  <2> DEFINE z == -up
             x == S * pow2[z]
  <2>1. z \in Nat \ {0} /\ k + z = g /\ (k + 1) + z = g + 1 /\ k + 1 \in Nat /\ e + up = e - z
    BY <1>1, <1>2, <1>3, <1>4, <1>8
  <2>2. n = [value  |-> Unpacked(v.is_negative, e + up, x), sticky |-> t]
    BY <1>5, <1>8
  <2> HIDE DEF z
  <2>3. pow2[z] \in Nat \ {0} /\ pow2[k + 1] \in Nat /\ pow2[k] \in Nat
        /\ pow2[g] = pow2[k] * pow2[z] /\ pow2[g + 1] = pow2[k + 1] * pow2[z]
    <3>1. pow2[g] = pow2[k] * pow2[z] /\ pow2[k] \in Nat /\ pow2[z] \in Nat \ {0}
      BY <1>3, <2>1, PowSplit
    <3>2. pow2[g + 1] = pow2[k + 1] * pow2[z] /\ pow2[k + 1] \in Nat
      BY <2>1, PowSplit
    <3>3. QED BY <3>1, <3>2
  <2>4. x \in Nat /\ x < pow2[g + 1] /\ pow2[g] <= x
    BY <1>1, <1>3, <2>3, TimesMono, TimesStrict, TimesTyped
  <2>5. NearStands(x, t, e + up, num, den, f)
    <3>1. CASE ~t
      <4>1. Stands(x, t, e - z, num, den, f)
        BY <1>1, <1>2, <1>3a, <2>1, <3>1, StandsUp
      <4>2. QED BY <2>1, <4>1 DEF NearStands
    <3>2. CASE t
      <4>1. z = 1
        <5>1. pow2[g] <= 2 * S /\ S < pow2[k + 1]
          BY <1>3, <1>3a, <3>2
        <5>2. pow2[k + 1] = 2 * pow2[k] /\ pow2[k + 2] = 2 * pow2[k + 1] /\ k + 2 \in Nat
          <6>1. k + 1 + 1 = k + 2 /\ k + 1 \in Nat
            BY <1>3
          <6>2. QED BY <1>3, <6>1, PowSucc
        <5>3. k + 2 <= g => pow2[k + 2] <= pow2[g]
          BY <1>2, <5>2, PowMono
        <5>4. pow2[g] \in Nat /\ pow2[k + 1] \in Nat
          BY <1>2, <2>3, PowSucc
        <5>5. ~(k + 2 <= g)
          BY <1>1, <5>1, <5>2, <5>3, <5>4
        <5>6. QED BY <1>2, <1>3, <2>1, <5>5
      <4>2. x = 2 * S /\ e + up + 1 = e
        <5>1. x = S * 2
          BY <4>1, PowValues
        <5>2. QED BY <1>1, <1>4, <2>1, <4>1, <5>1
      <4>3. Stands(S, t, e + up + 1, num, den, f)
        BY <1>3a, <4>2
      <4>4. QED BY <1>1, <4>2, <4>3 DEF NearStands
    <3>3. QED BY <3>1, <3>2
  <2> HIDE DEF x
  <2>6. QED BY <1>6, <2>2, <2>4, <2>5 DEF S, g, n
<1>9. QED BY <1>7, <1>8

(***************************************************************************)
(* The reference: which pattern Rounded picks.                             *)
(***************************************************************************)
\* Magnitudes up to infinity are their own patterns, in the order of Ulps.
LEMMA Magnitudes ==
    ASSUME NEW f \in Formats
    PROVE  /\ infinity(f) \in Nat /\ infinity(f) >= 1 /\ infinity(f) < sign_bit(f)
           /\ \A b \in 0 .. infinity(f) : b \in Patterns(f) /\ magnitude_bits(f, b) = b /\ Ulps(f, b) \in Nat
           /\ \A b, c \in 0 .. infinity(f) : b < c => Ulps(f, b) < Ulps(f, c)
<1> DEFINE M == pow2[f.mantissa_bits]
           E == pow2[f.exponent_bits]
<1>1. /\ M \in Nat \ {0} /\ E \in Nat /\ E >= 4 /\ sign_bit(f) = M * E /\ sign_bit(f) \in Nat \ {0}
      /\ infinity(f) = (E - 1) * M
  BY FormatSizes DEF Sizes
<1> HIDE DEF M, E
<1>2. infinity(f) \in Nat /\ infinity(f) >= 1 /\ infinity(f) < sign_bit(f)
  <2>1. (E - 1) * M \in Int /\ (E - 1) * M > 0 /\ (E - 1) * M < E * M /\ E * M = M * E
    BY <1>1, TimesTyped, TimesStrict
  <2>2. QED BY <1>1, <2>1
<1>3. ASSUME NEW b \in 0 .. infinity(f)
      PROVE  b \in Patterns(f) /\ magnitude_bits(f, b) = b /\ Ulps(f, b) \in Nat
  <2>1. b \in Nat /\ b < sign_bit(f)
    BY <1>1, <1>2
  <2>2. b \in Patterns(f)
    BY <1>1, <2>1 DEF Patterns
  <2>3. magnitude_bits(f, b) = b
    BY <1>1, <2>1 DEF magnitude_bits
  <2>4. QED BY <2>2, <2>3, UlpsOrder
<1>4. ASSUME NEW b \in 0 .. infinity(f), NEW c \in 0 .. infinity(f), b < c
      PROVE  Ulps(f, b) < Ulps(f, c)
  <2>1. b \in Patterns(f) /\ c \in Patterns(f) /\ magnitude_bits(f, b) = b /\ magnitude_bits(f, c) = c
    BY <1>3
  <2>2. (Ulps(f, b) < Ulps(f, c)) = (magnitude_bits(f, b) < magnitude_bits(f, c))
    BY <2>1, UlpsOrder
  <2>3. QED BY <1>4, <2>1, <2>2
<1>5. QED BY <1>2, <1>3, <1>4

\* The pattern just below a rational is determined.
LEMMA FloorIs ==
    ASSUME NEW f \in Formats, NEW num \in Nat, NEW den \in Nat \ {0}, NEW b \in 0 .. infinity(f),
           Ulps(f, b) * den <= num, b < infinity(f) => num < Ulps(f, b + 1) * den
    PROVE  Floor(num, den, f) = b
<1> DEFINE I == infinity(f)
           U(x) == Ulps(f, x)
           Is(x) == U(x) * den <= num /\ (x < I => num < U(x + 1) * den)
<1>1. I \in Nat /\ (\A x \in 0 .. I : U(x) \in Nat) /\ (\A x, y \in 0 .. I : x < y => U(x) < U(y))
  BY Magnitudes
<1>2. Is(b)
  OBVIOUS
<1>3. ASSUME NEW x \in 0 .. I, NEW y \in 0 .. I, Is(x), Is(y), x < y PROVE FALSE
  <2>1. x + 1 \in 0 .. I /\ x < I /\ (x + 1 = y \/ x + 1 < y)
    BY <1>1, <1>3
  <2>2. U(x + 1) <= U(y) /\ U(x + 1) \in Nat /\ U(y) \in Nat
    BY <1>1, <2>1
  <2> DEFINE p == U(x + 1)
             q == U(y)
  <2>3. num < p * den /\ q * den <= num /\ p <= q /\ p \in Nat /\ q \in Nat
    BY <1>3, <2>1, <2>2
  <2> HIDE DEF p, q
  <2>4. p * den <= q * den /\ p * den \in Int /\ q * den \in Int
    BY <2>3, TimesMono, TimesTyped
  <2>5. QED BY <2>3, <2>4
<1> HIDE DEF Is, U
<1>4. \A x \in 0 .. I : Is(x) => x = b
  BY <1>1, <1>2, <1>3
<1>5. Floor(num, den, f) = CHOOSE x \in 0 .. I : Is(x)
  BY DEF Floor, Is, U
<1>6. QED BY <1>2, <1>4, <1>5

\* Whether the value goes to the upper neighbour: `middle` is twice the half way.
Upward(num, middle, b, n, r) ==
    \/ r = "Nearest" /\ (2 * num > middle \/ (2 * num = middle /\ b % 2 = 1))
    \/ r = "NearestAway" /\ 2 * num >= middle
    \/ r = "Plus" /\ ~n
    \/ r = "Minus" /\ n

\* Even and odd.
LEMMA Parity ==
    ASSUME NEW b \in Nat
    PROVE  ~(b % 2 = 0) <=> b % 2 = 1
  OBVIOUS

\* b is the pattern below num / den; c is b or its neighbour above.
Between(num, den, b, exact, f) ==
    /\ b < infinity(f)
    /\ Ulps(f, b) * den <= num /\ num < Ulps(f, b + 1) * den
    /\ exact <=> (Ulps(f, b) * den = num)

\* The pattern that rounding chooses, and the flags it raises.
Chosen(c, num, den, b, exact, n, f, r) ==
    c = IF ~exact /\ Upward(num, (Ulps(f, b) + Ulps(f, b + 1)) * den, b, n, r) THEN b + 1 ELSE b

\* The flags of a rounding.
Flagged(exact, c, num, den, f) ==
    (IF exact THEN {} ELSE {"INEXACT"})
    \cup (IF c = infinity(f) THEN {"OVERFLOW"} ELSE {})
    \cup (IF ~exact /\ num < pow2[f.mantissa_bits] * den THEN {"UNDERFLOW"} ELSE {})

\* Rounded in terms of the pattern below.
LEMMA RoundedIs ==
    ASSUME NEW f \in Formats, NEW num \in Nat, NEW den \in Nat \ {0}, NEW n \in BOOLEAN, NEW r \in Modes,
           NEW b \in Nat, NEW exact \in BOOLEAN, NEW c \in Nat,
           Between(num, den, b, exact, f), Chosen(c, num, den, b, exact, n, f, r)
    PROVE  Rounded(num, den, n, f, r) = Raising(zero(f, n) + c, Flagged(exact, c, num, den, f))
<1> DEFINE I == infinity(f)
           low == Ulps(f, b)
           high == Ulps(f, b + 1)
<1>0. /\ b \in 0 .. infinity(f) /\ b < infinity(f)
      /\ low * den <= num /\ num < high * den
      /\ exact <=> (low * den = num)
      /\ c = IF ~exact /\ Upward(num, (low + high) * den, b, n, r) THEN b + 1 ELSE b
  BY Magnitudes DEF Between, Chosen
<1>1. I \in Nat /\ (\A x \in 0 .. I : Ulps(f, x) \in Nat) /\ (\A x, y \in 0 .. I : x < y => Ulps(f, x) < Ulps(f, y))
  BY Magnitudes
<1>2. b + 1 \in 0 .. I /\ b \in Nat
  BY <1>0, <1>1
<1>3. low \in Nat /\ high \in Nat /\ low < high
  BY <1>1, <1>2
<1>4. Floor(num, den, f) = b
  BY <1>0, FloorIs
<1>5. RoundedPattern(num, den, n, f, r) = c
  <2>1. b # infinity(f)
    BY <1>0, <1>1, <1>2
  <2>2. ~(b % 2 = 0) <=> b % 2 = 1
    BY <1>2, Parity
  <2> DEFINE mid == (low + high) * den
             up == Upward(num, mid, b, n, r)
  <2>3. RoundedPattern(num, den, n, f, r) = IF low * den = num THEN b ELSE IF up THEN b + 1 ELSE b
    <3>1. CASE r = "Nearest"
      <4>1. RoundedPattern(num, den, n, f, r)
              = IF low * den = num THEN b
                ELSE IF 2 * num > mid \/ (2 * num = mid /\ ~(b % 2 = 0)) THEN b + 1 ELSE b
        BY <1>4, <2>1, <3>1 DEF RoundedPattern, GoesUp
      <4>2. up <=> (2 * num > mid \/ (2 * num = mid /\ ~(b % 2 = 0)))
        BY <2>2, <3>1 DEF Upward
      <4>3. QED BY <4>1, <4>2
    <3>2. CASE r = "NearestAway"
      BY <1>4, <2>1, <3>2 DEF RoundedPattern, GoesUp, Upward
    <3>3. CASE r = "Plus"
      BY <1>4, <2>1, <3>3 DEF RoundedPattern, GoesUp, Upward
    <3>4. CASE r = "Minus"
      BY <1>4, <2>1, <3>4 DEF RoundedPattern, GoesUp, Upward
    <3>5. CASE r = "Zero"
      BY <1>4, <2>1, <3>5 DEF RoundedPattern, GoesUp, Upward
    <3>6. QED BY <3>1, <3>2, <3>3, <3>4, <3>5 DEF Modes
  <2>4. QED BY <1>0, <2>3
<1>6. c \in 0 .. I /\ Ulps(f, c) \in Nat
  BY <1>0, <1>1, <1>2
<1>7. (c < I /\ Ulps(f, c) * den = num) <=> exact
  <2>1. CASE exact
    BY <1>0, <2>1
  <2>2. CASE ~exact
    <3>1. c = b \/ c = b + 1
      BY <1>0
    <3>2. Ulps(f, c) * den # num
      <4>1. CASE c = b
        BY <1>0, <2>2, <4>1
      <4>2. CASE c = b + 1
        <5>1. Ulps(f, c) * den = high * den
          BY <4>2
        <5>2. high * den \in Int
          BY <1>3, TimesTyped
        <5> HIDE DEF high
        <5>3. num < high * den
          BY <1>0 DEF high
        <5>4. QED BY <5>1, <5>2, <5>3
      <4>3. QED BY <3>1, <4>1, <4>2
    <3>3. QED BY <2>2, <3>2
  <2>3. QED BY <2>1, <2>2
<1>8. ~(num >= Ulps(f, I) * den)
  <2> DEFINE top == Ulps(f, I)
  <2>1. top \in Nat /\ high <= top
    <3>1. I \in 0 .. I /\ (b + 1 = I \/ b + 1 < I)
      BY <1>1, <1>2
    <3>2. QED BY <1>1, <1>2, <3>1
  <2>2. num < high * den
    BY <1>0
  <2> HIDE DEF high, top
  <2>3. high * den <= top * den /\ high * den \in Int /\ top * den \in Int
    BY <1>3, <2>1, TimesMono, TimesTyped
  <2>4. num < top * den
    BY <2>2, <2>3
  <2>5. QED BY <2>3, <2>4 DEF top
<1>9. Rounded(num, den, n, f, r)
        = Raising(zero(f, n) + c,
                  (IF c < I /\ Ulps(f, c) * den = num THEN {} ELSE {"INEXACT"})
                  \cup (IF c = I \/ (c = max_finite(f) /\ num >= Ulps(f, I) * den) THEN {"OVERFLOW"} ELSE {})
                  \cup (IF ~(c < I /\ Ulps(f, c) * den = num) /\ num < pow2[f.mantissa_bits] * den
                        THEN {"UNDERFLOW"} ELSE {}))
  BY <1>5 DEF Rounded
<1>10. QED BY <1>7, <1>8, <1>9 DEF Flagged

\* Beyond the largest finite value Rounded is overflow.
LEMMA RoundedOverflow ==
    ASSUME NEW f \in Formats, NEW num \in Nat, NEW den \in Nat \ {0}, NEW n \in BOOLEAN, NEW r \in Modes,
           num >= Ulps(f, infinity(f)) * den, num >= pow2[f.mantissa_bits] * den
    PROVE  Rounded(num, den, n, f, r) = overflow(n, f, r)
<1> DEFINE I == infinity(f)
           c == IF r \in {"Nearest", "NearestAway"} \/ (r = "Plus" /\ ~n) \/ (r = "Minus" /\ n)
                THEN I ELSE I - 1
<1>1. I \in Nat /\ I >= 1 /\ (\A x \in 0 .. I : Ulps(f, x) \in Nat)
      /\ (\A x, y \in 0 .. I : x < y => Ulps(f, x) < Ulps(f, y))
  BY Magnitudes
<1>2. Floor(num, den, f) = I
  <2>1. I \in 0 .. I /\ Ulps(f, I) * den <= num /\ (I < I => num < Ulps(f, I + 1) * den)
    <3>1. Ulps(f, I) * den \in Int
      BY <1>1, TimesTyped
    <3>2. QED BY <1>1, <3>1
  <2> HIDE DEF I
  <2>2. QED BY <2>1, FloorIs DEF I
<1>3. RoundedPattern(num, den, n, f, r) = c
  <2>1. RoundedPattern(num, den, n, f, r)
          = IF r \in {"Nearest", "NearestAway"} \/ GoesUp(1, 1, 0, 0, TRUE, n, r) THEN I ELSE I - 1
    BY <1>2 DEF RoundedPattern
  <2>2. r \notin {"Nearest", "NearestAway"} => (GoesUp(1, 1, 0, 0, TRUE, n, r)
                                               <=> (r = "Plus" /\ ~n) \/ (r = "Minus" /\ n))
    <3>1. CASE r = "Plus"
      BY <3>1 DEF GoesUp
    <3>2. CASE r = "Minus"
      BY <3>2 DEF GoesUp
    <3>3. CASE r = "Zero"
      BY <3>3 DEF GoesUp
    <3>4. QED BY <3>1, <3>2, <3>3 DEF Modes
  <2>3. QED BY <2>1, <2>2
<1>4. ~(c < I /\ Ulps(f, c) * den = num)
  <2>1. SUFFICES ASSUME c < I, Ulps(f, c) * den = num PROVE FALSE
    OBVIOUS
  <2>2. c = I - 1 /\ c \in 0 .. I /\ I \in 0 .. I
    BY <1>1, <2>1
  <2>3. Ulps(f, c) < Ulps(f, I) /\ Ulps(f, c) \in Nat /\ Ulps(f, I) \in Nat
    BY <1>1, <2>1, <2>2
  <2> DEFINE p == Ulps(f, c)
             q == Ulps(f, I)
  <2>4. p * den = num /\ num >= q * den /\ p < q /\ p \in Nat /\ q \in Nat
    BY <2>1, <2>3
  <2> HIDE DEF p, q
  <2>5. p * den < q * den /\ p * den \in Int /\ q * den \in Int
    BY <2>4, TimesStrict, TimesTyped
  <2>6. QED BY <2>4, <2>5
<1>5. ~(num < pow2[f.mantissa_bits] * den)
  <2>1. pow2[f.mantissa_bits] * den \in Int
    BY Scales, TimesTyped
  <2>2. QED BY <2>1
<1>6. Rounded(num, den, n, f, r)
        = Raising(zero(f, n) + c,
                  (IF c < I /\ Ulps(f, c) * den = num THEN {} ELSE {"INEXACT"})
                  \cup (IF c = I \/ (c = max_finite(f) /\ num >= Ulps(f, I) * den) THEN {"OVERFLOW"} ELSE {})
                  \cup (IF ~(c < I /\ Ulps(f, c) * den = num) /\ num < pow2[f.mantissa_bits] * den
                        THEN {"UNDERFLOW"} ELSE {}))
  <2> HIDE DEF c
  <2>1. QED BY <1>3 DEF Rounded
<1>7. c = I \/ (c = max_finite(f) /\ num >= Ulps(f, I) * den)
  BY DEF max_finite
<1>8. Rounded(num, den, n, f, r) = Raising(zero(f, n) + c, {"OVERFLOW", "INEXACT"})
  <2> HIDE DEF c, I
  <2>1. {"INEXACT"} \cup {"OVERFLOW"} \cup {} = {"OVERFLOW", "INEXACT"}
    OBVIOUS
  <2>2. QED BY <1>4, <1>5, <1>6, <1>7, <2>1
<1>9. overflow(n, f, r) = Raising(zero(f, n) + c, {"OVERFLOW", "INEXACT"})
  <2>1. overflow(n, f, r) = Raising(IF r \in {"Nearest", "NearestAway"} \/ (r = "Plus" /\ ~n) \/ (r = "Minus" /\ n)
                                    THEN signed_infinity(f, n) ELSE max_finite(f) + zero(f, n),
                                    {"OVERFLOW", "INEXACT"})
    <3>1. CASE r \in {"Nearest", "NearestAway"}
      BY <3>1 DEF overflow
    <3>2. CASE r = "Plus"
      BY <3>2 DEF overflow
    <3>3. CASE r = "Minus"
      BY <3>3 DEF overflow
    <3>4. CASE r = "Zero"
      BY <3>4 DEF overflow
    <3>5. QED BY <3>1, <3>2, <3>3, <3>4 DEF Modes
  <2>2. signed_infinity(f, n) = zero(f, n) + I /\ max_finite(f) + zero(f, n) = zero(f, n) + (I - 1)
    <3>1. zero(f, n) \in Int
      BY FormatSizes DEF zero, Sizes
    <3>2. QED BY <1>1, <3>1 DEF signed_infinity, max_finite
  <2>3. QED BY <2>1, <2>2
<1>10. QED BY <1>8, <1>9

(***************************************************************************)
(* The guard bits decide as the exact value does.                          *)
(***************************************************************************)
\* T significand bits and three guard bits D with a sticky bit, for num / Q.
Guards(T, D, t, num, Q) ==
    /\ T * Q <= num /\ num < (T + 1) * Q
    /\ (num = T * Q) <=> (D = 0 /\ ~t)
    /\ (2 * num > (2 * T + 1) * Q) <=> (D > 4 \/ (D = 4 /\ t))
    /\ (2 * num = (2 * T + 1) * Q) <=> (D = 4 /\ ~t)

\* Products of a significand split at its guard bits.
LEMMA GuardProducts ==
    ASSUME NEW T \in Nat, NEW Q \in Nat
    PROVE  /\ T * Q \in Nat /\ (T + 1) * Q = T * Q + Q /\ (2 * T + 1) * Q = 2 * (T * Q) + Q
           /\ \A D \in Nat : (8 * T + D) * Q = 8 * (T * Q) + D * Q
<1>1. T * Q \in Nat
  BY TimesTyped
<1>2. (T + 1) * Q = T * Q + Q /\ (2 * T + 1) * Q = 2 * (T * Q) + Q
  BY Z3
<1>3. \A D \in Nat : (8 * T + D) * Q = 8 * (T * Q) + D * Q
  BY Z3
<1>4. QED BY <1>1, <1>2, <1>3

\* A significand split at its guard bits.
LEMMA EighthsAre ==
    ASSUME NEW S \in Nat
    PROVE  /\ S \div 8 \in Nat /\ S % 8 \in 0 .. 7 /\ S = 8 * (S \div 8) + (S % 8)
  BY Z3

\* The guard bits of a floor place the rational in its interval.
LEMMA FloorsGuards ==
    ASSUME NEW S \in Nat, NEW t \in BOOLEAN, NEW num \in Nat, NEW Q \in Nat \ {0}, Floors(S, t, num * 8, Q)
    PROVE  Guards(S \div 8, S % 8, t, num, Q)
<1> DEFINE T == S \div 8
           D == S % 8
           X == T * Q
<1>1. T \in Nat /\ D \in 0 .. 7 /\ S = 8 * T + D
  BY EighthsAre
<1> HIDE DEF T, D
<1>2. /\ X \in Nat /\ (T + 1) * Q = X + Q /\ (2 * T + 1) * Q = 2 * X + Q
      /\ S * Q = 8 * X + D * Q /\ (S + 1) * Q = 8 * X + (D + 1) * Q
  <2>1. T \in Nat /\ Q \in Nat /\ D \in Nat /\ D + 1 \in Nat /\ S + 1 = 8 * T + (D + 1)
    BY <1>1
  <2>2. (8 * T + D) * Q = 8 * X + D * Q /\ (8 * T + (D + 1)) * Q = 8 * X + (D + 1) * Q
    BY <2>1, GuardProducts
  <2>3. QED BY <1>1, <2>1, <2>2, GuardProducts
<1>3. S * Q <= num * 8 /\ num * 8 < (S + 1) * Q /\ (t <=> num * 8 # S * Q)
  BY DEF Floors
<1> HIDE DEF X
<1>4. 8 * X + D * Q <= num * 8 /\ num * 8 < 8 * X + (D + 1) * Q /\ (t <=> num * 8 # 8 * X + D * Q)
  BY <1>2, <1>3
<1>5. /\ X <= num /\ num < X + Q
      /\ (num = X) <=> (D = 0 /\ ~t)
      /\ (2 * num > 2 * X + Q) <=> (D > 4 \/ (D = 4 /\ t))
      /\ (2 * num = 2 * X + Q) <=> (D = 4 /\ ~t)
  <2>1. D = 0 \/ D = 1 \/ D = 2 \/ D = 3 \/ D = 4 \/ D = 5 \/ D = 6 \/ D = 7
    BY <1>1
  <2>2. CASE D = 0
    BY <1>2, <1>4, <2>2
  <2>3. CASE D = 1
    BY <1>2, <1>4, <2>3
  <2>4. CASE D = 2
    BY <1>2, <1>4, <2>4
  <2>5. CASE D = 3
    BY <1>2, <1>4, <2>5
  <2>6. CASE D = 4
    BY <1>2, <1>4, <2>6
  <2>7. CASE D = 5
    BY <1>2, <1>4, <2>7
  <2>8. CASE D = 6
    BY <1>2, <1>4, <2>8
  <2>9. CASE D = 7
    BY <1>2, <1>4, <2>9
  <2>10. QED BY <2>1, <2>2, <2>3, <2>4, <2>5, <2>6, <2>7, <2>8, <2>9
<1>6. Guards(T, D, t, num, Q)
  BY <1>2, <1>5 DEF Guards, X
<1>7. QED BY <1>6 DEF T, D

\* So do those of a doubled floor, whose lowest bit is clear.
LEMMA DoubledGuards ==
    ASSUME NEW S \in Nat, NEW t \in BOOLEAN, NEW num \in Nat, NEW Q \in Nat \ {0},
           NEW q \in Nat, S = 2 * q, Floors(q, t, num * 8, 2 * Q)
    PROVE  Guards(S \div 8, S % 8, t, num, Q)
<1> DEFINE T == S \div 8
           D == S % 8
           X == T * Q
<1>1. T \in Nat /\ D \in 0 .. 7 /\ S = 8 * T + D
  BY EighthsAre
<1> HIDE DEF T, D
<1>2. D = 0 \/ D = 2 \/ D = 4 \/ D = 6
  BY <1>1
<1>3. /\ X \in Nat /\ (T + 1) * Q = X + Q /\ (2 * T + 1) * Q = 2 * X + Q
      /\ q * (2 * Q) = 8 * X + D * Q /\ (q + 1) * (2 * Q) = 8 * X + (D + 2) * Q
  <2>1. T \in Nat /\ Q \in Nat /\ D \in Nat /\ D + 2 \in Nat /\ S + 2 = 8 * T + (D + 2)
    BY <1>1
  <2>2. (8 * T + D) * Q = 8 * X + D * Q /\ (8 * T + (D + 2)) * Q = 8 * X + (D + 2) * Q
    BY <2>1, GuardProducts
  <2>3. q * (2 * Q) = (2 * q) * Q /\ (q + 1) * (2 * Q) = (2 * q + 2) * Q
    BY Z3
  <2>4. QED BY <1>1, <2>1, <2>2, <2>3, GuardProducts
<1>4. q * (2 * Q) <= num * 8 /\ num * 8 < (q + 1) * (2 * Q) /\ (t <=> num * 8 # q * (2 * Q))
  BY DEF Floors
<1> HIDE DEF X
<1>5. 8 * X + D * Q <= num * 8 /\ num * 8 < 8 * X + (D + 2) * Q /\ (t <=> num * 8 # 8 * X + D * Q)
  BY <1>3, <1>4
<1>6. /\ X <= num /\ num < X + Q
      /\ (num = X) <=> (D = 0 /\ ~t)
      /\ (2 * num > 2 * X + Q) <=> (D > 4 \/ (D = 4 /\ t))
      /\ (2 * num = 2 * X + Q) <=> (D = 4 /\ ~t)
  <2>1. CASE D = 0
    BY <1>3, <1>5, <2>1
  <2>2. CASE D = 2
    BY <1>3, <1>5, <2>2
  <2>3. CASE D = 4
    BY <1>3, <1>5, <2>3
  <2>4. CASE D = 6
    BY <1>3, <1>5, <2>4
  <2>5. QED BY <1>2, <2>1, <2>2, <2>3, <2>4
<1>7. Guards(T, D, t, num, Q)
  BY <1>3, <1>6 DEF Guards, X
<1>8. QED BY <1>7 DEF T, D

\* At or above the smallest normal exponent, the unit above the guard bits is
\* 2^k smallest subnormals.
LEMMA NormalGuards ==
    ASSUME NEW f \in Formats, NEW S \in Nat, NEW t \in BOOLEAN, NEW e \in Int, NEW num \in Nat,
           NEW den \in Nat \ {0}, NearStands(S, t, e, num, den, f),
           NEW k \in Nat, k = e - min_exponent(f), NEW Q, Q = den * pow2[k]
    PROVE  Q \in Nat \ {0} /\ Guards(S \div 8, S % 8, t, num, Q)
<1>1. min_exponent(f) \in Int
  BY MinExponentIs
<1>2. Q \in Nat \ {0} /\ pow2[k] \in Nat /\ pow2[k + 1] = 2 * pow2[k]
  <2>1. pow2[k] \in Nat \ {0} /\ pow2[k + 1] = 2 * pow2[k]
    BY PowSucc
  <2>2. den * pow2[k] \in Int /\ den * pow2[k] > 0
    BY <2>1, TimesTyped
  <2>3. QED BY <2>1, <2>2
<1>3. pow2[3] = 8 /\ 3 \in Nat
  BY PowValues
<1>4. CASE Stands(S, t, e, num, den, f)
  <2>1. k - 3 = e - min_exponent(f) - 3
    BY <1>1
  <2>2. Floors(S, t, num * pow2[3], den * pow2[k])
    BY <1>1, <1>3, <1>4, <2>1, StandsAt
  <2>3. Floors(S, t, num * 8, Q)
    BY <1>3, <2>2
  <2>4. QED BY <1>2, <2>3, FloorsGuards
<1>5. CASE \E q \in Nat : S = 2 * q /\ Stands(q, t, e + 1, num, den, f)
  <2>1. PICK q \in Nat : S = 2 * q /\ Stands(q, t, e + 1, num, den, f)
    BY <1>5
  <2>2. k + 1 \in Nat /\ (k + 1) - 3 = (e + 1) - min_exponent(f) - 3 /\ e + 1 \in Int
    BY <1>1
  <2>3. Floors(q, t, num * pow2[3], den * pow2[k + 1])
    <3> DEFINE j == k + 1
               x == e + 1
               me == min_exponent(f)
    <3>1. j \in Nat /\ x \in Int /\ me \in Int /\ j - 3 = x - me - 3 /\ me = min_exponent(f)
      BY <1>1
    <3>2. Stands(q, t, x, num, den, f)
      BY <2>1
    <3> HIDE DEF j, x, me
    <3>3. j - 3 = x - min_exponent(f) - 3
      BY <3>1
    <3>4. Floors(q, t, num * pow2[3], den * pow2[j])
      BY <1>3, <3>1, <3>2, <3>3, StandsAt, SMTT(30)
    <3>5. QED BY <3>4 DEF j
  <2>4. den * pow2[k + 1] = 2 * Q
    <3>1. \A x \in Nat : den * (2 * x) = 2 * (den * x)
      BY Z3
    <3>2. QED BY <1>2, <3>1
  <2>5. Floors(q, t, num * 8, 2 * Q)
    BY <1>3, <2>3, <2>4
  <2>6. QED BY <1>2, <2>1, <2>5, DoubledGuards
<1>6. QED BY <1>4, <1>5 DEF NearStands

\* The guard bits T, D of S, and b of the parity of T.
Aligned(S, T, D, t, num, Q, b, mid) ==
    /\ T = S \div 8 /\ D = S % 8 /\ Guards(T, D, t, num, Q) /\ b % 2 = T % 2 /\ mid = (2 * T + 1) * Q

\* should_round_up decides as the rational does.
LEMMA RoundUpAgrees ==
    ASSUME NEW S \in Nat, NEW T, NEW D, NEW t \in BOOLEAN, NEW num \in Nat, NEW Q \in Nat \ {0},
           NEW b \in Nat, NEW mid, Aligned(S, T, D, t, num, Q, b, mid), NEW n \in BOOLEAN, NEW r \in Modes
    PROVE  should_round_up(D, t, S, r, n) <=> Upward(num, mid, b, n, r)
<1>0. T = S \div 8 /\ D = S % 8 /\ mid = (2 * T + 1) * Q /\ b % 2 = T % 2 /\ Guards(T, D, t, num, Q)
  BY DEF Aligned
<1>1. T \in Nat /\ D \in 0 .. 7
  BY <1>0, EighthsAre
<1>2. ((2 * num > mid) <=> (D > 4 \/ (D = 4 /\ t))) /\ ((2 * num = mid) <=> (D = 4 /\ ~t))
  BY <1>0 DEF Guards
<1>3. pow2[2] = 4 /\ pow2[3] = 8 /\ 3 - 1 = 2
  BY PowValues
<1>4. mid \in Int
  BY <1>0, <1>1, TimesTyped
<1>5. b % 2 = T % 2
  BY <1>0
<1>6. CASE r = "Nearest"
  <2>1. should_round_up(D, t, S, r, n) <=> (D > 4 \/ (D = 4 /\ t) \/ (D = 4 /\ T % 2 = 1))
    BY <1>0, <1>3, <1>6 DEF should_round_up, GUARD_BITS
  <2>2. Upward(num, mid, b, n, r) <=> (2 * num > mid \/ (2 * num = mid /\ b % 2 = 1))
    BY <1>6 DEF Upward
  <2>3. QED BY <1>2, <1>5, <2>1, <2>2
<1>7. CASE r = "NearestAway"
  <2>1. should_round_up(D, t, S, r, n) <=> (D >= 4)
    BY <1>3, <1>7 DEF should_round_up, GUARD_BITS
  <2>2. Upward(num, mid, b, n, r) <=> (2 * num >= mid)
    BY <1>7 DEF Upward
  <2>3. (2 * num >= mid) <=> (2 * num > mid \/ 2 * num = mid)
    BY <1>4
  <2>4. (D >= 4) <=> (D > 4 \/ D = 4)
    BY <1>1
  <2>5. QED BY <1>2, <2>1, <2>2, <2>3, <2>4
<1>8. CASE r = "Plus"
  BY <1>8 DEF should_round_up, Upward
<1>9. CASE r = "Minus"
  BY <1>9 DEF should_round_up, Upward
<1>10. CASE r = "Zero"
  BY <1>10 DEF should_round_up, Upward
<1>11. QED BY <1>6, <1>7, <1>8, <1>9, <1>10 DEF Modes

(***************************************************************************)
(* Packing a normalised significand in the normal range.                   *)
(***************************************************************************)
\* The binade of exponent k + 1: significands of m + 1 bits, in units of 2^k.
LEMMA UlpsNormal ==
    ASSUME NEW f \in Formats, NEW M, M = pow2[f.mantissa_bits], NEW k \in Nat, k + 1 < max_exponent(f),
           NEW T \in Nat, M <= T, T < 2 * M, NEW b, b = k * M + T
    PROVE  /\ b \in Nat /\ b < infinity(f) /\ b % 2 = T % 2
           /\ Ulps(f, b) = T * pow2[k] /\ Ulps(f, b + 1) = (T + 1) * pow2[k]
<1> DEFINE E == pow2[f.exponent_bits]
           q == quiet_bit(f)
<1>1. /\ M \in Nat \ {0} /\ M = 2 * q /\ q \in Nat \ {0} /\ E \in Nat /\ max_exponent(f) = E - 1
      /\ infinity(f) = (E - 1) * M /\ infinity(f) \in Nat
  BY FormatSizes, Magnitudes DEF Sizes
<1> HIDE DEF E, q
<1>2. /\ k * M \in Nat /\ (k + 1) * M = k * M + M /\ (k + 2) * M = k * M + 2 * M
      /\ (k + 2) * M <= (E - 1) * M
  <2>1. k * M \in Nat /\ (k + 1) * M = k * M + M
    BY <1>1, TimesTyped, TimesSucc
  <2>2. k + 1 \in Int /\ k + 1 + 1 = k + 2
    OBVIOUS
  <2>3. (k + 2) * M = (k + 1) * M + M
    BY <1>1, <2>2, TimesSucc
  <2>4. (k + 2) * M <= (E - 1) * M
    BY <1>1, TimesMono
  <2>5. QED BY <1>1, <2>1, <2>3, <2>4
<1>3. b \in Nat /\ b < infinity(f) /\ b = (k + 1) * M + (T - M)
  BY <1>1, <1>2
<1>4. b % 2 = T % 2
  <2>1. k * M = 2 * (k * q) /\ k * q \in Nat
    BY <1>1, Z3
  <2> DEFINE z == k * q
  <2> HIDE DEF z
  <2>2. b = 2 * z + T /\ z \in Nat
    BY <2>1 DEF z
  <2>3. QED BY <2>2
<1>5. PICK pos \in BOOLEAN : ~pos
  OBVIOUS
<1>5a. zero(f, pos) = 0
  BY <1>5 DEF zero
<1>6. ASSUME NEW x \in 0 .. max_exponent(f), NEW y \in 0 .. M - 1, x # 0, NEW c, c = x * M + y
      PROVE  Ulps(f, c) = (y + M) * pow2[x - 1]
  <2>1. x * M + y \in Int
    BY <1>1, TimesTyped
  <2>2. c = Pattern(f, pos, x, y)
    BY <1>1, <1>5a, <1>6, <2>1 DEF Pattern
  <2>3. raw_exponent(f, c) = x /\ mantissa(f, c) = y
    BY <2>2, FieldsOfPattern
  <2>4. QED BY <1>6, <2>3, UlpsIs
<1>7. pow2[k] \in Nat /\ pow2[k + 1] = 2 * pow2[k]
  BY PowSucc
<1>8. k + 1 \in 0 .. max_exponent(f) /\ k + 1 # 0 /\ (k + 1) - 1 = k /\ k + 2 \in 0 .. max_exponent(f)
      /\ k + 2 # 0 /\ (k + 2) - 1 = k + 1 /\ T - M \in 0 .. M - 1 /\ (T - M) + M = T /\ 0 \in 0 .. M - 1
  <2>1. k + 1 \in 0 .. max_exponent(f) /\ k + 1 # 0 /\ (k + 1) - 1 = k /\ k + 2 \in 0 .. max_exponent(f)
        /\ k + 2 # 0 /\ (k + 2) - 1 = k + 1
    BY <1>1
  <2>2. T - M \in 0 .. M - 1 /\ (T - M) + M = T /\ 0 \in 0 .. M - 1
    BY <1>1
  <2>3. QED BY <2>1, <2>2
<1>9. Ulps(f, b) = T * pow2[k]
  <2>1. Ulps(f, b) = ((T - M) + M) * pow2[(k + 1) - 1]
    BY <1>3, <1>6, <1>8
  <2>2. QED BY <1>8, <2>1
<1>10. CASE T + 1 < 2 * M
  <2> DEFINE y == T + 1 - M
             x == k + 1
  <2>1. y \in 0 .. M - 1 /\ y + M = T + 1 /\ x \in 0 .. max_exponent(f) /\ x # 0 /\ b + 1 = x * M + y /\ x - 1 = k
    BY <1>1, <1>2, <1>3, <1>8, <1>10
  <2> HIDE DEF x, y
  <2>2. Ulps(f, b + 1) = (y + M) * pow2[x - 1]
    BY <1>6, <2>1
  <2>3. QED BY <1>3, <1>4, <1>9, <2>1, <2>2
<1>11. CASE T + 1 = 2 * M
  <2> DEFINE x == k + 2
             d == b + 1
  <2>1. x \in 0 .. max_exponent(f) /\ x # 0 /\ d = x * M + 0 /\ x - 1 = k + 1
    BY <1>1, <1>2, <1>3, <1>8, <1>11
  <2> HIDE DEF x, d
  <2>2. Ulps(f, d) = (0 + M) * pow2[x - 1]
    BY <1>6, <1>8, <2>1
  <2>3. M * (2 * pow2[k]) = (2 * M) * pow2[k]
    <3>1. \A p \in Nat : M * (2 * p) = (2 * M) * p
      BY <1>1, Z3
    <3>2. QED BY <1>7, <3>1
  <2>4. Ulps(f, d) = (T + 1) * pow2[k]
    BY <1>1, <1>7, <1>11, <2>1, <2>2, <2>3
  <2>5. QED BY <1>3, <1>4, <1>9, <2>4 DEF d
<1>12. QED BY <1>1, <1>10, <1>11

\* Rounding a normalised significand: it carries only out of all ones.
LEMMA RoundNormal ==
    ASSUME NEW f \in Formats, NEW M, M = pow2[f.mantissa_bits], NEW S \in Nat, 8 * M <= S, S < 16 * M,
           NEW e \in Int, NEW t \in BOOLEAN, NEW r, NEW n,
           NEW T, T = S \div 8, NEW D, D = S % 8,
           NEW up \in BOOLEAN, up <=> should_round_up(D, t, S, r, n)
    PROVE  LET w == round_significand(S, e, t, r, n)
           IN  /\ T \in Nat /\ D \in 0 .. 7 /\ M <= T /\ T < 2 * M /\ M \in Nat \ {0}
               /\ D = 0 /\ ~t => w = [significand |-> S, exponent |-> e, raised |-> {}]
               /\ ~(D = 0 /\ ~t) =>
                    /\ ~up => w = [significand |-> 8 * T, exponent |-> e, raised |-> {"INEXACT"}]
                    /\ up /\ T + 1 < 2 * M =>
                         w = [significand |-> 8 * (T + 1), exponent |-> e, raised |-> {"INEXACT"}]
                    /\ up /\ T + 1 = 2 * M =>
                         w = [significand |-> 8 * M, exponent |-> e + 1, raised |-> {"INEXACT"}]
<1> DEFINE g == scale(f)
           w == round_significand(S, e, t, r, n)
           rounded == IF up THEN 8 * (T + 1) ELSE 8 * T
<1>1. /\ M \in Nat \ {0} /\ g \in Nat /\ pow2[g] = 8 * M /\ pow2[g + 1] = 16 * M /\ g + 2 <= WORD
      /\ WORD \in Nat
  BY Scales
<1>2. T \in Nat /\ D \in 0 .. 7 /\ S = 8 * T + D
  BY EighthsAre
<1>3. M <= T /\ T < 2 * M
  BY <1>1, <1>2
<1>4. leading(S) = g /\ pow2[g + 2] = 32 * M
  <2>1. g \in 0 .. 2 * WORD /\ g + 1 + 1 = g + 2 /\ g + 1 \in Nat
    BY <1>1
  <2>2. leading(S) = g
    BY <1>1, <2>1, LeadingUnique
  <2>3. pow2[g + 2] = 32 * M
    BY <1>1, <2>1, PowSucc
  <2>4. QED BY <2>2, <2>3
<1>5. ASSUME NEW x \in Nat, 8 * M <= x, x < 16 * M PROVE leading(x) = g
  <2>1. g \in 0 .. 2 * WORD
    BY <1>1
  <2>2. QED BY <1>1, <1>5, <2>1, LeadingUnique
<1>6. ASSUME NEW x \in Nat, x = 16 * M PROVE leading(x) = g + 1
  <2> DEFINE j == g + 1
  <2>1. j \in 0 .. 2 * WORD /\ pow2[j] <= x /\ pow2[j + 1] = 32 * M
    <3>1. g + 1 + 1 = g + 2
      BY <1>1
    <3>2. QED BY <1>1, <1>4, <1>6, <3>1
  <2> HIDE DEF j
  <2>2. x < pow2[j + 1]
    BY <1>1, <1>6, <2>1
  <2>3. leading(x) = j
    BY <2>1, <2>2, LeadingUnique
  <2>4. QED BY <2>3 DEF j
<1>7. pow2[3] = 8
  BY PowValues
<1>8. S - D = 8 * T /\ S - D + 8 = 8 * (T + 1)
  BY <1>2
<1>9. w = IF D = 0 /\ ~t THEN [significand |-> S, exponent |-> e, raised |-> {}]
          ELSE IF leading(rounded) > leading(S)
          THEN [significand |-> rounded \div 2, exponent |-> e + 1, raised |-> {"INEXACT"}]
          ELSE [significand |-> rounded, exponent |-> e, raised |-> {"INEXACT"}]
  BY <1>7, <1>8 DEF round_significand, GUARD_BITS
<1> HIDE DEF w, g
<1>10. ~up => rounded = 8 * T /\ leading(8 * T) = g
  BY <1>1, <1>2, <1>3, <1>5
<1>11. up /\ T + 1 < 2 * M => rounded = 8 * (T + 1) /\ leading(8 * (T + 1)) = g
  BY <1>1, <1>2, <1>3, <1>5
<1>12. up /\ T + 1 = 2 * M => rounded = 8 * (T + 1) /\ leading(8 * (T + 1)) = g + 1 /\ rounded \div 2 = 8 * M
  BY <1>1, <1>2, <1>3, <1>6
<1> HIDE DEF rounded
<1>13. ~(g > g) /\ g + 1 > g
  BY <1>1
<1>14. QED BY <1>2, <1>3, <1>1, <1>4, <1>9, <1>10, <1>11, <1>12, <1>13 DEF w

\* The first magnitude past the largest finite one.
LEMMA UlpsOfInfinity ==
    ASSUME NEW f \in Formats, NEW x, x = max_exponent(f)
    PROVE  x - 1 \in Nat /\ Ulps(f, infinity(f)) = pow2[f.mantissa_bits] * pow2[x - 1]
<1>1. PICK pos \in BOOLEAN : ~pos
  OBVIOUS
<1>2. infinity(f) \in Nat /\ pow2[f.mantissa_bits] \in Nat \ {0} /\ x \in Nat /\ x >= 3
  BY FormatSizes, Magnitudes DEF Sizes
<1>3. signed_infinity(f, pos) = infinity(f)
  BY <1>1, <1>2 DEF signed_infinity, zero
<1>4. raw_exponent(f, infinity(f)) = x /\ mantissa(f, infinity(f)) = 0
  BY <1>3, InfinityIsInfinite
<1>5. x \in 0 .. max_exponent(f) /\ 0 \in 0 .. pow2[f.mantissa_bits] - 1 /\ x # 0 /\ x - 1 \in Nat
  BY <1>2
<1>6. Ulps(f, infinity(f)) = (0 + pow2[f.mantissa_bits]) * pow2[x - 1]
  BY <1>4, <1>5, UlpsIs
<1>7. QED BY <1>2, <1>5, <1>6

\* A product of three, regrouped.
LEMMA Regrouped ==
    ASSUME NEW x \in Nat, NEW p \in Nat, NEW d \in Nat
    PROVE  (x * p) * d = x * (d * p) /\ x * (d * p) \in Nat
  BY Z3

\* Overflow is where rounding up from the largest finite pattern goes.
LEMMA OverflowsUp ==
    ASSUME NEW f \in Formats, NEW n \in BOOLEAN, NEW r \in Modes, NEW num, NEW mid, NEW b,
           Upward(num, mid, b, n, r)
    PROVE  overflow(n, f, r) = Raising(zero(f, n) + infinity(f), {"OVERFLOW", "INEXACT"})
<1>1. infinity(f) \in Nat /\ zero(f, n) \in Nat
  <2>1. sign_bit(f) \in Nat
    BY FormatSizes DEF Sizes
  <2>2. QED BY <2>1, Magnitudes DEF zero
<1>2. signed_infinity(f, n) = zero(f, n) + infinity(f)
  BY <1>1 DEF signed_infinity
<1>3. CASE r \in {"Nearest", "NearestAway"}
  BY <1>2, <1>3 DEF overflow
<1>4. CASE r = "Plus"
  BY <1>2, <1>4 DEF overflow, Upward
<1>5. CASE r = "Minus"
  BY <1>2, <1>5 DEF overflow, Upward
<1>6. CASE r = "Zero"
  BY <1>6 DEF Upward
<1>7. QED BY <1>3, <1>4, <1>5, <1>6 DEF Modes

\* pack_normalised at or above the smallest normal exponent is correct rounding.
LEMMA PackNormal ==
    ASSUME NEW f \in Formats, NEW S \in Nat, pow2[scale(f)] <= S, S < pow2[scale(f) + 1],
           NEW t \in BOOLEAN, NEW e \in Int, e >= min_exponent(f), NEW num \in Nat, NEW den \in Nat \ {0},
           NearStands(S, t, e, num, den, f), NEW n \in BOOLEAN, NEW r \in Modes
    PROVE  pack_normalised(Unpacked(n, e, S), t, f, r) = Rounded(num, den, n, f, r)
<1> DEFINE M == pow2[f.mantissa_bits]
           bias == exponent_bias(f)
           X == max_exponent(f)
           k == e - min_exponent(f)
           Q == den * pow2[k]
           T == S \div 8
           D == S % 8
           w == round_significand(S, e, t, r, n)
           exact == D = 0 /\ ~t
           P == pack_normalised(Unpacked(n, e, S), t, f, r)
<1>1. /\ M \in Nat \ {0} /\ 8 * M <= S /\ S < 16 * M /\ bias \in Int /\ X \in Nat /\ X >= 3
      /\ min_exponent(f) = 1 - bias /\ X = 2 * bias + 1 /\ infinity(f) = X * M /\ infinity(f) \in Nat
      /\ zero(f, n) \in Nat
  <2>1. 8 * M <= S /\ S < 16 * M
    BY Scales
  <2>2. M \in Nat \ {0} /\ bias \in Int /\ X \in Nat /\ X >= 3 /\ X = 2 * bias + 1 /\ infinity(f) = X * M
    BY FormatSizes DEF Sizes
  <2>3. sign_bit(f) \in Nat
    BY FormatSizes DEF Sizes
  <2>4. QED BY <2>1, <2>2, <2>3, MinExponentIs, Magnitudes DEF zero
<1>2. k \in Nat /\ e = k + 1 - bias /\ e - bias = k + 1 - 2 * bias /\ e + bias = k + 1
  BY <1>1
<1>3. PICK up \in BOOLEAN : up <=> should_round_up(D, t, S, r, n)
  OBVIOUS
<1>4. /\ T \in Nat /\ D \in 0 .. 7 /\ M <= T /\ T < 2 * M
      /\ exact => w = [significand |-> S, exponent |-> e, raised |-> {}]
      /\ ~exact =>
           /\ ~up => w = [significand |-> 8 * T, exponent |-> e, raised |-> {"INEXACT"}]
           /\ up /\ T + 1 < 2 * M =>
                w = [significand |-> 8 * (T + 1), exponent |-> e, raised |-> {"INEXACT"}]
           /\ up /\ T + 1 = 2 * M =>
                w = [significand |-> 8 * M, exponent |-> e + 1, raised |-> {"INEXACT"}]
  BY <1>1, <1>3, RoundNormal
<1>5. Q \in Nat \ {0} /\ Guards(T, D, t, num, Q)
  <2> HIDE DEF k
  <2>1. k = e - min_exponent(f)
    BY DEF k
  <2>2. QED BY <1>2, <2>1, NormalGuards
<1>6. /\ P = IF w.exponent > bias THEN overflow(n, f, r)
             ELSE Raising(zero(f, n) + (w.exponent + bias) * M + ((w.significand \div 8) % M), w.raised)
  <2>1. ~(e < min_exponent(f)) /\ pow2[3] = 8
    BY <1>1, PowValues
  <2>2. QED BY <2>1, UnpackedIs DEF pack_normalised, GUARD_BITS
<1> HIDE DEF w, P, k, Q, T, D, X, M, bias
<1>7. pow2[k] \in Nat \ {0}
  BY <1>2, PowSucc
<1>8. Q = den * pow2[k]
  BY DEF Q
<1>9. \A x \in Nat : (x * pow2[k]) * den = x * Q /\ x * Q \in Nat
  BY <1>7, <1>8, Regrouped
<1>10. T * Q <= num /\ num < (T + 1) * Q /\ (num = T * Q <=> exact)
  BY <1>5 DEF Guards
<1>11. num >= M * Q
  <2>1. M * Q <= T * Q
    BY <1>1, <1>4, <1>5, TimesMono
  <2>2. M * Q \in Nat /\ T * Q \in Nat
    BY <1>1, <1>4, <1>9
  <2>3. QED BY <1>10, <2>1, <2>2
<1>12. num >= M * den
  <2>1. M * den <= (M * den) * pow2[k] /\ (M * den) * pow2[k] = M * Q /\ M * den \in Nat
    <3>1. \A p \in Nat \ {0} : M * den <= (M * den) * p /\ (M * den) * p = M * (den * p) /\ M * den \in Nat
      BY <1>1, Z3
    <3>2. QED BY <1>7, <1>8, <3>1
  <2>2. M * Q \in Nat
    BY <1>1, <1>9
  <2>3. QED BY <1>11, <2>1, <2>2
<1>13. CASE k + 1 >= X
  <2>1. e > bias /\ e + 1 > bias
    BY <1>1, <1>2, <1>13
  <2>2. w.exponent \in {e, e + 1}
    BY <1>1, <1>4
  <2>3. P = overflow(n, f, r)
    BY <1>1, <1>6, <2>1, <2>2
  <2>4. X - 1 \in Nat /\ Ulps(f, infinity(f)) = M * pow2[X - 1]
    BY UlpsOfInfinity DEF X, M
  <2>5. pow2[X - 1] <= pow2[k] /\ pow2[X - 1] \in Nat
    <3> DEFINE y == X - 1
    <3>1. y \in Nat /\ y <= k
      BY <1>1, <1>2, <1>13
    <3> HIDE DEF y
    <3>2. pow2[y] <= pow2[k] /\ pow2[y] \in Nat
      BY <1>2, <3>1, PowMono, PowSucc
    <3>3. QED BY <3>2 DEF y
  <2>6. Ulps(f, infinity(f)) * den <= num
    <3> DEFINE p == pow2[X - 1]
    <3> HIDE DEF p
    <3>1. p \in Nat /\ p <= pow2[k] /\ Ulps(f, infinity(f)) = M * p
      BY <2>4, <2>5 DEF p
    <3>2. M * p <= M * pow2[k] /\ M * p \in Int /\ M * pow2[k] \in Int
      BY <1>1, <1>7, <3>1, TimesMono, TimesTyped
    <3>3. (M * p) * den <= (M * pow2[k]) * den
      BY <3>2, TimesMono
    <3>4. (M * pow2[k]) * den = M * Q /\ M * Q \in Nat /\ (M * p) * den \in Int
      BY <1>1, <1>9, <3>2, TimesTyped
    <3>5. QED BY <1>11, <3>1, <3>3, <3>4
  <2>7. Rounded(num, den, n, f, r) = overflow(n, f, r)
    <3>1. Ulps(f, infinity(f)) * den \in Int /\ M * den \in Int
      <4>1. infinity(f) \in 0 .. infinity(f)
        BY <1>1
      <4>2. Ulps(f, infinity(f)) \in Nat
        BY <4>1, Magnitudes
      <4>3. QED BY <1>1, <4>2, TimesTyped
    <3>2. num >= Ulps(f, infinity(f)) * den /\ num >= pow2[f.mantissa_bits] * den
      BY <1>12, <2>6, <3>1 DEF M
    <3>3. QED BY <3>2, RoundedOverflow
  <2>8. QED BY <2>3, <2>7 DEF P
<1>14. CASE k + 1 < X
  <2> DEFINE b == k * M + T
  <2>1a. b = k * M + T /\ M = pow2[f.mantissa_bits] /\ k + 1 < max_exponent(f)
    BY <1>14 DEF M, X
  <2> HIDE DEF b
  <2>1. /\ b \in Nat /\ b < infinity(f) /\ b % 2 = T % 2
        /\ Ulps(f, b) = T * pow2[k] /\ Ulps(f, b + 1) = (T + 1) * pow2[k]
    BY <1>2, <1>4, <2>1a, UlpsNormal
  <2>2. Ulps(f, b) * den = T * Q /\ Ulps(f, b + 1) * den = (T + 1) * Q
    BY <1>4, <1>9, <2>1
  <2>3. (Ulps(f, b) + Ulps(f, b + 1)) * den = (2 * T + 1) * Q
    <3>1. \A x \in Nat : T * x + (T + 1) * x = (2 * T + 1) * x
      BY <1>4, Z3
    <3>2. Ulps(f, b) + Ulps(f, b + 1) = (2 * T + 1) * pow2[k]
      BY <1>7, <2>1, <3>1
    <3>3. QED BY <1>4, <1>9, <3>2
  <2>4. up <=> Upward(num, (Ulps(f, b) + Ulps(f, b + 1)) * den, b, n, r)
    <3> DEFINE mid == (Ulps(f, b) + Ulps(f, b + 1)) * den
    <3>1. Aligned(S, T, D, t, num, Q, b, mid)
      BY <1>5, <2>1, <2>3 DEF Aligned, T, D
    <3> HIDE DEF mid
    <3>2. should_round_up(D, t, S, r, n) <=> Upward(num, mid, b, n, r)
      BY <1>5, <2>1, <3>1, RoundUpAgrees
    <3>3. QED BY <1>3, <3>2 DEF mid
  <2>5. PICK ex \in BOOLEAN : ex <=> exact
    OBVIOUS
  <2>6. PICK c \in Nat : c = IF ~ex /\ up THEN b + 1 ELSE b
    BY <2>1
  <2>7. Rounded(num, den, n, f, r)
          = Raising(zero(f, n) + c, (IF ex THEN {} ELSE {"INEXACT"})
                                    \cup (IF c = infinity(f) THEN {"OVERFLOW"} ELSE {}))
    <3>1. Between(num, den, b, ex, f) /\ Chosen(c, num, den, b, ex, n, f, r)
      BY <1>10, <2>1, <2>2, <2>4, <2>5, <2>6 DEF Between, Chosen
    <3>2. Rounded(num, den, n, f, r) = Raising(zero(f, n) + c, Flagged(ex, c, num, den, f))
      BY <2>1, <3>1, RoundedIs
    <3>3. ~(num < pow2[f.mantissa_bits] * den)
      <4>1. M * den \in Int
        BY <1>1, TimesTyped
      <4>2. QED BY <1>12, <4>1 DEF M
    <3>4. QED BY <3>2, <3>3 DEF Flagged
  <2>8. b = (k + 1) * M + (T - M) /\ (k + 2) * M = (k + 1) * M + M /\ (k + 1) * M \in Nat
    <3>1. k + 1 \in Int /\ k + 1 + 1 = k + 2
      BY <1>2
    <3>2. (k + 1) * M = k * M + M /\ (k + 2) * M = (k + 1) * M + M /\ (k + 1) * M \in Nat /\ k * M \in Int
      BY <1>1, <1>2, <3>1, TimesSucc, TimesTyped
    <3>3. QED BY <1>1, <1>4, <2>1a, <3>2
  <2>9. ~(e > bias) /\ (w.exponent = e => w.exponent + bias = k + 1)
    BY <1>1, <1>2, <1>14
  <2>10. ASSUME ex \/ ~up PROVE P = Rounded(num, den, n, f, r)
    <3>1. c = b /\ c # infinity(f)
      BY <1>1, <2>1, <2>6, <2>10
    <3>2. w.exponent = e /\ w.significand \div 8 = T /\ w.raised = IF ex THEN {} ELSE {"INEXACT"}
      <4>1. CASE ex
        BY <1>4, <2>5, <4>1 DEF T
      <4>2. CASE ~ex
        <5>1. (8 * T) \div 8 = T
          BY <1>4
        <5>2. QED BY <1>4, <2>5, <2>10, <4>2, <5>1
      <4>3. QED BY <4>1, <4>2
    <3>3. T % M = T - M
      BY <1>1, <1>4
    <3>4. P = Raising(zero(f, n) + (k + 1) * M + (T - M), IF ex THEN {} ELSE {"INEXACT"})
      BY <1>6, <2>9, <3>2, <3>3
    <3>5. zero(f, n) + (k + 1) * M + (T - M) = zero(f, n) + c
      BY <1>1, <1>4, <2>8, <3>1
    <3>6. QED BY <2>7, <3>1, <3>4, <3>5
  <2>11. ASSUME ~ex, up, T + 1 < 2 * M PROVE P = Rounded(num, den, n, f, r)
    <3>1. c = b + 1 /\ c # infinity(f)
      <4>1. infinity(f) = X * M /\ (k + 2) * M <= X * M /\ X * M \in Int
        BY <1>1, <1>2, <1>14, TimesMono, TimesTyped
      <4>2. QED BY <1>1, <1>4, <2>1, <2>6, <2>8, <2>11, <4>1
    <3>2. w.exponent = e /\ w.significand \div 8 = T + 1 /\ w.raised = {"INEXACT"}
      <4>1. (8 * (T + 1)) \div 8 = T + 1
        BY <1>4
      <4>2. QED BY <1>4, <2>5, <2>11, <4>1
    <3>3. (T + 1) % M = T + 1 - M
      BY <1>1, <1>4, <2>11
    <3>4. P = Raising(zero(f, n) + (k + 1) * M + (T + 1 - M), {"INEXACT"})
      BY <1>6, <2>9, <3>2, <3>3
    <3>5. zero(f, n) + (k + 1) * M + (T + 1 - M) = zero(f, n) + c
      BY <1>1, <1>4, <2>8, <3>1
    <3>6. QED BY <2>7, <2>11, <3>1, <3>4, <3>5
  <2>12. ASSUME ~ex, up, T + 1 = 2 * M PROVE P = Rounded(num, den, n, f, r)
    <3>1. c = (k + 2) * M
      BY <1>1, <1>4, <2>1, <2>6, <2>8, <2>12
    <3>2. w.exponent = e + 1 /\ w.significand \div 8 = M /\ w.raised = {"INEXACT"}
      <4>1. (8 * M) \div 8 = M
        BY <1>1
      <4>2. QED BY <1>4, <2>5, <2>12, <4>1
    <3>3. CASE k + 2 < X
      <4>1. ~(w.exponent > bias) /\ w.exponent + bias = k + 2 /\ M % M = 0
        BY <1>1, <1>2, <3>2, <3>3
      <4>2. c # infinity(f)
        <5>1. (k + 2) * M < X * M /\ (k + 2) * M \in Int /\ X * M \in Int
          BY <1>1, <1>2, <3>3, TimesStrict, TimesTyped
        <5>2. QED BY <1>1, <3>1, <5>1
      <4>3. P = Raising(zero(f, n) + (k + 2) * M + 0, {"INEXACT"})
        BY <1>6, <3>2, <4>1
      <4>4. zero(f, n) + (k + 2) * M + 0 = zero(f, n) + c
        BY <1>1, <2>6, <3>1
      <4>5. QED BY <2>7, <2>12, <4>2, <4>3, <4>4
    <3>4. CASE k + 2 = X
      <4>1. w.exponent > bias /\ c = infinity(f)
        BY <1>1, <1>2, <3>1, <3>2, <3>4
      <4>2. P = overflow(n, f, r)
        BY <1>6, <4>1
      <4>3. overflow(n, f, r) = Raising(zero(f, n) + infinity(f), {"OVERFLOW", "INEXACT"})
        BY <2>4, <2>12, OverflowsUp
      <4>4. QED BY <2>7, <2>12, <4>1, <4>2, <4>3
    <3>5. QED BY <1>1, <1>2, <1>14, <3>3, <3>4
  <2>13. QED BY <1>1, <1>4, <2>10, <2>11, <2>12 DEF P
<1>15. QED BY <1>1, <1>2, <1>13, <1>14

(***************************************************************************)
(* Packing below the normal range.                                         *)
(***************************************************************************)
LEMMA DoubleDivides ==
    ASSUME NEW q \in Nat, NEW p \in Nat \ {0}
    PROVE  (2 * q) \div (2 * p) = q \div p /\ ((2 * q) % (2 * p) # 0 <=> q % p # 0)
<1> DEFINE x == q \div p
           y == q % p
           d == 2 * p
           s == 2 * y
<1>1. x \in Int /\ y \in 0 .. p - 1 /\ q = p * x + y
  BY DivMod
<1> HIDE DEF x, y
<1>2. 2 * q = (2 * p) * x + 2 * y
  <2>1. \A z \in Int : 2 * (p * z) = (2 * p) * z /\ p * z \in Int
    BY Z3
  <2>2. QED BY <1>1, <2>1
<1>3. d \in Nat \ {0} /\ s \in 0 .. d - 1 /\ 2 * q = d * x + s
  BY <1>1, <1>2
<1> HIDE DEF d, s
<1>4. (d * x + s) \div d = x /\ (d * x + s) % d = s
  BY <1>1, <1>3, DivUnique
<1>5. (2 * q) \div d = x /\ (2 * q) % d = s
  BY <1>3, <1>4
<1>6. s # 0 <=> y # 0
  BY <1>1 DEF s
<1>7. QED BY <1>5, <1>6 DEF x, y, d

\* Shifting at least one bit out leaves the plain quotient and remainder.
LEMMA NearShift ==
    ASSUME NEW f \in Formats, NEW S \in Nat, NEW t \in BOOLEAN, NEW e \in Int,
           NEW num \in Nat, NEW den \in Nat \ {0}, NearStands(S, t, e, num, den, f),
           NEW s \in Nat \ {0}, NEW x, x = e + s, NEW u \in BOOLEAN, u <=> (t \/ S % pow2[s] # 0)
    PROVE  S \div pow2[s] \in Nat /\ Stands(S \div pow2[s], u, x, num, den, f)
<1>1. min_exponent(f) \in Int
  BY MinExponentIs
<1>2. CASE Stands(S, t, e, num, den, f)
  BY <1>1, <1>2, StandsShift
<1>3. CASE \E q \in Nat : S = 2 * q /\ Stands(q, t, e + 1, num, den, f)
  <2>1. PICK q \in Nat : S = 2 * q /\ Stands(q, t, e + 1, num, den, f)
    BY <1>3
  <2> DEFINE y == s - 1
             z == e + 1
  <2>2. y \in Nat /\ y + 1 = s /\ z \in Int /\ z + y = x /\ Stands(q, t, z, num, den, f)
    BY <2>1
  <2> HIDE DEF y, z
  <2>3. pow2[s] = 2 * pow2[y] /\ pow2[y] \in Nat \ {0}
    BY <2>2, PowSucc
  <2>4. S \div pow2[s] = q \div pow2[y] /\ (S % pow2[s] # 0 <=> q % pow2[y] # 0)
    BY <2>1, <2>3, DoubleDivides
  <2>5. u <=> (t \/ q % pow2[y] # 0)
    BY <2>4
  <2>6. q \div pow2[y] \in Nat /\ Stands(q \div pow2[y], u, z + y, num, den, f)
    BY <1>1, <2>2, <2>5, StandsShift
  <2>7. QED BY <2>2, <2>4, <2>6
<1>4. QED BY <1>2, <1>3 DEF NearStands

\* Below the normal range a pattern is its own magnitude.
LEMMA UlpsSubnormal ==
    ASSUME NEW f \in Formats, NEW n \in BOOLEAN, NEW y \in Nat, y <= pow2[f.mantissa_bits]
    PROVE  /\ zero(f, n) + y \in Patterns(f) /\ Ulps(f, y) = y /\ Ulps(f, zero(f, n) + y) = y
           /\ magnitude_bits(f, zero(f, n) + y) = y /\ is_negative(f, zero(f, n) + y) = n
           /\ y < infinity(f)
<1> DEFINE M == pow2[f.mantissa_bits]
<1>1. M \in Nat \ {0} /\ max_exponent(f) \in Nat /\ max_exponent(f) >= 3 /\ infinity(f) = max_exponent(f) * M
      /\ sign_bit(f) \in Nat
  BY FormatSizes DEF Sizes
<1>2. PICK pos \in BOOLEAN : ~pos
  OBVIOUS
<1>3. y < infinity(f)
  <2> DEFINE E == max_exponent(f)
             K == 3
  <2>1. M \in Nat /\ M \in Int /\ E \in Int /\ K \in Int /\ K <= E /\ y <= M
    BY <1>1
  <2> HIDE DEF M, E, K
  <2>2. K * M <= E * M /\ E * M \in Int
    BY <2>1, TimesMono, TimesTyped
  <2> USE DEF K
  <2>3. y < E * M
    BY <1>1, <2>1, <2>2
  <2>4. QED BY <1>1, <2>3 DEF E
<1>4. ASSUME NEW s \in BOOLEAN
      PROVE  /\ zero(f, s) + y \in Patterns(f) /\ Ulps(f, zero(f, s) + y) = y
             /\ magnitude_bits(f, zero(f, s) + y) = y /\ is_negative(f, zero(f, s) + y) = s
  <2>1. zero(f, s) \in Nat
    BY <1>1 DEF zero
  <2> DEFINE b == zero(f, s) + y
  <2>2. CASE y < M
    <3>1. y \in 0 .. M - 1 /\ 0 \in 0 .. max_exponent(f) /\ b = Pattern(f, s, 0, y) /\ 0 * M + y = y
      BY <1>1, <2>1, <2>2 DEF Pattern
    <3> HIDE DEF b
    <3>2. b \in Patterns(f) /\ raw_exponent(f, b) = 0 /\ mantissa(f, b) = y
          /\ magnitude_bits(f, b) = 0 * M + y /\ is_negative(f, b) = s
      BY <3>1, FieldsOfPattern
    <3>3. Ulps(f, b) = y
      BY <3>1, <3>2, UlpsIs
    <3>4. QED BY <3>1, <3>2, <3>3 DEF b
  <2>3. CASE y = M
    <3>1. 0 \in 0 .. M - 1 /\ 1 \in 0 .. max_exponent(f) /\ b = Pattern(f, s, 1, 0) /\ 1 * M + 0 = y
      BY <1>1, <2>1, <2>3 DEF Pattern
    <3> HIDE DEF b
    <3>2. b \in Patterns(f) /\ raw_exponent(f, b) = 1 /\ mantissa(f, b) = 0
          /\ magnitude_bits(f, b) = 1 * M + 0 /\ is_negative(f, b) = s
      BY <3>1, FieldsOfPattern
    <3>3. Ulps(f, b) = (0 + M) * pow2[1 - 1]
      BY <3>1, <3>2, UlpsIs
    <3>4. Ulps(f, b) = y
      BY <1>1, <2>3, <3>3, PowValues
    <3>5. QED BY <3>1, <3>2, <3>4 DEF b
  <2>4. QED BY <1>1, <2>2, <2>3
<1>5. Ulps(f, y) = y
  <2>1. zero(f, pos) + y = y
    BY <1>2 DEF zero
  <2>2. Ulps(f, zero(f, pos) + y) = y
    BY <1>4
  <2>3. QED BY <2>1, <2>2
<1>6. QED BY <1>3, <1>4, <1>5

\* A significand K at the smallest exponent, its guard bits, and what they decide.
Below(K, T, D, u, num, den, f) ==
    T = K \div 8 /\ D = K % 8 /\ T < pow2[f.mantissa_bits] /\ Guards(T, D, u, num, den)

\* What the guard bits say of the rational.
Decides(ex, up, D, u, K, n, r) ==
    (ex <=> (D = 0 /\ ~u)) /\ (up <=> should_round_up(D, u, K, r, n))

\* Correct rounding below the normal range, from the guard bits.
LEMMA RoundedSubnormal ==
    ASSUME NEW f \in Formats, NEW K \in Nat, NEW T, NEW D, NEW u \in BOOLEAN, NEW num \in Nat,
           NEW den \in Nat \ {0}, Below(K, T, D, u, num, den, f), NEW n \in BOOLEAN, NEW r \in Modes,
           NEW ex \in BOOLEAN, NEW up \in BOOLEAN, Decides(ex, up, D, u, K, n, r),
           NEW c \in Nat, c = IF ~ex /\ up THEN T + 1 ELSE T
    PROVE  /\ Rounded(num, den, n, f, r)
                = Raising(zero(f, n) + c, IF ex THEN {} ELSE {"INEXACT", "UNDERFLOW"})
           /\ num < pow2[f.mantissa_bits] * den
<1> DEFINE M == pow2[f.mantissa_bits]
<1>0. /\ T = K \div 8 /\ D = K % 8 /\ T < M /\ Guards(T, D, u, num, den)
      /\ ex <=> (D = 0 /\ ~u)
      /\ up <=> should_round_up(D, u, K, r, n)
  BY DEF Below, Decides
<1>1. M \in Nat \ {0} /\ T \in Nat /\ D \in 0 .. 7
  BY <1>0, Scales, EighthsAre
<1>2. T + 1 <= M /\ T <= M /\ T + 1 \in Nat
  BY <1>0, <1>1
<1>3. Ulps(f, T) = T /\ Ulps(f, T + 1) = T + 1 /\ T < infinity(f) /\ T + 1 < infinity(f)
  BY <1>1, <1>2, UlpsSubnormal
<1>4. T * den <= num /\ num < (T + 1) * den /\ (num = T * den <=> ex)
  BY <1>0 DEF Guards
<1>5. (Ulps(f, T) + Ulps(f, T + 1)) * den = (2 * T + 1) * den
  <2>1. T + (T + 1) = 2 * T + 1
    BY <1>1
  <2>2. QED BY <1>3, <2>1
<1>6. up <=> Upward(num, (Ulps(f, T) + Ulps(f, T + 1)) * den, T, n, r)
  <2> DEFINE mid == (Ulps(f, T) + Ulps(f, T + 1)) * den
  <2>1. Aligned(K, T, D, u, num, den, T, mid)
    BY <1>0, <1>5 DEF Aligned
  <2> HIDE DEF mid
  <2>2. should_round_up(D, u, K, r, n) <=> Upward(num, mid, T, n, r)
    BY <1>1, <2>1, RoundUpAgrees
  <2>3. QED BY <1>0, <2>2 DEF mid
<1>7. Between(num, den, T, ex, f) /\ Chosen(c, num, den, T, ex, n, f, r)
  BY <1>3, <1>4, <1>6 DEF Between, Chosen
<1>8. Rounded(num, den, n, f, r) = Raising(zero(f, n) + c, Flagged(ex, c, num, den, f))
  BY <1>1, <1>7, RoundedIs
<1>9. num < M * den
  <2>1. (T + 1) * den <= M * den /\ (T + 1) * den \in Int /\ M * den \in Int
    BY <1>1, <1>2, TimesMono, TimesTyped
  <2>2. QED BY <1>4, <2>1
<1>10. c # infinity(f)
  <2>1. infinity(f) \in Nat
    BY Magnitudes
  <2>2. QED BY <1>1, <1>3, <2>1
<1>11. QED BY <1>8, <1>9, <1>10 DEF Flagged

\* A carry that lengthens the significand comes from all ones: the sum is a
\* power of two.
LEMMA LengthensToPower ==
    ASSUME NEW f \in Formats, NEW K \in Nat, NEW T \in Nat, T = K \div 8, T < pow2[f.mantissa_bits],
           NEW y \in Nat, y = 8 * (T + 1), leading(y) > leading(K)
    PROVE  \E i \in 0 .. f.mantissa_bits : T + 1 = pow2[i]
<1> DEFINE m == f.mantissa_bits
           M == pow2[m]
           j == leading(y)
           k == leading(K)
<1>1. /\ m \in Nat \ {0} /\ M \in Nat \ {0} /\ WORD \in Nat /\ pow2[m + 3] = 8 * M /\ m + 5 <= WORD
      /\ m + 3 \in Nat
  <2>1. scale(f) = m + 3 /\ scale(f) + 2 <= WORD /\ WORD \in Nat /\ m \in Nat \ {0} /\ M \in Nat \ {0}
        /\ pow2[scale(f)] = 8 * M
    BY Scales
  <2>2. QED BY <2>1
<1>2. y <= 8 * M /\ y >= 8 /\ 8 * T <= K /\ K < y
  BY <1>1, EighthsAre
<1>3. y < pow2[2 * WORD + 1] /\ K < pow2[2 * WORD + 1] /\ pow2[2 * WORD + 1] \in Nat
  <2>1. 32 * M <= pow2[2 * WORD + 1] /\ pow2[2 * WORD + 1] \in Nat
    BY WordHolds
  <2>2. QED BY <1>1, <1>2, <2>1
<1>4. j \in Nat /\ pow2[j] <= y /\ y < pow2[j + 1] /\ pow2[j] \in Nat /\ pow2[j + 1] = 2 * pow2[j]
  <2>1. y \in Nat \ {0}
    BY <1>2
  <2>2. leading(y) \in 0 .. 2 * WORD /\ pow2[leading(y)] <= y /\ y < pow2[leading(y) + 1]
    BY <1>3, <2>1, LeadingIs
  <2>3. j \in Nat
    BY <1>1, <2>2
  <2> HIDE DEF j
  <2>4. QED BY <2>2, <2>3, PowSucc DEF j
<1>5. K < pow2[j]
  <2>1. CASE K = 0
    <3>1. pow2[j] \in Nat \ {0}
      BY <1>4, PowSucc
    <3>2. QED BY <2>1, <3>1
  <2>2. CASE K # 0
    <3>1. k \in 0 .. 2 * WORD /\ K < pow2[k + 1]
      BY <1>3, <2>2, LeadingIs
    <3>2. k \in Nat /\ k + 1 \in Nat /\ k + 1 <= j
      BY <1>1, <1>4, <3>1
    <3> HIDE DEF k, j
    <3>3. pow2[k + 1] <= pow2[j] /\ pow2[k + 1] \in Nat
      BY <1>4, <3>2, PowMono, PowSucc
    <3>4. QED BY <1>4, <3>1, <3>3 DEF k
  <2>3. QED BY <2>1, <2>2
<1> HIDE DEF j, k, m
<1>6. j >= 3
  <2>1. j <= 2 => pow2[j] <= pow2[2]
    BY <1>4, PowMono
  <2>2. pow2[2] = 4
    BY PowValues
  <2>3. ~(j <= 2)
    BY <1>2, <1>4, <2>1, <2>2
  <2>4. QED BY <1>4, <2>3
<1> DEFINE i == j - 3
<1>7. i \in Nat /\ j = i + 3
  BY <1>4, <1>6
<1> HIDE DEF i
<1>8. pow2[j] = pow2[i] * 8 /\ pow2[i] \in Nat \ {0}
  <2>1. pow2[j] = pow2[i] * pow2[3] /\ pow2[i] \in Nat \ {0}
    <3>1. 3 \in Nat
      OBVIOUS
    <3>2. QED BY <1>7, <3>1, PowSplit
  <2>2. QED BY <2>1, PowValues
<1>9. T + 1 = pow2[i]
  BY <1>2, <1>4, <1>5, <1>8
<1>10. ~(m + 1 <= i)
  <2>1. pow2[m + 1] = 2 * M
    BY <1>1, PowSucc
  <2>2. m + 1 <= i => pow2[m + 1] <= pow2[i]
    <3>1. m + 1 \in Nat
      BY <1>1
    <3>2. QED BY <1>7, <3>1, PowMono
  <2>3. T + 1 <= M
    BY <1>1 DEF m
  <2>4. QED BY <1>1, <1>8, <1>9, <2>1, <2>2, <2>3
<1>11. i \in 0 .. f.mantissa_bits
  BY <1>1, <1>7, <1>10 DEF m
<1>12. QED BY <1>9, <1>11

\* pack_subnormal is correct rounding but for the halved carry.
LEMMA PackSubnormal ==
    ASSUME NEW f \in Formats, NEW S \in Nat, pow2[scale(f)] <= S, S < pow2[scale(f) + 1],
           NEW t \in BOOLEAN, NEW e \in Int, e < min_exponent(f), NEW num \in Nat, NEW den \in Nat \ {0},
           NearStands(S, t, e, num, den, f), NEW n \in BOOLEAN, NEW r \in Modes
    PROVE  LET P == pack_subnormal(Unpacked(n, e, S), t, f, r)
               R == Rounded(num, den, n, f, r)
           IN  RoundedOrHalved(P, R, num, den, f) /\ (den = 1 => P = R)
<1> DEFINE P == pack_subnormal(Unpacked(n, e, S), t, f, r)
           R == Rounded(num, den, n, f, r)
           M == pow2[f.mantissa_bits]
           g == scale(f)
           me == min_exponent(f)
           s == me - e
           K == S \div pow2[s]
           T == K \div 8
           D == K % 8
<1>1. /\ M \in Nat \ {0} /\ 8 * M <= S /\ S < 16 * M /\ me \in Int /\ WORD \in Nat
      /\ g \in Nat /\ g + 2 <= WORD /\ pow2[g + 1] = 16 * M
  BY Scales, MinExponentIs
<1>2. s \in Nat \ {0} /\ me = e + s
  BY <1>1
<1>2a. NearStands(S, t, e, num, den, f)
  OBVIOUS
<1> HIDE DEF s, me, g
<1>3. pow2[s] \in Nat \ {0} /\ pow2[s] >= 2 /\ pow2[1] = 2
  <2>1. pow2[1] <= pow2[s]
    BY <1>2, PowMono
  <2>2. QED BY <1>2, <2>1, PowSucc, PowValues
<1>4. PICK u \in BOOLEAN : u <=> (t \/ S % pow2[s] # 0)
  OBVIOUS
<1>5. K \in Nat /\ Stands(K, u, me, num, den, f)
  BY <1>2, <1>2a, <1>4, NearShift
<1>6. K < 8 * M
  <2>1. S < pow2[s] * (8 * M)
    <3>1. \A p \in Nat : p >= 2 => 2 * (8 * M) <= p * (8 * M) /\ p * (8 * M) \in Int
      BY <1>1, Z3
    <3>2. QED BY <1>1, <1>3, <3>1
  <2> DEFINE p == pow2[s]
             z == 8 * M
  <2>2. p \in Nat \ {0} /\ z \in Int /\ S < p * z
    BY <1>1, <1>3, <2>1
  <2> HIDE DEF p, z
  <2>3. S \div p < z
    BY <2>2, DivBelow
  <2>4. QED BY <2>3 DEF p, z
<1>6a. S = pow2[s] * K + (S % pow2[s]) /\ S % pow2[s] \in Int
  <2> DEFINE p == pow2[s]
  <2>1. p \in Nat \ {0}
    BY <1>3
  <2> HIDE DEF p
  <2>2. S = p * (S \div p) + (S % p) /\ S % p \in Int
    BY <2>1, Z3
  <2>3. QED BY <2>2 DEF p
<1> HIDE DEF K
<1>7. T \in Nat /\ D \in 0 .. 7 /\ K = 8 * T + D /\ T < M
  BY <1>1, <1>5, <1>6, EighthsAre
<1>8. Guards(T, D, u, num, den)
  <2>1. pow2[0] = 1 /\ pow2[3] = 8 /\ 0 - 3 = me - me - 3
    BY <1>1, PowValues
  <2>2. Floors(K, u, num * pow2[3], den * pow2[0])
    BY <1>1, <1>5, <2>1, StandsAt DEF me
  <2>3. den * pow2[0] = den
    BY <2>1
  <2>4. Floors(K, u, num * 8, den)
    BY <2>1, <2>2, <2>3
  <2>5. QED BY <1>5, <2>4, FloorsGuards
<1>9. PICK ex \in BOOLEAN : ex <=> (D = 0 /\ ~u)
  OBVIOUS
<1>10. PICK up \in BOOLEAN : up <=> should_round_up(D, u, K, r, n)
  OBVIOUS
<1>11. PICK c \in Nat : c = IF ~ex /\ up THEN T + 1 ELSE T
  BY <1>7
<1>12. /\ R = Raising(zero(f, n) + c, IF ex THEN {} ELSE {"INEXACT", "UNDERFLOW"})
       /\ num < M * den
  <2>1. Below(K, T, D, u, num, den, f) /\ Decides(ex, up, D, u, K, n, r)
    BY <1>7, <1>8, <1>9, <1>10 DEF Below, Decides
  <2> HIDE DEF T, D
  <2>2. QED BY <1>5, <1>11, <2>1, RoundedSubnormal
<1>13. zero(f, n) \in Nat
  <2>1. sign_bit(f) \in Nat
    BY FormatSizes DEF Sizes
  <2>2. QED BY <2>1 DEF zero
<1>14. den = 1 => ex
  <2>1. ASSUME den = 1 PROVE ex
    <3>1. T * 1 <= num /\ num < (T + 1) * 1 /\ (num = T * 1 <=> ex)
      BY <1>8, <1>9, <2>1 DEF Guards
    <3>2. num = T * 1
      BY <1>7, <3>1
    <3>3. QED BY <3>1, <3>2
  <2>2. QED BY <2>1
<1>15. CASE s >= g + 1
  <2>1. K = 0
    <3>1. pow2[g + 1] <= pow2[s]
      BY <1>1, <1>2, <1>15, PowMono
    <3>2. S < pow2[s] * 1
      BY <1>1, <1>3, <3>1
    <3>3. K < 1
      BY <1>3, <3>2, DivBelow DEF K
    <3>4. QED BY <1>5, <3>3
  <2>2. T = 0 /\ D = 0
    BY <2>1
  <2>3. u
    <3>2. pow2[s] * K = 0
      BY <1>3, <2>1
    <3>3. S % pow2[s] # 0
      BY <1>1, <1>6a, <3>2
    <3>4. QED BY <1>4, <3>3
  <2>4. ~ex
    BY <1>9, <2>3
  <2>5. P = Raising(round_to_zero_or_minimum(n, f, r), {"UNDERFLOW", "INEXACT"})
    BY <1>15, UnpackedIs DEF pack_subnormal, g, s, me
  <2>6. up <=> ((r = "Plus" /\ ~n) \/ (r = "Minus" /\ n))
    <3>1. pow2[2] = 4 /\ 3 - 1 = 2 /\ pow2[3] = 8
      BY PowValues
    <3>2. CASE r = "Nearest"
      <4>1. should_round_up(D, u, K, r, n) <=> (D > 4 \/ (D = 4 /\ u) \/ (D = 4 /\ (K \div 8) % 2 = 1))
        BY <3>1, <3>2 DEF should_round_up, GUARD_BITS
      <4>2. QED BY <1>10, <2>2, <3>2, <4>1
    <3>3. CASE r = "NearestAway"
      <4>1. should_round_up(D, u, K, r, n) <=> D >= 4
        BY <3>1, <3>3 DEF should_round_up, GUARD_BITS
      <4>2. QED BY <1>10, <2>2, <3>3, <4>1
    <3>4. CASE r = "Plus"
      BY <1>10, <3>4 DEF should_round_up
    <3>5. CASE r = "Minus"
      BY <1>10, <3>5 DEF should_round_up
    <3>6. CASE r = "Zero"
      BY <1>10, <3>6 DEF should_round_up
    <3>7. QED BY <3>2, <3>3, <3>4, <3>5, <3>6 DEF Modes
  <2>7. round_to_zero_or_minimum(n, f, r) = zero(f, n) + c
    <3>1. c = IF up THEN 1 ELSE 0
      BY <1>11, <2>2, <2>4
    <3>2. QED BY <2>6, <3>1 DEF round_to_zero_or_minimum
  <2>8. P = R
    BY <1>12, <2>4, <2>5, <2>7
  <2>9. QED BY <2>8 DEF RoundedOrHalved
<1>16. CASE s < g + 1
  <2> DEFINE rounded == IF up THEN 8 * (T + 1) ELSE 8 * T
             w == round_significand(K, me, u, r, n)
  <2>1. P = Raising(zero(f, n) + (w.significand \div 8), IF w.raised = {} THEN {} ELSE {"INEXACT", "UNDERFLOW"})
    <3>1. (t \/ shift_right(S, s, WORD).lost) <=> u
      <4>1. s < WORD
        BY <1>1, <1>2, <1>16
      <4>2. QED BY <1>1, <1>2, <1>4, <4>1, ShiftRightIs, ZenonT(60) DEF K
    <3>2. (t \/ shift_right(S, s, WORD).lost) = u
      <4>1. shift_right(S, s, WORD).lost \in BOOLEAN
        BY <1>1, <1>2, ShiftRightIs
      <4>2. QED BY <3>1, <4>1
    <3>3. shift_right(S, s, WORD).kept = K
      <4>1. s < WORD
        BY <1>1, <1>2, <1>16
      <4>2. QED BY <1>1, <1>2, <4>1, ShiftRightIs DEF K
    <3>4. ~(s >= g + 1) /\ pow2[3] = 8
      BY <1>1, <1>2, <1>16, PowValues
    <3>5. QED BY <3>2, <3>3, <3>4, UnpackedIs DEF pack_subnormal, g, s, me, GUARD_BITS
  <2>2. w = IF ex THEN [significand |-> K, exponent |-> me, raised |-> {}]
            ELSE IF leading(rounded) > leading(K)
            THEN [significand |-> rounded \div 2, exponent |-> me + 1, raised |-> {"INEXACT"}]
            ELSE [significand |-> rounded, exponent |-> me, raised |-> {"INEXACT"}]
    <3>1. pow2[3] = 8 /\ K - D = 8 * T /\ K - D + 8 = 8 * (T + 1)
      BY <1>7, PowValues
    <3>2. QED BY <1>9, <1>10, <3>1 DEF round_significand, GUARD_BITS
  <2> HIDE DEF w
  <2>3. CASE ex
    <3>1. P = R
      BY <1>11, <1>12, <2>1, <2>2, <2>3
    <3>2. QED BY <3>1 DEF RoundedOrHalved
  <2>4. CASE ~ex /\ ~(leading(rounded) > leading(K))
    <3>1. w.significand \div 8 = c /\ w.raised = {"INEXACT"}
      <4>1. rounded = 8 * c
        BY <1>7, <1>11, <2>4
      <4>2. (8 * c) \div 8 = c
        OBVIOUS
      <4>3. QED BY <2>2, <2>4, <4>1, <4>2
    <3>2. P = R
      BY <1>12, <2>1, <2>4, <3>1
    <3>3. QED BY <3>2 DEF RoundedOrHalved
  <2>5. CASE ~ex /\ leading(rounded) > leading(K)
    <3>1. up
      <4>1. SUFFICES ASSUME ~up PROVE FALSE
        OBVIOUS
      <4>2. rounded = 8 * T
        BY <4>1
      <4>3. leading(8 * T) <= leading(K)
        <5> DEFINE z == 8 * T
        <5>1. z \in Nat /\ z <= K /\ K < pow2[2 * WORD + 1] /\ pow2[2 * WORD + 1] \in Nat
          BY <1>1, <1>5, <1>6, <1>7, WordHolds
        <5> HIDE DEF z
        <5>2. CASE z = 0
          <6>1. leading(z) = -1
            BY <5>2 DEF leading
          <6>2. K # 0 => leading(K) \in 0 .. 2 * WORD
            BY <1>5, <5>1, LeadingIs
          <6>3. K = 0 => leading(K) = -1
            BY DEF leading
          <6>4. QED BY <1>1, <6>1, <6>2, <6>3 DEF z
        <5>3. CASE z # 0
          <6> DEFINE a == leading(z)
                     b == leading(K)
          <6>1. a \in Nat /\ pow2[a] <= z /\ b \in Nat /\ K < pow2[b + 1]
            BY <1>1, <1>5, <5>1, <5>3, LeadingIs
          <6> HIDE DEF a, b
          <6>2. pow2[a] \in Nat /\ pow2[b + 1] \in Nat /\ (b + 1 <= a => pow2[b + 1] <= pow2[a])
            BY <6>1, PowSucc, PowMono
          <6>3. ~(b + 1 <= a)
            BY <1>5, <5>1, <6>1, <6>2
          <6>4. a <= b
            BY <6>1, <6>3
          <6>5. QED BY <6>4 DEF a, b, z
        <5>4. QED BY <5>2, <5>3
      <4>4. leading(8 * T) \in Int /\ leading(K) \in Int
        <5>1. ASSUME NEW z \in Nat, z <= K PROVE leading(z) \in Int
          <6>1. z < pow2[2 * WORD + 1]
            BY <1>1, <1>5, <1>6, <5>1, WordHolds
          <6>2. z # 0 => leading(z) \in 0 .. 2 * WORD
            BY <6>1, LeadingIs
          <6>3. z = 0 => leading(z) = -1
            BY DEF leading
          <6>4. QED BY <1>1, <6>2, <6>3
        <5>2. 8 * T \in Nat /\ 8 * T <= K /\ K <= K
          BY <1>5, <1>7
        <5>3. QED BY <1>5, <5>1, <5>2
      <4>5. QED BY <2>5, <4>2, <4>3, <4>4
    <3>2. c = T + 1 /\ rounded = 8 * c /\ c <= M
      BY <1>1, <1>7, <1>11, <2>5, <3>1
    <3>3. PICK i \in 0 .. f.mantissa_bits : c = pow2[i]
      <4> DEFINE y == 8 * (T + 1)
      <4>1. y \in Nat /\ leading(y) > leading(K) /\ T = K \div 8 /\ y = 8 * (T + 1)
        BY <1>7, <2>5, <3>2
      <4> HIDE DEF y, T
      <4>2. QED BY <1>5, <1>7, <3>2, <4>1, LengthensToPower
    <3>4. w.significand \div 8 = c \div 2 /\ w.raised = {"INEXACT"}
      <4>1. ((8 * c) \div 2) \div 8 = c \div 2
        OBVIOUS
      <4>2. QED BY <2>2, <2>5, <3>2, <4>1
    <3>5. P = Raising(zero(f, n) + (c \div 2), {"INEXACT", "UNDERFLOW"})
      BY <2>1, <3>4
    <3>6. R = Raising(zero(f, n) + c, {"INEXACT", "UNDERFLOW"})
      BY <1>12, <2>5
    <3>7. /\ magnitude_bits(f, zero(f, n) + c) = c /\ is_negative(f, zero(f, n) + c) = n
          /\ Ulps(f, zero(f, n) + c) = c
      BY <3>2, UlpsSubnormal
    <3>8. /\ magnitude_bits(f, zero(f, n) + (c \div 2)) = c \div 2 /\ is_negative(f, zero(f, n) + (c \div 2)) = n
      <4> DEFINE h == c \div 2
      <4>1. h \in Nat /\ h <= M
        BY <1>1, <3>2
      <4> HIDE DEF h
      <4>2. magnitude_bits(f, zero(f, n) + h) = h /\ is_negative(f, zero(f, n) + h) = n
        BY <4>1, UlpsSubnormal
      <4>3. QED BY <4>2 DEF h
    <3>9. c * den > num
      <4>1. num < (T + 1) * den /\ (T + 1) * den \in Int
        BY <1>7, <1>8, TimesTyped DEF Guards
      <4>2. QED BY <3>2, <4>1
    <3>10. P.bits = zero(f, n) + (c \div 2) /\ R.bits = zero(f, n) + c /\ P.raised = R.raised /\ "UNDERFLOW" \in R.raised
      BY <3>5, <3>6, RaisingIs
    <3>11. RoundedOrHalved(P, R, num, den, f)
      <4> HIDE DEF P, R
      <4>1. \E k \in 0 .. f.mantissa_bits : magnitude_bits(f, R.bits) = pow2[k]
        BY <3>3, <3>7, <3>10
      <4>2. /\ magnitude_bits(f, P.bits) = magnitude_bits(f, R.bits) \div 2
            /\ is_negative(f, P.bits) = is_negative(f, R.bits)
            /\ P.raised = R.raised /\ "UNDERFLOW" \in R.raised /\ Ulps(f, R.bits) * den > num
        BY <3>7, <3>8, <3>9, <3>10
      <4>3. QED BY <1>12, <4>1, <4>2 DEF RoundedOrHalved
    <3>12. QED BY <1>14, <2>5, <3>11
  <2>6. QED BY <2>3, <2>4, <2>5
<1>17. QED BY <1>1, <1>2, <1>15, <1>16

\* A significand of at least half the normalised length, unless it is exact,
\* that fits the word and stands for num / den.
Ready(S, t, e, num, den, f) ==
    /\ S # 0 /\ S < pow2[WORD] /\ (t => pow2[scale(f)] <= 2 * S)
    /\ Stands(S, t, e, num, den, f)

\* round_and_pack rounds correctly, but for the halved carry below the normal
\* range, which an integer number of smallest subnormals does not meet.
LEMMA RoundAndPackRounds ==
    ASSUME NEW f \in Formats, NEW v \in UnpackedValues, NEW t \in BOOLEAN, NEW num \in Nat,
           NEW den \in Nat \ {0}, Ready(v.significand, t, v.exponent, num, den, f),
           NEW r \in Modes, NEW c, ~is_flushing(f, c)
    PROVE  LET P == round_and_pack(v, t, f, r, c)
               R == Rounded(num, den, v.is_negative, f, r)
           IN  RoundedOrHalved(P, R, num, den, f) /\ (den = 1 => P = R)
<1> DEFINE P == round_and_pack(v, t, f, r, c)
           R == Rounded(num, den, v.is_negative, f, r)
           n == normalise(v, t, f)
           S == n.value.significand
           e == n.value.exponent
           neg == v.is_negative
           Q == pack_normalised(n.value, n.sticky, f, r)
<1>1. /\ n.value \in UnpackedValues /\ n.value.is_negative = v.is_negative /\ n.sticky \in BOOLEAN
      /\ pow2[scale(f)] <= S /\ S < pow2[scale(f) + 1]
      /\ NearStands(S, n.sticky, e, num, den, f)
  BY NormaliseStands DEF Ready
<1>2. P = Q
  BY DEF round_and_pack, Ready, apply_flush_to_zero
<1>3. S \in Nat /\ e \in Int /\ neg \in BOOLEAN /\ min_exponent(f) \in Int
  BY <1>1, MinExponentIs DEF UnpackedValues
<1>4. n.value = Unpacked(neg, e, S)
  BY <1>1 DEF UnpackedValues, Unpacked
<1> DEFINE u == n.sticky
<1>5. u \in BOOLEAN /\ Q = pack_normalised(Unpacked(neg, e, S), u, f, r) /\ R = Rounded(num, den, neg, f, r)
      /\ NearStands(S, u, e, num, den, f)
  BY <1>1, <1>4
<1> HIDE DEF P, Q, R, S, e, neg, u, n
<1>6. CASE e >= min_exponent(f)
  <2>1. Q = R
    BY <1>1, <1>3, <1>5, <1>6, PackNormal
  <2>2. QED BY <1>2, <2>1 DEF RoundedOrHalved, P, R
<1>7. CASE e < min_exponent(f)
  <2>1. Q = pack_subnormal(Unpacked(neg, e, S), u, f, r)
    BY <1>3, <1>5, <1>7, UnpackedIs DEF pack_normalised
  <2>2. RoundedOrHalved(Q, R, num, den, f) /\ (den = 1 => Q = R)
    BY <1>1, <1>3, <1>5, <1>7, <2>1, PackSubnormal
  <2>3. QED BY <1>2, <2>2 DEF P, R
<1>8. QED BY <1>3, <1>6, <1>7

(***************************************************************************)
(* Addition.                                                               *)
(***************************************************************************)
\* An unpacked operand stands for its magnitude exactly.
LEMMA CarriesStands ==
    ASSUME NEW f \in Formats, NEW u \in UnpackedValues, NEW U \in Nat, Carries(u, U, f), NEW no \in BOOLEAN, ~no
    PROVE  Stands(u.significand, no, u.exponent, U, 1, f)
<1> DEFINE S == u.significand
           me == min_exponent(f)
           k == u.exponent - me
<1>1. S \in Nat /\ u.exponent \in Int /\ me \in Int
  BY MinExponentIs DEF UnpackedValues
<1>2. k \in Int /\ (k >= 0 => S * pow2[k] = 8 * U) /\ (k < 0 => S = 8 * U * pow2[-k])
  BY DEF Carries
<1>3. k - 3 = u.exponent - me - 3
  BY <1>1
<1> HIDE DEF k, S
<1>4. CASE k >= 0
  <2>1. k \in Nat /\ pow2[k] \in Nat \ {0} /\ pow2[3] = 8 /\ 3 \in Nat
    BY <1>2, <1>4, PowSucc, PowValues
  <2>2. S * (1 * pow2[k]) = U * pow2[3] /\ 1 * pow2[k] = pow2[k]
    BY <1>2, <1>4, <2>1
  <2>3. (S + 1) * pow2[k] = S * pow2[k] + pow2[k] /\ S * pow2[k] \in Int
    BY <1>1, <2>1, TimesSucc
  <2>4. Floors(S, no, U * pow2[3], 1 * pow2[k])
    BY <2>1, <2>2, <2>3 DEF Floors
  <2>5. k - 3 = u.exponent - min_exponent(f) - 3
    BY <1>3
  <2>6. QED BY <2>1, <2>4, <2>5 DEF Stands, S
<1>5. CASE k < 0
  <2> DEFINE j == -k
             b == 3 + j
  <2>1. j \in Nat /\ b \in Nat /\ 0 - b = u.exponent - me - 3
    BY <1>1, <1>2, <1>3, <1>5
  <2>1a. b = 3 + j /\ 3 \in Nat
    OBVIOUS
  <2> HIDE DEF j, b
  <2>2. pow2[b] = pow2[3] * pow2[j] /\ pow2[j] \in Nat /\ pow2[3] = 8 /\ pow2[0] = 1
    BY <2>1, <2>1a, PowSplit, PowValues, ZenonT(60)
  <2>3. S = U * pow2[b]
    <3>1. \A p \in Nat : 8 * U * p = U * (8 * p)
      BY Z3
    <3>2. S = 8 * U * pow2[j]
      BY <1>2, <1>5 DEF j
    <3>3. QED BY <2>2, <3>1, <3>2
  <2>4. S * (1 * pow2[0]) = S /\ (S + 1) * (1 * pow2[0]) = S + 1
    BY <1>1, <2>2
  <2>5. Floors(S, no, U * pow2[b], 1 * pow2[0])
    BY <1>1, <2>3, <2>4 DEF Floors
  <2>6. QED BY <2>1, <2>5 DEF Stands, S, me
<1>6. QED BY <1>2, <1>4, <1>5

\* A floor with no sticky bit is an equation.
LEMMA ExactFloors ==
    ASSUME NEW S \in Nat, NEW no \in BOOLEAN, ~no, NEW N \in Nat, NEW P \in Nat \ {0}
    PROVE  Floors(S, no, N, P) <=> S * P = N
<1>1. (S + 1) * P = S * P + P /\ S * P \in Int
  BY TimesSucc
<1>2. QED BY <1>1 DEF Floors

\* A zero value, and only a zero value, stands as an exact zero.
LEMMA StandsZero ==
    ASSUME NEW f \in Formats, NEW S \in Nat, NEW t \in BOOLEAN, NEW e, NEW num \in Nat, NEW den \in Nat \ {0},
           Stands(S, t, e, num, den, f)
    PROVE  num = 0 <=> (S = 0 /\ ~t)
<1>1. PICK a \in Nat, b \in Nat : Floors(S, t, num * pow2[b], den * pow2[a])
  BY DEF Stands
<1> DEFINE N == num * pow2[b]
           P == den * pow2[a]
<1>2. P \in Nat \ {0} /\ N \in Nat /\ (N = 0 <=> num = 0)
  <2>1. pow2[a] \in Nat \ {0} /\ pow2[b] \in Nat \ {0}
    BY PowSucc
  <2>2. den * pow2[a] \in Int /\ den * pow2[a] > 0
    BY <2>1, TimesTyped
  <2>3. num * pow2[b] \in Int /\ num * pow2[b] >= 0 /\ (num > 0 => num * pow2[b] > 0)
    BY <2>1, TimesTyped
  <2>4. num = 0 => num * pow2[b] = 0
    BY <2>1
  <2>5. QED BY <2>2, <2>3, <2>4
<1>3. S * P <= N /\ N < (S + 1) * P /\ (t <=> N # S * P)
  BY <1>1 DEF Floors
<1> HIDE DEF N, P
<1>4. S * P \in Int /\ (S > 0 => S * P > 0) /\ (S = 0 => S * P = 0)
  BY <1>2, TimesTyped
<1>5. QED BY <1>2, <1>3, <1>4

\* A magnitude with a sign, as RoundedSum takes it apart.
Sign(n, U) == IF n THEN -U ELSE U

\* A signed sum rounds as its magnitude.
LEMMA SignedRounded ==
    ASSUME NEW U \in Nat, NEW n \in BOOLEAN, NEW den, NEW zn, NEW f, NEW r
    PROVE  /\ U # 0 => RoundedSum(Sign(n, U), den, zn, f, r) = Rounded(U, den, n, f, r)
           /\ U = 0 => RoundedSum(Sign(n, U), den, zn, f, r) = Exact(zero(f, zn))
<1>1. CASE U # 0
  <2>1. Sign(n, U) # 0 /\ Abs(Sign(n, U)) = U /\ (Sign(n, U) < 0) = n
    BY <1>1 DEF Sign, Abs
  <2>2. QED BY <1>1, <2>1 DEF RoundedSum
<1>2. CASE U = 0
  <2>1. U < 1
    BY <1>2
  <2>2. -U = U
    BY <2>1, NegatedZero
  <2>3. Sign(n, U) = 0
    BY <1>2, <2>2 DEF Sign
  <2>4. QED BY <1>2, <2>3 DEF RoundedSum
<1>3. QED BY <1>1, <1>2

\* An unpacked operand is ready to be packed.
LEMMA OperandReady ==
    ASSUME NEW f \in Formats, NEW u \in UnpackedValues, NEW U \in Nat, Carries(u, U, f), NEW no \in BOOLEAN, ~no
    PROVE  /\ Ready(u.significand, no, u.exponent, U, 1, f) /\ u.significand # 0
           /\ u = Unpacked(u.is_negative, u.exponent, u.significand)
<1>1. Stands(u.significand, no, u.exponent, U, 1, f)
  BY CarriesStands
<1>2. u.significand \in Nat
  BY DEF UnpackedValues
<1>3. u.significand # 0 /\ u.significand < pow2[WORD]
  <2>1. /\ pow2[f.mantissa_bits] \in Nat \ {0} /\ WORD \in Nat
        /\ pow2[scale(f)] = 8 * pow2[f.mantissa_bits] /\ scale(f) + 1 \in Nat /\ scale(f) + 1 <= WORD
    BY Scales
  <2>2. pow2[scale(f) + 1] <= pow2[WORD] /\ pow2[WORD] \in Nat /\ pow2[scale(f) + 1] \in Nat
    BY <2>1, PowMono, PowSucc
  <2>3. pow2[scale(f)] <= u.significand /\ u.significand < pow2[scale(f) + 1]
    BY DEF Carries
  <2>4. QED BY <1>2, <2>1, <2>2, <2>3
<1>4. u = Unpacked(u.is_negative, u.exponent, u.significand)
  BY DEF UnpackedValues, Unpacked
<1>5. QED BY <1>1, <1>3, <1>4 DEF Ready

\* An operand of add_finite and its magnitude in smallest subnormals.
Measures(u, U, f) == (u.significand = 0 => U = 0) /\ (u.significand # 0 => Carries(u, U, f))

\* What the operations see of a finite operand.
LEMMA FiniteOperand ==
    ASSUME NEW f \in Formats, NEW x \in Patterns(f), IsFinite(f, x)
    PROVE  LET u == unpack(x, f)
           IN  /\ ~is_nan(f, x) /\ ~is_infinite(f, x) /\ Ulps(f, x) \in Nat
               /\ u \in UnpackedValues /\ Measures(u, Ulps(f, x), f)
               /\ u.is_negative = is_negative(f, x) /\ is_negative(f, x) \in BOOLEAN
               /\ SignedUlps(f, x) = Sign(is_negative(f, x), Ulps(f, x))
               /\ is_zero(f, x) <=> Ulps(f, x) = 0
               /\ u.significand = 0 <=> is_zero(f, x)
<1> DEFINE u == unpack(x, f)
           e == raw_exponent(f, x)
           y == mantissa(f, x)
<1>1. e \in 0 .. max_exponent(f) /\ y \in 0 .. pow2[f.mantissa_bits] - 1 /\ is_negative(f, x) \in BOOLEAN
  BY PatternOfFields
<1>2. Ulps(f, x) \in Nat
  BY <1>1, UlpsIs
<1>3. /\ u \in UnpackedValues /\ u.is_negative = is_negative(f, x) /\ (u.significand = 0 <=> is_zero(f, x))
      /\ ~is_zero(f, x) => Carries(u, Ulps(f, x), f)
  BY UnpackFits
<1>4. is_zero(f, x) => Ulps(f, x) = 0
  BY UnpackZero
<1> HIDE DEF u
<1>5. ~is_zero(f, x) => Ulps(f, x) # 0
  <2> DEFINE U == Ulps(f, x)
  <2>1. SUFFICES ASSUME ~is_zero(f, x), U = 0 PROVE FALSE
    OBVIOUS
  <2>2. Carries(u, U, f) /\ U \in Nat
    BY <1>2, <1>3, <2>1
  <2>3. PICK no \in BOOLEAN : ~no
    OBVIOUS
  <2> HIDE DEF U
  <2>4. Stands(u.significand, no, u.exponent, U, 1, f) /\ u.significand # 0
    BY <1>3, <2>2, <2>3, OperandReady DEF Ready
  <2> DEFINE one == 1
  <2>5. one \in Nat \ {0} /\ Stands(u.significand, no, u.exponent, U, one, f)
    BY <2>4
  <2>6. u.significand \in Nat /\ u.exponent \in Int
    BY <1>3 DEF UnpackedValues
  <2> HIDE DEF one
  <2>7. U = 0 <=> (u.significand = 0 /\ ~no)
    BY <2>2, <2>5, <2>6, StandsZero
  <2>8. QED BY <2>1, <2>4, <2>7
<1>6. SignedUlps(f, x) = Sign(is_negative(f, x), Ulps(f, x))
  BY DEF SignedUlps, Sign
<1>7. ~is_nan(f, x) /\ ~is_infinite(f, x)
  BY DEF IsFinite, is_nan, is_infinite
<1>8. QED BY <1>1, <1>2, <1>3, <1>4, <1>5, <1>6, <1>7 DEF Measures, u

(***************************************************************************)
(* Multiplication and division.                                            *)
(***************************************************************************)
\* S * 2^i = U * 2^j, where 2^(i - j) smallest subnormals are the unit of a
\* significand S with exponent e.
Weighs(S, e, U, i, j, f) == /\ i \in Nat /\ j \in Nat /\ i - j = e - min_exponent(f) - 3
                            /\ S * pow2[i] = U * pow2[j]

\* The powers of two that relate an unpacked operand to its magnitude.
LEMMA CarriesWeighs ==
    ASSUME NEW f \in Formats, NEW u \in UnpackedValues, NEW U \in Nat, Carries(u, U, f)
    PROVE  \E i, j \in Nat : Weighs(u.significand, u.exponent, U, i, j, f)
<1>1. PICK no \in BOOLEAN : ~no
  OBVIOUS
<1>2. Stands(u.significand, no, u.exponent, U, 1, f)
  BY <1>1, CarriesStands
<1>3. PICK i, j \in Nat : /\ i - j = u.exponent - min_exponent(f) - 3
                          /\ Floors(u.significand, no, U * pow2[j], 1 * pow2[i])
  BY <1>2 DEF Stands
<1>4. pow2[i] \in Nat \ {0} /\ 1 * pow2[i] = pow2[i]
  BY PowSucc
<1>5. u.significand * pow2[i] = U * pow2[j]
  BY <1>1, <1>3, <1>4 DEF Floors
<1>6. QED BY <1>3, <1>5 DEF Weighs

\* The bits below 1, and what is known of a significand's length.
LEMMA UnitBitsIs ==
    ASSUME NEW f \in Formats
    PROVE  UnitBits(f) \in Nat /\ UnitBits(f) = scale(f) - min_exponent(f) - 3 /\ pow2[UnitBits(f)] \in Nat \ {0}
<1>1. /\ f.mantissa_bits \in Nat \ {0} /\ scale(f) = f.mantissa_bits + 3
      /\ min_exponent(f) = 1 - exponent_bias(f)
  BY Scales, MinExponentIs
<1>2. exponent_bias(f) \in Nat
  BY FormatSizes DEF Sizes
<1>3. UnitBits(f) \in Nat /\ UnitBits(f) = scale(f) - min_exponent(f) - 3
  BY <1>1, <1>2 DEF UnitBits
<1>4. QED BY <1>3, PowSucc

\* Products of four factors, regrouped.
LEMMA FourFactors ==
    ASSUME NEW a \in Nat, NEW b \in Nat, NEW c \in Nat, NEW d \in Nat
    PROVE  (a * b) * (c * d) = (a * c) * (b * d) /\ (a * b) * (c * d) = (a * d) * (b * c)
<1>1. \A x, y, z \in Nat : (x * y) * z = x * (y * z) /\ x * y = y * x /\ x * y \in Nat
  BY Z3
<1>2. (a * b) * (c * d) = a * (b * (c * d)) /\ b * (c * d) = (b * c) * d /\ (b * c) = c * b
  BY <1>1
<1>3. (c * b) * d = c * (b * d) /\ a * (c * (b * d)) = (a * c) * (b * d)
  BY <1>1
<1>4. b * (c * d) = d * (b * c) /\ a * (d * (b * c)) = (a * d) * (b * c)
  BY <1>1
<1>5. QED BY <1>2, <1>3, <1>4

\* The significand of an operand that is not zero is normalised.
LEMMA Normalised ==
    ASSUME NEW f \in Formats, NEW u \in UnpackedValues, NEW U, Carries(u, U, f)
    PROVE  /\ u.significand \in Nat \ {0} /\ u.exponent \in Int
           /\ pow2[scale(f)] <= u.significand /\ u.significand < 2 * pow2[scale(f)]
           /\ pow2[scale(f)] \in Nat \ {0} /\ scale(f) \in Nat /\ scale(f) < 2 * WORD
           /\ WORD \in Nat /\ 4 * pow2[scale(f)] <= pow2[WORD] /\ pow2[WORD] \in Nat
<1>1. scale(f) \in Nat /\ WORD \in Nat /\ scale(f) + 2 <= WORD
  BY Scales
<1>2. /\ pow2[scale(f)] \in Nat \ {0} /\ pow2[scale(f) + 1] = 2 * pow2[scale(f)]
      /\ pow2[(scale(f) + 1) + 1] = 2 * pow2[scale(f) + 1] /\ pow2[WORD] \in Nat
  BY <1>1, PowSucc
<1>3. (scale(f) + 1) + 1 = scale(f) + 2 /\ pow2[scale(f) + 2] <= pow2[WORD]
  BY <1>1, PowMono
<1>4. u.significand \in Nat /\ u.exponent \in Int
  BY DEF UnpackedValues
<1>5. pow2[scale(f)] <= u.significand /\ u.significand < pow2[scale(f) + 1]
  BY DEF Carries
<1>6. QED BY <1>1, <1>2, <1>3, <1>4, <1>5

\* Bounds on a quotient.
LEMMA DivBetween ==
    ASSUME NEW n \in Nat, NEW d \in Nat \ {0}, NEW lo \in Nat, NEW hi \in Nat, d * lo <= n, n < d * hi
    PROVE  n \div d \in Nat /\ lo <= n \div d /\ n \div d < hi
<1> DEFINE q == n \div d
<1>1. q \in Int /\ n % d \in 0 .. d - 1 /\ n = d * q + (n % d) /\ q \in Nat
  <2>1. n \in Int /\ q \in Nat
    BY DivAtMost
  <2>2. QED BY <2>1, DivMod
<1>2. q < hi
  BY DivBelow
<1> HIDE DEF q
<1>3. lo <= q
  <2>1. SUFFICES ASSUME q + 1 <= lo PROVE FALSE
    BY <1>1
  <2>2. d * (q + 1) <= d * lo /\ d * (q + 1) = d * q + d /\ d * q \in Int /\ d * lo \in Int
    <3>1. d * (q + 1) <= d * lo
      BY <1>1, <2>1, TimesMono
    <3>2. QED BY <1>1, <3>1, Z3
  <2>3. QED BY <1>1, <2>2
<1>4. QED BY <1>1, <1>2, <1>3 DEF q

\* The parts of Scaled.
ScaledDigit(f, bits) == IF raw_exponent(f, bits) = 0 THEN mantissa(f, bits) ELSE mantissa(f, bits) + pow2[f.mantissa_bits]

\* and the places it is shifted by.
ScaledPlaces(f, bits) == IF raw_exponent(f, bits) = 0 THEN 0 ELSE raw_exponent(f, bits) - 1

\* num / den in units of 2^-k is the magnitude U of an operand of f.
IsScaled(num, den, U, k, f) ==
    /\ num \in Nat /\ den \in Nat \ {0} /\ U \in Nat
    /\ num * pow2[UnitBits(f)] = (U * pow2[k]) * den

\* A magnitude is its digits shifted.
LEMMA UlpsScaled ==
    ASSUME NEW f \in Formats, NEW bits \in Patterns(f)
    PROVE  /\ ScaledDigit(f, bits) \in Nat /\ ScaledPlaces(f, bits) \in Nat
           /\ Ulps(f, bits) = ScaledDigit(f, bits) * pow2[ScaledPlaces(f, bits)] /\ Ulps(f, bits) \in Nat
<1>1. raw_exponent(f, bits) \in 0 .. max_exponent(f) /\ mantissa(f, bits) \in 0 .. pow2[f.mantissa_bits] - 1
  BY PatternOfFields
<1>2. max_exponent(f) \in Nat /\ pow2[f.mantissa_bits] \in Nat
  BY FormatSizes, Scales DEF Sizes
<1>3. mantissa(f, bits) \in Nat /\ raw_exponent(f, bits) \in Nat
  BY <1>1, <1>2
<1>4. CASE raw_exponent(f, bits) = 0
  BY <1>3, <1>4, PowValues DEF Ulps, ScaledDigit, ScaledPlaces
<1>5. CASE raw_exponent(f, bits) # 0
  <2>1. /\ Ulps(f, bits) = ScaledDigit(f, bits) * pow2[ScaledPlaces(f, bits)]
        /\ ScaledPlaces(f, bits) = raw_exponent(f, bits) - 1
        /\ ScaledDigit(f, bits) = mantissa(f, bits) + pow2[f.mantissa_bits]
    BY <1>5 DEF Ulps, ScaledDigit, ScaledPlaces
  <2>2. ScaledPlaces(f, bits) \in Nat /\ ScaledDigit(f, bits) \in Nat
    BY <1>2, <1>3, <1>5, <2>1
  <2>3. Ulps(f, bits) \in Nat
    BY <1>1, UlpsIs
  <2>4. QED BY <2>1, <2>2, <2>3
<1>6. QED BY <1>4, <1>5

\* Scaled is the magnitude of its operand.
LEMMA ScaledIs ==
    ASSUME NEW f \in Formats, NEW bits \in Patterns(f), NEW k \in Nat
    PROVE  IsScaled(Scaled(f, bits, k).num, Scaled(f, bits, k).den, Ulps(f, bits), k, f)
<1> DEFINE d == ScaledDigit(f, bits)
           p == ScaledPlaces(f, bits)
           U == Ulps(f, bits)
           B == UnitBits(f)
           s == p - B + k
           q == Scaled(f, bits, k)
<1>1. d \in Nat /\ p \in Nat /\ U = d * pow2[p] /\ U \in Nat
  BY UlpsScaled
<1>2. B \in Nat
  BY UnitBitsIs
<1>3. q.num = (IF s >= 0 THEN d * pow2[s] ELSE d) /\ q.den = (IF s >= 0 THEN 1 ELSE pow2[-s])
  BY DEF Scaled, ScaledDigit, ScaledPlaces
<1> HIDE DEF d, p, U, B, q
<1>4. s \in Int
  BY <1>1, <1>2
<1>5. \A x, y, z \in Nat : (x * y) * z = x * (y * z) /\ x * y = y * x /\ x * y \in Nat
  BY Z3
<1> DEFINE w == p + k
<1>6. w \in Nat /\ pow2[w] = pow2[p] * pow2[k] /\ pow2[p] \in Nat /\ pow2[k] \in Nat
  <2>1. p \in Nat /\ k \in Nat /\ w = p + k /\ w \in Nat
    BY <1>1
  <2> HIDE DEF w
  <2>2. QED BY <2>1, PowSplit
<1>7. U * pow2[k] = d * pow2[w]
  BY <1>1, <1>5, <1>6
<1>8. CASE s >= 0
  <2>1. s \in Nat /\ w = s + B
    BY <1>1, <1>2, <1>4, <1>8
  <2> HIDE DEF s, w
  <2>2. pow2[w] = pow2[s] * pow2[B] /\ pow2[s] \in Nat /\ pow2[B] \in Nat
    BY <1>2, <2>1, PowSplit
  <2>3. q.num = d * pow2[s] /\ q.den = 1
    BY <1>3, <1>8
  <2>4. (d * pow2[s]) * pow2[B] = d * pow2[w] /\ d * pow2[s] \in Nat /\ d * pow2[w] \in Nat
    BY <1>1, <1>5, <1>6, <2>2
  <2>5. (U * pow2[k]) * 1 = d * pow2[w]
    BY <1>7, <2>4
  <2>6. /\ q.num \in Nat /\ q.den \in Nat \ {0} /\ U \in Nat
        /\ q.num * pow2[B] = (U * pow2[k]) * q.den
    BY <1>1, <2>3, <2>4, <2>5
  <2>7. QED BY <2>6 DEF IsScaled, B, q, U
<1>9. CASE ~(s >= 0)
  <2> DEFINE t == -s
  <2>1. t \in Nat /\ B = w + t
    BY <1>1, <1>2, <1>4, <1>9
  <2>2. q.num = d /\ q.den = pow2[t]
    BY <1>3, <1>9
  <2> HIDE DEF s, w, t
  <2>3. pow2[B] = pow2[w] * pow2[t] /\ pow2[t] \in Nat \ {0} /\ pow2[w] \in Nat
    BY <1>6, <2>1, PowSplit
  <2>4. d * pow2[B] = (d * pow2[w]) * pow2[t]
    BY <1>1, <1>5, <2>3
  <2>5. /\ q.num \in Nat /\ q.den \in Nat \ {0} /\ U \in Nat
        /\ q.num * pow2[B] = (U * pow2[k]) * q.den
    BY <1>1, <1>7, <2>2, <2>3, <2>4
  <2>6. QED BY <2>5 DEF IsScaled, B, q, U
<1>10. QED BY <1>8, <1>9

\* A significand of one format, at the exponent it has in another.
LEMMA RescaledStands ==
    ASSUME NEW f \in Formats, NEW g \in Formats, NEW S \in Nat, NEW e \in Int, NEW U \in Nat,
           NEW i \in Nat, NEW j \in Nat, Weighs(S, e, U, i, j, f),
           NEW num, NEW den, IsScaled(num, den, U, UnitBits(g), f), NEW no \in BOOLEAN, ~no
    PROVE  Stands(S, no, e + (scale(g) - scale(f)), num, den, g)
<1> DEFINE B == UnitBits(f)
           C == UnitBits(g)
           a == i + C
           b == B + j
           pi == pow2[i]
           pj == pow2[j]
           pB == pow2[B]
           pC == pow2[C]
           ex == e + (scale(g) - scale(f))
<1>1. B \in Nat /\ C \in Nat /\ B = scale(f) - min_exponent(f) - 3 /\ C = scale(g) - min_exponent(g) - 3
  BY UnitBitsIs
<1>2. min_exponent(f) \in Int /\ min_exponent(g) \in Int /\ scale(f) \in Nat /\ scale(g) \in Nat
  BY MinExponentIs, Scales
<1>3. i - j = e - min_exponent(f) - 3 /\ S * pi = U * pj
  BY DEF Weighs
<1>4. num \in Nat /\ den \in Nat \ {0} /\ num * pB = (U * pC) * den
  BY DEF IsScaled
<1> HIDE DEF B, C
<1>5. a \in Nat /\ b \in Nat /\ a - b = ex - min_exponent(g) - 3
  BY <1>1, <1>2, <1>3
<1>6. /\ pow2[a] = pi * pC /\ pow2[b] = pB * pj /\ pi \in Nat \ {0} /\ pC \in Nat \ {0} /\ pB \in Nat \ {0} /\ pj \in Nat \ {0}
  BY <1>1, PowAdd, PowSucc
<1> HIDE DEF a, b, pi, pj, pB, pC, ex
<1>7. S * (den * (pi * pC)) = num * (pB * pj)
  <2>1. \A x, y, z \in Nat : (x * y) * z = x * (y * z) /\ x * y = y * x /\ x * y \in Nat
    BY Z3
  <2>2. S * (den * (pi * pC)) = (S * pi) * (den * pC)
    <3>1. den * (pi * pC) = pi * (den * pC)
      BY <1>4, <1>6, <2>1
    <3>2. S * (pi * (den * pC)) = (S * pi) * (den * pC)
      BY <1>4, <1>6, <2>1
    <3>3. QED BY <3>1, <3>2
  <2>3. (U * pj) * (den * pC) = ((U * pC) * den) * pj
    <3>1. (U * pj) * (pC * den) = (U * pC) * (pj * den)
      BY <1>4, <1>6, FourFactors
    <3>2. den * pC = pC * den /\ pj * den = den * pj /\ U * pC \in Nat
      BY <1>4, <1>6, <2>1
    <3>3. (U * pC) * (den * pj) = ((U * pC) * den) * pj
      BY <1>4, <1>6, <2>1, <3>2
    <3>4. QED BY <3>1, <3>2, <3>3
  <2>4. (num * pB) * pj = num * (pB * pj)
    BY <1>4, <1>6, <2>1
  <2>5. QED BY <1>3, <1>4, <2>2, <2>3, <2>4
<1> DEFINE P == den * pow2[a]
           N == num * pow2[b]
<1>8. P \in Nat \ {0} /\ N \in Nat /\ S * P = N
  <2>1. pow2[a] \in Nat \ {0} /\ pow2[b] \in Nat
    BY <1>5, PowSucc
  <2>2. P \in Int /\ P > 0 /\ N \in Int /\ N >= 0
    BY <1>4, <2>1, TimesTyped
  <2>3. S * P = N
    BY <1>6, <1>7
  <2>4. QED BY <2>2, <2>3
<1> HIDE DEF P, N
<1>9. Floors(S, no, N, P)
  BY <1>8, ExactFloors
<1>10. Floors(S, no, num * pow2[b], den * pow2[a])
  BY <1>9 DEF N, P
<1>11. QED BY <1>5, <1>10 DEF Stands, ex

\* The room above a significand.
LEMMA WideEnough ==
    ASSUME NEW f \in Formats
    PROVE  /\ scale(f) \in Nat /\ pow2[scale(f)] \in Nat \ {0} /\ 4 * pow2[scale(f)] <= pow2[WORD]
           /\ pow2[WORD] \in Nat /\ WORD \in Nat /\ min_exponent(f) \in Int /\ scale(f) + 2 <= WORD
<1>1. scale(f) \in Nat /\ WORD \in Nat /\ scale(f) + 2 <= WORD
  BY Scales
<1>2. /\ pow2[scale(f)] \in Nat \ {0} /\ pow2[scale(f) + 1] = 2 * pow2[scale(f)]
      /\ pow2[(scale(f) + 1) + 1] = 2 * pow2[scale(f) + 1] /\ pow2[WORD] \in Nat
  BY <1>1, PowSucc
<1>3. (scale(f) + 1) + 1 = scale(f) + 2 /\ pow2[scale(f) + 2] <= pow2[WORD]
  BY <1>1, PowMono
<1>4. QED BY <1>1, <1>2, <1>3, MinExponentIs

\* A significand whose leading bit is at k, moved to where f has it.
Placed(S, k, f) ==
    IF scale(f) >= k THEN [kept |-> S * pow2[scale(f) - k], lost |-> FALSE]
    ELSE shift_right(S, k - scale(f), WORD)

\* What Placed is given: S stands for num / den, its leading bit is at k.
Leads(S, no, k, e, num, den, f) ==
    /\ pow2[k] <= S /\ S < 2 * pow2[k] /\ k < WORD /\ no \in BOOLEAN /\ ~no
    /\ Stands(S, no, e + (scale(f) - k), num, den, f)

\* A significand moved to its place can be rounded.
LEMMA PlacedReady ==
    ASSUME NEW f \in Formats, NEW S \in Nat, NEW k \in Nat, NEW e \in Int, NEW num \in Nat, NEW den \in Nat \ {0},
           NEW no, Leads(S, no, k, e, num, den, f), NEW t, t = Placed(S, k, f)
    PROVE  t.kept \in Nat /\ t.lost \in BOOLEAN /\ Ready(t.kept, t.lost, e, num, den, f)
<1> DEFINE H == pow2[scale(f)]
           P == pow2[k]
           w == scale(f) - k
<1>1. /\ scale(f) \in Nat /\ H \in Nat \ {0} /\ 4 * H <= pow2[WORD] /\ pow2[WORD] \in Nat /\ WORD \in Nat
      /\ min_exponent(f) \in Int
  BY WideEnough
<1>2. /\ P \in Nat \ {0} /\ P <= S /\ S < 2 * P /\ k < WORD /\ no \in BOOLEAN /\ ~no
      /\ Stands(S, no, e + w, num, den, f) /\ w \in Int /\ e + w \in Int
  BY <1>1, PowSucc DEF Leads
<1>3. CASE w >= 0
  <2> DEFINE g == pow2[w]
             x == e + w
             K == S * g
  <2>1. w \in Nat /\ scale(f) = k + w
    BY <1>1, <1>2, <1>3
  <2>2. H = P * g /\ g \in Nat \ {0}
    <3> DEFINE z == scale(f)
    <3>1. z = k + w
      BY <2>1
    <3> HIDE DEF w, z
    <3>2. pow2[z] = pow2[k] * pow2[w] /\ pow2[w] \in Nat \ {0}
      BY <2>1, <3>1, PowSplit
    <3>3. QED BY <3>2 DEF z
  <2>3. t.kept = K /\ (t.lost <=> no) /\ t.lost \in BOOLEAN
    <3>1. scale(f) >= k
      BY <1>1, <1>2, <1>3
    <3>2. t = [kept |-> S * pow2[scale(f) - k], lost |-> FALSE]
      BY <3>1 DEF Placed
    <3>3. t.kept = K /\ t.lost = FALSE
      BY <3>2
    <3>4. QED BY <1>2, <3>3
  <2>4. K \in Nat /\ Stands(K, no, x - w, num, den, f)
    <3> HIDE DEF w, x
    <3>1. x \in Int /\ Stands(S, no, x, num, den, f)
      BY <1>2 DEF x
    <3>2. /\ min_exponent(f) \in Int /\ no \in BOOLEAN /\ ~no /\ x \in Int /\ w \in Nat
          /\ Stands(S, no, x, num, den, f)
      BY <1>1, <1>2, <2>1, <3>1
    <3>3. S * pow2[w] \in Nat /\ Stands(S * pow2[w], no, x - w, num, den, f)
      BY <3>2, StandsUp
    <3>4. QED BY <3>3
  <2>5. x - w = e
    BY <1>2
  <2>6. H <= K /\ K < 2 * H
    <3> HIDE DEF P, H, g
    <3>1. P * g <= S * g
      BY <1>2, <2>2, TimesMono
    <3>2. S * g < (2 * P) * g
      BY <1>2, <2>2, TimesStrict
    <3>3. (2 * P) * g = 2 * (P * g)
      BY <1>2, <2>2, Z3
    <3>4. QED BY <2>2, <2>4, <3>1, <3>2, <3>3
  <2> HIDE DEF x, w, K, H
  <2>7. /\ K # 0 /\ K < pow2[WORD] /\ H <= 2 * K
    BY <1>1, <2>4, <2>6
  <2>8. Stands(K, t.lost, e, num, den, f)
    <3>1. no = t.lost
      BY <1>2, <2>3
    <3>2. QED BY <2>4, <2>5, <3>1
  <2>9. QED BY <2>3, <2>4, <2>7, <2>8 DEF Ready, H
<1>4. CASE ~(w >= 0)
  <2> DEFINE v == k - scale(f)
             g == pow2[v]
             x == e + w
             K == S \div g
  <2>1. v \in Nat /\ k = scale(f) + v /\ v < WORD /\ x + v = e
    BY <1>1, <1>2, <1>4
  <2>2. P = H * g /\ g \in Nat \ {0}
    <3> DEFINE z == scale(f)
    <3>1. k = z + v /\ z \in Nat
      BY <1>1, <2>1
    <3> HIDE DEF v, z
    <3>2. pow2[k] = pow2[z] * pow2[v] /\ pow2[v] \in Nat \ {0}
      BY <2>1, <3>1, PowSplit
    <3>3. QED BY <3>2 DEF z
  <2>3. t = shift_right(S, v, WORD)
    BY <1>1, <1>4 DEF Placed
  <2>4. t.kept = K /\ t.lost \in BOOLEAN /\ (t.lost <=> S % g # 0)
    <3> HIDE DEF v
    <3> DEFINE z == shift_right(S, v, WORD)
    <3>1. /\ z.kept \in Nat /\ z.kept <= S /\ z.lost \in BOOLEAN
          /\ v < WORD => z.kept = S \div pow2[v] /\ z.lost = (S % pow2[v] # 0)
          /\ ~(v < WORD) => z.kept = 0 /\ z.lost = (S # 0)
      BY <1>1, <2>1, ShiftRightIs, Zenon
    <3> HIDE DEF z
    <3>2. t = z
      BY <2>3 DEF z
    <3>3. QED BY <2>1, <3>1, <3>2
  <2>5. K \in Nat /\ H <= K /\ K < 2 * H
    <3> HIDE DEF P, H, g
    <3> DEFINE h == 2 * H
    <3>1. g * H = H * g /\ g * h = 2 * (H * g)
      BY <1>1, <2>2, Z3
    <3>2. h \in Nat /\ g * H <= S /\ S < g * h
      BY <1>1, <1>2, <2>2, <3>1
    <3> HIDE DEF h
    <3>3. K \in Nat /\ H <= K /\ K < h
      BY <1>1, <2>2, <3>2, DivBetween
    <3>4. QED BY <3>3 DEF h
  <2>6. Stands(K, t.lost, x + v, num, den, f)
    <3> DEFINE u == t.lost
    <3>1. /\ u \in BOOLEAN /\ (u <=> (no \/ S % pow2[v] # 0)) /\ x \in Int /\ v \in Nat
          /\ Stands(S, no, x, num, den, f) /\ no \in BOOLEAN /\ min_exponent(f) \in Int
      BY <1>1, <1>2, <2>1, <2>4
    <3> HIDE DEF u, x, v, w
    <3>2. Stands(S \div pow2[v], u, x + v, num, den, f)
      BY <3>1, StandsShift
    <3>3. QED BY <3>2 DEF u
  <2> HIDE DEF x, w, K, H, v
  <2>7. /\ K # 0 /\ K < pow2[WORD] /\ H <= 2 * K
    BY <1>1, <2>5
  <2>8. QED BY <2>1, <2>4, <2>5, <2>6, <2>7 DEF Ready, H
<1>5. QED BY <1>3, <1>4

\* rescale moves a significand to its place.
LEMMA RescaleIs ==
    ASSUME NEW f \in Formats, NEW g \in Formats, NEW S
    PROVE  rescale(S, f, g) = Placed(S, scale(f), g)
<1>1. scale(f) \in Int /\ scale(g) \in Int
  BY WideEnough
<1>2. -(scale(g) - scale(f)) = scale(f) - scale(g) /\ (scale(g) - scale(f) >= 0 <=> scale(g) >= scale(f))
  BY <1>1
<1>3. QED BY <1>2 DEF rescale, Placed

\* rescale hands the packer a significand that stands for the operand.
LEMMA RescaledReady ==
    ASSUME NEW f \in Formats, NEW g \in Formats, NEW u \in UnpackedValues, NEW U \in Nat, Carries(u, U, f),
           NEW num \in Nat, NEW den \in Nat \ {0}, IsScaled(num, den, U, UnitBits(g), f),
           NEW t, t = rescale(u.significand, f, g)
    PROVE  t.kept \in Nat /\ t.lost \in BOOLEAN /\ Ready(t.kept, t.lost, u.exponent, num, den, g)
<1> DEFINE S == u.significand
           e == u.exponent
           k == scale(f)
<1>1. S \in Nat /\ e \in Int /\ pow2[k] <= S /\ S < 2 * pow2[k] /\ k \in Nat /\ k < WORD
  BY Normalised, WideEnough
<1>2. PICK no \in BOOLEAN : ~no
  OBVIOUS
<1>3. PICK i, j \in Nat : Weighs(S, e, U, i, j, f)
  BY CarriesWeighs
<1> HIDE DEF S, e
<1>4. Stands(S, no, e + (scale(g) - scale(f)), num, den, g)
  BY <1>1, <1>2, <1>3, RescaledStands, SMTT(30)
<1>5. t = Placed(S, k, g) /\ Leads(S, no, k, e, num, den, g)
  BY <1>1, <1>2, <1>4, RescaleIs DEF Leads, S
<1> HIDE DEF k
<1>6. t.kept \in Nat /\ t.lost \in BOOLEAN /\ Ready(t.kept, t.lost, e, num, den, g)
  BY <1>1, <1>5, PlacedReady
<1>7. QED BY <1>6 DEF e

\* FCVT of a finite value rounds it once.
LEMMA ConvertRounds ==
    ASSUME NEW f \in Formats, NEW g \in Formats, NEW y \in Patterns(f), IsFinite(f, y), ~is_zero(f, y),
           NEW r \in Modes, NEW c, ~is_flushing(g, c), NEW q, q = Scaled(f, y, UnitBits(g))
    PROVE  /\ q.num \in Nat /\ q.den \in Nat \ {0}
           /\ RoundedOrHalved(convert_format(y, f, g, c, r), Rounded(q.num, q.den, is_negative(f, y), g, r), q.num, q.den, g)
<1> DEFINE u == unpack(y, f)
           U == Ulps(f, y)
           t == rescale(u.significand, f, g)
           n == is_negative(f, y)
           num == q.num
           den == q.den
<1>1. /\ ~is_nan(f, y) /\ ~is_infinite(f, y) /\ U \in Nat /\ u \in UnpackedValues /\ Measures(u, U, f)
      /\ n \in BOOLEAN /\ u.is_negative = n /\ (u.significand = 0 <=> is_zero(f, y))
  BY FiniteOperand
<1>2. Carries(u, U, f)
  BY <1>1 DEF Measures
<1>3. IsScaled(num, den, U, UnitBits(g), f)
  BY UnitBitsIs, ScaledIs
<1>4. num \in Nat /\ den \in Nat \ {0}
  BY <1>3 DEF IsScaled
<1>5. convert_format(y, f, g, c, r) = round_and_pack([u EXCEPT !.significand = t.kept], t.lost, g, r, c)
  BY <1>1 DEF convert_format
<1>6. t = rescale(u.significand, f, g)
  OBVIOUS
<1> HIDE DEF t, num, den, U, u
<1>7. t.kept \in Nat /\ t.lost \in BOOLEAN /\ Ready(t.kept, t.lost, u.exponent, num, den, g)
  BY <1>1, <1>2, <1>3, <1>4, <1>6, RescaledReady
<1> DEFINE v == [u EXCEPT !.significand = t.kept]
<1>8. v \in UnpackedValues /\ v.significand = t.kept /\ v.exponent = u.exponent /\ v.is_negative = n
  BY <1>1, <1>7 DEF UnpackedValues
<1>9. Ready(v.significand, t.lost, v.exponent, num, den, g)
  BY <1>7, <1>8
<1> HIDE DEF v
<1>10. RoundedOrHalved(round_and_pack(v, t.lost, g, r, c), Rounded(num, den, v.is_negative, g, r), num, den, g)
  BY <1>4, <1>7, <1>8, <1>9, RoundAndPackRounds
<1>11. QED BY <1>4, <1>5, <1>8, <1>10 DEF v, num, den

\* The magnitude of a finite pattern.
LEMMA MagnitudeOf ==
    ASSUME NEW f \in Formats, NEW y \in Patterns(f), IsFinite(f, y), NEW d, d = magnitude_bits(f, y)
    PROVE  d \in Nat /\ d < infinity(f) /\ Ulps(f, d) = Ulps(f, y) /\ y = zero(f, is_negative(f, y)) + d
<1> DEFINE M == pow2[f.mantissa_bits]
           E == max_exponent(f)
           X == raw_exponent(f, y)
           Y == mantissa(f, y)
           n == is_negative(f, y)
<1>1. X \in 0 .. E /\ Y \in 0 .. M - 1 /\ n \in BOOLEAN /\ y = Pattern(f, n, X, Y) /\ X # E
  BY PatternOfFields DEF IsFinite
<1>2. E \in Nat /\ M \in Nat \ {0} /\ infinity(f) = E * M
  BY FormatSizes DEF Sizes
<1> HIDE DEF X, Y, n
<1>3. d = X * M + Y
  BY <1>1, FieldsOfPattern
<1>4. y = zero(f, n) + d
  BY <1>1, <1>3 DEF Pattern
<1>5. d \in Nat /\ d < infinity(f)
  <2>1. X \in Int /\ X + 1 <= E /\ E \in Int /\ X >= 0
    BY <1>1, <1>2
  <2> HIDE DEF E, M
  <2>2. (X + 1) * M <= E * M
    BY <1>2, <2>1, TimesMono
  <2>3. (X + 1) * M = X * M + M /\ X * M \in Int /\ X * M >= 0 /\ E * M \in Int
    BY <1>2, <2>1, TimesSucc, TimesTyped
  <2>4. QED BY <1>1, <1>2, <1>3, <2>2, <2>3
<1>6. d \in 0 .. infinity(f)
  BY <1>5, Magnitudes
<1>7. d \in Patterns(f) /\ magnitude_bits(f, d) = d
  BY <1>6, Magnitudes
<1>8. (Ulps(f, d) = Ulps(f, y)) = (magnitude_bits(f, d) = magnitude_bits(f, y))
  BY <1>7, UlpsOrder
<1>9. QED BY <1>4, <1>5, <1>7, <1>8 DEF n

\* A representable number is rounded to itself, raising nothing.
LEMMA ExactlyRounded ==
    ASSUME NEW f \in Formats, NEW b \in Nat, b < infinity(f), NEW num \in Nat, NEW den \in Nat \ {0},
           Ulps(f, b) * den = num, NEW n \in BOOLEAN, NEW r \in Modes
    PROVE  Rounded(num, den, n, f, r) = Exact(zero(f, n) + b)
<1>1. infinity(f) \in Nat /\ b \in 0 .. infinity(f) /\ b + 1 \in 0 .. infinity(f) /\ b < b + 1
  BY Magnitudes
<1> DEFINE A == Ulps(f, b)
           C == Ulps(f, b + 1)
<1>2. A \in Nat /\ C \in Nat /\ A < C
  BY <1>1, Magnitudes
<1>3. num < C * den
  <2> HIDE DEF A, C
  <2>1. A * den < C * den
    BY <1>2, TimesStrict
  <2>2. QED BY <2>1 DEF A
<1>4. PICK exact \in BOOLEAN : exact
  OBVIOUS
<1>5. Between(num, den, b, exact, f)
  BY <1>3, <1>4 DEF Between
<1>6. PICK c \in Nat : c = b
  OBVIOUS
<1>7. Rounded(num, den, n, f, r) = Raising(zero(f, n) + c, Flagged(exact, c, num, den, f))
  <2>1. Between(num, den, b, exact, f) /\ Chosen(c, num, den, b, exact, n, f, r)
    BY <1>4, <1>5, <1>6 DEF Chosen
  <2>2. exact \in BOOLEAN /\ c \in Nat
    BY <1>4, <1>6
  <2>3. QED BY <2>1, <2>2, RoundedIs
<1>8. Flagged(exact, b, num, den, f) = {}
  BY <1>1, <1>4 DEF Flagged
<1>9. QED BY <1>6, <1>7, <1>8 DEF Exact, Raising
=============================================================================
