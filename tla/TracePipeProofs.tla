-------------------------- MODULE TracePipeProofs ---------------------------
(***************************************************************************)
(* What a trace file says of the execution that wrote it, for any buffer,  *)
(* any guest and a process that stops at any moment: its records are those *)
(* emitted, in order, and the deltas of its blocks tell every register in  *)
(* scope.  What the differ says of two such files is the first divergence  *)
(* of the two executions.                                                  *)
(*                                                                         *)
(* The first part is the file format (Cdt), for any number of registers    *)
(* and any widths of the prologue's fields: what the writers encode the    *)
(* reader reads back, and whatever prefix of a file is there is refused or *)
(* reads as its first records, in order.  The reader is a recursive        *)
(* function and the record of a block is a flattened sequence.  What they  *)
(* compute is proved by induction in the form of the least-element         *)
(* principle: a non-empty set of counterexamples has a least element.      *)
(***************************************************************************)
EXTENDS TracePipe, SequenceTheorems, WellFoundedInduction, TLAPS

(***************************************************************************)
(* Induction.                                                              *)
(***************************************************************************)
LEMMA LeastNatural ==
    ASSUME NEW T \in SUBSET Nat, T # {}
    PROVE  \E x \in T : \A y \in T : x <= y
<1> DEFINE R == OpToRel(<, Nat)
<1>1. IsWellFoundedOn(R, Nat)
  BY NatLessThanWellFounded
<1>2. \A x \in Nat, y \in Nat : <<y, x>> \in R <=> y < x
  BY DEF OpToRel
<1> HIDE DEF R
<1>3. T \subseteq Nat
  OBVIOUS
<1>4. PICK x \in T : \A y \in T : ~(<<y, x>> \in R)
  BY <1>1, <1>3, WFMin
<1>5. ASSUME NEW y \in T PROVE x <= y
  <2>1. x \in Nat /\ y \in Nat /\ ~(y < x)
    BY <1>2, <1>3, <1>4
  <2>2. QED BY <2>1
<1>6. QED BY <1>5

(***************************************************************************)
(* The reader.  Its recursion goes up the file: from a record to the one   *)
(* its length points at.                                                   *)
(***************************************************************************)
Loaded(file, records) == [ok |-> TRUE, flags |-> file[3], feature |-> file[4], records |-> records]

\* The body of loadTrace's loop at one position, g being the rest of the loop.
LoadStep(file, g, at) ==
    IF at > Len(file) THEN [ok |-> TRUE, flags |-> file[3], feature |-> file[4], records |-> <<>>]
    ELSE IF ~is_whole(file, at) THEN TraceFormatError
    ELSE LET rest == g[at + length_of(file[at])]
         IN  IF rest.ok THEN [rest EXCEPT !.records = <<readRecord(file, at)>> \o @] ELSE rest

\* A loop over the last positions of the file exists, however many they are.
LEMMA LoopExists ==
    ASSUME NEW file \in Seq(Nat), NEW at \in HEADER + 1 .. Len(file) + 1
    PROVE  \E g : g = [p \in at .. Len(file) + 1 |-> LoadStep(file, g, p)]
<1> DEFINE P(b) == \E g : g = [p \in b .. Len(file) + 1 |-> LoadStep(file, g, p)]
           Bad  == {k \in Nat : Len(file) + 1 - k >= HEADER + 1 /\ ~P(Len(file) + 1 - k)}
<1>1. Len(file) \in Nat
  OBVIOUS
<1>2. ASSUME Bad # {} PROVE FALSE
  <2>1. PICK k \in Bad : \A m \in Bad : k <= m
    <3> HIDE DEF P
    <3>1. Bad \in SUBSET Nat
      OBVIOUS
    <3> HIDE DEF Bad
    <3>2. QED BY <1>2, <3>1, LeastNatural
  <2> DEFINE b == Len(file) + 1 - k
  <2>2. k \in Nat /\ b \in Nat /\ b >= HEADER + 1 /\ b <= Len(file) + 1 /\ ~P(b)
    BY <1>1, <2>1 DEF HEADER
  <2>3. CASE k = 0
    <3>1. [p \in b .. b |-> Loaded(file, <<>>)]
            = [p \in b .. b |-> LoadStep(file, [q \in b .. b |-> Loaded(file, <<>>)], p)]
      BY <1>1, <2>3 DEF LoadStep, Loaded
    <3>2. b = Len(file) + 1
      BY <1>1, <2>3
    <3>3. QED BY <2>2, <3>1, <3>2
  <2>4. CASE k # 0
    <3>1. k - 1 \in Nat /\ Len(file) + 1 - (k - 1) = b + 1 /\ k - 1 \notin Bad
      BY <1>1, <2>1, <2>2, <2>4
    <3>2. P(b + 1)
      <4> HIDE DEF P
      <4>1. QED BY <3>1, <2>2, <1>1 DEF HEADER
    <3>3. PICK h : h = [p \in b + 1 .. Len(file) + 1 |-> LoadStep(file, h, p)]
      BY <3>2
    <3> DEFINE e == [p \in b .. Len(file) + 1 |-> IF p = b THEN LoadStep(file, h, b) ELSE h[p]]
    <3>4. ASSUME NEW p \in b .. Len(file) + 1 PROVE e[p] = LoadStep(file, e, p)
      <4>1. p \in Nat /\ p >= b
        BY <2>2, <1>1
      <4>2. ASSUME p <= Len(file), is_whole(file, p)
            PROVE  e[p + length_of(file[p])] = h[p + length_of(file[p])]
        <5>1. length_of(file[p]) \in Int
          <6>1. p \in 1 .. Len(file)
            BY <4>1, <4>2, <2>2, <1>1 DEF HEADER
          <6>2. file[p] \in Nat
            BY <6>1
          <6>3. FLAGS \in Nat /\ FLAGS > 0
            BY <1>1, CdtAssumption, LenProperties
          <6>4. QED BY <6>2, <6>3 DEF length_of
        <5>2. p + length_of(file[p]) \in b + 1 .. Len(file) + 1
          BY <4>1, <4>2, <5>1, <2>2, <1>1 DEF is_whole
        <5>3. QED BY <5>2, <2>2, <1>1
      <4>3. LoadStep(file, e, p) = LoadStep(file, h, p)
        <5> HIDE DEF e
        <5>1. CASE p > Len(file)
          BY <5>1 DEF LoadStep
        <5>2. CASE ~(p > Len(file)) /\ ~is_whole(file, p)
          BY <5>2 DEF LoadStep
        <5>3. CASE ~(p > Len(file)) /\ is_whole(file, p)
          <6>1. e[p + length_of(file[p])] = h[p + length_of(file[p])]
            BY <5>3, <4>1, <4>2, <1>1
          <6>2. QED BY <6>1 DEF LoadStep
        <5>4. QED BY <5>1, <5>2, <5>3
      <4>4. CASE p = b
        BY <4>3, <4>4
      <4>5. CASE p # b
        <5>1. p \in b + 1 .. Len(file) + 1
          BY <4>1, <4>5, <2>2, <1>1
        <5>2. h[p] = LoadStep(file, h, p)
          BY <3>3, <5>1
        <5>3. QED BY <4>3, <4>5, <5>2
      <4>6. QED BY <4>4, <4>5
    <3>5. e = [p \in b .. Len(file) + 1 |-> LoadStep(file, e, p)]
      BY <3>4
    <3>6. P(b)
      <4> HIDE DEF e
      <4>1. QED BY <3>5
    <3>7. QED BY <3>6, <2>2
  <2>5. QED BY <2>3, <2>4
<1>3. Len(file) + 1 - at \in Nat /\ Len(file) + 1 - (Len(file) + 1 - at) = at /\ at >= HEADER + 1
  BY <1>1 DEF HEADER
<1>4. QED
  <2> HIDE DEF P
  <2>1. P(at)
    BY <1>2, <1>3
  <2>2. QED BY <2>1 DEF P

HasHeader(file) == Len(file) >= HEADER /\ file[1] = MAGIC /\ file[2] = FORMAT_VERSION

\* loadTrace is its loop, started after the header.
LEMMA LoadIsLoop ==
    ASSUME NEW file \in Seq(Nat), HasHeader(file)
    PROVE  \E g : /\ g = [p \in HEADER + 1 .. Len(file) + 1 |-> LoadStep(file, g, p)]
                 /\ loadTrace(file) = g[HEADER + 1]
<1> DEFINE Q(g) == g = [p \in HEADER + 1 .. Len(file) + 1 |-> LoadStep(file, g, p)]
<1>1. HEADER + 1 \in HEADER + 1 .. Len(file) + 1
  BY DEF HEADER, HasHeader
<1>2. \E g : Q(g)
  BY <1>1, LoopExists
<1> DEFINE loop == CHOOSE g : Q(g)
<1>3. Q(loop)
  <2> HIDE DEF Q
  <2>1. QED BY <1>2
<1>4. loadTrace(file) = loop[HEADER + 1]
  BY DEF loadTrace, LoadStep, HasHeader
<1> HIDE DEF loop
<1>5. QED BY <1>3, <1>4

(***************************************************************************)
(* The prologue's fields.                                                  *)
(***************************************************************************)
LEMMA DivisionIsUnique ==
    ASSUME NEW n \in Nat \ {0}, NEW q \in Nat, NEW r \in 0 .. n - 1, NEW x \in Nat, x = n * q + r
    PROVE  x \div n = q /\ x % n = r
  BY Z3

LEMMA WidthsArePositive ==
    /\ FLAGS \in Nat \ {0} /\ LENGTHS \in Nat /\ Len(StateIds) \in Nat
    /\ Len(StateIds) < FLAGS /\ 4 + 2 * FLAGS <= LENGTHS
  BY CdtAssumption, LenProperties DEF BLOCK_PREFIX

LEMMA PrologueIsRead ==
    ASSUME NEW type \in 0 .. 7, NEW flags \in 0 .. FLAGS - 1, NEW length \in 0 .. LENGTHS - 1
    PROVE  LET cell == prologue(type, flags, length)
           IN  /\ cell \in Nat
               /\ type_of(cell) = type /\ flags_of(cell) = flags /\ length_of(cell) = length
<1> DEFINE cell == prologue(type, flags, length)
           high == flags + FLAGS * length
<1>0. FLAGS \in Nat \ {0} /\ LENGTHS \in Nat
  BY WidthsArePositive
<1>1. flags % FLAGS = flags /\ length % LENGTHS = length
  <2>1. flags = FLAGS * 0 + flags /\ length = LENGTHS * 0 + length
    BY <1>0
  <2>2. flags % FLAGS = flags
    BY <1>0, <2>1, DivisionIsUnique
  <2>3. LENGTHS # 0
    BY <1>0
  <2>4. length % LENGTHS = length
    BY <1>0, <2>1, <2>3, DivisionIsUnique
  <2>5. QED BY <2>2, <2>4
<1>2. FLAGS * length \in Nat
  BY <1>0
<1>3. high \in Nat
  BY <1>0, <1>2
<1>4. cell = type + 8 * high
  BY <1>1 DEF prologue
<1>5. cell \in Nat /\ cell \div 8 = high /\ cell % 8 = type
  <2> HIDE DEF high
  <2>1. QED BY <1>3, <1>4
<1>6. high \div FLAGS = length /\ high % FLAGS = flags
  <2>1. high = FLAGS * length + flags
    BY <1>0, <1>2
  <2> HIDE DEF high
  <2>2. length \in Nat
    OBVIOUS
  <2>3. QED BY <2>1, <2>2, <1>0, <1>3, DivisionIsUnique
<1>7. cell \div (8 * FLAGS) = length
  <2>1. cell = (8 * FLAGS) * length + (type + 8 * flags)
    BY <1>4, <1>0, <1>2
  <2>2. 8 * FLAGS \in Nat \ {0} /\ type + 8 * flags \in 0 .. 8 * FLAGS - 1
    BY <1>0
  <2> HIDE DEF cell
  <2>3. length \in Nat
    OBVIOUS
  <2> DEFINE m == 8 * FLAGS
             r == type + 8 * flags
  <2>4. m \in Nat \ {0} /\ r \in 0 .. m - 1 /\ cell = m * length + r
    BY <2>1, <2>2
  <2> HIDE DEF m, r
  <2>5. cell \div m = length
    BY <2>3, <2>4, <1>5, DivisionIsUnique
  <2>6. QED BY <2>5 DEF m
<1>8. QED BY <1>5, <1>6, <1>7 DEF type_of, flags_of, length_of

(***************************************************************************)
(* The cells of a block's deltas.                                          *)
(***************************************************************************)
Delta == [regId : Nat, value : Nat]
Pairs(d) == [n \in DOMAIN d |-> <<d[n].regId, d[n].value>>]

FlattenStep(s, g, i) == IF i = 1 THEN s[i] ELSE g[i - 1] \o s[i]

LEMMA FlattenExists ==
    ASSUME NEW s, NEW n \in Nat \ {0}
    PROVE  \E g : g = [i \in 1 .. n |-> FlattenStep(s, g, i)]
<1> DEFINE P(k) == \E g : g = [i \in 1 .. k |-> FlattenStep(s, g, i)]
           Bad  == {k \in Nat : k # 0 /\ ~P(k)}
<1>1. ASSUME Bad # {} PROVE FALSE
  <2>1. PICK k \in Bad : \A m \in Bad : k <= m
    <3> HIDE DEF P
    <3>1. Bad \in SUBSET Nat
      OBVIOUS
    <3> HIDE DEF Bad
    <3>2. QED BY <1>1, <3>1, LeastNatural
  <2>2. k \in Nat \ {0} /\ ~P(k)
    BY <2>1
  <2>3. CASE k = 1
    <3>1. [i \in 1 .. 1 |-> s[1]] = [i \in 1 .. 1 |-> FlattenStep(s, [j \in 1 .. 1 |-> s[1]], i)]
      BY DEF FlattenStep
    <3>2. QED BY <2>2, <2>3, <3>1
  <2>4. CASE k # 1
    <3>1. k - 1 \in Nat \ {0} /\ k - 1 \notin Bad
      BY <2>1, <2>2, <2>4
    <3>2. P(k - 1)
      <4> HIDE DEF P
      <4>1. QED BY <3>1
    <3>3. PICK h : h = [i \in 1 .. k - 1 |-> FlattenStep(s, h, i)]
      BY <3>2
    <3> DEFINE e == [i \in 1 .. k |-> IF i = k THEN FlattenStep(s, h, k) ELSE h[i]]
    <3>4. ASSUME NEW i \in 1 .. k PROVE e[i] = FlattenStep(s, e, i)
      <4>1. CASE i = k
        <5>1. e[k - 1] = h[k - 1]
          BY <2>2, <2>4
        <5>2. e[k] = FlattenStep(s, h, k)
          BY <2>2
        <5> HIDE DEF e
        <5>3. QED BY <4>1, <5>1, <5>2 DEF FlattenStep
      <4>2. CASE i # k
        <5>1. i \in 1 .. k - 1
          BY <4>2, <2>2
        <5>2. h[i] = FlattenStep(s, h, i)
          BY <3>3, <5>1
        <5>3. e[i] = h[i]
          BY <4>2
        <5>4. i # 1 => e[i - 1] = h[i - 1]
          BY <5>1, <2>2
        <5> HIDE DEF e
        <5>5. QED BY <5>2, <5>3, <5>4 DEF FlattenStep
      <4>3. QED BY <4>1, <4>2
    <3>5. e = [i \in 1 .. k |-> FlattenStep(s, e, i)]
      BY <3>4
    <3>6. P(k)
      <4> HIDE DEF e
      <4>1. QED BY <3>5
    <3>7. QED BY <3>6, <2>2
  <2>5. QED BY <2>3, <2>4
<1>2. QED
  <2> HIDE DEF P
  <2>1. P(n)
    BY <1>1
  <2>2. QED BY <2>1 DEF P

IsFlattenLoop(d, g) == g = [i \in 1 .. Len(d) |-> FlattenStep(Pairs(d), g, i)]

LEMMA AppendPair ==
    ASSUME NEW h \in Seq(Nat), NEW x \in Nat, NEW y \in Nat
    PROVE  LET t == h \o <<x, y>>
           IN  /\ t \in Seq(Nat) /\ Len(t) = Len(h) + 2
               /\ \A m \in 1 .. Len(h) : t[m] = h[m]
               /\ t[Len(h) + 1] = x /\ t[Len(h) + 2] = y
  OBVIOUS

\* The loop flattens one more delta at a time.
LEMMA FlattenLoop ==
    ASSUME NEW d \in Seq(Delta), NEW g, IsFlattenLoop(d, g), NEW n \in 1 .. Len(d)
    PROVE  /\ g[n] \in Seq(Nat) /\ Len(g[n]) = 2 * n
           /\ \A j \in 1 .. n : g[n][2 * j - 1] = d[j].regId /\ g[n][2 * j] = d[j].value
<1> DEFINE P(k) == /\ g[k] \in Seq(Nat) /\ Len(g[k]) = 2 * k
                   /\ \A j \in 1 .. k : g[k][2 * j - 1] = d[j].regId /\ g[k][2 * j] = d[j].value
           Bad  == {k \in Nat : k \in 1 .. Len(d) /\ ~P(k)}
<1>0. Len(d) \in Nat
  OBVIOUS
<1>1. ASSUME Bad # {} PROVE FALSE
  <2> HIDE DEF P
  <2>1. PICK k \in Bad : \A m \in Bad : k <= m
    <3>1. Bad \in SUBSET Nat
      OBVIOUS
    <3> HIDE DEF Bad
    <3>2. QED BY <1>1, <3>1, LeastNatural
  <2>2. k \in Nat /\ k \in 1 .. Len(d) /\ ~P(k)
    BY <2>1
  <2>3. k # 1 => P(k - 1)
    <3>1. k # 1 => k - 1 \in Nat /\ k - 1 \in 1 .. Len(d) /\ ~(k <= k - 1)
      BY <2>2, <1>0
    <3>2. QED BY <2>1, <3>1
  <2> HIDE DEF Bad
  <2>4. g[k] = FlattenStep(Pairs(d), g, k)
    BY <2>2 DEF IsFlattenLoop
  <2>5. d[k] \in Delta
    BY <2>2, ElementOfSeq
  <2>6. Pairs(d)[k] = <<d[k].regId, d[k].value>>
    BY <2>2 DEF Pairs
  <2>7. PICK x \in Nat, y \in Nat : d[k].regId = x /\ d[k].value = y
    BY <2>5 DEF Delta
  <2>8. CASE k = 1
    <3>1. g[1] = <<x, y>>
      BY <2>4, <2>6, <2>7, <2>8 DEF FlattenStep
    <3>2. g[1] \in Seq(Nat) /\ Len(g[1]) = 2 /\ g[1][1] = x /\ g[1][2] = y
      BY <3>1
    <3>3. P(1)
      BY <3>2, <2>7, <2>8 DEF P
    <3>4. QED BY <3>3, <2>2, <2>8
  <2>9. CASE k # 1
    <3>1. P(k - 1)
      BY <2>3, <2>9
    <3>2. g[k] = g[k - 1] \o <<x, y>>
      BY <2>4, <2>6, <2>7, <2>9 DEF FlattenStep
    <3>3. PICK h \in Seq(Nat) : /\ h = g[k - 1] /\ Len(h) = 2 * (k - 1)
                                /\ \A j \in 1 .. k - 1 : h[2 * j - 1] = d[j].regId /\ h[2 * j] = d[j].value
      BY <3>1 DEF P
    <3>4. PICK t \in Seq(Nat) : t = h \o <<x, y>>
      BY AppendPair
    <3>5. /\ Len(t) = Len(h) + 2
          /\ \A m \in 1 .. Len(h) : t[m] = h[m]
          /\ t[Len(h) + 1] = x /\ t[Len(h) + 2] = y
      BY <3>4, AppendPair
    <3>6. g[k] = t /\ Len(t) = 2 * k
      BY <3>2, <3>3, <3>4, <3>5, <2>2
    <3>7. ASSUME NEW j \in 1 .. k PROVE t[2 * j - 1] = d[j].regId /\ t[2 * j] = d[j].value
      <4>1. CASE j = k
        <5>1. 2 * j - 1 = Len(h) + 1 /\ 2 * j = Len(h) + 2
          BY <4>1, <3>3, <2>2
        <5>2. QED BY <5>1, <4>1, <3>5, <2>7
      <4>2. CASE j # k
        <5>0. Len(h) = 2 * (k - 1) /\ k \in Nat
          BY <3>3, <2>2
        <5>1. j \in 1 .. k - 1 /\ 2 * j - 1 \in 1 .. Len(h) /\ 2 * j \in 1 .. Len(h)
          BY <4>2, <5>0
        <5>2. h[2 * j - 1] = d[j].regId /\ h[2 * j] = d[j].value
          BY <5>1, <3>3
        <5>3. QED BY <5>1, <5>2, <3>5
      <4>3. QED BY <4>1, <4>2
    <3>8. P(k)
      BY <3>6, <3>7 DEF P
    <3>9. QED BY <3>8, <2>2
  <2>10. QED BY <2>8, <2>9
<1>2. QED
  <2> HIDE DEF P
  <2>1. n \in Nat
    BY <1>0
  <2>2. P(n)
    BY <1>1, <2>1
  <2>3. QED BY <2>2 DEF P

LEMMA FlattenedPairs ==
    ASSUME NEW d \in Seq(Delta)
    PROVE  LET cells == FlattenSeq(Pairs(d))
           IN  /\ cells \in Seq(Nat) /\ Len(cells) = 2 * Len(d)
               /\ \A j \in 1 .. Len(d) : cells[2 * j - 1] = d[j].regId /\ cells[2 * j] = d[j].value
<1> DEFINE s == Pairs(d)
<1>0. Len(d) \in Nat /\ DOMAIN d = 1 .. Len(d)
  OBVIOUS
<1>1. Len(s) = Len(d)
  <2>1. DOMAIN s = 1 .. Len(d)
    BY <1>0 DEF Pairs
  <2>2. s \in Seq({s[i] : i \in 1 .. Len(d)})
    BY <2>1, <1>0, IsASeq DEF Pairs
  <2>3. QED BY <2>1, <2>2, <1>0, LenProperties
<1>2. CASE Len(d) = 0
  <2>1. FlattenSeq(s) = s
    BY <1>1, <1>2 DEF FlattenSeq
  <2>2. s = <<>>
    BY <1>2, <1>0 DEF Pairs
  <2>3. QED BY <2>1, <2>2, <1>2
<1>3. CASE Len(d) # 0
  <2> DEFINE Q(g) == g = [i \in 1 .. Len(s) |-> FlattenStep(s, g, i)]
             loop == CHOOSE g : Q(g)
  <2>1. \E g : Q(g)
    BY <1>0, <1>1, <1>3, FlattenExists
  <2>2. Q(loop)
    <3> HIDE DEF Q
    <3>1. QED BY <2>1
  <2>3. FlattenSeq(s) = loop[Len(s)]
    <3>1. Len(s) # 0
      BY <1>1, <1>3
    <3> HIDE DEF s
    <3>2. QED BY <3>1 DEF FlattenSeq, FlattenStep
  <2>4. IsFlattenLoop(d, loop)
    BY <2>2, <1>1 DEF IsFlattenLoop
  <2> HIDE DEF loop
  <2>5. Len(d) \in 1 .. Len(d)
    BY <1>0, <1>3
  <2> DEFINE cells == loop[Len(d)]
  <2>6. /\ cells \in Seq(Nat) /\ Len(cells) = 2 * Len(d)
        /\ \A j \in 1 .. Len(d) : cells[2 * j - 1] = d[j].regId /\ cells[2 * j] = d[j].value
    BY <2>4, <2>5, FlattenLoop
  <2>7. FlattenSeq(Pairs(d)) = cells
    BY <2>3, <1>1
  <2> HIDE DEF cells
  <2>8. QED BY <2>6, <2>7
<1>4. QED BY <1>2, <1>3

(***************************************************************************)
(* The dense state names every register.                                   *)
(***************************************************************************)
Has(s, x) == \E i \in 1 .. Len(s) : s[i] = x

LEMMA ConcatHas ==
    ASSUME NEW S, NEW s \in Seq(S), NEW t \in Seq(S), NEW x
    PROVE  /\ s \o t \in Seq(S)
           /\ Has(s, x) \/ Has(t, x) => Has(s \o t, x)
<1>1. s \o t \in Seq(S) /\ Len(s \o t) = Len(s) + Len(t) /\ Len(s) \in Nat /\ Len(t) \in Nat
  OBVIOUS
<1>2. ASSUME NEW i \in 1 .. Len(s), s[i] = x PROVE Has(s \o t, x)
  <2>1. i \in 1 .. Len(s \o t) /\ (s \o t)[i] = x
    BY <1>1, <1>2
  <2>2. QED BY <2>1 DEF Has
<1>3. ASSUME NEW i \in 1 .. Len(t), t[i] = x PROVE Has(s \o t, x)
  <2>1. Len(s) + i \in 1 .. Len(s \o t) /\ (s \o t)[Len(s) + i] = x
    BY <1>1, <1>3
  <2>2. QED BY <2>1 DEF Has
<1>4. QED BY <1>1, <1>2, <1>3 DEF Has

LEMMA IdsAreNumbers == Ids \subseteq Nat /\ PC \in Ids /\ PSTATE \in Ids
  BY CdtAssumption DEF Ids, CoreIds, FpIds, GprIds, VecIds, SysIds, SP, PC, PSTATE, FPCR, FPSR, V_BASE, SYS_BASE

LEMMA StateIdsCover ==
    /\ StateIds \in Seq(Ids)
    /\ \A id \in Ids : Has(StateIds, id)
<1> DEFINE gpr == [n \in 1 .. NUM_GPR |-> n - 1]
           sys == [n \in 1 .. NUM_SYSREG |-> SYS_BASE + n - 1]
           vec == [n \in 1 .. 2 * NUM_VREG |-> V_BASE + n - 1]
           a == <<SP, PC, PSTATE>>
           b == <<FPCR, FPSR>>
<1>0. NUM_GPR \in Nat /\ NUM_SYSREG \in Nat /\ 2 * NUM_VREG \in Nat
  BY CdtAssumption
<1>1. gpr \in Seq(Ids) /\ \A id \in GprIds : Has(gpr, id)
  <2>1. gpr \in Seq(Ids) /\ Len(gpr) = NUM_GPR
    BY <1>0 DEF Ids, CoreIds, GprIds
  <2>2. ASSUME NEW id \in GprIds PROVE Has(gpr, id)
    <3>1. id + 1 \in 1 .. NUM_GPR /\ gpr[id + 1] = id
      BY <1>0 DEF GprIds
    <3>2. QED BY <2>1, <3>1 DEF Has
  <2>3. QED BY <2>1, <2>2
<1>2. sys \in Seq(Ids) /\ \A id \in SysIds : Has(sys, id)
  <2>1. sys \in Seq(Ids) /\ Len(sys) = NUM_SYSREG
    BY <1>0 DEF SYS_BASE, Ids, SysIds
  <2>2. ASSUME NEW id \in SysIds PROVE Has(sys, id)
    <3>1. id - 255 \in 1 .. NUM_SYSREG /\ sys[id - 255] = id
      BY <1>0 DEF SysIds, SYS_BASE
    <3>2. QED BY <2>1, <3>1 DEF Has
  <2>3. QED BY <2>1, <2>2
<1>3. vec \in Seq(Ids) /\ \A id \in VecIds : Has(vec, id)
  <2>1. vec \in Seq(Ids) /\ Len(vec) = 2 * NUM_VREG
    BY <1>0 DEF V_BASE, Ids, FpIds, VecIds
  <2>2. ASSUME NEW id \in VecIds PROVE Has(vec, id)
    <3>1. id - 63 \in 1 .. 2 * NUM_VREG /\ vec[id - 63] = id
      BY <1>0 DEF VecIds, V_BASE
    <3>2. QED BY <2>1, <3>1 DEF Has
  <2>3. QED BY <2>1, <2>2
<1>4. a \in Seq(Ids) /\ \A id \in {SP, PC, PSTATE} : Has(a, id)
  <2>1. a \in Seq(Ids) /\ Len(a) = 3 /\ a[1] = SP /\ a[2] = PC /\ a[3] = PSTATE
    BY DEF Ids, CoreIds
  <2> HIDE DEF a
  <2>2. QED BY <2>1 DEF Has
<1>5. b \in Seq(Ids) /\ \A id \in {FPCR, FPSR} : Has(b, id)
  <2>1. b \in Seq(Ids) /\ Len(b) = 2 /\ b[1] = FPCR /\ b[2] = FPSR
    BY DEF Ids, FpIds
  <2> HIDE DEF b
  <2>2. QED BY <2>1 DEF Has
<1>6. StateIds = gpr \o a \o sys \o b \o vec
  BY DEF StateIds
<1> HIDE DEF gpr, sys, vec, a, b
<1>7. gpr \o a \in Seq(Ids)
  BY <1>1, <1>4, ConcatHas
<1>8. gpr \o a \o sys \in Seq(Ids)
  BY <1>2, <1>7, ConcatHas
<1>9. gpr \o a \o sys \o b \in Seq(Ids)
  BY <1>5, <1>8, ConcatHas
<1>10. gpr \o a \o sys \o b \o vec \in Seq(Ids)
  BY <1>3, <1>9, ConcatHas
<1>11. ASSUME NEW id \in Ids PROVE Has(StateIds, id)
  <2>1. \/ Has(gpr, id) \/ Has(a, id) \/ Has(sys, id) \/ Has(b, id) \/ Has(vec, id)
    BY <1>1, <1>2, <1>3, <1>4, <1>5 DEF Ids, CoreIds, FpIds
  <2>2. Has(gpr, id) \/ Has(a, id) => Has(gpr \o a, id)
    BY <1>1, <1>4, ConcatHas
  <2>3. Has(gpr \o a, id) \/ Has(sys, id) => Has(gpr \o a \o sys, id)
    BY <1>2, <1>7, ConcatHas
  <2>4. Has(gpr \o a \o sys, id) \/ Has(b, id) => Has(gpr \o a \o sys \o b, id)
    BY <1>5, <1>8, ConcatHas
  <2>5. Has(gpr \o a \o sys \o b, id) \/ Has(vec, id) => Has(gpr \o a \o sys \o b \o vec, id)
    BY <1>3, <1>9, ConcatHas
  <2>6. QED BY <1>6, <2>1, <2>2, <2>3, <2>4, <2>5
<1>12. QED BY <1>6, <1>10, <1>11

(***************************************************************************)
(* Every record a producer writes is read back.                            *)
(***************************************************************************)
BlockRecord     == {Block(pc, count, n, d) : pc \in Nat, count \in Nat, n \in Nat,
                                             d \in {e \in Seq(Delta) : Len(e) < FLAGS}}
ExceptionRecord == {Exception(count, from_pc, to_pc, discon, state) :
                       count \in Nat, from_pc \in Nat, to_pc \in Nat, discon \in Nat, state \in [Ids -> Nat]}
MarkerRecord    == {Marker(count, kind, value) : count \in Nat, kind \in Nat, value \in Nat}
EndRecord       == {End(count, reason) : count \in Nat, reason \in Nat}
Record          == BlockRecord \cup ExceptionRecord \cup MarkerRecord \cup EndRecord

\* The cells lie in the file from position at on.
Placed(file, at, cells) == /\ at - 1 + Len(cells) <= Len(file)
                           /\ \A i \in 1 .. Len(cells) : file[at - 1 + i] = cells[i]

\* The first cell of a record tells its length and the cells its reader touches.
Measured(r) == /\ encode(r) \in Seq(Nat)
               /\ Len(encode(r)) >= 1
               /\ length_of(encode(r)[1]) = Len(encode(r))
               /\ cells_read(encode(r)[1]) = Len(encode(r))

ReadBack(r) == \A file \in Seq(Nat), at \in Nat \ {0} :
                   Placed(file, at, encode(r)) => readRecord(file, at) = r

LEMMA EndReadsBack ==
    ASSUME NEW r \in EndRecord
    PROVE  Measured(r) /\ ReadBack(r)
<1>1. PICK count \in Nat, reason \in Nat : r = End(count, reason)
  BY DEF EndRecord
<1> DEFINE p == prologue(END, 0, 3)
<1>2. p \in Nat /\ type_of(p) = 4 /\ length_of(p) = 3
  <2>1. 4 \in 0 .. 7 /\ 0 \in 0 .. FLAGS - 1 /\ 3 \in 0 .. LENGTHS - 1
    BY WidthsArePositive
  <2>2. QED BY <2>1, PrologueIsRead DEF END
<1> HIDE DEF p
<1>3. encode(r) = <<p, count, reason>>
  BY <1>1 DEF encode, End, BLOCK, EXCEPTION, MARKER, END, p
<1>4. encode(r) \in Seq(Nat) /\ Len(encode(r)) = 3 /\ encode(r)[1] = p
      /\ encode(r)[2] = count /\ encode(r)[3] = reason
  BY <1>2, <1>3
<1>5. Measured(r)
  BY <1>2, <1>4 DEF Measured, cells_read, BLOCK, EXCEPTION, MARKER, END
<1>6. ASSUME NEW file \in Seq(Nat), NEW at \in Nat \ {0}, Placed(file, at, encode(r))
      PROVE  readRecord(file, at) = r
  <2>1. file[at] = p /\ file[at + 1] = count /\ file[at + 2] = reason
    <3>1. \A i \in 1 .. 3 : file[at - 1 + i] = encode(r)[i]
      BY <1>4, <1>6 DEF Placed
    <3>2. at - 1 + 1 = at /\ at - 1 + 2 = at + 1 /\ at - 1 + 3 = at + 2
      OBVIOUS
    <3>3. QED BY <3>1, <3>2, <1>4
  <2>2. QED BY <2>1, <1>1, <1>2 DEF readRecord, BLOCK, EXCEPTION, MARKER, END
<1>7. QED BY <1>5, <1>6 DEF ReadBack

LEMMA MarkerReadsBack ==
    ASSUME NEW r \in MarkerRecord
    PROVE  Measured(r) /\ ReadBack(r)
<1>1. PICK count \in Nat, kind \in Nat, value \in Nat : r = Marker(count, kind, value)
  BY DEF MarkerRecord
<1> DEFINE p == prologue(MARKER, 0, 4)
<1>2. p \in Nat /\ type_of(p) = 3 /\ length_of(p) = 4
  <2>1. 3 \in 0 .. 7 /\ 0 \in 0 .. FLAGS - 1 /\ 4 \in 0 .. LENGTHS - 1
    BY WidthsArePositive
  <2>2. QED BY <2>1, PrologueIsRead DEF MARKER
<1> HIDE DEF p
<1>3. encode(r) = <<p, count, kind, value>>
  BY <1>1 DEF encode, Marker, BLOCK, EXCEPTION, MARKER, END, p
<1>4. encode(r) \in Seq(Nat) /\ Len(encode(r)) = 4 /\ encode(r)[1] = p
      /\ encode(r)[2] = count /\ encode(r)[3] = kind /\ encode(r)[4] = value
  BY <1>2, <1>3
<1>5. Measured(r)
  BY <1>2, <1>4 DEF Measured, cells_read, BLOCK, EXCEPTION, MARKER, END
<1>6. ASSUME NEW file \in Seq(Nat), NEW at \in Nat \ {0}, Placed(file, at, encode(r))
      PROVE  readRecord(file, at) = r
  <2>1. file[at] = p /\ file[at + 1] = count /\ file[at + 2] = kind /\ file[at + 3] = value
    <3>1. \A i \in 1 .. 4 : file[at - 1 + i] = encode(r)[i]
      BY <1>4, <1>6 DEF Placed
    <3>2. at - 1 + 1 = at /\ at - 1 + 2 = at + 1 /\ at - 1 + 3 = at + 2 /\ at - 1 + 4 = at + 3
      OBVIOUS
    <3>3. QED BY <3>1, <3>2, <1>4
  <2>2. QED BY <2>1, <1>1, <1>2 DEF readRecord, BLOCK, EXCEPTION, MARKER, END
<1>7. QED BY <1>5, <1>6 DEF ReadBack

\* A fixed part followed by a tail.
LEMMA TailAfterFour ==
    ASSUME NEW a \in Nat, NEW b \in Nat, NEW c \in Nat, NEW d \in Nat, NEW t \in Seq(Nat),
           NEW cells, cells = <<a, b, c, d>> \o t
    PROVE  /\ cells \in Seq(Nat) /\ Len(cells) = 4 + Len(t)
           /\ cells[1] = a /\ cells[2] = b /\ cells[3] = c /\ cells[4] = d
           /\ \A i \in 1 .. Len(t) : cells[4 + i] = t[i]
  OBVIOUS

LEMMA TailAfterFive ==
    ASSUME NEW a \in Nat, NEW b \in Nat, NEW c \in Nat, NEW d \in Nat, NEW e \in Nat, NEW t \in Seq(Nat),
           NEW cells, cells = <<a, b, c, d, e>> \o t
    PROVE  /\ cells \in Seq(Nat) /\ Len(cells) = 5 + Len(t)
           /\ cells[1] = a /\ cells[2] = b /\ cells[3] = c /\ cells[4] = d /\ cells[5] = e
           /\ \A i \in 1 .. Len(t) : cells[5 + i] = t[i]
  OBVIOUS

\* The first cells of a record that lies in the file.
LEMMA PlacedCells ==
    ASSUME NEW file, NEW at \in Nat \ {0}, NEW cells \in Seq(Nat), Placed(file, at, cells),
           Len(cells) >= 4
    PROVE  /\ file[at] = cells[1] /\ file[at + 1] = cells[2] /\ file[at + 2] = cells[3]
           /\ file[at + 3] = cells[4]
<1>1. Len(cells) \in Nat
  OBVIOUS
<1>2. \A i \in 1 .. Len(cells) : file[at - 1 + i] = cells[i]
  BY DEF Placed
<1>3. 1 \in 1 .. Len(cells) /\ 2 \in 1 .. Len(cells) /\ 3 \in 1 .. Len(cells) /\ 4 \in 1 .. Len(cells)
  BY <1>1
<1>4. file[at - 1 + 1] = cells[1] /\ file[at - 1 + 2] = cells[2] /\ file[at - 1 + 3] = cells[3]
      /\ file[at - 1 + 4] = cells[4]
  BY <1>2, <1>3
<1>5. at - 1 + 1 = at /\ at - 1 + 2 = at + 1 /\ at - 1 + 3 = at + 2 /\ at - 1 + 4 = at + 3
  OBVIOUS
<1>6. QED BY <1>4, <1>5

LEMMA ExceptionReadsBack ==
    ASSUME NEW r \in ExceptionRecord
    PROVE  Measured(r) /\ ReadBack(r)
<1>1. PICK count \in Nat, from_pc \in Nat, to_pc \in Nat, discon \in Nat, state \in [Ids -> Nat] :
         r = Exception(count, from_pc, to_pc, discon, state)
  BY DEF ExceptionRecord
<1> DEFINE p == prologue(EXCEPTION, 0, 5 + Len(StateIds))
           t == [n \in DOMAIN StateIds |-> state[StateIds[n]]]
<1>2. p \in Nat /\ type_of(p) = 2 /\ length_of(p) = 5 + Len(StateIds)
  <2>1. 2 \in 0 .. 7 /\ 0 \in 0 .. FLAGS - 1 /\ 5 + Len(StateIds) \in 0 .. LENGTHS - 1
    BY WidthsArePositive
  <2>2. QED BY <2>1, PrologueIsRead DEF EXCEPTION
<1> HIDE DEF p
<1>3. t \in Seq(Nat) /\ Len(t) = Len(StateIds) /\ \A n \in 1 .. Len(StateIds) : t[n] = state[StateIds[n]]
  <2>1. DOMAIN StateIds = 1 .. Len(StateIds) /\ Len(StateIds) \in Nat
    BY StateIdsCover, LenProperties
  <2>2. \A n \in 1 .. Len(StateIds) : StateIds[n] \in Ids
    BY StateIdsCover, ElementOfSeq
  <2>3. QED BY <2>1, <2>2
<1>4. encode(r) = <<p, count, from_pc, to_pc, discon>> \o t
  BY <1>1 DEF encode, Exception, BLOCK, EXCEPTION, MARKER, END, p
<1> HIDE DEF t
<1>5. /\ encode(r) \in Seq(Nat) /\ Len(encode(r)) = 5 + Len(StateIds)
      /\ encode(r)[1] = p /\ encode(r)[2] = count /\ encode(r)[3] = from_pc /\ encode(r)[4] = to_pc
      /\ encode(r)[5] = discon /\ \A n \in 1 .. Len(StateIds) : encode(r)[5 + n] = state[StateIds[n]]
  <2>0. p \in Nat /\ t \in Seq(Nat)
    BY <1>2, <1>3
  <2>1. encode(r)[5] = discon /\ \A n \in 1 .. Len(t) : encode(r)[5 + n] = t[n]
    BY <2>0, <1>4, TailAfterFive
  <2>2. encode(r) \in Seq(Nat) /\ Len(encode(r)) = 5 + Len(t) /\ encode(r)[1] = p
        /\ encode(r)[2] = count /\ encode(r)[3] = from_pc /\ encode(r)[4] = to_pc
    BY <2>0, <1>4, TailAfterFive
  <2>3. QED BY <2>1, <2>2, <1>3
<1>6. Measured(r)
  BY <1>2, <1>5, WidthsArePositive DEF Measured, cells_read, BLOCK, EXCEPTION, MARKER, END
<1>7. ASSUME NEW file \in Seq(Nat), NEW at \in Nat \ {0}, Placed(file, at, encode(r))
      PROVE  readRecord(file, at) = r
  <2>0. Len(StateIds) \in Nat /\ Len(encode(r)) >= 4
    BY <1>5, WidthsArePositive
  <2>1. \A i \in 4 .. 5 + Len(StateIds) : file[at - 1 + i] = encode(r)[i]
    <3>1. \A i \in 4 .. Len(encode(r)) : file[at - 1 + i] = encode(r)[i]
      <4>1. \A i \in 4 .. Len(encode(r)) : i \in 1 .. Len(encode(r))
        BY <2>0
      <4>2. QED BY <4>1, <1>7 DEF Placed
    <3>2. Len(encode(r)) = 5 + Len(StateIds)
      BY <1>5
    <3>3. QED BY <3>1, <3>2
  <2>2. file[at] = p /\ file[at + 1] = count /\ file[at + 2] = from_pc /\ file[at + 3] = to_pc
        /\ file[at + 4] = discon
    <3>1. file[at] = p /\ file[at + 1] = count /\ file[at + 2] = from_pc /\ file[at + 3] = to_pc
      BY <1>5, <1>7, <2>0, PlacedCells
    <3>2. 5 \in 4 .. 5 + Len(StateIds) /\ at - 1 + 5 = at + 4
      BY <2>0
    <3>3. file[at + 4] = discon
      BY <2>1, <3>2, <1>5
    <3>4. QED BY <3>1, <3>3
  <2>3. ASSUME NEW id \in Ids
        PROVE  file[at + 4 + CHOOSE n \in DOMAIN StateIds : StateIds[n] = id] = state[id]
    <3> DEFINE m == CHOOSE n \in DOMAIN StateIds : StateIds[n] = id
    <3>1. m \in 1 .. Len(StateIds) /\ StateIds[m] = id
      <4>1. \E n \in DOMAIN StateIds : StateIds[n] = id
        BY StateIdsCover, LenProperties DEF Has
      <4>2. DOMAIN StateIds = 1 .. Len(StateIds)
        BY StateIdsCover, LenProperties
      <4>3. QED BY <4>1, <4>2
    <3> HIDE DEF m
    <3>2. 5 + m \in 4 .. 5 + Len(StateIds) /\ at - 1 + (5 + m) = at + 4 + m
      BY <2>0, <3>1
    <3>3. file[at + 4 + m] = state[id]
      BY <2>1, <3>1, <3>2, <1>5
    <3>4. QED BY <3>3 DEF m
  <2>4. [id \in Ids |-> file[at + 4 + CHOOSE n \in DOMAIN StateIds : StateIds[n] = id]] = state
    BY <2>3
  <2>5. readException(file, at) = r
    BY <1>1, <2>2, <2>4 DEF readException
  <2>6. QED BY <2>2, <2>5, <1>2 DEF readRecord, BLOCK, EXCEPTION, MARKER, END
<1>8. QED BY <1>6, <1>7 DEF ReadBack

LEMMA BlockReadsBack ==
    ASSUME NEW r \in BlockRecord
    PROVE  Measured(r) /\ ReadBack(r)
<1>1. PICK pc \in Nat, count \in Nat, size \in Nat, d \in Seq(Delta) :
         Len(d) < FLAGS /\ r = Block(pc, count, size, d)
  BY DEF BlockRecord
<1> DEFINE p == prologue(BLOCK, Len(d), block_length(d))
           t == FlattenSeq(Pairs(d))
<1>0. Len(d) \in Nat /\ DOMAIN d = 1 .. Len(d)
  OBVIOUS
<1>2. p \in Nat /\ type_of(p) = 1 /\ flags_of(p) = Len(d) /\ length_of(p) = 4 + 2 * Len(d)
  <2>1. 1 \in 0 .. 7 /\ Len(d) \in 0 .. FLAGS - 1 /\ 4 + 2 * Len(d) \in 0 .. LENGTHS - 1
    BY <1>0, <1>1, WidthsArePositive
  <2>2. QED BY <2>1, PrologueIsRead DEF BLOCK, block_length, BLOCK_PREFIX
<1>3. encode(r) = <<p, pc, count, size>> \o t
  BY <1>1 DEF encode, Block, Pairs, BLOCK, EXCEPTION, MARKER, END
<1> HIDE DEF p
<1>4. /\ t \in Seq(Nat) /\ Len(t) = 2 * Len(d)
      /\ \A j \in 1 .. Len(d) : t[2 * j - 1] = d[j].regId /\ t[2 * j] = d[j].value
  BY FlattenedPairs
<1> HIDE DEF t
<1>5. /\ encode(r) \in Seq(Nat) /\ Len(encode(r)) = 4 + Len(t)
      /\ encode(r)[1] = p /\ encode(r)[2] = pc /\ encode(r)[3] = count /\ encode(r)[4] = size
      /\ \A i \in 1 .. Len(t) : encode(r)[4 + i] = t[i]
  <2>1. p \in Nat /\ t \in Seq(Nat)
    BY <1>2, <1>4
  <2>2. QED BY <2>1, <1>3, TailAfterFour
<1>6. Measured(r)
  <2>1. Len(encode(r)) = 4 + 2 * Len(d)
    BY <1>4, <1>5
  <2>2. cells_read(p) = 4 + 2 * Len(d)
    BY <1>2 DEF cells_read, BLOCK, EXCEPTION, MARKER, END, BLOCK_PREFIX
  <2>3. encode(r) \in Seq(Nat) /\ encode(r)[1] = p /\ length_of(p) = 4 + 2 * Len(d)
    BY <1>2, <1>5
  <2>4. 4 + 2 * Len(d) >= 1
    BY <1>0
  <2>5. QED BY <2>1, <2>2, <2>3, <2>4 DEF Measured
<1>7. ASSUME NEW file \in Seq(Nat), NEW at \in Nat \ {0}, Placed(file, at, encode(r))
      PROVE  readRecord(file, at) = r
  <2>0. Len(t) \in Nat /\ Len(encode(r)) = 4 + Len(t) /\ encode(r) \in Seq(Nat) /\ Len(encode(r)) >= 4
    BY <1>4, <1>5
  <2>1. \A i \in 4 .. 4 + Len(t) : file[at - 1 + i] = encode(r)[i]
    <3>1. \A i \in 4 .. Len(encode(r)) : file[at - 1 + i] = encode(r)[i]
      <4>1. \A i \in 4 .. Len(encode(r)) : i \in 1 .. Len(encode(r))
        BY <2>0
      <4>2. QED BY <4>1, <1>7 DEF Placed
    <3>2. Len(encode(r)) = 4 + Len(t)
      BY <2>0
    <3>3. QED BY <3>1, <3>2
  <2>2. file[at] = p /\ file[at + 1] = pc /\ file[at + 2] = count /\ file[at + 3] = size
    <3>1. /\ file[at] = encode(r)[1] /\ file[at + 1] = encode(r)[2] /\ file[at + 2] = encode(r)[3]
          /\ file[at + 3] = encode(r)[4]
      BY <2>0, <1>7, PlacedCells
    <3>2. QED BY <3>1, <1>5
  <2>3. ASSUME NEW n \in 1 .. Len(d)
        PROVE  /\ file[at + BLOCK_PREFIX + 2 * (n - 1)] = d[n].regId
               /\ file[at + BLOCK_PREFIX + 2 * (n - 1) + 1] = d[n].value
    <3>1. 2 * n - 1 \in 1 .. Len(t) /\ 2 * n \in 1 .. Len(t)
      BY <1>0, <1>4, SMTT(30)
    <3>2. t[2 * n - 1] = d[n].regId /\ t[2 * n] = d[n].value
      BY <1>4
    <3>3. encode(r)[4 + (2 * n - 1)] = d[n].regId /\ encode(r)[4 + 2 * n] = d[n].value
      BY <3>1, <3>2, <1>5
    <3>4. 4 + (2 * n - 1) \in 4 .. 4 + Len(t) /\ 4 + 2 * n \in 4 .. 4 + Len(t)
      BY <3>1, <2>0
    <3>5. file[at - 1 + (4 + (2 * n - 1))] = d[n].regId /\ file[at - 1 + (4 + 2 * n)] = d[n].value
      BY <2>1, <3>3, <3>4
    <3>6. /\ at - 1 + (4 + (2 * n - 1)) = at + BLOCK_PREFIX + 2 * (n - 1)
          /\ at - 1 + (4 + 2 * n) = at + BLOCK_PREFIX + 2 * (n - 1) + 1
      BY <1>0 DEF BLOCK_PREFIX
    <3>7. QED BY <3>5, <3>6
  <2>4. \A n \in 1 .. Len(d) : d[n] = [regId |-> d[n].regId, value |-> d[n].value]
    <3>1. \A n \in 1 .. Len(d) : d[n] \in Delta
      BY ElementOfSeq
    <3>2. QED BY <3>1 DEF Delta
  <2> DEFINE e == [n \in 1 .. flags_of(file[at]) |->
                     [regId |-> file[at + BLOCK_PREFIX + 2 * (n - 1)],
                      value |-> file[at + BLOCK_PREFIX + 2 * (n - 1) + 1]]]
  <2>5. e = d
    <3>1. flags_of(file[at]) = Len(d)
      BY <1>2, <2>2
    <3>2. \A n \in 1 .. Len(d) : e[n] = d[n]
      BY <2>3, <2>4, <3>1
    <3>3. e = [n \in 1 .. Len(d) |-> d[n]]
      BY <3>1, <3>2
    <3>4. d = [n \in 1 .. Len(d) |-> d[n]]
      BY <1>0
    <3> HIDE DEF e
    <3>5. QED BY <3>3, <3>4
  <2>6. readBlock(file, at) = r
    <3>1. readBlock(file, at) = Block(file[at + 1], file[at + 2], file[at + 3], e)
      BY DEF readBlock
    <3> HIDE DEF e
    <3>2. QED BY <3>1, <2>2, <2>5, <1>1
  <2> HIDE DEF e
  <2>7. type_of(file[at]) = 1
    BY <2>2, <1>2
  <2>8. QED BY <2>6, <2>7 DEF readRecord, BLOCK, EXCEPTION, MARKER, END
<1>8. QED BY <1>6, <1>7 DEF ReadBack

LEMMA RecordReadsBack ==
    ASSUME NEW r \in Record
    PROVE  Measured(r) /\ ReadBack(r)
  BY EndReadsBack, MarkerReadsBack, ExceptionReadsBack, BlockReadsBack DEF Record

(***************************************************************************)
(* A file that holds records one after the other, the k-th at pos[k].      *)
(***************************************************************************)
Layout(file, records, pos) ==
    /\ HasHeader(file)
    /\ pos \in [1 .. Len(records) + 1 -> Nat]
    /\ pos[1] = HEADER + 1
    /\ pos[Len(records) + 1] = Len(file) + 1
    /\ \A k \in 1 .. Len(records) + 1 : pos[k] > HEADER
    /\ \A k \in 1 .. Len(records) : /\ pos[k + 1] = pos[k] + Len(encode(records[k]))
                                   /\ Placed(file, pos[k], encode(records[k]))

Holds(file, records) == \E pos : Layout(file, records, pos)

LEMMA PutRecords ==
    ASSUME NEW file, NEW t, NEW u
    PROVE  [Loaded(file, t) EXCEPT !.records = u] = Loaded(file, u)
<1>1. PICK b : b = TRUE
  OBVIOUS
<1>2. [[ok |-> b, flags |-> file[3], feature |-> file[4], records |-> t] EXCEPT !.records = u]
        = [ok |-> b, flags |-> file[3], feature |-> file[4], records |-> u]
  OBVIOUS
<1>3. QED BY <1>1, <1>2 DEF Loaded

\* The loop at a record that begins in what is seen of the file: it stops when
\* the record is cut off, and otherwise yields it and goes on with the next.
LEMMA LoopReadsRecord ==
    ASSUME NEW file \in Seq(Nat), NEW r \in Record, NEW at \in Nat, at > HEADER, Placed(file, at, encode(r)),
           NEW n \in Nat, n <= Len(file), at <= n, NEW g
    PROVE  LET seen == SubSeq(file, 1, n)
               next == at + Len(encode(r))
           IN  /\ next > n + 1 => LoadStep(seen, g, at) = TraceFormatError
               /\ next <= n + 1 /\ g[next] = TraceFormatError => LoadStep(seen, g, at) = TraceFormatError
               /\ \A t : next <= n + 1 /\ g[next] = Loaded(seen, t)
                            => LoadStep(seen, g, at) = Loaded(seen, <<r>> \o t)
<1> DEFINE seen == SubSeq(file, 1, n)
           L == Len(encode(r))
<1>1. Measured(r) /\ ReadBack(r)
  BY RecordReadsBack
<1>2. L \in Nat /\ L >= 1
  BY <1>1 DEF Measured
<1>3. seen \in Seq(Nat) /\ Len(seen) = n /\ \A i \in 1 .. n : seen[i] = file[i]
  <2>1. 1 \in 1 .. Len(file) + 1 /\ n \in 0 .. Len(file) /\ Len(file) \in Nat
    OBVIOUS
  <2>2. QED BY <2>1
<1>4. at \in 1 .. n
  BY DEF HEADER
<1>5. seen[at] = encode(r)[1]
  <2>0. 1 \in 1 .. L
    BY <1>2
  <2>1. file[at - 1 + 1] = encode(r)[1]
    BY <2>0 DEF Placed
  <2>2. at - 1 + 1 = at
    OBVIOUS
  <2>3. QED BY <2>1, <2>2, <1>3, <1>4
<1>6. length_of(seen[at]) = L /\ cells_read(seen[at]) = L
  BY <1>1, <1>5 DEF Measured
<1> HIDE DEF seen, L
<1>7. is_whole(seen, at) <=> at + L <= n + 1
  BY <1>2, <1>3, <1>6 DEF is_whole
<1>8. ~(at > Len(seen))
  BY <1>3
<1>9. at + L <= n + 1 => readRecord(seen, at) = r
  <2> SUFFICES ASSUME at + L <= n + 1 PROVE readRecord(seen, at) = r
    OBVIOUS
  <2>1. at - 1 + L <= Len(seen)
    BY <1>2, <1>3
  <2>2. ASSUME NEW i \in 1 .. L PROVE seen[at - 1 + i] = encode(r)[i]
    <3>1. at - 1 + i \in 1 .. n
      BY <1>2, <1>4
    <3>2. file[at - 1 + i] = encode(r)[i]
      BY DEF Placed, L
    <3>3. QED BY <3>1, <3>2, <1>3
  <2>3. Placed(seen, at, encode(r))
    BY <2>1, <2>2 DEF Placed, L
  <2>4. at \in Nat \ {0}
    BY <1>4
  <2>5. QED BY <2>3, <2>4, <1>1, <1>3 DEF ReadBack
<1>10. CASE at + L > n + 1
  <2>1. ~is_whole(seen, at)
    BY <1>7, <1>10, <1>2
  <2>2. LoadStep(seen, g, at) = TraceFormatError
    BY <2>1, <1>8 DEF LoadStep
  <2>3. ~(at + L <= n + 1)
    BY <1>10, <1>2
  <2>4. QED BY <2>2, <2>3 DEF seen, L
<1>11. CASE at + L <= n + 1
  <2>1. is_whole(seen, at) /\ readRecord(seen, at) = r
    BY <1>7, <1>9, <1>11
  <2>2. LoadStep(seen, g, at) = IF g[at + L].ok THEN [g[at + L] EXCEPT !.records = <<r>> \o @] ELSE g[at + L]
    BY <2>1, <1>6, <1>8 DEF LoadStep
  <2>3. ~(at + L > n + 1)
    BY <1>11, <1>2
  <2>4. g[at + L] = TraceFormatError => LoadStep(seen, g, at) = TraceFormatError
    BY <2>2 DEF TraceFormatError
  <2>5. ASSUME NEW t, g[at + L] = Loaded(seen, t) PROVE LoadStep(seen, g, at) = Loaded(seen, <<r>> \o t)
    <3>1. g[at + L].ok
      BY <2>5 DEF Loaded
    <3>2. LoadStep(seen, g, at) = [Loaded(seen, t) EXCEPT !.records = <<r>> \o Loaded(seen, t).records]
      BY <2>2, <2>5, <3>1
    <3>3. Loaded(seen, t).records = t
      BY DEF Loaded
    <3>4. LoadStep(seen, g, at) = [Loaded(seen, t) EXCEPT !.records = <<r>> \o t]
      BY <3>2, <3>3
    <3>5. QED BY <3>4, PutRecords
  <2>6. QED BY <2>3, <2>4, <2>5 DEF seen, L
<1>12. QED BY <1>10, <1>11, <1>2

\* What the loop yields at the k-th record when n cells are seen: an error, or the
\* records up to one that ends with what is seen; all of them when that is the file.
Yields(file, records, pos, n, g, k) ==
    LET seen == SubSeq(file, 1, n)
    IN  pos[k] <= n + 1 =>
          /\ \/ g[pos[k]] = TraceFormatError
             \/ \E m \in k - 1 .. Len(records) : /\ pos[m + 1] = n + 1
                                                /\ g[pos[k]] = Loaded(seen, SubSeq(records, k, m))
          /\ n = Len(file) => g[pos[k]] = Loaded(seen, SubSeq(records, k, Len(records)))

IsLoop(file, g) == g = [p \in HEADER + 1 .. Len(file) + 1 |-> LoadStep(file, g, p)]

\* At the end of what is seen the loop yields no record.
LEMMA YieldsAtEnd ==
    ASSUME NEW file \in Seq(Nat), NEW records \in Seq(Record), NEW pos, Layout(file, records, pos),
           NEW n \in Nat, n <= Len(file), NEW g, IsLoop(SubSeq(file, 1, n), g),
           NEW k \in 1 .. Len(records) + 1, pos[k] = n + 1
    PROVE  Yields(file, records, pos, n, g, k)
<1> DEFINE seen == SubSeq(file, 1, n)
<1>0. Len(records) \in Nat /\ Len(file) \in Nat
  OBVIOUS
<1>1. Len(seen) = n
  <2>1. 1 \in 1 .. Len(file) + 1 /\ n \in 0 .. Len(file)
    BY <1>0
  <2>2. QED BY <2>1
<1>2. pos[k] \in HEADER + 1 .. n + 1 /\ pos[k] > n
  BY <1>0 DEF Layout, HEADER
<1>3. g[pos[k]] = Loaded(seen, <<>>)
  <2> HIDE DEF seen
  <2>1. g[pos[k]] = LoadStep(seen, g, pos[k])
    BY <1>1, <1>2 DEF IsLoop, seen
  <2>2. QED BY <2>1, <1>1, <1>2 DEF LoadStep, Loaded
<1>4. SubSeq(records, k, k - 1) = <<>>
  BY <1>0, SubSeqEmpty
<1>5. k - 1 \in k - 1 .. Len(records) /\ pos[(k - 1) + 1] = n + 1
  BY <1>0
<1>6. \E m \in k - 1 .. Len(records) : pos[m + 1] = n + 1 /\ g[pos[k]] = Loaded(seen, SubSeq(records, k, m))
  BY <1>3, <1>4, <1>5
<1>7. ASSUME n = Len(file) PROVE k = Len(records) + 1
  <2>1. SUFFICES ASSUME k \in 1 .. Len(records) PROVE FALSE
    BY <1>0
  <2>2. records[k] \in Record
    BY <2>1, ElementOfSeq
  <2>3. Len(encode(records[k])) \in Nat /\ Len(encode(records[k])) >= 1
    BY <2>2, RecordReadsBack, SMTT(30) DEF Measured
  <2>4. Placed(file, pos[k], encode(records[k])) /\ pos[k] \in Nat
    BY <2>1 DEF Layout
  <2>5. QED BY <2>3, <2>4, <1>0, <1>7 DEF Placed
<1>8. ASSUME n = Len(file) PROVE SubSeq(records, k, Len(records)) = <<>>
  BY <1>0, <1>7, <1>8, SubSeqEmpty
<1> HIDE DEF seen
<1>9. QED BY <1>3, <1>6, <1>8 DEF Yields, seen

\* And at a record that begins before it, what the loop yields at the next one
\* decides.
LEMMA YieldsBefore ==
    ASSUME NEW file \in Seq(Nat), NEW records \in Seq(Record), NEW pos, Layout(file, records, pos),
           NEW n \in Nat, n <= Len(file), NEW g, IsLoop(SubSeq(file, 1, n), g),
           NEW k \in 1 .. Len(records), pos[k] <= n, Yields(file, records, pos, n, g, k + 1)
    PROVE  Yields(file, records, pos, n, g, k)
<1> DEFINE seen == SubSeq(file, 1, n)
           r    == records[k]
           at   == pos[k]
           next == pos[k + 1]
<1>0. Len(records) \in Nat /\ Len(file) \in Nat
  OBVIOUS
<1>1. Len(seen) = n
  <2>1. 1 \in 1 .. Len(file) + 1 /\ n \in 0 .. Len(file)
    BY <1>0
  <2>2. QED BY <2>1
<1>2. r \in Record
  BY ElementOfSeq
<1>3. Len(encode(r)) \in Nat /\ Len(encode(r)) >= 1
  BY <1>2, RecordReadsBack DEF Measured
<1>4. at \in Nat /\ at > HEADER /\ next = at + Len(encode(r)) /\ Placed(file, at, encode(r))
  BY <1>0 DEF Layout
<1>5. g[at] = LoadStep(seen, g, at)
  <2>1. at \in HEADER + 1 .. n + 1
    BY <1>4 DEF HEADER
  <2> HIDE DEF seen, at
  <2>2. QED BY <1>1, <2>1 DEF IsLoop, seen
<1>6. /\ next > n + 1 => g[at] = TraceFormatError
      /\ next <= n + 1 /\ g[next] = TraceFormatError => g[at] = TraceFormatError
      /\ \A t : next <= n + 1 /\ g[next] = Loaded(seen, t) => g[at] = Loaded(seen, <<r>> \o t)
  <2> HIDE DEF r, at, next
  <2>1. at <= n
    BY DEF at
  <2> DEFINE after == at + Len(encode(r))
  <2>2. /\ after > n + 1 => LoadStep(SubSeq(file, 1, n), g, at) = TraceFormatError
        /\ after <= n + 1 /\ g[after] = TraceFormatError
             => LoadStep(SubSeq(file, 1, n), g, at) = TraceFormatError
        /\ \A t : after <= n + 1 /\ g[after] = Loaded(SubSeq(file, 1, n), t)
             => LoadStep(SubSeq(file, 1, n), g, at) = Loaded(SubSeq(file, 1, n), <<r>> \o t)
    BY <1>2, <1>4, <2>1, LoopReadsRecord
  <2> HIDE DEF after, seen
  <2>3. QED BY <2>2, <1>4, <1>5 DEF after, seen
<1>7. ASSUME NEW m \in k .. Len(records) PROVE <<r>> \o SubSeq(records, k + 1, m) = SubSeq(records, k, m)
  BY SubSeqRecursiveFirst
<1>8. ASSUME NEW m \in k .. Len(records), next <= n + 1, g[next] = Loaded(seen, SubSeq(records, k + 1, m))
      PROVE  g[at] = Loaded(seen, SubSeq(records, k, m))
  <2> HIDE DEF seen, r, at, next
  <2>1. g[at] = Loaded(seen, <<r>> \o SubSeq(records, k + 1, m))
    BY <1>6, <1>8
  <2>2. QED BY <2>1, <1>7
<1>9. next \in Nat
  BY <1>3, <1>4
<1>10. CASE next > n + 1
  <2>1. g[at] = TraceFormatError
    BY <1>6, <1>10
  <2>2. n # Len(file)
    BY <1>3, <1>4, <1>10, <1>0 DEF Placed
  <2>3. QED BY <2>1, <2>2 DEF Yields
<1>11. CASE next <= n + 1
  <2>1. \/ g[next] = TraceFormatError
        \/ \E m \in k .. Len(records) : pos[m + 1] = n + 1 /\ g[next] = Loaded(seen, SubSeq(records, k + 1, m))
    <3>1. (k + 1) - 1 = k
      OBVIOUS
    <3>2. QED BY <3>1, <1>11 DEF Yields
  <2>2. n = Len(file) => g[next] = Loaded(seen, SubSeq(records, k + 1, Len(records)))
    BY <1>11 DEF Yields
  <2>3. \/ g[at] = TraceFormatError
        \/ \E m \in k - 1 .. Len(records) : pos[m + 1] = n + 1 /\ g[at] = Loaded(seen, SubSeq(records, k, m))
    <3>1. CASE g[next] = TraceFormatError
      BY <3>1, <1>6, <1>11
    <3>2. CASE \E m \in k .. Len(records) : pos[m + 1] = n + 1 /\ g[next] = Loaded(seen, SubSeq(records, k + 1, m))
      <4>1. PICK m \in k .. Len(records) : pos[m + 1] = n + 1 /\ g[next] = Loaded(seen, SubSeq(records, k + 1, m))
        BY <3>2
      <4>2. m \in k - 1 .. Len(records)
        BY <1>0
      <4>3. g[at] = Loaded(seen, SubSeq(records, k, m))
        BY <4>1, <1>8, <1>11
      <4>4. QED BY <4>1, <4>2, <4>3
    <3>3. QED BY <2>1, <3>1, <3>2
  <2>4. n = Len(file) => g[at] = Loaded(seen, SubSeq(records, k, Len(records)))
    <3>1. Len(records) \in k .. Len(records)
      BY <1>0
    <3>2. QED BY <2>2, <3>1, <1>8, <1>11
  <2> HIDE DEF seen
  <2>5. QED BY <2>3, <2>4 DEF Yields, seen
<1>12. QED BY <1>9, <1>10, <1>11

\* Down from the last record to the first.
LEMMA LoopYields ==
    ASSUME NEW file \in Seq(Nat), NEW records \in Seq(Record), NEW pos, Layout(file, records, pos),
           NEW n \in Nat, n <= Len(file), NEW g, IsLoop(SubSeq(file, 1, n), g)
    PROVE  Yields(file, records, pos, n, g, 1)
<1> DEFINE last == Len(records) + 1
           P(k) == Yields(file, records, pos, n, g, k)
           Bad  == {j \in Nat : j < last /\ ~P(last - j)}
<1>0. Len(records) \in Nat /\ Len(file) \in Nat
  OBVIOUS
<1>1. ASSUME NEW k \in 1 .. last PROVE pos[k] \in Nat
  BY <1>0 DEF Layout
<1>2. P(last)
  <2>1. last \in 1 .. last /\ pos[last] = Len(file) + 1
    BY <1>0 DEF Layout
  <2>2. CASE n = Len(file)
    BY <2>1, <2>2, YieldsAtEnd
  <2>3. CASE n # Len(file)
    BY <2>1, <2>3, <1>0 DEF Yields
  <2>4. QED BY <2>2, <2>3
<1>3. ASSUME NEW k \in 1 .. Len(records), P(k + 1) PROVE P(k)
  <2>1. k \in 1 .. last /\ pos[k] \in Nat
    BY <1>0, <1>1
  <2>2. CASE pos[k] <= n
    BY <1>3, <2>2, YieldsBefore
  <2>3. CASE pos[k] = n + 1
    BY <2>1, <2>3, YieldsAtEnd
  <2>4. CASE pos[k] > n + 1
    BY <2>1, <2>4 DEF Yields
  <2>5. QED BY <2>1, <2>2, <2>3, <2>4
<1> HIDE DEF P
<1>4. ASSUME Bad # {} PROVE FALSE
  <2>1. PICK j \in Bad : \A i \in Bad : j <= i
    <3>1. Bad \in SUBSET Nat
      OBVIOUS
    <3> HIDE DEF Bad
    <3>2. QED BY <1>4, <3>1, LeastNatural
  <2>2. j \in Nat /\ j < last /\ ~P(last - j)
    BY <2>1
  <2>3. j # 0
    BY <1>0, <1>2, <2>2
  <2>4. j - 1 \in Nat /\ j - 1 < last /\ ~(j <= j - 1)
    BY <1>0, <2>2, <2>3
  <2>5. P(last - (j - 1))
    BY <2>1, <2>4
  <2>6. last - j \in 1 .. Len(records) /\ (last - j) + 1 = last - (j - 1)
    BY <1>0, <2>2, <2>3
  <2>7. P(last - j)
    BY <1>3, <2>5, <2>6
  <2>8. QED BY <2>2, <2>7
<1>5. last - (last - 1) = 1 /\ last - 1 \in Nat /\ last - 1 < last
  BY <1>0
<1>6. P(1)
  BY <1>4, <1>5
<1>7. QED BY <1>6 DEF P

(***************************************************************************)
(* What a reader makes of any prefix of a file that holds records, and of  *)
(* the whole.                                                              *)
(***************************************************************************)
\* Cut off anywhere, a file that holds records is refused or reads as its first
\* records, in order; it never reads as anything else.  (reader.mjs loadTrace,
\* over what writer.rs and coracle_trace.c encode)
THEOREM PrefixReads ==
    ASSUME NEW file \in Seq(Nat), NEW records \in Seq(Record), Holds(file, records),
           NEW n \in Nat, n <= Len(file), loadTrace(SubSeq(file, 1, n)).ok
    PROVE  \E m \in 0 .. Len(records) : loadTrace(SubSeq(file, 1, n)).records = SubSeq(records, 1, m)
<1> DEFINE seen == SubSeq(file, 1, n)
<1>0. Len(file) \in Nat /\ Len(records) \in Nat
  OBVIOUS
<1>1. seen \in Seq(Nat) /\ Len(seen) = n
  <2>1. 1 \in 1 .. Len(file) + 1 /\ n \in 0 .. Len(file)
    BY <1>0
  <2>2. QED BY <2>1
<1>2. HasHeader(seen)
  <2> HIDE DEF seen
  <2>1. SUFFICES ASSUME ~HasHeader(seen) PROVE FALSE
    OBVIOUS
  <2>2. loadTrace(seen) = TraceFormatError
    BY <2>1 DEF loadTrace, HasHeader
  <2>3. QED BY <2>2 DEF TraceFormatError, seen
<1>3. PICK pos : Layout(file, records, pos)
  BY DEF Holds
<1>4. PICK g : IsLoop(seen, g) /\ loadTrace(seen) = g[HEADER + 1]
  BY <1>1, <1>2, LoadIsLoop DEF IsLoop
<1>5. Yields(file, records, pos, n, g, 1)
  BY <1>3, <1>4, LoopYields
<1>6. pos[1] = HEADER + 1 /\ HEADER + 1 <= n + 1
  <2> HIDE DEF seen
  <2>1. QED BY <1>1, <1>2, <1>3 DEF Layout, HasHeader, HEADER
<1>7. g[HEADER + 1] # TraceFormatError
  BY <1>4 DEF TraceFormatError
<1>8. PICK m \in 0 .. Len(records) : g[HEADER + 1] = Loaded(seen, SubSeq(records, 1, m))
  <2>1. \E m \in 1 - 1 .. Len(records) : g[pos[1]] = Loaded(seen, SubSeq(records, 1, m))
    BY <1>5, <1>6, <1>7 DEF Yields
  <2>2. QED BY <2>1, <1>6
<1>9. loadTrace(seen).records = SubSeq(records, 1, m)
  <2> HIDE DEF seen
  <2>1. QED BY <1>4, <1>8 DEF Loaded
<1>10. QED BY <1>9

LEMMA WholeReads ==
    ASSUME NEW file \in Seq(Nat), NEW records \in Seq(Record), Holds(file, records)
    PROVE  loadTrace(file).ok /\ loadTrace(file).records = records
<1> DEFINE n == Len(file)
           seen == SubSeq(file, 1, n)
<1>0. n \in Nat /\ n <= Len(file)
  OBVIOUS
<1>1. seen = file
  BY SubSeqFull
<1>2. PICK pos : Layout(file, records, pos)
  BY DEF Holds
<1>3. HasHeader(file)
  BY <1>2 DEF Layout
<1>4. PICK g : IsLoop(seen, g) /\ loadTrace(file) = g[HEADER + 1]
  BY <1>1, <1>3, LoadIsLoop DEF IsLoop
<1>5. Yields(file, records, pos, n, g, 1)
  BY <1>0, <1>2, <1>4, LoopYields
<1>6. pos[1] = HEADER + 1 /\ HEADER + 1 <= n + 1
  BY <1>0, <1>2, <1>3 DEF Layout, HasHeader, HEADER
<1>7. g[HEADER + 1] = Loaded(seen, SubSeq(records, 1, Len(records)))
  BY <1>5, <1>6 DEF Yields
<1>8. SubSeq(records, 1, Len(records)) = records
  BY SubSeqFull
<1>9. loadTrace(file) = Loaded(file, records)
  BY <1>1, <1>4, <1>7, <1>8
<1>10. QED BY <1>9 DEF Loaded

(***************************************************************************)
(* Writing.                                                                *)
(***************************************************************************)
LEMMA StillPlaced ==
    ASSUME NEW file \in Seq(Nat), NEW whole \in Seq(Nat), Len(file) <= Len(whole),
           \A i \in 1 .. Len(file) : whole[i] = file[i],
           NEW at \in Nat \ {0}, NEW cells \in Seq(Nat), Placed(file, at, cells)
    PROVE  Placed(whole, at, cells)
<1>1. Len(file) \in Nat /\ Len(whole) \in Nat /\ Len(cells) \in Nat
  OBVIOUS
<1>2. at - 1 + Len(cells) <= Len(file)
  BY DEF Placed
<1>3. ASSUME NEW i \in 1 .. Len(cells) PROVE whole[at - 1 + i] = cells[i]
  <2>1. at - 1 + i \in 1 .. Len(file)
    BY <1>1, <1>2
  <2>2. file[at - 1 + i] = cells[i]
    BY DEF Placed
  <2>3. QED BY <2>1, <2>2
<1>4. at - 1 + Len(cells) <= Len(whole)
  BY <1>1, <1>2
<1>5. QED BY <1>3, <1>4 DEF Placed

LEMMA HoldsOneMore ==
    ASSUME NEW file \in Seq(Nat), NEW records \in Seq(Record), Holds(file, records), NEW r \in Record
    PROVE  file \o encode(r) \in Seq(Nat) /\ Holds(file \o encode(r), Append(records, r))
<1> DEFINE N     == Len(records)
           F     == Len(file)
           cells == encode(r)
           L     == Len(cells)
           whole == file \o cells
           all   == Append(records, r)
<1>1. PICK pos : Layout(file, records, pos)
  BY DEF Holds
<1>2. cells \in Seq(Nat) /\ L \in Nat /\ N \in Nat /\ F \in Nat
  BY RecordReadsBack DEF Measured
<1>3. /\ whole \in Seq(Nat) /\ Len(whole) = F + L
      /\ \A i \in 1 .. F : whole[i] = file[i]
      /\ \A i \in 1 .. L : whole[F + i] = cells[i]
  <2> HIDE DEF cells
  <2>1. QED BY <1>2
<1>4. Len(all) = N + 1 /\ all[N + 1] = r /\ \A k \in 1 .. N : all[k] = records[k]
  BY <1>2
<1> DEFINE next == [k \in 1 .. N + 2 |-> IF k = N + 2 THEN F + 1 + L ELSE pos[k]]
<1>5. pos \in [1 .. N + 1 -> Nat] /\ pos[N + 1] = F + 1 /\ pos[1] = HEADER + 1
  BY <1>1 DEF Layout
<1>6. /\ next \in [1 .. N + 2 -> Nat] /\ next[N + 2] = F + 1 + L
      /\ \A k \in 1 .. N + 1 : next[k] = pos[k]
  BY <1>2, <1>5
<1> HIDE DEF next, whole, all, cells
<1>7. HasHeader(whole)
  <2>1. HasHeader(file)
    BY <1>1 DEF Layout
  <2>2. F >= 4 /\ file[1] = MAGIC /\ file[2] = FORMAT_VERSION
    BY <2>1 DEF HasHeader, HEADER
  <2>3. 1 \in 1 .. F /\ 2 \in 1 .. F /\ Len(whole) >= 4
    BY <1>2, <1>3, <2>2, SMTT(30)
  <2>4. QED BY <1>3, <2>2, <2>3 DEF HasHeader, HEADER
<1>8. next[1] = HEADER + 1 /\ next[N + 2] = Len(whole) + 1
  BY <1>2, <1>3, <1>5, <1>6
<1>9. ASSUME NEW k \in 1 .. N + 2 PROVE next[k] > HEADER
  <2>1. CASE k = N + 2
    <3>1. F >= HEADER
      BY <1>1 DEF Layout, HasHeader
    <3>2. QED BY <2>1, <3>1, <1>2, <1>6 DEF HEADER
  <2>2. CASE k # N + 2
    <3>1. k \in 1 .. N + 1
      BY <2>2, <1>2
    <3>2. pos[k] > HEADER
      BY <3>1, <1>1 DEF Layout
    <3>3. QED BY <3>1, <3>2, <1>6
  <2>3. QED BY <2>1, <2>2
<1>10. ASSUME NEW k \in 1 .. N + 1
       PROVE  /\ next[k + 1] = next[k] + Len(encode(all[k]))
              /\ Placed(whole, next[k], encode(all[k]))
  <2>1. CASE k = N + 1
    <3>0. k + 1 = N + 2
      BY <2>1, <1>2
    <3>a. next[k] = F + 1 /\ next[k + 1] = F + 1 + L
      BY <3>0, <2>1, <1>5, <1>6
    <3>1. next[k] = F + 1 /\ next[k + 1] = F + 1 + L /\ encode(all[k]) = cells
      BY <3>a, <2>1, <1>4 DEF cells
    <3>2. \A i \in 1 .. L : F + 1 - 1 + i = F + i
      BY <1>2
    <3>3. Placed(whole, F + 1, cells)
      BY <3>2, <1>2, <1>3 DEF Placed
    <3>4. QED BY <3>1, <3>3
  <2>2. CASE k # N + 1
    <3>1. k \in 1 .. N /\ k \in 1 .. N + 1 /\ k + 1 \in 1 .. N + 1
      BY <2>2, <1>2
    <3>2. next[k] = pos[k] /\ next[k + 1] = pos[k + 1] /\ all[k] = records[k]
      BY <3>1, <1>4, <1>6
    <3>3. pos[k + 1] = pos[k] + Len(encode(records[k])) /\ Placed(file, pos[k], encode(records[k]))
      BY <3>1, <1>1 DEF Layout
    <3>4. pos[k] \in Nat \ {0}
      <4>1. pos[k] \in Nat
        BY <3>1, <1>5
      <4>2. pos[k] > HEADER
        BY <3>1, <1>1 DEF Layout
      <4>3. QED BY <4>1, <4>2 DEF HEADER
    <3>5. records[k] \in Record
      BY <3>1, ElementOfSeq
    <3>6. encode(records[k]) \in Seq(Nat)
      BY <3>5, RecordReadsBack DEF Measured
    <3>7. Len(file) <= Len(whole) /\ \A i \in 1 .. Len(file) : whole[i] = file[i]
      BY <1>2, <1>3
    <3>8. Placed(whole, pos[k], encode(records[k]))
      BY <3>3, <3>4, <3>6, <3>7, <1>3, StillPlaced
    <3>9. QED BY <3>2, <3>3, <3>8
  <2>3. QED BY <2>1, <2>2
<1>11. Layout(whole, all, next)
  BY <1>4, <1>6, <1>7, <1>8, <1>9, <1>10, <1>2 DEF Layout
<1>12. QED BY <1>3, <1>11 DEF Holds, whole, all, cells

\* A new file holds nothing.
LEMMA HeaderHoldsNothing ==
    ASSUME NEW flags \in Nat, NEW feature \in Nat
    PROVE  file_header(flags, feature) \in Seq(Nat) /\ Holds(file_header(flags, feature), <<>>)
<1> DEFINE file == file_header(flags, feature)
           pos  == [k \in 1 .. 1 |-> HEADER + 1]
<1>1. file \in Seq(Nat) /\ Len(file) = 4 /\ file[1] = MAGIC /\ file[2] = FORMAT_VERSION
  BY DEF file_header, MAGIC, FORMAT_VERSION
<1>2. Len(<<>>) = 0
  OBVIOUS
<1>3. Layout(file, <<>>, pos)
  <2> HIDE DEF file
  <2>1. QED BY <1>1, <1>2 DEF Layout, HasHeader, HEADER
<1>4. QED BY <1>1, <1>3 DEF Holds

(***************************************************************************)
(* Writers.                                                                *)
(***************************************************************************)
Writers == [buffer : Seq(Nat), out : Seq(Nat)]

\* Whatever the plugin keeps back, nothing is lost, repeated or overtaken.
LEMMA EmitAppends ==
    ASSUME NEW w \in Writers, NEW cells \in Seq(Nat)
    PROVE  LET v == trace_writer_emit(w, cells)
           IN  v \in Writers /\ v.out \o v.buffer = (w.out \o w.buffer) \o cells
<1>0. PICK b \in Seq(Nat), o \in Seq(Nat) : w = [buffer |-> b, out |-> o]
  BY DEF Writers
<1>1. BUFFER \in Nat /\ Len(b) \in Nat /\ Len(cells) \in Nat
  BY PipeAssumption
<1>2. w.buffer = b /\ w.out = o
  BY <1>0
<1>3. o \o b \in Seq(Nat) /\ b \o cells \in Seq(Nat) /\ (o \o b) \o cells \in Seq(Nat)
  OBVIOUS
<1>4. (o \o b) \o cells = o \o (b \o cells)
  BY ConcatAssociative, SMTT(30)
<1>5. \A s \in Seq(Nat) : <<>> \o s = s /\ s \o <<>> = s
  BY ConcatEmptySeq
<1>6. CASE Len(b) + Len(cells) > BUFFER /\ Len(cells) > BUFFER
  <2>1. trace_writer_emit(w, cells) = [buffer |-> <<>>, out |-> (o \o b) \o cells]
    BY <1>2, <1>6 DEF trace_writer_emit
  <2>2. QED BY <2>1, <1>2, <1>3, <1>5 DEF Writers
<1>7. CASE Len(b) + Len(cells) > BUFFER /\ ~(Len(cells) > BUFFER)
  <2>1. trace_writer_emit(w, cells) = [buffer |-> <<>> \o cells, out |-> o \o b]
    BY <1>2, <1>7 DEF trace_writer_emit
  <2>2. <<>> \o cells = cells
    BY <1>5
  <2>3. QED BY <2>1, <2>2, <1>2, <1>3 DEF Writers
<1>8. CASE ~(Len(b) + Len(cells) > BUFFER)
  <2>1. ~(Len(cells) > BUFFER)
    BY <1>1, <1>8
  <2>2. trace_writer_emit(w, cells) = [buffer |-> b \o cells, out |-> o]
    BY <1>0, <2>1, <1>8 DEF trace_writer_emit
  <2>3. QED BY <2>2, <1>2, <1>3, <1>4 DEF Writers
<1>9. QED BY <1>6, <1>7, <1>8

LEMMA EmittedAppends ==
    ASSUME NEW c, NEW w \in Writers, NEW r, encode(r) \in Seq(Nat)
    PROVE  LET v == emitted(c, w, r)
           IN  v \in Writers /\ v.out \o v.buffer = (w.out \o w.buffer) \o encode(r)
<1>1. CASE is_qemu(c)
  BY <1>1, EmitAppends DEF emitted
<1>2. CASE ~is_qemu(c)
  <2>0. PICK b \in Seq(Nat), o \in Seq(Nat) : w = [buffer |-> b, out |-> o]
    BY DEF Writers
  <2>1. emitted(c, w, r) = [buffer |-> b \o encode(r), out |-> o]
    BY <1>2, <2>0 DEF emitted
  <2>2. o \o (b \o encode(r)) = (o \o b) \o encode(r)
    BY ConcatAssociative, SMTT(30)
  <2>3. b \o encode(r) \in Seq(Nat)
    OBVIOUS
  <2>4. w.buffer = b /\ w.out = o
    BY <2>0
  <2> DEFINE v == emitted(c, w, r)
  <2>5. v.buffer = b \o encode(r) /\ v.out = o /\ v \in Writers
    BY <2>1, <2>3 DEF Writers
  <2> HIDE DEF v
  <2>6. QED BY <2>2, <2>4, <2>5 DEF v
<1>3. QED BY <1>1, <1>2

LEMMA FinishedAppends ==
    ASSUME NEW c, NEW w \in Writers, NEW r, encode(r) \in Seq(Nat)
    PROVE  LET v == finished_with(c, w, r)
           IN  v \in Writers /\ v.out \o v.buffer = (w.out \o w.buffer) \o encode(r)
<1> DEFINE u == emitted(c, w, r)
<1>1. u \in Writers /\ u.out \o u.buffer = (w.out \o w.buffer) \o encode(r)
  BY EmittedAppends
<1> HIDE DEF u
<1>2. CASE is_qemu(c)
  <2>1. finished_with(c, w, r) = [buffer |-> <<>>, out |-> u.out \o u.buffer]
    BY <1>2 DEF finished_with, trace_writer_close, u
  <2>2. u.out \o u.buffer \in Seq(Nat)
    BY <1>1 DEF Writers
  <2>3. (u.out \o u.buffer) \o <<>> = u.out \o u.buffer
    BY <2>2, ConcatEmptySeq
  <2>4. QED BY <1>1, <2>1, <2>2, <2>3 DEF Writers
<1>3. CASE ~is_qemu(c)
  BY <1>1, <1>3 DEF finished_with, u
<1>4. QED BY <1>2, <1>3

(***************************************************************************)
(* The deltas of a block: the registers that moved, each with its value.   *)
(***************************************************************************)
\* A loop that goes through s and keeps the elements at the positions in W.
PickStep(s, W, g, n) == IF n = 0 THEN <<>>
                        ELSE IF n \in W THEN Append(g[n - 1], s[n]) ELSE g[n - 1]

IsPick(s, W, g, n) == g = [i \in 0 .. n |-> PickStep(s, W, g, i)]

LEMMA PickExists ==
    ASSUME NEW s, NEW W, NEW n \in Nat
    PROVE  \E g : IsPick(s, W, g, n)
<1> DEFINE P(k) == \E g : IsPick(s, W, g, k)
           Bad  == {k \in Nat : ~P(k)}
<1>1. P(0)
  <2> DEFINE e == [i \in 0 .. 0 |-> <<>>]
  <2>1. e = [i \in 0 .. 0 |-> PickStep(s, W, e, i)]
    BY DEF PickStep
  <2>2. IsPick(s, W, e, 0)
    BY <2>1 DEF IsPick
  <2>3. QED BY <2>2
<1>2. ASSUME NEW k \in Nat, P(k) PROVE P(k + 1)
  <2>1. PICK h : IsPick(s, W, h, k)
    BY <1>2
  <2> DEFINE e == [i \in 0 .. k + 1 |-> IF i = k + 1 THEN PickStep(s, W, h, k + 1) ELSE h[i]]
  <2>2. ASSUME NEW i \in 0 .. k PROVE e[i] = h[i]
    OBVIOUS
  <2>3. e[k + 1] = PickStep(s, W, h, k + 1)
    OBVIOUS
  <2>4. ASSUME NEW i \in 0 .. k + 1 PROVE PickStep(s, W, e, i) = PickStep(s, W, h, i)
    <3>1. i # 0 => i - 1 \in 0 .. k
      OBVIOUS
    <3>2. i # 0 => e[i - 1] = h[i - 1]
      BY <2>2, <3>1
    <3> HIDE DEF e
    <3>3. QED BY <3>2 DEF PickStep
  <2>5. ASSUME NEW i \in 0 .. k + 1 PROVE e[i] = PickStep(s, W, e, i)
    <3> HIDE DEF e
    <3>1. CASE i = k + 1
      BY <2>3, <2>4, <3>1
    <3>2. CASE i # k + 1
      <4>1. i \in 0 .. k
        BY <3>2
      <4>2. h[i] = PickStep(s, W, h, i)
        BY <4>1, <2>1 DEF IsPick
      <4>3. QED BY <4>1, <4>2, <2>2, <2>4
    <3>3. QED BY <3>1, <3>2
  <2>6. IsPick(s, W, e, k + 1)
    BY <2>5 DEF IsPick
  <2> HIDE DEF e
  <2>7. QED BY <2>6
<1> HIDE DEF P
<1>3. ASSUME Bad # {} PROVE FALSE
  <2>1. PICK k \in Bad : \A m \in Bad : k <= m
    <3>1. Bad \in SUBSET Nat
      OBVIOUS
    <3> HIDE DEF Bad
    <3>2. QED BY <1>3, <3>1, LeastNatural
  <2>2. k \in Nat /\ ~P(k) /\ k # 0
    BY <2>1, <1>1
  <2>3. k - 1 \in Nat /\ ~(k <= k - 1) /\ (k - 1) + 1 = k
    BY <2>2
  <2>4. P(k - 1)
    BY <2>1, <2>3
  <2>5. QED BY <2>2, <2>3, <2>4, <1>2
<1>4. P(n)
  BY <1>3
<1>5. QED BY <1>4 DEF P

ScanStep(ids, g, n) == IF n = 0 THEN <<>>
                       ELSE IF StateIds[n] \in ids THEN Append(g[n - 1], StateIds[n]) ELSE g[n - 1]

IsScan(ids, g, n) == g = [i \in 0 .. n |-> ScanStep(ids, g, i)]

LEMMA ScanExists ==
    ASSUME NEW ids, NEW n \in Nat
    PROVE  \E g : IsScan(ids, g, n)
<1> DEFINE W == {i \in 1 .. n : StateIds[i] \in ids}
<1>1. PICK g : IsPick(StateIds, W, g, n)
  BY PickExists
<1>2. ASSUME NEW i \in 0 .. n PROVE PickStep(StateIds, W, g, i) = ScanStep(ids, g, i)
  BY DEF PickStep, ScanStep
<1>3. IsScan(ids, g, n)
  BY <1>1, <1>2 DEF IsPick, IsScan
<1>4. QED BY <1>3

\* After n slots the scan has every register of the set among them, and no other.
Scanned(ids, s, n) ==
    /\ s \in Seq(Ids) /\ Len(s) <= n
    /\ \A i \in 1 .. Len(s) : s[i] \in ids
    /\ \A j \in 1 .. n : StateIds[j] \in ids => Has(s, StateIds[j])

LEMMA ScanOneMore ==
    ASSUME NEW ids, NEW s, NEW n \in Nat, n + 1 <= Len(StateIds), Scanned(ids, s, n)
    PROVE  Scanned(ids, IF StateIds[n + 1] \in ids THEN Append(s, StateIds[n + 1]) ELSE s, n + 1)
<1> DEFINE x == StateIds[n + 1]
<1>0. s \in Seq(Ids) /\ Len(s) \in Nat /\ Len(s) <= n
  BY DEF Scanned
<1>1. x \in Ids
  <2>1. n + 1 \in 1 .. Len(StateIds)
    BY WidthsArePositive
  <2>2. QED BY <2>1, StateIdsCover, ElementOfSeq
<1>2. CASE x \notin ids
  <2>1. ASSUME NEW j \in 1 .. n + 1, StateIds[j] \in ids PROVE Has(s, StateIds[j])
    <3>1. j \in 1 .. n
      BY <2>1, <1>2
    <3>2. QED BY <2>1, <3>1 DEF Scanned
  <2>2. Scanned(ids, s, n + 1)
    BY <2>1, <1>0 DEF Scanned
  <2>3. QED BY <2>2, <1>2
<1>3. CASE x \in ids
  <2> DEFINE t == Append(s, x)
  <2>1. /\ t \in Seq(Ids) /\ Len(t) = Len(s) + 1 /\ t[Len(s) + 1] = x
        /\ \A i \in 1 .. Len(s) : t[i] = s[i]
    <3> HIDE DEF x
    <3>1. QED BY <1>0, <1>1
  <2> HIDE DEF t
  <2>2. ASSUME NEW i \in 1 .. Len(t) PROVE t[i] \in ids
    <3>1. CASE i = Len(s) + 1
      BY <3>1, <2>1, <1>3
    <3>2. CASE i # Len(s) + 1
      <4>1. i \in 1 .. Len(s)
        BY <3>2, <2>1, <1>0
      <4>2. QED BY <4>1, <2>1 DEF Scanned
    <3>3. QED BY <3>1, <3>2
  <2>3. ASSUME NEW j \in 1 .. n + 1, StateIds[j] \in ids PROVE Has(t, StateIds[j])
    <3>1. CASE j = n + 1
      <4>1. Len(s) + 1 \in 1 .. Len(t)
        BY <2>1, <1>0
      <4>2. QED BY <3>1, <4>1, <2>1 DEF Has
    <3>2. CASE j # n + 1
      <4>1. j \in 1 .. n
        BY <3>2
      <4>2. PICK i \in 1 .. Len(s) : s[i] = StateIds[j]
        BY <2>3, <4>1 DEF Scanned, Has
      <4>3. i \in 1 .. Len(t) /\ t[i] = StateIds[j]
        BY <4>2, <2>1, <1>0
      <4>4. QED BY <4>3 DEF Has
    <3>3. QED BY <3>1, <3>2
  <2>4. Len(t) <= n + 1
    BY <2>1, <1>0
  <2>5. Scanned(ids, t, n + 1)
    BY <2>1, <2>2, <2>3, <2>4 DEF Scanned
  <2>6. QED BY <2>5, <1>3 DEF t
<1>4. QED BY <1>2, <1>3

LEMMA SlotOrderScans ==
    ASSUME NEW ids
    PROVE  Scanned(ids, in_slot_order(ids), Len(StateIds))
<1> DEFINE N    == Len(StateIds)
           loop == CHOOSE g : IsScan(ids, g, N)
           P(k) == Scanned(ids, loop[k], k)
           Bad  == {k \in Nat : k <= N /\ ~P(k)}
<1>0. N \in Nat
  BY WidthsArePositive
<1>1. IsScan(ids, loop, N)
  BY <1>0, ScanExists
<1>2. in_slot_order(ids) = loop[N]
  BY DEF in_slot_order, IsScan, ScanStep
<1> HIDE DEF loop
<1>3. ASSUME NEW k \in Nat, k <= N PROVE loop[k] = ScanStep(ids, loop, k)
  <2>1. k \in 0 .. N
    BY <1>0, <1>3
  <2>2. QED BY <2>1, <1>1 DEF IsScan
<1>4. P(0)
  <2>1. loop[0] = <<>>
    BY <1>0, <1>3 DEF ScanStep
  <2>2. QED BY <2>1 DEF Scanned
<1>5. ASSUME NEW k \in Nat, k + 1 <= N, P(k) PROVE P(k + 1)
  <2>1. loop[k + 1] = ScanStep(ids, loop, k + 1)
    BY <1>3, <1>5
  <2>2. (k + 1) - 1 = k /\ k + 1 # 0
    OBVIOUS
  <2>3. loop[k + 1] = IF StateIds[k + 1] \in ids THEN Append(loop[k], StateIds[k + 1]) ELSE loop[k]
    BY <2>1, <2>2 DEF ScanStep
  <2>4. QED BY <2>3, <1>5, ScanOneMore
<1> HIDE DEF P
<1>6. ASSUME Bad # {} PROVE FALSE
  <2>1. PICK k \in Bad : \A m \in Bad : k <= m
    <3>1. Bad \in SUBSET Nat
      OBVIOUS
    <3> HIDE DEF Bad
    <3>2. QED BY <1>6, <3>1, LeastNatural
  <2>2. k \in Nat /\ k <= N /\ ~P(k) /\ k # 0
    BY <2>1, <1>4
  <2>3. k - 1 \in Nat /\ k - 1 <= N /\ (k - 1) + 1 <= N /\ ~(k <= k - 1) /\ (k - 1) + 1 = k
    BY <2>2, <1>0
  <2>4. P(k - 1)
    BY <2>1, <2>3
  <2>5. QED BY <2>2, <2>3, <2>4, <1>5
<1>7. P(N)
  BY <1>0, <1>6
<1>8. QED BY <1>2, <1>7 DEF P

\* What a block record must report: the registers that moved.
Changed(c) == IF is_qemu(c) THEN collect_deltas(shadow, regs, scanned(c))
                            ELSE deltas_between(shadow, regs, scanned(c))

LEMMA SlotValues ==
    ASSUME NEW r \in [Ids -> Nat], NEW id \in Ids
    PROVE  slot_value(r, id) \in Nat
<1>1. r[id] \in Nat /\ RESIDUE \in Nat \ {0}
  BY PipeAssumption
<1>2. \A x \in Nat, m \in Nat \ {0} : x % m \in Nat
  OBVIOUS
<1>3. QED BY <1>1, <1>2 DEF slot_value

\* MAX_DELTAS_PER_BLOCK cuts nothing off.
LEMMA DeltasAreChanges ==
    ASSUME regs \in [Ids -> Nat], NEW c
    PROVE  /\ deltas(c) \in Seq(Delta)
           /\ Len(deltas(c)) < FLAGS
           /\ \A i \in 1 .. Len(deltas(c)) :
                 /\ deltas(c)[i].regId \in Changed(c) \cap Ids
                 /\ deltas(c)[i].value = slot_value(regs, deltas(c)[i].regId)
           /\ \A id \in Changed(c) \cap Ids : \E i \in 1 .. Len(deltas(c)) : deltas(c)[i].regId = id
<1> DEFINE ordered == in_slot_order(Changed(c))
           L       == Len(ordered)
           all     == [n \in DOMAIN ordered |-> [regId |-> ordered[n], value |-> slot_value(regs, ordered[n])]]
           bound   == Min({Len(all), MAX_DELTAS})
<1>1. Scanned(Changed(c), ordered, Len(StateIds))
  BY SlotOrderScans
<1>2. deltas(c) = SubSeq(all, 1, bound)
  BY DEF deltas, Changed
<1> HIDE DEF ordered
<1>3. ordered \in Seq(Ids) /\ L \in Nat /\ DOMAIN ordered = 1 .. L
  BY <1>1 DEF Scanned
<1>4. L <= MAX_DELTAS /\ L < FLAGS
  <2>1. L <= Len(StateIds)
    BY <1>1 DEF Scanned
  <2>2. QED BY <2>1, <1>3, PipeAssumption, CdtAssumption, WidthsArePositive
<1>5. ASSUME NEW n \in 1 .. L
      PROVE  /\ ordered[n] \in Changed(c) \cap Ids
             /\ all[n] = [regId |-> ordered[n], value |-> slot_value(regs, ordered[n])]
             /\ all[n] \in Delta
  <2>1. ordered[n] \in Changed(c) /\ ordered[n] \in Ids
    <3>1. ordered[n] \in Changed(c)
      BY <1>1 DEF Scanned
    <3>2. QED BY <3>1, <1>3, ElementOfSeq
  <2>2. all[n] = [regId |-> ordered[n], value |-> slot_value(regs, ordered[n])]
    BY <1>3
  <2>3. ordered[n] \in Nat /\ slot_value(regs, ordered[n]) \in Nat
    BY <2>1, IdsAreNumbers, SlotValues
  <2>4. QED BY <2>1, <2>2, <2>3 DEF Delta
<1>6. all \in Seq(Delta) /\ Len(all) = L
  <2>1. DOMAIN all = 1 .. L
    BY <1>3
  <2> HIDE DEF all
  <2>2. all = [n \in 1 .. L |-> all[n]]
    BY <2>1, <1>5 DEF all
  <2>3. QED BY <1>3, <1>5, <2>1, <2>2
<1> HIDE DEF all
<1>7. bound = L
  <2>1. MAX_DELTAS \in Nat
    BY PipeAssumption
  <2> DEFINE S == {Len(all), MAX_DELTAS}
  <2>2. L \in S /\ \A y \in S : L <= y
    BY <1>3, <1>4, <1>6, <2>1
  <2>3. \A x \in S : (\A y \in S : x <= y) => x = L
    BY <1>3, <1>4, <1>6, <2>1
  <2>4. bound = CHOOSE x \in S : \A y \in S : x <= y
    BY DEF Min
  <2> HIDE DEF S, bound
  <2>5. QED BY <2>2, <2>3, <2>4
<1>8. deltas(c) = all
  <2>1. SubSeq(all, 1, L) = all
    BY <1>6, SubSeqFull
  <2> HIDE DEF bound
  <2>2. QED BY <1>2, <1>7, <2>1
<1>9. ASSUME NEW i \in 1 .. L
      PROVE  /\ all[i].regId = ordered[i]
             /\ all[i].regId \in Changed(c) \cap Ids
             /\ all[i].value = slot_value(regs, all[i].regId)
  <2> DEFINE x == ordered[i]
             v == slot_value(regs, x)
  <2>1. all[i] = [regId |-> x, value |-> v] /\ x \in Changed(c) \cap Ids
    BY <1>5
  <2>2. QED
    <3> HIDE DEF x
    <3>1. v = slot_value(regs, x)
      OBVIOUS
    <3> HIDE DEF v
    <3>2. all[i].regId = x /\ all[i].value = v
      BY <2>1
    <3>3. QED BY <2>1, <3>1, <3>2 DEF x
<1>10. ASSUME NEW id \in Changed(c) \cap Ids PROVE \E i \in 1 .. L : all[i].regId = id
  <2>1. PICK j \in 1 .. Len(StateIds) : StateIds[j] = id
    BY StateIdsCover DEF Has
  <2>2. Has(ordered, id)
    BY <2>1, <1>1 DEF Scanned
  <2>3. PICK i \in 1 .. L : ordered[i] = id
    BY <2>2 DEF Has
  <2>4. all[i].regId = id
    BY <2>3, <1>9
  <2>5. QED BY <2>4
<1>11. QED BY <1>4, <1>6, <1>8, <1>9, <1>10

(***************************************************************************)
(* The stream: the file and what is still in the buffer hold exactly what  *)
(* was logged, each record tells the registers, and an end record is the   *)
(* last.                                                                   *)
(***************************************************************************)
Entry     == [record : Record, reported : [Ids -> Nat]]
RecsOf(s) == [n \in DOMAIN s |-> s[n].record]

LogTells(s) == \A i \in 1 .. Len(s) :
                   Tells(s[i].record, IF i = 1 THEN ZeroRegs ELSE s[i - 1].reported, s[i].reported)

NoEnd(s)   == \A i \in 1 .. Len(s) : s[i].record.type # END
EndLast(s) == \A i \in 1 .. Len(s) : s[i].record.type = END => i = Len(s)

Stream(whole, s, told) ==
    /\ whole \in Seq(Nat) /\ s \in Seq(Entry)
    /\ Holds(whole, RecsOf(s))
    /\ LogTells(s)
    /\ told = IF Len(s) = 0 THEN ZeroRegs ELSE s[Len(s)].reported
    /\ EndLast(s)

LEMMA RecsAppend ==
    ASSUME NEW s \in Seq(Entry), NEW e \in Entry
    PROVE  /\ RecsOf(s) \in Seq(Record) /\ Len(RecsOf(s)) = Len(s)
           /\ \A i \in 1 .. Len(s) : RecsOf(s)[i] = s[i].record
           /\ s \o <<e>> \in Seq(Entry) /\ Len(s \o <<e>>) = Len(s) + 1
           /\ (s \o <<e>>)[Len(s) + 1] = e /\ \A i \in 1 .. Len(s) : (s \o <<e>>)[i] = s[i]
           /\ RecsOf(s \o <<e>>) = Append(RecsOf(s), e.record)
<1> DEFINE t == s \o <<e>>
           L == Len(s)
<1>1. L \in Nat /\ DOMAIN s = 1 .. L
  OBVIOUS
<1>2. t \in Seq(Entry) /\ Len(t) = L + 1 /\ t[L + 1] = e /\ \A i \in 1 .. L : t[i] = s[i]
  <2>1. <<e>> \in Seq(Entry) /\ Len(<<e>>) = 1 /\ <<e>>[1] = e
    OBVIOUS
  <2> DEFINE u == <<e>>
  <2> HIDE DEF u
  <2>2. u \in Seq(Entry) /\ Len(u) = 1 /\ u[1] = e
    BY <2>1 DEF u
  <2>3. /\ s \o u \in Seq(Entry) /\ Len(s \o u) = L + 1
        /\ (s \o u)[L + 1] = u[1] /\ \A i \in 1 .. L : (s \o u)[i] = s[i]
    <3>1. /\ s \o u \in Seq(Entry) /\ Len(s \o u) = Len(s) + Len(u)
          /\ \A i \in 1 .. Len(s) + Len(u) : (s \o u)[i] = IF i <= Len(s) THEN s[i] ELSE u[i - Len(s)]
      BY <2>2, ConcatProperties
    <3>2. /\ L + 1 \in 1 .. Len(s) + Len(u) /\ ~(L + 1 <= Len(s)) /\ (L + 1) - Len(s) = 1
          /\ \A i \in 1 .. L : i \in 1 .. Len(s) + Len(u) /\ i <= Len(s)
      BY <2>2, <1>1
    <3>3. (s \o u)[L + 1] = u[1]
      BY <3>1, <3>2
    <3>4. ASSUME NEW i \in 1 .. L PROVE (s \o u)[i] = s[i]
      BY <3>1, <3>2
    <3>5. QED BY <2>2, <3>1, <3>3, <3>4
  <2>4. QED BY <2>2, <2>3 DEF u
<1> HIDE DEF t
<1>3. \A i \in 1 .. L : s[i].record \in Record
  <2>1. ASSUME NEW i \in 1 .. L PROVE s[i].record \in Record
    <3>1. s[i] \in Entry
      BY ElementOfSeq
    <3>2. QED BY <3>1 DEF Entry
  <2>2. QED BY <2>1
<1>4. e.record \in Record
  BY DEF Entry
<1>5. RecsOf(s) = [i \in 1 .. L |-> s[i].record]
  BY <1>1 DEF RecsOf
<1>6. RecsOf(s) \in Seq(Record) /\ Len(RecsOf(s)) = L
  BY <1>1, <1>3, <1>5
<1>7. DOMAIN t = 1 .. L + 1
  BY <1>2
<1>8. RecsOf(t) = [i \in 1 .. L + 1 |-> t[i].record]
  BY <1>7 DEF RecsOf
<1>9. RecsOf(t) = [i \in 1 .. L + 1 |-> IF i = L + 1 THEN e.record ELSE RecsOf(s)[i]]
  <2>1. ASSUME NEW i \in 1 .. L + 1 PROVE t[i].record = IF i = L + 1 THEN e.record ELSE RecsOf(s)[i]
    <3>1. CASE i = L + 1
      BY <3>1, <1>2
    <3>2. CASE i # L + 1
      <4>1. i \in 1 .. L
        BY <3>2, <1>1
      <4>2. QED BY <4>1, <3>2, <1>2, <1>5
    <3>3. QED BY <3>1, <3>2
  <2>2. QED BY <2>1, <1>8
<1>10. Append(RecsOf(s), e.record) = [i \in 1 .. L + 1 |-> IF i = L + 1 THEN e.record ELSE RecsOf(s)[i]]
  <2> DEFINE q == RecsOf(s)
  <2>1. q \in Seq(Record) /\ Len(q) = L
    BY <1>6
  <2> HIDE DEF q
  <2>2. Append(q, e.record) = [i \in 1 .. Len(q) + 1 |-> IF i = Len(q) + 1 THEN e.record ELSE q[i]]
    BY <2>1, <1>4
  <2>3. QED BY <2>1, <2>2 DEF q
<1>11. RecsOf(t) = Append(RecsOf(s), e.record)
  BY <1>9, <1>10
<1>12. QED BY <1>2, <1>5, <1>6, <1>11 DEF t

LEMMA StreamGrows ==
    ASSUME NEW whole, NEW s, NEW told, Stream(whole, s, told), NoEnd(s),
           NEW e \in Entry, Tells(e.record, told, e.reported)
    PROVE  /\ Stream(whole \o encode(e.record), s \o <<e>>, e.reported)
           /\ e.record.type # END => NoEnd(s \o <<e>>)
<1> DEFINE t == s \o <<e>>
           L == Len(s)
<1>1. s \in Seq(Entry) /\ whole \in Seq(Nat) /\ Holds(whole, RecsOf(s)) /\ L \in Nat
  BY DEF Stream
<1>2. /\ t \in Seq(Entry) /\ Len(t) = L + 1 /\ t[L + 1] = e /\ \A i \in 1 .. L : t[i] = s[i]
      /\ RecsOf(s) \in Seq(Record) /\ RecsOf(t) = Append(RecsOf(s), e.record)
  BY <1>1, RecsAppend
<1> HIDE DEF t
<1>3. e.record \in Record
  BY DEF Entry
<1>4. whole \o encode(e.record) \in Seq(Nat) /\ Holds(whole \o encode(e.record), RecsOf(t))
  BY <1>1, <1>2, <1>3, HoldsOneMore
<1>5. LogTells(t)
  <2>1. ASSUME NEW i \in 1 .. Len(t)
        PROVE  Tells(t[i].record, IF i = 1 THEN ZeroRegs ELSE t[i - 1].reported, t[i].reported)
    <3>1. CASE i = L + 1
      <4>1. (IF i = 1 THEN ZeroRegs ELSE t[i - 1].reported) = told
        <5>1. i # 1 => i - 1 \in 1 .. L /\ i - 1 = L
          BY <3>1, <1>1
        <5>2. i = 1 <=> L = 0
          BY <3>1, <1>1
        <5>3. told = IF L = 0 THEN ZeroRegs ELSE s[L].reported
          BY DEF Stream
        <5>4. QED BY <5>1, <5>2, <5>3, <1>2
      <4>2. t[i] = e
        BY <3>1, <1>2
      <4>3. QED BY <4>1, <4>2
    <3>2. CASE i # L + 1
      <4>1. i \in 1 .. L /\ (i # 1 => i - 1 \in 1 .. L)
        BY <3>2, <1>1, <1>2
      <4>2. t[i] = s[i] /\ (i # 1 => t[i - 1] = s[i - 1])
        BY <4>1, <1>2
      <4>3. Tells(s[i].record, IF i = 1 THEN ZeroRegs ELSE s[i - 1].reported, s[i].reported)
        BY <4>1 DEF Stream, LogTells
      <4>4. QED BY <4>2, <4>3
    <3>3. QED BY <3>1, <3>2
  <2>2. QED BY <2>1 DEF LogTells
<1>6. e.reported = IF Len(t) = 0 THEN ZeroRegs ELSE t[Len(t)].reported
  <2>1. Len(t) # 0 /\ t[Len(t)] = e
    BY <1>1, <1>2
  <2>2. QED BY <2>1
<1>7. ASSUME NEW i \in 1 .. Len(t), i # L + 1 PROVE t[i].record.type # END
  <2>1. i \in 1 .. L
    BY <1>7, <1>1, <1>2
  <2>2. t[i] = s[i]
    BY <2>1, <1>2
  <2>3. QED BY <2>1, <2>2 DEF NoEnd
<1>8. EndLast(t)
  BY <1>2, <1>7 DEF EndLast
<1>9. e.record.type # END => NoEnd(t)
  BY <1>2, <1>7 DEF NoEnd
<1>10. QED BY <1>2, <1>4, <1>5, <1>6, <1>8, <1>9 DEF Stream, t

LEMMA StreamRecords ==
    ASSUME NEW whole, NEW s, NEW told, Stream(whole, s, told)
    PROVE  /\ RecsOf(s) \in Seq(Record) /\ Len(RecsOf(s)) = Len(s) /\ Len(s) \in Nat
           /\ \A i \in 1 .. Len(s) : RecsOf(s)[i] = s[i].record
<1>1. s \in Seq(Entry)
  BY DEF Stream
<1>2. RecsOf(s) = [i \in 1 .. Len(s) |-> s[i].record]
  BY <1>1 DEF RecsOf
<1>3. ASSUME NEW i \in 1 .. Len(s) PROVE s[i].record \in Record
  <2>1. s[i] \in Entry
    BY <1>1, ElementOfSeq
  <2>2. QED BY <2>1 DEF Entry
<1>4. QED BY <1>1, <1>2, <1>3

\* Whatever part of the stream a process leaves is refused or reads as the first
\* records logged, and as complete only when it is all of them.
LEMMA StreamReads ==
    ASSUME NEW whole, NEW s, NEW told, Stream(whole, s, told), NEW n \in Nat, n <= Len(whole)
    PROVE  LET seen  == SubSeq(whole, 1, n)
               trace == loadTrace(seen)
           IN  /\ trace.ok => IsPrefix(trace.records, RecsOf(s))
               /\ is_complete(seen) => trace.records = RecsOf(s) /\ ~NoEnd(s)
<1> DEFINE seen  == SubSeq(whole, 1, n)
           trace == loadTrace(seen)
           recs  == RecsOf(s)
<1>1. s \in Seq(Entry) /\ whole \in Seq(Nat) /\ Holds(whole, recs)
  BY DEF Stream
<1>2. recs \in Seq(Record) /\ Len(recs) = Len(s) /\ Len(s) \in Nat /\ \A i \in 1 .. Len(s) : recs[i] = s[i].record
  BY StreamRecords
<1> HIDE DEF recs, trace
<1>3. SUFFICES ASSUME trace.ok
               PROVE  /\ IsPrefix(trace.records, recs)
                      /\ is_complete(seen) => trace.records = recs /\ ~NoEnd(s)
  BY DEF is_complete, trace, recs
<1>4. PICK m \in 0 .. Len(recs) : trace.records = SubSeq(recs, 1, m)
  BY <1>1, <1>2, <1>3, PrefixReads DEF trace
<1>5. m \in Nat /\ m <= Len(recs) /\ Len(trace.records) = m /\ \A i \in 1 .. m : trace.records[i] = recs[i]
  BY <1>2, <1>4
<1>6. IsPrefix(trace.records, recs)
  <2> DEFINE u == trace.records
  <2>1. u \in Seq(Record)
    BY <1>2, <1>4
  <2> HIDE DEF u
  <2>2. Len(u) = m /\ u = SubSeq(recs, 1, m)
    BY <1>4, <1>5 DEF u
  <2>3. SubSeq(u, 1, Len(u)) = u
    BY <2>1, SubSeqFull
  <2>4. QED BY <2>2, <2>3, <1>5 DEF IsPrefix, u
<1>7. ASSUME is_complete(seen) PROVE trace.records = recs /\ ~NoEnd(s)
  <2>1. trace.records # <<>> /\ Last(trace.records).type = END
    BY <1>7 DEF is_complete, trace
  <2>2. m # 0
    <3>1. ASSUME m = 0 PROVE SubSeq(recs, 1, m) = <<>>
      BY <3>1, <1>2
    <3>2. QED BY <3>1, <2>1, <1>4
  <2>3. m \in 1 .. Len(s) /\ trace.records[m] = recs[m] /\ recs[m] = s[m].record
    BY <2>2, <1>2, <1>5
  <2>4. s[m].record.type = END
    BY <2>1, <2>3, <1>5 DEF Last
  <2>5. m = Len(s)
    BY <2>3, <2>4 DEF Stream, EndLast
  <2>6. SubSeq(recs, 1, Len(recs)) = recs
    BY <1>2, SubSeqFull
  <2>7. QED BY <2>3, <2>4, <2>5, <2>6, <1>2, <1>4 DEF NoEnd
<1>8. QED BY <1>6, <1>7

(***************************************************************************)
(* The entries of the log.                                                 *)
(***************************************************************************)
LEMMA MarkerEntry ==
    ASSUME NEW told \in [Ids -> Nat], NEW count \in Nat, NEW kind \in Nat, NEW value \in Nat
    PROVE  /\ [record |-> Marker(count, kind, value), reported |-> told] \in Entry
           /\ Marker(count, kind, value).type # END
           /\ Tells(Marker(count, kind, value), told, told)
<1>1. Marker(count, kind, value) \in Record
  BY DEF Record, MarkerRecord
<1>2. Marker(count, kind, value).type = MARKER
  BY DEF Marker
<1>3. QED BY <1>1, <1>2 DEF Entry, Tells, BLOCK, EXCEPTION, MARKER, END

LEMMA EndEntry ==
    ASSUME NEW told \in [Ids -> Nat], NEW count \in Nat, NEW reason \in Nat
    PROVE  /\ [record |-> End(count, reason), reported |-> told] \in Entry
           /\ Tells(End(count, reason), told, told)
<1>1. End(count, reason) \in Record
  BY DEF Record, EndRecord
<1>2. End(count, reason).type = END
  BY DEF End
<1>3. QED BY <1>1, <1>2 DEF Entry, Tells, BLOCK, EXCEPTION, MARKER, END

LEMMA ExceptionEntry ==
    ASSUME NEW told, NEW r \in ExceptionRecord
    PROVE  /\ [record |-> r, reported |-> r.state] \in Entry
           /\ r.state \in [Ids -> Nat]
           /\ r.type # END
           /\ Tells(r, told, r.state)
<1>1. r \in Record
  BY DEF Record
<1>2. r.type = EXCEPTION /\ r.state \in [Ids -> Nat]
  BY DEF ExceptionRecord, Exception
<1>3. r.type # END /\ Tells(r, told, r.state)
  BY <1>2 DEF Tells, BLOCK, EXCEPTION, MARKER, END
<1>4. [record |-> r, reported |-> r.state] \in Entry
  BY <1>1, <1>2 DEF Entry
<1>5. QED BY <1>2, <1>3, <1>4

LEMMA FullStates ==
    ASSUME NEW r \in [Ids -> Nat], NEW c
    PROVE  full_state(c, r) \in [Ids -> Nat]
  BY SlotValues DEF full_state

\* What was last reported is what the shadow remembers.
ShadowTells(c) == shadow.valid => \A id \in scanned(c) \cap Ids : reported[id] = slot_value(shadow.regs, id)

\* The registers in scope, as a block record leaves a reader with them.
Now(c) == [id \in Ids |-> IF id \in scanned(c) THEN slot_value(regs, id) ELSE reported[id]]

LEMMA BlockEntry ==
    ASSUME regs \in [Ids -> Nat], reported \in [Ids -> Nat], icount \in Nat, NEW c, ShadowTells(c), NEW n \in Nat
    PROVE  LET r == Block(regs[PC], icount, n, deltas(c))
           IN  /\ [record |-> r, reported |-> Now(c)] \in Entry
               /\ r.type # END
               /\ Tells(r, reported, Now(c))
<1> DEFINE d == deltas(c)
           r == Block(regs[PC], icount, n, d)
<1>1. /\ d \in Seq(Delta) /\ Len(d) < FLAGS
      /\ \A i \in 1 .. Len(d) : d[i].regId \in Changed(c) \cap Ids /\ d[i].value = slot_value(regs, d[i].regId)
      /\ \A id \in Changed(c) \cap Ids : \E i \in 1 .. Len(d) : d[i].regId = id
  BY DeltasAreChanges
<1> HIDE DEF d
<1>2. r \in Record
  <2>1. regs[PC] \in Nat
    BY IdsAreNumbers
  <2>2. QED BY <1>1, <2>1 DEF Record, BlockRecord
<1>3. r.type = BLOCK /\ r.deltas = d
  BY DEF Block
<1> HIDE DEF r
<1>4. Now(c) \in [Ids -> Nat]
  BY SlotValues DEF Now
<1>5. ASSUME NEW id \in Ids, NEW k \in 1 .. Len(d), d[k].regId = id
      PROVE  d[k].value = Now(c)[id]
  <2>1. id \in Changed(c) /\ d[k].value = slot_value(regs, id)
    BY <1>1, <1>5
  <2>2. id \in scanned(c)
    BY <2>1 DEF Changed, collect_deltas, deltas_between
  <2>3. QED BY <2>1, <2>2 DEF Now
<1>6. ASSUME NEW id \in Ids, ~\E k \in 1 .. Len(d) : d[k].regId = id
      PROVE  Now(c)[id] = reported[id]
  <2>1. id \notin Changed(c)
    BY <1>1, <1>6
  <2>2. CASE id \in scanned(c)
    <3>1. ~moved(shadow, regs, id)
      BY <2>1, <2>2 DEF Changed, collect_deltas, deltas_between
    <3>2. shadow.valid /\ slot_value(shadow.regs, id) = slot_value(regs, id)
      BY <3>1 DEF moved
    <3>3. reported[id] = slot_value(shadow.regs, id)
      BY <2>2, <3>2 DEF ShadowTells
    <3>4. QED BY <2>2, <3>2, <3>3 DEF Now
  <2>3. CASE id \notin scanned(c)
    BY <2>3 DEF Now
  <2>4. QED BY <2>2, <2>3
<1>7. Tells(r, reported, Now(c))
  <2>1. ASSUME NEW id \in Ids
        PROVE  LET at == {k \in 1 .. Len(d) : d[k].regId = id}
               IN  IF at = {} THEN Now(c)[id] = reported[id]
                              ELSE \A k \in at : d[k].value = Now(c)[id]
    BY <1>5, <1>6
  <2>2. \A k \in 1 .. Len(d) : d[k].regId \in Ids
    BY <1>1
  <2>3. QED BY <1>3, <2>1, <2>2 DEF Tells, BLOCK, EXCEPTION, MARKER, END
<1>8. r.type # END
  BY <1>3 DEF BLOCK, END
<1>9. [record |-> r, reported |-> Now(c)] \in Entry
  BY <1>2, <1>4 DEF Entry
<1>10. QED BY <1>7, <1>8, <1>9 DEF r, d

(***************************************************************************)
(* The inductive invariant.                                                *)
(***************************************************************************)
PipeTypeOK == /\ session \in Sessions
              /\ phase \in Side \cup {"compare"}
              /\ regs \in [Ids -> Nat] /\ reported \in [Ids -> Nat]
              /\ icount \in Nat
              /\ \E v, r : shadow = [valid |-> v, regs |-> r]
              /\ buffer \in Seq(Nat) /\ out \in Seq(Nat)
              /\ log \in [Side -> Seq(Entry)]
              /\ files \in [Side -> Seq(Nat)]

\* The side being recorded.  What a CdtWriter's host has drained ends at a
\* record; the plugin's file may end anywhere.
Boundary(f) == f = <<>> \/ \E recs \in Seq(Record) : Holds(f, recs)

RecordingInv == phase \in Side =>
                    /\ Stream(out \o buffer, log[phase], reported)
                    /\ status # "finished" => NoEnd(log[phase])
                    /\ ShadowTells(config)
                    /\ ~is_qemu(config) => Boundary(out)

RightUnwritten == phase = "left" => log["right"] = <<>>

\* A side that was recorded: its file is the beginning of its stream.
LeftBehind(f, s) == \E whole, told, n : /\ Stream(whole, s, told)
                                        /\ n \in 0 .. Len(whole)
                                        /\ f = SubSeq(whole, 1, n)

StoppedInv == \A side \in Side : Stopped(side) => LeftBehind(files[side], log[side])

PipeInv == PipeTypeOK /\ RecordingInv /\ RightUnwritten /\ StoppedInv

LEMMA Headers ==
    ASSUME NEW s \in Sessions, NEW side \in Side
    PROVE  header_of(s[side]) \in Seq(Nat) /\ Holds(header_of(s[side]), <<>>)
<1> DEFINE c == s[side]
<1>1. c.feature \in Nat
  BY SessionAssumption
<1> HIDE DEF c
<1> DEFINE a == PRECISE_FP + BLOCK_DELTAS + (IF c.scope # "core" THEN HAS_VREGS ELSE 0)
                     + (IF c.scope = "all" THEN HAS_SYSREGS ELSE 0)
           b == (IF c.precise THEN PRECISE_FP ELSE 0) + BLOCK_DELTAS + HAS_VREGS
<1>2. a \in Nat /\ b \in Nat
  BY DEF PRECISE_FP, BLOCK_DELTAS, HAS_VREGS, HAS_SYSREGS
<1>3. header_of(c) = file_header(a, c.feature) \/ header_of(c) = file_header(b, c.feature)
  BY DEF header_of
<1> HIDE DEF a, b
<1>4. QED BY <1>1, <1>2, <1>3, HeaderHoldsNothing DEF c

\* A new recording: the header is in the plugin's file, or in CdtWriter's buffer.
LEMMA FreshStream ==
    ASSUME NEW h \in Seq(Nat), Holds(h, <<>>)
    PROVE  /\ Stream(h \o <<>>, <<>>, ZeroRegs) /\ Stream(<<>> \o h, <<>>, ZeroRegs)
           /\ NoEnd(<<>>)
<1>1. h \o <<>> = h /\ <<>> \o h = h
  BY ConcatEmptySeq
<1>2. <<>> \in Seq(Entry) /\ Len(<<>>) = 0
  OBVIOUS
<1>3. RecsOf(<<>>) = <<>>
  BY DEF RecsOf
<1>4. LogTells(<<>>) /\ EndLast(<<>>) /\ NoEnd(<<>>)
  BY <1>2 DEF LogTells, EndLast, NoEnd
<1>5. Stream(h, <<>>, ZeroRegs)
  BY <1>2, <1>3, <1>4 DEF Stream
<1>6. QED BY <1>1, <1>4, <1>5

LEMMA PipeInitially == Init => PipeInv
<1> SUFFICES ASSUME Init PROVE PipeInv
  OBVIOUS
<1> DEFINE h == header_of(session["left"])
<1>1. session \in Sessions /\ phase = "left" /\ "left" \in Side /\ "right" \in Side
  BY DEF Init, Side
<1>2. h \in Seq(Nat) /\ Holds(h, <<>>)
  BY <1>1, Headers
<1> HIDE DEF h
<1>3. \/ buffer = <<>> /\ out = h /\ is_qemu(session["left"])
      \/ buffer = h /\ out = <<>>
  BY DEF Init, h
<1>4. ZeroRegs \in [Ids -> Nat]
  BY DEF ZeroRegs
<1>5. log = [s \in Side |-> <<>>] /\ log["left"] = <<>> /\ log["right"] = <<>>
  BY <1>1 DEF Init
<1>6. PipeTypeOK
  <2>1. <<>> \in Seq(Nat) /\ <<>> \in Seq(Entry)
    OBVIOUS
  <2>2. buffer \in Seq(Nat) /\ out \in Seq(Nat)
    BY <1>2, <1>3, <2>1
  <2>3. log \in [Side -> Seq(Entry)] /\ files \in [Side -> Seq(Nat)]
    BY <1>5, <2>1 DEF Init
  <2>4. \E v, r : shadow = [valid |-> v, regs |-> r]
    BY DEF Init
  <2>5. QED BY <1>1, <1>4, <2>2, <2>3, <2>4 DEF PipeTypeOK, Init
<1>7. RecordingInv
  <2>1. Stream(out \o buffer, log[phase], reported) /\ NoEnd(log[phase])
    BY <1>1, <1>2, <1>3, <1>5, FreshStream DEF Init
  <2>2. ~shadow.valid
    BY DEF Init
  <2>3. ~is_qemu(config) => Boundary(out)
    BY <1>1, <1>3 DEF config, Boundary
  <2>4. QED BY <2>1, <2>2, <2>3 DEF RecordingInv, ShadowTells
<1>8. RightUnwritten /\ StoppedInv
  BY <1>1, <1>5 DEF RightUnwritten, StoppedInv, Stopped
<1>9. QED BY <1>6, <1>7, <1>8 DEF PipeInv

\* A step that records: the log of the side grows to t, and nothing else than
\* what the stream is about matters.
LEMMA RecordsGrow ==
    ASSUME PipeInv, phase \in Side, NEW t,
           log' = [log EXCEPT ![phase] = t],
           Stream(out' \o buffer', t, reported'),
           status' # "finished" => NoEnd(t),
           buffer' \in Seq(Nat), out' \in Seq(Nat),
           UNCHANGED <<session, phase, files>>,
           regs' \in [Ids -> Nat], reported' \in [Ids -> Nat], icount' \in Nat,
           (\E v, r : shadow = [valid |-> v, regs |-> r])',
           ShadowTells(config)',
           (~is_qemu(config) => Boundary(out))'
    PROVE  PipeInv'
<1>1. log \in [Side -> Seq(Entry)]
  BY DEF PipeInv, PipeTypeOK
<1>2. t \in Seq(Entry)
  BY DEF Stream
<1>3. log'[phase] = t /\ log' \in [Side -> Seq(Entry)] /\ \A side \in Side : side # phase => log'[side] = log[side]
  BY <1>1, <1>2
<1>4. phase' = phase /\ session' = session /\ files' = files
  OBVIOUS
<1>5. PipeTypeOK'
  BY <1>3, <1>4 DEF PipeInv, PipeTypeOK
<1>6. RecordingInv'
  BY <1>3, <1>4 DEF RecordingInv
<1>7. RightUnwritten'
  <2>1. phase = "left" => "right" \in Side /\ "right" # phase
    BY DEF Side
  <2>2. QED BY <2>1, <1>3, <1>4 DEF PipeInv, RightUnwritten
<1>8. StoppedInv'
  <2>1. ASSUME NEW side \in Side, Stopped(side)' PROVE LeftBehind(files[side], log[side])'
    <3>1. Stopped(side) /\ side # phase
      BY <2>1, <1>4 DEF Stopped, Side
    <3>2. LeftBehind(files[side], log[side])
      BY <3>1 DEF PipeInv, StoppedInv
    <3>3. files'[side] = files[side] /\ log'[side] = log[side]
      BY <3>1, <1>3, <1>4
    <3>4. LeftBehind(files'[side], log'[side])
      BY <3>2, <3>3
    <3>5. QED BY <3>4
  <2>2. QED BY <2>1 DEF StoppedInv
<1>9. QED BY <1>5, <1>6, <1>7, <1>8 DEF PipeInv

LEMMA PrefixOfConcat ==
    ASSUME NEW a \in Seq(Nat), NEW b \in Seq(Nat), NEW n \in 0 .. Len(a)
    PROVE  /\ SubSeq(a, 1, n) \in Seq(Nat)
           /\ SubSeq(a, 1, n) = SubSeq(a \o b, 1, n)
           /\ n \in 0 .. Len(a \o b)
<1> DEFINE w == a \o b
<1>1. /\ w \in Seq(Nat) /\ Len(w) = Len(a) + Len(b) /\ Len(a) \in Nat /\ Len(b) \in Nat
      /\ \A i \in 1 .. Len(a) : w[i] = a[i]
  OBVIOUS
<1> HIDE DEF w
<1>2. n \in 0 .. Len(w) /\ \A i \in 1 .. n : i \in 1 .. Len(a)
  BY <1>1
<1>3. SubSeq(a, 1, n) \in Seq(Nat) /\ SubSeq(a, 1, n) = [i \in 1 .. n |-> a[i]]
  BY <1>1, SMTT(30)
<1>4. SubSeq(w, 1, n) = [i \in 1 .. n |-> w[i]]
  BY <1>1, <1>2
<1>5. QED BY <1>1, <1>2, <1>3, <1>4 DEF w

LEMMA WriterIsState ==
    ASSUME PipeInv
    PROVE  Writer \in Writers /\ Writer.out = out /\ Writer.buffer = buffer
  BY DEF PipeInv, PipeTypeOK, Writer, Writers

LEMMA CodeIsCells ==
    ASSUME NEW e \in Entry
    PROVE  encode(e.record) \in Seq(Nat)
<1>1. e.record \in Record
  BY DEF Entry
<1>2. QED BY <1>1, RecordReadsBack DEF Measured

\* CdtWriter keeps what it is given until the host takes it.
LEMMA EmulatorKeepsFile ==
    ASSUME NEW c, ~is_qemu(c), NEW w \in Writers, NEW r, encode(r) \in Seq(Nat)
    PROVE  emitted(c, w, r).out = w.out /\ finished_with(c, w, r).out = w.out
<1>0. PICK b \in Seq(Nat), o \in Seq(Nat) : w = [buffer |-> b, out |-> o]
  BY DEF Writers
<1>1. emitted(c, w, r) = [buffer |-> b \o encode(r), out |-> o]
  BY <1>0 DEF emitted
<1>2. QED BY <1>0, <1>1 DEF finished_with

LEMMA StartKeeps == ASSUME PipeInv, Start PROVE PipeInv'
<1> DEFINE record == Marker(0, TRACE_START, 0)
           e      == [record |-> record, reported |-> reported]
           v      == emitted(config, Writer, record)
<1>1. reported \in [Ids -> Nat] /\ phase \in Side /\ status # "finished"
  BY DEF PipeInv, PipeTypeOK, Start
<1>2. e \in Entry /\ record.type # END /\ Tells(record, reported, reported)
  <2>1. 0 \in Nat /\ TRACE_START \in Nat
    BY DEF TRACE_START
  <2>2. QED BY <1>1, <2>1, MarkerEntry
<1>3. e.record = record /\ e.reported = reported
  OBVIOUS
<1>4. encode(record) \in Seq(Nat)
  BY <1>2, <1>3, CodeIsCells
<1>5. Writer \in Writers /\ Writer.out = out /\ Writer.buffer = buffer
  BY WriterIsState
<1>6. log' = [log EXCEPT ![phase] = log[phase] \o <<e>>] /\ buffer' = v.buffer /\ out' = v.out
  BY DEF Start, Logged, Writes
<1>7. v \in Writers /\ v.out \o v.buffer = (out \o buffer) \o encode(record)
  BY <1>4, <1>5, EmittedAppends
<1>8. ~is_qemu(config) => v.out = out
  BY <1>4, <1>5, EmulatorKeepsFile
<1> HIDE DEF record, e, v
<1>9. buffer' \in Seq(Nat) /\ out' \in Seq(Nat) /\ out' \o buffer' = (out \o buffer) \o encode(record)
  BY <1>6, <1>7 DEF Writers
<1>10. Stream(out \o buffer, log[phase], reported) /\ NoEnd(log[phase])
  BY <1>1 DEF PipeInv, RecordingInv
<1>11. Stream(out' \o buffer', log[phase] \o <<e>>, reported) /\ NoEnd(log[phase] \o <<e>>)
  BY <1>2, <1>3, <1>9, <1>10, StreamGrows
<1>12. UNCHANGED <<session, phase, regs, icount, shadow, faulted, files, reported, verdict>>
  BY DEF Start
<1>13. config' = config
  BY <1>12 DEF config
<1>14. ShadowTells(config)' /\ (~is_qemu(config) => Boundary(out))'
  <2>1. ShadowTells(config) /\ (~is_qemu(config) => Boundary(out))
    BY <1>1 DEF PipeInv, RecordingInv
  <2>2. ShadowTells(config)'
    BY <2>1, <1>12, <1>13 DEF ShadowTells
  <2>3. QED BY <2>1, <2>2, <1>6, <1>8, <1>13 DEF is_qemu
<1>15. regs' \in [Ids -> Nat] /\ reported' \in [Ids -> Nat] /\ icount' \in Nat
       /\ (\E x, r : shadow = [valid |-> x, regs |-> r])' /\ UNCHANGED <<session, phase, files>>
  BY <1>12 DEF PipeInv, PipeTypeOK
<1>16. QED BY <1>1, <1>6, <1>9, <1>11, <1>12, <1>14, <1>15, RecordsGrow

LEMMA FinishKeeps == ASSUME PipeInv, Finish PROVE PipeInv'
<1> DEFINE record == End(icount, 0)
           e      == [record |-> record, reported |-> reported]
           v      == finished_with(config, Writer, record)
<1>1. reported \in [Ids -> Nat] /\ icount \in Nat /\ phase \in Side /\ status # "finished"
  BY DEF PipeInv, PipeTypeOK, Finish, recording
<1>2. e \in Entry /\ Tells(record, reported, reported)
  BY <1>1, EndEntry
<1>3. e.record = record /\ e.reported = reported
  OBVIOUS
<1>4. encode(record) \in Seq(Nat)
  BY <1>2, <1>3, CodeIsCells
<1>5. Writer \in Writers /\ Writer.out = out /\ Writer.buffer = buffer
  BY WriterIsState
<1>6. log' = [log EXCEPT ![phase] = log[phase] \o <<e>>] /\ buffer' = v.buffer /\ out' = v.out
  BY DEF Finish, Logged, Writes
<1>7. v \in Writers /\ v.out \o v.buffer = (out \o buffer) \o encode(record)
  BY <1>4, <1>5, FinishedAppends
<1>8. ~is_qemu(config) => v.out = out
  BY <1>4, <1>5, EmulatorKeepsFile
<1> HIDE DEF record, e, v
<1>9. buffer' \in Seq(Nat) /\ out' \in Seq(Nat) /\ out' \o buffer' = (out \o buffer) \o encode(record)
  BY <1>6, <1>7 DEF Writers
<1>10. Stream(out \o buffer, log[phase], reported) /\ NoEnd(log[phase])
  BY <1>1 DEF PipeInv, RecordingInv
<1>11. Stream(out' \o buffer', log[phase] \o <<e>>, reported)
  BY <1>2, <1>3, <1>9, <1>10, StreamGrows
<1>12. UNCHANGED <<session, phase, regs, icount, shadow, faulted, files, reported, verdict>> /\ status' = "finished"
  BY DEF Finish
<1>13. config' = config
  BY <1>12 DEF config
<1>14. ShadowTells(config)' /\ (~is_qemu(config) => Boundary(out))'
  <2>1. ShadowTells(config) /\ (~is_qemu(config) => Boundary(out))
    BY <1>1 DEF PipeInv, RecordingInv
  <2>2. ShadowTells(config)'
    BY <2>1, <1>12, <1>13 DEF ShadowTells
  <2>3. QED BY <2>1, <2>2, <1>6, <1>8, <1>13 DEF is_qemu
<1>15. regs' \in [Ids -> Nat] /\ reported' \in [Ids -> Nat] /\ icount' \in Nat
       /\ (\E x, r : shadow = [valid |-> x, regs |-> r])' /\ UNCHANGED <<session, phase, files>>
  BY <1>12 DEF PipeInv, PipeTypeOK
<1>16. QED BY <1>1, <1>6, <1>9, <1>11, <1>12, <1>14, <1>15, RecordsGrow

LEMMA ExceptionKeeps ==
    ASSUME PipeInv, NEW to \in Vectors, NEW discon \in {1, 2, 4}, OnException(to, discon)
    PROVE  PipeInv'
<1> DEFINE record == Exception(icount, regs[PC], to, discon, full_state(config, regs'))
           e      == [record |-> record, reported |-> record.state]
           v      == emitted(config, Writer, record)
<1>1. /\ reported \in [Ids -> Nat] /\ regs \in [Ids -> Nat] /\ icount \in Nat
      /\ phase \in Side /\ status # "finished" /\ to \in Nat /\ discon \in Nat
  BY PipeAssumption DEF PipeInv, PipeTypeOK, OnException, recording
<1>2. regs[PC] \in Nat
  BY <1>1, IdsAreNumbers
<1>3. regs' \in [Ids -> Nat]
  <2>1. regs' = Redirected(to, discon)
    BY DEF OnException
  <2>2. QED BY <1>1, <1>2, <2>1 DEF Redirected
<1>4. full_state(config, regs') \in [Ids -> Nat]
  BY <1>3, FullStates
<1>5. /\ e \in Entry /\ record.type # END /\ Tells(record, reported, record.state)
      /\ record.state \in [Ids -> Nat]
  <2>1. record \in ExceptionRecord
    BY <1>1, <1>2, <1>4 DEF ExceptionRecord
  <2> HIDE DEF record
  <2>2. QED BY <2>1, ExceptionEntry
<1>6. e.record = record /\ e.reported = record.state
  OBVIOUS
<1>7. encode(record) \in Seq(Nat)
  BY <1>5, <1>6, CodeIsCells
<1>8. Writer \in Writers /\ Writer.out = out /\ Writer.buffer = buffer
  BY WriterIsState
<1>9. /\ log' = [log EXCEPT ![phase] = log[phase] \o <<e>>] /\ buffer' = v.buffer /\ out' = v.out
      /\ reported' = record.state
  BY DEF OnException, Logged, Writes
<1>10. v \in Writers /\ v.out \o v.buffer = (out \o buffer) \o encode(record)
  BY <1>7, <1>8, EmittedAppends
<1>11. ~is_qemu(config) => v.out = out
  BY <1>7, <1>8, EmulatorKeepsFile
<1> HIDE DEF record, e, v
<1>12. buffer' \in Seq(Nat) /\ out' \in Seq(Nat) /\ out' \o buffer' = (out \o buffer) \o encode(record)
  BY <1>9, <1>10 DEF Writers
<1>13. Stream(out \o buffer, log[phase], reported) /\ NoEnd(log[phase])
  BY <1>1 DEF PipeInv, RecordingInv
<1>14. Stream(out' \o buffer', log[phase] \o <<e>>, reported') /\ NoEnd(log[phase] \o <<e>>)
  BY <1>5, <1>6, <1>9, <1>12, <1>13, StreamGrows
<1>15. /\ UNCHANGED <<session, phase, icount, status, files, verdict>>
       /\ shadow' = [shadow EXCEPT !.valid = FALSE]
  BY DEF OnException
<1>16. PICK x, r : shadow = [valid |-> x, regs |-> r]
  BY DEF PipeInv, PipeTypeOK
<1>17. shadow' = [valid |-> FALSE, regs |-> r]
  BY <1>15, <1>16
<1>18. (\E y, q : shadow = [valid |-> y, regs |-> q])' /\ ~shadow'.valid
  BY <1>17
<1>19. config' = config
  BY <1>15 DEF config
<1>20. ShadowTells(config)' /\ (~is_qemu(config) => Boundary(out))'
  <2>1. ~is_qemu(config) => Boundary(out)
    BY <1>1 DEF PipeInv, RecordingInv
  <2>2. ShadowTells(config)'
    BY <1>18 DEF ShadowTells
  <2>3. QED BY <2>1, <2>2, <1>9, <1>11, <1>19 DEF is_qemu
<1>21. UNCHANGED <<session, phase, files>> /\ icount' \in Nat /\ reported' \in [Ids -> Nat]
  BY <1>1, <1>5, <1>9, <1>15
<1>22. QED BY <1>1, <1>3, <1>9, <1>12, <1>14, <1>18, <1>20, <1>21, RecordsGrow

LEMMA TakeKeeps == ASSUME PipeInv, Take PROVE PipeInv'
<1>1. /\ phase \in Side /\ out' = out \o buffer /\ buffer' = <<>>
      /\ UNCHANGED <<session, phase, regs, icount, shadow, status, files, log, reported>>
  BY DEF Take
<1>2. buffer \in Seq(Nat) /\ out \in Seq(Nat) /\ log[phase] \in Seq(Entry)
  BY <1>1 DEF PipeInv, PipeTypeOK
<1>3. out' \in Seq(Nat) /\ buffer' \in Seq(Nat) /\ out' \o buffer' = out \o buffer
  <2>1. out \o buffer \in Seq(Nat)
    BY <1>2
  <2>2. (out \o buffer) \o <<>> = out \o buffer
    BY <2>1, ConcatEmptySeq
  <2>3. QED BY <1>1, <2>1, <2>2
<1>4. Stream(out \o buffer, log[phase], reported) /\ (status # "finished" => NoEnd(log[phase]))
      /\ ShadowTells(config)
  BY <1>1 DEF PipeInv, RecordingInv
<1>5. Boundary(out')
  <2>1. Holds(out \o buffer, RecsOf(log[phase]))
    BY <1>4 DEF Stream
  <2>2. RecsOf(log[phase]) \in Seq(Record)
    BY <1>4, StreamRecords
  <2>3. QED BY <1>1, <2>1, <2>2 DEF Boundary
<1>6. config' = config
  BY <1>1 DEF config
<1>7. ShadowTells(config)'
  BY <1>1, <1>4, <1>6 DEF ShadowTells
<1>8. RecordingInv'
  BY <1>1, <1>3, <1>4, <1>5, <1>7 DEF RecordingInv
<1>9. PipeTypeOK'
  BY <1>1, <1>3 DEF PipeInv, PipeTypeOK
<1>10. RightUnwritten' /\ StoppedInv'
  BY <1>1 DEF PipeInv, RightUnwritten, StoppedInv, Stopped
<1>11. QED BY <1>8, <1>9, <1>10 DEF PipeInv

LEMMA DiffKeeps == ASSUME PipeInv, NEW request \in Requests, Diff(request) PROVE PipeInv'
<1>1. UNCHANGED <<session, phase, regs, icount, shadow, faulted, buffer, out, status, files, log, reported>>
  BY DEF Diff
<1>2. PipeTypeOK'
  BY <1>1 DEF PipeInv, PipeTypeOK
<1>3. RecordingInv'
  BY <1>1 DEF PipeInv, RecordingInv, ShadowTells, config
<1>4. RightUnwritten' /\ StoppedInv'
  BY <1>1 DEF PipeInv, RightUnwritten, StoppedInv, Stopped
<1>5. QED BY <1>2, <1>3, <1>4 DEF PipeInv

LEMMA BlockKeeps ==
    ASSUME PipeInv, phase \in Side, NEW n \in config.sizes, NEW effect \in config.effects,
           NEW faults \in BOOLEAN, OnBlock(n, effect, faults)
    PROVE  PipeInv'
<1> DEFINE record == Block(regs[PC], icount, n, deltas(config))
           e      == [record |-> record, reported |-> Now(config)]
           w      == emitted(config, Writer, record)
           count  == icount + (IF is_qemu(config) THEN n ELSE IF faults THEN 0 ELSE 1)
           limit  == is_qemu(config) /\ LIMIT # 0 /\ count >= LIMIT
           end    == End(count, 1)
           f      == [record |-> end, reported |-> Now(config)]
           v      == finished_with(config, w, end)
<1>1. /\ reported \in [Ids -> Nat] /\ regs \in [Ids -> Nat] /\ icount \in Nat /\ session \in Sessions
      /\ status # "finished" /\ log[phase] \in Seq(Entry)
  BY DEF PipeInv, PipeTypeOK, OnBlock, recording
<1>2. n \in Nat \ {0} /\ \A id \in DOMAIN effect : effect[id] \in Nat
  BY <1>1, SessionAssumption DEF config
<1>3. /\ Stream(out \o buffer, log[phase], reported) /\ NoEnd(log[phase])
      /\ ShadowTells(config) /\ (~is_qemu(config) => Boundary(out))
  BY <1>1 DEF PipeInv, RecordingInv
<1>4. e \in Entry /\ record.type # END /\ Tells(record, reported, Now(config))
  BY <1>1, <1>2, <1>3, BlockEntry
<1>5. e.record = record /\ e.reported = Now(config)
  OBVIOUS
<1>6. Now(config) \in [Ids -> Nat]
  BY <1>1, SlotValues DEF Now
<1>7. count \in Nat
  <2>1. (IF is_qemu(config) THEN n ELSE IF faults THEN 0 ELSE 1) \in Nat
    BY <1>2
  <2>2. QED BY <1>1, <2>1
<1>8. f \in Entry /\ Tells(end, Now(config), Now(config)) /\ f.record = end /\ f.reported = Now(config)
  BY <1>6, <1>7, EndEntry
<1>9. encode(record) \in Seq(Nat) /\ encode(end) \in Seq(Nat)
  BY <1>4, <1>5, <1>8, CodeIsCells
<1>10. Writer \in Writers /\ Writer.out = out /\ Writer.buffer = buffer
  BY WriterIsState
<1>11. w \in Writers /\ w.out \o w.buffer = (out \o buffer) \o encode(record) /\ (~is_qemu(config) => w.out = out)
  BY <1>9, <1>10, EmittedAppends, EmulatorKeepsFile
<1>12. /\ log' = [log EXCEPT ![phase] = log[phase] \o (<<e>> \o (IF limit THEN <<f>> ELSE <<>>))]
       /\ buffer' = (IF limit THEN v ELSE w).buffer /\ out' = (IF limit THEN v ELSE w).out
       /\ reported' = Now(config) /\ icount' = count /\ status' = IF limit THEN "finished" ELSE status
  BY DEF OnBlock, Logged, Writes, Now
<1>13. shadow' = [valid |-> TRUE, regs |-> regs] /\ UNCHANGED <<session, phase, files, verdict>>
  BY DEF OnBlock
<1>14. regs' \in [Ids -> Nat]
  <2>1. regs' = executed(effect, IF faults THEN n - 1 ELSE n)
    BY DEF OnBlock
  <2>2. (IF faults THEN n - 1 ELSE n) \in Nat
    BY <1>2
  <2>3. \A k \in Nat : regs[PC] + k \in Nat
    BY <1>1, IdsAreNumbers
  <2>4. \A k \in Nat : executed(effect, k) \in [Ids -> Nat]
    BY <1>1, <1>2, <2>3 DEF executed
  <2>5. QED BY <2>1, <2>2, <2>4
<1>15. config' = config
  BY <1>13 DEF config
<1>16. ShadowTells(config)' /\ (\E x, r : shadow = [valid |-> x, regs |-> r])'
  <2>1. ASSUME NEW id \in scanned(config) \cap Ids PROVE Now(config)[id] = slot_value(regs, id)
    BY DEF Now
  <2>2. shadow'.regs = regs
    BY <1>13
  <2>3. \A id \in scanned(config) \cap Ids : reported'[id] = slot_value(shadow'.regs, id)
    BY <2>1, <2>2, <1>12
  <2>4. scanned(config)' = scanned(config)
    BY <1>15 DEF scanned, is_qemu
  <2>5. ShadowTells(config)'
    BY <2>3, <2>4 DEF ShadowTells, slot_value
  <2>6. QED BY <2>5, <1>13
<1> HIDE DEF record, e, w, count, end, f, v
<1>17. /\ Stream(w.out \o w.buffer, log[phase] \o <<e>>, Now(config))
       /\ NoEnd(log[phase] \o <<e>>)
  BY <1>3, <1>4, <1>5, <1>11, StreamGrows
<1>18. CASE limit
  <2>1. v \in Writers /\ v.out \o v.buffer = (w.out \o w.buffer) \o encode(end)
    BY <1>9, <1>11, FinishedAppends DEF v
  <2>2. buffer' \in Seq(Nat) /\ out' \in Seq(Nat) /\ out' \o buffer' = (w.out \o w.buffer) \o encode(end)
    BY <2>1, <1>12, <1>18 DEF Writers
  <2> DEFINE t == (log[phase] \o <<e>>) \o <<f>>
  <2>3. Stream(out' \o buffer', t, Now(config))
    BY <2>2, <1>8, <1>17, StreamGrows
  <2>4. log[phase] \o (<<e>> \o <<f>>) = t
    <3>1. <<e>> \in Seq(Entry) /\ <<f>> \in Seq(Entry)
      BY <1>4, <1>8
    <3>2. QED BY <3>1, <1>1, ConcatAssociative
  <2>5. log' = [log EXCEPT ![phase] = t]
    BY <2>4, <1>12, <1>18
  <2>6. status' = "finished" /\ is_qemu(config)
    BY <1>12, <1>18
  <2> HIDE DEF t
  <2>7. (~is_qemu(config) => Boundary(out))'
    BY <2>6, <1>15 DEF is_qemu
  <2>8. QED
    BY <2>2, <2>3, <2>5, <2>6, <2>7, <1>6, <1>7, <1>12, <1>13, <1>14, <1>16, RecordsGrow
<1>19. CASE ~limit
  <2>1. buffer' \in Seq(Nat) /\ out' \in Seq(Nat) /\ out' \o buffer' = w.out \o w.buffer /\ out' = w.out
    BY <1>11, <1>12, <1>19 DEF Writers
  <2> DEFINE t == log[phase] \o <<e>>
  <2>2. log' = [log EXCEPT ![phase] = t]
    <3>1. <<e>> \in Seq(Entry)
      BY <1>4
    <3>2. <<e>> \o <<>> = <<e>>
      BY <3>1, ConcatEmptySeq
    <3>3. QED BY <3>2, <1>12, <1>19
  <2>3. Stream(out' \o buffer', t, Now(config)) /\ NoEnd(t)
    BY <2>1, <1>17
  <2> HIDE DEF t
  <2>4. (~is_qemu(config) => Boundary(out))'
    BY <2>1, <1>3, <1>11, <1>15 DEF is_qemu
  <2>5. QED
    BY <2>1, <2>2, <2>3, <2>4, <1>6, <1>7, <1>12, <1>13, <1>14, <1>16, RecordsGrow
<1>20. QED BY <1>18, <1>19

LEMMA StopKeeps == ASSUME PipeInv, NEW loss \in Losses, Stop(loss) PROVE PipeInv'
<1> DEFINE h == header_of(session["right"])
           n == Len(out) - loss
<1>1. /\ session \in Sessions /\ "right" \in Side /\ phase \in Side /\ "left" \in Side
      /\ log \in [Side -> Seq(Entry)] /\ files \in [Side -> Seq(Nat)]
      /\ buffer \in Seq(Nat) /\ out \in Seq(Nat)
  BY DEF PipeInv, PipeTypeOK, Stop, Side
<1>2. /\ files' = [files EXCEPT ![phase] = SubSeq(out, 1, n)]
      /\ phase' = IF phase = "left" THEN "right" ELSE "compare"
      /\ regs' = ZeroRegs /\ icount' = 0 /\ reported' = ZeroRegs /\ status' = "new"
      /\ shadow' = [valid |-> FALSE, regs |-> ZeroRegs]
      /\ session' = session /\ log' = log
  BY DEF Stop
<1>3. n \in 0 .. Len(out)
  <2>1. loss \in Nat /\ Len(out) \in Nat
    BY <1>1, PipeAssumption
  <2>2. loss # 0 => loss <= Len(out)
    BY DEF Stop
  <2>3. QED BY <2>1, <2>2
<1>4. SubSeq(out, 1, n) \in Seq(Nat) /\ SubSeq(out, 1, n) = SubSeq(out \o buffer, 1, n) /\ n \in 0 .. Len(out \o buffer)
  BY <1>1, <1>3, PrefixOfConcat
<1> HIDE DEF n
<1>5. LeftBehind(SubSeq(out, 1, n), log[phase])
  <2>1. Stream(out \o buffer, log[phase], reported)
    BY <1>1 DEF PipeInv, RecordingInv
  <2>2. QED BY <2>1, <1>4 DEF LeftBehind
<1>6. /\ files' \in [Side -> Seq(Nat)] /\ files'[phase] = SubSeq(out, 1, n)
      /\ \A side \in Side : side # phase => files'[side] = files[side]
  BY <1>1, <1>2, <1>4
<1>7. h \in Seq(Nat) /\ Holds(h, <<>>)
  BY <1>1, Headers
<1> HIDE DEF h
<1>8. /\ phase = "right" => buffer' = <<>> /\ out' = <<>>
      /\ phase # "right" => \/ buffer' = <<>> /\ out' = h /\ is_qemu(session["right"])
                            \/ buffer' = h /\ out' = <<>>
  BY DEF Stop, Writes, h
<1>9. PipeTypeOK'
  <2>1. <<>> \in Seq(Nat) /\ ZeroRegs \in [Ids -> Nat]
    BY DEF ZeroRegs
  <2>2. buffer' \in Seq(Nat) /\ out' \in Seq(Nat)
    BY <2>1, <1>7, <1>8
  <2>3. (\E x, r : shadow = [valid |-> x, regs |-> r])'
    BY <1>2
  <2>4. phase' \in Side \cup {"compare"}
    BY <1>1, <1>2
  <2>5. QED BY <2>1, <2>2, <2>3, <2>4, <1>1, <1>2, <1>6 DEF PipeTypeOK
<1>10. RecordingInv'
  <2>1. SUFFICES ASSUME phase' \in Side PROVE RecordingInv'
    BY DEF RecordingInv
  <2>2. phase = "left" /\ phase' = "right" /\ phase # "right"
    BY <2>1, <1>1, <1>2 DEF Side
  <2>3. log'[phase'] = <<>>
    BY <2>2, <1>2 DEF PipeInv, RightUnwritten
  <2>4. Stream(out' \o buffer', log'[phase'], reported') /\ NoEnd(log'[phase'])
    BY <2>2, <2>3, <1>2, <1>7, <1>8, FreshStream
  <2>5. ~shadow'.valid
    BY <1>2
  <2>6. ShadowTells(config)'
    BY <2>5 DEF ShadowTells
  <2>7. config' = session["right"]
    BY <2>2, <1>2 DEF config
  <2>8. (~is_qemu(config) => Boundary(out))'
    BY <2>2, <2>7, <1>8 DEF is_qemu, Boundary
  <2>9. QED BY <2>4, <2>6, <2>8 DEF RecordingInv
<1>11. RightUnwritten'
  BY <1>2 DEF RightUnwritten
<1>12. StoppedInv'
  <2>1. ASSUME NEW side \in Side, Stopped(side)' PROVE LeftBehind(files'[side], log'[side])
    <3>1. CASE side = phase
      BY <3>1, <1>2, <1>5, <1>6
    <3>2. CASE side # phase
      <4>1. Stopped(side)
        BY <2>1, <3>2, <1>1, <1>2 DEF Stopped, Side
      <4>2. LeftBehind(files[side], log[side])
        BY <4>1 DEF PipeInv, StoppedInv
      <4>3. QED BY <4>2, <3>2, <1>2, <1>6
    <3>3. QED BY <3>1, <3>2
  <2>2. QED BY <2>1 DEF StoppedInv
<1>13. QED BY <1>9, <1>10, <1>11, <1>12 DEF PipeInv

LEMMA PipeStep == PipeInv /\ [Next]_vars => PipeInv'
<1> SUFFICES ASSUME PipeInv, [Next]_vars PROVE PipeInv'
  OBVIOUS
<1>1. CASE Start
  BY <1>1, StartKeeps
<1>2. CASE phase \in Side /\ \E n \in config.sizes, effect \in config.effects, faults \in BOOLEAN :
                                 OnBlock(n, effect, faults)
  BY <1>2, BlockKeeps
<1>3. CASE \E to \in Vectors, discon \in {1, 2, 4} : OnException(to, discon)
  BY <1>3, ExceptionKeeps
<1>4. CASE Finish
  BY <1>4, FinishKeeps
<1>5. CASE Take
  BY <1>5, TakeKeeps
<1>6. CASE \E loss \in Losses : Stop(loss)
  BY <1>6, StopKeeps
<1>7. CASE \E request \in Requests : Diff(request)
  BY <1>7, DiffKeeps
<1>8. CASE UNCHANGED vars
  <2>1. UNCHANGED <<session, phase, regs, icount, shadow, faulted, buffer, out, status, files, log, reported>>
    BY <1>8 DEF vars
  <2>2. PipeTypeOK'
    BY <2>1 DEF PipeInv, PipeTypeOK
  <2>3. RecordingInv'
    BY <2>1 DEF PipeInv, RecordingInv, ShadowTells, config
  <2>4. RightUnwritten' /\ StoppedInv'
    BY <2>1 DEF PipeInv, RightUnwritten, StoppedInv, Stopped
  <2>5. QED BY <2>2, <2>3, <2>4 DEF PipeInv
<1>9. QED BY <1>1, <1>2, <1>3, <1>4, <1>5, <1>6, <1>7, <1>8 DEF Next

\* Every reachable state of the pipeline satisfies the invariant: nothing either
\* producer emits is lost, repeated or reordered on its way to the file.
\* (trace_writer.c, writer.rs, coracle_trace.c, run_qemu.sh)
THEOREM PipeInvariant == Spec => []PipeInv
  BY PipeInitially, PipeStep, PTL DEF Spec

-----------------------------------------------------------------------------
(***************************************************************************)
(* What follows.                                                           *)
(***************************************************************************)

\* While the plugin writes, a poll of the file sees nothing it can read, or the
\* first records emitted, and a complete trace only when all of them are there.
\* (trace_writer.c trace_writer_emit, cdt.mjs is-complete, run_qemu.sh)
THEOREM PolledFileIsWhole == Spec => []CompleteMeansWhole
<1>1. PipeInv => CompleteMeansWhole
  <2> SUFFICES ASSUME PipeInv, phase \in Side, NEW n \in 0 .. Len(out)
               PROVE  LET seen  == SubSeq(out, 1, n)
                            trace == loadTrace(seen)
                        IN  /\ trace.ok => IsPrefix(trace.records, RecordsOf(phase))
                            /\ is_complete(seen) => status = "finished" /\ trace.records = RecordsOf(phase)
    BY DEF CompleteMeansWhole
  <2>2. out \in Seq(Nat) /\ buffer \in Seq(Nat)
    BY DEF PipeInv, PipeTypeOK
  <2>3. Stream(out \o buffer, log[phase], reported) /\ (status # "finished" => NoEnd(log[phase]))
    BY DEF PipeInv, RecordingInv
  <2>4. SubSeq(out, 1, n) = SubSeq(out \o buffer, 1, n) /\ n \in 0 .. Len(out \o buffer)
    BY <2>2, PrefixOfConcat
  <2>5. n \in Nat /\ n <= Len(out \o buffer)
    BY <2>4
  <2>6. RecordsOf(phase) = RecsOf(log[phase])
    BY DEF RecordsOf, RecsOf
  <2> DEFINE seen == SubSeq(out, 1, n)
  <2>7. /\ loadTrace(seen).ok => IsPrefix(loadTrace(seen).records, RecsOf(log[phase]))
        /\ is_complete(seen) => loadTrace(seen).records = RecsOf(log[phase]) /\ ~NoEnd(log[phase])
    BY <2>3, <2>4, <2>5, StreamReads
  <2> HIDE DEF seen
  <2>8. QED BY <2>3, <2>6, <2>7 DEF seen
<1>2. QED BY <1>1, PipeInvariant, PTL

\* What the host has taken from a CdtWriter is a readable file at every moment,
\* and with what is left in the buffer it is the whole trace.
\* (writer.rs CdtWriter::take)
THEOREM DrainedFileIsReadable == Spec => []DrainedIsReadable
<1> DEFINE drained == loadTrace(out)
           all     == loadTrace(out \o buffer)
<1>1. ASSUME PipeInv, phase \in Side, ~is_qemu(config)
      PROVE  (out # <<>> => drained.ok) /\ all.ok /\ all.records = RecordsOf(phase)
  <2>2. out \in Seq(Nat) /\ buffer \in Seq(Nat)
    BY <1>1 DEF PipeInv, PipeTypeOK
  <2>3. Stream(out \o buffer, log[phase], reported) /\ Boundary(out)
    BY <1>1 DEF PipeInv, RecordingInv
  <2>4. out # <<>> => loadTrace(out).ok
    BY <2>2, <2>3, WholeReads DEF Boundary
  <2>5. RecsOf(log[phase]) \in Seq(Record)
    BY <2>3, StreamRecords
  <2>6. /\ loadTrace(out \o buffer).ok
        /\ loadTrace(out \o buffer).records = RecsOf(log[phase])
    BY <2>3, <2>5, WholeReads DEF Stream
  <2>7. RecordsOf(phase) = RecsOf(log[phase])
    BY DEF RecordsOf, RecsOf
  <2>8. QED BY <2>4, <2>6, <2>7
<1> HIDE DEF drained, all
<1>2. PipeInv => (phase \in Side /\ ~is_qemu(config)
                     => (out # <<>> => drained.ok) /\ all.ok /\ all.records = RecordsOf(phase))
  BY <1>1
<1>3. PipeInv => DrainedIsReadable
  BY <1>2 DEF DrainedIsReadable, drained, all
<1>4. QED BY <1>3, PipeInvariant, PTL

\* Whatever file a process leaves, stopped at any moment, is refused or reads as
\* the first records its execution emitted.  (tests/run_qemu.sh, reader.mjs)
THEOREM FilesArePrefixes == Spec => []FilesAreLogPrefixes
<1>1. PipeInv => FilesAreLogPrefixes
  <2> SUFFICES ASSUME PipeInv, NEW side \in Side, Stopped(side)
               PROVE  LET trace == loadTrace(files[side])
                        IN  /\ trace.ok => IsPrefix(trace.records, RecordsOf(side))
                            /\ is_complete(files[side]) => trace.records = RecordsOf(side)
    BY DEF FilesAreLogPrefixes
  <2>2. LeftBehind(files[side], log[side])
    BY DEF PipeInv, StoppedInv
  <2>3. PICK whole, told, n : /\ Stream(whole, log[side], told)
                              /\ n \in 0 .. Len(whole)
                              /\ files[side] = SubSeq(whole, 1, n)
    BY <2>2 DEF LeftBehind
  <2>4. n \in Nat /\ n <= Len(whole)
    <3>1. Len(whole) \in Nat
      BY <2>3 DEF Stream
    <3>2. QED BY <2>3, <3>1
  <2>5. RecordsOf(side) = RecsOf(log[side])
    BY DEF RecordsOf, RecsOf
  <2> DEFINE seen == SubSeq(whole, 1, n)
  <2>6. /\ loadTrace(seen).ok => IsPrefix(loadTrace(seen).records, RecsOf(log[side]))
        /\ is_complete(seen) => loadTrace(seen).records = RecsOf(log[side])
    BY <2>3, <2>4, StreamReads
  <2>7. seen = files[side]
    BY <2>3
  <2> HIDE DEF seen
  <2>8. QED BY <2>5, <2>6, <2>7
<1>2. QED BY <1>1, PipeInvariant, PTL

\* The deltas of a block, applied to what the records before it told, give every
\* register in scope as it was on entry to the block, whichever producer wrote
\* them.  (coracle_trace.c collect_deltas, sink.rs deltas_between)
THEOREM DeltasTellRegisters == Spec => []RecordsTellRegisters
<1>1. PipeInv => RecordsTellRegisters
  <2> SUFFICES ASSUME PipeInv, NEW side \in Side PROVE LogTells(log[side])
    BY DEF RecordsTellRegisters, LogTells
  <2>2. CASE phase = side
    BY <2>2 DEF PipeInv, RecordingInv, Stream
  <2>3. CASE Stopped(side)
    BY <2>3 DEF PipeInv, StoppedInv, LeftBehind, Stream
  <2>4. CASE phase # side /\ ~Stopped(side)
    <3>1. phase = "left" /\ side = "right"
      BY <2>4 DEF PipeInv, PipeTypeOK, Stopped, Side
    <3>2. log[side] = <<>>
      BY <3>1 DEF PipeInv, RightUnwritten
    <3>3. QED BY <3>2 DEF LogTells
  <2>5. QED BY <2>2, <2>3, <2>4
<1>2. QED BY <1>1, PipeInvariant, PTL

-----------------------------------------------------------------------------
(***************************************************************************)
(* The differ.                                                             *)
(***************************************************************************)
LEMMA LeastIsIn ==
    ASSUME NEW S \in SUBSET Nat, S # {}
    PROVE  Min(S) \in S /\ \A y \in S : Min(S) <= y
<1>1. \E x \in S : \A y \in S : x <= y
  BY LeastNatural
<1>2. QED BY <1>1 DEF Min

LEMMA LesserOfTwo ==
    ASSUME NEW a \in Nat, NEW b \in Nat
    PROVE  Min({a, b}) = IF a <= b THEN a ELSE b
<1>1. Min({a, b}) \in {a, b} /\ \A y \in {a, b} : Min({a, b}) <= y
  BY LeastIsIn
<1>2. QED BY <1>1

LEMMA GreatestIsIn ==
    ASSUME NEW n \in Nat, NEW S \in SUBSET (1 .. n), S # {}
    PROVE  Max(S) \in S
<1> DEFINE T == {k \in Nat : k <= n /\ n - k \in S}
<1>1. T \in SUBSET Nat
  OBVIOUS
<1>2. T # {}
  <2>1. PICK x \in S : TRUE
    OBVIOUS
  <2>2. n - x \in T
    BY <2>1
  <2>3. QED BY <2>2
<1>3. PICK k \in T : \A m \in T : k <= m
  BY <1>1, <1>2, LeastNatural
<1>4. ASSUME NEW y \in S PROVE n - k >= y
  <2>1. y \in Nat /\ n - y \in T
    OBVIOUS
  <2>2. k <= n - y /\ k \in Nat
    BY <1>3, <2>1
  <2>3. QED BY <2>1, <2>2
<1>5. n - k \in S
  BY <1>3
<1>6. \E x \in S : \A y \in S : x >= y
  BY <1>4, <1>5
<1>7. QED BY <1>6 DEF Max

\* The registers a RegisterState holds are those a producer has told.
Replayed(g, told) == /\ DOMAIN g \subseteq Ids
                     /\ \A id \in Ids : get(g, id) = told[id]

LEMMA Replay ==
    ASSUME NEW r \in Record, r.type \in {BLOCK, EXCEPTION}, NEW before, NEW after \in [Ids -> Nat],
           Tells(r, before, after), NEW g, Replayed(g, before)
    PROVE  Replayed(applied(g, r), after)
<1>1. CASE r.type = BLOCK
  <2> DEFINE d == r.deltas
             h == applyDeltas(g, d)
             At(id) == {k \in 1 .. Len(d) : d[k].regId = id}
  <2>1. r \in BlockRecord
    BY <1>1 DEF Record, BlockRecord, ExceptionRecord, MarkerRecord, EndRecord,
                Block, Exception, Marker, End, BLOCK, EXCEPTION, MARKER, END
  <2>2. d \in Seq(Delta) /\ Len(d) \in Nat
    BY <2>1 DEF BlockRecord, Block
  <2>3. /\ \A k \in 1 .. Len(d) : d[k].regId \in Ids
        /\ \A id \in Ids : IF At(id) = {} THEN after[id] = before[id]
                                          ELSE \A k \in At(id) : d[k].value = after[id]
    BY <1>1 DEF Tells, BLOCK, EXCEPTION
  <2>4. applied(g, r) = h
    BY <1>1 DEF applied
  <2> HIDE DEF d
  <2>5. h = [id \in DOMAIN g \cup {d[k].regId : k \in 1 .. Len(d)} |->
                IF At(id) = {} THEN g[id] ELSE d[Max(At(id))].value]
    BY DEF applyDeltas
  <2> HIDE DEF h
  <2>6. DOMAIN h = DOMAIN g \cup {d[k].regId : k \in 1 .. Len(d)}
    BY <2>5
  <2>7. DOMAIN h \subseteq Ids
    BY <2>3, <2>6 DEF Replayed
  <2>8. ASSUME NEW id \in Ids PROVE get(h, id) = after[id]
    <3>1. CASE At(id) = {}
      <4>1. after[id] = before[id] /\ get(g, id) = before[id]
        BY <2>3, <3>1 DEF Replayed
      <4>2. id \in DOMAIN h <=> id \in DOMAIN g
        BY <2>6, <3>1
      <4>3. id \in DOMAIN h => h[id] = g[id]
        BY <2>5, <2>6, <3>1
      <4>4. QED BY <4>1, <4>2, <4>3 DEF get
    <3>2. CASE At(id) # {}
      <4>1. Max(At(id)) \in At(id)
        <5>1. At(id) \in SUBSET (1 .. Len(d))
          OBVIOUS
        <5> HIDE DEF At
        <5>2. QED BY <2>2, <3>2, <5>1, GreatestIsIn
      <4>2. id \in DOMAIN h
        BY <2>6, <4>1
      <4>3. h[id] = d[Max(At(id))].value
        BY <2>5, <2>6, <3>2, <4>2
      <4>4. d[Max(At(id))].value = after[id]
        BY <2>3, <3>2, <4>1
      <4>5. QED BY <4>2, <4>3, <4>4 DEF get
    <3>3. QED BY <3>1, <3>2
  <2>9. QED BY <2>4, <2>7, <2>8 DEF Replayed
<1>2. CASE r.type = EXCEPTION
  <2>1. after = r.state
    BY <1>2 DEF Tells, BLOCK, EXCEPTION
  <2>2. applied(g, r) = [id \in DOMAIN g \cup Ids |-> IF id \in Ids THEN r.state[id] ELSE g[id]]
    BY <1>2 DEF applied, applyException, BLOCK, EXCEPTION
  <2>3. DOMAIN g \subseteq Ids
    BY DEF Replayed
  <2>4. QED BY <2>1, <2>2, <2>3 DEF Replayed, get
<1>3. QED BY <1>1, <1>2

(***************************************************************************)
(* The blocks and exceptions of a trace tell the registers by themselves.  *)
(***************************************************************************)
Significant(r) == r.type \in {BLOCK, EXCEPTION}
Told(s, n)     == IF n = 0 THEN ZeroRegs ELSE s[n].reported

\* The positions kept after the first n entries.
Selects(s, q, n) ==
    /\ q \in Seq(Nat)
    /\ \A k \in 1 .. Len(q) :
          /\ q[k] \in 1 .. n
          /\ Significant(s[q[k]].record)
          /\ Tells(s[q[k]].record, IF k = 1 THEN ZeroRegs ELSE s[q[k - 1]].reported, s[q[k]].reported)
    /\ Told(s, n) = IF Len(q) = 0 THEN ZeroRegs ELSE s[q[Len(q)]].reported

LEMMA SelectOneMore ==
    ASSUME NEW s \in Seq(Entry), LogTells(s), NEW q, NEW n \in Nat, n + 1 <= Len(s), Selects(s, q, n)
    PROVE  Selects(s, IF Significant(s[n + 1].record) THEN Append(q, n + 1) ELSE q, n + 1)
<1> DEFINE x == s[n + 1]
           last == IF Len(q) = 0 THEN ZeroRegs ELSE s[q[Len(q)]].reported
<1>0. q \in Seq(Nat) /\ Len(q) \in Nat /\ n + 1 \in 1 .. Len(s) /\ Told(s, n + 1) = x.reported
  BY DEF Selects, Told
<1>1. Tells(x.record, last, x.reported)
  <2>1. Tells(x.record, IF n + 1 = 1 THEN ZeroRegs ELSE s[(n + 1) - 1].reported, x.reported)
    BY <1>0 DEF LogTells
  <2>2. (IF n + 1 = 1 THEN ZeroRegs ELSE s[(n + 1) - 1].reported) = Told(s, n)
    <3>1. (n + 1 = 1 <=> n = 0) /\ (n + 1) - 1 = n
      OBVIOUS
    <3>2. QED BY <3>1 DEF Told
  <2>3. Told(s, n) = last
    BY DEF Selects
  <2>4. QED BY <2>1, <2>2, <2>3
<1>2. CASE ~Significant(x.record)
  <2>1. x.reported = last
    BY <1>1, <1>2 DEF Tells, Significant
  <2>2. ASSUME NEW k \in 1 .. Len(q) PROVE q[k] \in 1 .. n + 1
    <3>1. q[k] \in 1 .. n
      BY DEF Selects
    <3>2. QED BY <3>1
  <2>3. Selects(s, q, n + 1)
    BY <2>1, <2>2, <1>0 DEF Selects
  <2>4. QED BY <2>3, <1>2
<1>3. CASE Significant(x.record)
  <2> DEFINE t == Append(q, n + 1)
             L == Len(q)
  <2>1. t \in Seq(Nat) /\ Len(t) = L + 1 /\ t[L + 1] = n + 1 /\ \A k \in 1 .. L : t[k] = q[k]
    BY <1>0
  <2> HIDE DEF t, x
  <2>2. ASSUME NEW k \in 1 .. Len(t)
        PROVE  /\ t[k] \in 1 .. n + 1
               /\ Significant(s[t[k]].record)
               /\ Tells(s[t[k]].record, IF k = 1 THEN ZeroRegs ELSE s[t[k - 1]].reported, s[t[k]].reported)
    <3>1. CASE k = L + 1
      <4>1. t[k] \in 1 .. n + 1 /\ s[t[k]] = x
        BY <3>1, <2>1 DEF x
      <4>2. (IF k = 1 THEN ZeroRegs ELSE s[t[k - 1]].reported) = last
        <5>1. (k = 1 <=> L = 0) /\ (k # 1 => k - 1 \in 1 .. L /\ k - 1 = L)
          BY <3>1, <1>0
        <5>2. k # 1 => t[k - 1] = q[L]
          BY <5>1, <2>1
        <5>3. QED BY <5>1, <5>2
      <4>3. QED BY <4>1, <4>2, <1>1, <1>3
    <3>2. CASE k # L + 1
      <4>1. k \in 1 .. L /\ (k # 1 => k - 1 \in 1 .. L)
        BY <3>2, <2>1, <1>0
      <4>2. t[k] = q[k] /\ (k # 1 => t[k - 1] = q[k - 1])
        BY <4>1, <2>1
      <4>3. /\ q[k] \in 1 .. n
            /\ Significant(s[q[k]].record)
            /\ Tells(s[q[k]].record, IF k = 1 THEN ZeroRegs ELSE s[q[k - 1]].reported, s[q[k]].reported)
        BY <4>1 DEF Selects
      <4>4. q[k] \in 1 .. n + 1
        BY <4>3
      <4>5. QED BY <4>2, <4>3, <4>4
    <3>3. QED BY <3>1, <3>2
  <2>3. Told(s, n + 1) = IF Len(t) = 0 THEN ZeroRegs ELSE s[t[Len(t)]].reported
    <3>1. Len(t) # 0 /\ s[t[Len(t)]] = x
      BY <2>1, <1>0 DEF x
    <3>2. QED BY <3>1, <1>0 DEF x
  <2>4. Selects(s, t, n + 1)
    BY <2>1, <2>2, <2>3 DEF Selects
  <2>5. QED BY <2>4, <1>3 DEF t, x
<1>4. QED BY <1>2, <1>3

KeptStep(recs, g, n) == IF n = 0 THEN <<>>
                        ELSE IF recs[n].type \in {BLOCK, EXCEPTION} THEN Append(g[n - 1], n) ELSE g[n - 1]

IsKept(recs, g, n) == g = [i \in 0 .. n |-> KeptStep(recs, g, i)]

LEMMA KeptExists ==
    ASSUME NEW recs, NEW n \in Nat
    PROVE  \E g : IsKept(recs, g, n)
<1> DEFINE W == {i \in 1 .. n : recs[i].type \in {BLOCK, EXCEPTION}}
           p == [i \in 1 .. n |-> i]
<1>1. PICK g : IsPick(p, W, g, n)
  BY PickExists
<1>2. ASSUME NEW i \in 0 .. n PROVE PickStep(p, W, g, i) = KeptStep(recs, g, i)
  BY DEF PickStep, KeptStep
<1>3. IsKept(recs, g, n)
  BY <1>1, <1>2 DEF IsPick, IsKept
<1>4. QED BY <1>3

LEMMA SignificantSelects ==
    ASSUME NEW s \in Seq(Entry), LogTells(s), NEW recs, Len(recs) \in Nat, Len(recs) <= Len(s),
           \A i \in 1 .. Len(recs) : recs[i] = s[i].record
    PROVE  Selects(s, significant(recs), Len(recs))
<1> DEFINE N    == Len(recs)
           loop == CHOOSE g : IsKept(recs, g, N)
           P(k) == Selects(s, loop[k], k)
           Bad  == {k \in Nat : k <= N /\ ~P(k)}
<1>1. IsKept(recs, loop, N)
  BY KeptExists
<1>2. significant(recs) = loop[N]
  BY DEF significant, IsKept, KeptStep
<1> HIDE DEF loop
<1>3. ASSUME NEW k \in Nat, k <= N PROVE loop[k] = KeptStep(recs, loop, k)
  <2>1. k \in 0 .. N
    BY <1>3
  <2>2. QED BY <2>1, <1>1 DEF IsKept
<1>4. P(0)
  <2>1. loop[0] = <<>>
    BY <1>3 DEF KeptStep
  <2>2. QED BY <2>1 DEF Selects, Told
<1>5. ASSUME NEW k \in Nat, k + 1 <= N, P(k) PROVE P(k + 1)
  <2>1. loop[k + 1] = KeptStep(recs, loop, k + 1)
    BY <1>3, <1>5
  <2>2. (k + 1) - 1 = k /\ k + 1 # 0 /\ k + 1 \in 1 .. N /\ k + 1 <= Len(s)
    BY <1>5
  <2>3. recs[k + 1] = s[k + 1].record
    BY <2>2
  <2>4. loop[k + 1] = IF Significant(s[k + 1].record) THEN Append(loop[k], k + 1) ELSE loop[k]
    BY <2>1, <2>2, <2>3 DEF KeptStep, Significant
  <2>5. QED BY <2>2, <2>4, <1>5, SelectOneMore
<1> HIDE DEF P
<1>6. ASSUME Bad # {} PROVE FALSE
  <2>1. PICK k \in Bad : \A m \in Bad : k <= m
    <3>1. Bad \in SUBSET Nat
      OBVIOUS
    <3> HIDE DEF Bad
    <3>2. QED BY <1>6, <3>1, LeastNatural
  <2>2. k \in Nat /\ k <= N /\ ~P(k) /\ k # 0
    BY <2>1, <1>4
  <2>3. k - 1 \in Nat /\ k - 1 <= N /\ (k - 1) + 1 <= N /\ ~(k <= k - 1) /\ (k - 1) + 1 = k
    BY <2>2
  <2>4. P(k - 1)
    BY <2>1, <2>3
  <2>5. QED BY <2>2, <2>3, <2>4, <1>5
<1>7. P(N)
  BY <1>6
<1>8. QED BY <1>2, <1>7 DEF P

\* What the differ walks through: entries that tell the registers, none of them
\* a marker or an end record.
Steps(l) == /\ l \in Seq(Entry)
            /\ LogTells(l)
            /\ \A i \in 1 .. Len(l) : Significant(l[i].record)

LEMMA SelectedSteps ==
    ASSUME NEW s \in Seq(Entry), NEW q, NEW n \in Nat, n <= Len(s), Selects(s, q, n)
    PROVE  LET l == [k \in DOMAIN q |-> s[q[k]]]
           IN  Steps(l) /\ Len(l) = Len(q)
<1> DEFINE l == [k \in DOMAIN q |-> s[q[k]]]
<1>1. q \in Seq(Nat) /\ Len(q) \in Nat /\ DOMAIN q = 1 .. Len(q)
  BY DEF Selects
<1>2. ASSUME NEW k \in 1 .. Len(q) PROVE s[q[k]] \in Entry
  <2>1. q[k] \in 1 .. n
    BY DEF Selects
  <2>2. q[k] \in 1 .. Len(s)
    BY <2>1
  <2>3. QED BY <2>2, ElementOfSeq
<1>3. l = [k \in 1 .. Len(q) |-> s[q[k]]]
  BY <1>1
<1>4. l \in Seq(Entry) /\ Len(l) = Len(q) /\ \A k \in 1 .. Len(q) : l[k] = s[q[k]]
  BY <1>1, <1>2, <1>3
<1> HIDE DEF l
<1>5. ASSUME NEW k \in 1 .. Len(l)
      PROVE  /\ Significant(l[k].record)
             /\ Tells(l[k].record, IF k = 1 THEN ZeroRegs ELSE l[k - 1].reported, l[k].reported)
  <2>1. l[k] = s[q[k]] /\ (k # 1 => k - 1 \in 1 .. Len(q))
    BY <1>1, <1>4
  <2>2. k # 1 => l[k - 1] = s[q[k - 1]]
    BY <2>1, <1>4
  <2>3. QED BY <2>1, <2>2, <1>4 DEF Selects
<1>6. QED BY <1>4, <1>5 DEF Steps, LogTells, l

(***************************************************************************)
(* One turn of the comparison.                                             *)
(***************************************************************************)
\* The steps before `first` that the report shows.
HistoryBefore(first, depth) ==
    [n \in 1 .. Min({first - 1, depth}) |-> n + first - 1 - Min({first - 1, depth})]

LEMMA HistoryPushed ==
    ASSUME NEW n \in Nat \ {0}, NEW depth \in Nat
    PROVE  pushed(HistoryBefore(n, depth), n, depth) = HistoryBefore(n + 1, depth)
<1> DEFINE a == Min({n - 1, depth})
           b == Min({(n + 1) - 1, depth})
           h == [k \in 1 .. a |-> k + n - 1 - a]
           longer == Append(h, n)
<1>1. a = (IF n - 1 <= depth THEN n - 1 ELSE depth) /\ b = (IF n <= depth THEN n ELSE depth)
  <2>1. n - 1 \in Nat /\ (n + 1) - 1 = n
    OBVIOUS
  <2>2. QED BY <2>1, LesserOfTwo
<1>2. HistoryBefore(n, depth) = h /\ HistoryBefore(n + 1, depth) = [k \in 1 .. b |-> k + (n + 1) - 1 - b]
  BY DEF HistoryBefore
<1> HIDE DEF a, b
<1>3. a \in Nat /\ b \in Nat /\ a <= n - 1
  BY <1>1
<1>4. h \in Seq(Int) /\ Len(h) = a
  BY <1>3
<1>5. longer \in Seq(Int) /\ Len(longer) = a + 1 /\ longer[a + 1] = n /\ \A k \in 1 .. a : longer[k] = h[k]
  <2> HIDE DEF h
  <2>1. QED BY <1>4
<1>6. ASSUME NEW k \in 1 .. a + 1 PROVE longer[k] = k + n - 1 - a
  <2>1. CASE k = a + 1
    BY <2>1, <1>3, <1>5
  <2>2. CASE k # a + 1
    <3>1. k \in 1 .. a
      BY <2>2, <1>3
    <3>2. QED BY <3>1, <1>5
  <2>3. QED BY <2>1, <2>2
<1> HIDE DEF h, longer
<1>7. CASE n <= depth
  <2>1. a = n - 1 /\ b = n /\ ~(Len(longer) > depth)
    BY <1>1, <1>5, <1>7
  <2>2. pushed(h, n, depth) = longer
    BY <2>1 DEF pushed, longer
  <2>3. longer = [k \in 1 .. b |-> k + (n + 1) - 1 - b]
    <3>1. longer = [k \in 1 .. a + 1 |-> longer[k]]
      BY <1>5
    <3>2. 1 .. a + 1 = 1 .. b
      BY <2>1
    <3>3. ASSUME NEW k \in 1 .. b PROVE longer[k] = k + (n + 1) - 1 - b
      BY <1>6, <2>1, <3>2
    <3>4. QED BY <3>1, <3>2, <3>3
  <2>4. QED BY <1>2, <2>2, <2>3
<1>8. CASE ~(n <= depth)
  <2>1. a = depth /\ b = depth /\ Len(longer) > depth
    BY <1>1, <1>5, <1>8
  <2>2. pushed(h, n, depth) = Tail(longer)
    BY <2>1 DEF pushed, longer
  <2>3. Tail(longer) = [k \in 1 .. b |-> k + (n + 1) - 1 - b]
    <3>1. longer # <<>> /\ (a + 1) - 1 = a
      BY <1>3, <1>5
    <3>2. Tail(longer) \in Seq(Int) /\ Len(Tail(longer)) = a /\ \A k \in 1 .. a : Tail(longer)[k] = longer[k + 1]
      BY <3>1, <1>3, <1>5, HeadTailProperties
    <3>3. Tail(longer) = [k \in 1 .. a |-> Tail(longer)[k]]
      <4> DEFINE t == Tail(longer)
      <4> HIDE DEF t
      <4>1. t \in Seq(Int) /\ Len(t) = a
        BY <3>2 DEF t
      <4>2. t = [k \in 1 .. a |-> t[k]]
        BY <4>1
      <4>3. QED BY <4>2 DEF t
    <3>4. ASSUME NEW k \in 1 .. b PROVE Tail(longer)[k] = k + (n + 1) - 1 - b
      <4>1. k \in 1 .. a /\ k + 1 \in 1 .. a + 1
        BY <2>1, <1>3
      <4>2. Tail(longer)[k] = (k + 1) + n - 1 - a
        BY <4>1, <3>2, <1>6
      <4>3. QED BY <4>2, <2>1, <1>3
    <3>5. QED BY <3>3, <3>4, <2>1
  <2>4. QED BY <1>2, <2>2, <2>3
<1>9. QED BY <1>7, <1>8

LEMMA StructureIsFields ==
    ASSUME NEW l, NEW r, Significant(l), Significant(r)
    PROVE  /\ compareStep(l, r) = "none" <=> Fields(l) = Fields(r)
           /\ compareStep(l, r) \notin {"register", "trace_length"}
<1>1. CASE l.type # r.type
  <2>1. compareStep(l, r) = "record_type"
    BY <1>1 DEF compareStep
  <2>2. Fields(l)[1] = l.type /\ Fields(r)[1] = r.type
    BY DEF Fields
  <2>3. QED BY <1>1, <2>1, <2>2
<1>2. CASE l.type = r.type /\ l.type = BLOCK
  BY <1>2 DEF compareStep, Fields
<1>3. CASE l.type = r.type /\ l.type # BLOCK
  BY <1>3 DEF compareStep, Fields
<1>4. QED BY <1>1, <1>2, <1>3

LEMMA UnequalIsDifferent ==
    ASSUME NEW l, NEW r, NEW g, NEW h, Replayed(g, l.reported), Replayed(h, r.reported), NEW policy
    PROVE  unequalIds(g, h, policy) = DifferIn(l, r, policy)
<1>1. FPSR \in FpIds /\ VecIds \subseteq FpIds
  BY DEF FpIds
<1>2. ASSUME NEW id \in unequalIds(g, h, policy) PROVE id \in DifferIn(l, r, policy)
  <2>1. id \in Ids /\ get(g, id) # get(h, id) /\ ~(isFpReg(id) /\ areEqual(policy, id, get(g, id), get(h, id)))
    BY <1>2 DEF unequalIds, Replayed
  <2>2. ~areEqual(policy, id, get(g, id), get(h, id))
    BY <2>1, <1>1 DEF areEqual, isFpReg
  <2>3. get(g, id) = l.reported[id] /\ get(h, id) = r.reported[id]
    BY <2>1 DEF Replayed
  <2>4. QED BY <2>1, <2>2, <2>3 DEF DifferIn
<1>3. ASSUME NEW id \in DifferIn(l, r, policy) PROVE id \in unequalIds(g, h, policy)
  <2>1. id \in Ids /\ ~areEqual(policy, id, l.reported[id], r.reported[id])
    BY <1>3 DEF DifferIn
  <2>2. get(g, id) = l.reported[id] /\ get(h, id) = r.reported[id]
    BY <2>1 DEF Replayed
  <2>3. ~areEqual(policy, id, get(g, id), get(h, id))
    BY <2>1, <2>2
  <2>4. get(g, id) # get(h, id)
    BY <2>3 DEF areEqual
  <2>5. id \in DOMAIN g \cup DOMAIN h
    BY <2>4 DEF get
  <2>6. QED BY <2>3, <2>4, <2>5 DEF unequalIds
<1>4. QED BY <1>2, <1>3

(***************************************************************************)
(* The loop of compareTraces over two sequences of steps.                  *)
(***************************************************************************)
Diverges(l, r, policy, i) == \/ Fields(l[i].record) # Fields(r[i].record)
                             \/ DifferIn(l[i], r[i], policy) # {}

Reports(v, l, r, policy, depth, i) ==
    /\ v.exit = 1 /\ v.index = i
    /\ v.kind \notin {"none", "trace_length"}
    /\ v.kind = "register" => v.regId = Min(DifferIn(l[i], r[i], policy))
    /\ v.kind # "register" => Fields(l[i].record) # Fields(r[i].record)
    /\ v.history = HistoryBefore(i, depth)

\* After n turns: the loop has returned with the first divergence, or there was
\* none so far and the states are those the producers told.
Compared(acc, l, r, policy, depth, n) ==
    /\ \E a, b, h, t, v : acc = [left |-> a, right |-> b, history |-> h, returned |-> t, verdict |-> v]
    /\ acc.returned \in BOOLEAN
    /\ ~acc.returned => /\ Replayed(acc.left, Told(l, n)) /\ Replayed(acc.right, Told(r, n))
                        /\ acc.history = HistoryBefore(n + 1, depth)
                        /\ \A i \in 1 .. n : ~Diverges(l, r, policy, i)
    /\ acc.returned => \E m \in 1 .. n : /\ Diverges(l, r, policy, m)
                                         /\ \A i \in 1 .. m - 1 : ~Diverges(l, r, policy, i)
                                         /\ Reports(acc.verdict, l, r, policy, depth, m)

\* A turn replays one more step on one side.
LEMMA StepReplays ==
    ASSUME NEW l, Steps(l), NEW n \in Nat, n + 1 <= Len(l), NEW g, Replayed(g, Told(l, n))
    PROVE  /\ Replayed(applied(g, l[n + 1].record), l[n + 1].reported)
           /\ Told(l, n + 1) = l[n + 1].reported
           /\ Significant(l[n + 1].record)
<1>1. n + 1 \in 1 .. Len(l) /\ n + 1 # 0 /\ (n + 1 = 1 <=> n = 0) /\ (n + 1) - 1 = n
  BY DEF Steps
<1>2. l[n + 1] \in Entry
  BY <1>1, ElementOfSeq DEF Steps
<1>3. l[n + 1].record \in Record /\ l[n + 1].reported \in [Ids -> Nat]
  BY <1>2 DEF Entry
<1>4. Tells(l[n + 1].record, Told(l, n), l[n + 1].reported)
  <2>1. Tells(l[n + 1].record, IF n + 1 = 1 THEN ZeroRegs ELSE l[(n + 1) - 1].reported, l[n + 1].reported)
    BY <1>1 DEF Steps, LogTells
  <2>2. QED BY <1>1, <2>1 DEF Told
<1>5. Significant(l[n + 1].record)
  BY <1>1 DEF Steps
<1>6. QED BY <1>1, <1>3, <1>4, <1>5, Replay DEF Told, Significant

LEMMA CompareOneMore ==
    ASSUME NEW l, Steps(l), NEW r, Steps(r), NEW policy, NEW depth \in Nat,
           NEW n \in Nat, n + 1 <= Len(l), n + 1 <= Len(r),
           NEW acc, Compared(acc, l, r, policy, depth, n)
    PROVE  Compared(compareAt(acc, l[n + 1].record, r[n + 1].record, n + 1, policy, depth),
                    l, r, policy, depth, n + 1)
<1> DEFINE i    == n + 1
           x    == l[i]
           y    == r[i]
           s    == compareStep(x.record, y.record)
           g    == applied(acc.left, x.record)
           h    == applied(acc.right, y.record)
           u    == unequalIds(g, h, policy)
           next == compareAt(acc, x.record, y.record, i, policy, depth)
<1>0. PICK a0, b0, h0, t0, v0 : acc = [left |-> a0, right |-> b0, history |-> h0, returned |-> t0, verdict |-> v0]
  BY DEF Compared
<1>1. CASE acc.returned
  <2>1. next = acc
    BY <1>1 DEF compareAt
  <2>2. PICK m \in 1 .. n : /\ Diverges(l, r, policy, m)
                            /\ \A k \in 1 .. m - 1 : ~Diverges(l, r, policy, k)
                            /\ Reports(acc.verdict, l, r, policy, depth, m)
    BY <1>1 DEF Compared
  <2>3. m \in 1 .. n + 1
    OBVIOUS
  <2> HIDE DEF next
  <2>4. Compared(acc, l, r, policy, depth, n + 1)
    BY <1>1, <2>2, <2>3 DEF Compared
  <2>5. QED BY <2>1, <2>4 DEF next, x, y, i
<1>2. CASE ~acc.returned
  <2>1. /\ Replayed(acc.left, Told(l, n)) /\ Replayed(acc.right, Told(r, n))
        /\ acc.history = HistoryBefore(i, depth)
        /\ \A k \in 1 .. n : ~Diverges(l, r, policy, k)
    BY <1>2 DEF Compared
  <2>2. /\ Replayed(g, x.reported) /\ Told(l, i) = x.reported /\ Significant(x.record)
        /\ Replayed(h, y.reported) /\ Told(r, i) = y.reported /\ Significant(y.record)
    BY <2>1, StepReplays
  <2>3. u = DifferIn(x, y, policy)
    BY <2>2, UnequalIsDifferent
  <2>4. (s = "none" <=> Fields(x.record) = Fields(y.record)) /\ s \notin {"register", "trace_length"}
    BY <2>2, StructureIsFields
  <2>5. i \in 1 .. i /\ i \in Nat \ {0} /\ i - 1 = n
    OBVIOUS
  <2>6. next = IF s # "none"
               THEN [acc EXCEPT !.returned = TRUE, !.verdict = Verdict(1, s, i, NoReg, acc.history)]
               ELSE IF u # {}
               THEN [acc EXCEPT !.returned = TRUE, !.verdict = Verdict(1, "register", i, Min(u), acc.history)]
               ELSE [acc EXCEPT !.left = g, !.right = h, !.history = pushed(acc.history, i, depth)]
    BY <1>2 DEF compareAt
  <2> HIDE DEF next, g, h, u, s
  <2>7. CASE s # "none"
    <3> DEFINE v == Verdict(1, s, i, NoReg, acc.history)
    <3>1. next = [left |-> a0, right |-> b0, history |-> h0, returned |-> TRUE, verdict |-> v]
      BY <2>6, <2>7, <1>0
    <3>2. v.exit = 1 /\ v.index = i /\ v.kind = s /\ v.history = HistoryBefore(i, depth)
      BY <2>1 DEF Verdict
    <3> HIDE DEF v
    <3>3. Reports(v, l, r, policy, depth, i) /\ Diverges(l, r, policy, i)
      BY <3>2, <2>4, <2>7 DEF Reports, Diverges
    <3>4. next.returned = TRUE /\ next.verdict = v
      BY <3>1
    <3>5. Compared(next, l, r, policy, depth, i)
      BY <3>1, <3>3, <3>4, <2>1, <2>5 DEF Compared
    <3>6. QED BY <3>5 DEF next, x, y, i
  <2>8. CASE s = "none" /\ u # {}
    <3> DEFINE v == Verdict(1, "register", i, Min(u), acc.history)
    <3>1. next = [left |-> a0, right |-> b0, history |-> h0, returned |-> TRUE, verdict |-> v]
      BY <2>6, <2>8, <1>0
    <3>2. v.exit = 1 /\ v.index = i /\ v.kind = "register" /\ v.regId = Min(u) /\ v.history = HistoryBefore(i, depth)
      BY <2>1 DEF Verdict
    <3> HIDE DEF v
    <3>3. Reports(v, l, r, policy, depth, i) /\ Diverges(l, r, policy, i)
      BY <3>2, <2>3, <2>8 DEF Reports, Diverges
    <3>4. next.returned = TRUE /\ next.verdict = v
      BY <3>1
    <3>5. Compared(next, l, r, policy, depth, i)
      BY <3>1, <3>3, <3>4, <2>1, <2>5 DEF Compared
    <3>6. QED BY <3>5 DEF next, x, y, i
  <2>9. CASE s = "none" /\ u = {}
    <3> DEFINE p == pushed(acc.history, i, depth)
    <3>1. next = [left |-> g, right |-> h, history |-> p, returned |-> t0, verdict |-> v0]
      BY <2>6, <2>9, <1>0
    <3>2. p = HistoryBefore(i + 1, depth)
      BY <2>1, <2>5, HistoryPushed
    <3> HIDE DEF p
    <3>3. ~Diverges(l, r, policy, i)
      BY <2>3, <2>4, <2>9 DEF Diverges
    <3>4. ASSUME NEW k \in 1 .. i PROVE ~Diverges(l, r, policy, k)
      <4>1. k = i \/ k \in 1 .. n
        OBVIOUS
      <4>2. QED BY <4>1, <3>3, <2>1
    <3>5. next.left = g /\ next.right = h /\ next.history = p /\ next.returned = acc.returned
      BY <3>1, <1>0
    <3>6. acc.returned \in BOOLEAN
      BY DEF Compared
    <3>7. Compared(next, l, r, policy, depth, i)
      BY <3>1, <3>2, <3>4, <3>5, <3>6, <1>2, <2>2 DEF Compared
    <3>8. QED BY <3>7 DEF next, x, y, i
  <2>10. QED BY <2>7, <2>8, <2>9
<1>3. QED BY <1>1, <1>2

LoopStart == [left |-> NoRegs, right |-> NoRegs, history |-> <<>>, returned |-> FALSE, verdict |-> <<>>]

TurnStep(L, R, policy, depth, g, n) ==
    IF n = 0 THEN LoopStart ELSE compareAt(g[n - 1], L[n], R[n], n, policy, depth)

IsTurns(L, R, policy, depth, g, n) == g = [i \in 0 .. n |-> TurnStep(L, R, policy, depth, g, i)]

LEMMA TurnExists ==
    ASSUME NEW L, NEW R, NEW policy, NEW depth, NEW n \in Nat
    PROVE  \E g : IsTurns(L, R, policy, depth, g, n)
<1> DEFINE P(k) == \E g : IsTurns(L, R, policy, depth, g, k)
           Bad  == {k \in Nat : ~P(k)}
<1>1. P(0)
  <2> DEFINE e == [i \in 0 .. 0 |-> LoopStart]
  <2>1. e = [i \in 0 .. 0 |-> TurnStep(L, R, policy, depth, e, i)]
    BY DEF TurnStep
  <2>2. IsTurns(L, R, policy, depth, e, 0)
    BY <2>1 DEF IsTurns
  <2>3. QED BY <2>2
<1>2. ASSUME NEW k \in Nat, P(k) PROVE P(k + 1)
  <2>1. PICK h : IsTurns(L, R, policy, depth, h, k)
    BY <1>2
  <2> DEFINE e == [i \in 0 .. k + 1 |-> IF i = k + 1 THEN TurnStep(L, R, policy, depth, h, k + 1) ELSE h[i]]
  <2>2. ASSUME NEW i \in 0 .. k PROVE e[i] = h[i]
    OBVIOUS
  <2>3. e[k + 1] = TurnStep(L, R, policy, depth, h, k + 1)
    OBVIOUS
  <2>4. ASSUME NEW i \in 0 .. k + 1 PROVE TurnStep(L, R, policy, depth, e, i) = TurnStep(L, R, policy, depth, h, i)
    <3>1. i # 0 => i - 1 \in 0 .. k
      OBVIOUS
    <3>2. i # 0 => e[i - 1] = h[i - 1]
      BY <2>2, <3>1
    <3> HIDE DEF e
    <3>3. QED BY <3>2 DEF TurnStep
  <2>5. ASSUME NEW i \in 0 .. k + 1 PROVE e[i] = TurnStep(L, R, policy, depth, e, i)
    <3> HIDE DEF e
    <3>1. CASE i = k + 1
      BY <2>3, <2>4, <3>1
    <3>2. CASE i # k + 1
      <4>1. i \in 0 .. k
        BY <3>2
      <4>2. h[i] = TurnStep(L, R, policy, depth, h, i)
        BY <4>1, <2>1 DEF IsTurns
      <4>3. QED BY <4>1, <4>2, <2>2, <2>4
    <3>3. QED BY <3>1, <3>2
  <2>6. IsTurns(L, R, policy, depth, e, k + 1)
    BY <2>5 DEF IsTurns
  <2> HIDE DEF e
  <2>7. QED BY <2>6
<1> HIDE DEF P
<1>3. ASSUME Bad # {} PROVE FALSE
  <2>1. PICK k \in Bad : \A m \in Bad : k <= m
    <3>1. Bad \in SUBSET Nat
      OBVIOUS
    <3> HIDE DEF Bad
    <3>2. QED BY <1>3, <3>1, LeastNatural
  <2>2. k \in Nat /\ ~P(k) /\ k # 0
    BY <2>1, <1>1
  <2>3. k - 1 \in Nat /\ ~(k <= k - 1) /\ (k - 1) + 1 = k
    BY <2>2
  <2>4. P(k - 1)
    BY <2>1, <2>3
  <2>5. QED BY <2>2, <2>3, <2>4, <1>2
<1>4. P(n)
  BY <1>3
<1>5. QED BY <1>4 DEF P

LEMMA ComparesAll ==
    ASSUME NEW l, Steps(l), NEW r, Steps(r), NEW policy, NEW depth \in Nat,
           NEW N \in Nat, N <= Len(l), N <= Len(r),
           NEW loop, IsTurns(RecsOf(l), RecsOf(r), policy, depth, loop, N)
    PROVE  Compared(loop[N], l, r, policy, depth, N)
<1> DEFINE P(k) == Compared(loop[k], l, r, policy, depth, k)
           Bad  == {k \in Nat : k <= N /\ ~P(k)}
<1>1. ASSUME NEW k \in Nat, k <= N PROVE loop[k] = TurnStep(RecsOf(l), RecsOf(r), policy, depth, loop, k)
  <2>1. k \in 0 .. N
    BY <1>1
  <2>2. QED BY <2>1 DEF IsTurns
<1>2. P(0)
  <2>1. loop[0] = LoopStart
    BY <1>1 DEF TurnStep
  <2>2. Replayed(NoRegs, ZeroRegs)
    BY DEF Replayed, NoRegs, ZeroRegs, get
  <2>3. HistoryBefore(0 + 1, depth) = <<>>
    <3> DEFINE a == Min({(0 + 1) - 1, depth})
               h == [n \in 1 .. a |-> n + (0 + 1) - 1 - a]
    <3>1. a = 0
      BY LesserOfTwo
    <3>2. HistoryBefore(0 + 1, depth) = h
      BY DEF HistoryBefore
    <3> HIDE DEF a
    <3>3. h \in Seq(Int) /\ Len(h) = 0
      BY <3>1
    <3> HIDE DEF h
    <3>4. QED BY <3>2, <3>3
  <2>4. Compared(LoopStart, l, r, policy, depth, 0)
    <3> DEFINE s == LoopStart
    <3>1. s.returned = FALSE /\ s.left = NoRegs /\ s.right = NoRegs /\ s.history = <<>>
      BY DEF LoopStart
    <3>2. \E a, b, h, t, v : s = [left |-> a, right |-> b, history |-> h, returned |-> t, verdict |-> v]
      BY DEF LoopStart
    <3> HIDE DEF s
    <3>3. Replayed(s.left, Told(l, 0)) /\ Replayed(s.right, Told(r, 0))
      BY <3>1, <2>2 DEF Told
    <3>4. s.history = HistoryBefore(0 + 1, depth) /\ \A i \in 1 .. 0 : ~Diverges(l, r, policy, i)
      BY <3>1, <2>3
    <3>5. Compared(s, l, r, policy, depth, 0)
      BY <3>1, <3>2, <3>3, <3>4 DEF Compared
    <3>6. QED BY <3>5 DEF s
  <2>5. QED BY <2>1, <2>4
<1>3. ASSUME NEW k \in Nat, k + 1 <= N, P(k) PROVE P(k + 1)
  <2>1. loop[k + 1] = TurnStep(RecsOf(l), RecsOf(r), policy, depth, loop, k + 1)
    BY <1>1, <1>3
  <2>2. (k + 1) - 1 = k /\ k + 1 # 0
    OBVIOUS
  <2>3. RecsOf(l)[k + 1] = l[k + 1].record /\ RecsOf(r)[k + 1] = r[k + 1].record
    <3>1. k + 1 \in DOMAIN l /\ k + 1 \in DOMAIN r
      BY <1>3 DEF Steps
    <3>2. QED BY <3>1 DEF RecsOf
  <2>4. loop[k + 1] = compareAt(loop[k], l[k + 1].record, r[k + 1].record, k + 1, policy, depth)
    BY <2>1, <2>2, <2>3 DEF TurnStep
  <2>5. k + 1 <= Len(l) /\ k + 1 <= Len(r)
    BY <1>3 DEF Steps
  <2>6. QED BY <2>4, <2>5, <1>3, CompareOneMore
<1> HIDE DEF P
<1>4. ASSUME Bad # {} PROVE FALSE
  <2>1. PICK k \in Bad : \A m \in Bad : k <= m
    <3>1. Bad \in SUBSET Nat
      OBVIOUS
    <3> HIDE DEF Bad
    <3>2. QED BY <1>4, <3>1, LeastNatural
  <2>2. k \in Nat /\ k <= N /\ ~P(k) /\ k # 0
    BY <2>1, <1>2
  <2>3. k - 1 \in Nat /\ k - 1 <= N /\ (k - 1) + 1 <= N /\ ~(k <= k - 1) /\ (k - 1) + 1 = k
    BY <2>2
  <2>4. P(k - 1)
    BY <2>1, <2>3
  <2>5. QED BY <2>2, <2>3, <2>4, <1>3
<1>5. P(N)
  BY <1>4
<1>6. QED BY <1>5 DEF P

\* What compareTraces returns for two sequences of steps.
FirstDivergence(result, l, r, policy, depth) ==
    LET steps == Min({Len(l), Len(r)})
        bad   == {i \in 1 .. steps : Diverges(l, r, policy, i)}
        first == Min(bad \cup {steps + 1})
    IN  /\ result.index = first
        /\ result.exit = (IF bad = {} /\ Len(l) = Len(r) THEN 0 ELSE 1)
        /\ result.kind = "register" => result.regId = Min(DifferIn(l[first], r[first], policy))
        /\ result.kind \notin {"register", "none", "trace_length"}
              => Fields(l[first].record) # Fields(r[first].record)
        /\ result.history = HistoryBefore(first, depth)

LEMMA ComparisonFindsFirst ==
    ASSUME NEW l, Steps(l), NEW r, Steps(r), NEW policy, NEW depth \in Nat, NEW left, NEW right,
           significantRecords(left) = RecsOf(l), significantRecords(right) = RecsOf(r)
    PROVE  FirstDivergence(compareTraces(left, right, policy, depth), l, r, policy, depth)
<1> DEFINE N      == Min({Len(l), Len(r)})
           bad    == {i \in 1 .. N : Diverges(l, r, policy, i)}
           first  == Min(bad \cup {N + 1})
           L      == RecsOf(l)
           R      == RecsOf(r)
           loop   == CHOOSE g : IsTurns(L, R, policy, depth, g, N)
           result == compareTraces(left, right, policy, depth)
<1>1. Len(l) \in Nat /\ Len(r) \in Nat /\ Len(L) = Len(l) /\ Len(R) = Len(r)
  <2>1. l \in Seq(Entry) /\ r \in Seq(Entry)
    BY DEF Steps
  <2>2. L = [i \in 1 .. Len(l) |-> l[i].record] /\ R = [i \in 1 .. Len(r) |-> r[i].record]
    BY <2>1 DEF RecsOf
  <2>3. QED BY <2>1, <2>2
<1>2. N \in Nat /\ N <= Len(l) /\ N <= Len(r)
  BY <1>1, LesserOfTwo
<1>3. IsTurns(L, R, policy, depth, loop, N)
  BY <1>2, TurnExists
<1> HIDE DEF L, R
<1>4. result = IF loop[N].returned THEN loop[N].verdict
               ELSE IF Len(l) # Len(r) THEN Verdict(1, "trace_length", N + 1, NoReg, loop[N].history)
               ELSE Verdict(0, "none", N + 1, NoReg, loop[N].history)
  <2>1. significantRecords(left) = L /\ significantRecords(right) = R
    BY DEF L, R
  <2>2. QED BY <2>1, <1>1 DEF compareTraces, IsTurns, TurnStep, LoopStart
<1> HIDE DEF loop
<1>5. Compared(loop[N], l, r, policy, depth, N)
  BY <1>2, <1>3, ComparesAll DEF L, R
<1> DEFINE end == loop[N]
<1> HIDE DEF end, result, N
<1>6. bad \cup {N + 1} \in SUBSET Nat /\ bad \cup {N + 1} # {}
  BY <1>2
<1>7. first \in bad \cup {N + 1} /\ \A y \in bad \cup {N + 1} : first <= y
  <2> HIDE DEF bad
  <2>1. QED BY <1>6, LeastIsIn
<1>8. CASE end.returned
  <2>1. PICK m \in 1 .. N : /\ Diverges(l, r, policy, m)
                            /\ \A i \in 1 .. m - 1 : ~Diverges(l, r, policy, i)
                            /\ Reports(end.verdict, l, r, policy, depth, m)
    BY <1>5, <1>8 DEF Compared, end
  <2>2. m \in bad /\ bad # {}
    BY <2>1
  <2>3. first = m
    <3>1. first <= m /\ first \in Nat
      BY <2>2, <1>2, <1>7
    <3>2. first # N + 1
      BY <3>1, <1>2
    <3>3. first \in bad
      BY <3>2, <1>7
    <3>4. first \notin 1 .. m - 1
      BY <3>3, <2>1
    <3>5. first \in 1 .. N
      BY <3>3
    <3> HIDE DEF first
    <3>6. QED BY <3>1, <3>4, <3>5, <1>2
  <2>4. result = end.verdict
    BY <1>4, <1>8 DEF end
  <2> HIDE DEF first, bad
  <2>5. /\ result.index = first /\ result.exit = 1
        /\ result.kind = "register" => result.regId = Min(DifferIn(l[first], r[first], policy))
        /\ result.kind # "register" => Fields(l[first].record) # Fields(r[first].record)
        /\ result.history = HistoryBefore(first, depth)
    BY <2>1, <2>3, <2>4 DEF Reports
  <2>6. QED BY <2>2, <2>5 DEF FirstDivergence, first, bad, N, result
<1>9. CASE ~end.returned
  <2>1. bad = {} /\ end.history = HistoryBefore(N + 1, depth)
    BY <1>5, <1>9 DEF Compared, end
  <2>2. first = N + 1
    BY <2>1, <1>7
  <2>3. \/ Len(l) # Len(r) /\ result = Verdict(1, "trace_length", N + 1, NoReg, end.history)
        \/ Len(l) = Len(r) /\ result = Verdict(0, "none", N + 1, NoReg, end.history)
    BY <1>4, <1>9 DEF end
  <2> HIDE DEF first, bad
  <2>4. /\ result.index = first /\ result.exit = (IF Len(l) = Len(r) THEN 0 ELSE 1)
        /\ result.kind \in {"none", "trace_length"}
        /\ result.history = HistoryBefore(first, depth)
    BY <2>1, <2>2, <2>3 DEF Verdict
  <2>5. QED BY <2>1, <2>4 DEF FirstDivergence, first, bad, N, result
<1>10. QED BY <1>8, <1>9

\* The steps of a file that can be read are the entries of its execution's log.
LEMMA FileSteps ==
    ASSUME PipeInv, NEW side \in Side, Stopped(side), loadTrace(files[side]).ok
    PROVE  /\ Steps(Comparable(side))
           /\ significantRecords(loadTrace(files[side])) = RecsOf(Comparable(side))
<1> DEFINE trace == loadTrace(files[side])
           s     == log[side]
           recs  == RecsOf(s)
           at    == significant(trace.records)
           l     == Comparable(side)
<1>1. PICK whole, told, n : /\ Stream(whole, s, told)
                            /\ n \in 0 .. Len(whole)
                            /\ files[side] = SubSeq(whole, 1, n)
  BY DEF PipeInv, StoppedInv, LeftBehind
<1>2. s \in Seq(Entry) /\ LogTells(s) /\ whole \in Seq(Nat) /\ Holds(whole, recs) /\ n \in Nat /\ n <= Len(whole)
  BY <1>1 DEF Stream
<1>3. recs \in Seq(Record) /\ Len(recs) = Len(s) /\ Len(s) \in Nat /\ \A i \in 1 .. Len(s) : recs[i] = s[i].record
  BY <1>1, StreamRecords
<1>4. RecordsOf(side) = recs
  BY DEF RecordsOf, RecsOf
<1> HIDE DEF recs
<1>5. PICK m \in 0 .. Len(recs) : trace.records = SubSeq(recs, 1, m)
  BY <1>1, <1>2, <1>3, PrefixReads
<1> HIDE DEF trace
<1>6. /\ m \in Nat /\ m <= Len(s) /\ Len(trace.records) = m
      /\ \A i \in 1 .. m : trace.records[i] = s[i].record
  BY <1>3, <1>5
<1>7. Selects(s, at, m)
  BY <1>2, <1>6, SignificantSelects
<1>8. l = [k \in DOMAIN at |-> s[at[k]]]
  BY <1>4, <1>5, <1>6 DEF Comparable, trace
<1>9. significantRecords(trace) = [k \in DOMAIN at |-> trace.records[at[k]]]
  BY DEF significantRecords
<1> HIDE DEF at, l, s
<1>10. Steps(l)
  BY <1>2, <1>6, <1>7, <1>8, SelectedSteps
<1>11. ASSUME NEW k \in DOMAIN at PROVE trace.records[at[k]] = l[k].record
  <2>1. at[k] \in 1 .. m
    BY <1>7 DEF Selects
  <2>2. QED BY <2>1, <1>6, <1>8
<1>12. RecsOf(l) = [k \in DOMAIN at |-> l[k].record]
  BY <1>8 DEF RecsOf
<1>13. significantRecords(trace) = RecsOf(l)
  BY <1>9, <1>11, <1>12
<1>14. QED BY <1>10, <1>13 DEF l, trace

\* The differ runs once, over the files both sides left.
VerdictInv ==
    \/ verdict = NoVerdict
    \/ /\ phase = "compare"
       /\ \E request \in Requests :
             verdict = [done |-> TRUE, request |-> request,
                        result |-> main(files["left"], files["right"], request.policy, request.depth, request.allow)]

LEMMA VerdictStep == VerdictInv /\ [Next]_vars => VerdictInv'
<1> SUFFICES ASSUME VerdictInv, [Next]_vars PROVE VerdictInv'
  OBVIOUS
<1>1. CASE phase \in Side /\ verdict' = verdict
  <2>1. verdict = NoVerdict
    BY <1>1 DEF VerdictInv, Side
  <2>2. QED BY <1>1, <2>1 DEF VerdictInv, NoVerdict
<1>2. CASE \E request \in Requests : Diff(request)
  <2>1. PICK request \in Requests : Diff(request)
    BY <1>2
  <2>2. phase' = "compare" /\ files' = files
    BY <2>1 DEF Diff
  <2>3. verdict' = [done |-> TRUE, request |-> request,
                    result |-> main(files["left"], files["right"], request.policy, request.depth, request.allow)]
    BY <2>1 DEF Diff
  <2>4. QED BY <2>2, <2>3 DEF VerdictInv
<1>3. CASE UNCHANGED vars
  <2>1. verdict' = verdict /\ phase' = phase /\ files' = files
    BY <1>3 DEF vars
  <2>2. QED BY <2>1 DEF VerdictInv, NoVerdict
<1>4. Next => \/ phase \in Side /\ verdict' = verdict
              \/ \E request \in Requests : Diff(request)
  BY DEF Next, Start, OnBlock, OnException, Finish, Take, Stop, recording
<1>5. QED BY <1>1, <1>2, <1>3, <1>4

\* The verdict of the differ is the first step at which the two executions, each
\* seen as full register files, differ under the policy in force, with the least
\* register and the steps before it, for any two producers, guests and moments at
\* which they were stopped.  (compare.mjs compareTraces, diff.mjs main)  The proof
\* does not need the case the property leaves open: of compare.mjs it holds there too.
THEOREM VerdictIsExact == Spec => []VerdictIsFirstDivergence
<1>1. Init => VerdictInv
  BY DEF Init, VerdictInv
<1>2. Spec => []VerdictInv
  BY <1>1, VerdictStep, PTL DEF Spec
<1>3. PipeInv /\ VerdictInv => VerdictIsFirstDivergence
  <2> SUFFICES ASSUME PipeInv, VerdictInv, verdict.done PROVE VerdictIsFirstDivergence
    BY DEF VerdictIsFirstDivergence
  <2>1. phase = "compare" /\ verdict # NoVerdict
    BY DEF VerdictInv, NoVerdict
  <2> DEFINE q       == verdict.request
             left    == loadTrace(files["left"])
             right   == loadTrace(files["right"])
             policy  == choosePolicy(q.policy, left, right)
             l       == Comparable("left")
             r       == Comparable("right")
             result  == verdict.result
             refused == \/ ~left.ok \/ ~right.ok
                        \/ left.feature # right.feature /\ ~q.allow
                        \/ q.policy \notin POLICIES \cup {"null"}
  <2>2. q \in Requests /\ result = main(files["left"], files["right"], q.policy, q.depth, q.allow)
    <3>1. PICK request \in Requests :
             verdict = [done |-> TRUE, request |-> request,
                        result |-> main(files["left"], files["right"], request.policy, request.depth, request.allow)]
      BY <2>1 DEF VerdictInv
    <3>2. verdict.request = request
      BY <3>1
    <3>3. verdict.result = main(files["left"], files["right"], request.policy, request.depth, request.allow)
      BY <3>1
    <3>4. QED BY <3>2, <3>3
  <2>3. (IF refused THEN result.exit = 2 ELSE FirstDivergence(result, l, r, policy, q.depth))
            => VerdictIsFirstDivergence
    BY DEF VerdictIsFirstDivergence, FirstDivergence, HistoryBefore, Diverges
  <2> HIDE DEF q, result
  <2>4. result = IF refused THEN Failed ELSE compareTraces(left, right, policy, q.depth)
    BY <2>2 DEF main, isComparable
  <2>5. refused => result.exit = 2
    BY <2>4 DEF Failed, Verdict
  <2>6. ~refused => FirstDivergence(result, l, r, policy, q.depth)
    <3> SUFFICES ASSUME ~refused PROVE FirstDivergence(result, l, r, policy, q.depth)
      OBVIOUS
    <3>1. "left" \in Side /\ "right" \in Side /\ Stopped("left") /\ Stopped("right")
      BY <2>1 DEF Side, Stopped
    <3>2. Steps(l) /\ significantRecords(left) = RecsOf(l)
      BY <3>1, FileSteps
    <3>3. Steps(r) /\ significantRecords(right) = RecsOf(r)
      BY <3>1, FileSteps
    <3>4. q.depth \in Nat
      BY <2>2, RequestAssumption
    <3> HIDE DEF left, right, policy, l, r, refused
    <3>5. result = compareTraces(left, right, policy, q.depth)
      BY <2>4
    <3>6. QED BY <3>2, <3>3, <3>4, <3>5, ComparisonFindsFirst
  <2>7. QED BY <2>3, <2>5, <2>6
<1>4. QED BY <1>2, <1>3, PipeInvariant, PTL
=============================================================================
