-------------------------- MODULE RiskScoringProofs --------------------------
(***************************************************************************)
(* For every ruleset, whatever matches, every calibration and raw score:   *)
(* the winners are the strongest rules of their groups, no check of the    *)
(* pipeline fails, and the action is what score and overrides ask for.     *)
(***************************************************************************)
EXTENDS RiskScoring, FiniteSetTheorems, WellFoundedInduction, TLAPS

------------------------------------------------------------------------------
(* Sums over a finite set *)

\* Induction on the natural numbers, with a set for the predicate.
LEMMA NaturalInduction ==
  ASSUME NEW N \in SUBSET Nat, 0 \in N, \A n \in N : n + 1 \in N
  PROVE  N = Nat
<1> SUFFICES ASSUME N # Nat
             PROVE  FALSE
  OBVIOUS
<1> DEFINE T == Nat \ N
<1>1. PICK x \in T : \A y \in T : ~ (<<y, x>> \in OpToRel(<, Nat))
  <2>1. T # {} /\ T \subseteq Nat
    OBVIOUS
  <2>2. IsWellFoundedOn(OpToRel(<, Nat), Nat)
    BY NatLessThanWellFounded
  <2> HIDE DEF T
  <2>. QED
    BY <2>1, <2>2, WFMin
<1>2. x - 1 \in T /\ <<x - 1, x>> \in OpToRel(<, Nat)
  <2>1. x # 0 /\ x - 1 \in Nat /\ x \in Nat
    OBVIOUS
  <2>2. x - 1 \in T
    OBVIOUS
  <2>. QED
    BY <2>1, <2>2 DEF OpToRel
<1>. QED
  BY <1>1, <1>2

\* The element that a fold over s takes first.
Picked(s) == CHOOSE x \in s : TRUE

\* What is left of a nonempty finite set is finite and smaller.
LEMMA PickedSmaller ==
  ASSUME NEW S, IsFiniteSet(S), NEW s \in SUBSET S, s # {}
  PROVE  /\ Picked(s) \in s
         /\ s \ {Picked(s)} \in SUBSET S
         /\ Cardinality(s) \in Nat
         /\ Cardinality(s) > 0
         /\ Cardinality(s \ {Picked(s)}) = Cardinality(s) - 1
<1>1. Picked(s) \in s
  BY DEF Picked
<1>2. IsFiniteSet(s) /\ Cardinality(s) \in Nat
  BY FS_Subset, FS_CardinalityType
<1>3. Cardinality(s \ {Picked(s)}) = Cardinality(s) - 1
  BY <1>1, <1>2, FS_RemoveElement
<1>4. Cardinality(s) # 0
  BY <1>2, FS_EmptySet
<1>. QED
  BY <1>1, <1>2, <1>3, <1>4

\* Induction on the subsets of a finite set, in the order of a fold.
LEMMA SubsetInduction ==
  ASSUME NEW S, IsFiniteSet(S), NEW D, {} \in D,
         \A s \in SUBSET S : s # {} /\ s \ {Picked(s)} \in D => s \in D
  PROVE  SUBSET S \subseteq D
<1> DEFINE Reached == {n \in Nat : \A s \in SUBSET S :
                                     Cardinality(s) = n => s \in D}
<1>1. \A s \in SUBSET S : Cardinality(s) \in Nat
  BY FS_Subset, FS_CardinalityType
<1>2. 0 \in Reached
  BY FS_Subset, FS_EmptySet
<1>3. ASSUME NEW n \in Reached
      PROVE  n + 1 \in Reached
  <2>1. ASSUME NEW s \in SUBSET S, Cardinality(s) = n + 1
        PROVE  s \in D
    <3>1. s # {}
      BY <2>1, FS_EmptySet
    <3>2. s \ {Picked(s)} \in SUBSET S /\ Cardinality(s \ {Picked(s)}) = n
      BY <2>1, <3>1, PickedSmaller
    <3>. QED
      BY <3>1, <3>2
  <2>. QED
    BY <2>1
<1>4. Reached = Nat
  <2>1. Reached \in SUBSET Nat
    OBVIOUS
  <2> HIDE DEF Reached
  <2>. QED
    BY <1>2, <1>3, <2>1, NaturalInduction
<1>. QED
  BY <1>1, <1>4

\* One turn of the recursion that defines SumFunctionOnSet.
SumTurn(f, h, s) == IF s = {} THEN 0 ELSE f[Picked(s)] + h[s \ {Picked(s)}]

\* The recursion defines a function on the subsets of a finite set.
LEMMA RecursionExists ==
  ASSUME NEW f, NEW S, IsFiniteSet(S)
  PROVE  \E h : h = [s \in SUBSET S |-> SumTurn(f, h, s)]
<1> DEFINE Small(n) == {s \in SUBSET S : Cardinality(s) <= n}
           Defined(n) == \E h : h = [s \in Small(n) |-> SumTurn(f, h, s)]
           Reached == {n \in Nat : Defined(n)}
<1>1. \A s \in SUBSET S : Cardinality(s) \in Nat
  BY FS_Subset, FS_CardinalityType
<1>2. 0 \in Reached
  <2>1. \A s \in Small(0) : s = {}
    BY <1>1, FS_Subset, FS_EmptySet
  <2> DEFINE h == [s \in Small(0) |-> 0]
  <2>2. h = [s \in Small(0) |-> SumTurn(f, h, s)]
    BY <2>1 DEF SumTurn
  <2>. QED
    BY <2>2
<1>3. ASSUME NEW n \in Reached
      PROVE  n + 1 \in Reached
  <2>1. PICK h : h = [s \in Small(n) |-> SumTurn(f, h, s)]
    OBVIOUS
  <2> DEFINE g == [s \in Small(n + 1) |-> SumTurn(f, h, s)]
  <2>2. ASSUME NEW s \in Small(n)
        PROVE  g[s] = h[s]
    <3>1. s \in Small(n + 1)
      BY <1>1
    <3>. QED
      BY <2>1, <3>1
  <2>3. ASSUME NEW s \in Small(n + 1)
        PROVE  SumTurn(f, h, s) = SumTurn(f, g, s)
    <3>1. CASE s = {}
      BY <3>1 DEF SumTurn
    <3>2. CASE s # {}
      <4>1. s \ {Picked(s)} \in Small(n)
        BY <3>2, PickedSmaller
      <4>2. g[s \ {Picked(s)}] = h[s \ {Picked(s)}]
        BY <2>2, <4>1
      <4> HIDE DEF g
      <4>. QED
        BY <3>2, <4>2 DEF SumTurn
    <3>. QED
      BY <3>1, <3>2
  <2>4. g = [s \in Small(n + 1) |-> SumTurn(f, g, s)]
    <3>1. [s \in Small(n + 1) |-> SumTurn(f, h, s)]
            = [s \in Small(n + 1) |-> SumTurn(f, g, s)]
      <4> HIDE DEF g
      <4>. QED
        BY <2>3
    <3>. QED
      BY <3>1
  <2>5. Defined(n + 1)
    <3> HIDE DEF g
    <3>. QED
      BY <2>4
  <2> HIDE DEF Defined
  <2>. QED
    BY <2>5
<1>4. Reached = Nat
  <2>1. Reached \in SUBSET Nat
    OBVIOUS
  <2> HIDE DEF Reached
  <2>. QED
    BY <1>2, <1>3, <2>1, NaturalInduction
<1>5. Defined(Cardinality(S))
  <2>1. Cardinality(S) \in Nat
    BY FS_CardinalityType
  <2>. QED
    BY <1>4, <2>1
<1>6. Small(Cardinality(S)) = SUBSET S
  BY FS_Subset
<1>. QED
  BY <1>5, <1>6

\* SumFunctionOnSet is a value of that function.
LEMMA SumIsRecursive ==
  ASSUME NEW f, NEW S, IsFiniteSet(S)
  PROVE  \E h : /\ h = [s \in SUBSET S |-> SumTurn(f, h, s)]
                /\ SumFunctionOnSet(f, S) = h[S]
<1> DEFINE h == CHOOSE h : h = [s \in SUBSET S |-> SumTurn(f, h, s)]
<1>1. h = [s \in SUBSET S |-> SumTurn(f, h, s)]
  BY RecursionExists, Zenon
<1>2. SumFunctionOnSet(f, S) = h[S]
  BY DEF SumFunctionOnSet, FoldFunctionOnSet, MapThenFoldSet, SumTurn, Picked
<1> HIDE DEF h
<1>. QED
  BY <1>1, <1>2

\* A sum of zeros is zero.
LEMMA SumOfZeros ==
  ASSUME NEW f, NEW S, IsFiniteSet(S), \A x \in S : f[x] = 0
  PROVE  SumFunctionOnSet(f, S) = 0
<1>1. PICK h : /\ h = [s \in SUBSET S |-> SumTurn(f, h, s)]
               /\ SumFunctionOnSet(f, S) = h[S]
  BY SumIsRecursive
<1> DEFINE D == {s \in SUBSET S : h[s] = 0}
<1>2. {} \in D
  BY <1>1 DEF SumTurn
<1>3. ASSUME NEW s \in SUBSET S, s # {}, s \ {Picked(s)} \in D
      PROVE  s \in D
  <2>1. Picked(s) \in S
    BY <1>3, PickedSmaller
  <2>2. h[s] = f[Picked(s)] + h[s \ {Picked(s)}]
    BY <1>1, <1>3 DEF SumTurn
  <2>. QED
    BY <1>3, <2>1, <2>2
<1>4. SUBSET S \subseteq D
  <2> HIDE DEF D
  <2>. QED
    BY <1>2, <1>3, SubsetInduction
<1>. QED
  BY <1>1, <1>4

\* A sum of integers is an integer; changing one of them changes the sum by
\* the difference.
LEMMA SumUpdated ==
  ASSUME NEW S, IsFiniteSet(S), NEW f \in [S -> Int], NEW g \in [S -> Int],
         NEW x \in S, \A y \in S \ {x} : g[y] = f[y]
  PROVE  /\ SumFunctionOnSet(f, S) \in Int
         /\ SumFunctionOnSet(g, S) = SumFunctionOnSet(f, S) + (g[x] - f[x])
<1>1. PICK h : /\ h = [s \in SUBSET S |-> SumTurn(f, h, s)]
               /\ SumFunctionOnSet(f, S) = h[S]
  BY SumIsRecursive
<1>2. PICK k : /\ k = [s \in SUBSET S |-> SumTurn(g, k, s)]
               /\ SumFunctionOnSet(g, S) = k[S]
  BY SumIsRecursive
<1> DEFINE Sum(s) == /\ h[s] \in Int
                     /\ k[s] = IF x \in s THEN h[s] + (g[x] - f[x]) ELSE h[s]
           D == {s \in SUBSET S : Sum(s)}
<1>3. {} \in D
  BY <1>1, <1>2 DEF SumTurn
<1>4. ASSUME NEW s \in SUBSET S, s # {}, s \ {Picked(s)} \in D
      PROVE  s \in D
  <2> DEFINE p == Picked(s)
             r == s \ {Picked(s)}
  <2>1. p \in s /\ p \in S /\ r \in SUBSET S
    BY <1>4, PickedSmaller
  <2>2. h[s] = f[p] + h[r] /\ k[s] = g[p] + k[r]
    BY <1>1, <1>2, <1>4 DEF SumTurn
  <2>3. Sum(r) /\ f[p] \in Int /\ g[p] \in Int /\ f[x] \in Int /\ g[x] \in Int
    BY <1>4, <2>1
  <2>4. CASE p = x
    BY <2>1, <2>2, <2>3, <2>4
  <2>5. CASE p # x
    BY <2>1, <2>2, <2>3, <2>5
  <2>. QED
    BY <2>4, <2>5
<1>5. SUBSET S \subseteq D
  <2> HIDE DEF D
  <2>. QED
    BY <1>3, <1>4, SubsetInduction
<1>. QED
  BY <1>1, <1>2, <1>5

------------------------------------------------------------------------------
(* The anomaly contribution *)

\* A rounded quotient is an integer.
LEMMA RoundIsInteger ==
  ASSUME NEW n \in Int, NEW d \in Int, d > 0
  PROVE  RoundHalfEven(n, d) \in Int
<1>1. n \div d \in Int
  OBVIOUS
<1>. QED
  BY <1>1 DEF RoundHalfEven

\* A segment never leaves the contributions it is given.
LEMMA SegmentInRange ==
  ASSUME NEW value \in Int, NEW lower \in Int, NEW upper \in Int,
         NEW minimum \in Int, NEW maximum \in Int, minimum <= maximum
  PROVE  Segment(value, lower, upper, minimum, maximum) \in minimum .. maximum
<1>1. CASE upper <= lower
  BY <1>1 DEF Segment
<1>2. CASE ~(upper <= lower)
  <2> DEFINE n == minimum * (upper - lower)
                    + (value - lower) * (maximum - minimum)
             d == upper - lower
  <2>1. n \in Int /\ d \in Int /\ d > 0
    BY <1>2
  <2>2. RoundHalfEven(n, d) \in Int
    BY <2>1, RoundIsInteger
  <2>3. Clamp(minimum, maximum, RoundHalfEven(n, d)) \in minimum .. maximum
    BY <2>2 DEF Clamp
  <2>. QED
    BY <1>2, <2>3 DEF Segment
<1>. QED
  BY <1>1, <1>2

\* Division with remainder.
LEMMA Division ==
  ASSUME NEW n \in Int, NEW d \in Int, d > 0
  PROVE  /\ n \div d \in Int
         /\ n % d \in 0 .. d - 1
         /\ n = d * (n \div d) + (n % d)
OBVIOUS

\* A larger factor is larger by a whole multiple.
LEMMA MultipleIsLarger ==
  ASSUME NEW a \in Int, NEW b \in Int, NEW d \in Int, d > 0, a < b
  PROVE  d * a + d <= d * b
<1>1. d * b - d * a = d * (b - a)
  OBVIOUS
<1>2. d * (b - a) >= d
  OBVIOUS
<1>. QED
  BY <1>1, <1>2

\* Rounding half to even never changes the order of two quotients.
LEMMA RoundIsMonotone ==
  ASSUME NEW m \in Int, NEW n \in Int, NEW d \in Int, d > 0, m <= n
  PROVE  RoundHalfEven(m, d) <= RoundHalfEven(n, d)
<1> DEFINE p == m \div d
           q == n \div d
           r == m % d
           s == n % d
<1>1. /\ p \in Int /\ r \in Int /\ 0 <= r /\ r < d /\ m = d * p + r
      /\ q \in Int /\ s \in Int /\ 0 <= s /\ s < d /\ n = d * q + s
  BY Division
<1>2. RoundHalfEven(m, d) \in {p, p + 1} /\ RoundHalfEven(n, d) \in {q, q + 1}
  BY DEF RoundHalfEven
<1>3. p <= q
  <2>1. q < p => d * q + d <= d * p
    BY <1>1, MultipleIsLarger
  <2> HIDE DEF p, q, r, s
  <2>. QED
    BY <1>1, <2>1
<1>4. CASE p < q
  BY <1>1, <1>2, <1>4
<1>5. CASE p = q
  <2>1. r <= s
    <3> HIDE DEF p, q, r, s
    <3>. QED
      BY <1>1, <1>5
  <2>. QED
    BY <1>1, <1>5, <2>1 DEF RoundHalfEven
<1>. QED
  BY <1>1, <1>3, <1>4, <1>5

\* Within a segment, a higher raw score never gets fewer points.
LEMMA SegmentIsMonotone ==
  ASSUME NEW v \in Int, NEW w \in Int, NEW lower \in Int, NEW upper \in Int,
         NEW minimum \in Int, NEW maximum \in Int,
         minimum <= maximum, v <= w
  PROVE  Segment(v, lower, upper, minimum, maximum)
           <= Segment(w, lower, upper, minimum, maximum)
<1>1. CASE upper <= lower
  BY <1>1 DEF Segment
<1>2. CASE ~(upper <= lower)
  <2> DEFINE d == upper - lower
             m == minimum * d + (v - lower) * (maximum - minimum)
             n == minimum * d + (w - lower) * (maximum - minimum)
  <2>1. (v - lower) * (maximum - minimum) <= (w - lower) * (maximum - minimum)
    <3>1. \A a, b, k \in Int : a <= b /\ k >= 0 => a * k <= b * k
      OBVIOUS
    <3>. QED
      BY <3>1
  <2>2. m \in Int /\ n \in Int /\ d \in Int /\ d > 0 /\ m <= n
    BY <1>2, <2>1
  <2>3. /\ RoundHalfEven(m, d) \in Int /\ RoundHalfEven(n, d) \in Int
        /\ RoundHalfEven(m, d) <= RoundHalfEven(n, d)
    <3> HIDE DEF d, m, n
    <3>. QED
      BY <2>2, RoundIsInteger, RoundIsMonotone
  <2>4. Clamp(minimum, maximum, RoundHalfEven(m, d))
          <= Clamp(minimum, maximum, RoundHalfEven(n, d))
    <3> HIDE DEF d, m, n
    <3>. QED
      BY <2>3 DEF Clamp
  <2>. QED
    BY <1>2, <2>4 DEF Segment
<1>. QED
  BY <1>1, <1>2

\* Contribution and percentile: each band has contributions of its own.
LEMMA ContributionInBand ==
  ASSUME NEW c, IsCalibration(c), NEW r \in Int
  PROVE  /\ r <= c.median => Contribution(c, r) = 0
         /\ r > c.median /\ r <= c.p90 => Contribution(c, r) \in 1 .. 5
         /\ r > c.p90 /\ r <= c.p97 => Contribution(c, r) \in 6 .. 10
         /\ r > c.p97 /\ r <= c.p995 => Contribution(c, r) \in 11 .. 20
         /\ r > c.p995 /\ r <= c.maximum => Contribution(c, r) \in 21 .. 29
         /\ r > c.maximum => Contribution(c, r) = 30
<1>1. /\ c.median \in Int /\ c.p90 \in Int /\ c.p97 \in Int
      /\ c.p995 \in Int /\ c.maximum \in Int
      /\ c.median <= c.p90 /\ c.p90 <= c.p97
      /\ c.p97 <= c.p995 /\ c.p995 <= c.maximum
  BY DEF IsCalibration
<1>2. /\ 1 \in Int /\ 5 \in Int /\ 1 <= 5
      /\ 6 \in Int /\ 10 \in Int /\ 6 <= 10
      /\ 11 \in Int /\ 20 \in Int /\ 11 <= 20
      /\ 21 \in Int /\ 29 \in Int /\ 21 <= 29
  OBVIOUS
<1>3. Segment(r, c.median, c.p90, 1, 5) \in 1 .. 5
  BY <1>1, <1>2, SegmentInRange, Zenon
<1>4. Segment(r, c.p90, c.p97, 6, 10) \in 6 .. 10
  BY <1>1, <1>2, SegmentInRange, Zenon
<1>5. Segment(r, c.p97, c.p995, 11, 20) \in 11 .. 20
  BY <1>1, <1>2, SegmentInRange, Zenon
<1>6. Segment(r, c.p995, c.maximum, 21, 29) \in 21 .. 29
  BY <1>1, <1>2, SegmentInRange, Zenon
<1>. QED
  BY <1>1, <1>3, <1>4, <1>5, <1>6 DEF Contribution

\* A higher raw score never gets fewer points.
LEMMA ContributionIsMonotone ==
  ASSUME NEW c, IsCalibration(c), NEW v \in Int, NEW w \in Int, v <= w
  PROVE  Contribution(c, v) <= Contribution(c, w)
<1>1. /\ c.median \in Int /\ c.p90 \in Int /\ c.p97 \in Int
      /\ c.p995 \in Int /\ c.maximum \in Int
      /\ c.median <= c.p90 /\ c.p90 <= c.p97
      /\ c.p97 <= c.p995 /\ c.p995 <= c.maximum
  BY DEF IsCalibration
<1>2. /\ 1 \in Int /\ 5 \in Int /\ 1 <= 5
      /\ 6 \in Int /\ 10 \in Int /\ 6 <= 10
      /\ 11 \in Int /\ 20 \in Int /\ 11 <= 20
      /\ 21 \in Int /\ 29 \in Int /\ 21 <= 29
  OBVIOUS
<1>3. CASE v > c.median /\ w <= c.p90
  <2>1. /\ Contribution(c, v) = Segment(v, c.median, c.p90, 1, 5)
        /\ Contribution(c, w) = Segment(w, c.median, c.p90, 1, 5)
    BY <1>1, <1>3 DEF Contribution
  <2>2. Segment(v, c.median, c.p90, 1, 5) <= Segment(w, c.median, c.p90, 1, 5)
    BY <1>1, <1>2, SegmentIsMonotone, Zenon
  <2>. QED
    BY <2>1, <2>2
<1>4. CASE v > c.p90 /\ w <= c.p97
  <2>1. /\ Contribution(c, v) = Segment(v, c.p90, c.p97, 6, 10)
        /\ Contribution(c, w) = Segment(w, c.p90, c.p97, 6, 10)
    BY <1>1, <1>4 DEF Contribution
  <2>2. Segment(v, c.p90, c.p97, 6, 10) <= Segment(w, c.p90, c.p97, 6, 10)
    BY <1>1, <1>2, SegmentIsMonotone, Zenon
  <2>. QED
    BY <2>1, <2>2
<1>5. CASE v > c.p97 /\ w <= c.p995
  <2>1. /\ Contribution(c, v) = Segment(v, c.p97, c.p995, 11, 20)
        /\ Contribution(c, w) = Segment(w, c.p97, c.p995, 11, 20)
    BY <1>1, <1>5 DEF Contribution
  <2>2. Segment(v, c.p97, c.p995, 11, 20) <= Segment(w, c.p97, c.p995, 11, 20)
    BY <1>1, <1>2, SegmentIsMonotone, Zenon
  <2>. QED
    BY <2>1, <2>2
<1>6. CASE v > c.p995 /\ w <= c.maximum
  <2>1. /\ Contribution(c, v) = Segment(v, c.p995, c.maximum, 21, 29)
        /\ Contribution(c, w) = Segment(w, c.p995, c.maximum, 21, 29)
    BY <1>1, <1>6 DEF Contribution
  <2>2. Segment(v, c.p995, c.maximum, 21, 29)
          <= Segment(w, c.p995, c.maximum, 21, 29)
    BY <1>1, <1>2, SegmentIsMonotone, Zenon
  <2>. QED
    BY <2>1, <2>2
<1>7. CASE \/ v <= c.median
           \/ v <= c.p90 /\ w > c.p90
           \/ v <= c.p97 /\ w > c.p97
           \/ v <= c.p995 /\ w > c.p995
           \/ w > c.maximum
  <2> DEFINE In(r) ==
        /\ r <= c.median => Contribution(c, r) = 0
        /\ r > c.median /\ r <= c.p90 => Contribution(c, r) \in 1 .. 5
        /\ r > c.p90 /\ r <= c.p97 => Contribution(c, r) \in 6 .. 10
        /\ r > c.p97 /\ r <= c.p995 => Contribution(c, r) \in 11 .. 20
        /\ r > c.p995 /\ r <= c.maximum => Contribution(c, r) \in 21 .. 29
        /\ r > c.maximum => Contribution(c, r) = 30
  <2>1. In(v) /\ In(w)
    BY ContributionInBand
  <2>. QED
    BY <1>1, <1>7, <2>1
<1>. QED
  BY <1>1, <1>3, <1>4, <1>5, <1>6, <1>7

\* The points of the model are between 0 and 30.
LEMMA ContributionInRange ==
  ASSUME NEW c, IsCalibration(c), NEW r \in Int
  PROVE  Contribution(c, r) \in 0 .. 30
<1>1. /\ c.median \in Int /\ c.p90 \in Int /\ c.p97 \in Int
      /\ c.p995 \in Int /\ c.maximum \in Int
  BY DEF IsCalibration
<1>. QED
  BY <1>1, ContributionInBand

------------------------------------------------------------------------------
(* The loop over the rules *)

\* A rule of the ruleset has the fields of RulePolicy.
LEMMA RuleTyped ==
  ASSUME TypeOK, NEW i \in 1 .. Len(ruleset.rules)
  PROVE  /\ Rule(i) \in RulePolicy
         /\ Rule(i).group \in Group
         /\ Rule(i).points \in 0 .. 70
         /\ Rule(i).points \in Nat
         /\ Rule(i).override \in Override
<1>1. ruleset.rules \in Seq(RulePolicy)
  BY DEF TypeOK, Ruleset
<1>2. Rule(i) \in RulePolicy
  BY <1>1 DEF Rule
<1>3. Rule(i).points \in 0 .. 70
  BY <1>2 DEF RulePolicy
<1>4. Rule(i).points \in Nat
  <2>1. \A x \in 0 .. 70 : x \in Nat
    OBVIOUS
  <2>. QED
    BY <1>3, <2>1, Zenon
<1>5. Rule(i).group \in Group /\ Rule(i).override \in Override
  BY <1>2 DEF RulePolicy
<1>. QED
  BY <1>2, <1>3, <1>4, <1>5

\* A winner is a rule of the ruleset.
LEMMA HitsAreRules ==
  ASSUME IInv
  PROVE  Hits \subseteq 1 .. Len(ruleset.rules)
<1>1. Len(ruleset.rules) \in Nat
  BY DEF IInv, TypeOK, Ruleset
<1>2. next - 1 <= Len(ruleset.rules) /\ next \in Int
  BY <1>1 DEF IInv, TypeOK
<1>. QED
  BY <1>1, <1>2 DEF IInv, TypeOK, Hits

\* One more rule: the winner of its group stays the strongest.
LEMMA EvaluateRuleStep ==
  ASSUME IInv, EvaluateRule
  PROVE  IInv'
<1>1. /\ pc = "rules"
      /\ next' = next + 1
      /\ next \in 1 .. Len(ruleset.rules)
      /\ Len(ruleset.rules) \in Nat
      /\ UNCHANGED <<ruleset, calibration, pc, left, points, rules, raw,
                     anomaly, combined, decision, alert>>
  BY DEF IInv, TypeOK, Ruleset, EvaluateRule, inputVars, resultVars
<1>2. CASE UNCHANGED <<matched, winners>>
  <2>1. TypeOK'
    BY <1>1, <1>2 DEF IInv, TypeOK
  <2>2. WinnersAreStrongest'
    BY <1>1, <1>2 DEF IInv, WinnersAreStrongest, Candidates, Rule
  <2>. QED
    BY <1>1, <1>2, <2>1, <2>2
    DEF IInv, LeftAreHits, PointsAreOfGroups, RulesAreEvaluated,
        AnomalyIsEvaluated, ScoreIsCombined, DecisionIsMade, AlertIsBuilt,
        ChecksAgree
<1>3. CASE /\ matched' = matched \cup {next}
           /\ winners' =
                [winners EXCEPT ![Rule(next).group] =
                   IF Supersedes(next, @) THEN next ELSE @]
  <2> DEFINE h == Rule(next).group
  <2>0. TypeOK
    BY DEF IInv
  <2>1. h \in Group /\ Rule(next).points \in Int
    BY <1>1, <2>0, RuleTyped
  <2>2. TypeOK'
    <3>1. matched' \subseteq 1 .. next' - 1
      <4>1. matched \subseteq 1 .. next - 1 /\ next \in Nat
        BY <1>1, <2>0 DEF TypeOK
      <4>2. 1 .. next - 1 \subseteq 1 .. next /\ next \in 1 .. next
        BY <1>1, <4>1
      <4>. QED
        BY <1>1, <1>3, <4>1, <4>2
    <3>2. winners' \in [Group -> 0 .. next' - 1]
      BY <1>1, <1>3, <2>0, <2>1 DEF TypeOK
    <3>. QED
      BY <1>1, <2>0, <3>1, <3>2 DEF TypeOK
  <2>3. \A i : Rule(i)' = Rule(i)
    BY <1>1 DEF Rule
  <2>4. \A g \in Group :
          Candidates(g)' = IF g = h THEN Candidates(g) \cup {next}
                                    ELSE Candidates(g)
    BY <1>3, <2>3 DEF Candidates
  <2>5. \A g \in Group \ {h} : winners'[g] = winners[g]
    BY <1>3, <2>1 DEF IInv, TypeOK
  <2>6. ASSUME NEW i \in matched
        PROVE  i \in Int /\ i < next /\ Rule(i).points \in Int
    <3>1. i \in Int /\ 1 <= i /\ i < next
      BY <1>1, <2>0 DEF TypeOK
    <3>2. i \in 1 .. Len(ruleset.rules)
      BY <1>1, <3>1
    <3>. QED
      BY <2>0, <3>1, <3>2, RuleTyped
  <2>7. IF Candidates(h) = {}
        THEN winners'[h] = next
        ELSE \/ /\ winners'[h] = next
                /\ Rule(next).points > Rule(winners[h]).points
             \/ /\ winners'[h] = winners[h]
                /\ Rule(next).points <= Rule(winners[h]).points
    <3>1. winners'[h] =
            IF Supersedes(next, winners[h]) THEN next ELSE winners[h]
      BY <1>3, <2>1 DEF IInv, TypeOK
    <3>2. CASE Candidates(h) = {}
      BY <2>1, <3>1, <3>2 DEF IInv, WinnersAreStrongest, Supersedes
    <3>3. CASE Candidates(h) # {}
      <4>1. winners[h] \in matched /\ winners[h] # 0
        BY <2>1, <3>3 DEF IInv, TypeOK, WinnersAreStrongest, Candidates
      <4>2. Rule(winners[h]).points \in Int
        BY <2>6, <4>1
      <4>. QED
        BY <2>1, <3>1, <3>3, <4>1, <4>2 DEF Supersedes
    <3>. QED
      BY <3>2, <3>3
  <2>8. ASSUME NEW g \in Group
        PROVE  IF Candidates(g)' = {}
               THEN winners'[g] = 0
               ELSE /\ winners'[g] \in Candidates(g)'
                    /\ \A i \in Candidates(g)' :
                         \/ Rule(i).points < Rule(winners'[g]).points
                         \/ /\ Rule(i).points = Rule(winners'[g]).points
                            /\ winners'[g] <= i
    <3>1. CASE g # h
      BY <2>4, <2>5, <3>1 DEF IInv, WinnersAreStrongest
    <3>2. CASE g = h /\ Candidates(h) = {}
      BY <1>1, <2>4, <2>7, <3>2
    <3>3. CASE g = h /\ Candidates(h) # {}
      <4>1. /\ winners[h] \in Candidates(h)
            /\ \A i \in Candidates(h) :
                 \/ Rule(i).points < Rule(winners[h]).points
                 \/ /\ Rule(i).points = Rule(winners[h]).points
                    /\ winners[h] <= i
        BY <2>1, <3>3 DEF IInv, WinnersAreStrongest
      <4>2. \A i \in Candidates(h) :
              i \in Int /\ i < next /\ Rule(i).points \in Int
        BY <2>6 DEF Candidates
      <4>. QED
        BY <1>1, <2>1, <2>4, <2>7, <3>3, <4>1, <4>2
    <3>. QED
      BY <3>1, <3>2, <3>3
  <2>9. WinnersAreStrongest'
    BY <2>3, <2>8 DEF WinnersAreStrongest
  <2>. QED
    BY <1>1, <2>2, <2>9
    DEF IInv, LeftAreHits, PointsAreOfGroups, RulesAreEvaluated,
        AnomalyIsEvaluated, ScoreIsCombined, DecisionIsMade, AlertIsBuilt,
        ChecksAgree
<1>. QED
  BY <1>2, <1>3 DEF EvaluateRule

\* The sum of the points only changes with what it is about.
LEMMA PointsKept ==
  ASSUME PointsAreOfGroups,
         UNCHANGED <<ruleset, winners, left, points, rules>>,
         pc' = pc \/ pc \notin {"rules", "sum", "failed"},
         pc' # "sum" \/ pc' = pc, pc' # "rules" \/ pc' = pc
  PROVE  PointsAreOfGroups'
<1>1. Hits' = Hits
  BY DEF Hits
<1>2. \A g : Counted(g)' = Counted(g)
  BY <1>1 DEF Counted, Rule
<1>3. [g \in Group |-> Counted(g)]' = [g \in Group |-> Counted(g)]
  BY <1>2
<1>4. Capped(points)' = Capped(points)
  BY DEF Capped
<1>. QED
  BY <1>3, <1>4 DEF PointsAreOfGroups

\* The hits are the winners.
LEMMA SelectWinnersStep ==
  ASSUME IInv, SelectWinners
  PROVE  IInv'
<1>1. /\ pc = "rules" /\ pc' = "sum" /\ left' = Hits
      /\ UNCHANGED <<ruleset, calibration, next, matched, winners, points,
                     rules, raw, anomaly, combined, decision, alert>>
  BY DEF SelectWinners, inputVars, resultVars
<1>2. TypeOK'
  <2>1. Hits \subseteq 1 .. next - 1
    BY DEF IInv, TypeOK, Hits
  <2>. QED
    BY <1>1, <2>1 DEF IInv, TypeOK
<1>3. PointsAreOfGroups'
  <2>1. points = 0
    BY <1>1 DEF IInv, PointsAreOfGroups
  <2>2. \A g \in Group : Counted(g)' = 0
    BY <1>1 DEF Counted, Hits
  <2>3. SumFunctionOnSet([g \in Group |-> Counted(g)'], Group) = 0
    BY <2>2, SumOfZeros, RulesetAssumption
  <2>. QED
    BY <1>1, <2>1, <2>3 DEF PointsAreOfGroups
<1>. QED
  BY <1>1, <1>2, <1>3
  DEF IInv, WinnersAreStrongest, Candidates, Rule, Hits, LeftAreHits,
      RulesAreEvaluated, AnomalyIsEvaluated, ScoreIsCombined, DecisionIsMade,
      AlertIsBuilt, ChecksAgree

\* A winner wins in its own group only.
LEMMA WinnerOfOneGroup ==
  ASSUME IInv, NEW g \in Group, winners[g] # 0
  PROVE  /\ winners[g] \in Candidates(g)
         /\ Rule(winners[g]).group = g
         /\ winners[g] \in Hits
BY DEF IInv, WinnersAreStrongest, Candidates, Hits

\* What a group has given to the sum is an integer.
LEMMA CountedTyped ==
  ASSUME IInv, NEW g \in Group
  PROVE  Counted(g) \in Int
<1>1. CASE winners[g] \in Hits \ left
  <2>1. Rule(winners[g]).points \in Nat
    BY <1>1, HitsAreRules, RuleTyped DEF IInv
  <2>. QED
    BY <1>1, <2>1 DEF Counted
<1>2. CASE winners[g] \notin Hits \ left
  BY <1>2 DEF Counted
<1>. QED
  BY <1>1, <1>2

\* Adding the points of a hit adds them for its group.
LEMMA AddHitStep ==
  ASSUME IInv, AddHit
  PROVE  IInv'
<1>1. /\ pc = "sum"
      /\ UNCHANGED <<ruleset, calibration, pc, next, matched, winners, rules,
                     raw, anomaly, combined, decision, alert>>
  BY DEF AddHit, inputVars, resultVars
<1>2. PICK i \in left : points' = points + Rule(i).points /\ left' = left \ {i}
  BY DEF AddHit
<1>3. points' \in Nat
  <2>1. i \in 1 .. Len(ruleset.rules) /\ TypeOK
    BY <1>1, <1>2, HitsAreRules DEF IInv, LeftAreHits
  <2>2. Rule(i).points \in Nat /\ points \in Nat
    BY <2>1, RuleTyped DEF TypeOK
  <2>. QED
    BY <1>2, <2>2
<1>4. TypeOK'
  BY <1>1, <1>2, <1>3 DEF IInv, TypeOK
<1>5. PointsAreOfGroups'
  <2> DEFINE before == [g \in Group |-> Counted(g)]
             after == [g \in Group |-> Counted(g)']
  <2>1. PICK h \in Group : winners[h] = i /\ i # 0
    BY <1>1, <1>2 DEF IInv, LeftAreHits, Hits
  <2>2. Hits' = Hits /\ \A j : Rule(j)' = Rule(j)
    BY <1>1 DEF Hits, Rule
  <2>3. Rule(i).points \in Int
    <3>1. i \in 1 .. Len(ruleset.rules)
      BY <1>1, <1>2, HitsAreRules DEF IInv, LeftAreHits
    <3>. QED
      BY <3>1, RuleTyped DEF IInv
  <2>4. Counted(h) = 0 /\ Counted(h)' = Rule(i).points
    BY <1>1, <1>2, <2>1, <2>2, WinnerOfOneGroup DEF Counted
  <2>5. \A g \in Group \ {h} : Counted(g)' = Counted(g)
    <3> SUFFICES ASSUME NEW g \in Group \ {h}
                 PROVE  Counted(g)' = Counted(g)
      OBVIOUS
    <3>1. winners[g] # i
      BY <2>1, WinnerOfOneGroup
    <3>. QED
      BY <1>1, <1>2, <2>2, <3>1 DEF Counted
  <2>6. before \in [Group -> Int] /\ after \in [Group -> Int]
    BY <2>3, <2>4, <2>5, CountedTyped
  <2>7. /\ before[h] = 0 /\ after[h] = Rule(i).points
        /\ \A g \in Group \ {h} : after[g] = before[g]
    BY <2>4, <2>5
  <2>8. /\ SumFunctionOnSet(before, Group) \in Int
        /\ SumFunctionOnSet(after, Group)
             = SumFunctionOnSet(before, Group) + Rule(i).points
    <3>1. IsFiniteSet(Group)
      BY RulesetAssumption
    <3> HIDE DEF before, after
    <3>2. /\ SumFunctionOnSet(before, Group) \in Int
          /\ SumFunctionOnSet(after, Group)
               = SumFunctionOnSet(before, Group) + (after[h] - before[h])
      BY <2>6, <2>7, <3>1, SumUpdated
    <3>. QED
      BY <2>3, <2>7, <3>2
  <2>9. points = SumFunctionOnSet(before, Group)
    BY <1>1 DEF IInv, PointsAreOfGroups
  <2>10. points' = SumFunctionOnSet(after, Group)
    <3> HIDE DEF before, after
    <3>. QED
      BY <1>2, <2>8, <2>9
  <2>. QED
    BY <1>1, <2>10 DEF PointsAreOfGroups
<1>. QED
  BY <1>1, <1>2, <1>4, <1>5
  DEF IInv, WinnersAreStrongest, Candidates, Rule, Hits, LeftAreHits,
      RulesAreEvaluated, AnomalyIsEvaluated, ScoreIsCombined, DecisionIsMade,
      AlertIsBuilt, ChecksAgree

------------------------------------------------------------------------------
(* The evaluation, the anomaly and the score *)

\* Whatever the sum, the contribution fits RuleEvaluation.
LEMMA CappedInRange ==
  ASSUME TypeOK, NEW p \in Nat
  PROVE  Capped(p) \in 0 .. 70
<1>1. ruleset.max_contribution \in 1 .. 70
  BY DEF TypeOK, Ruleset
<1>. QED
  BY <1>1 DEF Capped, Least

\* The check of RuleEvaluation passes.
LEMMA ReturnEvaluationStep ==
  ASSUME IInv, ReturnEvaluation
  PROVE  IInv'
<1>1. /\ pc = "sum"
      /\ rules' = [contribution |-> Capped(points),
                   override |-> StrongestOverride(Hits)]
      /\ left = {}
      /\ Checked(RulesAccepted(Capped(points)), "anomaly")
      /\ UNCHANGED <<ruleset, calibration, next, matched, winners, left,
                     points, raw, anomaly, combined, decision, alert>>
  BY DEF ReturnEvaluation, inputVars, loopVars
<1>2. Capped(points) \in 0 .. 70
  BY CappedInRange DEF IInv, TypeOK
<1>3. pc' = "anomaly"
  <2>1. \A i \in Hits : Rule(i).points >= 0
    BY HitsAreRules, RuleTyped DEF IInv
  <2>. QED
    BY <1>1, <1>2, <2>1 DEF Checked, RulesAccepted
<1>4. rules' \in [contribution : 0 .. 70, override : Override]
  <2>1. StrongestOverride(Hits) \in Override
    BY DEF StrongestOverride, Override
  <2>. QED
    BY <1>1, <1>2, <2>1
<1>5. TypeOK'
  BY <1>1, <1>3, <1>4 DEF IInv, TypeOK
<1>6. RulesAreEvaluated'
  <2>1. StrongestOverride(Hits)' = StrongestOverride(Hits)
    BY <1>1 DEF StrongestOverride, Hits, Rule
  <2>. QED
    BY <1>1, <1>4, <2>1 DEF RulesAreEvaluated
<1>7. PointsAreOfGroups'
  <2>1. [g \in Group |-> Counted(g)]' = [g \in Group |-> Counted(g)]
    BY <1>1 DEF Counted, Hits, Rule
  <2>2. Capped(points)' = Capped(points)
    BY <1>1 DEF Capped
  <2>3. points = SumFunctionOnSet([g \in Group |-> Counted(g)], Group)
    BY <1>1 DEF IInv, PointsAreOfGroups
  <2>. QED
    BY <1>1, <1>3, <2>1, <2>2, <2>3 DEF PointsAreOfGroups
<1>. QED
  BY <1>1, <1>3, <1>5, <1>6, <1>7
  DEF IInv, WinnersAreStrongest, Candidates, Rule, LeftAreHits,
      AnomalyIsEvaluated, ScoreIsCombined, DecisionIsMade, AlertIsBuilt,
      ChecksAgree

\* The check of AnomalyEvaluation passes.
LEMMA EvaluateAnomalyStep ==
  ASSUME IInv, EvaluateAnomaly
  PROVE  IInv'
<1>1. /\ pc = "anomaly"
      /\ raw' \in RawScores
      /\ anomaly' = Contribution(calibration, raw')
      /\ Checked(AnomalyAccepted(anomaly', raw'), "combine")
      /\ UNCHANGED <<ruleset, calibration, next, matched, winners, left,
                     points, rules, combined, decision, alert>>
  BY DEF EvaluateAnomaly, inputVars, loopVars
<1>2. IsCalibration(calibration) /\ raw' \in Int
  BY <1>1, CalibrationAssumption DEF IInv, TypeOK
<1>3. anomaly' \in 0 .. 30
  BY <1>1, <1>2, ContributionInRange
<1>4. pc' = "combine"
  BY <1>1, <1>2, <1>3 DEF Checked, AnomalyAccepted
<1>5. TypeOK'
  BY <1>1, <1>3, <1>4 DEF IInv, TypeOK
<1>6. AnomalyIsEvaluated'
  BY <1>1, <1>3, <1>4 DEF AnomalyIsEvaluated
<1>7. PointsAreOfGroups'
  BY <1>1, <1>4, PointsKept DEF IInv
<1>. QED
  BY <1>1, <1>4, <1>5, <1>6, <1>7
  DEF IInv, WinnersAreStrongest, Candidates, Rule, Hits, LeftAreHits,
      StrongestOverride, RulesAreEvaluated, ScoreIsCombined, DecisionIsMade,
      AlertIsBuilt, ChecksAgree

\* The check of the combiner passes: the two caps make up the total.
LEMMA CombineStep ==
  ASSUME IInv, Combine
  PROVE  IInv'
<1> DEFINE u == rules.contribution + anomaly
           c == [rules |-> rules.contribution, anomaly |-> anomaly,
                 uncapped |-> u, final |-> Least(100, u),
                 override |-> rules.override]
<1>1. /\ pc = "combine"
      /\ combined' = c
      /\ Checked(CombinedAccepted(c), "decide")
      /\ UNCHANGED <<ruleset, calibration, next, matched, winners, left,
                     points, rules, raw, anomaly, decision, alert>>
  BY DEF Combine, inputVars, loopVars
<1>2. /\ rules.contribution \in 0 .. 70
      /\ rules.override \in Override
      /\ anomaly \in 0 .. 30
  BY <1>1 DEF IInv, RulesAreEvaluated, AnomalyIsEvaluated
<1>3. u \in 0 .. 100 /\ Least(100, u) = u
  BY <1>2 DEF Least
<1>4. CombinedAccepted(c)
  BY <1>2, <1>3 DEF CombinedAccepted, Override
<1>5. pc' = "decide"
  BY <1>1, <1>4 DEF Checked
<1>6. TypeOK'
  <2>1. c \in [rules : 0 .. 70, anomaly : 0 .. 30, uncapped : 0 .. 100,
               final : 0 .. 100, override : Override]
    BY <1>2, <1>3
  <2>. QED
    BY <1>1, <1>5, <2>1 DEF IInv, TypeOK
<1>7. ScoreIsCombined'
  BY <1>1, <1>3 DEF ScoreIsCombined
<1>8. PointsAreOfGroups'
  BY <1>1, <1>5, PointsKept DEF IInv
<1>. QED
  BY <1>1, <1>5, <1>6, <1>7, <1>8
  DEF IInv, WinnersAreStrongest, Candidates, Rule, Hits, LeftAreHits,
      StrongestOverride, RulesAreEvaluated, AnomalyIsEvaluated,
      DecisionIsMade, AlertIsBuilt, ChecksAgree

------------------------------------------------------------------------------
(* The decision *)

\* The three score bands are one.
LEMMA BandsAgree ==
  ASSUME NEW s \in 0 .. 100
  PROVE  /\ ScoreCategory(s) \in Category
         /\ ExpectedScoreCategory(s) = ScoreCategory(s)
         /\ CategoryForScore(s) = ScoreCategory(s)
BY DEF ScoreCategory, ExpectedScoreCategory, CategoryForScore, Category

\* An override only ever raises a category, to what it demands or more.
LEMMA EffectiveCategoryIsMaximum ==
  ASSUME NEW c \in Category, NEW o \in Override
  PROVE  /\ EffectiveCategory(c, o) \in Category
         /\ Severity(EffectiveCategory(c, o)) >= Severity(c)
         /\ Severity(EffectiveCategory(c, o)) >= Severity(Demanded(o))
         /\ EffectiveCategory(c, o) \in {c, Demanded(o)}
         /\ EffectiveCategory(c, o) # c => o # "none"
BY DEF EffectiveCategory, Severity, Demanded, Category, Override

\* The checks of RiskDecision pass.
LEMMA DecideStep ==
  ASSUME IInv, Decide
  PROVE  IInv'
<1> DEFINE score == ScoreCategory(combined.final)
           category == EffectiveCategory(score, combined.override)
           d == [final |-> combined.final, score_category |-> score,
                 category |-> category, action |-> Action(category),
                 override_applied |-> category # score]
<1>1. /\ pc = "decide"
      /\ decision' = d
      /\ Checked(DecisionAccepted(d), "validate")
      /\ UNCHANGED <<ruleset, calibration, next, matched, winners, left,
                     points, rules, raw, anomaly, combined, alert>>
  BY DEF Decide, inputVars, loopVars
<1>2. combined.final \in 0 .. 100 /\ combined.override \in Override
  BY <1>1
  DEF IInv, RulesAreEvaluated, AnomalyIsEvaluated, ScoreIsCombined
<1>3. score \in Category /\ ExpectedScoreCategory(combined.final) = score
  BY <1>2, BandsAgree
<1>4. category \in Category /\ Severity(category) >= Severity(score)
  BY <1>2, <1>3, EffectiveCategoryIsMaximum
<1>5. DecisionAccepted(d)
  BY <1>2, <1>3, <1>4 DEF DecisionAccepted
<1>6. pc' = "validate"
  BY <1>1, <1>5 DEF Checked
<1>7. TypeOK'
  <2>1. Action(category) \in RecommendedAction
    BY DEF Action, RecommendedAction
  <2>2. d \in [final : 0 .. 100, score_category : Category,
               category : Category, action : RecommendedAction,
               override_applied : BOOLEAN]
    BY <1>2, <1>3, <1>4, <2>1
  <2>. QED
    BY <1>1, <1>6, <2>2 DEF IInv, TypeOK
<1>8. DecisionIsMade'
  BY <1>1 DEF DecisionIsMade
<1>9. PointsAreOfGroups'
  BY <1>1, <1>6, PointsKept DEF IInv
<1>. QED
  BY <1>1, <1>6, <1>7, <1>8, <1>9
  DEF IInv, WinnersAreStrongest, Candidates, Rule, Hits, LeftAreHits,
      StrongestOverride, RulesAreEvaluated, AnomalyIsEvaluated,
      ScoreIsCombined, AlertIsBuilt, ChecksAgree

\* What is known of the score and the decision once they are made.
LEMMA DecisionFacts ==
  ASSUME IInv, pc \in {"validate", "build", "done"}
  PROVE  /\ combined.rules \in 0 .. 70
         /\ combined.anomaly \in 0 .. 30
         /\ combined.uncapped = combined.rules + combined.anomaly
         /\ combined.final = combined.uncapped
         /\ combined.final \in 0 .. 100
         /\ combined.override \in Override
         /\ combined.override = StrongestOverride(Hits)
         /\ decision.final = combined.final
         /\ decision.score_category = ScoreCategory(combined.final)
         /\ decision.score_category \in Category
         /\ decision.category =
              EffectiveCategory(decision.score_category, combined.override)
         /\ decision.category \in Category
         /\ decision.action = Action(decision.category)
         /\ decision.override_applied =
              (decision.category # decision.score_category)
<1>1. /\ rules.contribution \in 0 .. 70
      /\ rules.override \in Override
      /\ rules.override = StrongestOverride(Hits)
      /\ anomaly \in 0 .. 30
  BY DEF IInv, RulesAreEvaluated, AnomalyIsEvaluated
<1>2. /\ combined.rules = rules.contribution
      /\ combined.anomaly = anomaly
      /\ combined.uncapped = rules.contribution + anomaly
      /\ combined.final = rules.contribution + anomaly
      /\ combined.override = rules.override
  BY DEF IInv, ScoreIsCombined
<1>3. /\ decision.final = combined.final
      /\ decision.score_category = ScoreCategory(combined.final)
      /\ decision.category =
           EffectiveCategory(decision.score_category, combined.override)
      /\ decision.action = Action(decision.category)
      /\ decision.override_applied =
           (decision.category # decision.score_category)
  BY DEF IInv, DecisionIsMade
<1>4. combined.final \in 0 .. 100
  BY <1>1, <1>2
<1>5. decision.score_category \in Category
  BY <1>3, <1>4, BandsAgree
<1>6. decision.category \in Category
  BY <1>1, <1>2, <1>3, <1>5, EffectiveCategoryIsMaximum
<1>. QED
  BY <1>1, <1>2, <1>3, <1>4, <1>5, <1>6

------------------------------------------------------------------------------
(* The checks on the decision and the events *)

\* What validate_decision recomputes is what the decision engine computed.
LEMMA ValidateDecisionStep ==
  ASSUME IInv, ValidateDecision
  PROVE  IInv'
<1>1. /\ pc = "validate"
      /\ Checked(Validated(combined, decision), "build")
      /\ UNCHANGED <<ruleset, calibration, next, matched, winners, left,
                     points, rules, raw, anomaly, combined, decision, alert>>
  BY DEF ValidateDecision, inputVars, loopVars, resultVars
<1>2. Validated(combined, decision)
  <2> DEFINE k == decision.score_category
             o == combined.override
  <2>1. /\ k \in Category /\ o \in Override
        /\ decision.final = combined.final
        /\ decision.category = EffectiveCategory(k, o)
        /\ decision.override_applied = (EffectiveCategory(k, o) # k)
    BY <1>1, DecisionFacts
  <2>2. Severity(EffectiveCategory(k, o)) >= Severity(Demanded(o))
    BY <2>1, EffectiveCategoryIsMaximum
  <2>. QED
    BY <2>1, <2>2 DEF Validated, EffectiveCategory
<1>3. pc' = "build"
  BY <1>1, <1>2 DEF Checked
<1>4. TypeOK'
  BY <1>1, <1>3 DEF IInv, TypeOK
<1>5. PointsAreOfGroups'
  BY <1>1, <1>3, PointsKept DEF IInv
<1>. QED
  BY <1>1, <1>3, <1>4, <1>5
  DEF IInv, WinnersAreStrongest, Candidates, Rule, Hits, LeftAreHits,
      StrongestOverride, RulesAreEvaluated, AnomalyIsEvaluated,
      ScoreIsCombined, DecisionIsMade, AlertIsBuilt, ChecksAgree

\* Both events accept every decision that was validated.
LEMMA EventsAreAccepted ==
  ASSUME IInv, pc = "build"
  PROVE  /\ RiskEventAccepted(combined, decision)
         /\ decision.category \in {"medium", "high"} =>
              AlertEventAccepted(combined, decision)
<1> DEFINE k == decision.score_category
           o == combined.override
<1>1. /\ combined.rules \in 0 .. 70
      /\ combined.anomaly \in 0 .. 30
      /\ combined.uncapped = combined.rules + combined.anomaly
      /\ combined.final = combined.uncapped
      /\ combined.final \in 0 .. 100
      /\ k \in Category /\ o \in Override
      /\ k = ScoreCategory(combined.final)
      /\ decision.category = EffectiveCategory(k, o)
      /\ decision.action = Action(decision.category)
      /\ decision.override_applied = (decision.category # k)
  BY DecisionFacts
<1>2. /\ Severity(decision.category) >= Severity(k)
      /\ Severity(decision.category) >= Severity(Demanded(o))
      /\ decision.category # k => o # "none"
  BY <1>1, EffectiveCategoryIsMaximum
<1>3. k = CategoryForScore(combined.final)
  BY <1>1, BandsAgree
<1>4. EventConsistent(combined, decision)
  BY <1>1, <1>2, <1>3 DEF EventConsistent
<1>5. combined.final = Least(100, combined.uncapped)
  BY <1>1 DEF Least
<1>. QED
  BY <1>1, <1>4, <1>5 DEF RiskEventAccepted, AlertEventAccepted

\* The events are built, and the alert with them when there is one.
LEMMA BuildOutputsStep ==
  ASSUME IInv, BuildOutputs
  PROVE  IInv'
<1>1. /\ pc = "build"
      /\ alert' = (decision.category \in {"medium", "high"})
      /\ Checked(/\ RiskEventAccepted(combined, decision)
                 /\ alert' => AlertEventAccepted(combined, decision), "done")
      /\ UNCHANGED <<ruleset, calibration, next, matched, winners, left,
                     points, rules, raw, anomaly, combined, decision>>
  BY DEF BuildOutputs, inputVars, loopVars
<1>2. pc' = "done"
  BY <1>1, EventsAreAccepted DEF Checked
<1>3. TypeOK'
  BY <1>1, <1>2 DEF IInv, TypeOK
<1>4. AlertIsBuilt'
  <2>1. decision.category \in Category
    BY <1>1, DecisionFacts
  <2>. QED
    BY <1>1, <2>1 DEF AlertIsBuilt, Category
<1>5. PointsAreOfGroups'
  BY <1>1, <1>2, PointsKept DEF IInv
<1>. QED
  BY <1>1, <1>2, <1>3, <1>4, <1>5
  DEF IInv, WinnersAreStrongest, Candidates, Rule, Hits, LeftAreHits,
      StrongestOverride, RulesAreEvaluated, AnomalyIsEvaluated,
      ScoreIsCombined, DecisionIsMade, ChecksAgree

------------------------------------------------------------------------------
(* The invariant *)

\* A condition or the model raises: the pipeline ends where it is.
LEMMA FailureStep ==
  ASSUME IInv, RuleEvaluationFails \/ ModelFails
  PROVE  IInv'
<1>1. /\ pc' = "failed"
      /\ UNCHANGED <<ruleset, calibration, next, matched, winners, left,
                     points, rules, raw, anomaly, combined, decision, alert>>
  BY DEF RuleEvaluationFails, ModelFails, inputVars, loopVars, resultVars
<1>2. TypeOK'
  BY <1>1 DEF IInv, TypeOK
<1>. QED
  BY <1>1, <1>2
  DEF IInv, WinnersAreStrongest, Candidates, Rule, LeftAreHits,
      PointsAreOfGroups, RulesAreEvaluated, AnomalyIsEvaluated,
      ScoreIsCombined, DecisionIsMade, AlertIsBuilt, ChecksAgree

\* Nothing has matched before the first rule.
LEMMA InitInvariant ==
  ASSUME Init
  PROVE  IInv
<1>1. ruleset \in Ruleset
  BY RulesetAssumption DEF Init
<1>2. Len(ruleset.rules) \in Nat
  BY <1>1 DEF Ruleset
<1>3. TypeOK
  <2>1. winners \in [Group -> 0 .. next - 1]
    <3>1. 0 \in 0 .. next - 1
      BY DEF Init
    <3>. QED
      BY <3>1, Zenon DEF Init
  <2>2. next \in 1 .. Len(ruleset.rules) + 1
    BY <1>2 DEF Init
  <2>. QED
    BY <1>1, <2>1, <2>2 DEF Init, TypeOK
<1>. QED
  BY <1>3
  DEF Init, IInv, WinnersAreStrongest, Candidates, LeftAreHits,
      PointsAreOfGroups, RulesAreEvaluated, AnomalyIsEvaluated, ScoreIsCombined, DecisionIsMade,
      AlertIsBuilt, ChecksAgree

\* Every step of the pipeline preserves the invariant.
LEMMA NextInvariant ==
  ASSUME IInv, [Next]_vars
  PROVE  IInv'
<1>1. CASE UNCHANGED vars
  <2>1. PointsAreOfGroups'
    BY <1>1, PointsKept
    DEF IInv, vars, inputVars, loopVars, resultVars
  <2>. QED
    BY <1>1, <2>1
    DEF vars, inputVars, loopVars, resultVars, IInv, TypeOK,
        WinnersAreStrongest, Candidates, Rule, Hits, LeftAreHits,
        StrongestOverride, RulesAreEvaluated, AnomalyIsEvaluated,
        ScoreIsCombined, DecisionIsMade, AlertIsBuilt, ChecksAgree
<1>2. CASE EvaluateRule
  BY <1>2, EvaluateRuleStep
<1>3. CASE RuleEvaluationFails \/ ModelFails
  BY <1>3, FailureStep
<1>4. CASE SelectWinners
  BY <1>4, SelectWinnersStep
<1>5. CASE AddHit
  BY <1>5, AddHitStep
<1>6. CASE ReturnEvaluation
  BY <1>6, ReturnEvaluationStep
<1>7. CASE EvaluateAnomaly
  BY <1>7, EvaluateAnomalyStep
<1>8. CASE Combine
  BY <1>8, CombineStep
<1>9. CASE Decide
  BY <1>9, DecideStep
<1>10. CASE ValidateDecision
  BY <1>10, ValidateDecisionStep
<1>11. CASE BuildOutputs
  BY <1>11, BuildOutputsStep
<1>. QED
  BY <1>1, <1>2, <1>3, <1>4, <1>5, <1>6, <1>7, <1>8, <1>9, <1>10, <1>11
  DEF Next

\* The inductive invariant holds, whatever the rulesets and calibrations.
THEOREM Invariant == Spec => []IInv
<1>1. Init => IInv
  BY InitInvariant
<1>2. IInv /\ [Next]_vars => IInv'
  BY NextInvariant
<1>. QED
  BY <1>1, <1>2, PTL DEF Spec

------------------------------------------------------------------------------
(* The properties *)

\* Every local of the pipeline keeps its type: a rules contribution stays
\* within 0..70, an anomaly contribution within 0..30, a score within 0..100.
THEOREM TypeCorrect == Spec => []TypeOK
<1>1. IInv => TypeOK
  BY DEF IInv
<1>. QED
  BY <1>1, Invariant, PTL

\* The winner of a group is its strongest match, the earliest among equals,
\* for every ruleset.
THEOREM WinnersCorrect == Spec => []WinnersAreStrongest
<1>1. IInv => WinnersAreStrongest
  BY DEF IInv
<1>. QED
  BY <1>1, Invariant, PTL

\* The contribution is the capped sum of the strongest match of each group.
LEMMA InvariantImpliesOnePerGroup ==
  ASSUME IInv
  PROVE  OneRulePerGroupCounts
<1> SUFFICES ASSUME pc \notin {"rules", "sum", "failed"}
             PROVE  OneRulePerGroupCounts
  BY DEF OneRulePerGroupCounts
<1> DEFINE strongest(g) == IF Candidates(g) = {}
                           THEN 0
                           ELSE Max({Rule(i).points : i \in Candidates(g)})
<1>1. /\ points = SumFunctionOnSet([g \in Group |-> Counted(g)], Group)
      /\ points \in Nat /\ left = {} /\ rules.contribution = Capped(points)
  BY DEF IInv, TypeOK, PointsAreOfGroups
<1>2. ASSUME NEW g \in Group
      PROVE  Counted(g) = strongest(g)
  <2>1. CASE Candidates(g) = {}
    BY <1>1, <2>1 DEF IInv, WinnersAreStrongest, Counted, Hits
  <2>2. CASE Candidates(g) # {}
    <3> DEFINE w == winners[g]
               P == {Rule(i).points : i \in Candidates(g)}
    <3>1. w \in Candidates(g)
      BY <2>2 DEF IInv, WinnersAreStrongest
    <3>2. \A i \in Candidates(g) : Rule(i).points \in Int /\ i # 0
      <4>1. /\ Len(ruleset.rules) \in Nat
            /\ next \in Int /\ next - 1 <= Len(ruleset.rules)
            /\ matched \subseteq 1 .. next - 1
        BY DEF IInv, TypeOK, Ruleset
      <4>2. 1 .. next - 1 \subseteq 1 .. Len(ruleset.rules)
        BY <4>1
      <4>3. Candidates(g) \subseteq 1 .. Len(ruleset.rules)
        BY <4>1, <4>2 DEF Candidates
      <4>4. \A i \in 1 .. Len(ruleset.rules) : i # 0
        BY <4>1
      <4>. QED
        BY <4>3, <4>4, RuleTyped DEF IInv
    <3>3. \A i \in Candidates(g) : Rule(i).points <= Rule(w).points
      BY <2>2, <3>2 DEF IInv, WinnersAreStrongest
    <3>4. Rule(w).points \in P /\ \A y \in P : Rule(w).points >= y
      BY <3>1, <3>2, <3>3
    <3>5. Max(P) = Rule(w).points
      <4>1. \A x \in P : x \in Int
        BY <3>2
      <4> HIDE DEF P
      <4>2. \A x \in P : (\A y \in P : x >= y) => x = Rule(w).points
        BY <3>4, <4>1
      <4>. QED
        BY <3>4, <4>2 DEF Max
    <3>6. Counted(g) = Rule(w).points
      BY <1>1, <3>1, <3>2, WinnerOfOneGroup DEF Counted
    <3>. QED
      BY <2>2, <3>5, <3>6
  <2>. QED
    BY <2>1, <2>2
<1>3. points = SumFunctionOnSet([g \in Group |-> strongest(g)], Group)
  <2>1. [g \in Group |-> Counted(g)] = [g \in Group |-> strongest(g)]
    <3> HIDE DEF strongest
    <3>. QED
      BY <1>2
  <2>. QED
    BY <1>1, <2>1
<1>4. rules.contribution = Least(points, ruleset.max_contribution)
  <2>1. ruleset.max_contribution \in 1 .. 70
    BY DEF IInv, TypeOK, Ruleset
  <2>. QED
    BY <1>1, <2>1 DEF Capped, Least
<1>. QED
  BY <1>3, <1>4 DEF OneRulePerGroupCounts

\* The strongest match of every group counts once, whatever else matched,
\* under the lower of the two caps.
THEOREM StrongestMatchesCount == Spec => []OneRulePerGroupCounts
<1>1. IInv => OneRulePerGroupCounts
  BY InvariantImpliesOnePerGroup
<1>. QED
  BY <1>1, Invariant, PTL

\* No value class, neither validate_decision nor an event contract raises:
\* they agree with the engines for every score and override.
THEOREM PipelineNeverRaises == Spec => []ChecksAgree
<1>1. IInv => ChecksAgree
  BY DEF IInv
<1>. QED
  BY <1>1, Invariant, PTL

\* The action, the alert and the overrides fit together at the end.
LEMMA InvariantImpliesApproval ==
  ASSUME IInv
  PROVE  ApprovedOnlyWithoutObjection
<1> SUFFICES ASSUME pc = "done"
             PROVE  ApprovedOnlyWithoutObjection
  BY DEF ApprovedOnlyWithoutObjection
<1> DEFINE k == decision.score_category
           o == combined.override
<1>1. /\ combined.final \in 0 .. 100
      /\ o \in Override /\ o = StrongestOverride(Hits)
      /\ decision.final = combined.final
      /\ k = ScoreCategory(combined.final)
      /\ k \in Category
      /\ decision.category = EffectiveCategory(k, o)
      /\ decision.category \in Category
      /\ decision.action = Action(decision.category)
  BY DecisionFacts
<1>2. alert <=> decision.category # "low"
  BY DEF IInv, AlertIsBuilt
<1>3. \A i \in Hits : Rule(i).override \in Override
  BY HitsAreRules, RuleTyped DEF IInv
<1>4. /\ o = "none" <=> \A i \in Hits : Rule(i).override = "none"
      /\ (\E i \in Hits : Rule(i).override = "hold_for_review")
           => o = "hold_for_review"
  BY <1>1, <1>3 DEF StrongestOverride, Override
<1>5. decision.action = "approve" <=> decision.category = "low"
  BY <1>1 DEF Action, Category
<1>6. decision.category = "low" <=> k = "low" /\ o = "none"
  BY <1>1 DEF EffectiveCategory, Severity, Demanded, Category, Override
<1>7. k = "low" <=> decision.final <= 39
  BY <1>1 DEF ScoreCategory
<1>8. o = "hold_for_review" => decision.action = "hold_for_review"
  BY <1>1
  DEF EffectiveCategory, Severity, Demanded, Category, Override, Action
<1>. QED
  BY <1>2, <1>4, <1>5, <1>6, <1>7, <1>8 DEF ApprovedOnlyWithoutObjection

\* An approval means a low score and no winning rule against it.
THEOREM ApprovalIsUnopposed == Spec => []ApprovedOnlyWithoutObjection
<1>1. IInv => ApprovedOnlyWithoutObjection
  BY InvariantImpliesApproval
<1>. QED
  BY <1>1, Invariant, PTL

\* The level of a contribution names the percentile band of its raw score.
LEMMA InvariantImpliesLevel ==
  ASSUME IInv
  PROVE  LevelFollowsPercentile
<1> SUFFICES ASSUME anomaly # Nothing
             PROVE  LevelFollowsPercentile
  BY DEF LevelFollowsPercentile
<1>1. /\ IsCalibration(calibration) /\ raw \in Int
      /\ anomaly = Contribution(calibration, raw)
  BY CalibrationAssumption DEF IInv, AnomalyIsEvaluated, TypeOK
<1>2. /\ calibration.median \in Int /\ calibration.p90 \in Int
      /\ calibration.p97 \in Int /\ calibration.p995 \in Int
      /\ calibration.maximum \in Int
      /\ calibration.median <= calibration.p90
      /\ calibration.p90 <= calibration.p97
      /\ calibration.p97 <= calibration.p995
      /\ calibration.p995 <= calibration.maximum
  BY <1>1 DEF IsCalibration
<1>3. /\ raw <= calibration.p90 => anomaly \in 0 .. 5
      /\ raw > calibration.p90 /\ raw <= calibration.p97
           => anomaly \in 6 .. 10
      /\ raw > calibration.p97 /\ raw <= calibration.p995
           => anomaly \in 11 .. 20
      /\ raw > calibration.p995 => anomaly \in 21 .. 30
  BY <1>1, <1>2, ContributionInBand
<1>4. CASE raw <= calibration.p90
  BY <1>1, <1>2, <1>3, <1>4 DEF LevelFollowsPercentile, Level
<1>5. CASE raw > calibration.p90 /\ raw <= calibration.p97
  BY <1>1, <1>2, <1>3, <1>5 DEF LevelFollowsPercentile, Level
<1>6. CASE raw > calibration.p97 /\ raw <= calibration.p995
  BY <1>1, <1>2, <1>3, <1>6 DEF LevelFollowsPercentile, Level
<1>7. CASE raw > calibration.p995
  BY <1>1, <1>2, <1>3, <1>7 DEF LevelFollowsPercentile, Level
<1>. QED
  BY <1>1, <1>2, <1>4, <1>5, <1>6, <1>7

\* No rounding carries a contribution over the border of its level.
THEOREM LevelsFollowPercentiles == Spec => []LevelFollowsPercentile
<1>1. IInv => LevelFollowsPercentile
  BY InvariantImpliesLevel
<1>. QED
  BY <1>1, Invariant, PTL

\* The model never gives a more unusual transaction fewer points.
LEMMA InvariantImpliesMonotone ==
  ASSUME IInv
  PROVE  MoreUnusualNeverScoresLess
<1> SUFFICES ASSUME anomaly # Nothing, NEW r \in RawScores, r >= raw
             PROVE  Contribution(calibration, r) >= anomaly
  BY DEF MoreUnusualNeverScoresLess
<1>1. /\ IsCalibration(calibration) /\ raw \in Int /\ r \in Int
      /\ anomaly = Contribution(calibration, raw)
  BY CalibrationAssumption DEF IInv, AnomalyIsEvaluated, TypeOK
<1>2. Contribution(calibration, raw) <= Contribution(calibration, r)
  BY <1>1, ContributionIsMonotone
<1>. QED
  BY <1>1, <1>2, ContributionInRange

\* Points grow with the raw score, over every band and every rounding.
THEOREM PointsAreMonotone == Spec => []MoreUnusualNeverScoresLess
<1>1. IInv => MoreUnusualNeverScoresLess
  BY InvariantImpliesMonotone
<1>. QED
  BY <1>1, Invariant, PTL
==============================================================================
