----------------------- MODULE FeedbackEvaluationProofs -----------------------
(* What FeedbackEvaluation.tla states, for files of any length about any     *)
(* finite set of transactions: which files are refused, what is counted, and *)
(* that the rates and the average precision are what they are named for.     *)
EXTENDS FeedbackEvaluation, FiniteSetTheorems, WellFoundedInduction, TLAPS

------------------------------------------------------------------------------
(* Sums over a finite set *)

\* Induction on the natural numbers, with a set for the predicate.
LEMMA NaturalInduction ==
  ASSUME NEW N \in SUBSET Nat, 0 \in N, \A n \in N : n + 1 \in N
  PROVE  N = Nat
<1> SUFFICES ASSUME N # Nat
             PROVE  FALSE
  OBVIOUS
<1> DEFINE T == Nat \ N
<1>1. PICK x \in T : \A y \in T : ~ (<<y, x>> \in OpToRel(<, Nat))
  <2>1. T # {} /\ T \subseteq Nat
    OBVIOUS
  <2>2. IsWellFoundedOn(OpToRel(<, Nat), Nat)
    BY NatLessThanWellFounded
  <2> HIDE DEF T
  <2>. QED
    BY <2>1, <2>2, WFMin
<1>2. x - 1 \in T /\ <<x - 1, x>> \in OpToRel(<, Nat)
  <2>1. x # 0 /\ x - 1 \in Nat /\ x \in Nat
    OBVIOUS
  <2>2. x - 1 \in T
    OBVIOUS
  <2>. QED
    BY <2>1, <2>2 DEF OpToRel
<1>. QED
  BY <1>1, <1>2

\* The element that a fold over s takes first.
Picked(s) == CHOOSE x \in s : TRUE

\* What is left of a nonempty finite set is finite and smaller.
LEMMA PickedSmaller ==
  ASSUME NEW S, IsFiniteSet(S), NEW s \in SUBSET S, s # {}
  PROVE  /\ Picked(s) \in s
         /\ s \ {Picked(s)} \in SUBSET S
         /\ Cardinality(s) \in Nat
         /\ Cardinality(s) > 0
         /\ Cardinality(s \ {Picked(s)}) = Cardinality(s) - 1
<1>1. Picked(s) \in s
  BY DEF Picked
<1>2. IsFiniteSet(s) /\ Cardinality(s) \in Nat
  BY FS_Subset, FS_CardinalityType
<1>3. Cardinality(s \ {Picked(s)}) = Cardinality(s) - 1
  BY <1>1, <1>2, FS_RemoveElement
<1>4. Cardinality(s) # 0
  BY <1>2, FS_EmptySet
<1>. QED
  BY <1>1, <1>2, <1>3, <1>4

\* Induction on the subsets of a finite set, in the order of a fold.
LEMMA SubsetInduction ==
  ASSUME NEW S, IsFiniteSet(S), NEW D, {} \in D,
         \A s \in SUBSET S : s # {} /\ s \ {Picked(s)} \in D => s \in D
  PROVE  SUBSET S \subseteq D
<1> DEFINE Reached == {n \in Nat : \A s \in SUBSET S :
                                     Cardinality(s) = n => s \in D}
<1>1. \A s \in SUBSET S : Cardinality(s) \in Nat
  BY FS_Subset, FS_CardinalityType
<1>2. 0 \in Reached
  BY FS_Subset, FS_EmptySet
<1>3. ASSUME NEW n \in Reached
      PROVE  n + 1 \in Reached
  <2>1. ASSUME NEW s \in SUBSET S, Cardinality(s) = n + 1
        PROVE  s \in D
    <3>1. s # {}
      BY <2>1, FS_EmptySet
    <3>2. s \ {Picked(s)} \in SUBSET S /\ Cardinality(s \ {Picked(s)}) = n
      BY <2>1, <3>1, PickedSmaller
    <3>. QED
      BY <3>1, <3>2
  <2>. QED
    BY <2>1
<1>4. Reached = Nat
  <2>1. Reached \in SUBSET Nat
    OBVIOUS
  <2> HIDE DEF Reached
  <2>. QED
    BY <1>2, <1>3, <2>1, NaturalInduction
<1>. QED
  BY <1>1, <1>4

\* One turn of the recursion that defines SumFunctionOnSet.
SumTurn(f, h, s) == IF s = {} THEN 0 ELSE f[Picked(s)] + h[s \ {Picked(s)}]

\* The recursion defines a function on the subsets of a finite set.
LEMMA RecursionExists ==
  ASSUME NEW f, NEW S, IsFiniteSet(S)
  PROVE  \E h : h = [s \in SUBSET S |-> SumTurn(f, h, s)]
<1> DEFINE Small(n) == {s \in SUBSET S : Cardinality(s) <= n}
           Defined(n) == \E h : h = [s \in Small(n) |-> SumTurn(f, h, s)]
           Reached == {n \in Nat : Defined(n)}
<1>1. \A s \in SUBSET S : Cardinality(s) \in Nat
  BY FS_Subset, FS_CardinalityType
<1>2. 0 \in Reached
  <2>1. \A s \in Small(0) : s = {}
    BY <1>1, FS_Subset, FS_EmptySet
  <2> DEFINE h == [s \in Small(0) |-> 0]
  <2>2. h = [s \in Small(0) |-> SumTurn(f, h, s)]
    BY <2>1 DEF SumTurn
  <2>. QED
    BY <2>2
<1>3. ASSUME NEW n \in Reached
      PROVE  n + 1 \in Reached
  <2>1. PICK h : h = [s \in Small(n) |-> SumTurn(f, h, s)]
    OBVIOUS
  <2> DEFINE g == [s \in Small(n + 1) |-> SumTurn(f, h, s)]
  <2>2. ASSUME NEW s \in Small(n)
        PROVE  g[s] = h[s]
    <3>1. s \in Small(n + 1)
      BY <1>1
    <3>. QED
      BY <2>1, <3>1
  <2>3. ASSUME NEW s \in Small(n + 1)
        PROVE  SumTurn(f, h, s) = SumTurn(f, g, s)
    <3>1. CASE s = {}
      BY <3>1 DEF SumTurn
    <3>2. CASE s # {}
      <4>1. s \ {Picked(s)} \in Small(n)
        BY <3>2, PickedSmaller
      <4>2. g[s \ {Picked(s)}] = h[s \ {Picked(s)}]
        BY <2>2, <4>1
      <4> HIDE DEF g
      <4>. QED
        BY <3>2, <4>2 DEF SumTurn
    <3>. QED
      BY <3>1, <3>2
  <2>4. g = [s \in Small(n + 1) |-> SumTurn(f, g, s)]
    <3>1. [s \in Small(n + 1) |-> SumTurn(f, h, s)]
            = [s \in Small(n + 1) |-> SumTurn(f, g, s)]
      <4> HIDE DEF g
      <4>. QED
        BY <2>3
    <3>. QED
      BY <3>1
  <2>5. Defined(n + 1)
    <3> HIDE DEF g
    <3>. QED
      BY <2>4
  <2> HIDE DEF Defined
  <2>. QED
    BY <2>5
<1>4. Reached = Nat
  <2>1. Reached \in SUBSET Nat
    OBVIOUS
  <2> HIDE DEF Reached
  <2>. QED
    BY <1>2, <1>3, <2>1, NaturalInduction
<1>5. Defined(Cardinality(S))
  <2>1. Cardinality(S) \in Nat
    BY FS_CardinalityType
  <2>. QED
    BY <1>4, <2>1
<1>6. Small(Cardinality(S)) = SUBSET S
  BY FS_Subset
<1>. QED
  BY <1>5, <1>6

\* SumFunctionOnSet is a value of that function.
LEMMA SumIsRecursive ==
  ASSUME NEW f, NEW S, IsFiniteSet(S)
  PROVE  \E h : /\ h = [s \in SUBSET S |-> SumTurn(f, h, s)]
                /\ SumFunctionOnSet(f, S) = h[S]
<1> DEFINE h == CHOOSE h : h = [s \in SUBSET S |-> SumTurn(f, h, s)]
<1>1. h = [s \in SUBSET S |-> SumTurn(f, h, s)]
  BY RecursionExists, Zenon
<1>2. SumFunctionOnSet(f, S) = h[S]
  BY DEF SumFunctionOnSet, FoldFunctionOnSet, MapThenFoldSet, SumTurn, Picked
<1> HIDE DEF h
<1>. QED
  BY <1>1, <1>2

\* The sum takes the picked element, and then the rest.
LEMMA SumUnfolds ==
  ASSUME NEW f, NEW S, IsFiniteSet(S)
  PROVE  /\ S = {} => SumFunctionOnSet(f, S) = 0
         /\ S # {} => SumFunctionOnSet(f, S)
                        = f[Picked(S)] + SumFunctionOnSet(f, S \ {Picked(S)})
<1>1. PICK h : /\ h = [s \in SUBSET S |-> SumTurn(f, h, s)]
               /\ SumFunctionOnSet(f, S) = h[S]
  BY SumIsRecursive
<1>2. CASE S = {}
  BY <1>1, <1>2 DEF SumTurn
<1>3. CASE S # {}
  <2> DEFINE R == S \ {Picked(S)}
  <2>1. IsFiniteSet(R)
    BY FS_Subset
  <2>2. PICK k : /\ k = [s \in SUBSET R |-> SumTurn(f, k, s)]
                 /\ SumFunctionOnSet(f, R) = k[R]
    BY <2>1, SumIsRecursive
  <2> DEFINE D == {s \in SUBSET R : h[s] = k[s]}
  <2>3. {} \in D
    BY <1>1, <2>2 DEF SumTurn
  <2>4. ASSUME NEW s \in SUBSET R, s # {}, s \ {Picked(s)} \in D
        PROVE  s \in D
    <3>1. h[s] = f[Picked(s)] + h[s \ {Picked(s)}]
      BY <1>1, <2>4 DEF SumTurn
    <3>2. k[s] = f[Picked(s)] + k[s \ {Picked(s)}]
      BY <2>2, <2>4 DEF SumTurn
    <3>. QED
      BY <2>4, <3>1, <3>2
  <2>5. R \in D
    <3> HIDE DEF D, R
    <3>. QED
      BY <2>1, <2>3, <2>4, SubsetInduction
  <2>6. h[S] = f[Picked(S)] + h[R]
    BY <1>1, <1>3 DEF SumTurn
  <2>. QED
    BY <1>1, <1>3, <2>2, <2>5, <2>6
<1>. QED
  BY <1>2, <1>3

\* A sum of natural numbers is one.
LEMMA SumOfNaturals ==
  ASSUME NEW f, NEW S, IsFiniteSet(S), \A x \in S : f[x] \in Nat
  PROVE  SumFunctionOnSet(f, S) \in Nat
<1> DEFINE D == {s \in SUBSET S : SumFunctionOnSet(f, s) \in Nat}
<1>1. {} \in D
  <2>1. SumFunctionOnSet(f, {}) = 0
    BY SumUnfolds, FS_EmptySet
  <2>. QED
    BY <2>1
<1>2. ASSUME NEW s \in SUBSET S, s # {}, s \ {Picked(s)} \in D
      PROVE  s \in D
  <2>1. Picked(s) \in S
    BY <1>2, PickedSmaller
  <2>2. SumFunctionOnSet(f, s)
          = f[Picked(s)] + SumFunctionOnSet(f, s \ {Picked(s)})
    BY <1>2, FS_Subset, SumUnfolds
  <2>3. f[Picked(s)] \in Nat /\ SumFunctionOnSet(f, s \ {Picked(s)}) \in Nat
    BY <1>2, <2>1
  <2>4. SumFunctionOnSet(f, s) \in Nat
    BY <2>2, <2>3
  <2>. QED
    BY <2>4
<1>3. S \in D
  <2> HIDE DEF D
  <2>. QED
    BY <1>1, <1>2, SubsetInduction
<1>. QED
  BY <1>3

\* A sum of natural numbers up to b is one, and at most b for each.
LEMMA SumBounded ==
  ASSUME NEW f, NEW S, IsFiniteSet(S), NEW b \in Nat,
         \A x \in S : f[x] \in 0 .. b
  PROVE  /\ SumFunctionOnSet(f, S) \in Nat
         /\ SumFunctionOnSet(f, S) <= b * Cardinality(S)
         /\ (\A x \in S : f[x] = b)
              => SumFunctionOnSet(f, S) = b * Cardinality(S)
<1> DEFINE Sum(s) == SumFunctionOnSet(f, s)
           D == {s \in SUBSET S :
                   /\ Sum(s) \in Nat
                   /\ Sum(s) <= b * Cardinality(s)
                   /\ (\A x \in S : f[x] = b) => Sum(s) = b * Cardinality(s)}
<1>1. {} \in D
  <2>1. Sum({}) = 0 /\ Cardinality({}) = 0
    BY SumUnfolds, FS_EmptySet
  <2>. QED
    BY <2>1
<1>2. ASSUME NEW s \in SUBSET S, s # {}, s \ {Picked(s)} \in D
      PROVE  s \in D
  <2> DEFINE r == s \ {Picked(s)}
             m == Cardinality(r)
  <2>1. /\ Picked(s) \in S
        /\ Cardinality(s) = m + 1
        /\ m \in Nat
    <3>1. r \in SUBSET S
      OBVIOUS
    <3>2. Cardinality(r) \in Nat
      BY <3>1, FS_Subset, FS_CardinalityType
    <3>. QED
      BY <1>2, <3>2, PickedSmaller
  <2>2. Sum(s) = f[Picked(s)] + Sum(r)
    BY <1>2, FS_Subset, SumUnfolds
  <2>3. b * (m + 1) = b + b * m /\ b * m \in Nat
    BY <2>1
  <2>4. f[Picked(s)] \in 0 .. b
    BY <2>1
  <2>5. /\ Sum(r) \in Nat
        /\ Sum(r) <= b * m
        /\ (\A x \in S : f[x] = b) => Sum(r) = b * m
    BY <1>2
  <2> HIDE DEF r, m, Sum
  <2>6. Sum(s) \in Nat /\ Sum(s) <= b * Cardinality(s)
    BY <2>1, <2>2, <2>3, <2>4, <2>5
  <2>7. (\A x \in S : f[x] = b) => Sum(s) = b * Cardinality(s)
    BY <2>1, <2>2, <2>3, <2>5
  <2>. QED
    BY <2>6, <2>7
<1>3. S \in D
  <2> HIDE DEF D
  <2>. QED
    BY <1>1, <1>2, SubsetInduction
<1>. QED
  BY <1>3

\* Only the values on the set count.
LEMMA SumSame ==
  ASSUME NEW f, NEW g, NEW S, IsFiniteSet(S), \A x \in S : f[x] = g[x]
  PROVE  SumFunctionOnSet(f, S) = SumFunctionOnSet(g, S)
<1> DEFINE D == {s \in SUBSET S :
                   SumFunctionOnSet(f, s) = SumFunctionOnSet(g, s)}
<1>1. {} \in D
  BY SumUnfolds, FS_EmptySet
<1>2. ASSUME NEW s \in SUBSET S, s # {}, s \ {Picked(s)} \in D
      PROVE  s \in D
  <2>1. Picked(s) \in S
    BY <1>2, PickedSmaller
  <2>2. IsFiniteSet(s)
    BY FS_Subset
  <2>3. /\ SumFunctionOnSet(f, s)
             = f[Picked(s)] + SumFunctionOnSet(f, s \ {Picked(s)})
        /\ SumFunctionOnSet(g, s)
             = g[Picked(s)] + SumFunctionOnSet(g, s \ {Picked(s)})
    BY <1>2, <2>2, SumUnfolds
  <2>. QED
    BY <1>2, <2>1, <2>3
<1>3. S \in D
  <2> HIDE DEF D
  <2>. QED
    BY <1>1, <1>2, SubsetInduction
<1>. QED
  BY <1>3

\* A sum may take any element first.
LEMMA SumDetached ==
  ASSUME NEW f, NEW S, IsFiniteSet(S), \A x \in S : f[x] \in Nat, NEW x \in S
  PROVE  SumFunctionOnSet(f, S) = f[x] + SumFunctionOnSet(f, S \ {x})
<1> DEFINE Sum(s) == SumFunctionOnSet(f, s)
           Detached(n) == \A s \in SUBSET S : Cardinality(s) = n =>
                            /\ Sum(s) \in Nat
                            /\ \A y \in s : Sum(s) = f[y] + Sum(s \ {y})
           Reached == {n \in Nat : Detached(n)}
<1>1. 0 \in Reached
  <2>1. ASSUME NEW s \in SUBSET S, Cardinality(s) = 0
        PROVE  s = {} /\ Sum(s) = 0
    <3>1. s = {}
      BY <2>1, FS_Subset, FS_EmptySet
    <3>. QED
      BY <3>1, FS_EmptySet, SumUnfolds
  <2>. QED
    BY <2>1
<1>2. ASSUME NEW n \in Reached
      PROVE  n + 1 \in Reached
  <2>1. ASSUME NEW s \in SUBSET S, Cardinality(s) = n + 1
        PROVE  /\ Sum(s) \in Nat
               /\ \A y \in s : Sum(s) = f[y] + Sum(s \ {y})
    <3> DEFINE p == Picked(s)
    <3>1. IsFiniteSet(s) /\ s # {}
      BY <2>1, FS_Subset, FS_EmptySet
    <3>2. p \in s
      BY <3>1 DEF Picked
    <3>3. ASSUME NEW y \in s
          PROVE  s \ {y} \in SUBSET S /\ Cardinality(s \ {y}) = n
      <4>1. Cardinality(s \ {y}) = Cardinality(s) - 1
        BY <3>1, FS_RemoveElement
      <4>. QED
        BY <2>1, <4>1
    <3>4. Sum(s) = f[p] + Sum(s \ {p})
      BY <3>1, SumUnfolds
    <3>5. \A y \in s : /\ Sum(s \ {y}) \in Nat
                       /\ \A z \in s \ {y} :
                            Sum(s \ {y}) = f[z] + Sum((s \ {y}) \ {z})
      BY <3>3
    <3>6. Sum(s) \in Nat
      <4>1. Sum(s \ {p}) \in Nat
        BY <3>2, <3>5
      <4>2. f[p] \in Nat
        BY <3>2
      <4> HIDE DEF p, Sum
      <4>. QED
        BY <3>4, <4>1, <4>2
    <3> HIDE DEF p, Sum
    <3>7. ASSUME NEW y \in s, y # p
          PROVE  Sum(s) = f[y] + Sum(s \ {y})
      <4>1. (s \ {y}) \ {p} = (s \ {p}) \ {y}
        OBVIOUS
      <4>2. Sum(s \ {p}) = f[y] + Sum((s \ {p}) \ {y})
        <5>1. y \in s \ {p}
          BY <3>7
        <5>. QED
          BY <3>2, <3>5, <5>1
      <4>5. Sum(s \ {y}) = f[p] + Sum((s \ {p}) \ {y})
        <5>1. p \in s \ {y}
          BY <3>2, <3>7
        <5>. QED
          BY <3>5, <4>1, <5>1
      <4>3. Sum((s \ {p}) \ {y}) \in Nat
        <5> DEFINE r == (s \ {p}) \ {y}
        <5>1. IsFiniteSet(r) /\ r \subseteq S
          BY <3>1, FS_Subset
        <5>2. \A z \in r : f[z] \in Nat
          BY <5>1
        <5>3. Sum(r) \in Nat
          BY <5>1, <5>2, SumOfNaturals DEF Sum
        <5>. QED
          BY <5>3
      <4>4. f[y] \in Nat /\ f[p] \in Nat
        BY <3>2
      <4>. QED
        BY <3>4, <4>2, <4>3, <4>4, <4>5
    <3>. QED
      BY <3>4, <3>6, <3>7
  <2>2. Detached(n + 1)
    BY <2>1
  <2> HIDE DEF Detached
  <2>. QED
    BY <2>2
<1>3. Reached = Nat
  <2>1. Reached \in SUBSET Nat
    OBVIOUS
  <2> HIDE DEF Reached
  <2>. QED
    BY <1>1, <1>2, <2>1, NaturalInduction
<1>4. Cardinality(S) \in Nat
  BY FS_CardinalityType
<1>5. Detached(Cardinality(S))
  BY <1>3, <1>4
<1>. QED
  BY <1>5

\* Zeros may be left out.
LEMMA SumWithoutZeros ==
  ASSUME NEW f, NEW S, IsFiniteSet(S), \A x \in S : f[x] \in Nat,
         NEW R \in SUBSET S, \A x \in S \ R : f[x] = 0
  PROVE  SumFunctionOnSet(f, S) = SumFunctionOnSet(f, R)
<1> DEFINE Sum(s) == SumFunctionOnSet(f, s)
           D == {s \in SUBSET S : Sum(s) = Sum(s \cap R)}
<1>1. {} \in D
  OBVIOUS
<1>2. ASSUME NEW s \in SUBSET S, s # {}, s \ {Picked(s)} \in D
      PROVE  s \in D
  <2> DEFINE p == Picked(s)
  <2>1. p \in s /\ p \in S
    BY <1>2, PickedSmaller
  <2>2. IsFiniteSet(s) /\ IsFiniteSet(s \cap R)
    BY FS_Subset
  <2>3. Sum(s) = f[p] + Sum(s \ {p})
    BY <1>2, <2>2, SumUnfolds
  <2>4. Sum(s \ {p}) = Sum((s \ {p}) \cap R)
    BY <1>2
  <2>5. CASE p \in R
    <3>1. Sum(s \cap R) = f[p] + Sum((s \cap R) \ {p})
      BY <2>1, <2>2, <2>5, SumDetached
    <3>2. (s \cap R) \ {p} = (s \ {p}) \cap R
      OBVIOUS
    <3>. QED
      BY <2>3, <2>4, <3>1, <3>2
  <2>6. CASE p \notin R
    <3>1. (s \ {p}) \cap R = s \cap R
      BY <2>6
    <3>2. Sum(s \cap R) \in Nat
      BY <2>2, SumOfNaturals
    <3>3. f[p] = 0
      BY <2>1, <2>6
    <3>4. Sum(s \ {p}) = Sum(s \cap R)
      BY <2>4, <3>1
    <3> HIDE DEF p, Sum
    <3>5. Sum(s) = Sum(s \cap R)
      BY <2>3, <3>2, <3>3, <3>4
    <3>. QED
      BY <3>5 DEF Sum
  <2>. QED
    BY <2>5, <2>6
<1>3. S \in D
  <2> HIDE DEF D
  <2>. QED
    BY <1>1, <1>2, SubsetInduction
<1>4. S \cap R = R
  OBVIOUS
<1>. QED
  BY <1>3, <1>4

\* A sum may be taken over other names, one for each element.
LEMMA SumRenamed ==
  ASSUME NEW f, NEW S, IsFiniteSet(S), NEW name, NEW e,
         \A x, y \in S : name[x] = name[y] => x = y,
         \A x \in S : e[name[x]] = f[x] /\ f[x] \in Nat
  PROVE  SumFunctionOnSet(e, {name[x] : x \in S}) = SumFunctionOnSet(f, S)
<1> DEFINE Names(s) == {name[x] : x \in s}
           D == {s \in SUBSET S :
                   /\ IsFiniteSet(Names(s))
                   /\ SumFunctionOnSet(e, Names(s)) = SumFunctionOnSet(f, s)}
<1>1. {} \in D
  <2>1. Names({}) = {}
    OBVIOUS
  <2>. QED
    BY <2>1, SumUnfolds, FS_EmptySet
<1>2. ASSUME NEW s \in SUBSET S, s # {}, s \ {Picked(s)} \in D
      PROVE  s \in D
  <2> DEFINE p == Picked(s)
  <2>1. p \in s /\ p \in S
    BY <1>2, PickedSmaller
  <2>2. IsFiniteSet(s)
    BY FS_Subset
  <2>3. IsFiniteSet(Names(s))
    <3>1. Names(s) = Names(s \ {p}) \cup {name[p]}
      BY <2>1
    <3>2. IsFiniteSet(Names(s \ {p}))
      BY <1>2
    <3>3. IsFiniteSet(Names(s \ {p}) \cup {name[p]})
      <4> HIDE DEF Names, p
      <4>. QED
        BY <3>2, FS_AddElement
    <3>. QED
      BY <3>1, <3>3
  <2>4. SumFunctionOnSet(f, s) = f[p] + SumFunctionOnSet(f, s \ {p})
    BY <1>2, <2>2, SumUnfolds
  <2>5. SumFunctionOnSet(e, Names(s))
          = e[name[p]] + SumFunctionOnSet(e, Names(s) \ {name[p]})
    <3>1. \A z \in Names(s) : e[z] \in Nat
      OBVIOUS
    <3>2. name[p] \in Names(s)
      BY <2>1
    <3> HIDE DEF p, Names
    <3>. QED
      BY <2>3, <3>1, <3>2, SumDetached
  <2>6. Names(s) \ {name[p]} = Names(s \ {p})
    BY <2>1
  <2>7. e[name[p]] = f[p]
    BY <2>1
  <2>8. SumFunctionOnSet(e, Names(s \ {p})) = SumFunctionOnSet(f, s \ {p})
    BY <1>2
  <2>. QED
    BY <2>3, <2>4, <2>5, <2>6, <2>7, <2>8
<1>3. S \in D
  <2> HIDE DEF D
  <2>. QED
    BY <1>1, <1>2, SubsetInduction
<1>. QED
  BY <1>3

------------------------------------------------------------------------------
(* The invariant *)

LEMMA InitInv == Init => IInv
BY DEF Init, IInv, Stage

\* A source repeats a transaction just when its file does.
LEMMA RepeatsKept ==
  /\ Repeats(SimulatorCases) <=> Repeats(Given(input.truth))
  /\ Repeats(AnalystCases) <=> FinalsRepeat
BY DEF Repeats, FinalsRepeat, SimulatorCases, AnalystCases, NewCase

\* A label of the simulator, or a final one of an analyst, for a transaction
\* that was not scored.
LEMMA NotScored ==
  /\ TransactionsOf(Given(input.truth)) \subseteq DOMAIN DecisionsByTransaction
       <=> \A r \in Truths : r.transaction \in TransactionsOf(input.scored)
  /\ (\A n \in FinalLabels : Given(input.labels)[n].transaction
                               \in DOMAIN DecisionsByTransaction)
       <=> \A r \in Finals : r.transaction \in TransactionsOf(input.scored)
<1>1. DOMAIN DecisionsByTransaction = TransactionsOf(input.scored)
  BY DEF DecisionsByTransaction
<1>2. TransactionsOf(Given(input.truth)) = {r.transaction : r \in Truths}
  BY DEF TransactionsOf, Truths, Records
<1>3. {Given(input.labels)[n].transaction : n \in FinalLabels}
        = {r.transaction : r \in Finals}
  BY DEF FinalLabels, Finals, Records
<1>4. (\A n \in FinalLabels : Given(input.labels)[n].transaction
                                \in TransactionsOf(input.scored))
        <=> {Given(input.labels)[n].transaction : n \in FinalLabels}
              \subseteq TransactionsOf(input.scored)
  OBVIOUS
<1>. QED
  BY <1>1, <1>2, <1>3, <1>4

\* The input is not touched, nor is what is read from it.
LEMMA InputKept ==
  ASSUME UNCHANGED input
  PROVE  /\ DecisionsByTransaction' = DecisionsByTransaction
         /\ FinalLabels' = FinalLabels
         /\ FinalsRepeat' = FinalsRepeat
         /\ Truths' = Truths /\ Finals' = Finals
         /\ UNCHANGED decisions => /\ SimulatorCases' = SimulatorCases
                                   /\ AnalystCases' = AnalystCases
BY DEF DecisionsByTransaction, FinalLabels, FinalsRepeat, Truths, Finals,
   Records, SimulatorCases, AnalystCases, NewCase

\* The report is on the cases.
LEMMA ReportKept ==
  ASSUME UNCHANGED cases
  PROVE  Report' = Report
BY DEF Report, Frauds, Positives, Predicted, AveragePrecision, Share, Upto,
   Before, Score, Amount

LEMMA StepInv == IInv /\ [Next]_vars => IInv'
<1> SUFFICES ASSUME IInv, [Next]_vars
             PROVE  IInv'
  OBVIOUS
<1>1. CASE UNCHANGED vars
  BY <1>1, InputKept, ReportKept DEF vars, IInv, Stage
<1>2. CASE IndexDecisions
  BY <1>2, InputKept DEF IndexDecisions, Fail, IInv, Stage
<1>3. CASE BuildSimulatorCases
  <2>1. CASE pc' = "analyst"
    BY <1>3, <2>1, InputKept DEF BuildSimulatorCases, Fail, IInv, Stage
  <2>2. CASE pc' = "failed"
    BY <1>3, <2>2, InputKept, NotScored
    DEF BuildSimulatorCases, Fail, IInv, Stage
  <2>. QED
    BY <1>3, <2>1, <2>2 DEF BuildSimulatorCases, Fail
<1>4. CASE BuildAnalystCases
  <2>1. CASE pc' = "merge"
    BY <1>4, <2>1, InputKept DEF BuildAnalystCases, Fail, IInv, Stage
  <2>2. CASE pc' = "failed"
    BY <1>4, <2>2, InputKept, NotScored
    DEF BuildAnalystCases, Fail, IInv, Stage
  <2>. QED
    BY <1>4, <2>1, <2>2 DEF BuildAnalystCases, Fail
<1>5. CASE MergeCases
  <2>1. CASE pc' = "evaluate"
    BY <1>5, <2>1, InputKept DEF MergeCases, Fail, IInv, Stage
  <2>2. CASE pc' = "failed"
    BY <1>5, <2>2, InputKept, RepeatsKept DEF MergeCases, Fail, IInv, Stage
  <2>. QED
    BY <1>5, <2>1, <2>2 DEF MergeCases, Fail
<1>6. CASE Evaluate
  BY <1>6, InputKept, ReportKept DEF Evaluate, IInv, Stage
<1>. QED
  BY <1>1, <1>2, <1>3, <1>4, <1>5, <1>6 DEF Next

\* At every stage there is what the steps before it have left, and a failure
\* has one of four reasons.
THEOREM StagesInOrder == Spec => []IInv
<1>1. Init => IInv
  BY InitInv
<1>2. IInv /\ [Next]_vars => IInv'
  BY StepInv
<1>. QED
  BY <1>1, <1>2, PTL DEF Spec

\* A report is made just when every labelled transaction was scored once and
\* no source repeats a label.
THEOREM BiasedInputIsRefused == Spec => []BiasIsRefused
<1>1. IInv => BiasIsRefused
  BY RepeatsKept, NotScored DEF IInv, BiasIsRefused, Stage
<1>. QED
  BY <1>1, StagesInOrder, PTL

------------------------------------------------------------------------------
(* What is counted *)

\* The record about a transaction of the file is one of the file.
LEMMA RecordFound ==
  ASSUME NEW file, NEW t \in TransactionsOf(file)
  PROVE  \E n \in DOMAIN file :
           file[n].transaction = t /\ RecordOf(file, t) = file[n]
BY DEF TransactionsOf, RecordOf

\* An element of a sequence is of its type.
LEMMA ElementOfSeq ==
  ASSUME NEW S, NEW file \in Seq(S), NEW n \in DOMAIN file
  PROVE  file[n] \in S
OBVIOUS

\* The files have records of their types.
LEMMA InputTyped ==
  ASSUME IInv
  PROVE  /\ \A r \in Truths : r.transaction \in Transaction
                             /\ r.fraud \in BOOLEAN
         /\ \A r \in Finals : r.transaction \in Transaction
         /\ \A r \in Records(input.scored) : r.decision \in Decision
         /\ Given(input.scored) = input.scored
<1>1. /\ input.scored \in ScoredFiles
      /\ input.truth \in TruthFiles
      /\ input.labels \in LabelFiles
  BY DEF IInv
<1>2. ASSUME NEW r \in Truths
      PROVE  r \in [transaction : Transaction, fraud : BOOLEAN]
  <2>1. input.truth # Absent
    BY DEF Truths, Records, Given
  <2>2. input.truth \in Seq([transaction : Transaction, fraud : BOOLEAN])
    BY <1>1, <2>1, FileAssumption DEF FileAssumption
  <2>3. PICK n \in DOMAIN input.truth : r = input.truth[n]
    BY <2>1 DEF Truths, Records, Given
  <2>. QED
    BY <2>2, <2>3, ElementOfSeq
<1>3. ASSUME NEW r \in Finals
      PROVE  r.transaction \in Transaction
  <2>1. input.labels # Absent
    BY DEF Finals, Records, Given
  <2>2. input.labels \in Seq([transaction : Transaction,
                              outcome : {"confirmed_fraud", "legitimate",
                                         "needs_further_investigation"}])
    BY <1>1, <2>1, FileAssumption DEF FileAssumption
  <2>3. PICK n \in DOMAIN input.labels : r = input.labels[n]
    BY <2>1 DEF Finals, Records, Given
  <2>4. r \in [transaction : Transaction,
              outcome : {"confirmed_fraud", "legitimate",
                         "needs_further_investigation"}]
    BY <2>2, <2>3, ElementOfSeq
  <2>. QED
    BY <2>4
<1>4. Given(input.scored) = input.scored
  BY <1>1, FileAssumption DEF FileAssumption, Given
<1>5. ASSUME NEW r \in Records(input.scored)
      PROVE  r \in [transaction : Transaction, decision : Decision]
  <2>1. input.scored \in Seq([transaction : Transaction, decision : Decision])
    BY <1>1, FileAssumption DEF FileAssumption
  <2>2. PICK n \in DOMAIN input.scored : r = input.scored[n]
    BY <1>4 DEF Records
  <2>. QED
    BY <2>1, <2>2, ElementOfSeq
<1>. QED
  BY <1>2, <1>3, <1>4, <1>5

\* The decision that counts is that of any record on the transaction.
LEMMA DecisionFound ==
  ASSUME IInv, Stage({"evaluate"}), NEW t \in DOMAIN decisions
  PROVE  /\ decisions[t] \in Decision
         /\ decisions[t].category \in Positive <=> IsPositive(t)
<1>1. /\ ~Repeats(input.scored)
      /\ decisions = DecisionsByTransaction
  BY DEF IInv, Stage
<1>2. t \in TransactionsOf(input.scored)
  BY <1>1 DEF DecisionsByTransaction
<1>3. PICK n \in DOMAIN input.scored :
        /\ input.scored[n].transaction = t
        /\ RecordOf(input.scored, t) = input.scored[n]
  BY <1>2, RecordFound
<1>4. decisions[t] = input.scored[n].decision
  BY <1>1, <1>2, <1>3 DEF DecisionsByTransaction
<1>5. input.scored[n] \in Records(input.scored)
  BY InputTyped DEF Records
<1>6. \A r \in Records(input.scored) :
        r.transaction = t => r = input.scored[n]
  BY <1>1, <1>3, InputTyped DEF Records, Repeats
<1>. QED
  BY <1>3, <1>4, <1>5, <1>6, InputTyped DEF IsPositive

\* There is a case for each labelled transaction, with the label that counts.
LEMMA CasesFit ==
  ASSUME IInv, Stage({"evaluate"})
  PROVE  /\ DOMAIN cases = {t \in Transaction : Labelled(t)}
         /\ \A t \in DOMAIN cases :
              /\ cases[t].fraud \in BOOLEAN
              /\ cases[t].fraud <=> IsFraud(t)
              /\ cases[t].amount = AmountOf[t]
              /\ cases[t].decision \in Decision
              /\ Predicted(cases[t]) <=> IsPositive(t)
<1> DEFINE truth == Given(input.truth)
           labels == Given(input.labels)
<1>1. /\ TransactionsOf(truth) \subseteq DOMAIN decisions
      /\ \A n \in FinalLabels : labels[n].transaction \in DOMAIN decisions
      /\ simulator = SimulatorCases
      /\ analyst = AnalystCases
      /\ ~Repeats(simulator) /\ ~Repeats(analyst)
      /\ cases = Merged(simulator, analyst)
  BY DEF IInv, Stage
<1>2. ~Repeats(truth) /\ ~FinalsRepeat
  BY <1>1, RepeatsKept
<1>3. /\ TransactionsOf(simulator) = {r.transaction : r \in Truths}
      /\ TransactionsOf(analyst) = {r.transaction : r \in Finals}
  BY <1>1 DEF TransactionsOf, SimulatorCases, AnalystCases, NewCase, Truths,
     Finals, Records, FinalLabels
<1>4. DOMAIN cases = {t \in Transaction : Labelled(t)}
  BY <1>1, <1>3, InputTyped DEF Merged, Labelled
<1>5. ASSUME NEW t \in TransactionsOf(analyst)
      PROVE  /\ cases[t].fraud \in BOOLEAN
             /\ cases[t].fraud <=> IsFraud(t)
             /\ cases[t].amount = AmountOf[t]
             /\ t \in DOMAIN decisions
             /\ cases[t].decision = decisions[t]
  <2>1. cases[t] = RecordOf(analyst, t)
    BY <1>1, <1>5 DEF Merged
  <2>2. PICK n \in DOMAIN analyst :
          analyst[n].transaction = t /\ RecordOf(analyst, t) = analyst[n]
    BY <1>5, RecordFound
  <2>3. /\ n \in FinalLabels
        /\ analyst[n] = NewCase(labels[n].transaction,
                                labels[n].outcome = "confirmed_fraud",
                                "validated_analyst_label")
    BY <1>1, <2>2 DEF AnalystCases
  <2>4. labels[n].transaction = t
    BY <2>2, <2>3 DEF NewCase
  <2>5. labels[n] \in Finals
    BY <2>3 DEF Finals, Records, FinalLabels
  <2>6. \A r \in Finals : r.transaction = t => r = labels[n]
    BY <1>2, <2>3, <2>4 DEF FinalsRepeat, Finals, Records, FinalLabels
  <2>7. IsFraud(t) <=> labels[n].outcome = "confirmed_fraud"
    BY <2>4, <2>5, <2>6 DEF IsFraud
  <2>8. cases[t] = NewCase(t, labels[n].outcome = "confirmed_fraud",
                           "validated_analyst_label")
    BY <2>1, <2>2, <2>3, <2>4
  <2>9. cases[t].fraud = (labels[n].outcome = "confirmed_fraud")
    BY <2>8 DEF NewCase
  <2>10. cases[t].amount = AmountOf[t] /\ cases[t].decision = decisions[t]
    BY <2>8 DEF NewCase
  <2>. QED
    BY <1>1, <2>3, <2>4, <2>7, <2>9, <2>10
<1>6. ASSUME NEW t \in TransactionsOf(simulator), t \notin TransactionsOf(analyst)
      PROVE  /\ cases[t].fraud \in BOOLEAN
             /\ cases[t].fraud <=> IsFraud(t)
             /\ cases[t].amount = AmountOf[t]
             /\ t \in DOMAIN decisions
             /\ cases[t].decision = decisions[t]
  <2>1. cases[t] = RecordOf(simulator, t)
    BY <1>1, <1>6 DEF Merged
  <2>2. PICK n \in DOMAIN simulator :
          simulator[n].transaction = t /\ RecordOf(simulator, t) = simulator[n]
    BY <1>6, RecordFound
  <2>3. /\ n \in DOMAIN truth
        /\ simulator[n] = NewCase(truth[n].transaction, truth[n].fraud,
                                  "simulator_ground_truth")
    BY <1>1, <2>2 DEF SimulatorCases
  <2>4. truth[n].transaction = t
    BY <2>2, <2>3 DEF NewCase
  <2>5. truth[n] \in Truths
    BY <2>3 DEF Truths, Records
  <2>6. \A r \in Truths : r.transaction = t => r = truth[n]
    BY <1>2, <2>3, <2>4 DEF Truths, Records, Repeats
  <2>7. \A r \in Finals : r.transaction # t
    BY <1>3, <1>6
  <2>8. IsFraud(t) <=> truth[n].fraud
    BY <2>4, <2>5, <2>6, <2>7 DEF IsFraud
  <2>9. truth[n].fraud \in BOOLEAN /\ t \in DOMAIN decisions
    BY <1>1, <2>3, <2>4, <2>5, InputTyped DEF TransactionsOf
  <2>. QED
    BY <2>1, <2>2, <2>3, <2>4, <2>8, <2>9 DEF NewCase
<1>7. DOMAIN cases = TransactionsOf(simulator) \cup TransactionsOf(analyst)
  BY <1>1 DEF Merged
<1>. QED
  BY <1>4, <1>5, <1>6, <1>7, DecisionFound DEF Predicted

\* Every labelled transaction is counted once, under the label that takes
\* precedence, and so is its amount.
THEOREM LabelsAreCountedOnce == Spec => []CountedOnceByLabel
<1>1. ASSUME IInv, pc = "done"
      PROVE  CountedOnceByLabel
  <2> DEFINE All == {t \in Transaction : Labelled(t)}
             Hits == {t \in All : IsFraud(t) /\ IsPositive(t)}
  <2>1. Stage({"evaluate"}) /\ report = Report
    BY <1>1 DEF IInv, Stage
  <2>2. /\ Frauds = {t \in All : IsFraud(t)}
        /\ Positives = {t \in All : IsPositive(t)}
        /\ DOMAIN cases = All
    BY <1>1, <2>1, CasesFit DEF Frauds, Positives
  <2>3. /\ Frauds \cap Positives = Hits
        /\ Frauds \ Positives = {t \in All : IsFraud(t) /\ ~IsPositive(t)}
        /\ Positives \ Frauds = {t \in All : ~IsFraud(t) /\ IsPositive(t)}
        /\ DOMAIN cases \ (Frauds \cup Positives)
             = {t \in All : ~IsFraud(t) /\ ~IsPositive(t)}
    BY <2>2
  <2>4. Amount(Hits) = SumFunctionOnSet(AmountOf, Hits)
    <3> DEFINE amounts == [t \in DOMAIN cases |-> cases[t].amount]
    <3>1. \A t \in Hits : amounts[t] = AmountOf[t]
      BY <1>1, <2>1, <2>2, CasesFit
    <3>2. IsFiniteSet(Hits)
      BY TransactionAssumption, FS_Subset DEF TransactionAssumption
    <3> HIDE DEF amounts, Hits
    <3>3. SumFunctionOnSet(amounts, Hits) = SumFunctionOnSet(AmountOf, Hits)
      BY <3>1, <3>2, SumSame
    <3>. QED
      BY <3>3 DEF Amount, amounts
  <2>. QED
    BY <2>1, <2>3, <2>4 DEF CountedOnceByLabel, Report
<1>2. IInv => CountedOnceByLabel
  BY <1>1 DEF CountedOnceByLabel
<1>. QED
  BY <1>2, StagesInOrder, PTL

------------------------------------------------------------------------------
(* Rates *)

LEMMA Product ==
  ASSUME NEW a \in Nat, NEW b \in Nat, NEW k \in Nat
  PROVE  /\ a * k \in Nat
         /\ a <= b => a * k <= b * k
         /\ a < b /\ k > 0 => a * k < b * k
<1>1. ASSUME a <= b
      PROVE  /\ a * k <= b * k
             /\ a < b /\ k > 0 => a * k < b * k
  <2>1. PICK d \in Nat : b = a + d
    <3>1. b - a \in Nat /\ b = a + (b - a)
      BY <1>1
    <3>. QED
      BY <3>1
  <2>2. b * k = a * k + d * k
    BY <2>1
  <2>3. d * k \in Nat /\ (d > 0 /\ k > 0 => d * k > 0)
    OBVIOUS
  <2>4. a * k \in Nat
    OBVIOUS
  <2>. QED
    BY <2>1, <2>2, <2>3, <2>4
<1>2. a * k \in Nat
  OBVIOUS
<1>. QED
  BY <1>1, <1>2

\* What divides the scale divides it into equal parts.
LEMMA Parts ==
  ASSUME NEW u \in Nat \ {0}, Scale % u = 0
  PROVE  /\ Scale \div u \in Nat \ {0}
         /\ u * (Scale \div u) = Scale
BY ScaleAssumption DEF ScaleAssumption

\* The cases are finitely many, and as many as the transactions at most.
LEMMA CasesFinite ==
  ASSUME IInv, Stage({"evaluate"}), NEW S \in SUBSET DOMAIN cases
  PROVE  /\ IsFiniteSet(S)
         /\ Cardinality(S) \in Nat
         /\ Cardinality(S) <= Cardinality(Transaction)
         /\ S # {} => Cardinality(S) > 0
<1>1. S \subseteq Transaction
  BY CasesFit
<1>2. IsFiniteSet(S) /\ Cardinality(S) <= Cardinality(Transaction)
  BY <1>1, TransactionAssumption, FS_Subset DEF TransactionAssumption
<1>3. Cardinality(S) \in Nat
  BY <1>2, FS_CardinalityType
<1>4. S # {} => Cardinality(S) # 0
  BY <1>2, FS_EmptySet
<1>. QED
  BY <1>2, <1>3, <1>4

\* A share lies between nothing and the whole, and is the whole just when no
\* legitimate transaction ranks as high.
LEMMA ShareFits ==
  ASSUME IInv, Stage({"evaluate"}), NEW t \in Frauds
  PROVE  /\ Share(t) \in 0 .. Scale
         /\ Upto(t) \subseteq Frauds => Share(t) = Scale
         /\ ~(Upto(t) \subseteq Frauds) => Share(t) < Scale
<1> DEFINE u == Cardinality(Upto(t))
           c == Cardinality(Upto(t) \cap Frauds)
           k == Scale \div u
<1>1. t \in Upto(t) /\ Upto(t) \in SUBSET DOMAIN cases
  BY DEF Upto, Frauds
<1>2. /\ u \in Nat \ {0} /\ u <= Cardinality(Transaction)
      /\ IsFiniteSet(Upto(t))
  BY <1>1, CasesFinite
<1>3. c \in Nat /\ c <= u
  <2>1. Upto(t) \cap Frauds \subseteq Upto(t)
    OBVIOUS
  <2>2. IsFiniteSet(Upto(t) \cap Frauds)
    BY <1>2, <2>1, FS_Subset
  <2>. QED
    BY <1>2, <2>1, <2>2, FS_Subset, FS_CardinalityType
<1>4. ~(Upto(t) \subseteq Frauds) => c < u
  <2> SUFFICES ASSUME ~(Upto(t) \subseteq Frauds)
               PROVE  c # u
    BY <1>2, <1>3
  <2>1. Upto(t) \cap Frauds # Upto(t)
    OBVIOUS
  <2>. QED
    BY <1>2, <2>1, FS_Subset
<1>5. k \in Nat \ {0} /\ u * k = Scale
  <2>1. Cardinality(Transaction) \in Nat
    BY TransactionAssumption, FS_CardinalityType DEF TransactionAssumption
  <2>2. Scale % u = 0
    BY <1>2, <2>1, ScaleAssumption DEF ScaleAssumption
  <2> HIDE DEF u
  <2>. QED
    BY <1>2, <2>2, Parts
<1>6. Share(t) = c * k
  BY DEF Share
<1>7. Upto(t) \subseteq Frauds => c = u
  <2>1. Upto(t) \subseteq Frauds => Upto(t) \cap Frauds = Upto(t)
    OBVIOUS
  <2>. QED
    BY <2>1
<1> HIDE DEF u, c, k
<1>8. c * k \in Nat /\ c * k <= Scale /\ (c < u => c * k < Scale)
  BY <1>2, <1>3, <1>5, Product
<1>9. Scale \in Nat
  BY ScaleAssumption DEF ScaleAssumption
<1>. QED
  BY <1>4, <1>5, <1>6, <1>7, <1>8, <1>9

\* A rate of a part in the whole is a rate.
LEMMA RateFits ==
  ASSUME NEW n \in Nat, NEW d \in Nat, n <= d
  PROVE  /\ Rate(n, d)[1] \in Nat
         /\ Rate(n, d)[2] \in Nat \ {0}
         /\ Below(<<0, 1>>, Rate(n, d))
         /\ Below(Rate(n, d), <<1, 1>>)
<1>1. CASE d = 0
  BY <1>1 DEF Rate, Below
<1>2. CASE d # 0
  BY <1>2 DEF Rate, Below
<1>. QED
  BY <1>1, <1>2

\* The harmonic mean of precision and recall
LEMMA HarmonicFits ==
  ASSUME NEW tp \in Nat, NEW fp \in Nat, NEW fn \in Nat,
         NEW p, p = Rate(tp, tp + fp), NEW r, r = Rate(tp, tp + fn),
         NEW f, f = HarmonicMean(p, r)
  PROVE  /\ Below(<<0, 1>>, f) /\ Below(f, <<1, 1>>)
         /\ Same(f, Rate(2 * tp, 2 * tp + fp + fn))
         /\ \/ Below(p, f) /\ Below(f, r)
            \/ Below(r, f) /\ Below(f, p)
<1>1. CASE tp = 0
  <2>1. p[1] = 0 /\ p[2] \in Nat \ {0} /\ r[1] = 0 /\ r[2] \in Nat \ {0}
    BY <1>1 DEF Rate
  <2>2. 2 * p[1] * r[1] = 0 /\ p[1] * r[2] + r[1] * p[2] = 0
    BY <2>1
  <2>3. f = <<0, 1>>
    BY <2>2 DEF HarmonicMean, Rate
  <2>4. Rate(2 * tp, 2 * tp + fp + fn)[1] = 0
    BY <1>1 DEF Rate
  <2>5. Rate(2 * tp, 2 * tp + fp + fn)[2] \in Nat
    BY <1>1 DEF Rate
  <2>. QED
    BY <2>1, <2>3, <2>4, <2>5 DEF Below, Same
<1>2. CASE tp > 0
  <2> DEFINE q == tp * tp
             a == tp * fn
             b == tp * fp
             d == 2 * q + a + b
  <2>1. p = <<tp, tp + fp>> /\ r = <<tp, tp + fn>>
    BY <1>2 DEF Rate
  <2>2. /\ q \in Nat /\ a \in Nat /\ b \in Nat /\ q > 0
        /\ fp <= fn => b <= a
        /\ fn <= fp => a <= b
    <3>1. q \in Nat /\ a \in Nat /\ b \in Nat
      BY Product
    <3>2. tp * 0 < tp * tp
      BY <1>2, Product
    <3>3. (fp <= fn => fp * tp <= fn * tp) /\ (fn <= fp => fn * tp <= fp * tp)
      BY Product
    <3>. QED
      BY <3>1, <3>2, <3>3
  <2>3. 2 * p[1] * r[1] = 2 * q /\ p[1] * r[2] + r[1] * p[2] = d
    BY <2>1
  <2>4. f = <<2 * q, d>>
    <3>1. d # 0
      BY <2>2
    <3> HIDE DEF d, q
    <3>. QED
      BY <2>3, <3>1 DEF HarmonicMean, Rate
  <2>5. Below(<<0, 1>>, f) /\ Below(f, <<1, 1>>)
    <3> HIDE DEF q, a, b
    <3>. QED
      BY <2>2, <2>4 DEF Below
  <2>6. Same(f, Rate(2 * tp, 2 * tp + fp + fn))
    <3> DEFINE m == 2 * tp + fp + fn
    <3>1. Rate(2 * tp, m) = <<2 * tp, m>>
      BY <1>2 DEF Rate
    <3>2. d = tp * m
      OBVIOUS
    <3>3. (2 * (tp * tp)) * m = (2 * tp) * (tp * m)
      OBVIOUS
    <3>. QED
      BY <2>4, <3>1, <3>2, <3>3 DEF Same
  <2>7. /\ fp <= fn => Below(r, f) /\ Below(f, p)
        /\ fn <= fp => Below(p, f) /\ Below(f, r)
    <3>1. /\ r[1] * f[2] = d * tp
          /\ f[1] * r[2] = (2 * q + 2 * a) * tp
          /\ f[1] * p[2] = (2 * q + 2 * b) * tp
          /\ p[1] * f[2] = d * tp
      BY <2>1, <2>4
    <3>2. /\ 2 * q + 2 * a \in Nat /\ 2 * q + 2 * b \in Nat /\ d \in Nat
          /\ fp <= fn => d <= 2 * q + 2 * a /\ 2 * q + 2 * b <= d
          /\ fn <= fp => d <= 2 * q + 2 * b /\ 2 * q + 2 * a <= d
      <4> HIDE DEF q, a, b
      <4>. QED
        BY <2>2
    <3>3. /\ d <= 2 * q + 2 * a => d * tp <= (2 * q + 2 * a) * tp
          /\ 2 * q + 2 * b <= d => (2 * q + 2 * b) * tp <= d * tp
          /\ d <= 2 * q + 2 * b => d * tp <= (2 * q + 2 * b) * tp
          /\ 2 * q + 2 * a <= d => (2 * q + 2 * a) * tp <= d * tp
      <4> HIDE DEF q, a, b, d
      <4>. QED
        BY <3>2, Product
    <3>4. p[1] = tp /\ r[1] = tp
      BY <2>1
    <3> HIDE DEF q, a, b, d
    <3>. QED
      BY <3>1, <3>2, <3>3 DEF Below
  <2>. QED
    BY <2>5, <2>6, <2>7
<1>. QED
  BY <1>1, <1>2

\* The sum of the shares is at most the scale for each fraud.
LEMMA SharesFit ==
  ASSUME IInv, Stage({"evaluate"}),
         NEW shares, shares = SumFunctionOnSet([t \in Frauds |-> Share(t)], Frauds)
  PROVE  /\ shares \in Nat
         /\ Scale * Cardinality(Frauds) \in Nat
         /\ shares <= Scale * Cardinality(Frauds)
         /\ (\A t \in Frauds : Share(t) = Scale)
              => shares = Scale * Cardinality(Frauds)
<1> DEFINE share == [t \in Frauds |-> Share(t)]
<1>1. IsFiniteSet(Frauds) /\ Cardinality(Frauds) \in Nat
  BY CasesFinite DEF Frauds
<1>2. \A t \in Frauds : share[t] \in 0 .. Scale
  BY ShareFits
<1>3. Scale \in Nat
  BY ScaleAssumption DEF ScaleAssumption
<1>4. (\A t \in Frauds : Share(t) = Scale) => \A t \in Frauds : share[t] = Scale
  OBVIOUS
<1>5. shares = SumFunctionOnSet(share, Frauds)
  OBVIOUS
<1>6. Scale * Cardinality(Frauds) \in Nat
  BY <1>1, <1>3
<1> HIDE DEF share
<1>. QED
  BY <1>1, <1>2, <1>3, <1>4, <1>5, <1>6, SumBounded

\* The rates are rates, and F1 is the mean that it is named for.
THEOREM RatesAreRates == Spec => []RatesAgree
<1>1. ASSUME IInv, pc = "done"
      PROVE  RatesAgree
  <2> DEFINE tp == Cardinality(Frauds \cap Positives)
             fn == Cardinality(Frauds \ Positives)
             fp == Cardinality(Positives \ Frauds)
             tn == Cardinality(DOMAIN cases \ (Frauds \cup Positives))
  <2>1. Stage({"evaluate"}) /\ report = Report
    BY <1>1 DEF IInv, Stage
  <2>2. /\ report.tp = tp /\ report.fn = fn /\ report.fp = fp
        /\ report.precision = Rate(tp, tp + fp)
        /\ report.recall = Rate(tp, tp + fn)
        /\ report.f1 = HarmonicMean(report.precision, report.recall)
        /\ report.fpr = Rate(fp, fp + tn)
        /\ report.ap = AveragePrecision
    BY <2>1 DEF Report
  <2>3. tp \in Nat /\ fn \in Nat /\ fp \in Nat /\ tn \in Nat
    <3>1. Frauds \subseteq DOMAIN cases /\ Positives \subseteq DOMAIN cases
      BY DEF Frauds, Positives
    <3>. QED
      BY <1>1, <2>1, <3>1, CasesFinite
  <2> HIDE DEF tp, fn, fp, tn
  <2>4. /\ Below(<<0, 1>>, report.precision) /\ Below(report.precision, <<1, 1>>)
        /\ Below(<<0, 1>>, report.recall) /\ Below(report.recall, <<1, 1>>)
        /\ Below(<<0, 1>>, report.fpr) /\ Below(report.fpr, <<1, 1>>)
    BY <2>2, <2>3, RateFits
  <2>5. /\ Below(<<0, 1>>, report.f1) /\ Below(report.f1, <<1, 1>>)
        /\ Same(report.f1, Rate(2 * tp, 2 * tp + fp + fn))
        /\ \/ Below(report.precision, report.f1) /\ Below(report.f1, report.recall)
           \/ Below(report.recall, report.f1) /\ Below(report.f1, report.precision)
    <3> DEFINE p == report.precision
               r == report.recall
               f == report.f1
    <3>1. p = Rate(tp, tp + fp) /\ r = Rate(tp, tp + fn) /\ f = HarmonicMean(p, r)
      BY <2>2
    <3> HIDE DEF p, r, f
    <3>2. /\ Below(<<0, 1>>, f) /\ Below(f, <<1, 1>>)
          /\ Same(f, Rate(2 * tp, 2 * tp + fp + fn))
          /\ \/ Below(p, f) /\ Below(f, r)
             \/ Below(r, f) /\ Below(f, p)
      BY <2>3, <3>1, HarmonicFits
    <3>. QED
      BY <3>2 DEF p, r, f
  <2>6. Below(<<0, 1>>, report.ap) /\ Below(report.ap, <<1, 1>>)
    BY <1>1, <2>1, <2>2, SharesFit, RateFits DEF AveragePrecision
  <2>. QED
    BY <2>2, <2>4, <2>5, <2>6 DEF RatesAgree
<1>2. IInv => RatesAgree
  BY <1>1 DEF RatesAgree
<1>. QED
  BY <1>2, StagesInOrder, PTL

------------------------------------------------------------------------------
(* The ranking *)

\* Scores are numbers.
LEMMA ScoresTyped ==
  ASSUME IInv, Stage({"evaluate"})
  PROVE  \A t \in DOMAIN cases : Score(t) \in 0 .. 100
BY CasesFit DEF Score, Decision

\* One legitimate transaction that ranks as high as a fraud lowers the sum.
LEMMA ShareMissed ==
  ASSUME IInv, Stage({"evaluate"}), NEW t \in Frauds, ~(Upto(t) \subseteq Frauds)
  PROVE  SumFunctionOnSet([u \in Frauds |-> Share(u)], Frauds)
           < Scale * Cardinality(Frauds)
<1> DEFINE share == [u \in Frauds |-> Share(u)]
           R == Frauds \ {t}
           n == Cardinality(R)
<1>1. IsFiniteSet(Frauds) /\ IsFiniteSet(R) /\ n \in Nat
  BY CasesFinite DEF Frauds
<1>2. Cardinality(Frauds) = n + 1
  BY <1>1, FS_RemoveElement, FS_CardinalityType
<1>3. \A u \in Frauds : share[u] \in 0 .. Scale
  BY ShareFits
<1>4. share[t] \in Nat /\ share[t] < Scale
  BY ShareFits
<1>5. Scale \in Nat
  BY ScaleAssumption DEF ScaleAssumption
<1>6. \A u \in R : share[u] \in 0 .. Scale
  BY <1>3
<1>7. \A u \in Frauds : share[u] \in Nat
  BY <1>3
<1>8. Scale * (n + 1) = Scale + Scale * n /\ Scale * n \in Nat
  BY <1>1, <1>5
<1> HIDE DEF share, n, R
<1>9. SumFunctionOnSet(share, R) \in Nat /\ SumFunctionOnSet(share, R) <= Scale * n
  BY <1>1, <1>5, <1>6, SumBounded DEF n
<1>10. SumFunctionOnSet(share, Frauds) = share[t] + SumFunctionOnSet(share, R)
  BY <1>1, <1>7, SumDetached DEF R
<1>11. SumFunctionOnSet(share, Frauds) < Scale * Cardinality(Frauds)
  BY <1>2, <1>4, <1>5, <1>8, <1>9, <1>10
<1>. QED
  BY <1>11 DEF share

\* Where scores differ, the step at the score of a fraud is its share.
LEMMA StepIsShare ==
  ASSUME IInv, Stage({"evaluate"}), ScoresDiffer, NEW t \in Frauds
  PROVE  Step(Score(t)) = Share(t) /\ Share(t) \in Nat
<1>0. Frauds \subseteq DOMAIN cases
  BY DEF Frauds
<1>1. {u \in Frauds : Score(u) = Score(t)} = {t}
  BY <1>0 DEF ScoresDiffer
<1>2. Above(Score(t)) = Upto(t)
  BY <1>0, ScoresTyped DEF Above, Upto, Before, ScoresDiffer
<1>3. Cardinality({t}) = 1
  BY FS_Singleton
<1>4. Step(Score(t)) = 1 * Cardinality(Upto(t) \cap Frauds)
                         * (Scale \div Cardinality(Upto(t)))
  BY <1>1, <1>2, <1>3 DEF Step
<1>5. Cardinality(Upto(t) \cap Frauds) \in Nat
  BY <1>0, CasesFinite DEF Upto
<1>6. 1 * Cardinality(Upto(t) \cap Frauds) = Cardinality(Upto(t) \cap Frauds)
  BY <1>5
<1>7. Share(t) \in Nat
  BY ShareFits
<1>. QED
  BY <1>4, <1>6, <1>7 DEF Share

\* There is no step at a score that no fraud has.
LEMMA NoStep ==
  ASSUME IInv, Stage({"evaluate"}), NEW s \in Scores
  PROVE  /\ Step(s) \in Nat
         /\ (\A t \in Frauds : Score(t) # s) => Step(s) = 0
<1>0. Frauds \subseteq DOMAIN cases
  BY DEF Frauds
<1> DEFINE m == Cardinality({t \in Frauds : Score(t) = s})
           c == Cardinality(Above(s) \cap Frauds)
           a == Cardinality(Above(s))
           k == Scale \div a
<1>1. Above(s) # {} /\ Above(s) \subseteq DOMAIN cases
  BY ScoresTyped DEF Above, Scores
<1>2. a \in Nat \ {0} /\ c \in Nat /\ m \in Nat
  BY <1>0, <1>1, CasesFinite
<1>3. k \in Nat
  <2> HIDE DEF a
  <2>. QED
    BY <1>2, ScaleAssumption DEF ScaleAssumption
<1>4. Step(s) = m * c * k
  BY DEF Step
<1>5. (\A t \in Frauds : Score(t) # s) => m = 0
  <2>1. (\A t \in Frauds : Score(t) # s) => {t \in Frauds : Score(t) = s} = {}
    OBVIOUS
  <2>. QED
    BY <2>1, FS_EmptySet
<1> HIDE DEF m, c, a, k
<1>6. m * c \in Nat /\ m * c * k \in Nat
  BY <1>2, <1>3, Product
<1>7. m = 0 => m * c * k = 0
  BY <1>2, <1>3
<1>. QED
  BY <1>4, <1>5, <1>6, <1>7

\* Where scores differ, the steps sum up to the shares.
LEMMA StepsSum ==
  ASSUME IInv, Stage({"evaluate"}), ScoresDiffer
  PROVE  SumFunctionOnSet([s \in Scores |-> Step(s)], Scores)
           = SumFunctionOnSet([t \in Frauds |-> Share(t)], Frauds)
<1> DEFINE step == [s \in Scores |-> Step(s)]
           share == [t \in Frauds |-> Share(t)]
           name == [t \in Frauds |-> Score(t)]
           Named == {name[t] : t \in Frauds}
<1>1. Frauds \subseteq DOMAIN cases /\ IsFiniteSet(Frauds)
  BY CasesFinite DEF Frauds
<1>2. Named \subseteq Scores
  BY <1>1 DEF Scores
<1>3. IsFiniteSet(Scores)
  <2>1. Scores \subseteq 0 .. 100
    BY ScoresTyped DEF Scores
  <2>2. IsFiniteSet(0 .. 100)
    <3>1. 0 \in Int /\ 100 \in Int
      OBVIOUS
    <3>. QED
      BY <3>1, FS_Interval
  <2>. QED
    BY <2>1, <2>2, FS_Subset
<1>4. \A s \in Scores : step[s] \in Nat
  <2>1. \A s \in Scores : Step(s) \in Nat
    BY NoStep
  <2>. QED
    BY <2>1
<1>5. \A s \in Scores \ Named : step[s] = 0
  <2> SUFFICES ASSUME NEW s \in Scores \ Named
               PROVE  Step(s) = 0
    OBVIOUS
  <2>1. \A t \in Frauds : Score(t) # s
    OBVIOUS
  <2>2. (\A t \in Frauds : Score(t) # s) => Step(s) = 0
    BY NoStep
  <2>. QED
    BY <2>1, <2>2
<1>6. \A t \in Frauds : step[name[t]] = share[t] /\ share[t] \in Nat
  <2> SUFFICES ASSUME NEW t \in Frauds
               PROVE  step[name[t]] = share[t] /\ share[t] \in Nat
    OBVIOUS
  <2>1. name[t] = Score(t) /\ Score(t) \in Scores /\ share[t] = Share(t)
    BY <1>1 DEF Scores
  <2>2. step[Score(t)] = Step(Score(t))
    BY <2>1
  <2>. QED
    BY <2>1, <2>2, StepIsShare
<1>7. \A t, u \in Frauds : name[t] = name[u] => t = u
  BY <1>1 DEF ScoresDiffer
<1>8. SumFunctionOnSet(step, Scores) = SumFunctionOnSet(step, Named)
  <2> HIDE DEF step, Named
  <2>. QED
    BY <1>2, <1>3, <1>4, <1>5, SumWithoutZeros
<1>9. SumFunctionOnSet(step, Named) = SumFunctionOnSet(share, Frauds)
  <2> HIDE DEF step, share, name
  <2>. QED
    BY <1>1, <1>6, <1>7, SumRenamed
<1>. QED
  BY <1>8, <1>9

\* The average precision is the area under the curve where scores differ, is
\* one when the frauds rank first, and only if no fraud is outranked.
THEOREM RankingCounts == Spec => []RankingIsRewarded
<1>1. ASSUME IInv, pc = "done"
      PROVE  RankingIsRewarded
  <2> DEFINE shares == SumFunctionOnSet([t \in Frauds |-> Share(t)], Frauds)
             whole == Scale * Cardinality(Frauds)
  <2>1. Stage({"evaluate"}) /\ report = Report
    BY <1>1 DEF IInv, Stage
  <2>2. report.ap = Rate(shares, whole)
    BY <2>1 DEF Report, AveragePrecision
  <2>3. /\ shares \in Nat /\ whole \in Nat
        /\ (\A t \in Frauds : Share(t) = Scale) => shares = whole
    BY <1>1, <2>1, SharesFit
  <2>4. Frauds # {} => whole # 0
    <3>1. Frauds # {} => Cardinality(Frauds) \in Nat \ {0}
      BY <1>1, <2>1, CasesFinite DEF Frauds
    <3>. QED
      BY <3>1, ScaleAssumption DEF ScaleAssumption
  <2>5. ScoresDiffer => Same(report.ap, StepArea)
    <3>1. ASSUME ScoresDiffer
          PROVE  StepArea = Rate(shares, whole)
      BY <1>1, <2>1, <3>1, StepsSum DEF StepArea
    <3> HIDE DEF shares, whole
    <3>2. Same(Rate(shares, whole), Rate(shares, whole))
      BY <2>3 DEF Same, Rate
    <3>. QED
      BY <2>2, <3>1, <3>2
  <2>6. ASSUME Frauds # {},
               \A t \in Frauds, u \in DOMAIN cases \ Frauds : Score(t) > Score(u)
        PROVE  Same(report.ap, <<1, 1>>)
    <3>1. \A t \in Frauds : Upto(t) \subseteq Frauds
      BY <1>1, <2>1, <2>6, ScoresTyped DEF Upto, Before, Frauds
    <3>2. \A t \in Frauds : Share(t) = Scale
      BY <1>1, <2>1, <3>1, ShareFits
    <3>3. shares = whole
      BY <2>3, <3>2
    <3> HIDE DEF shares, whole
    <3>. QED
      BY <2>2, <2>3, <2>4, <2>6, <3>3 DEF Same, Rate
  <2>7. ASSUME Same(report.ap, <<1, 1>>),
               NEW t \in Frauds, NEW u \in DOMAIN cases \ Frauds,
               Score(u) > Score(t)
        PROVE  FALSE
    <3>1. u \in Upto(t)
      BY <2>7 DEF Upto, Before
    <3>2. shares < whole
      BY <1>1, <2>1, <3>1, ShareMissed
    <3> HIDE DEF shares, whole
    <3>. QED
      BY <2>2, <2>3, <2>7, <3>2 DEF Same, Rate
  <2>. QED
    BY <2>5, <2>6, <2>7 DEF RankingIsRewarded
<1>2. IInv => RankingIsRewarded
  BY <1>1 DEF RankingIsRewarded
<1>. QED
  BY <1>2, StagesInOrder, PTL
==============================================================================
