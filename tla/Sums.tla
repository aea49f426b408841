--------------------------------- MODULE Sums ---------------------------------
(***************************************************************************)
(* The sum of the values of a function on a finite set, and that the folds *)
(* of the community modules compute it.  The queues and tables of the      *)
(* system account for bytes in counters; these lemmas say what the sums    *)
(* they are compared with do when an element comes or goes.                *)
(*                                                                         *)
(* The sum is the number of pairs of an element and a number below its     *)
(* value, so that facts about finite sets take the place of an induction.  *)
(***************************************************************************)
EXTENDS Integers, FiniteSets, FiniteSetTheorems, TLAPS

Below(f, S) == {p \in S \X Nat : p[2] < f[p[1]]}

Sum(f, S) == Cardinality(Below(f, S))

-----------------------------------------------------------------------------

\* The sum over nothing.
LEMMA SumOfNothing ==
    ASSUME NEW f
    PROVE  IsFiniteSet(Below(f, {})) /\ Sum(f, {}) = 0
<1>1. Below(f, {}) = {}
  BY DEF Below
<1> QED
  BY <1>1, FS_EmptySet DEF Sum

\* The pairs of one argument are as many as its value.
LEMMA PairsOfOne ==
    ASSUME NEW x, NEW n \in Nat
    PROVE  IsFiniteSet({x} \X (0..n - 1)) /\ Cardinality({x} \X (0..n - 1)) = n
<1>1. IsFiniteSet({x}) /\ Cardinality({x}) = 1
  BY FS_Singleton
<1>2. IsFiniteSet(0..n - 1) /\ Cardinality(0..n - 1) = n
  <2>1. 0 \in Int /\ n - 1 \in Int
    OBVIOUS
  <2>2. IsFiniteSet(0..n - 1) /\ Cardinality(0..n - 1) = IF 0 > n - 1 THEN 0 ELSE (n - 1) - 0 + 1
    BY <2>1, FS_Interval
  <2> QED
    BY <2>2
<1> DEFINE I == 0..n - 1
<1>3. IsFiniteSet(I) /\ Cardinality(I) = n
  BY <1>2
<1> HIDE DEF I
<1>4. IsFiniteSet({x} \X I) /\ Cardinality({x} \X I) = Cardinality({x}) * Cardinality(I)
  BY <1>1, <1>3, FS_Product
<1>5. Cardinality({x} \X I) = 1 * n
  BY <1>1, <1>3, <1>4
<1>6. Cardinality({x} \X I) = n
  BY <1>5
<1> QED
  BY <1>4, <1>6 DEF I

\* One argument taken apart.
LEMMA PairsSplit ==
    ASSUME NEW S, NEW f, NEW x \in S, f[x] \in Nat, IsFiniteSet(Below(f, S \ {x}))
    PROVE  IsFiniteSet(Below(f, S)) /\ Sum(f, S) = f[x] + Sum(f, S \ {x})
<1> DEFINE A == {x} \X (0..f[x] - 1)
           B == Below(f, S \ {x})
<1>1. IsFiniteSet(A) /\ Cardinality(A) = f[x]
  BY PairsOfOne
<1>2. Below(f, S) = A \cup B
  BY DEF Below
<1>3. A \cap B = {}
  BY DEF Below
<1>4. IsFiniteSet(B)
  OBVIOUS
<1> HIDE DEF A, B
<1>5. /\ IsFiniteSet(A \cup B)
      /\ Cardinality(A \cup B) = Cardinality(A) + Cardinality(B) - Cardinality(A \cap B)
  BY <1>1, <1>4, FS_Union
<1>6. Cardinality(A \cap B) = 0 /\ Cardinality(B) \in Nat
  BY <1>3, <1>4, FS_EmptySet, FS_CardinalityType
<1>7. Cardinality(Below(f, S)) = f[x] + Cardinality(B)
  BY <1>1, <1>2, <1>5, <1>6
<1> QED
  BY <1>2, <1>5, <1>7 DEF Sum, B

\* The minimal counterexample among the subsets of a finite set.
LEMMA LeastSubset ==
    ASSUME NEW S, IsFiniteSet(S), NEW T, T \subseteq SUBSET S, T # {}
    PROVE  \E s \in T : \A x \in s : s \ {x} \notin T
<1>1. FiniteSubsetsOf(S) = SUBSET S
  BY FS_FiniteSubsetsOfFinite
<1>2. IsWellFoundedOn(StrictSubsetOrdering(S), SUBSET S)
  BY <1>1, FS_StrictSubsetOrderingWellFounded
<1>3. PICK s \in T : \A y \in T : ~(<<y, s>> \in StrictSubsetOrdering(S))
  BY <1>2, WFMin
<1>4. \A x \in s : <<s \ {x}, s>> \in StrictSubsetOrdering(S)
  BY <1>3 DEF StrictSubsetOrdering
<1> QED
  BY <1>3, <1>4

\* A sum over a finite set counts a finite set.
LEMMA PairsAreFinite ==
    ASSUME NEW S, IsFiniteSet(S), NEW f, \A x \in S : f[x] \in Nat
    PROVE  IsFiniteSet(Below(f, S))
<1> DEFINE T == {s \in SUBSET S : ~IsFiniteSet(Below(f, s))}
<1>1. T = {}
  <2> SUFFICES ASSUME T # {} PROVE FALSE
    OBVIOUS
  <2>1. PICK s \in T : \A x \in s : s \ {x} \notin T
    BY LeastSubset
  <2>2. s \in SUBSET S /\ ~IsFiniteSet(Below(f, s))
    BY <2>1
  <2>3. s # {}
    BY <2>2, SumOfNothing
  <2>4. PICK x \in s : TRUE
    BY <2>3
  <2>5. IsFiniteSet(Below(f, s \ {x}))
    BY <2>1, <2>2, <2>4
  <2> QED
    BY <2>2, <2>4, <2>5, PairsSplit
<1> QED
  BY <1>1

\* The sum, one argument taken apart.
LEMMA SumSplit ==
    ASSUME NEW S, IsFiniteSet(S), NEW f, \A y \in S : f[y] \in Nat, NEW x \in S
    PROVE  Sum(f, S) = f[x] + Sum(f, S \ {x})
<1>1. IsFiniteSet(S \ {x})
  BY FS_RemoveElement
<1> QED
  BY <1>1, PairsAreFinite, PairsSplit

\* A sum is a number.
LEMMA SumIsNatural ==
    ASSUME NEW S, IsFiniteSet(S), NEW f, \A x \in S : f[x] \in Nat
    PROVE  Sum(f, S) \in Nat
BY PairsAreFinite, FS_CardinalityType DEF Sum

\* The sum depends on the values only.
LEMMA SumOfEqual ==
    ASSUME NEW S, NEW f, NEW h, \A x \in S : f[x] = h[x]
    PROVE  Sum(f, S) = Sum(h, S)
<1>1. Below(f, S) = Below(h, S)
  BY DEF Below
<1> QED
  BY <1>1 DEF Sum

-----------------------------------------------------------------------------
(* What the folds compute. *)

Any(s) == CHOOSE x \in s : TRUE

\* The recursion of MapThenFoldSet for the sum of a function.
Adds(f, s, g) == IF s = {} THEN 0 ELSE f[Any(s)] + g[s \ {Any(s)}]

Recurs(f, S, g) == g = [s \in SUBSET S |-> Adds(f, s, g)]

\* The sum over every subset satisfies the recursion.
LEMMA SumsRecur ==
    ASSUME NEW S, IsFiniteSet(S), NEW f, \A x \in S : f[x] \in Nat
    PROVE  \E g : Recurs(f, S, g)
<1> DEFINE g == [s \in SUBSET S |-> Sum(f, s)]
<1>1. ASSUME NEW s \in SUBSET S PROVE g[s] = Adds(f, s, g)
  <2>1. CASE s = {}
    BY <2>1, SumOfNothing DEF Adds
  <2>2. CASE s # {}
    <3>1. Any(s) \in s
      BY <2>2 DEF Any
    <3>2. IsFiniteSet(s)
      BY FS_Subset
    <3>3. Sum(f, s) = f[Any(s)] + Sum(f, s \ {Any(s)})
      BY <3>1, <3>2, SumSplit
    <3> QED
      BY <2>2, <3>3 DEF Adds
  <2> QED
    BY <2>1, <2>2
<1>2. g = [s \in SUBSET S |-> Adds(f, s, g)]
  BY <1>1
<1>3. Recurs(f, S, g)
  BY <1>2 DEF Recurs
<1> QED
  BY <1>3

\* And nothing else does.
LEMMA RecursionIsSum ==
    ASSUME NEW S, IsFiniteSet(S), NEW f, \A x \in S : f[x] \in Nat,
           NEW g, Recurs(f, S, g)
    PROVE  g[S] = Sum(f, S)
<1> DEFINE T == {s \in SUBSET S : g[s] # Sum(f, s)}
<1>1. \A s \in SUBSET S : g[s] = Adds(f, s, g)
  BY DEF Recurs
<1>2. T = {}
  <2> SUFFICES ASSUME T # {} PROVE FALSE
    OBVIOUS
  <2>1. PICK s \in T : \A x \in s : s \ {x} \notin T
    BY LeastSubset
  <2>2. s \in SUBSET S /\ g[s] # Sum(f, s)
    BY <2>1
  <2>3. s # {}
    BY <1>1, <2>2, SumOfNothing DEF Adds
  <2>4. Any(s) \in s
    BY <2>3 DEF Any
  <2>5. g[s \ {Any(s)}] = Sum(f, s \ {Any(s)})
    BY <2>1, <2>2, <2>4
  <2>6. IsFiniteSet(s)
    BY <2>2, FS_Subset
  <2>7. Sum(f, s) = f[Any(s)] + Sum(f, s \ {Any(s)})
    BY <2>2, <2>4, <2>6, SumSplit
  <2>8. g[s] = f[Any(s)] + g[s \ {Any(s)}]
    BY <1>1, <2>2, <2>3 DEF Adds
  <2> QED
    BY <2>2, <2>5, <2>7, <2>8
<1> QED
  BY <1>2

\* What MapThenFoldSet computes when it adds.
LEMMA FoldIsSum ==
    ASSUME NEW S, IsFiniteSet(S), NEW f, \A x \in S : f[x] \in Nat
    PROVE  (CHOOSE g : Recurs(f, S, g))[S] = Sum(f, S)
<1> DEFINE iter == CHOOSE g : Recurs(f, S, g)
<1>1. \E g : Recurs(f, S, g)
  BY SumsRecur
<1>2. Recurs(f, S, iter)
  BY <1>1
<1> HIDE DEF iter
<1>3. iter[S] = Sum(f, S)
  BY <1>2, RecursionIsSum
<1> QED
  BY <1>3 DEF iter

-----------------------------------------------------------------------------
(* Sums over the entries of a table. *)

\* Entries that go take their values with them.
LEMMA SumOfSubset ==
    ASSUME NEW S, IsFiniteSet(S), NEW f, \A x \in S : f[x] \in Nat, NEW T \in SUBSET S
    PROVE  Sum(f, T) \in Nat /\ Sum(f, T) <= Sum(f, S)
<1>1. IsFiniteSet(Below(f, S)) /\ Below(f, T) \in SUBSET Below(f, S)
  BY PairsAreFinite DEF Below
<1>2. IsFiniteSet(Below(f, T)) /\ Cardinality(Below(f, T)) <= Cardinality(Below(f, S))
  BY <1>1, FS_Subset
<1>3. Cardinality(Below(f, T)) \in Nat
  BY <1>2, FS_CardinalityType
<1> QED
  BY <1>2, <1>3 DEF Sum

\* One entry that is new or changes its value.
LEMMA SumOfUpdate ==
    ASSUME NEW S, IsFiniteSet(S), NEW f, \A y \in S : f[y] \in Nat,
           NEW x, NEW g, \A y \in S \ {x} : g[y] = f[y], g[x] \in Nat
    PROVE  Sum(g, S \cup {x}) = (IF x \in S THEN Sum(f, S) - f[x] ELSE Sum(f, S)) + g[x]
<1>1. IsFiniteSet(S \cup {x}) /\ IsFiniteSet(S \ {x}) /\ (S \cup {x}) \ {x} = S \ {x}
  BY FS_AddElement, FS_RemoveElement
<1>2. \A y \in S \cup {x} : g[y] \in Nat
  OBVIOUS
<1>3. Sum(g, S \cup {x}) = g[x] + Sum(g, S \ {x})
  <2>1. Sum(g, S \cup {x}) = g[x] + Sum(g, (S \cup {x}) \ {x})
    BY <1>1, <1>2, SumSplit
  <2> QED
    BY <1>1, <2>1
<1>4. Sum(g, S \ {x}) = Sum(f, S \ {x}) /\ Sum(f, S \ {x}) \in Nat
  BY <1>1, SumOfEqual, SumIsNatural
<1>5. CASE x \in S
  <2>1. Sum(f, S) = f[x] + Sum(f, S \ {x}) /\ f[x] \in Nat
    BY <1>5, SumSplit
  <2> QED
    BY <1>3, <1>4, <1>5, <2>1
<1>6. CASE x \notin S
  <2>1. S \ {x} = S
    BY <1>6
  <2>2. Sum(g, S \cup {x}) = g[x] + Sum(f, S) /\ Sum(f, S) \in Nat
    BY <1>3, <1>4, <2>1
  <2>3. Sum(g, S \cup {x}) = Sum(f, S) + g[x]
    BY <2>2
  <2> QED
    BY <1>6, <2>3
<1> QED
  BY <1>5, <1>6

-----------------------------------------------------------------------------
(* Sums over the elements of a queue. *)

\* A queue grows by its last element.
LEMMA SumOfAppend ==
    ASSUME NEW n \in Nat, NEW f, \A i \in 1..n + 1 : f[i] \in Nat
    PROVE  Sum(f, 1..n + 1) = Sum(f, 1..n) + f[n + 1]
<1>1. IsFiniteSet(1..n + 1) /\ IsFiniteSet(1..n)
  BY FS_Interval
<1>2. n + 1 \in 1..n + 1 /\ (1..n + 1) \ {n + 1} = 1..n
  OBVIOUS
<1>3. Sum(f, 1..n + 1) = f[n + 1] + Sum(f, 1..n)
  BY <1>1, <1>2, SumSplit
<1>4. Sum(f, 1..n) \in Nat
  BY <1>1, SumIsNatural
<1> QED
  BY <1>2, <1>3, <1>4

\* A queue shrinks by its first element.
LEMMA SumOfTail ==
    ASSUME NEW n \in Nat, NEW f, \A i \in 1..n + 1 : f[i] \in Nat,
           NEW h, \A i \in 1..n : h[i] = f[i + 1]
    PROVE  Sum(f, 1..n + 1) = f[1] + Sum(h, 1..n)
<1> DEFINE R == Below(f, 2..n + 1)
           H == Below(h, 1..n)
           b == [p \in R |-> <<p[1] - 1, p[2]>>]
<1>1. IsFiniteSet(1..n + 1) /\ 1 \in 1..n + 1 /\ IsFiniteSet(2..n + 1)
  BY FS_Interval
<1>2. (1..n + 1) \ {1} = 2..n + 1
  OBVIOUS
<1>3. Sum(f, 1..n + 1) = f[1] + Sum(f, 2..n + 1)
  BY <1>1, <1>2, SumSplit
<1>4. IsFiniteSet(R)
  BY <1>1, PairsAreFinite
<1>5. \A p \in R : p \in (2..n + 1) \X Nat /\ p[2] < f[p[1]]
  BY DEF Below
<1>6. \A p \in (2..n + 1) \X Nat : p[2] < f[p[1]] => p \in R
  BY DEF Below
<1>7. \A p \in H : p \in (1..n) \X Nat /\ p[2] < h[p[1]]
  BY DEF Below
<1>8. \A p \in (1..n) \X Nat : p[2] < h[p[1]] => p \in H
  BY DEF Below
<1> HIDE DEF R, H
<1>9. b \in Bijection(R, H)
  <2>1. ASSUME NEW p \in R PROVE b[p] \in H /\ b[p] = <<p[1] - 1, p[2]>>
    <3>1. p \in (2..n + 1) \X Nat /\ p[2] < f[p[1]] /\ p[1] \in 2..n + 1 /\ p[2] \in Nat
      BY <1>5, <2>1
    <3>2. p[1] - 1 \in 1..n /\ h[p[1] - 1] = f[p[1]]
      BY <3>1
    <3>3. <<p[1] - 1, p[2]>> \in H
      BY <1>8, <3>1, <3>2
    <3> QED
      BY <2>1, <3>3
  <2>2. ASSUME NEW p \in R, NEW q \in R, b[p] = b[q] PROVE p = q
    <3>1. p \in (2..n + 1) \X Nat /\ q \in (2..n + 1) \X Nat
      BY <1>5, <2>2
    <3>2. p[1] - 1 = q[1] - 1 /\ p[2] = q[2]
      BY <2>1, <2>2
    <3>3. p[1] = q[1]
      BY <3>1, <3>2
    <3> QED
      BY <3>1, <3>2, <3>3
  <2>3. ASSUME NEW q \in H PROVE \E p \in R : b[p] = q
    <3>1. /\ q \in (1..n) \X Nat /\ q[2] < h[q[1]] /\ q[1] \in 1..n /\ q[2] \in Nat
          /\ q = <<q[1], q[2]>>
      BY <1>7, <2>3
    <3>2. q[1] + 1 \in 2..n + 1 /\ (q[1] + 1) - 1 = q[1] /\ h[q[1]] = f[q[1] + 1]
      BY <3>1
    <3>3. <<q[1] + 1, q[2]>> \in R
      BY <1>6, <3>1, <3>2
    <3>4. b[<<q[1] + 1, q[2]>>] = q
      BY <3>1, <3>2, <3>3
    <3> QED
      BY <3>3, <3>4
  <2>4. b \in [R -> H]
    BY <2>1
  <2> HIDE DEF b
  <2> QED
    BY <2>2, <2>3, <2>4 DEF Bijection, Injection, Surjection, IsInjective
<1>10. Cardinality(H) = Cardinality(R)
  BY <1>4, <1>9, FS_Bijection DEF ExistsBijection
<1>11. Sum(h, 1..n) = Sum(f, 2..n + 1)
  BY <1>10 DEF Sum, R, H
<1> QED
  BY <1>3, <1>11
=============================================================================
