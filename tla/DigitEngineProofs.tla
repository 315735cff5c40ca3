-------------------------- MODULE DigitEngineProofs --------------------------
(***************************************************************************)
(* Proofs about DigitEngine for every number of accounts, requests, runs   *)
(* and owners, every set of orders and every bound.                        *)
(***************************************************************************)
EXTENDS DigitEngine, FiniteSetsExt, Functions, FiniteSetTheorems, WellFoundedInduction, TLAPS

-----------------------------------------------------------------------------
(* Numbers *)

\* The order of the natural numbers as a set of pairs, which the provers can handle.
Less == {pair \in Nat \X Nat : pair[1] < pair[2]}

LEMMA LessWellFounded == IsWellFoundedOn(Less, Nat)
BY NatLessThanWellFounded DEF OpToRel, Less

\* A set of natural numbers that is not empty has a least element.
LEMMA LeastNatural ==
    ASSUME NEW T \in SUBSET Nat, T # {}
    PROVE  \E x \in T : \A y \in T : x <= y
<1>1. PICK x \in T : \A y \in T : ~(<<y, x>> \in Less)
  BY LessWellFounded, WFMin, Zenon
<1>2. \A a, b \in Nat : <<a, b>> \in Less <=> a < b
  BY DEF Less
<1>3. \A y \in T : ~(y < x) /\ x \in Nat /\ y \in Nat
  BY <1>1, <1>2
<1> QED BY <1>1, <1>3

\* The maximum of a pair is one of the two and at least both.
LEMMA MaxOfTwo ==
    ASSUME NEW x \in Int, NEW y \in Int
    PROVE  Max({x, y}) \in {x, y} /\ Max({x, y}) >= x /\ Max({x, y}) >= y
<1>1. \E m \in {x, y} : \A z \in {x, y} : m >= z
  OBVIOUS
<1> QED BY <1>1 DEF Max

\* The minimum of a pair is one of the two and at most both.
LEMMA MinOfTwo ==
    ASSUME NEW x \in Int, NEW y \in Int
    PROVE  Min({x, y}) \in {x, y} /\ Min({x, y}) =< x /\ Min({x, y}) =< y
<1>1. \E m \in {x, y} : \A z \in {x, y} : m =< z
  OBVIOUS
<1> QED BY <1>1 DEF Min

\* Where the quotient lies.
LEMMA DivBounds ==
    ASSUME NEW t \in Nat, NEW n \in Nat \ {0}
    PROVE  t \div n \in Nat /\ (t \div n) * n <= t /\ t < ((t \div n) + 1) * n
OBVIOUS

-----------------------------------------------------------------------------
(* Induction over the subsets of a finite set, and finite sums *)

\* What holds of a set whenever it holds of its proper subsets holds of every
\* finite set; a property is the collection of the sets that have it.
LEMMA SubsetInduction ==
    ASSUME NEW S, IsFiniteSet(S), NEW G,
           \A s \in SUBSET S : (\A r \in SUBSET s : r # s => r \in G) => s \in G
    PROVE  \A s \in SUBSET S : s \in G
<1> DEFINE Sizes == {n \in Nat : \E s \in SUBSET S : Cardinality(s) = n /\ s \notin G}
<1>1. \A s \in SUBSET S : IsFiniteSet(s) /\ Cardinality(s) \in Nat
  BY FS_Subset, FS_CardinalityType
<1>2. SUFFICES ASSUME Sizes # {} PROVE FALSE
  BY <1>1
<1>3. Sizes \in SUBSET Nat
  OBVIOUS
<1> HIDE DEF Sizes
<1>4. PICK n \in Sizes : \A m \in Sizes : n <= m
  BY <1>2, <1>3, LeastNatural
<1>5. PICK s \in SUBSET S : Cardinality(s) = n /\ s \notin G
  BY <1>4 DEF Sizes
<1>6. ASSUME NEW r \in SUBSET s, r # s PROVE r \in G
  <2>1. Cardinality(r) < n /\ Cardinality(r) \in Nat /\ n \in Nat
    BY <1>1, <1>3, <1>5, <1>6, FS_Subset
  <2>2. Cardinality(r) \notin Sizes
    BY <1>4, <2>1
  <2> QED BY <2>1, <2>2, <1>5 DEF Sizes
<1> QED BY <1>5, <1>6

\* One step of the sum of f over s, with g for the smaller sets.
SumStep(f, g, s) == IF s = {} THEN 0 ELSE LET x == CHOOSE x \in s : TRUE IN f[x] + g[s \ {x}]

\* A step depends on the sums of the sets with one element less only.
LEMMA SumStepLocal ==
    ASSUME NEW f, NEW g, NEW h, NEW s, \A x \in s : g[s \ {x}] = h[s \ {x}]
    PROVE  SumStep(f, g, s) = SumStep(f, h, s)
<1> DEFINE c == CHOOSE x \in s : TRUE
<1>1. CASE s = {}
  BY <1>1 DEF SumStep
<1>2. CASE s # {}
  <2>1. c \in s
    BY <1>2
  <2>2. SumStep(f, g, s) = f[c] + g[s \ {c}] /\ SumStep(f, h, s) = f[c] + h[s \ {c}]
    BY <1>2 DEF SumStep
  <2> HIDE DEF c
  <2> QED BY <2>1, <2>2
<1> QED BY <1>1, <1>2

\* The sums of f over all subsets of S.
PartialSums(f, S) == CHOOSE g : g = [s \in SUBSET S |-> SumStep(f, g, s)]

LEMMA SumIsPartialSum ==
    ASSUME NEW f, NEW S
    PROVE  SumFunctionOnSet(f, S) = PartialSums(f, S)[S]
BY DEF SumFunctionOnSet, FoldFunctionOnSet, MapThenFoldSet, PartialSums, SumStep

\* There are such sums over a finite set.
LEMMA PartialSumsExist ==
    ASSUME NEW f, NEW S, IsFiniteSet(S)
    PROVE  \A s \in SUBSET S : PartialSums(f, S)[s] = SumStep(f, PartialSums(f, S), s)
<1> DEFINE Small(n) == {s \in SUBSET S : Cardinality(s) <= n}
           Has(n) == \E g : g = [s \in Small(n) |-> SumStep(f, g, s)]
           Bad == {n \in Nat : ~Has(n)}
<1>1. \A s \in SUBSET S : IsFiniteSet(s) /\ Cardinality(s) \in Nat /\ Cardinality(s) <= Cardinality(S)
  BY FS_Subset, FS_CardinalityType
<1>2. Bad = {}
  <2> SUFFICES ASSUME Bad # {} PROVE FALSE
    OBVIOUS
  <2>1. Bad \in SUBSET Nat
    OBVIOUS
  <2> HIDE DEF Bad
  <2>2. PICK n \in Bad : \A m \in Bad : n <= m
    BY <2>1, LeastNatural
  <2>3. n \in Nat /\ ~Has(n)
    BY <2>2 DEF Bad
  <2>4. CASE n = 0
    <3> DEFINE g == [s \in Small(n) |-> 0]
    <3>1. \A s \in Small(n) : s = {}
      BY <1>1, <2>4, FS_EmptySet
    <3>2. g = [s \in Small(n) |-> SumStep(f, g, s)]
      BY <3>1 DEF SumStep
    <3> QED BY <3>2, <2>3
  <2>5. CASE n > 0
    <3>1. n - 1 \in Nat /\ n - 1 \notin Bad
      BY <2>2, <2>3, <2>5
    <3>2. PICK g : g = [s \in Small(n-1) |-> SumStep(f, g, s)]
      BY <3>1 DEF Bad
    <3> DEFINE h == [s \in Small(n) |-> SumStep(f, g, s)]
    <3>3. ASSUME NEW s \in Small(n), NEW x \in s
          PROVE  h[s \ {x}] = g[s \ {x}]
      <4>1. s \ {x} \in SUBSET S /\ Cardinality(s \ {x}) = Cardinality(s) - 1
        BY <1>1, FS_RemoveElement
      <4>2. s \ {x} \in Small(n-1) /\ s \ {x} \in Small(n)
        BY <4>1, <1>1, <2>3
      <4> HIDE DEF Small
      <4> QED BY <4>2, <3>2
    <3>4. ASSUME NEW s \in Small(n) PROVE SumStep(f, h, s) = SumStep(f, g, s)
      <4> HIDE DEF h, Small
      <4> QED BY <3>3, SumStepLocal
    <3> HIDE DEF Small
    <3>5. h = [s \in Small(n) |-> SumStep(f, h, s)]
      BY <3>4
    <3> HIDE DEF h
    <3> QED BY <3>5, <2>3
  <2> QED BY <2>3, <2>4, <2>5
<1>3. Has(Cardinality(S))
  BY <1>1, <1>2, FS_CardinalityType
<1>4. Small(Cardinality(S)) = SUBSET S
  BY <1>1
<1> HIDE DEF Small
<1>5. PICK g : g = [s \in SUBSET S |-> SumStep(f, g, s)]
  BY <1>3, <1>4
<1>6. PartialSums(f, S) = [s \in SUBSET S |-> SumStep(f, PartialSums(f, S), s)]
  BY <1>5 DEF PartialSums
<1> QED BY <1>6

\* The sum over a set does not depend on the set it is taken from.
LEMMA PartialSumsAgree ==
    ASSUME NEW f, NEW S, IsFiniteSet(S), NEW T \in SUBSET S
    PROVE  PartialSums(f, S)[T] = SumFunctionOnSet(f, T)
<1> DEFINE g == PartialSums(f, S)
           h == PartialSums(f, T)
           G == {s \in SUBSET T : g[s] = h[s]}
<1>1. IsFiniteSet(T)
  BY FS_Subset
<1>2. (\A s \in SUBSET S : g[s] = SumStep(f, g, s)) /\ \A s \in SUBSET T : h[s] = SumStep(f, h, s)
  BY <1>1, PartialSumsExist
<1> HIDE DEF g, h
<1>3. ASSUME NEW s \in SUBSET T, \A r \in SUBSET s : r # s => r \in G
      PROVE  s \in G
  <2>1. g[s] = SumStep(f, g, s) /\ h[s] = SumStep(f, h, s)
    BY <1>2
  <2>2. \A x \in s : g[s \ {x}] = h[s \ {x}]
    BY <1>3
  <2>3. SumStep(f, g, s) = SumStep(f, h, s)
    BY <2>2, SumStepLocal
  <2> QED BY <2>1, <2>3
<1>4. T \in G
  <2> HIDE DEF G
  <2> QED BY <1>1, <1>3, SubsetInduction
<1> QED BY <1>4, SumIsPartialSum DEF g, h

\* The sum over the empty set, and over any other by the element chosen first.
LEMMA SumChosen ==
    ASSUME NEW f, NEW S, IsFiniteSet(S)
    PROVE  /\ SumFunctionOnSet(f, {}) = 0
           /\ S # {} => LET x == CHOOSE x \in S : TRUE
                        IN  x \in S /\ SumFunctionOnSet(f, S) = f[x] + SumFunctionOnSet(f, S \ {x})
<1> DEFINE g == PartialSums(f, S)
<1>1. \A s \in SUBSET S : g[s] = SumStep(f, g, s)
  BY PartialSumsExist
<1>2. \A s \in SUBSET S : g[s] = SumFunctionOnSet(f, s)
  BY PartialSumsAgree
<1> HIDE DEF g
<1>3. \A s \in SUBSET S : SumFunctionOnSet(f, s) = SumStep(f, g, s)
  BY <1>1, <1>2
<1>4. SumFunctionOnSet(f, {}) = 0
  BY <1>3 DEF SumStep
<1>5. ASSUME S # {}
      PROVE  LET x == CHOOSE x \in S : TRUE
             IN  x \in S /\ SumFunctionOnSet(f, S) = f[x] + SumFunctionOnSet(f, S \ {x})
  <2> DEFINE x == CHOOSE x \in S : TRUE
  <2>1. x \in S
    BY <1>5
  <2>2. SumFunctionOnSet(f, S) = f[x] + g[S \ {x}]
    BY <1>3, <1>5 DEF SumStep
  <2> QED BY <2>1, <2>2, <1>2
<1> QED BY <1>4, <1>5

\* A finite sum of integers is an integer, and any element may come first.
LEMMA SumRemove ==
    ASSUME NEW f, NEW S, IsFiniteSet(S), \A x \in S : f[x] \in Int
    PROVE  /\ SumFunctionOnSet(f, S) \in Int
           /\ \A x \in S : SumFunctionOnSet(f, S) = f[x] + SumFunctionOnSet(f, S \ {x})
<1> DEFINE Sum(s) == SumFunctionOnSet(f, s)
           G == {s \in SUBSET S : Sum(s) \in Int /\ \A x \in s : Sum(s) = f[x] + Sum(s \ {x})}
<1>1. \A s \in SUBSET S : IsFiniteSet(s)
  BY FS_Subset
<1>2. Sum({}) = 0
  BY SumChosen
<1>3. \A s \in SUBSET S : s # {} => \E c \in s : Sum(s) = f[c] + Sum(s \ {c})
  BY <1>1, SumChosen
<1> HIDE DEF Sum
<1>4. ASSUME NEW s \in SUBSET S, \A r \in SUBSET s : r # s => r \in G
      PROVE  s \in G
  <2>1. CASE s = {}
    BY <1>2, <2>1
  <2>2. CASE s # {}
    <3>1. PICK c \in s : Sum(s) = f[c] + Sum(s \ {c})
      BY <1>3, <2>2
    <3>2. \A x \in s : s \ {x} \in G
      BY <1>4
    <3>3. \A x \in s : Sum(s \ {x}) \in Int /\ f[x] \in Int
      BY <3>2
    <3>4. ASSUME NEW x \in s, x # c PROVE Sum(s) = f[x] + Sum(s \ {x})
      <4>1. Sum(s \ {c}) = f[x] + Sum((s \ {c}) \ {x})
        BY <3>2, <3>4
      <4>2. Sum(s \ {x}) = f[c] + Sum((s \ {x}) \ {c})
        BY <3>2, <3>4
      <4>3. (s \ {c}) \ {x} = (s \ {x}) \ {c}
        OBVIOUS
      <4>4. (s \ {c}) \ {x} \in G
        BY <1>4
      <4>5. Sum((s \ {c}) \ {x}) \in Int
        BY <4>4
      <4> QED BY <3>1, <3>3, <4>1, <4>2, <4>3, <4>5
    <3>5. Sum(s) \in Int
      BY <3>1, <3>3
    <3>6. \A x \in s : Sum(s) = f[x] + Sum(s \ {x})
      BY <3>1, <3>4
    <3> QED BY <3>5, <3>6
  <2> QED BY <2>1, <2>2
<1>5. S \in G
  <2> HIDE DEF G
  <2> QED BY <1>4, SubsetInduction
<1> QED BY <1>5 DEF Sum

\* A new element adds its value.
LEMMA SumAdd ==
    ASSUME NEW f, NEW S, IsFiniteSet(S), NEW y, y \notin S, \A x \in S \cup {y} : f[x] \in Int
    PROVE  SumFunctionOnSet(f, S \cup {y}) = f[y] + SumFunctionOnSet(f, S)
<1>1. IsFiniteSet(S \cup {y}) /\ (S \cup {y}) \ {y} = S
  BY FS_AddElement
<1> QED BY <1>1, SumRemove

\* Functions that agree on a set have the same sum over it.
LEMMA SumSame ==
    ASSUME NEW f, NEW g, NEW S, IsFiniteSet(S), \A x \in S : f[x] = g[x]
    PROVE  SumFunctionOnSet(f, S) = SumFunctionOnSet(g, S)
<1> DEFINE G == {s \in SUBSET S : SumFunctionOnSet(f, s) = SumFunctionOnSet(g, s)}
<1>1. ASSUME NEW s \in SUBSET S, \A r \in SUBSET s : r # s => r \in G
      PROVE  s \in G
  <2>1. CASE s = {}
    BY <2>1, SumChosen
  <2>2. CASE s # {}
    <3> DEFINE c == CHOOSE x \in s : TRUE
    <3>1. IsFiniteSet(s)
      BY FS_Subset
    <3>2. /\ c \in s
          /\ SumFunctionOnSet(f, s) = f[c] + SumFunctionOnSet(f, s \ {c})
          /\ SumFunctionOnSet(g, s) = g[c] + SumFunctionOnSet(g, s \ {c})
      BY <2>2, <3>1, SumChosen
    <3> HIDE DEF c
    <3>3. s \ {c} \in G
      BY <1>1, <3>2
    <3> QED BY <3>2, <3>3
  <2> QED BY <2>1, <2>2
<1>2. S \in G
  <2> HIDE DEF G
  <2> QED BY <1>1, SubsetInduction
<1> QED BY <1>2

\* The sum over two sets without a common element.
LEMMA SumDisjoint ==
    ASSUME NEW f, NEW S, IsFiniteSet(S), NEW T, IsFiniteSet(T), S \cap T = {},
           \A x \in S \cup T : f[x] \in Int
    PROVE  SumFunctionOnSet(f, S \cup T) = SumFunctionOnSet(f, S) + SumFunctionOnSet(f, T)
<1> DEFINE Sum(s) == SumFunctionOnSet(f, s)
           G == {s \in SUBSET T : Sum(S \cup s) = Sum(S) + Sum(s)}
<1>1. \A s \in SUBSET T : IsFiniteSet(s) /\ IsFiniteSet(S \cup s)
  BY FS_Subset, FS_Union
<1>2. Sum({}) = 0 /\ Sum(S) \in Int
  BY SumChosen, SumRemove
<1>3. ASSUME NEW s \in SUBSET T
      PROVE  Sum(s) \in Int /\ \A x \in s : Sum(s) = f[x] + Sum(s \ {x})
  BY <1>1, SumRemove
<1>4. ASSUME NEW s \in SUBSET T, NEW x \in s
      PROVE  Sum(S \cup s) = f[x] + Sum(S \cup (s \ {x})) /\ Sum(S \cup (s \ {x})) \in Int
  <2>1. Sum(S \cup s) = f[x] + Sum((S \cup s) \ {x})
    <3>1. IsFiniteSet(S \cup s) /\ x \in S \cup s /\ \A y \in S \cup s : f[y] \in Int
      BY <1>1
    <3> HIDE DEF Sum
    <3>2. \A y \in S \cup s : Sum(S \cup s) = f[y] + Sum((S \cup s) \ {y})
      BY <3>1, SumRemove DEF Sum
    <3> QED BY <3>1, <3>2
  <2>2. (S \cup s) \ {x} = S \cup (s \ {x})
    OBVIOUS
  <2>3. IsFiniteSet(S \cup (s \ {x})) /\ \A y \in S \cup (s \ {x}) : f[y] \in Int
    BY <1>1
  <2> QED BY <2>1, <2>2, <2>3, SumRemove
<1> HIDE DEF Sum
<1>5. ASSUME NEW s \in SUBSET T, \A r \in SUBSET s : r # s => r \in G
      PROVE  s \in G
  <2>1. CASE s = {}
    BY <1>2, <2>1
  <2>2. CASE s # {}
    <3>1. PICK x \in s : TRUE
      BY <2>2
    <3>2. s \ {x} \in G
      BY <1>5, <3>1
    <3>3. Sum(s) = f[x] + Sum(s \ {x}) /\ Sum(S \cup s) = f[x] + Sum(S \cup (s \ {x}))
      BY <1>3, <1>4, <3>1
    <3>4. Sum(S \cup (s \ {x})) = Sum(S) + Sum(s \ {x}) /\ f[x] \in Int /\ Sum(s \ {x}) \in Int
      BY <1>3, <3>1, <3>2
    <3> QED BY <1>2, <3>3, <3>4
  <2> QED BY <2>1, <2>2
<1>6. T \in G
  <2> HIDE DEF G
  <2> QED BY <1>5, SubsetInduction
<1> QED BY <1>6 DEF Sum

\* A sum of amounts that are not negative is not negative.
LEMMA SumNotNegative ==
    ASSUME NEW f, NEW S, IsFiniteSet(S), \A x \in S : f[x] \in Int /\ f[x] >= 0
    PROVE  SumFunctionOnSet(f, S) \in Int /\ SumFunctionOnSet(f, S) >= 0
<1> DEFINE Sum(s) == SumFunctionOnSet(f, s)
           G == {s \in SUBSET S : Sum(s) >= 0}
<1>1. \A s \in SUBSET S : IsFiniteSet(s)
  BY FS_Subset
<1>2. Sum({}) = 0
  BY SumChosen
<1>3. ASSUME NEW s \in SUBSET S
      PROVE  Sum(s) \in Int /\ \A x \in s : Sum(s) = f[x] + Sum(s \ {x})
  BY <1>1, SumRemove
<1> HIDE DEF Sum
<1>4. ASSUME NEW s \in SUBSET S, \A r \in SUBSET s : r # s => r \in G
      PROVE  s \in G
  <2>1. CASE s = {}
    BY <1>2, <2>1
  <2>2. CASE s # {}
    <3>1. PICK x \in s : TRUE
      BY <2>2
    <3>2. s \ {x} \in G
      BY <1>4, <3>1
    <3> QED BY <1>3, <3>1, <3>2
  <2> QED BY <2>1, <2>2
<1>5. S \in G
  <2> HIDE DEF G
  <2> QED BY <1>4, SubsetInduction
<1> QED BY <1>3, <1>5 DEF Sum

\* A finite set stays finite under other names.
LEMMA NamesFinite ==
    ASSUME NEW name, NEW B, IsFiniteSet(B)
    PROVE  IsFiniteSet({name[b] : b \in B})
<1> DEFINE T == {name[b] : b \in B}
           f == [b \in B |-> name[b]]
<1>1. f \in Surjection(B, T)
  BY DEF Surjection
<1> HIDE DEF T, f
<1>2. IsFiniteSet(T)
  BY <1>1, FS_Surjection
<1> QED BY <1>2 DEF T

\* The same amounts summed under other names: name gives every element of B a
\* name of its own.
LEMMA SumRenamed ==
    ASSUME NEW f, NEW h, NEW name, NEW B, IsFiniteSet(B),
           \A a, b \in B : name[a] = name[b] => a = b,
           \A b \in B : f[name[b]] = h[b] /\ h[b] \in Int
    PROVE  SumFunctionOnSet(f, {name[b] : b \in B}) = SumFunctionOnSet(h, B)
<1> DEFINE N(s) == {name[b] : b \in s}
           G == {s \in SUBSET B : SumFunctionOnSet(f, N(s)) = SumFunctionOnSet(h, s)}
<1>1. \A s \in SUBSET B : IsFiniteSet(s)
  BY FS_Subset
<1>2. SumFunctionOnSet(f, {}) = 0 /\ SumFunctionOnSet(h, {}) = 0
  BY SumChosen
<1>3. ASSUME NEW s \in SUBSET B, \A r \in SUBSET s : r # s => r \in G
      PROVE  s \in G
  <2>1. CASE s = {}
    <3>1. N(s) = {}
      BY <2>1
    <3> QED BY <1>2, <2>1, <3>1
  <2>2. CASE s # {}
    <3>1. PICK x \in s : TRUE
      BY <2>2
    <3>2. s \ {x} \in G
      BY <1>3, <3>1
    <3>3. N(s) = N(s \ {x}) \cup {name[x]} /\ name[x] \notin N(s \ {x})
      OBVIOUS
    <3>4. SumFunctionOnSet(h, s) = h[x] + SumFunctionOnSet(h, s \ {x})
      BY <1>1, <3>1, SumRemove
    <3>5. SumFunctionOnSet(f, N(s \ {x})) = SumFunctionOnSet(h, s \ {x})
      BY <3>2
    <3>6. \A y \in N(s \ {x}) \cup {name[x]} : f[y] \in Int
      OBVIOUS
    <3>7. IsFiniteSet(N(s \ {x}))
      <4>1. IsFiniteSet(s \ {x})
        BY <1>1
      <4> QED BY <4>1, NamesFinite
    <3> HIDE DEF N
    <3>8. SumFunctionOnSet(f, N(s)) = f[name[x]] + SumFunctionOnSet(f, N(s \ {x}))
      BY <3>3, <3>6, <3>7, SumAdd
    <3> QED BY <3>4, <3>5, <3>8
  <2> QED BY <2>1, <2>2
<1>4. B \in G
  <2> HIDE DEF G
  <2> QED BY <1>3, SubsetInduction
<1> QED BY <1>4

\* The sum of the negated amounts.
LEMMA SumNegated ==
    ASSUME NEW f, NEW g, NEW S, IsFiniteSet(S), \A x \in S : f[x] \in Int /\ g[x] = -f[x]
    PROVE  SumFunctionOnSet(g, S) = -SumFunctionOnSet(f, S)
<1> DEFINE SumF(s) == SumFunctionOnSet(f, s)
           SumG(s) == SumFunctionOnSet(g, s)
           G == {s \in SUBSET S : SumG(s) = -SumF(s)}
<1>1. \A s \in SUBSET S : IsFiniteSet(s)
  BY FS_Subset
<1>2. SumF({}) = 0 /\ SumG({}) = 0
  BY SumChosen
<1>3. ASSUME NEW s \in SUBSET S
      PROVE  /\ SumF(s) \in Int /\ \A x \in s : SumF(s) = f[x] + SumF(s \ {x})
             /\ \A x \in s : SumG(s) = g[x] + SumG(s \ {x})
  BY <1>1, SumRemove
<1> HIDE DEF SumF, SumG
<1>4. ASSUME NEW s \in SUBSET S, \A r \in SUBSET s : r # s => r \in G
      PROVE  s \in G
  <2>1. CASE s = {}
    BY <1>2, <2>1
  <2>2. CASE s # {}
    <3>1. PICK x \in s : TRUE
      BY <2>2
    <3>2. s \ {x} \in G
      BY <1>4, <3>1
    <3> QED BY <1>3, <3>1, <3>2
  <2> QED BY <2>1, <2>2
<1>5. S \in G
  <2> HIDE DEF G
  <2> QED BY <1>4, SubsetInduction
<1> QED BY <1>5 DEF SumF, SumG

-----------------------------------------------------------------------------
(* Arithmetic of the contract rules *)

\* A contract with a valid barrier has between one and ten winning digits.
LEMMA WinningDigitsCount ==
    ASSUME NEW type \in ContractType, NEW barrier \in Digit, barrier \in ValidBarriers(type)
    PROVE  Cardinality(WinningDigits(type, barrier)) \in Nat \ {0}
<1> DEFINE W == WinningDigits(type, barrier)
<1>1. W \subseteq Digit
  BY DEF WinningDigits, ContractType, Digit
<1>2. IsFiniteSet(Digit)
  BY FS_Interval, 0 \in Int, 9 \in Int DEF Digit
<1>3. IsFiniteSet(W)
  BY <1>1, <1>2, FS_Subset
<1>4. W # {}
  <2>1. CASE type = "EVEN"
    <3>1. 0 \in W
      BY <2>1 DEF WinningDigits, Digit
    <3> QED BY <3>1
  <2>2. CASE type = "ODD"
    <3>1. 1 \in W
      BY <2>2 DEF WinningDigits, Digit
    <3> QED BY <3>1
  <2>3. CASE type = "OVER"
    <3>1. 9 \in W
      BY <2>3 DEF WinningDigits, Digit, ValidBarriers
    <3> QED BY <3>1
  <2>4. CASE type = "UNDER"
    <3>1. 0 \in W
      BY <2>4 DEF WinningDigits, Digit, ValidBarriers
    <3> QED BY <3>1
  <2>5. CASE type = "MATCH"
    BY <2>5 DEF WinningDigits
  <2>6. CASE type = "DIFFER"
    <3>1. (IF barrier = 0 THEN 1 ELSE 0) \in W
      BY <2>6 DEF WinningDigits, Digit
    <3> QED BY <3>1
  <2> QED BY <2>1, <2>2, <2>3, <2>4, <2>5, <2>6 DEF ContractType
<1>5. Cardinality(W) \in Nat /\ Cardinality(W) # 0
  BY <1>3, <1>4, FS_CardinalityType, FS_EmptySet
<1> QED BY <1>5

\* What is paid, and what a contract adds to the risk, are whole cents.
LEMMA OrderAmounts ==
    ASSUME NEW o \in Order
    PROVE  /\ Payout(o.stake, o.type, o.barrier) \in Int
           /\ NetLoss(o.stake, o.type, o.barrier) \in [Digit -> Int]
<1>1. /\ o.type \in ContractType /\ o.barrier \in Digit /\ o.barrier \in ValidBarriers(o.type)
      /\ o.stake \in Nat /\ Margin \in Int
  BY MarginAssumption DEF Order
<1> DEFINE n == Cardinality(WinningDigits(o.type, o.barrier))
<1>2. n \in Nat \ {0}
  BY <1>1, WinningDigitsCount
<1> HIDE DEF n
<1>3. ((o.stake * (1000 - Margin) * 10) \div (1000 * n)) \in Int
  <2>1. o.stake * (1000 - Margin) * 10 \in Int
    BY <1>1
  <2>2. 1000 * n \in Nat \ {0}
    BY <1>2
  <2> QED BY <2>1, <2>2
<1>4. Payout(o.stake, o.type, o.barrier) \in Int
  BY <1>3 DEF Payout, n
<1>5. NetLoss(o.stake, o.type, o.barrier) \in [Digit -> Int]
  BY <1>1, <1>4 DEF NetLoss
<1> QED BY <1>4, <1>5

\* A verdict is one of the three resolved states.
LEMMA VerdictType ==
    ASSUME NEW type, NEW barrier, NEW t, NEW d, NEW g
    PROVE  Verdict(type, barrier, t, d, g) \in {"WON", "LOST", "VOID"}
BY DEF Verdict

\* An entry tick lies after the tick that is due.
LEMMA EntryTickIsAhead ==
    ASSUME NEW last \in Nat, NEW now \in Nat
    PROVE  EntryTick(last, now) \in Nat /\ 2 * EntryTick(last, now) > now
<1> DEFINE e == ((now + 1) \div 2) + 1
<1>1. e \in Nat /\ 2 * e > now
  OBVIOUS
<1> HIDE DEF e
<1>2. Max({last, e}) \in {last, e} /\ Max({last, e}) >= e
  BY <1>1, MaxOfTwo
<1>3. EntryTick(last, now) = Max({last, e})
  BY DEF EntryTick, e
<1> QED BY <1>1, <1>2, <1>3

-----------------------------------------------------------------------------
(* Type correctness *)

\* Every request of the assignment in force is an order.
LEMMA OrderOf ==
    ASSUME TypeOK, NEW b \in Buy
    PROVE  /\ order[b] \in Order /\ order[b].acct \in Account
           /\ Stake(b) \in Nat \ {0} /\ order[b].count \in Nat \ {0}
           /\ PayoutOf(b) \in Int /\ RiskOf(b) \in [Digit -> Int]
<1>1. order[b] \in Order
  BY OrdersAssumption DEF TypeOK
<1>2. order[b].acct \in Account /\ order[b].stake \in Nat \ {0} /\ order[b].count \in Nat \ {0}
  BY <1>1 DEF Order
<1> QED BY <1>1, <1>2, OrderAmounts DEF Stake, PayoutOf, RiskOf

\* Whatever the engine posts about a contract is a ledger transaction.
LEMMA PostedTypes ==
    ASSUME TypeOK, NEW b \in Buy
    PROVE  /\ Refund("void", b) \in Entry
           /\ Tx(order[b].acct, "buy", b, -Stake(b), Stake(b), 0) \in Entry
           /\ \A verdict \in {"WON", "LOST", "VOID"} : Settlement(b, verdict) \in Entry
<1>1. order[b].acct \in Account /\ Stake(b) \in Int /\ PayoutOf(b) \in Int
  BY OrderOf
<1>2. \A op \in {"buy", "settle", "void"}, x, y, z \in Int :
        Tx(order[b].acct, op, b, x, y, z) \in Entry
  BY <1>1 DEF Tx, Entry
<1>3. -Stake(b) \in Int /\ Stake(b) - PayoutOf(b) \in Int /\ 0 \in Int
  BY <1>1
<1>4. Refund("void", b) \in Entry /\ Refund("settle", b) \in Entry
  BY <1>1, <1>2, <1>3 DEF Refund
<1>5. Tx(order[b].acct, "buy", b, -Stake(b), Stake(b), 0) \in Entry
  BY <1>1, <1>2, <1>3
<1>6. \A verdict \in {"WON", "LOST", "VOID"} : Settlement(b, verdict) \in Entry
  BY <1>1, <1>2, <1>3, <1>4 DEF Settlement
<1> QED BY <1>4, <1>5, <1>6

\* Posting entries keeps the ledger a set of entries.
LEMMA PostType ==
    ASSUME NEW txs, ledger \subseteq Entry, txs \subseteq Entry, Post(txs)
    PROVE  ledger' \subseteq Entry
BY DEF Post

\* The initial state has its types.
LEMMA TypeInit == Init => TypeOK
<1> SUFFICES ASSUME Init PROVE TypeOK
  OBVIOUS
<1>1. ledger \subseteq Entry
  <2>1. OpeningCredit \in Int /\ -OpeningCredit \in Int
    BY BoundsAssumption
  <2> QED BY <2>1 DEF Init, Tx, Entry
<1>2. run \in [Worker -> Run]
  BY DEF Init, IdleRun, Run
<1>3. DOMAIN exposure = {}
  BY DEF Init
<1>4. /\ contract \in [Buy -> Row] /\ buy \in [Buy -> Purchase] /\ void \in [Staff -> Voiding]
  BY DEF Init, IdleVoid, Row, Purchase, Voiding, ContractState
<1> QED BY <1>1, <1>2, <1>3, <1>4 DEF Init, TypeOK

\* Every step keeps the types.
LEMMA TypeNext == TypeOK /\ LocksExclude /\ [Next]_vars => TypeOK'
<1> SUFFICES ASSUME TypeOK, LocksExclude, [Next]_vars PROVE TypeOK'
  OBVIOUS
<1> USE DEF rigid, feed, book
<1>1. CASE Elapse
  BY <1>1 DEF TypeOK, Elapse
<1>2. ASSUME NEW b \in Buy, BuyStart(b) PROVE TypeOK'
  <2>1. [pc |-> "start", began |-> clock, entry |-> 0] \in Purchase
    BY DEF TypeOK, Purchase
  <2> QED BY <1>2, <2>1 DEF TypeOK, BuyStart, BuyIs
<1>3. ASSUME NEW b \in Buy, BuyLockAccount(b) PROVE TypeOK'
  <2>1. [buy[b] EXCEPT !.pc = "account"] \in Purchase
    BY DEF TypeOK, Purchase
  <2>2. [pc |-> "done", began |-> 0, entry |-> 0] \in Purchase
    BY DEF Purchase
  <2> QED BY <1>3, <2>1, <2>2 DEF TypeOK, BuyLockAccount, BuyIs, BuyEnds
<1>4. ASSUME NEW b \in Buy, BuyLockIndex(b) PROVE TypeOK'
  <2>1. EntryTick(lastTick, clock) \in Nat
    BY EntryTickIsAhead DEF TypeOK
  <2>2. [buy[b] EXCEPT !.pc = "entered", !.entry = EntryTick(lastTick, clock)] \in Purchase
    BY <2>1 DEF TypeOK, Purchase
  <2>3. [pc |-> "done", began |-> 0, entry |-> 0] \in Purchase
    BY DEF Purchase
  <2> QED BY <1>4, <2>2, <2>3 DEF TypeOK, BuyLockIndex, BuyIs, BuyEnds
<1>5. ASSUME NEW b \in Buy, BuyCommit(b) PROVE TypeOK'
  <2> DEFINE settle == buy[b].entry + order[b].count - 1
  <2>1. settle \in Nat
    <3>1. buy[b].entry \in Nat /\ order[b].count \in Nat \ {0}
      BY OrderOf DEF TypeOK, Purchase
    <3> QED BY <3>1
  <2> HIDE DEF settle
  <2>2. buy' \in [Buy -> Purchase]
    <3>1. [pc |-> "done", began |-> 0, entry |-> 0] \in Purchase
      BY DEF Purchase
    <3> QED BY <1>5, <3>1 DEF TypeOK, BuyCommit, BuyIs, BuyEnds
  <2>3. CASE UNCHANGED book
    BY <1>5, <2>2, <2>3 DEF TypeOK, BuyCommit
  <2>4. CASE ~UNCHANGED book
    <3>1. /\ contract' = [contract EXCEPT ![b] =
                 [state |-> "OPEN", entry |-> buy[b].entry, settle |-> settle, flagged |-> FALSE]]
          /\ exposure' = [t \in DOMAIN exposure \cup {settle} |->
                             IF t = settle THEN RiskWith(b, settle) ELSE exposure[t]]
          /\ Post({Tx(order[b].acct, "buy", b, -Stake(b), Stake(b), 0)})
      BY <1>5, <2>4 DEF BuyCommit, settle
    <3>2. contract' \in [Buy -> Row]
      <4>1. [state |-> "OPEN", entry |-> buy[b].entry, settle |-> settle, flagged |-> FALSE] \in Row
        BY <2>1 DEF TypeOK, Row, ContractState, Purchase
      <4> QED BY <3>1, <4>1 DEF TypeOK
    <3>3. ledger' \subseteq Entry
      BY <3>1, PostedTypes, PostType DEF TypeOK
    <3>4. RiskAt(settle) \in [Digit -> Int]
      BY DEF TypeOK, RiskAt, NoRisk
    <3>5. RiskWith(b, settle) \in [Digit -> Int]
      BY <3>4, OrderOf DEF RiskWith
    <3>6. /\ DOMAIN exposure' = DOMAIN exposure \cup {settle}
          /\ \A t \in DOMAIN exposure' : exposure'[t] \in [Digit -> Int]
      BY <3>1, <3>5 DEF TypeOK
    <3> QED BY <1>5, <2>1, <2>2, <3>2, <3>3, <3>6 DEF TypeOK, BuyCommit
  <2> QED BY <2>3, <2>4
<1> DEFINE runType == run' \in [Worker -> Run]
<1>6. ASSUME NEW w \in Worker, AdvStep(w) \/ AdvCrash(w) \/ AdvVictim(w) PROVE runType
  <2>1. IdleRun \in Run
    BY DEF IdleRun, Run
  <2>2. ASSUME NEW tx \in Run, RunIs(w, tx) PROVE runType
    BY <2>2 DEF TypeOK, RunIs
  <2>3. /\ run[w] \in Run /\ clock \in Nat /\ lastTick \in Nat
    BY DEF TypeOK
  <2>4. CASE AdvSnapshot(w)
    <3>1. [IdleRun EXCEPT !.pc = "snapshot", !.began = clock, !.from = lastTick, !.cur = lastTick] \in Run
      BY <2>3 DEF IdleRun, Run
    <3> QED BY <2>2, <2>4, <3>1 DEF AdvSnapshot
  <2>5. CASE AdvTryLock(w)
    <3> DEFINE due == clock \div 2
    <3>0. due \in Nat
      BY <2>3
    <3>1. [run[w] EXCEPT !.pc = "running", !.due = due] \in Run
      BY <2>3, <3>0 DEF Run
    <3> QED BY <2>1, <2>2, <2>5, <3>1 DEF AdvTryLock
  <2>6. CASE AdvTick(w)
    <3> DEFINE next == run[w].cur + 1
               todo == OpenOn(run[w].cur + 1)
    <3>1. next \in Nat /\ todo \in SUBSET Buy
      BY <2>3 DEF Run, OpenOn
    <3>2. RunIs(w, [run[w] EXCEPT !.pc = "settling", !.cur = next, !.todo = todo])
      BY <2>6 DEF AdvTick
    <3> HIDE DEF next, todo
    <3>3. [run[w] EXCEPT !.pc = "settling", !.cur = next, !.todo = todo] \in Run
      BY <2>3, <3>1 DEF Run
    <3> QED BY <2>2, <3>2, <3>3
  <2>7. ASSUME NEW b \in Buy, AdvNext(w, b) PROVE runType
    <3> DEFINE todo == run[w].todo \ {b}
    <3>1. todo \in SUBSET Buy
      BY <2>3 DEF Run
    <3>2. RunIs(w, [run[w] EXCEPT !.pc = "locking", !.cid = b, !.todo = todo])
      BY <2>7 DEF AdvNext
    <3> HIDE DEF todo
    <3>3. [run[w] EXCEPT !.pc = "locking", !.cid = b, !.todo = todo] \in Run
      BY <2>3, <3>1 DEF Run
    <3> QED BY <2>2, <3>2, <3>3
  <2>8. CASE AdvLockContract(w)
    <3>1. \A pc \in {"posting", "settling"} : [run[w] EXCEPT !.pc = pc] \in Run
      BY <2>3 DEF Run
    <3> QED BY <2>2, <2>8, <3>1 DEF AdvLockContract
  <2>9. CASE AdvPost(w)
    <3> DEFINE settled == run[w].settled \cup {run[w].cid}
    <3>1. settled \in SUBSET Buy
      BY <2>3, <2>9 DEF Run, LocksExclude, AdvPost
    <3>2. RunIs(w, [run[w] EXCEPT !.pc = "settling", !.settled = settled])
      BY <2>9 DEF AdvPost
    <3> HIDE DEF settled
    <3>3. [run[w] EXCEPT !.pc = "settling", !.settled = settled] \in Run
      BY <2>3, <3>1 DEF Run
    <3> QED BY <2>2, <3>2, <3>3
  <2>10. CASE AdvFlag(w)
    <3> DEFINE flagged == IF contract[run[w].cid].state = "OPEN"
                          THEN run[w].flagged \cup {run[w].cid} ELSE run[w].flagged
    <3>1. flagged \in SUBSET Buy
      BY <2>3, <2>10 DEF Run, LocksExclude, AdvFlag
    <3>2. RunIs(w, [run[w] EXCEPT !.pc = "settling", !.flagged = flagged])
      BY <2>10 DEF AdvFlag
    <3> HIDE DEF flagged
    <3>3. [run[w] EXCEPT !.pc = "settling", !.flagged = flagged] \in Run
      BY <2>3, <3>1 DEF Run
    <3> QED BY <2>2, <3>2, <3>3
  <2>11. CASE AdvTickDone(w)
    <3> DEFINE cleared == IF OpenOn(run[w].cur) \subseteq run[w].settled
                          THEN run[w].cleared \cup {run[w].cur} ELSE run[w].cleared
    <3>1. cleared \in SUBSET Nat
      BY <2>3 DEF Run
    <3>2. RunIs(w, [run[w] EXCEPT !.pc = "running", !.cleared = cleared])
      BY <2>11 DEF AdvTickDone
    <3> HIDE DEF cleared
    <3>3. [run[w] EXCEPT !.pc = "running", !.cleared = cleared] \in Run
      BY <2>3, <3>1 DEF Run
    <3> QED BY <2>2, <3>2, <3>3
  <2>12. CASE AdvCommit(w) \/ AdvCrash(w)
    BY <2>1, <2>2, <2>12 DEF AdvCommit, AdvCrash
  <2>13. CASE AdvVictim(w)
    <3>1. [run[w] EXCEPT !.pc = "flagging"] \in Run
      BY <2>3 DEF Run
    <3> DEFINE tx == IF run[w].pc \in {"locking", "posting"}
                     THEN [run[w] EXCEPT !.pc = "flagging"] ELSE IdleRun
    <3>2. tx \in Run
      BY <2>1, <3>1
    <3>3. RunIs(w, tx)
      BY <2>13 DEF AdvVictim
    <3> HIDE DEF tx
    <3> QED BY <2>2, <3>2, <3>3
  <2> QED BY <1>6, <2>4, <2>5, <2>6, <2>7, <2>8, <2>9, <2>10, <2>11, <2>12, <2>13 DEF AdvStep
<1>7. ASSUME NEW w \in Worker, AdvCommit(w) PROVE TypeOK'
  <2>1. run' \in [Worker -> Run]
    BY <1>6, <1>7 DEF AdvStep
  <2>2. run[w].cur \in Nat /\ run[w].began \in Nat
    BY DEF TypeOK, Run
  <2>3. genAt' \in [Ticks -> Nat \cup {Never}]
    BY <1>7, <2>2 DEF TypeOK, AdvCommit, TickTime
  <2>4. lastTick' \in Nat /\ updatedAt' \in Nat
    BY <1>7, <2>2 DEF TypeOK, AdvCommit
  <2>5. \A b \in Buy : VerdictOf(w, b) \in {"WON", "LOST", "VOID"}
    BY VerdictType DEF VerdictOf
  <2>6. contract' \in [Buy -> Row]
    BY <1>7, <2>5 DEF TypeOK, AdvCommit, Row, ContractState
  <2>7. ledger' \subseteq Entry
    <3>1. run[w].settled \subseteq Buy
      BY DEF TypeOK, Run
    <3>2. {Settlement(b, VerdictOf(w, b)) : b \in run[w].settled} \subseteq Entry
      BY <2>5, <3>1, PostedTypes
    <3> QED BY <1>7, <3>2, PostType DEF TypeOK, AdvCommit
  <2>8. /\ DOMAIN exposure' \subseteq DOMAIN exposure
        /\ \A t \in DOMAIN exposure' : exposure'[t] = exposure[t]
    BY <1>7 DEF AdvCommit
  <2> QED BY <1>7, <2>1, <2>3, <2>4, <2>6, <2>7, <2>8 DEF TypeOK, AdvCommit
<1>8. ASSUME NEW w \in Worker, AdvStep(w) \/ AdvCrash(w) \/ AdvVictim(w) PROVE TypeOK'
  <2>1. run' \in [Worker -> Run]
    BY <1>6, <1>8
  <2>2. CASE AdvCommit(w)
    BY <1>7, <2>2
  <2>3. CASE AdvCrash(w)
    BY <2>1, <2>3 DEF TypeOK, AdvCrash
  <2>4. CASE ~AdvCommit(w) /\ ~AdvCrash(w)
    <3>1. UNCHANGED <<clock, rigid, feed, book, buy, void, crashes>>
      BY <1>8, <2>4 DEF AdvStep, AdvVictim, AdvSnapshot, AdvTryLock, AdvTick, AdvNext,
         AdvLockContract, AdvPost, AdvFlag, AdvTickDone
    <3> QED BY <2>1, <3>1 DEF TypeOK
  <2> QED BY <2>2, <2>3, <2>4
<1>9. ASSUME NEW v \in Staff, VoidStep(v) \/ VoidVictim(v) \/ \E b \in Buy : VoidStart(v, b)
      PROVE TypeOK'
  <2>1. IdleVoid \in Voiding /\ void[v] \in Voiding
    BY DEF TypeOK, IdleVoid, Voiding
  <2>2. [void[v] EXCEPT !.pc = "locked"] \in Voiding
    BY <2>1 DEF Voiding
  <2>3. CASE VoidLock(v)
    BY <2>1, <2>2, <2>3 DEF TypeOK, VoidLock, VoidIs
  <2>4. CASE VoidCommit(v)
    <3>1. void[v].cid \in Buy
      BY <2>4 DEF LocksExclude, VoidCommit
    <3>2. contract' \in [Buy -> Row]
      BY <2>4, <3>1 DEF TypeOK, VoidCommit, Row, ContractState
    <3>3. ledger' \subseteq Entry
      BY <2>4, <3>1, PostedTypes, PostType DEF TypeOK, VoidCommit
    <3> QED BY <2>1, <2>4, <3>2, <3>3 DEF TypeOK, VoidCommit, VoidIs
  <2>5. CASE VoidVictim(v)
    BY <2>1, <2>5 DEF TypeOK, VoidVictim, VoidIs
  <2>6. ASSUME NEW b \in Buy, VoidStart(v, b) PROVE TypeOK'
    <3>1. [pc |-> "waiting", cid |-> b] \in Voiding
      BY DEF Voiding
    <3> QED BY <2>6, <3>1 DEF TypeOK, VoidStart, VoidIs
  <2> QED BY <1>9, <2>3, <2>4, <2>5, <2>6 DEF VoidStep
<1>10. ASSUME NEW a \in Account, Reset(a) PROVE TypeOK'
  <2>1. PICK amount \in 0..OpeningCredit : Post({Tx(a, "reset", NoBuy, amount, 0, -amount)})
    BY <1>10 DEF Reset
  <2>2. amount \in Int /\ -amount \in Int
    BY BoundsAssumption
  <2>3. Tx(a, "reset", NoBuy, amount, 0, -amount) \in Entry
    BY <2>2 DEF Tx, Entry
  <2>4. ledger' \subseteq Entry
    BY <2>1, <2>3, PostType DEF TypeOK
  <2> QED BY <1>10, <2>4 DEF TypeOK, Reset
<1>11. ASSUME NEW b \in Buy, BuyVictim(b) PROVE TypeOK'
  <2>1. [pc |-> "done", began |-> 0, entry |-> 0] \in Purchase
    BY DEF Purchase
  <2> QED BY <1>11, <2>1 DEF TypeOK, BuyVictim, BuyIs, BuyEnds
<1>12. CASE UNCHANGED vars
  BY <1>12 DEF TypeOK, vars
<1> QED BY <1>1, <1>2, <1>3, <1>4, <1>5, <1>8, <1>9, <1>10, <1>11, <1>12 DEF Next, BuyStep, Victim

-----------------------------------------------------------------------------
(* Locks *)

\* Nothing is locked initially.
LEMMA LocksInit == Init => LocksExclude
BY DEF Init, LocksExclude, Advancing, IdleRun, IdleVoid

\* Only a purchase that waits for a lock can be a deadlock victim.
LEMMA NotWaiting ==
    ASSUME NEW b \in Buy, buy[b].pc \notin {"start", "account"}
    PROVE  WaitsFor(b) = {}
BY DEF WaitsFor

\* A run and an owner find a contract unlocked only if nobody holds it.
LEMMA FreeContract ==
    ASSUME NEW b \in Buy, NEW p, ContractLocked(b) \ {p} = {}
    PROVE  /\ \A w \in Worker \ {p} : b \notin run[w].settled /\ ~(run[w].pc = "posting" /\ run[w].cid = b)
           /\ \A v \in Staff \ {p} : ~(void[v].pc = "locked" /\ void[v].cid = b)
BY DEF ContractLocked

\* A purchase cannot disturb what runs and owners have locked: it only opens
\* the contract that carries its own name, which did not exist before.
LEMMA LocksBuy ==
    ASSUME TypeOK, LocksExclude, NEW b \in Buy,
           BuyStart(b) \/ BuyStep(b) \/ BuyVictim(b)
    PROVE  LocksExclude'
<1> USE DEF rigid, feed, book
<1>1. UNCHANGED <<run, void>>
  BY DEF BuyStart, BuyStep, BuyLockAccount, BuyLockIndex, BuyCommit, BuyVictim
<1>2. \E tx : buy' = [buy EXCEPT ![b] = tx]
  BY DEF BuyStart, BuyStep, BuyLockAccount, BuyLockIndex, BuyCommit, BuyVictim, BuyIs, BuyEnds
<1>3. CASE UNCHANGED contract
  <2>1. buy[b].pc # "done"
    <3>1. CASE BuyVictim(b)
      BY <3>1, NotWaiting DEF BuyVictim, Deadlocked
    <3>2. CASE ~BuyVictim(b)
      BY <3>2 DEF BuyStart, BuyStep, BuyLockAccount, BuyLockIndex, BuyCommit
    <3> QED BY <3>1, <3>2
  <2>2. \A c \in Buy : buy'[c].pc # "done" => contract[c].state = "NONE"
    BY <1>2, <2>1 DEF LocksExclude, TypeOK
  <2> QED BY <1>1, <1>3, <2>2 DEF LocksExclude, Advancing
<1>4. CASE ~UNCHANGED contract
  <2>1. BuyCommit(b)
    BY <1>4 DEF BuyStart, BuyStep, BuyLockAccount, BuyLockIndex, BuyVictim
  <2> DEFINE row == [state |-> "OPEN", entry |-> buy[b].entry,
                     settle |-> buy[b].entry + order[b].count - 1, flagged |-> FALSE]
  <2>2. contract' = [contract EXCEPT ![b] = row] /\ row.state = "OPEN"
    BY <1>4, <2>1 DEF BuyCommit
  <2> HIDE DEF row
  <2>3. buy'[b].pc = "done" /\ contract[b].state = "NONE"
    BY <2>1 DEF BuyCommit, BuyEnds, BuyIs, LocksExclude, TypeOK
  <2>4. \A c \in Buy : contract[c].state = "OPEN" => contract'[c].state = "OPEN"
    BY <2>2 DEF TypeOK
  <2>5. \A c \in Buy : buy'[c].pc # "done" => contract'[c].state = "NONE"
    BY <1>2, <2>2, <2>3 DEF LocksExclude, TypeOK
  <2> QED BY <1>1, <2>4, <2>5 DEF LocksExclude, Advancing, TypeOK, Run
<1> QED BY <1>3, <1>4

\* A run's own steps: the advisory lock admits one run, and a contract is
\* posted on only after its row was found open and unlocked.
LEMMA LocksRun ==
    ASSUME TypeOK, LocksExclude, NEW w \in Worker,
           AdvStep(w) \/ AdvCrash(w) \/ AdvVictim(w)
    PROVE  LocksExclude'
<1> USE DEF rigid, feed, book
<1>1. UNCHANGED <<buy, void>>
  BY DEF AdvStep, AdvSnapshot, AdvTryLock, AdvTick, AdvNext, AdvLockContract, AdvPost, AdvFlag,
     AdvTickDone, AdvCommit, AdvCrash, AdvVictim
<1>2. CASE AdvSnapshot(w)
  BY <1>1, <1>2 DEF AdvSnapshot, RunIs, IdleRun, LocksExclude, Advancing, TypeOK
<1>3. CASE AdvTryLock(w)
  BY <1>1, <1>3 DEF AdvTryLock, RunIs, IdleRun, LocksExclude, Advancing, TypeOK, Run
<1>4. CASE AdvTick(w)
  BY <1>1, <1>4 DEF AdvTick, RunIs, LocksExclude, Advancing, TypeOK, Run
<1>5. ASSUME NEW b \in Buy, AdvNext(w, b) PROVE LocksExclude'
  BY <1>1, <1>5 DEF AdvNext, RunIs, LocksExclude, Advancing, TypeOK, Run
<1>6. CASE AdvLockContract(w)
  <2> DEFINE b == run[w].cid
  <2>1. b \in Buy /\ run[w].pc = "locking"
    BY <1>6 DEF AdvLockContract, LocksExclude
  <2>2. ContractLocked(b) \ {w} = {}
    BY <1>6, <2>1, ProcessesAssumption DEF AdvLockContract, WaitsFor
  <2>3. \A v \in Staff : ~(void[v].pc = "locked" /\ void[v].cid = b)
    BY <2>1, <2>2, FreeContract, ProcessesAssumption
  <2> QED BY <1>1, <1>6, <2>1, <2>3 DEF AdvLockContract, RunIs, LocksExclude, Advancing, TypeOK, Run
<1>7. CASE AdvPost(w)
  BY <1>1, <1>7 DEF AdvPost, RunIs, LocksExclude, Advancing, TypeOK, Run
<1>8. CASE AdvFlag(w)
  BY <1>1, <1>8 DEF AdvFlag, RunIs, LocksExclude, Advancing, TypeOK, Run
<1>9. CASE AdvTickDone(w)
  BY <1>1, <1>9 DEF AdvTickDone, RunIs, LocksExclude, Advancing, TypeOK, Run
<1>10. CASE AdvCommit(w)
  <2>1. \A x \in Worker \ {w} : ~Advancing(x) /\ run'[x] = run[x]
    BY <1>10 DEF AdvCommit, RunIs, LocksExclude, Advancing, TypeOK
  <2>2. run'[w] = IdleRun
    BY <1>10 DEF AdvCommit, RunIs, TypeOK
  <2>3. \A b \in Buy \ run[w].settled : contract'[b].state = contract[b].state
    BY <1>10 DEF AdvCommit, TypeOK, Row
  <2>4. \A b \in run[w].settled : contract[b].state = "OPEN"
    BY DEF LocksExclude
  <2>5. \A b \in Buy : contract[b].state = "NONE" => contract'[b].state = "NONE"
    BY <2>3, <2>4
  <2>6. \A v \in Staff : void[v].pc = "locked" => contract'[void[v].cid].state = "OPEN"
    BY <2>3 DEF LocksExclude
  <2> QED BY <1>1, <2>1, <2>2, <2>5, <2>6 DEF LocksExclude, Advancing, IdleRun
<1>11. CASE AdvCrash(w)
  BY <1>1, <1>11 DEF AdvCrash, RunIs, IdleRun, LocksExclude, Advancing, TypeOK, Run
<1>12. CASE AdvVictim(w)
  BY <1>1, <1>12 DEF AdvVictim, RunIs, IdleRun, LocksExclude, Advancing, TypeOK, Run
<1> QED BY <1>2, <1>3, <1>4, <1>5, <1>6, <1>7, <1>8, <1>9, <1>10, <1>11, <1>12 DEF AdvStep

\* An owner's session locks a contract nobody holds, and releases it with
\* its commit or as a deadlock victim.
LEMMA LocksVoid ==
    ASSUME TypeOK, LocksExclude, NEW v \in Staff,
           VoidStep(v) \/ VoidVictim(v) \/ \E b \in Buy : VoidStart(v, b)
    PROVE  LocksExclude'
<1> USE DEF rigid, feed, book
<1>1. UNCHANGED <<buy, run>>
  BY DEF VoidStep, VoidLock, VoidCommit, VoidVictim, VoidStart
<1>2. ASSUME NEW b \in Buy, VoidStart(v, b) PROVE LocksExclude'
  BY <1>1, <1>2 DEF VoidStart, VoidIs, LocksExclude, Advancing, TypeOK
<1>3. CASE VoidVictim(v)
  BY <1>1, <1>3 DEF VoidVictim, VoidIs, IdleVoid, LocksExclude, Advancing, TypeOK
<1>4. CASE VoidLock(v)
  <2> DEFINE b == void[v].cid
  <2>1. b \in Buy /\ void[v].pc = "waiting"
    BY <1>4 DEF VoidLock, LocksExclude
  <2>2. ContractLocked(b) = {}
    BY <1>4, <2>1, ProcessesAssumption DEF VoidLock, WaitsFor
  <2>3. /\ \A w \in Worker : b \notin run[w].settled /\ ~(run[w].pc = "posting" /\ run[w].cid = b)
        /\ \A u \in Staff : ~(void[u].pc = "locked" /\ void[u].cid = b)
    BY <2>1, <2>2 DEF ContractLocked
  <2> QED BY <1>1, <1>4, <2>1, <2>3 DEF VoidLock, VoidIs, IdleVoid, LocksExclude, Advancing, TypeOK, Voiding
<1>5. CASE VoidCommit(v)
  <2> DEFINE b == void[v].cid
  <2>1. /\ b \in Buy /\ void[v].pc = "locked" /\ contract[b].state = "OPEN"
        /\ \A w \in Worker : b \notin run[w].settled /\ (run[w].pc = "posting" => run[w].cid # b)
        /\ \A u \in Staff : void[u].pc = "locked" /\ void[u].cid = b => u = v
    BY <1>5 DEF VoidCommit, LocksExclude
  <2>2. \A c \in Buy \ {b} : contract'[c].state = contract[c].state
    BY <1>5 DEF VoidCommit, TypeOK
  <2>3. void' = [void EXCEPT ![v] = IdleVoid]
    BY <1>5 DEF VoidCommit, VoidIs
  <2>4. \A c \in Buy : contract[c].state = "NONE" => contract'[c].state = "NONE"
    BY <2>1, <2>2
  <2>5. \A u \in Staff : void'[u].pc = "locked" => void'[u] = void[u] /\ void[u].cid # b
    BY <2>1, <2>3 DEF IdleVoid, TypeOK
  <2> QED BY <1>1, <2>1, <2>2, <2>3, <2>4, <2>5 DEF LocksExclude, Advancing, TypeOK, Run, IdleVoid
<1> QED BY <1>2, <1>3, <1>4, <1>5 DEF VoidStep

\* Every step keeps the exclusion of locks.
LEMMA LocksNext == TypeOK /\ LocksExclude /\ [Next]_vars => LocksExclude'
<1> SUFFICES ASSUME TypeOK, LocksExclude, [Next]_vars PROVE LocksExclude'
  OBVIOUS
<1>1. CASE Elapse \/ (\E a \in Account : Reset(a)) \/ UNCHANGED vars
  BY <1>1 DEF Elapse, Reset, vars, LocksExclude, Advancing, book
<1> QED BY <1>1, LocksBuy, LocksRun, LocksVoid DEF Next, Victim

-----------------------------------------------------------------------------
(* A contract is resolved once *)

\* Posting adds exactly the keys it is given, whichever were there before.
LEMMA PostedKeys ==
    ASSUME NEW txs, Post(txs), NEW a, NEW k
    PROVE  HasKey(a, k)' <=> HasKey(a, k) \/ \E x \in txs : x.acct = a /\ x.key = k
BY DEF Post, HasKey

\* Which keys are in the ledger after a step that posts.
LEMMA PostedOne ==
    ASSUME NEW x, Post({x}), order' = order, NEW b
    PROVE  /\ Settled(b)' <=> Settled(b) \/ (x.acct = order[b].acct /\ x.key = <<"settle", b>>)
           /\ Voided(b)' <=> Voided(b) \/ (x.acct = order[b].acct /\ x.key = <<"void", b>>)
<1>1. \A a, k : HasKey(a, k)' <=> HasKey(a, k) \/ (x.acct = a /\ x.key = k)
  BY PostedKeys
<1>2. Settled(b)' <=> HasKey(order[b].acct, <<"settle", b>>)'
  BY DEF Settled, HasKey
<1>3. Voided(b)' <=> HasKey(order[b].acct, <<"void", b>>)'
  BY DEF Voided, HasKey
<1> QED BY <1>1, <1>2, <1>3 DEF Settled, Voided

\* A settlement is posted under its contract's own key and account.
LEMMA SettlementKey ==
    ASSUME NEW b, NEW verdict \in {"WON", "LOST", "VOID"}
    PROVE  Settlement(b, verdict).acct = order[b].acct /\ Settlement(b, verdict).key = <<"settle", b>>
BY DEF Settlement, Refund, Tx

\* While keys of one contract stay as they are and so does its state, so
\* does what is claimed about it.
ResolvedOnceOf(b) ==
    /\ contract[b].state \in {"NONE", "OPEN"} => ~Settled(b) /\ ~Voided(b)
    /\ contract[b].state \in {"WON", "LOST"} => Settled(b) /\ ~Voided(b)
    /\ contract[b].state = "VOID" => (Settled(b) <=> ~Voided(b))

\* No contract exists initially, so none is resolved.
LEMMA ResolvedInit == Init => ResolvedOnce
BY DEF Init, ResolvedOnce, Settled, Voided, HasKey, Tx

\* Every step keeps contracts and ledger in agreement.
LEMMA ResolvedNext == TypeOK /\ LocksExclude /\ ResolvedOnce /\ [Next]_vars => ResolvedOnce'
<1> SUFFICES ASSUME TypeOK, LocksExclude, ResolvedOnce, [Next]_vars, NEW b \in Buy
             PROVE  ResolvedOnceOf(b)'
  BY DEF ResolvedOnce, ResolvedOnceOf
<1> USE DEF rigid, feed, book
<1>0. ResolvedOnceOf(b)
  BY DEF ResolvedOnce, ResolvedOnceOf
<1>1. ASSUME UNCHANGED <<contract, ledger, order>> PROVE ResolvedOnceOf(b)'
  BY <1>0, <1>1 DEF ResolvedOnceOf, Settled, Voided, HasKey
<1>2. ASSUME NEW c \in Buy, BuyCommit(c), ~UNCHANGED book PROVE ResolvedOnceOf(b)'
  <2> DEFINE x == Tx(order[c].acct, "buy", c, -Stake(c), Stake(c), 0)
  <2>1. Post({x}) /\ order' = order
    BY <1>2 DEF BuyCommit
  <2>2. (Settled(b)' <=> Settled(b)) /\ (Voided(b)' <=> Voided(b))
    <3>1. x.key = <<"buy", c>>
      BY DEF Tx
    <3>2. x.key # <<"settle", b>> /\ x.key # <<"void", b>>
      BY <3>1
    <3> HIDE DEF x
    <3> QED BY <2>1, <3>2, PostedOne
  <2>3. contract[c].state = "NONE" /\ contract'[c].state = "OPEN"
    BY <1>2 DEF BuyCommit, LocksExclude, TypeOK
  <2>4. b # c => contract'[b] = contract[b]
    BY <1>2 DEF BuyCommit, TypeOK
  <2> QED BY <1>0, <2>2, <2>3, <2>4 DEF ResolvedOnceOf
<1>3. ASSUME NEW w \in Worker, AdvCommit(w) PROVE ResolvedOnceOf(b)'
  <2> DEFINE txs == {Settlement(c, VerdictOf(w, c)) : c \in run[w].settled}
  <2>1. Post(txs) /\ order' = order
    BY <1>3 DEF AdvCommit
  <2>2. \A c \in run[w].settled :
           /\ VerdictOf(w, c) \in {"WON", "LOST", "VOID"}
           /\ Settlement(c, VerdictOf(w, c)).acct = order[c].acct
           /\ Settlement(c, VerdictOf(w, c)).key = <<"settle", c>>
    BY VerdictType, SettlementKey DEF VerdictOf
  <2>3. Voided(b)' = Voided(b)
    BY <2>1, <2>2, PostedKeys DEF Voided, HasKey
  <2>4. Settled(b)' <=> Settled(b) \/ b \in run[w].settled
    <3>1. HasKey(order[b].acct, <<"settle", b>>)'
            <=> HasKey(order[b].acct, <<"settle", b>>)
                \/ \E x \in txs : x.acct = order[b].acct /\ x.key = <<"settle", b>>
      BY <2>1, PostedKeys
    <3>2. (\E x \in txs : x.acct = order[b].acct /\ x.key = <<"settle", b>>) <=> b \in run[w].settled
      BY <2>2
    <3> QED BY <2>1, <3>1, <3>2 DEF Settled, HasKey
  <2>5. CASE b \in run[w].settled
    <3>1. contract[b].state = "OPEN" /\ contract'[b].state \in {"WON", "LOST", "VOID"}
      BY <1>3, <2>2, <2>5 DEF AdvCommit, LocksExclude, TypeOK, Row
    <3> QED BY <1>0, <2>3, <2>4, <2>5, <3>1 DEF ResolvedOnceOf
  <2>6. CASE b \notin run[w].settled
    <3>1. contract'[b].state = contract[b].state
      BY <1>3, <2>6 DEF AdvCommit, TypeOK, Row
    <3> QED BY <1>0, <2>3, <2>4, <2>6, <3>1 DEF ResolvedOnceOf
  <2> QED BY <2>5, <2>6
<1>4. ASSUME NEW v \in Staff, VoidCommit(v) PROVE ResolvedOnceOf(b)'
  <2> DEFINE c == void[v].cid
  <2>1. Post({Refund("void", c)}) /\ order' = order
    BY <1>4 DEF VoidCommit
  <2>2. Refund("void", c).acct = order[c].acct /\ Refund("void", c).key = <<"void", c>>
    BY DEF Refund, Tx
  <2>3. (Settled(b)' <=> Settled(b)) /\ (Voided(b)' <=> Voided(b) \/ b = c)
    BY <2>1, <2>2, PostedOne
  <2>4. c \in Buy /\ contract[c].state = "OPEN" /\ contract'[c].state = "VOID"
    BY <1>4 DEF VoidCommit, LocksExclude, TypeOK, Row
  <2>5. b # c => contract'[b] = contract[b]
    BY <1>4 DEF VoidCommit, TypeOK
  <2> QED BY <1>0, <2>3, <2>4, <2>5 DEF ResolvedOnceOf
<1>5. ASSUME NEW a \in Account, Reset(a) PROVE ResolvedOnceOf(b)'
  <2>1. PICK amount \in 0..OpeningCredit : Post({Tx(a, "reset", NoBuy, amount, 0, -amount)})
    BY <1>5 DEF Reset
  <2>2. (Settled(b)' <=> Settled(b)) /\ (Voided(b)' <=> Voided(b))
    <3>1. Tx(a, "reset", NoBuy, amount, 0, -amount).key = <<"reset", NoBuy>>
      BY DEF Tx
    <3>2. order' = order
      BY <1>5 DEF Reset
    <3> QED BY <2>1, <3>1, <3>2, PostedOne
  <2> QED BY <1>0, <1>5, <2>2 DEF Reset, ResolvedOnceOf
<1>6. ASSUME NEW c \in Buy, BuyStart(c) \/ BuyStep(c) \/ BuyVictim(c) PROVE ResolvedOnceOf(b)'
  BY <1>1, <1>2, <1>6 DEF BuyStart, BuyStep, BuyLockAccount, BuyLockIndex, BuyCommit, BuyVictim
<1>7. ASSUME NEW w \in Worker, AdvStep(w) \/ AdvCrash(w) \/ AdvVictim(w) PROVE ResolvedOnceOf(b)'
  BY <1>1, <1>3, <1>7 DEF AdvStep, AdvSnapshot, AdvTryLock, AdvTick, AdvNext, AdvLockContract, AdvPost,
     AdvFlag, AdvTickDone, AdvCrash, AdvVictim
<1>8. ASSUME NEW v \in Staff, VoidStep(v) \/ VoidVictim(v) \/ \E c \in Buy : VoidStart(v, c)
      PROVE  ResolvedOnceOf(b)'
  BY <1>1, <1>4, <1>8 DEF VoidStep, VoidLock, VoidVictim, VoidStart
<1>9. CASE Elapse \/ UNCHANGED vars
  BY <1>1, <1>9 DEF Elapse, vars
<1> QED BY <1>5, <1>6, <1>7, <1>8, <1>9 DEF Next, Victim

-----------------------------------------------------------------------------
(* Settlement misses no contract *)

\* No run has written anything initially.
LEMMA CoversInit == Init => RunCoversTicks
BY DEF Init, RunCoversTicks, Advancing, IdleRun

\* A purchase that commits while a run is past its lock opens a contract on a
\* tick no run has written: had one been written, the purchase would wait.
LEMMA CoversBuy ==
    ASSUME TypeOK, LocksExclude, RunCoversTicks, NEW b \in Buy,
           BuyStart(b) \/ BuyStep(b) \/ BuyVictim(b)
    PROVE  RunCoversTicks'
<1> USE DEF rigid, feed, book
<1>1. UNCHANGED <<clock, genAt, run>>
  BY DEF BuyStart, BuyStep, BuyLockAccount, BuyLockIndex, BuyCommit, BuyVictim
<1>2. \A c \in Buy \ {b} : buy'[c] = buy[c]
  BY DEF BuyStart, BuyStep, BuyLockAccount, BuyLockIndex, BuyCommit, BuyVictim, BuyIs, BuyEnds, TypeOK
<1>3. CASE BuyLockIndex(b)
  <2>1. UNCHANGED contract
    BY <1>3 DEF BuyLockIndex
  <2>2. \A w \in Worker : Advancing(w) => run[w].cur = run[w].from
    <3>1. StateWritten = {}
      BY <1>3 DEF BuyLockIndex, WaitsFor
    <3>2. \A w \in Worker : Advancing(w) => ~(run[w].cur > run[w].from)
      BY <3>1 DEF StateWritten
    <3>3. \A w \in Worker : run[w].from \in Nat /\ run[w].cur \in Nat
      BY DEF TypeOK, Run
    <3>4. \A w \in Worker : Advancing(w) => run[w].from <= run[w].cur
      BY DEF RunCoversTicks
    <3> QED BY <3>2, <3>3, <3>4
  <2>3. buy'[b].pc = "entered" => \A t \in Ticks : genAt[t] # Never => t < buy'[b].entry
    <3>1. SUFFICES ASSUME buy'[b].pc = "entered", NEW t \in Ticks, genAt[t] # Never
                   PROVE  t < buy'[b].entry
      OBVIOUS
    <3>2. buy'[b].entry = EntryTick(lastTick, clock)
      <4> DEFINE e == EntryTick(lastTick, clock)
                 done == [pc |-> "done", began |-> 0, entry |-> 0]
      <4>1. buy[b] \in Purchase
        BY DEF TypeOK
      <4>2. [buy[b] EXCEPT !.pc = "entered", !.entry = e].entry = e
        BY <4>1 DEF Purchase
      <4>3. done.pc # "entered"
        OBVIOUS
      <4> HIDE DEF done, e
      <4>4. buy' = [buy EXCEPT ![b] = done] \/ buy' = [buy EXCEPT ![b] = [buy[b] EXCEPT !.pc = "entered", !.entry = e]]
        BY <1>3 DEF BuyLockIndex, BuyIs, BuyEnds, e, done
      <4>5. buy'[b] = done \/ buy'[b] = [buy[b] EXCEPT !.pc = "entered", !.entry = e]
        BY <4>4 DEF TypeOK
      <4> QED BY <3>1, <4>2, <4>3, <4>5 DEF e
    <3>3. EntryTick(lastTick, clock) \in Nat /\ 2 * EntryTick(lastTick, clock) > clock
      BY EntryTickIsAhead DEF TypeOK
    <3>4. 2 * t <= clock /\ t \in Nat /\ clock \in Nat
      BY <3>1 DEF RunCoversTicks, TypeOK, Ticks
    <3> QED BY <3>2, <3>3, <3>4
  <2> QED BY <1>1, <1>2, <2>1, <2>2, <2>3 DEF RunCoversTicks, Advancing, Holds
<1>4. CASE ~BuyLockIndex(b)
  <2>1. buy'[b].pc # "entered"
    BY <1>4 DEF BuyStart, BuyStep, BuyLockAccount, BuyCommit, BuyVictim, BuyIs, BuyEnds, TypeOK, Purchase
  <2>2. CASE UNCHANGED contract
    BY <1>1, <1>2, <2>1, <2>2 DEF RunCoversTicks, Advancing, Holds
  <2>3. CASE ~UNCHANGED contract
    <3>1. BuyCommit(b) /\ buy[b].pc = "entered"
      BY <1>4, <2>3 DEF BuyStart, BuyStep, BuyLockAccount, BuyCommit, BuyVictim
    <3>2. \A w \in Worker : Advancing(w) => run[w].cur = run[w].from /\ run[w].from \in Nat
      BY <3>1 DEF RunCoversTicks, TypeOK, Run
    <3>3. \A n \in Nat : n + 1 .. n = {}
      OBVIOUS
    <3> QED BY <1>1, <1>2, <2>1, <3>2, <3>3 DEF RunCoversTicks, Advancing
  <2> QED BY <2>2, <2>3
<1> QED BY <1>3, <1>4

\* What RunCoversTicks says of one run, whose record is r.
HoldsOf(r) == IF r.pc \in {"locking", "posting", "flagging"} THEN {r.cid} ELSE {}
Covers(r) ==
    /\ r.pc = "snapshot" => r.cur = r.from
    /\ r.pc \notin {"idle", "snapshot"} =>
         /\ r.from <= r.cur /\ 2 * r.due <= clock
         /\ r.cur > r.from => r.cur <= r.due
         /\ \A b \in Buy : contract[b].state = "OPEN" /\ contract[b].settle \in r.from + 1 .. r.cur
              => \/ b \in r.settled \cup r.flagged
                 \/ contract[b].settle = r.cur /\ r.pc # "running" /\ b \in r.todo \cup HoldsOf(r)
         /\ \A b \in Buy : buy[b].pc = "entered" => r.cur = r.from

\* RunCoversTicks is what it says of the ticks, of each run and of each purchase.
LEMMA CoversParts ==
    RunCoversTicks <=>
        /\ \A t \in Ticks : genAt[t] # Never => 2 * t <= clock
        /\ \A w \in Worker : Covers(run[w])
        /\ \A b \in Buy : buy[b].pc = "entered" => \A t \in Ticks : genAt[t] # Never => t < buy[b].entry
BY DEF RunCoversTicks, Covers, Advancing, Holds, HoldsOf

\* A step of one run that writes no table is judged by that run alone.
LEMMA CoversLocal ==
    ASSUME TypeOK, RunCoversTicks, NEW w \in Worker, NEW r, run' = [run EXCEPT ![w] = r],
           UNCHANGED <<clock, genAt, contract, buy>>, Covers(r)
    PROVE  RunCoversTicks'
<1>1. run'[w] = r /\ \A x \in Worker \ {w} : run'[x] = run[x]
  BY DEF TypeOK
<1>2. \A x \in Worker : Covers(run'[x])
  BY <1>1, CoversParts
<1>3. \A x \in Worker : Covers(run[x])'
  BY <1>2 DEF Covers, HoldsOf
<1> QED BY <1>3, CoversParts DEF RunCoversTicks, Covers, Advancing, Holds, HoldsOf

\* The steps by which a run works through its ticks.
LEMMA CoversSteps ==
    ASSUME TypeOK, LocksExclude, RunCoversTicks, NEW w \in Worker,
           AdvStep(w) \/ AdvCrash(w) \/ AdvVictim(w), ~AdvCommit(w)
    PROVE  RunCoversTicks'
<1> DEFINE q == run[w]
<1> USE DEF rigid, feed, book
<1>1. UNCHANGED <<clock, genAt, contract, buy>>
  BY DEF AdvStep, AdvSnapshot, AdvTryLock, AdvTick, AdvNext, AdvLockContract, AdvPost, AdvFlag,
     AdvTickDone, AdvCrash, AdvVictim
<1>2. q \in Run /\ Covers(q)
  BY CoversParts DEF TypeOK
<1>3. Covers(IdleRun)
  BY DEF Covers, IdleRun
<1>4. CASE AdvSnapshot(w)
  <2> DEFINE r == [IdleRun EXCEPT !.pc = "snapshot", !.began = clock, !.from = lastTick, !.cur = lastTick]
  <2>1. r.pc = "snapshot" /\ r.cur = r.from
    BY DEF IdleRun
  <2>2. run' = [run EXCEPT ![w] = r]
    BY <1>4 DEF AdvSnapshot, RunIs
  <2> HIDE DEF r
  <2>3. Covers(r)
    BY <2>1 DEF Covers
  <2> QED BY <1>1, <2>2, <2>3, CoversLocal
<1>5. CASE AdvTryLock(w)
  <2> DEFINE r == [q EXCEPT !.pc = "running", !.due = clock \div 2]
  <2>1. /\ r.pc = "running" /\ r.due = clock \div 2 /\ r.from = q.from /\ r.cur = q.cur
    BY <1>2 DEF Run
  <2>2. run' = [run EXCEPT ![w] = IdleRun] \/ run' = [run EXCEPT ![w] = r]
    BY <1>5 DEF AdvTryLock, RunIs
  <2> HIDE DEF r
  <2>3. r.cur = r.from /\ r.from \in Nat
    BY <1>2, <1>5, <2>1 DEF Covers, AdvTryLock, Run
  <2>4. 2 * r.due <= clock
    BY <2>1 DEF TypeOK
  <2>5. Covers(r)
    BY <2>1, <2>3, <2>4 DEF Covers
  <2> QED BY <1>1, <1>3, <2>2, <2>5, CoversLocal
<1>6. CASE AdvTick(w)
  <2> DEFINE r == [q EXCEPT !.pc = "settling", !.cur = @ + 1, !.todo = OpenOn(q.cur + 1)]
  <2>1. /\ r.pc = "settling" /\ r.cur = q.cur + 1 /\ r.from = q.from /\ r.due = q.due
        /\ r.settled = q.settled /\ r.flagged = q.flagged /\ r.todo = OpenOn(q.cur + 1)
    BY <1>2 DEF Run
  <2>2. run' = [run EXCEPT ![w] = r]
    BY <1>6 DEF AdvTick, RunIs
  <2> HIDE DEF r
  <2>3. q.pc = "running" /\ q.cur < LastOfRun(w) /\ StateShared = {}
    BY <1>6, ProcessesAssumption DEF AdvTick, WaitsFor
  <2>4. q.cur \in Nat /\ q.from \in Nat /\ q.due \in Nat /\ clock \in Nat
    BY <1>2 DEF Run, TypeOK
  <2>5. q.cur + 1 <= q.due
    <3>1. q.from + Batch \in Nat
      BY <2>4, BoundsAssumption
    <3> DEFINE x == q.due
               y == q.from + Batch
    <3>2. x \in Int /\ y \in Int /\ LastOfRun(w) = Min({x, y})
      BY <2>4, <3>1 DEF LastOfRun
    <3> HIDE DEF x, y
    <3>3. Min({x, y}) \in {x, y} /\ Min({x, y}) <= x
      BY <3>2, MinOfTwo
    <3>4. LastOfRun(w) \in Int /\ LastOfRun(w) <= q.due
      BY <3>2, <3>3 DEF x
    <3> QED BY <2>3, <2>4, <3>4
  <2>6. q.from <= q.cur /\ 2 * q.due <= clock
    BY <1>2, <2>3 DEF Covers
  <2>7. \A b \in Buy : contract[b].state = "OPEN" /\ contract[b].settle \in q.from + 1 .. q.cur
          => b \in q.settled \cup q.flagged
    BY <1>2, <2>3 DEF Covers
  <2>8. \A b \in Buy : contract[b].state = "OPEN" /\ contract[b].settle = q.cur + 1 => b \in r.todo
    BY <2>1 DEF OpenOn
  <2>9. \A n : n \in q.from + 1 .. q.cur + 1 => n = q.cur + 1 \/ n \in q.from + 1 .. q.cur
    BY <2>4
  <2>10. Covers(r)
    BY <2>1, <2>3, <2>4, <2>5, <2>6, <2>7, <2>8, <2>9 DEF Covers, StateShared
  <2> QED BY <1>1, <2>2, <2>10, CoversLocal
<1>7. ASSUME NEW b \in Buy, AdvNext(w, b) PROVE RunCoversTicks'
  <2> DEFINE r == [q EXCEPT !.pc = "locking", !.cid = b, !.todo = @ \ {b}]
  <2>1. /\ r.pc = "locking" /\ r.cid = b /\ r.todo = q.todo \ {b} /\ r.cur = q.cur /\ r.from = q.from
        /\ r.due = q.due /\ r.settled = q.settled /\ r.flagged = q.flagged
    BY <1>2 DEF Run
  <2>2. run' = [run EXCEPT ![w] = r] /\ q.pc = "settling"
    BY <1>7 DEF AdvNext, RunIs
  <2> HIDE DEF r
  <2>3. Covers(r)
    BY <1>2, <2>1, <2>2 DEF Covers, HoldsOf
  <2> QED BY <1>1, <2>2, <2>3, CoversLocal
<1>8. CASE AdvLockContract(w)
  <2> DEFINE r == [q EXCEPT !.pc = IF contract[q.cid].state = "OPEN" THEN "posting" ELSE "settling"]
  <2>1. /\ r.pc = (IF contract[q.cid].state = "OPEN" THEN "posting" ELSE "settling")
        /\ r.cid = q.cid /\ r.todo = q.todo /\ r.cur = q.cur /\ r.from = q.from
        /\ r.due = q.due /\ r.settled = q.settled /\ r.flagged = q.flagged
    BY <1>2 DEF Run
  <2>2. run' = [run EXCEPT ![w] = r] /\ q.pc = "locking"
    BY <1>8 DEF AdvLockContract, RunIs
  <2> HIDE DEF r
  <2>3. Covers(r)
    BY <1>2, <2>1, <2>2 DEF Covers, HoldsOf
  <2> QED BY <1>1, <2>2, <2>3, CoversLocal
<1>9. CASE AdvPost(w)
  <2> DEFINE r == [q EXCEPT !.pc = "settling", !.settled = @ \cup {q.cid}]
  <2>1. /\ r.pc = "settling" /\ r.todo = q.todo /\ r.cur = q.cur /\ r.from = q.from
        /\ r.due = q.due /\ r.settled = q.settled \cup {q.cid} /\ r.flagged = q.flagged
    BY <1>2 DEF Run
  <2>2. run' = [run EXCEPT ![w] = r] /\ q.pc = "posting"
    BY <1>9 DEF AdvPost, RunIs
  <2> HIDE DEF r
  <2>3. Covers(r)
    BY <1>2, <2>1, <2>2 DEF Covers, HoldsOf
  <2> QED BY <1>1, <2>2, <2>3, CoversLocal
<1>10. CASE AdvFlag(w)
  <2> DEFINE r == [q EXCEPT !.pc = "settling",
                     !.flagged = IF contract[q.cid].state = "OPEN" THEN @ \cup {q.cid} ELSE @]
  <2>1. /\ r.pc = "settling" /\ r.todo = q.todo /\ r.cur = q.cur /\ r.from = q.from
        /\ r.due = q.due /\ r.settled = q.settled
        /\ r.flagged = IF contract[q.cid].state = "OPEN" THEN q.flagged \cup {q.cid} ELSE q.flagged
    BY <1>2 DEF Run
  <2>2. run' = [run EXCEPT ![w] = r] /\ q.pc = "flagging"
    BY <1>10 DEF AdvFlag, RunIs
  <2> HIDE DEF r
  <2>3. Covers(r)
    BY <1>2, <2>1, <2>2 DEF Covers, HoldsOf
  <2> QED BY <1>1, <2>2, <2>3, CoversLocal
<1>11. CASE AdvTickDone(w)
  <2> DEFINE r == [q EXCEPT !.pc = "running",
                     !.cleared = IF OpenOn(q.cur) \subseteq q.settled THEN @ \cup {q.cur} ELSE @]
  <2>1. /\ r.pc = "running" /\ r.cur = q.cur /\ r.from = q.from
        /\ r.due = q.due /\ r.settled = q.settled /\ r.flagged = q.flagged
    BY <1>2 DEF Run
  <2>2. run' = [run EXCEPT ![w] = r] /\ q.pc = "settling" /\ q.todo = {}
    BY <1>11 DEF AdvTickDone, RunIs
  <2> HIDE DEF r
  <2>3. Covers(r)
    BY <1>2, <2>1, <2>2 DEF Covers, HoldsOf
  <2> QED BY <1>1, <2>2, <2>3, CoversLocal
<1>12. CASE AdvCrash(w)
  BY <1>1, <1>3, <1>12, CoversLocal DEF AdvCrash, RunIs
<1>13. CASE AdvVictim(w)
  <2> DEFINE r == [q EXCEPT !.pc = "flagging"]
  <2>1. /\ r.pc = "flagging" /\ r.cid = q.cid /\ r.todo = q.todo /\ r.cur = q.cur /\ r.from = q.from
        /\ r.due = q.due /\ r.settled = q.settled /\ r.flagged = q.flagged
    BY <1>2 DEF Run
  <2>2. \/ run' = [run EXCEPT ![w] = IdleRun]
        \/ run' = [run EXCEPT ![w] = r] /\ q.pc \in {"locking", "posting"}
    BY <1>13 DEF AdvVictim, RunIs
  <2> HIDE DEF r
  <2>3. q.pc \in {"locking", "posting"} => Covers(r)
    BY <1>2, <2>1 DEF Covers, HoldsOf
  <2> QED BY <1>1, <1>3, <2>2, <2>3, CoversLocal
<1> QED BY <1>4, <1>5, <1>6, <1>7, <1>8, <1>9, <1>10, <1>11, <1>12, <1>13 DEF AdvStep

\* A commit publishes only what was due, and only while no purchase stands
\* between its entry tick and its own commit.
LEMMA CoversCommit ==
    ASSUME TypeOK, LocksExclude, RunCoversTicks, NEW w \in Worker, AdvCommit(w)
    PROVE  RunCoversTicks'
<1> DEFINE q == run[w]
<1>1. /\ Advancing(w) /\ q \in Run /\ Covers(q) /\ q.pc = "running"
      /\ q.from \in Nat /\ q.cur \in Nat /\ q.due \in Nat
  BY CoversParts DEF AdvCommit, Advancing, TypeOK, Run
<1>2. UNCHANGED <<clock, buy>> /\ run' = [run EXCEPT ![w] = IdleRun]
  BY DEF AdvCommit, RunIs
<1>3. \A t \in Ticks : genAt'[t] # Never => genAt[t] # Never \/ t \in q.from + 1 .. q.cur
  BY DEF AdvCommit
<1>4. \A t \in Ticks : t \in q.from + 1 .. q.cur => 2 * t <= clock
  <2>1. 2 * q.due <= clock /\ (q.cur > q.from => q.cur <= q.due)
    BY <1>1 DEF Covers
  <2>2. clock \in Nat
    BY DEF TypeOK
  <2> QED BY <1>1, <2>1, <2>2 DEF Ticks
<1>5. \A t \in Ticks : (genAt[t] # Never => 2 * t <= clock)'
  BY <1>2, <1>3, <1>4, CoversParts
<1>6. \A x \in Worker : Covers(run[x])'
  <2>1. \A x \in Worker \ {w} : ~Advancing(x) /\ run'[x] = run[x]
    BY <1>1, <1>2 DEF LocksExclude, TypeOK
  <2>2. run'[w].pc = "idle"
    BY <1>2 DEF TypeOK, IdleRun
  <2>3. \A x \in Worker \ {w} : run[x].pc = "snapshot" => run[x].cur = run[x].from
    BY CoversParts DEF Covers
  <2> QED BY <2>1, <2>2, <2>3 DEF Covers, Advancing
<1>7. ASSUME NEW b \in Buy, buy[b].pc = "entered", NEW t \in Ticks, genAt'[t] # Never
      PROVE  t < buy[b].entry
  <2>1. q.cur = q.from
    BY <1>1, <1>7 DEF Covers
  <2>2. t \notin q.from + 1 .. q.cur
    BY <1>1, <2>1 DEF Ticks
  <2> QED BY <1>3, <1>7, <2>2, CoversParts
<1>8. \A b \in Buy : (buy[b].pc = "entered" => \A t \in Ticks : genAt[t] # Never => t < buy[b].entry)'
  BY <1>2, <1>7
<1>9. /\ (\A t \in Ticks : genAt[t] # Never => 2 * t <= clock)'
      /\ (\A x \in Worker : Covers(run[x]))'
      /\ (\A b \in Buy : buy[b].pc = "entered" => \A t \in Ticks : genAt[t] # Never => t < buy[b].entry)'
  BY <1>5, <1>6, <1>8
<1> QED BY <1>9 DEF RunCoversTicks, Covers, Advancing, Holds, HoldsOf

\* An owner only takes contracts out of what a run has to cover.
LEMMA CoversVoid ==
    ASSUME TypeOK, LocksExclude, RunCoversTicks, NEW v \in Staff,
           VoidStep(v) \/ VoidVictim(v) \/ \E b \in Buy : VoidStart(v, b)
    PROVE  RunCoversTicks'
<1> USE DEF rigid, feed, book
<1>1. UNCHANGED <<clock, genAt, run, buy>>
  BY DEF VoidStep, VoidLock, VoidCommit, VoidVictim, VoidStart
<1>2. \A b \in Buy : contract'[b].state = "OPEN" => contract'[b] = contract[b]
  <2>1. CASE VoidCommit(v)
    <3>1. contract' = [contract EXCEPT ![void[v].cid].state = "VOID"] /\ void[v].cid \in Buy
      BY <2>1 DEF VoidCommit, LocksExclude
    <3> QED BY <3>1 DEF TypeOK, Row
  <2>2. CASE ~VoidCommit(v)
    BY <2>2 DEF VoidStep, VoidLock, VoidVictim, VoidStart
  <2> QED BY <2>1, <2>2
<1> QED BY <1>1, <1>2 DEF RunCoversTicks, Advancing, Holds

\* Time, resets and stuttering leave the relation between ticks and runs.
LEMMA CoversNext == TypeOK /\ LocksExclude /\ RunCoversTicks /\ [Next]_vars => RunCoversTicks'
<1> SUFFICES ASSUME TypeOK, LocksExclude, RunCoversTicks, [Next]_vars PROVE RunCoversTicks'
  OBVIOUS
<1>1. CASE Elapse
  <2>1. clock' = clock + 1 /\ clock \in Nat /\ UNCHANGED <<genAt, contract, run, buy>>
    BY <1>1 DEF Elapse, TypeOK, feed, book
  <2>2. \A x \in Nat : 2 * x <= clock => 2 * x <= clock'
    BY <2>1
  <2>3. Ticks \subseteq Nat /\ \A w \in Worker : run[w].due \in Nat
    BY DEF Ticks, TypeOK, Run
  <2> QED BY <2>1, <2>2, <2>3 DEF RunCoversTicks, Advancing, Holds
<1>2. CASE (\E a \in Account : Reset(a)) \/ UNCHANGED vars
  BY <1>2 DEF Reset, vars, RunCoversTicks, Advancing, Holds, feed
<1>3. ASSUME NEW w \in Worker, AdvStep(w) \/ AdvCrash(w) \/ AdvVictim(w) PROVE RunCoversTicks'
  BY <1>3, CoversSteps, CoversCommit
<1> QED BY <1>1, <1>2, <1>3, CoversBuy, CoversVoid DEF Next, Victim

\* No tick is published initially.
LEMMA MissedInit == Init => NoMissedSettlement
BY DEF Init, NoMissedSettlement

\* A new contract settles after every published tick, and a commit leaves no
\* open contract on the ticks it publishes that it has not flagged.
LEMMA MissedNext ==
    TypeOK /\ LocksExclude /\ RunCoversTicks /\ NoMissedSettlement /\ [Next]_vars => NoMissedSettlement'
<1> SUFFICES ASSUME TypeOK, LocksExclude, RunCoversTicks, NoMissedSettlement, [Next]_vars,
                    NEW b \in Buy, contract'[b].state = "OPEN",
                    contract'[b].settle \in Ticks, genAt'[contract'[b].settle] # Never
             PROVE  contract'[b].flagged
  BY DEF NoMissedSettlement, Published
<1> USE DEF rigid, feed, book
<1>0. contract[b].state = "OPEN" /\ contract[b].settle \in Ticks /\ genAt[contract[b].settle] # Never
        => contract[b].flagged
  BY DEF NoMissedSettlement, Published
<1>1. ASSUME UNCHANGED <<contract, genAt>> PROVE contract'[b].flagged
  BY <1>0, <1>1
<1>2. ASSUME NEW c \in Buy, BuyCommit(c), ~UNCHANGED book PROVE contract'[b].flagged
  <2> DEFINE s == buy[c].entry + order[c].count - 1
             row == [state |-> "OPEN", entry |-> buy[c].entry, settle |-> s, flagged |-> FALSE]
  <2>1. contract' = [contract EXCEPT ![c] = row] /\ genAt' = genAt /\ buy[c].pc = "entered"
    BY <1>2 DEF BuyCommit
  <2>2. s >= buy[c].entry
    <3>1. order[c].count \in Nat \ {0} /\ buy[c].entry \in Nat
      BY OrderOf DEF TypeOK, Purchase
    <3> QED BY <3>1
  <2>3. row.settle = s
    OBVIOUS
  <2> HIDE DEF row, s
  <2>4. CASE b = c
    <3>1. contract'[b] = row
      BY <2>1, <2>4 DEF TypeOK
    <3>2. s \in Ticks /\ s < buy[c].entry
      BY <2>1, <2>3, <3>1 DEF RunCoversTicks
    <3>3. s \in Int /\ buy[c].entry \in Int
      BY <3>2 DEF Ticks, TypeOK, Purchase
    <3> QED BY <2>2, <3>2, <3>3
  <2>5. CASE b # c
    BY <1>0, <2>1, <2>5 DEF TypeOK
  <2> QED BY <2>4, <2>5
<1>3. ASSUME NEW w \in Worker, AdvCommit(w) PROVE contract'[b].flagged
  <2> DEFINE q == run[w]
  <2>1. b \notin q.settled
    BY <1>3, VerdictType DEF AdvCommit, VerdictOf, TypeOK, Row
  <2>2. contract'[b] = IF b \in q.flagged THEN [contract[b] EXCEPT !.flagged = TRUE] ELSE contract[b]
    BY <1>3, <2>1 DEF AdvCommit
  <2>3. contract[b] \in Row
    BY DEF TypeOK
  <2>4. CASE b \in q.flagged
    BY <2>2, <2>3, <2>4 DEF Row
  <2>5. CASE b \notin q.flagged
    <3>1. contract'[b] = contract[b]
      BY <2>2, <2>5
    <3>2. contract[b].settle \notin q.from + 1 .. q.cur
      BY <1>3, <2>1, <2>5, <3>1 DEF AdvCommit, RunCoversTicks, Advancing
    <3>3. genAt'[contract[b].settle] = genAt[contract[b].settle]
      BY <1>3, <3>1, <3>2 DEF AdvCommit
    <3> QED BY <1>0, <3>1, <3>3
  <2> QED BY <2>4, <2>5
<1>4. ASSUME NEW v \in Staff, VoidCommit(v) PROVE contract'[b].flagged
  <2>1. contract' = [contract EXCEPT ![void[v].cid].state = "VOID"] /\ genAt' = genAt /\ void[v].cid \in Buy
    BY <1>4 DEF VoidCommit, LocksExclude
  <2>2. contract'[b] = contract[b]
    BY <2>1 DEF TypeOK, Row
  <2> QED BY <1>0, <2>1, <2>2
<1>5. ASSUME NEW c \in Buy, BuyStart(c) \/ BuyStep(c) \/ BuyVictim(c) PROVE contract'[b].flagged
  BY <1>1, <1>2, <1>5 DEF BuyStart, BuyStep, BuyLockAccount, BuyLockIndex, BuyCommit, BuyVictim
<1>6. ASSUME NEW w \in Worker, AdvStep(w) \/ AdvCrash(w) \/ AdvVictim(w) PROVE contract'[b].flagged
  BY <1>1, <1>3, <1>6 DEF AdvStep, AdvSnapshot, AdvTryLock, AdvTick, AdvNext, AdvLockContract, AdvPost,
     AdvFlag, AdvTickDone, AdvCrash, AdvVictim
<1>7. ASSUME NEW v \in Staff, VoidStep(v) \/ VoidVictim(v) \/ \E c \in Buy : VoidStart(v, c)
      PROVE  contract'[b].flagged
  BY <1>1, <1>4, <1>7 DEF VoidStep, VoidLock, VoidVictim, VoidStart
<1>8. CASE Elapse \/ (\E a \in Account : Reset(a)) \/ UNCHANGED vars
  BY <1>1, <1>8 DEF Elapse, Reset, vars
<1> QED BY <1>5, <1>6, <1>7, <1>8 DEF Next, Victim

-----------------------------------------------------------------------------
(* The theorems *)

\* In every reachable state of the engine, whatever the number of accounts,
\* purchases, runs and owners: the tables are well typed, locks exclude each
\* other, runs cover the ticks they write, contracts are resolved once and
\* settlement misses none.
THEOREM InvariantHolds == Spec => []IInv
<1>1. Init => IInv
  BY TypeInit, LocksInit, CoversInit, ResolvedInit, MissedInit DEF IInv
<1>2. IInv /\ [Next]_vars => IInv'
  BY TypeNext, LocksNext, CoversNext, ResolvedNext, MissedNext DEF IInv
<1> QED BY <1>1, <1>2, PTL DEF Spec

\* Every table and every transaction keeps its type.
THEOREM TypeCorrect == Spec => []TypeOK
<1>1. IInv => TypeOK
  BY DEF IInv
<1> QED BY <1>1, InvariantHolds, PTL

\* engine_settle_contract and void_contract, between them, resolve and pay a
\* contract once, though they post under different idempotency keys.
THEOREM ContractsResolvedOnce == Spec => []ResolvedOnce
<1>1. IInv => ResolvedOnce
  BY DEF IInv
<1> QED BY <1>1, InvariantHolds, PTL

\* No purchase slips in behind the settlement of its tick: a published tick
\* leaves only flagged contracts open.
THEOREM SettlementMissesNone == Spec => []NoMissedSettlement
<1>1. IInv => NoMissedSettlement
  BY DEF IInv
<1> QED BY <1>1, InvariantHolds, PTL

-----------------------------------------------------------------------------
(* What a purchase may commit to, and what a run may do to published ticks *)

\* Only a purchase opens a contract.
LEMMA OnlyPurchasesOpen ==
    ASSUME TypeOK, LocksExclude, [Next]_vars, NEW b \in Buy,
           contract[b].state = "NONE", contract'[b].state = "OPEN"
    PROVE  BuyCommit(b)
<1> USE DEF rigid, feed, book
<1>1. contract' # contract
  BY DEF TypeOK
<1>2. ASSUME NEW c \in Buy, BuyCommit(c) PROVE BuyCommit(b)
  <2>1. \E row : contract' = [contract EXCEPT ![c] = row]
    BY <1>1, <1>2 DEF BuyCommit
  <2>2. b = c
    BY <2>1 DEF TypeOK
  <2> QED BY <1>2, <2>2
<1>3. ASSUME NEW w \in Worker, AdvCommit(w) PROVE FALSE
  <2>1. b \notin run[w].settled
    BY DEF LocksExclude
  <2>2. contract'[b].state = contract[b].state
    BY <1>3, <2>1 DEF AdvCommit, TypeOK, Row
  <2> QED BY <2>2
<1>4. ASSUME NEW v \in Staff, VoidCommit(v) PROVE FALSE
  <2>1. contract' = [contract EXCEPT ![void[v].cid].state = "VOID"] /\ void[v].cid \in Buy
    BY <1>4 DEF VoidCommit, LocksExclude
  <2> QED BY <2>1 DEF TypeOK, Row
<1>5. ASSUME NEW c \in Buy, BuyStart(c) \/ BuyStep(c) \/ BuyVictim(c) PROVE BuyCommit(b)
  BY <1>1, <1>2, <1>5 DEF BuyStart, BuyStep, BuyLockAccount, BuyLockIndex, BuyVictim
<1>6. ASSUME NEW w \in Worker, AdvStep(w) \/ AdvCrash(w) \/ AdvVictim(w) PROVE FALSE
  BY <1>1, <1>3, <1>6 DEF AdvStep, AdvSnapshot, AdvTryLock, AdvTick, AdvNext, AdvLockContract, AdvPost,
     AdvFlag, AdvTickDone, AdvCrash, AdvVictim
<1>7. ASSUME NEW v \in Staff, VoidStep(v) \/ VoidVictim(v) \/ \E c \in Buy : VoidStart(v, c)
      PROVE  FALSE
  BY <1>1, <1>4, <1>7 DEF VoidStep, VoidLock, VoidVictim, VoidStart
<1>8. ~(Elapse \/ (\E a \in Account : Reset(a)) \/ UNCHANGED vars)
  BY <1>1 DEF Elapse, Reset, vars
<1> QED BY <1>5, <1>6, <1>7, <1>8 DEF Next, Victim

\* No look-ahead: index_state FOR SHARE, held from the choice of the entry
\* tick to the commit, keeps every run from publishing that tick meanwhile.
THEOREM NoLookAhead == Spec => BetsOnTheFuture
<1>1. ASSUME IInv, [Next]_vars
      PROVE  [\A b \in Buy : contract[b].state = "NONE" /\ contract'[b].state = "OPEN"
                => \A t \in Ticks : t >= contract'[b].entry => genAt'[t] = Never]_vars
  <2> SUFFICES ASSUME NEW b \in Buy, contract[b].state = "NONE", contract'[b].state = "OPEN",
                      NEW t \in Ticks, t >= contract'[b].entry
               PROVE  genAt'[t] = Never
    OBVIOUS
  <2> DEFINE s == buy[b].entry + order[b].count - 1
             row == [state |-> "OPEN", entry |-> buy[b].entry, settle |-> s, flagged |-> FALSE]
  <2>1. BuyCommit(b)
    BY <1>1, OnlyPurchasesOpen DEF IInv
  <2>2. contract' = [contract EXCEPT ![b] = row]
    BY <2>1 DEF BuyCommit, book
  <2>3. row.entry = buy[b].entry
    OBVIOUS
  <2> HIDE DEF row
  <2>4. contract'[b].entry = buy[b].entry
    BY <1>1, <2>2, <2>3 DEF IInv, TypeOK
  <2>5. genAt' = genAt /\ buy[b].pc = "entered"
    BY <2>1 DEF BuyCommit, feed
  <2>6. genAt[t] # Never => t < buy[b].entry
    BY <1>1, <2>5 DEF IInv, RunCoversTicks
  <2>7. t \in Int /\ buy[b].entry \in Int
    BY <1>1 DEF IInv, TypeOK, Purchase, Ticks
  <2> QED BY <2>4, <2>5, <2>6, <2>7
<1> QED BY <1>1, InvariantHolds, PTL DEF Spec, BetsOnTheFuture

-----------------------------------------------------------------------------
(* Ticks are published in order *)

\* Ticks are published without gaps, up to index_state and up to where any
\* run, however stale its snapshot, will continue.
Contiguous ==
    /\ \A t \in Ticks : genAt[t] # Never => \A s \in 1..t : genAt[s] # Never
    /\ \A s \in Ticks : s <= lastTick => genAt[s] # Never
    /\ \A w \in Worker : run[w].pc # "idle" => \A s \in Ticks : s <= run[w].from => genAt[s] # Never

\* No tick is published initially, so there is no gap.
LEMMA ContiguousInit == Init => Contiguous
BY DEF Init, Contiguous, IdleRun, Ticks

\* Only the commit of a run writes the feed, and what it writes follows on
\* from where its snapshot ended.
LEMMA FeedSteps ==
    ASSUME TypeOK, Contiguous, [Next]_vars
    PROVE  /\ \A t \in Ticks : genAt[t] # Never => genAt'[t] = genAt[t]
           /\ Contiguous'
<1> USE DEF rigid, feed, book
<1> SUFFICES (\A t \in Ticks : genAt[t] # Never => genAt'[t] = genAt[t]) /\ Contiguous'
  OBVIOUS
<1>1. ASSUME UNCHANGED <<genAt, lastTick>>, \A w \in Worker : run'[w].pc = "idle" \/ run'[w].from = lastTick
                                              \/ (run[w].pc # "idle" /\ run'[w].from = run[w].from)
      PROVE  (\A t \in Ticks : genAt[t] # Never => genAt'[t] = genAt[t]) /\ Contiguous'
  BY <1>1 DEF Contiguous
<1>2. ASSUME NEW w \in Worker, AdvCommit(w)
      PROVE  (\A t \in Ticks : genAt[t] # Never => genAt'[t] = genAt[t]) /\ Contiguous'
  <2> DEFINE q == run[w]
  <2>1. q.pc = "running" /\ q.from \in Nat /\ q.cur \in Nat /\ q.began \in Nat
    BY <1>2 DEF AdvCommit, TypeOK, Run
  <2>2. \A t \in Ticks : genAt'[t] = IF t \in q.from + 1 .. q.cur THEN TickTime(w, t) ELSE genAt[t]
    BY <1>2 DEF AdvCommit
  <2>3. \A t \in Ticks : genAt[t] # Never => genAt'[t] = genAt[t]
    BY <2>2 DEF TickTime
  <2>4. \A t \in Ticks : t \in q.from + 1 .. q.cur => genAt'[t] # Never
    BY <2>1, <2>2 DEF TickTime, Never
  <2>5. \A t \in Ticks : t <= q.from \/ t \in q.from + 1 .. q.cur \/ t > q.cur
    BY <2>1 DEF Ticks
  <2>6. \A s \in Ticks : s <= q.from => genAt'[s] # Never
    BY <2>1, <2>3 DEF Contiguous
  <2>7. \A s \in Ticks : s <= q.cur => genAt'[s] # Never
    BY <2>1, <2>4, <2>5, <2>6 DEF Ticks
  <2>8. ASSUME NEW t \in Ticks, genAt'[t] # Never, NEW s \in 1..t PROVE genAt'[s] # Never
    <3>1. s \in Ticks
      <4>1. MaxClock \div 2 \in Int /\ t \in Int
        BY BoundsAssumption DEF Ticks
      <4> QED BY <2>8, <4>1 DEF Ticks
    <3>2. CASE t \in q.from + 1 .. q.cur
      <4>1. s <= q.cur
        BY <2>1, <3>2 DEF Ticks
      <4> QED BY <2>7, <3>1, <4>1
    <3>3. CASE t \notin q.from + 1 .. q.cur
      <4>1. genAt[t] # Never
        BY <2>2, <2>8, <3>3
      <4>2. genAt[s] # Never
        BY <4>1 DEF Contiguous
      <4> QED BY <2>3, <3>1, <4>2
    <3> QED BY <3>2, <3>3
  <2>9. \A s \in Ticks : s <= lastTick' => genAt'[s] # Never
    <3>1. lastTick' = q.cur \/ lastTick' = lastTick
      BY <1>2 DEF AdvCommit
    <3>2. CASE lastTick' = q.cur
      BY <2>7, <3>2
    <3>3. CASE lastTick' = lastTick
      BY <2>3, <3>3 DEF Contiguous
    <3> QED BY <3>1, <3>2, <3>3
  <2>10. \A x \in Worker : run'[x].pc # "idle" => run'[x] = run[x]
    <3>1. run' = [run EXCEPT ![w] = IdleRun] /\ IdleRun.pc = "idle"
      BY <1>2 DEF AdvCommit, RunIs, IdleRun
    <3> QED BY <3>1 DEF TypeOK
  <2>11. \A x \in Worker : run'[x].pc # "idle" => \A s \in Ticks : s <= run'[x].from => genAt'[s] # Never
    BY <2>3, <2>10 DEF Contiguous
  <2> QED BY <2>3, <2>8, <2>9, <2>11 DEF Contiguous
<1>3. ASSUME NEW w \in Worker, AdvStep(w) \/ AdvCrash(w) \/ AdvVictim(w), ~AdvCommit(w)
      PROVE  (\A t \in Ticks : genAt[t] # Never => genAt'[t] = genAt[t]) /\ Contiguous'
  <2>1. UNCHANGED <<genAt, lastTick>>
    BY <1>3 DEF AdvStep, AdvSnapshot, AdvTryLock, AdvTick, AdvNext, AdvLockContract, AdvPost, AdvFlag,
       AdvTickDone, AdvCrash, AdvVictim
  <2>2. \A x \in Worker \ {w} : run'[x] = run[x]
    BY <1>3 DEF AdvStep, AdvSnapshot, AdvTryLock, AdvTick, AdvNext, AdvLockContract, AdvPost, AdvFlag,
       AdvTickDone, AdvCrash, AdvVictim, RunIs, TypeOK
  <2>3. \/ run'[w].pc = "idle" \/ run'[w].from = lastTick
        \/ (run[w].pc # "idle" /\ run'[w].from = run[w].from)
    <3>1. CASE AdvSnapshot(w)
      BY <3>1 DEF AdvSnapshot, RunIs, IdleRun, TypeOK
    <3>2. CASE AdvCrash(w) \/ AdvVictim(w)
      <4> DEFINE r == [run[w] EXCEPT !.pc = "flagging"]
      <4>1. r.from = run[w].from /\ IdleRun.pc = "idle"
        BY DEF TypeOK, Run, IdleRun
      <4>2. run' = [run EXCEPT ![w] = IdleRun]
              \/ (run[w].pc \in {"locking", "posting"} /\ run' = [run EXCEPT ![w] = r])
        BY <3>2 DEF AdvCrash, AdvVictim, RunIs
      <4> HIDE DEF r
      <4> QED BY <4>1, <4>2 DEF TypeOK
    <3>3. CASE AdvTryLock(w)
      BY <3>3 DEF AdvTryLock, RunIs, IdleRun, TypeOK, Run
    <3>4. CASE AdvTick(w) \/ AdvTickDone(w)
      BY <3>4 DEF AdvTick, AdvTickDone, RunIs, TypeOK, Run
    <3>5. CASE AdvLockContract(w)
      BY <3>5 DEF AdvLockContract, RunIs, TypeOK, Run
    <3>6. CASE AdvPost(w)
      BY <3>6 DEF AdvPost, RunIs, TypeOK, Run
    <3>7. CASE AdvFlag(w)
      BY <3>7 DEF AdvFlag, RunIs, TypeOK, Run
    <3>8. ASSUME NEW b \in Buy, AdvNext(w, b)
          PROVE  run[w].pc # "idle" /\ run'[w].from = run[w].from
      BY <3>8 DEF AdvNext, RunIs, TypeOK, Run
    <3> QED BY <1>3, <3>1, <3>2, <3>3, <3>4, <3>5, <3>6, <3>7, <3>8 DEF AdvStep
  <2>4. \A x \in Worker : run'[x].pc = "idle" \/ run'[x].from = lastTick
                             \/ (run[x].pc # "idle" /\ run'[x].from = run[x].from)
    BY <2>2, <2>3
  <2> QED BY <1>1, <2>1, <2>4
<1>4. ASSUME UNCHANGED <<feed, run>>
      PROVE  (\A t \in Ticks : genAt[t] # Never => genAt'[t] = genAt[t]) /\ Contiguous'
  BY <1>1, <1>4
<1>5. ASSUME NEW b \in Buy, BuyStart(b) \/ BuyStep(b) \/ BuyVictim(b) PROVE UNCHANGED <<feed, run>>
  BY <1>5 DEF BuyStart, BuyStep, BuyLockAccount, BuyLockIndex, BuyCommit, BuyVictim
<1>6. ASSUME NEW v \in Staff, VoidStep(v) \/ VoidVictim(v) \/ \E c \in Buy : VoidStart(v, c)
      PROVE  UNCHANGED <<feed, run>>
  BY <1>6 DEF VoidStep, VoidLock, VoidCommit, VoidVictim, VoidStart
<1>7. ASSUME Elapse \/ (\E a \in Account : Reset(a)) \/ UNCHANGED vars PROVE UNCHANGED <<feed, run>>
  BY <1>7 DEF Elapse, Reset, vars
<1> QED BY <1>2, <1>3, <1>4, <1>5, <1>6, <1>7 DEF Next, Victim

\* Published ticks are permanent and gapless, although runs overlap, start
\* from stale snapshots and die.
THEOREM PublishedTicksStay == Spec => TicksArePermanent
<1>1. Init => Contiguous
  BY ContiguousInit
<1>2. TypeOK /\ Contiguous /\ [Next]_vars => Contiguous'
  BY FeedSteps
<1>3. TypeOK /\ Contiguous /\ [Next]_vars =>
        [\A t \in Ticks : /\ genAt[t] # Never => genAt'[t] = genAt[t]
                          /\ genAt'[t] # Never => \A s \in 1..t : genAt'[s] # Never]_vars
  BY FeedSteps DEF Contiguous
<1> QED BY <1>1, <1>2, <1>3, TypeCorrect, PTL DEF Spec, TicksArePermanent

-----------------------------------------------------------------------------
(***************************************************************************)
(* The money: balances, reservations, request keys, settlement by the      *)
(* published tick, exposure, and the refinement of ContractLedger.         *)
(***************************************************************************)

-----------------------------------------------------------------------------
(* Sums over the ledger of an account *)

AvailOf == [x \in Entry |-> x.avail]
ReservedOf == [x \in Entry |-> x.reserved]
StakeOf == [b \in Buy |-> Stake(b)]

\* The ledger of an account is finite: it holds at most one opening credit, one
\* reset and two entries per request.
FiniteLedgers == \A a \in Account : IsFiniteSet(LedgerOf(a))

\* A sum over one element.
LEMMA SumSingle ==
    ASSUME NEW f, NEW x, f[x] \in Int
    PROVE  IsFiniteSet({x}) /\ SumFunctionOnSet(f, {x}) = f[x]
<1>1. IsFiniteSet({}) /\ SumFunctionOnSet(f, {}) = 0
  BY FS_EmptySet, SumChosen
<1>2. IsFiniteSet({x}) /\ {} \cup {x} = {x}
  BY FS_Singleton
<1>3. SumFunctionOnSet(f, {} \cup {x}) = f[x] + SumFunctionOnSet(f, {})
  BY <1>1, SumAdd
<1> QED BY <1>1, <1>2, <1>3

\* Balances are sums of the same amounts, whatever else the ledger holds.
LEMMA BalanceIs ==
    ASSUME NEW L, L \subseteq Entry, NEW S, S \subseteq L, IsFiniteSet(S)
    PROVE  /\ SumFunctionOnSet([x \in L |-> x.avail], S) = SumFunctionOnSet(AvailOf, S)
           /\ SumFunctionOnSet([x \in L |-> x.reserved], S) = SumFunctionOnSet(ReservedOf, S)
           /\ SumFunctionOnSet(AvailOf, S) \in Int /\ SumFunctionOnSet(ReservedOf, S) \in Int
<1> DEFINE f == [x \in L |-> x.avail]
           g == [x \in L |-> x.reserved]
<1>1. \A x \in S : f[x] = AvailOf[x] /\ g[x] = ReservedOf[x]
  BY DEF AvailOf, ReservedOf
<1>2. \A x \in S : AvailOf[x] \in Int /\ ReservedOf[x] \in Int
  BY DEF AvailOf, ReservedOf, Entry
<1> HIDE DEF f, g
<1>3. SumFunctionOnSet(f, S) = SumFunctionOnSet(AvailOf, S)
  BY <1>1, SumSame
<1>4. SumFunctionOnSet(g, S) = SumFunctionOnSet(ReservedOf, S)
  BY <1>1, SumSame
<1>5. SumFunctionOnSet(AvailOf, S) \in Int /\ SumFunctionOnSet(ReservedOf, S) \in Int
  BY <1>2, SumRemove
<1> QED BY <1>3, <1>4, <1>5 DEF f, g

\* What a step posts to an account is what its balances change by.
LEMMA BalanceStep ==
    ASSUME NEW a, ledger \subseteq Entry, ledger' \subseteq Entry, IsFiniteSet(LedgerOf(a)),
           NEW T, IsFiniteSet(T), T \subseteq Entry, LedgerOf(a) \cap T = {},
           LedgerOf(a)' = LedgerOf(a) \cup T
    PROVE  /\ IsFiniteSet(LedgerOf(a)')
           /\ Available(a) \in Int /\ Available(a)' = Available(a) + SumFunctionOnSet(AvailOf, T)
           /\ Reserved(a) \in Int /\ Reserved(a)' = Reserved(a) + SumFunctionOnSet(ReservedOf, T)
           /\ SumFunctionOnSet(AvailOf, T) \in Int /\ SumFunctionOnSet(ReservedOf, T) \in Int
<1> DEFINE S == LedgerOf(a)
           U == LedgerOf(a)'
<1>1. S \subseteq ledger /\ U \subseteq ledger' /\ IsFiniteSet(U)
  <2>1. S \subseteq ledger /\ U \subseteq ledger'
    BY DEF LedgerOf
  <2>2. IsFiniteSet(S \cup T) /\ U = S \cup T
    BY FS_Union
  <2> QED BY <2>1, <2>2
<1>2. /\ Available(a) = SumFunctionOnSet(AvailOf, S) /\ Available(a) \in Int
      /\ Reserved(a) = SumFunctionOnSet(ReservedOf, S) /\ Reserved(a) \in Int
  BY <1>1, BalanceIs DEF Available, Reserved
<1>3. /\ Available(a)' = SumFunctionOnSet(AvailOf, U)
      /\ Reserved(a)' = SumFunctionOnSet(ReservedOf, U)
  BY <1>1, BalanceIs DEF Available, Reserved
<1>4. \A x \in S \cup T : AvailOf[x] \in Int /\ ReservedOf[x] \in Int
  BY <1>1 DEF AvailOf, ReservedOf, Entry
<1>5. U = S \cup T /\ S \cap T = {}
  OBVIOUS
<1> HIDE DEF S, U
<1>6. /\ SumFunctionOnSet(AvailOf, S \cup T) = SumFunctionOnSet(AvailOf, S) + SumFunctionOnSet(AvailOf, T)
      /\ SumFunctionOnSet(ReservedOf, S \cup T)
           = SumFunctionOnSet(ReservedOf, S) + SumFunctionOnSet(ReservedOf, T)
  BY <1>4, <1>5, SumDisjoint DEF S
<1>7. SumFunctionOnSet(AvailOf, T) \in Int /\ SumFunctionOnSet(ReservedOf, T) \in Int
  BY BalanceIs
<1> QED BY <1>1, <1>2, <1>3, <1>5, <1>6, <1>7 DEF U

\* An account to which a step posts nothing keeps its balances.
LEMMA BalanceKept ==
    ASSUME NEW a, ledger \subseteq Entry, ledger' \subseteq Entry, IsFiniteSet(LedgerOf(a)),
           LedgerOf(a)' = LedgerOf(a)
    PROVE  /\ IsFiniteSet(LedgerOf(a)')
           /\ Available(a) \in Int /\ Available(a)' = Available(a)
           /\ Reserved(a) \in Int /\ Reserved(a)' = Reserved(a)
<1>1. IsFiniteSet({}) /\ SumFunctionOnSet(AvailOf, {}) = 0 /\ SumFunctionOnSet(ReservedOf, {}) = 0
  BY FS_EmptySet, SumChosen
<1>2. {} \subseteq Entry /\ LedgerOf(a) \cap {} = {} /\ LedgerOf(a)' = LedgerOf(a) \cup {}
  OBVIOUS
<1>3. /\ IsFiniteSet(LedgerOf(a)')
      /\ Available(a) \in Int /\ Available(a)' = Available(a) + SumFunctionOnSet(AvailOf, {})
      /\ Reserved(a) \in Int /\ Reserved(a)' = Reserved(a) + SumFunctionOnSet(ReservedOf, {})
  BY <1>1, <1>2, BalanceStep
<1> QED BY <1>1, <1>3

\* A payout is not negative.
LEMMA PayoutNotNegative ==
    ASSUME TypeOK, NEW b \in Buy
    PROVE  PayoutOf(b) \in Int /\ PayoutOf(b) >= 0
<1> DEFINE o == order[b]
           n == Cardinality(WinningDigits(o.type, o.barrier))
           x == o.stake * (1000 - Margin) * 10
<1>1. o \in Order /\ PayoutOf(b) \in Int
  BY OrderOf
<1>2. n \in Nat \ {0}
  BY <1>1, WinningDigitsCount DEF Order
<1>3. x \in Nat
  <2>1. o.stake \in Nat /\ 1000 - Margin \in Nat
    BY <1>1, MarginAssumption DEF Order
  <2> QED BY <2>1
<1>4. PayoutOf(b) = x \div (1000 * n)
  BY DEF PayoutOf, Payout
<1> HIDE DEF x, n
<1>5. 1000 * n \in Nat \ {0}
  BY <1>2
<1>6. x \div (1000 * n) \in Nat
  BY <1>3, <1>5, DivBounds
<1> QED BY <1>1, <1>4, <1>6

-----------------------------------------------------------------------------
(* What each step does to the book *)

\* Steps that post nothing leave the book; the requests' orders and the
\* digits of the seed never change.
LEMMA BookSteps ==
    ASSUME [Next]_vars
    PROVE  /\ order' = order /\ digit' = digit
           /\ \/ UNCHANGED book
              \/ \E b \in Buy : BuyCommit(b) /\ ~UNCHANGED book
              \/ \E w \in Worker : AdvCommit(w)
              \/ \E v \in Staff : VoidCommit(v)
              \/ \E a \in Account : Reset(a)
<1> DEFINE P == /\ order' = order /\ digit' = digit
                /\ \/ UNCHANGED book
                   \/ \E b \in Buy : BuyCommit(b) /\ ~UNCHANGED book
                   \/ \E w \in Worker : AdvCommit(w)
                   \/ \E v \in Staff : VoidCommit(v)
                   \/ \E a \in Account : Reset(a)
<1> USE DEF rigid
<1>1. ASSUME NEW b \in Buy, BuyStart(b) \/ BuyStep(b) \/ BuyVictim(b) PROVE P
  <2>1. order' = order /\ digit' = digit
    BY <1>1 DEF BuyStart, BuyStep, BuyLockAccount, BuyLockIndex, BuyCommit, BuyVictim
  <2>2. UNCHANGED book \/ BuyCommit(b)
    BY <1>1 DEF BuyStart, BuyStep, BuyLockAccount, BuyLockIndex, BuyVictim
  <2> QED BY <2>1, <2>2
<1>2. ASSUME NEW w \in Worker, AdvStep(w) \/ AdvCrash(w) \/ AdvVictim(w) PROVE P
  <2>1. order' = order /\ digit' = digit
    BY <1>2 DEF AdvStep, AdvSnapshot, AdvTryLock, AdvTick, AdvNext, AdvLockContract, AdvPost, AdvFlag,
       AdvTickDone, AdvCommit, AdvCrash, AdvVictim
  <2>2. UNCHANGED book \/ AdvCommit(w)
    BY <1>2 DEF AdvStep, AdvSnapshot, AdvTryLock, AdvTick, AdvNext, AdvLockContract, AdvPost, AdvFlag,
       AdvTickDone, AdvCrash, AdvVictim
  <2> QED BY <2>1, <2>2
<1>3. ASSUME NEW v \in Staff, VoidStep(v) \/ VoidVictim(v) \/ \E b \in Buy : VoidStart(v, b) PROVE P
  <2>1. order' = order /\ digit' = digit
    BY <1>3 DEF VoidStep, VoidLock, VoidCommit, VoidVictim, VoidStart
  <2>2. UNCHANGED book \/ VoidCommit(v)
    BY <1>3 DEF VoidStep, VoidLock, VoidVictim, VoidStart
  <2> QED BY <2>1, <2>2
<1>4. ASSUME Elapse \/ (\E a \in Account : Reset(a)) \/ UNCHANGED vars PROVE P
  BY <1>4 DEF Elapse, Reset, vars, book
<1> QED BY <1>1, <1>2, <1>3, <1>4 DEF Next, Victim

\* The book after a purchase: one new open contract, one new ledger entry.
Bought(b, settle) ==
    /\ buy[b].pc = "entered" /\ contract[b].state = "NONE"
    /\ settle = buy[b].entry + order[b].count - 1 /\ settle \in Nat /\ settle >= buy[b].entry
    /\ \A d \in Digit : RiskWith(b, settle)[d] <= MaxLiability
    /\ contract'[b].state = "OPEN" /\ contract'[b].entry = buy[b].entry /\ contract'[b].settle = settle
    /\ \A c \in Buy \ {b} : contract'[c] = contract[c]
    /\ DOMAIN exposure' = DOMAIN exposure \cup {settle}
    /\ \A t \in DOMAIN exposure' :
         exposure'[t] = IF t = settle THEN RiskWith(b, settle) ELSE exposure[t]
    /\ LET x == Tx(order[b].acct, "buy", b, -Stake(b), Stake(b), 0)
       IN  x \notin ledger /\ ledger' = ledger \cup {x}
    /\ UNCHANGED <<clock, genAt, run, void>>

LEMMA BuyEffect ==
    ASSUME TypeOK, LocksExclude, BuyersExclude, NEW b \in Buy, BuyCommit(b), ~UNCHANGED book
    PROVE  \E settle \in Nat : Bought(b, settle)
<1> DEFINE settle == buy[b].entry + order[b].count - 1
           row == [state |-> "OPEN", entry |-> buy[b].entry, settle |-> settle, flagged |-> FALSE]
           x == Tx(order[b].acct, "buy", b, -Stake(b), Stake(b), 0)
<1>1. settle \in Nat /\ settle >= buy[b].entry
  <2>1. order[b].count \in Nat \ {0} /\ buy[b].entry \in Nat
    BY OrderOf DEF TypeOK, Purchase
  <2> QED BY <2>1
<1>2. /\ buy[b].pc = "entered" /\ contract' = [contract EXCEPT ![b] = row]
      /\ exposure' = [t \in DOMAIN exposure \cup {settle} |->
                        IF t = settle THEN RiskWith(b, settle) ELSE exposure[t]]
      /\ Post({x})
      /\ ~ \E d \in Digit : RiskWith(b, settle)[d] > MaxLiability
      /\ UNCHANGED <<clock, genAt, run, void>>
  BY DEF BuyCommit, feed
<1>3. contract[b].state = "NONE"
  BY <1>2 DEF LocksExclude
<1>4. row.state = "OPEN" /\ row.entry = buy[b].entry /\ row.settle = settle
  OBVIOUS
<1>5. x.acct = order[b].acct /\ x.key = <<"buy", b>>
  BY DEF Tx
<1>6. ~HasKey(order[b].acct, <<"buy", b>>)
  BY <1>3 DEF BuyersExclude
<1> HIDE DEF row, x
<1>7. x \notin ledger /\ ledger' = ledger \cup {x}
  BY <1>2, <1>5, <1>6 DEF Post, HasKey
<1>8. contract'[b] = row /\ \A c \in Buy \ {b} : contract'[c] = contract[c]
  BY <1>2 DEF TypeOK
<1>9. \A d \in Digit : RiskWith(b, settle)[d] \in Int
  <2>1. RiskOf(b) \in [Digit -> Int] /\ RiskAt(settle) \in [Digit -> Int]
    BY OrderOf DEF RiskAt, NoRisk, TypeOK
  <2> QED BY <2>1 DEF RiskWith
<1>10. \A d \in Digit : RiskWith(b, settle)[d] <= MaxLiability
  BY <1>2, <1>9, BoundsAssumption
<1>11. Bought(b, settle)
  <2> HIDE DEF settle
  <2>1. settle = buy[b].entry + order[b].count - 1
    BY DEF settle
  <2> QED BY <1>1, <1>2, <1>3, <1>4, <1>7, <1>8, <1>10, <2>1 DEF Bought, x
<1> QED BY <1>1, <1>11

\* The resolution of a set of contracts: the states they get and the entries
\* posted for them, one each; nothing else of a contract moves.
Resolved(done, verdict, name) ==
    /\ done \subseteq Buy /\ \A b \in done : contract[b].state = "OPEN"
    /\ \A b \in done : /\ verdict[b] \in {"WON", "LOST", "VOID"}
                       /\ contract'[b].state = verdict[b]
                       /\ \/ name[b] = Settlement(b, verdict[b])
                          \/ verdict[b] = "VOID" /\ name[b] = Refund("void", b)
                       /\ name[b] \notin ledger
    /\ \A b \in Buy \ done : contract'[b].state = contract[b].state
    /\ \A b \in Buy : contract'[b].settle = contract[b].settle /\ contract'[b].entry = contract[b].entry
    /\ ledger' = ledger \cup {name[b] : b \in done}

LEMMA SettleEffect ==
    ASSUME TypeOK, LocksExclude, ResolvedOnce, NEW w \in Worker, AdvCommit(w)
    PROVE  Resolved(run[w].settled, [b \in run[w].settled |-> VerdictOf(w, b)],
                    [b \in run[w].settled |-> Settlement(b, VerdictOf(w, b))])
<1> DEFINE done == run[w].settled
           verdict == [b \in done |-> VerdictOf(w, b)]
           name == [b \in done |-> Settlement(b, VerdictOf(w, b))]
           txs == {Settlement(b, VerdictOf(w, b)) : b \in done}
<1>1. done \subseteq Buy /\ \A b \in done : contract[b].state = "OPEN"
  BY DEF TypeOK, Run, LocksExclude
<1>2. \A b \in done : /\ VerdictOf(w, b) \in {"WON", "LOST", "VOID"}
                      /\ Settlement(b, VerdictOf(w, b)).acct = order[b].acct
                      /\ Settlement(b, VerdictOf(w, b)).key = <<"settle", b>>
  BY VerdictType, SettlementKey DEF VerdictOf
<1>3. Post(txs)
  BY DEF AdvCommit
<1>4. \A b \in done : ~HasKey(order[b].acct, <<"settle", b>>)
  BY <1>1 DEF ResolvedOnce, Settled
<1>5. \A x \in txs : ~HasKey(x.acct, x.key)
  BY <1>2, <1>4
<1>6. ledger' = ledger \cup txs
  BY <1>3, <1>5 DEF Post
<1>7. txs = {name[b] : b \in done}
  OBVIOUS
<1>8. \A x \in txs : x \notin ledger
  BY <1>5 DEF HasKey
<1>9. \A b \in Buy : /\ contract[b] \in Row
                     /\ contract'[b] = IF b \in done THEN [contract[b] EXCEPT !.state = VerdictOf(w, b)]
                                       ELSE IF b \in run[w].flagged THEN [contract[b] EXCEPT !.flagged = TRUE]
                                       ELSE contract[b]
  BY DEF AdvCommit, TypeOK
<1>10. \A b \in Buy : /\ contract'[b].settle = contract[b].settle /\ contract'[b].entry = contract[b].entry
                      /\ b \in done => contract'[b].state = VerdictOf(w, b)
                      /\ b \notin done => contract'[b].state = contract[b].state
  BY <1>9 DEF Row
<1>11. \A b \in done : name[b] = Settlement(b, verdict[b]) /\ name[b] \in txs /\ verdict[b] = VerdictOf(w, b)
  OBVIOUS
<1>12. ledger' = ledger \cup {name[b] : b \in done}
  BY <1>6, <1>7
<1> HIDE DEF done, verdict, name, txs
<1>13. \A b \in done : /\ verdict[b] \in {"WON", "LOST", "VOID"}
                       /\ contract'[b].state = verdict[b]
                       /\ name[b] = Settlement(b, verdict[b]) /\ name[b] \notin ledger
  BY <1>1, <1>2, <1>8, <1>10, <1>11
<1>14. Resolved(done, verdict, name)
  BY <1>1, <1>10, <1>12, <1>13 DEF Resolved
<1> QED BY <1>14 DEF done, verdict, name

LEMMA VoidEffect ==
    ASSUME TypeOK, LocksExclude, ResolvedOnce, NEW v \in Staff, VoidCommit(v)
    PROVE  LET b == void[v].cid
           IN  Resolved({b}, [c \in {b} |-> "VOID"], [c \in {b} |-> Refund("void", c)])
<1> DEFINE b == void[v].cid
           verdict == [c \in {b} |-> "VOID"]
           name == [c \in {b} |-> Refund("void", c)]
<1>1. b \in Buy /\ contract[b].state = "OPEN"
  BY DEF VoidCommit, LocksExclude
<1>2. contract' = [contract EXCEPT ![b].state = "VOID"] /\ Post({Refund("void", b)})
  BY DEF VoidCommit
<1>3. Refund("void", b).acct = order[b].acct /\ Refund("void", b).key = <<"void", b>>
  BY DEF Refund, Tx
<1>4. ~HasKey(order[b].acct, <<"void", b>>)
  BY <1>1 DEF ResolvedOnce, Voided
<1>5. ledger' = ledger \cup {Refund("void", b)} /\ Refund("void", b) \notin ledger
  BY <1>2, <1>3, <1>4 DEF Post, HasKey
<1>6. {name[c] : c \in {b}} = {Refund("void", b)} /\ name[b] = Refund("void", b) /\ verdict[b] = "VOID"
  OBVIOUS
<1>7. contract \in [Buy -> Row]
  BY DEF TypeOK
<1>8. /\ contract'[b].state = "VOID"
      /\ \A c \in Buy \ {b} : contract'[c].state = contract[c].state
      /\ \A c \in Buy : contract'[c].settle = contract[c].settle /\ contract'[c].entry = contract[c].entry
  BY <1>1, <1>2, <1>7 DEF Row
<1> HIDE DEF b, verdict, name
<1>9. Resolved({b}, verdict, name)
  BY <1>1, <1>5, <1>6, <1>8 DEF Resolved
<1> QED BY <1>9 DEF b, verdict, name

-----------------------------------------------------------------------------
(* What each step does to the money of an account *)

\* What a resolution gives back.
CreditOf(b, verdict) ==
    CASE verdict = "WON"  -> PayoutOf(b)
      [] verdict = "LOST" -> 0
      [] verdict = "VOID" -> Stake(b)

\* Which contracts of an account a resolution covers, and what each gives back.
DoneOf(done, a) == done \cap OpenOf(a)
Credits(done, verdict) == [b \in done |-> CreditOf(b, verdict[b])]

\* The entry of a resolution: its account, its own key, and its amounts.
LEMMA EntryAmounts ==
    ASSUME NEW b, NEW verdict \in {"WON", "LOST", "VOID"}, NEW x,
           x = Settlement(b, verdict) \/ (verdict = "VOID" /\ x = Refund("void", b))
    PROVE  /\ x.acct = order[b].acct /\ x.key[2] = b
           /\ x.avail = CreditOf(b, verdict) /\ x.reserved = -Stake(b)
BY DEF Settlement, Refund, Tx, CreditOf

\* Stakes are positive, and a finite set of requests has a total stake.
LEMMA StakesAdd ==
    ASSUME TypeOK, NEW S \in SUBSET Buy
    PROVE  IsFiniteSet(S) /\ SumFunctionOnSet(StakeOf, S) \in Int
<1>1. IsFiniteSet(S)
  BY RequestsAssumption, FS_Subset
<1>2. \A b \in S : StakeOf[b] \in Int
  BY OrderOf DEF StakeOf
<1> QED BY <1>1, <1>2, SumRemove

\* A resolution credits each account with what its contracts pay, and
\* releases their stakes.
LEMMA ResolvedMoney ==
    ASSUME TypeOK, TypeOK', order' = order, NEW done, NEW verdict, NEW name,
           Resolved(done, verdict, name), NEW a \in Account, IsFiniteSet(LedgerOf(a))
    PROVE  /\ IsFiniteSet(LedgerOf(a)') /\ Available(a) \in Int /\ Reserved(a) \in Int
           /\ Available(a)' = Available(a) + SumFunctionOnSet(Credits(done, verdict), DoneOf(done, a))
           /\ SumFunctionOnSet(Credits(done, verdict), DoneOf(done, a)) \in Int
           /\ SumFunctionOnSet(Credits(done, verdict), DoneOf(done, a)) >= 0
           /\ Reserved(a)' = Reserved(a) - SumFunctionOnSet(StakeOf, DoneOf(done, a))
           /\ SumFunctionOnSet(StakeOf, DoneOf(done, a)) \in Int
           /\ OpenOf(a)' = OpenOf(a) \ DoneOf(done, a)
<1> DEFINE B == DoneOf(done, a)
           credit == Credits(done, verdict)
           T == {name[b] : b \in B}
           owed == [b \in Buy |-> -Stake(b)]
<1>0. B = done \cap OpenOf(a) /\ \A b \in done : credit[b] = CreditOf(b, verdict[b])
  BY DEF DoneOf, Credits
<1> HIDE DEF B, credit
<1>1. B \subseteq Buy /\ IsFiniteSet(B)
  BY <1>0, RequestsAssumption, FS_Subset DEF OpenOf
<1>2. ASSUME NEW b \in done
      PROVE  /\ b \in Buy /\ verdict[b] \in {"WON", "LOST", "VOID"}
             /\ name[b].acct = order[b].acct /\ name[b].key[2] = b /\ name[b] \notin ledger
             /\ name[b].avail = credit[b] /\ name[b].reserved = -Stake(b)
             /\ name[b] \in Entry
  <2>1. /\ b \in Buy /\ verdict[b] \in {"WON", "LOST", "VOID"} /\ name[b] \notin ledger
        /\ name[b] = Settlement(b, verdict[b]) \/ (verdict[b] = "VOID" /\ name[b] = Refund("void", b))
    BY DEF Resolved
  <2>2. name[b] \in ledger' /\ ledger' \subseteq Entry
    BY DEF Resolved, TypeOK
  <2> QED BY <1>0, <2>1, <2>2, EntryAmounts
<1>3. \A b \in done : b \in B <=> order[b].acct = a
  BY <1>0 DEF Resolved, OpenOf
<1>4. LedgerOf(a)' = LedgerOf(a) \cup T
  <2>1. LedgerOf(a)' = {x \in ledger \cup {name[b] : b \in done} : x.acct = a}
    BY DEF LedgerOf, Resolved
  <2> QED BY <1>0, <1>2, <1>3, <2>1 DEF LedgerOf
<1>5. LedgerOf(a) \cap T = {} /\ T \subseteq Entry
  BY <1>0, <1>2 DEF LedgerOf
<1>6. \A b \in B : /\ credit[b] \in Int /\ credit[b] >= 0
                   /\ AvailOf[name[b]] = credit[b] /\ ReservedOf[name[b]] = owed[b] /\ owed[b] \in Int
  <2> SUFFICES ASSUME NEW b \in B
               PROVE  /\ credit[b] \in Int /\ credit[b] >= 0
                      /\ AvailOf[name[b]] = credit[b] /\ ReservedOf[name[b]] = owed[b] /\ owed[b] \in Int
    OBVIOUS
  <2>1. /\ b \in Buy /\ verdict[b] \in {"WON", "LOST", "VOID"} /\ name[b] \in Entry
        /\ name[b].avail = credit[b] /\ name[b].reserved = -Stake(b)
    BY <1>0, <1>2
  <2>2. Stake(b) \in Nat /\ PayoutOf(b) \in Int /\ PayoutOf(b) >= 0
    BY <2>1, OrderOf, PayoutNotNegative
  <2>3. credit[b] = CreditOf(b, verdict[b])
    BY <1>0
  <2>4. credit[b] \in Int /\ credit[b] >= 0
    BY <2>1, <2>2, <2>3 DEF CreditOf
  <2>5. AvailOf[name[b]] = name[b].avail /\ ReservedOf[name[b]] = name[b].reserved
    BY <2>1 DEF AvailOf, ReservedOf
  <2>6. owed[b] = -Stake(b) /\ owed[b] \in Int
    BY <2>1, <2>2
  <2> QED BY <2>1, <2>4, <2>5, <2>6
<1>7. \A b, c \in B : name[b] = name[c] => b = c
  BY <1>0, <1>2
<1> HIDE DEF owed
<1>8. IsFiniteSet(T) /\ SumFunctionOnSet(AvailOf, T) = SumFunctionOnSet(credit, B)
  <2>1. \A b \in B : AvailOf[name[b]] = credit[b] /\ credit[b] \in Int
    BY <1>6
  <2>2. SumFunctionOnSet(AvailOf, T) = SumFunctionOnSet(credit, B)
    BY <1>1, <1>7, <2>1, SumRenamed
  <2>3. IsFiniteSet(T)
    BY <1>1, NamesFinite
  <2> QED BY <2>2, <2>3
<1>9. SumFunctionOnSet(ReservedOf, T) = SumFunctionOnSet(owed, B)
  BY <1>1, <1>6, <1>7, SumRenamed
<1>10. SumFunctionOnSet(owed, B) = -SumFunctionOnSet(StakeOf, B)
  <2>1. \A b \in B : StakeOf[b] \in Int /\ owed[b] = -StakeOf[b]
    BY <1>1, OrderOf DEF StakeOf, owed
  <2> QED BY <1>1, <2>1, SumNegated
<1>11. SumFunctionOnSet(credit, B) \in Int /\ SumFunctionOnSet(credit, B) >= 0
  BY <1>1, <1>6, SumNotNegative
<1>12. SumFunctionOnSet(StakeOf, B) \in Int
  BY <1>1, StakesAdd
<1>13. ledger \subseteq Entry /\ ledger' \subseteq Entry
  BY DEF TypeOK
<1> HIDE DEF T
<1>14. /\ IsFiniteSet(LedgerOf(a)')
       /\ Available(a) \in Int /\ Available(a)' = Available(a) + SumFunctionOnSet(AvailOf, T)
       /\ Reserved(a) \in Int /\ Reserved(a)' = Reserved(a) + SumFunctionOnSet(ReservedOf, T)
  BY <1>4, <1>5, <1>8, <1>13, BalanceStep
<1>15. OpenOf(a)' = OpenOf(a) \ B
  <2>1. \A b \in Buy : /\ b \in done => contract'[b].state # "OPEN" /\ contract[b].state = "OPEN"
                       /\ b \notin done => contract'[b].state = contract[b].state
    BY DEF Resolved
  <2>2. OpenOf(a)' = {b \in Buy : order[b].acct = a /\ contract'[b].state = "OPEN"}
    BY DEF OpenOf
  <2> QED BY <1>0, <2>1, <2>2 DEF OpenOf
<1>16. Reserved(a)' = Reserved(a) - SumFunctionOnSet(StakeOf, B)
  BY <1>9, <1>10, <1>12, <1>14
<1>17. Available(a)' = Available(a) + SumFunctionOnSet(credit, B)
  BY <1>8, <1>14
<1> QED BY <1>11, <1>12, <1>14, <1>15, <1>16, <1>17 DEF B, credit

\* A purchase moves its stake from available to reserved in its own account,
\* and no other account's money.
LEMMA BoughtMoney ==
    ASSUME TypeOK, TypeOK', order' = order, NEW b \in Buy, NEW settle, Bought(b, settle),
           NEW a \in Account, IsFiniteSet(LedgerOf(a))
    PROVE  /\ IsFiniteSet(LedgerOf(a)') /\ Available(a) \in Int /\ Reserved(a) \in Int
           /\ order[b].acct = a => /\ Available(a)' = Available(a) - Stake(b)
                                   /\ Reserved(a)' = Reserved(a) + Stake(b)
                                   /\ b \notin OpenOf(a) /\ OpenOf(a)' = OpenOf(a) \cup {b}
           /\ order[b].acct # a => /\ Available(a)' = Available(a) /\ Reserved(a)' = Reserved(a)
                                   /\ OpenOf(a)' = OpenOf(a)
<1> DEFINE x == Tx(order[b].acct, "buy", b, -Stake(b), Stake(b), 0)
<1>1. x.acct = order[b].acct /\ x.avail = -Stake(b) /\ x.reserved = Stake(b)
  BY DEF Tx
<1>2. x \notin ledger /\ ledger' = ledger \cup {x}
  BY DEF Bought
<1>3. ledger \subseteq Entry /\ ledger' \subseteq Entry /\ Stake(b) \in Int
  BY OrderOf DEF TypeOK
<1> HIDE DEF x
<1>4. x \in Entry /\ AvailOf[x] = -Stake(b) /\ ReservedOf[x] = Stake(b)
  BY <1>1, <1>2, <1>3 DEF AvailOf, ReservedOf
<1>5. OpenOf(a)' = {c \in Buy : order[c].acct = a /\ contract'[c].state = "OPEN"}
  BY DEF OpenOf
<1>6. /\ contract[b].state = "NONE" /\ contract'[b].state = "OPEN"
      /\ \A c \in Buy \ {b} : contract'[c] = contract[c]
  BY DEF Bought
<1>7. CASE order[b].acct = a
  <2>1. LedgerOf(a)' = LedgerOf(a) \cup {x} /\ LedgerOf(a) \cap {x} = {} /\ {x} \subseteq Entry
    BY <1>1, <1>2, <1>4, <1>7 DEF LedgerOf
  <2>2. /\ IsFiniteSet({x}) /\ SumFunctionOnSet(AvailOf, {x}) = -Stake(b)
        /\ SumFunctionOnSet(ReservedOf, {x}) = Stake(b)
    BY <1>3, <1>4, SumSingle
  <2>3. /\ IsFiniteSet(LedgerOf(a)')
        /\ Available(a) \in Int /\ Available(a)' = Available(a) + SumFunctionOnSet(AvailOf, {x})
        /\ Reserved(a) \in Int /\ Reserved(a)' = Reserved(a) + SumFunctionOnSet(ReservedOf, {x})
    BY <1>3, <2>1, <2>2, BalanceStep
  <2>4. b \notin OpenOf(a) /\ OpenOf(a)' = OpenOf(a) \cup {b}
    BY <1>5, <1>6, <1>7 DEF OpenOf
  <2> QED BY <1>3, <1>7, <2>2, <2>3, <2>4
<1>8. CASE order[b].acct # a
  <2>1. LedgerOf(a)' = LedgerOf(a)
    BY <1>1, <1>2, <1>8 DEF LedgerOf
  <2>2. OpenOf(a)' = OpenOf(a)
    BY <1>5, <1>6, <1>8 DEF OpenOf
  <2> QED BY <1>3, <1>8, <2>1, <2>2, BalanceKept
<1> QED BY <1>7, <1>8

\* A reset restores the opening credit of an account without open contracts.
LEMMA ResetMoney ==
    ASSUME TypeOK, TypeOK', NEW r \in Account, Reset(r), NEW a \in Account, IsFiniteSet(LedgerOf(a))
    PROVE  /\ IsFiniteSet(LedgerOf(a)') /\ Available(a) \in Int /\ Reserved(a) \in Int
           /\ Available(a)' = (IF a = r THEN OpeningCredit ELSE Available(a))
           /\ Available(a)' >= Available(a)
           /\ Reserved(a)' = Reserved(a) /\ OpenOf(a)' = OpenOf(a)
<1>1. PICK amount \in 0..OpeningCredit : /\ Available(r) + amount = OpeningCredit
                                         /\ Post({Tx(r, "reset", NoBuy, amount, 0, -amount)})
  BY DEF Reset
<1> DEFINE x == Tx(r, "reset", NoBuy, amount, 0, -amount)
<1>2. x.acct = r /\ x.key = <<"reset", NoBuy>> /\ x.avail = amount /\ x.reserved = 0
  BY DEF Tx
<1>3. ~HasKey(r, <<"reset", NoBuy>>) /\ Post({x})
  BY <1>1 DEF Reset
<1> HIDE DEF x
<1>4. x \notin ledger /\ ledger' = ledger \cup {x}
  BY <1>2, <1>3 DEF Post, HasKey
<1>5. ledger \subseteq Entry /\ ledger' \subseteq Entry /\ amount \in Int /\ amount >= 0
  BY BoundsAssumption DEF TypeOK
<1>6. x \in Entry /\ AvailOf[x] = amount /\ ReservedOf[x] = 0
  BY <1>2, <1>4, <1>5 DEF AvailOf, ReservedOf
<1>7. OpenOf(a)' = OpenOf(a)
  BY DEF Reset, OpenOf, rigid
<1>8. CASE a = r
  <2>1. LedgerOf(a)' = LedgerOf(a) \cup {x} /\ LedgerOf(a) \cap {x} = {} /\ {x} \subseteq Entry
    BY <1>2, <1>4, <1>6, <1>8 DEF LedgerOf
  <2>2. /\ IsFiniteSet({x}) /\ SumFunctionOnSet(AvailOf, {x}) = amount
        /\ SumFunctionOnSet(ReservedOf, {x}) = 0
    BY <1>5, <1>6, SumSingle
  <2>3. /\ IsFiniteSet(LedgerOf(a)')
        /\ Available(a) \in Int /\ Available(a)' = Available(a) + SumFunctionOnSet(AvailOf, {x})
        /\ Reserved(a) \in Int /\ Reserved(a)' = Reserved(a) + SumFunctionOnSet(ReservedOf, {x})
    BY <1>5, <2>1, <2>2, BalanceStep
  <2> QED BY <1>1, <1>5, <1>7, <1>8, <2>2, <2>3
<1>9. CASE a # r
  <2>1. LedgerOf(a)' = LedgerOf(a)
    BY <1>2, <1>4, <1>9 DEF LedgerOf
  <2>2. /\ IsFiniteSet(LedgerOf(a)')
        /\ Available(a) \in Int /\ Available(a)' = Available(a)
        /\ Reserved(a) \in Int /\ Reserved(a)' = Reserved(a)
    BY <1>5, <2>1, BalanceKept
  <2> QED BY <1>7, <1>9, <2>2
<1> QED BY <1>8, <1>9

\* Over any step, the available money of an account falls only when a
\* purchase of its own commits, by that stake; and the reserved money follows
\* the stakes of the open contracts.
LEMMA AccountStep ==
    ASSUME TypeOK, TypeOK', LocksExclude, ResolvedOnce, BuyersExclude, FiniteLedgers, [Next]_vars,
           NEW a \in Account
    PROVE  /\ IsFiniteSet(LedgerOf(a)') /\ Available(a) \in Int /\ Available(a)' \in Int
           /\ \/ Available(a)' >= Available(a)
              \/ \E b \in Buy : /\ BuyCommit(b) /\ buy[b].pc = "entered" /\ order[b].acct = a
                                /\ Available(a)' = Available(a) - Stake(b)
           /\ Reserved(a) = SumFunctionOnSet(StakeOf, OpenOf(a))
                => Reserved(a)' = SumFunctionOnSet(StakeOf, OpenOf(a)')
<1> DEFINE P == /\ IsFiniteSet(LedgerOf(a)') /\ Available(a) \in Int /\ Available(a)' \in Int
                /\ \/ Available(a)' >= Available(a)
                   \/ \E b \in Buy : /\ BuyCommit(b) /\ buy[b].pc = "entered" /\ order[b].acct = a
                                     /\ Available(a)' = Available(a) - Stake(b)
                /\ Reserved(a) = SumFunctionOnSet(StakeOf, OpenOf(a))
                     => Reserved(a)' = SumFunctionOnSet(StakeOf, OpenOf(a)')
<1>1. order' = order
  BY BookSteps
<1>2. IsFiniteSet(LedgerOf(a)) /\ ledger \subseteq Entry /\ ledger' \subseteq Entry
  BY DEF FiniteLedgers, TypeOK
<1>3. ASSUME UNCHANGED book PROVE P
  <2>1. LedgerOf(a)' = LedgerOf(a) /\ OpenOf(a)' = OpenOf(a)
    BY <1>1, <1>3 DEF LedgerOf, OpenOf, book
  <2>2. /\ IsFiniteSet(LedgerOf(a)')
        /\ Available(a) \in Int /\ Available(a)' = Available(a)
        /\ Reserved(a) \in Int /\ Reserved(a)' = Reserved(a)
    BY <1>2, <2>1, BalanceKept
  <2> QED BY <2>1, <2>2
<1>4. ASSUME NEW b \in Buy, BuyCommit(b), ~UNCHANGED book PROVE P
  <2>1. PICK settle \in Nat : Bought(b, settle)
    BY <1>4, BuyEffect
  <2>2. /\ IsFiniteSet(LedgerOf(a)') /\ Available(a) \in Int /\ Reserved(a) \in Int
        /\ order[b].acct = a => /\ Available(a)' = Available(a) - Stake(b)
                                /\ Reserved(a)' = Reserved(a) + Stake(b)
                                /\ b \notin OpenOf(a) /\ OpenOf(a)' = OpenOf(a) \cup {b}
        /\ order[b].acct # a => /\ Available(a)' = Available(a) /\ Reserved(a)' = Reserved(a)
                                /\ OpenOf(a)' = OpenOf(a)
    BY <1>1, <1>2, <2>1, BoughtMoney
  <2>3. Stake(b) \in Int /\ buy[b].pc = "entered"
    BY <2>1, OrderOf DEF Bought
  <2>4. CASE order[b].acct = a
    <3>1. \A c \in OpenOf(a) \cup {b} : StakeOf[c] \in Int
      BY OrderOf DEF StakeOf, OpenOf
    <3>2. IsFiniteSet(OpenOf(a)) /\ SumFunctionOnSet(StakeOf, OpenOf(a)) \in Int
      BY StakesAdd DEF OpenOf
    <3>3. SumFunctionOnSet(StakeOf, OpenOf(a) \cup {b}) = StakeOf[b] + SumFunctionOnSet(StakeOf, OpenOf(a))
      BY <2>2, <2>4, <3>1, <3>2, SumAdd
    <3>4. StakeOf[b] = Stake(b)
      BY DEF StakeOf
    <3>5. Available(a)' \in Int /\ BuyCommit(b) /\ Available(a)' = Available(a) - Stake(b)
      BY <1>4, <2>2, <2>3, <2>4
    <3>6. Reserved(a) = SumFunctionOnSet(StakeOf, OpenOf(a))
            => Reserved(a)' = SumFunctionOnSet(StakeOf, OpenOf(a)')
      <4>1. SumFunctionOnSet(StakeOf, OpenOf(a)') = Stake(b) + SumFunctionOnSet(StakeOf, OpenOf(a))
        BY <2>2, <2>4, <3>3, <3>4
      <4>2. Reserved(a)' = Reserved(a) + Stake(b)
        BY <2>2, <2>4
      <4> QED BY <2>2, <2>3, <3>2, <4>1, <4>2
    <3> QED BY <2>2, <2>3, <2>4, <3>5, <3>6
  <2>5. CASE order[b].acct # a
    BY <2>2, <2>5
  <2> QED BY <2>4, <2>5
<1>5. ASSUME NEW done, NEW verdict, NEW name, Resolved(done, verdict, name) PROVE P
  <2> DEFINE B == DoneOf(done, a)
             credit == Credits(done, verdict)
  <2>1. B \subseteq OpenOf(a)
    BY DEF DoneOf
  <2>2. /\ IsFiniteSet(LedgerOf(a)') /\ Available(a) \in Int /\ Reserved(a) \in Int
        /\ Available(a)' = Available(a) + SumFunctionOnSet(credit, B)
        /\ SumFunctionOnSet(credit, B) \in Int /\ SumFunctionOnSet(credit, B) >= 0
        /\ Reserved(a)' = Reserved(a) - SumFunctionOnSet(StakeOf, B)
        /\ SumFunctionOnSet(StakeOf, B) \in Int
        /\ OpenOf(a)' = OpenOf(a) \ B
    BY <1>1, <1>2, <1>5, ResolvedMoney
  <2> HIDE DEF B, credit
  <2>3. B \in SUBSET Buy /\ OpenOf(a) \ B \in SUBSET Buy
    BY <2>1 DEF OpenOf
  <2>4. /\ IsFiniteSet(B) /\ IsFiniteSet(OpenOf(a) \ B)
        /\ SumFunctionOnSet(StakeOf, OpenOf(a) \ B) \in Int
    BY <2>3, StakesAdd
  <2>5. \A b \in (OpenOf(a) \ B) \cup B : StakeOf[b] \in Int
    BY <2>3, OrderOf DEF StakeOf
  <2>6. (OpenOf(a) \ B) \cup B = OpenOf(a) /\ (OpenOf(a) \ B) \cap B = {}
    BY <2>1
  <2>7. SumFunctionOnSet(StakeOf, OpenOf(a))
          = SumFunctionOnSet(StakeOf, OpenOf(a) \ B) + SumFunctionOnSet(StakeOf, B)
    BY <2>4, <2>5, <2>6, SumDisjoint
  <2> QED BY <2>2, <2>4, <2>7
<1>6. ASSUME NEW w \in Worker, AdvCommit(w) PROVE P
  <2> HIDE DEF P
  <2> QED BY <1>5, <1>6, SettleEffect
<1>7. ASSUME NEW v \in Staff, VoidCommit(v) PROVE P
  <2> HIDE DEF P
  <2> QED BY <1>5, <1>7, VoidEffect
<1>8. ASSUME NEW r \in Account, Reset(r) PROVE P
  <2>1. /\ IsFiniteSet(LedgerOf(a)') /\ Available(a) \in Int /\ Reserved(a) \in Int
        /\ Available(a)' = (IF a = r THEN OpeningCredit ELSE Available(a))
        /\ Available(a)' >= Available(a)
        /\ Reserved(a)' = Reserved(a) /\ OpenOf(a)' = OpenOf(a)
    BY <1>2, <1>8, ResetMoney
  <2>2. Available(a)' \in Int
    BY <2>1, BoundsAssumption
  <2> QED BY <2>1, <2>2
<1> QED
  <2> HIDE DEF P
  <2>1. P
    BY <1>3, <1>4, <1>6, <1>7, <1>8, BookSteps
  <2> QED BY <2>1 DEF P

-----------------------------------------------------------------------------
(* Keys, locks and the balance a purchase was promised *)

\* What a step may do to the states of the contracts: only the commit of its
\* own purchase brings a contract into being, one at a time, and none goes away.
LEMMA ContractStep ==
    ASSUME TypeOK, LocksExclude, ResolvedOnce, BuyersExclude, [Next]_vars, NEW b \in Buy
    PROVE  /\ contract'[b].state = "NONE" => contract[b].state = "NONE"
           /\ contract[b].state = "NONE" /\ contract'[b].state # "NONE"
                => /\ BuyCommit(b) /\ \E settle \in Nat : Bought(b, settle)
           /\ contract[b].state # "NONE" => /\ contract'[b].settle = contract[b].settle
                                            /\ contract'[b].entry = contract[b].entry
<1> DEFINE P == /\ contract'[b].state = "NONE" => contract[b].state = "NONE"
                /\ contract[b].state = "NONE" /\ contract'[b].state # "NONE"
                     => /\ BuyCommit(b) /\ \E settle \in Nat : Bought(b, settle)
                /\ contract[b].state # "NONE" => /\ contract'[b].settle = contract[b].settle
                                                 /\ contract'[b].entry = contract[b].entry
<1>1. ASSUME UNCHANGED contract PROVE P
  BY <1>1
<1>2. ASSUME NEW c \in Buy, BuyCommit(c), ~UNCHANGED book PROVE P
  <2>1. PICK settle \in Nat : Bought(c, settle)
    BY <1>2, BuyEffect
  <2>2. CASE b = c
    BY <1>2, <2>1, <2>2 DEF Bought
  <2>3. CASE b # c
    BY <2>1, <2>3 DEF Bought
  <2> QED BY <2>2, <2>3
<1>3. ASSUME NEW done, NEW verdict, NEW name, Resolved(done, verdict, name) PROVE P
  BY <1>3 DEF Resolved
<1>4. ASSUME NEW w \in Worker, AdvCommit(w) PROVE P
  <2> HIDE DEF P
  <2> QED BY <1>3, <1>4, SettleEffect
<1>5. ASSUME NEW v \in Staff, VoidCommit(v) PROVE P
  <2> HIDE DEF P
  <2> QED BY <1>3, <1>5, VoidEffect
<1>6. ASSUME UNCHANGED book \/ \E a \in Account : Reset(a) PROVE P
  <2>1. UNCHANGED contract
    BY <1>6 DEF book, Reset
  <2> HIDE DEF P
  <2> QED BY <1>1, <2>1
<1> QED
  <2> HIDE DEF P
  <2>1. P
    BY <1>2, <1>4, <1>5, <1>6, BookSteps
  <2> QED BY <2>1 DEF P

\* How a purchase comes to hold its account row, and its entry tick.
LEMMA BuyerStep ==
    ASSUME TypeOK, [Next]_vars, NEW b \in Buy, buy'[b].pc \in {"account", "entered"}
    PROVE  \/ buy'[b] = buy[b]
           \/ /\ UNCHANGED book /\ \A c \in Buy \ {b} : buy'[c] = buy[c]
              /\ \/ buy'[b].pc = "account" /\ AccountForUpdate(order[b].acct) = {}
                 \/ /\ buy'[b].pc = "entered" /\ buy[b].pc = "account"
                    /\ SameKey(b) = {} /\ ~(Available(order[b].acct) < Stake(b))
<1> DEFINE P == \/ buy'[b] = buy[b]
                \/ /\ UNCHANGED book /\ \A c \in Buy \ {b} : buy'[c] = buy[c]
                   /\ \/ buy'[b].pc = "account" /\ AccountForUpdate(order[b].acct) = {}
                      \/ /\ buy'[b].pc = "entered" /\ buy[b].pc = "account"
                         /\ SameKey(b) = {} /\ ~(Available(order[b].acct) < Stake(b))
<1>1. buy \in [Buy -> Purchase]
  BY DEF TypeOK
<1>2. ASSUME NEW c \in Buy, NEW tx, buy' = [buy EXCEPT ![c] = tx], tx.pc \notin {"account", "entered"}
      PROVE  P
  BY <1>1, <1>2
<1>3. ASSUME NEW c \in Buy, BuyEnds(c) PROVE P
  <2> DEFINE tx == [pc |-> "done", began |-> 0, entry |-> 0]
  <2>1. buy' = [buy EXCEPT ![c] = tx] /\ tx.pc = "done"
    BY <1>3 DEF BuyEnds, BuyIs
  <2> HIDE DEF P, tx
  <2> QED BY <1>2, <2>1
<1>4. ASSUME NEW c \in Buy, BuyStart(c) PROVE P
  <2> DEFINE tx == [pc |-> "start", began |-> clock, entry |-> 0]
  <2>1. buy' = [buy EXCEPT ![c] = tx] /\ tx.pc = "start"
    BY <1>4 DEF BuyStart, BuyIs
  <2> HIDE DEF P, tx
  <2> QED BY <1>2, <2>1
<1>5. ASSUME NEW c \in Buy, BuyLockAccount(c), ~BuyEnds(c) PROVE P
  <2>1. /\ buy' = [buy EXCEPT ![c] = [buy[c] EXCEPT !.pc = "account"]] /\ UNCHANGED book
        /\ buy[c].pc = "start" /\ WaitsFor(c) = {}
    BY <1>5 DEF BuyLockAccount, BuyIs
  <2>2. AccountForUpdate(order[c].acct) = {}
    BY <2>1 DEF WaitsFor
  <2>3. buy'[c].pc = "account" /\ \A d \in Buy \ {c} : buy'[d] = buy[d]
    BY <1>1, <2>1 DEF Purchase
  <2> QED BY <2>1, <2>2, <2>3
<1>6. ASSUME NEW c \in Buy, BuyLockIndex(c), ~BuyEnds(c) PROVE P
  <2>1. /\ buy' = [buy EXCEPT ![c] = [buy[c] EXCEPT !.pc = "entered", !.entry = EntryTick(lastTick, clock)]]
        /\ UNCHANGED book /\ buy[c].pc = "account"
        /\ SameKey(c) = {} /\ ~(Available(order[c].acct) < Stake(c))
    BY <1>6 DEF BuyLockIndex, BuyIs
  <2>2. buy'[c].pc = "entered" /\ \A d \in Buy \ {c} : buy'[d] = buy[d]
    BY <1>1, <2>1 DEF Purchase
  <2> QED BY <2>1, <2>2
<1>7. ASSUME NEW c \in Buy, BuyStart(c) \/ BuyStep(c) \/ BuyVictim(c) PROVE P
  <2> HIDE DEF P
  <2> QED BY <1>3, <1>4, <1>5, <1>6, <1>7 DEF BuyStep, BuyCommit, BuyVictim
<1>8. ASSUME UNCHANGED buy PROVE P
  BY <1>8
<1>9. ASSUME NEW w \in Worker, AdvStep(w) \/ AdvCrash(w) \/ AdvVictim(w) PROVE UNCHANGED buy
  BY <1>9 DEF AdvStep, AdvSnapshot, AdvTryLock, AdvTick, AdvNext, AdvLockContract, AdvPost, AdvFlag,
     AdvTickDone, AdvCommit, AdvCrash, AdvVictim
<1>10. ASSUME NEW v \in Staff, VoidStep(v) \/ VoidVictim(v) \/ \E c \in Buy : VoidStart(v, c)
       PROVE  UNCHANGED buy
  BY <1>10 DEF VoidStep, VoidLock, VoidCommit, VoidVictim, VoidStart
<1>11. ASSUME Elapse \/ (\E a \in Account : Reset(a)) \/ UNCHANGED vars PROVE UNCHANGED buy
  BY <1>11 DEF Elapse, Reset, vars
<1> QED
  <2> HIDE DEF P
  <2>1. P
    BY <1>7, <1>8, <1>9, <1>10, <1>11 DEF Next, Victim
  <2> QED BY <2>1 DEF P

\* Which keys a step adds to the ledger: of purchases, those it opens.
LEMMA BuyKeys ==
    ASSUME TypeOK, LocksExclude, ResolvedOnce, BuyersExclude, [Next]_vars, NEW b \in Buy, NEW a,
           HasKey(a, <<"buy", b>>)', ~HasKey(a, <<"buy", b>>)
    PROVE  contract'[b].state = "OPEN"
<1> DEFINE P == contract'[b].state = "OPEN"
<1>1. PICK x \in ledger' : x.acct = a /\ x.key = <<"buy", b>> /\ x \notin ledger
  BY DEF HasKey
<1>2. ASSUME NEW done, NEW verdict, NEW name, Resolved(done, verdict, name) PROVE FALSE
  <2>1. PICK c \in done : x = name[c]
    BY <1>1, <1>2 DEF Resolved
  <2>2. x = Settlement(c, verdict[c]) \/ x = Refund("void", c)
    BY <1>2, <2>1 DEF Resolved
  <2>3. verdict[c] \in {"WON", "LOST", "VOID"}
    BY <1>2 DEF Resolved
  <2>4. x.key = <<"settle", c>> \/ x.key = <<"void", c>>
    BY <2>2, <2>3, SettlementKey DEF Refund, Tx
  <2> QED BY <1>1, <2>4
<1>3. ASSUME NEW c \in Buy, BuyCommit(c), ~UNCHANGED book PROVE P
  <2>1. PICK settle \in Nat : Bought(c, settle)
    BY <1>3, BuyEffect
  <2>2. x = Tx(order[c].acct, "buy", c, -Stake(c), Stake(c), 0) /\ contract'[c].state = "OPEN"
    BY <1>1, <2>1 DEF Bought
  <2>3. b = c
    BY <1>1, <2>2 DEF Tx
  <2> QED BY <2>2, <2>3
<1>4. ASSUME NEW w \in Worker, AdvCommit(w) PROVE FALSE
  BY <1>2, <1>4, SettleEffect
<1>5. ASSUME NEW v \in Staff, VoidCommit(v) PROVE FALSE
  BY <1>2, <1>5, VoidEffect
<1>6. ASSUME NEW r \in Account, Reset(r) PROVE FALSE
  <2>1. PICK amount \in 0..OpeningCredit : Post({Tx(r, "reset", NoBuy, amount, 0, -amount)})
    BY <1>6 DEF Reset
  <2>2. x = Tx(r, "reset", NoBuy, amount, 0, -amount)
    BY <1>1, <2>1 DEF Post
  <2>3. x.key = <<"reset", NoBuy>>
    BY <2>2 DEF Tx
  <2> QED BY <1>1, <2>3
<1>7. ~UNCHANGED book
  BY <1>1 DEF book
<1> QED
  <2> HIDE DEF P
  <2>1. P
    BY <1>3, <1>4, <1>5, <1>6, <1>7, BookSteps
  <2> QED BY <2>1 DEF P

\* The account row keeps purchases of one account apart, so what a purchase
\* found out about keys and balance is still so when it commits.
LEMMA BuyersNext ==
    ASSUME TypeOK, TypeOK', LocksExclude, ResolvedOnce, BuyersExclude, FiniteLedgers, [Next]_vars
    PROVE  BuyersExclude'
<1>1. order' = order
  BY BookSteps
<1>2. ASSUME NEW b \in Buy, contract'[b].state = "NONE" PROVE ~HasKey(order[b].acct, <<"buy", b>>)'
  <2>1. contract[b].state = "NONE"
    BY <1>2, ContractStep
  <2>2. ~HasKey(order[b].acct, <<"buy", b>>)
    BY <2>1 DEF BuyersExclude
  <2>3. HasKey(order[b].acct, <<"buy", b>>)' = \E x \in ledger' : x.acct = order[b].acct /\ x.key = <<"buy", b>>
    BY <1>1 DEF HasKey
  <2> SUFFICES ASSUME NEW x \in ledger', x.acct = order[b].acct, x.key = <<"buy", b>> PROVE FALSE
    BY <2>3
  <2> DEFINE a == order[b].acct
  <2>4. ~HasKey(a, <<"buy", b>>) /\ x.acct = a
    BY <2>2
  <2> HIDE DEF a
  <2>5. a' = a
    BY <1>1 DEF a
  <2>6. HasKey(a, <<"buy", b>>)'
    BY <2>4, <2>5 DEF HasKey
  <2>7. contract'[b].state = "OPEN"
    BY <1>2, <2>4, <2>5, <2>6, BuyKeys
  <2> QED BY <1>2, <2>7
<1>3. ASSUME NEW b \in Buy, buy'[b].pc \in {"account", "entered"}
      PROVE  AccountForUpdate(order[b].acct)' = {b}
  <2> DEFINE held(c) == order[c].acct = order[b].acct /\ buy'[c].pc \in {"account", "entered"}
  <2>1. AccountForUpdate(order[b].acct)' = {c \in Buy : held(c)}
    BY <1>1 DEF AccountForUpdate
  <2>2. ASSUME NEW c \in Buy, held(c), c # b PROVE FALSE
    <3>1. \A d \in {b, c} : buy'[d].pc \in {"account", "entered"} /\ d \in Buy
      BY <1>3, <2>2
    <3>2. \A d \in {b, c} : \/ buy'[d] = buy[d]
                            \/ /\ \A e \in Buy \ {d} : buy'[e] = buy[e]
                               /\ AccountForUpdate(order[d].acct) = {} \/ buy[d].pc = "account"
      BY <3>1, BuyerStep
    <3>3. buy'[b] = buy[b] \/ buy'[c] = buy[c]
      BY <2>2, <3>2
    <3>4. ASSUME NEW d \in {b, c}, NEW e \in {b, c}, d # e, buy'[d] = buy[d] PROVE FALSE
      <4>1. d \in AccountForUpdate(order[e].acct) /\ d \in AccountForUpdate(order[d].acct)
        BY <2>2, <3>1, <3>4 DEF AccountForUpdate
      <4>2. AccountForUpdate(order[d].acct) = {d} /\ order[d].acct = order[e].acct
        BY <2>2, <3>1, <3>4 DEF BuyersExclude
      <4>3. buy[e].pc \notin {"account", "entered"}
        BY <2>2, <3>1, <3>4, <4>2 DEF AccountForUpdate
      <4> QED BY <3>1, <3>2, <4>1, <4>3
    <3> QED BY <2>2, <3>3, <3>4
  <2>3. held(b)
    BY <1>3
  <2> HIDE DEF held
  <2> QED BY <2>1, <2>2, <2>3
<1>4. ASSUME NEW b \in Buy, buy'[b].pc = "entered"
      PROVE  SameKey(b)' = {} /\ Available(order[b].acct)' >= Stake(b)'
  <2> DEFINE a == order[b].acct
  <2>1. a \in Account /\ a' = a /\ Stake(b) \in Int /\ Stake(b)' = Stake(b)
    BY <1>1, OrderOf DEF Stake
  <2>2. /\ Available(a) \in Int /\ Available(a)' \in Int
        /\ \/ Available(a)' >= Available(a)
           \/ \E c \in Buy : BuyCommit(c) /\ buy[c].pc = "entered" /\ order[c].acct = a
    BY <2>1, AccountStep
  <2>3. CASE buy'[b] # buy[b]
    <3>1. UNCHANGED book /\ SameKey(b) = {} /\ ~(Available(a) < Stake(b))
      BY <1>4, <2>3, BuyerStep
    <3>2. SameKey(b)' = SameKey(b) /\ Available(a)' = Available(a)
      BY <1>1, <3>1 DEF SameKey, BoughtBy, Available, LedgerOf, book
    <3> QED BY <2>1, <2>2, <3>1, <3>2
  <2>4. CASE buy'[b] = buy[b]
    <3>1. SameKey(b) = {} /\ Available(a) >= Stake(b) /\ AccountForUpdate(a) = {b}
      BY <1>4, <2>4 DEF BuyersExclude
    <3>2. ASSUME NEW c \in Buy, BuyCommit(c), buy[c].pc = "entered", order[c].acct = a PROVE FALSE
      <4>1. c = b
        BY <3>1, <3>2 DEF AccountForUpdate
      <4>2. buy'[c].pc = "done"
        BY <3>2 DEF BuyCommit, BuyEnds, BuyIs, TypeOK
      <4> QED BY <1>4, <4>1, <4>2
    <3>3. Available(a)' >= Available(a)
      BY <2>2, <3>2
    <3>4. ASSUME NEW c \in BoughtBy(a)' PROVE c \in BoughtBy(a)
      <4>1. c \in Buy /\ order[c].acct = a /\ contract'[c].state # "NONE"
        BY <1>1 DEF BoughtBy
      <4>2. CASE contract[c].state = "NONE"
        <5>1. BuyCommit(c) /\ buy[c].pc = "entered"
          BY <4>1, <4>2, ContractStep DEF Bought
        <5> QED BY <3>2, <4>1, <5>1
      <4>3. CASE contract[c].state # "NONE"
        BY <4>1, <4>3 DEF BoughtBy
      <4> QED BY <4>2, <4>3
    <3>5. SameKey(b)' = {c \in BoughtBy(a)' : order[c].key = order[b].key}
      BY <1>1, <2>1 DEF SameKey, BoughtBy
    <3>6. SameKey(b)' = {}
      BY <3>1, <3>4, <3>5 DEF SameKey
    <3> QED BY <2>1, <2>2, <3>1, <3>3, <3>6
  <2> QED BY <2>3, <2>4
<1> QED BY <1>2, <1>3, <1>4 DEF BuyersExclude

\* A request key buys at most once.
LEMMA KeysNext ==
    ASSUME TypeOK, LocksExclude, ResolvedOnce, BuyersExclude, OneContractPerKey, [Next]_vars
    PROVE  OneContractPerKey'
<1>1. order' = order
  BY BookSteps
<1>2. ASSUME NEW b \in Buy, NEW c \in Buy, contract'[b].state # "NONE", contract'[c].state # "NONE",
             order[b].acct = order[c].acct, order[b].key = order[c].key, b # c,
             contract[b].state = "NONE"
      PROVE  FALSE
  <2>1. PICK settle \in Nat : Bought(b, settle)
    BY <1>2, ContractStep
  <2>2. contract[c].state # "NONE"
    BY <1>2, <2>1 DEF Bought
  <2>3. c \in SameKey(b)
    BY <1>2, <2>2 DEF SameKey, BoughtBy
  <2> QED BY <2>1, <2>3 DEF Bought, BuyersExclude
<1>3. ASSUME NEW b \in Buy, NEW c \in Buy, contract'[b].state # "NONE", contract'[c].state # "NONE",
             order[b].acct = order[c].acct, order[b].key = order[c].key
      PROVE  b = c
  <2>1. CASE contract[b].state = "NONE" \/ contract[c].state = "NONE"
    BY <1>2, <1>3, <2>1
  <2>2. CASE contract[b].state # "NONE" /\ contract[c].state # "NONE"
    BY <1>3, <2>2 DEF OneContractPerKey
  <2> QED BY <2>1, <2>2
<1> QED BY <1>1, <1>3 DEF OneContractPerKey

\* Balances stay covered and reservations exact.
LEMMA BalancesNext ==
    ASSUME TypeOK, TypeOK', LocksExclude, ResolvedOnce, BuyersExclude, FiniteLedgers, [Next]_vars,
           NoOverdraft, ReservedIsOpenStakes
    PROVE  FiniteLedgers' /\ NoOverdraft' /\ ReservedIsOpenStakes'
<1>1. order' = order
  BY BookSteps
<1>2. ASSUME NEW a \in Account PROVE Available(a)' >= 0
  <2>1. /\ Available(a) \in Int /\ Available(a)' \in Int
        /\ \/ Available(a)' >= Available(a)
           \/ \E b \in Buy : /\ buy[b].pc = "entered" /\ order[b].acct = a
                             /\ Available(a)' = Available(a) - Stake(b)
    BY AccountStep
  <2>2. CASE Available(a)' >= Available(a)
    BY <2>1, <2>2 DEF NoOverdraft
  <2>3. ASSUME NEW b \in Buy, buy[b].pc = "entered", order[b].acct = a,
               Available(a)' = Available(a) - Stake(b)
        PROVE  Available(a)' >= 0
    <3>1. Stake(b) \in Nat \ {0}
      BY <2>3, OrderOf
    <3>2. Available(order[b].acct) >= Stake(b)
      BY <2>3 DEF BuyersExclude
    <3> QED BY <2>1, <2>3, <3>1, <3>2
  <2> QED BY <2>1, <2>2, <2>3
<1>3. StakeOf' = StakeOf /\ StakeOf = [b \in Buy |-> Stake(b)]
  BY <1>1 DEF StakeOf, Stake
<1>4. ASSUME NEW a \in Account PROVE Reserved(a)' = SumFunctionOnSet(StakeOf, OpenOf(a)')
  <2>1. Reserved(a) = SumFunctionOnSet(StakeOf, OpenOf(a))
    BY <1>3 DEF ReservedIsOpenStakes
  <2> QED BY <2>1, AccountStep
<1>5. FiniteLedgers'
  BY AccountStep DEF FiniteLedgers
<1>6. NoOverdraft'
  BY <1>2 DEF NoOverdraft
<1>7. ReservedIsOpenStakes'
  BY <1>3, <1>4 DEF ReservedIsOpenStakes, StakeOf
<1> QED BY <1>5, <1>6, <1>7

-----------------------------------------------------------------------------
(* Runs settle the contracts of the ticks they write *)

\* What RunSettlesItsTicks says of one run r, over the contracts con.
Settles(r, con) ==
    /\ r.pc \in {"idle", "snapshot"} => r.todo = {} /\ r.cleared = {} /\ r.settled = {}
    /\ r.pc \notin {"idle", "snapshot"} =>
         /\ r.pc # "running" => r.from < r.cur
         /\ \A b \in r.settled : con[b].settle \in r.from + 1 .. r.cur
         /\ \A b \in r.todo \cup HoldsOf(r) : con[b].state # "NONE" /\ con[b].settle = r.cur
         /\ r.cleared \subseteq r.from + 1 .. r.cur
         /\ \A t \in r.cleared : {b \in Buy : con[b].state = "OPEN" /\ con[b].settle = t} \subseteq r.settled

LEMMA SettlesParts ==
    ASSUME LocksExclude
    PROVE  RunSettlesItsTicks <=>
             /\ clock <= MaxClock
             /\ \A w \in Worker : Settles(run[w], contract)
             /\ \A b \in Buy : \/ contract[b].state = "NONE" \/ contract[b].settle \in DOMAIN exposure
                               \/ Published(contract[b].settle)
BY DEF RunSettlesItsTicks, Settles, Advancing, Holds, HoldsOf, OpenOn, LocksExclude

\* What others do to the contracts leaves that as it is: a purchase that
\* commits bets on ticks no run has begun.
LEMMA SettlesKept ==
    ASSUME IInv, BuyersExclude, [Next]_vars, NEW w \in Worker, Settles(run[w], contract)
    PROVE  Settles(run[w], contract')
<1> DEFINE r == run[w]
<1>1. /\ TypeOK /\ LocksExclude /\ ResolvedOnce /\ RunCoversTicks
      /\ r.settled \subseteq Buy /\ r.from \in Nat /\ r.cur \in Nat
  BY DEF IInv, TypeOK, Run
<1>2. \A b \in Buy : contract[b].state # "NONE" =>
        /\ contract'[b].state # "NONE" /\ contract'[b].settle = contract[b].settle
  BY <1>1, ContractStep
<1>3. r.todo \cup HoldsOf(r) \subseteq Buy
  BY <1>1 DEF HoldsOf, TypeOK, Run, LocksExclude
<1>4. ASSUME r.pc \notin {"idle", "snapshot"}, NEW t \in r.cleared,
             NEW b \in Buy, contract'[b].state = "OPEN", contract'[b].settle = t
      PROVE  b \in r.settled
  <2>1. t \in r.from + 1 .. r.cur
    BY <1>4 DEF Settles
  <2>2. contract[b].state # "NONE"
    <3> SUFFICES ASSUME contract[b].state = "NONE" PROVE FALSE
      OBVIOUS
    <3>1. buy[b].pc = "entered"
      BY <1>1, <1>4, ContractStep DEF Bought
    <3>2. r.cur = r.from
      BY <1>1, <1>4, <3>1 DEF RunCoversTicks, Advancing
    <3> QED BY <1>1, <2>1, <3>2
  <2>3. contract[b].state = "OPEN"
    <3> DEFINE P == contract'[b].state = "OPEN" => contract[b].state = "OPEN"
    <3>1. ASSUME NEW done, NEW verdict, NEW name, Resolved(done, verdict, name) PROVE P
      BY <3>1 DEF Resolved
    <3>2. ASSUME NEW c \in Buy, BuyCommit(c), ~UNCHANGED book PROVE P
      BY <1>1, <2>2, <3>2, BuyEffect DEF Bought
    <3>3. ASSUME UNCHANGED book \/ \E a \in Account : Reset(a) PROVE P
      BY <3>3 DEF book, Reset
    <3> HIDE DEF P
    <3>4. ASSUME NEW v \in Staff, VoidCommit(v) PROVE P
      BY <1>1, <3>1, <3>4, VoidEffect
    <3>5. ASSUME NEW x \in Worker, AdvCommit(x) PROVE P
      BY <1>1, <3>1, <3>5, SettleEffect
    <3>6. P
      BY <3>2, <3>3, <3>4, <3>5, BookSteps
    <3> QED BY <1>4, <3>6 DEF P
  <2>4. contract[b].settle = t
    BY <1>2, <1>4, <2>2
  <2> QED BY <1>4, <2>3, <2>4 DEF Settles
<1>5. \A b \in r.settled : contract[b].state = "OPEN" /\ b \in Buy
  BY <1>1 DEF LocksExclude
<1>6. \A b \in r.settled : contract'[b].settle = contract[b].settle
  BY <1>2, <1>5
<1> HIDE DEF r
<1>7. ASSUME r.pc \notin {"idle", "snapshot"}
      PROVE  \A b \in r.todo \cup HoldsOf(r) : contract'[b].state # "NONE" /\ contract'[b].settle = r.cur
  BY <1>2, <1>3, <1>7 DEF Settles, r
<1>8. ASSUME r.pc \notin {"idle", "snapshot"}
      PROVE  \A t \in r.cleared :
               {b \in Buy : contract'[b].state = "OPEN" /\ contract'[b].settle = t} \subseteq r.settled
  BY <1>4, <1>8
<1>9. Settles(r, contract)
  BY DEF r
<1>10. Settles(r, contract')
  BY <1>6, <1>7, <1>8, <1>9 DEF Settles
<1> QED BY <1>10 DEF r

\* What a run's own steps make of it, the contracts being as they are.
LEMMA SettlesOwn ==
    ASSUME IInv, NEW w \in Worker, Settles(run[w], contract),
           AdvStep(w) \/ AdvCrash(w) \/ AdvVictim(w)
    PROVE  /\ \A x \in Worker \ {w} : run'[x] = run[x]
           /\ \/ run'[w] = IdleRun
              \/ UNCHANGED contract /\ Settles(run'[w], contract)
<1> DEFINE q == run[w]
           P == /\ \A x \in Worker \ {w} : run'[x] = run[x]
                /\ \/ run'[w] = IdleRun
                   \/ UNCHANGED contract /\ Settles(run'[w], contract)
<1> USE DEF book
<1>1. q \in Run /\ q.from \in Nat /\ q.cur \in Nat /\ run \in [Worker -> Run]
  BY DEF IInv, TypeOK, Run
<1>2. Covers(q) /\ LocksExclude
  BY CoversParts DEF IInv
<1>3. ASSUME NEW r, run' = [run EXCEPT ![w] = r], r = IdleRun \/ (UNCHANGED contract /\ Settles(r, contract))
      PROVE  P
  BY <1>1, <1>3
<1>4. CASE AdvSnapshot(w)
  <2> DEFINE r == [IdleRun EXCEPT !.pc = "snapshot", !.began = clock, !.from = lastTick, !.cur = lastTick]
  <2>1. r.pc = "snapshot" /\ r.todo = {} /\ r.cleared = {} /\ r.settled = {}
    BY DEF IdleRun
  <2>2. run' = [run EXCEPT ![w] = r] /\ UNCHANGED contract
    BY <1>4 DEF AdvSnapshot, RunIs
  <2> HIDE DEF r, P
  <2>3. Settles(r, contract)
    BY <2>1 DEF Settles
  <2>4. P
    BY <1>3, <2>2, <2>3
  <2> QED BY <2>4 DEF P
<1>5. CASE AdvTryLock(w)
  <2> DEFINE r == [q EXCEPT !.pc = "running", !.due = clock \div 2]
  <2>1. /\ r.pc = "running" /\ r.todo = q.todo /\ r.cleared = q.cleared /\ r.settled = q.settled
    BY <1>1 DEF Run
  <2>2. (run' = [run EXCEPT ![w] = IdleRun] \/ run' = [run EXCEPT ![w] = r]) /\ UNCHANGED contract
    BY <1>5 DEF AdvTryLock, RunIs
  <2>3. q.pc = "snapshot"
    BY <1>5 DEF AdvTryLock
  <2> HIDE DEF r, P
  <2>4. Settles(r, contract)
    BY <2>1, <2>3 DEF Settles, HoldsOf
  <2>5. P
    BY <1>3, <2>2, <2>4
  <2> QED BY <2>5 DEF P
<1>6. CASE AdvTick(w)
  <2> DEFINE r == [q EXCEPT !.pc = "settling", !.cur = @ + 1, !.todo = OpenOn(q.cur + 1)]
  <2>1. /\ r.pc = "settling" /\ r.cur = q.cur + 1 /\ r.from = q.from /\ r.cleared = q.cleared
        /\ r.settled = q.settled /\ r.todo = OpenOn(q.cur + 1)
    BY <1>1 DEF Run
  <2>2. run' = [run EXCEPT ![w] = r] /\ UNCHANGED contract /\ q.pc = "running"
    BY <1>6 DEF AdvTick, RunIs
  <2>3. q.from <= q.cur
    BY <1>2, <2>2 DEF Covers
  <2> HIDE DEF r, P
  <2>4. \A n : n \in q.from + 1 .. q.cur => n \in r.from + 1 .. r.cur
    BY <1>1, <2>1
  <2>5. \A b \in r.todo \cup HoldsOf(r) : contract[b].state = "OPEN" /\ contract[b].settle = r.cur
    BY <2>1 DEF HoldsOf, OpenOn
  <2>6. r.from < r.cur
    BY <1>1, <2>1, <2>3
  <2>7. Settles(r, contract)
    BY <2>1, <2>2, <2>4, <2>5, <2>6 DEF Settles
  <2>8. P
    BY <1>3, <2>2, <2>7
  <2> QED BY <2>8 DEF P
<1>7. ASSUME NEW b \in Buy, AdvNext(w, b) PROVE P
  <2> DEFINE r == [q EXCEPT !.pc = "locking", !.cid = b, !.todo = @ \ {b}]
  <2>1. /\ r.pc = "locking" /\ r.cid = b /\ r.todo = q.todo \ {b} /\ r.cur = q.cur /\ r.from = q.from
        /\ r.cleared = q.cleared /\ r.settled = q.settled
    BY <1>1 DEF Run
  <2>2. run' = [run EXCEPT ![w] = r] /\ UNCHANGED contract /\ q.pc = "settling" /\ b \in q.todo
    BY <1>7 DEF AdvNext, RunIs
  <2> HIDE DEF r, P
  <2>3. Settles(r, contract)
    BY <2>1, <2>2 DEF Settles, HoldsOf
  <2> QED BY <1>3, <2>2, <2>3
<1>8. CASE AdvLockContract(w)
  <2> DEFINE r == [q EXCEPT !.pc = IF contract[q.cid].state = "OPEN" THEN "posting" ELSE "settling"]
  <2>1. /\ r.pc \in {"posting", "settling"} /\ r.cid = q.cid /\ r.todo = q.todo /\ r.cur = q.cur
        /\ r.from = q.from /\ r.cleared = q.cleared /\ r.settled = q.settled
    BY <1>1 DEF Run
  <2>2. run' = [run EXCEPT ![w] = r] /\ UNCHANGED contract /\ q.pc = "locking"
    BY <1>8 DEF AdvLockContract, RunIs
  <2> HIDE DEF r, P
  <2>3. Settles(r, contract)
    BY <2>1, <2>2 DEF Settles, HoldsOf
  <2>4. P
    BY <1>3, <2>2, <2>3
  <2> QED BY <2>4 DEF P
<1>9. CASE AdvPost(w)
  <2> DEFINE r == [q EXCEPT !.pc = "settling", !.settled = @ \cup {q.cid}]
  <2>1. /\ r.pc = "settling" /\ r.todo = q.todo /\ r.cur = q.cur
        /\ r.from = q.from /\ r.cleared = q.cleared /\ r.settled = q.settled \cup {q.cid}
    BY <1>1 DEF Run
  <2>2. run' = [run EXCEPT ![w] = r] /\ UNCHANGED contract /\ q.pc = "posting"
    BY <1>9 DEF AdvPost, RunIs
  <2> HIDE DEF r, P
  <2>3. contract[q.cid].settle = q.cur /\ q.cur \in q.from + 1 .. q.cur
    BY <1>1, <2>2 DEF Settles, HoldsOf
  <2>4. Settles(r, contract)
    BY <2>1, <2>2, <2>3 DEF Settles, HoldsOf
  <2>5. P
    BY <1>3, <2>2, <2>4
  <2> QED BY <2>5 DEF P
<1>10. CASE AdvFlag(w)
  <2> DEFINE r == [q EXCEPT !.pc = "settling",
                     !.flagged = IF contract[q.cid].state = "OPEN" THEN @ \cup {q.cid} ELSE @]
  <2>1. /\ r.pc = "settling" /\ r.todo = q.todo /\ r.cur = q.cur
        /\ r.from = q.from /\ r.cleared = q.cleared /\ r.settled = q.settled
    BY <1>1 DEF Run
  <2>2. run' = [run EXCEPT ![w] = r] /\ UNCHANGED contract /\ q.pc = "flagging"
    BY <1>10 DEF AdvFlag, RunIs
  <2> HIDE DEF r, P
  <2>3. Settles(r, contract)
    BY <2>1, <2>2 DEF Settles, HoldsOf
  <2>4. P
    BY <1>3, <2>2, <2>3
  <2> QED BY <2>4 DEF P
<1>11. CASE AdvTickDone(w)
  <2> DEFINE r == [q EXCEPT !.pc = "running",
                     !.cleared = IF OpenOn(q.cur) \subseteq q.settled THEN @ \cup {q.cur} ELSE @]
  <2>1. /\ r.pc = "running" /\ r.todo = q.todo /\ r.cur = q.cur /\ r.from = q.from /\ r.settled = q.settled
        /\ r.cleared = IF OpenOn(q.cur) \subseteq q.settled THEN q.cleared \cup {q.cur} ELSE q.cleared
    BY <1>1 DEF Run
  <2>2. run' = [run EXCEPT ![w] = r] /\ UNCHANGED contract /\ q.pc = "settling"
    BY <1>11 DEF AdvTickDone, RunIs
  <2> HIDE DEF r, P
  <2>3. q.cur \in q.from + 1 .. q.cur
    BY <1>1, <2>2 DEF Settles
  <2>4. Settles(r, contract)
    BY <2>1, <2>2, <2>3 DEF Settles, HoldsOf, OpenOn
  <2>5. P
    BY <1>3, <2>2, <2>4
  <2> QED BY <2>5 DEF P
<1>12. CASE AdvCommit(w) \/ AdvCrash(w)
  BY <1>1, <1>12 DEF AdvCommit, AdvCrash, RunIs
<1>13. CASE AdvVictim(w)
  <2> DEFINE r == [q EXCEPT !.pc = "flagging"]
  <2>1. /\ r.pc = "flagging" /\ r.cid = q.cid /\ r.todo = q.todo /\ r.cur = q.cur
        /\ r.from = q.from /\ r.cleared = q.cleared /\ r.settled = q.settled
    BY <1>1 DEF Run
  <2>2. /\ UNCHANGED contract
        /\ \/ run' = [run EXCEPT ![w] = IdleRun]
           \/ run' = [run EXCEPT ![w] = r] /\ q.pc \in {"locking", "posting"}
    BY <1>13 DEF AdvVictim, RunIs
  <2> HIDE DEF r, P
  <2>3. q.pc \in {"locking", "posting"} => Settles(r, contract)
    BY <2>1 DEF Settles, HoldsOf
  <2>4. P
    BY <1>3, <2>2, <2>3
  <2> QED BY <2>4 DEF P
<1> QED BY <1>4, <1>5, <1>6, <1>7, <1>8, <1>9, <1>10, <1>11, <1>12, <1>13 DEF AdvStep

\* The ticks a run writes exist once it commits, with the time it gives them.
LEMMA CommitPublishes ==
    ASSUME IInv, RunSettlesItsTicks, NEW w \in Worker, AdvCommit(w),
           NEW t \in run[w].from + 1 .. run[w].cur
    PROVE  t \in Ticks /\ genAt'[t] = TickTime(w, t) /\ Published(t)'
<1> DEFINE q == run[w]
<1>1. /\ q.from \in Nat /\ q.cur \in Nat /\ q.due \in Nat /\ q.began \in Nat /\ q.pc = "running"
      /\ clock \in Nat /\ MaxClock \in Nat /\ clock <= MaxClock
  BY BoundsAssumption DEF IInv, TypeOK, Run, RunSettlesItsTicks, AdvCommit
<1>2. t \in Int /\ 1 <= t /\ q.from < q.cur /\ t <= q.cur
  BY <1>1
<1>3. q.cur <= q.due /\ 2 * q.due <= clock
  BY <1>1, <1>2 DEF IInv, RunCoversTicks, Advancing
<1> HIDE DEF q
<1>4. 2 * t <= MaxClock
  BY <1>1, <1>2, <1>3
<1>5. t <= MaxClock \div 2
  <2> DEFINE n == MaxClock \div 2
  <2>1. n \in Nat /\ MaxClock < (n + 1) * 2
    BY <1>1, DivBounds
  <2> HIDE DEF n
  <2>2. t <= n
    BY <1>1, <1>2, <1>4, <2>1
  <2> QED BY <2>2 DEF n
<1>6. t \in Ticks
  BY <1>1, <1>2, <1>5 DEF Ticks
<1>7. genAt'[t] = TickTime(w, t)
  BY <1>6 DEF AdvCommit
<1>8. TickTime(w, t) # Never
  BY <1>1 DEF TickTime, Never, q
<1> QED BY <1>6, <1>7, <1>8 DEF Published

\* A published tick stays published.
LEMMA PublishedStays ==
    ASSUME TypeOK, Contiguous, [Next]_vars, NEW t, Published(t)
    PROVE  Published(t)' /\ genAt'[t] = genAt[t]
BY FeedSteps DEF Published

\* An exposure row goes only with the run that cleared its tick.
LEMMA ExposureRows ==
    ASSUME TypeOK, LocksExclude, BuyersExclude, [Next]_vars, NEW t \in DOMAIN exposure
    PROVE  t \in DOMAIN exposure' \/ \E w \in Worker : AdvCommit(w) /\ t \in run[w].cleared
<1>1. ASSUME NEW b \in Buy, BuyCommit(b), ~UNCHANGED book PROVE t \in DOMAIN exposure'
  BY <1>1, BuyEffect DEF Bought
<1>2. ASSUME NEW w \in Worker, AdvCommit(w), t \notin run[w].cleared PROVE t \in DOMAIN exposure'
  BY <1>2 DEF AdvCommit
<1>3. ASSUME NEW v \in Staff, VoidCommit(v) PROVE UNCHANGED exposure
  BY <1>3 DEF VoidCommit
<1>4. ASSUME UNCHANGED book \/ \E a \in Account : Reset(a) PROVE UNCHANGED exposure
  BY <1>4 DEF book, Reset
<1> QED BY <1>1, <1>2, <1>3, <1>4, BookSteps

\* Runs go on settling the contracts of their ticks only.
LEMMA SettlesNext ==
    ASSUME IInv, LocksExclude', BuyersExclude, Contiguous, RunSettlesItsTicks, [Next]_vars
    PROVE  RunSettlesItsTicks'
<1>1. /\ TypeOK /\ LocksExclude /\ ResolvedOnce /\ clock \in Nat
      /\ clock <= MaxClock /\ \A w \in Worker : Settles(run[w], contract)
      /\ \A b \in Buy : \/ contract[b].state = "NONE" \/ contract[b].settle \in DOMAIN exposure
                        \/ Published(contract[b].settle)
  BY SettlesParts DEF IInv, TypeOK
<1>2. \A w \in Worker : Settles(run[w], contract')
  BY <1>1, SettlesKept
<1>3. clock' <= MaxClock
  <2>1. CASE Elapse
    BY <1>1, <2>1, BoundsAssumption DEF Elapse
  <2>2. ASSUME NEW b \in Buy, BuyStart(b) \/ BuyStep(b) \/ BuyVictim(b) PROVE UNCHANGED clock
    BY <2>2 DEF BuyStart, BuyStep, BuyLockAccount, BuyLockIndex, BuyCommit, BuyVictim
  <2>3. ASSUME NEW w \in Worker, AdvStep(w) \/ AdvCrash(w) \/ AdvVictim(w) PROVE UNCHANGED clock
    BY <2>3 DEF AdvStep, AdvSnapshot, AdvTryLock, AdvTick, AdvNext, AdvLockContract, AdvPost, AdvFlag,
       AdvTickDone, AdvCommit, AdvCrash, AdvVictim
  <2>4. ASSUME NEW v \in Staff, VoidStep(v) \/ VoidVictim(v) \/ \E b \in Buy : VoidStart(v, b)
        PROVE  UNCHANGED clock
    BY <2>4 DEF VoidStep, VoidLock, VoidCommit, VoidVictim, VoidStart
  <2>5. ASSUME (\E a \in Account : Reset(a)) \/ UNCHANGED vars PROVE UNCHANGED clock
    BY <2>5 DEF Reset, vars
  <2> QED BY <1>1, <2>1, <2>2, <2>3, <2>4, <2>5 DEF Next, Victim
<1>4. \A w \in Worker : Settles(run'[w], contract')
  <2>1. ASSUME UNCHANGED run PROVE \A w \in Worker : Settles(run'[w], contract')
    BY <1>2, <2>1
  <2>2. ASSUME NEW x \in Worker, AdvStep(x) \/ AdvCrash(x) \/ AdvVictim(x)
        PROVE  \A w \in Worker : Settles(run'[w], contract')
    <3>1. /\ \A w \in Worker \ {x} : run'[w] = run[w]
          /\ run'[x] = IdleRun \/ (UNCHANGED contract /\ Settles(run'[x], contract))
      BY <1>1, <2>2, SettlesOwn
    <3>2. Settles(IdleRun, contract')
      BY DEF IdleRun, Settles
    <3> QED BY <1>2, <3>1, <3>2
  <2>3. ASSUME NEW b \in Buy, BuyStart(b) \/ BuyStep(b) \/ BuyVictim(b) PROVE UNCHANGED run
    BY <2>3 DEF BuyStart, BuyStep, BuyLockAccount, BuyLockIndex, BuyCommit, BuyVictim
  <2>4. ASSUME NEW v \in Staff, VoidStep(v) \/ VoidVictim(v) \/ \E b \in Buy : VoidStart(v, b)
        PROVE  UNCHANGED run
    BY <2>4 DEF VoidStep, VoidLock, VoidCommit, VoidVictim, VoidStart
  <2>5. ASSUME Elapse \/ (\E a \in Account : Reset(a)) \/ UNCHANGED vars PROVE UNCHANGED run
    BY <2>5 DEF Elapse, Reset, vars
  <2> QED BY <2>1, <2>2, <2>3, <2>4, <2>5 DEF Next, Victim
<1>5. ASSUME NEW b \in Buy, contract'[b].state # "NONE"
      PROVE  contract'[b].settle \in DOMAIN exposure' \/ Published(contract[b].settle)'
  <2>1. CASE contract[b].state = "NONE"
    <3>1. PICK settle \in Nat : Bought(b, settle)
      BY <1>1, <1>5, <2>1, ContractStep
    <3> QED BY <3>1 DEF Bought
  <2>2. CASE contract[b].state # "NONE"
    <3> DEFINE t == contract[b].settle
    <3>1. contract'[b].settle = t
      BY <1>1, <2>2, ContractStep
    <3>2. CASE Published(t)
      BY <1>1, <3>1, <3>2, PublishedStays DEF Published
    <3>3. ASSUME NEW w \in Worker, AdvCommit(w), t \in run[w].cleared PROVE Published(contract[b].settle)'
      <4>1. t \in run[w].from + 1 .. run[w].cur
        BY <1>1, <3>3 DEF Settles, AdvCommit
      <4>2. t \in Ticks /\ genAt'[t] # Never
        BY <3>3, <4>1, CommitPublishes DEF Published
      <4> QED BY <3>1, <4>2 DEF Published
    <3> QED BY <1>1, <2>2, <3>1, <3>2, <3>3, ExposureRows
  <2> QED BY <2>1, <2>2
<1> QED BY <1>3, <1>4, <1>5 DEF RunSettlesItsTicks, Settles, Advancing, Holds, HoldsOf, OpenOn, LocksExclude

-----------------------------------------------------------------------------
(* Settlement by the published tick *)

\* A resolved contract keeps its state.
LEMMA ResolvedStays ==
    ASSUME TypeOK, LocksExclude, ResolvedOnce, BuyersExclude, [Next]_vars,
           NEW b \in Buy, contract[b].state \notin {"NONE", "OPEN"}
    PROVE  contract'[b].state = contract[b].state
<1> DEFINE P == contract'[b].state = contract[b].state
<1>1. ASSUME NEW done, NEW verdict, NEW name, Resolved(done, verdict, name) PROVE P
  BY <1>1 DEF Resolved
<1>2. ASSUME NEW c \in Buy, BuyCommit(c), ~UNCHANGED book PROVE P
  <2>1. PICK settle \in Nat : Bought(c, settle)
    BY <1>2, BuyEffect
  <2> QED BY <2>1 DEF Bought
<1>3. ASSUME UNCHANGED book \/ \E a \in Account : Reset(a) PROVE P
  BY <1>3 DEF book, Reset
<1> HIDE DEF P
<1>4. ASSUME NEW w \in Worker, AdvCommit(w) PROVE P
  BY <1>1, <1>4, SettleEffect
<1>5. ASSUME NEW v \in Staff, VoidCommit(v) PROVE P
  BY <1>1, <1>5, VoidEffect
<1>6. P
  BY <1>2, <1>3, <1>4, <1>5, BookSteps
<1> QED BY <1>6 DEF P

\* Only the run that settled a contract posts under its settlement key.
LEMMA SettleKeys ==
    ASSUME TypeOK, LocksExclude, BuyersExclude, [Next]_vars, NEW b \in Buy,
           Settled(b)', ~Settled(b)
    PROVE  \E w \in Worker : AdvCommit(w) /\ b \in run[w].settled
<1>1. PICK x \in ledger' : x.key = <<"settle", b>> /\ x \notin ledger
  <2>1. order' = order
    BY BookSteps
  <2> QED BY <2>1 DEF Settled, HasKey
<1>2. ASSUME NEW c \in Buy, BuyCommit(c), ~UNCHANGED book PROVE FALSE
  <2>1. PICK settle \in Nat : Bought(c, settle)
    BY <1>2, BuyEffect
  <2>2. x = Tx(order[c].acct, "buy", c, -Stake(c), Stake(c), 0)
    BY <1>1, <2>1 DEF Bought
  <2>3. x.key = <<"buy", c>>
    BY <2>2 DEF Tx
  <2> QED BY <1>1, <2>3
<1>3. ASSUME NEW w \in Worker, AdvCommit(w) PROVE b \in run[w].settled
  <2>1. PICK c \in run[w].settled : x = Settlement(c, VerdictOf(w, c))
    BY <1>1, <1>3 DEF AdvCommit, Post
  <2>2. VerdictOf(w, c) \in {"WON", "LOST", "VOID"}
    BY VerdictType DEF VerdictOf
  <2>3. x.key = <<"settle", c>>
    BY <2>1, <2>2, SettlementKey
  <2> QED BY <1>1, <2>3
<1>4. ASSUME NEW v \in Staff, VoidCommit(v) PROVE FALSE
  <2>1. x = Refund("void", void[v].cid)
    BY <1>1, <1>4 DEF VoidCommit, Post
  <2>2. x.key = <<"void", void[v].cid>>
    BY <2>1 DEF Refund, Tx
  <2> QED BY <1>1, <2>2
<1>5. ASSUME NEW r \in Account, Reset(r) PROVE FALSE
  <2>1. PICK amount \in 0..OpeningCredit : Post({Tx(r, "reset", NoBuy, amount, 0, -amount)})
    BY <1>5 DEF Reset
  <2>2. x = Tx(r, "reset", NoBuy, amount, 0, -amount)
    BY <1>1, <2>1 DEF Post
  <2>3. x.key = <<"reset", NoBuy>>
    BY <2>2 DEF Tx
  <2> QED BY <1>1, <2>3
<1>6. ~UNCHANGED book
  BY <1>1 DEF book
<1> QED BY <1>2, <1>3, <1>4, <1>5, <1>6, BookSteps

\* What has been settled remains what its published tick says.
LEMMA SettledNext ==
    ASSUME IInv, BuyersExclude, Contiguous, RunSettlesItsTicks, SettledByItsTick, [Next]_vars
    PROVE  SettledByItsTick'
<1>1. /\ TypeOK /\ LocksExclude /\ ResolvedOnce /\ order' = order /\ digit' = digit
      /\ \A w \in Worker : Settles(run[w], contract)
  BY BookSteps, SettlesParts DEF IInv
<1>2. ASSUME NEW b \in Buy, Settled(b)'
      PROVE  LET t == contract'[b].settle
             IN  /\ t \in Ticks /\ genAt'[t] # Never
                 /\ contract'[b].state = Verdict(order[b].type, order[b].barrier, t, digit[t], genAt'[t])
  <2> DEFINE t == contract[b].settle
             P == LET u == contract'[b].settle
                  IN  /\ u \in Ticks /\ genAt'[u] # Never
                      /\ contract'[b].state
                           = Verdict(order[b].type, order[b].barrier, u, digit[u], genAt'[u])
  <2>1. ASSUME contract'[b].settle = t, t \in Ticks, genAt'[t] # Never,
               contract'[b].state = Verdict(order[b].type, order[b].barrier, t, digit[t], genAt'[t])
        PROVE  P
    BY <2>1
  <2> HIDE DEF P
  <2>2. ASSUME Settled(b) PROVE P
    <3>1. contract[b].state \notin {"NONE", "OPEN"}
      BY <1>1, <2>2 DEF ResolvedOnce
    <3>2. contract'[b].state = contract[b].state /\ contract'[b].settle = t
      BY <1>1, <3>1, ResolvedStays, ContractStep
    <3>3. /\ Published(t)
          /\ contract[b].state = Verdict(order[b].type, order[b].barrier, t, digit[t], genAt[t])
      BY <2>2 DEF SettledByItsTick
    <3>4. t \in Ticks /\ genAt'[t] = genAt[t] /\ genAt'[t] # Never
      BY <1>1, <3>3, FeedSteps DEF Published
    <3>5. contract'[b].state = Verdict(order[b].type, order[b].barrier, t, digit[t], genAt'[t])
      BY <3>2, <3>3, <3>4
    <3> QED BY <2>1, <3>2, <3>4, <3>5
  <2>3. ASSUME ~Settled(b) PROVE P
    <3>1. PICK w \in Worker : AdvCommit(w) /\ b \in run[w].settled
      BY <1>1, <1>2, <2>3, SettleKeys
    <3>2. t \in run[w].from + 1 .. run[w].cur
      BY <1>1, <3>1 DEF Settles, AdvCommit
    <3>3. t \in Ticks /\ genAt'[t] = TickTime(w, t) /\ genAt'[t] # Never
      BY <3>1, <3>2, CommitPublishes DEF Published
    <3>4. contract'[b] = [contract[b] EXCEPT !.state = VerdictOf(w, b)] /\ contract[b] \in Row
      BY <1>1, <3>1 DEF AdvCommit, TypeOK
    <3>5. contract'[b].settle = t /\ contract'[b].state = VerdictOf(w, b)
      BY <3>4 DEF Row
    <3> QED BY <2>1, <3>3, <3>5 DEF VerdictOf
  <2>4. P
    BY <2>2, <2>3
  <2> QED BY <2>4 DEF P
<1> QED BY <1>1, <1>2 DEF SettledByItsTick, Published

-----------------------------------------------------------------------------
(* The exposure table *)

\* The risk each request puts on one exit digit.
RiskOn(d) == [b \in Buy |-> RiskOf(b)[d]]

\* A finite set of requests has a total risk.
LEMMA RisksAdd ==
    ASSUME TypeOK, NEW d \in Digit, NEW S \in SUBSET Buy
    PROVE  /\ IsFiniteSet(S) /\ SumFunctionOnSet(RiskOn(d), S) \in Int
           /\ \A b \in Buy : RiskOn(d)[b] = RiskOf(b)[d] /\ RiskOf(b)[d] \in Int
<1>1. IsFiniteSet(S)
  BY RequestsAssumption, FS_Subset
<1>2. \A b \in Buy : RiskOn(d)[b] = RiskOf(b)[d] /\ RiskOf(b)[d] \in Int
  BY OrderOf DEF RiskOn
<1> QED BY <1>1, <1>2, SumRemove

\* A row never bought on has no contracts: a row once there goes only when its
\* tick is published, and no purchase still to come bets on that.
LEMMA NewRowIsEmpty ==
    ASSUME IInv, RunSettlesItsTicks, NEW b \in Buy, NEW settle, Bought(b, settle),
           settle \notin DOMAIN exposure
    PROVE  BoughtOn(settle) = {}
<1> SUFFICES ASSUME NEW c \in BoughtOn(settle) PROVE FALSE
  OBVIOUS
<1>1. contract[c].settle = settle /\ Published(settle)
  BY DEF BoughtOn, RunSettlesItsTicks
<1>2. settle < buy[b].entry
  BY <1>1 DEF Bought, Published, IInv, RunCoversTicks
<1>3. settle \in Nat /\ buy[b].entry \in Nat /\ settle >= buy[b].entry
  BY DEF Bought, IInv, TypeOK, Purchase
<1> QED BY <1>2, <1>3

\* The exposure table keeps accounting for every purchase.
LEMMA ExposureNext ==
    ASSUME IInv, BuyersExclude, RunSettlesItsTicks, ExposureAccountsForPurchases, [Next]_vars
    PROVE  ExposureAccountsForPurchases'
<1>1. /\ TypeOK /\ LocksExclude /\ ResolvedOnce /\ order' = order
      /\ \A w \in Worker : Settles(run[w], contract)
  BY BookSteps, SettlesParts DEF IInv
<1>2. ASSUME NEW b \in Buy, contract'[b].state = "OPEN" PROVE contract'[b].settle \in DOMAIN exposure'
  <2>1. CASE contract[b].state = "NONE"
    <3>1. PICK settle \in Nat : Bought(b, settle)
      BY <1>1, <1>2, <2>1, ContractStep
    <3> QED BY <3>1 DEF Bought
  <2>2. CASE contract[b].state # "NONE"
    <3>1. contract[b].state = "OPEN" /\ contract'[b].settle = contract[b].settle
      BY <1>1, <1>2, <2>2, ResolvedStays, ContractStep
    <3>2. contract[b].settle \in DOMAIN exposure
      BY <3>1 DEF ExposureAccountsForPurchases
    <3>3. ASSUME NEW w \in Worker, AdvCommit(w), contract[b].settle \in run[w].cleared PROVE FALSE
      <4>1. b \in run[w].settled
        BY <1>1, <3>1, <3>3 DEF Settles, AdvCommit
      <4>2. contract'[b].state \in {"WON", "LOST", "VOID"}
        BY <1>1, <3>3, <4>1, SettleEffect DEF Resolved
      <4> QED BY <1>2, <4>2
    <3> QED BY <1>1, <3>1, <3>2, <3>3, ExposureRows
  <2> QED BY <2>1, <2>2
<1> DEFINE Right(t) == \A d \in Digit : /\ exposure'[t][d] = SumFunctionOnSet(RiskOn(d), BoughtOn(t)')
                                        /\ exposure'[t][d] <= MaxLiability
<1>3. \A t \in DOMAIN exposure, d \in Digit :
        /\ exposure[t][d] = SumFunctionOnSet(RiskOn(d), BoughtOn(t)) /\ exposure[t][d] <= MaxLiability
  BY DEF ExposureAccountsForPurchases, RiskOn
<1>4. ASSUME NEW t \in DOMAIN exposure, exposure'[t] = exposure[t], BoughtOn(t)' = BoughtOn(t)
      PROVE  Right(t)
  BY <1>3, <1>4
<1>5. ASSUME NEW b \in Buy, NEW settle, Bought(b, settle), NEW t \in DOMAIN exposure'
      PROVE  Right(t)
  <2>1. /\ contract[b].state = "NONE" /\ contract'[b].state = "OPEN" /\ contract'[b].settle = settle
        /\ \A c \in Buy \ {b} : contract'[c] = contract[c]
        /\ DOMAIN exposure' = DOMAIN exposure \cup {settle}
        /\ exposure'[t] = IF t = settle THEN RiskWith(b, settle) ELSE exposure[t]
        /\ \A d \in Digit : RiskWith(b, settle)[d] <= MaxLiability
    BY <1>5 DEF Bought
  <2>2. CASE t # settle
    <3>1. BoughtOn(t)' = BoughtOn(t)
      BY <2>1, <2>2 DEF BoughtOn
    <3> QED BY <1>4, <2>1, <2>2, <3>1
  <2>3. CASE t = settle
    <3> DEFINE S == BoughtOn(settle)
    <3>1. b \notin S /\ BoughtOn(t)' = S \cup {b} /\ S \in SUBSET Buy
      BY <2>1, <2>3 DEF BoughtOn
    <3>2. settle \notin DOMAIN exposure => S = {}
      BY <1>5, NewRowIsEmpty
    <3> HIDE DEF S
    <3>3. ASSUME NEW d \in Digit PROVE exposure'[t][d] = SumFunctionOnSet(RiskOn(d), S \cup {b})
      <4>1. /\ IsFiniteSet(S) /\ \A c \in S \cup {b} : RiskOn(d)[c] \in Int
            /\ RiskOn(d)[b] = RiskOf(b)[d]
        BY <1>1, <3>1, RisksAdd
      <4>2. SumFunctionOnSet(RiskOn(d), S \cup {b}) = RiskOf(b)[d] + SumFunctionOnSet(RiskOn(d), S)
        BY <3>1, <4>1, SumAdd
      <4>3. RiskAt(settle)[d] = SumFunctionOnSet(RiskOn(d), S)
        <5>1. CASE settle \in DOMAIN exposure
          BY <1>3, <5>1 DEF RiskAt, S
        <5>2. CASE settle \notin DOMAIN exposure
          <6>1. S = {} /\ SumFunctionOnSet(RiskOn(d), {}) = 0
            BY <3>2, <5>2, FS_EmptySet, SumChosen
          <6> QED BY <5>2, <6>1 DEF RiskAt, NoRisk
        <5> QED BY <5>1, <5>2
      <4>4. exposure'[t][d] = RiskAt(settle)[d] + RiskOf(b)[d]
        BY <2>1, <2>3 DEF RiskWith
      <4>5. SumFunctionOnSet(RiskOn(d), S) \in Int /\ RiskOf(b)[d] \in Int
        BY <1>1, <3>1, RisksAdd
      <4> QED BY <4>2, <4>3, <4>4, <4>5
    <3> QED BY <2>1, <2>3, <3>1, <3>3
  <2> QED BY <2>2, <2>3
<1>6. ASSUME DOMAIN exposure' \subseteq DOMAIN exposure, \A t \in DOMAIN exposure' : exposure'[t] = exposure[t],
             \A b \in Buy : contract'[b].state = "NONE" <=> contract[b].state = "NONE",
             NEW t \in DOMAIN exposure'
      PROVE  Right(t)
  <2>1. \A b \in Buy : contract[b].state # "NONE" => contract'[b].settle = contract[b].settle
    BY <1>1, ContractStep
  <2>2. BoughtOn(t)' = BoughtOn(t)
    BY <1>6, <2>1 DEF BoughtOn
  <2> QED BY <1>4, <1>6, <2>2
<1> HIDE DEF Right
<1>7. ASSUME NEW t \in DOMAIN exposure' PROVE Right(t)
  <2> DEFINE Same == /\ DOMAIN exposure' \subseteq DOMAIN exposure
                     /\ \A u \in DOMAIN exposure' : exposure'[u] = exposure[u]
                     /\ \A b \in Buy : contract'[b].state = "NONE" <=> contract[b].state = "NONE"
  <2>1. ASSUME NEW b \in Buy, BuyCommit(b), ~UNCHANGED book PROVE Right(t)
    BY <1>1, <1>5, <2>1, BuyEffect
  <2>2. ASSUME NEW w \in Worker, AdvCommit(w) PROVE Same
    <3>1. DOMAIN exposure' \subseteq DOMAIN exposure /\ \A u \in DOMAIN exposure' : exposure'[u] = exposure[u]
      BY <2>2 DEF AdvCommit
    <3>2. \A b \in Buy : contract'[b].state = "NONE" <=> contract[b].state = "NONE"
      BY <1>1, <2>2, SettleEffect DEF Resolved
    <3> QED BY <3>1, <3>2
  <2>3. ASSUME NEW v \in Staff, VoidCommit(v) PROVE Same
    <3>1. UNCHANGED exposure
      BY <2>3 DEF VoidCommit
    <3>2. \A b \in Buy : contract'[b].state = "NONE" <=> contract[b].state = "NONE"
      BY <1>1, <2>3, VoidEffect DEF Resolved
    <3> QED BY <3>1, <3>2
  <2>4. ASSUME UNCHANGED book \/ \E a \in Account : Reset(a) PROVE Same
    BY <2>4 DEF book, Reset
  <2>5. Same => Right(t)
    BY <1>6
  <2> HIDE DEF Same
  <2> QED BY <2>1, <2>2, <2>3, <2>4, <2>5, BookSteps
<1>8. \A d \in Digit : RiskOn(d)' = RiskOn(d)
  BY <1>1 DEF RiskOn, RiskOf
<1>9. \A t \in DOMAIN exposure', d \in Digit :
        /\ exposure'[t][d] = SumFunctionOnSet(RiskOn(d)', BoughtOn(t)') /\ exposure'[t][d] <= MaxLiability
  BY <1>7, <1>8 DEF Right
<1> QED BY <1>2, <1>9 DEF ExposureAccountsForPurchases, RiskOn

-----------------------------------------------------------------------------
(* The theorems *)

\* Every account opens with its credit, and nothing is bought or owed.
LEMMA OpeningBalances ==
    ASSUME Init, NEW a \in Account
    PROVE  /\ IsFiniteSet(LedgerOf(a)) /\ Available(a) = OpeningCredit /\ Reserved(a) = 0
           /\ OpenOf(a) = {}
<1> DEFINE x == Tx(a, "open", NoBuy, OpeningCredit, 0, -OpeningCredit)
<1>1. LedgerOf(a) = {x}
  BY DEF LedgerOf, Init, Tx
<1>2. x \in ledger /\ x.avail = OpeningCredit /\ x.reserved = 0
  BY DEF Init, Tx
<1>3. ledger \subseteq Entry
  BY TypeInit DEF TypeOK
<1>4. OpenOf(a) = {}
  BY DEF OpenOf, Init
<1> HIDE DEF x
<1>5. x \in Entry /\ AvailOf[x] = OpeningCredit /\ ReservedOf[x] = 0 /\ OpeningCredit \in Int
  BY <1>2, <1>3, BoundsAssumption DEF AvailOf, ReservedOf
<1>6. /\ IsFiniteSet({x}) /\ SumFunctionOnSet(AvailOf, {x}) = OpeningCredit
      /\ SumFunctionOnSet(ReservedOf, {x}) = 0
  BY <1>5, SumSingle
<1>7. LedgerOf(a) \subseteq ledger /\ IsFiniteSet(LedgerOf(a))
  BY <1>1, <1>2, <1>6
<1>8. /\ Available(a) = SumFunctionOnSet(AvailOf, LedgerOf(a))
      /\ Reserved(a) = SumFunctionOnSet(ReservedOf, LedgerOf(a))
  BY <1>3, <1>7, BalanceIs DEF Available, Reserved
<1> QED BY <1>1, <1>4, <1>6, <1>7, <1>8

\* The money invariant holds initially.
LEMMA MoneyInit == Init => FiniteLedgers /\ MoneyInv
<1> SUFFICES ASSUME Init PROVE FiniteLedgers /\ MoneyInv
  OBVIOUS
<1>1. FiniteLedgers /\ NoOverdraft
  BY OpeningBalances, BoundsAssumption DEF FiniteLedgers, NoOverdraft
<1>2. ReservedIsOpenStakes
  <2>1. SumFunctionOnSet(StakeOf, {}) = 0
    BY FS_EmptySet, SumChosen
  <2> QED BY <2>1, OpeningBalances DEF ReservedIsOpenStakes, StakeOf
<1>3. \A x \in ledger : x.key = <<"open", NoBuy>>
  BY DEF Init, Tx
<1>4. BuyersExclude
  BY <1>3 DEF BuyersExclude, HasKey, Init
<1>5. SettledByItsTick
  BY <1>3 DEF SettledByItsTick, Settled, HasKey
<1>6. RunSettlesItsTicks
  BY BoundsAssumption DEF RunSettlesItsTicks, Init, Advancing, IdleRun
<1>7. OneContractPerKey /\ ExposureAccountsForPurchases
  BY DEF OneContractPerKey, ExposureAccountsForPurchases, Init
<1> QED BY <1>1, <1>2, <1>4, <1>5, <1>6, <1>7 DEF MoneyInv

\* What the money invariant rests on, and itself, at every step.
MoneySupport == IInv /\ Contiguous /\ FiniteLedgers /\ MoneyInv

\* In every reachable state, whatever the numbers of accounts, requests, runs
\* and owners.
THEOREM MoneySupported == Spec => []MoneySupport
<1>1. Init => Contiguous /\ FiniteLedgers /\ MoneyInv
  BY ContiguousInit, MoneyInit
<1>2. ASSUME IInv, IInv', Contiguous, FiniteLedgers, MoneyInv, [Next]_vars
      PROVE  (Contiguous /\ FiniteLedgers /\ MoneyInv)'
  <2>1. TypeOK /\ TypeOK' /\ LocksExclude /\ LocksExclude' /\ ResolvedOnce
    BY <1>2 DEF IInv
  <2>2. /\ BuyersExclude /\ RunSettlesItsTicks /\ OneContractPerKey /\ ReservedIsOpenStakes
        /\ NoOverdraft /\ SettledByItsTick /\ ExposureAccountsForPurchases
    BY <1>2 DEF MoneyInv
  <2>3. Contiguous'
    BY <1>2, <2>1, FeedSteps
  <2>4. FiniteLedgers' /\ NoOverdraft' /\ ReservedIsOpenStakes'
    BY <1>2, <2>1, <2>2, BalancesNext
  <2>5. BuyersExclude' /\ OneContractPerKey'
    BY <1>2, <2>1, <2>2, BuyersNext, KeysNext
  <2>6. RunSettlesItsTicks' /\ SettledByItsTick' /\ ExposureAccountsForPurchases'
    BY <1>2, <2>1, <2>2, SettlesNext, SettledNext, ExposureNext
  <2> QED BY <2>3, <2>4, <2>5, <2>6 DEF MoneyInv
<1> QED BY <1>1, <1>2, InvariantHolds, PTL DEF Spec, MoneySupport

\* The inductive invariant behind keys, money, settlement and exposure.
THEOREM MoneyInvariant == Spec => []MoneyInv
<1>1. MoneySupport => MoneyInv
  BY DEF MoneySupport
<1> QED BY <1>1, MoneySupported, PTL

\* Concurrent purchases, settlements, voids and resets never overdraw a balance.
THEOREM BalancesCovered == Spec => []NoOverdraft
<1>1. MoneyInv => NoOverdraft
  BY DEF MoneyInv
<1> QED BY <1>1, MoneyInvariant, PTL

\* Concurrent duplicates and retries under one idempotency key buy once.
THEOREM KeysBuyOnce == Spec => []OneContractPerKey
<1>1. MoneyInv => OneContractPerKey
  BY DEF MoneyInv
<1> QED BY <1>1, MoneyInvariant, PTL

\* The reserved money of an account is the stakes of its open contracts.
THEOREM ReservationsExact == Spec => []ReservedIsOpenStakes
<1>1. MoneyInv => ReservedIsOpenStakes
  BY DEF MoneyInv
<1> QED BY <1>1, MoneyInvariant, PTL

\* engine_settle_contract pays what the published settle tick says, whichever
\* run inserted the tick and whichever settled the contract.
THEOREM TicksDecideContracts == Spec => []SettledByItsTick
<1>1. MoneyInv => SettledByItsTick
  BY DEF MoneyInv
<1> QED BY <1>1, MoneyInvariant, PTL

\* engine_tick_exposure loses no concurrent purchase and is never above the limit.
THEOREM ExposureIsComplete == Spec => []ExposureAccountsForPurchases
<1>1. MoneyInv => ExposureAccountsForPurchases
  BY DEF MoneyInv
<1> QED BY <1>1, MoneyInvariant, PTL

-----------------------------------------------------------------------------
(* The engine implements ContractLedger *)

\* ContractLedger counts payouts and sums as the engine does.
LEMMA SameArithmetic ==
    /\ \A f, S : Book!SumFunctionOnSet(f, S) = SumFunctionOnSet(f, S)
    /\ \A stake, type, barrier : Book!Payout(stake, type, barrier) = Payout(stake, type, barrier)
<1>1. \A f, S : Book!SumFunctionOnSet(f, S) = SumFunctionOnSet(f, S)
  BY DEF SumFunctionOnSet, FoldFunctionOnSet, MapThenFoldSet,
     Book!SumFunctionOnSet, Book!FoldFunctionOnSet, Book!MapThenFoldSet
<1>2. \A type, barrier : Book!WinningDigits(type, barrier) = WinningDigits(type, barrier)
  BY DEF WinningDigits, Digit, Book!WinningDigits, Book!Digit
<1>3. \A S : Book!Cardinality(S) = Cardinality(S)
  BY DEF Cardinality, Book!Cardinality
<1>4. \A stake, type, barrier : Book!Payout(stake, type, barrier) = Payout(stake, type, barrier)
  BY <1>2, <1>3 DEF Payout, Book!Payout
<1> QED BY <1>1, <1>4

\* Steps that touch neither money nor states are stutters of the abstract book.
LEMMA QuietStutters ==
    ASSUME order' = order, \A b \in Buy : contract'[b].state = contract[b].state,
           \A a \in Account : Available(a)' = Available(a) /\ Reserved(a)' = Reserved(a)
    PROVE  UNCHANGED Book!ledgerVars
<1>1. /\ [b \in Buy |-> contract'[b].state] = [b \in Buy |-> contract[b].state]
      /\ [a \in Account |-> Available(a)'] = [a \in Account |-> Available(a)]
      /\ [a \in Account |-> Reserved(a)'] = [a \in Account |-> Reserved(a)]
  OBVIOUS
<1> QED BY <1>1 DEF Book!ledgerVars

\* A commit that resolves contracts is one step of the abstract book.
LEMMA ResolvesBook ==
    ASSUME TypeOK, TypeOK', order' = order, FiniteLedgers, NEW done, NEW verdict, NEW name,
           Resolved(done, verdict, name), verdict = [b \in done |-> verdict[b]]
    PROVE  [Book!Next]_(Book!ledgerVars)
<1>1. \A a \in Account :
        /\ Available(a)' = Available(a) + SumFunctionOnSet(Credits(done, verdict), DoneOf(done, a))
        /\ Reserved(a)' = Reserved(a) - SumFunctionOnSet(StakeOf, DoneOf(done, a))
        /\ IsFiniteSet(LedgerOf(a))
        /\ Available(a) \in Int /\ Reserved(a) \in Int
  BY ResolvedMoney DEF FiniteLedgers
<1>2. /\ done \subseteq Buy /\ \A b \in done : contract[b].state = "OPEN"
      /\ \A b \in done : verdict[b] \in {"WON", "LOST", "VOID"} /\ contract'[b].state = verdict[b]
      /\ \A b \in Buy \ done : contract'[b].state = contract[b].state
  BY DEF Resolved
<1>3. CASE done = {}
  <2>1. \A a \in Account : Available(a)' = Available(a) /\ Reserved(a)' = Reserved(a)
    <3>1. \A a \in Account : DoneOf(done, a) = {}
      BY <1>3 DEF DoneOf
    <3>2. \A f : SumFunctionOnSet(f, {}) = 0
      BY FS_EmptySet, SumChosen
    <3> QED BY <1>1, <3>1, <3>2
  <2>2. \A b \in Buy : contract'[b].state = contract[b].state
    BY <1>2, <1>3
  <2> QED BY <2>1, <2>2, QuietStutters
<1>4. CASE done # {}
  <2> DEFINE status == [b \in Buy |-> contract[b].state]
             owed == [b \in done |-> Stake(b)]
  <2>1. Credits(done, verdict) = [b \in done |-> Book!Credit(b, verdict[b])]
    <3>1. \A b \in done : CreditOf(b, verdict[b]) = Book!Credit(b, verdict[b])
      BY <1>2, SameArithmetic DEF CreditOf, Book!Credit, PayoutOf, Stake
    <3> QED BY <3>1 DEF Credits
  <2>2. \A a \in Account : DoneOf(done, a) = done \cap Book!OpenIn(a)
    BY DEF DoneOf, OpenOf, Book!OpenIn
  <2>3. owed = [b \in done |-> Book!OrderStake(b)]
    BY DEF Book!OrderStake, Stake
  <2>4. ASSUME NEW a \in Account
        PROVE  SumFunctionOnSet(StakeOf, DoneOf(done, a)) = SumFunctionOnSet(owed, DoneOf(done, a))
    <3>1. DoneOf(done, a) \subseteq done /\ DoneOf(done, a) \in SUBSET Buy
      BY <1>2 DEF DoneOf
    <3>2. IsFiniteSet(DoneOf(done, a))
      BY <3>1, StakesAdd
    <3>3. \A b \in DoneOf(done, a) : StakeOf[b] = owed[b]
      BY <3>1 DEF StakeOf
    <3> HIDE DEF owed
    <3> QED BY <3>2, <3>3, SumSame
  <2>5. [b \in Buy |-> contract'[b].state] = [b \in Buy |-> IF b \in done THEN verdict[b] ELSE status[b]]
    BY <1>2
  <2>6. [a \in Account |-> Available(a)']
          = [a \in Account |-> [c \in Account |-> Available(c)][a]
               + Book!SumFunctionOnSet([b \in done |-> Book!Credit(b, verdict[b])],
                                       done \cap Book!OpenIn(a))]
    BY <1>1, <2>1, <2>2, SameArithmetic
  <2>7. [a \in Account |-> Reserved(a)']
          = [a \in Account |-> [c \in Account |-> Reserved(c)][a]
               - Book!SumFunctionOnSet([b \in done |-> Book!OrderStake(b)], done \cap Book!OpenIn(a))]
    BY <1>1, <2>2, <2>3, <2>4, SameArithmetic
  <2>8. verdict \in [done -> {"WON", "LOST", "VOID"}]
    BY <1>2
  <2>9. \A b \in done : status[b] = "OPEN"
    BY <1>2
  <2>10. Book!Resolve(done)
    BY <1>4, <2>5, <2>6, <2>7, <2>8, <2>9 DEF Book!Resolve
  <2> QED BY <1>2, <2>10 DEF Book!Next
<1> QED BY <1>3, <1>4

\* Every step of the engine is a step of the abstract book or none.
LEMMA BookStep ==
    ASSUME IInv, TypeOK', BuyersExclude, FiniteLedgers, [Next]_vars
    PROVE  [Book!Next]_(Book!ledgerVars)
<1>1. /\ TypeOK /\ LocksExclude /\ ResolvedOnce /\ order' = order
      /\ ledger \subseteq Entry /\ ledger' \subseteq Entry
      /\ \A a \in Account : IsFiniteSet(LedgerOf(a))
  BY BookSteps DEF IInv, TypeOK, FiniteLedgers
<1>2. CASE UNCHANGED book
  <2>1. \A a \in Account : Available(a)' = Available(a) /\ Reserved(a)' = Reserved(a)
    BY <1>2 DEF Available, Reserved, LedgerOf, book
  <2>2. \A b \in Buy : contract'[b].state = contract[b].state
    BY <1>2 DEF book
  <2> QED BY <1>1, <2>1, <2>2, QuietStutters
<1>3. ASSUME NEW b \in Buy, BuyCommit(b), ~UNCHANGED book PROVE Book!Next
  <2>1. PICK settle \in Nat : Bought(b, settle)
    BY <1>1, <1>3, BuyEffect
  <2> DEFINE own == order[b].acct
             status == [c \in Buy |-> contract[c].state]
             available == [a \in Account |-> Available(a)]
             reserved == [a \in Account |-> Reserved(a)]
  <2>2. \A a \in Account :
          /\ own = a => Available(a)' = Available(a) - Stake(b) /\ Reserved(a)' = Reserved(a) + Stake(b)
          /\ own # a => Available(a)' = Available(a) /\ Reserved(a)' = Reserved(a)
    BY <1>1, <2>1, BoughtMoney
  <2>3. /\ own \in Account /\ contract[b].state = "NONE" /\ contract'[b].state = "OPEN"
        /\ \A c \in Buy \ {b} : contract'[c] = contract[c]
        /\ Available(own) >= Stake(b)
    BY <1>1, <2>1, OrderOf DEF Bought, BuyersExclude
  <2>4. [c \in Buy |-> contract'[c].state] = [status EXCEPT ![b] = "OPEN"]
    BY <2>3
  <2>5. [a \in Account |-> Available(a)'] = [available EXCEPT ![own] = @ - order[b].stake]
    BY <2>2, <2>3 DEF Stake
  <2>6. [a \in Account |-> Reserved(a)'] = [reserved EXCEPT ![own] = @ + order[b].stake]
    BY <2>2, <2>3 DEF Stake
  <2>7. status[b] = "NONE" /\ available[own] >= order[b].stake
    BY <2>3 DEF Stake
  <2>8. Book!Open(b)
    BY <1>1, <2>4, <2>5, <2>6, <2>7 DEF Book!Open
  <2> QED BY <2>8 DEF Book!Next
<1>4. ASSUME NEW w \in Worker, AdvCommit(w) PROVE [Book!Next]_(Book!ledgerVars)
  <2> DEFINE done == run[w].settled
             verdict == [b \in done |-> VerdictOf(w, b)]
             name == [b \in done |-> Settlement(b, VerdictOf(w, b))]
  <2>1. Resolved(done, verdict, name)
    BY <1>1, <1>4, SettleEffect
  <2>2. verdict = [b \in done |-> verdict[b]]
    OBVIOUS
  <2> HIDE DEF done, verdict, name
  <2> QED BY <1>1, <2>1, <2>2, ResolvesBook
<1>5. ASSUME NEW v \in Staff, VoidCommit(v) PROVE [Book!Next]_(Book!ledgerVars)
  <2> DEFINE done == {void[v].cid}
             verdict == [c \in done |-> "VOID"]
             name == [c \in done |-> Refund("void", c)]
  <2>1. Resolved(done, verdict, name)
    BY <1>1, <1>5, VoidEffect
  <2>2. verdict = [b \in done |-> verdict[b]]
    OBVIOUS
  <2> HIDE DEF done, verdict, name
  <2> QED BY <1>1, <2>1, <2>2, ResolvesBook
<1>6. ASSUME NEW r \in Account, Reset(r) PROVE Book!Next
  <2> DEFINE available == [a \in Account |-> Available(a)]
  <2>1. \A a \in Account : /\ Available(a)' = (IF a = r THEN OpeningCredit ELSE Available(a))
                           /\ Reserved(a)' = Reserved(a)
    BY <1>1, <1>6, ResetMoney
  <2>2. OpenOf(r) = {} /\ Available(r) < MinStake /\ contract' = contract
    BY <1>6 DEF Reset
  <2>3. Book!OpenIn(r) = {} /\ available[r] < MinStake
    BY <2>2 DEF Book!OpenIn, OpenOf
  <2>4. [a \in Account |-> Available(a)'] = [available EXCEPT ![r] = OpeningCredit]
    BY <2>1
  <2>5. /\ [a \in Account |-> Reserved(a)'] = [a \in Account |-> Reserved(a)]
        /\ [b \in Buy |-> contract'[b].state] = [b \in Buy |-> contract[b].state]
    BY <2>1, <2>2
  <2>6. Book!Restore(r)
    BY <1>1, <2>3, <2>4, <2>5 DEF Book!Restore
  <2> QED BY <2>6 DEF Book!Next
<1> QED BY <1>2, <1>3, <1>4, <1>5, <1>6, BookSteps

\* The engine, with its transactions, locks, retries and deaths, implements
\* the book a customer sees: contracts and balances move together.
THEOREM EngineKeepsBook == Spec => KeepsBook
<1>1. Init => Book!Init
  <2> SUFFICES ASSUME Init PROVE Book!Init
    OBVIOUS
  <2>1. \A a \in Account : Available(a) = OpeningCredit /\ Reserved(a) = 0
    BY OpeningBalances
  <2>2. \A b \in Buy : contract[b].state = "NONE"
    BY DEF Init
  <2> QED BY <2>1, <2>2 DEF Book!Init
<1>2. ASSUME MoneySupport, MoneySupport', [Next]_vars PROVE [Book!Next]_(Book!ledgerVars)
  <2>1. IInv /\ TypeOK' /\ BuyersExclude /\ FiniteLedgers
    BY <1>2 DEF MoneySupport, IInv, MoneyInv
  <2> QED BY <1>2, <2>1, BookStep
<1> QED BY <1>1, <1>2, MoneySupported, PTL DEF Spec, KeepsBook, Book!Spec
=============================================================================
