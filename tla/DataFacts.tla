------------------------------ MODULE DataFacts ------------------------------
(***************************************************************************)
(* What the theorems of the components need to know of their data:         *)
(* induction over natural numbers and finite sets, stated with sets in     *)
(* place of predicates, and what follows from it for sums; remainders.     *)
(***************************************************************************)
EXTENDS Integers, FiniteSets, Functions, FiniteSetTheorems, WellFoundedInduction, TLAPS

\* Induction over the natural numbers, for the members of a set.
LEMMA NatInductionOnSet ==
  ASSUME NEW Good, \A n \in Nat : (\A m \in Nat : m < n => m \in Good) => n \in Good
  PROVE  Nat \subseteq Good
<1> DEFINE Bad == {n \in Nat : n \notin Good}
<1>1. SUFFICES ASSUME Bad # {} PROVE FALSE
  OBVIOUS
<1>2. PICK n \in Bad : \A m \in Bad : ~(<<m, n>> \in OpToRel(<, Nat))
  BY <1>1, NatLessThanWellFounded, WFMin
<1>3. \A m \in Nat : m < n => m \in Good
  BY <1>2 DEF OpToRel
<1> QED
  BY <1>2, <1>3

\* A nonempty set of natural numbers has a least member.
LEMMA Least ==
  ASSUME NEW T \in SUBSET Nat, T # {}
  PROVE  \E n \in T : \A m \in T : n <= m
<1>1. PICK n \in T : \A m \in T : ~ (<<m, n>> \in OpToRel(<, Nat))
  BY NatLessThanWellFounded, WFMin
<1>2. \A m \in T : m < n => <<m, n>> \in OpToRel(<, Nat)
  BY DEF OpToRel
<1>3. \A m \in T : ~(m < n)
  BY <1>1, <1>2, Zenon
<1>4. \A m \in T : m \in Nat /\ n \in Nat
  OBVIOUS
<1>5. \A m \in T : n <= m
  BY <1>3, <1>4
<1> QED
  BY <1>5

\* Induction over the subsets of a finite set, by taking members away.
LEMMA SubsetInduction ==
  ASSUME NEW S, IsFiniteSet(S), NEW Good,
         \A s \in SUBSET S : (\A x \in s : s \ {x} \in Good) => s \in Good
  PROVE  SUBSET S \subseteq Good
<1> DEFINE Sizes == {n \in Nat : \A s \in SUBSET S : Cardinality(s) = n => s \in Good}
<1>1. \A s \in SUBSET S : IsFiniteSet(s) /\ Cardinality(s) \in Nat
  BY FS_Subset, FS_CardinalityType
<1>2. ASSUME NEW n \in Nat, \A m \in Nat : m < n => m \in Sizes
      PROVE  n \in Sizes
  <2>1. SUFFICES ASSUME NEW s \in SUBSET S, Cardinality(s) = n, NEW x \in s
                 PROVE  s \ {x} \in Good
    OBVIOUS
  <2>2. Cardinality(s \ {x}) = n - 1
    BY <1>1, <2>1, FS_RemoveElement
  <2>3. n - 1 \in Nat /\ n - 1 < n
    BY <1>1, <2>2
  <2> QED
    BY <1>2, <2>2, <2>3
<1>3. Nat \subseteq Sizes
  <2> HIDE DEF Sizes
  <2> QED BY <1>2, NatInductionOnSet
<1> QED
  BY <1>1, <1>3

-----------------------------------------------------------------------------
(***************************************************************************)
(* SumFunctionOnSet of the community modules is a fold that chooses a      *)
(* member and goes on with the rest.  Summing is the function it chooses.  *)
(***************************************************************************)

Chosen(s) == CHOOSE x \in s : TRUE

SumStep(f, g, s) == IF s = {} THEN 0 ELSE f[Chosen(s)] + g[s \ {Chosen(s)}]

Summing(f, S) == CHOOSE g : g = [s \in SUBSET S |-> SumStep(f, g, s)]

\* The sum is the value of that function.
LEMMA SumIsSumming ==
  ASSUME NEW f, NEW S
  PROVE  SumFunctionOnSet(f, S) = Summing(f, S)[S]
BY DEF SumFunctionOnSet, FoldFunctionOnSet, MapThenFoldSet, Summing, SumStep, Chosen

IsSumming(f, S, g) == g = [s \in SUBSET S |-> SumStep(f, g, s)]

\* There is such a function on every finite set, by induction over the size.
LEMMA SummingExists ==
  ASSUME NEW f, NEW S, IsFiniteSet(S)
  PROVE  IsSumming(f, S, Summing(f, S))
<1> DEFINE Small(n) == {s \in SUBSET S : Cardinality(s) <= n}
           Defined(n) == \E g : g = [s \in Small(n) |-> SumStep(f, g, s)]
           Levels == {n \in Nat : Defined(n)}
<1>1. \A s \in SUBSET S : IsFiniteSet(s) /\ Cardinality(s) \in Nat
  BY FS_Subset, FS_CardinalityType
<1>2. \A s \in Small(0) : s = {}
  BY <1>1, FS_EmptySet
<1>3. Defined(0)
  <2>1. [s \in Small(0) |-> 0] = [s \in Small(0) |-> SumStep(f, [t \in Small(0) |-> 0], s)]
    BY <1>2 DEF SumStep
  <2> QED BY <2>1
<1>4. ASSUME NEW n \in Nat, Defined(n) PROVE Defined(n + 1)
  <2>1. PICK g : g = [s \in Small(n) |-> SumStep(f, g, s)]
    BY <1>4
  <2> DEFINE h == [s \in Small(n + 1) |-> SumStep(f, g, s)]
  <2>2. \A s \in Small(n) : s \in Small(n + 1) /\ h[s] = g[s]
    <3>1. \A s \in Small(n) : s \in Small(n + 1)
      BY <1>1
    <3>2. \A s \in Small(n) : g[s] = SumStep(f, g, s)
      BY <2>1
    <3> HIDE DEF Small
    <3> QED BY <3>1, <3>2
  <2>3. ASSUME NEW s \in Small(n + 1), s # {} PROVE s \ {Chosen(s)} \in Small(n)
    <3>1. Chosen(s) \in s
      BY <2>3 DEF Chosen
    <3>2. Cardinality(s \ {Chosen(s)}) = Cardinality(s) - 1
      BY <1>1, <3>1, FS_RemoveElement
    <3>3. s \ {Chosen(s)} \in SUBSET S /\ Cardinality(s) <= n + 1 /\ Cardinality(s) \in Nat
      BY <1>1
    <3> QED BY <3>2, <3>3
  <2>4. \A s \in Small(n + 1) : SumStep(f, h, s) = SumStep(f, g, s)
    <3> HIDE DEF h, Small
    <3> QED BY <2>2, <2>3 DEF SumStep
  <2>5. h = [s \in Small(n + 1) |-> SumStep(f, h, s)]
    <3> DEFINE k == h
    <3>1. k = [s \in Small(n + 1) |-> SumStep(f, g, s)]
      OBVIOUS
    <3> HIDE DEF k, Small
    <3>2. k = [s \in Small(n + 1) |-> SumStep(f, k, s)]
      BY <2>4, <3>1 DEF k
    <3> QED BY <3>2 DEF k
  <2> HIDE DEF h, Small
  <2> QED BY <2>5
<1>5. Nat \subseteq Levels
  <2>1. ASSUME NEW n \in Nat, \A m \in Nat : m < n => m \in Levels PROVE n \in Levels
    <3>1. CASE n = 0
      BY <1>3, <3>1
    <3>2. CASE n # 0
      <4>1. n - 1 \in Nat /\ n - 1 < n /\ (n - 1) + 1 = n
        BY <3>2
      <4>2. Defined(n - 1)
        BY <2>1, <4>1
      <4> HIDE DEF Defined
      <4>3. Defined((n - 1) + 1)
        BY <1>4, <4>1, <4>2
      <4> QED BY <4>1, <4>3
    <3> QED BY <3>1, <3>2
  <2> HIDE DEF Levels
  <2> QED BY <2>1, NatInductionOnSet
<1>6. Cardinality(S) \in Nat /\ SUBSET S = Small(Cardinality(S))
  BY FS_Subset, FS_CardinalityType
<1>7. \E g : g = [s \in SUBSET S |-> SumStep(f, g, s)]
  BY <1>5, <1>6
<1> QED
  BY <1>7 DEF Summing, IsSumming

LEMMA SummingStep ==
  ASSUME NEW f, NEW S, IsFiniteSet(S), NEW s \in SUBSET S
  PROVE  Summing(f, S)[s] = SumStep(f, Summing(f, S), s)
<1> DEFINE g == Summing(f, S)
<1>1. IsSumming(f, S, g)
  BY SummingExists
<1> HIDE DEF g
<1>2. g[s] = SumStep(f, g, s)
  BY <1>1 DEF IsSumming
<1> QED BY <1>2 DEF g

\* Its value at a subset does not depend on the set it was started from.
LEMMA SummingIsLocal ==
  ASSUME NEW f, NEW S, IsFiniteSet(S)
  PROVE  \A s \in SUBSET S : Summing(f, S)[s] = SumFunctionOnSet(f, s)
<1> DEFINE Good == {s \in SUBSET S : \A T \in SUBSET S :
                      s \in SUBSET T => Summing(f, T)[s] = Summing(f, S)[s]}
<1>1. \A T \in SUBSET S : IsFiniteSet(T)
  BY FS_Subset
<1>2. ASSUME NEW s \in SUBSET S, \A x \in s : s \ {x} \in Good PROVE s \in Good
  <2>1. SUFFICES ASSUME NEW T \in SUBSET S, s \in SUBSET T
                 PROVE  Summing(f, T)[s] = Summing(f, S)[s]
    OBVIOUS
  <2>2. Summing(f, T)[s] = SumStep(f, Summing(f, T), s) /\ Summing(f, S)[s] = SumStep(f, Summing(f, S), s)
    BY <1>1, <2>1, SummingStep
  <2>3. CASE s = {}
    BY <2>2, <2>3 DEF SumStep
  <2>4. CASE s # {}
    <3>1. Chosen(s) \in s
      BY <2>4 DEF Chosen
    <3>2. s \ {Chosen(s)} \in SUBSET T
      BY <2>1
    <3>3. Summing(f, T)[s \ {Chosen(s)}] = Summing(f, S)[s \ {Chosen(s)}]
      BY <1>2, <2>1, <3>1, <3>2
    <3> QED BY <2>2, <3>3 DEF SumStep
  <2> QED BY <2>3, <2>4
<1>3. SUBSET S \subseteq Good
  <2> HIDE DEF Good
  <2> QED BY <1>2, SubsetInduction
<1>4. \A s \in SUBSET S : s \in SUBSET s /\ SumFunctionOnSet(f, s) = Summing(f, s)[s]
  BY SumIsSumming
<1> QED
  BY <1>3, <1>4

LEMMA SumUnfold ==
  ASSUME NEW f, NEW S, IsFiniteSet(S), S # {}
  PROVE  /\ Chosen(S) \in S
         /\ SumFunctionOnSet(f, S) = f[Chosen(S)] + SumFunctionOnSet(f, S \ {Chosen(S)})
<1>1. Chosen(S) \in S
  BY DEF Chosen
<1>2. S \in SUBSET S /\ S \ {Chosen(S)} \in SUBSET S
  OBVIOUS
<1>3. Summing(f, S)[S] = f[Chosen(S)] + Summing(f, S)[S \ {Chosen(S)}]
  BY <1>2, SummingStep DEF SumStep
<1> QED
  BY <1>1, <1>2, <1>3, SummingIsLocal

\* Nothing sums to zero.
LEMMA SumOfNone ==
  ASSUME NEW f
  PROVE  SumFunctionOnSet(f, {}) = 0
<1>1. {} \in SUBSET {} /\ IsFiniteSet({})
  BY FS_EmptySet
<1>2. Summing(f, {})[{}] = SumStep(f, Summing(f, {}), {})
  BY <1>1, SummingStep
<1> QED
  BY <1>2, SumIsSumming DEF SumStep

\* A sum of integers is an integer.
LEMMA SumType ==
  ASSUME NEW S, IsFiniteSet(S), NEW f, \A x \in S : f[x] \in Int
  PROVE  SumFunctionOnSet(f, S) \in Int
<1> DEFINE Good == {s \in SUBSET S : SumFunctionOnSet(f, s) \in Int}
<1>1. ASSUME NEW s \in SUBSET S, \A x \in s : s \ {x} \in Good PROVE s \in Good
  <2>1. CASE s = {}
    BY <2>1, SumOfNone
  <2>2. CASE s # {}
    <3>1. /\ Chosen(s) \in s
          /\ SumFunctionOnSet(f, s) = f[Chosen(s)] + SumFunctionOnSet(f, s \ {Chosen(s)})
      BY <2>2, FS_Subset, SumUnfold
    <3> QED BY <1>1, <3>1
  <2> QED BY <2>1, <2>2
<1>2. SUBSET S \subseteq Good
  <2> HIDE DEF Good
  <2> QED BY <1>1, SubsetInduction
<1> QED
  BY <1>2

\* Any member may be taken out of a sum first.
LEMMA SumRemove ==
  ASSUME NEW S, IsFiniteSet(S), NEW f, \A x \in S : f[x] \in Int, NEW y \in S
  PROVE  SumFunctionOnSet(f, S) = f[y] + SumFunctionOnSet(f, S \ {y})
<1> DEFINE Good == {s \in SUBSET S : \A x \in s :
                      SumFunctionOnSet(f, s) = f[x] + SumFunctionOnSet(f, s \ {x})}
<1>1. ASSUME NEW s \in SUBSET S, \A x \in s : s \ {x} \in Good PROVE s \in Good
  <2>1. SUFFICES ASSUME NEW x \in s
                 PROVE  SumFunctionOnSet(f, s) = f[x] + SumFunctionOnSet(f, s \ {x})
    OBVIOUS
  <2>2. /\ Chosen(s) \in s
        /\ SumFunctionOnSet(f, s) = f[Chosen(s)] + SumFunctionOnSet(f, s \ {Chosen(s)})
    BY FS_Subset, SumUnfold
  <2>3. CASE x = Chosen(s)
    BY <2>2, <2>3
  <2>4. CASE x # Chosen(s)
    <3> DEFINE p == Chosen(s)
    <3>1. x \in s \ {p} /\ p \in s \ {x} /\ (s \ {p}) \ {x} = (s \ {x}) \ {p}
      BY <2>2, <2>4
    <3>2. SumFunctionOnSet(f, s \ {p}) = f[x] + SumFunctionOnSet(f, (s \ {p}) \ {x})
      BY <1>1, <2>2, <3>1
    <3>3. SumFunctionOnSet(f, s \ {x}) = f[p] + SumFunctionOnSet(f, (s \ {x}) \ {p})
      BY <1>1, <2>1, <3>1
    <3>4. f[x] \in Int /\ f[p] \in Int /\ SumFunctionOnSet(f, (s \ {p}) \ {x}) \in Int
      BY <2>1, <2>2, FS_Subset, SumType
    <3> HIDE DEF p
    <3>5. f[p] + (f[x] + SumFunctionOnSet(f, (s \ {p}) \ {x}))
            = f[x] + (f[p] + SumFunctionOnSet(f, (s \ {p}) \ {x}))
      BY <3>4
    <3>6. SumFunctionOnSet(f, s) = f[p] + SumFunctionOnSet(f, s \ {p})
      BY <2>2 DEF p
    <3> QED BY <3>1, <3>2, <3>3, <3>5, <3>6
  <2> QED BY <2>3, <2>4
<1>2. SUBSET S \subseteq Good
  <2> HIDE DEF Good
  <2> QED BY <1>1, SubsetInduction
<1> QED
  BY <1>2

\* Only the values on the set matter.
LEMMA SumCong ==
  ASSUME NEW S, IsFiniteSet(S), NEW f, NEW g, \A x \in S : f[x] = g[x]
  PROVE  SumFunctionOnSet(f, S) = SumFunctionOnSet(g, S)
<1> DEFINE Good == {s \in SUBSET S : SumFunctionOnSet(f, s) = SumFunctionOnSet(g, s)}
<1>1. ASSUME NEW s \in SUBSET S, \A x \in s : s \ {x} \in Good PROVE s \in Good
  <2>1. CASE s = {}
    BY <2>1, SumOfNone
  <2>2. CASE s # {}
    <3>1. /\ Chosen(s) \in s
          /\ SumFunctionOnSet(f, s) = f[Chosen(s)] + SumFunctionOnSet(f, s \ {Chosen(s)})
          /\ SumFunctionOnSet(g, s) = g[Chosen(s)] + SumFunctionOnSet(g, s \ {Chosen(s)})
      BY <2>2, FS_Subset, SumUnfold
    <3> QED BY <1>1, <3>1
  <2> QED BY <2>1, <2>2
<1>2. SUBSET S \subseteq Good
  <2> HIDE DEF Good
  <2> QED BY <1>1, SubsetInduction
<1> QED
  BY <1>2

\* A new member adds its value.
LEMMA SumAdd ==
  ASSUME NEW S, IsFiniteSet(S), NEW y, y \notin S,
         NEW f, \A x \in S \cup {y} : f[x] \in Int
  PROVE  SumFunctionOnSet(f, S \cup {y}) = f[y] + SumFunctionOnSet(f, S)
<1>1. IsFiniteSet(S \cup {y}) /\ (S \cup {y}) \ {y} = S /\ y \in S \cup {y}
  BY FS_AddElement
<1>2. SumFunctionOnSet(f, S \cup {y}) = f[y] + SumFunctionOnSet(f, (S \cup {y}) \ {y})
  BY <1>1, SumRemove
<1> QED
  BY <1>1, <1>2

\* A sum whose terms change at one member changes by the difference there.
LEMMA SumChange ==
  ASSUME NEW S, IsFiniteSet(S), NEW y \in S,
         NEW f, \A x \in S : f[x] \in Int,
         NEW g, \A x \in S : g[x] \in Int, \A x \in S \ {y} : g[x] = f[x]
  PROVE  SumFunctionOnSet(g, S) = SumFunctionOnSet(f, S) - f[y] + g[y]
<1> DEFINE rest == SumFunctionOnSet(f, S \ {y})
<1>1. IsFiniteSet(S \ {y})
  BY FS_Subset
<1>2. SumFunctionOnSet(f, S) = f[y] + SumFunctionOnSet(f, S \ {y})
  BY SumRemove
<1>3. SumFunctionOnSet(g, S) = g[y] + SumFunctionOnSet(g, S \ {y})
  BY SumRemove
<1>4. SumFunctionOnSet(g, S \ {y}) = SumFunctionOnSet(f, S \ {y})
  BY <1>1, SumCong
<1>5. SumFunctionOnSet(f, S \ {y}) \in Int
  BY <1>1, SumType
<1> QED
  BY <1>2, <1>3, <1>4, <1>5

\* Zeros sum to zero.
LEMMA SumOfZeros ==
  ASSUME NEW S, IsFiniteSet(S), NEW f, \A x \in S : f[x] = 0
  PROVE  SumFunctionOnSet(f, S) = 0
<1> DEFINE Good == {s \in SUBSET S : SumFunctionOnSet(f, s) = 0}
<1>1. ASSUME NEW s \in SUBSET S, \A x \in s : s \ {x} \in Good PROVE s \in Good
  <2>1. CASE s = {}
    BY <2>1, SumOfNone
  <2>2. CASE s # {}
    <3>1. /\ Chosen(s) \in s
          /\ SumFunctionOnSet(f, s) = f[Chosen(s)] + SumFunctionOnSet(f, s \ {Chosen(s)})
      BY <2>2, FS_Subset, SumUnfold
    <3> QED BY <1>1, <3>1
  <2> QED BY <2>1, <2>2
<1>2. SUBSET S \subseteq Good
  <2> HIDE DEF Good
  <2> QED BY <1>1, SubsetInduction
<1> QED
  BY <1>2

\* Larger terms make a larger sum.
LEMMA SumMonotonic ==
  ASSUME NEW S, IsFiniteSet(S),
         NEW f, NEW g, \A x \in S : f[x] \in Int /\ g[x] \in Int /\ f[x] <= g[x]
  PROVE  SumFunctionOnSet(f, S) <= SumFunctionOnSet(g, S)
<1> DEFINE Good == {s \in SUBSET S : SumFunctionOnSet(f, s) <= SumFunctionOnSet(g, s)}
<1>1. ASSUME NEW s \in SUBSET S, \A x \in s : s \ {x} \in Good PROVE s \in Good
  <2>1. CASE s = {}
    BY <2>1, SumOfNone
  <2>2. CASE s # {}
    <3> DEFINE p == Chosen(s)
    <3>1. /\ p \in s
          /\ SumFunctionOnSet(f, s) = f[p] + SumFunctionOnSet(f, s \ {p})
          /\ SumFunctionOnSet(g, s) = g[p] + SumFunctionOnSet(g, s \ {p})
      BY <2>2, FS_Subset, SumUnfold
    <3>2. SumFunctionOnSet(f, s \ {p}) \in Int /\ SumFunctionOnSet(g, s \ {p}) \in Int
      BY FS_Subset, SumType
    <3>3. SumFunctionOnSet(f, s \ {p}) <= SumFunctionOnSet(g, s \ {p})
      BY <1>1, <3>1
    <3> HIDE DEF p
    <3>4. f[p] \in Int /\ g[p] \in Int /\ f[p] <= g[p]
      BY <3>1
    <3>5. SumFunctionOnSet(f, s) <= SumFunctionOnSet(g, s)
      BY <3>1, <3>2, <3>3, <3>4
    <3> QED BY <3>5
  <2> QED BY <2>1, <2>2
<1>2. SUBSET S \subseteq Good
  <2> HIDE DEF Good
  <2> QED BY <1>1, SubsetInduction
<1> QED
  BY <1>2

\* The sum of sums of two terms.
LEMMA SumPlus ==
  ASSUME NEW S, IsFiniteSet(S), NEW f, NEW g, NEW h,
         \A x \in S : f[x] \in Int /\ g[x] \in Int /\ h[x] = f[x] + g[x]
  PROVE  SumFunctionOnSet(h, S) = SumFunctionOnSet(f, S) + SumFunctionOnSet(g, S)
<1> DEFINE Good == {s \in SUBSET S :
                      SumFunctionOnSet(h, s) = SumFunctionOnSet(f, s) + SumFunctionOnSet(g, s)}
<1>1. ASSUME NEW s \in SUBSET S, \A x \in s : s \ {x} \in Good PROVE s \in Good
  <2>1. CASE s = {}
    BY <2>1, SumOfNone
  <2>2. CASE s # {}
    <3> DEFINE p == Chosen(s)
               r == s \ {p}
    <3>1. /\ p \in s
          /\ SumFunctionOnSet(f, s) = f[p] + SumFunctionOnSet(f, r)
          /\ SumFunctionOnSet(g, s) = g[p] + SumFunctionOnSet(g, r)
          /\ SumFunctionOnSet(h, s) = h[p] + SumFunctionOnSet(h, r)
      BY <2>2, FS_Subset, SumUnfold
    <3>2. SumFunctionOnSet(f, r) \in Int /\ SumFunctionOnSet(g, r) \in Int
      BY FS_Subset, SumType
    <3>3. SumFunctionOnSet(h, r) = SumFunctionOnSet(f, r) + SumFunctionOnSet(g, r)
      BY <1>1, <3>1
    <3>4. f[p] \in Int /\ g[p] \in Int /\ h[p] = f[p] + g[p]
      BY <3>1
    <3> DEFINE a == f[p]
               b == g[p]
               u == SumFunctionOnSet(f, r)
               v == SumFunctionOnSet(g, r)
    <3>5. /\ a \in Int /\ b \in Int /\ u \in Int /\ v \in Int
          /\ SumFunctionOnSet(h, s) = (a + b) + (u + v)
          /\ SumFunctionOnSet(f, s) = a + u /\ SumFunctionOnSet(g, s) = b + v
      BY <3>1, <3>2, <3>3, <3>4
    <3> HIDE DEF p, r, a, b, u, v
    <3>6. SumFunctionOnSet(h, s) = SumFunctionOnSet(f, s) + SumFunctionOnSet(g, s)
      BY <3>5
    <3> QED BY <3>6
  <2> QED BY <2>1, <2>2
<1>2. SUBSET S \subseteq Good
  <2> HIDE DEF Good
  <2> QED BY <1>1, SubsetInduction
<1> QED
  BY <1>2

\* A bounded set of natural numbers has a greatest member.
LEMMA Greatest ==
  ASSUME NEW n \in Nat, NEW T \in SUBSET (0 .. n), T # {}
  PROVE  \E m \in T : \A k \in T : k <= m
<1> DEFINE Mirror == {k \in 0 .. n : n - k \in T}
<1>1. PICK t : t \in T
  OBVIOUS
<1>2. n - t \in Mirror
  BY <1>1
<1>3. Mirror \in SUBSET Nat /\ Mirror # {}
  BY <1>2
<1>4. PICK k \in Mirror : \A j \in Mirror : k <= j
  BY <1>3, Least
<1>5. n - k \in T /\ \A x \in T : n - x \in Mirror
  BY <1>4
<1>6. \A x \in T : x <= n - k
  BY <1>4, <1>5
<1> QED
  BY <1>5, <1>6

\* Numbers counted class by class are all counted.
LEMMA CountByClass ==
  ASSUME NEW S, IsFiniteSet(S), NEW n \in Nat, NEW class, \A i \in 1 .. n : class[i] \in S
  PROVE  /\ \A s \in S : Cardinality({i \in 1 .. n : class[i] = s}) \in Nat
         /\ SumFunctionOnSet([s \in S |-> Cardinality({i \in 1 .. n : class[i] = s})], S) = n
<1> DEFINE Members(m, s) == {i \in 1 .. m : class[i] = s}
           Sizes(m) == [s \in S |-> Cardinality(Members(m, s))]
           Good == {m \in Nat : m <= n => SumFunctionOnSet(Sizes(m), S) = m}
<1>1. \A m \in Nat, s \in S : /\ IsFiniteSet(Members(m, s))
                              /\ Sizes(m)[s] = Cardinality(Members(m, s))
                              /\ Cardinality(Members(m, s)) \in Nat
  <2> SUFFICES ASSUME NEW m \in Nat, NEW s \in S
               PROVE  IsFiniteSet(Members(m, s)) /\ Cardinality(Members(m, s)) \in Nat
    OBVIOUS
  <2>1. IsFiniteSet(1 .. m) /\ Members(m, s) \subseteq 1 .. m
    BY FS_Interval
  <2> QED
    BY <2>1, FS_Subset, FS_CardinalityType
<1>2. ASSUME NEW m \in Nat, \A k \in Nat : k < m => k \in Good PROVE m \in Good
  <2>1. CASE m = 0
    <3>1. \A s \in S : Members(0, s) = {}
      OBVIOUS
    <3>2. \A s \in S : Sizes(0)[s] = 0
      BY <3>1, FS_EmptySet
    <3> HIDE DEF Sizes
    <3>3. SumFunctionOnSet(Sizes(0), S) = 0
      BY <3>2, SumOfZeros
    <3> QED
      BY <2>1, <3>3
  <2>2. CASE m # 0
    <3> SUFFICES ASSUME m <= n PROVE SumFunctionOnSet(Sizes(m), S) = m
      OBVIOUS
    <3> DEFINE k == m - 1
               c == class[m]
    <3>1. k \in Nat /\ k < m /\ k <= n /\ m = k + 1 /\ c \in S
      BY <2>2
    <3>2. SumFunctionOnSet(Sizes(k), S) = k
      BY <1>2, <3>1
    <3>3. \A s \in S \ {c} : Members(m, s) = Members(k, s)
      BY <3>1
    <3>4. Members(m, c) = Members(k, c) \cup {m} /\ m \notin Members(k, c)
      BY <3>1
    <3> HIDE DEF Members
    <3>5. Cardinality(Members(m, c)) = Cardinality(Members(k, c)) + 1
      <4> DEFINE before == Members(k, c)
      <4>1. IsFiniteSet(before)
        BY <1>1, <3>1
      <4>2. Members(m, c) = before \cup {m} /\ m \notin before
        BY <3>4
      <4> HIDE DEF before
      <4>3. Cardinality(before \cup {m}) = Cardinality(before) + 1
        BY <4>1, <4>2, FS_AddElement
      <4> QED
        BY <4>2, <4>3 DEF before
    <3>6. /\ \A s \in S : Sizes(m)[s] \in Int /\ Sizes(k)[s] \in Int
          /\ \A s \in S \ {c} : Sizes(m)[s] = Sizes(k)[s]
          /\ Sizes(m)[c] = Sizes(k)[c] + 1
      BY <1>1, <3>1, <3>3, <3>5
    <3> HIDE DEF Sizes, k, c
    <3>7. SumFunctionOnSet(Sizes(m), S)
            = SumFunctionOnSet(Sizes(k), S) - Sizes(k)[c] + Sizes(m)[c]
      BY <3>1, <3>6, SumChange
    <3> QED
      BY <3>1, <3>2, <3>6, <3>7
  <2> QED
    BY <2>1, <2>2
<1>3. Nat \subseteq Good
  <2> HIDE DEF Good
  <2> QED BY <1>2, NatInductionOnSet
<1>4. SumFunctionOnSet(Sizes(n), S) = n
  BY <1>3
<1> QED
  BY <1>1, <1>4
-----------------------------------------------------------------------------
(***************************************************************************)
(* Remainders.                                                             *)
(***************************************************************************)

\* A number is its quotient and its remainder.
LEMMA Division ==
  ASSUME NEW x \in Int, NEW m \in Nat \ {0}
  PROVE  x % m \in 0 .. m - 1 /\ x \div m \in Int /\ x = m * (x \div m) + (x % m)
OBVIOUS

\* There is one way to write it so.
LEMMA RemainderIsUnique ==
  ASSUME NEW m \in Nat \ {0}, NEW q \in Int, NEW p \in Int,
         NEW r \in 0 .. m - 1, NEW s \in 0 .. m - 1, m * q + r = m * p + s
  PROVE  r = s
<1>1. CASE q >= p + 1
  <2>1. m * (q - p) = s - r
    BY Z3
  <2>2. m * (q - p) >= m
    BY <1>1
  <2> QED BY <2>1, <2>2
<1>2. CASE p >= q + 1
  <2>1. m * (p - q) = r - s
    BY Z3
  <2>2. m * (p - q) >= m
    BY <1>2
  <2> QED BY <2>1, <2>2
<1>3. CASE p = q
  BY <1>3
<1> QED BY <1>1, <1>2, <1>3

\* Counting on from a wrapped counter.
LEMMA RemainderOfSum ==
  ASSUME NEW x \in Int, NEW g \in Int, NEW m \in Nat \ {0}
  PROVE  ((x % m) + g) % m = (x + g) % m
<1> DEFINE q == x \div m
           y == x % m
           a == (y + g) \div m
           r == (y + g) % m
           b == (x + g) \div m
           s == (x + g) % m
<1>1. q \in Int /\ y \in Int /\ x = m * q + y
  BY Division
<1>2. a \in Int /\ r \in 0 .. m - 1 /\ y + g = m * a + r
  <2> HIDE DEF y
  <2> QED BY <1>1, Division
<1>3. b \in Int /\ s \in 0 .. m - 1 /\ x + g = m * b + s
  BY Division
<1> HIDE DEF q, y, a, b, r, s
<1>4. m * (q + a) + r = m * b + s
  <2>1. m * (q + a) = m * q + m * a
    BY <1>1, <1>2
  <2>2. m * q \in Int /\ m * a \in Int /\ m * b \in Int
    BY <1>1, <1>2, <1>3
  <2> QED BY <1>1, <1>2, <1>3, <2>1, <2>2
<1>5. q + a \in Int
  BY <1>1, <1>2
<1> QED BY <1>2, <1>3, <1>4, <1>5, RemainderIsUnique DEF r, s, y
=============================================================================
