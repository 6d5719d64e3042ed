---------------------------- MODULE Sums_proofs ----------------------------
(***************************************************************************)
(* Sums of whole numbers over finite sets, as MapThenSumSet defines them:  *)
(* what the proofs about counters and windows need of them.  The library's *)
(* induction takes a predicate as a parameter; here it is done with sets:  *)
(* a nonempty set of finite sets has a minimal one.                        *)
(***************************************************************************)
EXTENDS Integers, FiniteSets, FiniteSetsExt, FiniteSetTheorems, WellFoundedInduction, TLAPS

SumOver(f, S) == MapThenSumSet(LAMBDA x : f[x], S)

(* MapThenSumSet adds the elements up in the order in which CHOOSE takes   *)
(* them.                                                                   *)
Chosen(s) == CHOOSE x \in s : TRUE

Step(f, g, s) == IF s = {} THEN 0 ELSE f[Chosen(s)] + g[s \ {Chosen(s)}]

Sums(f, S) == CHOOSE g : g = [s \in SUBSET S |-> Step(f, g, s)]

(* A sum is the value of the recursion at the whole set.                   *)
LEMMA SumUnfolds == ASSUME NEW f, NEW S PROVE SumOver(f, S) = Sums(f, S)[S]
BY DEF SumOver, MapThenSumSet, MapThenFoldSet, Sums, Step, Chosen

(* What CHOOSE takes from a set is in it.                                  *)
LEMMA ChosenIn == ASSUME NEW s, s # {} PROVE Chosen(s) \in s
BY DEF Chosen

(* Induction on the naturals, and on the subsets of a finite set.          *)
LEMMA LeastNatural ==
  ASSUME NEW T, T \subseteq Nat, T # {}
  PROVE  \E n \in T : \A m \in T : n =< m
<1> DEFINE R == OpToRel(<, Nat)
<1>1. IsWellFoundedOn(R, Nat)
  BY NatLessThanWellFounded
<1>2. \A n, m \in Nat : <<m, n>> \in R <=> m < n
  BY DEF OpToRel
<1> HIDE DEF R
<1>3. PICK n \in T : \A m \in T : ~ (<<m, n>> \in R)
  BY <1>1, WFMin
<1>4. \A m \in T : ~ (m < n)
  BY <1>2, <1>3, Zenon
<1> QED
  BY <1>4

(* Among subsets of a finite set there is one that contains no other.      *)
LEMMA MinimalSubset ==
  ASSUME NEW S, IsFiniteSet(S), NEW T, T \subseteq SUBSET S, T # {}
  PROVE  \E s \in T : \A t \in T : t \subseteq s => t = s
<1> DEFINE R == StrictSubsetOrdering(S)
<1>1. IsWellFoundedOn(R, SUBSET S)
  BY FS_StrictSubsetOrderingWellFounded, FS_FiniteSubsetsOfFinite
<1>2. \A s, t \in SUBSET S : <<t, s>> \in R <=> t \subseteq s /\ t # s
  BY DEF StrictSubsetOrdering
<1> HIDE DEF R
<1>3. PICK s \in T : \A t \in T : ~ (<<t, s>> \in R)
  BY <1>1, WFMin
<1>4. \A t \in T : ~ (t \subseteq s /\ t # s)
  BY <1>2, <1>3, Zenon
<1> QED
  BY <1>4, Zenon

(* A subset of a finite set is finite, and without an element one smaller. *)
LEMMA SubsetSize ==
  ASSUME NEW S, IsFiniteSet(S), NEW s \in SUBSET S
  PROVE  /\ IsFiniteSet(s) /\ Cardinality(s) \in Nat
         /\ \A x \in s : s \ {x} \in SUBSET S /\ Cardinality(s \ {x}) = Cardinality(s) - 1
BY FS_Subset, FS_CardinalityType, FS_RemoveElement

(* Smaller sets first, the recursion defines a function.                   *)
LEMMA SumsRecursion ==
  ASSUME NEW f, NEW S, IsFiniteSet(S)
  PROVE  \A s \in SUBSET S : Sums(f, S)[s] = Step(f, Sums(f, S), s)
<1> DEFINE Upto(g, n) ==
             \A s \in SUBSET S : Cardinality(s) =< n => g[s] = Step(f, g, s)
           Bad == {n \in Nat : ~ \E g : Upto(g, n)}
<1>1. 0 \notin Bad
  <2> DEFINE g == [s \in SUBSET S |-> 0]
  <2>1. ASSUME NEW s \in SUBSET S, Cardinality(s) =< 0 PROVE g[s] = Step(f, g, s)
    <3>1. Cardinality(s) = 0 /\ IsFiniteSet(s)
      BY <2>1, SubsetSize
    <3>2. s = {}
      BY <3>1, FS_EmptySet
    <3> QED  BY <3>2 DEF Step
  <2>2. Upto(g, 0)
    BY <2>1
  <2> QED  BY <2>2
<1>2. ASSUME NEW n \in Nat, NEW g, Upto(g, n) PROVE \E h : Upto(h, n + 1)
  <2> DEFINE h == [s \in SUBSET S |-> Step(f, g, s)]
  <2>1. ASSUME NEW s \in SUBSET S, Cardinality(s) =< n + 1 PROVE h[s] = Step(f, h, s)
    <3>1. CASE s = {}
      BY <3>1 DEF Step
    <3>2. CASE s # {}
      <4> DEFINE t == s \ {Chosen(s)}
      <4>1. t \in SUBSET S /\ Cardinality(t) = Cardinality(s) - 1 /\ Cardinality(s) \in Nat
        BY <3>2, ChosenIn, SubsetSize
      <4>2. Cardinality(t) =< n
        BY <2>1, <4>1
      <4>3. h[t] = g[t]
        BY <1>2, <4>1, <4>2
      <4> QED  BY <3>2, <4>3 DEF Step
    <3> QED  BY <3>1, <3>2
  <2>2. Upto(h, n + 1)
    BY <2>1
  <2> QED  BY <2>2
<1>3. Bad = {}
  <2> SUFFICES ASSUME Bad # {} PROVE FALSE
    OBVIOUS
  <2>1. PICK n \in Bad : \A m \in Bad : n =< m
    BY LeastNatural
  <2>2. n \in Nat /\ n # 0 /\ n - 1 \notin Bad
    BY <1>1, <2>1
  <2>3. PICK g : Upto(g, n - 1)
    BY <2>2
  <2>4. n - 1 \in Nat /\ (n - 1) + 1 = n
    BY <2>2
  <2>5. \E h : Upto(h, (n - 1) + 1)
    BY <1>2, <2>3, <2>4
  <2> QED  BY <2>1, <2>4, <2>5
<1>4. \E g : g = [s \in SUBSET S |-> Step(f, g, s)]
  <2>1. Cardinality(S) \in Nat
    BY FS_CardinalityType
  <2>2. PICK g : Upto(g, Cardinality(S))
    BY <1>3, <2>1
  <2> DEFINE h == [s \in SUBSET S |-> Step(f, g, s)]
  <2>3. \A s \in SUBSET S : h[s] = g[s]
    BY <2>2, FS_Subset
  <2>4. ASSUME NEW s \in SUBSET S PROVE Step(f, g, s) = Step(f, h, s)
    <3>1. s # {} => s \ {Chosen(s)} \in SUBSET S
      BY ChosenIn
    <3> QED  BY <2>3, <3>1 DEF Step
  <2>5. h = [s \in SUBSET S |-> Step(f, h, s)]
    BY <2>4
  <2> QED  BY <2>5
<1> DEFINE Def(g) == g = [s \in SUBSET S |-> Step(f, g, s)]
<1>5. Def(Sums(f, S))
  BY <1>4 DEF Sums
<1>6. ASSUME NEW g, Def(g), NEW s \in SUBSET S PROVE g[s] = Step(f, g, s)
  BY <1>6
<1> HIDE DEF Def
<1> QED
  BY <1>5, <1>6

(* The recursion over numbers gives numbers.                               *)
LEMMA SumsType ==
  ASSUME NEW f, NEW S, IsFiniteSet(S), \A x \in S : f[x] \in Int
  PROVE  \A s \in SUBSET S : Sums(f, S)[s] \in Int
<1> DEFINE g == Sums(f, S)
           Bad == {s \in SUBSET S : g[s] \notin Int}
<1>1. \A s \in SUBSET S : g[s] = Step(f, g, s)
  BY SumsRecursion
<1> HIDE DEF g
<1>2. SUFFICES ASSUME Bad # {} PROVE FALSE
  BY DEF g
<1>a. Bad \subseteq SUBSET S
  OBVIOUS
<1> HIDE DEF Bad
<1>3. PICK s \in Bad : \A t \in Bad : t \subseteq s => t = s
  BY <1>a, <1>2, MinimalSubset
<1> USE DEF Bad
<1>4. CASE s = {}
  <2>1. g[s] = 0
    BY <1>1, <1>3, <1>4 DEF Step
  <2> QED  BY <2>1
<1>5. CASE s # {}
  <2> DEFINE x == Chosen(s)
             t == s \ {x}
  <2>1. x \in s /\ x \in S /\ t \in SUBSET S
    BY <1>5, ChosenIn
  <2>2. t \notin Bad
    BY <1>3, <2>1
  <2>3. f[x] \in Int /\ g[t] \in Int
    BY <2>1, <2>2
  <2>4. g[s] = f[x] + g[t]
    BY <1>1, <1>5 DEF Step
  <2>5. g[s] \in Int
    BY <2>3, <2>4
  <2> QED  BY <2>5
<1> QED
  BY <1>4, <1>5

(* Any element may be taken first.                                         *)
LEMMA SumsAny ==
  ASSUME NEW f, NEW S, IsFiniteSet(S), \A x \in S : f[x] \in Int,
         NEW s \in SUBSET S, NEW y \in s
  PROVE  Sums(f, S)[s] = f[y] + Sums(f, S)[s \ {y}]
<1> DEFINE g == Sums(f, S)
           Bad == {t \in SUBSET S : \E z \in t : g[t] # f[z] + g[t \ {z}]}
<1>1. \A t \in SUBSET S : g[t] = Step(f, g, t) /\ g[t] \in Int
  BY SumsRecursion, SumsType
<1> HIDE DEF g
<1>2. SUFFICES ASSUME Bad # {} PROVE FALSE
  BY DEF g
<1>a. Bad \subseteq SUBSET S
  OBVIOUS
<1> HIDE DEF Bad
<1>3. PICK t \in Bad : \A u \in Bad : u \subseteq t => u = t
  BY <1>a, <1>2, MinimalSubset
<1> USE DEF Bad
<1>4. PICK z \in t : g[t] # f[z] + g[t \ {z}]
  BY <1>3
<1> DEFINE x == Chosen(t)
           u == t \ {x}
           v == t \ {z}
<1>5. x \in t /\ t \in SUBSET S /\ u \in SUBSET S /\ v \in SUBSET S
  BY <1>3, <1>4, ChosenIn
<1>6. g[t] = f[x] + g[u]
  BY <1>1, <1>4, <1>5 DEF Step
<1>7. x # z
  BY <1>4, <1>6
<1>8. u \notin Bad /\ v \notin Bad
  BY <1>3, <1>4, <1>5
<1> DEFINE both == t \ {x, z}
<1>9. u \ {z} = both /\ v \ {x} = both /\ z \in u /\ x \in v /\ both \in SUBSET S
  BY <1>4, <1>5, <1>7
<1> HIDE DEF u, v, both, x
<1>10. g[u] = f[z] + g[both] /\ g[v] = f[x] + g[both]
  BY <1>5, <1>8, <1>9
<1>11. f[x] \in Int /\ f[z] \in Int /\ g[both] \in Int
  BY <1>1, <1>4, <1>5, <1>9
<1>12. g[t] = f[z] + g[v]
  BY <1>6, <1>10, <1>11
<1> QED
  BY <1>4, <1>12 DEF v

(* The sum depends on the elements' values alone.                          *)
LEMMA SumsLocal ==
  ASSUME NEW f, NEW h, NEW S, IsFiniteSet(S), NEW T \in SUBSET S, \A x \in T : f[x] = h[x]
  PROVE  \A s \in SUBSET T : Sums(f, S)[s] = Sums(h, T)[s]
<1> DEFINE g == Sums(f, S)
           k == Sums(h, T)
           Bad == {s \in SUBSET T : g[s] # k[s]}
<1>1. IsFiniteSet(T)
  BY FS_Subset
<1>2. \A s \in SUBSET T : g[s] = Step(f, g, s) /\ k[s] = Step(h, k, s)
  BY <1>1, SumsRecursion
<1> HIDE DEF g, k
<1>3. SUFFICES ASSUME Bad # {} PROVE FALSE
  BY DEF g, k
<1>a. Bad \subseteq SUBSET T
  OBVIOUS
<1> HIDE DEF Bad
<1>4. PICK s \in Bad : \A t \in Bad : t \subseteq s => t = s
  BY <1>a, <1>1, <1>3, MinimalSubset
<1> USE DEF Bad
<1>5. CASE s = {}
  BY <1>2, <1>4, <1>5 DEF Step
<1>6. CASE s # {}
  <2> DEFINE x == Chosen(s)
             t == s \ {x}
  <2>1. x \in s /\ x \in T /\ t \in SUBSET T
    BY <1>4, <1>6, ChosenIn
  <2>2. t \notin Bad
    BY <1>4, <2>1
  <2>3. f[x] = h[x] /\ g[t] = k[t]
    BY <2>1, <2>2
  <2>4. g[s] = f[x] + g[t] /\ k[s] = h[x] + k[t]
    BY <1>2, <1>4, <1>6 DEF Step
  <2> HIDE DEF x, t
  <2>5. g[s] = k[s]
    BY <2>3, <2>4
  <2> QED  BY <1>4, <2>5
<1> QED
  BY <1>5, <1>6

-----------------------------------------------------------------------------
(* What the proofs use: the sum of nothing, of one element more or less,   *)
(* and of what agrees.                                                     *)
LEMMA SumType ==
  ASSUME NEW S, IsFiniteSet(S), NEW f, \A x \in S : f[x] \in Int
  PROVE  SumOver(f, S) \in Int
BY SumUnfolds, SumsType

(* The sum of nothing is zero.                                             *)
LEMMA SumEmpty ==
  ASSUME NEW f
  PROVE  SumOver(f, {}) = 0
<1>1. Sums(f, {})[{}] = Step(f, Sums(f, {}), {})
  BY SumsRecursion, FS_EmptySet
<1> QED
  BY <1>1, SumUnfolds DEF Step

(* Functions that agree have the same sum.                                 *)
LEMMA SumSame ==
  ASSUME NEW S, IsFiniteSet(S), NEW f, NEW h, \A x \in S : f[x] = h[x]
  PROVE  SumOver(f, S) = SumOver(h, S)
<1>1. Sums(f, S)[S] = Sums(h, S)[S]
  BY SumsLocal
<1> QED
  BY <1>1, SumUnfolds

(* A sum is one element and the sum of the others.                         *)
LEMMA SumSplit ==
  ASSUME NEW S, IsFiniteSet(S), NEW f, \A x \in S : f[x] \in Int, NEW y \in S
  PROVE  SumOver(f, S) = f[y] + SumOver(f, S \ {y})
<1>1. Sums(f, S)[S] = f[y] + Sums(f, S)[S \ {y}]
  BY SumsAny
<1>2. Sums(f, S)[S \ {y}] = Sums(f, S \ {y})[S \ {y}]
  BY SumsLocal
<1> QED
  BY <1>1, <1>2, SumUnfolds

(* A value that changes changes the sum by as much.                        *)
LEMMA SumChange ==
  ASSUME NEW S, IsFiniteSet(S), NEW f, NEW h, NEW y \in S,
         \A x \in S : f[x] \in Int /\ h[x] \in Int,
         \A x \in S \ {y} : f[x] = h[x]
  PROVE  SumOver(h, S) = SumOver(f, S) + (h[y] - f[y])
<1>1. IsFiniteSet(S \ {y})
  BY FS_RemoveElement
<1>2. SumOver(f, S \ {y}) = SumOver(h, S \ {y})
  BY <1>1, SumSame
<1>3. SumOver(f, S \ {y}) \in Int
  BY <1>1, SumType
<1>4. SumOver(f, S) = f[y] + SumOver(f, S \ {y}) /\ SumOver(h, S) = h[y] + SumOver(h, S \ {y})
  BY SumSplit
<1> QED
  BY <1>2, <1>3, <1>4

(* Elements that are not negative only add, elements that are zero do not: *)
(* among the sets that may be taken out and say otherwise, a smallest one  *)
(* has an element to put back.                                             *)
LEMMA SumSubset ==
  ASSUME NEW S, IsFiniteSet(S), NEW f, \A x \in S : f[x] \in Int, NEW T \in SUBSET S,
         \A x \in S \ T : f[x] >= 0
  PROVE  SumOver(f, T) =< SumOver(f, S)
<1> DEFINE Bad == {U \in SUBSET S : U \cap T = {} /\ ~ (SumOver(f, T) =< SumOver(f, T \cup U))}
<1>1. SUFFICES Bad = {}
  <2>1. (S \ T) \in SUBSET S /\ (S \ T) \cap T = {} /\ T \cup (S \ T) = S
    OBVIOUS
  <2> QED  BY <2>1
<1>2. SUFFICES ASSUME Bad # {} PROVE FALSE
  OBVIOUS
<1>3. Bad \subseteq SUBSET S
  OBVIOUS
<1> HIDE DEF Bad
<1>4. PICK U \in Bad : \A V \in Bad : V \subseteq U => V = U
  BY <1>2, <1>3, MinimalSubset
<1> USE DEF Bad
<1>5. IsFiniteSet(T) /\ SumOver(f, T) \in Int
  BY FS_Subset, SumType
<1>6. U # {}
  <2>1. CASE U = {}
    <3>1. T \cup U = T
      BY <2>1
    <3>2. SumOver(f, T \cup U) = SumOver(f, T)
      BY <3>1
    <3> QED  BY <1>4, <1>5, <3>2
  <2> QED  BY <2>1
<1>7. PICK x \in U : TRUE
  BY <1>6
<1> DEFINE W == T \cup (U \ {x})
<1>8. x \in S \ T /\ f[x] \in Int /\ f[x] >= 0
  BY <1>4, <1>7
<1>9. IsFiniteSet(T \cup U) /\ (T \cup U) \ {x} = W /\ x \in T \cup U /\ W \subseteq S
      /\ IsFiniteSet(W) /\ T \cup U \subseteq S
  BY <1>4, <1>7, <1>8, FS_Subset
<1>10. SumOver(f, T \cup U) = f[x] + SumOver(f, (T \cup U) \ {x})
  <2>1. \A y \in T \cup U : f[y] \in Int
    BY <1>9
  <2> HIDE DEF W
  <2> QED  BY <1>9, <2>1, SumSplit
<1>11. SumOver(f, W) \in Int
  BY <1>9, SumType
<1>12. SumOver(f, T) =< SumOver(f, W)
  <2>1. U \ {x} \notin Bad
    <3> HIDE DEF Bad
    <3> QED  BY <1>4, <1>7
  <2> QED  BY <1>4, <2>1
<1> HIDE DEF W
<1>13. SumOver(f, T) =< SumOver(f, T \cup U)
  BY <1>5, <1>8, <1>9, <1>10, <1>11, <1>12
<1> QED  BY <1>4, <1>13

(* Elements that are zero may be left out.                                 *)
LEMMA SumSupport ==
  ASSUME NEW S, IsFiniteSet(S), NEW f, \A x \in S : f[x] \in Int, NEW T \in SUBSET S,
         \A x \in S \ T : f[x] = 0
  PROVE  SumOver(f, S) = SumOver(f, T)
<1> DEFINE Bad == {U \in SUBSET S : U \cap T = {} /\ SumOver(f, T) # SumOver(f, T \cup U)}
<1>1. SUFFICES Bad = {}
  <2>1. (S \ T) \in SUBSET S /\ (S \ T) \cap T = {} /\ T \cup (S \ T) = S
    OBVIOUS
  <2> SUFFICES ASSUME Bad = {} PROVE SumOver(f, S) = SumOver(f, T)
    OBVIOUS
  <2>2. S \ T \notin Bad
    OBVIOUS
  <2>3. SumOver(f, T) = SumOver(f, T \cup (S \ T))
    BY <2>1, <2>2
  <2> QED  BY <2>1, <2>3
<1>2. SUFFICES ASSUME Bad # {} PROVE FALSE
  OBVIOUS
<1>3. Bad \subseteq SUBSET S
  OBVIOUS
<1> HIDE DEF Bad
<1>4. PICK U \in Bad : \A V \in Bad : V \subseteq U => V = U
  BY <1>2, <1>3, MinimalSubset
<1> USE DEF Bad
<1>5. U # {}
  <2>1. CASE U = {}
    <3>1. T \cup U = T
      BY <2>1
    <3>2. SumOver(f, T \cup U) = SumOver(f, T)
      BY <3>1
    <3> QED  BY <1>4, <3>2
  <2> QED  BY <2>1
<1>6. PICK x \in U : TRUE
  BY <1>5
<1> DEFINE W == T \cup (U \ {x})
<1>7. x \in S \ T /\ f[x] = 0
  BY <1>4, <1>6
<1>8. IsFiniteSet(T \cup U) /\ (T \cup U) \ {x} = W /\ x \in T \cup U /\ W \subseteq S
      /\ IsFiniteSet(W) /\ T \cup U \subseteq S
  BY <1>4, <1>6, <1>7, FS_Subset
<1>9. SumOver(f, T \cup U) = f[x] + SumOver(f, (T \cup U) \ {x})
  <2>1. \A y \in T \cup U : f[y] \in Int
    BY <1>8
  <2> HIDE DEF W
  <2> QED  BY <1>8, <2>1, SumSplit
<1>10. SumOver(f, W) \in Int
  BY <1>8, SumType
<1>11. SumOver(f, T) = SumOver(f, W)
  <2>1. U \ {x} \notin Bad
    <3> HIDE DEF Bad
    <3> QED  BY <1>4, <1>6
  <2> QED  BY <1>4, <2>1
<1> HIDE DEF W
<1>12. SumOver(f, T) = SumOver(f, T \cup U)
  <2>1. SumOver(f, T \cup U) = f[x] + SumOver(f, W)
    BY <1>8, <1>9
  <2>2. f[x] + SumOver(f, W) = SumOver(f, W)
    BY <1>7, <1>10
  <2> QED  BY <2>1, <2>2, <1>11
<1> QED  BY <1>4, <1>12

(* A sum of zeros is zero.                                                 *)
LEMMA SumZero ==
  ASSUME NEW S, IsFiniteSet(S), NEW f, \A x \in S : f[x] = 0
  PROVE  SumOver(f, S) = 0
BY SumSupport, SumEmpty

(* A finite set of numbers that is not empty has a largest.                *)
LEMMA Largest ==
  ASSUME NEW S, IsFiniteSet(S), \A x \in S : x \in Int, S # {}
  PROVE  Max(S) \in S /\ \A x \in S : Max(S) >= x
<1> DEFINE Bad == {U \in SUBSET S : U # {} /\ ~ \E m \in U : \A x \in U : m >= x}
<1>1. SUFFICES ASSUME Bad # {} PROVE FALSE
  BY DEF Max
<1>2. Bad \subseteq SUBSET S
  OBVIOUS
<1> HIDE DEF Bad
<1>3. PICK U \in Bad : \A V \in Bad : V \subseteq U => V = U
  BY <1>1, <1>2, MinimalSubset
<1> USE DEF Bad
<1>4. PICK x \in U : TRUE
  BY <1>3
<1>5. CASE U = {x}
  BY <1>3, <1>5
<1>6. CASE U # {x}
  <2>1. U \ {x} \notin Bad
    <3> HIDE DEF Bad
    <3> QED  BY <1>3, <1>4
  <2>2. PICK m \in U \ {x} : \A y \in U \ {x} : m >= y
    BY <1>3, <1>4, <1>6, <2>1
  <2>3. m \in Int /\ x \in Int /\ \A y \in U : y \in Int
    BY <1>3, <1>4, <2>2
  <2>4. CASE m >= x
    BY <1>3, <1>4, <2>2, <2>4
  <2>5. CASE ~ (m >= x)
    BY <1>3, <1>4, <2>2, <2>3, <2>5
  <2> QED  BY <2>4, <2>5
<1> QED  BY <1>5, <1>6

=============================================================================
