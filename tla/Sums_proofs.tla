---------------------------- MODULE Sums_proofs ----------------------------
(***************************************************************************)
(* Sums over finite sets, as the balances of the books are defined: what   *)
(* SumFunctionOnSet and SumFunction of Functions compute.  They recur over *)
(* the subsets of the set, through a function that is only chosen; that it *)
(* exists, and what it computes, is proved by induction over the subsets,  *)
(* from the well-foundedness of strict inclusion.                          *)
(***************************************************************************)
EXTENDS Integers, Functions, FiniteSetTheorems, WellFoundedInduction, TLAPS
-----------------------------------------------------------------------------
\* A set of natural numbers has a least element.
LEMMA LeastNumber == ASSUME NEW T, T \subseteq Nat, T # {} PROVE \E m \in T : \A n \in T : m <= n
<1> DEFINE R == OpToRel(<, Nat)
<1>1. \A m, n \in Nat : <<n, m>> \in R <=> n < m
  BY DEF OpToRel
<1>2. IsWellFoundedOn(R, Nat)
  BY NatLessThanWellFounded
<1> HIDE DEF R
<1>3. PICK m \in T : \A n \in T : ~(<<n, m>> \in R)
  BY <1>2, WFMin
<1>4. \A n \in T : ~(n < m)
  BY <1>1, <1>3
<1> QED
  BY <1>4

\* What holds of a set when it holds of its strict subsets holds of all of them.
LEMMA SubsetInduction ==
  ASSUME NEW S, IsFiniteSet(S), NEW B,
         \A T \in SUBSET S : (\A U \in SUBSET T : U # T => U \in B) => T \in B
  PROVE  SUBSET S \subseteq B
<1> DEFINE R == StrictSubsetOrdering(S)
           D == (SUBSET S) \ B
<1>1. FiniteSubsetsOf(S) = SUBSET S
  BY FS_FiniteSubsetsOfFinite
<1>2. IsWellFoundedOn(R, FiniteSubsetsOf(S))
  BY FS_StrictSubsetOrderingWellFounded
<1>3. \A T, U \in SUBSET S : U \subseteq T /\ U # T => <<U, T>> \in R
  BY DEF StrictSubsetOrdering
<1>4. D \subseteq FiniteSubsetsOf(S)
  BY <1>1
<1> HIDE DEF R, D
<1>5. CASE D # {}
  <2>1. PICK T \in D : \A U \in D : ~(<<U, T>> \in R)
    BY <1>2, <1>4, <1>5, WFMin
  <2>2. \A U \in D : ~(U \subseteq T /\ U # T)
    BY <1>1, <1>3, <1>4, <2>1
  <2>3. \A U \in SUBSET T : U # T => U \in B
    BY <1>1, <1>4, <2>2 DEF D
  <2> QED
    BY <2>3 DEF D
<1> QED
  BY <1>5 DEF D

\* The element a sum takes next, and the sum of a set from those of its subsets.
Pick(T) == CHOOSE x \in T : TRUE
SumStep(f, T, g) == IF T = {} THEN 0 ELSE f[Pick(T)] + g[T \ {Pick(T)}]
Sums(f, S) == CHOOSE g : g = [T \in SUBSET S |-> SumStep(f, T, g)]

\* The definition of the library, with its recursion spelled out.
LEMMA SumIsSums == ASSUME NEW f, NEW S PROVE SumFunctionOnSet(f, S) = Sums(f, S)[S]
  BY DEF SumFunctionOnSet, FoldFunctionOnSet, MapThenFoldSet, Sums, SumStep, Pick

\* The recursion has a solution: the sums of sets of at most n elements, for every n.
LEMMA SumsDefined ==
  ASSUME NEW f, NEW S, IsFiniteSet(S)
  PROVE  Sums(f, S) = [T \in SUBSET S |-> SumStep(f, T, Sums(f, S))]
<1> DEFINE Small(n) == {T \in SUBSET S : Cardinality(T) <= n}
           Solves(n, g) == g = [T \in Small(n) |-> SumStep(f, T, g)]
           Bad == {n \in Nat : ~ \E g : Solves(n, g)}
<1>1. \A T \in SUBSET S : IsFiniteSet(T) /\ Cardinality(T) \in Nat /\ Cardinality(T) <= Cardinality(S)
  BY FS_Subset, FS_CardinalityType
<1>2. \A T \in SUBSET S : T # {} =>
         /\ Pick(T) \in T /\ T \ {Pick(T)} \in SUBSET S
         /\ Cardinality(T \ {Pick(T)}) = Cardinality(T) - 1
  BY <1>1, FS_RemoveElement DEF Pick
<1>3. Bad = {}
  <2> SUFFICES ASSUME Bad # {} PROVE FALSE
    OBVIOUS
  <2>1. PICK m \in Bad : \A n \in Bad : m <= n
    BY LeastNumber
  <2>2. CASE m = 0
    <3> DEFINE g == [T \in Small(0) |-> 0]
    <3>1. \A T \in Small(0) : T = {}
      BY <1>1, FS_EmptySet
    <3>2. Solves(0, g)
      BY <3>1 DEF SumStep
    <3> QED
      BY <2>1, <2>2, <3>2
  <2>3. CASE m # 0
    <3>1. m - 1 \in Nat /\ m - 1 \notin Bad
      <4>1. m \in Nat
        BY <2>1
      <4> HIDE DEF Bad
      <4> QED
        BY <2>1, <2>3, <4>1
    <3>2. PICK g : Solves(m - 1, g)
      BY <3>1
    <3> DEFINE h == [T \in Small(m) |-> IF T \in Small(m - 1) THEN g[T] ELSE SumStep(f, T, g)]
    <3>3. \A T \in Small(m) : T # {} => T \ {Pick(T)} \in Small(m - 1) /\ T \ {Pick(T)} \in Small(m)
      BY <1>1, <1>2, <2>1, <2>3
    <3>4. \A T \in Small(m - 1) : T \in Small(m)
      BY <1>1, <2>1, <2>3
    <3>5. \A T \in Small(m) : T # {} => h[T \ {Pick(T)}] = g[T \ {Pick(T)}]
      BY <3>3, <3>4
    <3>6. \A T \in Small(m) : SumStep(f, T, h) = SumStep(f, T, g)
      <4> SUFFICES ASSUME NEW T \in Small(m) PROVE SumStep(f, T, h) = SumStep(f, T, g)
        OBVIOUS
      <4> HIDE DEF h
      <4> QED
        BY <3>5 DEF SumStep
    <3>7. \A T \in Small(m - 1) : g[T] = SumStep(f, T, g)
      BY <3>2
    <3>8. Solves(m, h)
      BY <3>6, <3>7
    <3> QED
      BY <2>1, <3>8
  <2> QED
    BY <2>2, <2>3
<1>4. Small(Cardinality(S)) = SUBSET S
  BY <1>1
<1>5. Cardinality(S) \in Nat
  BY FS_CardinalityType
<1>6. \E g : Solves(Cardinality(S), g)
  BY <1>3, <1>5
<1>7. \E g : g = [T \in SUBSET S |-> SumStep(f, T, g)]
  BY <1>4, <1>6
<1> QED
  BY <1>7 DEF Sums

\* One step of the recursion.
LEMMA SumsUnfold ==
  ASSUME NEW f, NEW S, IsFiniteSet(S)
  PROVE  \A T \in SUBSET S : Sums(f, S)[T] = SumStep(f, T, Sums(f, S))
<1> DEFINE s == Sums(f, S)
           r == [T \in SUBSET S |-> SumStep(f, T, s)]
<1>1. s = r
  BY SumsDefined
<1>2. \A T \in SUBSET S : r[T] = SumStep(f, T, s)
  OBVIOUS
<1> HIDE DEF s, r
<1>3. \A T \in SUBSET S : s[T] = SumStep(f, T, s)
  BY <1>1, <1>2
<1> QED
  BY <1>3 DEF s

\* A sum does not depend on what the function is outside the set.
LEMMA SumsAgree ==
  ASSUME NEW f, NEW g, NEW S, IsFiniteSet(S), NEW D, IsFiniteSet(D), S \subseteq D,
         \A x \in S : f[x] = g[x]
  PROVE  Sums(f, S)[S] = Sums(g, D)[S]
<1> DEFINE B == {T \in SUBSET S : Sums(f, S)[T] = Sums(g, D)[T]}
<1>1. ASSUME NEW T \in SUBSET S, \A U \in SUBSET T : U # T => U \in B PROVE T \in B
  <2>1. /\ Sums(f, S)[T] = SumStep(f, T, Sums(f, S))
        /\ Sums(g, D)[T] = SumStep(g, T, Sums(g, D))
    BY SumsUnfold
  <2>2. CASE T = {}
    BY <2>1, <2>2 DEF SumStep
  <2>3. CASE T # {}
    <3>1. Pick(T) \in T
      BY <2>3 DEF Pick
    <3>2. f[Pick(T)] = g[Pick(T)]
      BY <3>1
    <3>3. Sums(f, S)[T \ {Pick(T)}] = Sums(g, D)[T \ {Pick(T)}]
      BY <1>1, <3>1
    <3> QED
      BY <2>1, <2>3, <3>2, <3>3 DEF SumStep
  <2> QED
    BY <2>2, <2>3
<1> HIDE DEF B
<1>2. SUBSET S \subseteq B
  BY <1>1, SubsetInduction
<1> QED
  BY <1>2 DEF B

\* The sum of integers is one.
LEMMA SumsType ==
  ASSUME NEW f, NEW S, IsFiniteSet(S), \A x \in S : f[x] \in Int
  PROVE  \A T \in SUBSET S : Sums(f, S)[T] \in Int
<1> DEFINE B == {T \in SUBSET S : Sums(f, S)[T] \in Int}
<1>1. ASSUME NEW T \in SUBSET S, \A U \in SUBSET T : U # T => U \in B PROVE T \in B
  <2>1. Sums(f, S)[T] = SumStep(f, T, Sums(f, S))
    BY SumsUnfold
  <2>2. CASE T = {}
    BY <2>1, <2>2 DEF SumStep
  <2>3. CASE T # {}
    <3>1. Pick(T) \in T
      BY <2>3 DEF Pick
    <3>2. f[Pick(T)] \in Int /\ Sums(f, S)[T \ {Pick(T)}] \in Int
      BY <1>1, <3>1
    <3> QED
      BY <2>1, <2>3, <3>2 DEF SumStep
  <2> QED
    BY <2>2, <2>3
<1> HIDE DEF B
<1>2. SUBSET S \subseteq B
  BY <1>1, SubsetInduction
<1> QED
  BY <1>2 DEF B

\* Whichever element is taken first, the sum is the same.
LEMMA SumsRemove ==
  ASSUME NEW f, NEW S, IsFiniteSet(S), \A x \in S : f[x] \in Int
  PROVE  \A T \in SUBSET S : \A x \in T : Sums(f, S)[T] = f[x] + Sums(f, S)[T \ {x}]
<1> DEFINE s == Sums(f, S)
           B == {T \in SUBSET S : \A x \in T : s[T] = f[x] + s[T \ {x}]}
<1>0. \A T \in SUBSET S : s[T] = SumStep(f, T, s) /\ s[T] \in Int
  BY SumsUnfold, SumsType
<1> HIDE DEF s
<1>1. ASSUME NEW T \in SUBSET S, \A U \in SUBSET T : U # T => U \in B PROVE T \in B
  <2> SUFFICES ASSUME NEW x \in T PROVE s[T] = f[x] + s[T \ {x}]
    OBVIOUS
  <2> DEFINE y == Pick(T)
  <2>1. y \in T /\ s[T] = f[y] + s[T \ {y}]
    BY <1>0 DEF SumStep, Pick
  <2> HIDE DEF y
  <2>2. CASE x = y
    BY <2>1, <2>2
  <2>3. CASE x # y
    <3>1. x \in T \ {y} /\ y \in T \ {x} /\ (T \ {y}) \ {x} = (T \ {x}) \ {y}
      BY <2>1, <2>3
    <3>2. s[T \ {y}] = f[x] + s[(T \ {y}) \ {x}]
      BY <1>1, <2>1, <3>1
    <3>3. s[T \ {x}] = f[y] + s[(T \ {x}) \ {y}]
      BY <1>1, <2>1, <3>1
    <3>4. f[x] \in Int /\ f[y] \in Int /\ s[(T \ {x}) \ {y}] \in Int
      BY <1>0, <2>1
    <3>5. s[(T \ {y}) \ {x}] = s[(T \ {x}) \ {y}]
      BY <3>1
    <3>6. s[T] = f[y] + (f[x] + s[(T \ {x}) \ {y}])
      BY <2>1, <3>2, <3>5
    <3> QED
      BY <3>3, <3>4, <3>6
  <2> QED
    BY <2>2, <2>3
<1> HIDE DEF B
<1>2. SUBSET S \subseteq B
  BY <1>1, SubsetInduction
<1> QED
  BY <1>2 DEF B, s
-----------------------------------------------------------------------------
(* The facts about SumFunctionOnSet that the other proofs cite *)

\* The sum over a finite set is an integer, and depends on nothing outside the set.
LEMMA SumIsInteger ==
  ASSUME NEW f, NEW S, IsFiniteSet(S), \A x \in S : f[x] \in Int
  PROVE  SumFunctionOnSet(f, S) \in Int
  BY SumIsSums, SumsType

\* Functions that agree on a set have the same sum over it.
LEMMA SumAgrees ==
  ASSUME NEW f, NEW g, NEW S, IsFiniteSet(S), \A x \in S : f[x] = g[x]
  PROVE  SumFunctionOnSet(f, S) = SumFunctionOnSet(g, S)
  BY SumIsSums, SumsAgree

\* The sum of nothing is zero.
LEMMA SumOfNothing == ASSUME NEW f PROVE SumFunctionOnSet(f, {}) = 0
<1>1. Sums(f, {})[{}] = SumStep(f, {}, Sums(f, {}))
  BY SumsUnfold, FS_EmptySet
<1> QED
  BY <1>1, SumIsSums DEF SumStep

\* An element's part of a sum: what one booking adds to a wallet's balance is its
\* amount (PersonaMarketplaceService.settleTaskPayment, OrgWalletService.settleInTx).
THEOREM SumSplits ==
  ASSUME NEW f, NEW S, IsFiniteSet(S), \A y \in S : f[y] \in Int, NEW x \in S
  PROVE  SumFunctionOnSet(f, S) = f[x] + SumFunctionOnSet(f, S \ {x})
<1>1. Sums(f, S)[S] = f[x] + Sums(f, S)[S \ {x}]
  BY SumsRemove
<1>2. Sums(f, S \ {x})[S \ {x}] = Sums(f, S)[S \ {x}]
  BY SumsAgree, FS_Subset
<1> QED
  BY <1>1, <1>2, SumIsSums

\* A sum of zeros is zero.
LEMMA SumOfZeros ==
  ASSUME NEW f, NEW S, IsFiniteSet(S), \A x \in S : f[x] = 0
  PROVE  SumFunctionOnSet(f, S) = 0
<1> DEFINE B == {T \in SUBSET S : SumFunctionOnSet(f, T) = 0}
<1>1. ASSUME NEW T \in SUBSET S, \A U \in SUBSET T : U # T => U \in B PROVE T \in B
  <2>1. CASE T = {}
    BY <2>1, SumOfNothing
  <2>2. ASSUME NEW x \in T PROVE T \in B
    <3>1. IsFiniteSet(T)
      BY FS_Subset
    <3>2. SumFunctionOnSet(f, T) = f[x] + SumFunctionOnSet(f, T \ {x})
      BY <3>1, SumSplits
    <3>3. T \ {x} \in B
      BY <1>1
    <3> QED
      BY <3>2, <3>3
  <2> QED
    BY <2>1, <2>2
<1> HIDE DEF B
<1>2. SUBSET S \subseteq B
  BY <1>1, SubsetInduction
<1> QED
  BY <1>2 DEF B

\* One element more adds its part.
LEMMA SumOneMore ==
  ASSUME NEW f, NEW g, NEW S, IsFiniteSet(S), NEW x, x \notin S,
         \A y \in S : g[y] = f[y] /\ f[y] \in Int, g[x] \in Int
  PROVE  SumFunctionOnSet(g, S \cup {x}) = SumFunctionOnSet(f, S) + g[x]
<1> DEFINE T == S \cup {x}
<1>1. IsFiniteSet(T) /\ x \in T /\ T \ {x} = S
  BY FS_AddElement
<1>2. \A y \in T : g[y] \in Int
  OBVIOUS
<1> HIDE DEF T
<1>3. SumFunctionOnSet(g, T) = g[x] + SumFunctionOnSet(g, T \ {x})
  BY <1>1, <1>2, SumSplits
<1>4. SumFunctionOnSet(g, S) = SumFunctionOnSet(f, S) /\ SumFunctionOnSet(f, S) \in Int
  BY SumAgrees, SumIsInteger
<1>5. SumFunctionOnSet(g, T) = g[x] + SumFunctionOnSet(g, S)
  BY <1>1, <1>3, Zenon
<1>6. SumFunctionOnSet(g, T) = SumFunctionOnSet(f, S) + g[x]
  BY <1>4, <1>5
<1> QED
  BY <1>6 DEF T
-----------------------------------------------------------------------------
\* More of what is never negative sums up to no less.
LEMMA SumMonotone ==
  ASSUME NEW f, NEW S, IsFiniteSet(S), \A x \in S : f[x] \in Nat
  PROVE  /\ SumFunctionOnSet(f, S) \in Nat
         /\ \A T \in SUBSET S : SumFunctionOnSet(f, T) \in Nat /\ SumFunctionOnSet(f, T) <= SumFunctionOnSet(f, S)
<1> DEFINE B == {U \in SUBSET S : /\ SumFunctionOnSet(f, U) \in Nat
                                  /\ \A T \in SUBSET U : SumFunctionOnSet(f, T) <= SumFunctionOnSet(f, U)}
<1>1. ASSUME NEW U \in SUBSET S, \A V \in SUBSET U : V # U => V \in B PROVE U \in B
  <2>1. IsFiniteSet(U) /\ \A x \in U : f[x] \in Int
    BY FS_Subset
  <2>2. \A x \in U : /\ SumFunctionOnSet(f, U) = f[x] + SumFunctionOnSet(f, U \ {x})
                     /\ U \ {x} \in B
    BY <1>1, <2>1, SumSplits
  <2>3. SumFunctionOnSet(f, U) \in Nat
    <3>1. CASE U = {}
      BY <3>1, SumOfNothing
    <3>2. CASE U # {}
      <4>1. PICK x \in U : TRUE
        BY <3>2
      <4>2. f[x] \in Nat /\ SumFunctionOnSet(f, U \ {x}) \in Nat
        BY <2>2, <4>1
      <4>3. SumFunctionOnSet(f, U) = f[x] + SumFunctionOnSet(f, U \ {x})
        BY <2>2, <4>1
      <4> QED
        BY <4>2, <4>3
    <3> QED
      BY <3>1, <3>2
  <2>4. ASSUME NEW T \in SUBSET U, T # U PROVE SumFunctionOnSet(f, T) <= SumFunctionOnSet(f, U)
    <3>1. PICK x \in U : x \notin T
      BY <2>4
    <3>2. T \in SUBSET (U \ {x})
      BY <3>1
    <3>3. SumFunctionOnSet(f, T) <= SumFunctionOnSet(f, U \ {x}) /\ SumFunctionOnSet(f, U \ {x}) \in Nat
      BY <2>2, <3>2
    <3>4. T \in B
      BY <1>1, <2>4
    <3>5. f[x] \in Nat /\ SumFunctionOnSet(f, T) \in Nat
      BY <3>1, <3>4
    <3>6. SumFunctionOnSet(f, U) = f[x] + SumFunctionOnSet(f, U \ {x})
      BY <2>2
    <3> QED
      BY <3>3, <3>5, <3>6
  <2> QED
    BY <2>3, <2>4
<1> HIDE DEF B
<1>2. SUBSET S \subseteq B
  BY <1>1, SubsetInduction
<1> QED
  BY <1>2 DEF B
=============================================================================
