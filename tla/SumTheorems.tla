---------------------------- MODULE SumTheorems ----------------------------
(***************************************************************************)
(* Sums of functions over finite sets, as SumFunctionOnSet computes them: *)
(* the fold is a recursive function over the subsets, taken apart in the   *)
(* order in which CHOOSE picks the elements.  That this order does not     *)
(* matter, and what follows from it, is proved by looking at a smallest    *)
(* subset for which it would.                                              *)
(***************************************************************************)
EXTENDS Integers, FiniteSets, FiniteSetsExt, FiniteSetTheorems, WellFoundedInduction, TLAPS

Pick(s) == CHOOSE x \in s : TRUE
Rest(s) == s \ {Pick(s)}

\* g is the fold's recursive function for the subsets of S.
IsIter(f, S, g) ==
  g = [s \in SUBSET S |-> IF s = {} THEN 0 ELSE f[Pick(s)] + g[Rest(s)]]

\* The element picked is one of the set's.
LEMMA PickIsElement == \A s : s # {} => Pick(s) \in s
BY DEF Pick

\* Sums are computed by the recursive function.
LEMMA SumIsIter ==
  ASSUME NEW f, NEW S
  PROVE  SumFunctionOnSet(f, S) = (CHOOSE g : IsIter(f, S, g))[S]
BY DEF SumFunctionOnSet, FoldFunctionOnSet, MapThenFoldSet, IsIter, Pick, Rest

\* Among the subsets of a finite set that have a property one is smallest.
LEMMA SmallestSubset ==
  ASSUME NEW S, IsFiniteSet(S), NEW Bad \in SUBSET SUBSET S, Bad # {}
  PROVE  \E T \in Bad : \A U \in SUBSET T : U # T => U \notin Bad
<1>1. IsWellFoundedOn(StrictSubsetOrdering(S), SUBSET S)
  BY FS_StrictSubsetOrderingWellFounded, FS_FiniteSubsetsOfFinite
<1>2. PICK T \in Bad : \A U \in Bad : <<U, T>> \notin StrictSubsetOrdering(S)
  BY <1>1, WFMin
<1>3. ASSUME NEW U \in SUBSET T, U # T PROVE U \notin Bad
  BY <1>2, <1>3 DEF StrictSubsetOrdering
<1> QED
  BY <1>3

\* Two such functions agree wherever both are defined.
LEMMA IterUnique ==
  ASSUME NEW f, NEW U, NEW W, IsFiniteSet(W), W \subseteq U,
         NEW g, NEW h, IsIter(f, U, g), IsIter(f, W, h)
  PROVE  \A s \in SUBSET W : g[s] = h[s]
<1> DEFINE Bad == {s \in SUBSET W : g[s] # h[s]}
<1>1. \A s \in SUBSET U : g[s] = IF s = {} THEN 0 ELSE f[Pick(s)] + g[Rest(s)]
  <2>1. g = [s \in SUBSET U |-> IF s = {} THEN 0 ELSE f[Pick(s)] + g[Rest(s)]]
    BY DEF IsIter
  <2> QED
    BY <2>1
<1>2. \A s \in SUBSET W : h[s] = IF s = {} THEN 0 ELSE f[Pick(s)] + h[Rest(s)]
  <2>1. h = [s \in SUBSET W |-> IF s = {} THEN 0 ELSE f[Pick(s)] + h[Rest(s)]]
    BY DEF IsIter
  <2> QED
    BY <2>1
<1>3. ASSUME Bad # {} PROVE FALSE
  <2>0. Bad \in SUBSET SUBSET W
    OBVIOUS
  <2>1. PICK T \in Bad : \A s \in SUBSET T : s # T => s \notin Bad
    <3> HIDE DEF Bad
    <3> QED
      BY <1>3, <2>0, SmallestSubset
  <2>2. T # {}
    BY <1>1, <1>2
  <2>3. Rest(T) \in SUBSET T /\ Rest(T) # T /\ Rest(T) \in SUBSET W
    BY <2>2, PickIsElement DEF Rest
  <2>4. g[Rest(T)] = h[Rest(T)]
    BY <2>1, <2>3
  <2>5. g[T] = f[Pick(T)] + g[Rest(T)] /\ h[T] = f[Pick(T)] + h[Rest(T)]
    BY <1>1, <1>2, <2>2
  <2> QED
    BY <2>1, <2>4, <2>5
<1> QED
  BY <1>3

\* The recursive function exists.
LEMMA IterExists ==
  ASSUME NEW f, NEW S, IsFiniteSet(S)
  PROVE  \E g : IsIter(f, S, g)
<1> DEFINE Bad == {T \in SUBSET S : ~\E g : IsIter(f, T, g)}
<1>1. ASSUME Bad # {} PROVE FALSE
  <2>0. Bad \in SUBSET SUBSET S
    OBVIOUS
  <2>1. PICK T \in Bad : \A U \in SUBSET T : U # T => U \notin Bad
    <3> HIDE DEF Bad
    <3> QED
      BY <1>1, <2>0, SmallestSubset
  <2> DEFINE It(U) == CHOOSE g : IsIter(f, U, g)
             V(U) == IF U = {} THEN 0 ELSE f[Pick(U)] + It(Rest(U))[Rest(U)]
             h == [s \in SUBSET T |-> V(s)]
  <2>2. ASSUME NEW U \in SUBSET T, U # T PROVE IsIter(f, U, It(U))
    <3>1. \E g : IsIter(f, U, g)
      BY <2>1, <2>2
    <3> QED
      BY <3>1, Zenon
  <2>3. ASSUME NEW U \in SUBSET T, U # T PROVE It(U)[U] = V(U)
    <3>1. IsIter(f, U, It(U))
      BY <2>2, <2>3
    <3> HIDE DEF It
    <3>2. It(U)[U] = IF U = {} THEN 0 ELSE f[Pick(U)] + It(U)[Rest(U)]
      <4>1. It(U) = [s \in SUBSET U |-> IF s = {} THEN 0 ELSE f[Pick(s)] + It(U)[Rest(s)]]
        BY <3>1 DEF IsIter
      <4> QED
        BY <4>1
    <3>3. ASSUME U # {} PROVE It(U)[Rest(U)] = It(Rest(U))[Rest(U)]
      <4>1. Rest(U) \in SUBSET U /\ Rest(U) \in SUBSET T /\ Rest(U) # T
        BY <3>3, PickIsElement DEF Rest
      <4>2. IsFiniteSet(Rest(U))
        BY <4>1, FS_Subset
      <4>3. IsIter(f, Rest(U), It(Rest(U)))
        BY <2>2, <4>1
      <4> QED
        BY <3>1, <4>1, <4>2, <4>3, IterUnique
    <3> QED
      BY <3>2, <3>3
  <2> HIDE DEF It
  <2>4. ASSUME NEW s \in SUBSET T
        PROVE  V(s) = IF s = {} THEN 0 ELSE f[Pick(s)] + h[Rest(s)]
    <3>1. CASE s # {}
      <4>1. Rest(s) \in SUBSET T /\ Rest(s) # T
        BY <3>1, PickIsElement DEF Rest
      <4>2. h[Rest(s)] = It(Rest(s))[Rest(s)]
        BY <2>3, <4>1
      <4> QED
        BY <3>1, <4>2
    <3> QED
      BY <3>1
  <2>5. IsIter(f, T, h)
    <3>1. h = [s \in SUBSET T |-> IF s = {} THEN 0 ELSE f[Pick(s)] + h[Rest(s)]]
      BY <2>4
    <3> QED
      BY <3>1 DEF IsIter
  <2> QED
    BY <2>1, <2>5
<1> QED
  BY <1>1

\* The sum of nothing, and the sum with one element taken off.
LEMMA SumUnfold ==
  ASSUME NEW f, NEW S, IsFiniteSet(S)
  PROVE  SumFunctionOnSet(f, S) = IF S = {} THEN 0 ELSE f[Pick(S)] + SumFunctionOnSet(f, Rest(S))
<1> DEFINE It(U) == CHOOSE g : IsIter(f, U, g)
<1>1. Rest(S) \in SUBSET S /\ IsFiniteSet(Rest(S))
  BY FS_Subset DEF Rest
<1>2. IsIter(f, S, It(S)) /\ IsIter(f, Rest(S), It(Rest(S)))
  BY <1>1, IterExists
<1>3. SumFunctionOnSet(f, S) = It(S)[S] /\ SumFunctionOnSet(f, Rest(S)) = It(Rest(S))[Rest(S)]
  BY SumIsIter
<1> HIDE DEF It
<1>4. It(S)[S] = IF S = {} THEN 0 ELSE f[Pick(S)] + It(S)[Rest(S)]
  <2>1. It(S) = [s \in SUBSET S |-> IF s = {} THEN 0 ELSE f[Pick(s)] + It(S)[Rest(s)]]
    BY <1>2 DEF IsIter
  <2> QED
    BY <2>1
<1>5. It(S)[Rest(S)] = It(Rest(S))[Rest(S)]
  BY <1>1, <1>2, IterUnique
<1> QED
  BY <1>3, <1>4, <1>5

\* Induction over the subsets of a finite set, with a set for the property.
LEMMA SubsetInduction ==
  ASSUME NEW S, IsFiniteSet(S), NEW Good,
         \A T \in SUBSET S : (\A U \in SUBSET T : U # T => U \in Good) => T \in Good
  PROVE  S \in Good
<1> DEFINE Bad == {T \in SUBSET S : T \notin Good}
<1>1. ASSUME Bad # {} PROVE FALSE
  <2>1. Bad \in SUBSET SUBSET S
    OBVIOUS
  <2>2. PICK T \in Bad : \A U \in SUBSET T : U # T => U \notin Bad
    <3> HIDE DEF Bad
    <3> QED
      BY <1>1, <2>1, SmallestSubset
  <2> QED
    BY <2>2
<1> QED
  BY <1>1

\* What is left of a set without one of its elements.
LEMMA RestIsSmaller ==
  ASSUME NEW S, IsFiniteSet(S), NEW T \in SUBSET S, T # {}
  PROVE  /\ Pick(T) \in T /\ Pick(T) \in S /\ Rest(T) \in SUBSET T /\ Rest(T) # T
         /\ Rest(T) \in SUBSET S /\ IsFiniteSet(T)
         /\ \A f : SumFunctionOnSet(f, T) = f[Pick(T)] + SumFunctionOnSet(f, Rest(T))
<1>1. Pick(T) \in T /\ IsFiniteSet(T)
  BY PickIsElement, FS_Subset
<1> QED
  BY <1>1, SumUnfold DEF Rest

\* The sum over no elements.
LEMMA SumEmpty == \A f : SumFunctionOnSet(f, {}) = 0
BY SumUnfold, FS_EmptySet

\* Sums of integers are integers, those of natural numbers natural numbers.
LEMMA SumTypes ==
  ASSUME NEW S, IsFiniteSet(S), NEW f
  PROVE  /\ (\A x \in S : f[x] \in Int) => SumFunctionOnSet(f, S) \in Int
         /\ (\A x \in S : f[x] \in Nat) => SumFunctionOnSet(f, S) \in Nat
<1> DEFINE Good == {T \in SUBSET S :
      /\ (\A x \in S : f[x] \in Int) => SumFunctionOnSet(f, T) \in Int
      /\ (\A x \in S : f[x] \in Nat) => SumFunctionOnSet(f, T) \in Nat}
<1>1. ASSUME NEW T \in SUBSET S, \A U \in SUBSET T : U # T => U \in Good PROVE T \in Good
  <2>1. CASE T = {}
    BY <2>1, SumEmpty
  <2>2. CASE T # {}
    <3>1. /\ Pick(T) \in S /\ Rest(T) \in Good
          /\ SumFunctionOnSet(f, T) = f[Pick(T)] + SumFunctionOnSet(f, Rest(T))
      BY <1>1, <2>2, RestIsSmaller
    <3> QED
      BY <3>1
  <2> QED
    BY <2>1, <2>2
<1>2. S \in Good
  <2> HIDE DEF Good
  <2> QED
    BY <1>1, SubsetInduction
<1> QED
  BY <1>2

\* Any element can be taken off.
LEMMA SumRemove ==
  ASSUME NEW S, IsFiniteSet(S), NEW f, \A x \in S : f[x] \in Int
  PROVE  \A x \in S : SumFunctionOnSet(f, S) = f[x] + SumFunctionOnSet(f, S \ {x})
<1> DEFINE Good == {T \in SUBSET S :
      \A x \in T : SumFunctionOnSet(f, T) = f[x] + SumFunctionOnSet(f, T \ {x})}
<1>1. ASSUME NEW T \in SUBSET S, \A U \in SUBSET T : U # T => U \in Good PROVE T \in Good
  <2>1. ASSUME NEW x \in T PROVE SumFunctionOnSet(f, T) = f[x] + SumFunctionOnSet(f, T \ {x})
    <3> DEFINE p == Pick(T)
    <3>1. /\ p \in T /\ Rest(T) = T \ {p}
          /\ SumFunctionOnSet(f, T) = f[p] + SumFunctionOnSet(f, T \ {p})
      BY <2>1, RestIsSmaller DEF Rest
    <3> HIDE DEF p
    <3>2. CASE x = p
      BY <3>1, <3>2
    <3>3. CASE x # p
      <4>1. /\ T \ {p} \in Good /\ T \ {x} \in Good /\ x \in T \ {p} /\ p \in T \ {x}
            /\ (T \ {p}) \ {x} = (T \ {x}) \ {p}
        BY <1>1, <2>1, <3>1, <3>3
      <4> DEFINE U == (T \ {x}) \ {p}
      <4>2. /\ SumFunctionOnSet(f, T \ {p}) = f[x] + SumFunctionOnSet(f, U)
            /\ SumFunctionOnSet(f, T \ {x}) = f[p] + SumFunctionOnSet(f, U)
        BY <4>1
      <4>3. SumFunctionOnSet(f, U) \in Int /\ f[x] \in Int /\ f[p] \in Int
        <5>1. U \in SUBSET S /\ IsFiniteSet(U)
          BY FS_Subset
        <5> HIDE DEF U
        <5> QED
          BY <2>1, <3>1, <5>1, SumTypes
      <4> HIDE DEF U
      <4> QED
        BY <3>1, <4>2, <4>3
    <3> QED
      BY <3>2, <3>3
  <2> QED
    BY <2>1
<1>2. S \in Good
  <2> HIDE DEF Good
  <2> QED
    BY <1>1, SubsetInduction
<1> QED
  BY <1>2

\* Equal terms, equal sums.
LEMMA SumEqual ==
  ASSUME NEW S, IsFiniteSet(S), NEW f, NEW g, \A x \in S : f[x] = g[x]
  PROVE  SumFunctionOnSet(f, S) = SumFunctionOnSet(g, S)
<1> DEFINE Good == {T \in SUBSET S : SumFunctionOnSet(f, T) = SumFunctionOnSet(g, T)}
<1>1. ASSUME NEW T \in SUBSET S, \A U \in SUBSET T : U # T => U \in Good PROVE T \in Good
  <2>1. CASE T = {}
    BY <2>1, SumEmpty
  <2>2. CASE T # {}
    BY <1>1, <2>2, RestIsSmaller
  <2> QED
    BY <2>1, <2>2
<1>2. S \in Good
  <2> HIDE DEF Good
  <2> QED
    BY <1>1, SubsetInduction
<1> QED
  BY <1>2

\* Greater terms, a greater sum.
LEMMA SumMonotone ==
  ASSUME NEW S, IsFiniteSet(S), NEW f, NEW g, \A x \in S : f[x] \in Int /\ g[x] \in Int /\ f[x] <= g[x]
  PROVE  SumFunctionOnSet(f, S) <= SumFunctionOnSet(g, S)
<1> DEFINE Good == {T \in SUBSET S : SumFunctionOnSet(f, T) <= SumFunctionOnSet(g, T)}
<1>1. ASSUME NEW T \in SUBSET S, \A U \in SUBSET T : U # T => U \in Good PROVE T \in Good
  <2>1. CASE T = {}
    BY <2>1, SumEmpty
  <2>2. CASE T # {}
    <3>1. /\ Pick(T) \in S /\ Rest(T) \in Good /\ Rest(T) \in SUBSET S
          /\ SumFunctionOnSet(f, T) = f[Pick(T)] + SumFunctionOnSet(f, Rest(T))
          /\ SumFunctionOnSet(g, T) = g[Pick(T)] + SumFunctionOnSet(g, Rest(T))
      BY <1>1, <2>2, RestIsSmaller
    <3>2. SumFunctionOnSet(f, Rest(T)) \in Int /\ SumFunctionOnSet(g, Rest(T)) \in Int
      BY <3>1, FS_Subset, SumTypes
    <3> QED
      BY <3>1, <3>2
  <2> QED
    BY <2>1, <2>2
<1>2. S \in Good
  <2> HIDE DEF Good
  <2> QED
    BY <1>1, SubsetInduction
<1> QED
  BY <1>2

\* The sum of sums.
LEMMA SumAdd ==
  ASSUME NEW S, IsFiniteSet(S), NEW f, NEW g, NEW h,
         \A x \in S : f[x] \in Int /\ g[x] \in Int /\ h[x] = f[x] + g[x]
  PROVE  SumFunctionOnSet(h, S) = SumFunctionOnSet(f, S) + SumFunctionOnSet(g, S)
<1> DEFINE Good == {T \in SUBSET S :
      SumFunctionOnSet(h, T) = SumFunctionOnSet(f, T) + SumFunctionOnSet(g, T)}
<1>1. ASSUME NEW T \in SUBSET S, \A U \in SUBSET T : U # T => U \in Good PROVE T \in Good
  <2>1. CASE T = {}
    BY <2>1, SumEmpty
  <2>2. CASE T # {}
    <3>1. /\ Pick(T) \in S /\ Rest(T) \in Good /\ Rest(T) \in SUBSET S
          /\ SumFunctionOnSet(f, T) = f[Pick(T)] + SumFunctionOnSet(f, Rest(T))
          /\ SumFunctionOnSet(g, T) = g[Pick(T)] + SumFunctionOnSet(g, Rest(T))
          /\ SumFunctionOnSet(h, T) = h[Pick(T)] + SumFunctionOnSet(h, Rest(T))
      BY <1>1, <2>2, RestIsSmaller
    <3>2. SumFunctionOnSet(f, Rest(T)) \in Int /\ SumFunctionOnSet(g, Rest(T)) \in Int
      BY <3>1, FS_Subset, SumTypes
    <3> QED
      BY <3>1, <3>2
  <2> QED
    BY <2>1, <2>2
<1>2. S \in Good
  <2> HIDE DEF Good
  <2> QED
    BY <1>1, SubsetInduction
<1> QED
  BY <1>2

\* A common factor.
LEMMA SumScale ==
  ASSUME NEW S, IsFiniteSet(S), NEW k \in Int, NEW f, NEW h,
         \A x \in S : f[x] \in Int /\ h[x] = k * f[x]
  PROVE  SumFunctionOnSet(h, S) = k * SumFunctionOnSet(f, S)
<1> DEFINE Good == {T \in SUBSET S : SumFunctionOnSet(h, T) = k * SumFunctionOnSet(f, T)}
<1>1. ASSUME NEW T \in SUBSET S, \A U \in SUBSET T : U # T => U \in Good PROVE T \in Good
  <2>1. CASE T = {}
    BY <2>1, SumEmpty
  <2>2. CASE T # {}
    <3>1. /\ Pick(T) \in S /\ Rest(T) \in Good /\ Rest(T) \in SUBSET S
          /\ SumFunctionOnSet(f, T) = f[Pick(T)] + SumFunctionOnSet(f, Rest(T))
          /\ SumFunctionOnSet(h, T) = h[Pick(T)] + SumFunctionOnSet(h, Rest(T))
      BY <1>1, <2>2, RestIsSmaller
    <3>2. SumFunctionOnSet(f, Rest(T)) \in Int
      BY <3>1, FS_Subset, SumTypes
    <3> QED
      BY <3>1, <3>2
  <2> QED
    BY <2>1, <2>2
<1>2. S \in Good
  <2> HIDE DEF Good
  <2> QED
    BY <1>1, SubsetInduction
<1> QED
  BY <1>2

\* One term is changed.
LEMMA SumUpdate ==
  ASSUME NEW S, IsFiniteSet(S), NEW x \in S, NEW f, NEW g,
         \A y \in S : f[y] \in Int /\ g[y] \in Int, \A y \in S : y # x => g[y] = f[y]
  PROVE  SumFunctionOnSet(g, S) = SumFunctionOnSet(f, S) - f[x] + g[x]
<1>1. IsFiniteSet(S \ {x})
  BY FS_Subset
<1>2. SumFunctionOnSet(f, S \ {x}) = SumFunctionOnSet(g, S \ {x})
  BY <1>1, SumEqual
<1>3. SumFunctionOnSet(f, S \ {x}) \in Int
  BY <1>1, SumTypes
<1>4. SumFunctionOnSet(f, S) = f[x] + SumFunctionOnSet(f, S \ {x})
  BY SumRemove
<1>5. SumFunctionOnSet(g, S) = g[x] + SumFunctionOnSet(g, S \ {x})
  BY SumRemove
<1> QED
  BY <1>2, <1>3, <1>4, <1>5

\* One element more.
LEMMA SumInsert ==
  ASSUME NEW S, IsFiniteSet(S), NEW x, x \notin S, NEW f, \A y \in S \cup {x} : f[y] \in Int
  PROVE  SumFunctionOnSet(f, S \cup {x}) = SumFunctionOnSet(f, S) + f[x]
<1>1. IsFiniteSet(S \cup {x}) /\ x \in S \cup {x} /\ (S \cup {x}) \ {x} = S
  BY FS_AddElement
<1>2. SumFunctionOnSet(f, S) \in Int
  BY SumTypes
<1> QED
  BY <1>1, <1>2, SumRemove

\* Terms that are zero add nothing.
LEMMA SumWithin ==
  ASSUME NEW S, IsFiniteSet(S), NEW R \in SUBSET S, NEW f, NEW g,
         \A x \in S : f[x] \in Int /\ g[x] = IF x \in R THEN f[x] ELSE 0
  PROVE  SumFunctionOnSet(g, S) = SumFunctionOnSet(f, R)
<1> DEFINE Good == {T \in SUBSET S : SumFunctionOnSet(g, T) = SumFunctionOnSet(f, T \cap R)}
<1>1. ASSUME NEW T \in SUBSET S, \A U \in SUBSET T : U # T => U \in Good PROVE T \in Good
  <2>1. CASE T = {}
    <3>1. T \cap R = {}
      BY <2>1
    <3> QED
      BY <2>1, <3>1, SumEmpty
  <2>2. CASE T # {}
    <3>1. PICK p : p = Pick(T)
      OBVIOUS
    <3>2. /\ p \in T /\ p \in S /\ Rest(T) = T \ {p} /\ Rest(T) \in Good /\ Rest(T) \in SUBSET S
          /\ SumFunctionOnSet(g, T) = g[p] + SumFunctionOnSet(g, Rest(T))
      BY <1>1, <2>2, <3>1, RestIsSmaller DEF Rest
    <3>3. IsFiniteSet(T \cap R) /\ IsFiniteSet(Rest(T) \cap R)
      BY <3>2, FS_Subset
    <3>4. SumFunctionOnSet(f, Rest(T) \cap R) \in Int
      BY <3>2, <3>3, SumTypes
    <3>5. CASE p \in R
      <4>1. p \in T \cap R /\ (T \cap R) \ {p} = Rest(T) \cap R
        BY <3>2, <3>5
      <4>2. SumFunctionOnSet(f, T \cap R) = f[p] + SumFunctionOnSet(f, Rest(T) \cap R)
        BY <3>3, <4>1, SumRemove
      <4> QED
        BY <3>2, <3>5, <4>2
    <3>6. CASE p \notin R
      <4>1. T \cap R = Rest(T) \cap R
        BY <3>2, <3>6
      <4>2. SumFunctionOnSet(g, T) = SumFunctionOnSet(g, Rest(T))
        <5>1. g[p] = 0 /\ SumFunctionOnSet(g, Rest(T)) = SumFunctionOnSet(f, Rest(T) \cap R)
          BY <3>2, <3>6
        <5> QED
          BY <3>2, <3>4, <5>1
      <4> QED
        BY <3>2, <3>4, <3>6, <4>1, <4>2
    <3> QED
      BY <3>5, <3>6
  <2> QED
    BY <2>1, <2>2
<1>2. S \in Good
  <2> HIDE DEF Good
  <2> QED
    BY <1>1, SubsetInduction
<1>3. S \cap R = R
  OBVIOUS
<1> QED
  BY <1>2, <1>3

\* A set is summed up in two parts.
LEMMA SumSplit ==
  ASSUME NEW S, IsFiniteSet(S), NEW A \in SUBSET S, NEW f, \A x \in S : f[x] \in Int
  PROVE  SumFunctionOnSet(f, S) = SumFunctionOnSet(f, A) + SumFunctionOnSet(f, S \ A)
<1> DEFINE g == [x \in S |-> IF x \in A THEN f[x] ELSE 0]
           h == [x \in S |-> IF x \in S \ A THEN f[x] ELSE 0]
<1>1. \A x \in S : f[x] \in Int /\ g[x] = IF x \in A THEN f[x] ELSE 0
  OBVIOUS
<1>2. \A x \in S : f[x] \in Int /\ h[x] = IF x \in S \ A THEN f[x] ELSE 0
  OBVIOUS
<1>3. \A x \in S : g[x] \in Int /\ h[x] \in Int /\ f[x] = g[x] + h[x]
  OBVIOUS
<1>4. S \ A \in SUBSET S
  OBVIOUS
<1> HIDE DEF g, h
<1>5. SumFunctionOnSet(g, S) = SumFunctionOnSet(f, A)
  BY <1>1, SumWithin
<1>6. SumFunctionOnSet(h, S) = SumFunctionOnSet(f, S \ A)
  BY ONLY IsFiniteSet(S), <1>2, <1>4, SumWithin, Zenon
<1>7. SumFunctionOnSet(f, S) = SumFunctionOnSet(g, S) + SumFunctionOnSet(h, S)
  BY ONLY IsFiniteSet(S), <1>3, SumAdd, Zenon
<1> QED
  BY <1>5, <1>6, <1>7

\* The same term for every element.
LEMMA SumConstant ==
  ASSUME NEW S, IsFiniteSet(S), NEW c \in Int, NEW f, \A x \in S : f[x] = c
  PROVE  SumFunctionOnSet(f, S) = c * Cardinality(S)
<1> DEFINE Good == {T \in SUBSET S : SumFunctionOnSet(f, T) = c * Cardinality(T)}
<1>1. ASSUME NEW T \in SUBSET S, \A U \in SUBSET T : U # T => U \in Good PROVE T \in Good
  <2>1. CASE T = {}
    BY <2>1, SumEmpty, FS_EmptySet
  <2>2. CASE T # {}
    <3>1. /\ Pick(T) \in T /\ Pick(T) \in S /\ Rest(T) \in Good /\ IsFiniteSet(T)
          /\ SumFunctionOnSet(f, T) = f[Pick(T)] + SumFunctionOnSet(f, Rest(T))
      BY <1>1, <2>2, RestIsSmaller
    <3>2. Cardinality(Rest(T)) = Cardinality(T) - 1
      BY <3>1, FS_RemoveElement DEF Rest
    <3>3. PICK n \in Nat : n = Cardinality(T)
      BY <3>1, FS_CardinalityType
    <3>4. SumFunctionOnSet(f, T) = c + (c * (n - 1))
      BY <3>1, <3>2, <3>3
    <3>5. c + (c * (n - 1)) = c * n
      OBVIOUS
    <3> QED
      BY <3>3, <3>4, <3>5
  <2> QED
    BY <2>1, <2>2
<1>2. S \in Good
  <2> HIDE DEF Good
  <2> QED
    BY <1>1, SubsetInduction
<1> QED
  BY <1>2

\* No term exceeds the sum of natural numbers.
LEMMA SumTerm ==
  ASSUME NEW S, IsFiniteSet(S), NEW f, \A x \in S : f[x] \in Nat
  PROVE  \A x \in S : f[x] <= SumFunctionOnSet(f, S)
<1> SUFFICES ASSUME NEW x \in S PROVE f[x] <= SumFunctionOnSet(f, S)
  OBVIOUS
<1>1. SumFunctionOnSet(f, S) = f[x] + SumFunctionOnSet(f, S \ {x})
  BY SumRemove
<1>2. IsFiniteSet(S \ {x}) /\ \A y \in S \ {x} : f[y] \in Nat
  BY FS_RemoveElement
<1>3. SumFunctionOnSet(f, S \ {x}) \in Nat
  BY <1>2, SumTypes
<1> QED
  BY <1>1, <1>3

\* The greatest of finitely many integers.
LEMMA MaxIs ==
  ASSUME NEW S, IsFiniteSet(S), S # {}, S \subseteq Int
  PROVE  Max(S) \in S /\ \A x \in S : x <= Max(S)
<1> DEFINE Good == {T \in SUBSET S : T # {} => \E m \in T : \A x \in T : m >= x}
<1>1. ASSUME NEW T \in SUBSET S, \A U \in SUBSET T : U # T => U \in Good PROVE T \in Good
  <2>1. CASE T = {}
    BY <2>1
  <2>2. CASE T # {}
    <3>1. PICK p \in T : Rest(T) = T \ {p} /\ Rest(T) \in Good
      BY <1>1, <2>2, RestIsSmaller DEF Rest
    <3>2. CASE T = {p}
      BY <3>1, <3>2
    <3>3. CASE T # {p}
      <4>1. PICK m \in T \ {p} : \A x \in T \ {p} : m >= x
        BY <3>1, <3>3
      <4>2. m \in Int /\ p \in Int /\ \A x \in T : x \in Int
        OBVIOUS
      <4>3. CASE m >= p
        BY <4>1, <4>3
      <4>4. CASE ~(m >= p)
        BY <4>1, <4>2, <4>4
      <4> QED
        BY <4>3, <4>4
    <3> QED
      BY <3>2, <3>3
  <2> QED
    BY <2>1, <2>2
<1>2. S \in Good
  <2> HIDE DEF Good
  <2> QED
    BY <1>1, SubsetInduction
<1>3. \E m \in S : \A x \in S : m >= x
  BY <1>2
<1>4. Max(S) \in S /\ \A x \in S : Max(S) >= x
  BY <1>3 DEF Max
<1> QED
  BY <1>4

\* The least of any natural numbers.
LEMMA MinIs ==
  ASSUME NEW S, S # {}, S \subseteq Nat
  PROVE  Min(S) \in S /\ \A x \in S : Min(S) <= x
<1> DEFINE Below == OpToRel(<, Nat)
<1>1. PICK i \in S : \A j \in S : <<j, i>> \notin Below
  BY NatLessThanWellFounded, WFMin, Zenon
<1>2. Below = {ss \in Nat \X Nat : ss[1] < ss[2]}
  BY Zenon DEF OpToRel
<1> HIDE DEF Below
<1>3. ASSUME NEW j \in S PROVE i <= j
  <2>1. j \in Nat /\ i \in Nat /\ <<j, i>> \notin {ss \in Nat \X Nat : ss[1] < ss[2]}
    BY <1>1, <1>2
  <2> QED
    BY <2>1
<1> QED
  BY <1>3 DEF Min
=============================================================================
