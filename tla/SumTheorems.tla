------------------------------ MODULE SumTheorems ------------------------------
(***************************************************************************)
(* Facts about sums over finite sets (SumFunctionOnSet of the community    *)
(* modules), which total readings, hours and costs.                        *)
(*                                                                         *)
(* The sum is a fold, that is a recursive function on the subsets of the   *)
(* set, chosen by its equation.  That there is such a function, and what   *)
(* it returns, is shown by the least counterexample: among the subsets of  *)
(* a finite set for which a statement fails, one contains no other         *)
(* (MinimalSubset).  The same for numbers is LeastNatural.                 *)
(***************************************************************************)
EXTENDS Integers, FiniteSets, Functions, FiniteSetTheorems, WellFoundedInduction, TLAPS

\* A set of natural numbers that is not empty has a least.
LEMMA LeastNatural ==
    ASSUME NEW T \in SUBSET Nat, T # {}
    PROVE  \E n \in T : \A m \in T : n <= m
<1> DEFINE R == {mn \in Nat \X Nat : mn[1] < mn[2]}
<1>1. IsWellFoundedOn(R, Nat)
  BY NatLessThanWellFounded DEF OpToRel
<1>2. \E n \in T : \A m \in T : <<m, n>> \notin R
  <2> HIDE DEF R
  <2> QED
    BY <1>1, WFMin, Zenon
<1>3. \A m, n \in Nat : m < n => <<m, n>> \in R
  OBVIOUS
<1> HIDE DEF R
<1>4. PICK n \in T : \A m \in T : <<m, n>> \notin R
  BY <1>2
<1>5. \A m \in T : ~ (m < n)
  BY <1>3, <1>4
<1> QED
  BY <1>5

\* A family of subsets of a finite set that is not empty has one that contains
\* no other.
LEMMA MinimalSubset ==
    ASSUME NEW S, IsFiniteSet(S), NEW T \in SUBSET SUBSET S, T # {}
    PROVE  \E s \in T : \A t \in T : t \subseteq s => t = s
<1>1. IsWellFoundedOn(StrictSubsetOrdering(S), SUBSET S)
  BY FS_StrictSubsetOrderingWellFounded, FS_FiniteSubsetsOfFinite
<1>2. \E s \in T : \A t \in T : ~ (<<t, s>> \in StrictSubsetOrdering(S))
  BY <1>1, WFMin, Zenon
<1> QED
  BY <1>2 DEF StrictSubsetOrdering

--------------------------------------------------------------------------------
(* The recursion of SumFunctionOnSet.                                         *)

Pick(s) == CHOOSE x \in s : TRUE
Rest(s) == s \ {Pick(s)}

\* The element that the sum takes next is one of the set.
LEMMA PickIsIn == \A s : s # {} => Pick(s) \in s
BY DEF Pick

IsSumOn(g, f, S) ==
    g = [s \in SUBSET S |-> IF s = {} THEN 0 ELSE f[Pick(s)] + g[Rest(s)]]

\* Two such functions agree where both are defined.
LEMMA SumIsUnique ==
    ASSUME NEW f, NEW S, NEW T, IsFiniteSet(S), NEW g, IsSumOn(g, f, S),
           NEW h, IsSumOn(h, f, T)
    PROVE  \A s : s \subseteq S /\ s \subseteq T => g[s] = h[s]
<1> DEFINE Bad == {s \in SUBSET S : s \subseteq T /\ g[s] # h[s]}
<1>1. SUFFICES ASSUME Bad # {} PROVE FALSE
  OBVIOUS
<1>2. PICK s \in Bad : \A t \in Bad : t \subseteq s => t = s
  <2>1. Bad \in SUBSET SUBSET S
    OBVIOUS
  <2> HIDE DEF Bad
  <2> QED
    BY <1>1, <2>1, MinimalSubset
<1>3. s # {}
  BY <1>2 DEF IsSumOn
<1>4. Pick(s) \in s /\ Rest(s) \subseteq s /\ Rest(s) # s
  BY <1>3, PickIsIn DEF Rest
<1>5. g[Rest(s)] = h[Rest(s)]
  BY <1>2, <1>4
<1>6. g[s] = f[Pick(s)] + g[Rest(s)] /\ h[s] = f[Pick(s)] + h[Rest(s)]
  BY <1>2, <1>3 DEF IsSumOn
<1> QED
  BY <1>2, <1>5, <1>6

\* There is one for every finite set: below a set that has none, the proper
\* subsets have one each, and these make one for the set itself.
LEMMA SumExists ==
    ASSUME NEW f, NEW S, IsFiniteSet(S)
    PROVE  \E g : IsSumOn(g, f, S)
<1> DEFINE Bad == {s \in SUBSET S : ~ \E g : IsSumOn(g, f, s)}
<1>1. SUFFICES ASSUME Bad # {} PROVE FALSE
  OBVIOUS
<1>2. PICK T \in Bad : \A t \in Bad : t \subseteq T => t = T
  <2>1. Bad \in SUBSET SUBSET S
    OBVIOUS
  <2> HIDE DEF Bad
  <2> QED
    BY <1>1, <2>1, MinimalSubset
<1> DEFINE On(s) == CHOOSE g : IsSumOn(g, f, s)
<1>3. ASSUME NEW s, s \subseteq T, s # T PROVE IsSumOn(On(s), f, s)
  BY <1>2, <1>3
<1> DEFINE G == [s \in SUBSET T |-> IF s = {} THEN 0 ELSE f[Pick(s)] + On(Rest(s))[Rest(s)]]
<1>4. ASSUME NEW s \in SUBSET T, s # {}
      PROVE  G[Rest(s)] = On(Rest(s))[Rest(s)]
  <2> DEFINE r == Rest(s)
  <2>1. Pick(s) \in s /\ r \in SUBSET T /\ r # T
    BY <1>4, PickIsIn DEF Rest
  <2>2. IsSumOn(On(r), f, r)
    BY <1>3, <2>1
  <2>3. CASE r = {}
    BY <2>1, <2>2, <2>3 DEF IsSumOn
  <2>4. CASE r # {}
    <3>1. Pick(r) \in r /\ Rest(r) \subseteq r /\ Rest(r) # T
      BY <2>1, <2>4, PickIsIn DEF Rest
    <3>2. IsSumOn(On(Rest(r)), f, Rest(r))
      BY <1>3, <2>1, <3>1
    <3>3. IsFiniteSet(r)
      BY <2>1, FS_Subset
    <3>4. On(r)[Rest(r)] = On(Rest(r))[Rest(r)]
      BY <2>2, <3>1, <3>2, <3>3, SumIsUnique
    <3>5. On(r)[r] = f[Pick(r)] + On(r)[Rest(r)]
      <4> HIDE DEF On, r
      <4> QED
        BY <2>2, <2>4 DEF IsSumOn
    <3>6. G[r] = f[Pick(r)] + On(Rest(r))[Rest(r)]
      <4> HIDE DEF On, r
      <4> QED
        BY <2>1, <2>4
    <3> QED
      BY <3>4, <3>5, <3>6
  <2> QED
    BY <2>3, <2>4
<1>5. G = [s \in SUBSET T |-> IF s = {} THEN 0 ELSE f[Pick(s)] + G[Rest(s)]]
  <2>1. ASSUME NEW s \in SUBSET T
        PROVE  G[s] = IF s = {} THEN 0 ELSE f[Pick(s)] + G[Rest(s)]
    <3> HIDE DEF On
    <3>1. G[s] = IF s = {} THEN 0 ELSE f[Pick(s)] + On(Rest(s))[Rest(s)]
      OBVIOUS
    <3> HIDE DEF G
    <3> QED
      BY <1>4, <3>1
  <2>2. G = [s \in SUBSET T |-> G[s]]
    OBVIOUS
  <2> HIDE DEF G
  <2> QED
    BY <2>1, <2>2
<1>6. IsSumOn(G, f, T)
  BY <1>5 DEF IsSumOn
<1> QED
  BY <1>2, <1>6

\* SumFunctionOnSet is that function, at the set.
LEMMA SumIsIteration ==
    ASSUME NEW f, NEW S, IsFiniteSet(S)
    PROVE  \E g : IsSumOn(g, f, S) /\ SumFunctionOnSet(f, S) = g[S]
<1>1. \E g : IsSumOn(g, f, S)
  BY SumExists
<1> QED
  BY <1>1 DEF SumFunctionOnSet, FoldFunctionOnSet, MapThenFoldSet, IsSumOn, Pick, Rest

--------------------------------------------------------------------------------
(* The sum, element by element.                                               *)

\* Nothing adds up to 0.
LEMMA SumEmpty == \A f : SumFunctionOnSet(f, {}) = 0
<1> SUFFICES ASSUME NEW f PROVE SumFunctionOnSet(f, {}) = 0
  OBVIOUS
<1>1. PICK g : IsSumOn(g, f, {}) /\ SumFunctionOnSet(f, {}) = g[{}]
  BY FS_EmptySet, SumIsIteration
<1> QED
  BY <1>1 DEF IsSumOn

\* The equation of the fold.
LEMMA SumPick ==
    ASSUME NEW f, NEW S, IsFiniteSet(S), S # {}
    PROVE  /\ Pick(S) \in S
           /\ SumFunctionOnSet(f, S) = f[Pick(S)] + SumFunctionOnSet(f, Rest(S))
<1>1. PICK g : IsSumOn(g, f, S) /\ SumFunctionOnSet(f, S) = g[S]
  BY SumIsIteration
<1>2. IsFiniteSet(Rest(S)) /\ Rest(S) \subseteq S
  BY FS_RemoveElement DEF Rest
<1>3. PICK h : IsSumOn(h, f, Rest(S)) /\ SumFunctionOnSet(f, Rest(S)) = h[Rest(S)]
  BY <1>2, SumIsIteration
<1>4. g[Rest(S)] = h[Rest(S)]
  BY <1>1, <1>2, <1>3, SumIsUnique
<1>5. g[S] = f[Pick(S)] + g[Rest(S)]
  BY <1>1 DEF IsSumOn
<1> QED
  BY <1>1, <1>3, <1>4, <1>5, PickIsIn

\* Any element may be taken out first.
LEMMA SumRemove ==
    ASSUME NEW f, NEW S, IsFiniteSet(S), \A x \in S : f[x] \in Int
    PROVE  /\ SumFunctionOnSet(f, S) \in Int
           /\ \A x \in S : SumFunctionOnSet(f, S) = f[x] + SumFunctionOnSet(f, S \ {x})
<1> DEFINE Sum(s) == SumFunctionOnSet(f, s)
           Good(s) == Sum(s) \in Int /\ \A x \in s : Sum(s) = f[x] + Sum(s \ {x})
           Bad == {s \in SUBSET S : ~ Good(s)}
<1>1. SUFFICES ASSUME Bad # {} PROVE FALSE
  OBVIOUS
<1>2. PICK s \in Bad : \A t \in Bad : t \subseteq s => t = s
  <2>1. Bad \in SUBSET SUBSET S
    OBVIOUS
  <2> HIDE DEF Bad
  <2> QED
    BY <1>1, <2>1, MinimalSubset
<1>3. ASSUME NEW t, t \subseteq s, t # s PROVE Good(t)
  BY <1>2, <1>3
<1>4. s # {}
  <2>1. Good({})
    BY SumEmpty
  <2> QED
    BY <1>2, <2>1
<1> DEFINE p == Pick(s)
<1>5. p \in s /\ Sum(s) = f[p] + Sum(s \ {p})
  <2>1. IsFiniteSet(s)
    BY <1>2, FS_Subset
  <2> QED
    BY <1>4, <2>1, SumPick DEF Rest
<1> HIDE DEF p
<1>6. Good(s \ {p})
  BY <1>3, <1>5
<1>7. Sum(s) \in Int
  BY <1>2, <1>5, <1>6
<1>8. ASSUME NEW x \in s, x # p PROVE Sum(s) = f[x] + Sum(s \ {x})
  <2>1. (s \ {p}) \ {x} = (s \ {x}) \ {p}
    OBVIOUS
  <2>2. Good(s \ {x}) /\ Good((s \ {x}) \ {p})
    BY <1>3, <1>5, <1>8
  <2> HIDE DEF Sum
  <2>3. Sum(s \ {p}) = f[x] + Sum((s \ {x}) \ {p})
    BY <1>6, <1>8, <2>1
  <2>4. Sum(s \ {x}) = f[p] + Sum((s \ {x}) \ {p})
    BY <1>5, <1>8, <2>2
  <2>5. f[x] \in Int /\ f[p] \in Int /\ Sum((s \ {x}) \ {p}) \in Int
    BY <1>2, <1>5, <1>8, <2>2
  <2> QED
    BY <1>5, <2>3, <2>4, <2>5
<1>9. Good(s)
  BY <1>5, <1>7, <1>8
<1> QED
  BY <1>2, <1>9

\* Integers add up to an integer.
LEMMA SumType ==
    ASSUME NEW f, NEW S, IsFiniteSet(S), \A x \in S : f[x] \in Int
    PROVE  SumFunctionOnSet(f, S) \in Int
BY SumRemove

\* A new element adds its value.
LEMMA SumAdd ==
    ASSUME NEW f, NEW S, IsFiniteSet(S), \A x \in S : f[x] \in Int,
           NEW x, x \notin S, f[x] \in Int
    PROVE  SumFunctionOnSet(f, S \union {x}) = SumFunctionOnSet(f, S) + f[x]
<1> DEFINE T == S \union {x}
<1>1. IsFiniteSet(T) /\ x \in T /\ T \ {x} = S /\ \A y \in T : f[y] \in Int
  BY FS_AddElement
<1> HIDE DEF T
<1>2. SumFunctionOnSet(f, T) = f[x] + SumFunctionOnSet(f, S)
  BY <1>1, SumRemove
<1>3. SumFunctionOnSet(f, S) \in Int
  BY SumType
<1> QED
  BY <1>2, <1>3 DEF T

\* One element adds up to its value.
LEMMA SumSingle ==
    ASSUME NEW f, NEW x, f[x] \in Int
    PROVE  SumFunctionOnSet(f, {x}) = f[x]
<1>1. SumFunctionOnSet(f, {} \union {x}) = SumFunctionOnSet(f, {}) + f[x]
  <2> DEFINE none == {}
  <2>1. IsFiniteSet(none) /\ x \notin none /\ \A y \in none : f[y] \in Int
    BY FS_EmptySet
  <2> HIDE DEF none
  <2>2. SumFunctionOnSet(f, none \union {x}) = SumFunctionOnSet(f, none) + f[x]
    BY <2>1, SumAdd
  <2> QED
    BY <2>2 DEF none
<1>2. {} \union {x} = {x} /\ SumFunctionOnSet(f, {}) = 0
  BY SumEmpty
<1> QED
  BY <1>1, <1>2

--------------------------------------------------------------------------------
(* Sums of different functions.                                               *)

\* Only the values on the set count.
LEMMA SumSame ==
    ASSUME NEW f, NEW g, NEW S, IsFiniteSet(S), \A x \in S : f[x] = g[x]
    PROVE  SumFunctionOnSet(f, S) = SumFunctionOnSet(g, S)
<1> DEFINE Good(s) == SumFunctionOnSet(f, s) = SumFunctionOnSet(g, s)
           Bad == {s \in SUBSET S : ~ Good(s)}
<1>1. SUFFICES ASSUME Bad # {} PROVE FALSE
  OBVIOUS
<1>2. PICK s \in Bad : \A t \in Bad : t \subseteq s => t = s
  <2>1. Bad \in SUBSET SUBSET S
    OBVIOUS
  <2> HIDE DEF Bad
  <2> QED
    BY <1>1, <2>1, MinimalSubset
<1>3. s # {}
  BY <1>2, SumEmpty
<1>4. IsFiniteSet(s)
  BY <1>2, FS_Subset
<1>5. Pick(s) \in s /\ Good(Rest(s))
  BY <1>2, <1>3, PickIsIn DEF Rest
<1>6. Good(s)
  BY <1>2, <1>3, <1>4, <1>5, SumPick
<1> QED
  BY <1>2, <1>6

\* Values that are not greater add up to a sum that is not greater.
LEMMA SumMonotonic ==
    ASSUME NEW f, NEW g, NEW S, IsFiniteSet(S),
           \A x \in S : f[x] \in Int /\ g[x] \in Int /\ f[x] <= g[x]
    PROVE  SumFunctionOnSet(f, S) <= SumFunctionOnSet(g, S)
<1> DEFINE Good(s) == SumFunctionOnSet(f, s) <= SumFunctionOnSet(g, s)
           Bad == {s \in SUBSET S : ~ Good(s)}
<1>1. SUFFICES ASSUME Bad # {} PROVE FALSE
  OBVIOUS
<1>2. PICK s \in Bad : \A t \in Bad : t \subseteq s => t = s
  <2>1. Bad \in SUBSET SUBSET S
    OBVIOUS
  <2> HIDE DEF Bad
  <2> QED
    BY <1>1, <2>1, MinimalSubset
<1>3. s # {}
  BY <1>2, SumEmpty
<1>4. IsFiniteSet(s) /\ IsFiniteSet(Rest(s))
  BY <1>2, FS_Subset DEF Rest
<1>5. Pick(s) \in s /\ Rest(s) \subseteq S /\ Good(Rest(s))
  BY <1>2, <1>3, PickIsIn DEF Rest
<1>6. /\ SumFunctionOnSet(f, s) = f[Pick(s)] + SumFunctionOnSet(f, Rest(s))
      /\ SumFunctionOnSet(g, s) = g[Pick(s)] + SumFunctionOnSet(g, Rest(s))
  BY <1>3, <1>4, SumPick
<1>7. SumFunctionOnSet(f, Rest(s)) \in Int /\ SumFunctionOnSet(g, Rest(s)) \in Int
  BY <1>4, <1>5, SumType
<1>8. f[Pick(s)] \in Int /\ g[Pick(s)] \in Int /\ f[Pick(s)] <= g[Pick(s)]
  BY <1>2, <1>5
<1>9. Good(s)
  BY <1>5, <1>6, <1>7, <1>8
<1> QED
  BY <1>2, <1>9

\* Zeros add up to 0.
LEMMA SumOfZeros ==
    ASSUME NEW f, NEW S, IsFiniteSet(S), \A x \in S : f[x] = 0
    PROVE  SumFunctionOnSet(f, S) = 0
<1> DEFINE Good(s) == SumFunctionOnSet(f, s) = 0
           Bad == {s \in SUBSET S : ~ Good(s)}
<1>1. SUFFICES ASSUME Bad # {} PROVE FALSE
  OBVIOUS
<1>2. PICK s \in Bad : \A t \in Bad : t \subseteq s => t = s
  <2>1. Bad \in SUBSET SUBSET S
    OBVIOUS
  <2> HIDE DEF Bad
  <2> QED
    BY <1>1, <2>1, MinimalSubset
<1>3. s # {} /\ IsFiniteSet(s)
  BY <1>2, SumEmpty, FS_Subset
<1>4. Pick(s) \in s /\ Good(Rest(s))
  BY <1>2, <1>3, PickIsIn DEF Rest
<1>5. Good(s)
  BY <1>2, <1>3, <1>4, SumPick
<1> QED
  BY <1>2, <1>5

\* Values that are not negative add up to no less than 0.
LEMMA SumNotNegative ==
    ASSUME NEW f, NEW S, IsFiniteSet(S), \A x \in S : f[x] \in Int /\ 0 <= f[x]
    PROVE  0 <= SumFunctionOnSet(f, S)
<1> DEFINE zeros == [x \in S |-> 0]
<1>1. \A x \in S : zeros[x] = 0 /\ zeros[x] \in Int /\ zeros[x] <= f[x]
  OBVIOUS
<1> HIDE DEF zeros
<1>2. SumFunctionOnSet(zeros, S) = 0
  BY <1>1, SumOfZeros
<1>3. SumFunctionOnSet(zeros, S) <= SumFunctionOnSet(f, S)
  BY <1>1, SumMonotonic
<1> QED
  BY <1>2, <1>3
================================================================================
