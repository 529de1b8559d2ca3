-------------------------------- MODULE Sums --------------------------------
(***************************************************************************)
(* Sums over finite sets.  The books of the vaults are sums over their     *)
(* holders, and MapThenSumSet of the community modules defines a sum by    *)
(* recursion on the set.  What is proved here of that definition, for      *)
(* every finite set, is what the proofs about those books cite: a sum of   *)
(* integers is an integer, follows a change of one term, adds up, and      *)
(* keeps an inequality of its terms.                                       *)
(***************************************************************************)
EXTENDS FiniteSetsExt, FiniteSetTheorems, WellFoundedInduction, TLAPS

Total(f, S) == MapThenSumSet(LAMBDA x : f[x], S)

(* The element that the recursion takes out of a set first, and the        *)
(* equation that the recursive function satisfies.                         *)
Pick(s) == CHOOSE x \in s : TRUE
IsSum(g, f, T) ==
    g = [s \in SUBSET T |-> IF s = {} THEN 0 ELSE f[Pick(s)] + g[s \ {Pick(s)}]]

(* A sum is the value of some solution of that equation.                   *)
LEMMA TotalUnfolds ==
  ASSUME NEW f, NEW S
  PROVE Total(f, S) = (CHOOSE g : IsSum(g, f, S))[S]
BY DEF Total, MapThenSumSet, MapThenFoldSet, IsSum, Pick

(* The element taken out is one of the set.                                *)
LEMMA PickIn == ASSUME NEW s, s # {} PROVE Pick(s) \in s
BY Zenon DEF Pick

(* Among sets of subsets of a finite set there is a smallest one: the form *)
(* in which induction over the set is available without an operator as a   *)
(* parameter.                                                              *)
LEMMA SmallestSet ==
  ASSUME NEW S, IsFiniteSet(S), NEW B \in SUBSET SUBSET S, B # {}
  PROVE  \E T \in B : \A U \in B : U \subseteq T => U = T
<1>1. IsWellFoundedOn(StrictSubsetOrdering(S), SUBSET S)
  BY FS_StrictSubsetOrderingWellFounded, FS_FiniteSubsetsOfFinite, Zenon
<1>2. PICK T \in B : \A U \in B : ~(<<U, T>> \in StrictSubsetOrdering(S))
  BY <1>1, WFMin, Zenon
<1>3. ASSUME NEW U \in B, U \subseteq T PROVE U = T
  <2>1. <<U, T>> \in (SUBSET S) \X (SUBSET S)
    OBVIOUS
  <2> QED BY <1>2, <1>3, <2>1, Zenon DEF StrictSubsetOrdering
<1> QED BY <1>2, <1>3, Zenon

(* A solution satisfies the equation at every subset.                      *)
LEMMA SumStep ==
  ASSUME NEW f, NEW T, NEW g, IsSum(g, f, T), NEW s \in SUBSET T
  PROVE  g[s] = IF s = {} THEN 0 ELSE f[Pick(s)] + g[s \ {Pick(s)}]
<1> DEFINE h == [r \in SUBSET T |-> IF r = {} THEN 0 ELSE f[Pick(r)] + g[r \ {Pick(r)}]]
<1>1. g = h
  BY DEF IsSum
<1>2. h[s] = IF s = {} THEN 0 ELSE f[Pick(s)] + g[s \ {Pick(s)}]
  OBVIOUS
<1> HIDE DEF h
<1> QED BY <1>1, <1>2, Zenon

(* Two solutions agree wherever both are defined.                          *)
LEMMA SumUnique ==
  ASSUME NEW f, NEW S, IsFiniteSet(S), NEW T1 \in SUBSET S, NEW T2 \in SUBSET S,
         NEW g1, NEW g2, IsSum(g1, f, T1), IsSum(g2, f, T2),
         NEW s \in SUBSET T1, s \in SUBSET T2
  PROVE  g1[s] = g2[s]
<1> DEFINE B == {r \in SUBSET s : g1[r] # g2[r]}
<1>1. ASSUME B # {} PROVE FALSE
  <2>1. B \in SUBSET SUBSET S
    OBVIOUS
  <2>2. PICK r \in B : \A u \in B : u \subseteq r => u = r
    <3> HIDE DEF B
    <3> QED BY <1>1, <2>1, SmallestSet
  <2>3. r \in SUBSET T1 /\ r \in SUBSET T2 /\ r \in SUBSET s /\ g1[r] # g2[r]
    OBVIOUS
  <2>4. CASE r = {}
    BY <2>3, <2>4, SumStep
  <2>5. CASE r # {}
    <3> DEFINE q == r \ {Pick(r)}
    <3>1. q # r /\ q \subseteq r
      BY <2>5, PickIn, Zenon
    <3>2. q \notin B
      BY <3>1, <2>2, Zenon
    <3>3. g1[q] = g2[q]
      BY <3>1, <3>2, <2>3, Zenon
    <3> QED BY <2>3, <2>5, <3>3, SumStep
  <2> QED BY <2>4, <2>5
<1> QED BY <1>1

(* A finite set has a solution.                                            *)
LEMMA SumExists ==
  ASSUME NEW f, NEW S, IsFiniteSet(S)
  PROVE  \E g : IsSum(g, f, S)
<1> DEFINE B == {T \in SUBSET S : ~ \E g : IsSum(g, f, T)}
           G(T) == CHOOSE g : IsSum(g, f, T)
<1>1. ASSUME B # {} PROVE FALSE
  <2>1. B \in SUBSET SUBSET S
    OBVIOUS
  <2>2. PICK T \in B : \A U \in B : U \subseteq T => U = T
    <3> HIDE DEF B
    <3> QED BY <1>1, <2>1, SmallestSet
  <2>3. ASSUME NEW U \in SUBSET T, U # T PROVE IsSum(G(U), f, U)
    <3>1. U \in SUBSET S /\ U \notin B
      BY <2>2, <2>3, Zenon
    <3>2. \E g : IsSum(g, f, U)
      BY <3>1, Zenon
    <3> QED BY <3>2, Zenon
  <2> DEFINE g == [s \in SUBSET T |-> IF s = {} THEN 0
                                      ELSE f[Pick(s)] + G(s \ {Pick(s)})[s \ {Pick(s)}]]
  <2>4. ASSUME NEW s \in SUBSET T, s # {}
        PROVE  G(s \ {Pick(s)})[s \ {Pick(s)}] = g[s \ {Pick(s)}]
    <3> DEFINE r == s \ {Pick(s)}
               q == r \ {Pick(r)}
    <3>1. r \in SUBSET T /\ r # T /\ r \in SUBSET S
      BY <2>2, <2>4, PickIn, Zenon
    <3>2. IsSum(G(r), f, r)
      BY <2>3, <3>1, Zenon
    <3>3. g[r] = IF r = {} THEN 0 ELSE f[Pick(r)] + G(q)[q]
      BY <3>1
    <3>4. CASE r = {}
      <4>1. r \in SUBSET r OBVIOUS
      <4>2. G(r)[r] = 0
        <5> HIDE DEF G, r
        <5> QED BY <3>4, <3>2, <4>1, SumStep
      <4> QED BY <3>3, <3>4, <4>2
    <3>5. CASE r # {}
      <4>1. q \in SUBSET T /\ q # T /\ q \in SUBSET S /\ q \subseteq r
        BY <3>1, <3>5, <2>2, <2>4, PickIn, Zenon
      <4>2. IsSum(G(q), f, q)
        BY <2>3, <4>1, Zenon
      <4> HIDE DEF G
      <4>3. G(r)[r] = f[Pick(r)] + G(r)[q]
        <5> HIDE DEF r
        <5>1. r \in SUBSET r OBVIOUS
        <5> QED BY <3>2, <3>5, <5>1, SumStep
      <4>4. G(r)[q] = G(q)[q]
        <5> HIDE DEF r, q
        <5> QED BY <3>1, <4>1, <3>2, <4>2, SumUnique
      <4> QED BY <3>3, <3>5, <4>3, <4>4
    <3> QED BY <3>4, <3>5
  <2> HIDE DEF G
  <2>5. IsSum(g, f, T)
    <3>1. ASSUME NEW s \in SUBSET T
          PROVE  g[s] = IF s = {} THEN 0 ELSE f[Pick(s)] + g[s \ {Pick(s)}]
      BY <2>4
    <3>2. g = [s \in SUBSET T |-> g[s]]
      OBVIOUS
    <3> HIDE DEF g
    <3> QED BY <3>1, <3>2 DEF IsSum
  <2> QED BY <2>2, <2>5
<1> QED BY <1>1

(* So the sum over a finite set is the value of a solution.                *)
LEMMA TotalIsSum ==
  ASSUME NEW f, NEW S, IsFiniteSet(S)
  PROVE  \E g : IsSum(g, f, S) /\ Total(f, S) = g[S]
<1>1. IsSum(CHOOSE g : IsSum(g, f, S), f, S)
  BY SumExists, Zenon
<1> QED BY <1>1, TotalUnfolds, Zenon

(* What holds of the empty set, and of a set when it holds of it less the  *)
(* element taken out first, holds of every finite set.                     *)
LEMMA SetInduction ==
  ASSUME NEW S, IsFiniteSet(S), NEW Good, {} \in Good,
         \A T \in SUBSET S : (T # {} /\ T \ {Pick(T)} \in Good) => T \in Good
  PROVE  S \in Good
<1> DEFINE B == {T \in SUBSET S : T \notin Good}
<1>1. ASSUME B # {} PROVE FALSE
  <2>1. B \in SUBSET SUBSET S
    OBVIOUS
  <2>2. PICK T \in B : \A U \in B : U \subseteq T => U = T
    <3> HIDE DEF B
    <3> QED BY <1>1, <2>1, SmallestSet
  <2>3. T \in SUBSET S /\ T \notin Good /\ T # {}
    OBVIOUS
  <2>4. T \ {Pick(T)} # T /\ T \ {Pick(T)} \subseteq T
    BY <2>3, PickIn, Zenon
  <2>5. T \ {Pick(T)} \notin B
    BY <2>2, <2>4, Zenon
  <2>6. T \ {Pick(T)} \in Good
    BY <2>3, <2>4, <2>5, Zenon
  <2> QED BY <2>3, <2>6
<1> QED BY <1>1

(* The sum over no elements.                                               *)
LEMMA TotalEmpty == ASSUME NEW f PROVE Total(f, {}) = 0
<1>1. PICK g : IsSum(g, f, {}) /\ Total(f, {}) = g[{}]
  BY TotalIsSum, FS_EmptySet
<1>2. {} \in SUBSET {}
  OBVIOUS
<1> QED BY <1>1, <1>2, SumStep

(* A sum is its first term and the sum of the others.                      *)
LEMMA TotalStep ==
  ASSUME NEW f, NEW S, IsFiniteSet(S), NEW T \in SUBSET S, T # {}
  PROVE  /\ Pick(T) \in T /\ Pick(T) \in S
         /\ Pick(T) \notin T \ {Pick(T)} /\ T \ {Pick(T)} \in SUBSET S
         /\ Total(f, T) = f[Pick(T)] + Total(f, T \ {Pick(T)})
<1> DEFINE q == T \ {Pick(T)}
<1>1. Pick(T) \in T /\ IsFiniteSet(T)
  BY PickIn, FS_Subset
<1>2. IsFiniteSet(q) /\ q \in SUBSET q /\ q \in SUBSET T /\ T \in SUBSET T
  BY <1>1, FS_Subset
<1>3. PICK g : IsSum(g, f, T) /\ Total(f, T) = g[T]
  BY <1>1, TotalIsSum
<1>4. PICK h : IsSum(h, f, q) /\ Total(f, q) = h[q]
  BY <1>2, TotalIsSum
<1>5. g[q] = h[q]
  <2> HIDE DEF q
  <2> QED BY <1>1, <1>2, <1>3, <1>4, SumUnique
<1>6. g[T] = f[Pick(T)] + g[q]
  BY <1>2, <1>3, SumStep
<1> QED BY <1>1, <1>3, <1>4, <1>5, <1>6

(* A sum of integers is an integer: the totals of balances, requests and   *)
(* claims are amounts.                                                     *)
LEMMA TotalInt ==
  ASSUME NEW S, IsFiniteSet(S), NEW f, \A x \in S : f[x] \in Int
  PROVE  Total(f, S) \in Int
<1> DEFINE Good == {T \in SUBSET S : Total(f, T) \in Int}
<1>1. {} \in Good
  BY TotalEmpty
<1>2. ASSUME NEW T \in SUBSET S, T # {}, T \ {Pick(T)} \in Good PROVE T \in Good
  <2>1. Pick(T) \in S /\ Total(f, T) = f[Pick(T)] + Total(f, T \ {Pick(T)})
    BY <1>2, TotalStep
  <2> QED BY <1>2, <2>1
<1>3. S \in Good
  <2> HIDE DEF Good
  <2> QED BY <1>1, <1>2, SetInduction
<1> QED BY <1>3

(* When one term changes, the sum changes by as much: a mint, a burn, a    *)
(* request or a claim of one user moves the total by its amount.           *)
LEMMA TotalChange ==
  ASSUME NEW S, IsFiniteSet(S), NEW f, NEW h, NEW u \in S,
         \A x \in S : f[x] \in Int /\ h[x] \in Int,
         \A x \in S \ {u} : h[x] = f[x]
  PROVE  Total(h, S) = Total(f, S) + (h[u] - f[u])
<1> DEFINE Right(T) == /\ Total(f, T) \in Int
                       /\ u \notin T => Total(h, T) = Total(f, T)
                       /\ u \in T => Total(h, T) = Total(f, T) + (h[u] - f[u])
           Good == {T \in SUBSET S : Right(T)}
<1>1. {} \in Good
  BY TotalEmpty
<1>2. ASSUME NEW T \in SUBSET S, T # {}, T \ {Pick(T)} \in Good PROVE T \in Good
  <2>1. /\ Pick(T) \in T /\ Pick(T) \in S /\ Pick(T) \notin T \ {Pick(T)}
        /\ Total(f, T) = f[Pick(T)] + Total(f, T \ {Pick(T)})
        /\ Total(h, T) = h[Pick(T)] + Total(h, T \ {Pick(T)})
    BY <1>2, TotalStep
  <2>2. u \in T \ {Pick(T)} <=> (u \in T /\ u # Pick(T))
    OBVIOUS
  <2>3. Right(T \ {Pick(T)})
    BY <1>2
  <2>4. CASE Pick(T) = u
    BY <2>1, <2>2, <2>3, <2>4
  <2>5. CASE Pick(T) # u
    <3>1. h[Pick(T)] = f[Pick(T)]
      BY <2>1, <2>5
    <3> QED BY <2>1, <2>2, <2>3, <2>5, <3>1
  <2> QED BY <2>4, <2>5
<1>3. S \in Good
  <2> HIDE DEF Good
  <2> QED BY <1>1, <1>2, SetInduction
<1> QED BY <1>3

(* A sum of zeros is zero: the books of a new vault.                       *)
LEMMA TotalZero ==
  ASSUME NEW S, IsFiniteSet(S), NEW f, \A x \in S : f[x] = 0
  PROVE  Total(f, S) = 0
<1> DEFINE Good == {T \in SUBSET S : Total(f, T) = 0}
<1>1. {} \in Good
  BY TotalEmpty
<1>2. ASSUME NEW T \in SUBSET S, T # {}, T \ {Pick(T)} \in Good PROVE T \in Good
  <2>1. Pick(T) \in S /\ Total(f, T) = f[Pick(T)] + Total(f, T \ {Pick(T)})
    BY <1>2, TotalStep
  <2> QED BY <1>2, <2>1
<1>3. S \in Good
  <2> HIDE DEF Good
  <2> QED BY <1>1, <1>2, SetInduction
<1> QED BY <1>3

(* Sums add up term by term: an execution that settles what every user has *)
(* asked for settles the total.                                            *)
LEMMA TotalAdds ==
  ASSUME NEW S, IsFiniteSet(S), NEW f, NEW g, NEW h,
         \A x \in S : f[x] \in Int /\ g[x] \in Int /\ h[x] = f[x] + g[x]
  PROVE  Total(h, S) = Total(f, S) + Total(g, S)
<1> DEFINE Good == {T \in SUBSET S : /\ Total(f, T) \in Int /\ Total(g, T) \in Int
                                     /\ Total(h, T) = Total(f, T) + Total(g, T)}
<1>1. {} \in Good
  BY TotalEmpty
<1>2. ASSUME NEW T \in SUBSET S, T # {}, T \ {Pick(T)} \in Good PROVE T \in Good
  <2>1. /\ Pick(T) \in S
        /\ Total(f, T) = f[Pick(T)] + Total(f, T \ {Pick(T)})
        /\ Total(g, T) = g[Pick(T)] + Total(g, T \ {Pick(T)})
        /\ Total(h, T) = h[Pick(T)] + Total(h, T \ {Pick(T)})
    BY <1>2, TotalStep
  <2> QED BY <1>2, <2>1
<1>3. S \in Good
  <2> HIDE DEF Good
  <2> QED BY <1>1, <1>2, SetInduction
<1> QED BY <1>3

(* An inequality between multiples of the terms carries over to the sums:  *)
(* what rounding down costs each user, it costs all of them together.      *)
LEMMA TotalScales ==
  ASSUME NEW S, IsFiniteSet(S), NEW a \in Int, NEW b \in Int, NEW f, NEW g,
         \A x \in S : f[x] \in Int /\ g[x] \in Int /\ a * f[x] <= b * g[x]
  PROVE  a * Total(f, S) <= b * Total(g, S)
<1> DEFINE Good == {T \in SUBSET S : /\ Total(f, T) \in Int /\ Total(g, T) \in Int
                                     /\ a * Total(f, T) <= b * Total(g, T)}
<1>1. {} \in Good
  BY TotalEmpty
<1>2. ASSUME NEW T \in SUBSET S, T # {}, T \ {Pick(T)} \in Good PROVE T \in Good
  <2> DEFINE q == T \ {Pick(T)}
  <2>1. /\ Pick(T) \in S
        /\ Total(f, T) = f[Pick(T)] + Total(f, q)
        /\ Total(g, T) = g[Pick(T)] + Total(g, q)
    BY <1>2, TotalStep
  <2>2. Total(f, q) \in Int /\ Total(g, q) \in Int /\ a * Total(f, q) <= b * Total(g, q)
    BY <1>2
  <2>3. ASSUME NEW k \in Int, NEW x \in Int, NEW y \in Int PROVE k * (x + y) = k * x + k * y
    OBVIOUS
  <2> HIDE DEF q
  <2>4. f[Pick(T)] \in Int /\ g[Pick(T)] \in Int /\ a * f[Pick(T)] <= b * g[Pick(T)]
    BY <2>1
  <2>5. /\ a * Total(f, T) = a * f[Pick(T)] + a * Total(f, q)
        /\ b * Total(g, T) = b * g[Pick(T)] + b * Total(g, q)
    BY <2>1, <2>2, <2>3, <2>4
  <2>6. a * Total(f, T) <= b * Total(g, T)
    BY <2>2, <2>4, <2>5
  <2> QED BY <2>1, <2>2, <2>4, <2>6
<1>3. S \in Good
  <2> HIDE DEF Good
  <2> QED BY <1>1, <1>2, SetInduction
<1> QED BY <1>3

(* A sum of natural numbers is one, and no term exceeds it: no balance of  *)
(* an LP token exceeds its supply.                                         *)
LEMMA TotalNat ==
  ASSUME NEW S, IsFiniteSet(S), NEW f, \A x \in S : f[x] \in Nat
  PROVE  Total(f, S) \in Nat /\ \A x \in S : f[x] <= Total(f, S)
<1> DEFINE Good == {T \in SUBSET S : Total(f, T) \in Nat /\ \A x \in T : f[x] <= Total(f, T)}
<1>1. {} \in Good
  BY TotalEmpty
<1>2. ASSUME NEW T \in SUBSET S, T # {}, T \ {Pick(T)} \in Good PROVE T \in Good
  <2>1. /\ Pick(T) \in S
        /\ Total(f, T) = f[Pick(T)] + Total(f, T \ {Pick(T)})
    BY <1>2, TotalStep
  <2> QED BY <1>2, <2>1
<1>3. S \in Good
  <2> HIDE DEF Good
  <2> QED BY <1>1, <1>2, SetInduction
<1> QED BY <1>3

-----------------------------------------------------------------------------
(* Sums that are written without a function of their own.                  *)

(* Every solution has the sum as its value.                                *)
LEMMA SumValue ==
  ASSUME NEW f, NEW S, IsFiniteSet(S), NEW g, IsSum(g, f, S)
  PROVE  Total(f, S) = g[S]
<1>1. PICK h : IsSum(h, f, S) /\ Total(f, S) = h[S]
  BY TotalIsSum
<1>2. S \in SUBSET S
  OBVIOUS
<1> QED BY <1>1, <1>2, SumUnique

(* A sum of one field of several records, such as one token of all wallets.*)
LEMMA TotalOfField ==
  ASSUME NEW S, IsFiniteSet(S), NEW w, NEW t
  PROVE  MapThenSumSet(LAMBDA x : w[x][t], S) = Total([x \in S |-> w[x][t]], S)
<1> DEFINE f == [x \in S |-> w[x][t]]
           Solves(g) == g = [s \in SUBSET S |-> IF s = {} THEN 0
                                                ELSE w[Pick(s)][t] + g[s \ {Pick(s)}]]
<1>1. MapThenSumSet(LAMBDA x : w[x][t], S) = (CHOOSE g : Solves(g))[S]
  BY DEF MapThenSumSet, MapThenFoldSet, Pick
<1>2. ASSUME NEW g PROVE Solves(g) <=> IsSum(g, f, S)
  <2>1. \A s \in SUBSET S : s # {} => f[Pick(s)] = w[Pick(s)][t]
    BY PickIn
  <2> HIDE DEF f
  <2> QED BY <2>1 DEF IsSum
<1>3. IsSum(CHOOSE g : Solves(g), f, S)
  <2>1. \E g : IsSum(g, f, S)
    <3> HIDE DEF f
    <3> QED BY SumExists
  <2> HIDE DEF Solves, f
  <2>2. \E g : Solves(g)
    BY <1>2, <2>1, Zenon
  <2>3. Solves(CHOOSE g : Solves(g))
    BY <2>2, Zenon
  <2> QED BY <1>2, <2>3, Zenon
<1> HIDE DEF Solves, f
<1>4. Total(f, S) = (CHOOSE g : Solves(g))[S]
  BY <1>3, SumValue
<1> QED BY <1>1, <1>4 DEF f

(* A sum of differences, such as what a step adds to some accounts.        *)
LEMMA TotalOfDifference ==
  ASSUME NEW S, IsFiniteSet(S), NEW v, NEW w
  PROVE  MapThenSumSet(LAMBDA x : w[x] - v[x], S) = Total([x \in S |-> w[x] - v[x]], S)
<1> DEFINE f == [x \in S |-> w[x] - v[x]]
           Solves(g) == g = [s \in SUBSET S |-> IF s = {} THEN 0
                                  ELSE (w[Pick(s)] - v[Pick(s)]) + g[s \ {Pick(s)}]]
<1>1. MapThenSumSet(LAMBDA x : w[x] - v[x], S) = (CHOOSE g : Solves(g))[S]
  BY DEF MapThenSumSet, MapThenFoldSet, Pick
<1>2. ASSUME NEW g PROVE Solves(g) <=> IsSum(g, f, S)
  <2>1. \A s \in SUBSET S : s # {} => f[Pick(s)] = w[Pick(s)] - v[Pick(s)]
    BY PickIn
  <2> HIDE DEF f
  <2> QED BY <2>1 DEF IsSum
<1>3. IsSum(CHOOSE g : Solves(g), f, S)
  <2>1. \E g : IsSum(g, f, S)
    <3> HIDE DEF f
    <3> QED BY SumExists
  <2> HIDE DEF Solves, f
  <2>2. \E g : Solves(g)
    BY <1>2, <2>1, Zenon
  <2>3. Solves(CHOOSE g : Solves(g))
    BY <2>2, Zenon
  <2> QED BY <1>2, <2>3, Zenon
<1> HIDE DEF Solves, f
<1>4. Total(f, S) = (CHOOSE g : Solves(g))[S]
  BY <1>3, SumValue
<1> QED BY <1>1, <1>4 DEF f

(* The same amount for everybody.                                          *)
LEMMA TotalOfSame ==
  ASSUME NEW S, IsFiniteSet(S), NEW c \in Int, NEW f, \A x \in S : f[x] = c
  PROVE  Total(f, S) = c * Cardinality(S)
<1> DEFINE Good == {T \in SUBSET S : Total(f, T) = c * Cardinality(T)}
<1>1. {} \in Good
  <2>1. c * 0 = 0
    OBVIOUS
  <2> QED BY <2>1, TotalEmpty, FS_EmptySet
<1>2. ASSUME NEW T \in SUBSET S, T # {}, T \ {Pick(T)} \in Good PROVE T \in Good
  <2>1. /\ Pick(T) \in S /\ Pick(T) \in T
        /\ Total(f, T) = f[Pick(T)] + Total(f, T \ {Pick(T)})
    BY <1>2, TotalStep
  <2>2. IsFiniteSet(T) /\ Cardinality(T) \in Nat
    BY FS_Subset, FS_CardinalityType
  <2>3. Cardinality(T \ {Pick(T)}) = Cardinality(T) - 1
    BY <2>1, <2>2, FS_RemoveElement
  <2>4. Total(f, T) = c + c * (Cardinality(T) - 1)
    BY <1>2, <2>1, <2>3
  <2>5. ASSUME NEW n \in Nat PROVE c + c * (n - 1) = c * n
    OBVIOUS
  <2> QED BY <2>2, <2>4, <2>5
<1>3. S \in Good
  <2> HIDE DEF Good
  <2> QED BY <1>1, <1>2, SetInduction
<1> QED BY <1>3

-----------------------------------------------------------------------------
(* The least and the greatest of finitely many amounts.                    *)

(* Max and Min of a function's values over a finite set are such values    *)
(* and bound the others: what a deposit is worth is decided by one token.  *)
LEMMA MaxOfValues ==
  ASSUME NEW S, IsFiniteSet(S), S # {}, NEW f, \A x \in S : f[x] \in Int
  PROVE  /\ \E m \in S : Max({f[x] : x \in S}) = f[m]
         /\ \A x \in S : f[x] <= Max({f[y] : y \in S})
<1> DEFINE Good == {T \in SUBSET S : T # {} => \E m \in T : \A x \in T : f[m] >= f[x]}
           R == {f[x] : x \in S}
<1>1. {} \in Good
  OBVIOUS
<1>2. ASSUME NEW T \in SUBSET S, T # {}, T \ {Pick(T)} \in Good PROVE T \in Good
  <2> DEFINE q == T \ {Pick(T)}
  <2>1. Pick(T) \in T /\ Pick(T) \in S
    BY <1>2, PickIn
  <2>2. CASE q = {}
    BY <2>1, <2>2
  <2>3. CASE q # {}
    <3>1. PICK m \in q : \A x \in q : f[m] >= f[x]
      BY <1>2, <2>3
    <3>2. CASE f[Pick(T)] >= f[m]
      <4>1. \A x \in T : f[Pick(T)] >= f[x]
        BY <2>1, <3>1, <3>2
      <4> QED BY <2>1, <4>1
    <3>3. CASE ~(f[Pick(T)] >= f[m])
      <4>1. \A x \in T : f[m] >= f[x]
        BY <2>1, <3>1, <3>3
      <4> QED BY <3>1, <4>1
    <3> QED BY <3>2, <3>3
  <2> QED BY <2>2, <2>3
<1>3. S \in Good
  <2> HIDE DEF Good
  <2> QED BY <1>1, <1>2, SetInduction
<1>4. \E r \in R : \A y \in R : r >= y
  BY <1>3
<1>5. Max(R) \in R /\ \A y \in R : Max(R) >= y
  <2> HIDE DEF R
  <2> QED BY <1>4, Zenon DEF Max
<1>6. \A x \in S : f[x] \in R /\ f[x] \in Int
  OBVIOUS
<1>7. \E m \in S : Max(R) = f[m]
  BY <1>5
<1> HIDE DEF R
<1>8. \A x \in S : f[x] <= Max(R)
  BY <1>5, <1>6, <1>7
<1> QED BY <1>7, <1>8 DEF R

(* The same of the least: an LP amount is the least pro-rata share.        *)
LEMMA MinOfValues ==
  ASSUME NEW S, IsFiniteSet(S), S # {}, NEW f, \A x \in S : f[x] \in Int
  PROVE  /\ \E m \in S : Min({f[x] : x \in S}) = f[m]
         /\ \A x \in S : Min({f[y] : y \in S}) <= f[x]
<1> DEFINE Good == {T \in SUBSET S : T # {} => \E m \in T : \A x \in T : f[m] <= f[x]}
           R == {f[x] : x \in S}
<1>1. {} \in Good
  OBVIOUS
<1>2. ASSUME NEW T \in SUBSET S, T # {}, T \ {Pick(T)} \in Good PROVE T \in Good
  <2> DEFINE q == T \ {Pick(T)}
  <2>1. Pick(T) \in T /\ Pick(T) \in S
    BY <1>2, PickIn
  <2>2. CASE q = {}
    BY <2>1, <2>2
  <2>3. CASE q # {}
    <3>1. PICK m \in q : \A x \in q : f[m] <= f[x]
      BY <1>2, <2>3
    <3>2. CASE f[Pick(T)] <= f[m]
      <4>1. \A x \in T : f[Pick(T)] <= f[x]
        BY <2>1, <3>1, <3>2
      <4> QED BY <2>1, <4>1
    <3>3. CASE ~(f[Pick(T)] <= f[m])
      <4>1. \A x \in T : f[m] <= f[x]
        BY <2>1, <3>1, <3>3
      <4> QED BY <3>1, <4>1
    <3> QED BY <3>2, <3>3
  <2> QED BY <2>2, <2>3
<1>3. S \in Good
  <2> HIDE DEF Good
  <2> QED BY <1>1, <1>2, SetInduction
<1>4. \E r \in R : \A y \in R : r <= y
  BY <1>3
<1>5. Min(R) \in R /\ \A y \in R : Min(R) <= y
  <2> HIDE DEF R
  <2> QED BY <1>4, Zenon DEF Min
<1>6. \A x \in S : f[x] \in R
  OBVIOUS
<1>7. \E m \in S : Min(R) = f[m]
  BY <1>5
<1> HIDE DEF R
<1> QED BY <1>5, <1>6, <1>7 DEF R
=============================================================================
