----------------------------- MODULE Sums_proofs ----------------------------
(***************************************************************************)
(* Lemmas about SumFunctionOnSet, the sum of natural numbers over a finite *)
(* set, on which the proofs about balances and funds rest.                 *)
(*                                                                         *)
(* The sum is a recursive function on the subsets.  Everything about it is *)
(* drawn from one fact, SumIsCount: it is the number of points under the   *)
(* graph of the function.  Counting these points is a solution of the      *)
(* recursion, so there is one, and no minimal subset tells two solutions   *)
(* apart.                                                                  *)
(***************************************************************************)
EXTENDS Functions, FiniteSetTheorems, TLAPS

\* The points under the graph of fun over S.
Points(fun, S) == {e \in S \X Nat : e[2] < fun[e[1]]}

\* There are fun[x] points over x.
LEMMA PointsOverOne ==
  ASSUME NEW fun, NEW x, fun[x] \in Nat
  PROVE  /\ IsFiniteSet(Points(fun, {x}))
         /\ Cardinality(Points(fun, {x})) = fun[x]
<1> DEFINE n == fun[x]
           I == 1..n
           f == [i \in I |-> <<x, i - 1>>]
<1>1. n \in Nat /\ 1 \in Int /\ n \in Int
  OBVIOUS
<1>2. IsFiniteSet(I) /\ Cardinality(I) = n
  <2> HIDE DEF n
  <2>1. IsFiniteSet(1..n) /\ Cardinality(1..n) = IF 1 > n THEN 0 ELSE n - 1 + 1
    BY <1>1, FS_Interval
  <2> QED
    BY <1>1, <2>1
<1>3. f \in [I -> Points(fun, {x})]
  <2> SUFFICES ASSUME NEW i \in I PROVE <<x, i - 1>> \in Points(fun, {x})
    OBVIOUS
  <2>1. i - 1 \in Nat /\ i - 1 < n
    <3> HIDE DEF n
    <3> QED
      BY <1>1
  <2> QED
    BY <2>1 DEF Points
<1>4. \A i, j \in I : f[i] = f[j] => i = j
  <2> SUFFICES ASSUME NEW i \in I, NEW j \in I, f[i] = f[j] PROVE i = j
    OBVIOUS
  <2>1. i - 1 = j - 1 /\ i \in Int /\ j \in Int
    OBVIOUS
  <2> QED
    BY <2>1
<1>5. \A e \in Points(fun, {x}) : \E i \in I : f[i] = e
  <2> SUFFICES ASSUME NEW e \in Points(fun, {x}) PROVE \E i \in I : f[i] = e
    OBVIOUS
  <2>1. e = <<x, e[2]>> /\ e[2] \in Nat /\ e[2] < n
    BY DEF Points
  <2>2. e[2] + 1 \in I /\ (e[2] + 1) - 1 = e[2]
    <3> HIDE DEF n
    <3> QED
      BY <1>1, <2>1
  <2> QED
    BY <2>1, <2>2
<1>6. f \in Bijection(I, Points(fun, {x}))
  <2> HIDE DEF f, I
  <2> QED
    BY <1>3, <1>4, <1>5 DEF Bijection, Injection, Surjection, IsInjective
<1> QED
  BY <1>2, <1>6, FS_Bijection DEF ExistsBijection

\* The points over a finite set are finitely many.
LEMMA PointsFinite ==
  ASSUME NEW S, IsFiniteSet(S), NEW fun, \A x \in S : fun[x] \in Nat
  PROVE  IsFiniteSet(Points(fun, S)) /\ Cardinality(Points(fun, S)) \in Nat
<1> DEFINE columns == {Points(fun, {x}) : x \in S}
           f       == [x \in S |-> Points(fun, {x})]
<1>1. f \in Surjection(S, columns)
  BY DEF Surjection
<1>2. IsFiniteSet(columns)
  BY <1>1, FS_Surjection
<1>3. \A T \in columns : IsFiniteSet(T)
  BY PointsOverOne
<1>4. IsFiniteSet(UNION columns)
  BY <1>2, <1>3, FS_UNION
<1>5. Points(fun, S) = UNION columns
  BY DEF Points
<1> QED
  BY <1>4, <1>5, FS_CardinalityType

\* The points over two disjoint sets.
LEMMA PointsOverHalves ==
  ASSUME NEW S, IsFiniteSet(S), NEW T, IsFiniteSet(T), S \cap T = {},
         NEW fun, \A x \in S \cup T : fun[x] \in Nat
  PROVE  Cardinality(Points(fun, S \cup T))
           = Cardinality(Points(fun, S)) + Cardinality(Points(fun, T))
<1>1. Points(fun, S \cup T) = Points(fun, S) \cup Points(fun, T)
  BY DEF Points
<1>2. Points(fun, S) \cap Points(fun, T) = {}
  BY DEF Points
<1>3. /\ IsFiniteSet(Points(fun, S)) /\ Cardinality(Points(fun, S)) \in Nat
      /\ IsFiniteSet(Points(fun, T)) /\ Cardinality(Points(fun, T)) \in Nat
  BY PointsFinite
<1>4. Cardinality(Points(fun, S) \cup Points(fun, T)) =
        Cardinality(Points(fun, S)) + Cardinality(Points(fun, T)) - 0
  <2>1. Cardinality(Points(fun, S) \cup Points(fun, T)) =
          Cardinality(Points(fun, S)) + Cardinality(Points(fun, T))
            - Cardinality(Points(fun, S) \cap Points(fun, T))
    BY <1>3, FS_Union
  <2> QED
    BY <1>2, <2>1, FS_EmptySet
<1>5. Cardinality(Points(fun, S \cup T)) =
        Cardinality(Points(fun, S)) + Cardinality(Points(fun, T)) - 0
  BY <1>1, <1>4
<1> QED
  BY <1>3, <1>5

-----------------------------------------------------------------------------
\* The sum of natural numbers is the number of points under their graph.
LEMMA SumIsCount ==
  ASSUME NEW S, IsFiniteSet(S), NEW fun, \A x \in S : fun[x] \in Nat
  PROVE  SumFunctionOnSet(fun, S) = Cardinality(Points(fun, S))
<1> DEFINE pick(s) == CHOOSE x \in s : TRUE
           rule(g) == [s \in SUBSET S |->
                         IF s = {} THEN 0 ELSE fun[pick(s)] + g[s \ {pick(s)}]]
           count   == [s \in SUBSET S |-> Cardinality(Points(fun, s))]
           iter    == CHOOSE g : g = rule(g)
<1>1. SumFunctionOnSet(fun, S) = iter[S]
  BY DEF SumFunctionOnSet, FoldFunctionOnSet, MapThenFoldSet
<1>2. ASSUME NEW s \in SUBSET S, s # {}
      PROVE  /\ pick(s) \in s
             /\ s \ {pick(s)} \in SUBSET S
             /\ count[s] = fun[pick(s)] + count[s \ {pick(s)}]
  <2> DEFINE x == pick(s)
             r == s \ {x}
  <2>1. x \in s
    BY <1>2
  <2> HIDE DEF x
  <2>2. /\ IsFiniteSet(r) /\ IsFiniteSet({x}) /\ {x} \cap r = {} /\ {x} \cup r = s
        /\ r \in SUBSET S
    BY <2>1, FS_Subset, FS_Singleton
  <2>3. Cardinality(Points(fun, {x} \cup r)) =
          Cardinality(Points(fun, {x})) + Cardinality(Points(fun, r))
    <3>1. \A y \in {x} \cup r : fun[y] \in Nat
      BY <2>1
    <3> QED
      BY <2>2, <3>1, PointsOverHalves
  <2>4. Cardinality(Points(fun, {x})) = fun[x]
    BY <2>1, PointsOverOne
  <2>5. Cardinality(Points(fun, s)) = fun[x] + Cardinality(Points(fun, r))
    BY <2>2, <2>3, <2>4
  <2>6. count[s] = fun[x] + count[r]
    BY <2>2, <2>5
  <2> QED
    BY <2>1, <2>2, <2>6 DEF x
<1>3. count[{}] = 0
  <2>1. Points(fun, {}) = {}
    BY DEF Points
  <2> QED
    BY <2>1, FS_EmptySet
<1>4. count = rule(count)
  <2>1. \A s \in SUBSET S :
          count[s] = IF s = {} THEN 0 ELSE fun[pick(s)] + count[s \ {pick(s)}]
    BY <1>2, <1>3
  <2>2. count = [s \in SUBSET S |-> count[s]]
    OBVIOUS
  <2> HIDE DEF count, pick
  <2> QED
    BY <2>1, <2>2
<1>5. iter = rule(iter)
  <2>1. \E g : g = rule(g)
    BY <1>4
  <2> HIDE DEF rule, count
  <2> QED
    BY <2>1
<1>6. \A s \in SUBSET S : iter[s] = count[s]
  <2> DEFINE R == StrictSubsetOrdering(S)
             T == {s \in SUBSET S : iter[s] # count[s]}
  <2> SUFFICES ASSUME T # {} PROVE FALSE
    OBVIOUS
  <2>1. IsWellFoundedOn(R, SUBSET S)
    BY FS_StrictSubsetOrderingWellFounded, FS_FiniteSubsetsOfFinite
  <2>2. T \subseteq SUBSET S
    OBVIOUS
  <2>3. PICK s \in T : \A t \in T : ~(<<t, s>> \in R)
    <3> HIDE DEF R, T
    <3> QED
      BY <2>1, <2>2, WFMin
  <2>4. s \in SUBSET S /\ iter[s] # count[s]
    OBVIOUS
  <2>5. \A u \in SUBSET S :
          iter[u] = IF u = {} THEN 0 ELSE fun[pick(u)] + iter[u \ {pick(u)}]
    <3> HIDE DEF iter, pick
    <3> DEFINE val(u) == IF u = {} THEN 0 ELSE fun[pick(u)] + iter[u \ {pick(u)}]
    <3>1. iter = [u \in SUBSET S |-> val(u)]
      BY <1>5
    <3> HIDE DEF val
    <3>2. \A u \in SUBSET S : iter[u] = val(u)
      BY <3>1
    <3> QED
      BY <3>2 DEF val
  <2>6. s # {}
    BY <1>3, <2>4, <2>5
  <2> DEFINE r == s \ {pick(s)}
  <2>7. r \in SUBSET S /\ r \subseteq s /\ r # s
    BY <1>2, <2>4, <2>6
  <2>8. <<r, s>> \in R
    BY <2>4, <2>7 DEF StrictSubsetOrdering
  <2>9. iter[r] = count[r]
    BY <2>3, <2>7, <2>8
  <2> QED
    BY <1>2, <2>4, <2>5, <2>6, <2>9
<1> QED
  BY <1>1, <1>6

-----------------------------------------------------------------------------
(* The rules of sums.                                                       *)

\* A sum of natural numbers is one.
LEMMA SumIsNatural ==
  ASSUME NEW S, IsFiniteSet(S), NEW fun, \A x \in S : fun[x] \in Nat
  PROVE  SumFunctionOnSet(fun, S) \in Nat
BY SumIsCount, PointsFinite

\* The empty sum.
LEMMA SumOfNone == ASSUME NEW fun PROVE SumFunctionOnSet(fun, {}) = 0
<1>1. Points(fun, {}) = {}
  BY DEF Points
<1>2. SumFunctionOnSet(fun, {}) = Cardinality(Points(fun, {}))
  <2>1. IsFiniteSet({}) /\ \A x \in {} : fun[x] \in Nat
    BY FS_EmptySet
  <2> QED
    BY <2>1, SumIsCount
<1> QED
  BY <1>1, <1>2, FS_EmptySet

\* A sum of zeros.
LEMMA SumOfZeros ==
  ASSUME NEW S, IsFiniteSet(S), NEW fun, \A x \in S : fun[x] = 0
  PROVE  SumFunctionOnSet(fun, S) = 0
<1>1. Points(fun, S) = {}
  BY DEF Points
<1> QED
  BY <1>1, SumIsCount, FS_EmptySet

\* A sum looks at the values on its set and at nothing else.
LEMMA SumSameValues ==
  ASSUME NEW S, IsFiniteSet(S), NEW f, NEW g, \A x \in S : f[x] \in Nat /\ g[x] = f[x]
  PROVE  SumFunctionOnSet(g, S) = SumFunctionOnSet(f, S)
<1>1. Points(g, S) = Points(f, S)
  BY DEF Points
<1> QED
  BY <1>1, SumIsCount

\* The sum over two disjoint sets.
LEMMA SumOfHalves ==
  ASSUME NEW S, IsFiniteSet(S), NEW T, IsFiniteSet(T), S \cap T = {},
         NEW fun, \A x \in S \cup T : fun[x] \in Nat
  PROVE  SumFunctionOnSet(fun, S \cup T)
           = SumFunctionOnSet(fun, S) + SumFunctionOnSet(fun, T)
<1>1. IsFiniteSet(S \cup T)
  BY FS_Union
<1>2. SumFunctionOnSet(fun, S \cup T) = Cardinality(Points(fun, S \cup T))
  BY <1>1, SumIsCount
<1>3. /\ SumFunctionOnSet(fun, S) = Cardinality(Points(fun, S))
      /\ SumFunctionOnSet(fun, T) = Cardinality(Points(fun, T))
  BY SumIsCount
<1> QED
  BY <1>2, <1>3, PointsOverHalves

\* The sum over one element.
LEMMA SumOfOne ==
  ASSUME NEW fun, NEW x, fun[x] \in Nat
  PROVE  SumFunctionOnSet(fun, {x}) = fun[x]
<1>1. IsFiniteSet({x}) /\ \A y \in {x} : fun[y] \in Nat
  BY FS_Singleton
<1> QED
  BY <1>1, SumIsCount, PointsOverOne

\* One more element adds its value.
LEMMA SumAddsOne ==
  ASSUME NEW S, IsFiniteSet(S), NEW x, x \notin S,
         NEW fun, \A y \in S \cup {x} : fun[y] \in Nat
  PROVE  SumFunctionOnSet(fun, S \cup {x}) = SumFunctionOnSet(fun, S) + fun[x]
<1>1. IsFiniteSet({x}) /\ S \cap {x} = {}
  BY FS_Singleton
<1>2. SumFunctionOnSet(fun, S \cup {x})
        = SumFunctionOnSet(fun, S) + SumFunctionOnSet(fun, {x})
  BY <1>1, SumOfHalves
<1> QED
  BY <1>2, SumOfOne

\* One element less takes its value away.
LEMMA SumDropsOne ==
  ASSUME NEW S, IsFiniteSet(S), NEW x \in S, NEW fun, \A y \in S : fun[y] \in Nat
  PROVE  SumFunctionOnSet(fun, S) = SumFunctionOnSet(fun, S \ {x}) + fun[x]
<1>1. IsFiniteSet(S \ {x}) /\ x \notin S \ {x} /\ S = (S \ {x}) \cup {x}
  BY FS_RemoveElement
<1>2. SumFunctionOnSet(fun, (S \ {x}) \cup {x}) = SumFunctionOnSet(fun, S \ {x}) + fun[x]
  <2>1. \A y \in (S \ {x}) \cup {x} : fun[y] \in Nat
    OBVIOUS
  <2> HIDE <1>1
  <2> QED
    BY <1>1, <2>1, SumAddsOne
<1> QED
  BY <1>1, <1>2

\* One value changed moves the sum by as much.
LEMMA SumMovesOne ==
  ASSUME NEW S, IsFiniteSet(S), NEW x \in S, NEW f, NEW g,
         \A y \in S : f[y] \in Nat /\ g[y] \in Nat,
         \A y \in S : y # x => g[y] = f[y]
  PROVE  SumFunctionOnSet(g, S) + f[x] = SumFunctionOnSet(f, S) + g[x]
<1> DEFINE r == S \ {x}
<1>1. IsFiniteSet(r)
  BY FS_RemoveElement
<1>2. SumFunctionOnSet(g, r) = SumFunctionOnSet(f, r)
  BY <1>1, SumSameValues
<1>3. /\ SumFunctionOnSet(f, S) = SumFunctionOnSet(f, r) + f[x]
      /\ SumFunctionOnSet(g, S) = SumFunctionOnSet(g, r) + g[x]
  BY SumDropsOne
<1>4. SumFunctionOnSet(f, r) \in Nat /\ f[x] \in Nat /\ g[x] \in Nat
  BY <1>1, SumIsNatural
<1> HIDE DEF r
<1> QED
  BY <1>2, <1>3, <1>4

\* A part sums to no more than the whole.
LEMMA SumOfPart ==
  ASSUME NEW S, IsFiniteSet(S), NEW T \in SUBSET S, NEW fun, \A y \in S : fun[y] \in Nat
  PROVE  SumFunctionOnSet(fun, T) <= SumFunctionOnSet(fun, S)
<1> DEFINE r == S \ T
<1>1. /\ IsFiniteSet(T) /\ IsFiniteSet(r) /\ T \cap r = {} /\ T \cup r = S
      /\ \A y \in T \cup r : fun[y] \in Nat
  BY FS_Subset, FS_Difference
<1>2. SumFunctionOnSet(fun, T \cup r) = SumFunctionOnSet(fun, T) + SumFunctionOnSet(fun, r)
  BY <1>1, SumOfHalves
<1>3. SumFunctionOnSet(fun, T) \in Nat /\ SumFunctionOnSet(fun, r) \in Nat
  BY <1>1, SumIsNatural
<1>4. SumFunctionOnSet(fun, S) = SumFunctionOnSet(fun, T) + SumFunctionOnSet(fun, r)
  BY <1>1, <1>2
<1> QED
  BY <1>3, <1>4

\* A sum does not change when its terms are given other names.
LEMMA SumRenamed ==
  ASSUME NEW S, IsFiniteSet(S), NEW T, NEW h \in Bijection(S, T), NEW f, NEW g,
         \A x \in S : f[x] \in Nat /\ g[h[x]] = f[x]
  PROVE  SumFunctionOnSet(f, S) = SumFunctionOnSet(g, T)
<1>1. /\ h \in [S -> T]
      /\ \A x, y \in S : h[x] = h[y] => x = y
      /\ \A y \in T : \E x \in S : h[x] = y
  BY DEF Bijection, Injection, Surjection, IsInjective
<1>2. IsFiniteSet(T) /\ \A y \in T : g[y] \in Nat
  BY <1>1, FS_Bijection DEF ExistsBijection
<1> DEFINE F == [e \in Points(f, S) |-> <<h[e[1]], e[2]>>]
<1>3. F \in [Points(f, S) -> Points(g, T)]
  BY <1>1 DEF Points
<1>4. \A d, e \in Points(f, S) : F[d] = F[e] => d = e
  <2> SUFFICES ASSUME NEW d \in Points(f, S), NEW e \in Points(f, S), F[d] = F[e] PROVE d = e
    OBVIOUS
  <2>1. d = <<d[1], d[2]>> /\ d[1] \in S /\ e = <<e[1], e[2]>> /\ e[1] \in S
    BY DEF Points
  <2>2. h[d[1]] = h[e[1]] /\ d[2] = e[2]
    OBVIOUS
  <2> QED
    BY <1>1, <2>1, <2>2
<1>5. \A d \in Points(g, T) : \E e \in Points(f, S) : F[e] = d
  <2> SUFFICES ASSUME NEW d \in Points(g, T) PROVE \E e \in Points(f, S) : F[e] = d
    OBVIOUS
  <2>1. d = <<d[1], d[2]>> /\ d[1] \in T /\ d[2] \in Nat /\ d[2] < g[d[1]]
    BY DEF Points
  <2>2. PICK x \in S : h[x] = d[1]
    BY <1>1, <2>1
  <2> DEFINE e == <<x, d[2]>>
  <2>3. e \in Points(f, S)
    BY <2>1, <2>2 DEF Points
  <2>4. F[e] = d
    BY <2>1, <2>2, <2>3
  <2> HIDE DEF F, e
  <2> QED
    BY <2>3, <2>4
<1>6. F \in Bijection(Points(f, S), Points(g, T))
  <2> HIDE DEF F
  <2> QED
    BY <1>3, <1>4, <1>5 DEF Bijection, Injection, Surjection, IsInjective
<1>7. IsFiniteSet(Points(f, S))
  BY PointsFinite
<1>8. Cardinality(Points(f, S)) = Cardinality(Points(g, T))
  BY <1>6, <1>7, FS_Bijection DEF ExistsBijection
<1>9. SumFunctionOnSet(f, S) = Cardinality(Points(f, S))
  BY SumIsCount
<1>10. SumFunctionOnSet(g, T) = Cardinality(Points(g, T))
  BY <1>2, SumIsCount
<1> QED
  BY <1>8, <1>9, <1>10
=============================================================================
