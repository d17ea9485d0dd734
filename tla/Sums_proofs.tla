----------------------------- MODULE Sums_proofs -----------------------------
(***************************************************************************)
(* Sums over finite sets.  The library defines its sum by a recursion that *)
(* picks the members in some order.  Here: the recursion has one solution  *)
(* over a finite set, so any member may be taken out first, and what       *)
(* follows for values that grow or change.                                 *)
(*                                                                         *)
(* The library's induction theorems take the formula as a parameter, which *)
(* the provers cannot instantiate.  Instead, a least counterexample: a     *)
(* family of subsets that is not empty has a member of least size.         *)
(***************************************************************************)
EXTENDS Integers, FiniteSets, FiniteSetsExt, Functions, FiniteSetTheorems, WellFoundedInduction, TLAPS

-----------------------------------------------------------------------------
\* A set of naturals that is not empty has a least member.
LEMMA LeastNat == ASSUME NEW S \in SUBSET Nat, S # {} PROVE \E x \in S : \A y \in S : x <= y
<1>1. PICK x \in S : \A y \in S : <<y, x>> \notin OpToRel(<, Nat)
  BY NatLessThanWellFounded, WFMin, Zenon
<1>2. \A y \in S : ~ (y < x)
  <2> SUFFICES ASSUME NEW y \in S, y < x PROVE FALSE
    OBVIOUS
  <2>1. <<y, x>> \in OpToRel(<, Nat)
    BY DEF OpToRel
  <2> QED BY <1>1, <2>1
<1> QED BY <1>2

\* The least member is a member (the first slot, the first level a pass takes).
LEMMA MinOf ==
  ASSUME NEW S \in SUBSET Nat, S # {}
  PROVE  Min(S) \in S
BY LeastNat DEF Min


-----------------------------------------------------------------------------
\* The recursion that sums a function over a finite set, and its solutions.
Pick1(s) == CHOOSE x \in s : TRUE

IsSum(f, S, h) ==
  h = [s \in SUBSET S |-> IF s = {} THEN 0 ELSE f[Pick1(s)] + h[s \ {Pick1(s)}]]

SumOf(f, S) == CHOOSE h : IsSum(f, S, h)

\* What the fold picks is a member.
LEMMA PickMember == \A s : s # {} => Pick1(s) \in s
BY DEF Pick1

\* A set without one of its members is smaller.
LEMMA Smaller ==
  ASSUME NEW s, IsFiniteSet(s), NEW x \in s
  PROVE  /\ IsFiniteSet(s \ {x}) /\ Cardinality(s) \in Nat
         /\ Cardinality(s \ {x}) \in Nat /\ Cardinality(s \ {x}) < Cardinality(s)
<1>1. IsFiniteSet(s \ {x}) /\ Cardinality(s \ {x}) = Cardinality(s) - 1
  BY FS_RemoveElement
<1> QED BY <1>1, FS_CardinalityType

\* Two solutions agree wherever both are defined.
LEMMA SumsAgree ==
  ASSUME NEW f, NEW S, NEW T, NEW g, NEW h, IsSum(f, S, g), IsSum(f, T, h),
         NEW u, IsFiniteSet(u), u \subseteq S, u \subseteq T
  PROVE  g[u] = h[u]
<1> DEFINE Bad == {n \in Nat : \E s \in SUBSET u : g[s] # h[s] /\ IsFiniteSet(s) /\ Cardinality(s) = n}
<1> SUFFICES ASSUME g[u] # h[u] PROVE FALSE
  OBVIOUS
<1>1. Cardinality(u) \in Bad
  BY FS_CardinalityType
<1>2. PICK n \in Bad : \A m \in Bad : n <= m
  <2>1. Bad \in SUBSET Nat /\ Bad # {}
    BY <1>1
  <2> HIDE DEF Bad
  <2> QED BY <2>1, LeastNat
<1>3. PICK s \in SUBSET u : g[s] # h[s] /\ IsFiniteSet(s) /\ Cardinality(s) = n
  OBVIOUS
<1>4. s \in SUBSET S /\ s \in SUBSET T
  OBVIOUS
<1>5. s # {}
  <2>1. s = {} => g[s] = 0 /\ h[s] = 0
    BY <1>4 DEF IsSum
  <2> QED BY <1>3, <2>1
<1> DEFINE v == s \ {Pick1(s)}
<1>6. g[s] = f[Pick1(s)] + g[v] /\ h[s] = f[Pick1(s)] + h[v]
  BY <1>4, <1>5 DEF IsSum
<1>7. g[v] # h[v] /\ v \in SUBSET u
  BY <1>3, <1>6
<1>8. IsFiniteSet(v) /\ Cardinality(v) \in Nat /\ Cardinality(v) < n /\ n \in Nat
  BY <1>3, <1>5, PickMember, Smaller
<1>9. Cardinality(v) \in Bad
  BY <1>7, <1>8
<1>10. n <= Cardinality(v)
  BY <1>2, <1>9
<1> QED BY <1>8, <1>10

\* The recursion has a solution over every finite set.
LEMMA SumExists ==
  ASSUME NEW f, NEW S, IsFiniteSet(S)
  PROVE  IsSum(f, S, SumOf(f, S))
<1> DEFINE Has(s) == \E h : IsSum(f, s, h)
           Bad    == {n \in Nat : \E s : IsFiniteSet(s) /\ Cardinality(s) = n /\ ~ Has(s)}
<1> SUFFICES Has(S)
  BY DEF SumOf
<1> SUFFICES ASSUME ~ Has(S) PROVE FALSE
  OBVIOUS
<1>1. Cardinality(S) \in Bad
  BY FS_CardinalityType
<1>2. PICK n \in Bad : \A m \in Bad : n <= m
  <2>1. Bad \in SUBSET Nat /\ Bad # {}
    BY <1>1
  <2> HIDE DEF Bad
  <2> QED BY <2>1, LeastNat
<1>3. PICK T : IsFiniteSet(T) /\ Cardinality(T) = n /\ ~ Has(T)
  OBVIOUS
<1>4. ASSUME NEW s, IsFiniteSet(s), Cardinality(s) < n PROVE IsSum(f, s, SumOf(f, s))
  <2>1. Cardinality(s) \in Nat /\ n \in Nat
    BY <1>4, FS_CardinalityType
  <2>2. Has(s)
    BY <1>2, <1>4, <2>1
  <2> QED BY <2>2 DEF SumOf
<1> HIDE DEF Has, Bad
<1> DEFINE rest(s) == s \ {Pick1(s)}
           h == [s \in SUBSET T |-> IF s = {} THEN 0 ELSE f[Pick1(s)] + SumOf(f, rest(s))[rest(s)]]
<1>5. ASSUME NEW s \in SUBSET T, s # {}
      PROVE  /\ rest(s) \in SUBSET T /\ IsFiniteSet(rest(s)) /\ rest(s) \subseteq s
             /\ IsSum(f, rest(s), SumOf(f, rest(s)))
  <2>1. IsFiniteSet(s) /\ Cardinality(s) <= n /\ Cardinality(s) \in Nat
    BY <1>3, FS_Subset, FS_CardinalityType
  <2>2. IsFiniteSet(rest(s)) /\ Cardinality(rest(s)) < Cardinality(s) /\ Cardinality(rest(s)) \in Nat
    BY <1>5, <2>1, PickMember, Smaller
  <2>3. Cardinality(rest(s)) < n
    BY <1>3, <2>1, <2>2, FS_CardinalityType
  <2> QED BY <1>4, <2>2, <2>3
<1>6. ASSUME NEW s \in SUBSET T, s # {}
      PROVE  h[rest(s)] = SumOf(f, rest(s))[rest(s)]
  <2> DEFINE u == rest(s)
  <2>1. u \in SUBSET T /\ IsFiniteSet(u) /\ IsSum(f, u, SumOf(f, u))
    BY <1>5, <1>6
  <2>2. CASE u = {}
    <3>1. SumOf(f, u)[u] = 0
      BY <2>1, <2>2 DEF IsSum
    <3>2. h[u] = 0
      BY <2>1, <2>2
    <3> QED BY <3>1, <3>2
  <2>3. CASE u # {}
    <3>1. SumOf(f, u)[u] = f[Pick1(u)] + SumOf(f, u)[rest(u)]
      BY <2>1, <2>3 DEF IsSum
    <3>2. h[u] = f[Pick1(u)] + SumOf(f, rest(u))[rest(u)]
      BY <2>1, <2>3
    <3>3. IsFiniteSet(rest(u)) /\ rest(u) \subseteq u /\ IsSum(f, rest(u), SumOf(f, rest(u)))
      BY <1>5, <2>1, <2>3
    <3>4. SumOf(f, u)[rest(u)] = SumOf(f, rest(u))[rest(u)]
      BY <2>1, <3>3, SumsAgree
    <3> QED BY <3>1, <3>2, <3>4
  <2> QED BY <2>2, <2>3
<1>7. \A s \in SUBSET T : h[s] = IF s = {} THEN 0 ELSE f[Pick1(s)] + h[rest(s)]
  BY <1>6
<1>8. h = [s \in SUBSET T |-> h[s]]
  OBVIOUS
<1> HIDE DEF h
<1>9. IsSum(f, T, h)
  BY <1>7, <1>8 DEF IsSum
<1> QED BY <1>3, <1>9 DEF Has

\* The library's sum is that solution.
LEMMA SumUnfolds ==
  ASSUME NEW f, NEW S
  PROVE  SumFunctionOnSet(f, S) = SumOf(f, S)[S]
BY DEF SumFunctionOnSet, FoldFunctionOnSet, MapThenFoldSet, SumOf, IsSum, Pick1

\* The sum over no values.
LEMMA SumEmpty == ASSUME NEW f PROVE SumFunctionOnSet(f, {}) = 0
<1>1. IsSum(f, {}, SumOf(f, {}))
  BY SumExists, FS_EmptySet
<1> QED BY <1>1, SumUnfolds DEF IsSum

\* The sum takes one member at a time.
LEMMA SumPicks ==
  ASSUME NEW f, NEW S, IsFiniteSet(S), S # {}
  PROVE  /\ Pick1(S) \in S /\ IsFiniteSet(S \ {Pick1(S)})
         /\ SumFunctionOnSet(f, S) = f[Pick1(S)] + SumFunctionOnSet(f, S \ {Pick1(S)})
<1> DEFINE u == S \ {Pick1(S)}
<1>1. IsSum(f, S, SumOf(f, S)) /\ IsFiniteSet(u)
  BY SumExists, PickMember, Smaller
<1>2. IsSum(f, u, SumOf(f, u))
  BY <1>1, SumExists
<1>3. SumOf(f, S)[u] = SumOf(f, u)[u]
  BY <1>1, <1>2, SumsAgree
<1>4. SumOf(f, S)[S] = f[Pick1(S)] + SumOf(f, S)[u]
  BY <1>1 DEF IsSum
<1> QED BY <1>1, <1>3, <1>4, SumUnfolds, PickMember

\* A family of subsets of a finite set has a member that no removal keeps in it.
LEMMA Minimal ==
  ASSUME NEW S, IsFiniteSet(S), NEW F \in SUBSET (SUBSET S), F # {}
  PROVE  \E s \in F : IsFiniteSet(s) /\ \A x \in s : s \ {x} \notin F
<1> DEFINE sizes == {Cardinality(s) : s \in F}
<1>1. \A s \in SUBSET S : IsFiniteSet(s) /\ Cardinality(s) \in Nat
  BY FS_Subset, FS_CardinalityType
<1>2. PICK n \in sizes : \A m \in sizes : n <= m
  <2>1. sizes \in SUBSET Nat /\ sizes # {}
    BY <1>1
  <2> HIDE DEF sizes
  <2> QED BY <2>1, LeastNat
<1>3. PICK s \in F : Cardinality(s) = n
  OBVIOUS
<1>4. ASSUME NEW x \in s, s \ {x} \in F PROVE FALSE
  <2>1. n <= Cardinality(s \ {x})
    BY <1>2, <1>4
  <2>2. Cardinality(s \ {x}) < Cardinality(s) /\ Cardinality(s) \in Nat /\ Cardinality(s \ {x}) \in Nat
    BY <1>1, Smaller
  <2> QED BY <1>3, <2>1, <2>2
<1> QED BY <1>1, <1>3, <1>4

\* A sum of integers is an integer.
LEMMA SumTyped ==
  ASSUME NEW S, IsFiniteSet(S), NEW f, \A x \in S : f[x] \in Int
  PROVE  SumFunctionOnSet(f, S) \in Int
<1> DEFINE F == {s \in SUBSET S : SumFunctionOnSet(f, s) \notin Int}
<1> SUFFICES ASSUME F # {} PROVE FALSE
  OBVIOUS
<1>1. PICK s \in F : IsFiniteSet(s) /\ \A x \in s : s \ {x} \notin F
  BY Minimal
<1>2. s # {}
  BY SumEmpty
<1>3. PICK x \in s : SumFunctionOnSet(f, s) = f[x] + SumFunctionOnSet(f, s \ {x})
  BY <1>1, <1>2, SumPicks
<1> QED BY <1>1, <1>3

\* Any member may be taken out first.
LEMMA SumRemoves ==
  ASSUME NEW S, IsFiniteSet(S), NEW f, \A x \in S : f[x] \in Int, NEW x \in S
  PROVE  SumFunctionOnSet(f, S) = f[x] + SumFunctionOnSet(f, S \ {x})
<1> DEFINE Sum(s) == SumFunctionOnSet(f, s)
           F == {s \in SUBSET S : \E y \in s : Sum(s) # f[y] + Sum(s \ {y})}
<1> SUFFICES ASSUME F # {} PROVE FALSE
  OBVIOUS
<1>1. PICK s \in F : IsFiniteSet(s) /\ \A y \in s : s \ {y} \notin F
  BY Minimal
<1>2. PICK y \in s : Sum(s) # f[y] + Sum(s \ {y})
  OBVIOUS
<1>3. PICK z \in s : Sum(s) = f[z] + Sum(s \ {z})
  <2>1. Pick1(s) \in s /\ SumFunctionOnSet(f, s) = f[Pick1(s)] + SumFunctionOnSet(f, s \ {Pick1(s)})
    BY <1>1, SumPicks
  <2> QED BY <2>1
<1>4. y # z /\ y \in s \ {z} /\ z \in s \ {y} /\ (s \ {y}) \ {z} = (s \ {z}) \ {y}
  BY <1>2, <1>3
<1>5. Sum(s \ {z}) = f[y] + Sum((s \ {z}) \ {y}) /\ Sum(s \ {y}) = f[z] + Sum((s \ {y}) \ {z})
  BY <1>1, <1>4
<1>6. Sum((s \ {z}) \ {y}) \in Int /\ f[y] \in Int /\ f[z] \in Int
  BY <1>1, FS_Subset, SumTyped
<1> HIDE DEF Sum
<1>7. f[y] + (f[z] + Sum((s \ {z}) \ {y})) = f[z] + (f[y] + Sum((s \ {z}) \ {y}))
  BY <1>6
<1> QED BY <1>2, <1>3, <1>4, <1>5, <1>7

\* Values no smaller have a sum no smaller.
LEMMA SumGrows ==
  ASSUME NEW S, IsFiniteSet(S), NEW f, NEW g,
         \A x \in S : f[x] \in Int /\ g[x] \in Int /\ f[x] <= g[x]
  PROVE  SumFunctionOnSet(f, S) <= SumFunctionOnSet(g, S)
<1> DEFINE F == {s \in SUBSET S : ~ (SumFunctionOnSet(f, s) <= SumFunctionOnSet(g, s))}
<1> SUFFICES ASSUME F # {} PROVE FALSE
  OBVIOUS
<1>1. PICK s \in F : IsFiniteSet(s) /\ \A x \in s : s \ {x} \notin F
  BY Minimal
<1>2. PICK x \in s : TRUE
  BY SumEmpty
<1> DEFINE u == s \ {x}
<1>3. /\ SumFunctionOnSet(f, s) = f[x] + SumFunctionOnSet(f, u)
      /\ SumFunctionOnSet(g, s) = g[x] + SumFunctionOnSet(g, u)
  BY <1>1, SumRemoves
<1>4. SumFunctionOnSet(f, u) \in Int /\ SumFunctionOnSet(g, u) \in Int
  BY <1>1, FS_Subset, SumTyped
<1>5. SumFunctionOnSet(f, u) <= SumFunctionOnSet(g, u) /\ f[x] <= g[x] /\ f[x] \in Int /\ g[x] \in Int
  BY <1>1
<1>6. f[x] + SumFunctionOnSet(f, u) <= g[x] + SumFunctionOnSet(g, u)
  BY <1>4, <1>5
<1> QED BY <1>3, <1>6

\* Equal values have equal sums.
LEMMA SumSame ==
  ASSUME NEW S, IsFiniteSet(S), NEW f, NEW g, \A x \in S : f[x] \in Int /\ g[x] = f[x]
  PROVE  SumFunctionOnSet(f, S) = SumFunctionOnSet(g, S)
<1>1. /\ SumFunctionOnSet(f, S) \in Int /\ SumFunctionOnSet(g, S) \in Int
      /\ SumFunctionOnSet(f, S) <= SumFunctionOnSet(g, S)
      /\ SumFunctionOnSet(g, S) <= SumFunctionOnSet(f, S)
  BY SumTyped, SumGrows
<1> QED BY <1>1

\* One value changed.
LEMMA SumChanges ==
  ASSUME NEW S, IsFiniteSet(S), NEW f, NEW g, NEW x \in S, \A y \in S : f[y] \in Int,
         g[x] \in Int, \A y \in S \ {x} : g[y] = f[y]
  PROVE  SumFunctionOnSet(g, S) = SumFunctionOnSet(f, S) + g[x] - f[x]
<1> DEFINE u == S \ {x}
<1>1. /\ SumFunctionOnSet(f, S) = f[x] + SumFunctionOnSet(f, u)
      /\ SumFunctionOnSet(g, S) = g[x] + SumFunctionOnSet(g, u)
  BY SumRemoves
<1>2. SumFunctionOnSet(f, u) = SumFunctionOnSet(g, u) /\ SumFunctionOnSet(f, u) \in Int
  BY FS_Subset, SumSame, SumTyped
<1> QED BY <1>1, <1>2

\* Part of the values set to zero.
LEMMA SumClears ==
  ASSUME NEW S, IsFiniteSet(S), NEW D, NEW f, NEW g,
         \A x \in S : f[x] \in Int /\ g[x] = IF x \in D THEN 0 ELSE f[x]
  PROVE  SumFunctionOnSet(g, S) = SumFunctionOnSet(f, S) - SumFunctionOnSet(f, D \cap S)
<1> DEFINE F == {s \in SUBSET S :
                   SumFunctionOnSet(g, s) # SumFunctionOnSet(f, s) - SumFunctionOnSet(f, D \cap s)}
<1> SUFFICES ASSUME F # {} PROVE FALSE
  OBVIOUS
<1>1. PICK s \in F : IsFiniteSet(s) /\ \A x \in s : s \ {x} \notin F
  BY Minimal
<1>2. PICK x \in s : TRUE
  <2>1. D \cap {} = {}
    OBVIOUS
  <2>2. {} \notin F
    BY <2>1, SumEmpty
  <2> QED BY <2>2
<1> DEFINE u == s \ {x}
<1>3. /\ SumFunctionOnSet(f, s) = f[x] + SumFunctionOnSet(f, u)
      /\ SumFunctionOnSet(g, s) = g[x] + SumFunctionOnSet(g, u)
  BY <1>1, SumRemoves
<1>4. IsFiniteSet(u) /\ IsFiniteSet(D \cap u) /\ IsFiniteSet(D \cap s)
  BY <1>1, FS_Subset
<1>5. SumFunctionOnSet(f, u) \in Int /\ SumFunctionOnSet(g, u) \in Int /\ SumFunctionOnSet(f, D \cap u) \in Int
  <2>1. \A y \in u : f[y] \in Int /\ g[y] \in Int
    OBVIOUS
  <2> QED BY <1>4, <2>1, SumTyped
<1>6. SumFunctionOnSet(g, u) = SumFunctionOnSet(f, u) - SumFunctionOnSet(f, D \cap u)
  BY <1>1
<1>7. f[x] \in Int /\ g[x] = IF x \in D THEN 0 ELSE f[x]
  OBVIOUS
<1>8. SumFunctionOnSet(f, D \cap s) = f[x] - g[x] + SumFunctionOnSet(f, D \cap u)
  <2>1. CASE x \in D
    <3>1. (D \cap s) \ {x} = D \cap u /\ x \in D \cap s /\ \A y \in D \cap s : f[y] \in Int
      BY <2>1
    <3>2. SumFunctionOnSet(f, D \cap s) = f[x] + SumFunctionOnSet(f, D \cap u)
      BY <1>4, <3>1, SumRemoves
    <3> QED BY <1>5, <1>7, <2>1, <3>2
  <2>2. CASE x \notin D
    <3>1. D \cap s = D \cap u
      BY <2>2
    <3>2. f[x] - g[x] = 0
      BY <1>7, <2>2
    <3>3. SumFunctionOnSet(f, D \cap u) = 0 + SumFunctionOnSet(f, D \cap u)
      BY <1>5
    <3> QED BY <3>1, <3>2, <3>3
  <2> QED BY <2>1, <2>2
<1>9. SumFunctionOnSet(g, s) # SumFunctionOnSet(f, s) - SumFunctionOnSet(f, D \cap s)
  OBVIOUS
<1> HIDE DEF u, F
<1>10. g[x] \in Int
  BY <1>7
<1> QED BY <1>3, <1>5, <1>6, <1>7, <1>8, <1>9, <1>10

\* No values but zero.
LEMMA SumZero ==
  ASSUME NEW S, IsFiniteSet(S), NEW f, \A x \in S : f[x] = 0
  PROVE  SumFunctionOnSet(f, S) = 0
<1> DEFINE F == {s \in SUBSET S : SumFunctionOnSet(f, s) # 0}
<1> SUFFICES ASSUME F # {} PROVE FALSE
  OBVIOUS
<1>1. PICK s \in F : IsFiniteSet(s) /\ \A x \in s : s \ {x} \notin F
  BY Minimal
<1>2. PICK x \in s : TRUE
  BY SumEmpty
<1>3. SumFunctionOnSet(f, s) = f[x] + SumFunctionOnSet(f, s \ {x}) /\ f[x] = 0
  BY <1>1, SumRemoves
<1>4. SumFunctionOnSet(f, s \ {x}) = 0
  BY <1>1
<1>5. SumFunctionOnSet(f, s) = 0
  BY <1>3, <1>4
<1> QED BY <1>5

\* Values that are not negative: a part's sum is no more than the whole's.
LEMMA SumPart ==
  ASSUME NEW S, IsFiniteSet(S), NEW f, \A x \in S : f[x] \in Nat, NEW D \in SUBSET S
  PROVE  SumFunctionOnSet(f, D) \in Nat /\ SumFunctionOnSet(f, D) <= SumFunctionOnSet(f, S)
<1> DEFINE none == [x \in S |-> 0]
           rest == [x \in S |-> IF x \in D THEN 0 ELSE f[x]]
<1>1. IsFiniteSet(D) /\ D \cap S = D /\ (\A x \in S : none[x] \in Int /\ f[x] \in Int)
  BY FS_Subset
<1>2. SumFunctionOnSet(none, S) = 0 /\ SumFunctionOnSet(none, D) = 0
  BY <1>1, SumZero
<1>3. SumFunctionOnSet(none, S) <= SumFunctionOnSet(rest, S)
  <2>1. \A x \in S : none[x] \in Int /\ rest[x] \in Int /\ none[x] <= rest[x]
    OBVIOUS
  <2> HIDE DEF none, rest
  <2> QED BY <2>1, SumGrows
<1>4. SumFunctionOnSet(none, D) <= SumFunctionOnSet(f, D)
  <2>1. \A x \in D : none[x] \in Int /\ f[x] \in Int /\ none[x] <= f[x]
    OBVIOUS
  <2> HIDE DEF none
  <2> QED BY <1>1, <2>1, SumGrows
<1>5. SumFunctionOnSet(rest, S) = SumFunctionOnSet(f, S) - SumFunctionOnSet(f, D \cap S)
  <2>1. \A x \in S : f[x] \in Int /\ rest[x] = IF x \in D THEN 0 ELSE f[x]
    OBVIOUS
  <2> HIDE DEF rest
  <2> QED BY <2>1, SumClears
<1>6. SumFunctionOnSet(f, S) \in Int /\ SumFunctionOnSet(f, D) \in Int
  BY <1>1, SumTyped
<1> HIDE DEF none, rest
<1>7. 0 <= SumFunctionOnSet(f, D)
  BY <1>2, <1>4
<1>8. 0 <= SumFunctionOnSet(f, S) - SumFunctionOnSet(f, D)
  BY <1>1, <1>2, <1>3, <1>5
<1> QED BY <1>6, <1>7, <1>8

\* A sum over part of a set, as one over the whole of it.
LEMMA SumRestrict ==
  ASSUME NEW S, IsFiniteSet(S), NEW D \in SUBSET S, NEW f, NEW g,
         \A x \in S : g[x] = IF x \in D THEN f[x] ELSE 0, \A x \in D : f[x] \in Int
  PROVE  SumFunctionOnSet(f, D) = SumFunctionOnSet(g, S)
<1> DEFINE none == [x \in S |-> 0]
<1>1. IsFiniteSet(D) /\ D \cap S = D /\ (\A x \in S : g[x] \in Int)
  BY FS_Subset
<1>2. SumFunctionOnSet(none, S) = SumFunctionOnSet(g, S) - SumFunctionOnSet(g, D \cap S)
  <2>1. \A x \in S : g[x] \in Int /\ none[x] = IF x \in D THEN 0 ELSE g[x]
    OBVIOUS
  <2> HIDE DEF none
  <2> QED BY <2>1, SumClears
<1>3. SumFunctionOnSet(none, S) = 0
  BY SumZero
<1>4. SumFunctionOnSet(f, D) = SumFunctionOnSet(g, D)
  <2>1. \A x \in D : f[x] \in Int /\ g[x] = f[x]
    OBVIOUS
  <2> QED BY <1>1, <2>1, SumSame
<1>5. SumFunctionOnSet(g, S) \in Int /\ SumFunctionOnSet(g, D) \in Int
  BY <1>1, SumTyped
<1>6. SumFunctionOnSet(g, D \cap S) = SumFunctionOnSet(g, D)
  BY <1>1, Zenon
<1> HIDE DEF none
<1>7. 0 = SumFunctionOnSet(g, S) - SumFunctionOnSet(g, D)
  BY <1>2, <1>3, <1>6
<1> QED BY <1>4, <1>5, <1>7

\* A sum over two sets with nothing in common.
LEMMA SumParts ==
  ASSUME NEW A, NEW B, IsFiniteSet(A \cup B), A \cap B = {}, NEW f, \A x \in A \cup B : f[x] \in Int
  PROVE  SumFunctionOnSet(f, A \cup B) = SumFunctionOnSet(f, A) + SumFunctionOnSet(f, B)
<1> DEFINE S == A \cup B
           g == [x \in S |-> IF x \in B THEN f[x] ELSE 0]
<1>1. IsFiniteSet(A) /\ IsFiniteSet(B) /\ A \cap S = A /\ B \in SUBSET S
  BY FS_Subset
<1>2. SumFunctionOnSet(f, B) = SumFunctionOnSet(g, S)
  <2>1. (\A x \in S : g[x] = IF x \in B THEN f[x] ELSE 0) /\ \A x \in B : f[x] \in Int
    OBVIOUS
  <2> HIDE DEF g, S
  <2>2. IsFiniteSet(S)
    BY DEF S
  <2> QED BY <1>1, <2>1, <2>2, SumRestrict
<1>3. SumFunctionOnSet(g, S) = SumFunctionOnSet(f, S) - SumFunctionOnSet(f, A \cap S)
  <2>1. \A x \in S : f[x] \in Int /\ g[x] = IF x \in A THEN 0 ELSE f[x]
    OBVIOUS
  <2> HIDE DEF g, S
  <2>2. IsFiniteSet(S)
    BY DEF S
  <2> QED BY <2>1, <2>2, SumClears
<1>4. SumFunctionOnSet(f, A \cap S) = SumFunctionOnSet(f, A)
  BY <1>1, Zenon
<1>5. SumFunctionOnSet(f, A) \in Int /\ SumFunctionOnSet(f, S) \in Int
  <2>1. \A x \in A : f[x] \in Int
    OBVIOUS
  <2>2. \A x \in S : f[x] \in Int
    OBVIOUS
  <2> HIDE DEF S
  <2>3. IsFiniteSet(S)
    BY DEF S
  <2> QED BY <1>1, <2>1, <2>2, <2>3, SumTyped
<1> HIDE DEF g, S
<1>6. SumFunctionOnSet(f, S) = SumFunctionOnSet(f, A) + SumFunctionOnSet(f, B)
  BY <1>2, <1>3, <1>4, <1>5
<1> QED BY <1>6 DEF S

\* Two sums, taken together.
LEMMA SumAdds ==
  ASSUME NEW S, IsFiniteSet(S), NEW f, NEW g, NEW h,
         \A x \in S : f[x] \in Int /\ g[x] \in Int /\ h[x] = f[x] + g[x]
  PROVE  SumFunctionOnSet(h, S) = SumFunctionOnSet(f, S) + SumFunctionOnSet(g, S)
<1> DEFINE F == {s \in SUBSET S :
                   SumFunctionOnSet(h, s) # SumFunctionOnSet(f, s) + SumFunctionOnSet(g, s)}
<1> SUFFICES ASSUME F # {} PROVE FALSE
  OBVIOUS
<1>1. PICK s \in F : IsFiniteSet(s) /\ \A x \in s : s \ {x} \notin F
  BY Minimal
<1>2. PICK x \in s : TRUE
  <2>1. SumFunctionOnSet(f, {}) = 0 /\ SumFunctionOnSet(g, {}) = 0 /\ SumFunctionOnSet(h, {}) = 0
    BY SumEmpty
  <2>2. {} \notin F
    BY <2>1
  <2> QED BY <2>2
<1> DEFINE u == s \ {x}
<1>3. /\ SumFunctionOnSet(f, s) = f[x] + SumFunctionOnSet(f, u)
      /\ SumFunctionOnSet(g, s) = g[x] + SumFunctionOnSet(g, u)
      /\ SumFunctionOnSet(h, s) = h[x] + SumFunctionOnSet(h, u)
  BY <1>1, SumRemoves
<1>4. SumFunctionOnSet(f, u) \in Int /\ SumFunctionOnSet(g, u) \in Int
  <2>1. IsFiniteSet(u) /\ \A y \in u : f[y] \in Int /\ g[y] \in Int
    BY <1>1, FS_Subset
  <2> QED BY <2>1, SumTyped
<1>5. SumFunctionOnSet(h, u) = SumFunctionOnSet(f, u) + SumFunctionOnSet(g, u)
  BY <1>1
<1>6. f[x] \in Int /\ g[x] \in Int /\ h[x] = f[x] + g[x]
  OBVIOUS
<1>7. SumFunctionOnSet(h, s) # SumFunctionOnSet(f, s) + SumFunctionOnSet(g, s)
  OBVIOUS
<1> HIDE DEF u, F
<1> QED BY <1>3, <1>4, <1>5, <1>6, <1>7

\* The sum over one value.
LEMMA SumOne == ASSUME NEW f, NEW x, f[x] \in Int PROVE SumFunctionOnSet(f, {x}) = f[x]
<1>1. SumFunctionOnSet(f, {x}) = f[x] + SumFunctionOnSet(f, {x} \ {x})
  BY FS_Singleton, SumRemoves
<1>2. {x} \ {x} = {}
  OBVIOUS
<1> QED BY <1>1, <1>2, SumEmpty

\* The same values under other names.
LEMMA SumReindexed ==
  ASSUME NEW S, IsFiniteSet(S), NEW T, NEW b \in [S -> T], NEW f, NEW g,
         \A x, y \in S : b[x] = b[y] => x = y, \A y \in T : \E x \in S : b[x] = y,
         \A x \in S : f[x] \in Int /\ g[b[x]] = f[x]
  PROVE  SumFunctionOnSet(f, S) = SumFunctionOnSet(g, T)
<1> DEFINE image(s) == {b[x] : x \in s}
           F == {s \in SUBSET S : SumFunctionOnSet(f, s) # SumFunctionOnSet(g, image(s))}
<1>1. IsFiniteSet(T)
  <2>1. b \in Surjection(S, T)
    BY DEF Surjection
  <2> QED BY <2>1, FS_Surjection
<1>2. image(S) = T
  OBVIOUS
<1> SUFFICES ASSUME F # {} PROVE FALSE
  BY <1>2
<1>3. PICK s \in F : IsFiniteSet(s) /\ \A x \in s : s \ {x} \notin F
  BY Minimal
<1>4. PICK x \in s : TRUE
  <2>1. image({}) = {}
    OBVIOUS
  <2>2. {} \notin F
    BY <2>1, SumEmpty
  <2> QED BY <2>2
<1>5. SumFunctionOnSet(f, s) = f[x] + SumFunctionOnSet(f, s \ {x})
  BY <1>3, SumRemoves
<1>6. SumFunctionOnSet(g, image(s)) = g[b[x]] + SumFunctionOnSet(g, image(s) \ {b[x]})
  <2>1. image(s) \in SUBSET T /\ b[x] \in image(s)
    OBVIOUS
  <2>2. \A y \in image(s) : g[y] \in Int
    OBVIOUS
  <2> HIDE DEF image
  <2>3. IsFiniteSet(image(s))
    BY <1>1, <2>1, FS_Subset
  <2> QED BY <2>1, <2>2, <2>3, SumRemoves
<1>7. image(s) \ {b[x]} = image(s \ {x})
  OBVIOUS
<1>8. SumFunctionOnSet(f, s \ {x}) = SumFunctionOnSet(g, image(s \ {x}))
  BY <1>3
<1>9. g[b[x]] = f[x]
  OBVIOUS
<1>10. SumFunctionOnSet(f, s) # SumFunctionOnSet(g, image(s))
  OBVIOUS
<1> HIDE DEF image, F
<1> QED BY <1>5, <1>6, <1>7, <1>8, <1>9, <1>10
=============================================================================
