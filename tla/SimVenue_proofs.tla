---------------------------- MODULE SimVenue_proofs ----------------------------
(***************************************************************************)
(* The safety of the simulated venue's matching core, for any number of    *)
(* orders, any prices, placements, prints and book updates, any limits,    *)
(* fee and scale, and any bounds.                                          *)
(*                                                                         *)
(* The wallet's part of the invariant needs what each order has filled and *)
(* what its reservation still owes; the queues' part needs that a book     *)
(* that is not whole leaves nothing public known in any queue, and that    *)
(* matching is live only over a whole one.                                 *)
(*                                                                         *)
(* Two properties of its steps follow: what stands ahead of a resting      *)
(* order only shrinks, from how each operation maps positions of a queue   *)
(* to positions; and a print fills in order of price and place, from the   *)
(* order the orders stand and wait in, which is the order they were placed *)
(* in, and from what taking in turn takes and leaves.                      *)
(***************************************************************************)
EXTENDS SimVenue, Sums_proofs, SequenceTheorems

-----------------------------------------------------------------------------
(***************************************************************************)
(* Queues: the nodes that are kept                                         *)
(***************************************************************************)
\* Where a position comes among the positions that are kept.
Rank(ks, k) == Cardinality({j \in ks : j <= k})
Nth(ks) == [i \in 1 .. Cardinality(ks) |-> CHOOSE k \in ks : Rank(ks, k) = i]

\* The places that are kept are counted in their order.
LEMMA RankGrows ==
  ASSUME NEW n \in Nat, NEW ks \in SUBSET (1 .. n)
  PROVE  /\ IsFiniteSet(ks) /\ Cardinality(ks) \in Nat
         /\ \A k \in ks : Rank(ks, k) \in 1 .. Cardinality(ks)
         /\ \A j, k \in ks : j < k => Rank(ks, j) < Rank(ks, k)
<1> DEFINE upto(k) == {j \in ks : j <= k}
<1>1. IsFiniteSet(ks) /\ Cardinality(ks) \in Nat
  <2>1. IsFiniteSet(1 .. n)
    BY FS_Interval
  <2>2. IsFiniteSet(ks)
    BY <2>1, FS_Subset
  <2> QED BY <2>2, FS_CardinalityType
<1>2. ASSUME NEW s \in SUBSET ks
      PROVE  IsFiniteSet(s) /\ Cardinality(s) \in Nat /\ Cardinality(s) <= Cardinality(ks)
  <2>1. IsFiniteSet(s) /\ Cardinality(s) <= Cardinality(ks)
    BY <1>1, FS_Subset
  <2> QED BY <2>1, FS_CardinalityType
<1>3. ASSUME NEW k \in ks PROVE Rank(ks, k) \in 1 .. Cardinality(ks)
  <2>1. upto(k) \in SUBSET ks /\ k \in upto(k)
    OBVIOUS
  <2>2. Cardinality(upto(k)) # 0
    BY <1>2, <2>1, FS_EmptySet
  <2> HIDE DEF upto
  <2>3. Cardinality(upto(k)) \in 1 .. Cardinality(ks)
    BY <1>1, <1>2, <2>1, <2>2
  <2> QED BY <2>3 DEF Rank, upto
<1>4. ASSUME NEW j \in ks, NEW k \in ks, j < k PROVE Rank(ks, j) < Rank(ks, k)
  <2>1. upto(j) \in SUBSET upto(k) /\ upto(k) \in SUBSET ks /\ k \in upto(k) /\ k \notin upto(j)
    <3>1. j \in Int /\ k \in Int /\ \A i \in ks : i \in Int
      OBVIOUS
    <3>2. \A i \in ks : i <= j => i <= k
      BY <1>4, <3>1
    <3>3. k <= k /\ ~ (k <= j)
      BY <1>4, <3>1
    <3> QED BY <3>2, <3>3
  <2> HIDE DEF upto
  <2>0. IsFiniteSet(upto(k)) /\ upto(j) # upto(k)
    BY <1>2, <2>1
  <2>2. Cardinality(upto(j)) <= Cardinality(upto(k)) /\ Cardinality(upto(j)) # Cardinality(upto(k))
    BY <2>0, <2>1, FS_Subset
  <2>3. Cardinality(upto(j)) \in Nat /\ Cardinality(upto(k)) \in Nat
    BY <1>2, <2>1
  <2>4. Cardinality(upto(j)) < Cardinality(upto(k))
    BY <2>2, <2>3
  <2> QED BY <2>4 DEF Rank, upto
<1> QED BY <1>1, <1>3, <1>4

\* Every place up to their number is taken, by one of them.
LEMMA RankOnto ==
  ASSUME NEW n \in Nat, NEW ks \in SUBSET (1 .. n), NEW i \in 1 .. Cardinality(ks)
  PROVE  \E k \in ks : Rank(ks, k) = i
<1> DEFINE T == 1 .. Cardinality(ks)
           rank == [k \in ks |-> Rank(ks, k)]
<1>1. /\ IsFiniteSet(ks) /\ Cardinality(ks) \in Nat
      /\ \A k \in ks : Rank(ks, k) \in T
      /\ \A j, k \in ks : j < k => Rank(ks, j) < Rank(ks, k)
  BY RankGrows
<1>2. IsFiniteSet(T) /\ Cardinality(T) = Cardinality(ks)
  BY <1>1, FS_Interval
<1>3. \A j, k \in ks : rank[j] = rank[k] => j = k
  <2> SUFFICES ASSUME NEW j \in ks, NEW k \in ks, rank[j] = rank[k], j # k PROVE FALSE
    OBVIOUS
  <2>1. j < k \/ k < j
    OBVIOUS
  <2> QED BY <1>1, <2>1
<1>4. rank \in [ks -> T]
  BY <1>1
<1> HIDE DEF T
<1>5. rank \in Injection(ks, T)
  BY <1>3, <1>4 DEF Injection, IsInjective
<1>6. rank \in Surjection(ks, T)
  BY <1>2, <1>5, FS_Injection
<1>7. \E k \in ks : rank[k] = i
  BY <1>6 DEF Surjection, T
<1> QED BY <1>7

\* What is kept of a queue: the nodes at the places that are kept, in their order.
LEMMA KeptNth ==
  ASSUME NEW S, NEW q \in Seq(S), NEW ks \in SUBSET (DOMAIN q)
  PROVE  /\ IsFiniteSet(ks) /\ Cardinality(ks) \in Nat /\ Kept(q, ks) \in Seq(S)
         /\ Len(Kept(q, ks)) = Cardinality(ks) /\ DOMAIN Kept(q, ks) = 1 .. Cardinality(ks)
         /\ Nth(ks) \in [1 .. Cardinality(ks) -> ks]
         /\ \A i \in 1 .. Cardinality(ks) : Kept(q, ks)[i] = q[Nth(ks)[i]]
         /\ \A i, j \in 1 .. Cardinality(ks) : i < j => Nth(ks)[i] < Nth(ks)[j]
         /\ \A i, j \in 1 .. Cardinality(ks) : Nth(ks)[i] = Nth(ks)[j] => i = j
         /\ \A k \in ks : \E i \in 1 .. Cardinality(ks) : Nth(ks)[i] = k
<1> DEFINE N == Cardinality(ks)
           nth == Nth(ks)
<1>1. Len(q) \in Nat /\ DOMAIN q = 1 .. Len(q) /\ ks \in SUBSET (1 .. Len(q))
  BY LenProperties
<1>2. /\ IsFiniteSet(ks) /\ N \in Nat
      /\ \A k \in ks : Rank(ks, k) \in 1 .. N
      /\ \A j, k \in ks : j < k => Rank(ks, j) < Rank(ks, k)
  BY <1>1, RankGrows
<1>3. \A i \in 1 .. N : nth[i] \in ks /\ Rank(ks, nth[i]) = i
  BY <1>1, RankOnto DEF Nth
<1>4. Kept(q, ks) = [i \in 1 .. N |-> q[nth[i]]]
  BY DEF Kept, Rank, Nth
<1>5. \A i, j \in 1 .. N : i < j => nth[i] < nth[j]
  <2> SUFFICES ASSUME NEW i \in 1 .. N, NEW j \in 1 .. N, i < j, ~ (nth[i] < nth[j]) PROVE FALSE
    OBVIOUS
  <2> HIDE DEF nth
  <2>1. nth[j] < nth[i] \/ nth[i] = nth[j]
    BY <1>1, <1>3
  <2> QED BY <1>2, <1>3, <2>1
<1>6. ASSUME NEW k \in ks PROVE \E i \in 1 .. N : nth[i] = k
  <2> DEFINE i == Rank(ks, k)
  <2>1. i \in 1 .. N /\ nth[i] \in ks /\ Rank(ks, nth[i]) = i
    BY <1>2, <1>3
  <2> HIDE DEF nth
  <2>2. ~ (nth[i] < k) /\ ~ (k < nth[i])
    BY <1>2, <2>1
  <2>3. nth[i] = k
    BY <1>1, <2>1, <2>2
  <2> QED BY <2>1, <2>3
<1>7. nth \in [1 .. N -> ks]
  BY <1>3 DEF Nth
<1>8. \A i, j \in 1 .. N : nth[i] = nth[j] => i = j
  BY <1>3
<1> HIDE DEF nth
<1>9. \A i \in 1 .. N : q[nth[i]] \in S
  BY <1>1, <1>3, ElementOfSeq
<1>10. Kept(q, ks) \in [1 .. N -> S]
  BY <1>4, <1>9
<1>11. Kept(q, ks) \in Seq(S) /\ Len(Kept(q, ks)) = N /\ DOMAIN Kept(q, ks) = 1 .. N
  BY <1>2, <1>10
<1>12. \A i \in 1 .. N : Kept(q, ks)[i] = q[nth[i]]
  BY <1>4
<1> QED BY <1>2, <1>5, <1>6, <1>7, <1>8, <1>11, <1>12 DEF nth

-----------------------------------------------------------------------------
\* What each place holds of known public liquidity, and what the nodes are.
Values(q) == [k \in DOMAIN q |-> IF IsKnown(q[k]) THEN q[k].qty ELSE 0]

\* What the nodes are, public, unseen and own.
LEMMA NodesAre ==
  /\ Order \subseteq Nat \ {0} /\ Nobody \notin Order /\ IsFiniteSet(Order)
  /\ \A n \in Nat : Public(n) \in Nodes /\ IsKnown(Public(n)) /\ ~ IsOwn(Public(n)) /\ Public(n) # Unseen
  /\ Unseen \in Nodes /\ ~ IsKnown(Unseen) /\ ~ IsOwn(Unseen)
  /\ \A o \in Order : Own(o) \in Nodes /\ IsOwn(Own(o)) /\ ~ IsKnown(Own(o)) /\ Own(o) # Unseen
  /\ \A n \in Nodes : /\ IsKnown(n) => n.qty \in Nat
                      /\ IsOwn(n) => n.who \in Order /\ n # Unseen
                      /\ n.who = Nobody => IsKnown(n) \/ n = Unseen
<1>1. MaxOrders \in Nat
  BY VenueAssumption
<1>2. Order \subseteq Nat \ {0} /\ Nobody \notin Order
  BY <1>1 DEF Order, Nobody
<1>3. IsFiniteSet(Order)
  BY <1>1, FS_Interval DEF Order
<1>4. \A n \in Nat : Public(n) \in Nodes /\ IsKnown(Public(n)) /\ ~ IsOwn(Public(n)) /\ Public(n) # Unseen
  BY DEF Public, Nodes, IsKnown, IsOwn, Unseen, Hidden
<1>5. Unseen \in Nodes /\ ~ IsKnown(Unseen) /\ ~ IsOwn(Unseen)
  BY DEF Public, Nodes, IsKnown, IsOwn, Unseen, Hidden
<1>6. \A o \in Order : Own(o) \in Nodes /\ IsOwn(Own(o)) /\ ~ IsKnown(Own(o)) /\ Own(o) # Unseen
  BY <1>2 DEF Public, Own, Nodes, IsKnown, IsOwn, Unseen, Hidden
<1>7. ASSUME NEW n \in Nodes
      PROVE  /\ IsKnown(n) => n.qty \in Nat
             /\ IsOwn(n) => n.who \in Order /\ n # Unseen
             /\ n.who = Nobody => IsKnown(n) \/ n = Unseen
  BY <1>2 DEF Public, Nodes, IsKnown, IsOwn, Unseen, Hidden
<1> QED BY <1>2, <1>3, <1>4, <1>5, <1>6, <1>7

\* The known quantity of a queue is a natural number.
LEMMA KnownTyped ==
  ASSUME NEW q \in Seq(Nodes)
  PROVE  /\ Len(q) \in Nat /\ DOMAIN q = 1 .. Len(q) /\ IsFiniteSet(DOMAIN q)
         /\ \A k \in DOMAIN q : q[k] \in Nodes /\ Values(q)[k] \in Nat
         /\ \A k \in DOMAIN q : Values(q)[k] = IF IsKnown(q[k]) THEN q[k].qty ELSE 0
         /\ \A ks \in SUBSET DOMAIN q :
              /\ KnownIn(q, ks) = SumFunctionOnSet(Values(q), ks)
              /\ KnownIn(q, ks) \in Nat /\ KnownIn(q, ks) <= KnownQty(q)
         /\ KnownQty(q) \in Nat /\ KnownQty(q) = SumFunctionOnSet(Values(q), DOMAIN q)
<1>1. Len(q) \in Nat /\ DOMAIN q = 1 .. Len(q) /\ \A k \in DOMAIN q : q[k] \in Nodes
  BY LenProperties, ElementOfSeq
<1>2. IsFiniteSet(DOMAIN q)
  BY <1>1, FS_Interval
<1>3. \A k \in DOMAIN q : Values(q)[k] = IF IsKnown(q[k]) THEN q[k].qty ELSE 0
  BY DEF Values
<1>4. \A k \in DOMAIN q : Values(q)[k] \in Nat
  BY <1>1, <1>3, NodesAre
<1>5. \A ks : KnownIn(q, ks) = SumFunctionOnSet(Values(q), ks)
  BY DEF KnownIn, Values
<1>6. KnownQty(q) = SumFunctionOnSet(Values(q), DOMAIN q)
  BY <1>5 DEF KnownQty
<1>7. ASSUME NEW ks \in SUBSET DOMAIN q
      PROVE  KnownIn(q, ks) \in Nat /\ KnownIn(q, ks) <= KnownQty(q)
  BY <1>2, <1>4, <1>5, <1>6, SumPart
<1>8. KnownQty(q) \in Nat
  BY <1>7 DEF KnownQty
<1> QED BY <1>1, <1>2, <1>3, <1>4, <1>5, <1>6, <1>7, <1>8

\* No known liquidity: none of it is known.
LEMMA KnownNone ==
  ASSUME NEW q \in Seq(Nodes), NEW ks \in SUBSET DOMAIN q, \A k \in ks : ~ IsKnown(q[k])
  PROVE  KnownIn(q, ks) = 0
<1>1. IsFiniteSet(ks) /\ KnownIn(q, ks) = SumFunctionOnSet(Values(q), ks)
  BY KnownTyped, FS_Subset
<1>2. \A k \in ks : Values(q)[k] = 0
  BY KnownTyped
<1> QED BY <1>1, <1>2, SumZero

\* Two queues of the same known liquidity, place by place.
LEMMA KnownMoved ==
  ASSUME NEW q, NEW r, NEW ks, NEW js, IsFiniteSet(js), NEW b \in [js -> ks],
         \A i, j \in js : b[i] = b[j] => i = j, \A k \in ks : \E j \in js : b[j] = k,
         \A j \in js : Values(r)[j] \in Int /\ Values(q)[b[j]] = Values(r)[j]
  PROVE  KnownIn(r, js) = KnownIn(q, ks)
<1> DEFINE f == Values(r)
           g == Values(q)
<1>1. KnownIn(r, js) = SumFunctionOnSet(f, js) /\ KnownIn(q, ks) = SumFunctionOnSet(g, ks)
  BY DEF KnownIn, Values
<1>2. \A j \in js : f[j] \in Int /\ g[b[j]] = f[j]
  OBVIOUS
<1> HIDE DEF f, g
<1>3. SumFunctionOnSet(f, js) = SumFunctionOnSet(g, ks)
  BY <1>2, SumReindexed
<1> QED BY <1>1, <1>3

\* What is kept holds what was known at the places kept, up to any of them.
LEMMA KeptKnown ==
  ASSUME NEW q \in Seq(Nodes), NEW ks \in SUBSET DOMAIN q
  PROVE  /\ KnownQty(Kept(q, ks)) = KnownIn(q, ks)
         /\ \A i \in 1 .. Cardinality(ks) :
              KnownIn(Kept(q, ks), 1 .. i) = KnownIn(q, {k \in ks : k <= Nth(ks)[i]})
<1> DEFINE N == Cardinality(ks)
           nth == Nth(ks)
           r == Kept(q, ks)
<1>1. /\ N \in Nat /\ r \in Seq(Nodes) /\ DOMAIN r = 1 .. N /\ nth \in [1 .. N -> ks]
      /\ \A i \in 1 .. N : r[i] = q[nth[i]]
      /\ \A i, j \in 1 .. N : i < j => nth[i] < nth[j]
      /\ \A i, j \in 1 .. N : nth[i] = nth[j] => i = j
      /\ \A k \in ks : \E i \in 1 .. N : nth[i] = k
  BY KeptNth
<1>2. DOMAIN q \subseteq Nat
  BY KnownTyped
<1> HIDE DEF nth, r, N
<1>6. \A j \in 1 .. N : Values(r)[j] \in Int /\ Values(q)[nth[j]] = Values(r)[j]
  <2> SUFFICES ASSUME NEW j \in 1 .. N
               PROVE  Values(r)[j] \in Int /\ Values(q)[nth[j]] = Values(r)[j]
    OBVIOUS
  <2>1. nth[j] \in DOMAIN q /\ j \in DOMAIN r /\ r[j] = q[nth[j]]
    BY <1>1
  <2>2. Values(r)[j] \in Nat
    BY <1>1, <2>1, KnownTyped
  <2>3. Values(q)[nth[j]] = Values(r)[j]
    BY <2>1 DEF Values
  <2> QED BY <2>2, <2>3
<1>3. KnownIn(r, 1 .. N) = KnownIn(q, ks)
  <2> DEFINE js == 1 .. N
  <2>1. IsFiniteSet(js) /\ nth \in [js -> ks]
    BY <1>1, FS_Interval
  <2>2. \A j \in js : Values(r)[j] \in Int /\ Values(q)[nth[j]] = Values(r)[j]
    BY <1>1, <1>6
  <2>4. \A i, j \in js : nth[i] = nth[j] => i = j
    BY <1>1
  <2>5. \A k \in ks : \E j \in js : nth[j] = k
    BY <1>1
  <2> HIDE DEF js
  <2>3. KnownIn(r, js) = KnownIn(q, ks)
    BY <2>1, <2>2, <2>4, <2>5, KnownMoved
  <2> QED BY <2>3 DEF js
<1>4. ASSUME NEW i \in 1 .. N
      PROVE  KnownIn(r, 1 .. i) = KnownIn(q, {k \in ks : k <= nth[i]})
  <2> DEFINE js == 1 .. i
             T  == {k \in ks : k <= nth[i]}
             b  == [j \in js |-> nth[j]]
  <2>1. js \in SUBSET DOMAIN r /\ T \in SUBSET DOMAIN q /\ js \subseteq 1 .. N
    BY <1>1
  <2>2. ASSUME NEW j \in js PROVE b[j] \in T
    <3>1. j \in 1 .. N /\ (j < i \/ j = i) /\ nth[j] \in ks /\ nth[i] \in ks
      BY <1>1, <2>1
    <3>2. nth[j] \in Nat /\ nth[i] \in Nat /\ (nth[j] < nth[i] \/ nth[j] = nth[i])
      BY <1>1, <1>2, <3>1
    <3> QED BY <3>1, <3>2
  <2>3. ASSUME NEW k \in T PROVE \E j \in js : b[j] = k
    <3>1. PICK j \in 1 .. N : nth[j] = k
      BY <1>1
    <3>2. ~ (i < j)
      <4>1. k \in Nat /\ nth[i] \in Nat /\ k <= nth[i]
        BY <1>1, <1>2
      <4>2. i < j => nth[i] < k
        BY <1>1, <3>1
      <4> QED BY <4>1, <4>2
    <3>3. j \in js
      BY <1>1, <3>2
    <3> QED BY <3>1, <3>3
  <2>4. \A x, y \in js : b[x] = b[y] => x = y
    BY <1>1, <2>1
  <2>5. b \in [js -> T]
    BY <2>2
  <2>6. \A j \in js : Values(r)[j] \in Int /\ Values(q)[b[j]] = Values(r)[j]
    BY <1>6, <2>1
  <2>7. KnownIn(r, js) = KnownIn(q, T)
    <3>1. IsFiniteSet(js)
      BY FS_Interval
    <3> HIDE DEF b, T, js
    <3>2. \A k \in T : \E j \in js : b[j] = k
      BY <2>3
    <3> QED BY <3>1, <3>2, <2>4, <2>5, <2>6, KnownMoved
  <2> QED BY <2>7
<1>5. KnownQty(r) = KnownIn(q, ks)
  BY <1>1, <1>3 DEF KnownQty
<1> QED BY <1>4, <1>5 DEF r, nth, N

\* Of the orders that stand once, those kept still stand once.
LEMMA KeptStand ==
  ASSUME NEW q \in Seq(Nodes), NEW ks \in SUBSET DOMAIN q, NEW os, StandOnce(q, os)
  PROVE  /\ StandOnce(Kept(q, ks), {q[k].who : k \in ks} \ {Nobody})
         /\ HasUnseen(Kept(q, ks)) <=> \E k \in ks : q[k] = Unseen
         /\ ks = {} => Kept(q, ks) = <<>>
<1> DEFINE N == Cardinality(ks)
           nth == Nth(ks)
           r == Kept(q, ks)
<1>1. /\ IsFiniteSet(ks) /\ N \in Nat /\ r \in Seq(Nodes) /\ DOMAIN r = 1 .. N /\ nth \in [1 .. N -> ks]
      /\ \A i \in 1 .. N : r[i] = q[nth[i]]
      /\ \A i, j \in 1 .. N : nth[i] = nth[j] => i = j
      /\ \A k \in ks : \E i \in 1 .. N : nth[i] = k
      /\ Len(r) = N
  BY KeptNth
<1> HIDE DEF N, nth, r
<1>2. {r[i].who : i \in DOMAIN r} = {q[k].who : k \in ks}
  <2>1. \A i \in DOMAIN r : \E k \in ks : r[i].who = q[k].who
    BY <1>1
  <2>2. \A k \in ks : \E i \in DOMAIN r : r[i].who = q[k].who
    BY <1>1
  <2> QED BY <2>1, <2>2
<1>3. \A i, j \in DOMAIN r : IsOwn(r[j]) /\ r[i].who = r[j].who => i = j
  <2> SUFFICES ASSUME NEW i \in DOMAIN r, NEW j \in DOMAIN r, IsOwn(r[j]), r[i].who = r[j].who
               PROVE  i = j
    OBVIOUS
  <2>1. nth[i] \in DOMAIN q /\ nth[j] \in DOMAIN q /\ r[i] = q[nth[i]] /\ r[j] = q[nth[j]]
    BY <1>1
  <2>2. nth[i] = nth[j]
    BY <2>1 DEF StandOnce
  <2> QED BY <1>1, <2>2
<1>4. StandOnce(r, {q[k].who : k \in ks} \ {Nobody})
  BY <1>2, <1>3 DEF StandOnce
<1>5. HasUnseen(r) <=> \E k \in ks : q[k] = Unseen
  <2>1. ASSUME NEW i \in DOMAIN r, r[i] = Unseen PROVE \E k \in ks : q[k] = Unseen
    <3>1. nth[i] \in ks /\ q[nth[i]] = Unseen
      BY <1>1, <2>1
    <3> QED BY <3>1
  <2>2. ASSUME NEW k \in ks, q[k] = Unseen PROVE \E i \in DOMAIN r : r[i] = Unseen
    <3>1. PICK i \in 1 .. N : nth[i] = k
      BY <1>1
    <3> QED BY <1>1, <2>2, <3>1
  <2> QED BY <2>1, <2>2 DEF HasUnseen
<1>6. ks = {} => r = <<>>
  <2>1. ks = {} => N = 0
    BY FS_EmptySet DEF N
  <2>2. N = 0 => r = <<>>
    BY <1>1, EmptySeq
  <2> QED BY <2>1, <2>2
<1> QED BY <1>4, <1>5, <1>6 DEF r

-----------------------------------------------------------------------------
(***************************************************************************)
(* Queues: what is known of the public in them                             *)
(***************************************************************************)
\* A node joins a queue at its tail.
LEMMA Appended ==
  ASSUME NEW q \in Seq(Nodes), NEW n \in Nodes
  PROVE  /\ Append(q, n) \in Seq(Nodes) /\ Len(Append(q, n)) = Len(q) + 1
         /\ DOMAIN Append(q, n) = DOMAIN q \cup {Len(q) + 1} /\ Len(q) + 1 \notin DOMAIN q
         /\ \A k \in DOMAIN q : Append(q, n)[k] = q[k]
         /\ Append(q, n)[Len(q) + 1] = n
         /\ \A ks \in SUBSET DOMAIN q : KnownIn(Append(q, n), ks) = KnownIn(q, ks)
         /\ KnownQty(Append(q, n)) = KnownQty(q) + (IF IsKnown(n) THEN n.qty ELSE 0)
         /\ HasUnseen(Append(q, n)) <=> HasUnseen(q) \/ n = Unseen
<1> DEFINE r == Append(q, n)
           L == Len(q) + 1
<1>1. /\ r \in Seq(Nodes) /\ Len(r) = L /\ \A k \in 1 .. Len(q) : r[k] = q[k]
      /\ r[L] = n /\ Len(q) \in Nat /\ DOMAIN q = 1 .. Len(q) /\ DOMAIN r = 1 .. L
  BY AppendProperties, LenProperties
<1>2. DOMAIN r = DOMAIN q \cup {L} /\ L \notin DOMAIN q /\ \A k \in DOMAIN q : r[k] = q[k]
  BY <1>1
<1> HIDE DEF r, L
<1>3. ASSUME NEW ks \in SUBSET DOMAIN q PROVE KnownIn(r, ks) = KnownIn(q, ks)
  <2>1. IsFiniteSet(ks)
    <3>1. IsFiniteSet(DOMAIN q)
      BY KnownTyped
    <3> QED BY <3>1, FS_Subset
  <2>2. \A k \in ks : Values(r)[k] = Values(q)[k] /\ Values(r)[k] \in Int
    <3> SUFFICES ASSUME NEW k \in ks PROVE Values(r)[k] = Values(q)[k] /\ Values(r)[k] \in Int
      OBVIOUS
    <3>1. k \in DOMAIN q /\ k \in DOMAIN r /\ r[k] = q[k]
      BY <1>2
    <3>2. Values(r)[k] \in Nat
      BY <1>1, <3>1, KnownTyped
    <3> QED BY <3>1, <3>2 DEF Values
  <2> DEFINE f == Values(r)
             g == Values(q)
  <2>3. KnownIn(r, ks) = SumFunctionOnSet(f, ks) /\ KnownIn(q, ks) = SumFunctionOnSet(g, ks)
    BY DEF KnownIn, Values
  <2>4. \A k \in ks : f[k] \in Int /\ g[k] = f[k]
    BY <2>2
  <2> HIDE DEF f, g
  <2>5. SumFunctionOnSet(f, ks) = SumFunctionOnSet(g, ks)
    BY <2>1, <2>4, SumSame
  <2> QED BY <2>3, <2>5
<1>4. KnownQty(r) = KnownQty(q) + (IF IsKnown(n) THEN n.qty ELSE 0)
  <2> DEFINE f == Values(r)
             D == DOMAIN r
  <2>1. IsFiniteSet(D) /\ L \in D /\ D \ {L} = DOMAIN q /\ \A k \in D : f[k] \in Int
    BY <1>1, <1>2, KnownTyped
  <2>2. KnownQty(r) = SumFunctionOnSet(f, D) /\ KnownIn(r, DOMAIN q) = SumFunctionOnSet(f, DOMAIN q)
    BY DEF KnownQty, KnownIn, Values
  <2>3. f[L] = IF IsKnown(n) THEN n.qty ELSE 0
    BY <1>1, <2>1 DEF Values
  <2>4. KnownIn(r, DOMAIN q) = KnownQty(q) /\ KnownQty(q) \in Nat /\ f[L] \in Int
    BY <1>3, <2>1, KnownTyped DEF KnownQty
  <2> HIDE DEF f, D
  <2>5. SumFunctionOnSet(f, D) = f[L] + SumFunctionOnSet(f, D \ {L})
    BY <2>1, SumRemoves
  <2>6. KnownQty(r) = f[L] + KnownQty(q)
    BY <2>1, <2>2, <2>4, <2>5
  <2>7. KnownQty(r) = KnownQty(q) + f[L]
    BY <2>4, <2>6
  <2> QED BY <2>3, <2>7
<1>5. HasUnseen(r) <=> HasUnseen(q) \/ n = Unseen
  BY <1>1, <1>2 DEF HasUnseen
<1> QED BY <1>1, <1>2, <1>3, <1>4, <1>5 DEF r, L

\* Who stands in a queue after it.
LEMMA AppendStands ==
  ASSUME NEW q \in Seq(Nodes), NEW n \in Nodes, NEW os, StandOnce(q, os), n.who \notin os
  PROVE  StandOnce(Append(q, n), os \cup ({n.who} \ {Nobody}))
<1> DEFINE r == Append(q, n)
           L == Len(q) + 1
<1>1. /\ DOMAIN r = DOMAIN q \cup {L} /\ L \notin DOMAIN q
      /\ \A k \in DOMAIN q : r[k] = q[k]
      /\ r[L] = n
  BY Appended
<1> HIDE DEF r, L
<1>2. \A k \in DOMAIN q : r[k].who = n.who => ~ IsOwn(n)
  BY <1>1 DEF StandOnce, IsOwn
<1>3. {r[k].who : k \in DOMAIN r} \ {Nobody} = os \cup ({n.who} \ {Nobody})
  <2>1. {r[k].who : k \in DOMAIN r} = {q[k].who : k \in DOMAIN q} \cup {n.who}
    BY <1>1
  <2> QED BY <2>1 DEF StandOnce
<1>4. \A j, k \in DOMAIN r : IsOwn(r[k]) /\ r[j].who = r[k].who => j = k
  <2> SUFFICES ASSUME NEW j \in DOMAIN r, NEW k \in DOMAIN r, IsOwn(r[k]), r[j].who = r[k].who
               PROVE  j = k
    OBVIOUS
  <2>1. CASE j = L \/ k = L
    BY <1>1, <1>2, <2>1 DEF IsOwn
  <2>2. CASE j # L /\ k # L
    BY <1>1, <2>2 DEF StandOnce
  <2> QED BY <2>1, <2>2
<1> QED BY <1>3, <1>4 DEF StandOnce, r

\* Blinding keeps every own order, and leaves nothing known.
LEMMA BlindedIs ==
  ASSUME NEW q \in Seq(Nodes), NEW os, StandOnce(q, os)
  PROVE  /\ Blinded(q) \in Seq(Nodes) /\ StandOnce(Blinded(q), os)
         /\ KnownQty(Blinded(q)) = 0
         /\ Blinded(q) = <<>> \/ HasUnseen(Blinded(q))
<1>1. DOMAIN q = 1 .. Len(q) /\ Len(q) \in Nat /\ \A k \in DOMAIN q : q[k] \in Nodes
  BY KnownTyped
<1>2. CASE ~ HoldsOwn(q)
  <2>1. Blinded(q) = <<>> /\ os = {}
    BY <1>2 DEF Blinded, HoldsOwn, StandOnce, IsOwn
  <2>2. <<>> \in Seq(Nodes) /\ DOMAIN <<>> = {}
    BY EmptySeq
  <2>3. StandOnce(<<>>, {})
    BY <2>2 DEF StandOnce
  <2>4. KnownQty(<<>>) = 0
    BY <2>2, KnownNone DEF KnownQty
  <2> QED BY <2>1, <2>2, <2>3, <2>4
<1>3. CASE HoldsOwn(q)
  <2> DEFINE ks == {k \in DOMAIN q : IsOwn(q[k])}
             own == Kept(q, ks)
             r == <<Unseen>> \o own
  <2>1. ks \in SUBSET DOMAIN q /\ own \in Seq(Nodes) /\ Nth(ks) \in [1 .. Len(own) -> ks]
    BY KeptNth
  <2>2. \A i \in 1 .. Len(own) : own[i] = q[Nth(ks)[i]]
    BY KeptNth
  <2>3. StandOnce(own, {q[k].who : k \in ks} \ {Nobody})
    BY <2>1, KeptStand
  <2>4. {q[k].who : k \in ks} \ {Nobody} = os
    BY DEF StandOnce, IsOwn
  <2>5. \A i \in 1 .. Len(own) : IsOwn(own[i])
    BY <2>1, <2>2
  <2> HIDE DEF own, ks
  <2>6. <<Unseen>> \in Seq(Nodes) /\ Len(<<Unseen>>) = 1
    BY NodesAre
  <2>7. /\ Len(own) \in Nat /\ DOMAIN own = 1 .. Len(own) /\ r \in Seq(Nodes)
        /\ DOMAIN r = 1 .. Len(own) + 1
        /\ r[1] = Unseen /\ \A i \in 2 .. Len(own) + 1 : r[i] = own[i - 1]
    <3>1. /\ r \in Seq(Nodes) /\ Len(r) = 1 + Len(own)
          /\ \A i \in 1 .. 1 + Len(own) : r[i] = IF i <= 1 THEN <<Unseen>>[i] ELSE own[i - 1]
      BY <2>1, <2>6, ConcatProperties
    <3>2. Len(own) \in Nat /\ DOMAIN own = 1 .. Len(own) /\ DOMAIN r = 1 .. Len(r)
      BY <2>1, <3>1, LenProperties
    <3> HIDE DEF r
    <3>3. r[1] = <<Unseen>>[1]
      BY <3>1, <3>2
    <3>4. \A i \in 2 .. Len(own) + 1 : r[i] = own[i - 1]
      BY <3>1, <3>2
    <3> QED BY <3>1, <3>2, <3>3, <3>4
  <2>8. Blinded(q) = r
    BY <1>3 DEF Blinded, own, ks
  <2> HIDE DEF r
  <2>9. \A k \in DOMAIN r : ~ IsKnown(r[k])
    <3>1. ~ IsKnown(r[1])
      BY <2>7, NodesAre
    <3>2. ASSUME NEW i \in 2 .. Len(own) + 1 PROVE ~ IsKnown(r[i])
      <4>1. i - 1 \in 1 .. Len(own) /\ r[i] = own[i - 1]
        BY <2>7
      <4>2. IsOwn(r[i])
        BY <2>5, <4>1
      <4> QED BY <4>2 DEF IsOwn, IsKnown
    <3> QED BY <2>7, <3>1, <3>2
  <2>10. KnownQty(r) = 0
    BY <2>7, <2>9, KnownNone DEF KnownQty
  <2>11. HasUnseen(r)
    BY <2>7 DEF HasUnseen
  <2>12. {r[k].who : k \in DOMAIN r} \ {Nobody} = {own[k].who : k \in DOMAIN own} \ {Nobody}
    <3>1. \A i \in 1 .. Len(own) : i + 1 \in DOMAIN r /\ r[i + 1] = own[i]
      BY <2>7
    <3>2. \A i \in DOMAIN r : i = 1 \/ (i - 1 \in DOMAIN own /\ r[i] = own[i - 1])
      BY <2>7
    <3>3. r[1].who = Nobody
      BY <2>7 DEF Unseen, Public
    <3>4. \A i \in DOMAIN own : own[i].who \in {r[k].who : k \in DOMAIN r}
      <4> SUFFICES ASSUME NEW i \in DOMAIN own PROVE \E k \in DOMAIN r : r[k].who = own[i].who
        OBVIOUS
      <4>1. i + 1 \in DOMAIN r /\ r[i + 1] = own[i]
        BY <2>7, <3>1
      <4> QED BY <4>1
    <3>5. \A i \in DOMAIN r : r[i].who = Nobody \/ r[i].who \in {own[k].who : k \in DOMAIN own}
      BY <3>2, <3>3
    <3> QED BY <3>4, <3>5
  <2>13. \A j, k \in DOMAIN r : IsOwn(r[k]) /\ r[j].who = r[k].who => j = k
    <3> SUFFICES ASSUME NEW j \in DOMAIN r, NEW k \in DOMAIN r, IsOwn(r[k]), r[j].who = r[k].who
                 PROVE  j = k
      OBVIOUS
    <3>1. j # 1 /\ k # 1
      BY <2>7, NodesAre DEF IsOwn
    <3>2. j - 1 \in DOMAIN own /\ k - 1 \in DOMAIN own /\ r[j] = own[j - 1] /\ r[k] = own[k - 1]
      BY <2>7, <3>1
    <3>3. j - 1 = k - 1
      BY <2>3, <3>2 DEF StandOnce
    <3> QED BY <2>7, <3>3
  <2>14. StandOnce(r, os)
    <3>1. StandOnce(own, os)
      BY <2>3, <2>4
    <3>2. {r[k].who : k \in DOMAIN r} \ {Nobody} = os
      BY <2>12, <3>1 DEF StandOnce
    <3> QED BY <2>13, <3>2 DEF StandOnce
  <2> QED BY <2>7, <2>8, <2>10, <2>11, <2>14
<1> QED BY <1>2, <1>3

\* What shrinking leaves of each node, before the empty ones go.
Left(q, excess, k) ==
  Greater(0, q[k].qty - Greater(0, excess - KnownIn(q, {j \in DOMAIN q : j > k})))

Thinned(q, excess) ==
  [k \in DOMAIN q |-> IF IsKnown(q[k]) THEN Public(Left(q, excess, k)) ELSE q[k]]

\* A thinned queue has the same nodes, with no more in each.
LEMMA ThinnedIs ==
  ASSUME NEW q \in Seq(Nodes), NEW excess \in Nat
  PROVE  /\ Thinned(q, excess) \in Seq(Nodes) /\ DOMAIN Thinned(q, excess) = DOMAIN q
         /\ Len(Thinned(q, excess)) = Len(q)
         /\ \A k \in DOMAIN q :
              /\ Thinned(q, excess)[k].who = q[k].who
              /\ Thinned(q, excess)[k] = Unseen <=> q[k] = Unseen
              /\ Values(Thinned(q, excess))[k] = IF IsKnown(q[k]) THEN Left(q, excess, k) ELSE 0
              /\ Values(Thinned(q, excess))[k] \in Nat
              /\ Values(Thinned(q, excess))[k] <= Values(q)[k]
<1> DEFINE r == Thinned(q, excess)
<1>1. /\ Len(q) \in Nat /\ DOMAIN q = 1 .. Len(q)
      /\ \A k \in DOMAIN q : q[k] \in Nodes /\ Values(q)[k] \in Nat
      /\ \A k \in DOMAIN q : Values(q)[k] = IF IsKnown(q[k]) THEN q[k].qty ELSE 0
  BY KnownTyped
<1>2. ASSUME NEW k \in DOMAIN q, IsKnown(q[k])
      PROVE  Left(q, excess, k) \in Nat /\ Left(q, excess, k) <= q[k].qty
  <2> DEFINE a == KnownIn(q, {j \in DOMAIN q : j > k})
             n == q[k].qty
  <2>1. a \in Nat
    BY KnownTyped
  <2>2. n \in Nat
    BY <1>1, <1>2, NodesAre
  <2>3. Left(q, excess, k) = Greater(0, n - Greater(0, excess - a))
    BY DEF Left
  <2> HIDE DEF a, n
  <2>4. Greater(0, n - Greater(0, excess - a)) \in Nat /\ Greater(0, n - Greater(0, excess - a)) <= n
    BY <2>1, <2>2 DEF Greater
  <2> QED BY <2>3, <2>4 DEF n
<1>3. \A k \in DOMAIN q : r[k] = IF IsKnown(q[k]) THEN Public(Left(q, excess, k)) ELSE q[k]
  BY DEF Thinned
<1>4. \A k \in DOMAIN q : r[k] \in Nodes
  BY <1>1, <1>2, <1>3, NodesAre
<1>5. DOMAIN r = DOMAIN q /\ r \in [1 .. Len(q) -> Nodes]
  BY <1>1, <1>4 DEF Thinned
<1> HIDE DEF r
<1>6. r \in Seq(Nodes) /\ Len(r) = Len(q)
  BY <1>1, <1>5
<1>7. ASSUME NEW k \in DOMAIN q
      PROVE  /\ r[k].who = q[k].who
             /\ r[k] = Unseen <=> q[k] = Unseen
             /\ Values(r)[k] = IF IsKnown(q[k]) THEN Left(q, excess, k) ELSE 0
             /\ Values(r)[k] \in Nat
             /\ Values(r)[k] <= Values(q)[k]
  <2>1. Values(r)[k] = IF IsKnown(r[k]) THEN r[k].qty ELSE 0
    BY <1>5 DEF Values
  <2>2. CASE IsKnown(q[k])
    <3>1. r[k] = Public(Left(q, excess, k)) /\ Left(q, excess, k) \in Nat /\ Left(q, excess, k) <= q[k].qty
      BY <1>2, <1>3, <2>2
    <3>2. IsKnown(r[k]) /\ r[k] # Unseen /\ r[k].qty = Left(q, excess, k) /\ r[k].who = Nobody
      BY <3>1, NodesAre DEF Public
    <3>3. q[k] # Unseen /\ q[k].who = Nobody /\ Values(q)[k] = q[k].qty
      BY <1>1, <2>2, NodesAre DEF IsKnown
    <3> QED BY <2>1, <2>2, <3>1, <3>2, <3>3
  <2>3. CASE ~ IsKnown(q[k])
    <3>1. r[k] = q[k] /\ Values(r)[k] = 0 /\ Values(q)[k] = 0
      BY <1>1, <1>3, <2>1, <2>3
    <3> QED BY <2>3, <3>1
  <2> QED BY <2>2, <2>3
<1> QED BY <1>5, <1>6, <1>7 DEF r

\* From any place back, it leaves what the excess does not reach.
LEMMA ThinnedTail ==
  ASSUME NEW q \in Seq(Nodes), NEW excess \in Nat, NEW m \in 1 .. Len(q) + 1
  PROVE  KnownIn(Thinned(q, excess), {j \in DOMAIN q : j >= m})
           = Greater(0, KnownIn(q, {j \in DOMAIN q : j >= m}) - excess)
<1> DEFINE r == Thinned(q, excess)
           L == Len(q)
           tail(i) == {j \in DOMAIN q : j >= i}
           Claim(i) == KnownIn(r, tail(i)) = Greater(0, KnownIn(q, tail(i)) - excess)
           Bad == {d \in 0 .. L : ~ Claim(L + 1 - d)}
<1>1. /\ L \in Nat /\ DOMAIN q = 1 .. L /\ IsFiniteSet(DOMAIN q)
      /\ \A k \in DOMAIN q : Values(q)[k] \in Nat
      /\ \A k \in DOMAIN q : Values(q)[k] = IF IsKnown(q[k]) THEN q[k].qty ELSE 0
      /\ \A ks \in SUBSET DOMAIN q : KnownIn(q, ks) \in Nat
  BY KnownTyped
<1>2. r \in Seq(Nodes) /\ DOMAIN r = DOMAIN q
  BY ThinnedIs
<1>3. /\ \A k \in DOMAIN q : Values(r)[k] \in Nat
      /\ \A k \in DOMAIN q : Values(r)[k] = IF IsKnown(q[k]) THEN Left(q, excess, k) ELSE 0
  BY ThinnedIs
<1>4. \A ks \in SUBSET DOMAIN q : KnownIn(r, ks) \in Nat
  BY <1>2, KnownTyped
<1> HIDE DEF r, L
<1>5. Claim(L + 1)
  <2>1. tail(L + 1) = {}
    BY <1>1
  <2>2. KnownIn(r, {}) = 0 /\ KnownIn(q, {}) = 0
    BY SumEmpty DEF KnownIn
  <2>3. Greater(0, 0 - excess) = 0
    BY DEF Greater
  <2> QED BY <2>1, <2>2, <2>3
<1>6. ASSUME NEW i \in DOMAIN q, Claim(i + 1) PROVE Claim(i)
  <2> DEFINE A == tail(i)
             B == tail(i + 1)
             f == Values(r)
             g == Values(q)
  <2>1. A \in SUBSET DOMAIN q /\ B \in SUBSET DOMAIN q /\ i \in A /\ A \ {i} = B
    BY <1>1
  <2>2. /\ KnownIn(r, A) = SumFunctionOnSet(f, A) /\ KnownIn(r, B) = SumFunctionOnSet(f, B)
        /\ KnownIn(q, A) = SumFunctionOnSet(g, A) /\ KnownIn(q, B) = SumFunctionOnSet(g, B)
    BY DEF KnownIn, Values
  <2>3. (\A k \in A : f[k] \in Int /\ g[k] \in Int) /\ f[i] \in Nat /\ g[i] \in Nat
    BY <1>1, <1>3, <2>1
  <2>4. B = {j \in DOMAIN q : j > i}
    BY <1>1
  <2>5. KnownIn(q, B) \in Nat /\ KnownIn(r, B) = Greater(0, KnownIn(q, B) - excess)
    BY <1>1, <1>6, <2>1
  <2>6. IsKnown(q[i]) => f[i] = Greater(0, g[i] - Greater(0, excess - KnownIn(q, B)))
    BY <1>1, <1>3, <2>4 DEF Left
  <2>7. ~ IsKnown(q[i]) => f[i] = 0 /\ g[i] = 0
    BY <1>1, <1>3
  <2>8. IsFiniteSet(A)
    BY <1>1, <2>1, FS_Subset
  <2> HIDE DEF A, B, f, g
  <2>9. KnownIn(r, A) = f[i] + KnownIn(r, B) /\ KnownIn(q, A) = g[i] + KnownIn(q, B)
    <3>1. SumFunctionOnSet(f, A) = f[i] + SumFunctionOnSet(f, A \ {i})
      BY <2>1, <2>3, <2>8, SumRemoves
    <3>2. SumFunctionOnSet(g, A) = g[i] + SumFunctionOnSet(g, A \ {i})
      BY <2>1, <2>3, <2>8, SumRemoves
    <3> QED BY <2>1, <2>2, <3>1, <3>2
  <2> DEFINE a == KnownIn(q, B)
             x == f[i]
             y == g[i]
  <2>10. a \in Nat /\ y \in Nat /\ x \in Nat
    BY <2>3, <2>5
  <2>11. (IsKnown(q[i]) /\ x = Greater(0, y - Greater(0, excess - a))) \/ (x = 0 /\ y = 0)
    BY <2>6, <2>7
  <2>12. KnownIn(r, A) = x + Greater(0, a - excess) /\ KnownIn(q, A) = y + a
    BY <2>5, <2>9
  <2> HIDE DEF a, x, y
  <2>13. x + Greater(0, a - excess) = Greater(0, (y + a) - excess)
    BY <2>10, <2>11 DEF Greater
  <2> QED BY <2>12, <2>13 DEF A
<1>7. Bad = {}
  <2> SUFFICES ASSUME Bad # {} PROVE FALSE
    OBVIOUS
  <2>1. Bad \in SUBSET Nat
    OBVIOUS
  <2>2. PICK d \in Bad : \A e \in Bad : d <= e
    <3> HIDE DEF Bad
    <3> QED BY <2>1, LeastNat
  <2>3. d \in 0 .. L /\ ~ Claim(L + 1 - d)
    OBVIOUS
  <2> HIDE DEF Claim
  <2>4. d # 0
    <3>1. d = 0 => L + 1 - d = L + 1
      BY <1>1
    <3> QED BY <1>5, <2>3, <3>1
  <2>5. d - 1 \in 0 .. L /\ d - 1 < d /\ L + 1 - d \in DOMAIN q /\ L + 1 - (d - 1) = (L + 1 - d) + 1
    BY <1>1, <2>3, <2>4
  <2>6. Claim(L + 1 - (d - 1))
    <3>1. d - 1 \notin Bad
      BY <2>2, <2>3, <2>5
    <3> QED BY <2>5, <3>1
  <2> QED BY <1>6, <2>3, <2>5, <2>6
<1>8. Claim(m)
  <2>1. L + 1 - m \in 0 .. L /\ L + 1 - (L + 1 - m) = m
    BY <1>1 DEF L
  <2> HIDE DEF Claim
  <2>2. Claim(L + 1 - (L + 1 - m))
    BY <1>7, <2>1
  <2> QED BY <2>1, <2>2
<1> QED BY <1>8 DEF r

-----------------------------------------------------------------------------
(***************************************************************************)
(* Queues: soundness, one queue at a time                                  *)
(***************************************************************************)
\* Shrinking takes the excess off the known liquidity and moves no order.
LEMMA ShrunkIs ==
  ASSUME NEW q \in Seq(Nodes), NEW os, StandOnce(q, os), NEW excess \in Nat, excess <= KnownQty(q)
  PROVE  /\ Shrunk(q, excess) \in Seq(Nodes) /\ StandOnce(Shrunk(q, excess), os)
         /\ HasUnseen(Shrunk(q, excess)) <=> HasUnseen(q)
         /\ KnownQty(Shrunk(q, excess)) <= KnownQty(q) - excess
<1> DEFINE r == Thinned(q, excess)
           ks == {k \in DOMAIN q : r[k] # Public(0)}
<1>1. /\ r \in Seq(Nodes) /\ DOMAIN r = DOMAIN q
      /\ \A k \in DOMAIN q : r[k].who = q[k].who /\ (r[k] = Unseen <=> q[k] = Unseen)
  BY ThinnedIs
<1>2. Shrunk(q, excess) = Kept(r, ks)
  BY DEF Shrunk, Thinned, Left
<1>3. StandOnce(r, os)
  <2>1. {r[k].who : k \in DOMAIN r} = {q[k].who : k \in DOMAIN q}
    BY <1>1
  <2>2. \A j, k \in DOMAIN r : IsOwn(r[k]) /\ r[j].who = r[k].who => j = k
    BY <1>1 DEF StandOnce, IsOwn
  <2> QED BY <2>1, <2>2 DEF StandOnce
<1>4. ks \in SUBSET DOMAIN r
  BY <1>1
<1>5. {r[k].who : k \in ks} \ {Nobody} = os
  <2>1. \A k \in DOMAIN r : k \notin ks => r[k].who = Nobody
    BY <1>1 DEF Public
  <2>2. {r[k].who : k \in ks} \ {Nobody} = {r[k].who : k \in DOMAIN r} \ {Nobody}
    BY <1>4, <2>1
  <2> QED BY <1>3, <2>2 DEF StandOnce
<1>6. \A k \in DOMAIN q : r[k] = Unseen => k \in ks
  BY NodesAre
<1> HIDE DEF r, ks
<1>7. Kept(r, ks) \in Seq(Nodes)
  BY <1>1, <1>4, KeptNth
<1>8. /\ StandOnce(Kept(r, ks), {r[k].who : k \in ks} \ {Nobody})
      /\ HasUnseen(Kept(r, ks)) <=> \E k \in ks : r[k] = Unseen
  BY <1>1, <1>3, <1>4, KeptStand
<1>9. StandOnce(Kept(r, ks), os)
  BY <1>5, <1>8
<1>10. HasUnseen(Kept(r, ks)) <=> HasUnseen(q)
  BY <1>1, <1>4, <1>6, <1>8 DEF HasUnseen
<1>11. KnownQty(Kept(r, ks)) = KnownIn(r, ks)
  BY <1>1, <1>4, KeptKnown
<1>12. KnownIn(r, ks) <= KnownQty(r) /\ KnownIn(r, ks) \in Nat /\ KnownQty(r) \in Nat
  BY <1>1, <1>4, KnownTyped
<1>13. KnownQty(r) = KnownQty(q) - excess
  <2> DEFINE D == {j \in DOMAIN q : j >= 1}
  <2>1. D = DOMAIN q /\ 1 \in 1 .. Len(q) + 1 /\ KnownQty(q) \in Nat
    <3>1. Len(q) \in Nat /\ DOMAIN q = 1 .. Len(q) /\ KnownQty(q) \in Nat
      BY KnownTyped
    <3> QED BY <3>1
  <2>2. KnownIn(r, D) = Greater(0, KnownIn(q, D) - excess)
    BY <2>1, ThinnedTail DEF r
  <2> HIDE DEF D
  <2>3. KnownQty(r) = Greater(0, KnownQty(q) - excess)
    BY <1>1, <2>1, <2>2 DEF KnownQty
  <2> QED BY <2>1, <2>3 DEF Greater
<1>14. KnownQty(Kept(r, ks)) <= KnownQty(q) - excess
  BY <1>11, <1>12, <1>13
<1> QED BY <1>2, <1>7, <1>9, <1>10, <1>14

\* Reconciling moves no order, and leaves no more known than is visible.
LEMMA ReconciledIs ==
  ASSUME NEW q \in Seq(Nodes), NEW os, StandOnce(q, os), NEW visible \in Nat
  PROVE  /\ Reconciled(q, visible) \in Seq(Nodes) /\ StandOnce(Reconciled(q, visible), os)
         /\ HasUnseen(Reconciled(q, visible)) <=> HasUnseen(q)
         /\ HasUnseen(q) => Reconciled(q, visible) = q
         /\ ~ HasUnseen(q) => KnownQty(Reconciled(q, visible)) <= visible
<1>1. KnownQty(q) \in Nat
  BY KnownTyped
<1>2. CASE HasUnseen(q)
  BY <1>2 DEF Reconciled
<1>3. CASE ~ HasUnseen(q) /\ KnownQty(q) < visible
  <2> DEFINE n == Public(visible - KnownQty(q))
  <2>1. n \in Nodes /\ IsKnown(n) /\ n # Unseen
    BY <1>1, <1>3, NodesAre
  <2>2. n.qty = visible - KnownQty(q) /\ n.who = Nobody
    BY DEF Public
  <2>3. Reconciled(q, visible) = Append(q, n)
    BY <1>3 DEF Reconciled
  <2> HIDE DEF n
  <2>4. /\ Append(q, n) \in Seq(Nodes)
        /\ KnownQty(Append(q, n)) = KnownQty(q) + (IF IsKnown(n) THEN n.qty ELSE 0)
        /\ HasUnseen(Append(q, n)) <=> HasUnseen(q) \/ n = Unseen
    BY <2>1, Appended
  <2>5. KnownQty(Append(q, n)) = visible
    BY <1>1, <2>1, <2>2, <2>4
  <2>6. Nobody \notin os /\ os \cup ({Nobody} \ {Nobody}) = os
    BY DEF StandOnce
  <2>7. StandOnce(Append(q, n), os \cup ({n.who} \ {Nobody}))
    BY <2>1, <2>2, <2>6, AppendStands
  <2>8. StandOnce(Append(q, n), os)
    BY <2>2, <2>6, <2>7
  <2> QED BY <1>3, <2>1, <2>3, <2>4, <2>5, <2>8
<1>4. CASE ~ HasUnseen(q) /\ ~ (KnownQty(q) < visible)
  <2> DEFINE e == KnownQty(q) - visible
  <2>1. e \in Nat /\ e <= KnownQty(q) /\ KnownQty(q) - e = visible
    BY <1>1, <1>4
  <2>2. Reconciled(q, visible) = Shrunk(q, e)
    BY <1>4 DEF Reconciled
  <2> HIDE DEF e
  <2>3. /\ Shrunk(q, e) \in Seq(Nodes) /\ StandOnce(Shrunk(q, e), os)
        /\ HasUnseen(Shrunk(q, e)) <=> HasUnseen(q)
        /\ KnownQty(Shrunk(q, e)) <= KnownQty(q) - e
    BY <2>1, ShrunkIs
  <2> QED BY <1>4, <2>1, <2>2, <2>3
<1> QED BY <1>2, <1>3, <1>4

-----------------------------------------------------------------------------
\* A queue as the venue keeps it: who stands in it, and how much is known of what
\* the level shows.
SoundQueue(q, os, visible) ==
  /\ q \in Seq(Nodes) /\ StandOnce(q, os)
  /\ KnownQty(q) > 0 => ~ HasUnseen(q) /\ KnownQty(q) <= visible

\* A queue without orders is sound.
LEMMA EmptySound ==
  ASSUME NEW visible \in Nat PROVE SoundQueue(<<>>, {}, visible) /\ ~ HoldsOwn(<<>>)
<1>1. <<>> \in Seq(Nodes) /\ DOMAIN <<>> = {}
  BY EmptySeq
<1>2. KnownQty(<<>>) = 0
  BY <1>1, KnownNone DEF KnownQty
<1>3. StandOnce(<<>>, {})
  BY <1>1 DEF StandOnce
<1> QED BY <1>1, <1>2, <1>3 DEF SoundQueue, HoldsOwn

\* Dropping what is vacant keeps a queue sound.
LEMMA VacantSound ==
  ASSUME NEW q, NEW os, NEW visible \in Nat, SoundQueue(q, os, visible)
  PROVE  SoundQueue(IF HoldsOwn(q) THEN q ELSE <<>>, os, visible)
<1>1. CASE ~ HoldsOwn(q)
  <2>1. os = {}
    BY <1>1 DEF HoldsOwn, SoundQueue, StandOnce, IsOwn
  <2> QED BY <1>1, <2>1, EmptySound
<1> QED BY <1>1

\* Keeping part of a queue, perhaps less of some nodes, keeps it sound.
LEMMA KeptSound ==
  ASSUME NEW q, NEW os, NEW visible \in Nat, SoundQueue(q, os, visible), NEW ks \in SUBSET DOMAIN q
  PROVE  SoundQueue(Kept(q, ks), {q[k].who : k \in ks} \ {Nobody}, visible)
<1>1. q \in Seq(Nodes) /\ StandOnce(q, os)
  BY DEF SoundQueue
<1>2. /\ StandOnce(Kept(q, ks), {q[k].who : k \in ks} \ {Nobody})
      /\ HasUnseen(Kept(q, ks)) <=> \E k \in ks : q[k] = Unseen
  BY <1>1, KeptStand
<1>3. KnownQty(Kept(q, ks)) = KnownIn(q, ks) /\ Kept(q, ks) \in Seq(Nodes)
  BY <1>1, KeptKnown, KeptNth
<1>4. KnownIn(q, ks) \in Nat /\ KnownIn(q, ks) <= KnownQty(q) /\ KnownQty(q) \in Nat
  BY <1>1, KnownTyped
<1>5. HasUnseen(Kept(q, ks)) => HasUnseen(q)
  BY <1>2 DEF HasUnseen
<1>6. ASSUME KnownQty(Kept(q, ks)) > 0
      PROVE  ~ HasUnseen(Kept(q, ks)) /\ KnownQty(Kept(q, ks)) <= visible
  <2>1. KnownQty(q) > 0 /\ KnownQty(Kept(q, ks)) <= KnownQty(q)
    BY <1>3, <1>4, <1>6
  <2>2. ~ HasUnseen(q) /\ KnownQty(q) <= visible
    BY <2>1 DEF SoundQueue
  <2>3. KnownQty(Kept(q, ks)) <= visible
    BY <1>3, <1>4, <2>1, <2>2
  <2> QED BY <1>5, <2>2, <2>3
<1> QED BY <1>2, <1>3, <1>6 DEF SoundQueue

-----------------------------------------------------------------------------
(***************************************************************************)
(* Money: division, notionals, fees                                        *)
(***************************************************************************)
\* Division by a positive number.
LEMMA DivFacts ==
  ASSUME NEW a \in Nat, NEW q \in Nat \ {0}
  PROVE  a \div q \in Nat /\ q * (a \div q) <= a /\ a < q * (a \div q) + q
OBVIOUS

\* It grows with what is divided,
LEMMA DivGrows ==
  ASSUME NEW a \in Nat, NEW b \in Nat, NEW q \in Nat \ {0}, a <= b
  PROVE  a \div q <= b \div q
<1> DEFINE x == a \div q
           y == b \div q
<1>1. x \in Nat /\ y \in Nat /\ q * x <= a /\ b < q * y + q
  BY DivFacts
<1> HIDE DEF x, y
<1> SUFFICES ASSUME x > y PROVE FALSE
  BY <1>1 DEF x, y
<1>2. x >= y + 1
  BY <1>1
<1>3. q * x >= q * (y + 1)
  BY <1>1, <1>2
<1>4. q * (y + 1) = q * y + q /\ q * x \in Nat /\ q * y \in Nat
  BY <1>1
<1> QED BY <1>1, <1>3, <1>4

\* and undoes a product.
LEMMA DivExact == ASSUME NEW n \in Nat, NEW q \in Nat \ {0} PROVE (n * q) \div q = n
<1> DEFINE x == (n * q) \div q
<1>1. n * q \in Nat
  OBVIOUS
<1>2. x \in Nat /\ q * x <= n * q /\ n * q < q * x + q
  BY <1>1, DivFacts
<1> HIDE DEF x
<1>3. n * q = q * n /\ q * x + q = q * (x + 1)
  BY <1>2
<1>4. ~ (n < x)
  <2> SUFFICES ASSUME n < x PROVE FALSE
    OBVIOUS
  <2>1. q * (n + 1) <= q * x
    BY <1>2
  <2>2. q * (n + 1) = n * q + q
    OBVIOUS
  <2> QED BY <1>1, <1>2, <2>1, <2>2
<1>5. ~ (x + 1 <= n)
  <2> SUFFICES ASSUME x + 1 <= n PROVE FALSE
    OBVIOUS
  <2>1. q * (x + 1) <= q * n
    BY <1>2
  <2> QED BY <1>1, <1>2, <1>3, <2>1
<1>6. x = n
  BY <1>2, <1>4, <1>5
<1> QED BY <1>6 DEF x

\* Notional grows with the quantity.
LEMMA NotionalGrows ==
  ASSUME NEW p \in Nat, NEW a \in Nat, NEW b \in Nat, a <= b
  PROVE  /\ Notional(p, a) \in Nat /\ Notional(p, b) \in Nat /\ Notional(p, a) <= Notional(p, b)
         /\ Notional(p, 0) = 0
<1>1. Scale \in Nat \ {0}
  BY VenueAssumption
<1>2. p * a \in Nat /\ p * b \in Nat /\ p * a <= p * b /\ p * 0 = 0
  OBVIOUS
<1>3. (p * a) \div Scale \in Nat /\ (p * b) \div Scale \in Nat /\ 0 \div Scale = 0
  BY <1>1, <1>2, DivFacts
<1>4. (p * a) \div Scale <= (p * b) \div Scale
  BY <1>1, <1>2, DivGrows
<1> QED BY <1>2, <1>3, <1>4 DEF Notional

\* A fee is no more than what it is charged on, and a rebate is not negative.
LEMMA ChargeBounds ==
  ASSUME NEW n \in Nat
  PROVE  /\ Charge(n) \in Int /\ Charge(n) <= n
         /\ FeeNum >= 0 => Charge(n) >= 0
         /\ FeeNum < 0 => Charge(n) <= 0
<1>1. FeeNum \in Int /\ FeeDen \in Nat \ {0} /\ -FeeDen <= FeeNum /\ FeeNum <= FeeDen
  BY VenueAssumption
<1>2. CASE FeeNum >= 0
  <2>1. n * FeeNum \in Nat /\ n * FeeNum <= n * FeeDen /\ n * FeeDen \in Nat
    BY <1>1, <1>2
  <2>2. (n * FeeNum) \div FeeDen \in Nat /\ (n * FeeNum) \div FeeDen <= (n * FeeDen) \div FeeDen
    BY <1>1, <2>1, DivFacts, DivGrows
  <2>3. (n * FeeDen) \div FeeDen = n
    <3>1. \A q \in Nat \ {0} : (n * q) \div q = n
      BY DivExact
    <3>2. FeeDen \in Nat \ {0}
      BY <1>1
    <3> QED BY <3>1, <3>2
  <2>4. Charge(n) = (n * FeeNum) \div FeeDen
    BY <1>2 DEF Charge
  <2>5. Charge(n) \in Nat /\ Charge(n) <= n
    BY <2>2, <2>3, <2>4
  <2>6. ~ (FeeNum < 0)
    BY <1>1, <1>2
  <2> QED BY <2>5, <2>6
<1>3. CASE FeeNum < 0
  <2>1. n * (-FeeNum) \in Nat
    BY <1>1, <1>3
  <2>2. (n * (-FeeNum)) \div FeeDen \in Nat
    BY <1>1, <2>1, DivFacts
  <2> QED BY <1>1, <1>3, <2>2 DEF Charge
<1> QED BY <1>1, <1>2, <1>3

-----------------------------------------------------------------------------
(***************************************************************************)
(* The wallet: what its balances add up                                    *)
(***************************************************************************)
\* An order that has been placed: it fills no more than its quantity, less while it is
\* open, and nothing before it rests.
RowOk(r) ==
  /\ r \in Terms /\ r.filled <= r.qty
  /\ r.phase \in {"pending", "resting"} => r.filled < r.qty
  /\ r.phase = "pending" => r.filled = 0

OrdersOk(os) == \A o \in Order : os[o] = [phase |-> "unborn"] \/ RowOk(os[o])

\* What the wallet's balances add up, order by order.
OwedBy(r)   == Spend(r.side, r.price, r.qty) - Spend(r.side, r.price, r.filled)
RestsOn(r, side)   == r.phase = "resting" /\ r.side = side
CountsOn(r, side)  == r.phase # "unborn" /\ r.side = side
OwedIn(os, side)  == [o \in Order |-> IF RestsOn(os[o], side) THEN OwedBy(os[o]) ELSE 0]
BaseIn(os, side)  == [o \in Order |-> IF CountsOn(os[o], side) THEN os[o].filled ELSE 0]
QuoteIn(os, side) ==
  [o \in Order |-> IF CountsOn(os[o], side) THEN Notional(os[o].price, os[o].filled) ELSE 0]

Total(f) == SumFunctionOnSet(f, Order)

FundsOk(w, f) == w \in [Assets -> [free : Nat, locked : Nat]] /\ f \in [Assets -> Int]

LockedAdds(os, w) == \A side \in Sides : w[SpentAsset(side)].locked = Total(OwedIn(os, side))

FundsAdd(os, w, f) ==
  /\ w["base"].free + w["base"].locked
       = Opening.base + Total(BaseIn(os, "Buy")) - Total(BaseIn(os, "Sell")) - f["base"]
  /\ w["quote"].free + w["quote"].locked
       = Opening.quote + Total(QuoteIn(os, "Sell")) - Total(QuoteIn(os, "Buy")) - f["quote"]

WalletOk(os, w, f) == FundsOk(w, f) /\ LockedAdds(os, w) /\ FundsAdd(os, w, f)

-----------------------------------------------------------------------------
\* Prices are natural numbers, and finitely many.
LEMMA PricesAre == Prices \subseteq Nat /\ IsFiniteSet(Prices)
<1>1. /\ Placements \subseteq [side : {"Buy", "Sell"}, price : Nat, qty : Nat \ {0}, isPostOnly : BOOLEAN]
      /\ Updates \subseteq [side : {"Buy", "Sell"}, price : Nat, qty : Nat]
      /\ Prints \subseteq [side : {"Buy", "Sell"}, price : Nat, qty : Nat]
      /\ IsFiniteSet(Placements) /\ IsFiniteSet(Updates) /\ IsFiniteSet(Prints)
  BY VenueAssumption
<1> DEFINE A == {t.price : t \in Placements}
           B == {u.price : u \in Updates}
           C == {p.price : p \in Prints}
<1>2. A \subseteq Nat /\ B \subseteq Nat /\ C \subseteq Nat
  BY <1>1
<1>3. IsFiniteSet(A)
  <2>1. [t \in Placements |-> t.price] \in Surjection(Placements, A)
    BY DEF Surjection
  <2> QED BY <1>1, <2>1, FS_Surjection
<1>4. IsFiniteSet(B)
  <2>1. [t \in Updates |-> t.price] \in Surjection(Updates, B)
    BY DEF Surjection
  <2> QED BY <1>1, <2>1, FS_Surjection
<1>5. IsFiniteSet(C)
  <2>1. [t \in Prints |-> t.price] \in Surjection(Prints, C)
    BY DEF Surjection
  <2> QED BY <1>1, <2>1, FS_Surjection
<1> HIDE DEF A, B, C
<1>6. IsFiniteSet((A \cup B) \cup C)
  <2>1. IsFiniteSet(A \cup B)
    BY <1>3, <1>4, FS_Union
  <2> QED BY <1>5, <2>1, FS_Union
<1> QED BY <1>2, <1>6 DEF Prices, A, B, C

\* An order that has been placed has terms.
LEMMA RowIs ==
  ASSUME NEW r, RowOk(r)
  PROVE  /\ r \in Terms /\ r.phase \in {"pending", "resting", "closed"} /\ r.phase # "unborn"
         /\ r.side \in Sides /\ r.price \in Prices /\ r.price \in Nat
         /\ r.qty \in Nat /\ r.filled \in Nat /\ r.amends \in 0 .. MaxAmends
         /\ r.filled <= r.qty
         /\ r.phase \in {"pending", "resting"} => r.filled < r.qty
         /\ r.phase = "pending" => r.filled = 0
<1>1. r \in Terms
  BY DEF RowOk
<1>2. /\ r.phase \in {"pending", "resting", "closed"}
      /\ r.side \in Sides /\ r.price \in Prices
      /\ r.qty \in Nat /\ r.filled \in Nat /\ r.amends \in 0 .. MaxAmends
  BY <1>1 DEF Terms
<1>3. r.price \in Nat /\ r.phase # "unborn"
  BY <1>2, PricesAre
<1>4. /\ r.filled <= r.qty
      /\ r.phase \in {"pending", "resting"} => r.filled < r.qty
      /\ r.phase = "pending" => r.filled = 0
  BY DEF RowOk
<1> QED BY <1>1, <1>2, <1>3, <1>4

\* One that has not been placed has none, and the others are.
LEMMA RowOr ==
  ASSUME NEW os, OrdersOk(os), NEW o \in Order
  PROVE  /\ os[o].phase = "unborn" => os[o] = [phase |-> "unborn"]
         /\ os[o].phase # "unborn" => RowOk(os[o])
<1>1. CASE os[o] = [phase |-> "unborn"]
  BY <1>1
<1>2. CASE RowOk(os[o])
  BY <1>2, RowIs
<1> QED BY <1>1, <1>2 DEF OrdersOk

\* What it may spend: never less for a larger quantity.
LEMMA SpendGrows ==
  ASSUME NEW side \in Sides, NEW p \in Nat, NEW a \in Nat, NEW b \in Nat, a <= b
  PROVE  /\ Spend(side, p, a) \in Nat /\ Spend(side, p, b) \in Nat
         /\ Spend(side, p, a) <= Spend(side, p, b) /\ Spend(side, p, 0) = 0
BY NotionalGrows DEF Spend

\* What an order still owes is no less than nothing.
LEMMA OwedIs == ASSUME NEW r, RowOk(r) PROVE OwedBy(r) \in Nat /\ Notional(r.price, r.filled) \in Nat
<1>1. r.side \in Sides /\ r.price \in Nat /\ r.qty \in Nat /\ r.filled \in Nat /\ r.filled <= r.qty
  BY RowIs
<1>2. /\ Spend(r.side, r.price, r.qty) \in Nat /\ Spend(r.side, r.price, r.filled) \in Nat
      /\ Spend(r.side, r.price, r.filled) <= Spend(r.side, r.price, r.qty)
  BY <1>1, SpendGrows
<1>3. OwedBy(r) \in Nat
  BY <1>2 DEF OwedBy
<1>4. Notional(r.price, r.filled) \in Nat
  BY <1>1, NotionalGrows
<1> QED BY <1>3, <1>4

\* The terms of the sums.
LEMMA TermsAre ==
  ASSUME NEW os, OrdersOk(os), NEW o \in Order, NEW side
  PROVE  /\ OwedIn(os, side)[o] \in Nat /\ BaseIn(os, side)[o] \in Nat /\ QuoteIn(os, side)[o] \in Nat
         /\ OwedIn(os, side)[o] = IF RestsOn(os[o], side) THEN OwedBy(os[o]) ELSE 0
         /\ BaseIn(os, side)[o] = IF CountsOn(os[o], side) THEN os[o].filled ELSE 0
         /\ QuoteIn(os, side)[o]
              = IF CountsOn(os[o], side) THEN Notional(os[o].price, os[o].filled) ELSE 0
<1>1. OwedIn(os, side)[o] = IF RestsOn(os[o], side) THEN OwedBy(os[o]) ELSE 0
  BY DEF OwedIn
<1>2. BaseIn(os, side)[o] = IF CountsOn(os[o], side) THEN os[o].filled ELSE 0
  BY DEF BaseIn
<1>3. QuoteIn(os, side)[o]
        = IF CountsOn(os[o], side) THEN Notional(os[o].price, os[o].filled) ELSE 0
  BY DEF QuoteIn
<1>4. CASE os[o].phase = "unborn"
  BY <1>1, <1>2, <1>3, <1>4 DEF RestsOn, CountsOn
<1>5. CASE os[o].phase # "unborn"
  <2>1. RowOk(os[o])
    BY <1>5, RowOr
  <2>2. OwedBy(os[o]) \in Nat /\ Notional(os[o].price, os[o].filled) \in Nat
    BY <2>1, OwedIs
  <2>3. os[o].filled \in Nat
    BY <2>1, RowIs
  <2> QED BY <1>1, <1>2, <1>3, <2>2, <2>3
<1> QED BY <1>4, <1>5

\* The sums are natural numbers.
LEMMA TotalsAre ==
  ASSUME NEW os, OrdersOk(os), NEW side
  PROVE  /\ Total(OwedIn(os, side)) \in Nat /\ Total(BaseIn(os, side)) \in Nat
         /\ Total(QuoteIn(os, side)) \in Nat
<1>1. IsFiniteSet(Order)
  BY NodesAre
<1>2. \A o \in Order : OwedIn(os, side)[o] \in Nat
  BY TermsAre
<1>3. \A o \in Order : BaseIn(os, side)[o] \in Nat
  BY TermsAre
<1>4. \A o \in Order : QuoteIn(os, side)[o] \in Nat
  BY TermsAre
<1>5. ASSUME NEW f, \A o \in Order : f[o] \in Nat PROVE Total(f) \in Nat
  BY <1>1, <1>5, SumPart DEF Total
<1> QED BY <1>2, <1>3, <1>4, <1>5

\* Equal terms, equal sums.
LEMMA TotalSame ==
  ASSUME NEW f, NEW g, \A o \in Order : f[o] \in Int /\ g[o] = f[o] PROVE Total(f) = Total(g)
BY NodesAre, SumSame DEF Total

\* A step that fills nothing and only moves money between free and locked keeps what
\* every asset adds up to.
LEMMA NoFills ==
  ASSUME NEW os, OrdersOk(os), NEW w, NEW f, FundsAdd(os, w, f), NEW osn, OrdersOk(osn), NEW wn,
         \A a \in Assets : wn[a].free + wn[a].locked = w[a].free + w[a].locked,
         \A o \in Order, side \in Sides :
           /\ BaseIn(osn, side)[o] = BaseIn(os, side)[o]
           /\ QuoteIn(osn, side)[o] = QuoteIn(os, side)[o]
  PROVE  FundsAdd(osn, wn, f)
<1>1. ASSUME NEW side \in Sides
      PROVE  /\ Total(BaseIn(osn, side)) = Total(BaseIn(os, side))
             /\ Total(QuoteIn(osn, side)) = Total(QuoteIn(os, side))
  <2>1. \A o \in Order : BaseIn(os, side)[o] \in Int /\ BaseIn(osn, side)[o] = BaseIn(os, side)[o]
    BY TermsAre
  <2>2. \A o \in Order : QuoteIn(os, side)[o] \in Int /\ QuoteIn(osn, side)[o] = QuoteIn(os, side)[o]
    BY TermsAre
  <2> QED BY <2>1, <2>2, TotalSame
<1>2. /\ wn["base"].free + wn["base"].locked = w["base"].free + w["base"].locked
      /\ wn["quote"].free + wn["quote"].locked = w["quote"].free + w["quote"].locked
  BY DEF Assets
<1>3. "Buy" \in Sides /\ "Sell" \in Sides
  BY DEF Sides
<1> QED BY <1>1, <1>2, <1>3 DEF FundsAdd

-----------------------------------------------------------------------------
(***************************************************************************)
(* One fill of an order                                                    *)
(***************************************************************************)
\* An order after a fill of n, and the settlement of it.
FilledBy(r, n) ==
  [r EXCEPT !.filled = @ + n, !.phase = IF n = r.qty - r.filled THEN "closed" ELSE @]
Deal(r, n) == Settlement(r.side, r.price, r.filled, r.filled + n)

\* A fill of a resting order costs what its reservation falls by, all that is left
\* when it fills whole, and its fee is no more than what it brings.
LEMMA DealIs ==
  ASSUME NEW r, RowOk(r), r.phase = "resting", NEW n \in Nat, n > 0, n <= r.qty - r.filled
  PROVE  /\ Deal(r, n).debit \in Nat /\ Deal(r, n).received \in Nat /\ Deal(r, n).fee \in Int
         /\ FeeAsset(r.side) = ReceivedAsset(r.side) => Deal(r, n).fee <= Deal(r, n).received
         /\ FeeAsset(r.side) # ReceivedAsset(r.side) => Deal(r, n).fee <= 0
         /\ Deal(r, n).debit = Spend(r.side, r.price, r.filled + n) - Spend(r.side, r.price, r.filled)
         /\ n = r.qty - r.filled => Deal(r, n).debit = OwedBy(r)
         /\ r.side = "Buy" => /\ Deal(r, n).received = n
                              /\ Deal(r, n).debit
                                   = Notional(r.price, r.filled + n) - Notional(r.price, r.filled)
         /\ r.side = "Sell" => /\ Deal(r, n).debit = n
                               /\ Deal(r, n).received
                                    = Notional(r.price, r.filled + n) - Notional(r.price, r.filled)
<1> DEFINE before == r.filled
           after  == r.filled + n
           quote  == Notional(r.price, after) - Notional(r.price, before)
           base   == after - before
           basis  == IF FeeAsset(r.side) = "base" THEN base ELSE quote
<1>1. /\ r.side \in Sides /\ r.price \in Nat /\ r.qty \in Nat /\ r.filled \in Nat
  BY RowIs
<1>2. before \in Nat /\ after \in Nat /\ before <= after /\ base = n
  BY <1>1
<1>3. /\ Notional(r.price, before) \in Nat /\ Notional(r.price, after) \in Nat
      /\ Notional(r.price, before) <= Notional(r.price, after)
  BY <1>1, <1>2, NotionalGrows
<1>4. quote \in Nat /\ base \in Nat
  BY <1>2, <1>3
<1>5. /\ Deal(r, n).debit = IF r.side = "Buy" THEN quote ELSE base
      /\ Deal(r, n).received = IF r.side = "Buy" THEN base ELSE quote
      /\ Deal(r, n).fee = Charge(basis)
  BY DEF Deal, Settlement
<1>6. basis \in Nat
  BY <1>4
<1>7. /\ Charge(basis) \in Int /\ Charge(basis) <= basis
      /\ FeeNum < 0 => Charge(basis) <= 0
  BY <1>6, ChargeBounds
<1>8. r.side = "Buy" \/ r.side = "Sell"
  BY <1>1 DEF Sides
<1>9. FeeNum \in Int
  BY VenueAssumption
<1>10. FeeAsset(r.side) = IF FeeNum < 0 THEN "quote" ELSE IF r.side = "Buy" THEN "base" ELSE "quote"
  BY DEF FeeAsset, ReceivedAsset
<1>11. ReceivedAsset(r.side) = IF r.side = "Buy" THEN "base" ELSE "quote"
  BY DEF ReceivedAsset
<1>12. /\ Spend(r.side, r.price, after) - Spend(r.side, r.price, before)
            = IF r.side = "Buy" THEN quote ELSE base
  BY DEF Spend
<1>13. n = r.qty - r.filled => after = r.qty
  BY <1>1
<1>14. n = r.qty - r.filled => Spend(r.side, r.price, after) - Spend(r.side, r.price, before) = OwedBy(r)
  BY <1>13 DEF OwedBy
<1>15. FeeAsset(r.side) = ReceivedAsset(r.side) => basis = Deal(r, n).received
  <2>1. FeeAsset(r.side) = ReceivedAsset(r.side) =>
          basis = IF ReceivedAsset(r.side) = "base" THEN base ELSE quote
    OBVIOUS
  <2> HIDE DEF basis
  <2> QED BY <1>5, <1>8, <1>11, <2>1
<1>16. FeeAsset(r.side) # ReceivedAsset(r.side) => FeeNum < 0
  BY <1>9, <1>10, <1>11
<1> HIDE DEF quote, base, basis
<1>17. /\ Deal(r, n).debit \in Nat /\ Deal(r, n).received \in Nat /\ Deal(r, n).fee \in Int
  BY <1>4, <1>5, <1>7
<1>18. FeeAsset(r.side) = ReceivedAsset(r.side) => Deal(r, n).fee <= Deal(r, n).received
  BY <1>5, <1>7, <1>15
<1>19. FeeAsset(r.side) # ReceivedAsset(r.side) => Deal(r, n).fee <= 0
  BY <1>5, <1>7, <1>16
<1>20. Deal(r, n).debit = Spend(r.side, r.price, after) - Spend(r.side, r.price, before)
  BY <1>5, <1>12
<1>21. r.side = "Buy" => Deal(r, n).received = n /\ Deal(r, n).debit = quote
  BY <1>2, <1>5
<1>22. r.side = "Sell" => Deal(r, n).debit = n /\ Deal(r, n).received = quote
  BY <1>2, <1>5
<1> QED BY <1>14, <1>17, <1>18, <1>19, <1>20, <1>21, <1>22 DEF quote

\* The order is in order after it, and owes, holds and has cost that much less or more.
LEMMA FilledIs ==
  ASSUME NEW r, RowOk(r), r.phase = "resting", NEW n \in Nat, n > 0, n <= r.qty - r.filled,
         NEW side \in Sides
  PROVE  /\ RowOk(FilledBy(r, n)) /\ FilledBy(r, n).side = r.side /\ FilledBy(r, n).price = r.price
         /\ FilledBy(r, n).qty = r.qty /\ FilledBy(r, n).filled = r.filled + n
         /\ FilledBy(r, n).phase = IF n = r.qty - r.filled THEN "closed" ELSE "resting"
         /\ r.side = side =>
              (IF RestsOn(FilledBy(r, n), side) THEN OwedBy(FilledBy(r, n)) ELSE 0)
                = OwedBy(r) - Deal(r, n).debit
<1> DEFINE g == FilledBy(r, n)
<1>1. /\ r \in Terms /\ r.side \in Sides /\ r.price \in Nat /\ r.qty \in Nat /\ r.filled \in Nat
  BY RowIs
<1>2. /\ g.side = r.side /\ g.price = r.price /\ g.qty = r.qty /\ g.filled = r.filled + n
      /\ g.phase = IF n = r.qty - r.filled THEN "closed" ELSE "resting"
      /\ g \in Terms
  <2>1. r.filled + n \in Nat
    BY <1>1
  <2>2. (IF n = r.qty - r.filled THEN "closed" ELSE r.phase) \in {"pending", "resting", "closed"}
    OBVIOUS
  <2> QED BY <1>1, <2>1, <2>2 DEF FilledBy, Terms
<1> HIDE DEF g
<1>3. g.filled <= g.qty
  BY <1>1, <1>2
<1>4. g.phase \in {"pending", "resting"} => g.filled < g.qty
  <2>1. g.phase \in {"pending", "resting"} => n # r.qty - r.filled
    BY <1>2
  <2> QED BY <1>1, <1>2, <2>1
<1>5. g.phase # "pending"
  BY <1>2
<1>6. RowOk(g)
  BY <1>2, <1>3, <1>4, <1>5 DEF RowOk
<1>7. ASSUME r.side = side
      PROVE  (IF RestsOn(g, side) THEN OwedBy(g) ELSE 0) = OwedBy(r) - Deal(r, n).debit
  <2>1. CASE n = r.qty - r.filled
    <3>1. ~ RestsOn(g, side)
      BY <1>2, <2>1 DEF RestsOn
    <3>2. Deal(r, n).debit = OwedBy(r)
      BY <2>1, DealIs
    <3>3. OwedBy(r) \in Nat
      BY OwedIs
    <3> QED BY <3>1, <3>2, <3>3
  <2>2. CASE n # r.qty - r.filled
    <3>1. RestsOn(g, side)
      BY <1>2, <1>7, <2>2 DEF RestsOn
    <3>2. Deal(r, n).debit = Spend(r.side, r.price, r.filled + n) - Spend(r.side, r.price, r.filled)
      BY DealIs
    <3>3. OwedBy(g) = Spend(r.side, r.price, r.qty) - Spend(r.side, r.price, r.filled + n)
      BY <1>2 DEF OwedBy
    <3>4. OwedBy(r) = Spend(r.side, r.price, r.qty) - Spend(r.side, r.price, r.filled)
      BY DEF OwedBy
    <3>5. /\ Spend(r.side, r.price, r.qty) \in Nat /\ Spend(r.side, r.price, r.filled) \in Nat
          /\ Spend(r.side, r.price, r.filled + n) \in Nat
      <4>1. r.filled <= r.filled + n /\ r.filled + n \in Nat /\ r.filled <= r.qty
        BY <1>1, RowIs
      <4> QED BY <1>1, <4>1, SpendGrows
    <3> QED BY <3>1, <3>2, <3>3, <3>4, <3>5
  <2> QED BY <2>1, <2>2
<1> QED BY <1>2, <1>6, <1>7 DEF g

-----------------------------------------------------------------------------
(***************************************************************************)
(* The fills of a print                                                    *)
(***************************************************************************)
\* What one print gives the orders: each of those it meets rests on its side, and gets
\* no more than it is open for.
Fits(os, got, side) ==
  /\ got \in [Order -> Nat]
  /\ \A o \in Order : got[o] > 0 => RestsOn(os[o], side) /\ got[o] <= os[o].qty - os[o].filled

Hits(got)       == {o \in Order : got[o] > 0}
Debits(os, got) == [o \in Order |-> IF o \in Hits(got) THEN Deal(os[o], got[o]).debit ELSE 0]
Gains(os, got)  == [o \in Order |-> IF o \in Hits(got) THEN Deal(os[o], got[o]).received ELSE 0]
Costs(os, got)  == [o \in Order |-> IF o \in Hits(got) THEN Deal(os[o], got[o]).fee ELSE 0]

\* The fills of a print, order by order.
LEMMA HitIs ==
  ASSUME NEW os, OrdersOk(os), NEW got, NEW side \in Sides, Fits(os, got, side), NEW o \in Hits(got)
  PROVE  /\ o \in Order /\ RowOk(os[o]) /\ os[o].phase = "resting" /\ os[o].side = side
         /\ got[o] \in Nat /\ got[o] > 0 /\ got[o] <= os[o].qty - os[o].filled
<1>1. o \in Order /\ got[o] > 0 /\ got[o] \in Nat
  BY DEF Hits, Fits
<1>2. RestsOn(os[o], side) /\ got[o] <= os[o].qty - os[o].filled
  BY <1>1 DEF Fits
<1>3. os[o].phase = "resting" /\ os[o].side = side
  BY <1>2 DEF RestsOn
<1>4. RowOk(os[o])
  BY <1>1, <1>3, RowOr
<1> QED BY <1>1, <1>2, <1>3, <1>4

\* What the sums over the fills are made of.
LEMMA DealsAre ==
  ASSUME NEW os, OrdersOk(os), NEW got, NEW side \in Sides, Fits(os, got, side), NEW o \in Order
  PROVE  /\ Debits(os, got)[o] \in Nat /\ Gains(os, got)[o] \in Nat /\ Costs(os, got)[o] \in Int
         /\ FeeAsset(side) = ReceivedAsset(side) => Costs(os, got)[o] <= Gains(os, got)[o]
         /\ FeeAsset(side) # ReceivedAsset(side) => Costs(os, got)[o] <= 0
<1>1. CASE o \in Hits(got)
  <2>1. RowOk(os[o]) /\ os[o].phase = "resting" /\ os[o].side = side
        /\ got[o] \in Nat /\ got[o] > 0 /\ got[o] <= os[o].qty - os[o].filled
    BY <1>1, HitIs
  <2>2. /\ Deal(os[o], got[o]).debit \in Nat /\ Deal(os[o], got[o]).received \in Nat
        /\ Deal(os[o], got[o]).fee \in Int
        /\ FeeAsset(side) = ReceivedAsset(side) =>
             Deal(os[o], got[o]).fee <= Deal(os[o], got[o]).received
        /\ FeeAsset(side) # ReceivedAsset(side) => Deal(os[o], got[o]).fee <= 0
    BY <2>1, DealIs
  <2>3. /\ Debits(os, got)[o] = Deal(os[o], got[o]).debit
        /\ Gains(os, got)[o] = Deal(os[o], got[o]).received
        /\ Costs(os, got)[o] = Deal(os[o], got[o]).fee
    BY <1>1 DEF Debits, Gains, Costs
  <2> QED BY <2>2, <2>3
<1>2. CASE o \notin Hits(got)
  BY <1>2 DEF Debits, Gains, Costs
<1> QED BY <1>1, <1>2

\* The orders after the print.
LEMMA HitsFill ==
  ASSUME NEW os, OrdersOk(os), NEW got, NEW side \in Sides, Fits(os, got, side), NEW osn,
         \A o \in Order : osn[o] = IF o \in Hits(got) THEN FilledBy(os[o], got[o]) ELSE os[o]
  PROVE  /\ OrdersOk(osn)
         /\ \A o \in Order :
              /\ OwedIn(osn, side)[o] = OwedIn(os, side)[o] - Debits(os, got)[o]
              /\ BaseIn(osn, side)[o]
                   = BaseIn(os, side)[o]
                       + (IF side = "Buy" THEN Gains(os, got)[o] ELSE Debits(os, got)[o])
              /\ QuoteIn(osn, side)[o]
                   = QuoteIn(os, side)[o]
                       + (IF side = "Buy" THEN Debits(os, got)[o] ELSE Gains(os, got)[o])
              /\ \A other \in Sides : other # side =>
                   /\ OwedIn(osn, other)[o] = OwedIn(os, other)[o]
                   /\ BaseIn(osn, other)[o] = BaseIn(os, other)[o]
                   /\ QuoteIn(osn, other)[o] = QuoteIn(os, other)[o]
<1>1. ASSUME NEW o \in Hits(got)
      PROVE  /\ o \in Order /\ RowOk(os[o]) /\ os[o].phase = "resting" /\ os[o].side = side
             /\ got[o] \in Nat /\ got[o] > 0 /\ got[o] <= os[o].qty - os[o].filled
             /\ osn[o] = FilledBy(os[o], got[o])
  BY HitIs
<1>2. ASSUME NEW o \in Hits(got)
      PROVE  /\ RowOk(osn[o]) /\ osn[o].side = side /\ osn[o].price = os[o].price
             /\ osn[o].filled = os[o].filled + got[o]
             /\ osn[o].phase \in {"resting", "closed"}
             /\ (IF RestsOn(osn[o], side) THEN OwedBy(osn[o]) ELSE 0)
                  = OwedBy(os[o]) - Deal(os[o], got[o]).debit
  BY <1>1, FilledIs
<1>3. ASSUME NEW o \in Order PROVE osn[o] = [phase |-> "unborn"] \/ RowOk(osn[o])
  BY <1>2, <1>3 DEF OrdersOk
<1>4. OrdersOk(osn)
  BY <1>3 DEF OrdersOk
<1>5. ASSUME NEW o \in Order, o \notin Hits(got)
      PROVE  /\ osn[o] = os[o] /\ Debits(os, got)[o] = 0 /\ Gains(os, got)[o] = 0
             /\ \A s \in Sides : /\ OwedIn(osn, s)[o] = OwedIn(os, s)[o]
                                 /\ BaseIn(osn, s)[o] = BaseIn(os, s)[o]
                                 /\ QuoteIn(osn, s)[o] = QuoteIn(os, s)[o]
  <2>1. osn[o] = os[o]
    BY <1>5
  <2>2. Debits(os, got)[o] = 0 /\ Gains(os, got)[o] = 0
    BY <1>5 DEF Debits, Gains
  <2> QED BY <2>1, <2>2 DEF OwedIn, BaseIn, QuoteIn
<1>6. ASSUME NEW o \in Hits(got), NEW s \in Sides
      PROVE  /\ s # side => /\ ~ RestsOn(osn[o], s) /\ ~ RestsOn(os[o], s)
                            /\ ~ CountsOn(osn[o], s) /\ ~ CountsOn(os[o], s)
             /\ s = side => RestsOn(os[o], s) /\ CountsOn(osn[o], s) /\ CountsOn(os[o], s)
  BY <1>1, <1>2 DEF RestsOn, CountsOn
<1>7. ASSUME NEW o \in Hits(got), NEW s \in Sides, s # side
      PROVE  /\ OwedIn(osn, s)[o] = OwedIn(os, s)[o]
             /\ BaseIn(osn, s)[o] = BaseIn(os, s)[o]
             /\ QuoteIn(osn, s)[o] = QuoteIn(os, s)[o]
  BY <1>1, <1>6, <1>7 DEF OwedIn, BaseIn, QuoteIn
<1>8. ASSUME NEW o \in Hits(got)
      PROVE  OwedIn(osn, side)[o] = OwedIn(os, side)[o] - Debits(os, got)[o]
  <2>1. o \in Order
    BY <1>1
  <2>2. OwedIn(os, side)[o] = OwedBy(os[o])
    BY <2>1, <1>6 DEF OwedIn
  <2>3. OwedIn(osn, side)[o] = IF RestsOn(osn[o], side) THEN OwedBy(osn[o]) ELSE 0
    BY <2>1 DEF OwedIn
  <2>4. Debits(os, got)[o] = Deal(os[o], got[o]).debit
    BY <2>1 DEF Debits
  <2> QED BY <1>2, <2>2, <2>3, <2>4
<1>9. ASSUME NEW o \in Hits(got)
      PROVE  /\ BaseIn(osn, side)[o]
                   = BaseIn(os, side)[o]
                       + (IF side = "Buy" THEN Gains(os, got)[o] ELSE Debits(os, got)[o])
              /\ QuoteIn(osn, side)[o]
                   = QuoteIn(os, side)[o]
                       + (IF side = "Buy" THEN Debits(os, got)[o] ELSE Gains(os, got)[o])
  <2> DEFINE n == got[o]
             p == os[o].price
             a == os[o].filled
             d == Deal(os[o], n)
  <2>1. o \in Order
    BY <1>1
  <2>2. /\ Debits(os, got)[o] = d.debit /\ Gains(os, got)[o] = d.received
    BY <2>1 DEF Debits, Gains
  <2>3. /\ BaseIn(os, side)[o] = a /\ QuoteIn(os, side)[o] = Notional(p, a)
    BY <2>1, <1>6 DEF BaseIn, QuoteIn
  <2>4. /\ BaseIn(osn, side)[o] = a + n /\ QuoteIn(osn, side)[o] = Notional(p, a + n)
    BY <2>1, <1>2, <1>6 DEF BaseIn, QuoteIn
  <2>5. /\ side = "Buy" => d.received = n /\ d.debit = Notional(p, a + n) - Notional(p, a)
        /\ side = "Sell" => d.debit = n /\ d.received = Notional(p, a + n) - Notional(p, a)
    BY <1>1, DealIs
  <2>6. a \in Nat /\ p \in Nat /\ n \in Nat
    BY <1>1, RowIs
  <2>7. Notional(p, a) \in Nat /\ Notional(p, a + n) \in Nat
    <3>1. a + n \in Nat /\ a <= a + n
      BY <2>6
    <3> QED BY <2>6, <3>1, NotionalGrows
  <2>8. side = "Buy" \/ side = "Sell"
    BY DEF Sides
  <2> HIDE DEF n, p, a, d
  <2>9. CASE side = "Buy"
    BY <2>2, <2>3, <2>4, <2>5, <2>6, <2>7, <2>9
  <2>10. CASE side = "Sell"
    BY <2>2, <2>3, <2>4, <2>5, <2>6, <2>7, <2>10
  <2> QED BY <2>8, <2>9, <2>10
<1>10. ASSUME NEW o \in Order, o \notin Hits(got)
       PROVE /\ OwedIn(osn, side)[o] = OwedIn(os, side)[o] - Debits(os, got)[o]
             /\ BaseIn(osn, side)[o]
                   = BaseIn(os, side)[o]
                       + (IF side = "Buy" THEN Gains(os, got)[o] ELSE Debits(os, got)[o])
             /\ QuoteIn(osn, side)[o]
                   = QuoteIn(os, side)[o]
                       + (IF side = "Buy" THEN Debits(os, got)[o] ELSE Gains(os, got)[o])
  <2>1. /\ OwedIn(os, side)[o] \in Nat /\ BaseIn(os, side)[o] \in Nat /\ QuoteIn(os, side)[o] \in Nat
    BY TermsAre
  <2>2. /\ Debits(os, got)[o] = 0 /\ Gains(os, got)[o] = 0
        /\ OwedIn(osn, side)[o] = OwedIn(os, side)[o]
        /\ BaseIn(osn, side)[o] = BaseIn(os, side)[o]
        /\ QuoteIn(osn, side)[o] = QuoteIn(os, side)[o]
    BY <1>5, <1>10
  <2> QED BY <2>1, <2>2
<1> QED BY <1>4, <1>5, <1>7, <1>8, <1>9, <1>10

-----------------------------------------------------------------------------
(***************************************************************************)
(* The fills of a print keep the wallet in balance                         *)
(***************************************************************************)
\* Sums over every order, added and compared.
LEMMA TotalAdds ==
  ASSUME NEW f, NEW g, NEW h, \A o \in Order : f[o] \in Int /\ g[o] \in Int /\ h[o] = f[o] + g[o]
  PROVE  Total(h) = Total(f) + Total(g)
BY NodesAre, SumAdds DEF Total

\* No smaller for larger terms,
LEMMA TotalGrows ==
  ASSUME NEW f, NEW g, \A o \in Order : f[o] \in Int /\ g[o] \in Int /\ f[o] <= g[o]
  PROVE  Total(f) <= Total(g)
BY NodesAre, SumGrows DEF Total

\* and an integer for integers.
LEMMA TotalTyped ==
  ASSUME NEW f, \A o \in Order : f[o] \in Int PROVE Total(f) \in Int
BY NodesAre, SumTyped DEF Total

\* The two sides trade the two assets against each other.
LEMMA AssetsAre ==
  /\ SpentAsset("Buy") = "quote" /\ ReceivedAsset("Buy") = "base"
  /\ SpentAsset("Sell") = "base" /\ ReceivedAsset("Sell") = "quote"
  /\ FeeAsset("Sell") = "quote" /\ FeeAsset("Buy") = IF FeeNum < 0 THEN "quote" ELSE "base"
  /\ Sides = {"Buy", "Sell"} /\ Assets = {"base", "quote"}
  /\ \A side \in Sides : SpentAsset(side) \in Assets /\ ReceivedAsset(side) \in Assets
                         /\ FeeAsset(side) \in Assets
BY DEF SpentAsset, ReceivedAsset, FeeAsset, Sides, Assets

\* The sums after the fills of a print.
LEMMA HitsAdd ==
  ASSUME NEW os, OrdersOk(os), NEW got, NEW side \in Sides, Fits(os, got, side), NEW osn,
         \A o \in Order : osn[o] = IF o \in Hits(got) THEN FilledBy(os[o], got[o]) ELSE os[o]
  PROVE  /\ Total(Debits(os, got)) \in Nat /\ Total(Gains(os, got)) \in Nat
         /\ Total(Costs(os, got)) \in Int
         /\ FeeAsset(side) = ReceivedAsset(side) => Total(Costs(os, got)) <= Total(Gains(os, got))
         /\ FeeAsset(side) # ReceivedAsset(side) => Total(Costs(os, got)) <= 0
         /\ Total(OwedIn(os, side)) = Total(OwedIn(osn, side)) + Total(Debits(os, got))
         /\ Total(BaseIn(osn, side))
              = Total(BaseIn(os, side)) + (IF side = "Buy" THEN Total(Gains(os, got)) ELSE Total(Debits(os, got)))
         /\ Total(QuoteIn(osn, side))
              = Total(QuoteIn(os, side)) + (IF side = "Buy" THEN Total(Debits(os, got)) ELSE Total(Gains(os, got)))
         /\ \A other \in Sides : other # side =>
              /\ Total(OwedIn(osn, other)) = Total(OwedIn(os, other))
              /\ Total(BaseIn(osn, other)) = Total(BaseIn(os, other))
              /\ Total(QuoteIn(osn, other)) = Total(QuoteIn(os, other))
<1> DEFINE D == Debits(os, got)
           G == Gains(os, got)
           C == Costs(os, got)
<1>1. \A o \in Order : /\ D[o] \in Nat /\ G[o] \in Nat /\ C[o] \in Int
                       /\ FeeAsset(side) = ReceivedAsset(side) => C[o] <= G[o]
                       /\ FeeAsset(side) # ReceivedAsset(side) => C[o] <= 0
  BY DealsAre
<1>2. OrdersOk(osn)
  BY HitsFill
<1>3. \A o \in Order :
        /\ OwedIn(osn, side)[o] = OwedIn(os, side)[o] - D[o]
        /\ BaseIn(osn, side)[o] = BaseIn(os, side)[o] + (IF side = "Buy" THEN G[o] ELSE D[o])
        /\ QuoteIn(osn, side)[o] = QuoteIn(os, side)[o] + (IF side = "Buy" THEN D[o] ELSE G[o])
        /\ \A other \in Sides : other # side =>
             /\ OwedIn(osn, other)[o] = OwedIn(os, other)[o]
             /\ BaseIn(osn, other)[o] = BaseIn(os, other)[o]
             /\ QuoteIn(osn, other)[o] = QuoteIn(os, other)[o]
  BY HitsFill
<1>4. \A o \in Order, s \in Sides :
        /\ OwedIn(os, s)[o] \in Nat /\ BaseIn(os, s)[o] \in Nat /\ QuoteIn(os, s)[o] \in Nat
        /\ OwedIn(osn, s)[o] \in Nat
  BY <1>2, TermsAre
<1> HIDE DEF D, G, C
<1>5. Total(D) \in Nat /\ Total(G) \in Nat
  BY <1>1, NodesAre, SumPart DEF Total
<1>6. Total(C) \in Int
  BY <1>1, TotalTyped
<1>7. ASSUME FeeAsset(side) = ReceivedAsset(side) PROVE Total(C) <= Total(G)
  <2>1. \A o \in Order : C[o] \in Int /\ G[o] \in Int /\ C[o] <= G[o]
    BY <1>1, <1>7
  <2> QED BY <2>1, TotalGrows
<1>8. ASSUME FeeAsset(side) # ReceivedAsset(side) PROVE Total(C) <= 0
  <2> DEFINE Z == [o \in Order |-> 0]
  <2>1. \A o \in Order : C[o] \in Int /\ Z[o] \in Int /\ C[o] <= Z[o]
    BY <1>1, <1>8
  <2>2. \A o \in Order : Z[o] = 0
    OBVIOUS
  <2> HIDE DEF Z
  <2>3. Total(Z) = 0
    BY <2>2, NodesAre, SumZero DEF Total
  <2>4. Total(C) <= Total(Z)
    BY <2>1, TotalGrows
  <2> QED BY <2>3, <2>4
<1>9. Total(OwedIn(os, side)) = Total(OwedIn(osn, side)) + Total(D)
  <2>1. \A o \in Order : /\ OwedIn(osn, side)[o] \in Int /\ D[o] \in Int
                         /\ OwedIn(os, side)[o] = OwedIn(osn, side)[o] + D[o]
    <3> TAKE o \in Order
    <3>1. OwedIn(osn, side)[o] \in Nat /\ D[o] \in Nat /\ OwedIn(os, side)[o] \in Nat
          /\ OwedIn(osn, side)[o] = OwedIn(os, side)[o] - D[o]
      BY <1>1, <1>3, <1>4
    <3> QED BY <3>1
  <2> QED BY <2>1, TotalAdds
<1>10. ASSUME side = "Buy"
       PROVE  /\ Total(BaseIn(osn, side))
              = Total(BaseIn(os, side)) + (IF side = "Buy" THEN Total(G) ELSE Total(D))
             /\ Total(QuoteIn(osn, side))
              = Total(QuoteIn(os, side)) + (IF side = "Buy" THEN Total(D) ELSE Total(G))
  <2>1. Total(BaseIn(osn, side)) = Total(BaseIn(os, side)) + Total(G)
    <3>1. \A o \in Order : /\ BaseIn(os, side)[o] \in Int /\ G[o] \in Int
                           /\ BaseIn(osn, side)[o] = BaseIn(os, side)[o] + G[o]
      BY <1>1, <1>3, <1>4, <1>10
    <3> QED BY <3>1, TotalAdds
  <2>2. Total(QuoteIn(osn, side)) = Total(QuoteIn(os, side)) + Total(D)
    <3>1. \A o \in Order : /\ QuoteIn(os, side)[o] \in Int /\ D[o] \in Int
                           /\ QuoteIn(osn, side)[o] = QuoteIn(os, side)[o] + D[o]
      BY <1>1, <1>3, <1>4, <1>10
    <3> QED BY <3>1, TotalAdds
  <2> QED BY <1>10, <2>1, <2>2
<1>11. ASSUME side # "Buy"
       PROVE  /\ Total(BaseIn(osn, side))
              = Total(BaseIn(os, side)) + (IF side = "Buy" THEN Total(G) ELSE Total(D))
             /\ Total(QuoteIn(osn, side))
              = Total(QuoteIn(os, side)) + (IF side = "Buy" THEN Total(D) ELSE Total(G))
  <2>1. Total(BaseIn(osn, side)) = Total(BaseIn(os, side)) + Total(D)
    <3>1. \A o \in Order : /\ BaseIn(os, side)[o] \in Int /\ D[o] \in Int
                           /\ BaseIn(osn, side)[o] = BaseIn(os, side)[o] + D[o]
      BY <1>1, <1>3, <1>4, <1>11
    <3> QED BY <3>1, TotalAdds
  <2>2. Total(QuoteIn(osn, side)) = Total(QuoteIn(os, side)) + Total(G)
    <3>1. \A o \in Order : /\ QuoteIn(os, side)[o] \in Int /\ G[o] \in Int
                           /\ QuoteIn(osn, side)[o] = QuoteIn(os, side)[o] + G[o]
      BY <1>1, <1>3, <1>4, <1>11
    <3> QED BY <3>1, TotalAdds
  <2> QED BY <1>11, <2>1, <2>2
<1>12. ASSUME NEW other \in Sides, other # side
       PROVE  /\ Total(OwedIn(osn, other)) = Total(OwedIn(os, other))
              /\ Total(BaseIn(osn, other)) = Total(BaseIn(os, other))
              /\ Total(QuoteIn(osn, other)) = Total(QuoteIn(os, other))
  <2>1. \A o \in Order : OwedIn(os, other)[o] \in Int /\ OwedIn(osn, other)[o] = OwedIn(os, other)[o]
    BY <1>3, <1>4, <1>12
  <2>2. \A o \in Order : BaseIn(os, other)[o] \in Int /\ BaseIn(osn, other)[o] = BaseIn(os, other)[o]
    BY <1>3, <1>4, <1>12
  <2>3. \A o \in Order : QuoteIn(os, other)[o] \in Int /\ QuoteIn(osn, other)[o] = QuoteIn(os, other)[o]
    BY <1>3, <1>4, <1>12
  <2>4. Total(OwedIn(osn, other)) = Total(OwedIn(os, other))
    BY <2>1, TotalSame
  <2>5. Total(BaseIn(osn, other)) = Total(BaseIn(os, other))
    BY <2>2, TotalSame
  <2>6. Total(QuoteIn(osn, other)) = Total(QuoteIn(os, other))
    BY <2>3, TotalSame
  <2> QED BY <2>4, <2>5, <2>6
<1>13. /\ Total(BaseIn(osn, side))
              = Total(BaseIn(os, side)) + (IF side = "Buy" THEN Total(G) ELSE Total(D))
       /\ Total(QuoteIn(osn, side))
              = Total(QuoteIn(os, side)) + (IF side = "Buy" THEN Total(D) ELSE Total(G))
  BY <1>10, <1>11
<1> QED BY <1>5, <1>6, <1>7, <1>8, <1>9, <1>12, <1>13 DEF D, G, C

\* What the fills of a print do to the balances.
Settled(os, got, side, w, f, wn, fn) ==
  /\ wn \in [Assets -> [free : Int, locked : Int]] /\ fn \in [Assets -> Int]
  /\ \A a \in Assets :
       /\ wn[a].free = w[a].free + (IF a = SpentAsset(side) THEN 0 ELSE Total(Gains(os, got)))
                         - (IF a = FeeAsset(side) THEN Total(Costs(os, got)) ELSE 0)
       /\ wn[a].locked = w[a].locked - (IF a = SpentAsset(side) THEN Total(Debits(os, got)) ELSE 0)
       /\ fn[a] = f[a] + (IF a = FeeAsset(side) THEN Total(Costs(os, got)) ELSE 0)

\* The wallet after them: what they cost leaves the reservations, what they bring is
\* free, less the fees; and everything still adds up.
LEMMA FillsBalance ==
  ASSUME NEW os, OrdersOk(os), NEW got, NEW side \in Sides, Fits(os, got, side), NEW osn,
         \A o \in Order : osn[o] = IF o \in Hits(got) THEN FilledBy(os[o], got[o]) ELSE os[o],
         NEW w, NEW f, WalletOk(os, w, f), NEW wn, NEW fn, Settled(os, got, side, w, f, wn, fn)
  PROVE  WalletOk(osn, wn, fn)
<1> DEFINE D == Total(Debits(os, got))
           G == Total(Gains(os, got))
           C == Total(Costs(os, got))
           O(s) == Total(OwedIn(os, s))
           On(s) == Total(OwedIn(osn, s))
           B(s) == Total(BaseIn(os, s))
           Bn(s) == Total(BaseIn(osn, s))
           Q(s) == Total(QuoteIn(os, s))
           Qn(s) == Total(QuoteIn(osn, s))
<1>1. /\ D \in Nat /\ G \in Nat /\ C \in Int
      /\ FeeAsset(side) = ReceivedAsset(side) => C <= G
      /\ FeeAsset(side) # ReceivedAsset(side) => C <= 0
      /\ O(side) = On(side) + D
      /\ Bn(side) = B(side) + (IF side = "Buy" THEN G ELSE D)
      /\ Qn(side) = Q(side) + (IF side = "Buy" THEN D ELSE G)
      /\ \A other \in Sides : other # side =>
           On(other) = O(other) /\ Bn(other) = B(other) /\ Qn(other) = Q(other)
  BY HitsAdd
<1>2. \A s \in Sides : O(s) \in Nat /\ B(s) \in Nat /\ Q(s) \in Nat
  BY TotalsAre
<1>3. OrdersOk(osn)
  BY HitsFill
<1>4. \A s \in Sides : On(s) \in Nat /\ Bn(s) \in Nat /\ Qn(s) \in Nat
  BY <1>3, TotalsAre
<1>5. /\ \A s \in Sides : w[SpentAsset(s)].locked = O(s)
      /\ w["base"].free + w["base"].locked = Opening.base + B("Buy") - B("Sell") - f["base"]
      /\ w["quote"].free + w["quote"].locked = Opening.quote + Q("Sell") - Q("Buy") - f["quote"]
  BY DEF WalletOk, LockedAdds, FundsAdd
<1>6. w \in [Assets -> [free : Nat, locked : Nat]] /\ f \in [Assets -> Int]
  BY DEF WalletOk, FundsOk
<1>7. Opening.base \in Nat /\ Opening.quote \in Nat
  BY VenueAssumption
<1>8. \A a \in Assets :
        /\ wn[a].free = w[a].free + (IF a = SpentAsset(side) THEN 0 ELSE G)
                          - (IF a = FeeAsset(side) THEN C ELSE 0)
        /\ wn[a].locked = w[a].locked - (IF a = SpentAsset(side) THEN D ELSE 0)
        /\ fn[a] = f[a] + (IF a = FeeAsset(side) THEN C ELSE 0)
        /\ w[a].free \in Nat /\ w[a].locked \in Nat /\ f[a] \in Int
  BY <1>6 DEF Settled
<1>9. /\ SpentAsset("Buy") = "quote" /\ ReceivedAsset("Buy") = "base"
      /\ SpentAsset("Sell") = "base" /\ ReceivedAsset("Sell") = "quote"
      /\ FeeAsset("Sell") = "quote" /\ FeeAsset("Buy") \in {"base", "quote"}
      /\ Sides = {"Buy", "Sell"} /\ Assets = {"base", "quote"}
  BY AssetsAre
<1> HIDE DEF D, G, C, O, On, B, Bn, Q, Qn
<1>11. ASSUME side = "Buy"
       PROVE  /\ wn["quote"].locked = On("Buy") /\ wn["base"].locked = On("Sell")
              /\ wn["base"].free \in Nat /\ wn["base"].locked \in Nat
              /\ wn["quote"].free \in Nat /\ wn["quote"].locked \in Nat
              /\ wn["base"].free + wn["base"].locked = Opening.base + Bn("Buy") - Bn("Sell") - fn["base"]
              /\ wn["quote"].free + wn["quote"].locked = Opening.quote + Qn("Sell") - Qn("Buy") - fn["quote"]
  <2>1. /\ wn["base"].free = w["base"].free + G - (IF FeeAsset("Buy") = "base" THEN C ELSE 0)
        /\ wn["quote"].free = w["quote"].free - (IF FeeAsset("Buy") = "quote" THEN C ELSE 0)
        /\ wn["base"].locked = w["base"].locked
        /\ wn["quote"].locked = w["quote"].locked - D
        /\ fn["base"] = f["base"] + (IF FeeAsset("Buy") = "base" THEN C ELSE 0)
        /\ fn["quote"] = f["quote"] + (IF FeeAsset("Buy") = "quote" THEN C ELSE 0)
        /\ w["base"].free \in Nat /\ w["base"].locked \in Nat /\ f["base"] \in Int
        /\ w["quote"].free \in Nat /\ w["quote"].locked \in Nat /\ f["quote"] \in Int
    BY <1>1, <1>8, <1>9, <1>11
  <2>2. /\ On("Buy") = O("Buy") - D /\ On("Sell") = O("Sell")
        /\ Bn("Buy") = B("Buy") + G /\ Bn("Sell") = B("Sell")
        /\ Qn("Buy") = Q("Buy") + D /\ Qn("Sell") = Q("Sell")
    BY <1>1, <1>2, <1>4, <1>9, <1>11
  <2>3. w["quote"].locked = O("Buy") /\ w["base"].locked = O("Sell")
    BY <1>5, <1>9
  <2>4. /\ FeeAsset("Buy") = "base" => C <= G
        /\ FeeAsset("Buy") = "quote" => C <= 0
    BY <1>1, <1>9, <1>11
  <2>5. /\ wn["quote"].locked = On("Buy") /\ wn["base"].locked = On("Sell")
        /\ wn["quote"].locked \in Nat /\ wn["base"].locked \in Nat
    BY <1>4, <1>9, <2>1, <2>2, <2>3
  <2>6. wn["base"].free \in Nat /\ wn["quote"].free \in Nat
    BY <1>1, <1>9, <2>1, <2>4
  <2>7. wn["base"].free + wn["base"].locked = Opening.base + Bn("Buy") - Bn("Sell") - fn["base"]
    <3>1. w["base"].free + w["base"].locked = Opening.base + B("Buy") - B("Sell") - f["base"]
      BY <1>5
    <3>2. /\ B("Buy") \in Nat /\ B("Sell") \in Nat
          /\ D \in Nat /\ G \in Nat /\ C \in Int /\ Opening.base \in Nat
      BY <1>1, <1>2, <1>7, <1>9
    <3> QED BY <1>9, <2>1, <2>2, <3>1, <3>2
  <2>8. wn["quote"].free + wn["quote"].locked = Opening.quote + Qn("Sell") - Qn("Buy") - fn["quote"]
    <3>1. w["quote"].free + w["quote"].locked = Opening.quote + Q("Sell") - Q("Buy") - f["quote"]
      BY <1>5
    <3>2. /\ Q("Sell") \in Nat /\ Q("Buy") \in Nat
          /\ D \in Nat /\ G \in Nat /\ C \in Int /\ Opening.quote \in Nat
      BY <1>1, <1>2, <1>7, <1>9
    <3> QED BY <1>9, <2>1, <2>2, <3>1, <3>2
  <2> QED BY <2>5, <2>6, <2>7, <2>8
<1>12. ASSUME side = "Sell"
       PROVE  /\ wn["quote"].locked = On("Buy") /\ wn["base"].locked = On("Sell")
              /\ wn["base"].free \in Nat /\ wn["base"].locked \in Nat
              /\ wn["quote"].free \in Nat /\ wn["quote"].locked \in Nat
              /\ wn["base"].free + wn["base"].locked = Opening.base + Bn("Buy") - Bn("Sell") - fn["base"]
              /\ wn["quote"].free + wn["quote"].locked = Opening.quote + Qn("Sell") - Qn("Buy") - fn["quote"]
  <2>1. /\ wn["base"].free = w["base"].free
        /\ wn["quote"].free = w["quote"].free + G - C
        /\ wn["base"].locked = w["base"].locked - D
        /\ wn["quote"].locked = w["quote"].locked
        /\ fn["base"] = f["base"]
        /\ fn["quote"] = f["quote"] + C
        /\ w["base"].free \in Nat /\ w["base"].locked \in Nat /\ f["base"] \in Int
        /\ w["quote"].free \in Nat /\ w["quote"].locked \in Nat /\ f["quote"] \in Int
    BY <1>1, <1>8, <1>9, <1>12
  <2>2. /\ On("Sell") = O("Sell") - D /\ On("Buy") = O("Buy")
        /\ Bn("Sell") = B("Sell") + D /\ Bn("Buy") = B("Buy")
        /\ Qn("Sell") = Q("Sell") + G /\ Qn("Buy") = Q("Buy")
    BY <1>1, <1>2, <1>4, <1>9, <1>12
  <2>3. w["quote"].locked = O("Buy") /\ w["base"].locked = O("Sell")
    BY <1>5, <1>9
  <2>4. C <= G
    BY <1>1, <1>9, <1>12
  <2>5. /\ wn["quote"].locked = On("Buy") /\ wn["base"].locked = On("Sell")
        /\ wn["quote"].locked \in Nat /\ wn["base"].locked \in Nat
    BY <1>4, <1>9, <2>1, <2>2, <2>3
  <2>6. wn["base"].free \in Nat /\ wn["quote"].free \in Nat
    BY <1>1, <2>1, <2>4
  <2>7. wn["base"].free + wn["base"].locked = Opening.base + Bn("Buy") - Bn("Sell") - fn["base"]
    <3>1. w["base"].free + w["base"].locked = Opening.base + B("Buy") - B("Sell") - f["base"]
      BY <1>5
    <3>2. /\ B("Buy") \in Nat /\ B("Sell") \in Nat
          /\ D \in Nat /\ G \in Nat /\ C \in Int /\ Opening.base \in Nat
      BY <1>1, <1>2, <1>7, <1>9
    <3>3. /\ wn["base"].free = w["base"].free /\ wn["base"].locked = w["base"].locked - D
          /\ fn["base"] = f["base"] /\ Bn("Sell") = B("Sell") + D /\ Bn("Buy") = B("Buy")
          /\ w["base"].free \in Nat /\ w["base"].locked \in Nat /\ f["base"] \in Int
      BY <2>1, <2>2
    <3> QED BY <3>1, <3>2, <3>3, SMTT(40)
  <2>8. wn["quote"].free + wn["quote"].locked = Opening.quote + Qn("Sell") - Qn("Buy") - fn["quote"]
    <3>1. w["quote"].free + w["quote"].locked = Opening.quote + Q("Sell") - Q("Buy") - f["quote"]
      BY <1>5
    <3>2. Q("Sell") \in Nat /\ Q("Buy") \in Nat /\ G \in Nat /\ C \in Int /\ Opening.quote \in Nat
      BY <1>1, <1>2, <1>7, <1>9
    <3> QED BY <2>1, <2>2, <3>1, <3>2
  <2> QED BY <2>5, <2>6, <2>7, <2>8
<1>13. /\ wn["quote"].locked = On("Buy") /\ wn["base"].locked = On("Sell")
       /\ \A a \in Assets : wn[a].free \in Nat /\ wn[a].locked \in Nat
       /\ wn["base"].free + wn["base"].locked = Opening.base + Bn("Buy") - Bn("Sell") - fn["base"]
       /\ wn["quote"].free + wn["quote"].locked = Opening.quote + Qn("Sell") - Qn("Buy") - fn["quote"]
  BY <1>9, <1>11, <1>12
<1>14. wn \in [Assets -> [free : Nat, locked : Nat]]
  <2>1. ASSUME NEW a \in Assets PROVE wn[a] \in [free : Nat, locked : Nat]
    <3>1. wn[a] \in [free : Int, locked : Int]
      BY DEF Settled
    <3>2. wn[a].free \in Nat /\ wn[a].locked \in Nat
      BY <1>13
    <3> QED BY <3>1, <3>2
  <2>2. wn \in [Assets -> [free : Int, locked : Int]]
    BY DEF Settled
  <2> QED BY <2>1, <2>2
<1>15. \A s \in Sides : wn[SpentAsset(s)].locked = On(s)
  BY <1>9, <1>13
<1>16. FundsOk(wn, fn)
  BY <1>14 DEF FundsOk, Settled
<1>17. LockedAdds(osn, wn)
  BY <1>15 DEF LockedAdds, On
<1>18. FundsAdd(osn, wn, fn)
  BY <1>13 DEF FundsAdd, Bn, Qn
<1> QED BY <1>16, <1>17, <1>18 DEF WalletOk

\* The sum of the values some of the orders give.
LEMMA TotalOf ==
  ASSUME NEW D \in SUBSET Order, NEW f, NEW g, DOMAIN f = D,
         \A o \in Order : g[o] = IF o \in D THEN f[o] ELSE 0, \A o \in D : f[o] \in Int
  PROVE  SumFunction(f) = Total(g)
<1>1. SumFunction(f) = SumFunctionOnSet(f, D)
  BY DEF SumFunction
<1>2. IsFiniteSet(Order)
  BY NodesAre
<1> QED BY <1>1, <1>2, SumRestrict DEF Total

\* The fills of a print keep the wallet balanced.
LEMMA SettleBalances ==
  ASSUME OrdersOk(orders), WalletOk(orders, funds, fees), NEW side \in Sides, NEW got,
         Fits(orders, got, side), Settle(side, got)
  PROVE  /\ OrdersOk(orders') /\ WalletOk(orders', funds', fees')
         /\ \A o \in Order :
              orders'[o] = IF o \in Hits(got) THEN FilledBy(orders[o], got[o]) ELSE orders[o]
<1> DEFINE hit    == {o \in Order : got[o] > 0}
           deal   == [o \in hit |-> Settlement(side, orders[o].price, orders[o].filled,
                                          orders[o].filled + got[o])]
           debit  == SumFunction([o \in hit |-> deal[o].debit])
           gain   == SumFunction([o \in hit |-> deal[o].received])
           fee    == SumFunction([o \in hit |-> deal[o].fee])
           freed  == SumFunction([o \in Whole(got) |-> Residual(o) - deal[o].debit])
<1>1. /\ orders' = [o \in Order |->
           IF o \notin hit THEN orders[o]
           ELSE [orders[o] EXCEPT !.filled = @ + got[o],
                                  !.phase = IF o \in Whole(got) THEN "closed" ELSE @]]
      /\ funds' = [a \in Assets |->
           [free   |-> funds[a].free + (IF a = SpentAsset(side) THEN freed ELSE gain)
                         - (IF a = FeeAsset(side) THEN fee ELSE 0),
            locked |-> funds[a].locked - (IF a = SpentAsset(side) THEN debit + freed ELSE 0)]]
      /\ fees' = [fees EXCEPT ![FeeAsset(side)] = @ + fee]
  BY DEF Settle
<1>2. hit = Hits(got)
  BY DEF Hits
<1>3. ASSUME NEW o \in hit
      PROVE  /\ o \in Order /\ RowOk(orders[o]) /\ orders[o].phase = "resting" /\ orders[o].side = side
             /\ got[o] \in Nat /\ got[o] > 0 /\ got[o] <= orders[o].qty - orders[o].filled
             /\ deal[o] = Deal(orders[o], got[o])
  <2>1. /\ o \in Order /\ RowOk(orders[o]) /\ orders[o].phase = "resting" /\ orders[o].side = side
        /\ got[o] \in Nat /\ got[o] > 0 /\ got[o] <= orders[o].qty - orders[o].filled
    BY <1>2, HitIs
  <2>2. deal[o] = Settlement(side, orders[o].price, orders[o].filled, orders[o].filled + got[o])
    OBVIOUS
  <2> HIDE DEF deal
  <2> QED BY <2>1, <2>2 DEF Deal
<1>4. ASSUME NEW o \in hit
      PROVE  /\ Deal(orders[o], got[o]).debit \in Nat /\ Deal(orders[o], got[o]).received \in Nat
             /\ Deal(orders[o], got[o]).fee \in Int
             /\ got[o] = orders[o].qty - orders[o].filled =>
                  Deal(orders[o], got[o]).debit = OwedBy(orders[o])
  <2> HIDE DEF hit, deal
  <2> QED BY <1>3, DealIs
<1>5. Whole(got) \subseteq hit
      /\ \A o \in hit : o \in Whole(got) <=> got[o] = orders[o].qty - orders[o].filled
  BY DEF Whole, Open
<1> HIDE DEF hit, deal
<1>6. hit \subseteq Order
  BY DEF hit
<1>7. debit = Total(Debits(orders, got))
  <2> DEFINE f == [o \in hit |-> deal[o].debit]
             g == Debits(orders, got)
  <2>1. DOMAIN f = hit /\ \A o \in hit : f[o] \in Int
    BY <1>3, <1>4
  <2>2. \A o \in Order : g[o] = IF o \in hit THEN f[o] ELSE 0
    BY <1>2, <1>3 DEF Debits
  <2> HIDE DEF f, g
  <2>3. SumFunction(f) = Total(g)
    BY <1>6, <2>1, <2>2, TotalOf
  <2> QED BY <2>3 DEF f, g
<1>8. gain = Total(Gains(orders, got))
  <2> DEFINE f == [o \in hit |-> deal[o].received]
             g == Gains(orders, got)
  <2>1. DOMAIN f = hit /\ \A o \in hit : f[o] \in Int
    BY <1>3, <1>4
  <2>2. \A o \in Order : g[o] = IF o \in hit THEN f[o] ELSE 0
    BY <1>2, <1>3 DEF Gains
  <2> HIDE DEF f, g
  <2>3. SumFunction(f) = Total(g)
    BY <1>6, <2>1, <2>2, TotalOf
  <2> QED BY <2>3 DEF f, g
<1>9. fee = Total(Costs(orders, got))
  <2> DEFINE f == [o \in hit |-> deal[o].fee]
             g == Costs(orders, got)
  <2>1. DOMAIN f = hit /\ \A o \in hit : f[o] \in Int
    BY <1>3, <1>4
  <2>2. \A o \in Order : g[o] = IF o \in hit THEN f[o] ELSE 0
    BY <1>2, <1>3 DEF Costs
  <2> HIDE DEF f, g
  <2>3. SumFunction(f) = Total(g)
    BY <1>6, <2>1, <2>2, TotalOf
  <2> QED BY <2>3 DEF f, g
<1>10. freed = 0
  <2> DEFINE f == [o \in Whole(got) |-> Residual(o) - deal[o].debit]
  <2>1. ASSUME NEW o \in Whole(got) PROVE f[o] = 0
    <3>1. o \in hit /\ got[o] = orders[o].qty - orders[o].filled
      BY <1>5
    <3>2. deal[o].debit = OwedBy(orders[o])
      BY <1>3, <1>4, <3>1
    <3>3. Residual(o) = OwedBy(orders[o])
      BY DEF Residual, OwedBy
    <3>4. OwedBy(orders[o]) \in Nat
      BY <1>3, <3>1, OwedIs
    <3> QED BY <3>2, <3>3, <3>4
  <2>2. DOMAIN f = Whole(got)
    OBVIOUS
  <2> HIDE DEF f
  <2>3. IsFiniteSet(Whole(got))
    BY <1>5, <1>6, NodesAre, FS_Subset
  <2>4. SumFunctionOnSet(f, Whole(got)) = 0
    BY <2>1, <2>3, SumZero
  <2> QED BY <2>2, <2>4 DEF f, SumFunction
<1> HIDE DEF debit, gain, fee, freed
<1>11. \A o \in Order : orders'[o] = IF o \in Hits(got) THEN FilledBy(orders[o], got[o]) ELSE orders[o]
  <2> SUFFICES ASSUME NEW o \in Order
               PROVE  orders'[o] = IF o \in Hits(got) THEN FilledBy(orders[o], got[o]) ELSE orders[o]
    OBVIOUS
  <2>1. CASE o \notin hit
    BY <1>1, <1>2, <2>1
  <2>2. CASE o \in hit
    <3>1. orders'[o] = [orders[o] EXCEPT !.filled = @ + got[o],
                                  !.phase = IF o \in Whole(got) THEN "closed" ELSE @]
      BY <1>1, <2>2
    <3>2. o \in Whole(got) <=> got[o] = orders[o].qty - orders[o].filled
      BY <1>5, <2>2
    <3> QED BY <1>2, <2>2, <3>1, <3>2 DEF FilledBy
  <2> QED BY <2>1, <2>2
<1>12. Total(Debits(orders, got)) \in Nat /\ Total(Gains(orders, got)) \in Nat
       /\ Total(Costs(orders, got)) \in Int
  BY <1>11, HitsAdd
<1>13. Settled(orders, got, side, funds, fees, funds', fees')
  <2>1. funds \in [Assets -> [free : Nat, locked : Nat]] /\ fees \in [Assets -> Int]
    BY DEF WalletOk, FundsOk
  <2>2. /\ debit \in Nat /\ gain \in Nat /\ fee \in Int /\ freed = 0
    BY <1>7, <1>8, <1>9, <1>10, <1>12
  <2>3. FeeAsset(side) \in Assets
    BY AssetsAre
  <2>4. ASSUME NEW a \in Assets
        PROVE  /\ funds'[a] \in [free : Int, locked : Int]
               /\ funds'[a].free = funds[a].free + (IF a = SpentAsset(side) THEN 0 ELSE gain)
                           - (IF a = FeeAsset(side) THEN fee ELSE 0)
               /\ funds'[a].locked = funds[a].locked - (IF a = SpentAsset(side) THEN debit ELSE 0)
               /\ fees'[a] = fees[a] + (IF a = FeeAsset(side) THEN fee ELSE 0)
    <3>1. funds[a].free \in Nat /\ funds[a].locked \in Nat /\ fees[a] \in Int
      BY <2>1
    <3>2. funds'[a] = [free |-> funds[a].free + (IF a = SpentAsset(side) THEN freed ELSE gain)
                         - (IF a = FeeAsset(side) THEN fee ELSE 0),
                       locked |-> funds[a].locked - (IF a = SpentAsset(side) THEN debit + freed ELSE 0)]
      BY <1>1
    <3>3. funds[a].free + (IF a = SpentAsset(side) THEN freed ELSE gain)
                         - (IF a = FeeAsset(side) THEN fee ELSE 0) \in Int
          /\ funds[a].locked - (IF a = SpentAsset(side) THEN debit + freed ELSE 0) \in Int
          /\ debit + freed = debit
      BY <2>2, <3>1
    <3>4. fees'[a] = fees[a] + (IF a = FeeAsset(side) THEN fee ELSE 0)
      <4>0. fees' = [fees EXCEPT ![FeeAsset(side)] = @ + fee] /\ DOMAIN fees = Assets
        BY <1>1, <2>1
      <4>1. CASE a = FeeAsset(side)
        BY <4>0, <4>1
      <4>2. CASE a # FeeAsset(side)
        BY <3>1, <4>0, <4>2
      <4> QED BY <4>1, <4>2
    <3>5. funds'[a].free = funds[a].free + (IF a = SpentAsset(side) THEN 0 ELSE gain)
                           - (IF a = FeeAsset(side) THEN fee ELSE 0)
      BY <2>2, <3>2
    <3>6. funds'[a].locked = funds[a].locked - (IF a = SpentAsset(side) THEN debit ELSE 0)
      BY <3>2, <3>3
    <3> QED BY <3>2, <3>3, <3>4, <3>5, <3>6
  <2>5. funds' \in [Assets -> [free : Int, locked : Int]]
    <3>1. funds' = [a \in Assets |-> funds'[a]]
      BY <1>1
    <3> QED BY <2>4, <3>1
  <2>6. fees' \in [Assets -> Int]
    <3>1. fees[FeeAsset(side)] + fee \in Int
      BY <2>1, <2>2, <2>3
    <3> QED BY <1>1, <2>1, <3>1
  <2> QED BY <1>7, <1>8, <1>9, <2>4, <2>5, <2>6 DEF Settled
<1>14. OrdersOk(orders')
  BY <1>11, HitsFill
<1>15. WalletOk(orders', funds', fees')
  BY <1>11, <1>13, FillsBalance
<1> QED BY <1>11, <1>14, <1>15

-----------------------------------------------------------------------------
(***************************************************************************)
(* Steps that fill nothing and move money between free and locked          *)
(***************************************************************************)
\* What a row has filled and cost does not change with its phase or its quantity.
SameFills(r, rn) ==
  \/ rn = r
  \/ /\ r.phase # "unborn" /\ rn.phase # "unborn"
     /\ rn.side = r.side /\ rn.price = r.price /\ rn.filled = r.filled
  \/ r.phase = "unborn" /\ RowOk(rn) /\ rn.filled = 0

\* An order's terms of the sums of what has been filled are what they were.
LEMMA SameTerms ==
  ASSUME NEW os, NEW osn, NEW o \in Order, SameFills(os[o], osn[o]), NEW side
  PROVE  BaseIn(osn, side)[o] = BaseIn(os, side)[o] /\ QuoteIn(osn, side)[o] = QuoteIn(os, side)[o]
<1>1. CASE osn[o] = os[o]
  BY <1>1 DEF BaseIn, QuoteIn
<1>2. CASE /\ os[o].phase # "unborn" /\ osn[o].phase # "unborn"
           /\ osn[o].side = os[o].side /\ osn[o].price = os[o].price /\ osn[o].filled = os[o].filled
  BY <1>2 DEF BaseIn, QuoteIn, CountsOn
<1>3. CASE os[o].phase = "unborn" /\ RowOk(osn[o]) /\ osn[o].filled = 0
  <2>1. Notional(osn[o].price, 0) = 0
    BY <1>3, RowIs, NotionalGrows
  <2>2. BaseIn(os, side)[o] = 0 /\ QuoteIn(os, side)[o] = 0
    BY <1>3 DEF BaseIn, QuoteIn, CountsOn
  <2>3. BaseIn(osn, side)[o] = 0
    BY <1>3 DEF BaseIn
  <2>4. QuoteIn(osn, side)[o] = 0
    BY <1>3, <2>1 DEF QuoteIn
  <2> QED BY <2>2, <2>3, <2>4
<1> QED BY <1>1, <1>2, <1>3 DEF SameFills

\* Money that moves between free and locked as much as the orders owe more or less
\* leaves the wallet balanced.
Moved(w, wn, n) ==
  /\ wn \in [Assets -> [free : Int, locked : Int]] /\ n \in [Sides -> Int]
  /\ \A s \in Sides : /\ wn[SpentAsset(s)].free = w[SpentAsset(s)].free - n[s]
                      /\ wn[SpentAsset(s)].locked = w[SpentAsset(s)].locked + n[s]
                      /\ n[s] <= w[SpentAsset(s)].free

\* Such a step keeps the wallet in balance, when what is locked moves with what is owed.
LEMMA MoveBalances ==
  ASSUME NEW os, OrdersOk(os), NEW w, NEW f, WalletOk(os, w, f), NEW osn, OrdersOk(osn),
         \A o \in Order : SameFills(os[o], osn[o]), NEW wn, NEW n, Moved(w, wn, n),
         \A s \in Sides : Total(OwedIn(osn, s)) = Total(OwedIn(os, s)) + n[s]
  PROVE  WalletOk(osn, wn, f)
<1>1. w \in [Assets -> [free : Nat, locked : Nat]] /\ f \in [Assets -> Int]
  BY DEF WalletOk, FundsOk
<1>2. wn \in [Assets -> [free : Int, locked : Int]] /\ n \in [Sides -> Int]
  BY DEF Moved
<1>3. \A a \in Assets : \E s \in Sides : a = SpentAsset(s)
  BY AssetsAre
<1>4. \A s \in Sides : SpentAsset(s) \in Assets
  BY AssetsAre
<1>5. ASSUME NEW s \in Sides
      PROVE  /\ wn[SpentAsset(s)].free \in Nat /\ wn[SpentAsset(s)].locked \in Nat
             /\ wn[SpentAsset(s)].locked = Total(OwedIn(osn, s))
             /\ wn[SpentAsset(s)].free + wn[SpentAsset(s)].locked
                  = w[SpentAsset(s)].free + w[SpentAsset(s)].locked
  <2> DEFINE a == SpentAsset(s)
  <2>1. w[a].free \in Nat /\ w[a].locked \in Nat /\ n[s] \in Int
    BY <1>1, <1>2, <1>4
  <2>2. w[a].locked = Total(OwedIn(os, s))
    BY DEF WalletOk, LockedAdds
  <2>3. /\ wn[a].free = w[a].free - n[s] /\ wn[a].locked = w[a].locked + n[s] /\ n[s] <= w[a].free
    BY DEF Moved
  <2>4. Total(OwedIn(osn, s)) = Total(OwedIn(os, s)) + n[s] /\ Total(OwedIn(osn, s)) \in Nat
    BY TotalsAre
  <2> HIDE DEF a
  <2>5. wn[a].locked = Total(OwedIn(osn, s))
    BY <2>2, <2>3, <2>4
  <2>6. wn[a].free \in Nat /\ wn[a].free + wn[a].locked = w[a].free + w[a].locked
    BY <2>1, <2>3
  <2> QED BY <2>4, <2>5, <2>6 DEF a
<1>6. wn \in [Assets -> [free : Nat, locked : Nat]]
  <2>1. ASSUME NEW a \in Assets PROVE wn[a] \in [free : Nat, locked : Nat]
    <3>1. wn[a] \in [free : Int, locked : Int]
      BY <1>2
    <3>2. wn[a].free \in Nat /\ wn[a].locked \in Nat
      BY <1>3, <1>5
    <3> QED BY <3>1, <3>2
  <2> QED BY <1>2, <2>1
<1>7. LockedAdds(osn, wn)
  BY <1>5 DEF LockedAdds
<1>8. \A a \in Assets : wn[a].free + wn[a].locked = w[a].free + w[a].locked
  BY <1>3, <1>5
<1>9. \A o \in Order, side \in Sides : /\ BaseIn(osn, side)[o] = BaseIn(os, side)[o]
                                       /\ QuoteIn(osn, side)[o] = QuoteIn(os, side)[o]
  <2> TAKE o \in Order, side \in Sides
  <2>1. SameFills(os[o], osn[o])
    OBVIOUS
  <2> QED BY <2>1, SameTerms
<1>10. FundsAdd(os, w, f)
  BY DEF WalletOk
<1>11. FundsAdd(osn, wn, f)
  BY <1>8, <1>9, <1>10, NoFills
<1> QED BY <1>1, <1>6, <1>7, <1>11 DEF WalletOk, FundsOk

\* A total of which one term changes.
LEMMA TotalChanges ==
  ASSUME NEW f, NEW g, NEW o \in Order, \A y \in Order : f[y] \in Int, g[o] \in Int,
         \A y \in Order \ {o} : g[y] = f[y]
  PROVE  Total(g) = Total(f) + g[o] - f[o]
<1>1. IsFiniteSet(Order)
  BY NodesAre
<1> QED BY <1>1, SumChanges DEF Total

\* One order changes: so do the orders' sums.
LEMMA RowChanges ==
  ASSUME NEW os, OrdersOk(os), NEW osn, NEW o \in Order, RowOk(osn[o]), SameFills(os[o], osn[o]),
         \A x \in Order \ {o} : osn[x] = os[x]
  PROVE  /\ OrdersOk(osn) /\ \A x \in Order : SameFills(os[x], osn[x])
         /\ \A s \in Sides :
              Total(OwedIn(osn, s)) = Total(OwedIn(os, s))
                + (IF RestsOn(osn[o], s) THEN OwedBy(osn[o]) ELSE 0)
                - (IF RestsOn(os[o], s) THEN OwedBy(os[o]) ELSE 0)
<1>1. OrdersOk(osn)
  BY DEF OrdersOk
<1>2. ASSUME NEW x \in Order PROVE SameFills(os[x], osn[x])
  <2>1. CASE x = o
    BY <2>1
  <2>2. CASE x # o
    BY <2>2 DEF SameFills
  <2> QED BY <2>1, <2>2
<1>3. ASSUME NEW s \in Sides
      PROVE  Total(OwedIn(osn, s)) = Total(OwedIn(os, s))
                + (IF RestsOn(osn[o], s) THEN OwedBy(osn[o]) ELSE 0)
                - (IF RestsOn(os[o], s) THEN OwedBy(os[o]) ELSE 0)
  <2> DEFINE f == OwedIn(os, s)
             g == OwedIn(osn, s)
  <2>1. \A x \in Order : f[x] \in Int
    BY TermsAre
  <2>2. g[o] \in Int
    BY <1>1, TermsAre
  <2>3. \A x \in Order \ {o} : g[x] = f[x]
    BY DEF OwedIn
  <2>4. /\ g[o] = IF RestsOn(osn[o], s) THEN OwedBy(osn[o]) ELSE 0
        /\ f[o] = IF RestsOn(os[o], s) THEN OwedBy(os[o]) ELSE 0
    BY DEF OwedIn
  <2> HIDE DEF f, g
  <2>6. Total(g) = Total(f) + g[o] - f[o]
    BY <2>1, <2>2, <2>3, TotalChanges
  <2> QED BY <2>4, <2>6 DEF f, g
<1> QED BY <1>1, <1>2, <1>3

\* Locking for one side.
LEMMA LockMoves ==
  ASSUME NEW os, NEW w, NEW f, WalletOk(os, w, f), NEW side \in Sides, NEW n \in Int,
         n <= w[SpentAsset(side)].free
  PROVE  Moved(w, [w EXCEPT ![SpentAsset(side)] = [free |-> @.free - n, locked |-> @.locked + n]],
               [s \in Sides |-> IF s = side THEN n ELSE 0])
<1> DEFINE a  == SpentAsset(side)
           wn == [w EXCEPT ![a] = [free |-> w[a].free - n, locked |-> w[a].locked + n]]
           m  == [s \in Sides |-> IF s = side THEN n ELSE 0]
<1>1. w \in [Assets -> [free : Nat, locked : Nat]] /\ a \in Assets
  BY AssetsAre DEF WalletOk, FundsOk
<1>2. wn[a].free = w[a].free - n /\ wn[a].locked = w[a].locked + n
  BY <1>1
<1>3. \A b \in Assets \ {a} : wn[b] = w[b]
  BY <1>1
<1>4. \A b \in Assets : w[b].free \in Nat /\ w[b].locked \in Nat
  BY <1>1
<1>5. wn \in [Assets -> [free : Int, locked : Int]]
  <2>1. [free |-> w[a].free - n, locked |-> w[a].locked + n] \in [free : Int, locked : Int]
    BY <1>1, <1>4
  <2>2. w \in [Assets -> [free : Int, locked : Int]]
    BY <1>1
  <2> QED BY <1>1, <2>1, <2>2
<1>6. m \in [Sides -> Int]
  OBVIOUS
<1>7. m[side] = n /\ \A s \in Sides : s # side => m[s] = 0
  OBVIOUS
<1>8. \A s \in Sides : SpentAsset(s) = a <=> s = side
  BY AssetsAre
<1>9. \A s \in Sides : SpentAsset(s) \in Assets
  BY AssetsAre
<1>10. n <= w[a].free
  OBVIOUS
<1> HIDE DEF a, wn, m
<1>11. ASSUME NEW s \in Sides
       PROVE  /\ wn[SpentAsset(s)].free = w[SpentAsset(s)].free - m[s]
              /\ wn[SpentAsset(s)].locked = w[SpentAsset(s)].locked + m[s]
              /\ m[s] <= w[SpentAsset(s)].free
  <2>1. CASE s = side
    BY <1>2, <1>7, <1>8, <1>10, <2>1
  <2>2. CASE s # side
    BY <1>3, <1>4, <1>7, <1>8, <1>9, <2>2
  <2> QED BY <2>1, <2>2
<1>12. Moved(w, wn, m)
  BY <1>5, <1>6, <1>11 DEF Moved
<1> QED BY <1>12 DEF a, wn, m

-----------------------------------------------------------------------------
(***************************************************************************)
(* Placing, resting and amending keep the wallet in balance                *)
(***************************************************************************)
OrdersTyped == orders \in [Order -> Terms \cup {[phase |-> "unborn"]}]

\* The wallet's part of the invariant.
WalletInv == OrdersTyped /\ OrdersOk(orders) /\ WalletOk(orders, funds, fees)

\* Nothing locked, nothing freed.
LEMMA StillMoved ==
  ASSUME NEW os, NEW w, NEW f, WalletOk(os, w, f) PROVE Moved(w, w, [s \in Sides |-> 0])
<1>1. w \in [Assets -> [free : Nat, locked : Nat]]
  BY DEF WalletOk, FundsOk
<1>2. w \in [Assets -> [free : Int, locked : Int]]
  BY <1>1
<1>3. \A s \in Sides : w[SpentAsset(s)].free \in Nat /\ w[SpentAsset(s)].locked \in Nat
  BY <1>1, AssetsAre
<1>4. /\ [s \in Sides |-> 0] \in [Sides -> Int]
      /\ \A s \in Sides : [x \in Sides |-> 0][s] = 0
  OBVIOUS
<1> QED BY <1>2, <1>3, <1>4 DEF Moved

\* A step that changes one order and no money.
LEMMA StillBalances ==
  ASSUME NEW os, OrdersOk(os), NEW w, NEW f, WalletOk(os, w, f), NEW osn, NEW o \in Order,
         RowOk(osn[o]), SameFills(os[o], osn[o]), \A x \in Order \ {o} : osn[x] = os[x],
         os[o].phase # "resting", osn[o].phase # "resting"
  PROVE  OrdersOk(osn) /\ WalletOk(osn, w, f)
<1> DEFINE n == [s \in Sides |-> 0]
<1>1. OrdersOk(osn) /\ \A x \in Order : SameFills(os[x], osn[x])
  BY RowChanges
<1>2. Moved(w, w, n)
  BY StillMoved
<1>3. ASSUME NEW s \in Sides PROVE Total(OwedIn(osn, s)) = Total(OwedIn(os, s)) + n[s]
  <2>1. Total(OwedIn(osn, s)) = Total(OwedIn(os, s))
                + (IF RestsOn(osn[o], s) THEN OwedBy(osn[o]) ELSE 0)
                - (IF RestsOn(os[o], s) THEN OwedBy(os[o]) ELSE 0)
    BY RowChanges
  <2>2. ~ RestsOn(osn[o], s) /\ ~ RestsOn(os[o], s)
    BY DEF RestsOn
  <2>3. Total(OwedIn(os, s)) \in Nat
    BY TotalsAre
  <2> QED BY <2>1, <2>2, <2>3
<1> HIDE DEF n
<1> QED BY <1>1, <1>2, <1>3, MoveBalances

\* Placing locks nothing yet.
LEMMA PlaceBalances ==
  ASSUME WalletInv, NEW o \in Order, NEW t \in Placements, Place(o, t)
  PROVE  WalletInv'
<1> DEFINE r == [phase |-> IF ~ t.isPostOnly \/ OffLimits(t.price, t.qty) THEN "closed" ELSE "pending",
                 side |-> t.side, price |-> t.price, qty |-> t.qty, filled |-> 0, amends |-> 0]
<1>1. /\ orders[o].phase = "unborn" /\ orders' = [orders EXCEPT ![o] = r]
      /\ funds' = funds /\ fees' = fees
  BY DEF Place
<1>2. RowOk(r)
  <2>1. t \in [side : {"Buy", "Sell"}, price : Nat, qty : Nat \ {0}, isPostOnly : BOOLEAN]
    BY VenueAssumption
  <2>2. t.price \in Prices
    BY DEF Prices
  <2>3. 0 \in 0 .. MaxAmends
    BY VenueAssumption
  <2>4. r \in Terms
    BY <2>1, <2>2, <2>3 DEF Terms, Sides
  <2>5. r.filled = 0 /\ r.qty \in Nat \ {0}
    BY <2>1
  <2> HIDE DEF r
  <2> QED BY <2>4, <2>5 DEF RowOk
<1>3. r.filled = 0 /\ r.phase # "resting"
  OBVIOUS
<1> HIDE DEF r
<1>4. OrdersTyped /\ OrdersOk(orders) /\ WalletOk(orders, funds, fees)
  BY DEF WalletInv
<1>5. orders'[o] = r /\ \A x \in Order \ {o} : orders'[x] = orders[x]
  BY <1>1, <1>4 DEF OrdersTyped
<1>6. SameFills(orders[o], orders'[o])
  BY <1>1, <1>2, <1>3, <1>5 DEF SameFills
<1>7. OrdersTyped'
  BY <1>1, <1>2, <1>4 DEF OrdersTyped, RowOk
<1>8. OrdersOk(orders') /\ WalletOk(orders', funds, fees)
  <2>1. orders[o].phase # "resting" /\ orders'[o].phase # "resting" /\ RowOk(orders'[o])
    BY <1>1, <1>2, <1>3, <1>5
  <2> QED BY <1>4, <1>5, <1>6, <2>1, StillBalances
<1> QED BY <1>1, <1>7, <1>8 DEF WalletInv

\* Resting an order locks all of what it may spend, which was free.
LEMMA ActivateBalances ==
  ASSUME WalletInv, NEW o \in Order, Activate(o), fees' = fees
  PROVE  WalletInv'
<1>1. OrdersTyped /\ OrdersOk(orders) /\ WalletOk(orders, funds, fees)
  BY DEF WalletInv
<1> DEFINE r     == orders[o]
           asset == SpentAsset(r.side)
           cost  == Spend(r.side, r.price, r.qty)
<1>2. CASE orders' = orders /\ funds' = funds
  BY <1>2 DEF WalletInv, OrdersTyped, OrdersOk, WalletOk
<1>3. CASE /\ r.phase = "pending" /\ orders' = [orders EXCEPT ![o].phase = "closed"] /\ funds' = funds
  <2> DEFINE g == [r EXCEPT !.phase = "closed"]
  <2>1. RowOk(r)
    BY <1>1, <1>3, RowOr
  <2>2. r \in Terms /\ g.side = r.side /\ g.price = r.price /\ g.filled = r.filled /\ g.qty = r.qty
        /\ g.phase = "closed" /\ g \in Terms
    BY <2>1 DEF RowOk, Terms
  <2>3. RowOk(g)
    BY <2>1, <2>2 DEF RowOk
  <2>4. orders'[o] = g /\ \A x \in Order \ {o} : orders'[x] = orders[x]
    BY <1>1, <1>3 DEF OrdersTyped
  <2>5. OrdersTyped'
    BY <1>1, <1>3, <2>2 DEF OrdersTyped
  <2> HIDE DEF g
  <2>6. SameFills(orders[o], orders'[o])
    BY <1>3, <2>2, <2>4 DEF SameFills
  <2>7. OrdersOk(orders') /\ WalletOk(orders', funds, fees)
    <3>1. orders[o].phase # "resting" /\ orders'[o].phase # "resting"
      BY <1>3, <2>2, <2>4
    <3> QED BY <1>1, <2>3, <2>4, <2>6, <3>1, StillBalances
  <2> QED BY <1>3, <2>5, <2>7 DEF WalletInv
<1>4. CASE /\ r.phase = "pending" /\ Affords(asset, cost)
           /\ orders' = [orders EXCEPT ![o].phase = "resting"]
           /\ funds' = [funds EXCEPT ![asset] = [free |-> @.free - cost, locked |-> @.locked + cost]]
  <2> DEFINE g == [r EXCEPT !.phase = "resting"]
             n == [s \in Sides |-> IF s = r.side THEN cost ELSE 0]
  <2>1. RowOk(r)
    BY <1>1, <1>4, RowOr
  <2>2. r \in Terms /\ g.side = r.side /\ g.price = r.price /\ g.filled = r.filled /\ g.qty = r.qty
        /\ g.phase = "resting" /\ g \in Terms
    BY <2>1 DEF RowOk, Terms
  <2>3. RowOk(g)
    BY <1>4, <2>1, <2>2 DEF RowOk
  <2>4. orders'[o] = g /\ \A x \in Order \ {o} : orders'[x] = orders[x]
    BY <1>1, <1>4 DEF OrdersTyped
  <2>5. OrdersTyped'
    BY <1>1, <1>4, <2>2 DEF OrdersTyped
  <2>6. r.side \in Sides /\ r.price \in Nat /\ r.qty \in Nat /\ r.filled = 0
    BY <1>4, <2>1, RowIs
  <2>7. cost \in Nat /\ Spend(r.side, r.price, 0) = 0
    <3>1. 0 <= r.qty
      BY <2>6
    <3>2. 0 \in Nat
      OBVIOUS
    <3> HIDE DEF r
    <3>3. Spend(r.side, r.price, r.qty) \in Nat
      BY <2>6, <3>1, <3>2, SpendGrows
    <3>4. Spend(r.side, r.price, 0) = 0
      BY <2>6, <3>1, <3>2, SpendGrows
    <3> QED BY <3>3, <3>4
  <2>8. OwedBy(g) = cost
    BY <2>2, <2>6, <2>7 DEF OwedBy
  <2>9. RestsOn(g, r.side) /\ \A s \in Sides : RestsOn(g, s) <=> s = r.side
    BY <2>2 DEF RestsOn
  <2>10. \A s \in Sides : ~ RestsOn(r, s)
    BY <1>4 DEF RestsOn
  <2>11. \A s \in Sides : n[s] = IF s = r.side THEN cost ELSE 0
    OBVIOUS
  <2>12. cost <= funds[SpentAsset(r.side)].free
    <3>1. funds[SpentAsset(r.side)].free \in Nat
      BY <1>1, <2>6, AssetsAre DEF WalletOk, FundsOk
    <3> HIDE DEF cost
    <3> QED BY <1>4, <2>7, <3>1 DEF Affords
  <2> HIDE DEF g, cost, r
  <2>13. Moved(funds, funds', n)
    <3>1. cost \in Int /\ WalletOk(orders, funds, fees)
      BY <1>1, <2>7
    <3>2. Moved(funds, [funds EXCEPT ![SpentAsset(r.side)] = [free |-> @.free - cost, locked |-> @.locked + cost]], n)
      BY <2>6, <2>12, <3>1, LockMoves
    <3> QED BY <1>4, <3>2
  <2> HIDE DEF n
  <2>14. SameFills(orders[o], orders'[o])
    BY <1>4, <2>2, <2>4 DEF SameFills, r
  <2>15. OrdersOk(orders') /\ \A x \in Order : SameFills(orders[x], orders'[x])
    BY <1>1, <2>3, <2>4, <2>14, RowChanges
  <2>16. ASSUME NEW s \in Sides PROVE Total(OwedIn(orders', s)) = Total(OwedIn(orders, s)) + n[s]
    <3>1. Total(OwedIn(orders', s)) = Total(OwedIn(orders, s))
                + (IF RestsOn(orders'[o], s) THEN OwedBy(orders'[o]) ELSE 0)
                - (IF RestsOn(orders[o], s) THEN OwedBy(orders[o]) ELSE 0)
      BY <1>1, <2>3, <2>4, <2>14, RowChanges
    <3>2. /\ (IF RestsOn(orders'[o], s) THEN OwedBy(orders'[o]) ELSE 0) = n[s]
          /\ (IF RestsOn(orders[o], s) THEN OwedBy(orders[o]) ELSE 0) = 0
      BY <2>4, <2>8, <2>9, <2>10, <2>11 DEF r
    <3>3. Total(OwedIn(orders, s)) \in Nat /\ n[s] \in Int
      BY <1>1, <2>7, <2>11, TotalsAre
    <3> QED BY <3>1, <3>2, <3>3
  <2>17. WalletOk(orders', funds', fees)
    BY <1>1, <2>13, <2>15, <2>16, MoveBalances
  <2> QED BY <2>5, <2>15, <2>17 DEF WalletInv
<1> QED BY <1>2, <1>3, <1>4 DEF Activate

\* An amend frees what the smaller quantity will not spend.
LEMMA AmendBalances ==
  ASSUME WalletInv, NEW o \in Order, NEW qty \in Nat, RunAmend(o, qty), fees' = fees
  PROVE  WalletInv'
<1>1. OrdersTyped /\ OrdersOk(orders) /\ WalletOk(orders, funds, fees)
  BY DEF WalletInv
<1> DEFINE r == orders[o]
<1>2. CASE orders' = orders /\ funds' = funds
  BY <1>2 DEF WalletInv, OrdersTyped, OrdersOk, WalletOk
<1>3. CASE /\ r.phase = "resting" /\ r.amends < MaxAmends /\ qty < r.qty /\ qty > r.filled
           /\ orders' = [orders EXCEPT ![o].qty = qty, ![o].amends = @ + 1]
           /\ funds' = Unlocked(funds, r.side, Released(r, qty))
  <2> DEFINE g == [r EXCEPT !.qty = qty, !.amends = @ + 1]
             c == - Released(r, qty)
             n == [s \in Sides |-> IF s = r.side THEN c ELSE 0]
  <2>1. RowOk(r)
    BY <1>1, <1>3, RowOr
  <2>2. r \in Terms /\ g.side = r.side /\ g.price = r.price /\ g.filled = r.filled /\ g.qty = qty
        /\ g.phase = "resting" /\ g \in Terms
    <3>1. r \in Terms /\ r.amends \in 0 .. MaxAmends /\ MaxAmends \in Nat
      BY <2>1, RowIs, VenueAssumption
    <3>2. r.amends + 1 \in 0 .. MaxAmends
      BY <1>3, <3>1
    <3> QED BY <1>3, <3>1, <3>2 DEF Terms
  <2>3. r.side \in Sides /\ r.price \in Nat /\ r.qty \in Nat /\ r.filled \in Nat /\ r.filled <= r.qty
    BY <2>1, RowIs
  <2>4. RowOk(g)
    BY <1>3, <2>2, <2>3 DEF RowOk
  <2>5. orders' = [orders EXCEPT ![o] = g]
    BY <1>1, <1>3 DEF OrdersTyped
  <2> HIDE DEF g
  <2>6. orders'[o] = g /\ \A x \in Order \ {o} : orders'[x] = orders[x]
    BY <1>1, <2>5 DEF OrdersTyped
  <2>7. OrdersTyped'
    BY <1>1, <2>2, <2>5 DEF OrdersTyped
  <2>8. /\ Spend(r.side, r.price, r.qty) \in Nat /\ Spend(r.side, r.price, qty) \in Nat
        /\ Spend(r.side, r.price, qty) <= Spend(r.side, r.price, r.qty)
    BY <1>3, <2>3, SpendGrows
  <2>9. Spend(r.side, r.price, r.filled) \in Nat
    BY <2>3, SpendGrows
  <2>10. c = Spend(r.side, r.price, qty) - Spend(r.side, r.price, r.qty) /\ c \in Int /\ c <= 0
    BY <2>8 DEF Released
  <2>11. OwedBy(g) = OwedBy(r) + c /\ OwedBy(r) \in Int
    BY <2>2, <2>8, <2>9, <2>10 DEF OwedBy
  <2>12. \A s \in Sides : /\ RestsOn(g, s) <=> s = r.side
                          /\ RestsOn(r, s) <=> s = r.side
    BY <1>3, <2>2 DEF RestsOn
  <2>13. \A s \in Sides : n[s] = IF s = r.side THEN c ELSE 0
    OBVIOUS
  <2>14. SpentAsset(r.side) \in Assets /\ DOMAIN funds = Assets
         /\ funds[SpentAsset(r.side)].free \in Nat /\ funds[SpentAsset(r.side)].locked \in Nat
    BY <1>1, <2>3, AssetsAre DEF WalletOk, FundsOk
  <2>15. c <= funds[SpentAsset(r.side)].free
    BY <2>10, <2>14
  <2>16. funds' = [funds EXCEPT ![SpentAsset(r.side)] = [free |-> @.free - c, locked |-> @.locked + c]]
    <3>1. Released(r, qty) \in Int
      BY <2>8 DEF Released
    <3>2. \A x \in Nat : x + Released(r, qty) = x - c /\ x - Released(r, qty) = x + c
      BY <3>1
    <3> HIDE DEF c
    <3> QED BY <1>3, <2>14, <3>2 DEF Unlocked
  <2> HIDE DEF c, r
  <2>17. Moved(funds, funds', n)
    BY <1>1, <2>3, <2>10, <2>15, <2>16, LockMoves
  <2> HIDE DEF n
  <2>18. SameFills(orders[o], orders'[o])
    BY <1>3, <2>2, <2>6 DEF SameFills, r
  <2>19. OrdersOk(orders') /\ \A x \in Order : SameFills(orders[x], orders'[x])
    BY <1>1, <2>4, <2>6, <2>18, RowChanges
  <2>20. ASSUME NEW s \in Sides PROVE Total(OwedIn(orders', s)) = Total(OwedIn(orders, s)) + n[s]
    <3>1. Total(OwedIn(orders', s)) = Total(OwedIn(orders, s))
                + (IF RestsOn(orders'[o], s) THEN OwedBy(orders'[o]) ELSE 0)
                - (IF RestsOn(orders[o], s) THEN OwedBy(orders[o]) ELSE 0)
      BY <1>1, <2>4, <2>6, <2>18, RowChanges
    <3>2. /\ (IF RestsOn(orders'[o], s) THEN OwedBy(orders'[o]) ELSE 0)
               = IF s = r.side THEN OwedBy(r) + c ELSE 0
          /\ (IF RestsOn(orders[o], s) THEN OwedBy(orders[o]) ELSE 0)
               = IF s = r.side THEN OwedBy(r) ELSE 0
      BY <2>6, <2>11, <2>12 DEF r
    <3>3. Total(OwedIn(orders, s)) \in Nat
      BY <1>1, TotalsAre
    <3>4. CASE s = r.side
      BY <2>10, <2>11, <2>13, <3>1, <3>2, <3>3, <3>4
    <3>5. CASE s # r.side
      BY <2>13, <3>1, <3>2, <3>3, <3>5
    <3> QED BY <3>4, <3>5
  <2>21. WalletOk(orders', funds', fees)
    BY <1>1, <2>17, <2>19, <2>20, MoveBalances
  <2> QED BY <2>7, <2>19, <2>21 DEF WalletInv
<1> QED BY <1>2, <1>3 DEF RunAmend

-----------------------------------------------------------------------------
(***************************************************************************)
(* Closing does; what balance means; the start                             *)
(***************************************************************************)
\* What is freed for each side moves from locked to free.
LEMMA UnlockedMoves ==
  ASSUME NEW w \in [Assets -> [free : Nat, locked : Nat]], NEW b \in Nat, NEW a \in Nat
  PROVE  Moved(w, Unlocked(Unlocked(w, "Buy", b), "Sell", a),
               [s \in Sides |-> IF s = "Buy" THEN -b ELSE -a])
<1> DEFINE n == [s \in Sides |-> IF s = "Buy" THEN -b ELSE -a]
           u == Unlocked(w, "Buy", b)
           v == Unlocked(u, "Sell", a)
<1>1. /\ SpentAsset("Buy") = "quote" /\ SpentAsset("Sell") = "base"
      /\ Sides = {"Buy", "Sell"} /\ Assets = {"base", "quote"}
  BY AssetsAre
<1>2. /\ w["base"].free \in Nat /\ w["base"].locked \in Nat
      /\ w["quote"].free \in Nat /\ w["quote"].locked \in Nat
  BY <1>1
<1>3. u = [w EXCEPT !["quote"] = [free |-> w["quote"].free + b, locked |-> w["quote"].locked - b]]
  BY <1>1 DEF Unlocked
<1>4. /\ u["base"] = w["base"] /\ DOMAIN u = Assets
      /\ u["quote"] = [free |-> w["quote"].free + b, locked |-> w["quote"].locked - b]
  BY <1>1, <1>3
<1> HIDE DEF u
<1>5. v = [u EXCEPT !["base"] = [free |-> u["base"].free + a, locked |-> u["base"].locked - a]]
  BY <1>1 DEF Unlocked
<1>6. /\ v["quote"] = u["quote"] /\ DOMAIN v = Assets
      /\ v["base"] = [free |-> u["base"].free + a, locked |-> u["base"].locked - a]
      /\ v = [x \in Assets |-> v[x]]
  BY <1>1, <1>4, <1>5
<1> HIDE DEF v
<1>7. /\ v["quote"].free = w["quote"].free + b /\ v["quote"].locked = w["quote"].locked - b
      /\ v["base"].free = w["base"].free + a /\ v["base"].locked = w["base"].locked - a
  BY <1>4, <1>6
<1>8. /\ n \in [Sides -> Int] /\ n["Buy"] = -b /\ n["Sell"] = -a
  BY <1>1
<1>9. v \in [Assets -> [free : Int, locked : Int]]
  <2>1. /\ w["quote"].free + b \in Int /\ w["quote"].locked - b \in Int
        /\ w["base"].free + a \in Int /\ w["base"].locked - a \in Int
    BY <1>2
  <2>2. v["quote"] \in [free : Int, locked : Int] /\ v["base"] \in [free : Int, locked : Int]
    BY <1>4, <1>6, <2>1
  <2> QED BY <1>1, <1>6, <2>2
<1> HIDE DEF n
<1>10. /\ v["quote"].free = w["quote"].free - n["Buy"] /\ v["quote"].locked = w["quote"].locked + n["Buy"]
       /\ v["base"].free = w["base"].free - n["Sell"] /\ v["base"].locked = w["base"].locked + n["Sell"]
       /\ n["Buy"] <= w["quote"].free /\ n["Sell"] <= w["base"].free
  BY <1>2, <1>7, <1>8
<1>11. ASSUME NEW s \in Sides
       PROVE  /\ v[SpentAsset(s)].free = w[SpentAsset(s)].free - n[s]
              /\ v[SpentAsset(s)].locked = w[SpentAsset(s)].locked + n[s]
              /\ n[s] <= w[SpentAsset(s)].free
  BY <1>1, <1>10
<1>12. Moved(w, v, n)
  BY <1>8, <1>9, <1>11 DEF Moved
<1> QED BY <1>12 DEF v, u, n

\* Closing orders frees what they owed, and no more.
LEMMA ClosedBalances ==
  ASSUME WalletInv, NEW gone \in SUBSET Order, \A o \in gone : orders[o].phase # "unborn",
         Closed(gone), fees' = fees
  PROVE  WalletInv'
<1>1. OrdersTyped /\ OrdersOk(orders) /\ WalletOk(orders, funds, fees)
  BY DEF WalletInv
<1> DEFINE D(side) == {x \in gone : IsResting(x) /\ orders[x].side = side}
           F(side) == [o \in Order |-> IF o \in D(side) THEN Residual(o) ELSE 0]
           freed(side) == SumFunction([o \in D(side) |-> Residual(o)])
<1>2. /\ orders' = [o \in Order |->
           IF o \in gone THEN [orders[o] EXCEPT !.phase = "closed"] ELSE orders[o]]
      /\ funds' = Unlocked(Unlocked(funds, "Buy", freed("Buy")), "Sell", freed("Sell"))
  BY DEF Closed
<1>3. ASSUME NEW o \in gone
      PROVE  /\ RowOk(orders'[o]) /\ orders'[o] \in Terms /\ orders'[o].phase = "closed"
             /\ SameFills(orders[o], orders'[o])
  <2> DEFINE r == orders[o]
             g == [r EXCEPT !.phase = "closed"]
  <2>1. RowOk(r)
    BY <1>1, RowOr
  <2>2. r \in Terms /\ g.side = r.side /\ g.price = r.price /\ g.filled = r.filled /\ g.qty = r.qty
        /\ g.phase = "closed" /\ g \in Terms
    BY <2>1 DEF RowOk, Terms
  <2>3. RowOk(g)
    BY <2>1, <2>2 DEF RowOk
  <2>4. orders'[o] = g
    BY <1>2
  <2> HIDE DEF g
  <2> QED BY <2>2, <2>3, <2>4 DEF SameFills
<1>4. \A o \in Order : o \notin gone => orders'[o] = orders[o]
  BY <1>2
<1>5. OrdersOk(orders')
  BY <1>1, <1>3, <1>4 DEF OrdersOk
<1>6. OrdersTyped'
  <2>1. \A o \in Order : orders'[o] \in Terms \cup {[phase |-> "unborn"]}
    BY <1>1, <1>3, <1>4 DEF OrdersTyped
  <2>2. orders' = [o \in Order |-> orders'[o]]
    BY <1>2
  <2> QED BY <2>1, <2>2 DEF OrdersTyped
<1>7. \A o \in Order : SameFills(orders[o], orders'[o])
  BY <1>3, <1>4 DEF SameFills
<1>8. ASSUME NEW s \in Sides
      PROVE  /\ freed(s) = Total(F(s)) /\ Total(F(s)) \in Nat
             /\ Total(OwedIn(orders', s)) = Total(OwedIn(orders, s)) - freed(s)
  <2>1. D(s) \subseteq Order
    OBVIOUS
  <2>2. \A o \in D(s) : RestsOn(orders[o], s) /\ Residual(o) = OwedBy(orders[o])
    BY DEF IsResting, RestsOn, Residual, OwedBy
  <2>3. \A o \in D(s) : OwedIn(orders, s)[o] = Residual(o)
    BY <2>1, <2>2 DEF OwedIn
  <2>4. \A o \in Order : OwedIn(orders, s)[o] \in Nat /\ OwedIn(orders', s)[o] \in Nat
    BY <1>1, <1>5, TermsAre
  <2>5. \A o \in D(s) : Residual(o) \in Nat
    BY <2>1, <2>3, <2>4
  <2>6. \A o \in Order : F(s)[o] \in Nat
    BY <2>5
  <2>7. freed(s) = Total(F(s))
    <3> DEFINE f == [o \in D(s) |-> Residual(o)]
               g == F(s)
    <3>1. DOMAIN f = D(s) /\ \A o \in D(s) : f[o] \in Int
      BY <2>5
    <3>2. \A o \in Order : g[o] = IF o \in D(s) THEN f[o] ELSE 0
      OBVIOUS
    <3> HIDE DEF f, g, D
    <3>3. SumFunction(f) = Total(g)
      BY <2>1, <3>1, <3>2, TotalOf
    <3> QED BY <3>3 DEF f, g
  <2>8. Total(F(s)) \in Nat
    <3> HIDE DEF F
    <3>1. IsFiniteSet(Order)
      BY NodesAre
    <3> QED BY <2>6, <3>1, SumPart DEF Total
  <2>9. ASSUME NEW o \in Order PROVE OwedIn(orders, s)[o] = OwedIn(orders', s)[o] + F(s)[o]
    <3>1. CASE o \in D(s)
      <4>1. OwedIn(orders', s)[o] = 0
        BY <1>3, <3>1 DEF OwedIn, RestsOn
      <4>2. F(s)[o] = Residual(o)
        BY <3>1
      <4> QED BY <2>3, <2>5, <3>1, <4>1, <4>2
    <3>2. CASE o \in gone /\ o \notin D(s)
      <4>1. OwedIn(orders', s)[o] = 0
        BY <1>3, <3>2 DEF OwedIn, RestsOn
      <4>2. OwedIn(orders, s)[o] = 0
        BY <3>2 DEF OwedIn, RestsOn, IsResting
      <4> QED BY <3>2, <4>1, <4>2
    <3>3. CASE o \notin gone
      <4>1. OwedIn(orders', s)[o] = OwedIn(orders, s)[o]
        BY <1>4, <3>3 DEF OwedIn
      <4>2. F(s)[o] = 0
        BY <3>3
      <4> QED BY <2>4, <4>1, <4>2
    <3> QED BY <3>1, <3>2, <3>3
  <2> HIDE DEF F, freed
  <2>10. Total(OwedIn(orders, s)) = Total(OwedIn(orders', s)) + Total(F(s))
    BY <2>4, <2>6, <2>9, TotalAdds
  <2>11. Total(OwedIn(orders', s)) \in Nat
    BY <1>5, TotalsAre
  <2> QED BY <2>7, <2>8, <2>10, <2>11
<1> HIDE DEF F, freed, D
<1> DEFINE b == freed("Buy")
           a == freed("Sell")
           n == [s \in Sides |-> IF s = "Buy" THEN -b ELSE -a]
<1>9. "Buy" \in Sides /\ "Sell" \in Sides /\ Sides = {"Buy", "Sell"}
  BY DEF Sides
<1>10. b \in Nat /\ a \in Nat
  BY <1>8, <1>9
<1>11. funds \in [Assets -> [free : Nat, locked : Nat]]
  BY <1>1 DEF WalletOk, FundsOk
<1>12. \A s \in Sides : n[s] = - freed(s)
  BY <1>9
<1>13. funds' = Unlocked(Unlocked(funds, "Buy", b), "Sell", a)
  BY <1>2
<1> HIDE DEF b, a
<1>14. Moved(funds, funds', n)
  BY <1>10, <1>11, <1>13, UnlockedMoves
<1> HIDE DEF n
<1>15. ASSUME NEW s \in Sides PROVE Total(OwedIn(orders', s)) = Total(OwedIn(orders, s)) + n[s]
  <2>1. Total(OwedIn(orders, s)) \in Nat /\ freed(s) \in Nat
    BY <1>1, <1>8, TotalsAre
  <2> QED BY <1>8, <1>12, <2>1
<1>16. WalletOk(orders', funds', fees)
  BY <1>1, <1>5, <1>7, <1>14, <1>15, MoveBalances
<1> QED BY <1>5, <1>6, <1>16 DEF WalletInv

\* The wallet's part of the invariant says what WalletBalances does, and starts so.
LEMMA WalletBalancesOf == ASSUME WalletInv PROVE WalletBalances
<1>1. OrdersOk(orders) /\ WalletOk(orders, funds, fees)
  BY DEF WalletInv
<1>2. LockedIsOwed
  <2> SUFFICES ASSUME NEW s \in Sides
               PROVE  funds[SpentAsset(s)].locked = SumFunction([o \in RestingOn(s) |-> Residual(o)])
    BY DEF LockedIsOwed
  <2> DEFINE f == [o \in RestingOn(s) |-> Residual(o)]
             g == OwedIn(orders, s)
  <2>1. RestingOn(s) \subseteq Order
    BY DEF RestingOn
  <2>2. \A o \in Order : o \in RestingOn(s) <=> RestsOn(orders[o], s)
    BY DEF RestingOn, IsResting, RestsOn
  <2>3. \A o \in Order : g[o] = IF o \in RestingOn(s) THEN f[o] ELSE 0
    BY <2>2 DEF OwedIn, OwedBy, Residual
  <2>4. \A o \in RestingOn(s) : f[o] \in Int
    BY <1>1, <2>1, <2>3, TermsAre
  <2>5. DOMAIN f = RestingOn(s)
    OBVIOUS
  <2> HIDE DEF f, g
  <2>6. SumFunction(f) = Total(g)
    BY <2>1, <2>3, <2>4, <2>5, TotalOf
  <2> QED BY <1>1, <2>6 DEF WalletOk, LockedAdds, f, g
<1>3. FundsConserved
  <2> DEFINE on(side) == {o \in Order : orders[o].phase # "unborn" /\ orders[o].side = side}
  <2>1. ASSUME NEW side
        PROVE  /\ SumFunction([o \in on(side) |-> orders[o].filled]) = Total(BaseIn(orders, side))
               /\ SumFunction([o \in on(side) |-> Notional(orders[o].price, orders[o].filled)])
                    = Total(QuoteIn(orders, side))
    <3> DEFINE f == [o \in on(side) |-> orders[o].filled]
               h == [o \in on(side) |-> Notional(orders[o].price, orders[o].filled)]
               g == BaseIn(orders, side)
               k == QuoteIn(orders, side)
    <3>1. on(side) \subseteq Order /\ DOMAIN f = on(side) /\ DOMAIN h = on(side)
      OBVIOUS
    <3>2. \A o \in Order : g[o] = IF o \in on(side) THEN f[o] ELSE 0
      BY DEF BaseIn, CountsOn
    <3>3. \A o \in Order : k[o] = IF o \in on(side) THEN h[o] ELSE 0
      BY DEF QuoteIn, CountsOn
    <3>4. \A o \in Order : g[o] \in Nat /\ k[o] \in Nat
      BY <1>1, TermsAre
    <3>5. \A o \in on(side) : f[o] \in Int /\ h[o] \in Int
      BY <3>1, <3>2, <3>3, <3>4
    <3> HIDE DEF f, h, g, k, on
    <3>6. SumFunction(f) = Total(g)
      BY <3>1, <3>2, <3>5, TotalOf
    <3>7. SumFunction(h) = Total(k)
      BY <3>1, <3>3, <3>5, TotalOf
    <3> QED BY <3>6, <3>7 DEF f, h, g, k
  <2>2. FundsAdd(orders, funds, fees)
    BY <1>1 DEF WalletOk
  <2> HIDE DEF on
  <2> QED BY <2>1, <2>2 DEF FundsAdd, FundsConserved, on
<1> QED BY <1>2, <1>3 DEF WalletBalances

\* The opening wallet is in balance.
LEMMA WalletStarts == ASSUME Init PROVE WalletInv
<1>1. /\ orders = [o \in Order |-> [phase |-> "unborn"]]
      /\ funds = [a \in Assets |-> [free |-> Opening[a], locked |-> 0]]
      /\ fees = [a \in Assets |-> 0]
  BY DEF Init
<1>2. \A o \in Order : orders[o] = [phase |-> "unborn"]
  BY <1>1
<1>3. OrdersOk(orders) /\ OrdersTyped
  BY <1>1, <1>2 DEF OrdersOk, OrdersTyped
<1>4. Opening \in [Assets -> Nat] /\ Opening.base \in Nat /\ Opening.quote \in Nat
  BY VenueAssumption DEF Assets
<1>5. FundsOk(funds, fees)
  BY <1>1, <1>4 DEF FundsOk
<1>6. ASSUME NEW s
      PROVE  /\ Total(OwedIn(orders, s)) = 0 /\ Total(BaseIn(orders, s)) = 0
             /\ Total(QuoteIn(orders, s)) = 0
  <2>1. \A o \in Order : OwedIn(orders, s)[o] = 0
    BY <1>2 DEF OwedIn, RestsOn
  <2>2. \A o \in Order : BaseIn(orders, s)[o] = 0
    BY <1>2 DEF BaseIn, CountsOn
  <2>3. \A o \in Order : QuoteIn(orders, s)[o] = 0
    BY <1>2 DEF QuoteIn, CountsOn
  <2>4. ASSUME NEW f, \A o \in Order : f[o] = 0 PROVE Total(f) = 0
    <3>1. IsFiniteSet(Order)
      BY NodesAre
    <3> QED BY <2>4, <3>1, SumZero DEF Total
  <2> QED BY <2>1, <2>2, <2>3, <2>4
<1>7. LockedAdds(orders, funds)
  BY <1>1, <1>6, AssetsAre DEF LockedAdds
<1>8. FundsAdd(orders, funds, fees)
  <2>1. /\ funds["base"].free = Opening.base /\ funds["base"].locked = 0 /\ fees["base"] = 0
        /\ funds["quote"].free = Opening.quote /\ funds["quote"].locked = 0 /\ fees["quote"] = 0
    BY <1>1 DEF Assets
  <2> QED BY <1>4, <1>6, <2>1 DEF FundsAdd
<1> QED BY <1>3, <1>5, <1>7, <1>8 DEF WalletInv, WalletOk

-----------------------------------------------------------------------------
(***************************************************************************)
(* The book is a book after every level it takes                           *)
(***************************************************************************)
Books == [Sides -> [Prices -> Nat]]

\* One level of a book changes.
LEMMA LevelTyped ==
  ASSUME NEW b \in Books, NEW u \in Updates PROVE WithLevel(b, u) \in Books
<1> DEFINE c == [b EXCEPT ![u.side][u.price] = u.qty]
           l == [p \in Prices |-> IF Cardinality({r \in LevelsOf(c, u.side) : Better(u.side, r, p)}) < BookCapacity
                                  THEN c[u.side][p] ELSE 0]
<1>1. u \in [side : {"Buy", "Sell"}, price : Nat, qty : Nat] /\ u.price \in Prices
  BY VenueAssumption DEF Prices
<1>2. u.side \in Sides /\ u.qty \in Nat
  BY <1>1 DEF Sides
<1>3. c \in Books
  BY <1>1, <1>2 DEF Books
<1> HIDE DEF c
<1>4. \A p \in Prices : c[u.side][p] \in Nat
  BY <1>2, <1>3 DEF Books
<1>5. l \in [Prices -> Nat]
  BY <1>4
<1>6. WithLevel(b, u) = [c EXCEPT ![u.side] = l]
  BY DEF WithLevel, Trimmed, c
<1> HIDE DEF l
<1> QED BY <1>2, <1>3, <1>5, <1>6 DEF Books

\* The last of some positions is one of them.
LEMMA LastMember ==
  ASSUME NEW n \in Nat, NEW s \in SUBSET (1 .. n), s # {}
  PROVE  Max(s) \in s /\ \A y \in s : Max(s) >= y
<1> DEFINE T == {m \in Nat : n - m \in s}
<1>1. T \in SUBSET Nat /\ T # {}
  <2>1. PICK x \in s : TRUE
    OBVIOUS
  <2>2. n - x \in Nat /\ n - (n - x) = x
    BY <2>1
  <2> QED BY <2>2
<1>2. PICK m \in T : \A k \in T : m <= k
  <2> HIDE DEF T
  <2> QED BY <1>1, LeastNat
<1>3. n - m \in s /\ m \in Nat
  OBVIOUS
<1>4. \A y \in s : n - m >= y
  <2> TAKE y \in s
  <2>1. n - y \in Nat /\ n - (n - y) = y /\ y \in Nat
    OBVIOUS
  <2>2. n - y \in T
    BY <2>1
  <2>3. m <= n - y
    BY <1>2, <2>2
  <2> QED BY <1>3, <2>1, <2>3
<1> HIDE DEF T
<1>5. \E x \in s : \A y \in s : x >= y
  BY <1>3, <1>4
<1> QED BY <1>5 DEF Max

\* Positions are finite in number.
LEMMA SpanFinite ==
  ASSUME NEW n \in Nat, NEW u, u \subseteq 1 .. n PROVE IsFiniteSet(u)
<1>1. IsFiniteSet(1 .. n)
  BY FS_Interval
<1> QED BY <1>1, FS_Subset

\* The recursion that applies the updates of a transaction one by one, and its solutions.
IsFold(b, q, S, h) ==
  h = [s \in SUBSET S |-> IF s = {} THEN b ELSE WithLevel(h[s \ {Max(s)}], q[Max(s)])]

FoldOf(b, q, S) == CHOOSE h : IsFold(b, q, S, h)

\* Two solutions agree wherever both are defined.
LEMMA FoldsAgree ==
  ASSUME NEW n \in Nat, NEW b, NEW q, NEW S \in SUBSET (1 .. n), NEW T \in SUBSET (1 .. n), NEW g, NEW h,
         IsFold(b, q, S, g), IsFold(b, q, T, h), NEW u, u \subseteq S, u \subseteq T
  PROVE  g[u] = h[u]
<1> DEFINE Bad == {s \in SUBSET u : g[s] # h[s]}
<1> SUFFICES ASSUME g[u] # h[u] PROVE FALSE
  OBVIOUS
<1>1. IsFiniteSet(u)
  <2>1. u \subseteq 1 .. n
    OBVIOUS
  <2> QED BY <2>1, SpanFinite
<1>2. PICK s \in Bad : \A x \in s : s \ {x} \notin Bad
  <2>1. Bad \in SUBSET (SUBSET u) /\ Bad # {}
    OBVIOUS
  <2> HIDE DEF Bad
  <2> QED BY <1>1, <2>1, Minimal
<1>3. s \in SUBSET S /\ s \in SUBSET T /\ s \in SUBSET (1 .. n) /\ g[s] # h[s]
  OBVIOUS
<1>4. s # {}
  <2>1. s = {} => g[s] = b /\ h[s] = b
    BY <1>3 DEF IsFold
  <2> QED BY <1>3, <2>1
<1> DEFINE v == s \ {Max(s)}
<1>5. Max(s) \in s
  BY <1>3, <1>4, LastMember
<1>6. g[v] = h[v]
  BY <1>2, <1>5
<1>7. g[s] = WithLevel(g[v], q[Max(s)]) /\ h[s] = WithLevel(h[v], q[Max(s)])
  BY <1>3, <1>4 DEF IsFold
<1> QED BY <1>3, <1>6, <1>7

\* The recursion has a solution over the positions of every sequence.
LEMMA FoldExists ==
  ASSUME NEW n \in Nat, NEW b, NEW q, NEW S \in SUBSET (1 .. n)
  PROVE  IsFold(b, q, S, FoldOf(b, q, S))
<1> DEFINE Has(s) == \E h : IsFold(b, q, s, h)
           Bad    == {s \in SUBSET S : ~ Has(s)}
<1> SUFFICES Has(S)
  BY DEF FoldOf
<1> SUFFICES ASSUME ~ Has(S) PROVE FALSE
  OBVIOUS
<1>1. IsFiniteSet(S)
  <2>1. S \subseteq 1 .. n
    OBVIOUS
  <2> QED BY <2>1, SpanFinite
<1>2. PICK T \in Bad : IsFiniteSet(T) /\ \A x \in T : T \ {x} \notin Bad
  <2>1. Bad \in SUBSET (SUBSET S) /\ Bad # {}
    OBVIOUS
  <2> HIDE DEF Bad
  <2> QED BY <1>1, <2>1, Minimal
<1>3. T \in SUBSET (1 .. n) /\ ~ Has(T)
  OBVIOUS
<1>4. CASE T = {}
  <2> DEFINE h == [s \in SUBSET T |-> b]
  <2>1. IsFold(b, q, T, h)
    BY <1>4 DEF IsFold
  <2> QED BY <1>3, <2>1
<1>5. CASE T # {}
  <2> DEFINE x == Max(T)
             v == T \ {x}
             g == FoldOf(b, q, v)
             h == [s \in SUBSET T |-> IF x \notin s THEN g[s]
                                      ELSE WithLevel(g[s \ {x}], q[x])]
  <2>1. x \in T /\ \A y \in T : x >= y
    BY <1>3, <1>5, LastMember
  <2>2. Has(v)
    BY <1>2, <2>1
  <2>3. IsFold(b, q, v, g)
    BY <2>2 DEF FoldOf
  <2> HIDE DEF g
  <2>4. ASSUME NEW s \in SUBSET T, x \notin s
        PROVE  h[s] = IF s = {} THEN b ELSE WithLevel(h[s \ {Max(s)}], q[Max(s)])
    <3>1. s \in SUBSET v /\ h[s] = g[s]
      BY <2>4
    <3>2. g[s] = IF s = {} THEN b ELSE WithLevel(g[s \ {Max(s)}], q[Max(s)])
      BY <2>3, <3>1 DEF IsFold
    <3>3. h[s \ {Max(s)}] = g[s \ {Max(s)}]
      BY <2>4
    <3> HIDE DEF h
    <3> QED BY <3>1, <3>2, <3>3
  <2>5. ASSUME NEW s \in SUBSET T, x \in s
        PROVE  h[s] = IF s = {} THEN b ELSE WithLevel(h[s \ {Max(s)}], q[Max(s)])
    <3>1. Max(s) = x
      <4>1. Max(s) \in s
        BY <1>3, <2>5, LastMember
      <4>2. \A y \in s : Max(s) >= y
        BY <1>3, <2>5, LastMember
      <4>3. Max(s) >= x /\ x >= Max(s) /\ x \in Int /\ Max(s) \in Int
        <5>1. x \in 1 .. n /\ Max(s) \in 1 .. n /\ Max(s) \in T
          BY <1>3, <2>1, <4>1
        <5> HIDE DEF x
        <5> QED BY <2>1, <2>5, <4>2, <5>1
      <4> QED BY <4>3
    <3> HIDE DEF x
    <3>2. h[s] = WithLevel(g[s \ {x}], q[x])
      BY <2>5
    <3>3. h[s \ {x}] = g[s \ {x}]
      BY <2>5
    <3>4. s # {}
      BY <2>5
    <3> HIDE DEF h
    <3> QED BY <3>1, <3>2, <3>3, <3>4
  <2>6. \A s \in SUBSET T : h[s] = IF s = {} THEN b ELSE WithLevel(h[s \ {Max(s)}], q[Max(s)])
    <3> TAKE s \in SUBSET T
    <3> HIDE DEF h
    <3> QED BY <2>4, <2>5
  <2>7. h = [s \in SUBSET T |-> h[s]]
    OBVIOUS
  <2> HIDE DEF h
  <2>8. IsFold(b, q, T, h)
    BY <2>6, <2>7 DEF IsFold
  <2> QED BY <1>3, <2>8
<1> QED BY <1>4, <1>5

\* The updates of a transaction leave a book of levels.
LEMMA FoldTyped ==
  ASSUME NEW b \in Books, NEW q \in Seq(Updates)
  PROVE  FoldLeft(WithLevel, b, q) \in Books
<1> DEFINE S == DOMAIN q
           h == FoldOf(b, q, S)
<1>1. FoldLeft(WithLevel, b, q) = h[S]
  BY DEF FoldLeft, MapThenFoldSet, FoldOf, IsFold
<1>2. S = 1 .. Len(q) /\ Len(q) \in Nat /\ IsFiniteSet(S)
  BY LenProperties, FS_Interval
<1>3. IsFold(b, q, S, h)
  BY <1>2, FoldExists
<1> HIDE DEF h
<1> DEFINE Bad == {s \in SUBSET S : h[s] \notin Books}
<1> SUFFICES ASSUME h[S] \notin Books PROVE FALSE
  BY <1>1
<1>4. PICK s \in Bad : \A x \in s : s \ {x} \notin Bad
  <2>1. Bad \in SUBSET (SUBSET S) /\ Bad # {}
    OBVIOUS
  <2> HIDE DEF Bad, S
  <2> QED BY <1>2, <2>1, Minimal
<1>5. s # {}
  <2>1. h[{}] = b
    BY <1>3 DEF IsFold
  <2> QED BY <2>1
<1>6. Max(s) \in s
  BY <1>2, <1>5, LastMember
<1>7. h[s \ {Max(s)}] \in Books
  BY <1>4, <1>6
<1>8. h[s] = WithLevel(h[s \ {Max(s)}], q[Max(s)])
  BY <1>3, <1>5 DEF IsFold
<1>9. q[Max(s)] \in Updates
  BY <1>2, <1>6, ElementOfSeq
<1>10. WithLevel(h[s \ {Max(s)}], q[Max(s)]) \in Books
  BY <1>7, <1>9, LevelTyped
<1> QED BY <1>8, <1>10

-----------------------------------------------------------------------------
(***************************************************************************)
(* Queues side by side: suspension, depth commits                          *)
(***************************************************************************)
\* Who should stand at a price, and queues that hold just those, soundly.
StandsAt(os, s, p) == {o \in Order : RestsOn(os[o], s) /\ os[o].price = p}

QueuesOk(lad, os, b) ==
  /\ lad \in [Sides -> [Prices -> Seq(Nodes)]]
  /\ \A s \in Sides, p \in Prices : SoundQueue(lad[s][p], StandsAt(os, s, p), b[s][p])

\* Nothing public is known in any queue that stands.
Lost(lad) == \A s \in Sides, p \in Prices : lad[s][p] = <<>> \/ HasUnseen(lad[s][p])

\* One queue of them.
LEMMA QueueIs ==
  ASSUME NEW lad, NEW os, NEW b, QueuesOk(lad, os, b), NEW s \in Sides, NEW p \in Prices
  PROVE  /\ lad[s][p] \in Seq(Nodes) /\ StandOnce(lad[s][p], StandsAt(os, s, p))
         /\ KnownQty(lad[s][p]) \in Nat
         /\ KnownQty(lad[s][p]) > 0 => ~ HasUnseen(lad[s][p]) /\ KnownQty(lad[s][p]) <= b[s][p]
<1>1. SoundQueue(lad[s][p], StandsAt(os, s, p), b[s][p])
  BY DEF QueuesOk
<1>2. /\ lad[s][p] \in Seq(Nodes) /\ StandOnce(lad[s][p], StandsAt(os, s, p))
      /\ KnownQty(lad[s][p]) > 0 => ~ HasUnseen(lad[s][p]) /\ KnownQty(lad[s][p]) <= b[s][p]
  BY <1>1 DEF SoundQueue
<1>3. KnownQty(lad[s][p]) \in Nat
  BY <1>2, KnownTyped
<1> QED BY <1>2, <1>3

\* Queues given side by side and price by price.
LEMMA QueuesAre ==
  ASSUME NEW lad, NEW os, NEW b, lad = [s \in Sides |-> lad[s]],
         \A s \in Sides : lad[s] = [p \in Prices |-> lad[s][p]],
         \A s \in Sides, p \in Prices : SoundQueue(lad[s][p], StandsAt(os, s, p), b[s][p])
  PROVE  QueuesOk(lad, os, b)
<1>1. \A s \in Sides, p \in Prices : lad[s][p] \in Seq(Nodes)
  BY DEF SoundQueue
<1>2. \A s \in Sides : lad[s] \in [Prices -> Seq(Nodes)]
  BY <1>1
<1>3. lad \in [Sides -> [Prices -> Seq(Nodes)]]
  BY <1>2
<1> QED BY <1>3 DEF QueuesOk

\* A suspension blinds every queue, whatever the book becomes.
LEMMA SuspendKeeps ==
  ASSUME NEW lad, NEW os, NEW b, QueuesOk(lad, os, b), NEW bn \in Books, NEW ln,
         ln = [s \in Sides |-> [p \in Prices |-> Blinded(lad[s][p])]]
  PROVE  QueuesOk(ln, os, bn) /\ Lost(ln)
<1>1. ASSUME NEW s \in Sides, NEW p \in Prices
      PROVE  /\ ln[s][p] = Blinded(lad[s][p]) /\ SoundQueue(ln[s][p], StandsAt(os, s, p), bn[s][p])
             /\ ln[s][p] = <<>> \/ HasUnseen(ln[s][p])
  <2>1. ln[s][p] = Blinded(lad[s][p])
    OBVIOUS
  <2>2. lad[s][p] \in Seq(Nodes) /\ StandOnce(lad[s][p], StandsAt(os, s, p))
    BY QueueIs
  <2>3. /\ Blinded(lad[s][p]) \in Seq(Nodes) /\ StandOnce(Blinded(lad[s][p]), StandsAt(os, s, p))
        /\ KnownQty(Blinded(lad[s][p])) = 0
        /\ Blinded(lad[s][p]) = <<>> \/ HasUnseen(Blinded(lad[s][p]))
    BY <2>2, BlindedIs
  <2> QED BY <2>1, <2>3 DEF SoundQueue
<1>2. ln = [s \in Sides |-> ln[s]] /\ \A s \in Sides : ln[s] = [p \in Prices |-> ln[s][p]]
  OBVIOUS
<1>3. QueuesOk(ln, os, bn)
  BY <1>1, <1>2, QueuesAre
<1> QED BY <1>1, <1>3 DEF Lost

\* Queues in which nothing is known are sound for any book.
LEMMA LostKeeps ==
  ASSUME NEW lad, NEW os, NEW b, QueuesOk(lad, os, b), Lost(lad), NEW bn \in Books
  PROVE  QueuesOk(lad, os, bn)
<1>1. ASSUME NEW s \in Sides, NEW p \in Prices
      PROVE  SoundQueue(lad[s][p], StandsAt(os, s, p), bn[s][p])
  <2>1. /\ lad[s][p] \in Seq(Nodes) /\ StandOnce(lad[s][p], StandsAt(os, s, p))
        /\ KnownQty(lad[s][p]) \in Nat /\ (KnownQty(lad[s][p]) > 0 => ~ HasUnseen(lad[s][p]))
    BY QueueIs
  <2>2. KnownQty(lad[s][p]) = 0
    <3>1. CASE lad[s][p] = <<>>
      <4>1. DOMAIN lad[s][p] = {}
        BY <3>1
      <4>2. KnownIn(lad[s][p], {}) = 0
        BY <2>1, KnownNone
      <4> QED BY <4>1, <4>2 DEF KnownQty
    <3>2. CASE HasUnseen(lad[s][p])
      BY <2>1, <3>2
    <3> QED BY <3>1, <3>2 DEF Lost
  <2> QED BY <2>1, <2>2 DEF SoundQueue
<1> QED BY <1>1 DEF QueuesOk

\* What a level shows.
LEMMA VisibleIs ==
  ASSUME NEW b \in Books, NEW s \in Sides, NEW p \in Prices
  PROVE  /\ b[s][p] \in Nat
         /\ VisibleAt(b, s, p) = Hidden => b[s][p] = 0
         /\ VisibleAt(b, s, p) # Hidden => VisibleAt(b, s, p) = b[s][p]
<1>1. b[s][p] \in Nat
  BY DEF Books
<1>2. CASE b[s][p] > 0
  BY <1>1, <1>2 DEF VisibleAt, Hidden
<1>3. CASE ~ (b[s][p] > 0)
  BY <1>1, <1>3 DEF VisibleAt, Hidden
<1> QED BY <1>2, <1>3

\* A depth commit reconciles every queue with what the book then shows.
LEMMA CappedKeeps ==
  ASSUME NEW lad, NEW os, NEW b, QueuesOk(lad, os, b), NEW bn \in Books, NEW ln,
         ln = [s \in Sides |-> Capped(lad[s], s, bn)]
  PROVE  QueuesOk(ln, os, bn) /\ (Lost(lad) => Lost(ln))
<1>1. ASSUME NEW s \in Sides, NEW p \in Prices
      PROVE  /\ SoundQueue(ln[s][p], StandsAt(os, s, p), bn[s][p])
             /\ lad[s][p] = <<>> \/ HasUnseen(lad[s][p]) => ln[s][p] = <<>> \/ HasUnseen(ln[s][p])
  <2> DEFINE q == lad[s][p]
             r == ln[s][p]
             v == VisibleAt(bn, s, p)
             who == StandsAt(os, s, p)
  <2>1. r = IF q = <<>> THEN <<>> ELSE IF v = Hidden THEN Blinded(q) ELSE Reconciled(q, v)
    BY DEF Capped
  <2>2. /\ q \in Seq(Nodes) /\ StandOnce(q, who)
        /\ KnownQty(q) \in Nat /\ (KnownQty(q) > 0 => ~ HasUnseen(q))
    BY QueueIs
  <2>3. bn[s][p] \in Nat /\ (v # Hidden => v = bn[s][p])
    BY VisibleIs
  <2> DEFINE n == bn[s][p]
  <2> HIDE DEF q, r, v, who, n
  <2>4. CASE q = <<>>
    <3>1. DOMAIN q = {}
      BY <2>4
    <3>4. KnownIn(q, {}) = 0
      BY <2>2, KnownNone
    <3>2. KnownQty(q) = 0
      BY <3>1, <3>4 DEF KnownQty
    <3>3. SoundQueue(r, who, n) /\ r = <<>>
      BY <2>1, <2>2, <2>4, <3>2 DEF SoundQueue
    <3> QED BY <3>3 DEF q, r, who, n
  <2>5. CASE q # <<>> /\ v = Hidden
    <3>1. /\ Blinded(q) \in Seq(Nodes) /\ StandOnce(Blinded(q), who) /\ KnownQty(Blinded(q)) = 0
          /\ Blinded(q) = <<>> \/ HasUnseen(Blinded(q))
      BY <2>2, BlindedIs
    <3>2. SoundQueue(r, who, n) /\ (r = <<>> \/ HasUnseen(r))
      BY <2>1, <2>5, <3>1 DEF SoundQueue
    <3> QED BY <3>2 DEF q, r, who, n
  <2>6. CASE q # <<>> /\ v # Hidden
    <3>1. v = n /\ v \in Nat
      BY <2>3, <2>6 DEF n
    <3>2. /\ Reconciled(q, v) \in Seq(Nodes) /\ StandOnce(Reconciled(q, v), who)
          /\ HasUnseen(Reconciled(q, v)) <=> HasUnseen(q)
          /\ HasUnseen(q) => Reconciled(q, v) = q
          /\ ~ HasUnseen(q) => KnownQty(Reconciled(q, v)) <= v
      BY <2>2, <3>1, ReconciledIs
    <3>3. SoundQueue(r, who, n)
      BY <2>1, <2>2, <2>6, <3>1, <3>2 DEF SoundQueue
    <3>4. q = <<>> \/ HasUnseen(q) => r = <<>> \/ HasUnseen(r)
      BY <2>1, <2>6, <3>2
    <3> QED BY <3>3, <3>4 DEF q, r, who, n
  <2> QED BY <2>4, <2>5, <2>6
<1>2. ln = [s \in Sides |-> ln[s]] /\ \A s \in Sides : ln[s] = [p \in Prices |-> ln[s][p]]
  BY DEF Capped
<1>3. QueuesOk(ln, os, bn)
  BY <1>1, <1>2, QueuesAre
<1> QED BY <1>1, <1>3 DEF Lost

\* What stands where it did, among orders that rest where they did.
LEMMA SameStands ==
  ASSUME NEW lad, NEW os, NEW b, QueuesOk(lad, os, b), NEW osn,
         \A o \in Order, s \in Sides :
           /\ RestsOn(osn[o], s) <=> RestsOn(os[o], s)
           /\ RestsOn(os[o], s) => osn[o].price = os[o].price
  PROVE  QueuesOk(lad, osn, b)
<1>1. ASSUME NEW s \in Sides, NEW p \in Prices PROVE StandsAt(osn, s, p) = StandsAt(os, s, p)
  BY DEF StandsAt
<1> QED BY <1>1 DEF QueuesOk

-----------------------------------------------------------------------------
(***************************************************************************)
(* Orders leave their queues and join them                                 *)
(***************************************************************************)
\* The queues without some orders.
Withdrawn(lad, gone) ==
  [s \in Sides |-> WithoutVacant(
     [p \in Prices |-> Kept(lad[s][p], {k \in DOMAIN lad[s][p] : lad[s][p][k].who \notin gone})])]

\* Closing orders takes them, and no others, out of their queues.
LEMMA ClosedKeeps ==
  ASSUME NEW lad, NEW os, NEW b \in Books, QueuesOk(lad, os, b), NEW gone \in SUBSET Order, NEW osn, NEW ln,
         \A o \in Order, s \in Sides :
           /\ RestsOn(osn[o], s) <=> RestsOn(os[o], s) /\ o \notin gone
           /\ RestsOn(osn[o], s) => osn[o].price = os[o].price,
         ln = Withdrawn(lad, gone)
  PROVE  QueuesOk(ln, osn, b) /\ (Lost(lad) => Lost(ln))
<1>1. ASSUME NEW s \in Sides, NEW p \in Prices
      PROVE  /\ SoundQueue(ln[s][p], StandsAt(osn, s, p), b[s][p])
             /\ lad[s][p] = <<>> \/ HasUnseen(lad[s][p]) => ln[s][p] = <<>> \/ HasUnseen(ln[s][p])
  <2> DEFINE q == lad[s][p]
             ks == {k \in DOMAIN q : q[k].who \notin gone}
             kept == Kept(q, ks)
             r == ln[s][p]
             n == b[s][p]
             who == StandsAt(os, s, p)
  <2>1. r = IF HoldsOwn(kept) THEN kept ELSE <<>>
    BY DEF WithoutVacant, Withdrawn
  <2>2. q \in Seq(Nodes) /\ StandOnce(q, who) /\ SoundQueue(q, who, n)
    BY QueueIs DEF QueuesOk
  <2>3. n \in Nat
    BY VisibleIs
  <2>4. {q[k].who : k \in ks} \ {Nobody} = StandsAt(osn, s, p)
    <3>1. who = {q[k].who : k \in DOMAIN q} \ {Nobody}
      BY <2>2 DEF StandOnce
    <3>2. {q[k].who : k \in ks} \ {Nobody} = who \ gone
      BY <3>1
    <3>3. StandsAt(osn, s, p) = who \ gone
      BY DEF StandsAt
    <3> QED BY <3>2, <3>3
  <2>5. ks \in SUBSET DOMAIN q
    OBVIOUS
  <2>6. \A k \in DOMAIN q : q[k] = Unseen => k \in ks
    <3>1. Unseen.who = Nobody /\ Nobody \notin gone
      BY NodesAre DEF Unseen, Public
    <3> QED BY <3>1
  <2> HIDE DEF q, ks, r, n, who
  <2>7. SoundQueue(kept, StandsAt(osn, s, p), n)
    BY <2>2, <2>3, <2>4, <2>5, KeptSound
  <2>8. HasUnseen(q) => HasUnseen(kept)
    <3>1. HasUnseen(kept) <=> \E k \in ks : q[k] = Unseen
      BY <2>2, <2>5, KeptStand
    <3> QED BY <2>6, <3>1 DEF HasUnseen
  <2>9. q = <<>> => r = <<>>
    <3> SUFFICES ASSUME q = <<>> PROVE r = <<>>
      OBVIOUS
    <3>1. ks = {}
      BY <2>5
    <3>2. kept = <<>>
      BY <2>2, <2>5, <3>1, KeptStand
    <3> HIDE DEF kept
    <3> QED BY <2>1, <3>2
  <2> HIDE DEF kept
  <2>10. SoundQueue(r, StandsAt(osn, s, p), n)
    BY <2>1, <2>3, <2>7, VacantSound
  <2>11. q = <<>> \/ HasUnseen(q) => r = <<>> \/ HasUnseen(r)
    BY <2>1, <2>8, <2>9
  <2> QED BY <2>10, <2>11 DEF q, r, n
<1>2. ln = [s \in Sides |-> ln[s]] /\ \A s \in Sides : ln[s] = [p \in Prices |-> ln[s][p]]
  BY DEF WithoutVacant, Withdrawn
<1>3. QueuesOk(ln, osn, b)
  BY <1>1, <1>2, QueuesAre
<1> QED BY <1>1, <1>3 DEF Lost

\* An order that comes to rest joins the tail of the queue at its price, which is
\* reconciled with what is visible there first.
LEMMA JoinSound ==
  ASSUME NEW q, NEW who, NEW n \in Nat, SoundQueue(q, who, n), NEW o \in Order, o \notin who, NEW shown,
         shown = Hidden => n = 0, shown # Hidden => shown = n
  PROVE  SoundQueue(Append(IF shown = Hidden THEN Append(q, Unseen) ELSE Reconciled(q, shown), Own(o)),
                    who \cup {o}, n)
<1>1. /\ q \in Seq(Nodes) /\ StandOnce(q, who)
      /\ KnownQty(q) > 0 => ~ HasUnseen(q) /\ KnownQty(q) <= n
  BY DEF SoundQueue
<1>2. KnownQty(q) \in Nat
  BY <1>1, KnownTyped
<1>3. /\ Own(o) \in Nodes /\ ~ IsKnown(Own(o)) /\ Own(o) # Unseen /\ Own(o).who = o /\ o # Nobody
      /\ Unseen \in Nodes /\ ~ IsKnown(Unseen) /\ Unseen.who = Nobody
      /\ Nobody \notin Order
  BY NodesAre DEF Own, Unseen, Public
<1>4. who \subseteq Order
  <2>1. \A k \in DOMAIN q : q[k] \in Nodes
    BY <1>1, KnownTyped
  <2>2. \A x \in Nodes : x.who \in Order \cup {Nobody}
    BY DEF Nodes
  <2> QED BY <1>1, <2>1, <2>2 DEF StandOnce
<1> DEFINE r == IF shown = Hidden THEN Append(q, Unseen) ELSE Reconciled(q, shown)
<1>5. SoundQueue(r, who, n)
  <2>1. CASE shown = Hidden
    <3>1. n = 0 /\ KnownQty(q) = 0
      BY <1>1, <1>2, <2>1
    <3>2. Append(q, Unseen) \in Seq(Nodes) /\ KnownQty(Append(q, Unseen)) = KnownQty(q) + 0
      BY <1>1, <1>3, Appended
    <3>3. StandOnce(Append(q, Unseen), who \cup ({Unseen.who} \ {Nobody}))
      <4>1. Unseen.who \notin who
        BY <1>3, <1>4
      <4> QED BY <1>1, <1>3, <4>1, AppendStands
    <3>4. who \cup ({Unseen.who} \ {Nobody}) = who
      BY <1>3
    <3>5. KnownQty(Append(q, Unseen)) = 0
      BY <3>1, <3>2
    <3>6. SoundQueue(Append(q, Unseen), who, n)
      <4>1. StandOnce(Append(q, Unseen), who)
        BY <3>3, <3>4
      <4>2. ~ (KnownQty(Append(q, Unseen)) > 0)
        BY <3>5
      <4> QED BY <3>2, <4>1, <4>2 DEF SoundQueue
    <3> QED BY <2>1, <3>6
  <2>2. CASE shown # Hidden
    <3>1. shown \in Nat /\ shown = n
      BY <2>2
    <3>2. /\ Reconciled(q, shown) \in Seq(Nodes) /\ StandOnce(Reconciled(q, shown), who)
          /\ HasUnseen(Reconciled(q, shown)) <=> HasUnseen(q)
          /\ HasUnseen(q) => Reconciled(q, shown) = q
          /\ ~ HasUnseen(q) => KnownQty(Reconciled(q, shown)) <= shown
      BY <1>1, <3>1, ReconciledIs
    <3> QED BY <1>1, <1>2, <2>2, <3>1, <3>2 DEF SoundQueue
  <2> QED BY <2>1, <2>2
<1> HIDE DEF r
<1>6. /\ r \in Seq(Nodes) /\ StandOnce(r, who)
      /\ KnownQty(r) > 0 => ~ HasUnseen(r) /\ KnownQty(r) <= n
  BY <1>5 DEF SoundQueue
<1>7. KnownQty(r) \in Nat
  BY <1>6, KnownTyped
<1>8. /\ Append(r, Own(o)) \in Seq(Nodes)
      /\ KnownQty(Append(r, Own(o))) = KnownQty(r) + 0
      /\ HasUnseen(Append(r, Own(o))) <=> HasUnseen(r)
  BY <1>3, <1>6, Appended
<1>9. StandOnce(Append(r, Own(o)), who \cup ({Own(o).who} \ {Nobody}))
  BY <1>3, <1>6, AppendStands
<1>10. who \cup ({Own(o).who} \ {Nobody}) = who \cup {o}
  BY <1>3
<1>11. SoundQueue(Append(r, Own(o)), who \cup {o}, n)
  <2>1. KnownQty(Append(r, Own(o))) = KnownQty(r)
    BY <1>7, <1>8
  <2> QED BY <1>6, <1>8, <1>9, <1>10, <2>1 DEF SoundQueue
<1> QED BY <1>11 DEF r

\* The queues when an order joins one.
Joined(lad, b, side, price, o) ==
  [lad EXCEPT ![side][price] =
     Append(IF VisibleAt(b, side, price) = Hidden THEN Append(lad[side][price], Unseen)
            ELSE Reconciled(lad[side][price], VisibleAt(b, side, price)), Own(o))]

\* An order that joins the queue at its price, and no other.
LEMMA JoinKeeps ==
  ASSUME NEW lad, NEW os, NEW b \in Books, QueuesOk(lad, os, b), NEW o \in Order, NEW osn,
         NEW side \in Sides, NEW price \in Prices,
         \A s \in Sides : ~ RestsOn(os[o], s), \A s \in Sides : RestsOn(osn[o], s) <=> s = side,
         osn[o].price = price, \A x \in Order \ {o} : osn[x] = os[x],
         NEW ln, ln = Joined(lad, b, side, price, o)
  PROVE  QueuesOk(ln, osn, b)
<1> DEFINE shown == VisibleAt(b, side, price)
           q == lad[side][price]
           r == Append(IF shown = Hidden THEN Append(q, Unseen) ELSE Reconciled(q, shown), Own(o))
<1>1. lad \in [Sides -> [Prices -> Seq(Nodes)]]
  BY DEF QueuesOk
<1>2. /\ ln[side][price] = r
      /\ \A s \in Sides, p \in Prices : s # side \/ p # price => ln[s][p] = lad[s][p]
      /\ ln = [s \in Sides |-> ln[s]] /\ \A s \in Sides : ln[s] = [p \in Prices |-> ln[s][p]]
  BY <1>1 DEF Joined
<1>3. StandsAt(osn, side, price) = StandsAt(os, side, price) \cup {o}
  BY DEF StandsAt
<1>4. o \notin StandsAt(os, side, price)
  BY DEF StandsAt
<1>5. SoundQueue(q, StandsAt(os, side, price), b[side][price])
  BY DEF QueuesOk
<1>6. /\ b[side][price] \in Nat /\ (shown = Hidden => b[side][price] = 0)
      /\ (shown # Hidden => shown = b[side][price])
  BY VisibleIs
<1> HIDE DEF shown, q
<1>7. SoundQueue(r, StandsAt(os, side, price) \cup {o}, b[side][price])
  BY <1>4, <1>5, <1>6, JoinSound
<1> HIDE DEF r
<1>8. ASSUME NEW s \in Sides, NEW p \in Prices
      PROVE  SoundQueue(ln[s][p], StandsAt(osn, s, p), b[s][p])
  <2>1. CASE s = side /\ p = price
    BY <1>2, <1>3, <1>7, <2>1
  <2>2. CASE s # side \/ p # price
    <3>1. StandsAt(osn, s, p) = StandsAt(os, s, p)
      BY <2>2 DEF StandsAt
    <3>2. SoundQueue(lad[s][p], StandsAt(os, s, p), b[s][p])
      BY DEF QueuesOk
    <3>3. ln[s][p] = lad[s][p]
      BY <1>2, <2>2
    <3> QED BY <3>1, <3>2, <3>3
  <2> QED BY <2>1, <2>2
<1>9. \A s \in Sides : ln[s] \in [Prices -> Seq(Nodes)]
  BY <1>2, <1>8 DEF SoundQueue
<1>10. ln \in [Sides -> [Prices -> Seq(Nodes)]]
  BY <1>2, <1>9
<1> QED BY <1>8, <1>10 DEF QueuesOk

\* A queue in which some public nodes hold less, but who stands where does not change.
LEMMA LessSound ==
  ASSUME NEW q, NEW who, NEW n \in Nat, SoundQueue(q, who, n), NEW r, DOMAIN r = DOMAIN q,
         r \in Seq(Nodes), \A k \in DOMAIN q :
           /\ r[k].who = q[k].who /\ (r[k] = Unseen <=> q[k] = Unseen)
           /\ Values(r)[k] <= Values(q)[k]
  PROVE  SoundQueue(r, who, n)
<1>1. /\ q \in Seq(Nodes) /\ StandOnce(q, who)
      /\ KnownQty(q) > 0 => ~ HasUnseen(q) /\ KnownQty(q) <= n
  BY DEF SoundQueue
<1>2. /\ KnownQty(q) \in Nat /\ KnownQty(q) = SumFunctionOnSet(Values(q), DOMAIN q)
      /\ \A k \in DOMAIN q : Values(q)[k] \in Nat
      /\ IsFiniteSet(DOMAIN q)
  BY <1>1, KnownTyped
<1>3. /\ KnownQty(r) \in Nat /\ KnownQty(r) = SumFunctionOnSet(Values(r), DOMAIN q)
      /\ \A k \in DOMAIN q : Values(r)[k] \in Nat
  BY KnownTyped
<1>4. KnownQty(r) <= KnownQty(q)
  <2>1. \A k \in DOMAIN q : Values(r)[k] \in Int /\ Values(q)[k] \in Int /\ Values(r)[k] <= Values(q)[k]
    BY <1>2, <1>3
  <2> QED BY <1>2, <1>3, <2>1, SumGrows
<1>5. StandOnce(r, who)
  <2>1. {r[k].who : k \in DOMAIN r} = {q[k].who : k \in DOMAIN q}
    OBVIOUS
  <2>2. \A j, k \in DOMAIN r : IsOwn(r[k]) /\ r[j].who = r[k].who => j = k
    BY <1>1 DEF StandOnce, IsOwn
  <2> QED BY <1>1, <2>1, <2>2 DEF StandOnce
<1>6. HasUnseen(r) <=> HasUnseen(q)
  BY DEF HasUnseen
<1> QED BY <1>1, <1>2, <1>3, <1>4, <1>5, <1>6 DEF SoundQueue

-----------------------------------------------------------------------------
(***************************************************************************)
(* What a print takes of a queue                                           *)
(***************************************************************************)
Ladder == [Prices -> Seq(Nodes)]

\* The places of a side.
LEMMA SpotsAre ==
  ASSUME NEW l \in Ladder
  PROVE  /\ IsFiniteSet(Spots(l))
         /\ \A s \in Spots(l) : s = <<s[1], s[2]>> /\ s[1] \in Prices /\ s[2] \in DOMAIN l[s[1]]
         /\ \A p \in Prices : \A k \in DOMAIN l[p] : <<p, k>> \in Spots(l)
<1> DEFINE F == [p \in Prices |-> {p} \X DOMAIN l[p]]
           R == {{p} \X DOMAIN l[p] : p \in Prices}
<1>1. F \in Surjection(Prices, R)
  BY DEF Surjection
<1>2. IsFiniteSet(Prices)
  BY PricesAre
<1>3. IsFiniteSet(R)
  <2> HIDE DEF F, R
  <2> QED BY <1>1, <1>2, FS_Surjection
<1>4. ASSUME NEW T \in R PROVE IsFiniteSet(T)
  <2>1. PICK p \in Prices : T = {p} \X DOMAIN l[p]
    OBVIOUS
  <2>2. l[p] \in Seq(Nodes)
    BY DEF Ladder
  <2>3. IsFiniteSet(DOMAIN l[p])
    BY <2>2, KnownTyped
  <2>4. IsFiniteSet({p})
    BY FS_Singleton
  <2> QED BY <2>1, <2>3, <2>4, FS_Product
<1>5. Spots(l) = UNION R
  BY DEF Spots
<1> HIDE DEF R
<1>6. IsFiniteSet(Spots(l))
  BY <1>3, <1>4, <1>5, FS_UNION
<1>7. \A s \in Spots(l) : s = <<s[1], s[2]>> /\ s[1] \in Prices /\ s[2] \in DOMAIN l[s[1]]
  BY DEF Spots
<1>8. \A p \in Prices : \A k \in DOMAIN l[p] : <<p, k>> \in Spots(l)
  BY DEF Spots
<1> QED BY <1>6, <1>7, <1>8

\* The places a print reaches: an own order, or liquidity that is known.
LEMMA ReachIs ==
  ASSUME NEW l \in Ladder, NEW side, NEW price \in Prices, NEW s \in Reach(l, side, price)
  PROVE  /\ s \in Spots(l) /\ s = <<s[1], s[2]>> /\ s[1] \in Prices /\ s[2] \in DOMAIN l[s[1]]
         /\ l[s[1]] \in Seq(Nodes) /\ l[s[1]][s[2]] \in Nodes
         /\ ~ IsOwn(l[s[1]][s[2]]) => IsKnown(l[s[1]][s[2]]) /\ l[s[1]][s[2]].qty \in Nat
         /\ IsOwn(l[s[1]][s[2]]) => l[s[1]][s[2]].who \in Order
<1>1. s \in Spots(l)
  BY DEF Reach
<1>2. s = <<s[1], s[2]>> /\ s[1] \in Prices /\ s[2] \in DOMAIN l[s[1]]
  BY <1>1, SpotsAre
<1> DEFINE q == l[s[1]]
           n == q[s[2]]
<1>3. q \in Seq(Nodes)
  BY <1>2 DEF Ladder
<1>4. DOMAIN q = 1 .. Len(q) /\ Len(q) \in Nat /\ n \in Nodes
  BY <1>2, <1>3, KnownTyped
<1>5. ~ IsOwn(n) => n # Unseen
  <2>1. \/ Better(side, s[1], price) /\ IsOwn(n)
        \/ s[1] = price /\ \A j \in 1 .. s[2] : l[price][j] # Unseen
    BY DEF Reach
  <2>2. s[2] \in 1 .. s[2]
    BY <1>2, <1>4
  <2> QED BY <2>1, <2>2
<1>6. /\ IsKnown(n) => n.qty \in Nat
      /\ IsOwn(n) => n.who \in Order
      /\ n.who = Nobody => IsKnown(n) \/ n = Unseen
  BY <1>4, NodesAre
<1>7. ~ IsOwn(n) => n.who = Nobody
  BY DEF IsOwn
<1> QED BY <1>1, <1>2, <1>3, <1>4, <1>5, <1>6, <1>7

\* A side whose queues hold the orders that rest there.
Stands(l, side) == l \in Ladder /\ \A p \in Prices : StandOnce(l[p], StandsAt(orders, side, p))

\* What a print takes of each place: no more than stands there.
LEMMA TakenIs ==
  ASSUME OrdersOk(orders), NEW side, NEW l, Stands(l, side), NEW print \in Prints
  PROVE  /\ DOMAIN Taken(l, side, print) = Reach(l, side, print.price) /\ print.price \in Prices
         /\ \A s \in Reach(l, side, print.price) :
              /\ Taken(l, side, print)[s] \in Nat
              /\ ~ IsOwn(l[s[1]][s[2]]) => Taken(l, side, print)[s] <= l[s[1]][s[2]].qty
              /\ IsOwn(l[s[1]][s[2]]) =>
                   /\ RestsOn(orders[l[s[1]][s[2]].who], side)
                   /\ Taken(l, side, print)[s] <= Open(l[s[1]][s[2]].who)
<1> DEFINE reach    == Reach(l, side, print.price)
           node(s)  == l[s[1]][s[2]]
           need     == [s \in reach |-> IF IsOwn(node(s)) THEN Open(node(s).who) ELSE node(s).qty]
           first(s) == {t \in reach : Better(side, t[1], s[1]) \/ (t[1] = s[1] /\ t[2] < s[2])}
           taken    == Taken(l, side, print)
<1>1. print \in [side : {"Buy", "Sell"}, price : Nat, qty : Nat] /\ print.price \in Prices
  BY VenueAssumption DEF Prices
<1>2. print.qty \in Nat
  BY <1>1
<1>3. l \in Ladder
  BY DEF Stands
<1>4. taken = [s \in reach |-> Lesser(need[s], Greater(0, print.qty - SumFunctionOnSet(need, first(s))))]
  BY DEF Taken
<1>5. ASSUME NEW s \in reach, IsOwn(node(s))
      PROVE  node(s).who \in Order /\ RestsOn(orders[node(s).who], side) /\ Open(node(s).who) \in Nat
  <2>1. /\ s[1] \in Prices /\ s[2] \in DOMAIN l[s[1]] /\ node(s).who \in Order
    BY <1>1, <1>3, <1>5, ReachIs
  <2>2. node(s).who \in StandsAt(orders, side, s[1])
    <3>1. node(s).who # Nobody
      BY <2>1, NodesAre
    <3>2. StandOnce(l[s[1]], StandsAt(orders, side, s[1]))
      BY <2>1 DEF Stands
    <3> QED BY <2>1, <3>1, <3>2 DEF StandOnce
  <2> DEFINE o == node(s).who
  <2>3. o \in Order /\ RestsOn(orders[o], side)
    BY <2>2 DEF StandsAt
  <2> HIDE DEF o
  <2>4. orders[o].phase # "unborn"
    BY <2>3 DEF RestsOn
  <2>5. RowOk(orders[o])
    BY <2>3, <2>4, RowOr
  <2>6. orders[o].qty \in Nat /\ orders[o].filled \in Nat /\ orders[o].filled <= orders[o].qty
    BY <2>5, RowIs
  <2>7. Open(o) \in Nat
    BY <2>6 DEF Open
  <2> QED BY <2>3, <2>7 DEF o
<1>6. ASSUME NEW s \in reach PROVE need[s] \in Nat
  <2>1. CASE IsOwn(node(s))
    BY <1>5, <2>1
  <2>2. CASE ~ IsOwn(node(s))
    <3>1. node(s).qty \in Nat
      BY <1>1, <1>3, <2>2, ReachIs
    <3> QED BY <2>2, <3>1
  <2> QED BY <2>1, <2>2
<1>7. \A s \in reach : need[s] = IF IsOwn(node(s)) THEN Open(node(s).who) ELSE node(s).qty
  OBVIOUS
<1>8. IsFiniteSet(reach)
  <2>1. IsFiniteSet(Spots(l))
    BY <1>3, SpotsAre
  <2>2. reach \subseteq Spots(l)
    BY DEF Reach
  <2> HIDE DEF reach
  <2> QED BY <2>1, <2>2, FS_Subset
<1> HIDE DEF need
<1>9. ASSUME NEW s \in reach PROVE taken[s] \in Nat /\ taken[s] <= need[s]
  <2>1. first(s) \subseteq reach
    OBVIOUS
  <2> HIDE DEF reach, first
  <2>2. SumFunctionOnSet(need, first(s)) \in Nat
    BY <1>6, <1>8, <2>1, SumPart
  <2> DEFINE m == SumFunctionOnSet(need, first(s))
  <2>3. taken[s] = Lesser(need[s], Greater(0, print.qty - m))
    BY <1>4, <1>9
  <2> HIDE DEF m, taken
  <2>4. m \in Nat
    BY <2>2 DEF m
  <2> QED BY <1>2, <1>6, <1>9, <2>3, <2>4 DEF Lesser, Greater
<1>10. DOMAIN taken = reach
  BY <1>4
<1> HIDE DEF taken
<1>11. ASSUME NEW s \in reach
       PROVE  /\ taken[s] \in Nat
              /\ ~ IsOwn(node(s)) => taken[s] <= node(s).qty
              /\ IsOwn(node(s)) => RestsOn(orders[node(s).who], side) /\ taken[s] <= Open(node(s).who)
  BY <1>5, <1>7, <1>9
<1> QED BY <1>1, <1>10, <1>11 DEF taken

\* An order stands at one place at most.
LEMMA OnePlace ==
  ASSUME NEW side, NEW l, Stands(l, side), NEW price \in Prices, NEW o \in Order,
         NEW s \in Reach(l, side, price), l[s[1]][s[2]].who = o,
         NEW t \in Reach(l, side, price), l[t[1]][t[2]].who = o
  PROVE  s = t /\ o \in StandsAt(orders, side, s[1])
<1>1. l \in Ladder /\ o # Nobody
  BY NodesAre DEF Stands
<1>2. s = <<s[1], s[2]>> /\ s[1] \in Prices /\ s[2] \in DOMAIN l[s[1]]
  BY <1>1, ReachIs
<1>3. t = <<t[1], t[2]>> /\ t[1] \in Prices /\ t[2] \in DOMAIN l[t[1]]
  BY <1>1, ReachIs
<1>4. /\ StandOnce(l[s[1]], StandsAt(orders, side, s[1]))
      /\ StandOnce(l[t[1]], StandsAt(orders, side, t[1]))
  BY <1>2, <1>3 DEF Stands
<1>5. o \in StandsAt(orders, side, s[1]) /\ o \in StandsAt(orders, side, t[1])
  BY <1>1, <1>2, <1>3, <1>4 DEF StandOnce
<1>6. s[1] = t[1]
  BY <1>5 DEF StandsAt
<1>7. s[2] = t[2]
  <2>1. IsOwn(l[s[1]][s[2]]) /\ l[s[1]][t[2]].who = l[s[1]][s[2]].who /\ t[2] \in DOMAIN l[s[1]]
    BY <1>1, <1>3, <1>6 DEF IsOwn
  <2> QED BY <1>2, <1>4, <2>1 DEF StandOnce
<1> QED BY <1>2, <1>3, <1>5, <1>6, <1>7

\* What an order gets of a print is what is taken where it stands.
LEMMA GotIs ==
  ASSUME OrdersOk(orders), NEW side \in Sides, NEW l, Stands(l, side), NEW print \in Prints, NEW o \in Order
  PROVE  /\ \A s \in Reach(l, side, print.price) :
              l[s[1]][s[2]].who = o => /\ Got(l, Taken(l, side, print))[o] = Taken(l, side, print)[s]
                                       /\ Taken(l, side, print)[s] \in Nat
                                       /\ RestsOn(orders[o], side) /\ Taken(l, side, print)[s] <= Open(o)
         /\ (\A s \in Reach(l, side, print.price) : l[s[1]][s[2]].who # o) =>
              Got(l, Taken(l, side, print))[o] = 0
<1> DEFINE taken == Taken(l, side, print)
           reach == Reach(l, side, print.price)
           node(s) == l[s[1]][s[2]]
           got   == Got(l, taken)
           at    == {s \in reach : node(s).who = o}
<1>1. DOMAIN taken = reach /\ print.price \in Prices
  BY TakenIs
<1>2. got[o] = SumFunctionOnSet(taken, at)
  BY <1>1 DEF Got
<1>3. ASSUME \A s \in reach : node(s).who # o PROVE got[o] = 0
  <2>1. at = {}
    BY <1>3
  <2> QED BY <1>2, <2>1, SumEmpty
<1>4. ASSUME NEW s \in reach, node(s).who = o
      PROVE  got[o] = taken[s] /\ taken[s] \in Nat /\ RestsOn(orders[o], side) /\ taken[s] <= Open(o)
  <2>1. at = {s}
    BY <1>1, <1>4, OnePlace
  <2>2. IsOwn(node(s))
    BY <1>4, NodesAre DEF IsOwn
  <2>3. taken[s] \in Nat /\ RestsOn(orders[o], side) /\ taken[s] <= Open(o)
    <3> HIDE DEF reach, taken
    <3>1. /\ taken[s] \in Nat
          /\ IsOwn(node(s)) => RestsOn(orders[node(s).who], side) /\ taken[s] <= Open(node(s).who)
      BY TakenIs DEF reach, taken
    <3> QED BY <1>4, <2>2, <3>1
  <2>4. got[o] = taken[s]
    <3> HIDE DEF at, taken, got
    <3>1. taken[s] \in Int
      BY <2>3
    <3>2. SumFunctionOnSet(taken, {s}) = taken[s]
      BY <3>1, SumOne
    <3> QED BY <1>2, <2>1, <3>2
  <2> QED BY <2>3, <2>4
<1> QED BY <1>3, <1>4

\* What each order gets fits it.
LEMMA GotFits ==
  ASSUME OrdersOk(orders), NEW side \in Sides, NEW l, Stands(l, side), NEW print \in Prints
  PROVE  Fits(orders, Got(l, Taken(l, side, print)), side)
<1> DEFINE taken == Taken(l, side, print)
           reach == Reach(l, side, print.price)
           node(s) == l[s[1]][s[2]]
           got   == Got(l, taken)
<1>1. ASSUME NEW o \in Order
      PROVE  /\ got[o] \in Nat
             /\ got[o] > 0 => RestsOn(orders[o], side) /\ got[o] <= orders[o].qty - orders[o].filled
  <2>1. CASE \A s \in reach : node(s).who # o
    <3>1. got[o] = 0
      BY <2>1, GotIs
    <3> HIDE DEF got
    <3> QED BY <3>1
  <2>2. CASE \E s \in reach : node(s).who = o
    <3>1. PICK s \in reach : node(s).who = o
      BY <2>2
    <3>2. got[o] = taken[s] /\ taken[s] \in Nat /\ RestsOn(orders[o], side) /\ taken[s] <= Open(o)
      BY <3>1, GotIs
    <3> HIDE DEF got, taken
    <3> QED BY <3>2 DEF Open
  <2> QED BY <2>1, <2>2
<1>2. got = [o \in Order |-> got[o]]
  BY DEF Got
<1> HIDE DEF got
<1>3. got \in [Order -> Nat]
  BY <1>1, <1>2
<1> QED BY <1>1, <1>3 DEF Fits, got

\* A queue after a print has taken what it reached of the public liquidity, and what of
\* it stays.
Thinner(l, taken, p) ==
  [k \in DOMAIN l[p] |-> IF <<p, k>> \in DOMAIN taken /\ IsKnown(l[p][k])
                        THEN Public(l[p][k].qty - taken[<<p, k>>]) ELSE l[p][k]]
Staying(l, taken, p) ==
  {k \in DOMAIN l[p] : /\ Thinner(l, taken, p)[k] # Public(0)
                       /\ Thinner(l, taken, p)[k].who \notin Whole(Got(l, taken))}

\* It has the same nodes, with no more in each.
LEMMA ThinnerIs ==
  ASSUME OrdersOk(orders), NEW side \in Sides, NEW l, Stands(l, side), NEW print \in Prints,
         NEW p \in Prices, NEW left, left = Thinner(l, Taken(l, side, print), p)
  PROVE  /\ DOMAIN left = DOMAIN l[p] /\ left \in Seq(Nodes)
         /\ \A k \in DOMAIN l[p] : /\ left[k].who = l[p][k].who /\ (left[k] = Unseen <=> l[p][k] = Unseen)
                                  /\ Values(left)[k] <= Values(l[p])[k]
<1> DEFINE taken == Taken(l, side, print)
           reach == Reach(l, side, print.price)
           q     == l[p]
<1>1. left = [k \in DOMAIN q |->
                IF <<p, k>> \in DOMAIN taken /\ IsKnown(q[k])
                THEN Public(q[k].qty - taken[<<p, k>>]) ELSE q[k]]
  BY DEF Thinner
<1>2. q \in Seq(Nodes) /\ l \in Ladder
  BY DEF Stands, Ladder
<1>3. DOMAIN q = 1 .. Len(q) /\ Len(q) \in Nat /\ \A k \in DOMAIN q : q[k] \in Nodes
  BY <1>2, KnownTyped
<1>4. DOMAIN taken = reach /\ print.price \in Prices
  BY TakenIs
<1>5. ASSUME NEW k \in DOMAIN q, <<p, k>> \in reach, IsKnown(q[k])
      PROVE  taken[<<p, k>>] \in Nat /\ taken[<<p, k>>] <= q[k].qty /\ q[k].qty \in Nat
  <2> DEFINE s == <<p, k>>
  <2>1. s[1] = p /\ s[2] = k
    OBVIOUS
  <2>2. ~ IsOwn(q[k])
    BY <1>5 DEF IsOwn, IsKnown
  <2>3. q[k].qty \in Nat
    BY <1>3, <1>5, NodesAre
  <2> HIDE DEF s, taken
  <2>4. /\ taken[s] \in Nat
        /\ ~ IsOwn(l[s[1]][s[2]]) => taken[s] <= l[s[1]][s[2]].qty
    BY <1>5, TakenIs DEF s, taken
  <2> QED BY <2>1, <2>2, <2>3, <2>4 DEF s
<1>6. ASSUME NEW k \in DOMAIN q
      PROVE  /\ left[k] \in Nodes /\ left[k].who = q[k].who /\ (left[k] = Unseen <=> q[k] = Unseen)
             /\ (IF IsKnown(left[k]) THEN left[k].qty ELSE 0) <= (IF IsKnown(q[k]) THEN q[k].qty ELSE 0)
  <2>1. CASE <<p, k>> \in reach /\ IsKnown(q[k])
    <3> DEFINE m == q[k].qty - taken[<<p, k>>]
    <3>1. left[k] = Public(m)
      BY <1>1, <1>4, <2>1
    <3>2. m \in Nat /\ m <= q[k].qty
      <4> HIDE DEF taken, reach
      <4> QED BY <1>5, <2>1
    <3> HIDE DEF m
    <3>3. /\ Public(m) \in Nodes /\ IsKnown(Public(m)) /\ Public(m) # Unseen
          /\ Public(m).who = Nobody /\ Public(m).qty = m
      BY <3>2, NodesAre DEF Public
    <3>4. q[k].who = Nobody /\ q[k] # Unseen
      BY <2>1, NodesAre DEF IsKnown
    <3> QED BY <2>1, <3>1, <3>2, <3>3, <3>4
  <2>2. CASE ~ (<<p, k>> \in reach /\ IsKnown(q[k]))
    <3>1. left[k] = q[k]
      BY <1>1, <1>4, <2>2
    <3>2. IsKnown(q[k]) => q[k].qty \in Nat
      BY <1>3, NodesAre
    <3> QED BY <1>3, <3>1, <3>2
  <2> QED BY <2>1, <2>2
<1>7. DOMAIN left = DOMAIN q
  BY <1>1
<1>8. left \in Seq(Nodes)
  <2>1. left \in [1 .. Len(q) -> Nodes]
    <3>1. left = [k \in DOMAIN q |-> left[k]]
      BY <1>1
    <3> QED BY <1>3, <1>6, <3>1
  <2> QED BY <1>3, <2>1
<1>9. \A k \in DOMAIN q : Values(left)[k] <= Values(q)[k]
  <2> TAKE k \in DOMAIN q
  <2>1. Values(left)[k] = (IF IsKnown(left[k]) THEN left[k].qty ELSE 0)
    BY <1>7 DEF Values
  <2>2. Values(q)[k] = (IF IsKnown(q[k]) THEN q[k].qty ELSE 0)
    BY DEF Values
  <2> QED BY <1>6, <2>1, <2>2
<1> QED BY <1>6, <1>7, <1>8, <1>9

\* What a print leaves of one queue: the orders it did not fill whole, among no more
\* public liquidity than before.
LEMMA WalkedSound ==
  ASSUME OrdersOk(orders), NEW side \in Sides, NEW l, Stands(l, side), NEW print \in Prints,
         NEW p \in Prices, NEW n \in Nat, SoundQueue(l[p], StandsAt(orders, side, p), n)
  PROVE  SoundQueue(Walked(l, Taken(l, side, print), p),
                    StandsAt(orders, side, p) \ Whole(Got(l, Taken(l, side, print))), n)
<1> DEFINE taken == Taken(l, side, print)
           whole == Whole(Got(l, taken))
           q     == l[p]
           who   == StandsAt(orders, side, p)
           left  == Thinner(l, taken, p)
           ks    == Staying(l, taken, p)
<1>1. /\ DOMAIN left = DOMAIN q /\ left \in Seq(Nodes)
      /\ \A k \in DOMAIN q : /\ left[k].who = q[k].who /\ (left[k] = Unseen <=> q[k] = Unseen)
                            /\ Values(left)[k] <= Values(q)[k]
  BY ThinnerIs
<1>2. Walked(l, taken, p) = Kept(left, ks)
  BY <1>1 DEF Walked, Staying, Thinner
<1>3. ks = {k \in DOMAIN left : left[k] # Public(0) /\ left[k].who \notin whole}
  BY <1>1 DEF Staying
<1> HIDE DEF left, taken, whole, q, who, ks
<1>4. SoundQueue(left, who, n)
  <2>1. SoundQueue(q, who, n)
    BY DEF q, who
  <2> QED BY <1>1, <2>1, LessSound
<1>5. ks \in SUBSET DOMAIN left
  BY <1>3
<1>6. {left[k].who : k \in ks} \ {Nobody} = who \ whole
  <2>1. who = {left[k].who : k \in DOMAIN left} \ {Nobody}
    BY <1>4 DEF SoundQueue, StandOnce
  <2>2. Public(0).who = Nobody
    BY DEF Public
  <2>3. \A k \in DOMAIN left : left[k].who # Nobody => (k \in ks <=> left[k].who \notin whole)
    BY <1>3, <2>2
  <2>4. \A x : x \in {left[k].who : k \in ks} \ {Nobody} <=> x \in who \ whole
    <3> TAKE x
    <3>1. ASSUME x \in {left[k].who : k \in ks} \ {Nobody} PROVE x \in who \ whole
      <4>1. PICK k \in ks : x = left[k].who
        BY <3>1
      <4> QED BY <1>5, <2>1, <2>3, <3>1, <4>1
    <3>2. ASSUME x \in who \ whole PROVE x \in {left[k].who : k \in ks} \ {Nobody}
      <4>1. PICK k \in DOMAIN left : x = left[k].who
        BY <2>1, <3>2
      <4> QED BY <2>1, <2>3, <3>2, <4>1
    <3> QED BY <3>1, <3>2
  <2> QED BY <2>4
<1>7. SoundQueue(Kept(left, ks), who \ whole, n)
  <2>1. SoundQueue(Kept(left, ks), {left[k].who : k \in ks} \ {Nobody}, n)
    BY <1>4, <1>5, KeptSound
  <2> QED BY <1>6, <2>1
<1> QED BY <1>2, <1>7 DEF taken, whole, who, q

\* What a print does: to the orders it fills, and to the side it meets.
LEMMA MatchIs ==
  ASSUME OrdersTyped, OrdersOk(orders), QueuesOk(ladders, orders, book),
         WalletOk(orders, funds, fees), NEW print \in Prints, Match(print),
         NEW side, side = Opposite(print.side), NEW l, l = ladders[side],
         NEW got, got = Got(l, Taken(l, side, print))
  PROVE  /\ side \in Sides /\ Stands(l, side) /\ Fits(orders, got, side)
         /\ ladders \in [Sides -> [Prices -> Seq(Nodes)]]
         /\ ladders' = [ladders EXCEPT ![side] =
                          WithoutVacant([p \in Prices |-> Walked(l, Taken(l, side, print), p)])]
         /\ OrdersOk(orders') /\ OrdersTyped' /\ WalletOk(orders', funds', fees')
         /\ \A o \in Order : orders'[o] = IF o \in Hits(got) THEN FilledBy(orders[o], got[o]) ELSE orders[o]
         /\ \A o \in Order, s \in Sides : RestsOn(orders'[o], s) <=> RestsOn(orders[o], s) /\ o \notin Whole(got)
         /\ \A o \in Order, s \in Sides : RestsOn(orders'[o], s) => orders'[o].price = orders[o].price
         /\ \A o \in Order : o \in Whole(got) => RestsOn(orders[o], side)
<1> DEFINE taken == Taken(l, side, print)
<1>1. side \in Sides
  BY DEF Opposite, Sides
<1>2. /\ Settle(side, got)
      /\ ladders' = [ladders EXCEPT ![side] = WithoutVacant([p \in Prices |-> Walked(l, taken, p)])]
  BY DEF Match
<1>3. ladders \in [Sides -> [Prices -> Seq(Nodes)]]
  BY DEF QueuesOk
<1>4. Stands(l, side)
  <2>1. l \in Ladder
    BY <1>1, <1>3 DEF Ladder
  <2>2. \A p \in Prices : StandOnce(l[p], StandsAt(orders, side, p))
    BY <1>1, QueueIs
  <2> QED BY <2>1, <2>2 DEF Stands
<1>5. Fits(orders, got, side)
  BY <1>1, <1>4, GotFits
<1> HIDE DEF taken
<1>6. /\ OrdersOk(orders') /\ WalletOk(orders', funds', fees')
      /\ \A o \in Order :
           orders'[o] = IF o \in Hits(got) THEN FilledBy(orders[o], got[o]) ELSE orders[o]
  BY <1>1, <1>2, <1>5, SettleBalances
<1>7. OrdersTyped'
  <2>1. orders' = [o \in Order |-> orders'[o]]
    BY <1>2 DEF Settle
  <2>2. \A o \in Order : orders'[o] \in Terms \cup {[phase |-> "unborn"]}
    BY <1>6 DEF OrdersOk, RowOk
  <2> QED BY <2>1, <2>2 DEF OrdersTyped
<1>8. ASSUME NEW o \in Order
      PROVE  /\ \A s \in Sides : RestsOn(orders'[o], s) <=>
                  RestsOn(orders[o], s) /\ o \notin Whole(got)
             /\ \A s \in Sides : RestsOn(orders'[o], s) => orders'[o].price = orders[o].price
             /\ o \in Whole(got) => RestsOn(orders[o], side)
  <2>1. CASE o \in Hits(got)
    <3>1. /\ RowOk(orders[o]) /\ orders[o].phase = "resting" /\ orders[o].side = side
          /\ got[o] \in Nat /\ got[o] > 0 /\ got[o] <= orders[o].qty - orders[o].filled
      BY <1>1, <1>5, <2>1, HitIs
    <3>2. orders'[o] = FilledBy(orders[o], got[o])
      BY <1>6, <2>1
    <3>3. /\ orders'[o].side = orders[o].side /\ orders'[o].price = orders[o].price
          /\ orders'[o].phase = IF got[o] = orders[o].qty - orders[o].filled THEN "closed" ELSE "resting"
      BY <1>1, <3>1, <3>2, FilledIs
    <3>4. o \in Whole(got) <=> got[o] = orders[o].qty - orders[o].filled
      BY <3>1 DEF Whole, Open
    <3> QED BY <3>1, <3>3, <3>4 DEF RestsOn
  <2>2. CASE o \notin Hits(got)
    <3>1. orders'[o] = orders[o] /\ o \notin Whole(got)
      BY <1>6, <2>2 DEF Hits, Whole
    <3> QED BY <3>1
  <2> QED BY <2>1, <2>2
<1>9. /\ ladders' = [ladders EXCEPT ![side] = WithoutVacant([p \in Prices |-> Walked(l, Taken(l, side, print), p)])]
  BY <1>2 DEF taken
<1> QED BY <1>1, <1>3, <1>4, <1>5, <1>6, <1>7, <1>8, <1>9

\* A print keeps every queue sound.
LEMMA MatchKeeps ==
  ASSUME OrdersTyped, OrdersOk(orders), book \in Books, QueuesOk(ladders, orders, book),
         WalletOk(orders, funds, fees), NEW print \in Prints, Match(print)
  PROVE  /\ OrdersOk(orders') /\ OrdersTyped' /\ WalletOk(orders', funds', fees')
         /\ QueuesOk(ladders', orders', book)
         /\ \A o \in Order, s \in Sides : RestsOn(orders'[o], s) =>
              RestsOn(orders[o], s) /\ orders'[o].price = orders[o].price
<1> DEFINE side  == Opposite(print.side)
           l     == ladders[side]
           taken == Taken(l, side, print)
           got   == Got(l, taken)
<1>1. side \in Sides /\ Stands(l, side) /\ ladders \in [Sides -> [Prices -> Seq(Nodes)]]
  BY MatchIs
<1>2. ladders' = [ladders EXCEPT ![side] = WithoutVacant([p \in Prices |-> Walked(l, taken, p)])]
  BY MatchIs
<1>3. /\ OrdersOk(orders') /\ OrdersTyped' /\ WalletOk(orders', funds', fees')
  BY MatchIs
<1>4. \A o \in Order, s \in Sides :
        /\ RestsOn(orders'[o], s) <=> RestsOn(orders[o], s) /\ o \notin Whole(got)
        /\ RestsOn(orders'[o], s) => orders'[o].price = orders[o].price
        /\ o \in Whole(got) => RestsOn(orders[o], side)
  BY MatchIs
<1> HIDE DEF side, l, taken, got
<1>5. ASSUME NEW s \in Sides, NEW p \in Prices
      PROVE  SoundQueue(ladders'[s][p], StandsAt(orders', s, p), book[s][p])
  <2>1. SoundQueue(ladders[s][p], StandsAt(orders, s, p), book[s][p])
    BY DEF QueuesOk
  <2>2. book[s][p] \in Nat
    BY VisibleIs
  <2>3. CASE s = side
    <3>1. ladders'[s][p] = IF HoldsOwn(Walked(l, taken, p)) THEN Walked(l, taken, p) ELSE <<>>
      BY <1>1, <1>2, <2>3 DEF WithoutVacant
    <3>2. SoundQueue(Walked(l, taken, p), StandsAt(orders, side, p) \ Whole(got), book[s][p])
      <4>1. SoundQueue(l[p], StandsAt(orders, side, p), book[s][p])
        BY <2>1, <2>3 DEF l
      <4> QED BY <1>1, <2>2, <4>1, WalkedSound DEF got, taken
    <3>3. StandsAt(orders', s, p) = StandsAt(orders, side, p) \ Whole(got)
      BY <1>4, <2>3 DEF StandsAt
    <3> DEFINE w == Walked(l, taken, p)
               who == StandsAt(orders, side, p) \ Whole(got)
               n == book[s][p]
    <3> HIDE DEF w, who, n
    <3>4. SoundQueue(IF HoldsOwn(w) THEN w ELSE <<>>, who, n)
      <4>1. SoundQueue(w, who, n) /\ n \in Nat
        BY <2>2, <3>2 DEF w, who, n
      <4> QED BY <4>1, VacantSound
    <3> QED BY <3>1, <3>3, <3>4 DEF w, who, n
  <2>4. CASE s # side
    <3>1. ladders'[s] = ladders[s]
      BY <1>1, <1>2, <2>4
    <3>2. StandsAt(orders', s, p) = StandsAt(orders, s, p)
      BY <1>4, <2>4 DEF StandsAt, RestsOn
    <3> QED BY <2>1, <3>1, <3>2
  <2> QED BY <2>3, <2>4
<1>6. /\ ladders' = [s \in Sides |-> ladders'[s]]
       /\ \A s \in Sides : ladders'[s] = [p \in Prices |-> ladders'[s][p]]
  <2>1. DOMAIN ladders' = Sides /\ ladders' = [s \in Sides |-> ladders'[s]]
    BY <1>1, <1>2
  <2>2. ASSUME NEW s \in Sides PROVE ladders'[s] = [p \in Prices |-> ladders'[s][p]]
    <3>1. CASE s = side
      <4>1. ladders'[s] = WithoutVacant([p \in Prices |-> Walked(l, taken, p)])
        BY <1>1, <1>2, <3>1
      <4> QED BY <4>1 DEF WithoutVacant
    <3>2. CASE s # side
      BY <1>1, <1>2, <3>2
    <3> QED BY <3>1, <3>2
  <2> QED BY <2>1, <2>2
<1>7. QueuesOk(ladders', orders', book)
  BY <1>5, <1>6, QueuesAre
<1> QED BY <1>3, <1>4, <1>7

-----------------------------------------------------------------------------
(***************************************************************************)
(* The inductive invariant                                                 *)
(***************************************************************************)
Requests == [kind : {"Activate", "Cancel", "Amend"}, order : Order, qty : Nat]

\* The market the venue rebuilds: matching is live, and the recovery complete, only
\* over a book that is whole.
MarketInv ==
  /\ book \in Books /\ isValid \in BOOLEAN /\ isLive \in BOOLEAN /\ staged \in Seq(Updates)
  /\ recovery \in [isComplete : BOOLEAN, isBridged : BOOLEAN]
  /\ isLive => isValid
  /\ recovery.isComplete => isValid

\* The own orders do not cross.
NoCross(os) ==
  \A b, a \in Order : RestsOn(os[b], "Buy") /\ RestsOn(os[a], "Sell") => os[b].price < os[a].price

\* The queues are sound; while the book is not whole nothing public is known in them.
QueueInv ==
  /\ QueuesOk(ladders, orders, book)
  /\ ~ isValid => Lost(ladders)
  /\ NoCross(orders)

VenueInv == WalletInv /\ MarketInv /\ QueueInv /\ timeline \in Seq(Requests)

\* A suspension blinds the queues, so any book may follow.
LEMMA SuspendHolds ==
  ASSUME MarketInv, QueueInv, NEW isComplete \in BOOLEAN, Suspend(isComplete), book' \in Books,
         orders' = orders, isValid' \in BOOLEAN, staged' \in Seq(Updates), isComplete => isValid'
  PROVE  MarketInv' /\ QueueInv'
<1>1. /\ isLive' = FALSE /\ recovery' = [isComplete |-> isComplete, isBridged |-> FALSE]
      /\ ladders' = [s \in Sides |-> [p \in Prices |-> Blinded(ladders[s][p])]]
  BY DEF Suspend
<1>2. QueuesOk(ladders', orders, book') /\ Lost(ladders')
  <2>1. QueuesOk(ladders, orders, book)
    BY DEF QueueInv
  <2> QED BY <1>1, <2>1, SuspendKeeps
<1>3. QueuesOk(ladders', orders', book') /\ NoCross(orders')
  BY <1>2 DEF QueueInv
<1>4. QueueInv'
  BY <1>2, <1>3 DEF QueueInv
<1>5. recovery' \in [isComplete : BOOLEAN, isBridged : BOOLEAN] /\ recovery'.isComplete = isComplete
  BY <1>1
<1>6. MarketInv'
  BY <1>1, <1>5 DEF MarketInv
<1> QED BY <1>4, <1>6

\* The empty book is a book.
LEMMA NoBookTyped == NoBook \in Books
  BY DEF NoBook, Books

\* A chunk of a snapshot suspends matching if the book was whole; if not, nothing public
\* is known in the queues, and any book will do.
LEMMA SnapshotHolds ==
  ASSUME MarketInv, QueueInv, NEW u \in Updates, NEW isLast \in BOOLEAN, SnapshotChunk(u, isLast)
  PROVE  MarketInv' /\ QueueInv'
<1>1. /\ book' = WithLevel(IF isValid THEN NoBook ELSE book, u) /\ isValid' = isLast
      /\ orders' = orders
  BY DEF SnapshotChunk
<1>2. book' \in Books
  <2>1. (IF isValid THEN NoBook ELSE book) \in Books
    BY NoBookTyped DEF MarketInv
  <2> QED BY <1>1, <2>1, LevelTyped
<1>3. CASE isValid
  <2>1. Suspend(isLast) /\ staged' = <<>>
    BY <1>3 DEF SnapshotChunk
  <2>2. staged' \in Seq(Updates)
    BY <2>1
  <2> QED BY <1>1, <1>2, <2>1, <2>2, SuspendHolds
<1>4. CASE ~ isValid
  <2>1. /\ recovery' = [isComplete |-> isLast, isBridged |-> FALSE]
        /\ isLive' = isLive /\ ladders' = ladders /\ staged' = staged
    BY <1>4 DEF SnapshotChunk
  <2>2. QueuesOk(ladders, orders, book) /\ Lost(ladders) /\ NoCross(orders)
    BY <1>4 DEF QueueInv
  <2>3. QueuesOk(ladders, orders, book')
    BY <1>2, <2>2, LostKeeps
  <2>4. QueueInv'
    BY <1>1, <2>1, <2>2, <2>3 DEF QueueInv
  <2>5. recovery' \in [isComplete : BOOLEAN, isBridged : BOOLEAN] /\ recovery'.isComplete = isLast
    BY <2>1
  <2>6. MarketInv'
    BY <1>1, <1>2, <1>4, <2>1, <2>5 DEF MarketInv
  <2> QED BY <2>4, <2>6
<1> QED BY <1>3, <1>4

\* A chunk of a delta breaks the transaction, joins it, or commits it.
LEMMA DeltaHolds ==
  ASSUME MarketInv, QueueInv, NEW u \in Updates, NEW isSame \in BOOLEAN, NEW isLast \in BOOLEAN,
         DeltaChunk(u, isSame, isLast)
  PROVE  MarketInv' /\ QueueInv'
<1>1. orders' = orders /\ isValid' = isValid
  BY DEF DeltaChunk
<1>2. /\ book \in Books /\ staged \in Seq(Updates) /\ QueuesOk(ladders, orders, book)
      /\ recovery \in [isComplete : BOOLEAN, isBridged : BOOLEAN] /\ NoCross(orders)
  BY DEF MarketInv, QueueInv
<1>3. Append(staged, u) \in Seq(Updates)
  BY <1>2
<1>4. CASE staged # <<>> /\ ~ isSame
  <2>1. staged' = <<>> /\ Suspend(FALSE) /\ book' = book
    BY <1>4 DEF DeltaChunk
  <2>2. staged' \in Seq(Updates) /\ book' \in Books /\ isValid' \in BOOLEAN
    BY <1>1, <1>2, <2>1 DEF MarketInv
  <2> QED BY <1>1, <2>1, <2>2, SuspendHolds
<1>5. CASE ~ (staged # <<>> /\ ~ isSame) /\ ~ isLast
  <2>1. /\ staged' = Append(staged, u) /\ book' = book /\ ladders' = ladders
        /\ isLive' = isLive /\ recovery' = recovery
    BY <1>5 DEF DeltaChunk
  <2>2. QueueInv'
    BY <1>1, <2>1 DEF QueueInv
  <2>3. MarketInv'
    BY <1>1, <1>3, <2>1 DEF MarketInv
  <2> QED BY <2>2, <2>3
<1>6. CASE ~ (staged # <<>> /\ ~ isSame) /\ isLast
  <2> DEFINE after == IF isValid THEN FoldLeft(WithLevel, book, Append(staged, u)) ELSE book
  <2>1. /\ book' = after /\ ladders' = [s \in Sides |-> Capped(ladders[s], s, after)]
        /\ recovery' = [recovery EXCEPT !.isBridged = recovery.isComplete]
        /\ staged' = <<>> /\ isLive' = isLive
    BY <1>6 DEF DeltaChunk
  <2>2. after \in Books
    BY <1>2, <1>3, FoldTyped
  <2> HIDE DEF after
  <2>3. QueuesOk(ladders', orders, after) /\ (Lost(ladders) => Lost(ladders'))
    BY <1>2, <2>1, <2>2, CappedKeeps
  <2>4. QueueInv'
    BY <1>1, <1>2, <2>1, <2>3 DEF QueueInv
  <2>5. recovery' \in [isComplete : BOOLEAN, isBridged : BOOLEAN] /\ recovery'.isComplete = recovery.isComplete
    BY <1>2, <2>1
  <2>6. MarketInv'
    BY <1>1, <2>1, <2>2, <2>5 DEF MarketInv
  <2> QED BY <2>4, <2>6
<1> QED BY <1>4, <1>5, <1>6

\* A reset drops the book and suspends matching.
LEMMA ResetHolds ==
  ASSUME MarketInv, QueueInv, BookReset PROVE MarketInv' /\ QueueInv'
<1>1. staged' = <<>> /\ book' = NoBook /\ isValid' = FALSE /\ Suspend(FALSE) /\ orders' = orders
  BY DEF BookReset
<1>2. staged' \in Seq(Updates) /\ book' \in Books
  BY <1>1, NoBookTyped
<1> QED BY <1>1, <1>2, SuspendHolds

\* A broken trade chain suspends matching over the same book.
LEMMA BreakHolds ==
  ASSUME MarketInv, QueueInv, Break PROVE MarketInv' /\ QueueInv'
<1>1. staged' = staged /\ book' = book /\ isValid' = isValid /\ Suspend(FALSE) /\ orders' = orders
  BY DEF Break
<1>2. staged' \in Seq(Updates) /\ book' \in Books /\ isValid' \in BOOLEAN
  BY <1>1 DEF MarketInv
<1> QED BY <1>1, <1>2, SuspendHolds

\* A trade needs matching live, so the book is whole.
LEMMA TradeHolds ==
  ASSUME VenueInv, NEW print \in Prints, Trade(print) PROVE VenueInv'
<1>1. /\ isLive /\ Match(print) /\ book' = book /\ isValid' = isValid /\ staged' = staged
      /\ isLive' = isLive /\ recovery' = recovery /\ timeline' = timeline
  BY DEF Trade
<1>2. /\ OrdersTyped /\ OrdersOk(orders) /\ WalletOk(orders, funds, fees) /\ MarketInv
      /\ QueuesOk(ladders, orders, book) /\ NoCross(orders) /\ book \in Books /\ isValid
  BY <1>1 DEF VenueInv, WalletInv, QueueInv, MarketInv
<1>3. /\ OrdersOk(orders') /\ OrdersTyped' /\ WalletOk(orders', funds', fees')
      /\ QueuesOk(ladders', orders', book)
      /\ \A o \in Order, s \in Sides : RestsOn(orders'[o], s) =>
           RestsOn(orders[o], s) /\ orders'[o].price = orders[o].price
  BY <1>1, <1>2, MatchKeeps
<1>4. WalletInv'
  BY <1>3 DEF WalletInv
<1>5. MarketInv'
  BY <1>1, <1>2 DEF MarketInv
<1>6. NoCross(orders')
  BY <1>2, <1>3 DEF NoCross, Sides
<1>7. QueueInv'
  BY <1>1, <1>2, <1>3, <1>6 DEF QueueInv
<1> QED BY <1>1, <1>4, <1>5, <1>7 DEF VenueInv

-----------------------------------------------------------------------------
(***************************************************************************)
(* The steps of the requests keep it                                       *)
(***************************************************************************)
\* A step of the requests leaves the market alone.
LEMMA MarketSame ==
  ASSUME MarketInv, UNCHANGED <<book, isValid, staged, isLive, recovery>> PROVE MarketInv'
  BY DEF MarketInv

\* Orders that rest as they did stand as they did.
LEMMA SameHolds ==
  ASSUME QueueInv, ladders' = ladders, book' = book, isValid' = isValid,
         \A o \in Order, s \in Sides :
           /\ RestsOn(orders'[o], s) <=> RestsOn(orders[o], s)
           /\ RestsOn(orders[o], s) => orders'[o].price = orders[o].price
  PROVE  QueueInv'
<1>1. QueuesOk(ladders, orders, book) /\ NoCross(orders) /\ (~ isValid => Lost(ladders))
  BY DEF QueueInv
<1>2. QueuesOk(ladders, orders', book)
  BY <1>1, SameStands
<1>3. NoCross(orders')
  BY <1>1 DEF NoCross, Sides
<1> QED BY <1>1, <1>2, <1>3 DEF QueueInv

\* One order changed that neither rested nor rests.
LEMMA IdleHolds ==
  ASSUME QueueInv, ladders' = ladders, book' = book, isValid' = isValid, NEW o \in Order,
         orders[o].phase # "resting", orders'[o].phase # "resting",
         \A x \in Order \ {o} : orders'[x] = orders[x]
  PROVE  QueueInv'
<1>1. ASSUME NEW x \in Order, NEW s \in Sides
      PROVE  /\ RestsOn(orders'[x], s) <=> RestsOn(orders[x], s)
             /\ RestsOn(orders[x], s) => orders'[x].price = orders[x].price
  <2>1. CASE x = o
    BY <2>1 DEF RestsOn
  <2>2. CASE x # o
    BY <2>2
  <2> QED BY <2>1, <2>2
<1> QED BY <1>1, SameHolds

\* A placement is refused or waits: it rests nowhere yet.
LEMMA PlaceHolds ==
  ASSUME VenueInv, NEW o \in Order, NEW t \in Placements, Place(o, t) PROVE VenueInv'
<1> DEFINE refused == ~ t.isPostOnly \/ OffLimits(t.price, t.qty)
           row == [phase |-> IF refused THEN "closed" ELSE "pending", side |-> t.side,
                   price |-> t.price, qty |-> t.qty, filled |-> 0, amends |-> 0]
<1>1. /\ orders[o].phase = "unborn" /\ orders' = [orders EXCEPT ![o] = row]
      /\ IF refused THEN timeline' = timeline ELSE timeline' = Append(timeline, Action("Activate", o, 0))
      /\ ladders' = ladders
      /\ UNCHANGED <<book, isValid, staged, isLive, recovery>>
  BY DEF Place, Admit, marketVars
<1>2. row.phase # "resting"
  OBVIOUS
<1> HIDE DEF row
<1>3. WalletInv /\ MarketInv /\ QueueInv /\ timeline \in Seq(Requests) /\ OrdersTyped
  BY DEF VenueInv, WalletInv
<1>4. WalletInv'
  BY <1>3, PlaceBalances
<1>5. MarketInv'
  BY <1>1, <1>3, MarketSame
<1>6. orders'[o] = row /\ \A x \in Order \ {o} : orders'[x] = orders[x]
  BY <1>1, <1>3 DEF OrdersTyped
<1>7. QueueInv'
  <2>1. orders[o].phase # "resting" /\ orders'[o].phase # "resting"
    BY <1>1, <1>2, <1>6
  <2>2. book' = book /\ isValid' = isValid /\ ladders' = ladders
    BY <1>1
  <2> QED BY <1>3, <1>6, <2>1, <2>2, IdleHolds
<1>8. timeline' \in Seq(Requests)
  <2>1. Action("Activate", o, 0) \in Requests
    BY DEF Action, Requests
  <2> QED BY <1>1, <1>3, <2>1
<1> QED BY <1>4, <1>5, <1>7, <1>8 DEF VenueInv

\* A request only joins the timeline.
LEMMA AdmitHolds ==
  ASSUME VenueInv, NEW a \in Requests, Admit(a), UNCHANGED <<orders, marketVars, funds, fees>>
  PROVE  VenueInv'
<1>1. /\ timeline' = Append(timeline, a) /\ orders' = orders /\ ladders' = ladders
      /\ funds' = funds /\ fees' = fees /\ UNCHANGED <<book, isValid, staged, isLive, recovery>>
  BY DEF Admit, marketVars
<1>2. timeline' \in Seq(Requests)
  BY <1>1 DEF VenueInv
<1>3. WalletInv'
  BY <1>1 DEF VenueInv, WalletInv, OrdersTyped
<1>4. MarketInv'
  BY <1>1, MarketSame DEF VenueInv
<1>5. QueueInv'
  BY <1>1 DEF VenueInv, QueueInv
<1> QED BY <1>2, <1>3, <1>4, <1>5 DEF VenueInv

\* A cancel or an amend waits its time.
LEMMA RequestHolds ==
  ASSUME VenueInv, NEW o \in Order, Cancel(o) \/ \E qty \in AmendQtys : Amend(o, qty) PROVE VenueInv'
<1>1. CASE Cancel(o)
  <2>1. Action("Cancel", o, 0) \in Requests
    BY DEF Action, Requests
  <2> QED BY <1>1, <2>1, AdmitHolds DEF Cancel
<1>2. CASE \E qty \in AmendQtys : Amend(o, qty)
  <2>1. PICK qty \in AmendQtys : Amend(o, qty)
    BY <1>2
  <2>2. qty \in Nat
    BY VenueAssumption
  <2>3. Action("Amend", o, qty) \in Requests
    BY <2>2 DEF Action, Requests
  <2> QED BY <2>1, <2>3, AdmitHolds DEF Amend
<1> QED BY <1>1, <1>2

\* An order that joins a side meets none of the other.
LEMMA JoinsClear ==
  ASSUME QueueInv, OrdersOk(orders), NEW side \in Sides, NEW price \in Nat, ~ Crosses(side, price),
         NEW x \in Order, RestsOn(orders[x], Opposite(side))
  PROVE  IF side = "Buy" THEN price < orders[x].price ELSE orders[x].price < price
<1> DEFINE other == Opposite(side)
           p == orders[x].price
<1>1. other \in Sides /\ (side = "Buy" => other = "Sell") /\ (side = "Sell" => other = "Buy")
  BY DEF Opposite, Sides
<1>2. p \in Prices /\ p \in Nat
  <2>1. RowOk(orders[x])
    BY RowOr DEF RestsOn
  <2> QED BY <2>1, RowIs
<1>3. StandOnce(ladders[other][p], StandsAt(orders, other, p))
  <2>1. QueuesOk(ladders, orders, book)
    BY DEF QueueInv
  <2> HIDE DEF other, p
  <2> QED BY <1>1, <1>2, <2>1, QueueIs
<1>4. x \in StandsAt(orders, other, p)
  BY DEF StandsAt
<1>5. PICK k \in DOMAIN ladders[other][p] : ladders[other][p][k].who = x
  BY <1>3, <1>4 DEF StandOnce
<1>6. HoldsOwn(ladders[other][p])
  BY <1>5 DEF HoldsOwn, IsOwn, Nobody, Order
<1>7. ~ (p = price \/ Better(other, p, price))
  BY <1>2, <1>6 DEF Crosses
<1>8. CASE side = "Buy"
  BY <1>1, <1>2, <1>7, <1>8 DEF Better
<1>9. CASE side = "Sell"
  BY <1>1, <1>2, <1>7, <1>9 DEF Better
<1> QED BY <1>8, <1>9 DEF Sides

\* An order whose time has come rests where it crosses nothing, or closes, or waits on.
LEMMA ActivateHolds ==
  ASSUME VenueInv, NEW o \in Order, Activate(o), fees' = fees,
         UNCHANGED <<book, isValid, staged, isLive, recovery>>
  PROVE  WalletInv' /\ MarketInv' /\ QueueInv'
<1> DEFINE r     == orders[o]
           shown == VisibleAt(book, r.side, r.price)
           queue == ladders[r.side][r.price]
<1>1. WalletInv /\ MarketInv /\ QueueInv /\ OrdersTyped /\ OrdersOk(orders)
  BY DEF VenueInv, WalletInv
<1>2. WalletInv'
  BY <1>1, ActivateBalances
<1>3. MarketInv'
  BY <1>1, MarketSame
<1>4. CASE orders' = orders /\ ladders' = ladders
  <2>1. QueueInv'
    BY <1>1, <1>4 DEF QueueInv
  <2> QED BY <1>2, <1>3, <2>1
<1>5. CASE r.phase = "pending" /\ orders' = [orders EXCEPT ![o].phase = "closed"] /\ ladders' = ladders
  <2>1. orders'[o].phase # "resting" /\ \A x \in Order \ {o} : orders'[x] = orders[x]
    <3>1. RowOk(orders[o])
      BY <1>1, <1>5, RowOr
    <3>2. orders[o] \in Terms
      BY <3>1, RowIs
    <3>3. orders'[o] = [orders[o] EXCEPT !.phase = "closed"] /\ \A x \in Order \ {o} : orders'[x] = orders[x]
      BY <1>1, <1>5 DEF OrdersTyped
    <3>4. orders'[o].phase = "closed"
      BY <3>2, <3>3 DEF Terms
    <3> QED BY <3>3, <3>4
  <2>2. QueueInv'
    BY <1>1, <1>5, <2>1, IdleHolds
  <2> QED BY <1>2, <1>3, <2>2
<1>6. CASE /\ r.phase = "pending" /\ isLive /\ ~ Crosses(r.side, r.price)
           /\ orders' = [orders EXCEPT ![o].phase = "resting"]
           /\ ladders' = [ladders EXCEPT ![r.side][r.price] =
                Append(IF shown = Hidden THEN Append(queue, Unseen) ELSE Reconciled(queue, shown),
                       Own(o))]
  <2>1. RowOk(r)
    BY <1>1, <1>6, RowOr
  <2>2. r \in Terms /\ r.side \in Sides /\ r.price \in Prices /\ r.price \in Nat
    BY <2>1, RowIs
  <2>3. orders'[o] = [r EXCEPT !.phase = "resting"] /\ \A x \in Order \ {o} : orders'[x] = orders[x]
    BY <1>1, <1>6 DEF OrdersTyped
  <2>4. orders'[o].phase = "resting" /\ orders'[o].side = r.side /\ orders'[o].price = r.price
    BY <2>2, <2>3 DEF Terms
  <2>5. /\ \A s \in Sides : ~ RestsOn(orders[o], s)
        /\ \A s \in Sides : RestsOn(orders'[o], s) <=> s = r.side
    BY <1>6, <2>4 DEF RestsOn
  <2>6. QueuesOk(ladders, orders, book) /\ book \in Books /\ NoCross(orders) /\ isValid /\ isValid' = isValid /\ book' = book
    BY <1>1, <1>6 DEF QueueInv, MarketInv
  <2> DEFINE side  == r.side
             price == r.price
             osn   == orders'
             ln    == ladders'
  <2>7. ln = Joined(ladders, book, side, price, o)
    BY <1>6 DEF Joined
  <2>8. side \in Sides /\ price \in Prices /\ osn[o].price = price
        /\ (\A s \in Sides : RestsOn(osn[o], s) <=> s = side)
        /\ (\A x \in Order \ {o} : osn[x] = orders[x])
    BY <2>2, <2>3, <2>4, <2>5
  <2>9. QueuesOk(ln, osn, book)
    <3> HIDE DEF side, price, osn, ln
    <3> QED BY <2>5, <2>6, <2>7, <2>8, JoinKeeps
  <2>10. ASSUME NEW b \in Order, NEW a \in Order, RestsOn(orders'[b], "Buy"), RestsOn(orders'[a], "Sell")
         PROVE  orders'[b].price < orders'[a].price
    <3>1. "Buy" \in Sides /\ "Sell" \in Sides /\ Opposite("Buy") = "Sell" /\ Opposite("Sell") = "Buy"
      BY DEF Opposite, Sides
    <3>2. CASE b = o
      <4>1. r.side = "Buy"
        BY <2>5, <2>10, <3>1, <3>2
      <4>2. a # o
        BY <2>5, <2>10, <3>1, <4>1
      <4>3. orders'[a] = orders[a] /\ RestsOn(orders[a], "Sell")
        BY <2>3, <2>10, <4>2
      <4>4. r.price < orders[a].price
        BY <1>1, <1>6, <2>2, <3>1, <4>1, <4>3, JoinsClear
      <4> QED BY <2>4, <3>2, <4>3, <4>4
    <3>3. CASE b # o /\ a = o
      <4>1. r.side = "Sell"
        BY <2>5, <2>10, <3>1, <3>3
      <4>2. orders'[b] = orders[b] /\ RestsOn(orders[b], "Buy")
        BY <2>3, <2>10, <3>3
      <4>3. orders[b].price < r.price
        BY <1>1, <1>6, <2>2, <3>1, <4>1, <4>2, JoinsClear
      <4> QED BY <2>4, <3>3, <4>2, <4>3
    <3>4. CASE b # o /\ a # o
      BY <2>3, <2>6, <2>10, <3>4 DEF NoCross
    <3> QED BY <3>2, <3>3, <3>4
  <2>11. NoCross(orders')
    BY <2>10 DEF NoCross
  <2>12. QueueInv'
    BY <2>6, <2>9, <2>11 DEF QueueInv
  <2> QED BY <1>2, <1>3, <2>12
<1>7. \/ orders' = orders /\ ladders' = ladders
      \/ r.phase = "pending" /\ orders' = [orders EXCEPT ![o].phase = "closed"] /\ ladders' = ladders
      \/ /\ r.phase = "pending" /\ isLive /\ ~ Crosses(r.side, r.price)
         /\ orders' = [orders EXCEPT ![o].phase = "resting"]
         /\ ladders' = [ladders EXCEPT ![r.side][r.price] =
              Append(IF shown = Hidden THEN Append(queue, Unseen) ELSE Reconciled(queue, shown),
                     Own(o))]
  BY DEF Activate
<1> QED BY <1>4, <1>5, <1>6, <1>7

\* Orders that close leave their queues, and what they owed is freed.
LEMMA ClosedHolds ==
  ASSUME VenueInv, NEW gone \in SUBSET Order, \A o \in gone : orders[o].phase # "unborn",
         Closed(gone), fees' = fees, UNCHANGED <<book, isValid, staged, isLive, recovery>>
  PROVE  WalletInv' /\ MarketInv' /\ QueueInv'
<1>1. WalletInv /\ MarketInv /\ QueueInv /\ OrdersTyped /\ OrdersOk(orders)
  BY DEF VenueInv, WalletInv
<1>2. WalletInv'
  BY <1>1, ClosedBalances
<1>3. MarketInv'
  BY <1>1, MarketSame
<1>4. /\ orders' = [o \in Order |->
           IF o \in gone THEN [orders[o] EXCEPT !.phase = "closed"] ELSE orders[o]]
      /\ ladders' = [s \in Sides |-> WithoutVacant(
           [p \in Prices |-> Kept(ladders[s][p],
                                {k \in DOMAIN ladders[s][p] : ladders[s][p][k].who \notin gone})])]
  BY DEF Closed
<1>5. ASSUME NEW o \in gone PROVE orders'[o].phase = "closed"
  <2>1. o \in Order /\ RowOk(orders[o])
    BY <1>1, RowOr
  <2>2. orders[o] \in Terms
    BY <2>1, RowIs
  <2>3. orders'[o] = [orders[o] EXCEPT !.phase = "closed"]
    BY <1>4, <2>1
  <2> QED BY <2>2, <2>3 DEF Terms
<1>6. ASSUME NEW o \in Order \ gone PROVE orders'[o] = orders[o]
  BY <1>4
<1>7. \A o \in Order, s \in Sides :
        /\ RestsOn(orders'[o], s) <=> RestsOn(orders[o], s) /\ o \notin gone
        /\ RestsOn(orders'[o], s) => orders'[o].price = orders[o].price
  <2> SUFFICES ASSUME NEW o \in Order, NEW s \in Sides
               PROVE  /\ RestsOn(orders'[o], s) <=> RestsOn(orders[o], s) /\ o \notin gone
                      /\ RestsOn(orders'[o], s) => orders'[o].price = orders[o].price
    OBVIOUS
  <2>1. CASE o \in gone
    BY <1>5, <2>1 DEF RestsOn
  <2>2. CASE o \notin gone
    BY <1>6, <2>2
  <2> QED BY <2>1, <2>2
<1>8. QueuesOk(ladders, orders, book) /\ book \in Books /\ NoCross(orders) /\ (~ isValid => Lost(ladders))
  BY <1>1 DEF QueueInv, MarketInv
<1>9. QueuesOk(ladders', orders', book) /\ (Lost(ladders) => Lost(ladders'))
  <2>1. ladders' = Withdrawn(ladders, gone)
    BY <1>4 DEF Withdrawn
  <2> QED BY <1>7, <1>8, <2>1, ClosedKeeps
<1>10. NoCross(orders')
  BY <1>7, <1>8 DEF NoCross, Sides
<1>11. QueueInv'
  BY <1>8, <1>9, <1>10 DEF QueueInv
<1> QED BY <1>2, <1>3, <1>11

\* A cancel closes an open order and finds any other gone.
LEMMA CancelHolds ==
  ASSUME VenueInv, NEW o \in Order, RunCancel(o), fees' = fees,
         UNCHANGED <<book, isValid, staged, isLive, recovery>>
  PROVE  WalletInv' /\ MarketInv' /\ QueueInv'
<1>1. CASE IsOpen(o)
  <2>1. Closed({o}) /\ {o} \in SUBSET Order
    BY <1>1 DEF RunCancel
  <2>2. \A x \in {o} : orders[x].phase # "unborn"
    BY <1>1 DEF IsOpen
  <2> QED BY <2>1, <2>2, ClosedHolds
<1>2. CASE ~ IsOpen(o)
  <2>1. orders' = orders /\ ladders' = ladders /\ funds' = funds
    BY <1>2 DEF RunCancel
  <2>2. WalletInv'
    BY <2>1 DEF VenueInv, WalletInv, OrdersTyped
  <2>3. MarketInv'
    BY MarketSame DEF VenueInv
  <2>4. QueueInv'
    BY <2>1 DEF VenueInv, QueueInv
  <2> QED BY <2>2, <2>3, <2>4
<1> QED BY <1>1, <1>2

\* An amend changes the order's quantity, and not its place.
LEMMA AmendHolds ==
  ASSUME VenueInv, NEW o \in Order, NEW qty \in Nat, RunAmend(o, qty), fees' = fees,
         UNCHANGED <<book, isValid, staged, isLive, recovery>>
  PROVE  WalletInv' /\ MarketInv' /\ QueueInv'
<1>1. WalletInv /\ MarketInv /\ QueueInv /\ OrdersTyped /\ OrdersOk(orders)
  BY DEF VenueInv, WalletInv
<1>2. WalletInv'
  BY <1>1, AmendBalances
<1>3. MarketInv'
  BY <1>1, MarketSame
<1>4. CASE orders' = orders /\ ladders' = ladders
  <2>1. QueueInv'
    BY <1>1, <1>4 DEF QueueInv
  <2> QED BY <1>2, <1>3, <2>1
<1>5. CASE /\ orders[o].phase = "resting" /\ ladders' = ladders
           /\ orders' = [orders EXCEPT ![o].qty = qty, ![o].amends = @ + 1]
  <2>1. RowOk(orders[o])
    BY <1>1, <1>5, RowOr
  <2>2. orders[o] \in Terms
    BY <2>1, RowIs
  <2>3. /\ orders'[o] = [orders[o] EXCEPT !.qty = qty, !.amends = @ + 1]
        /\ \A x \in Order \ {o} : orders'[x] = orders[x]
    BY <1>1, <1>5 DEF OrdersTyped
  <2>4. /\ orders'[o].phase = orders[o].phase /\ orders'[o].side = orders[o].side
        /\ orders'[o].price = orders[o].price
    BY <2>2, <2>3 DEF Terms
  <2>5. ASSUME NEW x \in Order, NEW s \in Sides
        PROVE  /\ RestsOn(orders'[x], s) <=> RestsOn(orders[x], s)
               /\ RestsOn(orders[x], s) => orders'[x].price = orders[x].price
    <3>1. CASE x = o
      BY <2>4, <3>1 DEF RestsOn
    <3>2. CASE x # o
      BY <2>3, <3>2
    <3> QED BY <3>1, <3>2
  <2>6. QueueInv'
    BY <1>1, <1>5, <2>5, SameHolds
  <2> QED BY <1>2, <1>3, <2>6
<1>6. \/ orders' = orders /\ ladders' = ladders
      \/ /\ orders[o].phase = "resting" /\ ladders' = ladders
         /\ orders' = [orders EXCEPT ![o].qty = qty, ![o].amends = @ + 1]
  BY DEF RunAmend
<1> QED BY <1>4, <1>5, <1>6

\* The next request, whatever it is.
LEMMA DueHolds == ASSUME VenueInv, RunDue PROVE VenueInv'
<1> DEFINE due == Head(timeline)
<1>1. /\ timeline # <<>> /\ timeline' = Tail(timeline) /\ timeline \in Seq(Requests)
      /\ fees' = fees /\ UNCHANGED <<book, isValid, staged, isLive, recovery>>
  BY DEF RunDue, VenueInv
<1>2. due \in Requests /\ timeline' \in Seq(Requests)
  BY <1>1
<1>3. due.order \in Order /\ due.qty \in Nat
  BY <1>2 DEF Requests
<1>4. \/ Activate(due.order)
      \/ RunCancel(due.order)
      \/ RunAmend(due.order, due.qty)
  BY DEF RunDue
<1> HIDE DEF due
<1>5. WalletInv' /\ MarketInv' /\ QueueInv'
  BY <1>1, <1>3, <1>4, ActivateHolds, CancelHolds, AmendHolds
<1> QED BY <1>2, <1>5 DEF VenueInv

\* Restoring matching only puts the orders that waited back on the timeline.
LEMMA RestoreHolds == ASSUME VenueInv, Restore PROVE VenueInv'
<1> DEFINE waits(o) == /\ orders[o].phase = "pending"
                       /\ \A k \in DOMAIN timeline : timeline[k] # Action("Activate", o, 0)
           ks    == {o \in Order : waits(o)}
           all   == [o \in Order |-> o]
           again == Kept(all, ks)
           more  == [k \in DOMAIN again |-> Action("Activate", again[k], 0)]
<1>1. /\ recovery.isComplete /\ isLive' = TRUE /\ timeline' = more \o timeline
      /\ UNCHANGED <<orders, ladders, book, isValid, staged, recovery, funds, fees>>
  BY DEF Restore
<1>2. MaxOrders \in Nat
  BY VenueAssumption
<1>3. all \in Seq(Order) /\ DOMAIN all = Order
  <2>1. all \in [1 .. MaxOrders -> Order]
    BY DEF Order
  <2>2. all \in Seq(Order)
    BY <1>2, <2>1
  <2> QED BY <2>2
<1>4. ks \in SUBSET DOMAIN all
  BY <1>3
<1> HIDE DEF all, ks
<1>5. /\ again \in Seq(Order) /\ Cardinality(ks) \in Nat /\ DOMAIN again = 1 .. Cardinality(ks)
  BY <1>3, <1>4, KeptNth
<1>6. \A k \in DOMAIN again : again[k] \in Order
  BY <1>5
<1> DEFINE n == Cardinality(ks)
<1>7. n \in Nat /\ DOMAIN again = 1 .. n
  BY <1>5
<1> HIDE DEF again, n
<1>8. \A k \in DOMAIN again : Action("Activate", again[k], 0) \in Requests
  BY <1>6 DEF Action, Requests
<1>9. more \in [1 .. n -> Requests]
  BY <1>7, <1>8
<1>10. more \in Seq(Requests)
  BY <1>7, <1>9
<1> HIDE DEF more
<1>11. timeline' \in Seq(Requests)
  BY <1>1, <1>10 DEF VenueInv
<1>12. WalletInv'
  BY <1>1 DEF VenueInv, WalletInv, OrdersTyped
<1>13. MarketInv'
  BY <1>1 DEF VenueInv, MarketInv
<1>14. QueueInv'
  BY <1>1 DEF VenueInv, QueueInv
<1> QED BY <1>11, <1>12, <1>13, <1>14 DEF VenueInv

\* A forced exit closes what is open.
LEMMA ExitHolds == ASSUME VenueInv, NEW cancelling \in SUBSET Order, ForceExit(cancelling) PROVE VenueInv'
<1> DEFINE gone == {o \in Order \ cancelling : IsOpen(o)}
<1>1. /\ Closed(gone) /\ fees' = fees /\ timeline' = timeline
      /\ UNCHANGED <<book, isValid, staged, isLive, recovery>>
  BY DEF ForceExit
<1>2. gone \in SUBSET Order /\ \A o \in gone : orders[o].phase # "unborn"
  BY DEF IsOpen
<1> HIDE DEF gone
<1>3. WalletInv' /\ MarketInv' /\ QueueInv'
  BY <1>1, <1>2, ClosedHolds
<1> QED BY <1>1, <1>3 DEF VenueInv

\* A step of the market keeps the wallet and the timeline.
LEMMA MarketStep ==
  ASSUME VenueInv, UNCHANGED <<orders, funds, fees, timeline>>, MarketInv', QueueInv' PROVE VenueInv'
<1>1. WalletInv'
  BY DEF VenueInv, WalletInv, OrdersTyped
<1> QED BY <1>1 DEF VenueInv

\* The invariant holds at the start,
LEMMA VenueStarts == ASSUME Init PROVE VenueInv
<1>1. WalletInv
  BY WalletStarts
<1>2. MarketInv
  <2>1. /\ book \in Books /\ isValid = FALSE /\ isLive = FALSE /\ staged = <<>>
        /\ recovery = [isComplete |-> FALSE, isBridged |-> FALSE]
    BY NoBookTyped DEF Init
  <2>2. recovery \in [isComplete : BOOLEAN, isBridged : BOOLEAN] /\ ~ recovery.isComplete
    BY <2>1
  <2>3. staged \in Seq(Updates)
    BY <2>1
  <2> QED BY <2>1, <2>2, <2>3 DEF MarketInv
<1>3. /\ orders = [o \in Order |-> [phase |-> "unborn"]]
      /\ ladders = [s \in Sides |-> [p \in Prices |-> <<>>]] /\ timeline = <<>>
  BY DEF Init
<1>4. \A o \in Order, s \in Sides : ~ RestsOn(orders[o], s)
  BY <1>3 DEF RestsOn
<1>5. QueuesOk(ladders, orders, book)
  <2>1. ASSUME NEW s \in Sides, NEW p \in Prices
        PROVE  SoundQueue(ladders[s][p], StandsAt(orders, s, p), book[s][p])
    <3>1. ladders[s][p] = <<>> /\ StandsAt(orders, s, p) = {}
      BY <1>3, <1>4 DEF StandsAt
    <3>2. book[s][p] \in Nat
      BY <1>2 DEF MarketInv, Books
    <3>3. SoundQueue(<<>>, {}, book[s][p])
      BY <3>2, EmptySound
    <3> QED BY <3>1, <3>3
  <2>2. ladders = [s \in Sides |-> ladders[s]] /\ \A s \in Sides : ladders[s] = [p \in Prices |-> ladders[s][p]]
    BY <1>3
  <2> QED BY <2>1, <2>2, QueuesAre
<1>6. Lost(ladders)
  BY <1>3 DEF Lost
<1>7. NoCross(orders)
  BY <1>4 DEF NoCross, Sides
<1>8. QueueInv
  BY <1>5, <1>6, <1>7 DEF QueueInv
<1>9. timeline \in Seq(Requests)
  BY <1>3
<1> QED BY <1>1, <1>2, <1>8, <1>9 DEF VenueInv

\* and every step keeps it.
LEMMA VenueSteps == ASSUME VenueInv, [Next]_vars PROVE VenueInv'
<1>1. MarketInv /\ QueueInv
  BY DEF VenueInv
<1>2. CASE \E u \in Updates, isLast \in BOOLEAN :
             \/ SnapshotChunk(u, isLast)
             \/ \E isSame \in BOOLEAN : DeltaChunk(u, isSame, isLast)
  <2>1. PICK u \in Updates, isLast \in BOOLEAN :
             \/ SnapshotChunk(u, isLast)
             \/ \E isSame \in BOOLEAN : DeltaChunk(u, isSame, isLast)
    BY <1>2
  <2>2. CASE SnapshotChunk(u, isLast)
    <3>1. MarketInv' /\ QueueInv'
      BY <1>1, <2>2, SnapshotHolds
    <3>2. UNCHANGED <<orders, funds, fees, timeline>>
      BY <2>2 DEF SnapshotChunk
    <3> QED BY <3>1, <3>2, MarketStep
  <2>3. CASE \E isSame \in BOOLEAN : DeltaChunk(u, isSame, isLast)
    <3>1. PICK isSame \in BOOLEAN : DeltaChunk(u, isSame, isLast)
      BY <2>3
    <3>2. MarketInv' /\ QueueInv'
      BY <1>1, <3>1, DeltaHolds
    <3>3. UNCHANGED <<orders, funds, fees, timeline>>
      BY <3>1 DEF DeltaChunk
    <3> QED BY <3>2, <3>3, MarketStep
  <2> QED BY <2>1, <2>2, <2>3
<1>3. CASE BookReset
  BY <1>1, <1>3, ResetHolds, MarketStep DEF BookReset
<1>4. CASE Break
  BY <1>1, <1>4, BreakHolds, MarketStep DEF Break
<1>5. CASE Restore
  BY <1>5, RestoreHolds
<1>6. CASE RunDue
  BY <1>6, DueHolds
<1>7. CASE \E print \in Prints : Trade(print)
  BY <1>7, TradeHolds
<1>8. CASE \E o \in Order : \/ \E t \in Placements : Place(o, t)
                            \/ Cancel(o)
                            \/ \E qty \in AmendQtys : Amend(o, qty)
  BY <1>8, PlaceHolds, RequestHolds
<1>9. CASE \E cancelling \in SUBSET Order : ForceExit(cancelling)
  BY <1>9, ExitHolds
<1>10. CASE UNCHANGED vars
  <2>1. /\ UNCHANGED <<orders, funds, fees, timeline>> /\ ladders' = ladders
        /\ UNCHANGED <<book, isValid, staged, isLive, recovery>>
    BY <1>10 DEF vars
  <2>2. MarketInv'
    BY <1>1, <2>1, MarketSame
  <2>3. QueueInv'
    BY <1>1, <2>1 DEF QueueInv
  <2> QED BY <2>1, <2>2, <2>3, MarketStep
<1> QED BY <1>2, <1>3, <1>4, <1>5, <1>6, <1>7, <1>8, <1>9, <1>10 DEF Next

\* The invariant says what the properties do.
LEMMA TypesOf == ASSUME VenueInv PROVE TypeOK
<1>1. /\ OrdersTyped /\ FundsOk(funds, fees) /\ QueuesOk(ladders, orders, book)
      /\ timeline \in Seq([kind : {"Activate", "Cancel", "Amend"}, order : Order, qty : Nat])
  BY DEF VenueInv, WalletInv, WalletOk, QueueInv, Requests
<1>2. /\ book \in [Sides -> [Prices -> Nat]] /\ {isValid, isLive} \subseteq BOOLEAN
      /\ recovery \in [isComplete : BOOLEAN, isBridged : BOOLEAN] /\ staged \in Seq(Updates)
  BY DEF VenueInv, MarketInv, Books
<1>3. ladders \in [Sides -> [Prices -> Seq(Nodes)]]
  BY <1>1 DEF QueuesOk
<1> QED BY <1>1, <1>2, <1>3 DEF TypeOK, OrdersTyped, FundsOk

\* and the queues are sound in the sense of the property.
LEMMA SoundOf == ASSUME VenueInv PROVE QueuesAreSound
<1>1. QueuesOk(ladders, orders, book) /\ NoCross(orders)
  BY DEF VenueInv, QueueInv
<1>2. ASSUME NEW s \in Sides, NEW p \in Prices
      PROVE  /\ StandOnce(ladders[s][p], {o \in RestingOn(s) : orders[o].price = p})
             /\ KnownQty(ladders[s][p]) > 0 =>
                  ~ HasUnseen(ladders[s][p]) /\ KnownQty(ladders[s][p]) <= book[s][p]
  <2>1. StandsAt(orders, s, p) = {o \in RestingOn(s) : orders[o].price = p}
    BY DEF StandsAt, RestingOn, RestsOn, IsResting
  <2>2. /\ StandOnce(ladders[s][p], StandsAt(orders, s, p))
        /\ KnownQty(ladders[s][p]) > 0 =>
             ~ HasUnseen(ladders[s][p]) /\ KnownQty(ladders[s][p]) <= book[s][p]
    BY <1>1, QueueIs
  <2>3. StandOnce(ladders[s][p], {o \in RestingOn(s) : orders[o].price = p})
    BY <2>1, <2>2
  <2> QED BY <2>2, <2>3
<1>3. QueueHoldsTheResting /\ AheadIsVisible
  BY <1>2 DEF QueueHoldsTheResting, AheadIsVisible
<1>4. NoSelfCross
  BY <1>1 DEF NoCross, NoSelfCross, RestingOn, IsResting, RestsOn
<1> QED BY <1>3, <1>4 DEF QueuesAreSound

\* It holds always.
LEMMA VenueSafe == Spec => []VenueInv
<1>1. Init => VenueInv
  BY VenueStarts
<1>2. VenueInv /\ [Next]_vars => VenueInv'
  BY VenueSteps
<1> QED BY <1>1, <1>2, PTL DEF Spec

\* Nothing the venue does takes a balance below zero, which the wallet's checks would
\* panic on (wallet.rs), nor an order or a queue out of its type.
THEOREM VenueTyped == Spec => []TypeOK
  BY VenueSafe, TypesOf, PTL

\* What is locked is what the resting orders may still spend, through fills that round,
\* amends and exits; and no money appears or is lost (SimWallet::lock, fill, amend and
\* release).
THEOREM MoneyBalances == Spec => []WalletBalances
<1>1. VenueInv => WalletBalances
  BY WalletBalancesOf DEF VenueInv
<1> QED BY <1>1, VenueSafe, PTL

\* Every resting order stands once, at its price, and no other anywhere; own orders do
\* not cross; and no order waits behind public liquidity the book does not show
\* (queue.rs, activate, walk_aggressor).
THEOREM QueuesStaySound == Spec => []QueuesAreSound
<1>1. VenueInv => QueuesAreSound
  BY SoundOf
<1> QED BY <1>1, VenueSafe, PTL

-----------------------------------------------------------------------------
(***************************************************************************)
(* The place of an order in its queue                                      *)
(***************************************************************************)
\* What stands ahead of an order has not grown, and what cannot be known stays so.
NoWorse(q, r, o) == IF AheadOf(q, o) = Hidden THEN AheadOf(r, o) = Hidden ELSE AheadOf(r, o) <= AheadOf(q, o)

UnseenTo(q, k) == \E j \in 1 .. k : q[j] = Unseen

\* What stands ahead, by the order's position.
LEMMA AheadIs ==
  ASSUME NEW q \in Seq(Nodes), NEW who, StandOnce(q, who), NEW o \in Order, NEW at \in DOMAIN q, q[at].who = o
  PROVE  /\ AheadOf(q, o) = IF UnseenTo(q, at) THEN Hidden ELSE KnownIn(q, 1 .. at)
         /\ KnownIn(q, 1 .. at) \in Nat /\ AheadOf(q, o) \in Nat \cup {Hidden}
<1> DEFINE c == CHOOSE k \in DOMAIN q : q[k].who = o
<1>1. c \in DOMAIN q /\ q[c].who = o
  OBVIOUS
<1>2. c = at
  <2>1. IsOwn(q[at])
    BY NodesAre DEF IsOwn
  <2> HIDE DEF c
  <2> QED BY <1>1, <2>1 DEF StandOnce
<1>3. AheadOf(q, o) = IF \E k \in 1 .. c : q[k] = Unseen THEN Hidden ELSE KnownIn(q, 1 .. c)
  BY DEF AheadOf
<1> HIDE DEF c
<1>4. DOMAIN q = 1 .. Len(q) /\ Len(q) \in Nat
  BY KnownTyped
<1>5. 1 .. at \in SUBSET DOMAIN q
  BY <1>4
<1>6. KnownIn(q, 1 .. at) \in Nat
  BY <1>5, KnownTyped
<1>7. AheadOf(q, o) = IF UnseenTo(q, at) THEN Hidden ELSE KnownIn(q, 1 .. at)
  BY <1>2, <1>3 DEF UnseenTo
<1> QED BY <1>6, <1>7

\* Who stands has a position.
LEMMA PlaceOf ==
  ASSUME NEW q \in Seq(Nodes), NEW who, StandOnce(q, who), NEW o \in Order, o \in who
  PROVE  \E at \in DOMAIN q : q[at].who = o
  BY DEF StandOnce

\* It has not, by the positions of the order in the two queues.
LEMMA NoWorseBy ==
  ASSUME NEW q \in Seq(Nodes), NEW who, StandOnce(q, who), NEW o \in Order, NEW at \in DOMAIN q, q[at].who = o,
         NEW r \in Seq(Nodes), NEW those, StandOnce(r, those), NEW bt \in DOMAIN r, r[bt].who = o,
         UnseenTo(q, at) => UnseenTo(r, bt), KnownIn(r, 1 .. bt) <= KnownIn(q, 1 .. at)
  PROVE  NoWorse(q, r, o)
<1>1. /\ AheadOf(q, o) = IF UnseenTo(q, at) THEN Hidden ELSE KnownIn(q, 1 .. at)
      /\ KnownIn(q, 1 .. at) \in Nat
  BY AheadIs
<1>2. /\ AheadOf(r, o) = IF UnseenTo(r, bt) THEN Hidden ELSE KnownIn(r, 1 .. bt)
      /\ KnownIn(r, 1 .. bt) \in Nat
  BY AheadIs
<1>3. CASE UnseenTo(q, at)
  BY <1>1, <1>2, <1>3 DEF NoWorse
<1>4. CASE ~ UnseenTo(q, at)
  BY <1>1, <1>2, <1>4 DEF NoWorse, Hidden
<1> QED BY <1>3, <1>4

\* Nothing is no worse than itself,
LEMMA NoWorseSame == ASSUME NEW q \in Seq(Nodes), NEW who, StandOnce(q, who), NEW o \in Order, o \in who
                     PROVE  NoWorse(q, q, o)
<1>1. PICK at \in DOMAIN q : q[at].who = o
  BY PlaceOf
<1>2. KnownIn(q, 1 .. at) \in Nat
  BY <1>1, AheadIs
<1> QED BY <1>1, <1>2, NoWorseBy

\* and no worse after two such changes.
LEMMA NoWorseTwice ==
  ASSUME NEW q \in Seq(Nodes), NEW who, StandOnce(q, who), NEW o \in Order, o \in who,
         NEW r \in Seq(Nodes), NEW those, StandOnce(r, those), o \in those,
         NEW s \in Seq(Nodes), NEW these, StandOnce(s, these), o \in these,
         NoWorse(q, r, o), NoWorse(r, s, o)
  PROVE  NoWorse(q, s, o)
<1>1. AheadOf(q, o) \in Nat \cup {Hidden}
  BY PlaceOf, AheadIs
<1>2. AheadOf(r, o) \in Nat \cup {Hidden}
  BY PlaceOf, AheadIs
<1>3. AheadOf(s, o) \in Nat \cup {Hidden}
  BY PlaceOf, AheadIs
<1> QED BY <1>1, <1>2, <1>3 DEF NoWorse, Hidden

\* Some nodes go, never an unseen one: what stood ahead is kept or gone.
LEMMA KeptNoWorse ==
  ASSUME NEW q \in Seq(Nodes), NEW who, StandOnce(q, who), NEW o \in Order, NEW ks \in SUBSET DOMAIN q,
         NEW at \in ks, q[at].who = o, \A k \in DOMAIN q : q[k] = Unseen => k \in ks
  PROVE  NoWorse(q, Kept(q, ks), o)
<1> DEFINE r == Kept(q, ks)
           n == Cardinality(ks)
           nth == Nth(ks)
<1>1. /\ n \in Nat /\ r \in Seq(Nodes) /\ DOMAIN r = 1 .. n /\ nth \in [1 .. n -> ks]
      /\ \A i \in 1 .. n : r[i] = q[nth[i]]
      /\ \A i, j \in 1 .. n : i < j => nth[i] < nth[j]
      /\ \A k \in ks : \E i \in 1 .. n : nth[i] = k
  BY KeptNth
<1>2. StandOnce(r, {q[k].who : k \in ks} \ {Nobody})
  BY KeptStand
<1>3. \A i \in 1 .. n : KnownIn(r, 1 .. i) = KnownIn(q, {k \in ks : k <= nth[i]})
  BY KeptKnown
<1>4. DOMAIN q = 1 .. Len(q) /\ Len(q) \in Nat
  BY KnownTyped
<1> HIDE DEF r, n, nth
<1>5. PICK bt \in 1 .. n : nth[bt] = at
  BY <1>1
<1>6. r[bt].who = o /\ bt \in DOMAIN r /\ at \in DOMAIN q
  BY <1>1, <1>5
<1>7. KnownIn(r, 1 .. bt) <= KnownIn(q, 1 .. at)
  <2> DEFINE part == {k \in ks : k <= at}
             all  == 1 .. at
  <2>1. part \in SUBSET all /\ all \in SUBSET DOMAIN q
    BY <1>4, <1>6
  <2>2. KnownIn(r, 1 .. bt) = KnownIn(q, part)
    BY <1>3, <1>5
  <2> HIDE DEF part, all
  <2>3. KnownIn(q, part) = SumFunctionOnSet(Values(q), part) /\ KnownIn(q, all) = SumFunctionOnSet(Values(q), all)
    <3>1. part \in SUBSET DOMAIN q
      BY <2>1
    <3> QED BY <2>1, <3>1, KnownTyped
  <2>4. IsFiniteSet(all)
    <3>1. IsFiniteSet(DOMAIN q)
      BY KnownTyped
    <3> QED BY <2>1, <3>1, FS_Subset
  <2>5. \A k \in all : Values(q)[k] \in Nat
    BY <2>1, KnownTyped
  <2>6. SumFunctionOnSet(Values(q), part) <= SumFunctionOnSet(Values(q), all)
    BY <2>1, <2>4, <2>5, SumPart
  <2> QED BY <2>2, <2>3, <2>6 DEF all
<1>8. UnseenTo(q, at) => UnseenTo(r, bt)
  <2> SUFFICES ASSUME UnseenTo(q, at) PROVE UnseenTo(r, bt)
    OBVIOUS
  <2>1. PICK j \in 1 .. at : q[j] = Unseen
    BY DEF UnseenTo
  <2>2. j \in ks
    BY <1>4, <1>6, <2>1
  <2>3. PICK i \in 1 .. n : nth[i] = j
    BY <1>1, <2>2
  <2>4. i <= bt
    <3>1. SUFFICES ASSUME bt < i PROVE FALSE
      BY <1>1, <1>5, <2>3
    <3>2. nth[bt] < nth[i]
      BY <1>1, <1>5, <2>3, <3>1
    <3> QED BY <1>4, <1>5, <1>6, <2>1, <2>3, <3>2
  <2>5. r[i] = Unseen /\ i \in 1 .. bt
    BY <1>1, <1>5, <2>1, <2>3, <2>4
  <2> QED BY <2>5 DEF UnseenTo
<1>9. NoWorse(q, r, o)
  BY <1>1, <1>2, <1>6, <1>7, <1>8, NoWorseBy
<1> QED BY <1>9 DEF r

\* Every node stays, with no more in it.
LEMMA LessNoWorse ==
  ASSUME NEW q \in Seq(Nodes), NEW who, StandOnce(q, who), NEW o \in Order, o \in who,
         NEW r \in Seq(Nodes), DOMAIN r = DOMAIN q,
         \A k \in DOMAIN q : /\ r[k].who = q[k].who /\ (r[k] = Unseen <=> q[k] = Unseen)
                             /\ Values(r)[k] <= Values(q)[k]
  PROVE  NoWorse(q, r, o) /\ StandOnce(r, who)
<1>1. StandOnce(r, who)
  <2>1. {r[k].who : k \in DOMAIN r} = {q[k].who : k \in DOMAIN q}
    OBVIOUS
  <2>2. \A j, k \in DOMAIN r : IsOwn(r[k]) /\ r[j].who = r[k].who => j = k
    BY DEF StandOnce, IsOwn
  <2> QED BY <2>1, <2>2 DEF StandOnce
<1>2. PICK at \in DOMAIN q : q[at].who = o
  BY PlaceOf
<1>3. DOMAIN q = 1 .. Len(q) /\ Len(q) \in Nat
  BY KnownTyped
<1> DEFINE all == 1 .. at
<1>4. all \in SUBSET DOMAIN q
  BY <1>2, <1>3
<1>5. UnseenTo(q, at) => UnseenTo(r, at)
  BY <1>4 DEF UnseenTo
<1> HIDE DEF all
<1>6. KnownIn(r, all) <= KnownIn(q, all)
  <2>1. /\ KnownIn(q, all) = SumFunctionOnSet(Values(q), all) /\ KnownIn(r, all) = SumFunctionOnSet(Values(r), all)
    BY <1>4, KnownTyped
  <2>2. IsFiniteSet(all)
    <3>1. IsFiniteSet(DOMAIN q)
      BY KnownTyped
    <3> QED BY <1>4, <3>1, FS_Subset
  <2>3. \A k \in all : Values(r)[k] \in Int /\ Values(q)[k] \in Int /\ Values(r)[k] <= Values(q)[k]
    <3> TAKE k \in all
    <3>1. k \in DOMAIN q /\ k \in DOMAIN r
      BY <1>4
    <3>2. Values(q)[k] \in Nat
      BY <3>1, KnownTyped
    <3>3. Values(r)[k] \in Nat
      BY <3>1, KnownTyped
    <3> QED BY <3>1, <3>2, <3>3
  <2>4. SumFunctionOnSet(Values(r), all) <= SumFunctionOnSet(Values(q), all)
    BY <2>2, <2>3, SumGrows
  <2> QED BY <2>1, <2>4
<1>7. r[at].who = o /\ at \in DOMAIN r
  BY <1>2
<1>8. NoWorse(q, r, o)
  BY <1>1, <1>2, <1>5, <1>6, <1>7, NoWorseBy DEF all
<1> QED BY <1>1, <1>8

\* What joins a queue joins it behind.
LEMMA AppendNoWorse ==
  ASSUME NEW q \in Seq(Nodes), NEW who, StandOnce(q, who), NEW o \in Order, o \in who,
         NEW n \in Nodes, n.who \notin who
  PROVE  /\ NoWorse(q, Append(q, n), o) /\ Append(q, n) \in Seq(Nodes)
         /\ StandOnce(Append(q, n), who \cup ({n.who} \ {Nobody}))
<1> DEFINE r == Append(q, n)
<1>1. StandOnce(r, who \cup ({n.who} \ {Nobody}))
  BY AppendStands
<1>2. PICK at \in DOMAIN q : q[at].who = o
  BY PlaceOf
<1>3. DOMAIN q = 1 .. Len(q) /\ Len(q) \in Nat
  BY KnownTyped
<1>4. /\ r \in Seq(Nodes) /\ DOMAIN r = DOMAIN q \cup {Len(q) + 1}
      /\ \A k \in DOMAIN q : r[k] = q[k]
      /\ \A ks \in SUBSET DOMAIN q : KnownIn(r, ks) = KnownIn(q, ks)
  BY Appended
<1> HIDE DEF r
<1>5. 1 .. at \in SUBSET DOMAIN q
  BY <1>2, <1>3
<1>6. UnseenTo(q, at) => UnseenTo(r, at)
  BY <1>4, <1>5 DEF UnseenTo
<1>7. KnownIn(r, 1 .. at) <= KnownIn(q, 1 .. at)
  <2>1. KnownIn(q, 1 .. at) \in Nat
    BY <1>5, KnownTyped
  <2> QED BY <1>4, <1>5, <2>1
<1>8. r[at].who = o /\ at \in DOMAIN r
  BY <1>2, <1>4
<1>9. NoWorse(q, r, o)
  BY <1>1, <1>2, <1>4, <1>6, <1>7, <1>8, NoWorseBy
<1> QED BY <1>1, <1>4, <1>9 DEF r

\* A blinded queue shows nothing ahead of anyone.
LEMMA BlindedNoWorse ==
  ASSUME NEW q \in Seq(Nodes), NEW who, StandOnce(q, who), NEW o \in Order, o \in who
  PROVE  NoWorse(q, Blinded(q), o)
<1> DEFINE r == Blinded(q)
<1>1. r \in Seq(Nodes) /\ StandOnce(r, who)
  BY BlindedIs
<1>2. PICK at \in DOMAIN q : q[at].who = o
  BY PlaceOf
<1>3. HoldsOwn(q)
  BY <1>2, NodesAre DEF HoldsOwn, IsOwn
<1> DEFINE own == Kept(q, {k \in DOMAIN q : IsOwn(q[k])})
<1>4. own \in Seq(Nodes)
  <2> DEFINE ks == {k \in DOMAIN q : IsOwn(q[k])}
  <2>1. ks \in SUBSET DOMAIN q
    OBVIOUS
  <2> HIDE DEF ks
  <2>2. Kept(q, ks) \in Seq(Nodes)
    BY <2>1, KeptNth
  <2> QED BY <2>2 DEF ks
<1>5. r = <<Unseen>> \o own
  BY <1>3 DEF Blinded
<1> HIDE DEF r, own
<1>6. r[1] = Unseen
  <2>1. Unseen \in Nodes
    BY NodesAre
  <2>2. <<Unseen>> \in Seq(Nodes) /\ Len(<<Unseen>>) = 1 /\ <<Unseen>>[1] = Unseen
    BY <2>1
  <2> QED BY <1>4, <1>5, <2>2
<1>7. PICK bt \in DOMAIN r : r[bt].who = o
  BY <1>1, PlaceOf
<1>8. UnseenTo(r, bt)
  <2>1. DOMAIN r = 1 .. Len(r) /\ Len(r) \in Nat
    BY <1>1, KnownTyped
  <2>2. 1 \in 1 .. bt
    BY <1>7, <2>1
  <2> QED BY <1>6, <2>2 DEF UnseenTo
<1>9. AheadOf(r, o) = Hidden
  BY <1>1, <1>7, <1>8, AheadIs
<1>10. AheadOf(q, o) \in Nat \cup {Hidden}
  BY <1>2, AheadIs
<1>11. NoWorse(q, r, o)
  BY <1>9, <1>10 DEF NoWorse, Hidden
<1> QED BY <1>11 DEF r

\* Shrinking takes of what stands ahead, if anything.
LEMMA ShrunkNoWorse ==
  ASSUME NEW q \in Seq(Nodes), NEW who, StandOnce(q, who), NEW o \in Order, o \in who, NEW excess \in Nat
  PROVE  NoWorse(q, Shrunk(q, excess), o)
<1> DEFINE r == Thinned(q, excess)
           ks == {k \in DOMAIN q : r[k] # Public(0)}
<1>1. /\ r \in Seq(Nodes) /\ DOMAIN r = DOMAIN q
      /\ \A k \in DOMAIN q : /\ r[k].who = q[k].who /\ (r[k] = Unseen <=> q[k] = Unseen)
                             /\ Values(r)[k] <= Values(q)[k]
  BY ThinnedIs
<1>2. Shrunk(q, excess) = Kept(r, ks)
  BY DEF Shrunk, Thinned, Left
<1>3. /\ ks \in SUBSET DOMAIN r
      /\ \A k \in DOMAIN r : k \notin ks => r[k] = Public(0)
  BY <1>1
<1> HIDE DEF r, ks
<1>4. NoWorse(q, r, o) /\ StandOnce(r, who)
  BY <1>1, LessNoWorse
<1>5. Public(0).who = Nobody /\ Public(0) # Unseen /\ o # Nobody
  BY NodesAre DEF Public
<1>6. PICK at \in DOMAIN r : r[at].who = o
  BY <1>1, <1>4, PlaceOf
<1>7. at \in ks /\ \A k \in DOMAIN r : r[k] = Unseen => k \in ks
  BY <1>3, <1>5, <1>6
<1>8. NoWorse(r, Kept(r, ks), o)
  BY <1>1, <1>3, <1>4, <1>6, <1>7, KeptNoWorse
<1>9. /\ Kept(r, ks) \in Seq(Nodes)
      /\ StandOnce(Kept(r, ks), {r[k].who : k \in ks} \ {Nobody})
  BY <1>1, <1>3, <1>4, KeptNth, KeptStand
<1>10. o \in {r[k].who : k \in ks} \ {Nobody}
  BY <1>5, <1>6, <1>7
<1>11. NoWorse(q, Kept(r, ks), o)
  BY <1>1, <1>4, <1>8, <1>9, <1>10, NoWorseTwice
<1> QED BY <1>2, <1>11

\* What joins a level joins it behind, what leaves it leaves from behind.
LEMMA ReconciledNoWorse ==
  ASSUME NEW q \in Seq(Nodes), NEW who, StandOnce(q, who), NEW o \in Order, o \in who, NEW visible \in Nat
  PROVE  NoWorse(q, Reconciled(q, visible), o)
<1>1. KnownQty(q) \in Nat
  BY KnownTyped
<1>2. CASE HasUnseen(q)
  <2>1. Reconciled(q, visible) = q
    BY <1>2 DEF Reconciled
  <2> QED BY <2>1, NoWorseSame
<1>3. CASE ~ HasUnseen(q) /\ KnownQty(q) < visible
  <2> DEFINE n == Public(visible - KnownQty(q))
  <2>1. n \in Nodes
    BY <1>1, <1>3, NodesAre
  <2>2. n.who = Nobody /\ Nobody \notin who
    BY DEF Public, StandOnce
  <2>3. Reconciled(q, visible) = Append(q, n)
    BY <1>3 DEF Reconciled
  <2> HIDE DEF n
  <2>4. n.who \notin who
    BY <2>2
  <2> QED BY <2>1, <2>3, <2>4, AppendNoWorse
<1>4. CASE ~ HasUnseen(q) /\ ~ (KnownQty(q) < visible)
  <2>1. KnownQty(q) - visible \in Nat
    BY <1>1, <1>4
  <2>2. Reconciled(q, visible) = Shrunk(q, KnownQty(q) - visible)
    BY <1>4 DEF Reconciled
  <2> QED BY <2>1, <2>2, ShrunkNoWorse
<1> QED BY <1>2, <1>3, <1>4

\* Where an order stands, the queue is not vacant.
LEMMA StandsSo ==
  ASSUME NEW q \in Seq(Nodes), NEW who, StandOnce(q, who), NEW o \in Order, o \in who
  PROVE  HoldsOwn(q) /\ q # <<>>
<1>1. PICK at \in DOMAIN q : q[at].who = o
  BY PlaceOf
<1>2. o # Nobody
  BY NodesAre
<1> QED BY <1>1, <1>2 DEF HoldsOwn, IsOwn

\* Where an order stands that rests.
LEMMA RestsAt ==
  ASSUME NEW os, OrdersOk(os), NEW o \in Order, NEW s \in Sides, RestsOn(os[o], s)
  PROVE  os[o].price \in Prices /\ o \in StandsAt(os, s, os[o].price) /\ os[o].side = s
<1>1. RowOk(os[o])
  BY RowOr DEF RestsOn
<1>2. os[o].price \in Prices
  BY <1>1, RowIs
<1> QED BY <1>2 DEF StandsAt, RestsOn

-----------------------------------------------------------------------------
\* No order that rests before and after a step comes to stand behind more.
PlacesHold(lad, ln, os, osn) ==
  \A o \in Order, s \in Sides :
    RestsOn(os[o], s) /\ osn[o].phase = "resting" => NoWorse(lad[s][os[o].price], ln[s][os[o].price], o)

\* A step that leaves the queues alone.
LEMMA SamePlaces ==
  ASSUME NEW lad, NEW os, NEW osn, NEW b, OrdersOk(os), QueuesOk(lad, os, b)
  PROVE  PlacesHold(lad, lad, os, osn)
<1> SUFFICES ASSUME NEW o \in Order, NEW s \in Sides, RestsOn(os[o], s)
             PROVE  NoWorse(lad[s][os[o].price], lad[s][os[o].price], o)
  BY DEF PlacesHold
<1> DEFINE p == os[o].price
<1>1. p \in Prices /\ o \in StandsAt(os, s, p)
  BY RestsAt
<1> HIDE DEF p
<1>2. lad[s][p] \in Seq(Nodes) /\ StandOnce(lad[s][p], StandsAt(os, s, p))
  BY <1>1, QueueIs
<1>3. NoWorse(lad[s][p], lad[s][p], o)
  BY <1>1, <1>2, NoWorseSame
<1> QED BY <1>3 DEF p

\* A suspension: what stood ahead cannot be known any more.
LEMMA SuspendPlaces ==
  ASSUME NEW lad, NEW os, NEW osn, NEW b, OrdersOk(os), QueuesOk(lad, os, b),
         NEW ln, ln = [s \in Sides |-> [p \in Prices |-> Blinded(lad[s][p])]]
  PROVE  PlacesHold(lad, ln, os, osn)
<1> SUFFICES ASSUME NEW o \in Order, NEW s \in Sides, RestsOn(os[o], s)
             PROVE  NoWorse(lad[s][os[o].price], ln[s][os[o].price], o)
  BY DEF PlacesHold
<1> DEFINE p == os[o].price
<1>1. p \in Prices /\ o \in StandsAt(os, s, p)
  BY RestsAt
<1> HIDE DEF p
<1>2. lad[s][p] \in Seq(Nodes) /\ StandOnce(lad[s][p], StandsAt(os, s, p))
  BY <1>1, QueueIs
<1>3. ln[s][p] = Blinded(lad[s][p])
  BY <1>1
<1>4. NoWorse(lad[s][p], ln[s][p], o)
  BY <1>1, <1>2, <1>3, BlindedNoWorse
<1> QED BY <1>4 DEF p

\* A depth commit: what joins a level stands behind, what left it stood behind.
LEMMA CappedPlaces ==
  ASSUME NEW lad, NEW os, NEW osn, NEW b, OrdersOk(os), QueuesOk(lad, os, b), NEW bn \in Books,
         NEW ln, ln = [s \in Sides |-> Capped(lad[s], s, bn)]
  PROVE  PlacesHold(lad, ln, os, osn)
<1> SUFFICES ASSUME NEW o \in Order, NEW s \in Sides, RestsOn(os[o], s)
             PROVE  NoWorse(lad[s][os[o].price], ln[s][os[o].price], o)
  BY DEF PlacesHold
<1> DEFINE p == os[o].price
           v == VisibleAt(bn, s, p)
<1>1. p \in Prices /\ o \in StandsAt(os, s, p)
  BY RestsAt
<1> HIDE DEF p
<1>2. lad[s][p] \in Seq(Nodes) /\ StandOnce(lad[s][p], StandsAt(os, s, p))
  BY <1>1, QueueIs
<1>3. lad[s][p] # <<>>
  BY <1>1, <1>2, StandsSo
<1>4. ln[s][p] = IF v = Hidden THEN Blinded(lad[s][p]) ELSE Reconciled(lad[s][p], v)
  <2>1. ln[s] = Capped(lad[s], s, bn)
    OBVIOUS
  <2> QED BY <1>1, <1>3, <2>1 DEF Capped
<1>5. v # Hidden => v \in Nat
  BY <1>1, VisibleIs
<1> HIDE DEF v
<1>6. NoWorse(lad[s][p], ln[s][p], o)
  BY <1>1, <1>2, <1>4, <1>5, BlindedNoWorse, ReconciledNoWorse
<1> QED BY <1>6 DEF p

-----------------------------------------------------------------------------
(***************************************************************************)
(* Every step keeps the places                                             *)
(***************************************************************************)
\* A queue drops what is vacant; where an order stands, it is not.
LEMMA VacantNoWorse ==
  ASSUME NEW q \in Seq(Nodes), NEW who, StandOnce(q, who), NEW o \in Order, o \in who,
         NEW ks \in SUBSET DOMAIN q, NEW at \in ks, q[at].who = o,
         \A k \in DOMAIN q : q[k] = Unseen => k \in ks,
         NEW r, r = (IF HoldsOwn(Kept(q, ks)) THEN Kept(q, ks) ELSE <<>>)
  PROVE  NoWorse(q, r, o)
<1>1. /\ Kept(q, ks) \in Seq(Nodes)
      /\ StandOnce(Kept(q, ks), {q[k].who : k \in ks} \ {Nobody})
  BY KeptNth, KeptStand
<1>2. o \in {q[k].who : k \in ks} \ {Nobody}
  BY NodesAre
<1>3. HoldsOwn(Kept(q, ks))
  BY <1>1, <1>2, StandsSo
<1>4. NoWorse(q, Kept(q, ks), o)
  BY KeptNoWorse
<1> QED BY <1>3, <1>4

\* Others withdraw.
LEMMA ClosedPlaces ==
  ASSUME NEW lad, NEW os, NEW osn, NEW b, OrdersOk(os), QueuesOk(lad, os, b), NEW gone \in SUBSET Order,
         \A o \in gone : osn[o].phase # "resting",
         NEW ln, ln = Withdrawn(lad, gone)
  PROVE  PlacesHold(lad, ln, os, osn)
<1> SUFFICES ASSUME NEW o \in Order, NEW s \in Sides, RestsOn(os[o], s), osn[o].phase = "resting"
             PROVE  NoWorse(lad[s][os[o].price], ln[s][os[o].price], o)
  BY DEF PlacesHold
<1> DEFINE p == os[o].price
           q == lad[s][p]
           ks == {k \in DOMAIN q : q[k].who \notin gone}
<1>1. p \in Prices /\ o \in StandsAt(os, s, p) /\ o \notin gone
  BY RestsAt
<1> HIDE DEF p
<1>2. q \in Seq(Nodes) /\ StandOnce(q, StandsAt(os, s, p))
  BY <1>1, QueueIs
<1>3. ln[s][p] = IF HoldsOwn(Kept(q, ks)) THEN Kept(q, ks) ELSE <<>>
  BY <1>1 DEF Withdrawn, WithoutVacant
<1>4. PICK at \in DOMAIN q : q[at].who = o
  BY <1>1, <1>2, PlaceOf
<1>5. /\ ks \in SUBSET DOMAIN q /\ at \in ks
      /\ \A k \in DOMAIN q : q[k] = Unseen => k \in ks
  <2>1. Unseen.who = Nobody /\ Nobody \notin gone
    BY NodesAre DEF Unseen, Public
  <2> QED BY <1>1, <1>4, <2>1
<1> HIDE DEF q, ks
<1>6. NoWorse(q, ln[s][p], o)
  BY <1>1, <1>2, <1>3, <1>4, <1>5, VacantNoWorse
<1> QED BY <1>6 DEF p, q

\* Another joins a queue.
LEMMA JoinPlaces ==
  ASSUME NEW lad, NEW os, NEW osn, NEW b \in Books, OrdersOk(os), QueuesOk(lad, os, b), NEW x \in Order,
         NEW side \in Sides, NEW price \in Prices, \A s \in Sides : ~ RestsOn(os[x], s),
         NEW ln, ln = Joined(lad, b, side, price, x)
  PROVE  PlacesHold(lad, ln, os, osn)
<1> SUFFICES ASSUME NEW o \in Order, NEW s \in Sides, RestsOn(os[o], s)
             PROVE  NoWorse(lad[s][os[o].price], ln[s][os[o].price], o)
  BY DEF PlacesHold
<1> DEFINE p == os[o].price
           q == lad[s][p]
           v == VisibleAt(b, s, p)
           who == StandsAt(os, s, p)
           w == IF v = Hidden THEN Append(q, Unseen) ELSE Reconciled(q, v)
<1>1. p \in Prices /\ o \in who
  BY RestsAt
<1>2. x \notin who
  BY DEF StandsAt
<1> HIDE DEF p, who
<1>3. q \in Seq(Nodes) /\ StandOnce(q, who)
  BY <1>1, QueueIs DEF who
<1>4. lad \in [Sides -> [Prices -> Seq(Nodes)]]
  BY DEF QueuesOk
<1>5. CASE s = side /\ p = price
  <2>1. ln[s][p] = Append(w, Own(x))
    BY <1>1, <1>4, <1>5 DEF Joined
  <2>2. v # Hidden => v \in Nat
    BY <1>1, VisibleIs
  <2>3. Unseen \in Nodes /\ Unseen.who = Nobody /\ Nobody \notin who
    BY <1>3, NodesAre DEF Unseen, Public, StandOnce
  <2>4. who \cup ({Nobody} \ {Nobody}) = who
    OBVIOUS
  <2> HIDE DEF q, v
  <2>5. w \in Seq(Nodes) /\ StandOnce(w, who) /\ NoWorse(q, w, o)
    <3>1. CASE v = Hidden
      <4>1. /\ NoWorse(q, Append(q, Unseen), o) /\ Append(q, Unseen) \in Seq(Nodes)
            /\ StandOnce(Append(q, Unseen), who \cup ({Unseen.who} \ {Nobody}))
        BY <1>1, <1>3, <2>3, AppendNoWorse
      <4>2. StandOnce(Append(q, Unseen), who)
        BY <2>3, <2>4, <4>1
      <4> QED BY <3>1, <4>1, <4>2
    <3>2. CASE v # Hidden
      <4>1. Reconciled(q, v) \in Seq(Nodes) /\ StandOnce(Reconciled(q, v), who)
        BY <1>3, <2>2, <3>2, ReconciledIs
      <4>2. NoWorse(q, Reconciled(q, v), o)
        BY <1>1, <1>3, <2>2, <3>2, ReconciledNoWorse
      <4> QED BY <3>2, <4>1, <4>2
    <3> QED BY <3>1, <3>2
  <2> HIDE DEF w
  <2>6. Own(x) \in Nodes /\ Own(x).who = x
    BY NodesAre DEF Own
  <2>7. /\ NoWorse(w, Append(w, Own(x)), o) /\ Append(w, Own(x)) \in Seq(Nodes)
        /\ StandOnce(Append(w, Own(x)), who \cup ({x} \ {Nobody}))
    <3>1. Own(x).who \notin who
      BY <1>2, <2>6
    <3> QED BY <1>1, <2>5, <2>6, <3>1, AppendNoWorse
  <2>8. NoWorse(q, Append(w, Own(x)), o)
    <3>1. o \in who \cup ({x} \ {Nobody})
      BY <1>1
    <3> QED BY <1>1, <1>3, <2>5, <2>7, <3>1, NoWorseTwice
  <2> QED BY <2>1, <2>8 DEF p, q
<1>6. CASE ~ (s = side /\ p = price)
  <2>1. ln[s][p] = q
    BY <1>1, <1>4, <1>6 DEF Joined
  <2>2. NoWorse(q, q, o)
    BY <1>1, <1>3, NoWorseSame
  <2> QED BY <2>1, <2>2 DEF p, q
<1> QED BY <1>5, <1>6

\* A print takes of what stands ahead.
LEMMA MatchPlaces ==
  ASSUME OrdersTyped, OrdersOk(orders), QueuesOk(ladders, orders, book), WalletOk(orders, funds, fees),
         NEW print \in Prints, Match(print)
  PROVE  PlacesHold(ladders, ladders', orders, orders')
<1> SUFFICES ASSUME NEW o \in Order, NEW s \in Sides, RestsOn(orders[o], s), orders'[o].phase = "resting"
             PROVE  NoWorse(ladders[s][orders[o].price], ladders'[s][orders[o].price], o)
  BY DEF PlacesHold
<1> DEFINE side  == Opposite(print.side)
           l     == ladders[side]
           taken == Taken(l, side, print)
           got   == Got(l, taken)
           p     == orders[o].price
           q     == ladders[s][p]
<1>1. side \in Sides /\ Stands(l, side) /\ ladders \in [Sides -> [Prices -> Seq(Nodes)]]
  BY MatchIs
<1>2. ladders' = [ladders EXCEPT ![side] = WithoutVacant([r \in Prices |-> Walked(l, taken, r)])]
  BY MatchIs
<1>3. o \notin Whole(got)
  <2>1. ASSUME o \in Whole(got) PROVE FALSE
    <3>1. /\ OrdersOk(orders) /\ Fits(orders, got, side) /\ o \in Hits(got)
          /\ orders'[o] = FilledBy(orders[o], got[o])
      BY <2>1, MatchIs DEF Whole, Hits
    <3>2. got[o] = orders[o].qty - orders[o].filled
      BY <2>1 DEF Whole, Open
    <3> HIDE DEF got, side
    <3>3. /\ RowOk(orders[o]) /\ orders[o].phase = "resting" /\ got[o] \in Nat /\ got[o] > 0
          /\ got[o] <= orders[o].qty - orders[o].filled
      BY <1>1, <3>1, HitIs
    <3>4. FilledBy(orders[o], got[o]).phase = "closed"
      BY <1>1, <3>2, <3>3, FilledIs
    <3> QED BY <3>1, <3>4
  <2> QED BY <2>1
<1>4. p \in Prices /\ o \in StandsAt(orders, s, p)
  BY RestsAt
<1> HIDE DEF p
<1>5. q \in Seq(Nodes) /\ StandOnce(q, StandsAt(orders, s, p))
  BY <1>4, QueueIs
<1> HIDE DEF side
<1>6. CASE s = side
  <2> DEFINE left == Thinner(l, taken, p)
             ks   == Staying(l, taken, p)
             who  == StandsAt(orders, s, p)
             kept == Kept(left, ks)
  <2>1. q = l[p] /\ s \in Sides
    BY <1>6
  <2>2. /\ DOMAIN left = DOMAIN q /\ left \in Seq(Nodes)
        /\ \A k \in DOMAIN q : /\ left[k].who = q[k].who /\ (left[k] = Unseen <=> q[k] = Unseen)
                              /\ Values(left)[k] <= Values(q)[k]
    BY <1>1, <1>4, <2>1, ThinnerIs
  <2>3. Walked(l, taken, p) = kept
    BY <2>1, <2>2 DEF Walked, Staying, Thinner
  <2>4. ks = {k \in DOMAIN left : left[k] # Public(0) /\ left[k].who \notin Whole(got)}
    BY <2>1, <2>2 DEF Staying
  <2>5. ladders'[s][p] = IF HoldsOwn(kept) THEN kept ELSE <<>>
    <3> HIDE DEF kept, l, taken
    <3>1. ladders'[s] = WithoutVacant([r \in Prices |-> Walked(l, taken, r)])
      BY <1>1, <1>2, <1>6
    <3> QED BY <1>4, <2>3, <3>1 DEF WithoutVacant
  <2>6. \A x \in Whole(got) : x # Nobody
    BY NodesAre DEF Whole
  <2> HIDE DEF left, ks, who, got, taken, l, q
  <2>7. NoWorse(q, left, o) /\ StandOnce(left, who)
    BY <1>4, <1>5, <2>2, LessNoWorse DEF who
  <2>8. PICK at \in DOMAIN left : left[at].who = o
    BY <1>4, <2>2, <2>7, PlaceOf DEF who
  <2>9. /\ ks \in SUBSET DOMAIN left /\ at \in ks
        /\ \A k \in DOMAIN left : left[k] = Unseen => k \in ks
    <3>1. Public(0).who = Nobody /\ Public(0) # Unseen /\ o # Nobody /\ Unseen.who = Nobody
      BY NodesAre DEF Public, Unseen
    <3> QED BY <1>3, <2>4, <2>6, <2>8, <3>1
  <2>10. NoWorse(left, kept, o)
    BY <2>2, <2>7, <2>8, <2>9, <1>4, KeptNoWorse DEF who
  <2>11. /\ kept \in Seq(Nodes) /\ StandOnce(kept, {left[k].who : k \in ks} \ {Nobody})
    BY <2>2, <2>7, <2>9, KeptNth, KeptStand
  <2>12. o \in {left[k].who : k \in ks} \ {Nobody}
    BY <2>8, <2>9, NodesAre
  <2> HIDE DEF kept
  <2>13. NoWorse(q, kept, o) /\ HoldsOwn(kept)
    <3>1. o \in who
      BY <1>4 DEF who
    <3>2. q \in Seq(Nodes) /\ StandOnce(q, who)
      BY <1>5 DEF who
    <3>3. NoWorse(q, kept, o)
      BY <2>2, <2>7, <2>10, <2>11, <2>12, <3>1, <3>2, NoWorseTwice
    <3> QED BY <2>11, <2>12, <3>3, StandsSo
  <2> QED BY <2>5, <2>13 DEF p, q
<1>7. CASE s # side
  <2>1. ladders'[s] = ladders[s]
    <3> HIDE DEF l, taken
    <3> QED BY <1>1, <1>2, <1>7
  <2>2. NoWorse(q, q, o)
    BY <1>4, <1>5, NoWorseSame
  <2> QED BY <2>1, <2>2 DEF p
<1> QED BY <1>6, <1>7

\* What the invariant says of the orders and the queues.
LEMMA VenueQueues ==
  ASSUME VenueInv
  PROVE  /\ OrdersTyped /\ OrdersOk(orders) /\ WalletOk(orders, funds, fees)
         /\ QueuesOk(ladders, orders, book) /\ book \in Books
  BY DEF VenueInv, WalletInv, QueueInv, MarketInv

\* Requests that fall due: an order joins a queue, or withdraws from it.
LEMMA DuePlaces == ASSUME VenueInv, RunDue PROVE PlacesHold(ladders, ladders', orders, orders')
<1> DEFINE due == Head(timeline)
<1>1. /\ OrdersTyped /\ OrdersOk(orders) /\ QueuesOk(ladders, orders, book) /\ book \in Books
  BY VenueQueues
<1>2. due.order \in Order /\ due.qty \in Nat
  <2>1. due \in Requests
    BY DEF RunDue, VenueInv
  <2> QED BY <2>1 DEF Requests
<1>3. \/ Activate(due.order)
      \/ RunCancel(due.order)
      \/ RunAmend(due.order, due.qty)
  BY DEF RunDue
<1> HIDE DEF due
<1>4. CASE ladders' = ladders
  BY <1>1, <1>4, SamePlaces
<1>5. ASSUME NEW o \in Order, Activate(o), ladders' # ladders
      PROVE  PlacesHold(ladders, ladders', orders, orders')
  <2> DEFINE r == orders[o]
  <2>1. /\ r.phase = "pending"
        /\ ladders' = [ladders EXCEPT ![r.side][r.price] =
             Append(IF VisibleAt(book, r.side, r.price) = Hidden
                    THEN Append(ladders[r.side][r.price], Unseen)
                    ELSE Reconciled(ladders[r.side][r.price], VisibleAt(book, r.side, r.price)), Own(o))]
    BY <1>5 DEF Activate
  <2>2. RowOk(r)
    BY <1>1, <2>1, RowOr
  <2>3. r.side \in Sides /\ r.price \in Prices
    BY <2>2, RowIs
  <2>4. \A s \in Sides : ~ RestsOn(r, s)
    BY <2>1 DEF RestsOn
  <2>5. ladders' = Joined(ladders, book, r.side, r.price, o)
    BY <2>1 DEF Joined
  <2> QED BY <1>1, <2>3, <2>4, <2>5, JoinPlaces
<1>6. ASSUME NEW o \in Order, RunCancel(o), ladders' # ladders
      PROVE  PlacesHold(ladders, ladders', orders, orders')
  <2>1. /\ orders' = [x \in Order |-> IF x \in {o} THEN [orders[x] EXCEPT !.phase = "closed"] ELSE orders[x]]
        /\ ladders' = Withdrawn(ladders, {o})
        /\ IsOpen(o)
    BY <1>6 DEF RunCancel, Closed, Withdrawn
  <2>2. orders'[o].phase = "closed"
    <3>1. RowOk(orders[o])
      BY <1>1, <2>1, RowOr DEF IsOpen
    <3>2. orders[o] \in Terms
      BY <3>1, RowIs
    <3> QED BY <2>1, <3>2 DEF Terms
  <2>3. \A x \in {o} : orders'[x].phase # "resting"
    BY <2>2
  <2> QED BY <1>1, <2>1, <2>3, ClosedPlaces
<1>7. ASSUME NEW o \in Order, NEW n, RunAmend(o, n) PROVE ladders' = ladders
  BY <1>7 DEF RunAmend
<1> QED BY <1>2, <1>3, <1>4, <1>5, <1>6, <1>7

\* A forced exit.
LEMMA ExitPlaces ==
  ASSUME VenueInv, NEW cancelling \in SUBSET Order, ForceExit(cancelling)
  PROVE  PlacesHold(ladders, ladders', orders, orders')
<1> DEFINE gone == {o \in Order \ cancelling : IsOpen(o)}
<1>1. /\ OrdersTyped /\ OrdersOk(orders) /\ QueuesOk(ladders, orders, book)
  BY VenueQueues
<1>2. /\ orders' = [x \in Order |-> IF x \in gone THEN [orders[x] EXCEPT !.phase = "closed"] ELSE orders[x]]
      /\ ladders' = Withdrawn(ladders, gone)
  BY DEF ForceExit, Closed, Withdrawn
<1>3. gone \in SUBSET Order /\ \A x \in gone : orders[x].phase # "unborn"
  BY DEF IsOpen
<1> HIDE DEF gone
<1>4. ASSUME NEW x \in gone PROVE orders'[x].phase = "closed"
  <2>1. x \in Order /\ RowOk(orders[x])
    BY <1>1, <1>3, RowOr
  <2>2. orders[x] \in Terms
    BY <2>1, RowIs
  <2> QED BY <1>2, <2>1, <2>2 DEF Terms
<1>5. \A x \in gone : orders'[x].phase # "resting"
  BY <1>4
<1> QED BY <1>1, <1>2, <1>3, <1>5, ClosedPlaces

\* The public book changes.
LEMMA DeltaPlaces ==
  ASSUME VenueInv, NEW u \in Updates, NEW isSame \in BOOLEAN, NEW isLast \in BOOLEAN,
         DeltaChunk(u, isSame, isLast)
  PROVE  PlacesHold(ladders, ladders', orders, orders')
<1>1. /\ OrdersOk(orders) /\ QueuesOk(ladders, orders, book) /\ book \in Books /\ staged \in Seq(Updates)
  BY VenueQueues DEF VenueInv, MarketInv
<1>2. CASE staged # <<>> /\ ~ isSame
  BY <1>1, <1>2, SuspendPlaces DEF DeltaChunk, Suspend
<1>3. CASE ~ (staged # <<>> /\ ~ isSame) /\ ~ isLast
  <2>1. ladders' = ladders
    BY <1>3 DEF DeltaChunk
  <2> QED BY <1>1, <2>1, SamePlaces
<1>4. CASE ~ (staged # <<>> /\ ~ isSame) /\ isLast
  <2> DEFINE after == IF isValid THEN FoldLeft(WithLevel, book, Append(staged, u)) ELSE book
  <2>1. ladders' = [s \in Sides |-> Capped(ladders[s], s, after)]
    BY <1>4 DEF DeltaChunk
  <2>2. Append(staged, u) \in Seq(Updates)
    BY <1>1
  <2>3. after \in Books
    BY <1>1, <2>2, FoldTyped
  <2> HIDE DEF after
  <2> QED BY <1>1, <2>1, <2>3, CappedPlaces
<1> QED BY <1>2, <1>3, <1>4

\* A chunk of a snapshot.
LEMMA SnapshotPlaces ==
  ASSUME VenueInv, NEW u \in Updates, NEW isLast \in BOOLEAN, SnapshotChunk(u, isLast)
  PROVE  PlacesHold(ladders, ladders', orders, orders')
<1>1. /\ OrdersOk(orders) /\ QueuesOk(ladders, orders, book)
  BY VenueQueues
<1>2. CASE isValid
  BY <1>1, <1>2, SuspendPlaces DEF SnapshotChunk, Suspend
<1>3. CASE ~ isValid
  <2>1. ladders' = ladders
    BY <1>3 DEF SnapshotChunk
  <2> QED BY <1>1, <2>1, SamePlaces
<1> QED BY <1>2, <1>3

\* Every step keeps the places.
LEMMA StepPlaces == ASSUME VenueInv, [Next]_vars PROVE PlacesHold(ladders, ladders', orders, orders')
<1>1. /\ OrdersTyped /\ OrdersOk(orders) /\ QueuesOk(ladders, orders, book) /\ WalletOk(orders, funds, fees)
  BY VenueQueues
<1>2. CASE \E u \in Updates, isLast \in BOOLEAN :
             \/ SnapshotChunk(u, isLast)
             \/ \E isSame \in BOOLEAN : DeltaChunk(u, isSame, isLast)
  BY <1>2, SnapshotPlaces, DeltaPlaces
<1>3. CASE BookReset \/ Break
  BY <1>1, <1>3, SuspendPlaces DEF BookReset, Break, Suspend
<1>4. CASE Restore
  <2>1. ladders' = ladders
    BY <1>4 DEF Restore
  <2> QED BY <1>1, <2>1, SamePlaces
<1>5. CASE RunDue
  BY <1>5, DuePlaces
<1>6. CASE \E print \in Prints : Trade(print)
  <2>1. PICK print \in Prints : Match(print)
    BY <1>6 DEF Trade
  <2> QED BY <1>1, <2>1, MatchPlaces
<1>7. CASE \E o \in Order : \/ \E t \in Placements : Place(o, t)
                            \/ Cancel(o)
                            \/ \E qty \in AmendQtys : Amend(o, qty)
  <2>1. ladders' = ladders
    BY <1>7 DEF Place, Cancel, Amend, marketVars
  <2> QED BY <1>1, <2>1, SamePlaces
<1>8. CASE \E cancelling \in SUBSET Order : ForceExit(cancelling)
  BY <1>8, ExitPlaces
<1>9. CASE UNCHANGED vars
  <2>1. ladders' = ladders
    BY <1>9 DEF vars
  <2> QED BY <1>1, <2>1, SamePlaces
<1> QED BY <1>2, <1>3, <1>4, <1>5, <1>6, <1>7, <1>8, <1>9 DEF Next

\* What stands ahead of a resting order only shrinks until it cannot be known, whatever
\* the tape, a snapshot, a broken chain or the other orders do (queue.rs).
THEOREM PlacesNeverWorsen == Spec => PlaceNeverWorsens
<1>1. VenueInv /\ [Next]_vars =>
        [\A o \in Order :
           IsResting(o) /\ IsResting(o)' =>
             LET before == AheadOf(ladders[orders[o].side][orders[o].price], o)
                 after  == AheadOf(ladders'[orders[o].side][orders[o].price], o)
             IN IF before = Hidden THEN after = Hidden ELSE after <= before]_vars
  <2> SUFFICES ASSUME VenueInv, [Next]_vars, NEW o \in Order, IsResting(o), IsResting(o)'
               PROVE  NoWorse(ladders[orders[o].side][orders[o].price],
                              ladders'[orders[o].side][orders[o].price], o)
    BY DEF NoWorse
  <2>1. PlacesHold(ladders, ladders', orders, orders')
    BY StepPlaces
  <2>2. orders[o].side \in Sides /\ RestsOn(orders[o], orders[o].side)
    <3>1. RowOk(orders[o])
      BY VenueQueues, RowOr DEF IsResting
    <3> QED BY <3>1, RowIs DEF IsResting, RestsOn
  <2>3. orders'[o].phase = "resting"
    BY DEF IsResting
  <2> QED BY <2>1, <2>2, <2>3 DEF PlacesHold
<1> QED BY <1>1, VenueSafe, PTL DEF Spec, PlaceNeverWorsens

-----------------------------------------------------------------------------
(***************************************************************************)
(* The order of the queues                                                 *)
(***************************************************************************)
\* The own orders of a queue stand in the order they were placed in.
Lined(q) == \A j, k \in DOMAIN q : j < k /\ IsOwn(q[j]) /\ IsOwn(q[k]) => q[j].who < q[k].who

AllLined(lad) == \A s \in Sides, p \in Prices : Lined(lad[s][p])

\* An empty queue does.
LEMMA EmptyLined == Lined(<<>>)
<1>1. DOMAIN <<>> = {}
  BY EmptySeq
<1> QED BY <1>1 DEF Lined

\* Some nodes go.
LEMMA KeptLined ==
  ASSUME NEW q \in Seq(Nodes), NEW ks \in SUBSET DOMAIN q, Lined(q)
  PROVE  Lined(Kept(q, ks))
<1> DEFINE r == Kept(q, ks)
           n == Cardinality(ks)
           nth == Nth(ks)
<1>1. /\ DOMAIN r = 1 .. n /\ nth \in [1 .. n -> ks]
      /\ \A i \in 1 .. n : r[i] = q[nth[i]]
      /\ \A i, j \in 1 .. n : i < j => nth[i] < nth[j]
  BY KeptNth
<1> HIDE DEF r, n, nth
<1>2. SUFFICES ASSUME NEW i \in 1 .. n, NEW j \in 1 .. n, i < j, IsOwn(r[i]), IsOwn(r[j])
               PROVE  r[i].who < r[j].who
  BY <1>1 DEF Lined, r
<1>3. nth[i] \in DOMAIN q /\ nth[j] \in DOMAIN q /\ nth[i] < nth[j] /\ r[i] = q[nth[i]] /\ r[j] = q[nth[j]]
  BY <1>1, <1>2
<1> QED BY <1>2, <1>3 DEF Lined

\* What each node holds changes.
LEMMA LessLined ==
  ASSUME NEW q, NEW r, Lined(q), DOMAIN r = DOMAIN q, \A k \in DOMAIN q : r[k].who = q[k].who
  PROVE  Lined(r)
  BY DEF Lined, IsOwn

\* One more joins behind.
LEMMA AppendLined ==
  ASSUME NEW q \in Seq(Nodes), NEW n \in Nodes, Lined(q),
         IsOwn(n) => \A k \in DOMAIN q : IsOwn(q[k]) => q[k].who < n.who
  PROVE  Lined(Append(q, n))
<1> DEFINE r == Append(q, n)
<1>1. /\ DOMAIN r = DOMAIN q \cup {Len(q) + 1} /\ r[Len(q) + 1] = n
      /\ \A k \in DOMAIN q : r[k] = q[k]
  BY Appended
<1>2. DOMAIN q = 1 .. Len(q) /\ Len(q) \in Nat
  BY KnownTyped
<1> HIDE DEF r
<1>3. SUFFICES ASSUME NEW j \in DOMAIN r, NEW k \in DOMAIN r, j < k, IsOwn(r[j]), IsOwn(r[k])
               PROVE  r[j].who < r[k].who
  BY DEF Lined, r
<1>4. j \in DOMAIN q
  BY <1>1, <1>2, <1>3
<1>5. CASE k \in DOMAIN q
  BY <1>1, <1>3, <1>4, <1>5 DEF Lined
<1>6. CASE k = Len(q) + 1
  BY <1>1, <1>3, <1>4, <1>6
<1> QED BY <1>1, <1>5, <1>6

\* Each thing that happens to a queue keeps the order of its own orders.
LEMMA BlindedLined == ASSUME NEW q \in Seq(Nodes), Lined(q) PROVE Lined(Blinded(q))
<1> DEFINE ks == {k \in DOMAIN q : IsOwn(q[k])}
           own == Kept(q, ks)
           r == <<Unseen>> \o own
<1>1. ks \in SUBSET DOMAIN q
  OBVIOUS
<1>2. Blinded(q) = IF HoldsOwn(q) THEN r ELSE <<>>
  BY DEF Blinded
<1> HIDE DEF ks
<1>3. Lined(own) /\ own \in Seq(Nodes)
  BY <1>1, KeptLined, KeptNth
<1> HIDE DEF own
<1>4. Unseen \in Nodes /\ ~ IsOwn(Unseen)
  BY NodesAre
<1>5. /\ DOMAIN r = 1 .. Len(own) + 1 /\ Len(own) \in Nat /\ DOMAIN own = 1 .. Len(own) /\ r[1] = Unseen
      /\ \A k \in 2 .. Len(own) + 1 : r[k] = own[k - 1]
  <2>1. <<Unseen>> \in Seq(Nodes) /\ Len(<<Unseen>>) = 1 /\ <<Unseen>>[1] = Unseen
    BY <1>4
  <2> QED BY <1>3, <2>1
<1> HIDE DEF r
<1>6. Lined(r)
  <2>1. SUFFICES ASSUME NEW j \in DOMAIN r, NEW k \in DOMAIN r, j < k, IsOwn(r[j]), IsOwn(r[k])
                 PROVE  r[j].who < r[k].who
    BY DEF Lined
  <2>2. j # 1 /\ k # 1
    BY <1>4, <1>5, <2>1
  <2>3. /\ j - 1 \in DOMAIN own /\ k - 1 \in DOMAIN own /\ j - 1 < k - 1
        /\ r[j] = own[j - 1] /\ r[k] = own[k - 1]
    BY <1>5, <2>1, <2>2
  <2> QED BY <1>3, <2>1, <2>3 DEF Lined
<1> QED BY <1>2, <1>6, EmptyLined

\* What joins a level or leaves it moves no order.
LEMMA ReconciledLined ==
  ASSUME NEW q \in Seq(Nodes), Lined(q), NEW visible \in Nat PROVE Lined(Reconciled(q, visible))
<1>1. KnownQty(q) \in Nat
  BY KnownTyped
<1>2. CASE HasUnseen(q)
  BY <1>2 DEF Reconciled
<1>3. CASE ~ HasUnseen(q) /\ KnownQty(q) < visible
  <2> DEFINE n == Public(visible - KnownQty(q))
  <2>1. n \in Nodes /\ ~ IsOwn(n)
    BY <1>1, <1>3, NodesAre
  <2>2. Reconciled(q, visible) = Append(q, n)
    BY <1>3 DEF Reconciled
  <2> HIDE DEF n
  <2> QED BY <2>1, <2>2, AppendLined
<1>4. CASE ~ HasUnseen(q) /\ ~ (KnownQty(q) < visible)
  <2> DEFINE e == KnownQty(q) - visible
             r == Thinned(q, e)
             ks == {k \in DOMAIN q : r[k] # Public(0)}
  <2>1. e \in Nat
    BY <1>1, <1>4
  <2>2. Reconciled(q, visible) = Kept(r, ks)
    BY <1>4 DEF Reconciled, Shrunk, Thinned, Left
  <2> HIDE DEF e
  <2>3. /\ r \in Seq(Nodes) /\ DOMAIN r = DOMAIN q
        /\ \A k \in DOMAIN q : r[k].who = q[k].who
    BY <2>1, ThinnedIs
  <2>4. Lined(r)
    BY <2>3, LessLined
  <2>5. ks \in SUBSET DOMAIN r
    BY <2>3
  <2> HIDE DEF r, ks
  <2> QED BY <2>2, <2>3, <2>4, <2>5, KeptLined
<1> QED BY <1>2, <1>3, <1>4

-----------------------------------------------------------------------------
\* And so for the ladders: a suspension,
LEMMA SuspendLined ==
  ASSUME NEW lad \in [Sides -> [Prices -> Seq(Nodes)]], AllLined(lad), NEW ln,
         ln = [s \in Sides |-> [p \in Prices |-> Blinded(lad[s][p])]]
  PROVE  AllLined(ln)
<1> SUFFICES ASSUME NEW s \in Sides, NEW p \in Prices PROVE Lined(ln[s][p])
  BY DEF AllLined
<1>1. lad[s][p] \in Seq(Nodes) /\ Lined(lad[s][p]) /\ ln[s][p] = Blinded(lad[s][p])
  BY DEF AllLined
<1> QED BY <1>1, BlindedLined

\* a depth commit,
LEMMA CappedLined ==
  ASSUME NEW lad \in [Sides -> [Prices -> Seq(Nodes)]], AllLined(lad), NEW b \in Books,
         NEW ln, ln = [s \in Sides |-> Capped(lad[s], s, b)]
  PROVE  AllLined(ln)
<1> SUFFICES ASSUME NEW s \in Sides, NEW p \in Prices PROVE Lined(ln[s][p])
  BY DEF AllLined
<1> DEFINE q == lad[s][p]
           v == VisibleAt(b, s, p)
<1>1. q \in Seq(Nodes) /\ Lined(q)
  BY DEF AllLined
<1>2. ln[s][p] = IF q = <<>> THEN <<>> ELSE IF v = Hidden THEN Blinded(q) ELSE Reconciled(q, v)
  <2>1. ln[s] = Capped(lad[s], s, b)
    OBVIOUS
  <2> QED BY <2>1 DEF Capped
<1>3. v # Hidden => v \in Nat
  BY VisibleIs
<1> HIDE DEF q, v
<1> QED BY <1>1, <1>2, <1>3, EmptyLined, BlindedLined, ReconciledLined

\* orders that close,
LEMMA ClosedLined ==
  ASSUME NEW lad \in [Sides -> [Prices -> Seq(Nodes)]], AllLined(lad), NEW gone,
         NEW ln, ln = Withdrawn(lad, gone)
  PROVE  AllLined(ln)
<1> SUFFICES ASSUME NEW s \in Sides, NEW p \in Prices PROVE Lined(ln[s][p])
  BY DEF AllLined
<1> DEFINE q == lad[s][p]
           ks == {k \in DOMAIN q : q[k].who \notin gone}
<1>1. q \in Seq(Nodes) /\ Lined(q) /\ ks \in SUBSET DOMAIN q
  BY DEF AllLined
<1>2. ln[s][p] = IF HoldsOwn(Kept(q, ks)) THEN Kept(q, ks) ELSE <<>>
  BY DEF Withdrawn, WithoutVacant
<1> HIDE DEF q, ks
<1> QED BY <1>1, <1>2, EmptyLined, KeptLined

\* one that joins, placed after all that stand there,
LEMMA JoinLined ==
  ASSUME NEW lad \in [Sides -> [Prices -> Seq(Nodes)]], AllLined(lad), NEW b \in Books, NEW o \in Order,
         NEW side \in Sides, NEW price \in Prices, NEW os, QueuesOk(lad, os, b),
         \A x \in Order : RestsOn(os[x], side) => x < o,
         NEW ln, ln = Joined(lad, b, side, price, o)
  PROVE  AllLined(ln)
<1> SUFFICES ASSUME NEW s \in Sides, NEW p \in Prices PROVE Lined(ln[s][p])
  BY DEF AllLined
<1> DEFINE q == lad[s][p]
           v == VisibleAt(b, s, p)
           who == StandsAt(os, s, p)
           w == IF v = Hidden THEN Append(q, Unseen) ELSE Reconciled(q, v)
<1>1. q \in Seq(Nodes) /\ Lined(q) /\ StandOnce(q, who)
  BY QueueIs DEF AllLined
<1>2. CASE ~ (s = side /\ p = price)
  <2>1. ln[s][p] = q
    BY <1>2 DEF Joined
  <2> QED BY <1>1, <2>1
<1>3. CASE s = side /\ p = price
  <2>1. ln[s][p] = Append(w, Own(o))
    BY <1>3 DEF Joined
  <2>2. v # Hidden => v \in Nat
    BY VisibleIs
  <2>3. \A x \in who : x < o
    BY <1>3 DEF StandsAt
  <2>4. Unseen \in Nodes /\ ~ IsOwn(Unseen) /\ Unseen.who = Nobody /\ Nobody \notin who
    BY <1>1, NodesAre DEF Unseen, Public, StandOnce
  <2>5. Own(o) \in Nodes /\ Own(o).who = o
    BY NodesAre DEF Own
  <2> HIDE DEF q, v, who
  <2>6. w \in Seq(Nodes) /\ Lined(w) /\ StandOnce(w, who)
    <3>1. CASE v = Hidden
      <4>1. StandOnce(Append(q, Unseen), who \cup ({Unseen.who} \ {Nobody}))
        BY <1>1, <2>4, AppendStands
      <4>2. who \cup ({Unseen.who} \ {Nobody}) = who
        BY <2>4
      <4>3. StandOnce(Append(q, Unseen), who)
        BY <4>1, <4>2
      <4>4. Lined(Append(q, Unseen)) /\ Append(q, Unseen) \in Seq(Nodes)
        BY <1>1, <2>4, AppendLined, Appended
      <4> QED BY <3>1, <4>3, <4>4
    <3>2. CASE v # Hidden
      BY <1>1, <2>2, <3>2, ReconciledIs, ReconciledLined
    <3> QED BY <3>1, <3>2
  <2> HIDE DEF w
  <2>7. \A k \in DOMAIN w : IsOwn(w[k]) => w[k].who < Own(o).who
    BY <2>3, <2>5, <2>6 DEF StandOnce, IsOwn
  <2> QED BY <2>1, <2>5, <2>6, <2>7, AppendLined
<1> QED BY <1>2, <1>3

\* and a print.
LEMMA MatchLined ==
  ASSUME OrdersTyped, OrdersOk(orders), QueuesOk(ladders, orders, book), WalletOk(orders, funds, fees),
         AllLined(ladders), NEW print \in Prints, Match(print)
  PROVE  AllLined(ladders')
<1> SUFFICES ASSUME NEW s \in Sides, NEW p \in Prices PROVE Lined(ladders'[s][p])
  BY DEF AllLined
<1> DEFINE side  == Opposite(print.side)
           l     == ladders[side]
           taken == Taken(l, side, print)
           q     == ladders[s][p]
           left  == Thinner(l, taken, p)
           ks    == Staying(l, taken, p)
           kept  == Kept(left, ks)
<1>1. side \in Sides /\ Stands(l, side) /\ ladders \in [Sides -> [Prices -> Seq(Nodes)]]
  BY MatchIs
<1>2. ladders' = [ladders EXCEPT ![side] = WithoutVacant([r \in Prices |-> Walked(l, taken, r)])]
  BY MatchIs
<1>3. q \in Seq(Nodes) /\ Lined(q)
  BY <1>1 DEF AllLined
<1> HIDE DEF side
<1>4. CASE s = side
  <2>1. q = l[p]
    BY <1>4
  <2>2. /\ DOMAIN left = DOMAIN q /\ left \in Seq(Nodes)
        /\ \A k \in DOMAIN q : left[k].who = q[k].who
    BY <1>1, <2>1, ThinnerIs
  <2>3. Walked(l, taken, p) = kept
    BY <2>1, <2>2 DEF Walked, Staying, Thinner
  <2>4. ks \in SUBSET DOMAIN left
    BY <2>1, <2>2 DEF Staying
  <2>5. ladders'[s][p] = IF HoldsOwn(kept) THEN kept ELSE <<>>
    <3> HIDE DEF kept, l, taken
    <3>1. ladders'[s] = WithoutVacant([r \in Prices |-> Walked(l, taken, r)])
      BY <1>1, <1>2, <1>4
    <3> QED BY <2>3, <3>1 DEF WithoutVacant
  <2> HIDE DEF left, ks, q
  <2>6. Lined(left)
    BY <1>3, <2>2, LessLined
  <2>7. Lined(kept)
    BY <2>2, <2>4, <2>6, KeptLined
  <2> QED BY <2>5, <2>7, EmptyLined
<1>5. CASE s # side
  <2>1. ladders'[s] = ladders[s]
    <3> HIDE DEF l, taken
    <3> QED BY <1>1, <1>2, <1>5
  <2> QED BY <1>3, <2>1
<1> QED BY <1>4, <1>5

-----------------------------------------------------------------------------
(***************************************************************************)
(* The timeline                                                            *)
(***************************************************************************)
\* An order's time is still to come.
Comes(tl, o) == \E k \in DOMAIN tl : tl[k] = Action("Activate", o, 0)

\* The orders come in the order they were placed in.
InLine(tl) ==
  /\ \A k \in DOMAIN tl : tl[k].kind = "Activate" => tl[k].qty = 0
  /\ \A j, k \in DOMAIN tl :
       j < k /\ tl[j].kind = "Activate" /\ tl[k].kind = "Activate" => tl[j].order < tl[k].order

\* What the timeline has of the orders: those that wait for matching to resume go
\* before those whose time is to come, and what rests was placed before what waits.
LineOk(tl, os, live) ==
  /\ InLine(tl)
  /\ \A o \in Order : Comes(tl, o) => os[o].phase # "unborn"
  /\ \A r, o \in Order : r < o /\ os[o].phase # "unborn" => os[r].phase # "unborn"
  /\ \A o, x \in Order : os[o].phase = "pending" /\ ~ Comes(tl, o) /\ Comes(tl, x) => o < x
  /\ live => \A o \in Order : os[o].phase = "pending" => Comes(tl, o)
  /\ \A r, o \in Order : os[r].phase = "resting" /\ os[o].phase = "pending" => r < o

\* Each activation in the timeline is one that comes.
LEMMA ComesAt ==
  ASSUME NEW tl \in Seq(Requests), InLine(tl), NEW k \in DOMAIN tl, tl[k].kind = "Activate"
  PROVE  tl[k] = Action("Activate", tl[k].order, 0) /\ tl[k].order \in Order /\ Comes(tl, tl[k].order)
<1>1. tl[k] \in Requests
  OBVIOUS
<1>2. tl[k].qty = 0
  BY DEF InLine
<1>3. tl[k] = Action("Activate", tl[k].order, 0) /\ tl[k].order \in Order
  BY <1>1, <1>2 DEF Requests, Action
<1> QED BY <1>3 DEF Comes

\* One more request at the end.
LEMMA LineAppends ==
  ASSUME NEW tl \in Seq(Requests), InLine(tl), NEW a \in Requests,
         a.kind = "Activate" => a.qty = 0 /\ \A x \in Order : Comes(tl, x) => x < a.order
  PROVE  /\ InLine(Append(tl, a)) /\ Append(tl, a) \in Seq(Requests)
         /\ \A x \in Order : Comes(Append(tl, a), x) <=> Comes(tl, x) \/ a = Action("Activate", x, 0)
<1> DEFINE r == Append(tl, a)
<1>1. /\ DOMAIN r = DOMAIN tl \cup {Len(tl) + 1} /\ r[Len(tl) + 1] = a
      /\ \A k \in DOMAIN tl : r[k] = tl[k]
      /\ DOMAIN tl = 1 .. Len(tl) /\ Len(tl) \in Nat /\ r \in Seq(Requests)
  OBVIOUS
<1> HIDE DEF r
<1>2. \A k \in DOMAIN r : r[k].kind = "Activate" => r[k].qty = 0
  BY <1>1 DEF InLine
<1>3. ASSUME NEW j \in DOMAIN r, NEW k \in DOMAIN r, j < k, r[j].kind = "Activate", r[k].kind = "Activate"
      PROVE  r[j].order < r[k].order
  <2>1. j \in DOMAIN tl /\ r[j] = tl[j]
    BY <1>1, <1>3
  <2>2. CASE k \in DOMAIN tl
    BY <1>1, <1>3, <2>1, <2>2 DEF InLine
  <2>3. CASE k = Len(tl) + 1
    <3>1. tl[j].order \in Order /\ Comes(tl, tl[j].order)
      BY <1>3, <2>1, ComesAt
    <3> QED BY <1>1, <1>3, <2>1, <2>3, <3>1
  <2> QED BY <1>1, <2>2, <2>3
<1>4. \A x \in Order : Comes(r, x) <=> Comes(tl, x) \/ a = Action("Activate", x, 0)
  BY <1>1 DEF Comes
<1>5. InLine(r)
  BY <1>2, <1>3 DEF InLine
<1> QED BY <1>1, <1>4, <1>5 DEF r

\* The first request falls due.
LEMMA LineTail ==
  ASSUME NEW tl \in Seq(Requests), InLine(tl), tl # <<>>
  PROVE  /\ InLine(Tail(tl)) /\ Tail(tl) \in Seq(Requests)
         /\ \A x \in Order : Comes(tl, x) <=> Comes(Tail(tl), x) \/ Head(tl) = Action("Activate", x, 0)
         /\ \A x \in Order : Head(tl).kind = "Activate" /\ Comes(Tail(tl), x) => Head(tl).order < x
<1> DEFINE r == Tail(tl)
<1>1. /\ Len(tl) \in Nat \ {0} /\ DOMAIN tl = 1 .. Len(tl) /\ Head(tl) = tl[1]
      /\ DOMAIN r = 1 .. Len(tl) - 1 /\ r \in Seq(Requests)
      /\ \A k \in DOMAIN r : r[k] = tl[k + 1]
  OBVIOUS
<1> HIDE DEF r
<1>2. \A k \in DOMAIN r : k + 1 \in DOMAIN tl /\ r[k] = tl[k + 1]
  BY <1>1
<1>3. InLine(r)
  <2>1. \A k \in DOMAIN r : r[k].kind = "Activate" => r[k].qty = 0
    BY <1>2 DEF InLine
  <2>2. ASSUME NEW j \in DOMAIN r, NEW k \in DOMAIN r, j < k, r[j].kind = "Activate", r[k].kind = "Activate"
        PROVE  r[j].order < r[k].order
    <3>1. j + 1 \in DOMAIN tl /\ k + 1 \in DOMAIN tl /\ j + 1 < k + 1 /\ r[j] = tl[j + 1] /\ r[k] = tl[k + 1]
      BY <1>1, <1>2, <2>2
    <3> QED BY <2>2, <3>1 DEF InLine
  <2> QED BY <2>1, <2>2 DEF InLine
<1>4. ASSUME NEW x \in Order
      PROVE  Comes(tl, x) <=> Comes(r, x) \/ Head(tl) = Action("Activate", x, 0)
  <2>1. ASSUME Comes(tl, x), Head(tl) # Action("Activate", x, 0) PROVE Comes(r, x)
    <3>1. PICK k \in DOMAIN tl : tl[k] = Action("Activate", x, 0)
      BY <2>1 DEF Comes
    <3>2. k # 1
      BY <1>1, <2>1, <3>1
    <3>3. k - 1 \in DOMAIN r /\ (k - 1) + 1 = k
      BY <1>1, <3>2
    <3>4. r[k - 1] = tl[k]
      BY <1>1, <3>3
    <3> QED BY <3>1, <3>3, <3>4 DEF Comes
  <2>2. Comes(r, x) => Comes(tl, x)
    BY <1>2 DEF Comes
  <2>3. Head(tl) = Action("Activate", x, 0) => Comes(tl, x)
    <3>1. 1 \in DOMAIN tl
      BY <1>1
    <3> QED BY <1>1, <3>1 DEF Comes
  <2> QED BY <2>1, <2>2, <2>3
<1>5. ASSUME NEW x \in Order, Head(tl).kind = "Activate", Comes(r, x) PROVE Head(tl).order < x
  <2>1. PICK k \in DOMAIN r : r[k] = Action("Activate", x, 0)
    BY <1>5 DEF Comes
  <2>2. k + 1 \in DOMAIN tl /\ 1 \in DOMAIN tl /\ 1 < k + 1 /\ tl[k + 1] = Action("Activate", x, 0)
    BY <1>1, <1>2, <2>1
  <2>3. tl[k + 1].kind = "Activate" /\ tl[k + 1].order = x
    BY <2>2 DEF Action
  <2>4. tl[1].order < tl[k + 1].order
    BY <1>1, <1>5, <2>2, <2>3 DEF InLine
  <2> QED BY <1>1, <2>3, <2>4
<1> QED BY <1>1, <1>3, <1>4, <1>5 DEF r

\* Orders that wait are run again, before all that comes.
Rerun(again, tl) == [k \in DOMAIN again |-> Action("Activate", again[k], 0)] \o tl

\* Requests that run again go before all the others.
LEMMA LinePrepends ==
  ASSUME NEW tl \in Seq(Requests), InLine(tl), NEW again \in Seq(Order),
         \A i, j \in DOMAIN again : i < j => again[i] < again[j],
         \A i \in DOMAIN again : \A x \in Order : Comes(tl, x) => again[i] < x,
         NEW r, r = Rerun(again, tl)
  PROVE  /\ InLine(r) /\ r \in Seq(Requests)
         /\ \A x \in Order : Comes(r, x) <=> Comes(tl, x) \/ \E i \in DOMAIN again : again[i] = x
<1> DEFINE more == [k \in DOMAIN again |-> Action("Activate", again[k], 0)]
           n == Len(again)
           m == Len(tl)
<1>1. /\ n \in Nat /\ DOMAIN again = 1 .. n /\ m \in Nat /\ DOMAIN tl = 1 .. m
      /\ \A k \in DOMAIN again : again[k] \in Order
  OBVIOUS
<1>2. \A k \in 1 .. n : /\ more[k] = Action("Activate", again[k], 0) /\ more[k] \in Requests
                        /\ more[k].kind = "Activate" /\ more[k].order = again[k] /\ more[k].qty = 0
  BY <1>1 DEF Action, Requests
<1>3. more \in Seq(Requests) /\ Len(more) = n /\ DOMAIN more = 1 .. n
  <2>1. DOMAIN more = 1 .. n
    BY <1>1
  <2>2. more \in [1 .. n -> Requests]
    BY <1>1, <1>2
  <2> HIDE DEF more, n
  <2> QED BY <1>1, <2>1, <2>2
<1>4. r = more \o tl
  BY DEF Rerun
<1> HIDE DEF more
<1>5. /\ r \in Seq(Requests) /\ DOMAIN r = 1 .. n + m
      /\ \A k \in 1 .. n + m : r[k] = IF k <= n THEN more[k] ELSE tl[k - n]
  <2>1. more \o tl \in Seq(Requests) /\ Len(more \o tl) = n + m
    BY <1>1, <1>3
  <2>2. \A k \in 1 .. n + m : (more \o tl)[k] = IF k <= n THEN more[k] ELSE tl[k - n]
    BY <1>1, <1>3
  <2> QED BY <1>1, <1>4, <2>1, <2>2
<1> HIDE DEF n, m
<1>6. \A k \in DOMAIN r : k > n => k - n \in DOMAIN tl /\ r[k] = tl[k - n]
  BY <1>1, <1>5
<1>7. \A k \in DOMAIN r : k <= n => k \in 1 .. n /\ r[k] = more[k]
  BY <1>1, <1>5
<1>8. n + m \in Nat /\ \A k \in DOMAIN r : k \in Int
  BY <1>1, <1>5
<1>9. \A k \in DOMAIN r : r[k].kind = "Activate" => r[k].qty = 0
  <2> SUFFICES ASSUME NEW k \in DOMAIN r, r[k].kind = "Activate" PROVE r[k].qty = 0
    OBVIOUS
  <2>1. CASE k <= n
    BY <1>2, <1>7, <2>1
  <2>2. CASE k > n
    BY <1>6, <2>2 DEF InLine
  <2> QED BY <1>1, <1>8, <2>1, <2>2
<1>10. ASSUME NEW j \in DOMAIN r, NEW k \in DOMAIN r, j < k, r[j].kind = "Activate", r[k].kind = "Activate"
       PROVE  r[j].order < r[k].order
  <2>1. CASE k <= n
    <3>1. j <= n
      BY <1>1, <1>8, <1>10, <2>1
    <3> QED BY <1>1, <1>2, <1>7, <1>10, <2>1, <3>1
  <2>2. CASE k > n /\ j <= n
    <3>1. r[j].order = again[j] /\ j \in DOMAIN again
      BY <1>1, <1>2, <1>7, <2>2
    <3>2. k - n \in DOMAIN tl /\ r[k] = tl[k - n]
      BY <1>6, <2>2
    <3>3. r[k].order \in Order /\ Comes(tl, r[k].order)
      BY <1>10, <3>2, ComesAt
    <3> QED BY <3>1, <3>3
  <2>3. CASE k > n /\ j > n
    <3>1. /\ k - n \in DOMAIN tl /\ r[k] = tl[k - n] /\ j - n \in DOMAIN tl /\ r[j] = tl[j - n]
      BY <1>6, <2>3
    <3>2. j - n < k - n
      BY <1>1, <1>8, <1>10
    <3> QED BY <1>10, <3>1, <3>2 DEF InLine
  <2> QED BY <1>1, <1>8, <2>1, <2>2, <2>3
<1>11. ASSUME NEW x \in Order
       PROVE  Comes(r, x) <=> Comes(tl, x) \/ \E i \in DOMAIN again : again[i] = x
  <2>1. ASSUME Comes(r, x) PROVE Comes(tl, x) \/ \E i \in DOMAIN again : again[i] = x
    <3>1. PICK k \in DOMAIN r : r[k] = Action("Activate", x, 0)
      BY <2>1 DEF Comes
    <3>2. CASE k <= n
      <4>1. r[k].order = x
        BY <3>1 DEF Action
      <4>2. again[k] = x /\ k \in DOMAIN again
        BY <1>1, <1>2, <1>7, <3>2, <4>1
      <4> QED BY <4>2
    <3>3. CASE k > n
      BY <1>6, <3>1, <3>3 DEF Comes
    <3> QED BY <1>1, <1>8, <3>2, <3>3
  <2>2. ASSUME Comes(tl, x) PROVE Comes(r, x)
    <3>1. PICK k \in DOMAIN tl : tl[k] = Action("Activate", x, 0)
      BY <2>2 DEF Comes
    <3>2. n + k \in DOMAIN r /\ r[n + k] = tl[k]
      <4>1. n + k \in 1 .. n + m /\ ~ (n + k <= n) /\ (n + k) - n = k
        BY <1>1
      <4> QED BY <1>5, <4>1
    <3> QED BY <3>1, <3>2 DEF Comes
  <2>3. ASSUME NEW i \in DOMAIN again, again[i] = x PROVE Comes(r, x)
    <3>1. i \in 1 .. n + m /\ i <= n /\ i \in 1 .. n
      BY <1>1
    <3>2. r[i] = Action("Activate", x, 0)
      BY <1>2, <1>5, <2>3, <3>1
    <3> QED BY <1>5, <3>1, <3>2 DEF Comes
  <2> QED BY <2>1, <2>2, <2>3
<1>12. InLine(r)
  BY <1>9, <1>10 DEF InLine
<1> QED BY <1>5, <1>11, <1>12

\* Orders close, and what comes does not change.
LEMMA LineCloses ==
  ASSUME NEW tl, NEW os, NEW live, LineOk(tl, os, live), NEW tn, NEW on, NEW ln,
         InLine(tn), \A x \in Order : Comes(tn, x) <=> Comes(tl, x), ln => live,
         \A o \in Order : \/ on[o].phase = os[o].phase
                          \/ on[o].phase = "closed" /\ os[o].phase # "unborn"
  PROVE  LineOk(tn, on, ln)
<1>1. \A o \in Order : /\ on[o].phase = "pending" => os[o].phase = "pending"
                       /\ on[o].phase = "resting" => os[o].phase = "resting"
                       /\ on[o].phase # "unborn" <=> os[o].phase # "unborn"
  OBVIOUS
<1> QED BY <1>1 DEF LineOk

\* The next order's time comes while matching is suspended: it waits.
LEMMA LineWaits ==
  ASSUME NEW tl \in Seq(Requests), NEW os, LineOk(tl, os, FALSE), tl # <<>>, Head(tl).kind = "Activate"
  PROVE  LineOk(Tail(tl), os, FALSE)
<1> DEFINE h == Head(tl)
           r == Tail(tl)
<1>1. /\ InLine(r)
      /\ \A x \in Order : Comes(tl, x) <=> Comes(r, x) \/ h = Action("Activate", x, 0)
      /\ \A x \in Order : Comes(r, x) => h.order < x
  BY LineTail DEF LineOk
<1>2. \A x \in Order : h = Action("Activate", x, 0) => x = h.order
  BY DEF Action
<1> HIDE DEF h, r
<1>3. ASSUME NEW o \in Order, NEW x \in Order, os[o].phase = "pending", ~ Comes(r, o), Comes(r, x)
      PROVE  o < x
  <2>1. CASE Comes(tl, o)
    BY <1>1, <1>2, <1>3, <2>1
  <2>2. CASE ~ Comes(tl, o)
    BY <1>1, <1>3, <2>2 DEF LineOk
  <2> QED BY <2>1, <2>2
<1>4. LineOk(r, os, FALSE)
  BY <1>1, <1>3 DEF LineOk
<1> QED BY <1>4 DEF r

\* The next order's time comes while matching is live: it rests, or it is refused, or it
\* no longer waits.
LEMMA LineLives ==
  ASSUME NEW tl \in Seq(Requests), NEW os, LineOk(tl, os, TRUE), tl # <<>>,
         NEW o \in Order, Head(tl) = Action("Activate", o, 0), NEW on,
         \A x \in Order \ {o} : on[x].phase = os[x].phase,
         \/ os[o].phase = "pending" /\ on[o].phase \in {"closed", "resting"}
         \/ os[o].phase # "pending" /\ on[o].phase = os[o].phase
  PROVE  /\ LineOk(Tail(tl), on, TRUE)
         /\ os[o].phase = "pending" => \A x \in Order : os[x].phase = "resting" => x < o
<1> DEFINE r == Tail(tl)
<1>1. /\ InLine(r) /\ Head(tl).kind = "Activate" /\ Head(tl).order = o
      /\ \A x \in Order : Comes(tl, x) <=> Comes(r, x) \/ Head(tl) = Action("Activate", x, 0)
      /\ \A x \in Order : Comes(r, x) => o < x
  BY LineTail DEF LineOk, Action
<1>2. \A x \in Order : Comes(tl, x) <=> Comes(r, x) \/ x = o
  BY <1>1 DEF Action
<1>3. ~ Comes(r, o)
  BY <1>1 DEF Order
<1> HIDE DEF r
<1>4. on[o].phase # "pending" /\ (on[o].phase # "unborn" <=> os[o].phase # "unborn")
  OBVIOUS
<1>5. \A x \in Order : on[x].phase = "pending" => os[x].phase = "pending" /\ Comes(r, x)
  BY <1>2, <1>4 DEF LineOk
<1>6. \A x \in Order : Comes(r, x) => on[x].phase # "unborn"
  BY <1>2, <1>4 DEF LineOk
<1>7. \A x, y \in Order : x < y /\ on[y].phase # "unborn" => on[x].phase # "unborn"
  BY <1>4 DEF LineOk
<1>8. ASSUME NEW x \in Order, NEW y \in Order, on[x].phase = "resting", on[y].phase = "pending"
      PROVE  x < y
  <2>1. os[y].phase = "pending" /\ Comes(r, y)
    BY <1>5, <1>8
  <2>2. CASE x = o
    BY <1>1, <2>1, <2>2
  <2>3. CASE x # o
    BY <1>8, <2>1, <2>3 DEF LineOk
  <2> QED BY <2>2, <2>3
<1>9. LineOk(r, on, TRUE)
  BY <1>1, <1>5, <1>6, <1>7, <1>8 DEF LineOk
<1> QED BY <1>9 DEF r, LineOk

\* An order is placed: the last one, and it comes last unless it is refused.
LEMMA LinePlaces ==
  ASSUME NEW tl \in Seq(Requests), NEW os, NEW live, LineOk(tl, os, live), NEW o \in Order,
         os[o].phase = "unborn", \A r \in Order : r < o => os[r].phase # "unborn",
         NEW on, \A x \in Order \ {o} : on[x].phase = os[x].phase, NEW tn,
         \/ on[o].phase = "closed" /\ tn = tl
         \/ on[o].phase = "pending" /\ tn = Append(tl, Action("Activate", o, 0))
  PROVE  LineOk(tn, on, live)
<1>1. \A x \in Order : os[x].phase # "unborn" => x < o
  <2> SUFFICES ASSUME NEW x \in Order, os[x].phase # "unborn", ~ (x < o) PROVE FALSE
    OBVIOUS
  <2>1. x # o
    OBVIOUS
  <2>2. o < x
    BY <2>1 DEF Order
  <2> QED BY <2>2 DEF LineOk
<1>2. \A x \in Order : Comes(tl, x) => x < o
  BY <1>1 DEF LineOk
<1>3. on[o].phase # "unborn" /\ on[o].phase # "resting" /\ ~ Comes(tl, o)
  BY <1>1 DEF LineOk
<1>4. \A x, y \in Order : x < y /\ on[y].phase # "unborn" => on[x].phase # "unborn"
  <2> SUFFICES ASSUME NEW x \in Order, NEW y \in Order, x < y, on[y].phase # "unborn", on[x].phase = "unborn"
               PROVE  FALSE
    OBVIOUS
  <2>1. x # o /\ os[x].phase = "unborn"
    BY <1>3
  <2>2. CASE y = o
    BY <2>1, <2>2
  <2>3. CASE y # o
    BY <2>1, <2>3 DEF LineOk
  <2> QED BY <2>2, <2>3
<1>5. CASE on[o].phase = "closed" /\ tn = tl
  <2>1. \A x \in Order : /\ on[x].phase = "pending" => os[x].phase = "pending" /\ x # o
                         /\ on[x].phase = "resting" => os[x].phase = "resting"
                         /\ os[x].phase # "unborn" => on[x].phase # "unborn"
    BY <1>5
  <2> QED BY <1>4, <1>5, <2>1 DEF LineOk
<1>6. CASE on[o].phase = "pending" /\ tn = Append(tl, Action("Activate", o, 0))
  <2> DEFINE a == Action("Activate", o, 0)
  <2>1. a \in Requests /\ a.kind = "Activate" /\ a.qty = 0 /\ a.order = o
        /\ \A x \in Order : a = Action("Activate", x, 0) <=> x = o
    BY DEF Action, Requests
  <2> HIDE DEF a
  <2>2. /\ InLine(Append(tl, a))
        /\ \A x \in Order : Comes(Append(tl, a), x) <=> Comes(tl, x) \/ a = Action("Activate", x, 0)
    BY <1>2, <2>1, LineAppends DEF LineOk
  <2>3. InLine(tn) /\ \A x \in Order : Comes(tn, x) <=> Comes(tl, x) \/ x = o
    BY <1>6, <2>1, <2>2 DEF a
  <2>4. \A x \in Order : x # o => /\ on[x].phase = "pending" => os[x].phase = "pending"
                                  /\ on[x].phase = "resting" => os[x].phase = "resting"
                                  /\ os[x].phase # "unborn" => on[x].phase # "unborn"
    OBVIOUS
  <2>5. \A x \in Order : Comes(tn, x) => on[x].phase # "unborn"
    BY <1>3, <2>3, <2>4 DEF LineOk
  <2>6. ASSUME NEW x \in Order, NEW y \in Order, on[x].phase = "pending", ~ Comes(tn, x), Comes(tn, y)
        PROVE  x < y
    <3>1. x # o /\ ~ Comes(tl, x) /\ os[x].phase = "pending"
      BY <2>3, <2>4, <2>6
    <3>2. CASE y = o
      BY <1>1, <3>1, <3>2
    <3>3. CASE y # o
      BY <2>3, <2>6, <3>1, <3>3 DEF LineOk
    <3> QED BY <3>2, <3>3
  <2>7. live => \A x \in Order : on[x].phase = "pending" => Comes(tn, x)
    BY <2>3, <2>4 DEF LineOk
  <2>8. ASSUME NEW x \in Order, NEW y \in Order, on[x].phase = "resting", on[y].phase = "pending"
        PROVE  x < y
    <3>1. x # o /\ os[x].phase = "resting"
      BY <1>3, <2>4, <2>8
    <3>2. CASE y = o
      BY <1>1, <3>1, <3>2
    <3>3. CASE y # o
      BY <2>4, <2>8, <3>1, <3>3 DEF LineOk
    <3> QED BY <3>2, <3>3
  <2> QED BY <1>4, <2>3, <2>5, <2>6, <2>7, <2>8 DEF LineOk
<1> QED BY <1>5, <1>6

\* Matching resumes: what waited comes again, in order, before the rest.
LEMMA LineResumes ==
  ASSUME NEW tl \in Seq(Requests), NEW os, NEW live, LineOk(tl, os, live), NEW again \in Seq(Order),
         \A i, j \in DOMAIN again : i < j => again[i] < again[j],
         \A x \in Order : (\E i \in DOMAIN again : again[i] = x) <=> os[x].phase = "pending" /\ ~ Comes(tl, x),
         NEW tn, tn = Rerun(again, tl)
  PROVE  LineOk(tn, os, TRUE)
<1>1. \A i \in DOMAIN again : again[i] \in Order
  OBVIOUS
<1>2. \A i \in DOMAIN again : \A x \in Order : Comes(tl, x) => again[i] < x
  BY <1>1 DEF LineOk
<1>3. /\ InLine(tn)
      /\ \A x \in Order : Comes(tn, x) <=> Comes(tl, x) \/ \E i \in DOMAIN again : again[i] = x
  BY <1>2, LinePrepends DEF LineOk
<1>4. \A x \in Order : Comes(tn, x) <=> Comes(tl, x) \/ os[x].phase = "pending"
  BY <1>3
<1>5. \A x \in Order : os[x].phase = "pending" => os[x].phase # "unborn"
  OBVIOUS
<1> QED BY <1>3, <1>4, <1>5 DEF LineOk

-----------------------------------------------------------------------------
(***************************************************************************)
(* The orders stand and wait in the order they were placed in              *)
(***************************************************************************)
\* The invariant behind the fairness of fills: the queues and the timeline keep the
\* order of placement.
OrderInv == AllLined(ladders) /\ LineOk(timeline, orders, isLive)

\* It holds at the start.
LEMMA OrderStarts == ASSUME Init PROVE OrderInv
<1>1. /\ orders = [o \in Order |-> [phase |-> "unborn"]]
      /\ ladders = [s \in Sides |-> [p \in Prices |-> <<>>]] /\ timeline = <<>> /\ isLive = FALSE
  BY DEF Init
<1>2. AllLined(ladders)
  BY <1>1, EmptyLined DEF AllLined
<1>3. \A o \in Order : orders[o].phase = "unborn" /\ ~ Comes(timeline, o)
  BY <1>1 DEF Comes
<1>4. InLine(timeline)
  BY <1>1 DEF InLine
<1> QED BY <1>1, <1>2, <1>3, <1>4 DEF OrderInv, LineOk

\* A step of the market leaves the timeline, and suspends matching if anything.
LEMMA MarketOrder ==
  ASSUME OrderInv, UNCHANGED <<orders, timeline>>, isLive' => isLive, AllLined(ladders')
  PROVE  OrderInv'
<1>1. LineOk(timeline', orders', isLive')
  BY LineCloses DEF OrderInv, LineOk
<1> QED BY <1>1 DEF OrderInv

\* Restoring matching puts the orders that waited back in the order they were placed in.
LEMMA RestoreOrder == ASSUME VenueInv, OrderInv, Restore PROVE OrderInv'
<1> DEFINE ks    == {o \in Order : /\ orders[o].phase = "pending"
                                   /\ \A k \in DOMAIN timeline : timeline[k] # Action("Activate", o, 0)}
           all   == [o \in Order |-> o]
           again == Kept(all, ks)
<1>1. /\ isLive' = TRUE /\ timeline' = Rerun(again, timeline) /\ orders' = orders /\ ladders' = ladders
  BY DEF Restore, Rerun
<1>2. MaxOrders \in Nat
  BY VenueAssumption
<1>3. all \in Seq(Order) /\ DOMAIN all = Order /\ \A o \in Order : all[o] = o
  <2>1. all \in [1 .. MaxOrders -> Order]
    BY DEF Order
  <2>2. all \in Seq(Order)
    BY <1>2, <2>1
  <2> QED BY <2>2
<1>4. ks \in SUBSET DOMAIN all
  BY <1>3
<1>5. \A x \in Order : x \in ks <=> orders[x].phase = "pending" /\ ~ Comes(timeline, x)
  BY DEF Comes
<1> HIDE DEF all, ks
<1> DEFINE n == Cardinality(ks)
           nth == Nth(ks)
<1>6. /\ again \in Seq(Order) /\ DOMAIN again = 1 .. n /\ nth \in [1 .. n -> ks]
      /\ \A i \in 1 .. n : again[i] = all[nth[i]]
      /\ \A i, j \in 1 .. n : i < j => nth[i] < nth[j]
      /\ \A k \in ks : \E i \in 1 .. n : nth[i] = k
  BY <1>3, <1>4, KeptNth
<1> HIDE DEF again, n, nth
<1>7. \A i \in 1 .. n : nth[i] \in ks /\ nth[i] \in Order /\ again[i] = nth[i]
  BY <1>3, <1>4, <1>6
<1>8. \A i, j \in DOMAIN again : i < j => again[i] < again[j]
  BY <1>6, <1>7
<1>9. \A x \in Order : (\E i \in DOMAIN again : again[i] = x) <=> x \in ks
  BY <1>6, <1>7
<1>10. timeline \in Seq(Requests) /\ LineOk(timeline, orders, isLive)
  BY DEF VenueInv, OrderInv
<1>11. LineOk(timeline', orders, TRUE)
  BY <1>1, <1>5, <1>6, <1>8, <1>9, <1>10, LineResumes
<1> QED BY <1>1, <1>11 DEF OrderInv

\* Orders that close leave the rest in order.
LEMMA ClosedOrder ==
  ASSUME VenueInv, AllLined(ladders), LineOk(timeline, orders, isLive), NEW gone \in SUBSET Order,
         \A o \in gone : orders[o].phase # "unborn", Closed(gone), isLive' = isLive,
         InLine(timeline'), \A x \in Order : Comes(timeline', x) <=> Comes(timeline, x)
  PROVE  OrderInv'
<1>1. /\ orders' = [o \in Order |-> IF o \in gone THEN [orders[o] EXCEPT !.phase = "closed"] ELSE orders[o]]
      /\ ladders' = Withdrawn(ladders, gone)
  BY DEF Closed, Withdrawn
<1>2. OrdersOk(orders) /\ ladders \in [Sides -> [Prices -> Seq(Nodes)]]
  BY VenueQueues DEF QueuesOk
<1>3. AllLined(ladders')
  BY <1>1, <1>2, ClosedLined
<1>4. ASSUME NEW o \in Order
      PROVE  \/ orders'[o].phase = orders[o].phase
             \/ orders'[o].phase = "closed" /\ orders[o].phase # "unborn"
  <2>1. CASE o \in gone
    <3>1. RowOk(orders[o])
      BY <1>2, <2>1, RowOr
    <3>2. orders[o] \in Terms
      BY <3>1, RowIs
    <3> QED BY <1>1, <2>1, <3>2 DEF Terms
  <2>2. CASE o \notin gone
    BY <1>1, <2>2
  <2> QED BY <2>1, <2>2
<1>5. LineOk(timeline', orders', isLive')
  BY <1>4, LineCloses
<1> QED BY <1>3, <1>5 DEF OrderInv

\* A print closes orders and moves none.
LEMMA TradeOrder == ASSUME VenueInv, OrderInv, NEW print \in Prints, Trade(print) PROVE OrderInv'
<1> DEFINE side == Opposite(print.side)
           l    == ladders[side]
           got  == Got(l, Taken(l, side, print))
<1>1. /\ Match(print) /\ isLive' = isLive /\ timeline' = timeline
      /\ AllLined(ladders) /\ LineOk(timeline, orders, isLive)
  BY DEF Trade, OrderInv
<1>2. /\ OrdersTyped /\ OrdersOk(orders) /\ WalletOk(orders, funds, fees)
      /\ QueuesOk(ladders, orders, book) /\ book \in Books
  BY VenueQueues
<1>3. AllLined(ladders')
  BY <1>1, <1>2, MatchLined
<1>4. /\ side \in Sides /\ Fits(orders, got, side)
      /\ \A o \in Order :
           orders'[o] = IF o \in Hits(got) THEN FilledBy(orders[o], got[o]) ELSE orders[o]
  <2>1. Match(print)
    BY <1>1
  <2>2. side \in Sides /\ Fits(orders, got, side)
    BY <1>2, <2>1, MatchIs
  <2>3. \A o \in Order :
          orders'[o] = IF o \in Hits(got) THEN FilledBy(orders[o], got[o]) ELSE orders[o]
    BY <1>2, <2>1, MatchIs DEF Hits
  <2> QED BY <2>2, <2>3
<1> HIDE DEF got, side, l
<1>5. ASSUME NEW o \in Order
      PROVE  \/ orders'[o].phase = orders[o].phase
             \/ orders'[o].phase = "closed" /\ orders[o].phase # "unborn"
  <2>1. CASE o \in Hits(got)
    <3>1. /\ RowOk(orders[o]) /\ orders[o].phase = "resting"
          /\ got[o] \in Nat /\ got[o] > 0 /\ got[o] <= orders[o].qty - orders[o].filled
      BY <1>2, <1>4, <2>1, HitIs
    <3>2. FilledBy(orders[o], got[o]).phase \in {"closed", "resting"}
      BY <1>4, <3>1, FilledIs
    <3> QED BY <1>4, <2>1, <3>1, <3>2
  <2>2. CASE o \notin Hits(got)
    BY <1>4, <2>2
  <2> QED BY <2>1, <2>2
<1>6. LineOk(timeline', orders', isLive')
  <2>1. InLine(timeline)
    BY <1>1 DEF LineOk
  <2> QED BY <1>1, <1>5, <2>1, LineCloses
<1> QED BY <1>3, <1>6 DEF OrderInv

\* A placement is the last of the orders, and its activation the last of the timeline.
LEMMA PlaceOrder ==
  ASSUME VenueInv, OrderInv, NEW o \in Order, NEW t \in Placements, Place(o, t) PROVE OrderInv'
<1> DEFINE refused == ~ t.isPostOnly \/ OffLimits(t.price, t.qty)
           row == [phase |-> IF refused THEN "closed" ELSE "pending", side |-> t.side,
                   price |-> t.price, qty |-> t.qty, filled |-> 0, amends |-> 0]
<1>1. /\ orders[o].phase = "unborn" /\ \A r \in Order : r < o => orders[r].phase # "unborn"
      /\ orders' = [orders EXCEPT ![o] = row] /\ ladders' = ladders /\ isLive' = isLive
      /\ refused => timeline' = timeline
      /\ ~ refused => timeline' = Append(timeline, Action("Activate", o, 0))
  BY DEF Place, Admit, marketVars
<1>2. (refused => row.phase = "closed") /\ (~ refused => row.phase = "pending")
  OBVIOUS
<1> HIDE DEF row, refused
<1>3. OrdersTyped /\ timeline \in Seq(Requests) /\ LineOk(timeline, orders, isLive) /\ AllLined(ladders)
  BY DEF VenueInv, WalletInv, OrderInv
<1>4. orders'[o] = row /\ \A x \in Order \ {o} : orders'[x].phase = orders[x].phase
  BY <1>1, <1>3 DEF OrdersTyped
<1>5. LineOk(timeline', orders', isLive)
  <2>1. \/ orders'[o].phase = "closed" /\ timeline' = timeline
        \/ orders'[o].phase = "pending" /\ timeline' = Append(timeline, Action("Activate", o, 0))
    BY <1>1, <1>2, <1>4
  <2>2. orders[o].phase = "unborn" /\ \A r \in Order : r < o => orders[r].phase # "unborn"
    BY <1>1
  <2> QED BY <1>3, <1>4, <2>1, <2>2, LinePlaces
<1> QED BY <1>1, <1>3, <1>5 DEF OrderInv

\* A request other than an activation,
LEMMA AdmitOrder ==
  ASSUME VenueInv, OrderInv, NEW a \in Requests, a.kind # "Activate", Admit(a),
         UNCHANGED <<orders, ladders, isLive>>
  PROVE  OrderInv'
<1>1. /\ timeline' = Append(timeline, a) /\ timeline \in Seq(Requests)
      /\ LineOk(timeline, orders, isLive) /\ AllLined(ladders)
  BY DEF Admit, VenueInv, OrderInv
<1>2. InLine(timeline)
  BY <1>1 DEF LineOk
<1>3. /\ InLine(timeline')
      /\ \A x \in Order : Comes(timeline', x) <=> Comes(timeline, x) \/ a = Action("Activate", x, 0)
  BY <1>1, <1>2, LineAppends
<1>4. \A x \in Order : Comes(timeline', x) <=> Comes(timeline, x)
  BY <1>3 DEF Action
<1>5. LineOk(timeline', orders, isLive)
  BY <1>1, <1>3, <1>4, LineCloses
<1> QED BY <1>1, <1>5 DEF OrderInv

\* a cancel or an amend.
LEMMA RequestOrder ==
  ASSUME VenueInv, OrderInv, NEW o \in Order, Cancel(o) \/ \E qty \in AmendQtys : Amend(o, qty)
  PROVE  OrderInv'
<1>1. CASE Cancel(o)
  <2>1. Action("Cancel", o, 0) \in Requests /\ Action("Cancel", o, 0).kind # "Activate"
    BY DEF Action, Requests
  <2>2. Admit(Action("Cancel", o, 0)) /\ UNCHANGED <<orders, ladders, isLive>>
    BY <1>1 DEF Cancel, marketVars
  <2> QED BY <2>1, <2>2, AdmitOrder
<1>2. CASE \E qty \in AmendQtys : Amend(o, qty)
  <2>1. PICK qty \in AmendQtys : Amend(o, qty)
    BY <1>2
  <2>2. Action("Amend", o, qty) \in Requests /\ Action("Amend", o, qty).kind # "Activate"
    BY VenueAssumption DEF Action, Requests
  <2>3. Admit(Action("Amend", o, qty)) /\ UNCHANGED <<orders, ladders, isLive>>
    BY <2>1 DEF Amend, marketVars
  <2> QED BY <2>2, <2>3, AdmitOrder
<1> QED BY <1>1, <1>2

\* The activation that runs next is of the earliest order that waits: it joins behind the
\* orders that rest.
LEMMA ActivateOrder ==
  ASSUME VenueInv, OrderInv, timeline # <<>>, timeline' = Tail(timeline), NEW o \in Order,
         Head(timeline) = Action("Activate", o, 0), Activate(o), UNCHANGED <<book, isLive>>
  PROVE  OrderInv'
<1> DEFINE r == orders[o]
<1>1. /\ OrdersTyped /\ OrdersOk(orders) /\ QueuesOk(ladders, orders, book) /\ book \in Books
      /\ timeline \in Seq(Requests) /\ AllLined(ladders) /\ LineOk(timeline, orders, isLive)
      /\ isLive \in BOOLEAN
  BY VenueQueues DEF VenueInv, OrderInv, MarketInv
<1>2. ladders \in [Sides -> [Prices -> Seq(Nodes)]]
  BY <1>1 DEF QueuesOk
<1>3. Head(timeline).kind = "Activate"
  BY DEF Action
<1>4. CASE ~ isLive
  <2>1. orders' = orders /\ ladders' = ladders /\ isLive' = FALSE /\ isLive = FALSE
    BY <1>1, <1>4 DEF Activate
  <2>2. LineOk(Tail(timeline), orders, FALSE)
    BY <1>1, <1>3, <2>1, LineWaits
  <2> QED BY <1>1, <2>1, <2>2 DEF OrderInv
<1>5. CASE isLive /\ r.phase # "pending"
  <2>1. orders' = orders /\ ladders' = ladders /\ isLive' = TRUE /\ isLive = TRUE
    BY <1>1, <1>5 DEF Activate
  <2>2. LineOk(Tail(timeline), orders', TRUE)
    BY <1>1, <1>5, <2>1, LineLives
  <2> QED BY <1>1, <2>1, <2>2 DEF OrderInv
<1>6. CASE isLive /\ r.phase = "pending"
  <2>1. \/ orders' = [orders EXCEPT ![o].phase = "closed"] /\ ladders' = ladders
        \/ /\ orders' = [orders EXCEPT ![o].phase = "resting"]
           /\ ladders' = [ladders EXCEPT ![r.side][r.price] =
                Append(IF VisibleAt(book, r.side, r.price) = Hidden
                       THEN Append(ladders[r.side][r.price], Unseen)
                       ELSE Reconciled(ladders[r.side][r.price], VisibleAt(book, r.side, r.price)), Own(o))]
    BY <1>6 DEF Activate
  <2>2. RowOk(r)
    BY <1>1, <1>6, RowOr
  <2>3. r.side \in Sides /\ r.price \in Prices /\ r \in Terms
    BY <2>2, RowIs
  <2>4. /\ orders'[o].phase \in {"closed", "resting"}
        /\ \A x \in Order \ {o} : orders'[x].phase = orders[x].phase
    <3>1. CASE orders' = [orders EXCEPT ![o].phase = "closed"]
      BY <1>1, <2>3, <3>1 DEF OrdersTyped, Terms
    <3>2. CASE orders' = [orders EXCEPT ![o].phase = "resting"]
      BY <1>1, <2>3, <3>2 DEF OrdersTyped, Terms
    <3> QED BY <2>1, <3>1, <3>2
  <2>5. isLive' = TRUE /\ isLive = TRUE
    BY <1>1, <1>6
  <2>6. /\ LineOk(Tail(timeline), orders', TRUE)
        /\ \A x \in Order : orders[x].phase = "resting" => x < o
    BY <1>1, <1>6, <2>4, <2>5, LineLives
  <2>7. AllLined(ladders')
    <3>1. CASE ladders' = ladders
      BY <1>1, <3>1
    <3>2. CASE ladders' # ladders
      <4>1. ladders' = Joined(ladders, book, r.side, r.price, o)
        BY <2>1, <3>2 DEF Joined
      <4>2. \A x \in Order : RestsOn(orders[x], r.side) => x < o
        BY <2>6 DEF RestsOn
      <4> QED BY <1>1, <1>2, <2>3, <4>1, <4>2, JoinLined
    <3> QED BY <3>1, <3>2
  <2> QED BY <2>5, <2>6, <2>7 DEF OrderInv
<1> QED BY <1>4, <1>5, <1>6

\* The next request, whatever it is.
LEMMA DueOrder == ASSUME VenueInv, OrderInv, RunDue PROVE OrderInv'
<1> DEFINE due == Head(timeline)
<1>1. /\ timeline # <<>> /\ timeline' = Tail(timeline) /\ timeline \in Seq(Requests)
      /\ AllLined(ladders) /\ LineOk(timeline, orders, isLive)
      /\ UNCHANGED <<book, isLive>>
  BY DEF RunDue, VenueInv, OrderInv
<1>2. due \in Requests /\ InLine(timeline)
  BY <1>1 DEF LineOk
<1>3. due.order \in Order
  BY <1>2 DEF Requests
<1>4. \/ due.kind = "Activate" /\ Activate(due.order)
      \/ due.kind = "Cancel" /\ RunCancel(due.order)
      \/ due.kind = "Amend" /\ RunAmend(due.order, due.qty)
  BY DEF RunDue
<1>5. /\ InLine(timeline')
      /\ \A x \in Order : Comes(timeline, x) <=> Comes(timeline', x) \/ due = Action("Activate", x, 0)
  BY <1>1, <1>2, LineTail
<1>6. CASE due.kind = "Activate" /\ Activate(due.order)
  <2>1. due = Action("Activate", due.order, 0)
    <3>1. 1 \in DOMAIN timeline /\ due = timeline[1]
      BY <1>1
    <3> HIDE DEF due
    <3> QED BY <1>1, <1>2, <1>6, <3>1, ComesAt
  <2> QED BY <1>1, <1>3, <1>6, <2>1, ActivateOrder
<1> HIDE DEF due
<1>7. due.kind # "Activate" => \A x \in Order : Comes(timeline', x) <=> Comes(timeline, x)
  BY <1>5 DEF Action
<1>8. ASSUME due.kind # "Activate", orders' = orders, ladders' = ladders PROVE OrderInv'
  <2>1. LineOk(timeline', orders', isLive')
    BY <1>1, <1>5, <1>7, <1>8, LineCloses
  <2> QED BY <1>1, <1>8, <2>1 DEF OrderInv
<1>9. CASE due.kind = "Cancel" /\ RunCancel(due.order)
  <2>1. CASE IsOpen(due.order)
    <3>1. Closed({due.order}) /\ {due.order} \in SUBSET Order
      BY <1>3, <1>9, <2>1 DEF RunCancel
    <3>2. \A x \in {due.order} : orders[x].phase # "unborn"
      BY <2>1 DEF IsOpen
    <3>3. isLive' = isLive /\ InLine(timeline') /\ \A x \in Order : Comes(timeline', x) <=> Comes(timeline, x)
      BY <1>1, <1>5, <1>7, <1>9
    <3> QED BY <1>1, <3>1, <3>2, <3>3, ClosedOrder
  <2>2. CASE ~ IsOpen(due.order)
    BY <1>8, <1>9, <2>2 DEF RunCancel
  <2> QED BY <2>1, <2>2
<1>10. CASE due.kind = "Amend" /\ RunAmend(due.order, due.qty)
  <2> DEFINE o == due.order
             n == due.qty
  <2>1. CASE orders' = orders /\ ladders' = ladders
    BY <1>8, <1>10, <2>1
  <2>2. CASE /\ orders[o].phase = "resting" /\ ladders' = ladders
             /\ orders' = [orders EXCEPT ![o].qty = n, ![o].amends = @ + 1]
    <3>1. OrdersTyped /\ OrdersOk(orders)
      BY VenueQueues
    <3>2. RowOk(orders[o])
      BY <1>3, <2>2, <3>1, RowOr
    <3>3. orders[o] \in Terms
      BY <3>2, RowIs
    <3>4. orders'[o] = [orders[o] EXCEPT !.qty = n, !.amends = @ + 1]
          /\ \A x \in Order \ {o} : orders'[x] = orders[x]
      BY <1>3, <2>2, <3>1 DEF OrdersTyped
    <3>5. orders'[o].phase = orders[o].phase
      BY <3>3, <3>4 DEF Terms
    <3>6. \A x \in Order : orders'[x].phase = orders[x].phase
      BY <3>4, <3>5
    <3>7. LineOk(timeline', orders', isLive')
      BY <1>1, <1>5, <1>7, <1>10, <3>6, LineCloses
    <3> QED BY <1>1, <2>2, <3>7 DEF OrderInv
  <2>3. \/ orders' = orders /\ ladders' = ladders
        \/ /\ orders[o].phase = "resting" /\ ladders' = ladders
           /\ orders' = [orders EXCEPT ![o].qty = n, ![o].amends = @ + 1]
    BY <1>10 DEF RunAmend
  <2> QED BY <2>1, <2>2, <2>3
<1> QED BY <1>4, <1>6, <1>9, <1>10

\* A forced exit.
LEMMA ExitOrder ==
  ASSUME VenueInv, OrderInv, NEW cancelling \in SUBSET Order, ForceExit(cancelling) PROVE OrderInv'
<1> DEFINE gone == {o \in Order \ cancelling : IsOpen(o)}
<1>1. /\ Closed(gone) /\ timeline' = timeline /\ isLive' = isLive
      /\ AllLined(ladders) /\ LineOk(timeline, orders, isLive)
  BY DEF ForceExit, OrderInv
<1>2. gone \in SUBSET Order /\ \A o \in gone : orders[o].phase # "unborn"
  BY DEF IsOpen
<1> HIDE DEF gone
<1>3. InLine(timeline') /\ \A x \in Order : Comes(timeline', x) <=> Comes(timeline, x)
  BY <1>1 DEF LineOk
<1> QED BY <1>1, <1>2, <1>3, ClosedOrder

\* A chunk of depth moves no order.
LEMMA ChunkOrder ==
  ASSUME VenueInv, OrderInv, NEW u \in Updates, NEW isLast \in BOOLEAN,
         \/ SnapshotChunk(u, isLast)
         \/ \E isSame \in BOOLEAN : DeltaChunk(u, isSame, isLast)
  PROVE  OrderInv'
<1>1. /\ ladders \in [Sides -> [Prices -> Seq(Nodes)]] /\ book \in Books /\ AllLined(ladders)
      /\ staged \in Seq(Updates)
  BY VenueQueues DEF QueuesOk, OrderInv, VenueInv, MarketInv
<1>2. ASSUME NEW isComplete, Suspend(isComplete) PROVE AllLined(ladders') /\ isLive' = FALSE
  BY <1>1, <1>2, SuspendLined DEF Suspend
<1>3. CASE SnapshotChunk(u, isLast)
  <2>1. UNCHANGED <<orders, timeline>>
    BY <1>3 DEF SnapshotChunk
  <2>2. CASE isValid
    <3>1. Suspend(isLast)
      BY <1>3, <2>2 DEF SnapshotChunk
    <3>2. AllLined(ladders') /\ isLive' = FALSE
      BY <1>2, <3>1
    <3> QED BY <2>1, <3>2, MarketOrder
  <2>3. CASE ~ isValid
    <3>1. ladders' = ladders /\ isLive' = isLive
      BY <1>3, <2>3 DEF SnapshotChunk
    <3> QED BY <1>1, <2>1, <3>1, MarketOrder
  <2> QED BY <2>2, <2>3
<1>4. CASE \E isSame \in BOOLEAN : DeltaChunk(u, isSame, isLast)
  <2>1. PICK isSame \in BOOLEAN : DeltaChunk(u, isSame, isLast)
    BY <1>4
  <2>2. UNCHANGED <<orders, timeline>>
    BY <2>1 DEF DeltaChunk
  <2>3. CASE staged # <<>> /\ ~ isSame
    <3>1. Suspend(FALSE)
      BY <2>1, <2>3 DEF DeltaChunk
    <3>2. AllLined(ladders') /\ isLive' = FALSE
      BY <1>2, <3>1
    <3> QED BY <2>2, <3>2, MarketOrder
  <2>4. CASE ~ (staged # <<>> /\ ~ isSame) /\ ~ isLast
    <3>1. ladders' = ladders /\ isLive' = isLive
      BY <2>1, <2>4 DEF DeltaChunk
    <3> QED BY <1>1, <2>2, <3>1, MarketOrder
  <2>5. CASE ~ (staged # <<>> /\ ~ isSame) /\ isLast
    <3> DEFINE after == IF isValid THEN FoldLeft(WithLevel, book, Append(staged, u)) ELSE book
    <3>1. ladders' = [s \in Sides |-> Capped(ladders[s], s, after)] /\ isLive' = isLive
      BY <2>1, <2>5 DEF DeltaChunk
    <3>2. Append(staged, u) \in Seq(Updates)
      BY <1>1
    <3>3. after \in Books
      BY <1>1, <3>2, FoldTyped
    <3> HIDE DEF after
    <3>4. AllLined(ladders')
      BY <1>1, <3>1, <3>3, CappedLined
    <3> QED BY <2>2, <3>1, <3>4, MarketOrder
  <2> QED BY <2>3, <2>4, <2>5
<1> QED BY <1>3, <1>4

\* Every step keeps the order of the queues and of the timeline.
LEMMA OrderSteps == ASSUME VenueInv, OrderInv, [Next]_vars PROVE OrderInv'
<1>1. /\ ladders \in [Sides -> [Prices -> Seq(Nodes)]] /\ AllLined(ladders)
  BY VenueQueues DEF QueuesOk, OrderInv
<1>2. CASE \E u \in Updates, isLast \in BOOLEAN :
             \/ SnapshotChunk(u, isLast)
             \/ \E isSame \in BOOLEAN : DeltaChunk(u, isSame, isLast)
  BY <1>2, ChunkOrder
<1>3. CASE BookReset \/ Break
  <2>1. /\ UNCHANGED <<orders, timeline>> /\ isLive' = FALSE
        /\ ladders' = [s \in Sides |-> [p \in Prices |-> Blinded(ladders[s][p])]]
    BY <1>3 DEF BookReset, Break, Suspend
  <2>2. AllLined(ladders')
    BY <1>1, <2>1, SuspendLined
  <2> QED BY <2>1, <2>2, MarketOrder
<1>4. CASE Restore
  BY <1>4, RestoreOrder
<1>5. CASE RunDue
  BY <1>5, DueOrder
<1>6. CASE \E print \in Prints : Trade(print)
  BY <1>6, TradeOrder
<1>7. CASE \E o \in Order : \/ \E t \in Placements : Place(o, t)
                            \/ Cancel(o)
                            \/ \E qty \in AmendQtys : Amend(o, qty)
  BY <1>7, PlaceOrder, RequestOrder
<1>8. CASE \E cancelling \in SUBSET Order : ForceExit(cancelling)
  BY <1>8, ExitOrder
<1>9. CASE UNCHANGED vars
  <2>1. UNCHANGED <<orders, timeline>> /\ isLive' = isLive /\ ladders' = ladders
    BY <1>9 DEF vars
  <2> QED BY <1>1, <2>1, MarketOrder
<1> QED BY <1>2, <1>3, <1>4, <1>5, <1>6, <1>7, <1>8, <1>9 DEF Next

\* They are kept always.
LEMMA OrderSafe == Spec => [](VenueInv /\ OrderInv)
<1>1. Init => VenueInv /\ OrderInv
  BY VenueStarts, OrderStarts
<1>2. (VenueInv /\ OrderInv) /\ [Next]_vars => (VenueInv /\ OrderInv)'
  BY VenueSteps, OrderSteps
<1> QED BY <1>1, <1>2, PTL DEF Spec

-----------------------------------------------------------------------------
(***************************************************************************)
(* What a print takes, in turn                                             *)
(***************************************************************************)
\* What is taken of each of some needs in turn, until a quantity is spent.
Before(R, lt, s) == {t \in R : <<t, s>> \in lt}

TakenInTurn(R, lt, need, n, taken) ==
  /\ IsFiniteSet(R) /\ n \in Nat
  /\ \A s \in R : <<s, s>> \notin lt
  /\ \A s, t, u \in R : <<s, t>> \in lt /\ <<t, u>> \in lt => <<s, u>> \in lt
  /\ \A s, t \in R : s = t \/ <<s, t>> \in lt \/ <<t, s>> \in lt
  /\ \A s \in R : need[s] \in Nat
  /\ \A s \in R : taken[s] = Lesser(need[s], Greater(0, n - SumFunctionOnSet(need, Before(R, lt, s))))

\* Those before one, and what they need.
LEMMA NeedBefore ==
  ASSUME NEW R, NEW lt, NEW need, NEW n, NEW taken, TakenInTurn(R, lt, need, n, taken), NEW s \in R
  PROVE  /\ Before(R, lt, s) \in SUBSET R /\ s \notin Before(R, lt, s)
         /\ IsFiniteSet(Before(R, lt, s)) /\ IsFiniteSet(Before(R, lt, s) \cup {s})
         /\ SumFunctionOnSet(need, Before(R, lt, s)) \in Nat
         /\ SumFunctionOnSet(need, Before(R, lt, s) \cup {s}) = need[s] + SumFunctionOnSet(need, Before(R, lt, s))
<1> DEFINE b == Before(R, lt, s)
           w == b \cup {s}
<1>1. b \in SUBSET R /\ s \notin b /\ w \in SUBSET R /\ w \ {s} = b /\ s \in w
  BY DEF Before, TakenInTurn
<1>2. IsFiniteSet(R) /\ \A t \in R : need[t] \in Nat
  BY DEF TakenInTurn
<1> HIDE DEF b, w
<1>3. IsFiniteSet(b) /\ IsFiniteSet(w)
  BY <1>1, <1>2, FS_Subset
<1>4. SumFunctionOnSet(need, b) \in Nat
  BY <1>1, <1>2, SumPart
<1>5. SumFunctionOnSet(need, w) = need[s] + SumFunctionOnSet(need, b)
  <2>1. \A x \in w : need[x] \in Int
    BY <1>1, <1>2
  <2>2. SumFunctionOnSet(need, w) = need[s] + SumFunctionOnSet(need, w \ {s})
    BY <1>1, <1>3, <2>1, SumRemoves
  <2> QED BY <1>1, <2>2
<1> QED BY <1>1, <1>3, <1>4, <1>5 DEF b, w

\* Nothing is taken of one before all there is of those before it.
LEMMA TurnsTaken ==
  ASSUME NEW R, NEW lt, NEW need, NEW n, NEW taken, TakenInTurn(R, lt, need, n, taken), NEW s \in R
  PROVE  /\ taken[s] \in Nat /\ taken[s] <= need[s]
         /\ taken[s] > 0 => taken[s] + SumFunctionOnSet(need, Before(R, lt, s)) <= n
         /\ taken[s] > 0 => \A t \in Before(R, lt, s) : taken[t] = need[t]
<1> DEFINE before(t) == SumFunctionOnSet(need, Before(R, lt, t))
<1>1. n \in Nat /\ \A t \in R : /\ need[t] \in Nat
                                /\ taken[t] = Lesser(need[t], Greater(0, n - before(t)))
  BY DEF TakenInTurn
<1>2. \A t \in R : before(t) \in Nat
  BY NeedBefore
<1>3. ASSUME NEW t \in Before(R, lt, s)
      PROVE  t \in R /\ need[t] + before(t) <= before(s)
  <2> DEFINE w == Before(R, lt, t) \cup {t}
             b == Before(R, lt, s)
  <2>1. t \in R
    BY DEF Before
  <2>2. w \in SUBSET b
    BY <2>1 DEF Before, TakenInTurn
  <2>3. SumFunctionOnSet(need, w) = need[t] + before(t)
    BY <2>1, NeedBefore
  <2>4. IsFiniteSet(b) /\ \A x \in b : need[x] \in Nat
    <3>1. b \in SUBSET R /\ IsFiniteSet(b)
      BY NeedBefore
    <3> QED BY <1>1, <3>1
  <2> HIDE DEF w, b, before
  <2>5. SumFunctionOnSet(need, w) <= SumFunctionOnSet(need, b)
    BY <2>2, <2>4, SumPart
  <2> QED BY <2>1, <2>3, <2>5 DEF b, before
<1> HIDE DEF before
<1>4. /\ taken[s] \in Nat /\ taken[s] <= need[s]
      /\ taken[s] > 0 => taken[s] + before(s) <= n
  BY <1>1, <1>2 DEF Lesser, Greater
<1>5. ASSUME taken[s] > 0, NEW t \in Before(R, lt, s) PROVE taken[t] = need[t]
  <2>1. t \in R /\ need[t] + before(t) <= before(s)
    BY <1>3
  <2>2. before(s) < n
    BY <1>1, <1>2, <1>4, <1>5
  <2> QED BY <1>1, <1>2, <2>1, <2>2 DEF Lesser, Greater
<1> QED BY <1>4, <1>5 DEF before

\* Of any of them, one is last.
LEMMA LastOf ==
  ASSUME NEW R, NEW lt, NEW need, NEW n, NEW taken, TakenInTurn(R, lt, need, n, taken),
         NEW T \in SUBSET R, T # {}
  PROVE  \E s \in T : \A t \in T \ {s} : <<t, s>> \in lt
<1> DEFINE rank(s) == Cardinality(Before(R, lt, s))
           gaps == {Cardinality(R) - rank(s) : s \in T}
<1>1. IsFiniteSet(R) /\ \A s \in R : Before(R, lt, s) \in SUBSET R /\ IsFiniteSet(Before(R, lt, s))
  <2>1. IsFiniteSet(R)
    BY DEF TakenInTurn
  <2>2. ASSUME NEW s \in R
        PROVE  Before(R, lt, s) \in SUBSET R /\ IsFiniteSet(Before(R, lt, s))
    BY NeedBefore
  <2> QED BY <2>1, <2>2
<1>2. \A s \in R : rank(s) \in Nat /\ rank(s) <= Cardinality(R) /\ Cardinality(R) \in Nat
  <2> TAKE s \in R
  <2> DEFINE b == Before(R, lt, s)
  <2>1. b \in SUBSET R /\ IsFiniteSet(R) /\ IsFiniteSet(b)
    BY <1>1
  <2> HIDE DEF b
  <2>2. Cardinality(b) \in Nat /\ Cardinality(R) \in Nat /\ Cardinality(b) <= Cardinality(R)
    BY <2>1, FS_Subset, FS_CardinalityType
  <2> QED BY <2>2 DEF b
<1>3. gaps \in SUBSET Nat /\ gaps # {}
  <2> HIDE DEF rank
  <2>1. \A s \in T : Cardinality(R) - rank(s) \in Nat
    BY <1>2
  <2> QED BY <2>1
<1>4. PICK g \in gaps : \A h \in gaps : g <= h
  <2> HIDE DEF gaps
  <2> QED BY <1>3, LeastNat
<1>5. PICK s \in T : g = Cardinality(R) - rank(s)
  OBVIOUS
<1>6. \A t \in T : rank(t) <= rank(s)
  <2> HIDE DEF rank
  <2>1. \A t \in T : Cardinality(R) - rank(s) <= Cardinality(R) - rank(t)
    BY <1>4, <1>5
  <2> QED BY <1>2, <2>1
<1>7. ASSUME NEW t \in T \ {s} PROVE <<t, s>> \in lt
  <2> SUFFICES ASSUME <<t, s>> \notin lt PROVE FALSE
    OBVIOUS
  <2>1. <<s, t>> \in lt
    BY DEF TakenInTurn
  <2> DEFINE a == Before(R, lt, s)
             b == Before(R, lt, t)
  <2>2. a \in SUBSET b /\ s \in b /\ s \notin a
    BY <2>1 DEF Before, TakenInTurn
  <2>3. IsFiniteSet(a) /\ IsFiniteSet(b)
    BY <1>1
  <2>4. Cardinality(b) <= Cardinality(a)
    BY <1>6
  <2> HIDE DEF a, b
  <2>5. Cardinality(a) <= Cardinality(b) /\ (Cardinality(a) = Cardinality(b) => a = b)
    BY <2>2, <2>3, FS_Subset
  <2>6. Cardinality(a) \in Nat /\ Cardinality(b) \in Nat
    BY <2>3, FS_CardinalityType
  <2> QED BY <2>2, <2>4, <2>5, <2>6
<1> QED BY <1>7

\* In all no more than there is to spend.
LEMMA TurnsSpend ==
  ASSUME NEW R, NEW lt, NEW need, NEW n, NEW taken, TakenInTurn(R, lt, need, n, taken)
  PROVE  SumFunctionOnSet(taken, R) <= n
<1> DEFINE T == {s \in R : taken[s] > 0}
<1>1. IsFiniteSet(R) /\ n \in Nat /\ \A s \in R : need[s] \in Nat
  BY DEF TakenInTurn
<1>2. \A s \in R : taken[s] \in Nat
  BY TurnsTaken
<1>3. CASE T = {}
  <2>1. \A s \in R : taken[s] = 0
    BY <1>2, <1>3
  <2>2. SumFunctionOnSet(taken, R) = 0
    BY <1>1, <2>1, SumZero
  <2> QED BY <1>1, <2>2
<1>4. CASE T # {}
  <2>1. PICK s \in T : \A t \in T \ {s} : <<t, s>> \in lt
    <3>1. T \in SUBSET R
      OBVIOUS
    <3> HIDE DEF T
    <3> QED BY <1>4, <3>1, LastOf
  <2> DEFINE b == Before(R, lt, s)
             w == b \cup {s}
  <2>2. /\ b \in SUBSET R /\ s \notin b /\ s \in R /\ w \in SUBSET R /\ w \ {s} = b /\ s \in w
        /\ IsFiniteSet(b) /\ IsFiniteSet(w)
        /\ SumFunctionOnSet(need, b) \in Nat
    BY NeedBefore
  <2>3. \A x \in R : x \notin w => taken[x] = 0
    <3> SUFFICES ASSUME NEW x \in R, x \notin w, taken[x] # 0 PROVE FALSE
      OBVIOUS
    <3>1. x \in T \ {s}
      BY <1>2
    <3> QED BY <2>1, <3>1 DEF Before
  <2>4. /\ taken[s] + SumFunctionOnSet(need, b) <= n
        /\ \A t \in b : taken[t] = need[t]
    BY TurnsTaken
  <2> HIDE DEF b, w, T
  <2>5. SumFunctionOnSet(taken, w) = SumFunctionOnSet(taken, R)
    <3>1. /\ \A x \in R : taken[x] = IF x \in w THEN taken[x] ELSE 0
          /\ \A x \in w : taken[x] \in Int
      BY <1>2, <2>2, <2>3
    <3> QED BY <1>1, <2>2, <3>1, SumRestrict
  <2>6. SumFunctionOnSet(taken, w) = taken[s] + SumFunctionOnSet(taken, b)
    <3>1. \A x \in w : taken[x] \in Int
      BY <1>2, <2>2
    <3>2. SumFunctionOnSet(taken, w) = taken[s] + SumFunctionOnSet(taken, w \ {s})
      BY <2>2, <3>1, SumRemoves
    <3> QED BY <2>2, <3>2
  <2>7. SumFunctionOnSet(need, b) = SumFunctionOnSet(taken, b)
    <3>1. \A x \in b : need[x] \in Int /\ taken[x] = need[x]
      BY <1>1, <2>2, <2>4
    <3> QED BY <2>2, <3>1, SumSame
  <2> QED BY <2>4, <2>5, <2>6, <2>7
<1> QED BY <1>3, <1>4

-----------------------------------------------------------------------------
(***************************************************************************)
(* What a print takes of the reach                                         *)
(***************************************************************************)
\* The places a print reaches, each before those of a worse price or further back, and
\* what there is to take at each.
NodeAt(l, s) == l[s[1]][s[2]]
Firsts(side, R) == {x \in R \X R : \/ Better(side, x[1][1], x[2][1])
                                   \/ x[1][1] = x[2][1] /\ x[1][2] < x[2][2]}
Needs(l, R) == [s \in R |-> IF IsOwn(NodeAt(l, s)) THEN Open(NodeAt(l, s).who) ELSE NodeAt(l, s).qty]

\* What there is to take at a place: some of an own order, what is known of the public.
LEMMA NeedsAre ==
  ASSUME OrdersOk(orders), NEW side \in Sides, NEW l, Stands(l, side), NEW price \in Prices,
         NEW s \in Reach(l, side, price)
  PROVE  /\ Needs(l, Reach(l, side, price))[s] \in Nat
         /\ IsOwn(NodeAt(l, s)) => /\ NodeAt(l, s).who \in Order
                                   /\ RestsOn(orders[NodeAt(l, s).who], side)
                                   /\ Needs(l, Reach(l, side, price))[s] = Open(NodeAt(l, s).who)
                                   /\ Open(NodeAt(l, s).who) > 0
         /\ ~ IsOwn(NodeAt(l, s)) => Needs(l, Reach(l, side, price))[s] = NodeAt(l, s).qty
<1> DEFINE need == Needs(l, Reach(l, side, price))
           n    == NodeAt(l, s)
<1>1. l \in Ladder
  BY DEF Stands
<1>2. need[s] = IF IsOwn(n) THEN Open(n.who) ELSE n.qty
  BY DEF Needs
<1>3. /\ n \in Nodes /\ (~ IsOwn(n) => n.qty \in Nat) /\ (IsOwn(n) => n.who \in Order)
  BY <1>1, ReachIs DEF NodeAt
<1>4. ASSUME IsOwn(n) PROVE RestsOn(orders[n.who], side) /\ Open(n.who) \in Nat /\ Open(n.who) > 0
  <2>1. n.who \in StandsAt(orders, side, s[1])
    <3>1. n.who \in Order /\ l[s[1]][s[2]].who = n.who
      BY <1>3, <1>4 DEF NodeAt
    <3> HIDE DEF n
    <3> QED BY <3>1, OnePlace
  <2> DEFINE o == n.who
  <2>2. o \in Order /\ RestsOn(orders[o], side)
    BY <2>1 DEF StandsAt
  <2> HIDE DEF o
  <2>3. RowOk(orders[o])
    <3>1. orders[o].phase # "unborn"
      BY <2>2 DEF RestsOn
    <3> QED BY <2>2, <3>1, RowOr
  <2>4. orders[o].qty \in Nat /\ orders[o].filled \in Nat /\ orders[o].filled < orders[o].qty
    BY <2>2, <2>3, RowIs DEF RestsOn
  <2>5. Open(o) \in Nat /\ Open(o) > 0
    BY <2>4 DEF Open
  <2> QED BY <2>2, <2>5 DEF o
<1> HIDE DEF need, n
<1>5. /\ need[s] \in Nat
      /\ IsOwn(n) => /\ n.who \in Order /\ RestsOn(orders[n.who], side)
                     /\ need[s] = Open(n.who) /\ Open(n.who) > 0
      /\ ~ IsOwn(n) => need[s] = n.qty
  BY <1>2, <1>3, <1>4
<1> QED BY <1>5 DEF need, n

\* A print takes them in turn.
LEMMA ReachTurns ==
  ASSUME OrdersOk(orders), NEW side \in Sides, NEW l, Stands(l, side), NEW print \in Prints,
         NEW R, R = Reach(l, side, print.price)
  PROVE  TakenInTurn(R, Firsts(side, R), Needs(l, R), print.qty, Taken(l, side, print))
<1> DEFINE lt    == Firsts(side, R)
           need  == Needs(l, R)
           taken == Taken(l, side, print)
<1>1. print \in [side : {"Buy", "Sell"}, price : Nat, qty : Nat] /\ print.price \in Prices
  BY VenueAssumption DEF Prices
<1>2. l \in Ladder /\ print.qty \in Nat
  BY <1>1 DEF Stands
<1>3. IsFiniteSet(R)
  <2>1. IsFiniteSet(Spots(l))
    BY <1>2, SpotsAre
  <2>2. R \subseteq Spots(l)
    BY DEF Reach
  <2> QED BY <2>1, <2>2, FS_Subset
<1>4. \A s \in R : s = <<s[1], s[2]>> /\ s[1] \in Nat /\ s[2] \in Nat
  <2> TAKE s \in R
  <2>1. s = <<s[1], s[2]>> /\ s[1] \in Prices /\ s[2] \in DOMAIN l[s[1]] /\ l[s[1]] \in Seq(Nodes)
    BY <1>1, <1>2, ReachIs
  <2>2. DOMAIN l[s[1]] = 1 .. Len(l[s[1]]) /\ Len(l[s[1]]) \in Nat
    BY <2>1, KnownTyped
  <2> QED BY <2>1, <2>2, PricesAre
<1>5. \A s, t \in R : <<s, t>> \in lt <=> Better(side, s[1], t[1]) \/ (s[1] = t[1] /\ s[2] < t[2])
  BY DEF Firsts
<1>6. \A s \in R : need[s] \in Nat
  BY <1>1, NeedsAre
<1>7. ASSUME NEW s \in R
      PROVE  taken[s] = Lesser(need[s], Greater(0, print.qty - SumFunctionOnSet(need, Before(R, lt, s))))
  <2> DEFINE first == {t \in R : Better(side, t[1], s[1]) \/ (t[1] = s[1] /\ t[2] < s[2])}
  <2>1. first = Before(R, lt, s)
    BY <1>5 DEF Before
  <2>2. taken[s] = Lesser(need[s], Greater(0, print.qty - SumFunctionOnSet(need, first)))
    BY DEF Taken, Needs, NodeAt
  <2> HIDE DEF first, need, taken, lt
  <2>3. SumFunctionOnSet(need, first) = SumFunctionOnSet(need, Before(R, lt, s))
    BY <2>1
  <2> QED BY <2>2, <2>3
<1> HIDE DEF lt, need, taken
<1>8. \A s \in R : <<s, s>> \notin lt
  BY <1>4, <1>5 DEF Better
<1>9. ASSUME NEW s \in R, NEW t \in R, NEW u \in R, <<s, t>> \in lt, <<t, u>> \in lt PROVE <<s, u>> \in lt
  <2>1. /\ Better(side, s[1], t[1]) \/ (s[1] = t[1] /\ s[2] < t[2])
        /\ Better(side, t[1], u[1]) \/ (t[1] = u[1] /\ t[2] < u[2])
    BY <1>5, <1>9
  <2>2. Better(side, s[1], u[1]) \/ (s[1] = u[1] /\ s[2] < u[2])
    BY <1>4, <2>1 DEF Better
  <2> QED BY <1>5, <2>2
<1>10. ASSUME NEW s \in R, NEW t \in R PROVE s = t \/ <<s, t>> \in lt \/ <<t, s>> \in lt
  <2>1. \/ s[1] = t[1] /\ s[2] = t[2]
        \/ Better(side, s[1], t[1]) \/ (s[1] = t[1] /\ s[2] < t[2])
        \/ Better(side, t[1], s[1]) \/ (t[1] = s[1] /\ t[2] < s[2])
    BY <1>4 DEF Better
  <2>2. s[1] = t[1] /\ s[2] = t[2] => s = t
    BY <1>4
  <2> QED BY <1>5, <2>1, <2>2
<1>11. TakenInTurn(R, lt, need, print.qty, taken)
  BY <1>2, <1>3, <1>6, <1>7, <1>8, <1>9, <1>10 DEF TakenInTurn
<1> QED BY <1>11 DEF lt, need, taken

\* What the orders got of it is what was taken where they stand.
OwnPlaces(l, R, got) == {s \in R : NodeAt(l, s).who \in Hits(got)}

\* Summed over the orders and over the places.
LEMMA FillsAdd ==
  ASSUME OrdersOk(orders), NEW side \in Sides, NEW l, Stands(l, side), NEW print \in Prints,
         NEW taken, taken = Taken(l, side, print), NEW got, got = Got(l, taken),
         NEW R, R = Reach(l, side, print.price)
  PROVE  SumFunctionOnSet(got, Hits(got)) = SumFunctionOnSet(taken, OwnPlaces(l, R, got))
<1> DEFINE H == Hits(got)
           W == OwnPlaces(l, R, got)
           b == [o \in H |-> CHOOSE s \in R : NodeAt(l, s).who = o]
<1>1. IsFiniteSet(H) /\ H \in SUBSET Order
  <2>1. H \in SUBSET Order
    BY DEF Hits
  <2> HIDE DEF H
  <2> QED BY <2>1, NodesAre, FS_Subset
<1>2. print.price \in Prices
  BY VenueAssumption DEF Prices
<1>3. ASSUME NEW o \in H
      PROVE  b[o] \in R /\ NodeAt(l, b[o]).who = o /\ got[o] = taken[b[o]] /\ got[o] \in Int
  <2>1. \E s \in R : NodeAt(l, s).who = o
    <3> SUFFICES ASSUME \A s \in R : NodeAt(l, s).who # o PROVE FALSE
      OBVIOUS
    <3>1. got[o] = 0
      BY <1>1, GotIs DEF NodeAt
    <3>2. got[o] > 0
      BY DEF Hits
    <3> QED BY <3>1, <3>2
  <2>2. b[o] = CHOOSE s \in R : NodeAt(l, s).who = o
    OBVIOUS
  <2>3. b[o] \in R /\ NodeAt(l, b[o]).who = o
    BY <2>1, <2>2
  <2> HIDE DEF b, H
  <2>4. got[o] = taken[b[o]] /\ taken[b[o]] \in Nat
    BY <1>1, <2>3, GotIs DEF NodeAt
  <2> QED BY <2>3, <2>4
<1>4. ASSUME NEW s \in W PROVE NodeAt(l, s).who \in H /\ b[NodeAt(l, s).who] = s
  <2>1. s \in R /\ NodeAt(l, s).who \in H
    BY DEF OwnPlaces
  <2> DEFINE o == NodeAt(l, s).who
  <2>2. b[o] \in R /\ NodeAt(l, b[o]).who = o
    BY <1>3, <2>1
  <2> DEFINE t == b[o]
  <2> HIDE DEF b, H
  <2>3. o \in Order
    BY <1>1, <2>1
  <2>4. /\ s \in Reach(l, side, print.price) /\ l[s[1]][s[2]].who = o
        /\ t \in Reach(l, side, print.price) /\ l[t[1]][t[2]].who = o
    BY <2>1, <2>2 DEF NodeAt
  <2> HIDE DEF t, o
  <2>5. t = s
    BY <1>2, <2>3, <2>4, OnePlace
  <2> QED BY <2>1, <2>5 DEF t, o
<1>5. b \in [H -> W]
  BY <1>3 DEF OwnPlaces
<1>6. \A x, y \in H : b[x] = b[y] => x = y
  <2> HIDE DEF b, H
  <2> QED BY <1>3
<1>7. \A y \in W : \E x \in H : b[x] = y
  BY <1>4
<1>8. \A x \in H : got[x] \in Int /\ taken[b[x]] = got[x]
  <2> HIDE DEF b, H
  <2> QED BY <1>3
<1> HIDE DEF b, H, W
<1>9. SumFunctionOnSet(got, H) = SumFunctionOnSet(taken, W)
  BY <1>1, <1>5, <1>6, <1>7, <1>8, SumReindexed
<1> QED BY <1>9 DEF H, W

\* An order that gets something of a print stands where the print reaches.
LEMMA HitStands ==
  ASSUME OrdersOk(orders), NEW side \in Sides, NEW l, Stands(l, side), NEW print \in Prints,
         NEW taken, taken = Taken(l, side, print), NEW got, got = Got(l, taken),
         NEW R, R = Reach(l, side, print.price), NEW o \in Hits(got)
  PROVE  /\ o \in Order /\ RestsOn(orders[o], side) /\ ~ Better(side, print.price, orders[o].price)
         /\ \E s \in R : /\ NodeAt(l, s).who = o /\ s[1] = orders[o].price
                         /\ got[o] = taken[s] /\ got[o] \in Nat /\ got[o] > 0
<1>1. o \in Order /\ got[o] > 0
  BY DEF Hits
<1>2. print.price \in Prices /\ print.price \in Nat
  BY VenueAssumption DEF Prices
<1>3. PICK s \in R : NodeAt(l, s).who = o
  <2> SUFFICES ASSUME \A s \in R : NodeAt(l, s).who # o PROVE FALSE
    OBVIOUS
  <2>1. got[o] = 0
    BY <1>1, GotIs DEF NodeAt
  <2> QED BY <1>1, <2>1
<1>4. got[o] = taken[s] /\ taken[s] \in Nat /\ RestsOn(orders[o], side)
  BY <1>1, <1>3, GotIs DEF NodeAt
<1>5. o \in StandsAt(orders, side, s[1])
  <2>1. l[s[1]][s[2]].who = o
    BY <1>3 DEF NodeAt
  <2> QED BY <1>1, <1>2, <2>1, OnePlace
<1>6. s[1] = orders[o].price
  BY <1>5 DEF StandsAt
<1>7. s[1] \in Nat
  <2>1. s[1] \in Prices
    BY <1>2, ReachIs DEF Stands
  <2> QED BY <2>1, PricesAre
<1>8. ~ Better(side, print.price, s[1])
  BY <1>2, <1>7 DEF Reach, Better
<1> QED BY <1>1, <1>3, <1>4, <1>6, <1>8

\* Orders of a better price, or of the same and placed before it, are filled whole by
\* the same print.
LEMMA SoonerWhole ==
  ASSUME OrdersOk(orders), NEW side \in Sides, NEW l, Stands(l, side), NEW print \in Prints,
         NEW got, got = Got(l, Taken(l, side, print)), \A p \in Prices : Lined(l[p]),
         NEW o \in Hits(got), NEW r \in Order, RestsOn(orders[r], side),
         \/ Better(side, orders[r].price, orders[o].price)
         \/ orders[r].price = orders[o].price /\ r < o
  PROVE  r \in Whole(got) /\ r \in Hits(got)
<1> DEFINE taken == Taken(l, side, print)
           R     == Reach(l, side, print.price)
           need  == Needs(l, R)
           lt    == Firsts(side, R)
<1>1. print.price \in Prices /\ print.price \in Nat /\ l \in Ladder
  BY VenueAssumption DEF Prices, Stands
<1>2. PICK s \in R : /\ NodeAt(l, s).who = o /\ s[1] = orders[o].price
                     /\ got[o] = taken[s] /\ got[o] \in Nat /\ got[o] > 0
  BY HitStands
<1>3. o \in Order /\ ~ Better(side, print.price, orders[o].price)
  BY HitStands
<1>4. /\ s = <<s[1], s[2]>> /\ s[1] \in Prices /\ s[2] \in DOMAIN l[s[1]] /\ l[s[1]] \in Seq(Nodes)
  BY <1>1, ReachIs
<1> DEFINE p == orders[r].price
<1>5. p \in Prices /\ r \in StandsAt(orders, side, p)
  <2>1. RowOk(orders[r])
    <3>1. orders[r].phase # "unborn"
      BY DEF RestsOn
    <3> QED BY <3>1, RowOr
  <2> QED BY <2>1, RowIs DEF StandsAt
<1>6. l[p] \in Seq(Nodes) /\ StandOnce(l[p], StandsAt(orders, side, p)) /\ Lined(l[p])
  BY <1>5 DEF Stands, Ladder
<1>7. PICK k \in DOMAIN l[p] : l[p][k].who = r
  BY <1>5, <1>6, PlaceOf
<1> DEFINE t == <<p, k>>
<1>8. t[1] = p /\ t[2] = k /\ NodeAt(l, t) = l[p][k] /\ t \in Spots(l)
  BY <1>1, <1>5, SpotsAre DEF NodeAt
<1>9. IsOwn(NodeAt(l, t)) /\ NodeAt(l, t).who = r
  BY <1>7, <1>8, NodesAre DEF IsOwn
<1>10. p \in Nat /\ s[1] \in Nat /\ k \in Nat /\ s[2] \in Nat /\ o \in Nat /\ r \in Nat
  <2>1. DOMAIN l[p] = 1 .. Len(l[p]) /\ DOMAIN l[s[1]] = 1 .. Len(l[s[1]])
    BY <1>4, <1>6, KnownTyped
  <2>2. Len(l[p]) \in Nat /\ Len(l[s[1]]) \in Nat
    BY <1>4, <1>6, KnownTyped
  <2> QED BY <1>3, <1>4, <1>5, <1>7, <2>1, <2>2, PricesAre, NodesAre
<1>11. p = s[1] /\ r < o => k < s[2]
  <2> SUFFICES ASSUME p = s[1], r < o, ~ k < s[2] PROVE FALSE
    OBVIOUS
  <2>1. l[p][s[2]].who = o /\ s[2] \in DOMAIN l[p] /\ IsOwn(l[p][s[2]]) /\ IsOwn(l[p][k])
    BY <1>2, <1>3, <1>4, <1>8, <1>9, NodesAre DEF NodeAt, IsOwn
  <2>2. k # s[2]
    BY <1>7, <1>10, <2>1
  <2>3. s[2] < k
    BY <1>10, <2>2
  <2>4. o < r
    BY <1>6, <1>7, <2>1, <2>3 DEF Lined
  <2> QED BY <1>10, <2>4
<1>12. Better(side, p, s[1]) \/ (p = s[1] /\ k < s[2])
  BY <1>2, <1>11
<1>13. t \in R
  <2>1. CASE Better(side, p, print.price)
    BY <1>8, <1>9, <2>1 DEF Reach, NodeAt
  <2>2. CASE ~ Better(side, p, print.price)
    <3>1. ~ Better(side, p, s[1])
      BY <1>1, <1>2, <1>3, <1>10, <2>2 DEF Better
    <3>2. p = s[1] /\ k < s[2]
      BY <1>12, <3>1
    <3>3. s[1] = print.price /\ \A j \in 1 .. s[2] : l[print.price][j] # Unseen
      BY <2>2, <3>2 DEF Reach
    <3>4. \A j \in 1 .. k : j \in 1 .. s[2]
      BY <1>10, <3>2
    <3> QED BY <1>8, <3>2, <3>3, <3>4 DEF Reach
  <2> QED BY <2>1, <2>2
<1>14. t \in Before(R, lt, s)
  BY <1>8, <1>12, <1>13 DEF Before, Firsts
<1>15. taken[t] = need[t]
  <2>1. TakenInTurn(R, lt, need, print.qty, taken)
    BY ReachTurns
  <2> HIDE DEF taken, R, need, lt, t, p
  <2> QED BY <1>2, <1>14, <2>1, TurnsTaken
<1>16. need[t] = Open(r) /\ Open(r) > 0
  <2> HIDE DEF t, p
  <2> QED BY <1>1, <1>9, <1>13, NeedsAre
<1>17. got[r] = taken[t]
  <2>1. l[t[1]][t[2]].who = r
    BY <1>9 DEF NodeAt
  <2> HIDE DEF t, p
  <2> QED BY <1>13, <2>1, GotIs
<1> HIDE DEF taken, t, need
<1>18. got[r] = Open(r) /\ got[r] > 0
  BY <1>15, <1>16, <1>17
<1> QED BY <1>18 DEF Whole, Hits

\* The fills of a print come to no more than it traded.
LEMMA FillsFit ==
  ASSUME OrdersOk(orders), NEW side \in Sides, NEW l, Stands(l, side), NEW print \in Prints,
         NEW taken, taken = Taken(l, side, print), NEW got, got = Got(l, taken),
         NEW R, R = Reach(l, side, print.price), NEW V \in SUBSET R, V \cap OwnPlaces(l, R, got) = {}
  PROVE  /\ SumFunctionOnSet(taken, V) \in Nat /\ SumFunctionOnSet(got, Hits(got)) \in Nat
         /\ SumFunctionOnSet(taken, V) + SumFunctionOnSet(got, Hits(got)) <= print.qty
<1> DEFINE W == OwnPlaces(l, R, got)
<1>1. TakenInTurn(R, Firsts(side, R), Needs(l, R), print.qty, taken)
  BY ReachTurns
<1>2. SumFunctionOnSet(taken, R) <= print.qty
  BY <1>1, TurnsSpend
<1>3. \A s \in R : taken[s] \in Nat
  BY <1>1, TurnsTaken
<1>4. IsFiniteSet(R) /\ print.qty \in Nat
  BY <1>1 DEF TakenInTurn
<1>5. W \in SUBSET R
  BY DEF OwnPlaces
<1>6. SumFunctionOnSet(got, Hits(got)) = SumFunctionOnSet(taken, W)
  BY FillsAdd
<1> HIDE DEF W
<1>7. V \cup W \in SUBSET R /\ IsFiniteSet(V \cup W) /\ V \cap W = {}
  <2>1. V \cup W \in SUBSET R
    BY <1>5
  <2> QED BY <1>4, <2>1, FS_Subset DEF W
<1>8. SumFunctionOnSet(taken, V \cup W) = SumFunctionOnSet(taken, V) + SumFunctionOnSet(taken, W)
  <2>1. \A x \in V \cup W : taken[x] \in Int
    BY <1>3, <1>7
  <2> QED BY <1>7, <2>1, SumParts
<1>9. /\ SumFunctionOnSet(taken, V) \in Nat /\ SumFunctionOnSet(taken, W) \in Nat
      /\ SumFunctionOnSet(taken, V \cup W) \in Nat /\ SumFunctionOnSet(taken, R) \in Nat
      /\ SumFunctionOnSet(taken, V \cup W) <= SumFunctionOnSet(taken, R)
  BY <1>3, <1>4, <1>5, <1>7, SumPart
<1> QED BY <1>2, <1>4, <1>6, <1>8, <1>9

\* An order at the print's own price gets something only once all that stands ahead of it
\* has been traded.
LEMMA AheadFirst ==
  ASSUME OrdersOk(orders), NEW side \in Sides, NEW l, Stands(l, side), NEW print \in Prints,
         NEW got, got = Got(l, Taken(l, side, print)), NEW o \in Hits(got), orders[o].price = print.price
  PROVE  /\ AheadOf(l[print.price], o) # Hidden
         /\ AheadOf(l[print.price], o) + SumFunctionOnSet(got, Hits(got)) <= print.qty
<1> DEFINE taken == Taken(l, side, print)
           R     == Reach(l, side, print.price)
           need  == Needs(l, R)
           lt    == Firsts(side, R)
           p     == print.price
           q     == l[p]
<1>1. p \in Prices /\ p \in Nat /\ l \in Ladder
  BY VenueAssumption DEF Prices, Stands
<1>2. PICK s \in R : /\ NodeAt(l, s).who = o /\ s[1] = orders[o].price
                     /\ got[o] = taken[s] /\ got[o] \in Nat /\ got[o] > 0
  BY HitStands
<1>3. o \in Order
  BY DEF Hits
<1> DEFINE at == s[2]
<1>4. /\ s = <<p, at>> /\ at \in DOMAIN q /\ q \in Seq(Nodes) /\ q[at].who = o
      /\ StandOnce(q, StandsAt(orders, side, p))
  <2>1. s = <<s[1], s[2]>> /\ s[2] \in DOMAIN l[s[1]]
    BY <1>1, ReachIs
  <2> QED BY <1>1, <1>2, <2>1 DEF NodeAt, Stands, Ladder
<1>5. DOMAIN q = 1 .. Len(q) /\ Len(q) \in Nat
  BY <1>4, KnownTyped
<1>6. \A j \in 1 .. at : q[j] # Unseen
  <2>1. ~ Better(side, s[1], p)
    BY <1>1, <1>2 DEF Better
  <2> QED BY <2>1 DEF Reach
<1>7. AheadOf(q, o) = KnownIn(q, 1 .. at) /\ KnownIn(q, 1 .. at) \in Nat
  <2>1. ~ UnseenTo(q, at)
    BY <1>6 DEF UnseenTo
  <2> HIDE DEF q, at
  <2> QED BY <1>3, <1>4, <2>1, AheadIs
<1> DEFINE P == {k \in 1 .. at : IsKnown(q[k])}
           b == [k \in P |-> <<p, k>>]
           V == {<<p, k>> : k \in P}
<1>8. /\ 1 .. at \in SUBSET DOMAIN q /\ IsFiniteSet(1 .. at)
  <2>1. 1 .. at \in SUBSET DOMAIN q
    BY <1>4, <1>5
  <2>2. IsFiniteSet(DOMAIN q)
    BY <1>4, KnownTyped
  <2> HIDE DEF q, at
  <2> QED BY <2>1, <2>2, FS_Subset
<1>9. ASSUME NEW k \in P
      PROVE  /\ <<p, k>> \in R /\ taken[<<p, k>>] = q[k].qty /\ q[k].qty \in Nat
             /\ NodeAt(l, <<p, k>>).who = Nobody
  <2> DEFINE t == <<p, k>>
  <2>1. k \in DOMAIN q /\ k \in 1 .. at /\ IsKnown(q[k])
    BY <1>8
  <2>2. t[1] = p /\ t[2] = k /\ NodeAt(l, t) = q[k] /\ t \in Spots(l)
    BY <1>1, <2>1, SpotsAre DEF NodeAt
  <2>3. k # at
    BY <1>3, <1>4, <2>1, NodesAre DEF IsKnown
  <2>4. k < at /\ \A j \in 1 .. k : j \in 1 .. at
    BY <1>4, <1>5, <2>1, <2>3
  <2>5. t \in R
    BY <1>6, <2>2, <2>4 DEF Reach
  <2>6. t \in Before(R, lt, s)
    BY <1>4, <2>2, <2>4, <2>5 DEF Before, Firsts
  <2>7. taken[t] = need[t]
    <3>1. TakenInTurn(R, lt, need, print.qty, taken)
      BY ReachTurns
    <3> HIDE DEF taken, R, need, lt, t
    <3> QED BY <1>2, <2>6, <3>1, TurnsTaken
  <2>8. ~ IsOwn(q[k]) /\ q[k].who = Nobody
    BY <2>1 DEF IsKnown, IsOwn
  <2>9. need[t] = q[k].qty /\ need[t] \in Nat
    <3>1. ~ IsOwn(NodeAt(l, t)) /\ NodeAt(l, t).qty = q[k].qty
      BY <2>2, <2>8
    <3> HIDE DEF t, q
    <3> QED BY <1>1, <2>5, <3>1, NeedsAre
  <2> HIDE DEF taken, need, R, q
  <2> QED BY <2>2, <2>5, <2>7, <2>8, <2>9
<1> HIDE DEF taken, need, lt, R, q, at
<1>10. KnownIn(q, 1 .. at) = SumFunctionOnSet(Values(q), 1 .. at)
  BY DEF KnownIn, Values
<1> DEFINE f == Values(q)
<1>11. SumFunctionOnSet(f, P) = SumFunctionOnSet(f, 1 .. at)
  <2> DEFINE S == 1 .. at
  <2>1. P \in SUBSET S /\ IsFiniteSet(S)
    BY <1>8
  <2>2. \A k \in S : f[k] = IF k \in P THEN f[k] ELSE 0
    BY <1>8 DEF Values
  <2>3. \A k \in P : f[k] \in Int
    <3> TAKE k \in P
    <3>1. f[k] = q[k].qty
      BY <1>8 DEF Values
    <3>2. q[k].qty \in Nat
      BY <1>9
    <3> QED BY <3>1, <3>2
  <2> HIDE DEF f, P, S
  <2>4. SumFunctionOnSet(f, P) = SumFunctionOnSet(f, S)
    BY <2>1, <2>2, <2>3, SumRestrict
  <2> QED BY <2>4 DEF S
<1>12. SumFunctionOnSet(f, P) = SumFunctionOnSet(taken, V)
  <2>1. IsFiniteSet(P)
    <3>1. P \in SUBSET (1 .. at)
      OBVIOUS
    <3> HIDE DEF P
    <3> QED BY <1>8, <3>1, FS_Subset
  <2>2. b \in [P -> V]
    OBVIOUS
  <2>3. \A x, y \in P : b[x] = b[y] => x = y
    OBVIOUS
  <2>4. \A y \in V : \E x \in P : b[x] = y
    OBVIOUS
  <2>5. \A x \in P : f[x] \in Int /\ taken[b[x]] = f[x]
    <3> TAKE x \in P
    <3>1. f[x] = q[x].qty
      BY <1>8 DEF Values
    <3>2. b[x] = <<p, x>>
      OBVIOUS
    <3>3. taken[<<p, x>>] = q[x].qty /\ q[x].qty \in Nat
      BY <1>9
    <3> HIDE DEF f, b, P
    <3> QED BY <3>1, <3>2, <3>3
  <2> HIDE DEF f, P, V, b
  <2> QED BY <2>1, <2>2, <2>3, <2>4, <2>5, SumReindexed
<1>13. V \in SUBSET R /\ V \cap OwnPlaces(l, R, got) = {}
  <2>1. \A x \in V : x \in R /\ NodeAt(l, x).who = Nobody
    BY <1>9
  <2>2. Nobody \notin Hits(got)
    BY NodesAre DEF Hits
  <2> HIDE DEF V
  <2> QED BY <2>1, <2>2 DEF OwnPlaces
<1> HIDE DEF f, V, P, b
<1>14. /\ SumFunctionOnSet(taken, V) \in Nat /\ SumFunctionOnSet(got, Hits(got)) \in Nat
       /\ SumFunctionOnSet(taken, V) + SumFunctionOnSet(got, Hits(got)) <= print.qty
  BY <1>13, FillsFit DEF taken, R
<1>15. AheadOf(q, o) = SumFunctionOnSet(taken, V)
  BY <1>7, <1>10, <1>11, <1>12 DEF f
<1> QED BY <1>14, <1>15 DEF q, Hidden

\* What an order got of a step, as the property counts it.
GotBy(o) == IF orders[o].phase = "unborn" THEN 0 ELSE orders'[o].filled - orders[o].filled

\* In a print it is what the print gave it.
LEMMA GotByPrint ==
  ASSUME OrdersOk(orders), NEW side \in Sides, NEW got, Fits(orders, got, side),
         \A o \in Order : orders'[o] = IF o \in Hits(got) THEN FilledBy(orders[o], got[o]) ELSE orders[o]
  PROVE  /\ \A o \in Order : GotBy(o) = got[o] /\ got[o] \in Nat
         /\ {o \in Order : GotBy(o) > 0} = Hits(got)
         /\ SumFunction([o \in {x \in Order : GotBy(x) > 0} |-> GotBy(o)]) = SumFunctionOnSet(got, Hits(got))
         /\ \A o \in Hits(got) : o \in Whole(got) => orders'[o].phase = "closed"
<1>1. ASSUME NEW o \in Hits(got)
      PROVE  GotBy(o) = got[o] /\ (o \in Whole(got) => orders'[o].phase = "closed")
  <2>1. /\ o \in Order /\ RowOk(orders[o]) /\ orders[o].phase = "resting"
        /\ got[o] \in Nat /\ got[o] > 0 /\ got[o] <= orders[o].qty - orders[o].filled
    BY HitIs
  <2>2. orders'[o] = FilledBy(orders[o], got[o])
    BY <2>1
  <2>3. /\ FilledBy(orders[o], got[o]).filled = orders[o].filled + got[o]
        /\ FilledBy(orders[o], got[o]).phase
             = IF got[o] = orders[o].qty - orders[o].filled THEN "closed" ELSE "resting"
    BY <2>1, FilledIs
  <2>4. orders[o].filled \in Nat
    BY <2>1, RowIs
  <2> QED BY <2>1, <2>2, <2>3, <2>4 DEF GotBy, Whole, Open
<1>2. ASSUME NEW o \in Order, o \notin Hits(got) PROVE GotBy(o) = got[o] /\ got[o] \in Nat
  <2>1. got[o] \in Nat
    BY DEF Fits
  <2>2. got[o] = 0
    BY <1>2, <2>1 DEF Hits
  <2>3. orders'[o] = orders[o]
    BY <1>2
  <2>4. orders[o].phase # "unborn" => orders[o].filled \in Nat
    BY RowOr, RowIs
  <2> QED BY <2>2, <2>3, <2>4 DEF GotBy
<1>3. \A o \in Order : GotBy(o) = got[o] /\ got[o] \in Nat
  BY <1>1, <1>2, HitIs
<1>4. {o \in Order : GotBy(o) > 0} = Hits(got)
  BY <1>3 DEF Hits
<1> DEFINE H == {o \in Order : GotBy(o) > 0}
           f == [o \in H |-> GotBy(o)]
<1>5. SumFunction(f) = SumFunctionOnSet(f, H)
  BY DEF SumFunction
<1>6. IsFiniteSet(H) /\ \A o \in H : f[o] \in Int /\ got[o] = f[o]
  <2>1. H \in SUBSET Order
    OBVIOUS
  <2>2. \A o \in H : f[o] \in Int /\ got[o] = f[o]
    BY <1>3
  <2> HIDE DEF f, H
  <2> QED BY <2>1, <2>2, NodesAre, FS_Subset
<1>7. SumFunctionOnSet(got, H) = SumFunctionOnSet(got, Hits(got))
  BY <1>4
<1> HIDE DEF f, H
<1>8. SumFunctionOnSet(f, H) = SumFunctionOnSet(got, H)
  BY <1>6, SumSame
<1>9. SumFunction(f) = SumFunctionOnSet(got, Hits(got))
  BY <1>5, <1>7, <1>8
<1> QED BY <1>1, <1>3, <1>4, <1>9 DEF f, H

\* One print.
LEMMA FairPrint ==
  ASSUME VenueInv, OrderInv, NEW print \in Prints, Trade(print), NEW side, side = Opposite(print.side)
  PROVE  /\ SumFunction([o \in {x \in Order : GotBy(x) > 0} |-> GotBy(o)]) <= print.qty
         /\ \A o \in {x \in Order : GotBy(x) > 0} :
              /\ orders[o].side = side /\ ~ Better(side, print.price, orders[o].price)
              /\ \A r \in RestingOn(side) :
                   \/ Better(side, orders[r].price, orders[o].price)
                   \/ orders[r].price = orders[o].price /\ r < o
                   => orders'[r].phase = "closed"
              /\ orders[o].price = print.price =>
                   /\ AheadOf(ladders[side][print.price], o) # Hidden
                   /\ AheadOf(ladders[side][print.price], o)
                        + SumFunction([x \in {y \in Order : GotBy(y) > 0} |-> GotBy(x)]) <= print.qty
<1> DEFINE l   == ladders[side]
           got == Got(l, Taken(l, side, print))
           sum == SumFunction([o \in {x \in Order : GotBy(x) > 0} |-> GotBy(o)])
<1>1. /\ OrdersTyped /\ OrdersOk(orders) /\ QueuesOk(ladders, orders, book) /\ WalletOk(orders, funds, fees)
  BY VenueQueues
<1>2. Match(print)
  BY DEF Trade
<1>3. /\ side \in Sides /\ Stands(l, side) /\ Fits(orders, got, side)
      /\ \A o \in Order : orders'[o] = IF o \in Hits(got) THEN FilledBy(orders[o], got[o]) ELSE orders[o]
  BY <1>1, <1>2, MatchIs DEF Hits
<1>4. \A p \in Prices : Lined(l[p])
  BY <1>3 DEF OrderInv, AllLined
<1> HIDE DEF l
<1>5. /\ {o \in Order : GotBy(o) > 0} = Hits(got) /\ sum = SumFunctionOnSet(got, Hits(got))
      /\ \A o \in Hits(got) : o \in Whole(got) => orders'[o].phase = "closed"
  <2> HIDE DEF got
  <2> QED BY <1>1, <1>3, GotByPrint
<1>6. SumFunctionOnSet(got, Hits(got)) <= print.qty
  <2> DEFINE R == Reach(l, side, print.price)
             taken == Taken(l, side, print)
             V == {}
  <2>1. V \in SUBSET R /\ V \cap OwnPlaces(l, R, got) = {}
    OBVIOUS
  <2>2. SumFunctionOnSet(taken, V) = 0
    BY SumEmpty
  <2> HIDE DEF V
  <2>3. /\ SumFunctionOnSet(taken, V) \in Nat /\ SumFunctionOnSet(got, Hits(got)) \in Nat
        /\ SumFunctionOnSet(taken, V) + SumFunctionOnSet(got, Hits(got)) <= print.qty
    BY <1>1, <1>3, <2>1, FillsFit
  <2> HIDE DEF taken, got, R
  <2> QED BY <2>2, <2>3
<1>7. ASSUME NEW o \in Hits(got)
      PROVE  /\ RestsOn(orders[o], side) /\ ~ Better(side, print.price, orders[o].price)
  BY <1>1, <1>3, HitStands
<1>8. ASSUME NEW o \in Hits(got), NEW r \in RestingOn(side),
             \/ Better(side, orders[r].price, orders[o].price)
             \/ orders[r].price = orders[o].price /\ r < o
      PROVE  orders'[r].phase = "closed"
  <2>1. r \in Order /\ RestsOn(orders[r], side)
    BY DEF RestingOn, IsResting, RestsOn
  <2>2. r \in Whole(got) /\ r \in Hits(got)
    BY <1>1, <1>3, <1>4, <1>8, <2>1, SoonerWhole
  <2> QED BY <1>5, <2>2
<1>9. ASSUME NEW o \in Hits(got), orders[o].price = print.price
      PROVE  /\ AheadOf(l[print.price], o) # Hidden
             /\ AheadOf(l[print.price], o) + SumFunctionOnSet(got, Hits(got)) <= print.qty
  BY <1>1, <1>3, <1>9, AheadFirst
<1> HIDE DEF got, sum
<1>10. /\ sum <= print.qty
       /\ \A o \in {x \in Order : GotBy(x) > 0} :
            /\ orders[o].side = side /\ ~ Better(side, print.price, orders[o].price)
            /\ \A r \in RestingOn(side) :
                 \/ Better(side, orders[r].price, orders[o].price)
                 \/ orders[r].price = orders[o].price /\ r < o
                 => orders'[r].phase = "closed"
            /\ orders[o].price = print.price =>
                 /\ AheadOf(l[print.price], o) # Hidden
                 /\ AheadOf(l[print.price], o) + sum <= print.qty
  BY <1>5, <1>6, <1>7, <1>8, <1>9 DEF RestsOn
<1> QED BY <1>10 DEF sum, l

\* A print fills in order of price and then of place, no more than it traded, and at its
\* own price only once all that stands ahead has been traded (matching.rs: walk_aggressor).
THEOREM FillsAreFair == Spec => FairFills
<1>1. (VenueInv /\ OrderInv) /\ [Next]_vars =>
        [LET got(o) == IF orders[o].phase = "unborn" THEN 0 ELSE orders'[o].filled - orders[o].filled
             hit    == {o \in Order : got(o) > 0}
             total  == SumFunction([o \in hit |-> got(o)])
         IN hit # {} =>
              \A print \in Prints :
                Trade(print) =>
                  LET side         == Opposite(print.side)
                      sooner(r, o) == \/ Better(side, orders[r].price, orders[o].price)
                                      \/ orders[r].price = orders[o].price /\ r < o
                  IN /\ total <= print.qty
                     /\ \A o \in hit :
                          /\ orders[o].side = side /\ ~ Better(side, print.price, orders[o].price)
                          /\ \A r \in RestingOn(side) : sooner(r, o) => orders'[r].phase = "closed"
                          /\ orders[o].price = print.price =>
                               LET ahead == AheadOf(ladders[side][print.price], o)
                               IN ahead # Hidden /\ ahead + total <= print.qty]_vars
  <2> SUFFICES ASSUME VenueInv, OrderInv, NEW print \in Prints, Trade(print)
               PROVE  /\ SumFunction([o \in {x \in Order : GotBy(x) > 0} |-> GotBy(o)]) <= print.qty
                      /\ \A o \in {x \in Order : GotBy(x) > 0} :
                           /\ orders[o].side = Opposite(print.side)
                           /\ ~ Better(Opposite(print.side), print.price, orders[o].price)
                           /\ \A r \in RestingOn(Opposite(print.side)) :
                                \/ Better(Opposite(print.side), orders[r].price, orders[o].price)
                                \/ orders[r].price = orders[o].price /\ r < o
                                => orders'[r].phase = "closed"
                           /\ orders[o].price = print.price =>
                                /\ AheadOf(ladders[Opposite(print.side)][print.price], o) # Hidden
                                /\ AheadOf(ladders[Opposite(print.side)][print.price], o)
                                     + SumFunction([x \in {y \in Order : GotBy(y) > 0} |-> GotBy(x)])
                                     <= print.qty
    BY DEF GotBy
  <2> QED BY FairPrint
<1> QED BY <1>1, OrderSafe, PTL DEF Spec, FairFills
=============================================================================
