-------------------------- MODULE BudgetMeter_proofs --------------------------
(***************************************************************************)
(* A meter's counts are those of the placements filed under its last five  *)
(* slots, and these cover the venue's window.                              *)
(***************************************************************************)
EXTENDS BudgetMeter, FiniteSetTheorems, TLAPS

Indices == 0 .. Counted - 1

\* The slot a placement was counted in.
FiledIn(w, k) == SlotOf(w, placed[k].by)

Filed(w, i) ==
  {k \in DOMAIN placed : FiledIn(w, k) > newest[w] - Counted /\ SlotIndex(FiledIn(w, k)) = i}

BudgetTyped ==
  /\ newest \in [Windows -> Int]
  /\ places \in [Windows -> [Indices -> Nat]]
  /\ now \in Nat \cup {Unseen} /\ latest \in Nat \cup {Unseen}
  /\ now <= latest /\ (latest # Unseen => now # Unseen)
  /\ placed \in Seq([stamp : Nat, by : Nat])

Ordered ==
  /\ \A k \in DOMAIN placed : placed[k].stamp <= placed[k].by /\ placed[k].by <= latest
  /\ \A w \in Windows : newest[w] = IF latest = Unseen THEN Never ELSE SlotOf(w, latest)

Counts == \A w \in Windows, i \in Indices : places[w][i] = Cardinality(Filed(w, i))

BudgetInv == BudgetTyped /\ Ordered /\ Counts
-----------------------------------------------------------------------------
LEMMA Quarters ==
  ASSUME BudgetDeclared, NEW w \in Windows
  PROVE  SlotWidth(w) \in Nat \ {0} /\ Span[w] = 4 * SlotWidth(w)
<1>1. Span[w] \in Nat \ {0} /\ Span[w] % 4 = 0
  BY DEF BudgetDeclared
<1>2. Span[w] \div 4 \in Nat /\ Span[w] = 4 * (Span[w] \div 4)
  BY <1>1
<1> QED BY <1>1, <1>2 DEF SlotWidth

LEMMA Division ==
  ASSUME NEW a \in Nat, NEW q \in Nat \ {0}
  PROVE  a \div q \in Nat /\ q * (a \div q) <= a /\ a < q * (a \div q) + q
  OBVIOUS

\* Four slots earlier at most: what is no further back than four widths.
LEMMA SlotsBack ==
  ASSUME NEW a \in Nat, NEW b \in Nat, NEW q \in Nat \ {0}, NEW n \in Nat, a >= b - n * q
  PROVE  a \div q >= (b \div q) - n
<1> DEFINE x == a \div q
           y == b \div q
<1>1. x \in Nat /\ a < q * x + q
  BY Division
<1>2. y \in Nat /\ q * y <= b
  BY Division
<1> HIDE DEF x, y
<1> SUFFICES ASSUME x + 1 + n <= y PROVE FALSE
  BY <1>1, <1>2 DEF x, y
<1>3. q * (x + 1 + n) <= q * y
  BY <1>1, <1>2
<1>4. q * (x + 1 + n) = q * x + q + n * q
  BY <1>1
<1> QED BY <1>1, <1>2, <1>3, <1>4

LEMMA SlotTyped ==
  ASSUME BudgetDeclared, NEW w \in Windows, NEW a \in Nat
  PROVE  SlotOf(w, a) \in Nat
  BY Quarters, Division DEF SlotOf

LEMMA SlotGrows ==
  ASSUME BudgetDeclared, NEW w \in Windows, NEW a \in Nat, NEW b \in Nat, a <= b
  PROVE  SlotOf(w, a) <= SlotOf(w, b)
<1>1. SlotWidth(w) \in Nat \ {0} /\ b >= a - 0 * SlotWidth(w)
  BY Quarters
<1>2. SlotOf(w, b) >= SlotOf(w, a) - 0
  BY <1>1, SlotsBack DEF SlotOf
<1> QED BY <1>2, SlotTyped

LEMMA IndexTyped == \A s \in Int : SlotIndex(s) \in Indices
  BY DEF SlotIndex, Indices, Counted

\* Five slots in a row have five indices, and a slot that of the fifth before it.
LEMMA IndexApart ==
  ASSUME NEW s \in Int, NEW t \in Int, s < t, t < s + Counted
  PROVE  SlotIndex(s) # SlotIndex(t)
  BY DEF SlotIndex, Counted

LEMMA IndexAgain == \A s \in Int : SlotIndex(s + Counted) = SlotIndex(s)
  BY DEF SlotIndex, Counted

LEMMA PlacedTyped ==
  ASSUME BudgetTyped, NEW k \in DOMAIN placed
  PROVE  placed[k] \in [stamp : Nat, by : Nat]
<1> DEFINE Entries == [stamp : Nat, by : Nat]
<1>1. placed \in Seq(Entries)
  BY DEF BudgetTyped
<1> HIDE DEF Entries
<1>2. placed[k] \in Entries
  BY <1>1
<1> QED BY <1>2 DEF Entries

LEMMA FiledTyped ==
  ASSUME BudgetDeclared, BudgetInv, NEW w \in Windows
  PROVE  /\ \A k \in DOMAIN placed :
              /\ placed[k].stamp \in Nat /\ placed[k].by \in Nat /\ latest \in Nat
              /\ FiledIn(w, k) \in Nat /\ FiledIn(w, k) <= newest[w]
         /\ newest[w] \in Int
         /\ \A i \in Indices : IsFiniteSet(Filed(w, i)) /\ places[w][i] \in Nat
<1>1. newest[w] \in Int /\ \A i \in Indices : places[w][i] \in Nat
  BY DEF BudgetInv, BudgetTyped
<1>2. ASSUME NEW k \in DOMAIN placed
      PROVE  /\ placed[k].stamp \in Nat /\ placed[k].by \in Nat /\ latest \in Nat
             /\ FiledIn(w, k) \in Nat /\ FiledIn(w, k) <= newest[w]
  <2>1. placed[k] \in [stamp : Nat, by : Nat]
    BY PlacedTyped DEF BudgetInv
  <2>2. placed[k].by <= latest /\ latest \in Nat
    BY <2>1 DEF BudgetInv, BudgetTyped, Ordered, Unseen
  <2>3. newest[w] = SlotOf(w, latest)
    BY <2>2 DEF BudgetInv, Ordered, Unseen
  <2> QED BY <2>1, <2>2, <2>3, SlotTyped, SlotGrows DEF FiledIn
<1>3. ASSUME NEW i \in Indices PROVE IsFiniteSet(Filed(w, i))
  <2>1. Len(placed) \in Nat /\ DOMAIN placed = 1 .. Len(placed)
    BY DEF BudgetInv, BudgetTyped
  <2>2. IsFiniteSet(DOMAIN placed)
    BY <2>1, FS_Interval
  <2> QED BY <2>2, FS_Subset DEF Filed
<1> QED BY <1>1, <1>2, <1>3
-----------------------------------------------------------------------------
LEMMA BudgetStarts == BudgetDeclared /\ MeterInit => BudgetInv
<1> SUFFICES ASSUME BudgetDeclared, MeterInit PROVE BudgetInv
  OBVIOUS
<1>1. BudgetTyped
  BY DEF MeterInit, BudgetTyped, Indices, Never, Counted, Unseen
<1>2. Ordered
  BY DEF MeterInit, Ordered
<1>3. Counts
  <2> SUFFICES ASSUME NEW w \in Windows, NEW i \in Indices
               PROVE  places[w][i] = Cardinality(Filed(w, i))
    BY DEF Counts
  <2>1. Filed(w, i) = {} /\ places[w][i] = 0
    BY DEF MeterInit, Filed, Indices
  <2> QED BY <2>1, FS_EmptySet
<1> QED BY <1>1, <1>2, <1>3 DEF BudgetInv

\* The slots that are passed take their placements out of the count, and no others.
LEMMA ObserveKeeps ==
  ASSUME BudgetDeclared, BudgetInv, NEW at \in Nat, ObserveSpin(at)
  PROVE  BudgetInv'
<1>0. /\ newest \in [Windows -> Int] /\ places \in [Windows -> [Indices -> Nat]]
      /\ latest \in Nat \cup {Unseen} /\ now <= latest
      /\ placed \in Seq([stamp : Nat, by : Nat]) /\ placed' = placed
      /\ now' = at /\ latest' = (IF at > latest THEN at ELSE latest)
  BY DEF BudgetInv, BudgetTyped, ObserveSpin
<1>1. \A w \in Windows :
        /\ newest'[w] = IF SlotOf(w, at) > newest[w] THEN SlotOf(w, at) ELSE newest[w]
        /\ places'[w] = AdvanceTo(w, SlotOf(w, at))
        /\ SlotOf(w, at) \in Nat /\ newest[w] \in Int
  BY <1>0, SlotTyped DEF ObserveSpin
<1>2. BudgetTyped'
  <2>1. newest' \in [Windows -> Int]
    BY <1>0, <1>1 DEF ObserveSpin
  <2>2. places' \in [Windows -> [Indices -> Nat]]
    <3>1. \A w \in Windows : AdvanceTo(w, SlotOf(w, at)) \in [Indices -> Nat]
      BY <1>0 DEF AdvanceTo, Indices
    <3> QED BY <3>1 DEF ObserveSpin
  <2> QED BY <1>0, <2>1, <2>2 DEF BudgetTyped, Unseen
<1>3. Ordered'
  <2>1. \A k \in DOMAIN placed' : placed'[k].stamp <= placed'[k].by /\ placed'[k].by <= latest'
    <3> SUFFICES ASSUME NEW k \in DOMAIN placed
                 PROVE  placed[k].stamp <= placed[k].by /\ placed[k].by <= latest'
      BY <1>0
    <3>1. placed[k].stamp <= placed[k].by /\ placed[k].by <= latest
      BY DEF BudgetInv, Ordered
    <3>2. placed[k] \in [stamp : Nat, by : Nat]
      BY PlacedTyped DEF BudgetInv
    <3>3. placed[k].by \in Nat /\ latest <= latest' /\ latest \in Int /\ latest' \in Int
      BY <1>0, <3>2 DEF Unseen
    <3> QED BY <3>1, <3>3
  <2>2. ASSUME NEW w \in Windows
        PROVE  newest'[w] = IF latest' = Unseen THEN Never ELSE SlotOf(w, latest')
    <3>1. CASE latest = Unseen
      BY <1>0, <1>1, <3>1 DEF BudgetInv, Ordered, Unseen, Never, Counted
    <3>2. CASE latest # Unseen
      <4>1. latest \in Nat /\ newest[w] = SlotOf(w, latest)
        BY <1>0, <3>2 DEF BudgetInv, Ordered
      <4>2. CASE at > latest
        BY <1>0, <1>1, <4>1, <4>2, SlotGrows DEF Unseen
      <4>3. CASE at <= latest
        BY <1>0, <1>1, <4>1, <4>3, SlotGrows DEF Unseen
      <4> QED BY <4>1, <4>2, <4>3
    <3> QED BY <3>1, <3>2
  <2> QED BY <2>1, <2>2 DEF Ordered
<1>4. Counts'
  <2> SUFFICES ASSUME NEW w \in Windows, NEW i \in Indices
               PROVE  places'[w][i] = Cardinality(Filed(w, i)')
    BY DEF Counts
  <2> DEFINE slot == SlotOf(w, at)
  <2>1. /\ newest'[w] \in Int /\ newest'[w] >= newest[w] /\ newest[w] \in Int /\ slot \in Nat
        /\ \A s \in Int : s \in newest[w] + 1 .. slot <=> newest[w] < s /\ s <= newest'[w]
        /\ \A s \in newest[w] + 1 .. slot : s \in Int
    BY <1>1
  <2>2. places'[w][i] = IF i \in Retired(w, slot) THEN 0 ELSE places[w][i]
    BY <1>1 DEF AdvanceTo, Indices
  <2>3. Filed(w, i)' = {k \in DOMAIN placed : FiledIn(w, k) > newest'[w] - Counted
                                              /\ SlotIndex(FiledIn(w, k)) = i}
    BY <1>0 DEF Filed, FiledIn
  <2>4. \A k \in DOMAIN placed : FiledIn(w, k) \in Nat /\ FiledIn(w, k) <= newest[w]
    BY FiledTyped
  <2> HIDE DEF slot
  <2>5. CASE i \in Retired(w, slot)
    <3>1. PICK s \in newest[w] + 1 .. slot : SlotIndex(s) = i
      BY <2>5 DEF Retired
    <3>2. s \in Int /\ newest[w] < s /\ s <= newest'[w]
      BY <2>1, <3>1
    <3>3. ASSUME NEW k \in DOMAIN placed, FiledIn(w, k) > newest'[w] - Counted
          PROVE  SlotIndex(FiledIn(w, k)) # i
      <4>1. FiledIn(w, k) < s /\ s < FiledIn(w, k) + Counted /\ FiledIn(w, k) \in Int
        BY <2>1, <2>4, <3>2, <3>3 DEF Counted
      <4> QED BY <3>1, <3>2, <4>1, IndexApart
    <3>4. Filed(w, i)' = {}
      BY <2>3, <3>3
    <3> QED BY <2>2, <2>5, <3>4, FS_EmptySet
  <2>6. CASE i \notin Retired(w, slot)
    <3>1. ASSUME NEW k \in DOMAIN placed, SlotIndex(FiledIn(w, k)) = i,
                 FiledIn(w, k) > newest[w] - Counted
          PROVE  FiledIn(w, k) > newest'[w] - Counted
      <4> DEFINE s == FiledIn(w, k) + Counted
      <4>1. FiledIn(w, k) \in Int /\ s \in Int /\ SlotIndex(s) = i
        BY <2>4, <3>1, IndexAgain DEF Counted
      <4>2. s \notin newest[w] + 1 .. slot
        BY <2>6, <4>1 DEF Retired
      <4>3. newest[w] < s
        BY <2>1, <2>4, <3>1 DEF Counted
      <4> QED BY <2>1, <4>1, <4>2, <4>3 DEF Counted
    <3>2. ASSUME NEW k \in DOMAIN placed, FiledIn(w, k) > newest'[w] - Counted
          PROVE  FiledIn(w, k) > newest[w] - Counted
      BY <2>1, <2>4, <3>2 DEF Counted
    <3>3. Filed(w, i)' = Filed(w, i)
      BY <2>3, <3>1, <3>2 DEF Filed
    <3> QED BY <2>2, <2>6, <3>3 DEF BudgetInv, Counts
  <2> QED BY <2>5, <2>6
<1> QED BY <1>2, <1>3, <1>4 DEF BudgetInv

LEMMA RecordKeeps ==
  ASSUME BudgetDeclared, BudgetInv, RecordPlace
  PROVE  BudgetInv'
<1> DEFINE n == Len(placed)
           p == [stamp |-> now, by |-> latest]
<1>0. /\ newest \in [Windows -> Int] /\ places \in [Windows -> [Indices -> Nat]]
      /\ placed \in Seq([stamp : Nat, by : Nat]) /\ n \in Nat
      /\ now \in Nat /\ latest \in Nat /\ now <= latest
      /\ placed' = Append(placed, p) /\ newest' = newest /\ now' = now /\ latest' = latest
      /\ places' = [w \in Windows |-> [places[w] EXCEPT ![SlotIndex(newest[w])] = @ + 1]]
  BY DEF BudgetInv, BudgetTyped, RecordPlace, Unseen
<1>1. /\ placed' \in Seq([stamp : Nat, by : Nat]) /\ DOMAIN placed = 1 .. n
      /\ DOMAIN placed' = 1 .. n + 1 /\ placed'[n + 1] = p
      /\ \A k \in 1 .. n : placed'[k] = placed[k]
  BY <1>0
<1>2. BudgetTyped'
  <2>1. places' \in [Windows -> [Indices -> Nat]]
    <3>1. \A w \in Windows : [places[w] EXCEPT ![SlotIndex(newest[w])] = @ + 1] \in [Indices -> Nat]
      <4> SUFFICES ASSUME NEW w \in Windows
                   PROVE  [places[w] EXCEPT ![SlotIndex(newest[w])] = @ + 1] \in [Indices -> Nat]
        OBVIOUS
      <4>1. SlotIndex(newest[w]) \in Indices /\ places[w] \in [Indices -> Nat]
        BY <1>0, IndexTyped
      <4>2. places[w][SlotIndex(newest[w])] + 1 \in Nat
        BY <4>1
      <4> QED BY <4>1, <4>2
    <3> QED BY <1>0, <3>1
  <2> QED BY <1>0, <1>1, <2>1 DEF BudgetTyped, BudgetInv
<1>3. Ordered'
  <2>1. ASSUME NEW k \in 1 .. n + 1
        PROVE  placed'[k].stamp <= placed'[k].by /\ placed'[k].by <= latest
    <3>1. CASE k = n + 1
      BY <1>0, <1>1, <3>1
    <3>2. CASE k \in 1 .. n
      BY <1>1, <3>2 DEF BudgetInv, Ordered
    <3> QED BY <1>0, <3>1, <3>2
  <2> QED BY <1>0, <1>1, <2>1 DEF Ordered, BudgetInv
<1>4. Counts'
  <2> SUFFICES ASSUME NEW w \in Windows, NEW i \in Indices
               PROVE  places'[w][i] = Cardinality(Filed(w, i)')
    BY DEF Counts
  <2>1. newest[w] = SlotOf(w, latest) /\ newest[w] \in Int /\ SlotIndex(newest[w]) \in Indices
    BY <1>0, IndexTyped DEF BudgetInv, Ordered, Unseen
  <2>2. places'[w][i] = IF i = SlotIndex(newest[w]) THEN places[w][i] + 1 ELSE places[w][i]
    BY <1>0, <2>1
  <2> DEFINE Late(k) == SlotOf(w, placed'[k].by)
  <2>3. Late(n + 1) = newest[w] /\ \A k \in 1 .. n : Late(k) = FiledIn(w, k)
    BY <1>1, <2>1 DEF FiledIn
  <2>4. n + 1 \notin Filed(w, i) /\ IsFiniteSet(Filed(w, i)) /\ places[w][i] = Cardinality(Filed(w, i))
    BY <1>0, <1>1, FiledTyped DEF Filed, BudgetInv, Counts
  <2>5. Filed(w, i)' = {k \in 1 .. n + 1 : Late(k) > newest[w] - Counted
                                           /\ SlotIndex(Late(k)) = i}
    BY <1>0, <1>1 DEF Filed, FiledIn
  <2> HIDE DEF Late
  <2>6. Filed(w, i) = {k \in 1 .. n : FiledIn(w, k) > newest[w] - Counted
                                      /\ SlotIndex(FiledIn(w, k)) = i}
    BY <1>1 DEF Filed
  <2>7. 1 .. n + 1 = (1 .. n) \cup {n + 1} /\ newest[w] > newest[w] - Counted
    BY <1>0, <2>1 DEF Counted
  <2>8. CASE i = SlotIndex(newest[w])
    <3>1. Filed(w, i)' = Filed(w, i) \cup {n + 1}
      BY <2>3, <2>5, <2>6, <2>7, <2>8
    <3> QED BY <2>2, <2>4, <2>8, <3>1, FS_AddElement
  <2>9. CASE i # SlotIndex(newest[w])
    <3>1. Filed(w, i)' = Filed(w, i)
      BY <2>3, <2>5, <2>6, <2>7, <2>9
    <3> QED BY <2>2, <2>4, <2>9, <3>1
  <2> QED BY <2>8, <2>9
<1> QED BY <1>2, <1>3, <1>4 DEF BudgetInv

LEMMA BudgetKept ==
  ASSUME BudgetDeclared, BudgetInv, [MeterNext]_meterVars
  PROVE  BudgetInv'
<1>1. ASSUME NEW at \in 0 .. MaxStamp, ObserveSpin(at) PROVE BudgetInv'
  BY <1>1, ObserveKeeps DEF BudgetDeclared
<1>2. CASE PlaceQuote \/ PlaceFlatten
  BY <1>2, RecordKeeps DEF PlaceQuote, PlaceFlatten
<1>3. CASE UNCHANGED meterVars
  BY <1>3 DEF meterVars, BudgetInv, BudgetTyped, Ordered, Counts, Filed, FiledIn
<1> QED BY <1>1, <1>2, <1>3 DEF MeterNext
-----------------------------------------------------------------------------
LEMMA UnionOfFive ==
  ASSUME NEW A, NEW B, NEW C, NEW D, NEW E, IsFiniteSet(A), IsFiniteSet(B), IsFiniteSet(C),
         IsFiniteSet(D), IsFiniteSet(E)
  PROVE  /\ IsFiniteSet(A \cup B \cup C \cup D \cup E)
         /\ Cardinality(A \cup B \cup C \cup D \cup E)
              <= Cardinality(A) + Cardinality(B) + Cardinality(C) + Cardinality(D) + Cardinality(E)
<1>1. ASSUME NEW S, NEW T, IsFiniteSet(S), IsFiniteSet(T)
      PROVE  /\ IsFiniteSet(S \cup T) /\ Cardinality(S \cup T) \in Nat
             /\ Cardinality(S) \in Nat /\ Cardinality(T) \in Nat
             /\ Cardinality(S \cup T) <= Cardinality(S) + Cardinality(T)
  <2>1. IsFiniteSet(S \cap T)
    BY <1>1, FS_Subset
  <2>2. /\ IsFiniteSet(S \cup T)
        /\ Cardinality(S \cup T) = Cardinality(S) + Cardinality(T) - Cardinality(S \cap T)
    BY <1>1, FS_Union
  <2> QED BY <1>1, <2>1, <2>2, FS_CardinalityType
<1>2. /\ IsFiniteSet(A \cup B) /\ Cardinality(A \cup B) <= Cardinality(A) + Cardinality(B)
      /\ Cardinality(A) \in Nat /\ Cardinality(B) \in Nat /\ Cardinality(A \cup B) \in Nat
  BY <1>1
<1>3. /\ IsFiniteSet(A \cup B \cup C) /\ Cardinality(C) \in Nat
      /\ Cardinality(A \cup B \cup C) <= Cardinality(A \cup B) + Cardinality(C)
      /\ Cardinality(A \cup B \cup C) \in Nat
  BY <1>1, <1>2
<1>4. /\ IsFiniteSet(A \cup B \cup C \cup D) /\ Cardinality(D) \in Nat
      /\ Cardinality(A \cup B \cup C \cup D) <= Cardinality(A \cup B \cup C) + Cardinality(D)
      /\ Cardinality(A \cup B \cup C \cup D) \in Nat
  BY <1>1, <1>3
<1>5. /\ IsFiniteSet(A \cup B \cup C \cup D \cup E) /\ Cardinality(E) \in Nat
      /\ Cardinality(A \cup B \cup C \cup D \cup E) <= Cardinality(A \cup B \cup C \cup D) + Cardinality(E)
      /\ Cardinality(A \cup B \cup C \cup D \cup E) \in Nat
  BY <1>1, <1>4
<1> QED BY <1>2, <1>3, <1>4, <1>5

\* Each placement of the venue's window is filed under a slot still counted.
LEMMA WindowIsCounted ==
  ASSUME BudgetDeclared, BudgetInv, NEW w \in Windows
  PROVE  Cardinality(InWindow(w)) \in Nat /\ Cardinality(InWindow(w)) <= Used(w)
<1>1. ASSUME NEW k \in InWindow(w)
      PROVE  \E i \in Indices : k \in Filed(w, i)
  <2>1. /\ k \in DOMAIN placed /\ placed[k].stamp >= latest - Span[w]
        /\ placed[k].stamp \in Nat /\ placed[k].by \in Nat /\ latest \in Nat
        /\ FiledIn(w, k) \in Nat /\ newest[w] \in Int
    BY <1>1, FiledTyped DEF InWindow
  <2>2. placed[k].stamp <= placed[k].by /\ newest[w] = SlotOf(w, latest)
    BY <2>1 DEF BudgetInv, Ordered, Unseen
  <2>3. SlotWidth(w) \in Nat \ {0} /\ placed[k].by >= latest - 4 * SlotWidth(w)
    BY <2>1, <2>2, Quarters
  <2>4. FiledIn(w, k) >= newest[w] - 4
    BY <2>1, <2>2, <2>3, SlotsBack DEF SlotOf, FiledIn
  <2> QED BY <2>1, <2>4, IndexTyped DEF Filed, Counted
<1> DEFINE All == Filed(w, 0) \cup Filed(w, 1) \cup Filed(w, 2) \cup Filed(w, 3) \cup Filed(w, 4)
<1>2. InWindow(w) \subseteq All
  BY <1>1 DEF Indices, Counted
<1>3. {0, 1, 2, 3, 4} \subseteq Indices
  BY DEF Indices, Counted
<1>4. /\ \A i \in {0, 1, 2, 3, 4} : IsFiniteSet(Filed(w, i)) /\ places[w][i] \in Nat
      /\ \A i \in {0, 1, 2, 3, 4} : places[w][i] = Cardinality(Filed(w, i))
  BY <1>3, FiledTyped DEF BudgetInv, Counts
<1>5. IsFiniteSet(All) /\ Cardinality(All) <= Used(w)
  BY <1>4, UnionOfFive DEF Used
<1>6. Cardinality(InWindow(w)) <= Cardinality(All) /\ Cardinality(InWindow(w)) \in Nat
      /\ Cardinality(All) \in Nat
  BY <1>2, <1>5, FS_Subset, FS_CardinalityType
<1>7. Used(w) \in Nat
  BY <1>4 DEF Used
<1> HIDE DEF All
<1> QED BY <1>5, <1>6, <1>7

\* Whatever the venue declares and however the stamps come, a quote is admitted only
\* where the venue still has room for it (NeverOverspends).
THEOREM BudgetHolds ==
  ASSUME BudgetDeclared
  PROVE  MeterSpec => []NeverOverspends
<1>1. MeterInit => BudgetInv
  BY BudgetStarts
<1>2. BudgetInv /\ [MeterNext]_meterVars => BudgetInv'
  BY BudgetKept
<1>3. BudgetInv => NeverOverspends
  <2> SUFFICES ASSUME BudgetInv, AdmitsPlace, NEW w \in Windows
               PROVE  Cardinality(InWindow(w)) < MaxPlaces[w]
    BY DEF NeverOverspends
  <2>1. Used(w) < MaxPlaces[w] /\ MaxPlaces[w] \in Nat
    BY DEF AdmitsPlace, BudgetDeclared
  <2>2. \A i \in {0, 1, 2, 3, 4} : places[w][i] \in Nat
    BY FiledTyped DEF Indices, Counted
  <2>3. Used(w) \in Nat
    BY <2>2 DEF Used
  <2> QED BY <2>1, <2>3, WindowIsCounted
<1> QED BY <1>1, <1>2, <1>3, PTL DEF MeterSpec
=============================================================================
