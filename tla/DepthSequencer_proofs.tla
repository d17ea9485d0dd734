------------------------ MODULE DepthSequencer_proofs ------------------------
(***************************************************************************)
(* The depth path implements the abstract book feed, for any number of     *)
(* levels, update ids and frames, and any buffer capacity.                 *)
(*                                                                         *)
(* The heart of it: a chain of diffs covers every update id between its    *)
(* ends, so a level that no later diff touches has not changed since.  And *)
(* it loses its book only where the stream has a gap.                      *)
(***************************************************************************)
EXTENDS DepthSequencer, SequenceTheorems, WellFoundedInduction, TLAPS

-----------------------------------------------------------------------------
(***************************************************************************)
(* Natural numbers and sequences                                           *)
(***************************************************************************)
\* A non-empty set of naturals has a least member.
LEMMA LeastNat == ASSUME NEW S \in SUBSET Nat, S # {} PROVE \E x \in S : \A y \in S : x <= y
<1>1. PICK x \in S : \A y \in S : <<y, x>> \notin OpToRel(<, Nat)
  BY NatLessThanWellFounded, WFMin, Zenon
<1>2. \A y \in S : ~ (y < x)
  <2> SUFFICES ASSUME NEW y \in S, y < x PROVE FALSE
    OBVIOUS
  <2>1. <<y, x>> \in OpToRel(<, Nat)
    BY DEF OpToRel
  <2> QED BY <1>1, <2>1
<1> QED BY <1>2

\* A non-empty set of indices has a greatest member.
LEMMA GreatestIndex ==
  ASSUME NEW n \in Nat, NEW S \in SUBSET (1 .. n), S # {}
  PROVE  \E x \in S : \A y \in S : y <= x
<1> DEFINE T == {n - x : x \in S}
<1>1. PICK t \in T : \A u \in T : t <= u
  <2>1. \A x \in S : x \in 1 .. n /\ n - x \in Nat
    OBVIOUS
  <2>2. T \in SUBSET Nat /\ T # {}
    BY <2>1
  <2> HIDE DEF T
  <2> QED BY <2>2, LeastNat
<1>2. PICK x \in S : t = n - x
  OBVIOUS
<1>3. \A y \in S : n - x <= n - y
  BY <1>1, <1>2
<1> QED BY <1>3

\* The ids of a diff, and the diffs of a sequence.
LEMMA DiffIds ==
  ASSUME NEW d \in Diff
  PROVE  d.first \in Nat \ {0} /\ d.final \in Nat \ {0} /\ d.prev \in Nat
BY SequencerAssumption DEF Diff

LEMMA DiffsHeld ==
  ASSUME NEW held \in Seq(Diff)
  PROVE  /\ DOMAIN held = 1 .. Len(held) /\ Len(held) \in Nat
         /\ \A k \in 1 .. Len(held) : held[k] \in Diff /\ held[k].final \in Nat
<1>1. DOMAIN held = 1 .. Len(held) /\ Len(held) \in Nat /\ \A k \in 1 .. Len(held) : held[k] \in Diff
  OBVIOUS
<1> QED BY <1>1, DiffIds

-----------------------------------------------------------------------------
(***************************************************************************)
(* The invariant                                                           *)
(***************************************************************************)
\* A diff tells the truth: what it leaves out between the diff before it and
\* itself concerns no level.
Honest(d) ==
  /\ d \in Diff
  /\ d.prev < d.first /\ d.first <= d.final /\ d.final <= published
  /\ \A i \in d.prev + 1 .. d.first - 1 : tape[i] = Nothing

\* The stream brings honest diffs in the order of their ids, none older than the
\* last one handled.
StreamInOrder ==
  /\ Ascending(stream)
  /\ \A k \in DOMAIN stream : Honest(stream[k]) /\ latest <= stream[k].final

\* What is held is honest and not newer than the last diff handled; nor is the anchor.
HeldInOrder ==
  /\ anchor <= latest /\ latest <= published
  /\ \A k \in DOMAIN buffer : Honest(buffer[k]) /\ buffer[k].final <= latest

\* A live book is the venue's at the anchor, and there is no other.
BookTrue == hot = IF isLive THEN SetBySnapshot(anchor) ELSE Reset

IInv == TypeOK /\ StreamInOrder /\ HeldInOrder /\ BookTrue

-----------------------------------------------------------------------------
(***************************************************************************)
(* Books                                                                   *)
(***************************************************************************)
\* A level that no id between two changes is the same at both.
LEMMA SameLevel ==
  ASSUME NEW i \in Nat, NEW j \in Nat, i <= j, NEW l \in Levels,
         \A n \in i + 1 .. j : tape[n] # l
  PROVE  Feed!BookAt(i)[l] = Feed!BookAt(j)[l]
<1>1. {n \in 1 .. i : tape[n] = l} = {n \in 1 .. j : tape[n] = l}
  <2>1. ASSUME NEW n \in 1 .. j, tape[n] = l
        PROVE  n \in 1 .. i
    BY <2>1
  <2>2. 1 .. i \subseteq 1 .. j
    OBVIOUS
  <2> QED BY <2>1, <2>2
<1> QED BY <1>1 DEF Feed!BookAt

\* A diff that chains onto an id covers every change after it.
LEMMA ChainCovers ==
  ASSUME NEW d, Honest(d), NEW at \in Nat, ChainsOnto(at, d),
         NEW j \in at + 1 .. d.final, tape[j] \in Levels
  PROVE  Touches(d, tape[j])
<1>1. d.first \in Nat /\ d.final \in Nat /\ d.prev \in Nat
  BY DEF Honest, Diff
<1>2. CASE j >= d.first
  BY <1>1, <1>2 DEF Touches
<1>3. CASE j < d.first
  <2>1. d.prev = at
    BY <1>1, <1>3 DEF ChainsOnto
  <2>2. j \in d.prev + 1 .. d.first - 1
    BY <1>1, <1>3, <2>1
  <2> QED BY <2>2, SequencerAssumption DEF Honest
<1> QED BY <1>1, <1>2, <1>3

\* ... and ends after it.
LEMMA ChainGrows ==
  ASSUME NEW d, Honest(d), NEW at \in Nat, ChainsOnto(at, d)
  PROVE  at < d.final
<1>1. d.first \in Nat /\ d.final \in Nat /\ d.prev \in Nat /\ d.prev < d.first /\ d.first <= d.final
  BY DEF Honest, Diff
<1>2. CASE rule = "Spot"
  BY <1>1, <1>2 DEF ChainsOnto
<1>3. CASE rule # "Spot"
  BY <1>1, <1>3 DEF ChainsOnto
<1> QED BY <1>2, <1>3

\* Along a chain the ids grow.
LEMMA ChainAscends ==
  ASSUME NEW held \in Seq(Diff), \A k \in DOMAIN held : Honest(held[k]),
         NEW i \in Nat, ChainsFrom(held, i), NEW n \in DOMAIN held
  PROVE  held[n].final <= held[Len(held)].final
<1> DEFINE last == Len(held)
           S == {k \in n .. last : held[k].final < held[n].final}
<1>1. DOMAIN held = 1 .. last /\ last \in Nat /\ \A k \in 1 .. last : held[k].final \in Nat
  BY DiffsHeld
<1>2. S \in SUBSET Nat /\ n \in Nat
  BY <1>1
<1>3. SUFFICES ASSUME S # {} PROVE FALSE
  <2>1. last \in n .. last
    BY <1>1
  <2> QED BY <1>1, <1>3, <2>1
<1>4. PICK k \in S : \A m \in S : k <= m
  <2> HIDE DEF S
  <2> QED BY <1>2, <1>3, LeastNat
<1>5. k \in 2 .. last /\ k - 1 \in 1 .. last /\ held[k].final < held[n].final
      /\ held[n].final <= held[k - 1].final
  <2>1. k # n
    BY <1>1
  <2>2. k - 1 \in n .. last /\ ~ (k <= k - 1)
    BY <1>1, <1>2, <2>1
  <2>3. k - 1 \notin S
    BY <1>4, <2>2
  <2> QED BY <1>1, <1>2, <2>1, <2>2, <2>3
<1>6. ChainsOnto(held[k - 1].final, held[k]) /\ Honest(held[k])
  BY <1>1, <1>5 DEF ChainsFrom
<1>7. held[k - 1].final < held[k].final
  BY <1>1, <1>5, <1>6, ChainGrows
<1> QED BY <1>1, <1>5, <1>7

\* Along a chain, what no later diff touches is as the last one leaves it.
LEMMA LaterUntouched ==
  ASSUME NEW held \in Seq(Diff), \A k \in DOMAIN held : Honest(held[k]),
         NEW i \in Nat, ChainsFrom(held, i),
         NEW n \in DOMAIN held, NEW l \in Levels,
         \A k \in DOMAIN held : k > n => ~ Touches(held[k], l)
  PROVE  Feed!BookAt(held[n].final)[l] = Feed!BookAt(held[Len(held)].final)[l]
<1> DEFINE last == Len(held)
<1>1. DOMAIN held = 1 .. last /\ last \in Nat /\ \A k \in 1 .. last : held[k].final \in Nat
  BY DiffsHeld
<1>2. ASSUME NEW j \in held[n].final + 1 .. held[last].final, tape[j] = l
      PROVE  FALSE
  <2> DEFINE S == {k \in n + 1 .. last : j <= held[k].final}
  <2>1. n \in 1 .. last /\ held[n].final \in Nat /\ held[last].final \in Nat /\ n # last
    BY <1>1, <1>2
  <2>2. S \in SUBSET Nat /\ last \in S
    BY <1>1, <1>2, <2>1
  <2>3. PICK k \in S : \A m \in S : k <= m
    <3> HIDE DEF S
    <3> QED BY <2>2, LeastNat
  <2>4. k \in 2 .. last /\ k - 1 \in 1 .. last /\ k > n /\ j <= held[k].final
    BY <1>1, <2>1
  <2>5. held[k - 1].final < j
    <3>1. CASE k - 1 = n
      BY <1>1, <2>1, <3>1
    <3>2. CASE k - 1 # n
      <4>1. k - 1 \in n + 1 .. last /\ ~ (k <= k - 1)
        BY <1>1, <2>1, <2>4, <3>2
      <4>2. k - 1 \notin S
        BY <2>3, <4>1
      <4> QED BY <1>1, <2>1, <2>4, <4>1, <4>2
    <3> QED BY <3>1, <3>2
  <2>6. ChainsOnto(held[k - 1].final, held[k])
    BY <2>4 DEF ChainsFrom
  <2>7. j \in held[k - 1].final + 1 .. held[k].final
    BY <1>1, <2>1, <2>4, <2>5
  <2>8. Touches(held[k], tape[j])
    <3>1. Honest(held[k]) /\ held[k - 1].final \in Nat /\ tape[j] \in Levels
      BY <1>1, <1>2, <2>4
    <3> QED BY <2>6, <2>7, <3>1, ChainCovers
  <2> QED BY <1>1, <1>2, <2>4, <2>8
<1>3. held[n].final <= held[last].final
  BY ChainAscends
<1>4. held[n].final \in Nat /\ held[last].final \in Nat
  BY <1>1
<1> QED BY <1>2, <1>3, <1>4, SameLevel

-----------------------------------------------------------------------------
(***************************************************************************)
(* Rebuilding                                                              *)
(***************************************************************************)
Suffix(kept, held) ==
  \E skip \in 0 .. Len(held) :
    /\ Len(kept) = Len(held) - skip
    /\ \A k \in 1 .. Len(kept) : kept[k] = held[k + skip]

\* What is retained is a suffix that starts with a diff worth keeping, or nothing
\* was worth keeping.
LEMMA RetainedIsSuffix ==
  ASSUME NEW held \in Seq(Diff), NEW i \in Nat
  PROVE  /\ Retained(held, i) \in Seq(Diff) /\ Suffix(Retained(held, i), held)
         /\ Retained(held, i) = <<>> => \A k \in DOMAIN held : ~ Keeps(held[k], i)
         /\ Retained(held, i) # <<>> => Keeps(Retained(held, i)[1], i)
<1> DEFINE kept == {k \in DOMAIN held : Keeps(held[k], i)}
<1>1. DOMAIN held = 1 .. Len(held) /\ Len(held) \in Nat
  BY DiffsHeld
<1>2. CASE kept = {}
  <2>1. Retained(held, i) = <<>>
    BY <1>2 DEF Retained
  <2>2. Suffix(<<>>, held)
    <3>1. Len(held) \in 0 .. Len(held) /\ Len(<<>>) = Len(held) - Len(held)
      BY <1>1
    <3>2. \A k \in 1 .. Len(<<>>) : <<>>[k] = held[k + Len(held)]
      OBVIOUS
    <3> QED BY <3>1, <3>2 DEF Suffix
  <2> QED BY <1>2, <2>1, <2>2
<1>3. CASE kept # {}
  <2> DEFINE least == CHOOSE k \in kept : \A n \in kept : k <= n
  <2>1. kept \in SUBSET Nat
    BY <1>1
  <2>2. least \in kept
    <3> HIDE DEF kept
    <3> QED BY <1>3, <2>1, LeastNat
  <2>3. Retained(held, i) = SubSeq(held, least, Len(held))
    BY <1>3 DEF Retained
  <2>4. least \in 1 .. Len(held) /\ Keeps(held[least], i)
    BY <1>1, <2>2
  <2> HIDE DEF least
  <2> DEFINE r == SubSeq(held, least, Len(held))
  <2>5. r \in Seq(Diff) /\ Len(r) = Len(held) - least + 1
        /\ \A k \in 1 .. Len(r) : r[k] = held[least + k - 1]
    BY <1>1, <2>4, SubSeqProperties
  <2>6. Suffix(r, held)
    <3>1. least - 1 \in 0 .. Len(held) /\ Len(r) = Len(held) - (least - 1)
      BY <1>1, <2>4, <2>5
    <3>2. \A k \in 1 .. Len(r) : r[k] = held[k + (least - 1)]
      BY <1>1, <2>4, <2>5
    <3> QED BY <3>1, <3>2 DEF Suffix
  <2>7. r # <<>> /\ r[1] = held[least]
    <3> HIDE DEF r
    <3>1. Len(r) >= 1 /\ least + 1 - 1 = least
      BY <1>1, <2>4, <2>5
    <3>2. r[1] = held[least + 1 - 1]
      BY <1>1, <2>4, <2>5, <3>1
    <3> QED BY <3>1, <3>2
  <2> QED BY <2>3, <2>4, <2>5, <2>6, <2>7
<1> QED BY <1>2, <1>3

\* What holds of every diff holds of those retained, and the last is the same.
LEMMA SuffixInherits ==
  ASSUME NEW held \in Seq(Diff), NEW kept \in Seq(Diff), Suffix(kept, held)
  PROVE  /\ Len(kept) <= Len(held)
         /\ \A k \in DOMAIN kept : \E n \in DOMAIN held : kept[k] = held[n]
         /\ kept # <<>> => held # <<>> /\ kept[Len(kept)] = held[Len(held)]
         /\ Ascending(held) => Ascending(kept)
<1>1. PICK skip \in 0 .. Len(held) :
        /\ Len(kept) = Len(held) - skip
        /\ \A k \in 1 .. Len(kept) : kept[k] = held[k + skip]
  BY DEF Suffix
<1>2. DOMAIN held = 1 .. Len(held) /\ Len(held) \in Nat /\ DOMAIN kept = 1 .. Len(kept) /\ Len(kept) \in Nat
  BY DiffsHeld
<1>3. \A k \in DOMAIN kept : k + skip \in DOMAIN held /\ kept[k] = held[k + skip]
  BY <1>1, <1>2
<1>4. ASSUME kept # <<>>
      PROVE  held # <<>> /\ kept[Len(kept)] = held[Len(held)]
  <2>1. Len(kept) # 0
    BY <1>4
  <2> QED BY <1>1, <1>2, <2>1
<1>5. ASSUME Ascending(held)
      PROVE  Ascending(kept)
  <2> SUFFICES ASSUME NEW k \in DOMAIN kept, NEW n \in DOMAIN kept, k <= n
               PROVE  kept[k].final <= kept[n].final
    BY DEF Ascending
  <2>1. k + skip <= n + skip
    BY <1>1, <1>2
  <2> QED BY <1>3, <1>5, <2>1 DEF Ascending
<1> QED BY <1>1, <1>2, <1>3, <1>4, <1>5

\* A book whose levels are set, whatever its validity.
LEMMA SetLevels ==
  ASSUME NEW b, NEW f, NEW g
  PROVE  [[isValid |-> b, levels |-> f] EXCEPT !.levels = g] = [isValid |-> b, levels |-> g]
OBVIOUS

\* A snapshot and the chain of diffs after it make the venue's book at the last.
LEMMA RebuiltIsTrue ==
  ASSUME NEW held \in Seq(Diff), \A k \in DOMAIN held : Honest(held[k]),
         NEW i \in Nat, ChainsFrom(held, i), held # <<>> => i <= held[1].final
  PROVE  /\ Rebuilt(i, held) = SetBySnapshot(IF held = <<>> THEN i ELSE held[Len(held)].final)
         /\ held # <<>> => i <= held[Len(held)].final
<1>1. DOMAIN held = 1 .. Len(held) /\ Len(held) \in Nat
      /\ \A k \in 1 .. Len(held) : held[k] \in Diff /\ held[k].final \in Nat
  BY DiffsHeld
<1> DEFINE touching(l) == {k \in DOMAIN held : Touches(held[k], l)}
           last(l)     == CHOOSE k \in touching(l) : \A n \in touching(l) : n <= k
           end         == IF held = <<>> THEN i ELSE held[Len(held)].final
           level(l)    == IF touching(l) = {} THEN Feed!BookAt(i)[l] ELSE Feed!BookAt(held[last(l)].final)[l]
<1>2. ASSUME held # <<>>
      PROVE  1 \in DOMAIN held /\ Len(held) \in DOMAIN held /\ i <= held[1].final
             /\ held[1].final <= held[Len(held)].final
  <2>1. 1 \in DOMAIN held /\ Len(held) \in DOMAIN held
    BY <1>1, <1>2
  <2> QED BY <1>2, <2>1, ChainAscends
<1>3. ASSUME NEW l \in Levels
      PROVE  level(l) = Feed!BookAt(end)[l]
  <2>1. CASE held = <<>>
    BY <1>1, <2>1
  <2>2. CASE held # <<>> /\ touching(l) = {}
    <3>1. ASSUME NEW j \in i + 1 .. held[1].final, tape[j] = l
          PROVE  FALSE
      <4>1. Spans(held[1], i) /\ held[1].first \in Nat /\ held[1].final \in Nat
        BY <1>1, <1>2, <2>2, DiffIds DEF ChainsFrom
      <4>2. held[1].first <= i + 1
        BY <4>1 DEF Spans
      <4>3. j \in held[1].first .. held[1].final
        BY <4>1, <4>2
      <4>4. Touches(held[1], l)
        BY <3>1, <4>3 DEF Touches
      <4> QED BY <1>2, <2>2, <4>4
    <3>2. Feed!BookAt(i)[l] = Feed!BookAt(held[1].final)[l]
      BY <1>1, <1>2, <2>2, <3>1, SameLevel
    <3>3. Feed!BookAt(held[1].final)[l] = Feed!BookAt(held[Len(held)].final)[l]
      BY <1>2, <2>2, LaterUntouched
    <3> QED BY <2>2, <3>2, <3>3
  <2>3. CASE held # <<>> /\ touching(l) # {}
    <3>1. touching(l) \in SUBSET (1 .. Len(held))
      BY <1>1
    <3>2. last(l) \in touching(l) /\ \A n \in touching(l) : n <= last(l)
      <4> HIDE DEF touching
      <4>1. \E k \in touching(l) : \A n \in touching(l) : n <= k
        BY <1>1, <2>3, <3>1, GreatestIndex
      <4> QED BY <4>1
    <3> HIDE DEF last
    <3>3. last(l) \in DOMAIN held /\ \A k \in DOMAIN held : k > last(l) => ~ Touches(held[k], l)
      BY <1>1, <3>2
    <3>4. Feed!BookAt(held[last(l)].final)[l] = Feed!BookAt(held[Len(held)].final)[l]
      BY <3>3, LaterUntouched
    <3> QED BY <2>3, <3>4
  <2> QED BY <2>1, <2>2, <2>3
<1>4. Rebuilt(i, held) = [isValid |-> TRUE, levels |-> [l \in Levels |-> level(l)]]
  <2> DEFINE start == SetBySnapshot(i)
             made  == [l \in Levels |-> IF touching(l) = {} THEN start.levels[l]
                                        ELSE Feed!BookAt(held[last(l)].final)[l]]
  <2>1. Rebuilt(i, held) = [start EXCEPT !.levels = made]
    BY DEF Rebuilt
  <2>2. start = [isValid |-> TRUE, levels |-> Feed!BookAt(i)]
    BY DEF SetBySnapshot
  <2>3. made = [l \in Levels |-> level(l)]
    <3>1. start.levels = Feed!BookAt(i)
      BY <2>2
    <3> HIDE DEF start, touching, last
    <3> QED BY <3>1
  <2> HIDE DEF made, level
  <2>4. [start EXCEPT !.levels = made] = [isValid |-> TRUE, levels |-> made]
    BY SetLevels, Zenon DEF SetBySnapshot
  <2> QED BY <2>1, <2>3, <2>4
<1>5. Feed!BookAt(end) = [l \in Levels |-> Feed!BookAt(end)[l]]
  BY DEF Feed!BookAt
<1>6. Rebuilt(i, held) = SetBySnapshot(end)
  <2> HIDE DEF level, end
  <2> QED BY <1>3, <1>4, <1>5 DEF SetBySnapshot
<1> QED BY <1>1, <1>2, <1>6

-----------------------------------------------------------------------------
(***************************************************************************)
(* The invariant from one state to the next                                *)
(***************************************************************************)
\* Updates to come do not make a diff dishonest ...
LEMMA StaysHonest ==
  ASSUME published \in Nat, published' \in Nat, published <= published',
         \A i \in 1 .. published : tape'[i] = tape[i],
         NEW d, Honest(d)
  PROVE  Honest(d)'
<1>1. d.first \in Nat \ {0} /\ d.final \in Nat /\ d.prev \in Nat /\ d.final <= published'
  BY DiffIds DEF Honest
<1>2. ASSUME NEW i \in d.prev + 1 .. d.first - 1
      PROVE  tape'[i] = Nothing
  BY <1>1, <1>2 DEF Honest
<1> QED BY <1>1, <1>2 DEF Honest

\* ... nor a book untrue.
LEMMA StaysTrue ==
  ASSUME NEW i \in Nat, \A n \in 1 .. i : tape'[n] = tape[n]
  PROVE  SetBySnapshot(i)' = SetBySnapshot(i)
<1>1. ASSUME NEW l \in Levels
      PROVE  {j \in 1 .. i : tape'[j] = l} = {j \in 1 .. i : tape[j] = l}
  OBVIOUS
<1>2. Feed!BookAt(i)' = Feed!BookAt(i)
  BY <1>1 DEF Feed!BookAt
<1> QED BY <1>2 DEF SetBySnapshot

LEMMA BookTyped ==
  ASSUME NEW i \in 0 .. MaxId
  PROVE  SetBySnapshot(i) \in [isValid : BOOLEAN, levels : Feed!Books]
<1>1. Feed!BookAt(i) \in Feed!Books
  BY SequencerAssumption DEF Feed!BookAt, Feed!Books, Feed!Ids
<1> QED BY <1>1 DEF SetBySnapshot

LEMMA ResetTyped == Reset \in [isValid : BOOLEAN, levels : Feed!Books]
BY DEF Reset, Feed!NoBook, Feed!Books

\* One diff, or one more, in the order of their ids.
LEMMA OneDiff ==
  ASSUME NEW d \in Diff
  PROVE  <<d>> \in Seq(Diff) /\ Len(<<d>>) = 1 /\ Ascending(<<d>>) /\ \A k \in DOMAIN <<d>> : <<d>>[k] = d
<1>1. <<d>> \in Seq(Diff) /\ Len(<<d>>) = 1 /\ \A k \in DOMAIN <<d>> : <<d>>[k] = d
  OBVIOUS
<1> QED BY <1>1, DiffIds DEF Ascending

LEMMA OneDiffMore ==
  ASSUME NEW s \in Seq(Diff), Ascending(s), NEW d \in Diff, \A k \in DOMAIN s : s[k].final <= d.final
  PROVE  /\ Append(s, d) \in Seq(Diff) /\ Ascending(Append(s, d))
         /\ Len(Append(s, d)) = Len(s) + 1 /\ Append(s, d)[Len(s) + 1] = d
         /\ \A k \in DOMAIN Append(s, d) : Append(s, d)[k] = d \/ (k \in DOMAIN s /\ Append(s, d)[k] = s[k])
<1> DEFINE a == Append(s, d)
<1>1. /\ a \in Seq(Diff) /\ Len(a) = Len(s) + 1 /\ a[Len(s) + 1] = d
      /\ DOMAIN a = 1 .. Len(s) + 1 /\ DOMAIN s = 1 .. Len(s) /\ Len(s) \in Nat
      /\ \A k \in 1 .. Len(s) : a[k] = s[k]
  BY AppendProperties, DiffsHeld
<1> HIDE DEF a
<1>2. ASSUME NEW k \in DOMAIN a, NEW n \in DOMAIN a, k <= n
      PROVE  a[k].final <= a[n].final
  <2>1. CASE n = Len(s) + 1 /\ k = n
    BY <1>1, <2>1, DiffIds
  <2>2. CASE n = Len(s) + 1 /\ k # n
    <3>1. k \in 1 .. Len(s)
      BY <1>1, <1>2, <2>2
    <3> QED BY <1>1, <2>2, <3>1
  <2>3. CASE n # Len(s) + 1
    <3>1. k \in 1 .. Len(s) /\ n \in 1 .. Len(s)
      BY <1>1, <1>2, <2>3
    <3> QED BY <1>1, <1>2, <3>1 DEF Ascending
  <2> QED BY <2>1, <2>2, <2>3
<1>3. \A k \in DOMAIN a : a[k] = d \/ (k \in DOMAIN s /\ a[k] = s[k])
  <2> SUFFICES ASSUME NEW k \in DOMAIN a, k # Len(s) + 1 PROVE k \in 1 .. Len(s)
    BY <1>1
  <2> QED BY <1>1
<1> QED BY <1>1, <1>2, <1>3 DEF a, Ascending

\* The stream without its first frame.
LEMMA TailInOrder ==
  ASSUME NEW s \in Seq(Diff), Ascending(s), s # <<>>
  PROVE  /\ Head(s) = s[1] /\ 1 \in DOMAIN s
         /\ Tail(s) \in Seq(Diff) /\ Ascending(Tail(s))
         /\ \A k \in DOMAIN Tail(s) : k + 1 \in DOMAIN s /\ Tail(s)[k] = s[k + 1]
                                      /\ s[1].final <= s[k + 1].final
<1> DEFINE t == Tail(s)
<1>1. /\ Head(s) = s[1] /\ t \in Seq(Diff) /\ Len(s) \in Nat /\ Len(s) # 0 /\ Len(t) = Len(s) - 1
      /\ DOMAIN t = 1 .. Len(t) /\ DOMAIN s = 1 .. Len(s)
      /\ \A k \in 1 .. Len(t) : t[k] = s[k + 1]
  BY HeadTailProperties, EmptySeq, DiffsHeld
<1> HIDE DEF t
<1>2. \A k \in DOMAIN t : k + 1 \in DOMAIN s /\ t[k] = s[k + 1] /\ 1 <= k + 1
  BY <1>1
<1>3. 1 \in DOMAIN s
  BY <1>1
<1>4. \A k \in DOMAIN t : s[1].final <= s[k + 1].final
  BY <1>2, <1>3 DEF Ascending
<1>5. Ascending(t)
  <2> SUFFICES ASSUME NEW k \in DOMAIN t, NEW n \in DOMAIN t, k <= n PROVE t[k].final <= t[n].final
    BY DEF Ascending
  <2>1. k + 1 <= n + 1
    BY <1>1
  <2> QED BY <1>2, <2>1 DEF Ascending
<1> QED BY <1>1, <1>2, <1>3, <1>4, <1>5 DEF t

-----------------------------------------------------------------------------
(***************************************************************************)
(* One step: it keeps the invariant, and it is a step of the feed          *)
(***************************************************************************)
IsFeedStep == [Feed!Next]_Feed!feedVars

\* A step that leaves the venue's tape, the anchor and the hot book alone is no
\* step of the feed.
LEMMA FeedStutters == ASSUME UNCHANGED <<tape, now, anchor, hot>> PROVE IsFeedStep
BY DEF IsFeedStep, Feed!feedVars

\* What a frame leaves: the rest of the stream, in order after the frame's diff.
LEMMA AfterFrame ==
  ASSUME IInv, NEW d, NextFrame(d)
  PROVE  /\ Honest(d) /\ d \in Diff /\ d.final \in 0 .. now /\ latest <= d.final
         /\ latest' = d.final /\ latest' \in 0 .. now
         /\ UNCHANGED <<venueVars, isUp>>
         /\ stream' \in Seq(Diff) /\ StreamInOrder'
<1>1. /\ stream \in Seq(Diff) /\ Ascending(stream) /\ stream # <<>>
      /\ d = Head(stream) /\ stream' = Tail(stream)
      /\ latest' = MaxOf(latest, d.final) /\ UNCHANGED <<venueVars, isUp>>
      /\ latest \in 0 .. now /\ published \in 0 .. now /\ now \in 0 .. MaxId
      /\ \A k \in DOMAIN stream : Honest(stream[k]) /\ latest <= stream[k].final
  BY DEF IInv, TypeOK, StreamInOrder, NextFrame
<1>2. /\ d = stream[1] /\ 1 \in DOMAIN stream
      /\ stream' \in Seq(Diff) /\ Ascending(stream')
      /\ \A k \in DOMAIN stream' : k + 1 \in DOMAIN stream /\ stream'[k] = stream[k + 1]
                                   /\ d.final <= stream[k + 1].final
  BY <1>1, TailInOrder
<1>3. Honest(d) /\ d \in Diff /\ latest <= d.final /\ d.final \in 0 .. now
  <2>1. Honest(d) /\ latest <= d.final
    BY <1>1, <1>2
  <2>2. d \in Diff /\ d.final <= published
    BY <2>1 DEF Honest
  <2> QED BY <1>1, <2>1, <2>2, DiffIds, SequencerAssumption
<1>4. latest' = d.final
  BY <1>1, <1>3, SequencerAssumption DEF MaxOf
<1>5. ASSUME NEW k \in DOMAIN stream'
      PROVE  (Honest(stream[k]) /\ latest <= stream[k].final)'
  <2>1. Honest(stream[k + 1]) /\ stream'[k] = stream[k + 1] /\ latest' <= stream'[k].final
    BY <1>1, <1>2, <1>4
  <2>2. UNCHANGED <<tape, published>>
    BY <1>1 DEF venueVars
  <2> QED BY <2>1, <2>2 DEF Honest
<1>6. StreamInOrder'
  BY <1>2, <1>5 DEF StreamInOrder, Ascending
<1> QED BY <1>1, <1>2, <1>3, <1>4, <1>6 DEF venueVars

\* What a step leaves of the buffer stays in order when nothing is handled, or
\* the frame handled is not older.
LEMMA HeldStays ==
  ASSUME IInv, UNCHANGED <<tape, published>>, buffer' = buffer,
         latest' \in 0 .. published, latest <= latest', anchor' \in Nat, anchor' <= latest'
  PROVE  HeldInOrder'
<1>1. \A k \in DOMAIN buffer : Honest(buffer[k]) /\ buffer[k].final <= latest
  BY DEF IInv, HeldInOrder
<1>2. latest \in Nat /\ buffer \in Seq(Diff) /\ published \in Nat
  BY SequencerAssumption DEF IInv, TypeOK
<1>3. \A k \in DOMAIN buffer : Honest(buffer[k])' /\ buffer[k].final <= latest'
  <2> SUFFICES ASSUME NEW k \in DOMAIN buffer
               PROVE  Honest(buffer[k])' /\ buffer[k].final <= latest'
    OBVIOUS
  <2>1. Honest(buffer[k]) /\ buffer[k].final <= latest /\ buffer[k].final \in Nat
    BY <1>1, <1>2, DiffsHeld
  <2> QED BY <1>2, <2>1 DEF Honest
<1> QED BY <1>2, <1>3 DEF HeldInOrder

LEMMA AppliedStep ==
  ASSUME IInv, NEW d, DiffApplied(d)
  PROVE  IInv' /\ IsFeedStep
<1>1. /\ isLive /\ Follows(d) /\ anchor' = d.final /\ hot' = AfterDelta(hot, d)
      /\ NextFrame(d) /\ UNCHANGED <<isLive, buffer, pending, hasLost>>
  BY DEF DiffApplied
<1>2. /\ Honest(d) /\ d \in Diff /\ d.final \in 0 .. now /\ latest <= d.final
      /\ latest' = d.final /\ latest' \in 0 .. now
      /\ UNCHANGED <<rule, tape, now, published, isUp>>
      /\ stream' \in Seq(Diff) /\ StreamInOrder'
  BY <1>1, AfterFrame DEF venueVars
<1>3. /\ TypeOK /\ anchor \in Nat /\ latest \in Nat /\ now \in 0 .. MaxId /\ now \in Nat
      /\ anchor <= latest /\ hot = SetBySnapshot(anchor)
  BY <1>1, SequencerAssumption DEF IInv, TypeOK, HeldInOrder, BookTrue
<1>4. ASSUME NEW l \in Levels
      PROVE  (IF Touches(d, l) THEN Feed!BookAt(d.final)[l] ELSE Feed!BookAt(anchor)[l])
             = Feed!BookAt(d.final)[l]
  <2>1. CASE Touches(d, l)
    BY <2>1
  <2>2. CASE ~ Touches(d, l)
    <3>1. ASSUME NEW j \in anchor + 1 .. d.final, tape[j] = l
          PROVE  FALSE
      <4>1. ChainsOnto(anchor, d)
        BY <1>1 DEF Follows
      <4>2. Touches(d, l)
        BY <1>2, <1>3, <3>1, <4>1, ChainCovers
      <4> QED BY <2>2, <4>2
    <3>2. anchor <= d.final /\ d.final \in Nat
      BY <1>2, <1>3
    <3> QED BY <1>3, <2>2, <3>1, <3>2, SameLevel
  <2> QED BY <2>1, <2>2
<1>5. hot' = SetBySnapshot(d.final)
  <2> DEFINE made == [l \in Levels |-> IF Touches(d, l) THEN Feed!BookAt(d.final)[l]
                                      ELSE Feed!BookAt(anchor)[l]]
  <2>1. hot = [isValid |-> TRUE, levels |-> Feed!BookAt(anchor)]
    BY <1>3 DEF SetBySnapshot
  <2>2. hot.isValid /\ hot.levels = Feed!BookAt(anchor)
    BY <2>1
  <2>3. hot' = [hot EXCEPT !.levels = made]
    BY <1>1, <2>2 DEF AfterDelta
  <2>4. made = [l \in Levels |-> Feed!BookAt(d.final)[l]]
    BY <1>4
  <2>5. made = Feed!BookAt(d.final)
    BY <2>4 DEF Feed!BookAt
  <2> HIDE DEF made
  <2>6. [hot EXCEPT !.levels = made] = [isValid |-> TRUE, levels |-> made]
    BY <2>1, SetLevels, Zenon
  <2> QED BY <2>3, <2>5, <2>6 DEF SetBySnapshot
<1>6. BookTrue'
  <2>1. d.final \in Nat /\ SetBySnapshot(d.final)' = SetBySnapshot(d.final)
    BY <1>2, <1>3, StaysTrue
  <2> QED BY <1>1, <1>5, <2>1 DEF BookTrue, SetBySnapshot
<1>7. HeldInOrder'
  <2>1. d.final <= published /\ d.final \in Nat
    BY <1>2, <1>3 DEF Honest
  <2> QED BY <1>1, <1>2, <1>3, <2>1, HeldStays
<1>8. TypeOK'
  <2>1. hot' \in [isValid : BOOLEAN, levels : Feed!Books]
    BY <1>2, <1>3, <1>5, BookTyped, SequencerAssumption
  <2>2. anchor' \in 0 .. now
    BY <1>1, <1>2
  <2> QED BY <1>1, <1>2, <1>3, <2>1, <2>2 DEF TypeOK, Ascending, Feed!Tapes, Feed!Books, Feed!Ids
<1>9. Feed!Show(d.final)
  <2>1. d.final \in anchor .. now
    BY <1>2, <1>3
  <2>2. hot'.isValid = TRUE /\ hot'.levels = Feed!BookAt(d.final)
    BY <1>5 DEF SetBySnapshot
  <2> QED BY <1>1, <1>2, <2>1, <2>2 DEF Feed!Show
<1>10. IsFeedStep
  BY <1>2, <1>9 DEF IsFeedStep, Feed!Next
<1> QED BY <1>2, <1>6, <1>7, <1>8, <1>10 DEF IInv

LEMMA IgnoredStep ==
  ASSUME IInv, NEW d, DiffIgnored(d)
  PROVE  IInv' /\ IsFeedStep
<1>1. NextFrame(d) /\ UNCHANGED <<isLive, anchor, buffer, pending, hot, hasLost>>
  BY DEF DiffIgnored
<1>2. /\ Honest(d) /\ d \in Diff /\ d.final \in 0 .. now /\ latest <= d.final
      /\ latest' = d.final /\ latest' \in 0 .. now
      /\ UNCHANGED <<rule, tape, now, published, isUp>>
      /\ stream' \in Seq(Diff) /\ StreamInOrder'
  BY <1>1, AfterFrame DEF venueVars
<1>3. TypeOK /\ anchor \in Nat /\ latest \in Nat /\ anchor <= latest /\ d.final \in Nat
  BY <1>2, DiffIds, SequencerAssumption DEF IInv, TypeOK, HeldInOrder
<1>4. TypeOK'
  BY <1>1, <1>2, <1>3 DEF TypeOK, Ascending, Feed!Tapes, Feed!Books, Feed!Ids
<1>5. HeldInOrder'
  <2>1. latest' \in 0 .. published /\ anchor' <= latest' /\ anchor' \in Nat
    BY <1>1, <1>2, <1>3 DEF Honest
  <2> QED BY <1>1, <1>2, <2>1, HeldStays
<1>6. BookTrue'
  BY <1>1, <1>2 DEF IInv, BookTrue, SetBySnapshot, Reset, Feed!BookAt, Feed!NoBook
<1>7. IsFeedStep
  BY <1>1, <1>2, FeedStutters
<1> QED BY <1>2, <1>4, <1>5, <1>6, <1>7 DEF IInv

\* What is fetched is an id of the venue's.
LEMMA Fetched ==
  ASSUME NEW held \in {None} \cup 0 .. now, Fetch(held)
  PROVE  pending' \in {None} \cup 0 .. now
BY DEF Fetch

\* A loss is told to the hot thread, and the diff that showed it is held.
LEMMA BreaksStep ==
  ASSUME IInv, NEW d, DiffBreaks(d)
  PROVE  IInv' /\ IsFeedStep
<1>1. /\ isLive /\ isLive' = FALSE /\ buffer' = <<d>> /\ hot' = Reset /\ Fetch(None)
      /\ NextFrame(d) /\ UNCHANGED <<anchor, hasLost>>
  BY DEF DiffBreaks
<1>2. /\ Honest(d) /\ d \in Diff /\ d.final \in 0 .. now /\ latest <= d.final
      /\ latest' = d.final /\ latest' \in 0 .. now
      /\ UNCHANGED <<rule, tape, now, published, isUp>>
      /\ stream' \in Seq(Diff) /\ StreamInOrder'
  BY <1>1, AfterFrame DEF venueVars
<1>3. /\ TypeOK /\ anchor \in Nat /\ latest \in Nat /\ anchor <= latest /\ d.final \in Nat
      /\ hot = SetBySnapshot(anchor)
  BY <1>1, <1>2, DiffIds, SequencerAssumption DEF IInv, TypeOK, HeldInOrder, BookTrue
<1>4. /\ buffer' \in Seq(Diff) /\ Len(buffer') = 1 /\ Ascending(buffer')
      /\ \A k \in DOMAIN buffer' : buffer'[k] = d
  BY <1>1, <1>2, OneDiff
<1>5. TypeOK'
  <2>1. pending' \in {None} \cup 0 .. now
    BY <1>1, Fetched
  <2>2. Len(buffer') <= Capacity
    BY <1>4, SequencerAssumption
  <2>3. hot' \in [isValid : BOOLEAN, levels : Feed!Books]
    BY <1>1, ResetTyped
  <2> QED BY <1>1, <1>2, <1>3, <1>4, <2>1, <2>2, <2>3
          DEF TypeOK, Ascending, Feed!Tapes, Feed!Books, Feed!Ids
<1>6. HeldInOrder'
  <2>1. ASSUME NEW k \in DOMAIN buffer'
        PROVE  (Honest(buffer[k]) /\ buffer[k].final <= latest)'
    <3>1. buffer'[k] = d /\ buffer'[k].final <= latest'
      BY <1>2, <1>3, <1>4
    <3> QED BY <1>2, <3>1 DEF Honest
  <2>2. anchor' <= latest' /\ latest' <= published'
    BY <1>1, <1>2, <1>3 DEF Honest
  <2> QED BY <2>1, <2>2 DEF HeldInOrder
<1>7. BookTrue'
  BY <1>1 DEF BookTrue, Reset, Feed!NoBook
<1>8. Feed!Lose
  <2>1. hot.isValid /\ ~ hot'.isValid /\ hot'.levels = Feed!NoBook
    BY <1>1, <1>3 DEF SetBySnapshot, Reset
  <2>2. hot'.isValid = FALSE
    BY <1>1 DEF Reset
  <2> QED BY <1>1, <1>2, <2>1, <2>2 DEF Feed!Lose
<1>9. IsFeedStep
  BY <1>8 DEF IsFeedStep, Feed!Next
<1> QED BY <1>2, <1>5, <1>6, <1>7, <1>9 DEF IInv

\* What the resync holds once the next diff has joined it.
Joined(held, d) ==
  /\ held \in Seq(Diff) /\ held # <<>> /\ Len(held) <= Capacity /\ Ascending(held)
  /\ held[Len(held)] = d
  /\ \A k \in DOMAIN held : Honest(held[k]) /\ held[k].final <= d.final

LEMMA JoinsHeld ==
  ASSUME IInv, NEW d \in Diff, Honest(d), latest <= d.final
  PROVE  Joined(IF Overflows(buffer) THEN <<d>> ELSE Append(buffer, d), d)
<1>1. /\ buffer \in Seq(Diff) /\ Len(buffer) \in Nat /\ Ascending(buffer) /\ latest \in Nat
      /\ d.final \in Nat
      /\ \A k \in DOMAIN buffer : Honest(buffer[k]) /\ buffer[k].final <= latest
      /\ \A k \in DOMAIN buffer : buffer[k].final \in Nat
  BY DiffIds, DiffsHeld, SequencerAssumption DEF IInv, TypeOK, HeldInOrder
<1>2. \A k \in DOMAIN buffer : buffer[k].final <= d.final
  BY <1>1
<1>3. CASE Overflows(buffer)
  <2> DEFINE one == <<d>>
  <2>1. one \in Seq(Diff) /\ Len(one) = 1 /\ Ascending(one) /\ \A k \in DOMAIN one : one[k] = d
    BY OneDiff
  <2>2. one # <<>> /\ one[Len(one)] = d
    OBVIOUS
  <2> HIDE DEF one
  <2>3. Len(one) <= Capacity
    BY <2>1, SequencerAssumption
  <2>4. Joined(one, d)
    BY <1>1, <2>1, <2>2, <2>3 DEF Joined
  <2> QED BY <1>3, <2>4 DEF one
<1>4. CASE ~ Overflows(buffer)
  <2> DEFINE more == Append(buffer, d)
  <2>1. /\ more \in Seq(Diff) /\ Ascending(more)
        /\ Len(more) = Len(buffer) + 1 /\ more[Len(buffer) + 1] = d
        /\ \A k \in DOMAIN more : more[k] = d \/ (k \in DOMAIN buffer /\ more[k] = buffer[k])
    BY <1>1, <1>2, OneDiffMore
  <2>2. more # <<>>
    BY <1>1, AppendProperties
  <2> HIDE DEF more
  <2>3. Len(more) <= Capacity
    BY <1>1, <1>4, <2>1, SequencerAssumption DEF Overflows
  <2>4. Joined(more, d)
    BY <1>1, <1>2, <2>1, <2>2, <2>3 DEF Joined
  <2> QED BY <1>4, <2>4 DEF more
<1> QED BY <1>3, <1>4

\* Held diffs, or those retained of them, are in order after the step.
LEMMA HeldAfter ==
  ASSUME NEW d \in Diff, Honest(d), NEW held, Joined(held, d), UNCHANGED <<tape, published>>,
         latest' = d.final, NEW kept \in Seq(Diff), Suffix(kept, held), buffer' = kept
  PROVE  /\ buffer' \in Seq(Diff) /\ Len(buffer') <= Capacity /\ Ascending(buffer')
         /\ \A k \in DOMAIN buffer' : Honest(buffer'[k]) /\ buffer'[k].final <= latest'
         /\ (\A k \in DOMAIN buffer : Honest(buffer[k]) /\ buffer[k].final <= latest)'
<1>1. /\ held \in Seq(Diff) /\ Len(held) <= Capacity /\ Ascending(held)
      /\ \A k \in DOMAIN held : Honest(held[k]) /\ held[k].final <= d.final
  BY DEF Joined
<1>2. /\ Len(kept) <= Len(held) /\ Ascending(kept)
      /\ \A k \in DOMAIN kept : \E n \in DOMAIN held : kept[k] = held[n]
  BY <1>1, SuffixInherits
<1>3. Len(kept) <= Capacity
  BY <1>1, <1>2, DiffsHeld, SequencerAssumption
<1>4. \A k \in DOMAIN kept : Honest(kept[k]) /\ kept[k].final <= d.final
  BY <1>1, <1>2
<1>5. ASSUME NEW k \in DOMAIN buffer'
      PROVE  (Honest(buffer[k]) /\ buffer[k].final <= latest)'
  BY <1>4 DEF Honest
<1> QED BY <1>2, <1>3, <1>4, <1>5

\* What is held is the end of itself.
LEMMA SuffixOfItself == ASSUME NEW held \in Seq(Diff) PROVE Suffix(held, held)
<1>1. Len(held) \in Nat
  BY DiffsHeld
<1>2. 0 \in 0 .. Len(held) /\ Len(held) = Len(held) - 0
      /\ \A k \in 1 .. Len(held) : held[k] = held[k + 0]
  BY <1>1
<1> QED BY <1>2 DEF Suffix

\* A rebuilt book is shown at an update id not older than the one before it.
LEMMA RebuildStep ==
  ASSUME IInv, NEW d, NextFrame(d), NEW held, Joined(held, d),
         NEW i \in 0 .. now, i <= d.final, pending' = None, Rebuild(held, i)
  PROVE  IInv' /\ IsFeedStep
<1> DEFINE kept == Retained(held, i)
           end  == IF kept = <<>> THEN i ELSE kept[Len(kept)].final
<1>1. /\ ChainsFrom(kept, i) /\ isLive' = TRUE /\ buffer' = <<>>
      /\ anchor' = end /\ hot' = Rebuilt(i, kept) /\ hasLost' = FALSE
  BY DEF Rebuild
<1>2. /\ Honest(d) /\ d \in Diff /\ d.final \in 0 .. now /\ latest <= d.final
      /\ latest' = d.final /\ latest' \in 0 .. now
      /\ UNCHANGED <<rule, tape, now, published, isUp>>
      /\ stream' \in Seq(Diff) /\ StreamInOrder'
  BY AfterFrame DEF venueVars
<1>3. /\ TypeOK /\ anchor \in Nat /\ latest \in Nat /\ anchor <= latest /\ d.final \in Nat
      /\ now \in Nat /\ now \in 0 .. MaxId /\ i \in Nat
  BY <1>2, DiffIds, SequencerAssumption DEF IInv, TypeOK, HeldInOrder
<1>4. /\ held \in Seq(Diff) /\ held # <<>> /\ held[Len(held)] = d
      /\ \A k \in DOMAIN held : Honest(held[k]) /\ held[k].final <= d.final
      /\ Len(held) \in DOMAIN held
  <2>1. held \in Seq(Diff) /\ held # <<>>
    BY DEF Joined
  <2>2. Len(held) \in Nat \ {0}
    BY <2>1, EmptySeq
  <2> QED BY <2>1, <2>2, DiffsHeld DEF Joined
<1>5. /\ kept \in Seq(Diff) /\ Suffix(kept, held)
      /\ kept = <<>> => \A k \in DOMAIN held : ~ Keeps(held[k], i)
      /\ kept # <<>> => Keeps(kept[1], i)
  BY <1>3, <1>4, RetainedIsSuffix
<1> HIDE DEF kept
<1>6. /\ \A k \in DOMAIN kept : \E n \in DOMAIN held : kept[k] = held[n]
      /\ kept # <<>> => kept[Len(kept)] = d
  BY <1>4, <1>5, SuffixInherits
<1>7. \A k \in DOMAIN kept : Honest(kept[k])
  BY <1>4, <1>6
<1>8. kept # <<>> => i <= kept[1].final
  <2> SUFFICES ASSUME kept # <<>> PROVE i <= kept[1].final
    OBVIOUS
  <2>1. 1 \in DOMAIN kept /\ Keeps(kept[1], i)
    BY <1>5, EmptySeq, DiffsHeld
  <2>2. kept[1].final \in Nat
    BY <1>5, <2>1, DiffsHeld
  <2> QED BY <1>3, <2>1, <2>2 DEF Keeps
<1>9. Rebuilt(i, kept) = SetBySnapshot(end)
  BY <1>1, <1>3, <1>5, <1>7, <1>8, RebuiltIsTrue
<1>10. end \in Nat /\ anchor <= end /\ end <= d.final
  <2>1. CASE kept = <<>>
    <3>1. ~ Keeps(d, i)
      BY <1>4, <1>5, <2>1
    <3>2. d.final <= i
      BY <1>3, <3>1 DEF Keeps
    <3> QED BY <1>2, <1>3, <2>1, <3>2
  <2>2. CASE kept # <<>>
    BY <1>2, <1>3, <1>6, <2>2
  <2> QED BY <2>1, <2>2
<1> HIDE DEF end
<1>11. end \in 0 .. now /\ end \in 0 .. MaxId
  BY <1>2, <1>3, <1>10, SequencerAssumption
<1>12. TypeOK'
  <2>1. hot' \in [isValid : BOOLEAN, levels : Feed!Books]
    BY <1>1, <1>9, <1>11, BookTyped
  <2>2. buffer' \in Seq(Diff) /\ Len(buffer') <= Capacity /\ Ascending(buffer')
    BY <1>1, SequencerAssumption DEF Ascending
  <2> QED BY <1>1, <1>2, <1>3, <1>11, <2>1, <2>2
          DEF TypeOK, Ascending, Feed!Tapes, Feed!Books, Feed!Ids
<1>13. HeldInOrder'
  <2>1. anchor' <= latest' /\ latest' <= published'
    BY <1>1, <1>2, <1>10 DEF Honest
  <2> QED BY <1>1, <2>1 DEF HeldInOrder
<1>14. BookTrue'
  <2>1. PICK at \in Nat : at = end
    BY <1>10
  <2>2. SetBySnapshot(at)' = SetBySnapshot(at)
    BY <1>2, StaysTrue
  <2> QED BY <1>1, <1>9, <2>1, <2>2 DEF BookTrue, SetBySnapshot
<1>15. Feed!Show(end)
  <2>1. end \in anchor .. now
    BY <1>3, <1>10, <1>11
  <2>2. hot'.isValid = TRUE /\ hot'.levels = Feed!BookAt(end)
    BY <1>1, <1>9 DEF SetBySnapshot
  <2> QED BY <1>1, <1>2, <2>1, <2>2 DEF Feed!Show
<1>16. IsFeedStep
  BY <1>11, <1>15 DEF IsFeedStep, Feed!Next
<1> QED BY <1>2, <1>12, <1>13, <1>14, <1>16 DEF IInv

\* While no book is rebuilt, the resync only changes what it holds.
LEMMA HoldsOnStep ==
  ASSUME IInv, NEW d, NextFrame(d), NEW held, Joined(held, d),
         NEW kept \in Seq(Diff), Suffix(kept, held), buffer' = kept,
         pending' \in {None} \cup 0 .. now, UNCHANGED <<isLive, anchor, hot, hasLost>>
  PROVE  IInv' /\ IsFeedStep
<1>1. /\ Honest(d) /\ d \in Diff /\ d.final \in 0 .. now /\ latest <= d.final
      /\ latest' = d.final /\ latest' \in 0 .. now
      /\ UNCHANGED <<rule, tape, now, published, isUp>>
      /\ stream' \in Seq(Diff) /\ StreamInOrder'
  BY AfterFrame DEF venueVars
<1>2. TypeOK /\ anchor \in Nat /\ latest \in Nat /\ anchor <= latest /\ d.final \in Nat
  BY <1>1, DiffIds, SequencerAssumption DEF IInv, TypeOK, HeldInOrder
<1>3. /\ buffer' \in Seq(Diff) /\ Len(buffer') <= Capacity /\ Ascending(buffer')
      /\ (\A k \in DOMAIN buffer : Honest(buffer[k]) /\ buffer[k].final <= latest)'
  BY <1>1, HeldAfter
<1>4. TypeOK'
  BY <1>1, <1>2, <1>3 DEF TypeOK, Ascending, Feed!Tapes, Feed!Books, Feed!Ids
<1>5. HeldInOrder'
  <2>1. anchor' <= latest' /\ latest' <= published'
    BY <1>1, <1>2 DEF Honest
  <2> QED BY <1>3, <2>1 DEF HeldInOrder
<1>6. BookTrue'
  BY <1>1 DEF IInv, BookTrue, SetBySnapshot, Reset, Feed!BookAt, Feed!NoBook
<1>7. IsFeedStep
  BY <1>1, FeedStutters
<1> QED BY <1>1, <1>4, <1>5, <1>6, <1>7 DEF IInv

LEMMA BufferedStep ==
  ASSUME IInv, NEW d, DiffBuffered(d)
  PROVE  IInv' /\ IsFeedStep
<1> DEFINE held     == IF Overflows(buffer) THEN <<d>> ELSE Append(buffer, d)
           snapshot == IF Overflows(buffer) THEN None ELSE pending
           isReady  == snapshot # None /\ MaxOf(latest, d.final) >= snapshot
<1>1. /\ NextFrame(d)
      /\ \/ isReady /\ pending' = None /\ (Rebuild(held, snapshot) \/ RefuseSnapshot(held, snapshot))
         \/ /\ ~ isReady /\ buffer' = held /\ Fetch(snapshot)
            /\ UNCHANGED <<isLive, anchor, hot, hasLost>>
  BY DEF DiffBuffered
<1>2. /\ Honest(d) /\ d \in Diff /\ latest <= d.final /\ latest \in Nat /\ d.final \in Nat
      /\ snapshot \in {None} \cup 0 .. now /\ now \in Nat
  BY <1>1, AfterFrame, DiffIds, SequencerAssumption DEF IInv, TypeOK
<1>3. Joined(held, d) /\ held \in Seq(Diff) /\ Suffix(held, held)
  <2>1. Joined(held, d)
    BY <1>2, JoinsHeld
  <2> HIDE DEF held
  <2> QED BY <2>1, SuffixOfItself DEF Joined
<1> HIDE DEF held, snapshot
<1>4. ASSUME isReady
      PROVE  snapshot \in 0 .. now /\ snapshot \in Nat /\ snapshot <= d.final
  BY <1>2, <1>4 DEF MaxOf
<1>5. CASE isReady /\ pending' = None /\ Rebuild(held, snapshot)
  BY <1>1, <1>3, <1>4, <1>5, RebuildStep
<1>6. CASE isReady /\ pending' = None /\ RefuseSnapshot(held, snapshot)
  <2>1. Retained(held, snapshot) \in Seq(Diff) /\ Suffix(Retained(held, snapshot), held)
    BY <1>3, <1>4, <1>6, RetainedIsSuffix
  <2>2. (buffer' = held \/ buffer' = Retained(held, snapshot)) /\ UNCHANGED <<isLive, anchor, hot, hasLost>>
    BY <1>6 DEF RefuseSnapshot
  <2> QED BY <1>1, <1>3, <1>6, <2>1, <2>2, HoldsOnStep
<1>7. CASE buffer' = held /\ Fetch(snapshot) /\ UNCHANGED <<isLive, anchor, hot, hasLost>>
  <2>1. pending' \in {None} \cup 0 .. now
    BY <1>2, <1>7, Fetched
  <2> QED BY <1>1, <1>3, <1>7, <2>1, HoldsOnStep
<1> QED BY <1>1, <1>5, <1>6, <1>7

LEMMA MalformedStep ==
  ASSUME IInv, Malformed
  PROVE  IInv' /\ IsFeedStep
<1>1. /\ stream # <<>> /\ stream' = Tail(stream) /\ hasLost' = TRUE
      /\ UNCHANGED <<rule, tape, now, published, isUp, isLive, anchor, buffer, pending, latest, hot>>
  BY DEF Malformed, venueVars
<1>2. /\ stream \in Seq(Diff) /\ Ascending(stream)
      /\ \A k \in DOMAIN stream : Honest(stream[k]) /\ latest <= stream[k].final
  BY DEF IInv, TypeOK, StreamInOrder
<1>3. /\ stream' \in Seq(Diff) /\ Ascending(stream')
      /\ \A k \in DOMAIN stream' : k + 1 \in DOMAIN stream /\ stream'[k] = stream[k + 1]
  BY <1>1, <1>2, TailInOrder
<1>4. StreamInOrder'
  <2>1. ASSUME NEW k \in DOMAIN stream'
        PROVE  (Honest(stream[k]) /\ latest <= stream[k].final)'
    BY <1>1, <1>2, <1>3 DEF Honest
  <2> QED BY <1>3, <2>1 DEF StreamInOrder, Ascending
<1>5. TypeOK'
  BY <1>1, <1>3 DEF IInv, TypeOK, Ascending, Feed!Tapes, Feed!Books, Feed!Ids
<1>6. HeldInOrder' /\ BookTrue'
  BY <1>1 DEF IInv, HeldInOrder, Honest, BookTrue, SetBySnapshot, Reset, Feed!BookAt, Feed!NoBook
<1> QED BY <1>1, <1>4, <1>5, <1>6, FeedStutters DEF IInv

LEMMA SocketStep ==
  ASSUME IInv, Connect \/ Disconnect
  PROVE  IInv' /\ IsFeedStep
<1>1. /\ stream' = stream \/ stream' = <<>>
      /\ isUp' \in BOOLEAN /\ hasLost' \in BOOLEAN
      /\ UNCHANGED <<rule, tape, now, published, isLive, anchor, buffer, pending, latest, hot>>
  BY DEF IInv, TypeOK, Connect, Disconnect, venueVars
<1>2. StreamInOrder' /\ stream' \in Seq(Diff)
  <2>1. CASE stream' = stream
    BY <1>1, <2>1 DEF IInv, TypeOK, StreamInOrder, Ascending, Honest
  <2>2. CASE stream' = <<>>
    <3>1. stream' \in Seq(Diff) /\ DOMAIN stream' = {}
      BY <2>2
    <3> QED BY <3>1 DEF StreamInOrder, Ascending
  <2> QED BY <1>1, <2>1, <2>2
<1>3. TypeOK'
  BY <1>1, <1>2 DEF IInv, TypeOK, Ascending, Feed!Tapes, Feed!Books, Feed!Ids
<1>4. HeldInOrder' /\ BookTrue'
  BY <1>1 DEF IInv, HeldInOrder, Honest, BookTrue, SetBySnapshot, Reset, Feed!BookAt, Feed!NoBook
<1> QED BY <1>1, <1>2, <1>3, <1>4, FeedStutters DEF IInv

\* A change after the last id published makes no diff dishonest and no book untrue.
LEMMA TradeStep ==
  ASSUME IInv, NEW l \in Levels \cup {Nothing}, Trade(l)
  PROVE  IInv' /\ IsFeedStep
<1>1. /\ now < MaxId /\ now' = now + 1 /\ tape' = [tape EXCEPT ![now + 1] = l]
      /\ UNCHANGED <<rule, published, isUp, stream, isLive, anchor, buffer, pending, latest, hot, hasLost>>
  BY DEF Trade
<1>2. /\ TypeOK /\ now \in Nat /\ published \in 0 .. now /\ anchor \in 0 .. now /\ MaxId \in Nat
      /\ tape \in [1 .. MaxId -> Levels \cup {Nothing}] /\ pending \in {None} \cup 0 .. now
      /\ latest \in 0 .. now
  BY SequencerAssumption DEF IInv, TypeOK, Feed!Tapes, Feed!Ids
<1>3. \A i \in 1 .. now : tape'[i] = tape[i]
  BY <1>1, <1>2
<1>4. /\ tape' \in [1 .. MaxId -> Levels \cup {Nothing}] /\ now' \in 0 .. MaxId
      /\ published \in 0 .. now' /\ anchor \in 0 .. now' /\ latest \in 0 .. now'
      /\ pending \in {None} \cup 0 .. now'
  BY <1>1, <1>2
<1>5. TypeOK'
  BY <1>1, <1>2, <1>4 DEF TypeOK, Ascending, Feed!Tapes, Feed!Books, Feed!Ids
<1>6. ASSUME NEW d, Honest(d)
      PROVE  Honest(d)'
  <2>1. \A i \in 1 .. published : tape'[i] = tape[i]
    BY <1>2, <1>3
  <2> QED BY <1>1, <1>2, <1>6, <2>1, StaysHonest
<1>7. StreamInOrder' /\ HeldInOrder'
  <2>1. ASSUME NEW k \in DOMAIN stream'
        PROVE  (Honest(stream[k]) /\ latest <= stream[k].final)'
    <3>1. PICK d : d = stream[k]
      OBVIOUS
    <3>2. Honest(d) /\ latest <= d.final
      BY <1>1, <3>1 DEF IInv, StreamInOrder
    <3> QED BY <1>1, <1>6, <3>1, <3>2 DEF Honest
  <2>2. ASSUME NEW k \in DOMAIN buffer'
        PROVE  (Honest(buffer[k]) /\ buffer[k].final <= latest)'
    <3>1. PICK d : d = buffer[k]
      OBVIOUS
    <3>2. Honest(d) /\ d.final <= latest
      BY <1>1, <3>1 DEF IInv, HeldInOrder
    <3> QED BY <1>1, <1>6, <3>1, <3>2 DEF Honest
  <2> QED BY <1>1, <2>1, <2>2 DEF IInv, StreamInOrder, HeldInOrder, Ascending
<1>8. BookTrue'
  <2>1. PICK at \in Nat : at = anchor
    BY <1>2
  <2>2. SetBySnapshot(at)' = SetBySnapshot(at)
    BY <1>2, <1>3, <2>1, StaysTrue
  <2> QED BY <1>1, <2>1, <2>2 DEF IInv, BookTrue, SetBySnapshot, Reset, Feed!NoBook
<1>9. Feed!Trade(l)
  BY <1>1 DEF Feed!Trade
<1> QED BY <1>5, <1>7, <1>8, <1>9 DEF IInv, IsFeedStep, Feed!Next

\* A frame the venue sends is honest and not older than those in the socket.
LEMMA SendStep ==
  ASSUME IInv, NEW d \in Diff, UNCHANGED <<rule, tape, now, isUp, isLive, anchor, buffer, pending, latest, hot>>,
         published' \in published .. now, Honest(d)', d.final = published', hasLost' \in BOOLEAN,
         stream' = stream \/ stream' = Append(stream, d)
  PROVE  IInv' /\ IsFeedStep
<1>1. /\ TypeOK /\ published \in Nat /\ published' \in 0 .. now /\ published <= published'
      /\ stream \in Seq(Diff) /\ Ascending(stream) /\ latest \in Nat /\ latest <= published
      /\ d.final \in Nat
      /\ \A k \in DOMAIN stream : Honest(stream[k]) /\ latest <= stream[k].final
                                  /\ stream[k].final <= published
  BY DiffIds, SequencerAssumption DEF IInv, TypeOK, StreamInOrder, HeldInOrder, Honest
<1>2. ASSUME NEW e, Honest(e)
      PROVE  Honest(e)'
  BY <1>1, <1>2, StaysHonest
<1>3. /\ stream' \in Seq(Diff) /\ Ascending(stream')
      /\ \A k \in DOMAIN stream' : stream'[k] = d \/ (k \in DOMAIN stream /\ stream'[k] = stream[k])
  <2>1. CASE stream' = stream
    BY <1>1, <2>1
  <2>2. CASE stream' = Append(stream, d)
    <3>1. \A k \in DOMAIN stream : stream[k].final <= d.final
      BY <1>1, DiffsHeld
    <3> QED BY <1>1, <2>2, <3>1, OneDiffMore
  <2> QED BY <2>1, <2>2
<1>4. StreamInOrder'
  <2>1. ASSUME NEW k \in DOMAIN stream'
        PROVE  (Honest(stream[k]) /\ latest <= stream[k].final)'
    <3>1. PICK e : e = stream'[k]
      OBVIOUS
    <3>2. Honest(e)' /\ latest <= e.final
      BY <1>1, <1>2, <1>3, <3>1
    <3> QED BY <3>1, <3>2 DEF Honest
  <2> QED BY <1>3, <2>1 DEF StreamInOrder, Ascending
<1>5. HeldInOrder'
  <2>1. ASSUME NEW k \in DOMAIN buffer'
        PROVE  (Honest(buffer[k]) /\ buffer[k].final <= latest)'
    <3>1. PICK e : e = buffer[k]
      OBVIOUS
    <3>2. Honest(e) /\ e.final <= latest
      BY <3>1 DEF IInv, HeldInOrder
    <3> QED BY <1>2, <3>1, <3>2 DEF Honest
  <2> QED BY <1>1, <2>1 DEF IInv, HeldInOrder
<1>6. TypeOK'
  BY <1>1, <1>3 DEF TypeOK, Ascending, Feed!Tapes, Feed!Books, Feed!Ids
<1>7. BookTrue'
  BY DEF IInv, BookTrue, SetBySnapshot, Reset, Feed!BookAt, Feed!NoBook
<1> QED BY <1>4, <1>5, <1>6, <1>7, FeedStutters DEF IInv

LEMMA PublishStep ==
  ASSUME IInv, Publish
  PROVE  IInv' /\ IsFeedStep
<1>1. /\ published < now /\ published' = now /\ hasLost' = (hasLost \/ ~ isUp)
      /\ UNCHANGED <<rule, tape, now, isUp, isLive, anchor, buffer, pending, latest, hot>>
  BY DEF Publish
<1>2. PICK first \in published + 1 .. now :
        /\ \A i \in published + 1 .. first - 1 : tape[i] = Nothing
        /\ stream' = IF isUp THEN Append(stream, [first |-> first, final |-> now, prev |-> published])
                     ELSE stream
  BY DEF Publish
<1> DEFINE d == [first |-> first, final |-> now, prev |-> published]
<1>3. now \in 0 .. MaxId /\ published \in 0 .. now /\ hasLost' \in BOOLEAN /\ MaxId \in Nat
  BY <1>1, SequencerAssumption DEF IInv, TypeOK
<1>4. d \in Diff /\ d.first = first /\ d.final = now /\ d.prev = published
  BY <1>1, <1>2, <1>3 DEF Diff
<1> HIDE DEF d
<1>5. PICK e \in Diff : e = d
  BY <1>4
<1>6. Honest(e)'
  BY <1>1, <1>2, <1>3, <1>4, <1>5 DEF Honest
<1>7. published' \in published .. now
  BY <1>1, <1>3
<1>8. stream' = stream \/ stream' = Append(stream, e)
  BY <1>2, <1>5 DEF d
<1>9. e.final = published'
  BY <1>1, <1>4, <1>5
<1> QED BY <1>1, <1>3, <1>6, <1>7, <1>8, <1>9, SendStep

LEMMA ResendStep ==
  ASSUME IInv, Resend
  PROVE  IInv' /\ IsFeedStep
<1>1. /\ UNCHANGED <<rule, tape, now, published, isUp, isLive, anchor, buffer, pending, latest, hot, hasLost>>
      /\ published > 0
  BY DEF Resend, venueVars
<1>2. PICK first \in 1 .. published :
        stream' = Append(stream, [first |-> first, final |-> published, prev |-> first - 1])
  BY DEF Resend
<1> DEFINE d == [first |-> first, final |-> published, prev |-> first - 1]
<1>3. now \in 0 .. MaxId /\ published \in 0 .. now /\ hasLost' \in BOOLEAN /\ MaxId \in Nat
  BY <1>1, SequencerAssumption DEF IInv, TypeOK
<1>4. d \in Diff /\ d.first = first /\ d.final = published /\ d.prev = first - 1
  BY <1>1, <1>2, <1>3 DEF Diff
<1> HIDE DEF d
<1>5. PICK e \in Diff : e = d
  BY <1>4
<1>6. Honest(e)'
  BY <1>1, <1>2, <1>3, <1>4, <1>5 DEF Honest
<1>7. published' \in published .. now
  BY <1>1, <1>3
<1>8. stream' = Append(stream, e)
  BY <1>2, <1>5 DEF d
<1>9. e.final = published'
  BY <1>1, <1>4, <1>5
<1> QED BY <1>1, <1>3, <1>6, <1>7, <1>8, <1>9, SendStep

LEMMA NextStep ==
  ASSUME IInv, [Next]_vars
  PROVE  IInv' /\ IsFeedStep
<1>1. ASSUME NEW d \in Diff, DiffApplied(d) PROVE IInv' /\ IsFeedStep
  BY <1>1, AppliedStep
<1>2. ASSUME NEW d \in Diff, DiffIgnored(d) PROVE IInv' /\ IsFeedStep
  BY <1>2, IgnoredStep
<1>3. ASSUME NEW d \in Diff, DiffBreaks(d) PROVE IInv' /\ IsFeedStep
  BY <1>3, BreaksStep
<1>4. ASSUME NEW d \in Diff, DiffBuffered(d) PROVE IInv' /\ IsFeedStep
  BY <1>4, BufferedStep
<1>5. CASE Malformed
  BY <1>5, MalformedStep
<1>6. CASE Connect \/ Disconnect
  BY <1>6, SocketStep
<1>7. CASE Publish
  BY <1>7, PublishStep
<1>8. CASE Resend
  BY <1>8, ResendStep
<1>9. ASSUME NEW l \in Levels \cup {Nothing}, Trade(l) PROVE IInv' /\ IsFeedStep
  BY <1>9, TradeStep
<1>10. CASE UNCHANGED vars
  <2>1. IInv'
    BY <1>10 DEF vars, IInv, TypeOK, StreamInOrder, HeldInOrder, BookTrue, Honest, Ascending,
                 SetBySnapshot, Reset, Feed!BookAt, Feed!NoBook, Feed!Tapes, Feed!Books, Feed!Ids
  <2> QED BY <1>10, <2>1, FeedStutters DEF vars
<1> QED BY <1>1, <1>2, <1>3, <1>4, <1>5, <1>6, <1>7, <1>8, <1>9, <1>10 DEF Next, Frame

LEMMA InitHolds ==
  ASSUME Init
  PROVE  IInv /\ Feed!Init
<1>1. TypeOK
  <2>1. tape \in Feed!Tapes
    BY DEF Init, Feed!Tapes, Feed!Ids
  <2>2. hot \in [isValid : BOOLEAN, levels : Feed!Books]
    BY ResetTyped DEF Init, Reset
  <2>3. /\ stream \in Seq(Diff) /\ buffer \in Seq(Diff)
        /\ Len(buffer) <= Capacity /\ Ascending(buffer)
    BY EmptySeq, SequencerAssumption DEF Init, Ascending
  <2>4. /\ now \in 0 .. MaxId /\ published \in 0 .. now /\ anchor \in 0 .. now
        /\ latest \in 0 .. now /\ pending \in {None} \cup 0 .. now
    BY SequencerAssumption DEF Init
  <2> QED BY <2>1, <2>2, <2>3, <2>4 DEF Init, TypeOK
<1>2. StreamInOrder /\ HeldInOrder
  BY DEF Init, StreamInOrder, HeldInOrder, Ascending
<1>3. BookTrue
  BY DEF Init, BookTrue, Reset
<1>4. Feed!Init
  BY DEF Init, Feed!Init, Feed!Ids
<1> QED BY <1>1, <1>2, <1>3, <1>4 DEF IInv

-----------------------------------------------------------------------------
(***************************************************************************)
(* The theorems                                                            *)
(***************************************************************************)
\* The inductive invariant holds in every reachable state: frames in flight are
\* honest and in order, and a live book is the venue's at the anchor.
LEMMA IInvHolds == Spec => []IInv
<1>1. Init => IInv
  BY InitHolds
<1>2. IInv /\ [Next]_vars => IInv'
  BY NextStep
<1> QED BY <1>1, <1>2, PTL DEF Spec

\* Every variable of the sequencer, its buffers and the hot book keep their types,
\* and diffs held never outgrow the buffer or lose the order of their ids.
THEOREM DepthTyped == Spec => []TypeOK
<1>1. IInv => TypeOK
  BY DEF IInv
<1> QED BY <1>1, IInvHolds, PTL

\* The hot book is valid exactly while the sequencer is live, so neither a delta
\* nor a snapshot meets a book that cannot take it.
THEOREM BookInStep == Spec => []InStep
<1>1. IInv => InStep
  <2> SUFFICES ASSUME IInv PROVE InStep
    OBVIOUS
  <2>1. isLive \in BOOLEAN /\ hot.isValid \in BOOLEAN
    BY DEF IInv, TypeOK
  <2>2. isLive => hot.isValid
    BY DEF IInv, BookTrue, SetBySnapshot
  <2>3. ~ isLive => ~ hot.isValid
    BY DEF IInv, BookTrue, Reset
  <2> QED BY <2>1, <2>2, <2>3, Zenon DEF InStep
<1> QED BY <1>1, IInvHolds, PTL

\* Whatever the stream loses, repeats or overtakes, a valid hot book is the venue's
\* book at some update id and never an older one than before: the depth path
\* implements the abstract feed.
THEOREM DepthImplementsFeed == Spec => ShowsVenueBook
<1>1. Init => Feed!Init
  BY InitHolds
<1>2. IInv /\ [Next]_vars => [Feed!Next]_Feed!feedVars
  BY NextStep DEF IsFeedStep
<1> QED BY <1>1, <1>2, IInvHolds, PTL DEF Spec, Feed!Spec, ShowsVenueBook
-----------------------------------------------------------------------------
(***************************************************************************)
(* A reset is earned: while nothing was lost, the stream goes on from the  *)
(* anchor of a live book without a gap                                     *)
(***************************************************************************)
\* A diff that goes on where the one that ended at an id left off, or repeats it.
Joins(at, d) == IF rule = "Spot" THEN d.first = at + 1 \/ d.final = at ELSE d.prev = at

\* Each diff joins the one before it, and the last is the last the venue sent.
Contiguous(s) ==
  /\ s # <<>> => s[Len(s)].final = published
  /\ \A k \in 1 .. Len(s) - 1 : Joins(s[k].final, s[k + 1])

\* Nothing is missing between diffs in flight, nor before them where nothing was lost.
Reaches(at, s) == IF s = <<>> THEN at = published ELSE Joins(at, s[1])

\* The stream has no gap, and neither has its seam with a live book that lost nothing.
Unbroken ==
  /\ Contiguous(stream) /\ (stream # <<>> => isUp)
  /\ isLive /\ ~ hasLost => Reaches(anchor, stream)

LEMMA TailContiguous ==
  ASSUME NEW s \in Seq(Diff), s # <<>>, Contiguous(s)
  PROVE  Contiguous(Tail(s)) /\ Reaches(s[1].final, Tail(s))
<1> DEFINE t == Tail(s)
<1>1. /\ t \in Seq(Diff) /\ Len(s) \in Nat /\ Len(s) # 0 /\ Len(t) = Len(s) - 1
      /\ \A k \in 1 .. Len(t) : t[k] = s[k + 1]
  BY HeadTailProperties, EmptySeq
<1>2. t = <<>> <=> Len(t) = 0
  BY <1>1, EmptySeq
<1> HIDE DEF t
<1>3. t # <<>> => t[Len(t)].final = published
  <2> SUFFICES ASSUME t # <<>> PROVE t[Len(t)].final = published
    OBVIOUS
  <2>1. Len(t) \in 1 .. Len(t) /\ Len(t) + 1 = Len(s)
    BY <1>1, <1>2
  <2> QED BY <1>1, <2>1 DEF Contiguous
<1>4. ASSUME NEW k \in 1 .. Len(t) - 1 PROVE Joins(t[k].final, t[k + 1])
  <2>1. k \in 1 .. Len(t) /\ k + 1 \in 1 .. Len(t) /\ k + 1 \in 1 .. Len(s) - 1
    BY <1>1
  <2>2. t[k] = s[k + 1] /\ t[k + 1] = s[k + 1 + 1]
    BY <1>1, <2>1
  <2> QED BY <2>1, <2>2 DEF Contiguous
<1>5. Reaches(s[1].final, t)
  <2>1. CASE t = <<>>
    <3>1. Len(s) = 1
      BY <1>1, <1>2, <2>1
    <3>2. s[1].final = published
      BY <3>1 DEF Contiguous
    <3> QED BY <2>1, <3>2 DEF Reaches
  <2>2. CASE t # <<>>
    <3>1. 1 \in 1 .. Len(t) /\ 1 \in 1 .. Len(s) - 1
      BY <1>1, <1>2, <2>2
    <3>2. t[1] = s[1 + 1]
      BY <1>1, <3>1
    <3> QED BY <2>2, <3>1, <3>2 DEF Reaches, Contiguous
  <2> QED BY <2>1, <2>2
<1> QED BY <1>3, <1>4, <1>5 DEF Contiguous, t

\* What a step that leaves the stream to the venue keeps.
LEMMA SameUnbroken ==
  ASSUME Unbroken, UNCHANGED <<rule, published, stream>>, isUp => isUp',
         isLive' /\ ~ hasLost' => isLive /\ ~ hasLost /\ anchor' = anchor
  PROVE  Unbroken'
BY DEF Unbroken, Contiguous, Reaches, Joins

\* A frame takes the head of the stream; a book that is live afterwards, and from
\* which nothing was lost, stands at that frame.
LEMMA FrameUnbroken ==
  ASSUME IInv, Unbroken, stream # <<>>, stream' = Tail(stream), UNCHANGED <<rule, published, isUp>>,
         isLive' /\ ~ hasLost' => anchor' = stream[1].final
  PROVE  Unbroken'
<1>1. stream \in Seq(Diff)
  BY DEF IInv, TypeOK
<1>2. Contiguous(Tail(stream)) /\ Reaches(stream[1].final, Tail(stream))
  BY <1>1, TailContiguous DEF Unbroken
<1>3. Contiguous(stream)'
  BY <1>2 DEF Contiguous, Joins
<1>4. isLive' /\ ~ hasLost' => Reaches(anchor, stream)'
  BY <1>2 DEF Reaches, Joins
<1> QED BY <1>3, <1>4 DEF Unbroken

\* What the venue sends joins what it has sent.
LEMMA SentUnbroken ==
  ASSUME IInv, Unbroken, NEW d \in Diff, stream' = Append(stream, d), isUp, Joins(published, d),
         d.final = published', UNCHANGED <<rule, isUp, isLive, anchor, hasLost>>
  PROVE  Unbroken'
<1>1. stream \in Seq(Diff) /\ Len(stream) \in Nat
  BY DEF IInv, TypeOK
<1>2. /\ Len(stream') = Len(stream) + 1 /\ stream'[Len(stream) + 1] = d /\ stream' # <<>>
      /\ \A k \in 1 .. Len(stream) : stream'[k] = stream[k]
  BY <1>1
<1>3. stream'[Len(stream')].final = published'
  BY <1>2
<1>4. ASSUME NEW k \in 1 .. Len(stream') - 1
      PROVE  Joins(stream'[k].final, stream'[k + 1])
  <2>1. CASE k = Len(stream)
    <3>1. stream # <<>> /\ stream'[k] = stream[k] /\ stream'[k + 1] = d
      BY <1>1, <1>2, <1>4, <2>1
    <3> QED BY <2>1, <3>1 DEF Unbroken, Contiguous
  <2>2. CASE k # Len(stream)
    <3>1. k \in 1 .. Len(stream) - 1 /\ stream'[k] = stream[k] /\ stream'[k + 1] = stream[k + 1]
      BY <1>1, <1>2, <1>4, <2>2
    <3> QED BY <3>1 DEF Unbroken, Contiguous
  <2> QED BY <2>1, <2>2
<1>5. Contiguous(stream)'
  BY <1>3, <1>4 DEF Contiguous, Joins
<1>6. ASSUME isLive', ~ hasLost' PROVE Joins(anchor, stream'[1])
  <2>1. Reaches(anchor, stream)
    BY <1>6 DEF Unbroken
  <2>2. CASE stream = <<>>
    BY <1>2, <2>1, <2>2 DEF Reaches
  <2>3. CASE stream # <<>>
    <3>1. 1 \in 1 .. Len(stream)
      BY <1>1, <2>3
    <3> QED BY <1>2, <2>1, <2>3, <3>1 DEF Reaches
  <2> QED BY <2>2, <2>3
<1>7. isLive' /\ ~ hasLost' => Reaches(anchor, stream)'
  BY <1>2, <1>6 DEF Reaches, Joins
<1> QED BY <1>5, <1>7 DEF Unbroken

\* A rebuilt book stands at the frame that was handled, whatever was kept of the
\* diffs held: a snapshot that leaves none of them is that frame's own.
LEMMA RebuiltAtFrame ==
  ASSUME IInv, NEW d \in Diff, NEW held, Joined(held, d), NEW i \in Nat, i <= d.final, Rebuild(held, i)
  PROVE  anchor' = d.final
<1> DEFINE kept == Retained(held, i)
<1>1. /\ held \in Seq(Diff) /\ held # <<>> /\ held[Len(held)] = d
      /\ anchor' = IF kept = <<>> THEN i ELSE kept[Len(kept)].final
  BY DEF Joined, Rebuild
<1>2. Len(held) \in DOMAIN held /\ d.final \in Nat
  BY <1>1, EmptySeq, DiffsHeld, DiffIds
<1>3. /\ kept \in Seq(Diff) /\ Suffix(kept, held)
      /\ kept = <<>> => ~ Keeps(held[Len(held)], i)
  BY <1>1, <1>2, RetainedIsSuffix
<1> HIDE DEF kept
<1>4. kept # <<>> => kept[Len(kept)] = d
  BY <1>1, <1>3, SuffixInherits
<1>5. kept = <<>> => i = d.final
  BY <1>1, <1>2, <1>3 DEF Keeps
<1> QED BY <1>1, <1>4, <1>5

LEMMA UnbrokenKept ==
  ASSUME IInv, Unbroken, [Next]_vars
  PROVE  Unbroken'
<1>1. ASSUME NEW d, NextFrame(d)
      PROVE  /\ stream # <<>> /\ d = stream[1] /\ stream' = Tail(stream)
             /\ UNCHANGED <<rule, published, isUp>>
             /\ d.final \in Nat /\ anchor \in Nat /\ anchor <= latest /\ latest <= d.final
             /\ latest \in Nat /\ latest' = d.final
  <2>1. stream \in Seq(Diff) /\ stream # <<>> /\ Ascending(stream)
    BY <1>1 DEF IInv, TypeOK, StreamInOrder, NextFrame
  <2>2. Head(stream) = stream[1]
    BY <2>1, TailInOrder
  <2>3. d \in Diff /\ latest <= d.final /\ latest' = d.final
    BY <1>1, AfterFrame
  <2>4. anchor \in Nat /\ anchor <= latest /\ latest \in Nat
    <3>1. anchor \in 0 .. now /\ latest \in 0 .. now /\ now \in 0 .. MaxId /\ anchor <= latest
      BY DEF IInv, TypeOK, HeldInOrder
    <3> QED BY <3>1, SequencerAssumption
  <2> QED BY <1>1, <2>1, <2>2, <2>3, <2>4, DiffIds DEF NextFrame, venueVars
<1>2. ASSUME NEW d \in Diff, DiffApplied(d) PROVE Unbroken'
  BY <1>1, <1>2, FrameUnbroken DEF DiffApplied
<1>3. ASSUME NEW d \in Diff, DiffIgnored(d) PROVE Unbroken'
  <2>1. NextFrame(d) /\ d.final <= anchor /\ UNCHANGED <<isLive, anchor, hasLost>>
    BY <1>3 DEF DiffIgnored, IsResent
  <2>2. anchor' = d.final
    BY <1>1, <2>1
  <2> QED BY <1>1, <2>1, <2>2, FrameUnbroken
<1>4. ASSUME NEW d \in Diff, DiffBreaks(d) PROVE Unbroken'
  BY <1>1, <1>4, FrameUnbroken DEF DiffBreaks
<1>5. ASSUME NEW d \in Diff, DiffBuffered(d) PROVE Unbroken'
  <2> DEFINE held     == IF Overflows(buffer) THEN <<d>> ELSE Append(buffer, d)
             snapshot == IF Overflows(buffer) THEN None ELSE pending
  <2>1. /\ NextFrame(d) /\ ~ isLive
        /\ \/ /\ snapshot # None /\ MaxOf(latest, d.final) >= snapshot
              /\ Rebuild(held, snapshot) \/ RefuseSnapshot(held, snapshot)
           \/ UNCHANGED isLive
    BY <1>5 DEF DiffBuffered
  <2>2. Joined(held, d)
    BY <2>1, AfterFrame, JoinsHeld
  <2>3. snapshot # None => snapshot \in Nat
    BY SequencerAssumption DEF IInv, TypeOK
  <2> HIDE DEF held, snapshot
  <2>4. CASE snapshot # None /\ MaxOf(latest, d.final) >= snapshot /\ Rebuild(held, snapshot)
    <3>1. snapshot \in Nat /\ snapshot <= d.final
      BY <1>1, <2>1, <2>3, <2>4 DEF MaxOf
    <3>2. anchor' = d.final
      BY <2>2, <2>4, <3>1, RebuiltAtFrame
    <3> QED BY <1>1, <2>1, <3>2, FrameUnbroken
  <2>5. CASE UNCHANGED isLive
    BY <1>1, <2>1, <2>5, FrameUnbroken
  <2> QED BY <2>1, <2>4, <2>5 DEF RefuseSnapshot
<1>6. CASE Malformed
  BY <1>6, FrameUnbroken DEF Malformed, venueVars
<1>7. CASE Connect \/ UNCHANGED vars \/ \E l \in Levels \cup {Nothing} : Trade(l)
  BY <1>7, SameUnbroken DEF Connect, Trade, vars, venueVars
<1>8. CASE Disconnect
  <2>1. /\ stream' = <<>> /\ hasLost' = (hasLost \/ stream # <<>>)
        /\ UNCHANGED <<rule, published, isLive, anchor>>
    BY <1>8 DEF Disconnect, venueVars
  <2>2. Contiguous(stream)'
    BY <2>1 DEF Contiguous
  <2>3. isLive' /\ ~ hasLost' => Reaches(anchor, stream)'
    BY <2>1 DEF Unbroken, Reaches
  <2> QED BY <2>1, <2>2, <2>3 DEF Unbroken
<1>9. CASE Publish
  <2>1. /\ published < now /\ published' = now /\ hasLost' = (hasLost \/ ~ isUp)
        /\ UNCHANGED <<rule, now, isUp, isLive, anchor>>
        /\ published \in Nat /\ now \in 0 .. MaxId /\ MaxId \in Nat
    BY <1>9, SequencerAssumption DEF Publish, IInv, TypeOK
  <2>2. PICK first \in published + 1 .. now :
          /\ rule = "Spot" => first = published + 1
          /\ stream' = IF isUp THEN Append(stream, [first |-> first, final |-> now, prev |-> published])
                       ELSE stream
    BY <1>9 DEF Publish
  <2> DEFINE d == [first |-> first, final |-> now, prev |-> published]
  <2>3. d \in Diff
    BY <2>1, <2>2 DEF Diff
  <2>4. Joins(published, d) /\ d.final = published'
    BY <2>1, <2>2 DEF Joins
  <2> HIDE DEF d
  <2>5. CASE isUp
    <3>1. stream' = Append(stream, d) /\ hasLost' = hasLost
      BY <2>1, <2>2, <2>5 DEF d, IInv, TypeOK
    <3> QED BY <2>1, <2>3, <2>4, <2>5, <3>1, SentUnbroken
  <2>6. CASE ~ isUp
    <3>1. stream = <<>> /\ stream' = <<>> /\ hasLost'
      BY <2>1, <2>2, <2>6 DEF Unbroken
    <3> QED BY <3>1 DEF Unbroken, Contiguous
  <2> QED BY <2>5, <2>6
<1>10. CASE Resend
  <2>1. /\ rule = "Spot" /\ isUp /\ published > 0
        /\ UNCHANGED <<rule, published, isUp, isLive, anchor, hasLost>>
        /\ published \in Nat /\ now \in 0 .. MaxId /\ MaxId \in Nat /\ published <= now
    BY <1>10, SequencerAssumption DEF Resend, IInv, TypeOK, venueVars
  <2>2. PICK first \in 1 .. published :
          stream' = Append(stream, [first |-> first, final |-> published, prev |-> first - 1])
    BY <1>10 DEF Resend
  <2> DEFINE d == [first |-> first, final |-> published, prev |-> first - 1]
  <2>3. d \in Diff /\ Joins(published, d) /\ d.final = published'
    BY <2>1, <2>2 DEF Diff, Joins
  <2> QED BY <2>1, <2>2, <2>3, SentUnbroken
<1> QED BY <1>2, <1>3, <1>4, <1>5, <1>6, <1>7, <1>8, <1>9, <1>10 DEF Next, Frame

\* Where nothing was lost the next frame follows, or is one sent again.
LEMMA NothingBreaks ==
  ASSUME IInv, Unbroken, [Next]_vars, hot.isValid, ~ hot'.isValid
  PROVE  hasLost \/ anchor = MaxId
<1> SUFFICES ASSUME ~ hasLost, anchor # MaxId PROVE FALSE
  OBVIOUS
<1>1. isLive
  BY DEF IInv, BookTrue, Reset
<1>2. ~ isLive'
  <2>1. IInv'
    BY NextStep
  <2> QED BY <2>1 DEF IInv, BookTrue, SetBySnapshot
<1>3. PICK d \in Diff : DiffBreaks(d)
  BY <1>1, <1>2 DEF Next, Frame, DiffApplied, DiffIgnored, DiffBuffered, Malformed, Connect,
                    Disconnect, Trade, Publish, Resend, vars
<1>4. NextFrame(d) /\ Breaks(d)
  BY <1>3 DEF DiffBreaks
<1>5. /\ stream # <<>> /\ d = stream[1] /\ latest <= d.final /\ anchor <= latest
      /\ d.final \in Nat /\ latest \in Nat /\ anchor \in Nat /\ anchor < MaxId
  <2>1. stream \in Seq(Diff) /\ stream # <<>> /\ Ascending(stream) /\ d = Head(stream)
    BY <1>4 DEF IInv, TypeOK, StreamInOrder, NextFrame
  <2>2. anchor \in 0 .. now /\ now \in 0 .. MaxId /\ latest \in 0 .. now /\ anchor <= latest
    BY DEF IInv, TypeOK, HeldInOrder
  <2>3. anchor \in Nat /\ latest \in Nat /\ anchor < MaxId
    BY <2>2, SequencerAssumption
  <2>4. d \in Diff /\ latest <= d.final /\ d = stream[1]
    BY <1>4, <2>1, AfterFrame, TailInOrder
  <2> QED BY <2>1, <2>2, <2>3, <2>4, DiffIds
<1>6. Joins(anchor, d)
  BY <1>1, <1>5 DEF Unbroken, Reaches
<1> QED BY <1>4, <1>5, <1>6 DEF Joins, Breaks, Follows, IsResent, ChainsOnto

\* A book that lost nothing since it was built is never taken away, unless no
\* update id is left (ResetsOnlyOnLoss).
THEOREM ResetsAreEarned == Spec => ResetsOnlyOnLoss
<1>1. Init => Unbroken
  BY DEF Init, Unbroken, Contiguous
<1>2. IInv /\ Unbroken /\ [Next]_vars => Unbroken'
  BY UnbrokenKept
<1>3. IInv /\ Unbroken /\ [Next]_vars =>
        [hot.isValid /\ ~ hot'.isValid => hasLost \/ anchor = MaxId]_vars
  BY NothingBreaks
<1> QED BY <1>1, <1>2, <1>3, IInvHolds, PTL DEF Spec, ResetsOnlyOnLoss
=============================================================================
