-------------------------- MODULE SequenceGate_proofs --------------------------
(***************************************************************************)
(* What the gate keeps of a stream is the last of it that it let through,  *)
(* and what it does not keep it has had no reason to for as long as a      *)
(* subscription lasts.                                                     *)
(***************************************************************************)
EXTENDS SequenceGate, TLAPS

GateTyped ==
  /\ time \in Nat
  /\ Tracked \subseteq Streams
  /\ slots \in [Tracked -> [latest : Datagrams, seen : Nat]]
  /\ last \in [Streams -> Datagrams \cup {NoneYet}]
  /\ heard \in [Streams -> Nat]

Remembered ==
  \A k \in Tracked : slots[k].latest = last[k] /\ slots[k].seen = heard[k]

Forgotten ==
  \A k \in Streams \ Tracked : last[k] = NoneYet \/ time - heard[k] >= Ttl

GateInv == GateTyped /\ Remembered /\ Forgotten

\* A slot taken anew is all that changes of the table.
LEMMA WithSlot ==
  ASSUME NEW table, NEW k \in Streams, NEW d \in Datagrams, time \in Nat,
         DOMAIN table \subseteq Streams,
         table \in [DOMAIN table -> [latest : Datagrams, seen : Nat]]
  PROVE  /\ DOMAIN With(table, k, d) = DOMAIN table \cup {k}
         /\ With(table, k, d) \in [DOMAIN table \cup {k} -> [latest : Datagrams, seen : Nat]]
         /\ With(table, k, d)[k] = [latest |-> d, seen |-> time]
         /\ \A j \in DOMAIN table \ {k} : With(table, k, d)[j] = table[j]
  BY DEF With

LEMMA WithoutSlot ==
  ASSUME NEW table, NEW k,
         table \in [DOMAIN table -> [latest : Datagrams, seen : Nat]]
  PROVE  /\ DOMAIN Without(table, k) = DOMAIN table \ {k}
         /\ Without(table, k) \in [DOMAIN table \ {k} -> [latest : Datagrams, seen : Nat]]
         /\ \A j \in DOMAIN table \ {k} : Without(table, k)[j] = table[j]
  BY DEF Without

\* Any datagram is newer than none.
LEMMA FirstIsNewer == \A d \in Datagrams : Newer(d, NoneYet)
  BY DEF Datagrams, Newer, NoneYet

\* Whatever a stream is let through with, it is remembered by.
LEMMA LetIn ==
  ASSUME GateInv, NEW k \in Streams, NEW d \in Datagrams, NEW table, UNCHANGED time,
         DOMAIN table \subseteq Tracked,
         table \in [DOMAIN table -> [latest : Datagrams, seen : Nat]],
         \A j \in DOMAIN table : table[j] = slots[j],
         \A j \in Tracked \ DOMAIN table : time - slots[j].seen >= Ttl,
         slots' = With(table, k, d), LetThrough(k, d)
  PROVE  GateInv'
<1>1. time \in Nat /\ DOMAIN table \subseteq Streams
  BY DEF GateInv, GateTyped
<1>2. /\ Tracked' = DOMAIN table \cup {k}
      /\ slots' \in [DOMAIN table \cup {k} -> [latest : Datagrams, seen : Nat]]
      /\ slots'[k] = [latest |-> d, seen |-> time]
      /\ \A j \in DOMAIN table \ {k} : slots'[j] = table[j]
  <2>1. /\ DOMAIN With(table, k, d) = DOMAIN table \cup {k}
        /\ With(table, k, d) \in [DOMAIN table \cup {k} -> [latest : Datagrams, seen : Nat]]
        /\ With(table, k, d)[k] = [latest |-> d, seen |-> time]
        /\ \A j \in DOMAIN table \ {k} : With(table, k, d)[j] = table[j]
    BY <1>1, WithSlot
  <2>2. Tracked' = DOMAIN With(table, k, d)
    BY DEF Tracked
  <2> QED BY <2>1, <2>2
<1>3. /\ last' = [last EXCEPT ![k] = d] /\ heard' = [heard EXCEPT ![k] = time]
      /\ last \in [Streams -> Datagrams \cup {NoneYet}] /\ heard \in [Streams -> Nat]
  BY DEF LetThrough, GateInv, GateTyped
<1>4. GateTyped'
  BY <1>1, <1>2, <1>3 DEF GateTyped
<1>5. Remembered'
  BY <1>1, <1>2, <1>3 DEF Remembered, GateInv
<1>6. Forgotten'
  <2> SUFFICES ASSUME NEW j \in Streams, j \notin DOMAIN table, j # k
               PROVE  last[j] = NoneYet \/ time - heard[j] >= Ttl
    BY <1>2, <1>3 DEF Forgotten
  <2>1. CASE j \in Tracked
    BY <2>1 DEF GateInv, Remembered
  <2>2. CASE j \notin Tracked
    BY <2>2 DEF GateInv, Forgotten
  <2> QED BY <2>1, <2>2
<1> QED BY <1>4, <1>5, <1>6 DEF GateInv

LEMMA GateStarts == GateInit => GateInv
  BY DEF GateInit, GateInv, GateTyped, Remembered, Forgotten, Tracked

LEMMA GateKept ==
  ASSUME GateDeclared, GateInv, [GateNext]_gateVars
  PROVE  GateInv'
<1>1. /\ slots \in [Tracked -> [latest : Datagrams, seen : Nat]] /\ DOMAIN slots = Tracked
      /\ Tracked \subseteq Streams /\ time \in Nat /\ Ttl \in Nat
  BY DEF GateInv, GateTyped, Tracked, GateDeclared
<1>2. ASSUME NEW k \in Streams, NEW d \in Datagrams, UNCHANGED time, Accept(k, d) \/ Track(k, d)
      PROVE  GateInv'
  <2>1. slots' = With(slots, k, d) /\ LetThrough(k, d)
    BY <1>2 DEF Accept, Track
  <2> QED BY <1>1, <1>2, <2>1, LetIn
<1>3. ASSUME NEW k \in Streams, NEW d \in Datagrams, UNCHANGED time, Evict(k, d)
      PROVE  GateInv'
  <2>1. PICK j \in Tracked : Expired(j) /\ slots' = With(Without(slots, j), k, d)
    BY <1>3 DEF Evict
  <2>2. /\ DOMAIN Without(slots, j) = Tracked \ {j}
        /\ Without(slots, j) \in [DOMAIN Without(slots, j) -> [latest : Datagrams, seen : Nat]]
        /\ \A i \in DOMAIN Without(slots, j) : Without(slots, j)[i] = slots[i]
    BY <1>1, WithoutSlot
  <2>3. \A i \in Tracked \ DOMAIN Without(slots, j) : time - slots[i].seen >= Ttl
    BY <2>1, <2>2 DEF Expired
  <2>4. LetThrough(k, d)
    BY <1>3 DEF Evict
  <2> QED BY <1>3, <2>1, <2>2, <2>3, <2>4, LetIn
<1>4. ASSUME NEW k \in Streams, NEW d \in Datagrams, UNCHANGED time, Drop(k, d)
      PROVE  GateInv'
  <2>1. /\ k \in Tracked /\ slots' = [slots EXCEPT ![k].seen = time]
        /\ heard' = [heard EXCEPT ![k] = time] /\ last' = last
    BY <1>4 DEF Drop
  <2>2. /\ slots' \in [Tracked -> [latest : Datagrams, seen : Nat]] /\ Tracked' = Tracked
        /\ slots'[k].latest = slots[k].latest /\ slots'[k].seen = time
        /\ \A j \in Tracked \ {k} : slots'[j] = slots[j]
    BY <1>1, <2>1 DEF Tracked
  <2>3. heard \in [Streams -> Nat] /\ last \in [Streams -> Datagrams \cup {NoneYet}]
    BY DEF GateInv, GateTyped
  <2>4. GateTyped'
    BY <1>1, <1>4, <2>1, <2>2, <2>3 DEF GateTyped
  <2>5. Remembered'
    BY <1>1, <2>1, <2>2, <2>3 DEF Remembered, GateInv
  <2>6. Forgotten'
    BY <1>1, <1>4, <2>1, <2>2, <2>3 DEF Forgotten, GateInv
  <2> QED BY <2>4, <2>5, <2>6 DEF GateInv
<1>5. ASSUME NEW k \in Streams, UNCHANGED time, Refuse(k)
      PROVE  GateInv'
  BY <1>5 DEF Refuse, GateInv, GateTyped, Remembered, Forgotten, Tracked
<1>6. CASE GateTick
  <2>1. time' = time + 1 /\ UNCHANGED <<slots, last, heard>> /\ Tracked' = Tracked
    BY <1>6 DEF GateTick, Tracked
  <2>2. GateTyped' /\ Remembered'
    BY <1>1, <2>1 DEF GateInv, GateTyped, Remembered
  <2>3. Forgotten'
    BY <1>1, <2>1 DEF GateInv, GateTyped, Forgotten
  <2> QED BY <2>2, <2>3 DEF GateInv
<1>7. CASE UNCHANGED gateVars
  BY <1>7 DEF gateVars, GateInv, GateTyped, Remembered, Forgotten, Tracked
<1> QED BY <1>2, <1>3, <1>4, <1>5, <1>6, <1>7 DEF GateNext, Admit

\* What is let through is newer than what its stream was let through with last, or
\* that was forgotten.
LEMMA NothingRewinds ==
  ASSUME GateDeclared, GateInv, GateNext, NEW k \in Streams, passed' = k,
         ~ Newer(last'[k], last[k])
  PROVE  time - heard[k] >= Ttl
<1>1. PICK j \in Streams, d \in Datagrams : Accept(j, d) \/ Track(j, d) \/ Evict(j, d)
  BY DEF GateDeclared, GateNext, GateTick, Admit, Drop, Refuse
<1>2. j = k /\ last' = [last EXCEPT ![k] = d]
  BY <1>1 DEF Accept, Track, Evict, LetThrough
<1>3. last'[k] = d
  BY <1>2 DEF GateInv, GateTyped
<1>4. CASE Accept(j, d)
  BY <1>2, <1>3, <1>4 DEF Accept, GateInv, Remembered
<1>5. CASE k \notin Tracked
  BY <1>3, <1>5, FirstIsNewer DEF GateInv, Forgotten
<1> QED BY <1>1, <1>2, <1>4, <1>5 DEF Track, Evict

\* However full the gate, no stream goes back (RewindsOnlyAfterSilence) but one that
\* was silent for LINK_SUBSCRIPTION_TTL.
THEOREM GateNeverRewinds ==
  ASSUME GateDeclared
  PROVE  GateSpec => RewindsOnlyAfterSilence
<1>1. GateInit => GateInv
  BY GateStarts
<1>2. GateInv /\ [GateNext]_gateVars => GateInv'
  BY GateKept
<1>3. GateInv /\ [GateNext]_gateVars =>
        [\A k \in Streams : passed' = k /\ ~ Newer(last'[k], last[k])
            => time - heard[k] >= Ttl]_gateVars
  BY NothingRewinds
<1> QED BY <1>1, <1>2, <1>3, PTL DEF GateSpec, RewindsOnlyAfterSilence
=============================================================================
