----------------------------- MODULE SequenceGate -----------------------------
(***************************************************************************)
(* The gate every link receiver puts before what it hears (SequenceGate in *)
(* link/subscribers.rs): of each stream, a sender and a topic, it lets     *)
(* nothing through that is not newer than all it has let through.  It has  *)
(* room for so many streams; one that was silent for LINK_SUBSCRIPTION_TTL *)
(* gives its place to another when there is none left, and is forgotten.   *)
(*                                                                         *)
(* Datagrams come in any order, any number of times.  A datagram is the    *)
(* boot of its sender and its number there.                                *)
(***************************************************************************)
EXTENDS Integers, FiniteSets

CONSTANTS
  Streams,
  MaxKeys,   \* LINK_MAX_GATE_KEYS
  Ttl,       \* LINK_SUBSCRIPTION_TTL
  \* Bounds of the model.
  MaxTime, MaxBoot, MaxSeq

VARIABLES
  slots,   \* the streams tracked, each by its latest datagram and when it was last heard
  time,
  last,    \* history: of each stream, the last datagram let through
  heard,   \* history: when it was last tracked
  passed   \* the stream of the datagram let through in this step, if any

gateVars == <<slots, time, last, heard, passed>>

Nobody      == "nobody"
NoneYet   == [boot |-> -1, seq |-> -1]

GateDeclared ==
  /\ Nobody \notin Streams
  /\ MaxKeys \in Nat \ {0} /\ Ttl \in Nat \ {0}
  /\ MaxTime \in Nat /\ MaxBoot \in Nat /\ MaxSeq \in Nat

Datagrams == [boot : 0 .. MaxBoot, seq : 0 .. MaxSeq]

Newer(a, b) == a.boot > b.boot \/ (a.boot = b.boot /\ a.seq > b.seq)

Tracked == DOMAIN slots

GateInit == /\ slots = [k \in {} |-> Nobody]
        /\ time = 0
        /\ last = [k \in Streams |-> NoneYet]
        /\ heard = [k \in Streams |-> 0]
        /\ passed = Nobody

With(table, k, d) ==
  [j \in DOMAIN table \cup {k} |-> IF j = k THEN [latest |-> d, seen |-> time] ELSE table[j]]

Without(table, k) == [j \in DOMAIN table \ {k} |-> table[j]]

LetThrough(k, d) ==
  /\ last' = [last EXCEPT ![k] = d]
  /\ heard' = [heard EXCEPT ![k] = time]
  /\ passed' = k

\* A stream that is tracked, and a datagram newer than its latest: Accepted, Restarted.
Accept(k, d) ==
  /\ k \in Tracked /\ Newer(d, slots[k].latest)
  /\ slots' = With(slots, k, d)
  /\ LetThrough(k, d)

\* Stale, StaleBoot: dropped, but heard.
Drop(k, d) ==
  /\ k \in Tracked /\ ~ Newer(d, slots[k].latest)
  /\ slots' = [slots EXCEPT ![k].seen = time]
  /\ heard' = [heard EXCEPT ![k] = time]
  /\ passed' = Nobody
  /\ UNCHANGED last

\* track, with a slot left.
Track(k, d) ==
  /\ k \notin Tracked /\ Cardinality(Tracked) < MaxKeys
  /\ slots' = With(slots, k, d)
  /\ LetThrough(k, d)

\* The bug of evicting the stalest whether or not it has expired.
Stalest(j) == \A i \in Tracked : slots[j].seen <= slots[i].seen

\* stalest_expired_slot.  The code takes the first of the stalest.
Expired(j) == (\A i \in Tracked : slots[j].seen <= slots[i].seen) /\ time - slots[j].seen >= Ttl

\* track, with none: the stalest stream gives way if it has expired.
Evict(k, d) ==
  /\ k \notin Tracked /\ Cardinality(Tracked) >= MaxKeys
  /\ \E j \in Tracked : Expired(j) /\ slots' = With(Without(slots, j), k, d)
  /\ LetThrough(k, d)

\* Untracked: nothing is changed.
Refuse(k) ==
  /\ k \notin Tracked /\ Cardinality(Tracked) >= MaxKeys
  /\ ~ \E j \in Tracked : Expired(j)
  /\ passed' = Nobody
  /\ UNCHANGED <<slots, last, heard>>

Admit(k, d) ==
  /\ Accept(k, d) \/ Drop(k, d) \/ Track(k, d) \/ Evict(k, d) \/ Refuse(k)
  /\ UNCHANGED time

GateTick ==
  /\ time < MaxTime
  /\ time' = time + 1 /\ passed' = Nobody
  /\ UNCHANGED <<slots, last, heard>>

GateNext == GateTick \/ \E k \in Streams, d \in Datagrams : Admit(k, d)

GateSpec == GateInit /\ [][GateNext]_gateVars
-----------------------------------------------------------------------------
\* Nothing is let through twice, nor after something newer, however full the gate,
\* unless its stream was silent for as long as a subscription lasts.
RewindsOnlyAfterSilence ==
  [][\A k \in Streams :
       passed' = k /\ ~ Newer(last'[k], last[k]) => time - heard[k] >= Ttl]_gateVars
=============================================================================
