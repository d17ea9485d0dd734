--------------------------- MODULE RunControl_proofs ---------------------------
(***************************************************************************)
(* What holds of run control for any tabs, any ring, any bounds: an epoch  *)
(* names one state inside an engine, no cell goes back, and a tab's        *)
(* verdict is true of the engine it hears.                                 *)
(***************************************************************************)
EXTENDS RunControl, TLAPS

Slot == Assertion \cup {Payload}

MarkersOf(q) == {q[i] : i \in {j \in DOMAIN q : IsMarker(q[j])}}

Ascending(q) ==
  \A i, j \in DOMAIN q : i < j /\ IsMarker(q[i]) /\ IsMarker(q[j]) => q[i].epoch <= q[j].epoch

\* Nothing in a ring is ahead of an assertion.
Below(q, a) == \A m \in MarkersOf(q) : m.epoch <= a.epoch

Stream(S) == [flight : Seq(S), stale : Nat]

ControlTyped ==
  /\ desired \in Assertion /\ run \in Assertion /\ acknowledged = run
  /\ ring \in Seq(Slot)
  /\ presses \in [Tabs -> Nat]
  /\ asserted \in [Tabs -> States \cup {None}]
  /\ subscribes \in [Tabs -> Stream(Assertion)]

Held == MarkersOf(ring) \cup {desired, run}

ControlInv ==
  /\ ControlTyped
  /\ \A a \in Held : a.epoch <= desired.epoch
  /\ \A a, b \in Held : a.epoch = b.epoch => a = b
  /\ Ascending(ring)

-----------------------------------------------------------------------------
\* A marker is told from a payload by its state.
LEMMA PayloadIsNoMarker ==
  /\ \A a \in Assertion : IsMarker(a)
  /\ ~IsMarker(Payload)
BY DEF Assertion, States, IsMarker, Payload

\* What a push leaves in the ring.
LEMMA PushKeeps ==
  ASSUME NEW q \in Seq(Slot), NEW m \in Slot, Ascending(q),
         IsMarker(m) => Below(q, m)
  PROVE  /\ PushLink(q, m) \in Seq(Slot)
         /\ Ascending(PushLink(q, m))
         /\ MarkersOf(PushLink(q, m)) \subseteq
              MarkersOf(q) \cup (IF IsMarker(m) THEN {m} ELSE {})
<1>1. CASE Len(q) < RingSize
  <2> DEFINE p == Append(q, m)
  <2>1. PushLink(q, m) = p  BY <1>1 DEF PushLink
  <2>2. /\ p \in Seq(Slot) /\ Len(p) = Len(q) + 1
        /\ DOMAIN p = 1..Len(q) + 1 /\ DOMAIN q = 1..Len(q)
        /\ \A i \in 1..Len(q) : p[i] = q[i]
        /\ p[Len(q) + 1] = m
    OBVIOUS
  <2>3. Ascending(p)
    <3> SUFFICES ASSUME NEW i \in DOMAIN p, NEW j \in DOMAIN p, i < j,
                        IsMarker(p[i]), IsMarker(p[j])
                 PROVE  p[i].epoch <= p[j].epoch
      BY DEF Ascending
    <3>1. CASE j \in DOMAIN q  BY <2>2, <3>1 DEF Ascending
    <3>2. CASE j = Len(q) + 1
      <4>1. i \in DOMAIN q /\ p[i] = q[i] /\ p[j] = m  BY <2>2, <3>2
      <4>2. q[i] \in MarkersOf(q)  BY <4>1 DEF MarkersOf
      <4> QED BY <4>1, <4>2 DEF Below
    <3> QED BY <2>2, <3>1, <3>2
  <2>4. MarkersOf(p) \subseteq MarkersOf(q) \cup (IF IsMarker(m) THEN {m} ELSE {})
    <3> SUFFICES ASSUME NEW i \in DOMAIN p, IsMarker(p[i])
                 PROVE  p[i] \in MarkersOf(q) \cup (IF IsMarker(m) THEN {m} ELSE {})
      BY DEF MarkersOf
    <3>1. CASE i \in DOMAIN q  BY <2>2, <3>1 DEF MarkersOf
    <3>2. CASE i = Len(q) + 1  BY <2>2, <3>2
    <3> QED BY <2>2, <3>1, <3>2
  <2> QED BY <2>1, <2>2, <2>3, <2>4
<1>2. CASE ~(Len(q) < RingSize)  BY <1>2 DEF PushLink
<1> QED BY <1>1, <1>2

\* The level trigger pushes nothing but what is wanted.
LEMMA MarkerKeeps ==
  ASSUME NEW q \in Seq(Slot), NEW w \in Assertion, Ascending(q), Below(q, w)
  PROVE  /\ PushMarkerIfNeeded(q, w) \in Seq(Slot)
         /\ Ascending(PushMarkerIfNeeded(q, w))
         /\ MarkersOf(PushMarkerIfNeeded(q, w)) \subseteq MarkersOf(q) \cup {w}
         /\ Below(PushMarkerIfNeeded(q, w), w)
<1>1. w \in Slot /\ IsMarker(w) /\ w.epoch \in Nat  BY PayloadIsNoMarker DEF Slot, Assertion
<1>2. /\ PushLink(q, w) \in Seq(Slot) /\ Ascending(PushLink(q, w))
      /\ MarkersOf(PushLink(q, w)) \subseteq MarkersOf(q) \cup {w}
  BY <1>1, PushKeeps
<1>3. Below(PushLink(q, w), w)  BY <1>1, <1>2 DEF Below
<1> QED BY <1>2, <1>3 DEF PushMarkerIfNeeded

\* The head of a ring is one of its markers, and the rest of them stay in order.
LEMMA PopKeeps ==
  ASSUME NEW q \in Seq(Slot), q # <<>>, Ascending(q)
  PROVE  /\ Head(q) \in Slot /\ Tail(q) \in Seq(Slot) /\ Ascending(Tail(q))
         /\ MarkersOf(Tail(q)) \subseteq MarkersOf(q)
         /\ IsMarker(Head(q)) => Head(q) \in MarkersOf(q) /\ Head(q) \in Assertion
<1> DEFINE p == Tail(q)
<1>1. /\ p \in Seq(Slot) /\ DOMAIN p = 1..Len(q) - 1 /\ DOMAIN q = 1..Len(q)
      /\ Len(q) \in Nat \ {0}
      /\ \A i \in 1..Len(q) - 1 : p[i] = q[i + 1]
  OBVIOUS
<1>2. Head(q) = q[1] /\ 1 \in DOMAIN q /\ q[1] \in Slot  BY <1>1
<1>3. Ascending(p)  BY <1>1 DEF Ascending
<1>4. MarkersOf(p) \subseteq MarkersOf(q)
  <2> SUFFICES ASSUME NEW i \in DOMAIN p, IsMarker(p[i]) PROVE p[i] \in MarkersOf(q)
    BY DEF MarkersOf
  <2>1. i + 1 \in DOMAIN q /\ p[i] = q[i + 1]  BY <1>1
  <2> QED BY <2>1 DEF MarkersOf
<1>5. IsMarker(Head(q)) => Head(q) \in MarkersOf(q)  BY <1>2 DEF MarkersOf
<1>6. IsMarker(Head(q)) => Head(q) \in Assertion  BY <1>2, PayloadIsNoMarker DEF Slot
<1> QED BY <1>1, <1>2, <1>3, <1>4, <1>5, <1>6

\* Highest epoch wins.
LEMMA AcceptedIsHigher ==
  ASSUME NEW cell \in Assertion, NEW a \in Assertion
  PROVE  /\ AcceptIfNewer(cell, a) \in Assertion
         /\ \/ AcceptIfNewer(cell, a) = cell
            \/ AcceptIfNewer(cell, a) = a /\ a.epoch > cell.epoch
BY DEF AcceptIfNewer, Assertion

\* A stream keeps its type under Send.
LEMMA SendTyped ==
  ASSUME NEW S, NEW link \in Stream(S), NEW d \in S
  PROVE  Send(link, d) \in Stream(S)
<1>1. /\ link.flight \in Seq(S) /\ link.stale \in Nat
      /\ link = [flight |-> link.flight, stale |-> link.stale]
  BY DEF Stream
<1>2. Append(link.flight, d) \in Seq(S)  BY <1>1
<1>3. CASE Len(link.flight) < MaxFlight  BY <1>1, <1>2, <1>3 DEF Send, Stream
<1>4. CASE ~(Len(link.flight) < MaxFlight)
  <2>1. Len(link.flight) \in Nat /\ MaxFlight \in Nat \ {0}  BY <1>1, ControlAssumption
  <2>2. link.flight # <<>>  BY <1>4, <2>1
  <2>3. Tail(link.flight) \in Seq(S)  BY <1>1, <2>2
  <2>4. Append(Tail(link.flight), d) \in Seq(S)  BY <2>3
  <2>5. (IF link.stale = 0 THEN 0 ELSE link.stale - 1) \in Nat  BY <1>1
  <2> QED BY <1>4, <2>4, <2>5 DEF Send, Stream
<1> QED BY <1>3, <1>4

-----------------------------------------------------------------------------
\* A step whose desired assertion is the old one or a higher one, and which runs and
\* queues nothing but what was held or is now desired.
LEMMA CellsStep ==
  ASSUME ControlInv,
         desired' \in Assertion,
         desired' = desired \/ desired'.epoch > desired.epoch,
         run' \in Held, acknowledged' = run',
         ring' \in Seq(Slot), Ascending(ring'),
         MarkersOf(ring') \subseteq MarkersOf(ring) \cup {desired'},
         presses' \in [Tabs -> Nat],
         asserted' \in [Tabs -> States \cup {None}],
         subscribes' \in [Tabs -> Stream(Assertion)]
  PROVE  ControlInv'
<1>1. Held \subseteq Assertion
  <2>1. MarkersOf(ring) \subseteq Assertion
    <3> SUFFICES ASSUME NEW i \in DOMAIN ring, IsMarker(ring[i]) PROVE ring[i] \in Assertion
      BY DEF MarkersOf
    <3>1. ring[i] \in Slot  BY DEF ControlInv, ControlTyped
    <3> QED BY <3>1, PayloadIsNoMarker DEF Slot
  <2> QED BY <2>1 DEF Held, ControlInv, ControlTyped
<1>2. Held' \subseteq Held \cup {desired'}  BY DEF Held
<1>3. \A a \in Held : a.epoch \in Nat /\ a.epoch <= desired.epoch
  BY <1>1 DEF ControlInv, Assertion
<1>4. desired.epoch \in Nat /\ desired'.epoch \in Nat  BY <1>1 DEF Held, Assertion
<1>5. ControlTyped'  BY <1>1 DEF ControlTyped
<1>6. \A a \in Held' : a.epoch <= desired'.epoch  BY <1>2, <1>3, <1>4
<1>7. \A a, b \in Held' : a.epoch = b.epoch => a = b
  <2> SUFFICES ASSUME NEW a \in Held', NEW b \in Held', a.epoch = b.epoch PROVE a = b
    OBVIOUS
  <2>1. CASE desired' = desired
    <3>1. a \in Held /\ b \in Held  BY <1>2, <2>1 DEF Held
    <3> QED BY <3>1 DEF ControlInv
  <2>2. CASE desired'.epoch > desired.epoch
    <3>1. CASE a \in Held /\ b \in Held  BY <3>1 DEF ControlInv
    <3>2. CASE a = desired' /\ b = desired'  BY <3>2
    <3>3. CASE a \in Held /\ b = desired'  BY <1>3, <1>4, <2>2, <3>3
    <3>4. CASE a = desired' /\ b \in Held  BY <1>3, <1>4, <2>2, <3>4
    <3> QED BY <1>2, <3>1, <3>2, <3>3, <3>4
  <2> QED BY <2>1, <2>2
<1> QED BY <1>5, <1>6, <1>7 DEF ControlInv

\* Steps of the tabs and of time: no cell moves.
LEMMA CellsStill ==
  ASSUME ControlInv, UNCHANGED cellVars,
         presses' \in [Tabs -> Nat],
         asserted' \in [Tabs -> States \cup {None}],
         subscribes' \in [Tabs -> Stream(Assertion)]
  PROVE  ControlInv'
<1>1. ring' = ring /\ desired' = desired /\ run' = run /\ acknowledged' = acknowledged
  BY DEF cellVars
<1>2. /\ desired \in Assertion /\ run \in Assertion /\ acknowledged = run
      /\ ring \in Seq(Slot) /\ Ascending(ring)
  BY DEF ControlInv, ControlTyped
<1>3. run \in Held  BY DEF Held
<1> QED BY <1>1, <1>2, <1>3, CellsStep

\* What a tab asserts, or will at its next press, is an assertion.
LEMMA ClaimTyped ==
  ASSUME ControlTyped, NEW t \in Tabs
  PROVE  /\ TabAssertion(t) \in Assertion
         /\ NextAssertion(t) \in States
         /\ Claim(NextAssertion(t), BootEpoch[t] + presses[t] + 1) \in Assertion
         /\ asserted[t] # None => TabAssertion(t).epoch = BootEpoch[t] + presses[t]
<1>1. BootEpoch[t] \in Nat /\ presses[t] \in Nat /\ asserted[t] \in States \cup {None}
  BY ControlAssumption DEF ControlTyped
<1>2. NextAssertion(t) \in States  BY DEF NextAssertion, States
<1>3. TabAssertion(t) \in Assertion
  <2>1. CASE asserted[t] = None
    BY <2>1 DEF TabAssertion, Initial, Assertion, States
  <2>2. CASE asserted[t] # None
    BY <1>1, <2>2 DEF TabAssertion, Claim, Assertion
  <2> QED BY <2>1, <2>2
<1>4. Claim(NextAssertion(t), BootEpoch[t] + presses[t] + 1) \in Assertion
  BY <1>1, <1>2 DEF Claim, Assertion
<1>5. asserted[t] # None => TabAssertion(t).epoch = BootEpoch[t] + presses[t]
  BY DEF TabAssertion, Claim
<1> QED BY <1>2, <1>3, <1>4, <1>5

\* A process starts with every cell at the initial assertion.
LEMMA ControlInit == Init => ControlInv
<1> SUFFICES ASSUME Init PROVE ControlInv
  OBVIOUS
<1>1. Initial \in Assertion /\ Initial.epoch = 0  BY DEF Initial, Assertion, States
<1>2. MarkersOf(<<>>) = {} /\ Ascending(<<>>)  BY DEF MarkersOf, Ascending
<1>3. Empty \in Stream(Assertion)  BY DEF Empty, Stream
<1>4. ControlTyped  BY <1>1, <1>3 DEF Init, ControlTyped
<1>5. Held = {Initial}  BY <1>2 DEF Held, Init
<1> QED BY <1>1, <1>2, <1>4, <1>5 DEF ControlInv, Init

\* The invariant is inductive: one case per action.
LEMMA ControlNext == ControlInv /\ [Next]_vars => ControlInv'
<1> SUFFICES ASSUME ControlInv, [Next]_vars PROVE ControlInv'
  OBVIOUS
<1> USE DEF tabVars, netVars, actorVars, engineVars, Mishap
<1>1. ControlTyped  BY DEF ControlInv
<1>2. /\ presses \in [Tabs -> Nat] /\ asserted \in [Tabs -> States \cup {None}]
      /\ subscribes \in [Tabs -> Stream(Assertion)]
  BY <1>1 DEF ControlTyped
<1>3. /\ desired \in Assertion /\ run \in Assertion /\ acknowledged = run
      /\ ring \in Seq(Slot) /\ Ascending(ring) /\ Below(ring, desired)
      /\ desired.epoch \in Nat
  BY <1>1 DEF ControlTyped, ControlInv, Held, Below, Assertion
<1>4. run \in Held /\ MarkersOf(ring) \subseteq Held  BY DEF Held
<1>5. ASSUME NEW t \in Tabs, TabStep(t) PROVE ControlInv'
  <2>1. CASE Press(t)
    <3>1. presses' \in [Tabs -> Nat]  BY <1>2, <2>1 DEF Press
    <3>2. asserted' \in [Tabs -> States \cup {None}]
      BY <1>1, <1>2, <2>1, ClaimTyped DEF Press
    <3>3. subscribes' \in [Tabs -> Stream(Assertion)]
      BY <1>1, <1>2, <2>1, ClaimTyped, SendTyped DEF Press, SubscribeWith
    <3> QED BY <2>1, <3>1, <3>2, <3>3, CellsStill DEF Press
  <2>2. CASE Refresh(t)
    <3>1. subscribes' \in [Tabs -> Stream(Assertion)]
      BY <1>1, <1>2, <2>2, ClaimTyped, SendTyped DEF Refresh, SubscribeWith
    <3> QED BY <1>2, <2>2, <3>1, CellsStill DEF Refresh
  <2>3. CASE AttachToNextPeer(t)
    <3>1. asserted' \in [Tabs -> States \cup {None}]  BY <1>2, <2>3 DEF AttachToNextPeer
    <3> QED BY <1>2, <2>3, <3>1, CellsStill DEF AttachToNextPeer
  <2>4. CASE CloseTab(t)  BY <1>2, <2>4, CellsStill DEF CloseTab
  <2>5. CASE \E i \in DOMAIN reports[t].flight : HearReport(t, i)
    BY <1>2, <2>5, CellsStill DEF HearReport
  <2>6. CASE \E i \in DOMAIN books[t].flight : HearBook(t, i)
    BY <1>2, <2>6, CellsStill DEF HearBook
  <2> QED BY <1>5, <2>1, <2>2, <2>3, <2>4, <2>5, <2>6 DEF TabStep
<1>6. CASE EngineStep
  <2>1. ASSUME NEW t \in Tabs, NEW i \in DOMAIN subscribes[t].flight, OnSubscribe(t, i)
        PROVE  ControlInv'
    <3> DEFINE a == subscribes[t].flight[i]
               w == IF a.epoch = 0 THEN desired ELSE AcceptIfNewer(desired, a)
    <3>1. /\ subscribes[t] \in Stream(Assertion) /\ subscribes[t].flight \in Seq(Assertion)
          /\ i \in 1..Len(subscribes[t].flight) /\ i \in Nat
      BY <1>2, <2>1 DEF Stream
    <3>2. a \in Assertion  BY <3>1
    <3>3. /\ w \in Assertion /\ w.epoch \in Nat
          /\ w = desired \/ w.epoch > desired.epoch
      BY <1>3, <3>2, AcceptedIsHigher DEF Assertion
    <3>4. subscribes' \in [Tabs -> Stream(Assertion)]
      <4>1. Admitted(subscribes[t], i) \in Stream(Assertion)  BY <3>1 DEF Admitted, Stream
      <4>2. subscribes' = [subscribes EXCEPT ![t] = Admitted(@, i)]  BY <2>1 DEF OnSubscribe
      <4> QED BY <1>2, <4>1, <4>2
    <3>5. /\ desired' = w /\ run' = run /\ acknowledged' = acknowledged
          /\ presses' = presses /\ asserted' = asserted
          /\ ring' = ring \/ ring' = PushMarkerIfNeeded(ring, w)
      BY <2>1 DEF OnSubscribe
    <3>6. Below(ring, w)
      <4>1. \A m \in MarkersOf(ring) : m.epoch \in Nat
        <5> SUFFICES ASSUME NEW j \in DOMAIN ring, IsMarker(ring[j]) PROVE ring[j].epoch \in Nat
          BY DEF MarkersOf
        <5>1. ring[j] \in Slot  BY <1>3
        <5> QED BY <5>1, PayloadIsNoMarker DEF Slot, Assertion
      <4> QED BY <1>3, <3>3, <4>1 DEF Below
    <3>7. /\ ring' \in Seq(Slot) /\ Ascending(ring')
          /\ MarkersOf(ring') \subseteq MarkersOf(ring) \cup {w}
      BY <1>3, <3>3, <3>5, <3>6, MarkerKeeps
    <3> QED BY <1>2, <1>3, <1>4, <3>3, <3>4, <3>5, <3>7, CellsStep
  <2>2. CASE Announce
    <3> DEFINE parks == control = "old" /\ ~isLost /\ OnLoss = "Idle"
               w == IF parks THEN AcceptIfNewer(desired, DeadMan) ELSE desired
               once == IF parks THEN PushMarkerIfNeeded(ring, w) ELSE ring
    <3>1. DeadMan \in Assertion  BY <1>3 DEF DeadMan, Claim, Assertion, States
    <3>2. /\ w \in Assertion /\ w.epoch \in Nat
          /\ w = desired \/ w.epoch > desired.epoch
      BY <1>3, <3>1, AcceptedIsHigher DEF Assertion
    <3>3. Below(ring, w)
      <4>1. \A m \in MarkersOf(ring) : m.epoch \in Nat
        <5> SUFFICES ASSUME NEW j \in DOMAIN ring, IsMarker(ring[j]) PROVE ring[j].epoch \in Nat
          BY DEF MarkersOf
        <5>1. ring[j] \in Slot  BY <1>3
        <5> QED BY <5>1, PayloadIsNoMarker DEF Slot, Assertion
      <4> QED BY <1>3, <3>2, <4>1 DEF Below
    <3>4. /\ once \in Seq(Slot) /\ Ascending(once) /\ Below(once, w)
          /\ MarkersOf(once) \subseteq MarkersOf(ring) \cup {w}
      BY <1>3, <3>2, <3>3, MarkerKeeps
    <3>5. /\ PushMarkerIfNeeded(once, w) \in Seq(Slot)
          /\ Ascending(PushMarkerIfNeeded(once, w))
          /\ MarkersOf(PushMarkerIfNeeded(once, w)) \subseteq MarkersOf(ring) \cup {w}
      BY <3>2, <3>4, MarkerKeeps
    <3>6. /\ desired' = w /\ ring' = PushMarkerIfNeeded(once, w)
          /\ run' = run /\ acknowledged' = acknowledged
          /\ presses' = presses /\ asserted' = asserted /\ subscribes' = subscribes
      BY <2>2 DEF Announce
    <3> HIDE DEF w, once
    <3> QED BY <1>2, <1>3, <1>4, <3>2, <3>5, <3>6, CellsStep
  <2>3. CASE FlushFeeds  BY <1>2, <2>3, CellsStill DEF FlushFeeds
  <2>4. CASE OnPayload
    <3>1. Payload \in Slot /\ ~IsMarker(Payload)  BY PayloadIsNoMarker DEF Slot
    <3>2. /\ PushLink(ring, Payload) \in Seq(Slot) /\ Ascending(PushLink(ring, Payload))
          /\ MarkersOf(PushLink(ring, Payload)) \subseteq MarkersOf(ring)
      BY <1>3, <3>1, PushKeeps
    <3>3. /\ ring' = PushLink(ring, Payload) /\ desired' = desired /\ run' = run
          /\ acknowledged' = acknowledged /\ presses' = presses /\ asserted' = asserted
          /\ subscribes' = subscribes
      BY <2>4 DEF OnPayload
    <3> QED BY <1>2, <1>3, <1>4, <3>2, <3>3, CellsStep
  <2>5. CASE OnRunControl
    <3>1. /\ ring # <<>> /\ IsMarker(Head(ring))
          /\ run' = Head(ring) \/ run' = run
          /\ acknowledged' = run' /\ ring' = Tail(ring) /\ desired' = desired
          /\ presses' = presses /\ asserted' = asserted /\ subscribes' = subscribes
      BY <2>5 DEF OnRunControl
    <3>2. /\ Tail(ring) \in Seq(Slot) /\ Ascending(Tail(ring))
          /\ MarkersOf(Tail(ring)) \subseteq MarkersOf(ring)
          /\ Head(ring) \in MarkersOf(ring)
      BY <1>3, <3>1, PopKeeps
    <3> QED BY <1>2, <1>3, <1>4, <3>1, <3>2, CellsStep
  <2>6. CASE OnLink
    <3>1. /\ ring # <<>> /\ ring' = Tail(ring) /\ desired' = desired /\ run' = run
          /\ acknowledged' = acknowledged /\ presses' = presses /\ asserted' = asserted
          /\ subscribes' = subscribes
      BY <2>6 DEF OnLink
    <3>2. /\ Tail(ring) \in Seq(Slot) /\ Ascending(Tail(ring))
          /\ MarkersOf(Tail(ring)) \subseteq MarkersOf(ring)
      BY <1>3, <3>1, PopKeeps
    <3> QED BY <1>2, <1>3, <1>4, <3>1, <3>2, CellsStep
  <2>7. CASE RestartEngine
    <3>1. Initial \in Assertion /\ Initial.epoch = 0  BY DEF Initial, Assertion, States
    <3>2. MarkersOf(<<>>) = {} /\ Ascending(<<>>)  BY DEF MarkersOf, Ascending
    <3>3. subscribes' \in [Tabs -> Stream(Assertion)]
      <4>1. \A t \in Tabs : Ungated(subscribes[t]) \in Stream(Assertion)
        BY <1>2 DEF Ungated, Stream
      <4> QED BY <2>7, <4>1 DEF RestartEngine
    <3>4. /\ desired' = Initial /\ run' = Initial /\ acknowledged' = Initial /\ ring' = <<>>
          /\ presses' = presses /\ asserted' = asserted
      BY <2>7 DEF RestartEngine
    <3>5. ControlTyped'  BY <1>2, <3>1, <3>3, <3>4 DEF ControlTyped
    <3>6. Held' = {Initial}  BY <3>2, <3>4 DEF Held
    <3> QED BY <3>1, <3>2, <3>4, <3>5, <3>6 DEF ControlInv
  <2> QED BY <1>6, <2>1, <2>2, <2>3, <2>4, <2>5, <2>6, <2>7 DEF EngineStep
<1>7. CASE World
  <2>1. CASE ControlAges  BY <1>2, <2>1, CellsStill DEF ControlAges
  <2>2. ASSUME NEW t \in Tabs, SubscriptionExpires(t) PROVE ControlInv'
    BY <1>2, <2>2, CellsStill DEF SubscriptionExpires
  <2> QED BY <1>7, <2>1, <2>2 DEF World
<1>8. CASE UNCHANGED vars  BY <1>2, <1>8, CellsStill DEF vars
<1> QED BY <1>5, <1>6, <1>7, <1>8 DEF Next

\* In every run of the engine the ring and the hot thread hold only what the desired
\* cell has held, in the order it held it (RunStateCell, push_marker_if_needed).
THEOREM ControlInvariant == Spec => []ControlInv
BY ControlInit, ControlNext, PTL DEF Spec

-----------------------------------------------------------------------------
\* Markers are bounded by what is desired, and two of one epoch are the same: the
\* engine's half of RunStateCell and of on_run_control, for every ring and every tab.
THEOREM EpochNamesOneState == Spec => []OneStatePerEpoch
<1>1. ControlInv => OneStatePerEpoch
  <2> SUFFICES ASSUME ControlInv PROVE OneStatePerEpoch
    OBVIOUS
  <2>1. Markers \cup {desired, acknowledged, run} = Held
    BY DEF Markers, MarkersOf, Held, ControlInv, ControlTyped
  <2> QED BY <2>1 DEF ControlInv, OneStatePerEpoch
<1> QED BY <1>1, ControlInvariant, PTL

\* The hot thread ends on the assertion that won, whatever the ring dropped.
THEOREM MarkersFollow == Spec => []MarkersFollowDesired
<1>1. ControlInv => MarkersFollowDesired
  <2> SUFFICES ASSUME ControlInv PROVE MarkersFollowDesired
    OBVIOUS
  <2>1. Markers \cup {acknowledged, run} \subseteq Held
    BY DEF Markers, MarkersOf, Held, ControlInv, ControlTyped
  <2>2. \A a \in Markers \cup {acknowledged, run} : a.epoch <= desired.epoch
    BY <2>1 DEF ControlInv
  <2>3. Ascending(ring)  BY DEF ControlInv
  <2> QED BY <2>2, <2>3 DEF MarkersFollowDesired, Ascending
<1> QED BY <1>1, ControlInvariant, PTL

\* Cells, hot thread and ring agree on the state of each epoch and on the assertion that
\* won (RunStateCell, push_marker).
THEOREM CellsAlwaysAgree == Spec => []CellsAgree
<1>1. OneStatePerEpoch /\ MarkersFollowDesired => CellsAgree  BY DEF CellsAgree
<1> QED BY <1>1, EpochNamesOneState, MarkersFollow, PTL

\* A step is a restart, or moves each cell and the hot thread only forward.
LEMMA CellsMove ==
  ASSUME ControlInv, [Next]_vars
  PROVE  \/ boot' = boot + 1
         \/ /\ boot' = boot
            /\ Forward(desired, desired') /\ Forward(run, run')
<1> USE DEF tabVars, netVars, cellVars, actorVars, engineVars, Mishap
<1>1. desired \in Assertion /\ desired.epoch \in Nat
  BY DEF ControlInv, ControlTyped, Assertion
<1>2. ASSUME NEW t \in Tabs, TabStep(t)
      PROVE  boot' = boot /\ desired' = desired /\ run' = run
  BY <1>2 DEF TabStep, Press, Refresh, AttachToNextPeer, CloseTab, HearReport, HearBook
<1>3. CASE EngineStep
  <2>1. ASSUME NEW t \in Tabs, NEW i \in DOMAIN subscribes[t].flight, OnSubscribe(t, i)
        PROVE  boot' = boot /\ Forward(desired, desired') /\ run' = run
    <3> DEFINE a == subscribes[t].flight[i]
    <3>1. subscribes[t].flight \in Seq(Assertion)  BY DEF ControlInv, ControlTyped, Stream
    <3>2. a \in Assertion  BY <3>1, <2>1
    <3>3. \/ AcceptIfNewer(desired, a) = desired
          \/ AcceptIfNewer(desired, a).epoch > desired.epoch
      BY <1>1, <3>2, AcceptedIsHigher
    <3>4. boot' = boot /\ run' = run
          /\ desired' = (IF a.epoch = 0 THEN desired ELSE AcceptIfNewer(desired, a))
      BY <2>1 DEF OnSubscribe
    <3> QED BY <3>3, <3>4 DEF Forward
  <2>2. CASE Announce
    <3>1. DeadMan \in Assertion  BY <1>1 DEF DeadMan, Claim, Assertion, States
    <3>2. \/ AcceptIfNewer(desired, DeadMan) = desired
          \/ AcceptIfNewer(desired, DeadMan).epoch > desired.epoch
      BY <1>1, <3>1, AcceptedIsHigher
    <3>3. /\ boot' = boot /\ run' = run
          /\ desired' = desired \/ desired' = AcceptIfNewer(desired, DeadMan)
      BY <2>2 DEF Announce
    <3> QED BY <3>2, <3>3 DEF Forward
  <2>3. CASE FlushFeeds  BY <2>3 DEF FlushFeeds, Forward
  <2>4. CASE OnPayload  BY <2>4 DEF OnPayload, Forward
  <2>5. CASE OnRunControl  BY <2>5 DEF OnRunControl, Forward
  <2>6. CASE OnLink  BY <2>6 DEF OnLink, Forward
  <2>7. CASE RestartEngine  BY <2>7 DEF RestartEngine
  <2> QED BY <1>3, <2>1, <2>2, <2>3, <2>4, <2>5, <2>6, <2>7 DEF EngineStep, Forward
<1>4. CASE World  BY <1>4 DEF World, ControlAges, SubscriptionExpires, Forward
<1>5. CASE UNCHANGED vars  BY <1>5 DEF vars, Forward
<1> QED BY <1>2, <1>3, <1>4, <1>5 DEF Next, Forward

-----------------------------------------------------------------------------
\* Reports that are true of the engine as it is, or are from a run before it.
Truths ==
  {r \in Lifecycle :
     /\ r.boot <= boot
     /\ r.boot = boot => \/ r.epoch < run.epoch
                         \/ r.epoch = run.epoch /\ r.state = run.state}

ReportsInv ==
  /\ boot \in Nat \ {0}
  /\ reports \in [Tabs -> Stream(Truths)]
  /\ reported \in [Tabs -> Truths]

\* A stream over a set is one over any larger set.
LEMMA StreamGrows ==
  ASSUME NEW S, NEW T, S \subseteq T
  PROVE  Stream(S) \subseteq Stream(T)
<1>1. \A q \in Seq(S) : q \in Seq(T)  OBVIOUS
<1> QED BY <1>1 DEF Stream

\* What was true stays true: the engine only moves to higher epochs, and a restart
\* makes every report one of a run before.
LEMMA TruthsGrow ==
  ASSUME ControlInv, ControlInv', ReportsInv, [Next]_vars
  PROVE  Truths \subseteq Truths' /\ boot' \in Nat \ {0}
<1>1. boot \in Nat \ {0}  BY DEF ReportsInv
<1>2. run \in Assertion /\ run.epoch \in Nat /\ run'.epoch \in Nat
  BY DEF ControlInv, ControlTyped, Assertion
<1>3. CASE boot' = boot + 1
  <2>1. \A r \in Truths : r \in Lifecycle /\ r.boot \in Nat /\ r.boot <= boot
    BY DEF Truths, Lifecycle
  <2> QED BY <1>1, <1>3, <2>1 DEF Truths
<1>4. CASE boot' = boot /\ Forward(run, run')
  <2> SUFFICES ASSUME NEW r \in Truths PROVE r \in Truths'
    BY <1>1, <1>4
  <2>1. r \in Lifecycle /\ r.epoch \in Nat  BY DEF Truths, Lifecycle
  <2>2. CASE run' = run  BY <1>4, <2>2 DEF Truths
  <2>3. CASE run'.epoch > run.epoch
    <3>1. r.boot = boot => r.epoch < run'.epoch  BY <1>2, <2>1, <2>3 DEF Truths
    <3> QED BY <1>4, <2>1, <3>1 DEF Truths
  <2> QED BY <1>4, <2>2, <2>3 DEF Forward
<1> QED BY <1>3, <1>4, CellsMove

\* A heartbeat is true when it is sent.
LEMMA ReportIsTrue ==
  ASSUME ControlInv, ReportsInv
  PROVE  Report \in Truths
BY DEF Report, Truths, Lifecycle, ControlInv, ControlTyped, ReportsInv, Assertion

\* A tab that has heard nothing claims nothing.
LEMMA UnheardIsTrue ==
  ASSUME boot \in Nat \ {0}
  PROVE  Unheard \in Truths /\ Empty \in Stream(Truths)
BY DEF Unheard, Truths, Lifecycle, States, Empty, Stream

\* No heartbeat is under way at the start.
LEMMA ReportsInit == Init => ReportsInv
<1> SUFFICES ASSUME Init PROVE ReportsInv
  OBVIOUS
<1>1. boot \in Nat \ {0}  BY DEF Init
<1>2. Unheard \in Truths /\ Empty \in Stream(Truths)  BY <1>1, UnheardIsTrue
<1> QED BY <1>1, <1>2 DEF Init, ReportsInv

\* Every heartbeat under way or held stays true under every action.
LEMMA ReportsNext == ControlInv /\ ControlInv' /\ ReportsInv /\ [Next]_vars => ReportsInv'
<1> SUFFICES ASSUME ControlInv, ControlInv', ReportsInv, [Next]_vars PROVE ReportsInv'
  OBVIOUS
<1> USE DEF tabVars, netVars, cellVars, actorVars, engineVars, Mishap
<1>1. Truths \subseteq Truths' /\ boot' \in Nat \ {0}  BY TruthsGrow
<1>2. /\ reports \in [Tabs -> Stream(Truths)] /\ reported \in [Tabs -> Truths]
      /\ boot \in Nat \ {0}
  BY DEF ReportsInv
<1>3. Report \in Truths /\ Unheard \in Truths /\ Empty \in Stream(Truths)
  BY <1>2, ReportIsTrue, UnheardIsTrue
<1>4. SUFFICES /\ reports' \in [Tabs -> Stream(Truths)]
               /\ reported' \in [Tabs -> Truths]
  <2>1. Stream(Truths) \subseteq Stream(Truths')  BY <1>1, StreamGrows
  <2> QED BY <1>1, <1>4, <2>1 DEF ReportsInv
<1>5. \A t \in Tabs : Send(reports[t], Report) \in Stream(Truths)
  BY <1>2, <1>3, SendTyped
<1>6. ASSUME NEW t \in Tabs, TabStep(t)
      PROVE  reports' \in [Tabs -> Stream(Truths)] /\ reported' \in [Tabs -> Truths]
  <2>1. CASE Press(t)  BY <1>2, <2>1 DEF Press
  <2>2. CASE Refresh(t)  BY <1>2, <2>2 DEF Refresh
  <2>3. CASE AttachToNextPeer(t)  BY <1>2, <1>3, <2>3 DEF AttachToNextPeer
  <2>4. CASE CloseTab(t)  BY <1>2, <2>4 DEF CloseTab
  <2>5. ASSUME NEW i \in DOMAIN reports[t].flight, HearReport(t, i)
        PROVE  reports' \in [Tabs -> Stream(Truths)] /\ reported' \in [Tabs -> Truths]
    <3>1. reports[t].flight \in Seq(Truths) /\ reports[t] \in Stream(Truths)
      BY <1>2 DEF Stream
    <3>2. reports[t].flight[i] \in Truths /\ i \in Nat  BY <3>1, <2>5
    <3>3. Admitted(reports[t], i) \in Stream(Truths)  BY <3>1, <3>2 DEF Admitted, Stream
    <3>4. reports' = [reports EXCEPT ![t] = Admitted(@, i)]  BY <2>5 DEF HearReport
    <3>5. \/ reported' = reported
          \/ reported' = [reported EXCEPT ![t] = reports[t].flight[i]]
      BY <2>5 DEF HearReport
    <3> QED BY <1>2, <3>2, <3>3, <3>4, <3>5
  <2>6. ASSUME NEW i \in DOMAIN books[t].flight, HearBook(t, i)
        PROVE  reports' \in [Tabs -> Stream(Truths)] /\ reported' \in [Tabs -> Truths]
    <3>1. reports' = reports  BY <2>6 DEF HearBook
    <3>2. \/ reported' = reported
          \/ reported' = [reported EXCEPT ![t] = ReportAfter(t, Observe(t, books[t].flight[i]))]
      BY <2>6 DEF HearBook
    <3>3. ReportAfter(t, Observe(t, books[t].flight[i])) \in Truths
      BY <1>2, <1>3 DEF ReportAfter
    <3> QED BY <1>2, <3>1, <3>2, <3>3
  <2> QED BY <1>6, <2>1, <2>2, <2>3, <2>4, <2>5, <2>6 DEF TabStep
<1>7. CASE EngineStep
  <2>1. ASSUME NEW t \in Tabs, NEW i \in DOMAIN subscribes[t].flight, OnSubscribe(t, i)
        PROVE  reports' \in [Tabs -> Stream(Truths)] /\ reported' \in [Tabs -> Truths]
    BY <1>2, <1>5, <2>1 DEF OnSubscribe
  <2>2. CASE Announce  BY <1>2, <1>5, <2>2 DEF Announce
  <2>3. CASE FlushFeeds  BY <1>2, <2>3 DEF FlushFeeds
  <2>4. CASE OnPayload  BY <1>2, <2>4 DEF OnPayload
  <2>5. CASE OnRunControl  BY <1>2, <2>5 DEF OnRunControl
  <2>6. CASE OnLink  BY <1>2, <2>6 DEF OnLink
  <2>7. CASE RestartEngine  BY <1>2, <2>7 DEF RestartEngine
  <2> QED BY <1>7, <2>1, <2>2, <2>3, <2>4, <2>5, <2>6, <2>7 DEF EngineStep
<1>8. CASE World  BY <1>2, <1>8 DEF World, ControlAges, SubscriptionExpires
<1>9. CASE UNCHANGED vars  BY <1>2, <1>9 DEF vars
<1> QED BY <1>6, <1>7, <1>8, <1>9 DEF Next

\* Every heartbeat under way or held is true, or of an earlier run.
LEMMA ReportsInvariant == Spec => []ReportsInv
BY ReportsInit, ReportsNext, ControlInvariant, PTL DEF Spec

\* A stale or duplicate controller cannot make the state oscillate (RunAssertion,
\* accept_if_newer): while the engine runs, no cell goes back or changes at one epoch.
THEOREM NeverOscillates == Spec => NoOscillation
<1>1. ASSUME ControlInv, ControlInv', ReportsInv, [Next]_vars
      PROVE  [boot' = boot => /\ Forward(desired, desired')
                              /\ Forward(acknowledged, acknowledged')
                              /\ Forward(run, run')]_vars
  <2>1. acknowledged = run /\ acknowledged' = run'
    BY <1>1 DEF ControlInv, ControlTyped
  <2>2. boot' = boot + 1 => boot' # boot  BY <1>1 DEF ReportsInv
  <2> QED BY <1>1, <2>1, <2>2, CellsMove
<1> QED BY <1>1, ControlInvariant, ReportsInvariant, PTL DEF Spec, NoOscillation

\* What the control chip says is true of the hot thread (Controller::verdict over
\* Actor::lifecycle), however the network repeats, reorders and drops the reports.
THEOREM VerdictsAreHonest == Spec => []VerdictIsHonest
<1>1. ControlInv /\ ReportsInv => VerdictIsHonest
  <2> SUFFICES ASSUME ControlInv, ReportsInv, NEW t \in Tabs,
                      asserted[t] # None, Heard(t), reported[t].boot = boot
               PROVE  /\ Verdict(t) = "Applied" => \/ run = TabAssertion(t)
                                                   \/ run.epoch > TabAssertion(t).epoch
                      /\ Verdict(t) = "Lost" => run.epoch > TabAssertion(t).epoch
    BY DEF VerdictIsHonest
  <2>1. TabAssertion(t) \in Assertion /\ TabAssertion(t).state = asserted[t]
    BY ClaimTyped DEF ControlInv, TabAssertion, Claim
  <2>2. run \in Assertion /\ run.epoch \in Nat /\ TabAssertion(t).epoch \in Nat
    BY <2>1 DEF ControlInv, ControlTyped, Assertion
  <2>3. /\ reported[t].epoch \in Nat
        /\ \/ reported[t].epoch < run.epoch
           \/ reported[t].epoch = run.epoch /\ reported[t].state = run.state
    BY DEF ReportsInv, Truths, Lifecycle
  <2>4. ASSUME Verdict(t) = "Applied"
        PROVE  run = TabAssertion(t) \/ run.epoch > TabAssertion(t).epoch
    <3>1. reported[t].epoch = TabAssertion(t).epoch /\ reported[t].state = asserted[t]
      BY <2>2, <2>3, <2>4 DEF Verdict
    <3> QED BY <2>1, <2>2, <2>3, <3>1 DEF Assertion
  <2>5. ASSUME Verdict(t) = "Lost" PROVE run.epoch > TabAssertion(t).epoch
    <3>1. reported[t].epoch > TabAssertion(t).epoch  BY <2>5 DEF Verdict
    <3> QED BY <2>2, <2>3, <3>1
  <2> QED BY <2>4, <2>5
<1> QED BY <1>1, ControlInvariant, ReportsInvariant, PTL

-----------------------------------------------------------------------------
ViewInv ==
  /\ runSeen \in [Tabs -> Nat] /\ DOMAIN reported = Tabs
  /\ books \in [Tabs -> Stream(Nat)]
  /\ \A t \in Tabs : reported[t].boot \in {0, runSeen[t]}

\* A tab starts with no run and no report.
LEMMA ViewInit == Init => ViewInv
BY DEF Init, ViewInv, Unheard, Empty, Stream

\* A tab's report is of the run it holds, under every action.
LEMMA ViewNext == ReportsInv /\ ReportsInv' /\ ViewInv /\ [Next]_vars => ViewInv'
<1> SUFFICES ASSUME ReportsInv, ReportsInv', ViewInv, [Next]_vars PROVE ViewInv'
  OBVIOUS
<1> USE DEF tabVars, netVars, cellVars, actorVars, engineVars, Mishap
<1>1. /\ runSeen \in [Tabs -> Nat] /\ books \in [Tabs -> Stream(Nat)]
      /\ \A t \in Tabs : reported[t].boot \in {0, runSeen[t]}
      /\ DOMAIN reported = Tabs /\ DOMAIN reported' = Tabs
      /\ boot \in Nat
  BY DEF ViewInv, ReportsInv
<1>2. Empty \in Stream(Nat) /\ Unheard.boot = 0  BY DEF Empty, Stream, Unheard
<1>3. ASSUME runSeen' = runSeen, reported' = reported, books' \in [Tabs -> Stream(Nat)]
      PROVE  ViewInv'
  BY <1>1, <1>3 DEF ViewInv
<1>4. ASSUME NEW t \in Tabs, TabStep(t) PROVE ViewInv'
  <2>1. CASE Press(t)  BY <1>1, <1>3, <2>1 DEF Press
  <2>2. CASE Refresh(t)  BY <1>1, <1>3, <2>2 DEF Refresh
  <2>3. CASE AttachToNextPeer(t)
    <3>1. runSeen' \in [Tabs -> Nat] /\ books' \in [Tabs -> Stream(Nat)]
      BY <1>1, <1>2, <2>3 DEF AttachToNextPeer
    <3>2. \A u \in Tabs : reported'[u].boot \in {0, runSeen'[u]}
      BY <1>1, <1>2, <2>3 DEF AttachToNextPeer
    <3> QED BY <1>1, <3>1, <3>2 DEF ViewInv
  <2>4. CASE CloseTab(t)  BY <1>1, <1>3, <2>4 DEF CloseTab
  <2>5. ASSUME NEW i \in DOMAIN reports[t].flight, HearReport(t, i) PROVE ViewInv'
    <3> DEFINE frame == reports[t].flight[i]
    <3>1. reports[t].flight \in Seq(Truths)  BY DEF ReportsInv, Stream
    <3>2. frame \in Truths  BY <3>1, <2>5
    <3>3. frame.boot \in Nat  BY <3>2 DEF Truths, Lifecycle
    <3>4. books' = books  BY <2>5 DEF HearReport
    <3>5. \/ runSeen' = runSeen /\ reported' = reported
          \/ /\ runSeen' = [runSeen EXCEPT ![t] = frame.boot]
             /\ reported' = [reported EXCEPT ![t] = frame]
      BY <2>5 DEF HearReport
    <3> HIDE DEF frame
    <3>6. runSeen' \in [Tabs -> Nat]  BY <1>1, <3>3, <3>5
    <3>7. \A u \in Tabs : reported'[u].boot \in {0, runSeen'[u]}  BY <1>1, <3>5
    <3> QED BY <1>1, <3>4, <3>6, <3>7 DEF ViewInv
  <2>6. ASSUME NEW i \in DOMAIN books[t].flight, HearBook(t, i) PROVE ViewInv'
    <3> DEFINE sender == books[t].flight[i]
    <3>1. books[t].flight \in Seq(Nat) /\ books[t] \in Stream(Nat)  BY <1>1 DEF Stream
    <3>2. sender \in Nat /\ i \in Nat  BY <3>1, <2>6
    <3>3. Admitted(books[t], i) \in Stream(Nat)  BY <3>1, <3>2 DEF Admitted, Stream
    <3>4. books' \in [Tabs -> Stream(Nat)]  BY <1>1, <3>3, <2>6 DEF HearBook
    <3>5. CASE Observe(t, sender) = "Stale"  BY <1>3, <2>6, <3>4, <3>5 DEF HearBook
    <3>6. CASE Observe(t, sender) # "Stale"
      <4>1. /\ runSeen' = [runSeen EXCEPT ![t] = sender]
            /\ reported' = [reported EXCEPT ![t] = ReportAfter(t, Observe(t, sender))]
        BY <2>6, <3>6 DEF HearBook
      <4>2. ReportAfter(t, Observe(t, sender)).boot \in {0, sender}
        <5>1. CASE Observe(t, sender) = "Restarted"  BY <1>2, <5>1 DEF ReportAfter
        <5>2. CASE Observe(t, sender) # "Restarted"
          <6>1. runSeen[t] = 0 \/ sender = runSeen[t]  BY <3>6, <5>2 DEF Observe
          <6> QED BY <1>1, <5>2, <6>1 DEF ReportAfter
        <5> QED BY <5>1, <5>2
      <4> HIDE DEF sender
      <4>3. runSeen' \in [Tabs -> Nat]  BY <1>1, <3>2, <4>1
      <4>4. \A u \in Tabs : reported'[u].boot \in {0, runSeen'[u]}  BY <1>1, <4>1, <4>2
      <4> QED BY <1>1, <3>4, <4>3, <4>4 DEF ViewInv
    <3> QED BY <3>5, <3>6
  <2> QED BY <1>4, <2>1, <2>2, <2>3, <2>4, <2>5, <2>6 DEF TabStep
<1>5. CASE EngineStep
  <2>1. ASSUME NEW t \in Tabs, NEW i \in DOMAIN subscribes[t].flight, OnSubscribe(t, i)
        PROVE  ViewInv'
    BY <1>1, <1>3, <2>1 DEF OnSubscribe
  <2>2. CASE Announce  BY <1>1, <1>3, <2>2 DEF Announce
  <2>3. CASE FlushFeeds
    <3>1. \A t \in Tabs : Send(books[t], boot) \in Stream(Nat)  BY <1>1, SendTyped
    <3> QED BY <1>1, <1>3, <2>3, <3>1 DEF FlushFeeds
  <2>4. CASE OnPayload  BY <1>1, <1>3, <2>4 DEF OnPayload
  <2>5. CASE OnRunControl  BY <1>1, <1>3, <2>5 DEF OnRunControl
  <2>6. CASE OnLink  BY <1>1, <1>3, <2>6 DEF OnLink
  <2>7. CASE RestartEngine  BY <1>1, <1>3, <2>7 DEF RestartEngine
  <2> QED BY <1>5, <2>1, <2>2, <2>3, <2>4, <2>5, <2>6, <2>7 DEF EngineStep
<1>6. CASE World  BY <1>1, <1>3, <1>6 DEF World, ControlAges, SubscriptionExpires
<1>7. CASE UNCHANGED vars  BY <1>1, <1>3, <1>7 DEF vars
<1> QED BY <1>4, <1>5, <1>6, <1>7 DEF Next

\* A tab never shows what an earlier run reported beside a run it has heard since
\* (begin_engine_run, RemoteRunGate::observe).
THEOREM ReportsAreOfThisRun == Spec => []ReportIsOfThisRun
<1>1. ViewInv => ReportIsOfThisRun  BY DEF ViewInv, ReportIsOfThisRun, Heard
<1>2. Spec => []ViewInv
  BY ViewInit, ViewNext, ReportsInvariant, PTL DEF Spec
<1> QED BY <1>1, <1>2, PTL

\* What a tab shows is true, and of one run of the engine (link_session.rs, link_model.rs).
THEOREM TabsAreHonest == Spec => []TabIsHonest
<1>1. VerdictIsHonest /\ ReportIsOfThisRun => TabIsHonest  BY DEF TabIsHonest
<1> QED BY <1>1, VerdictsAreHonest, ReportsAreOfThisRun, PTL

\* An engine that gave its controller up wants to be parked: the switch asserts one above
\* whatever was accepted, and only an assertion that was heard takes the loss back
\* (check_controller, on_subscribe).
THEOREM LossAsksForIdle == Spec => []LostIsIdle
<1>1. Init => LostIsIdle  BY DEF Init, LostIsIdle
<1>2. ControlInv /\ LostIsIdle /\ [Next]_vars => LostIsIdle'
  <2> SUFFICES ASSUME ControlInv, LostIsIdle, [Next]_vars, OnLoss = "Idle", isLost'
               PROVE  desired'.state = "Idle"
    BY DEF LostIsIdle
  <2> USE DEF tabVars, netVars, cellVars, actorVars, engineVars, Mishap
  <2>1. desired.epoch \in Nat  BY DEF ControlInv, ControlTyped, Assertion
  <2>2. ASSUME desired' = desired, isLost' = isLost PROVE desired'.state = "Idle"
    BY <2>2 DEF LostIsIdle
  <2>3. ASSUME NEW t \in Tabs, TabStep(t) PROVE desired'.state = "Idle"
    BY <2>2, <2>3 DEF TabStep, Press, Refresh, AttachToNextPeer, CloseTab, HearReport, HearBook
  <2>4. CASE EngineStep
    <3>1. ASSUME NEW t \in Tabs, NEW i \in DOMAIN subscribes[t].flight, OnSubscribe(t, i)
          PROVE  desired'.state = "Idle"
      BY <2>2, <3>1 DEF OnSubscribe
    <3>2. CASE Announce
      <4>1. CASE control = "old" /\ ~isLost
        <5>1. desired' = AcceptIfNewer(desired, DeadMan)  BY <3>2, <4>1 DEF Announce
        <5>2. AcceptIfNewer(desired, DeadMan) = Claim("Idle", desired.epoch + 1)
          BY <2>1 DEF AcceptIfNewer, DeadMan, Claim
        <5> QED BY <5>1, <5>2 DEF Claim
      <4>2. CASE ~(control = "old" /\ ~isLost)
        <5>1. desired' = desired  BY <3>2, <4>2 DEF Announce
        <5>2. isLost  BY <3>2, <4>2 DEF Announce
        <5> QED BY <5>1, <5>2 DEF LostIsIdle
      <4> QED BY <4>1, <4>2
    <3>3. CASE FlushFeeds  BY <2>2, <3>3 DEF FlushFeeds
    <3>4. CASE OnPayload  BY <2>2, <3>4 DEF OnPayload
    <3>5. CASE OnRunControl  BY <2>2, <3>5 DEF OnRunControl
    <3>6. CASE OnLink  BY <2>2, <3>6 DEF OnLink
    <3>7. CASE RestartEngine  BY <3>7 DEF RestartEngine
    <3> QED BY <2>4, <3>1, <3>2, <3>3, <3>4, <3>5, <3>6, <3>7 DEF EngineStep
  <2>5. CASE World  BY <2>2, <2>5 DEF World, ControlAges, SubscriptionExpires
  <2>6. CASE UNCHANGED vars  BY <2>2, <2>6 DEF vars
  <2> QED BY <2>3, <2>4, <2>5, <2>6 DEF Next
<1> QED BY <1>1, <1>2, ControlInvariant, PTL DEF Spec
-----------------------------------------------------------------------------
(***************************************************************************)
(* The order of the heartbeats, and the bounds                             *)
(***************************************************************************)
\* One heartbeat is of an earlier run of the engine, or acknowledges no more.
Before(a, b) == a.boot < b.boot \/ (a.boot = b.boot /\ a.epoch <= b.epoch)

\* The heartbeats in flight are in the order the engine sent them.
Chronicle(link) ==
  \A i, j \in DOMAIN link.flight : i < j => Before(link.flight[i], link.flight[j])

\* What a gate still admits is no older than what the tab has taken.
NewsAfter(link, taken) ==
  \A i \in DOMAIN link.flight : i > link.stale => Before(taken, link.flight[i])

OrderInv == \A t \in Tabs : Chronicle(reports[t]) /\ NewsAfter(reports[t], reported[t])

\* Whatever is under way was sent before what the engine would report now.
LEMMA ReportIsLast ==
  ASSUME ControlInv, ReportsInv
  PROVE  \A r \in Truths : Before(r, Report)
<1> SUFFICES ASSUME NEW r \in Truths PROVE Before(r, Report)
  OBVIOUS
<1>1. /\ r.boot \in Nat /\ r.epoch \in Nat /\ r.boot <= boot
      /\ r.boot = boot => r.epoch <= run.epoch
  BY DEF Truths, Lifecycle, ReportsInv, ControlInv, ControlTyped, Assertion
<1>2. Report.boot = boot /\ Report.epoch = run.epoch /\ boot \in Nat
  BY DEF Report, ControlInv, ControlTyped, ReportsInv
<1> QED BY <1>1, <1>2 DEF Before

\* A stream that sends what is no older than anything it holds stays in order.
LEMMA SendInOrder ==
  ASSUME NEW S, NEW link \in Stream(S), NEW d \in S, NEW taken,
         \A r \in S : Before(r, d),
         taken \in S, Chronicle(link), NewsAfter(link, taken)
  PROVE  Chronicle(Send(link, d)) /\ NewsAfter(Send(link, d), taken)
<1> DEFINE q == link.flight
<1>1. q \in Seq(S) /\ link.stale \in Nat /\ DOMAIN q = 1..Len(q) /\ Len(q) \in Nat
  BY DEF Stream
<1>2. CASE Len(q) < MaxFlight
  <2> DEFINE p == Append(q, d)
  <2>1. Send(link, d).flight = p /\ Send(link, d).stale = link.stale
    BY <1>2 DEF Send, Stream
  <2>2. /\ DOMAIN p = 1..Len(q) + 1 /\ p[Len(q) + 1] = d
        /\ \A i \in 1..Len(q) : p[i] = q[i] /\ q[i] \in S
    BY <1>1
  <2>3. \A i, j \in 1..Len(q) : i < j => Before(q[i], q[j])
    BY <1>1 DEF Chronicle
  <2>4. \A i \in 1..Len(q) : i > link.stale => Before(taken, q[i])
    BY <1>1 DEF NewsAfter
  <2> HIDE DEF p, q
  <2>5. \A i, j \in 1..Len(q) + 1 : i < j => Before(p[i], p[j])
    <3> SUFFICES ASSUME NEW i \in 1..Len(q) + 1, NEW j \in 1..Len(q) + 1, i < j
                 PROVE  Before(p[i], p[j])
      OBVIOUS
    <3>1. i \in 1..Len(q) BY <1>1
    <3>2. CASE j = Len(q) + 1 BY <2>2, <3>1, <3>2
    <3>3. CASE j \in 1..Len(q) BY <2>2, <2>3, <3>1, <3>3
    <3> QED BY <1>1, <3>2, <3>3
  <2>6. \A i \in 1..Len(q) + 1 : i > link.stale => Before(taken, p[i])
    <3> SUFFICES ASSUME NEW i \in 1..Len(q) + 1, i > link.stale PROVE Before(taken, p[i])
      OBVIOUS
    <3>1. CASE i = Len(q) + 1 BY <2>2, <3>1
    <3>2. CASE i \in 1..Len(q) BY <2>2, <2>4, <3>2
    <3> QED BY <1>1, <3>1, <3>2
  <2> QED BY <2>1, <2>2, <2>5, <2>6 DEF Chronicle, NewsAfter
<1>3. CASE ~(Len(q) < MaxFlight)
  <2> DEFINE p == Append(Tail(q), d)
             s == IF link.stale = 0 THEN 0 ELSE link.stale - 1
  <2>1. Send(link, d).flight = p /\ Send(link, d).stale = s
    BY <1>3 DEF Send
  <2>2. Len(q) \in Nat \ {0} /\ q # <<>>
    BY <1>1, <1>3, ControlAssumption
  <2>3. /\ DOMAIN p = 1..Len(q) /\ p[Len(q)] = d
        /\ \A i \in 1..Len(q) - 1 : p[i] = q[i + 1]
    BY <1>1, <2>2
  <2>4. \A i, j \in 1..Len(q) : i < j => Before(q[i], q[j])
    BY <1>1 DEF Chronicle
  <2>5. \A i \in 1..Len(q) : q[i] \in S /\ (i > link.stale => Before(taken, q[i]))
    BY <1>1 DEF NewsAfter
  <2> HIDE DEF p, q
  <2>6. \A i, j \in 1..Len(q) : i < j => Before(p[i], p[j])
    <3> SUFFICES ASSUME NEW i \in 1..Len(q), NEW j \in 1..Len(q), i < j
                 PROVE  Before(p[i], p[j])
      OBVIOUS
    <3>1. i \in 1..Len(q) - 1 /\ i + 1 \in 1..Len(q) BY <2>2
    <3>2. CASE j = Len(q) BY <2>3, <2>5, <3>1, <3>2
    <3>3. CASE j # Len(q)
      <4>1. j \in 1..Len(q) - 1 /\ j + 1 \in 1..Len(q) /\ i + 1 < j + 1 BY <2>2, <3>3
      <4> QED BY <2>3, <2>4, <3>1, <4>1
    <3> QED BY <3>2, <3>3
  <2>7. \A i \in 1..Len(q) : i > s => Before(taken, p[i])
    <3> SUFFICES ASSUME NEW i \in 1..Len(q), i > s PROVE Before(taken, p[i])
      OBVIOUS
    <3>1. CASE i = Len(q) BY <2>3, <3>1
    <3>2. CASE i # Len(q)
      <4>1. i \in 1..Len(q) - 1 /\ i + 1 \in 1..Len(q) BY <2>2, <3>2
      <4>2. i + 1 > link.stale
        <5> DEFINE k == link.stale
        <5>1. i > (IF k = 0 THEN 0 ELSE k - 1) /\ k \in Nat BY <1>1
        <5> HIDE DEF k
        <5>2. i + 1 > k BY <5>1
        <5> QED BY <5>2 DEF k
      <4> QED BY <2>3, <2>5, <4>1, <4>2
    <3> QED BY <3>1, <3>2
  <2> HIDE DEF s
  <2> QED BY <2>1, <2>3, <2>6, <2>7 DEF Chronicle, NewsAfter
<1> QED BY <1>2, <1>3

\* What a step may do to one tab's heartbeats and to the last it took.
Still(t)  == reports'[t] = reports[t] /\ reported'[t] = reported[t]
Sent(t)   == reports'[t] = Send(reports[t], Report) /\ reported'[t] = reported[t]
Forgot(t) == reports'[t] \in {reports[t], Empty} /\ reported'[t] = Unheard
Took(t, i) ==
  /\ Admits(reports[t], i)
  /\ reports'[t] = Admitted(reports[t], i)
  /\ reported'[t] \in {reported[t], reports[t].flight[i]}

\* Every step does one of these to each tab.
LEMMA HeartbeatSteps ==
  ASSUME ReportsInv, [Next]_vars, NEW u \in Tabs
  PROVE  Still(u) \/ Sent(u) \/ Forgot(u) \/ \E i \in DOMAIN reports[u].flight : Took(u, i)
<1> USE DEF tabVars, netVars, cellVars, actorVars, engineVars, Mishap
<1>1. reports \in [Tabs -> Stream(Truths)] /\ reported \in [Tabs -> Truths]
  BY DEF ReportsInv
<1>2. ASSUME NEW t \in Tabs, TabStep(t)
      PROVE  Still(u) \/ Forgot(u) \/ \E i \in DOMAIN reports[u].flight : Took(u, i)
  <2>1. CASE Press(t) BY <2>1 DEF Press, Still
  <2>2. CASE Refresh(t) BY <2>2 DEF Refresh, Still
  <2>3. CASE AttachToNextPeer(t)
    <3>1. CASE u = t BY <1>1, <2>3, <3>1 DEF AttachToNextPeer, Forgot
    <3>2. CASE u # t BY <1>1, <2>3, <3>2 DEF AttachToNextPeer, Still
    <3> QED BY <3>1, <3>2
  <2>4. CASE CloseTab(t) BY <2>4 DEF CloseTab, Still
  <2>5. ASSUME NEW i \in DOMAIN reports[t].flight, HearReport(t, i)
        PROVE  Still(u) \/ \E k \in DOMAIN reports[u].flight : Took(u, k)
    <3>1. /\ Admits(reports[t], i) /\ reports' = [reports EXCEPT ![t] = Admitted(@, i)]
          /\ \/ reported' = reported
             \/ reported' = [reported EXCEPT ![t] = reports[t].flight[i]]
      BY <2>5 DEF HearReport
    <3>2. CASE u = t
      <4>1. Took(u, i) BY <1>1, <3>1, <3>2 DEF Took
      <4> QED BY <2>5, <3>2, <4>1
    <3>3. CASE u # t BY <1>1, <3>1, <3>3 DEF Still
    <3> QED BY <3>2, <3>3
  <2>6. ASSUME NEW i \in DOMAIN books[t].flight, HearBook(t, i)
        PROVE  Still(u) \/ Forgot(u)
    <3>1. /\ reports' = reports
          /\ \/ reported' = reported
             \/ reported' = [reported EXCEPT ![t] = ReportAfter(t, Observe(t, books[t].flight[i]))]
      BY <2>6 DEF HearBook
    <3>2. ReportAfter(t, Observe(t, books[t].flight[i])) \in {Unheard, reported[t]}
      BY DEF ReportAfter
    <3> QED BY <1>1, <3>1, <3>2 DEF Still, Forgot
  <2> QED BY <1>2, <2>1, <2>2, <2>3, <2>4, <2>5, <2>6 DEF TabStep
<1>3. CASE EngineStep
  <2>1. ASSUME NEW t \in Tabs, NEW i \in DOMAIN subscribes[t].flight, OnSubscribe(t, i)
        PROVE  Still(u) \/ Sent(u)
    BY <1>1, <2>1 DEF OnSubscribe, Still, Sent
  <2>2. CASE Announce BY <2>2 DEF Announce, Still, Sent
  <2>3. CASE FlushFeeds BY <2>3 DEF FlushFeeds, Still
  <2>4. CASE OnPayload BY <2>4 DEF OnPayload, Still
  <2>5. CASE OnRunControl BY <2>5 DEF OnRunControl, Still
  <2>6. CASE OnLink BY <2>6 DEF OnLink, Still
  <2>7. CASE RestartEngine BY <2>7 DEF RestartEngine, Still
  <2> QED BY <1>3, <2>1, <2>2, <2>3, <2>4, <2>5, <2>6, <2>7 DEF EngineStep
<1>4. CASE World BY <1>4 DEF World, ControlAges, SubscriptionExpires, Still
<1>5. CASE UNCHANGED vars BY <1>5 DEF vars, Still
<1> QED BY <1>2, <1>3, <1>4, <1>5 DEF Next

\* The heartbeats stay in order, and a gate lets nothing older through.
LEMMA OrderNext == ControlInv /\ ReportsInv /\ OrderInv /\ [Next]_vars => OrderInv'
<1> SUFFICES ASSUME ControlInv, ReportsInv, OrderInv, [Next]_vars, NEW t \in Tabs
             PROVE  Chronicle(reports'[t]) /\ NewsAfter(reports'[t], reported'[t])
  BY DEF OrderInv
<1>1. /\ reports[t] \in Stream(Truths) /\ reported[t] \in Truths
      /\ Chronicle(reports[t]) /\ NewsAfter(reports[t], reported[t])
  BY DEF ReportsInv, OrderInv
<1>2. CASE Still(t) BY <1>1, <1>2 DEF Still
<1>3. CASE Sent(t)
  <2>1. Report \in Truths /\ \A r \in Truths : Before(r, Report)
    BY ReportIsTrue, ReportIsLast
  <2> QED BY <1>1, <1>3, <2>1, SendInOrder DEF Sent
<1>4. CASE Forgot(t)
  <2>1. \A r \in Truths : Before(Unheard, r)
    BY DEF Truths, Lifecycle, Before, Unheard
  <2>2. \A i \in DOMAIN reports[t].flight : reports[t].flight[i] \in Truths
    BY <1>1 DEF Stream
  <2>3. CASE reports'[t] = Empty BY <2>3 DEF Empty, Chronicle, NewsAfter
  <2>4. CASE reports'[t] = reports[t]
    BY <1>1, <1>4, <2>1, <2>2, <2>4 DEF Forgot, NewsAfter
  <2> QED BY <1>4, <2>3, <2>4 DEF Forgot
<1>5. ASSUME NEW i \in DOMAIN reports[t].flight, Took(t, i)
      PROVE  Chronicle(reports'[t]) /\ NewsAfter(reports'[t], reported'[t])
  <2> DEFINE q == reports[t].flight
  <2>1. reports'[t].flight = q /\ reports'[t].stale = i
    BY <1>1, <1>5 DEF Took, Admitted, Stream
  <2>2. reports[t].stale \in Nat /\ q \in Seq(Truths) /\ i > reports[t].stale /\ i \in Nat
    BY <1>1, <1>5 DEF Took, Admits, Stream
  <2>3. \A j \in DOMAIN q : j > i => Before(q[i], q[j]) /\ Before(reported[t], q[j])
    BY <1>1, <2>2 DEF Chronicle, NewsAfter
  <2>4. Chronicle(reports'[t]) BY <1>1, <2>1 DEF Chronicle
  <2>5. reported'[t] \in {reported[t], q[i]} BY <1>5 DEF Took
  <2>6. NewsAfter(reports'[t], reported'[t]) BY <2>1, <2>3, <2>5 DEF NewsAfter
  <2> QED BY <2>4, <2>6
<1> QED BY <1>2, <1>3, <1>4, <1>5, HeartbeatSteps

\* No heartbeat is under way at the start.
LEMMA OrderInit == Init => OrderInv
<1>1. Chronicle(Empty) /\ \A r : NewsAfter(Empty, r)
  BY DEF Empty, Chronicle, NewsAfter
<1>2. Init => \A t \in Tabs : reports[t] = Empty
  BY DEF Init
<1> QED BY <1>1, <1>2 DEF OrderInv

\* They are so in every behaviour.
LEMMA OrderInvariant == Spec => [](ControlInv /\ ReportsInv /\ ViewInv /\ OrderInv)
<1>1. Spec => []ViewInv
  BY ViewInit, ViewNext, ReportsInvariant, PTL DEF Spec
<1> QED BY <1>1, OrderInit, OrderNext, ControlInvariant, ReportsInvariant, PTL DEF Spec

\* The bounds of what no other invariant speaks of.
BoundInv ==
  /\ place \in [Tabs -> {"here", "away", "closed"}]
  /\ presses \in [Tabs -> 0..MaxPresses]
  /\ boot \in 1..mishaps + 1 /\ mishaps \in 0..MaxMishaps
  /\ runSeen \in [Tabs -> 0..boot]
  /\ books \in [Tabs -> Stream(0..boot)]
  /\ \A t \in Tabs : Bounded(subscribes[t]) /\ Bounded(reports[t]) /\ Bounded(books[t])
  /\ Len(ring) <= RingSize
  /\ subscribers \subseteq Tabs
  /\ control \in {"never", "recent", "old"} /\ isLost \in BOOLEAN

\* A stream never holds more than the network does, nor counts more stale than it holds.
LEMMA SendBounded ==
  ASSUME NEW S, NEW link \in Stream(S), NEW d \in S, Bounded(link)
  PROVE  Bounded(Send(link, d))
<1> DEFINE q == link.flight
           k == link.stale
<1>1. q \in Seq(S) /\ k \in Nat /\ Len(q) \in Nat /\ Len(q) <= MaxFlight /\ k <= Len(q)
  BY DEF Stream, Bounded
<1>2. MaxFlight \in Nat \ {0}
  BY ControlAssumption
<1>3. CASE Len(q) < MaxFlight
  <2>1. Send(link, d).flight = Append(q, d) /\ Send(link, d).stale = k
    BY <1>3 DEF Send, Stream
  <2>2. Len(Append(q, d)) = Len(q) + 1
    BY <1>1
  <2> HIDE DEF q, k
  <2>3. Len(q) + 1 <= MaxFlight /\ k \in 0..Len(q) + 1
    BY <1>1, <1>2, <1>3
  <2> QED BY <2>1, <2>2, <2>3 DEF Bounded
<1>4. CASE ~(Len(q) < MaxFlight)
  <2>1. Send(link, d).flight = Append(Tail(q), d) /\ Send(link, d).stale = IF k = 0 THEN 0 ELSE k - 1
    BY <1>4 DEF Send
  <2>2. q # <<>>
    BY <1>1, <1>2, <1>4
  <2>3. Len(Append(Tail(q), d)) = Len(q)
    BY <1>1, <2>2
  <2> HIDE DEF q, k
  <2>4. (IF k = 0 THEN 0 ELSE k - 1) \in 0..Len(q)
    BY <1>1
  <2> QED BY <1>1, <2>1, <2>3, <2>4 DEF Bounded
<1> QED BY <1>3, <1>4

\* Nor does one whose gate has admitted a datagram of it, or is new.
LEMMA GateBounded ==
  ASSUME NEW S, NEW link \in Stream(S), Bounded(link)
  PROVE  /\ \A i \in DOMAIN link.flight : Bounded(Admitted(link, i)) /\ Admitted(link, i) \in Stream(S)
         /\ Bounded(Ungated(link)) /\ Bounded(Empty) /\ Empty \in Stream(S)
<1>1. link.flight \in Seq(S) /\ DOMAIN link.flight = 1..Len(link.flight) /\ Len(link.flight) \in Nat
  BY DEF Stream
<1>2. \A i \in DOMAIN link.flight : Bounded(Admitted(link, i)) /\ Admitted(link, i) \in Stream(S)
  BY <1>1 DEF Bounded, Admitted, Stream
<1>3. Bounded(Ungated(link))
  BY <1>1 DEF Bounded, Ungated, Stream
<1>4. Bounded(Empty) /\ Empty \in Stream(S)
  BY ControlAssumption DEF Bounded, Empty, Stream
<1> QED BY <1>2, <1>3, <1>4

\* A ring drops what it has no slot for.
LEMMA RingBounded ==
  ASSUME NEW q \in Seq(Slot), NEW m \in Slot, Len(q) <= RingSize
  PROVE  Len(PushLink(q, m)) <= RingSize
<1>1. RingSize \in Nat \ {0} /\ Len(q) \in Nat /\ Len(Append(q, m)) = Len(q) + 1
  BY ControlAssumption
<1> QED BY <1>1 DEF PushLink

\* The bounds hold at the start.
LEMMA BoundInit == Init => BoundInv
<1>1. \A S : Empty \in Stream(S)
  BY DEF Empty, Stream
<1>3. Init => books \in [Tabs -> Stream(0..boot)]
  BY <1>1 DEF Init
<1>4. Init => Len(ring) <= RingSize
  BY ControlAssumption DEF Init
<1>5. Init => \A t \in Tabs : Bounded(subscribes[t]) /\ Bounded(reports[t]) /\ Bounded(books[t])
  <2> SUFFICES ASSUME Init, NEW t \in Tabs
               PROVE  Bounded(subscribes[t]) /\ Bounded(reports[t]) /\ Bounded(books[t])
    OBVIOUS
  <2>1. subscribes[t] = Empty /\ reports[t] = Empty /\ books[t] = Empty
    BY DEF Init
  <2>2. Bounded(Empty)
    BY ControlAssumption DEF Bounded, Empty
  <2> QED BY <2>1, <2>2
<1>6. Init => /\ place \in [Tabs -> {"here", "away", "closed"}]
              /\ presses \in [Tabs -> 0..MaxPresses]
              /\ boot \in 1..mishaps + 1 /\ mishaps \in 0..MaxMishaps
              /\ runSeen \in [Tabs -> 0..boot]
              /\ subscribers \subseteq Tabs
              /\ control \in {"never", "recent", "old"} /\ isLost \in BOOLEAN
  <2>1. MaxPresses \in Nat /\ MaxMishaps \in Nat
    BY ControlAssumption
  <2>2. 0 \in 0..MaxPresses /\ 0 \in 0..MaxMishaps /\ 1 \in 1..0 + 1 /\ 0 \in 0..1
    BY <2>1
  <2> QED BY <2>2 DEF Init
<1> QED BY <1>3, <1>4, <1>5, <1>6 DEF BoundInv

\* What is in flight to the engine stays within the network's bounds.
LEMMA SubscribesBounded ==
  ASSUME ControlInv, BoundInv, [Next]_vars, NEW u \in Tabs
  PROVE  Bounded(subscribes'[u])
<1> USE DEF tabVars, netVars, cellVars, actorVars, engineVars, Mishap
<1>1. ControlTyped /\ subscribes \in [Tabs -> Stream(Assertion)] /\ subscribes[u] \in Stream(Assertion)
      /\ Bounded(subscribes[u])
  BY DEF ControlInv, ControlTyped, BoundInv
<1>2. ASSUME subscribes' = subscribes PROVE Bounded(subscribes'[u])
  BY <1>1, <1>2
<1>3. ASSUME NEW t \in Tabs, NEW a \in Assertion, SubscribeWith(t, a) PROVE Bounded(subscribes'[u])
  <2>1. Bounded(Send(subscribes[u], a))
    BY <1>1, SendBounded
  <2> QED BY <1>1, <1>3, <2>1 DEF SubscribeWith
<1>4. ASSUME NEW t \in Tabs, TabStep(t) PROVE Bounded(subscribes'[u])
  <2>1. CASE Press(t)
    BY <1>1, <1>3, <2>1, ClaimTyped DEF Press
  <2>2. CASE Refresh(t)
    BY <1>1, <1>3, <2>2, ClaimTyped DEF Refresh
  <2> QED BY <1>2, <1>4, <2>1, <2>2 DEF TabStep, AttachToNextPeer, CloseTab, HearReport, HearBook
<1>5. CASE EngineStep
  <2>1. ASSUME NEW t \in Tabs, NEW i \in DOMAIN subscribes[t].flight, OnSubscribe(t, i)
        PROVE  Bounded(subscribes'[u])
    <3>1. subscribes' = [subscribes EXCEPT ![t] = Admitted(@, i)]
      BY <2>1 DEF OnSubscribe
    <3>2. CASE u = t
      <4>1. Bounded(Admitted(subscribes[u], i))
        BY <1>1, <2>1, <3>2, GateBounded
      <4> QED BY <1>1, <3>1, <3>2, <4>1
    <3>3. CASE u # t
      BY <1>1, <3>1, <3>3
    <3> QED BY <3>2, <3>3
  <2>2. CASE RestartEngine
    <3>1. subscribes'[u] = Ungated(subscribes[u])
      BY <2>2 DEF RestartEngine
    <3> QED BY <1>1, <3>1, GateBounded
  <2> QED BY <1>2, <1>5, <2>1, <2>2 DEF EngineStep, Announce, FlushFeeds, OnPayload, OnRunControl, OnLink
<1>6. CASE World BY <1>2, <1>6 DEF World, ControlAges, SubscriptionExpires
<1>7. CASE UNCHANGED vars BY <1>2, <1>7 DEF vars
<1> QED BY <1>4, <1>5, <1>6, <1>7 DEF Next

\* And so do the heartbeats.
LEMMA ReportsBounded ==
  ASSUME ControlInv, ReportsInv, BoundInv, [Next]_vars, NEW u \in Tabs
  PROVE  Bounded(reports'[u])
<1>1. reports[u] \in Stream(Truths) /\ Bounded(reports[u]) /\ Report \in Truths
  BY ReportIsTrue DEF ReportsInv, BoundInv
<1>2. CASE Still(u) BY <1>1, <1>2 DEF Still
<1>3. CASE Sent(u) BY <1>1, <1>3, SendBounded DEF Sent
<1>4. CASE Forgot(u) BY <1>1, <1>4, GateBounded DEF Forgot
<1>5. ASSUME NEW i \in DOMAIN reports[u].flight, Took(u, i) PROVE Bounded(reports'[u])
  BY <1>1, <1>5, GateBounded DEF Took
<1> QED BY <1>2, <1>3, <1>4, <1>5, HeartbeatSteps

\* And so do the frames of another topic, none of them of a run still to come.
LEMMA BooksBounded ==
  ASSUME ReportsInv, BoundInv, [Next]_vars, boot' \in Nat, boot <= boot'
  PROVE  books' \in [Tabs -> Stream(0..boot')] /\ \A u \in Tabs : Bounded(books'[u])
<1> USE DEF tabVars, netVars, cellVars, actorVars, engineVars, Mishap
<1>1. /\ books \in [Tabs -> Stream(0..boot)] /\ \A u \in Tabs : Bounded(books[u])
      /\ boot \in 0..boot /\ boot \in Nat
  BY DEF BoundInv, ReportsInv
<1>2. Stream(0..boot) \subseteq Stream(0..boot')
  <2>1. 0..boot \subseteq 0..boot' BY <1>1
  <2> QED BY <2>1, StreamGrows
<1>3. SUFFICES books' \in [Tabs -> Stream(0..boot)] /\ \A u \in Tabs : Bounded(books'[u])
  BY <1>2, <1>3
<1> DEFINE Goal == books' \in [Tabs -> Stream(0..boot)] /\ \A u \in Tabs : Bounded(books'[u])
<1>4. ASSUME books' = books PROVE Goal
  BY <1>1, <1>4
<1>5. ASSUME NEW t \in Tabs, TabStep(t) PROVE Goal
  <2>1. CASE AttachToNextPeer(t)
    <3>1. books' = [books EXCEPT ![t] = Empty] BY <2>1 DEF AttachToNextPeer
    <3>2. Bounded(Empty) /\ Empty \in Stream(0..boot) BY <1>1, GateBounded
    <3> QED BY <1>1, <3>1, <3>2
  <2>2. ASSUME NEW i \in DOMAIN books[t].flight, HearBook(t, i) PROVE Goal
    <3>1. books' = [books EXCEPT ![t] = Admitted(@, i)] BY <2>2 DEF HearBook
    <3>2. Bounded(Admitted(books[t], i)) /\ Admitted(books[t], i) \in Stream(0..boot)
      BY <1>1, <2>2, GateBounded
    <3> QED BY <1>1, <3>1, <3>2
  <2> QED BY <1>4, <1>5, <2>1, <2>2 DEF TabStep, Press, Refresh, CloseTab, HearReport
<1>6. CASE EngineStep
  <2>1. CASE FlushFeeds
    <3>1. \A t \in Tabs : Bounded(Send(books[t], boot)) /\ Send(books[t], boot) \in Stream(0..boot)
      BY <1>1, SendBounded, SendTyped
    <3>2. books' = [t \in Tabs |-> IF t \in Listeners THEN Send(books[t], boot) ELSE books[t]]
      BY <2>1 DEF FlushFeeds
    <3> QED BY <1>1, <3>1, <3>2
  <2> QED BY <1>4, <1>6, <2>1 DEF EngineStep, OnSubscribe, Announce, OnPayload, OnRunControl, OnLink, RestartEngine
<1>7. CASE World BY <1>4, <1>7 DEF World, ControlAges, SubscriptionExpires
<1>8. CASE UNCHANGED vars BY <1>4, <1>8 DEF vars
<1> QED BY <1>5, <1>6, <1>7, <1>8 DEF Next

\* The ring never holds more than its slots.
LEMMA RingKept ==
  ASSUME ControlInv, BoundInv, [Next]_vars
  PROVE  Len(ring') <= RingSize
<1> USE DEF tabVars, netVars, cellVars, actorVars, engineVars, Mishap
<1>1. /\ ring \in Seq(Slot) /\ Len(ring) <= RingSize /\ Ascending(ring) /\ Below(ring, desired)
      /\ desired \in Assertion /\ desired.epoch \in Nat
  BY DEF ControlInv, ControlTyped, BoundInv, Held, Below, Assertion
<1>2. ASSUME ring' = ring PROVE Len(ring') <= RingSize
  BY <1>1, <1>2
<1>3. \A q \in Seq(Slot), m \in Slot :
        Len(q) <= RingSize => Len(PushLink(q, m)) <= RingSize /\ PushLink(q, m) \in Seq(Slot)
  <2> TAKE q \in Seq(Slot), m \in Slot
  <2>1. Append(q, m) \in Seq(Slot) OBVIOUS
  <2> QED BY <2>1, RingBounded DEF PushLink
<1>4. \A q \in Seq(Slot), m \in Assertion :
        Len(q) <= RingSize => Len(PushMarkerIfNeeded(q, m)) <= RingSize /\ PushMarkerIfNeeded(q, m) \in Seq(Slot)
  BY <1>3 DEF PushMarkerIfNeeded, Slot
<1>5. ASSUME NEW t \in Tabs, TabStep(t) PROVE Len(ring') <= RingSize
  BY <1>2, <1>5 DEF TabStep, Press, Refresh, AttachToNextPeer, CloseTab, HearReport, HearBook
<1>6. CASE EngineStep
  <2>1. ASSUME NEW t \in Tabs, NEW i \in DOMAIN subscribes[t].flight, OnSubscribe(t, i)
        PROVE  Len(ring') <= RingSize
    <3> DEFINE a == subscribes[t].flight[i]
               w == IF a.epoch = 0 THEN desired ELSE AcceptIfNewer(desired, a)
    <3>1. a \in Assertion
      BY <2>1 DEF ControlInv, ControlTyped, Stream
    <3>2. w \in Assertion
      BY <1>1, <3>1, AcceptedIsHigher
    <3>3. ring' = ring \/ ring' = PushMarkerIfNeeded(ring, w)
      BY <2>1 DEF OnSubscribe
    <3> HIDE DEF w
    <3> QED BY <1>1, <1>2, <1>4, <3>2, <3>3
  <2>2. CASE Announce
    <3> DEFINE w == IF (control = "old" /\ ~isLost) /\ OnLoss = "Idle" THEN AcceptIfNewer(desired, DeadMan) ELSE desired
               once == IF (control = "old" /\ ~isLost) /\ OnLoss = "Idle" THEN PushMarkerIfNeeded(ring, w) ELSE ring
    <3>1. DeadMan \in Assertion
      BY <1>1 DEF DeadMan, Claim, Assertion, States
    <3>2. w \in Assertion
      BY <1>1, <3>1, AcceptedIsHigher
    <3>3. ring' = PushMarkerIfNeeded(once, w)
      BY <2>2 DEF Announce
    <3>4. once \in Seq(Slot) /\ Len(once) <= RingSize
      <4> HIDE DEF w
      <4> QED BY <1>1, <1>4, <3>2
    <3> HIDE DEF w, once
    <3> QED BY <1>4, <3>2, <3>3, <3>4
  <2>3. CASE OnPayload
    BY <1>1, <1>3, <2>3 DEF OnPayload, Slot
  <2>4. CASE OnRunControl \/ OnLink
    <3>1. ring' = Tail(ring) /\ ring # <<>>
      BY <2>4 DEF OnRunControl, OnLink
    <3>2. Len(Tail(ring)) = Len(ring) - 1 /\ Len(ring) \in Nat
      BY <1>1, <3>1
    <3>3. RingSize \in Nat
      BY ControlAssumption
    <3> QED BY <1>1, <3>1, <3>2, <3>3
  <2>5. CASE RestartEngine
    <3>1. ring' = <<>> /\ Len(<<>>) = 0 /\ RingSize \in Nat
      BY <2>5, ControlAssumption DEF RestartEngine
    <3> QED BY <3>1
  <2> QED BY <1>2, <1>6, <2>1, <2>2, <2>3, <2>4, <2>5 DEF EngineStep, FlushFeeds
<1>7. CASE World BY <1>2, <1>7 DEF World, ControlAges, SubscriptionExpires
<1>8. CASE UNCHANGED vars BY <1>2, <1>8 DEF vars
<1> QED BY <1>5, <1>6, <1>7, <1>8 DEF Next

\* The counters, the table and the clock of the actor keep their ranges, and a tab
\* never holds a run that is still to come.
LEMMA RangesKept ==
  ASSUME ControlInv, ReportsInv, BoundInv, [Next]_vars
  PROVE  /\ place' \in [Tabs -> {"here", "away", "closed"}]
         /\ presses' \in [Tabs -> 0..MaxPresses]
         /\ boot' \in 1..mishaps' + 1 /\ mishaps' \in 0..MaxMishaps
         /\ boot <= boot'
         /\ runSeen' \in [Tabs -> 0..boot]
         /\ subscribers' \subseteq Tabs
         /\ control' \in {"never", "recent", "old"} /\ isLost' \in BOOLEAN
<1> USE DEF tabVars, netVars, cellVars, actorVars, engineVars, Mishap
<1>1. /\ place \in [Tabs -> {"here", "away", "closed"}]
      /\ presses \in [Tabs -> 0..MaxPresses]
      /\ boot \in 1..mishaps + 1 /\ mishaps \in 0..MaxMishaps
      /\ boot \in Nat \ {0} /\ mishaps \in Nat /\ MaxMishaps \in Nat /\ MaxPresses \in Nat
      /\ runSeen \in [Tabs -> 0..boot]
      /\ books \in [Tabs -> Stream(0..boot)]
      /\ subscribers \subseteq Tabs
      /\ control \in {"never", "recent", "old"} /\ isLost \in BOOLEAN
  BY ControlAssumption DEF BoundInv, ReportsInv
<1> DEFINE Ranges ==
      /\ place' \in [Tabs -> {"here", "away", "closed"}]
      /\ presses' \in [Tabs -> 0..MaxPresses]
      /\ boot' \in 1..mishaps' + 1 /\ mishaps' \in 0..MaxMishaps
      /\ boot <= boot'
      /\ runSeen' \in [Tabs -> 0..boot]
      /\ subscribers' \subseteq Tabs
      /\ control' \in {"never", "recent", "old"} /\ isLost' \in BOOLEAN
<1>2. ASSUME boot' = boot, mishaps' = mishaps \/ (mishaps < MaxMishaps /\ mishaps' = mishaps + 1)
      PROVE  boot' \in 1..mishaps' + 1 /\ mishaps' \in 0..MaxMishaps /\ boot <= boot'
  BY <1>1, <1>2
<1>3. ASSUME NEW t \in Tabs, TabStep(t) PROVE Ranges
  <2>1. CASE Press(t)
    <3>1. presses[t] + 1 \in 0..MaxPresses
      BY <1>1, <2>1 DEF Press
    <3>2. presses' \in [Tabs -> 0..MaxPresses]
      BY <1>1, <2>1, <3>1 DEF Press
    <3> QED BY <1>1, <1>2, <2>1, <3>2 DEF Press
  <2>2. CASE Refresh(t) BY <1>1, <1>2, <2>2 DEF Refresh
  <2>3. CASE AttachToNextPeer(t)
    <3>1. place' \in [Tabs -> {"here", "away", "closed"}]
      BY <1>1, <2>3 DEF AttachToNextPeer
    <3>2. runSeen' \in [Tabs -> 0..boot]
      <4>1. 0 \in 0..boot BY <1>1
      <4> QED BY <1>1, <2>3, <4>1 DEF AttachToNextPeer
    <3>3. boot' = boot /\ mishaps < MaxMishaps /\ mishaps' = mishaps + 1 /\ presses' = presses
          /\ subscribers' = subscribers \ {t} /\ control' = control /\ isLost' = isLost
      BY <2>3 DEF AttachToNextPeer
    <3> QED BY <1>1, <1>2, <3>1, <3>2, <3>3
  <2>4. CASE CloseTab(t)
    <3>1. place' \in [Tabs -> {"here", "away", "closed"}]
      BY <1>1, <2>4 DEF CloseTab
    <3> QED BY <1>1, <1>2, <2>4, <3>1 DEF CloseTab
  <2>5. ASSUME NEW i \in DOMAIN reports[t].flight, HearReport(t, i) PROVE Ranges
    <3>1. reports[t].flight[i] \in Truths
      BY <2>5 DEF ReportsInv, Stream
    <3>2. reports[t].flight[i].boot \in 0..boot
      BY <1>1, <3>1 DEF Truths, Lifecycle
    <3>3. runSeen' \in [Tabs -> 0..boot]
      BY <1>1, <2>5, <3>2 DEF HearReport
    <3> QED BY <1>1, <1>2, <2>5, <3>3 DEF HearReport
  <2>6. ASSUME NEW i \in DOMAIN books[t].flight, HearBook(t, i) PROVE Ranges
    <3>1. books[t].flight[i] \in 0..boot
      BY <1>1, <2>6 DEF Stream
    <3>2. runSeen' \in [Tabs -> 0..boot]
      BY <1>1, <2>6, <3>1 DEF HearBook
    <3> QED BY <1>1, <1>2, <2>6, <3>2 DEF HearBook
  <2> QED BY <1>3, <2>1, <2>2, <2>3, <2>4, <2>5, <2>6 DEF TabStep
<1>4. CASE EngineStep
  <2>1. ASSUME NEW t \in Tabs, NEW i \in DOMAIN subscribes[t].flight, OnSubscribe(t, i) PROVE Ranges
    <3>1. /\ place' = place /\ presses' = presses /\ boot' = boot /\ mishaps' = mishaps /\ runSeen' = runSeen
          /\ subscribers' = subscribers \cup {t}
          /\ \/ control' = control /\ isLost' = isLost
             \/ control' = "recent" /\ isLost' = FALSE
      BY <2>1 DEF OnSubscribe
    <3> QED BY <1>1, <1>2, <3>1
  <2>2. CASE Announce
    <3>1. /\ place' = place /\ presses' = presses /\ boot' = boot /\ mishaps' = mishaps /\ runSeen' = runSeen
          /\ subscribers' = subscribers /\ control' = control
          /\ isLost' = (isLost \/ (control = "old" /\ ~isLost))
      BY <2>2 DEF Announce
    <3> QED BY <1>1, <1>2, <3>1
  <2>3. CASE FlushFeeds BY <1>1, <1>2, <2>3 DEF FlushFeeds
  <2>4. CASE OnPayload BY <1>1, <1>2, <2>4 DEF OnPayload
  <2>5. CASE OnRunControl BY <1>1, <1>2, <2>5 DEF OnRunControl
  <2>6. CASE OnLink BY <1>1, <1>2, <2>6 DEF OnLink
  <2>7. CASE RestartEngine
    <3>1. boot' = boot + 1 /\ mishaps < MaxMishaps /\ mishaps' = mishaps + 1
      BY <2>7 DEF RestartEngine
    <3>2. boot' \in 1..mishaps' + 1 /\ mishaps' \in 0..MaxMishaps /\ boot <= boot'
      BY <1>1, <3>1
    <3>3. /\ place' = place /\ presses' = presses /\ runSeen' = runSeen
          /\ subscribers' = {} /\ control' = "never" /\ isLost' = FALSE
      BY <2>7 DEF RestartEngine
    <3> QED BY <1>1, <3>2, <3>3
  <2> QED BY <1>4, <2>1, <2>2, <2>3, <2>4, <2>5, <2>6, <2>7 DEF EngineStep
<1>5. CASE World
  <2>1. CASE ControlAges BY <1>1, <1>2, <2>1 DEF ControlAges
  <2>2. ASSUME NEW t \in Tabs, SubscriptionExpires(t) PROVE Ranges
    BY <1>1, <1>2, <2>2 DEF SubscriptionExpires
  <2> QED BY <1>5, <2>1, <2>2 DEF World
<1>6. CASE UNCHANGED vars BY <1>1, <1>2, <1>6 DEF vars
<1> QED BY <1>3, <1>4, <1>5, <1>6 DEF Next

\* The bounds are inductive.
LEMMA BoundNext == ControlInv /\ ReportsInv /\ BoundInv /\ [Next]_vars => BoundInv'
<1> SUFFICES ASSUME ControlInv, ReportsInv, BoundInv, [Next]_vars PROVE BoundInv'
  OBVIOUS
<1>1. /\ place' \in [Tabs -> {"here", "away", "closed"}]
      /\ presses' \in [Tabs -> 0..MaxPresses]
      /\ boot' \in 1..mishaps' + 1 /\ mishaps' \in 0..MaxMishaps
      /\ boot <= boot'
      /\ runSeen' \in [Tabs -> 0..boot]
      /\ subscribers' \subseteq Tabs
      /\ control' \in {"never", "recent", "old"} /\ isLost' \in BOOLEAN
  BY RangesKept
<1>2. boot' \in Nat /\ boot \in Nat
  BY <1>1 DEF ReportsInv
<1>3. runSeen' \in [Tabs -> 0..boot']
  <2>1. 0..boot \subseteq 0..boot' BY <1>1, <1>2
  <2> QED BY <1>1, <2>1
<1>4. books' \in [Tabs -> Stream(0..boot')] /\ \A u \in Tabs : Bounded(books'[u])
  BY <1>1, <1>2, BooksBounded
<1>5. \A u \in Tabs : Bounded(subscribes'[u]) /\ Bounded(reports'[u])
  BY SubscribesBounded, ReportsBounded
<1>6. Len(ring') <= RingSize
  BY RingKept
<1> QED BY <1>1, <1>3, <1>4, <1>5, <1>6 DEF BoundInv, Bounded

\* Every variable has its type, for any tabs and any bounds (link/actor/mod.rs,
\* link_model.rs, shutdown.rs).
THEOREM TypeCorrect == Spec => []TypeOK
<1>1. ControlInv /\ ReportsInv /\ BoundInv => TypeOK
  <2> SUFFICES ASSUME ControlInv, ReportsInv, BoundInv PROVE TypeOK
    OBVIOUS
  <2>1. boot \in 1..MaxMishaps + 1 /\ boot \in Nat /\ MaxMishaps \in Nat
    BY ControlAssumption DEF BoundInv
  <2>2. runSeen \in [Tabs -> 0..MaxMishaps + 1]
    <3>1. 0..boot \subseteq 0..MaxMishaps + 1 BY <2>1
    <3> QED BY <3>1 DEF BoundInv
  <2>3. \A t \in Tabs : reported[t] \in Lifecycle /\ reported[t].boot <= boot
    BY DEF ReportsInv, Truths
  <2>4. \A i \in DOMAIN ring : ring[i] \in Assertion \cup {Payload}
    BY DEF ControlInv, ControlTyped, Slot
  <2>5. {desired, acknowledged, run} \subseteq Assertion /\ asserted \in [Tabs -> States \cup {None}]
    BY DEF ControlInv, ControlTyped
  <2> QED BY <2>1, <2>2, <2>3, <2>4, <2>5 DEF TypeOK, BoundInv
<1> QED BY <1>1, BoundInit, BoundNext, ControlInvariant, ReportsInvariant, PTL DEF Spec

\* A tab's view goes back neither to an earlier run nor to an earlier acknowledged
\* epoch of one, however the network repeats, reorders and drops the frames of the two
\* topics (SequenceGate, RemoteRunGate::observe, on_lifecycle).
THEOREM ViewsNeverRewind == Spec => ViewNeverRewinds
<1> DEFINE Steady(t) ==
      place[t] = "here" /\ place'[t] = "here" =>
        /\ runSeen'[t] >= runSeen[t]
        /\ Heard(t) /\ Heard(t)' /\ reported'[t].boot = reported[t].boot =>
             reported'[t].epoch >= reported[t].epoch
<1>1. ASSUME TypeOK, ReportsInv, ReportsInv', ViewInv, OrderInv, [Next]_vars, NEW t \in Tabs
      PROVE  Steady(t)
  <2>1. /\ reports[t] \in Stream(Truths) /\ reported[t] \in Truths /\ reported[t].epoch \in Nat
        /\ runSeen \in [Tabs -> Nat] /\ books \in [Tabs -> Stream(Nat)]
        /\ NewsAfter(reports[t], reported[t]) /\ DOMAIN place = Tabs
    BY <1>1 DEF TypeOK, ReportsInv, ViewInv, OrderInv, Truths, Lifecycle
  <2>2. Heard(t) /\ Heard(t)' /\ reported'[t].boot = reported[t].boot =>
          reported'[t].epoch >= reported[t].epoch
    <3>1. CASE reported'[t] = reported[t] BY <2>1, <3>1
    <3>2. CASE Forgot(t) BY <3>2 DEF Forgot, Heard, Unheard
    <3>3. ASSUME NEW i \in DOMAIN reports[t].flight, Admits(reports[t], i),
                 reported'[t] = reports[t].flight[i]
          PROVE  reported'[t].boot = reported[t].boot => reported'[t].epoch >= reported[t].epoch
      <4>1. Before(reported[t], reports[t].flight[i])
        BY <2>1, <3>3 DEF NewsAfter, Admits
      <4>2. reports[t].flight[i] \in Truths
        BY <2>1 DEF Stream
      <4> QED BY <2>1, <3>3, <4>1, <4>2 DEF Before, Truths, Lifecycle
    <3> QED BY <1>1, <3>1, <3>2, <3>3, HeartbeatSteps DEF Still, Sent, Took
  <2>3. place[t] = "here" /\ place'[t] = "here" => runSeen'[t] >= runSeen[t]
    <3> USE DEF tabVars, netVars, cellVars, actorVars, engineVars, Mishap
    <3> DEFINE Goal == place[t] = "here" /\ place'[t] = "here" => runSeen'[t] >= runSeen[t]
    <3>1. ASSUME runSeen' = runSeen PROVE Goal
      BY <2>1, <3>1
    <3>2. ASSUME NEW u \in Tabs, TabStep(u) PROVE Goal
      <4>1. CASE Press(u) \/ Refresh(u) \/ CloseTab(u)
        BY <3>1, <4>1 DEF Press, Refresh, CloseTab
      <4>2. CASE AttachToNextPeer(u)
        <5>1. CASE u = t
          <6>1. place[t] = "here" => place'[t] = "away"
            BY <2>1, <4>2, <5>1 DEF AttachToNextPeer
          <6> QED BY <6>1
        <5>2. CASE u # t BY <2>1, <4>2, <5>2 DEF AttachToNextPeer
        <5> QED BY <5>1, <5>2
      <4>3. ASSUME NEW i \in DOMAIN reports[u].flight, HearReport(u, i) PROVE Goal
        <5> DEFINE frame == reports[u].flight[i]
        <5>1. frame.boot \in Nat
          <6>1. reports[u].flight \in Seq(Truths) BY <1>1 DEF ReportsInv, Stream
          <6>2. frame \in Truths BY <4>3, <6>1
          <6> QED BY <6>2 DEF Truths, Lifecycle
        <5>2. CASE Observe(u, frame.boot) = "Stale"
          BY <3>1, <4>3, <5>2 DEF HearReport
        <5>3. CASE Observe(u, frame.boot) # "Stale"
          <6>1. runSeen' = [runSeen EXCEPT ![u] = frame.boot]
            BY <4>3, <5>3 DEF HearReport
          <6>2. frame.boot >= runSeen[u]
            BY <2>1, <5>1, <5>3 DEF Observe
          <6> HIDE DEF frame
          <6> QED BY <2>1, <5>1, <6>1, <6>2
        <5> QED BY <5>2, <5>3
      <4>4. ASSUME NEW i \in DOMAIN books[u].flight, HearBook(u, i) PROVE Goal
        <5> DEFINE sender == books[u].flight[i]
        <5>1. sender \in Nat
          BY <2>1, <4>4 DEF Stream
        <5>2. CASE Observe(u, sender) = "Stale"
          BY <3>1, <4>4, <5>2 DEF HearBook
        <5>3. CASE Observe(u, sender) # "Stale"
          <6>1. runSeen' = [runSeen EXCEPT ![u] = sender]
            BY <4>4, <5>3 DEF HearBook
          <6>2. sender >= runSeen[u]
            BY <2>1, <5>1, <5>3 DEF Observe
          <6> HIDE DEF sender
          <6> QED BY <2>1, <5>1, <6>1, <6>2
        <5> QED BY <5>2, <5>3
      <4> QED BY <3>2, <4>1, <4>2, <4>3, <4>4 DEF TabStep
    <3>3. CASE EngineStep
      BY <3>1, <3>3 DEF EngineStep, OnSubscribe, Announce, FlushFeeds, OnPayload, OnRunControl, OnLink,
         RestartEngine
    <3>4. CASE World BY <3>1, <3>4 DEF World, ControlAges, SubscriptionExpires
    <3>5. CASE UNCHANGED vars BY <3>1, <3>5 DEF vars
    <3> QED BY <1>1, <3>2, <3>3, <3>4, <3>5 DEF Next
  <2> QED BY <2>2, <2>3
<1>2. ASSUME TypeOK, ReportsInv, ReportsInv', ViewInv, OrderInv, [Next]_vars
      PROVE  [\A t \in Tabs : Steady(t)]_vars
  BY <1>1, <1>2
<1> QED BY <1>2, TypeCorrect, OrderInvariant, ReportsInvariant, PTL DEF Spec, ViewNeverRewinds
=============================================================================
