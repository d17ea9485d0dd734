------------------------------- MODULE RunControl -------------------------------
(***************************************************************************)
(* How a workstation tab starts and stops an engine's trading over UDP.    *)
(*                                                                         *)
(* A tab repeats its assertion, a run state at an epoch, in every          *)
(* subscribe.  The link actor keeps the assertion of the highest epoch in  *)
(* the DESIRED cell and pushes it as a marker into the link input ring,    *)
(* which drops when it is full; the hot thread applies the marker and      *)
(* stores what it runs in the ACKNOWLEDGED cell; the actor's heartbeat     *)
(* carries that back to the tabs.  Sources: shutdown.rs, link/actor,       *)
(* link/subscribers.rs, hot/dispatch/gate.rs and workstation/link_*.rs.    *)
(*                                                                         *)
(* A datagram's sequence number is told apart only from the receiver's     *)
(* last admitted one, so a link keeps what is in flight in sending order   *)
(* and how many of those are not newer than the last admitted.  Delivery   *)
(* leaves the datagram in flight, so it may come twice, late or never; a   *)
(* stream holds the last `MaxFlight` sent, and what falls out is lost.     *)
(***************************************************************************)
EXTENDS Integers, Sequences

CONSTANTS
  Tabs,
  BootEpoch,     \* the boot stamp a tab's epochs start from
  OnLoss,        \* on_controller_loss
  RingSize,      \* slots of the link input ring
  MaxFlight,     \* bound: datagrams of one stream in flight
  MaxPresses,    \* bound: confirmed presses of START or STOP in one tab
  Mishaps,       \* bound: what may go wrong in this instance
  MaxMishaps,    \* bound: how often
  Feeds          \* bound: whether frames of another topic are sent

ASSUME ControlAssumption ==
  /\ BootEpoch \in [Tabs -> Nat \ {0}]
  /\ OnLoss \in {"Hold", "Idle"}
  /\ Mishaps \subseteq {"silence", "expiry", "move", "close", "restart", "peerFrame"}
  /\ Feeds \in BOOLEAN
  /\ {RingSize, MaxFlight, MaxPresses} \subseteq Nat \ {0}
  /\ MaxMishaps \in Nat

VARIABLES
  \* The tabs.
  place,         \* "here" attached to this engine, "away" to another, or "closed"
  presses,       \* assertions
  asserted,      \* asserted_state
  runSeen,       \* the boot RemoteRunGate holds, 0 for none
  reported,      \* the last lifecycle taken, or Unheard
  \* The network, one stream per tab and topic.
  subscribes, reports, books,
  \* The engine process: the link actor and the hot thread.
  boot,          \* boot_ts_us: which run of the engine this is
  desired, acknowledged, run, ring,
  subscribers,   \* the tabs in the subscriber table
  control,       \* "never", "recent" or "old": last_control_ts_us
  isLost,        \* is_controller_lost
  mishaps

tabVars    == <<place, presses, asserted, runSeen, reported>>
netVars    == <<subscribes, reports, books>>
cellVars   == <<desired, acknowledged, run, ring>>
actorVars  == <<subscribers, control, isLost>>
engineVars == <<boot, cellVars, actorVars>>
vars       == <<tabVars, netVars, engineVars, mishaps>>

None    == "none"
States  == {"Running", "Idle"}

Assertion == [state : States, epoch : Nat]
Initial   == [state |-> "Running", epoch |-> 0]

\* A peer engine's frame, which shares the ring with the markers.
Payload     == [state |-> "Payload", epoch |-> 0]
IsMarker(m) == m.state \in States

\* A heartbeat, and the place of one in a tab that has heard none.
Lifecycle == [boot : Nat, state : States, epoch : Nat]
Unheard   == [boot |-> 0, state |-> "Running", epoch |-> 0]

Claim(state, epoch) == [state |-> state, epoch |-> epoch]

-----------------------------------------------------------------------------
(***************************************************************************)
(* Streams and the sequence gate                                           *)
(***************************************************************************)
Empty == [flight |-> <<>>, stale |-> 0]

\* The oldest in flight is the one a bounded network loses.
Send(link, datagram) ==
  IF Len(link.flight) < MaxFlight
  THEN [link EXCEPT !.flight = Append(@, datagram)]
  ELSE [flight |-> Append(Tail(link.flight), datagram),
        stale  |-> IF link.stale = 0 THEN 0 ELSE link.stale - 1]

\* A gate that lets a repeated or reordered datagram through.
AdmitsAnything(link, i) == TRUE

Admits(link, i) == i > link.stale

Admitted(link, i) == [link EXCEPT !.stale = i]

\* A new gate knows no stream.
Ungated(link) == [link EXCEPT !.stale = 0]

-----------------------------------------------------------------------------
(***************************************************************************)
(* The cells                                                               *)
(***************************************************************************)
\* A cell that takes an assertion whatever its epoch.
LatestWins(cell, assertion) == assertion

\* A cell that takes an equal epoch too.
AcceptIfNotOlder(cell, assertion) == IF assertion.epoch < cell.epoch THEN cell ELSE assertion

\* accept_if_newer
AcceptIfNewer(cell, assertion) ==
  IF assertion.epoch <= cell.epoch THEN cell ELSE assertion

\* A ring that grows.
PushAlways(queue, message) == Append(queue, message)

PushLink(queue, message) ==
  IF Len(queue) < RingSize THEN Append(queue, message) ELSE queue

\* A push that follows the transition: nothing is asked again after a drop.
PushOnChange(queue, wanted) ==
  IF wanted = desired THEN queue ELSE PushLink(queue, wanted)

\* Asks which marker is still outstanding, so a dropped one is pushed again.
PushMarkerIfNeeded(queue, wanted) ==
  IF wanted = acknowledged THEN queue ELSE PushLink(queue, wanted)

\* A heartbeat that reports what was asked for.
ReportOfDesired == [boot |-> boot, state |-> desired.state, epoch |-> desired.epoch]

\* The engine's heartbeat: what the hot thread applied.
Report == [boot |-> boot, state |-> acknowledged.state, epoch |-> acknowledged.epoch]

-----------------------------------------------------------------------------
(***************************************************************************)
(* What a tab asserts, and what it shows                                   *)
(***************************************************************************)
Heard(t) == reported[t].boot # 0

TabAssertion(t) ==
  IF asserted[t] = None THEN Initial
  ELSE Claim(asserted[t], BootEpoch[t] + presses[t])

\* The two-state button: against the tab's own assertion, else the report.
NextAssertion(t) ==
  LET shown == IF asserted[t] # None THEN asserted[t]
               ELSE IF Heard(t) THEN reported[t].state ELSE "Running"
  IN  IF shown = "Idle" THEN "Running" ELSE "Idle"

Verdict(t) ==
  LET mine == TabAssertion(t).epoch
  IN  IF asserted[t] = None THEN "NoOpinion"
      ELSE IF ~Heard(t) THEN "Pending"
      ELSE IF reported[t].epoch > mine THEN "Lost"
      ELSE IF reported[t].epoch = mine /\ reported[t].state = asserted[t]
      THEN "Applied" ELSE "Pending"

-----------------------------------------------------------------------------
Init ==
  /\ place = [t \in Tabs |-> "here"]
  /\ presses = [t \in Tabs |-> 0]
  /\ asserted = [t \in Tabs |-> None]
  /\ runSeen = [t \in Tabs |-> 0]
  /\ reported = [t \in Tabs |-> Unheard]
  /\ subscribes = [t \in Tabs |-> Empty]
  /\ reports = [t \in Tabs |-> Empty]
  /\ books = [t \in Tabs |-> Empty]
  /\ boot = 1
  /\ desired = Initial /\ acknowledged = Initial /\ run = Initial
  /\ ring = <<>>
  /\ subscribers = {}
  /\ control = "never" /\ isLost = FALSE
  /\ mishaps = 0

Mishap(kind) == kind \in Mishaps /\ mishaps < MaxMishaps /\ mishaps' = mishaps + 1

(***************************************************************************)
(* The tab                                                                 *)
(***************************************************************************)
SubscribeWith(t, assertion) ==
  subscribes' = [subscribes EXCEPT ![t] = Send(@, assertion)]

\* assert_run_state, once the press is confirmed; the subscribe is due at once.
Press(t) ==
  /\ place[t] = "here"
  /\ presses[t] < MaxPresses
  /\ presses' = [presses EXCEPT ![t] = @ + 1]
  /\ asserted' = [asserted EXCEPT ![t] = NextAssertion(t)]
  /\ SubscribeWith(t, Claim(NextAssertion(t), BootEpoch[t] + presses[t] + 1))
  /\ UNCHANGED <<place, runSeen, reported, reports, books, engineVars, mishaps>>

\* The two-second refresh.
Refresh(t) ==
  /\ place[t] = "here"
  /\ SubscribeWith(t, TabAssertion(t))
  /\ UNCHANGED <<tabVars, reports, books, engineVars, mishaps>>

\* attach_to_next_peer, away from this engine and back to it.  The relay socket
\* is new, so what was in flight to the old one is gone.
AttachToNextPeer(t) ==
  /\ place[t] # "closed"
  /\ Mishap("move")
  /\ place' = [place EXCEPT ![t] = IF @ = "here" THEN "away" ELSE "here"]
  /\ asserted' = [asserted EXCEPT ![t] = None]
  /\ runSeen' = [runSeen EXCEPT ![t] = 0]
  /\ reported' = [reported EXCEPT ![t] = Unheard]
  /\ reports' = [reports EXCEPT ![t] = Empty]
  /\ books' = [books EXCEPT ![t] = Empty]
  /\ subscribers' = subscribers \ {t}
  /\ UNCHANGED <<presses, subscribes, boot, cellVars, control, isLost>>

\* The tab is gone; what it sent may still arrive.
CloseTab(t) ==
  /\ place[t] # "closed"
  /\ Mishap("close")
  /\ place' = [place EXCEPT ![t] = "closed"]
  /\ UNCHANGED <<presses, asserted, runSeen, reported, netVars, engineVars>>

(***************************************************************************)
(* A frame reaches a tab: the gate, then which engine run it is from       *)
(***************************************************************************)
\* A tab that stays with the first run it heard.
ObserveFirstOnly(t, incoming) ==
  IF runSeen[t] = 0 THEN "First" ELSE IF incoming = runSeen[t] THEN "Same" ELSE "Stale"

Observe(t, incoming) ==
  IF runSeen[t] = 0 THEN "First"
  ELSE IF incoming < runSeen[t] THEN "Stale"
  ELSE IF incoming = runSeen[t] THEN "Same" ELSE "Restarted"

\* begin_engine_run forgets what the run before reported.
ReportAfter(t, observed) == IF observed = "Restarted" THEN Unheard ELSE reported[t]

HearReport(t, i) ==
  LET frame    == reports[t].flight[i]
      observed == Observe(t, frame.boot)
  IN  /\ place[t] = "here"
      /\ Admits(reports[t], i)
      /\ reports' = [reports EXCEPT ![t] = Admitted(@, i)]
      /\ IF observed = "Stale" THEN UNCHANGED <<runSeen, reported>>
         ELSE /\ runSeen' = [runSeen EXCEPT ![t] = frame.boot]
              /\ reported' = [reported EXCEPT ![t] = frame]
      /\ UNCHANGED <<place, presses, asserted, subscribes, books, engineVars, mishaps>>

\* Any other topic: only the run it comes from matters here.
HearBook(t, i) ==
  LET sender   == books[t].flight[i]
      observed == Observe(t, sender)
  IN  /\ place[t] = "here"
      /\ Admits(books[t], i)
      /\ books' = [books EXCEPT ![t] = Admitted(@, i)]
      /\ IF observed = "Stale" THEN UNCHANGED <<runSeen, reported>>
         ELSE /\ runSeen' = [runSeen EXCEPT ![t] = sender]
              /\ reported' = [reported EXCEPT ![t] = ReportAfter(t, observed)]
      /\ UNCHANGED <<place, presses, asserted, subscribes, reports, engineVars, mishaps>>

(***************************************************************************)
(* The link actor                                                          *)
(***************************************************************************)
\* on_datagram and on_subscribe.  A subscriber that is new to the table gets a
\* heartbeat at once, before its own assertion is looked at.
OnSubscribe(t, i) ==
  LET assertion == subscribes[t].flight[i]
      wanted    == IF assertion.epoch = 0 THEN desired ELSE AcceptIfNewer(desired, assertion)
  IN  /\ Admits(subscribes[t], i)
      /\ subscribes' = [subscribes EXCEPT ![t] = Admitted(@, i)]
      /\ subscribers' = subscribers \cup {t}
      /\ reports' = IF t \in subscribers \/ place[t] # "here" THEN reports
                    ELSE [reports EXCEPT ![t] = Send(@, Report)]
      /\ desired' = wanted
      /\ IF assertion.epoch = 0 THEN UNCHANGED <<ring, control, isLost>>
         ELSE /\ control' = "recent" /\ isLost' = FALSE
              /\ ring' = PushMarkerIfNeeded(ring, wanted)
      /\ UNCHANGED <<tabVars, books, boot, acknowledged, run, mishaps>>

Listeners == {t \in subscribers : place[t] = "here"}

\* A dead man's assertion at the epoch it found.
DeadManAtHeldEpoch == Claim("Idle", desired.epoch)

\* One above the last accepted, so that it wins.
DeadMan == Claim("Idle", desired.epoch + 1)

\* announce: the heartbeat, the check for a lost controller, and the level
\* trigger.
Announce ==
  LET lost   == control = "old" /\ ~isLost
      parks  == lost /\ OnLoss = "Idle"
      wanted == IF parks THEN AcceptIfNewer(desired, DeadMan) ELSE desired
      once   == IF parks THEN PushMarkerIfNeeded(ring, wanted) ELSE ring
  IN  /\ reports' = [t \in Tabs |-> IF t \in Listeners THEN Send(reports[t], Report)
                                    ELSE reports[t]]
      /\ isLost' = (isLost \/ lost)
      /\ desired' = wanted
      /\ ring' = PushMarkerIfNeeded(once, wanted)
      /\ UNCHANGED <<tabVars, subscribes, books, boot, acknowledged, run, subscribers,
                     control, mishaps>>

\* flush_feeds: a frame of another topic.
FlushFeeds ==
  /\ Feeds
  /\ books' = [t \in Tabs |-> IF t \in Listeners THEN Send(books[t], boot) ELSE books[t]]
  /\ UNCHANGED <<tabVars, subscribes, reports, engineVars, mishaps>>

\* A peer engine's frame goes into the same ring.
OnPayload ==
  /\ Mishap("peerFrame")
  /\ ring' = PushLink(ring, Payload)
  /\ UNCHANGED <<tabVars, netVars, boot, desired, acknowledged, run, actorVars>>

(***************************************************************************)
(* The hot thread                                                          *)
(***************************************************************************)
\* on_run_control: a marker is applied when its epoch is newer, and what runs
\* is reported whether or not it was.
OnRunControl ==
  /\ ring # <<>> /\ IsMarker(Head(ring))
  /\ LET marker == Head(ring)
         runs   == IF marker.epoch > run.epoch THEN marker ELSE run
     IN  run' = runs /\ acknowledged' = runs
  /\ ring' = Tail(ring)
  /\ UNCHANGED <<tabVars, netVars, boot, desired, actorVars, mishaps>>

OnLink ==
  /\ ring # <<>> /\ ~IsMarker(Head(ring))
  /\ ring' = Tail(ring)
  /\ UNCHANGED <<tabVars, netVars, boot, desired, acknowledged, run, actorVars, mishaps>>

(***************************************************************************)
(* Time and restart                                                        *)
(***************************************************************************)
\* LINK_SUBSCRIPTION_TTL with no assertion from any tab.
ControlAges ==
  /\ control = "recent"
  /\ Mishap("silence")
  /\ control' = "old"
  /\ UNCHANGED <<tabVars, netVars, boot, cellVars, subscribers, isLost>>

\* The same time without a subscribe from one tab.
SubscriptionExpires(t) ==
  /\ t \in subscribers
  /\ Mishap("expiry")
  /\ subscribers' = subscribers \ {t}
  /\ UNCHANGED <<tabVars, netVars, boot, cellVars, control, isLost>>

\* A new process: nothing of the run before is kept, and the network still holds
\* what was sent to it.
RestartEngine ==
  /\ Mishap("restart")
  /\ boot' = boot + 1
  /\ desired' = Initial /\ acknowledged' = Initial /\ run' = Initial
  /\ ring' = <<>>
  /\ subscribers' = {}
  /\ control' = "never" /\ isLost' = FALSE
  /\ subscribes' = [t \in Tabs |-> Ungated(subscribes[t])]
  /\ UNCHANGED <<tabVars, reports, books>>

-----------------------------------------------------------------------------
TabStep(t) ==
  \/ Press(t) \/ Refresh(t) \/ AttachToNextPeer(t) \/ CloseTab(t)
  \/ \E i \in DOMAIN reports[t].flight : HearReport(t, i)
  \/ \E i \in DOMAIN books[t].flight : HearBook(t, i)

EngineStep ==
  \/ \E t \in Tabs : \E i \in DOMAIN subscribes[t].flight : OnSubscribe(t, i)
  \/ Announce \/ FlushFeeds \/ OnPayload
  \/ OnRunControl \/ OnLink
  \/ RestartEngine

World ==
  \/ ControlAges
  \/ \E t \in Tabs : SubscriptionExpires(t)

Next == (\E t \in Tabs : TabStep(t)) \/ EngineStep \/ World

Spec == Init /\ [][Next]_vars

(***************************************************************************)
(* Timers fire, the hot thread drains its ring, and of a stream that is    *)
(* sent again and again some datagram arrives as the newest.               *)
(***************************************************************************)
HearNewest(t)      == reports[t].flight # <<>> /\ HearReport(t, Len(reports[t].flight))
SubscribeNewest(t) == subscribes[t].flight # <<>> /\ OnSubscribe(t, Len(subscribes[t].flight))

FairSpec ==
  /\ Spec
  /\ WF_vars(Announce)
  /\ WF_vars(OnRunControl) /\ WF_vars(OnLink)
  /\ \A t \in Tabs : WF_vars(Refresh(t)) /\ SF_vars(SubscribeNewest(t)) /\ SF_vars(HearNewest(t))
-----------------------------------------------------------------------------
(***************************************************************************)
(* What must hold                                                          *)
(***************************************************************************)
Bounded(link) == Len(link.flight) <= MaxFlight /\ link.stale \in 0..Len(link.flight)

\* Every variable has its type; no stream counts more stale datagrams than it holds
\* (link/actor/mod.rs, link_model.rs, shutdown.rs).
TypeOK ==
  /\ place \in [Tabs -> {"here", "away", "closed"}]
  /\ presses \in [Tabs -> 0..MaxPresses]
  /\ asserted \in [Tabs -> States \cup {None}]
  /\ runSeen \in [Tabs -> 0..MaxMishaps + 1]
  /\ \A t \in Tabs :
       /\ reported[t] \in Lifecycle /\ reported[t].boot <= boot
       /\ Bounded(subscribes[t]) /\ Bounded(reports[t]) /\ Bounded(books[t])
  /\ boot \in 1..MaxMishaps + 1
  /\ {desired, acknowledged, run} \subseteq Assertion
  /\ Len(ring) <= RingSize /\ \A i \in DOMAIN ring : ring[i] \in Assertion \cup {Payload}
  /\ subscribers \subseteq Tabs
  /\ control \in {"never", "recent", "old"} /\ isLost \in BOOLEAN
  /\ mishaps \in 0..MaxMishaps

Markers == {ring[i] : i \in {j \in DOMAIN ring : IsMarker(ring[j])}}

\* Inside one engine an epoch names one run state, in both cells, in the hot
\* thread and in every marker under way: the hot thread skips a marker of the epoch
\* it already runs, so a second state at that epoch could never be applied.
OneStatePerEpoch ==
  \A a, b \in Markers \cup {desired, acknowledged, run} : a.epoch = b.epoch => a = b

\* Nothing the engine runs, reports or has under way is ahead of what the cell
\* wants, and no marker is behind one pushed before it: what the hot thread ends
\* on is the assertion that won, however many markers the ring dropped.
MarkersFollowDesired ==
  /\ \A a \in Markers \cup {acknowledged, run} : a.epoch <= desired.epoch
  /\ \A i, j \in DOMAIN ring :
       i < j /\ IsMarker(ring[i]) /\ IsMarker(ring[j]) => ring[i].epoch <= ring[j].epoch

\* The cells, the hot thread and the ring agree on what each epoch asserts and on which
\* assertion won.
CellsAgree == OneStatePerEpoch /\ MarkersFollowDesired

Forward(cell, next) == next # cell => next.epoch > cell.epoch

\* A stale or duplicate controller cannot make the state oscillate: while the
\* engine runs, each cell and the hot thread move only to a higher epoch.
NoOscillation ==
  [][boot' = boot => /\ Forward(desired, desired')
                     /\ Forward(acknowledged, acknowledged')
                     /\ Forward(run, run')]_vars

\* What a tab's control chip says of the engine it hears is true of that engine's
\* hot thread: "applied" only if it runs that assertion or has run past it, "LOST"
\* only if an assertion above the tab's has been applied.
VerdictIsHonest ==
  \A t \in Tabs :
    asserted[t] # None /\ Heard(t) /\ reported[t].boot = boot =>
      /\ Verdict(t) = "Applied" => \/ run = TabAssertion(t)
                                   \/ run.epoch > TabAssertion(t).epoch
      /\ Verdict(t) = "Lost" => run.epoch > TabAssertion(t).epoch

\* A tab that has heard a newer run of the engine no longer shows what the run
\* before it reported, though the first frame heard was of another topic.
ReportIsOfThisRun ==
  \A t \in Tabs : Heard(t) => reported[t].boot = runSeen[t]

\* What a tab shows is true, and of one run of the engine.
TabIsHonest == VerdictIsHonest /\ ReportIsOfThisRun

\* While a tab stays attached, its view goes back neither to an earlier run of the
\* engine nor to an earlier acknowledged epoch of the same run, in whatever order
\* the network delivers the frames of the two topics.
ViewNeverRewinds ==
  [][\A t \in Tabs : place[t] = "here" /\ place'[t] = "here" =>
       /\ runSeen'[t] >= runSeen[t]
       /\ Heard(t) /\ Heard(t)' /\ reported'[t].boot = reported[t].boot =>
            reported'[t].epoch >= reported[t].epoch]_vars

\* A marker dropped by a full ring costs a heartbeat and no more: the hot thread
\* comes to run what is desired, and the link to know it (on_run_control,
\* push_marker_if_needed).
ControlConverges == <>[](run = desired /\ acknowledged = desired)

\* Every attached tab that asserts a state ends on a verdict: applied, or lost to a
\* higher epoch.  This crosses engine restarts, after which only the repeated
\* subscribes can bring the assertion back.
VerdictSettles ==
  <>[](\A t \in Tabs : place[t] = "here" /\ asserted[t] # None => Verdict(t) \in {"Applied", "Lost"})

\* With the dead man's switch on, an engine that has lost its controller wants to be
\* parked, whatever the controller asserted, at however high an epoch, and whatever
\* still arrives of it late; ControlConverges does the rest.
LostIsIdle == OnLoss = "Idle" /\ isLost => desired.state = "Idle"
=============================================================================
