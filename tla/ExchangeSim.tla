----------------------------- MODULE ExchangeSim -----------------------------
(***************************************************************************)
(* The simulated exchange as an execution edge: an actor that turns three  *)
(* input lanes into a horizon it may safely simulate up to, the order core *)
(* it shares with the live edges (EdgeCore), the schedule its answers wait *)
(* in, and the proofs it asks for before it quotes.  SimVenue has the      *)
(* matching core; here a placement's fate is what book and wallet will     *)
(* make of it once the market can be seen.                                 *)
(*                                                                         *)
(* One step is one turn of SimActor::run with at most one new input, or    *)
(* its shutdown.  Time is counted in units of RESOLUTION.  The trade and   *)
(* depth taps are one lane, and market data arrives undelayed.             *)
(***************************************************************************)
EXTENDS EdgeCore, Sequences, SequencesExt, Bags

CONSTANTS
  Fates,       \* what may become of a placement
  Entry, Ack,  \* order_entry and ack latency
  \* Bounds of the model.
  MaxMark,     \* watermarks run from 0 to here
  MaxFlips,    \* changes of the run state
  MaxCommands, \* commands of the hot thread
  MaxEvents    \* market events

VARIABLES sim, end

vars == <<sim, end>>

Lanes   == {"Command", "Market"}
Unseen  == -1   \* a lane not observed, a time not reached
Size    == 2    \* units in an order
Passes  == 8    \* SWEEP_PASSES
Proofs  == Lanes \cup {"Bridged"}

Open(s, o)  == s.venue[o] \in {"Pending", "Resting"}
Known(s, o) == s.venue[o] \notin {"Unplaced", "NotSent"}

Silent == [new |-> FALSE, ack |-> FALSE, report |-> FALSE, filled |-> 0, barrier |-> Unseen]

InitSim(parked) ==
  [core |-> InitCore, held |-> EmptyBag,
   venue |-> [o \in Own |-> "Unplaced"], filled |-> [o \in Own |-> 0],
   since |-> [o \in Own |-> Unseen], fate |-> [o \in Own |-> None],
   hasBook |-> FALSE, isLive |-> FALSE, isRecovered |-> FALSE, hasMoved |-> FALSE,
   inbox |-> <<>>, timeline |-> <<>>, emitted |-> <<>>, schedule |-> <<>>,
   spoken |-> [o \in Own |-> Silent], fault |-> None,
   marks |-> [l \in Lanes |-> Unseen], due |-> <<>>, applied |-> Unseen,
   proofs |-> {}, armedAt |-> [l \in Lanes |-> Unseen], isAnnounced |-> FALSE,
   hasOpened |-> FALSE, isParked |-> parked, flips |-> 0, commands |-> 0, events |-> 0]

Lesser(a, b)  == IF a < b THEN a ELSE b
Greater(a, b) == IF a > b THEN a ELSE b
-----------------------------------------------------------------------------
(***************************************************************************)
(* The venue's side                                                        *)
(***************************************************************************)
\* Inputs of equal time: market data, then orders, then reads.
Rank(what) == CASE what = "Reset" -> 0
                [] what = "Whole" -> 1
                [] what \in {"Gap", "Print"} -> 3
                [] what \in {"Activate", "Cancel"} -> 4
                [] what = "Status" -> 5

Before(a, b) == a.at < b.at \/ (a.at = b.at /\ Rank(a.what) <= Rank(b.what))

Enqueue(queue, e) ==
  InsertAt(queue, 1 + Cardinality({k \in DOMAIN queue : Before(queue[k], e)}), e)

Act(at, what, o) == [at |-> at, what |-> what, order |-> o, qty |-> 0]

\* A voice of the venue: what it says of an order that has `filled` units.
Emit(s, at, says, o) ==
  LET earlier == {k \in DOMAIN s.emitted : s.emitted[k].at <= at}
  IN [s EXCEPT !.emitted = InsertAt(@, 1 + Cardinality(earlier),
               [at |-> at, says |-> says, order |-> o, filled |-> s.filled[o]])]

Schedule(s, e) == [s EXCEPT !.timeline = Enqueue(@, e)]

\* on_request: the placement's terms are judged at once, the rest when it is due.
Admit(s, r, at) ==
  CASE r.kind = "Place" ->
         IF s.fate[r.order] = "Filtered"
         THEN Emit([s EXCEPT !.venue[r.order] = "Refused"], at, "Filtered", r.order)
         ELSE Schedule([s EXCEPT !.venue[r.order] = "Pending", !.since[r.order] = at],
                       Act(at, "Activate", r.order))
    [] r.kind = "Cancel" ->
         IF Known(s, r.order) THEN Schedule(s, Act(at, "Cancel", r.order))
         ELSE Emit(s, at, "CancelRefused", r.order)
    [] r.kind = "Status" -> Schedule(s, Act(at, "Status", r.order))

\* A venue that cannot see its book leaves the order pending.
Activate(s, o, at) ==
  CASE s.venue[o] # "Pending" \/ ~ s.isLive -> s
    [] s.venue[o] = "Pending" /\ s.isLive /\ s.fate[o] = "Rests" ->
         Emit([s EXCEPT !.venue[o] = "Resting"], at, "Rested", o)
    [] OTHER -> Emit([s EXCEPT !.venue[o] = "Refused"], at, s.fate[o], o)

\* The bug of cancelling an order twice.
CancelAgain(s, o, at) == Emit([s EXCEPT !.venue[o] = "Canceled"], at, "Canceled", o)

VenueCancel(s, o, at) ==
  IF Open(s, o) THEN Emit([s EXCEPT !.venue[o] = "Canceled"], at, "Canceled", o)
  ELSE Emit(s, at, "CancelRefused", o)

Answer(s, o, at) ==
  Emit(s, at, CASE ~ Known(s, o) -> "NoSuch" [] Open(s, o) -> "Open" [] OTHER -> "Closed", o)

SuspendMatching(s) == [s EXCEPT !.isLive = FALSE, !.isRecovered = FALSE, !.hasMoved = TRUE]

\* A snapshot over a book that stands is a reset, then a book.
Rebuild(s) ==
  [IF s.hasBook THEN SuspendMatching(s) ELSE s EXCEPT !.hasBook = TRUE, !.isRecovered = TRUE]

\* What a public print takes from an own order that rests.
FillFrom(s, o, qty, at) ==
  LET total == Lesser(s.filled[o] + qty, Size)
  IN IF s.isLive /\ s.venue[o] = "Resting"
     THEN Emit([s EXCEPT !.filled[o] = total,
                         !.venue[o] = IF total = Size THEN "Filled" ELSE @], at, "Trade", o)
     ELSE s

Apply(s, e) ==
  CASE e.what = "Reset"    -> [SuspendMatching(s) EXCEPT !.hasBook = FALSE]
    [] e.what = "Gap"      -> SuspendMatching(s)
    [] e.what = "Whole"    -> Rebuild(s)
    [] e.what = "Print"    -> FillFrom(s, e.order, e.qty, e.at)
    [] e.what = "Activate" -> Activate(s, e.order, e.at)
    [] e.what = "Cancel"   -> VenueCancel(s, e.order, e.at)
    [] e.what = "Status"   -> Answer(s, e.order, e.at)

\* advance_to_watermark: everything due, in order of its time.
RECURSIVE Simulate(_, _)
Simulate(s, to) ==
  LET market == s.inbox # <<>> /\ Head(s.inbox).at <= to
      action == s.timeline # <<>> /\ Head(s.timeline).at <= to
      isTape == market /\ (action => Before(Head(s.inbox), Head(s.timeline)))
  IN IF ~ market /\ ~ action THEN s
     ELSE Simulate(Apply(IF isTape THEN [s EXCEPT !.inbox = Tail(@)]
                         ELSE [s EXCEPT !.timeline = Tail(@)],
                         IF isTape THEN Head(s.inbox) ELSE Head(s.timeline)), to)

\* restore_matching: the book is whole, and the orders that waited for it are judged.
RestoreMatching(s, at) ==
  LET deferred == {o \in Own : s.venue[o] = "Pending" /\ s.since[o] <= at}
  IN FoldLeft(LAMBDA t, o : Schedule(t, Act(at, "Activate", o)), [s EXCEPT !.isLive = TRUE],
              SetToSeq(deferred))
-----------------------------------------------------------------------------
(***************************************************************************)
(* The delivery schedule                                                   *)
(***************************************************************************)
\* AnswerKind of each voice.  An observation is of no order's life.
Kind(says) ==
  CASE says = "PlaceAck" -> "PlaceAck"
    [] says = "New"      -> "ReportNew"
    [] says \in {"Crossed", "Broke", "Filtered", "Rejected"} -> "Refusal"
    [] says = "NotSent"  -> "NotSent"
    [] says \in {"Trade", "CancelAck", "Canceled"} -> "Transition"
    [] says \in {"CancelRefused", "Open", "Closed", "NoSuch"} -> "Observation"

RankOf(kind) == CASE kind = "PlaceAck" -> 0 [] kind = "ReportNew" -> 1 [] OTHER -> 2

EndsByAck(says)     == says \in {"CancelAck", "Crossed", "Broke", "Filtered"}
EndsByReport(entry) == \/ entry.says \in {"Canceled", "Rejected", "NotSent"}
                       \/ entry.says = "Trade" /\ entry.filled = Size

Entries(says, e, due) ==
  [k \in DOMAIN says |->
     [says |-> says[k], order |-> e.order, filled |-> e.filled, earned |-> e.at, due |-> due,
      isForced |-> FALSE]]

\* accept: what the engine will hear of one emission, and when at the earliest.
Accept(s, e) ==
  LET due   == e.at + Ack
      heard == CASE e.says = "Rested"   -> <<"PlaceAck", "New">>
                 [] e.says = "Canceled" -> <<"CancelAck", "Canceled">>
                 [] e.says \in {"Crossed", "Broke"} -> <<e.says, "Rejected">>
                 [] OTHER -> <<e.says>>
  IN [s EXCEPT !.schedule = @ \o Entries(heard, e, due),
               !.spoken[e.order].barrier = IF e.says = "Rested" THEN due ELSE @]

\* drain_through: the emissions of up to `to`; they are kept in order of time.
DrainThrough(s, to) ==
  FoldLeft(Accept, [s EXCEPT !.emitted = SelectSeq(@, LAMBDA e : e.at > to)],
           SelectSeq(s.emitted, LAMBDA e : e.at <= to))

\* An answer about an order waits for the NEW that is on its way.
Release(s, entry) ==
  IF Kind(entry.says) \in {"PlaceAck", "ReportNew", "Observation"} THEN entry.due
  ELSE Greater(entry.due, s.spoken[entry.order].barrier)

\* The order of what is due: release, rank, time earned; a forced exit is of sequence 0.
Turn(s, k) ==
  LET entry == s.schedule[k]
  IN <<Release(s, entry), RankOf(Kind(entry.says)), entry.earned,
       IF entry.isForced THEN 0 ELSE 1, k>>

Sooner(a, b) == \E i \in DOMAIN a : a[i] < b[i] /\ \A j \in 1 .. i - 1 : a[j] = b[j]

\* What the schedule asserts of each order before it speaks of it again.
FaultOf(told, entry) ==
  LET kind == Kind(entry.says)
  IN IF kind = "Observation" THEN None
     ELSE IF told.report THEN "after its terminal report"
     ELSE IF entry.says \notin {"Crossed", "Broke", "Filtered"} /\ entry.filled < told.filled
     THEN "filled went backwards"
     ELSE IF kind = "ReportNew" /\ told.new THEN "a second NEW"
     ELSE IF kind = "Transition" /\ ~ told.new THEN "changed before NEW"
     ELSE IF kind \in {"Refusal", "NotSent"} /\ told.new THEN "never rested after NEW"
     ELSE IF EndsByAck(entry.says) /\ told.ack THEN "a second terminal ack"
     ELSE None

Record(told, entry) ==
  IF Kind(entry.says) = "Observation" THEN told
  ELSE [new     |-> told.new \/ entry.says = "New",
        ack     |-> told.ack \/ EndsByAck(entry.says),
        report  |-> told.report \/ EndsByReport(entry),
        filled  |-> Greater(told.filled, entry.filled),
        barrier |-> IF entry.says = "New" THEN Unseen ELSE told.barrier]

\* speak: the entry leaves the schedule and is recorded.
Say(s, k) ==
  LET entry == s.schedule[k]
      told  == s.spoken[entry.order]
  IN [s EXCEPT !.schedule = RemoveAt(@, k),
               !.spoken[entry.order] = Record(told, entry),
               !.fault = IF @ = None THEN FaultOf(told, entry) ELSE @]

\* advance_to: everything whose release has come, in order.
RECURSIVE Speak(_, _)
Speak(s, to) ==
  LET ready == {k \in DOMAIN s.schedule : Release(s, s.schedule[k]) <= to}
      first == CHOOSE k \in ready : \A j \in ready \ {k} : Sooner(Turn(s, k), Turn(s, j))
  IN IF ready = {} THEN [sim |-> s, said |-> <<>>]
     ELSE [Speak(Say(s, first), to) EXCEPT !.said = <<s.schedule[first]>> \o @]

Forced(says, s, o, at) ==
  [says |-> says, order |-> o, filled |-> s.filled[o], earned |-> at, due |-> at, isForced |-> TRUE]

\* An order that never rested takes back all that was to be said of it.
Withdraw(s, o, at) ==
  [s EXCEPT !.schedule = Append(
                   SelectSeq(@, LAMBDA e : e.order # o \/ Kind(e.says) = "Observation"),
                   Forced("NotSent", s, o, at)),
            !.spoken[o].barrier = Unseen]

Pull(s, o, at) ==
  IF \E k \in DOMAIN s.schedule :
       LET e == s.schedule[k] IN e.order = o /\ (EndsByAck(e.says) \/ EndsByReport(e))
  THEN s
  ELSE [s EXCEPT !.schedule = Append(@, Forced("Canceled", s, o, at))]

\* force_sweep: nothing waits any longer, and the orders forced out are spoken of.
ForceSweep(s, at, pending, resting) ==
  LET now == [s EXCEPT !.schedule = [k \in DOMAIN @ |-> [@[k] EXCEPT !.due = Lesser(@, at)]],
                       !.spoken = [o \in Own |-> [@[o] EXCEPT !.barrier = Lesser(@, at)]]]
  IN FoldLeft(LAMBDA t, o : IF o \in pending THEN Withdraw(t, o, at) ELSE Pull(t, o, at),
              now, SetToSeq(pending \cup resting))
-----------------------------------------------------------------------------
(***************************************************************************)
(* The driver: the core's requests out, the venue's voices in              *)
(***************************************************************************)
\* apply: every request is held for its answer and goes to the venue.
Send(s, did, at) ==
  FoldLeft(LAMBDA t, r : Admit([t EXCEPT !.held = @ (+) SetToBag({r})], r, at),
           [s EXCEPT !.core = did.core], SetToSeq(did.sends))

OnCommand(s, c, at) ==
  IF c.kind = "Place" /\ ~ AdmitsPlace(s.core, c.order)
  THEN [s EXCEPT !.venue[c.order] = "NotSent"]
  ELSE Send(IF c.kind = "Place" THEN [s EXCEPT !.fate[c.order] = c.fate] ELSE s,
            CASE c.kind = "Place"  -> Does([s.core EXCEPT !.mirror = @ \cup {c.order}],
                                           {Req("Place", c.order)})
              [] c.kind = "Cancel" -> CancelOne(s.core, c.order)
              [] c.kind = "Status" -> Does(s.core, {Req("Status", c.order)})
              [] c.kind = "Halt"   -> BeginSweep(s.core, "Halt"),
            at)

\* The request a response answers; a report answers none.
Asked(says) ==
  CASE says \in {"PlaceAck", "Crossed", "Broke", "Filtered"} -> "Place"
    [] says \in {"CancelAck", "CancelRefused"} -> "Cancel"
    [] says \in {"Open", "Closed", "NoSuch"} -> "Status"
    [] OTHER -> None

Verdict(entry) ==
  CASE entry.says \in {"PlaceAck", "New", "Open"} -> "live"
    [] entry.says = "Trade" -> IF entry.filled = Size THEN "gone" ELSE "live"
    [] entry.says \in {"CancelAck", "Canceled", "Crossed", "Rejected", "Closed", "NoSuch"} -> "gone"
    [] entry.says = "CancelRefused" -> "ambiguous"
    [] entry.says \in {"Broke", "Filtered", "NotSent"} -> "fatal"

\* A response whose request is not held says nothing.
Fold(s, entry, at) ==
  LET r == Req(Asked(entry.says), entry.order)
  IN IF r.kind # None /\ ~ BagIn(r, s.held) THEN s
     ELSE Send([s EXCEPT !.held = @ (-) SetToBag({r})],
               OnEvent(s.core, entry.order, Verdict(entry)), at)

FoldAll(spoken, at) == FoldLeft(LAMBDA s, e : Fold(s, e, at), spoken.sim, spoken.said)

\* The venue up to `to`, and what it says by then, folded in the order it is said.
AdvanceDriver(s, to) ==
  FoldAll(Speak(DrainThrough(Simulate([s EXCEPT !.applied = to], to), to), to), to + Ack + Entry)

\* The bug of a new session that keeps the end of the last one's sweep.
ConnectSwept(s) == [s EXCEPT !.core = OnConnected(@)]

\* open and announce_readiness, on the core.
Connect(s) == [s EXCEPT !.core = OnConnected([@ EXCEPT !.isSwept = FALSE])]

StreamReady(c) == ArmReadiness([c EXCEPT !.isPending = TRUE])

\* The bug of a reset that empties the mirror.
CloseForgetting(s) == [s EXCEPT !.core = [OnDisconnected(@) EXCEPT !.mirror = {}]]

CloseDriver(s) == [s EXCEPT !.core = OnDisconnected(@)]
-----------------------------------------------------------------------------
(***************************************************************************)
(* The actor                                                               *)
(***************************************************************************)
Withdrawn(s) == [s EXCEPT !.proofs = {}, !.armedAt = s.marks, !.isAnnounced = FALSE]

\* sync_market_recovery: a reset of the market closes the venue until all is proved again.
SyncRecovery(s) ==
  LET t == IF s.hasMoved
           THEN [Withdrawn(CloseDriver(s)) EXCEPT !.hasMoved = FALSE, !.hasOpened = FALSE]
           ELSE s
  IN IF t.isRecovered THEN [t EXCEPT !.proofs = @ \cup {"Bridged"}] ELSE t

AdvanceVenue(s, to) == IF to < s.applied THEN s ELSE SyncRecovery(AdvanceDriver(s, to))

HasHorizon(s) == \A l \in Lanes : s.marks[l] # Unseen
Horizon(s)    == Lesser(s.marks["Command"] + Entry, s.marks["Market"])

OpenVenue(s) ==
  IF s.hasOpened \/ s.isParked \/ ~ HasHorizon(s) THEN s
  ELSE [Connect(s) EXCEPT !.hasOpened = TRUE]

\* Each command runs in a venue that has seen all that came before it.
AdmitNext(s) == OnCommand([s EXCEPT !.due = Tail(@)], Head(s.due), Head(s.due).at)

RECURSIVE Advance(_)
Advance(s) ==
  CASE ~ HasHorizon(s) -> s
    [] HasHorizon(s) /\ s.due # <<>> /\ Head(s.due).at <= Horizon(s) ->
         Advance(AdmitNext(AdvanceVenue(s, Head(s.due).at - 1)))
    [] OTHER -> AdvanceVenue(s, Horizon(s))

ArmVenue(s) ==
  IF \/ s.isParked \/ s.core.phase # "Resyncing" \/ s.applied = Unseen
     \/ s.isAnnounced \/ s.proofs # Proofs
  THEN s
  ELSE LET t == IF s.isLive THEN s ELSE RestoreMatching(s, s.applied)
       IN [t EXCEPT !.isAnnounced = TRUE, !.core = StreamReady(@)]

\* force_exit_open_orders: one that never rested is withdrawn, any other is pulled.
ForceOut(s, orders, at) ==
  LET pending == {o \in orders : s.venue[o] = "Pending"}
  IN ForceSweep([s EXCEPT !.venue = [o \in Own |-> IF o \in orders THEN "Canceled" ELSE @[o]]],
                at, pending, orders \ pending)

Unasked(s, did) ==
  {o \in Own : Open(s, o)} \ {r.order : r \in {q \in did.sends : q.kind = "Cancel"}}

\* begin_sweep: cancel what the core knows of, force out what it does not.
Force(s, did) == ForceOut(Send(s, did, s.applied), Unasked(s, did), s.applied)

SweepOnce(s, reason) ==
  AdvanceVenue(Force(s, BeginSweep(s.core, reason)), s.applied + Entry + Ack)

RECURSIVE SweepAgain(_, _, _)
SweepAgain(passes, s, reason) ==
  IF passes = 0 \/ (s.core.isSwept /\ s.schedule = <<>>) THEN s
  ELSE SweepAgain(passes - 1, SweepOnce(s, reason), reason)

Sweep(s, reason) ==
  IF s.applied = Unseen THEN s ELSE SweepAgain(Passes - 1, SweepOnce(s, reason), reason)

Suspend(s) ==
  CASE ~ s.isLive -> s
    [] s.isLive   ->
         LET t == IF s.applied # Unseen THEN [SuspendMatching(s) EXCEPT !.hasMoved = FALSE] ELSE s
         IN [Withdrawn(CloseDriver(t)) EXCEPT !.hasOpened = FALSE]

Flip(s) ==
  IF s.isParked THEN [s EXCEPT !.isParked = FALSE]
  ELSE Suspend(Sweep([s EXCEPT !.isParked = TRUE], "Park"))

Observe(s, lane, at) == [s EXCEPT !.marks[lane] = Greater(@, at)]

\* poll_lanes: a watermark past the one a lane was armed at proves that it advances.
Polled(s) == [s EXCEPT !.proofs = @ \cup {l \in Lanes : s.marks[l] > s.armedAt[l]}]

\* The rest of a turn, once its inputs are in.
Rest(s) == ArmVenue(Advance(OpenVenue(Polled(s))))

\* drain_final_commands: what was still due is admitted, then the venue catches up.
CatchUp(s, at) == AdvanceVenue(s, Greater(at, s.applied))

DrainFinal(s) ==
  IF s.due = <<>> THEN s
  ELSE CatchUp(FoldLeft(LAMBDA t, c : OnCommand(t, c, c.at), [s EXCEPT !.due = <<>>], s.due),
               Last(s.due).at)

\* shut_down
Ended(s) == Sweep(DrainFinal(Advance(Polled(s))), "Shutdown")
-----------------------------------------------------------------------------
Becomes(s) ==
  /\ sim' = s
  /\ end' = IF s.fault # None THEN "panicked" ELSE "running"

Running == end = "running"

Stamps(lane) == {at \in {sim.marks[lane], sim.marks[lane] + 1} : at \in 0 .. MaxMark}

\* A turn in which the run state changed.
FlipRunState ==
  /\ Running
  /\ sim.flips < MaxFlips
  /\ Becomes(Rest([Flip(sim) EXCEPT !.flips = @ + 1]))

\* A turn that hears nothing but a watermark.
HearWatermark ==
  \E lane \in Lanes :
    /\ Running
    /\ sim.marks[lane] < MaxMark
    /\ Becomes(Rest(Observe(sim, lane, sim.marks[lane] + 1)))

Issued(o) == sim.venue[o] # "Unplaced" \/ \E k \in DOMAIN sim.due : sim.due[k].order = o

\* What the hot thread may ask for next.  Each order is placed once.
Commands ==
  {[kind |-> "Place", order |-> o, fate |-> f] : o \in {p \in Own : ~ Issued(p)}, f \in Fates}
  \cup {[kind |-> k, order |-> o, fate |-> None] : k \in {"Cancel", "Status"}, 
                 o \in {p \in Own : Issued(p)}}
  \cup {[kind |-> "Halt", order |-> None, fate |-> None]}

\* A command, by its issue stamp.
HearCommand ==
  \E c \in Commands, at \in Stamps("Command") :
    /\ Running
    /\ sim.commands < MaxCommands
    /\ LET t == Observe(sim, "Command", at)
       IN Becomes(Rest([t EXCEPT !.due = Append(@, [at |-> at + Entry] @@ c), !.commands = @ + 1]))

MarketEvents ==
  {[what |-> w, order |-> None, qty |-> 0] : w \in {"Reset", "Gap", "Whole"}}
  \cup {[what |-> "Print", order |-> o, qty |-> qty] : o \in Own, qty \in 1 .. Size}

HearMarket ==
  \E e \in MarketEvents, at \in Stamps("Market") :
    /\ Running
    /\ sim.events < MaxEvents
    /\ LET t == Observe(sim, "Market", at)
       IN Becomes(Rest([t EXCEPT !.inbox = Enqueue(@, [at |-> at] @@ e), !.events = @ + 1]))

\* is_stopping: asked to stop, a fatal signal, or a tap whose producer is gone.
ShutDown ==
  /\ Running
  /\ sim' = Ended(sim)
  /\ end' = CASE sim'.fault # None -> "panicked"
              [] sim'.fault = None /\ (sim'.applied = Unseen \/ sim'.core.isSwept) -> "settled"
              [] OTHER -> "unsettled"

Init == \E parked \in BOOLEAN : sim = InitSim(parked) /\ end = "running"

Next == FlipRunState \/ HearWatermark \/ HearCommand \/ HearMarket \/ ShutDown

Spec == Init /\ [][Next]_vars
-----------------------------------------------------------------------------
\* What the schedule asserts of each order (NEW once and before any change, one
\* terminal, never less filled than before) holds, but for one case: a cancel, of a
\* command or a sweep, that finds its order waiting for the book to be whole again.
SpeaksInOrder ==
  \/ sim.fault = None
  \/ /\ sim.fault = "changed before NEW"
     /\ \E o \in Own : sim.venue[o] = "Canceled" /\ ~ sim.spoken[o].new

\* The core knows of every order the venue has open, through resets, parks and
\* answers that come late, and lets none be placed while the market is suspended.
EdgeMatchesVenue ==
  /\ \A o \in Own : Open(sim, o) => o \in sim.core.mirror
  /\ sim.core.phase = "Quoting" => sim.isLive

\* An actor that reports itself settled has left no order open or in doubt, and has
\* said what became of each: its end, and all that it filled.
SettledIsResolved ==
  end = "settled" =>
    /\ sim.core.mirror = {}
    /\ \A o \in Own : /\ ~ Open(sim, o)
                      /\ Known(sim, o) => /\ sim.spoken[o].ack \/ sim.spoken[o].report
                                          /\ sim.spoken[o].filled = sim.filled[o]
=============================================================================
