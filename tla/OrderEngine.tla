----------------------------- MODULE OrderEngine -----------------------------
(***************************************************************************)
(* The hot thread's order engine for one instrument (hot/exec): the slots  *)
(* of both sides, the reservations, the safety latches, and the two ways   *)
(* in: a venue event and the spin.  Everything runs on one thread, so an   *)
(* event or a spin is one step; a spin is the composition of its passes in *)
(* the order the code runs them.                                           *)
(*                                                                         *)
(* Data the properties do not tell apart is an input.  What the strategy   *)
(* declares and what the price, book, window, exposure and loss gates make *)
(* of it is a `want` per ladder level; which slots timed out or are due    *)
(* for reaping, and which closed slot of a level is the oldest, stand for  *)
(* the timestamps.  Every order spends one unit of its side's asset per    *)
(* unit of quantity.  The command bank is kept as its length.              *)
(***************************************************************************)
EXTENDS OrderSlot, Integers, FiniteSets, FiniteSetsExt, Functions

CONSTANTS
  Levels,         \* MAX_QUOTE_LEVELS: rungs of a side's ladder
  SlotsPerLevel,  \* SLOTS_PER_LEVEL: four in the code
  MaxOrders,      \* settings.max_orders_per_side
  MaxRejects,     \* settings.max_consecutive_rejects
  SilenceSpins,   \* settings.exec_silence_spins
  \* The inputs explored.
  Holds,          \* values of settings.holds_reservations_until_settled
  Wants,          \* what may be wanted of a rung
  QuotedSides,    \* sides the strategy quotes
  FlattenQtys,    \* sizes plan_flatten may come to; 0: no flatten, or refused
  Closings,       \* whether the quote window may be closing
  Sessions,       \* verdicts of session_permission
  Rooms,          \* whether the placement budget may admit a quote
  LaneRooms,      \* commands the lane to the edge may take in one spin
  EventKinds,     \* venue events delivered
  Balances,       \* free balances the venue may state
  LateSlots,      \* slots a snapshot may name after their order was reaped
  \* Bounds of the model.
  MaxRecon,       \* reconciliation passes
  MaxWatermark,   \* account updates
  MaxPosition,    \* absolute position
  MaxReserved     \* units reserved on a side

Buy   == 0
Sell  == 1
Sides == {Buy, Sell}
Level == 0 .. Levels - 1
Slot  == 0 .. 2 * Levels * SlotsPerLevel - 1

SideOf(s)  == s \div (Levels * SlotsPerLevel)
LevelOf(s) == (s % (Levels * SlotsPerLevel)) \div SlotsPerLevel

SideSlots(side)         == {s \in Slot : SideOf(s) = side}
LevelSlots(side, level) == {s \in SideSlots(side) : LevelOf(s) = level}

ASSUME EngineAssumption ==
  /\ Levels \in Nat \ {0} /\ SlotsPerLevel \in Nat \ {0}
  /\ MaxOrders \in 1 .. Levels
  /\ MaxAmends \in Nat /\ MaxRejects \in Nat /\ SilenceSpins \in Nat
  /\ Holds \subseteq BOOLEAN /\ LateSlots \subseteq Slot
  /\ Wants \subseteq [quote : BOOLEAN, ok : BOOLEAN, moved : BOOLEAN, qty : Nat \ {0}]
  /\ FlattenQtys \subseteq Nat /\ LaneRooms \subseteq Nat /\ Balances \subseteq Int

\* The bug of a bank sized for the orders of one side.
BankCapacityTooSmall == MaxOrders

\* COMMAND_BANK_CAPACITY for one instrument.
BankCapacity == Cardinality(Slot) + 6

HaltReasons == {"RejectStreak", "RealisedLoss", "FatalReject", "SlotLeak",
                "DuplicateResting", "CommandBankOverflow"}

VARIABLES
  engine,
  fate    \* per slot, what has been said of its order: "open", "unsent" or "known"

vars == <<engine, fate>>

-----------------------------------------------------------------------------
(***************************************************************************)
(* Readers of the table                                                    *)
(***************************************************************************)
\* The bug is_awaiting_answer guards against: an order in doubt looks answered.
AwaitingKnownAnswer(e, side) ==
  \E s \in SideSlots(side) : e.slots[s].state \in InFlight \ {"Unknown"}

AwaitingAnswer(e, side) == \E s \in SideSlots(side) : e.slots[s].state \in InFlight

PossiblyLive(e, side) ==
  Cardinality({s \in SideSlots(side) : e.slots[s].state \in Working})

\* The working order occupying a rung, if any: the first one that is not marketable.
Occupying(e, side, level) ==
  {s \in LevelSlots(side, level) :
     e.slots[s].state \in Working /\ e.slots[s].style # "Immediate"}

\* ... which the reconciler is shown only while it reads Live.
RestingLive(e, side, level) ==
  LET occupying == Occupying(e, side, level) IN
  IF occupying = {} THEN {} ELSE {Min(occupying)} \cap {s \in Slot : e.slots[s].state = "Live"}

IsReady(e) == e.streamReady /\ e.hasBalances /\ e.hasOpenOrders

Spendable(e, side) == e.free[side] - e.reserved[side]

-----------------------------------------------------------------------------
(***************************************************************************)
(* The halt latch and the command bank                                     *)
(***************************************************************************)
HasRoom(e) == e.banked < BankCapacity

\* The bug the latch guards against: a later reason replaces the first.
HaltAgain(e, reason) ==
  [e EXCEPT !.halt = reason, !.banked = IF HasRoom(e) THEN @ + 1 ELSE @]

\* One-way; the sweep of our orders goes to the bank if it has room.
Halt(e, reason) ==
  IF e.halt # "Armed" THEN e
  ELSE [e EXCEPT !.halt = reason, !.banked = IF HasRoom(e) THEN @ + 1 ELSE @]

\* bank_or_halt for n commands in a row: those that fit are banked.
BankOrHalt(e, n) ==
  IF e.banked + n <= BankCapacity
  THEN [e EXCEPT !.banked = @ + n]
  ELSE Halt([e EXCEPT !.banked = BankCapacity], "CommandBankOverflow")

-----------------------------------------------------------------------------
(***************************************************************************)
(* Reservations                                                            *)
(***************************************************************************)
\* The bug the watermark gates guard against on a venue that does not lock
\* funds: a balance update frees what a resting order has committed.
ReleaseDueOnUpdate(e, slot) ==
  /\ slot.reserved > 0
  /\ slot.state # "PendingNew"
  /\ e.watermark > slot.reservedAt

\* Whether release_reservation would free what the slot holds.
ReleaseDue(e, slot) ==
  /\ slot.reserved > 0
  /\ IF e.holds THEN slot.state # "PendingNew" /\ e.watermark > slot.reservedAt
     ELSE /\ slot.state \notin Working
          /\ slot.filled = 0 \/ e.watermark > slot.reservedAt

\* The bug that frees a reservation twice: the slot still claims to hold it.
FreeSlotKeepingClaim(e, s) ==
  [e EXCEPT !.reserved[SideOf(s)] = @ - e.slots[s].reserved]

FreeSlot(e, s) ==
  [e EXCEPT !.reserved[SideOf(s)] = @ - e.slots[s].reserved, !.slots[s].reserved = 0]

ReleaseSlot(e, s) == IF ReleaseDue(e, e.slots[s]) THEN FreeSlot(e, s) ELSE e

Holdings(e) == [s \in Slot |-> e.slots[s].reserved]

\* The scan of retry_reservation_releases: slots are freed independently.
RetryReleases(e) ==
  LET due == {s \in Slot : ReleaseDue(e, e.slots[s])}
      freed(side) == SumFunctionOnSet(Holdings(e), due \cap SideSlots(side))
  IN [e EXCEPT !.reserved = [side \in Sides |-> @[side] - freed(side)],
               !.slots = [s \in Slot |-> IF s \in due THEN [@[s] EXCEPT !.reserved = 0] ELSE @[s]]]

-----------------------------------------------------------------------------
(***************************************************************************)
(* Minting: act_on, place, cancel_slot                                     *)
(***************************************************************************)
Claim(e, s, qty, style) ==
  [e EXCEPT !.slots[s] = [EmptySlot EXCEPT
                            !.state = "PendingNew", !.style = style, !.qty = qty,
                            !.placed = e.recon, !.reserved = qty, !.reservedAt = e.watermark],
            !.reserved[SideOf(s)] = @ + qty]

\* The claim unwound when the bank refuses the placement.
Unwind(e, s) ==
  Halt([FreeSlot(e, s) EXCEPT !.slots[s].state = "Rejected"], "CommandBankOverflow")

\* free_or_oldest_closed, then the claim, the reservation and the command.
Place(e, side, level, qty, style, oldest) ==
  LET mine   == LevelSlots(side, level)
      free   == {s \in mine : e.slots[s].state = "Free"}
      closed == {s \in mine : e.slots[s].state \in Closed}
      s      == IF free # {} THEN Min(free)
                ELSE IF oldest \in closed THEN oldest ELSE Min(closed)
  IN IF free \cup closed = {} THEN Halt(e, "SlotLeak")
     ELSE IF HasRoom(e) THEN BankOrHalt(Claim(e, s, qty, style), 1)
     ELSE Unwind(Claim(e, s, qty, style), s)

CancelSlot(e, s) ==
  IF HasRoom(e) THEN BankOrHalt([e EXCEPT !.slots[s].state = "CancelInFlight"], 1)
  ELSE BankOrHalt(e, 1)

AmendSlot(e, s) ==
  IF HasRoom(e) THEN BankOrHalt([e EXCEPT !.slots[s].state = "AmendInFlight"], 1)
  ELSE BankOrHalt(e, 1)

-----------------------------------------------------------------------------
(***************************************************************************)
(* The spin, pass by pass.  `in` is what the spin finds:                   *)
(*   reap, late  slots whose reap window or answer deadline has passed     *)
(*   closing     the quote window is past its stop                         *)
(*   flatten     the size plan_flatten comes to, 0 if none is declared     *)
(*   session     the verdict of session_permission                        *)
(*   wants       per side and rung, what the gates leave of the quotes     *)
(*   room        whether the placement budget admits a quote               *)
(*   oldest      the closed slot a full level would evict                  *)
(*   lane        how many banked commands the edge's lane accepts          *)
(***************************************************************************)
Reap(e, in) ==
  [e EXCEPT !.slots = [s \in Slot |-> IF s \in in.reap THEN EmptySlot ELSE @[s]]]

\* sweep_timeouts: every slot in doubt for too long is unknown, and asked about.
ChaseTimeouts(e, in) ==
  BankOrHalt([e EXCEPT !.slots = [s \in Slot |-> IF s \in in.late
                                                 THEN [@[s] EXCEPT !.state = "Unknown"]
                                                 ELSE @[s]],
                       !.recon = @ + Cardinality(in.late)],
             Cardinality(in.late))

DetectSilence(e) ==
  LET silent == IF e.silent < SilenceSpins THEN e.silent + 1 ELSE e.silent IN
  IF silent >= SilenceSpins /\ \E s \in Slot : e.slots[s].state \in Working
  THEN BankOrHalt([e EXCEPT !.silent = 0, !.recon = @ + 1], 1)
  ELSE [e EXCEPT !.silent = silent]

EnforceRestingLimit(e) ==
  IF \E side \in Sides : PossiblyLive(e, side) > MaxOrders
  THEN Halt(e, "DuplicateResting") ELSE e

\* cancel_resting_orders over both sides; it stops at the first refusal.
SweepClosingWindow(e, in) ==
  LET resting == {s \in Slot : IsRestingQuote(e.slots[s])}
      pulled  == {s \in resting :
                    e.banked + Cardinality({t \in resting : t < s}) < BankCapacity}
  IN IF ~in.closing THEN e
     ELSE BankOrHalt([e EXCEPT !.slots = [s \in Slot |-> IF s \in pulled
                                                         THEN [@[s] EXCEPT !.state = "CancelInFlight"]
                                                         ELSE @[s]]],
                     Cardinality(resting))

ReducingSide(position) == IF position > 0 THEN Sell ELSE Buy

\* One marketable order on the reducing side, at level zero.
FlattenPass(e, in) ==
  LET side == ReducingSide(e.position) IN
  IF \/ e.halt # "Armed" \/ ~IsReady(e)
     \/ in.flatten = 0 \/ e.position = 0
     \/ AwaitingAnswer(e, side) \/ PossiblyLive(e, side) >= MaxOrders
  THEN e
  ELSE Place(e, side, 0, in.flatten, "Immediate", in.oldest)

-----------------------------------------------------------------------------
\* desired_ladder and admitted_quote: whether the rung's declaration passes the
\* engine's own gates.  Rungs past the order limit are never declared.
Admitted(e, side, level, in) ==
  /\ level < MaxOrders
  /\ in.wants[side][level].quote
  /\ e.halt = "Armed"
  /\ IsReady(e)
  /\ in.session = "Both" \/ (in.session = "ReducingOnly" /\ side = ReducingSide(e.position))
  /\ ~in.closing

\* reconcile_side: what one rung asks for.
Decide(e, side, level, in) ==
  LET want    == in.wants[side][level]
      resting == RestingLive(e, side, level)
      slot    == e.slots[CHOOSE s \in resting : TRUE]
  IN IF ~Admitted(e, side, level, in) THEN IF resting = {} THEN "Nothing" ELSE "Cancel"
     ELSE IF ~want.ok THEN "Reject"
     ELSE IF resting = {} THEN IF Spendable(e, side) >= want.qty THEN "Place" ELSE "Reject"
     ELSE IF want.moved \/ want.qty <= slot.filled THEN "Cancel"
     ELSE IF want.qty = slot.qty THEN "Nothing"
     ELSE IF want.qty > slot.qty \/ slot.amends >= MaxAmends THEN "Cancel"
     ELSE "Amend"

\* The bug place_refusal guards against: only the rungs that rest are counted.
PlaceRefusedByResting(e, side, in) ==
  \/ Cardinality({s \in SideSlots(side) : IsRestingQuote(e.slots[s])}) >= MaxOrders
  \/ ~in.room

PlaceRefused(e, side, in) == PossiblyLive(e, side) >= MaxOrders \/ ~in.room

\* reconcile_ladder: one command per side, a cancel before an amend before a
\* placement, and none at all while the venue owes the side an answer.
ReconcileLadder(e, side, in) ==
  LET decided == [level \in Level |-> Decide(e, side, level, in)]
      asking(outcome) == {level \in Level : decided[level] = outcome}
      first(outcome)  == Min(asking(outcome))
      target(level)   == Min(Occupying(e, side, level))
  IN IF AwaitingAnswer(e, side) THEN e
     ELSE IF asking("Cancel") # {} THEN CancelSlot(e, target(first("Cancel")))
     ELSE IF asking("Amend") # {} THEN AmendSlot(e, target(first("Amend")))
     ELSE IF asking("Place") # {} /\ ~PlaceRefused(e, side, in)
     THEN Place(e, side, first("Place"), in.wants[side][first("Place")].qty, "PostOnly", in.oldest)
     ELSE e

QuotePass(e, in) ==
  LET judged == IF in.session = "Neither" THEN Halt(e, "RealisedLoss") ELSE e IN
  ReconcileLadder(ReconcileLadder(judged, Buy, in), Sell, in)

\* The bug drain_into's saturating count guards against.
DrainPastEmpty(e, in) == [e EXCEPT !.banked = @ - in.lane]

\* drain_into: commands leave in order, as many as the lane takes.
Drain(e, in) == [e EXCEPT !.banked = IF @ <= in.lane THEN 0 ELSE @ - in.lane]

\* The passes before the drain, in the order on_spin runs them.
Decisions(e, in) ==
  QuotePass(FlattenPass(SweepClosingWindow(EnforceRestingLimit(DetectSilence(
    ChaseTimeouts(Reap(e, in), in))), in), in), in)

OnSpin(e, in) == Drain(Decisions(e, in), in)

-----------------------------------------------------------------------------
(***************************************************************************)
(* Venue events                                                            *)
(***************************************************************************)
IsEdgeMade(ev) == ev.kind \in {"PlaceNotSent", "AmendNotSent"}

\* record_outcome: the reject streak and the fatal halt.
RecordOutcome(e, ev, state) ==
  CASE ev.reject = "none" ->
         IF state = "Live" /\ ~IsEdgeMade(ev) THEN [e EXCEPT !.streak = 0] ELSE e
    [] ev.reject = "Fatal" -> Halt(e, "FatalReject")
    [] ev.reject \in {"Refused", "Gone"} -> e
    [] ev.reject \in {"StillLive", "Ambiguous"} ->
         LET counted == [e EXCEPT !.streak = IF @ < MaxRejects THEN @ + 1 ELSE @]
         IN IF counted.streak >= MaxRejects THEN Halt(counted, "RejectStreak") ELSE counted

Signed(side, qty) == IF side = Buy THEN qty ELSE -qty

\* apply_to_slot: the transition, the fill, the reservation, the outcome.
ApplyToSlot(e, s, ev) ==
  LET before == e.slots[s]
      after  == Apply(before, ev)
      booked == [e EXCEPT !.slots[s] = after,
                          !.position = @ + Signed(SideOf(s), after.filled - before.filled)]
      released == IF ev.kind = "PlaceNotSent" THEN FreeSlot(booked, s) ELSE ReleaseSlot(booked, s)
  IN RecordOutcome(released, ev, after.state)

\* adopt: a snapshot names an order of ours in a slot that is free.
Adopt(e, s, ev) ==
  [e EXCEPT !.slots[s] = [EmptySlot EXCEPT !.state = "Unknown", !.qty = ev.qty,
                                           !.placed = ev.recon]]

Heard(e) == [e EXCEPT !.silent = 0]

OnOrderEvent(e, s, ev) ==
  LET heard == Heard(e) IN
  IF e.slots[s].state # "Free" THEN ApplyToSlot(heard, s, ev)
  ELSE IF ev.kind = "SnapshotOrder" THEN ApplyToSlot(Adopt(heard, s, ev), s, ev)
  ELSE heard                                                    \* orphan

\* invalidate_all under a stream reset, which also disarms readiness.
OnStreamReset(e) ==
  [Heard(e) EXCEPT !.streamReady = FALSE, !.hasOpenOrders = FALSE,
                   !.slots = [s \in Slot |-> IF @[s].state \in Working
                                             THEN [@[s] EXCEPT !.state = "Unknown"] ELSE @[s]]]

OnStreamReady(e) == [Heard(e) EXCEPT !.streamReady = TRUE]

\* The bug the placed check guards against: an order younger than the pass.
IsUnnamed(slot, recon) == slot.state \in Working /\ slot.seen < recon

\* What a pass may retire: not named by it, and placed before it began.
IsUnseen(slot, recon) ==
  slot.state \in Working /\ slot.seen < recon /\ slot.placed < recon

OnSnapshotEnd(e, recon) ==
  [Heard(e) EXCEPT !.hasOpenOrders = TRUE,
                   !.slots = [s \in Slot |-> IF IsUnseen(@[s], recon)
                                             THEN [@[s] EXCEPT !.state = "ReconciledGone"]
                                             ELSE @[s]]]

\* on_account: absolute balances, the watermark, then the releases it allows.
\* The chunk restates both assets; `tick` is whether its stamp is a later one.
OnAccount(e, free, isSnapshot, tick) ==
  RetryReleases([e EXCEPT !.free = [side \in Sides |-> free], !.watermark = @ + tick,
                          !.hasBalances = @ \/ isSnapshot])

-----------------------------------------------------------------------------
(***************************************************************************)
(* Initial state and steps                                                 *)
(***************************************************************************)
Init ==
  /\ \E holds \in Holds :
     engine = [slots |-> [s \in Slot |-> EmptySlot], holds |-> holds,
               free |-> [side \in Sides |-> 0], reserved |-> [side \in Sides |-> 0],
               watermark |-> 0, hasBalances |-> FALSE,
               streamReady |-> FALSE, hasOpenOrders |-> FALSE,
               halt |-> "Armed", streak |-> 0, recon |-> 0, silent |-> 0,
               position |-> 0, banked |-> 0]
  /\ fate = [s \in Slot |-> "open"]

InBounds ==
  /\ engine'.recon <= MaxRecon
  /\ engine'.position \in -MaxPosition .. MaxPosition
  /\ \A side \in Sides : engine'.reserved[side] <= MaxReserved

Minted(s) == engine.slots[s].state # "PendingNew" /\ engine'.slots[s].state = "PendingNew"

Spin(in) ==
  /\ engine' = OnSpin(engine, in)
  /\ fate' = [s \in Slot |-> IF Minted(s) \/ engine'.slots[s].state = "Free" THEN "open" ELSE fate[s]]
  /\ InBounds

NoQuote == [quote |-> FALSE, ok |-> FALSE, moved |-> FALSE, qty |-> 0]

WantsMade(choice) ==
  [side \in Sides |-> IF side \in QuotedSides THEN choice[side] ELSE [l \in Level |-> NoQuote]]

\* What the strategy wants, and the slot a placement may take, count only in an engine
\* that may quote.
SpinInputs ==
  LET closed   == {s \in Slot : engine.slots[s].state \in Closed}
      inFlight == {s \in Slot : engine.slots[s].state \in InFlight}
      quotes   == engine.halt = "Armed" /\ IsReady(engine)
      choices  == IF quotes THEN [QuotedSides -> [Level -> Wants \cup {NoQuote}]]
                  ELSE {[side \in QuotedSides |-> [l \in Level |-> NoQuote]]}
  IN
  [reap    : SUBSET closed,
   late    : {late \in SUBSET inFlight : engine.recon + Cardinality(late) <= MaxRecon},
   closing : Closings, session : Sessions, room : Rooms, lane : LaneRooms,
   flatten : {q \in FlattenQtys : q <= engine.position \/ q <= -engine.position},
   oldest  : IF quotes /\ closed # {} THEN closed ELSE {0},
   wants   : {WantsMade(choice) : choice \in choices}]

(***************************************************************************)
(* What the venue and the edge may say of the order in slot s: answers and *)
(* reports in any order and any number of times, each with some cumulative *)
(* fill up to the order's quantity.  An order reported unsent is unknown   *)
(* to the venue, and an order the venue spoke of was sent.                 *)
(***************************************************************************)
Events(s) ==
  LET slot == engine.slots[s]
      fill == 0 .. slot.qty
      Answer(kinds, classes) ==
        [kind : kinds, reject : classes, status : {"none"}, cum : {0}, qty : {0},
         recon : {0}, exhausted : {FALSE}]
      Report(kinds, statuses, qtys, recons) ==
        [kind : kinds, reject : {"none"}, status : statuses, cum : fill, qty : qtys,
         recon : recons, exhausted : {FALSE}]
      all == UNION
        {Answer({"AckPlaced", "ReportNew", "AmendNotSent"}, {"none"}),
         Answer({"PlaceNotSent"}, {"none"}),
         Answer({"AckFailed"}, RejectClass),
         Report({"ReportTrade"}, {"Open", "Filled"}, {0}, {0}),
         Report({"ReportCanceled", "AckCanceled", "ReportExpired", "ReportRejected"}, {"none"}, {0}, {0}),
         Report({"SnapshotOrder"}, {"Open"} \cup EndStatus, {slot.qty}, 0 .. engine.recon),
         [kind : {"AckAmended", "ReportAmended"}, reject : {"none"}, status : {"none"}, cum : fill,
          qty : 0 .. slot.qty, recon : {0}, exhausted : BOOLEAN]}
      noVenueSaid(ev) == ev.reject \in {"Gone", "Ambiguous"} \/ ev.kind = "PlaceNotSent"
  IN {ev \in all : /\ ev.kind \in EventKinds
                   /\ fate[s] = "unsent" => noVenueSaid(ev)
                   /\ fate[s] = "known" => ev.kind # "PlaceNotSent"
                   /\ ev.status = "Filled" => ev.cum = slot.qty
                   /\ ev.status = "Open" /\ slot.qty > 0 => ev.cum < slot.qty}

\* A snapshot naming an order whose slot has been reaped (or never knew it).
LateEvents ==
  [kind : {"SnapshotOrder"} \cap EventKinds, reject : {"none"}, status : {"Open"} \cup EndStatus,
   cum : {0}, qty : {w.qty : w \in Wants}, recon : 0 .. engine.recon, exhausted : {FALSE}]

OrderEvent(s, ev) ==
  /\ engine' = OnOrderEvent(engine, s, ev)
  /\ fate' = [fate EXCEPT ![s] =
                IF ev.kind = "PlaceNotSent" THEN "unsent"
                ELSE IF ev.reject \in {"Gone", "Ambiguous"} \/ ev.kind = "AmendNotSent" THEN @
                ELSE "known"]
  /\ InBounds

StreamReset == engine' = OnStreamReset(engine) /\ UNCHANGED fate
StreamReady == engine' = OnStreamReady(engine) /\ UNCHANGED fate
SnapshotEnd(recon) == engine' = OnSnapshotEnd(engine, recon) /\ UNCHANGED fate

Account(free, isSnapshot, tick) ==
  /\ engine.watermark + tick <= MaxWatermark
  /\ engine' = OnAccount(engine, free, isSnapshot, tick)
  /\ UNCHANGED fate

Next ==
  \/ \E in \in SpinInputs : Spin(in)
  \/ \E s \in Slot : \E ev \in Events(s) : engine.slots[s].state # "Free" /\ OrderEvent(s, ev)
  \/ \E s \in LateSlots : \E ev \in LateEvents :
       engine.slots[s].state = "Free" /\ OrderEvent(s, ev)
  \/ StreamReset
  \/ StreamReady
  \/ \E recon \in 0 .. engine.recon : SnapshotEnd(recon)
  \/ \E free \in Balances, isSnapshot \in BOOLEAN, tick \in {0, 1} :
       Account(free, isSnapshot, tick)

Spec == Init /\ [][Next]_vars

-----------------------------------------------------------------------------
(***************************************************************************)
(* Properties                                                              *)
(***************************************************************************)
\* Every field of the engine and every slot's fate has its type; the bank holds
\* no more than its capacity.
TypeOK ==
  /\ engine.slots \in [Slot -> [state : State, style : Styles, qty : Nat, filled : Nat,
                                amends : 0 .. MaxAmends, reserved : Nat, reservedAt : Nat,
                                placed : Nat, seen : Nat]]
  /\ engine.free \in [Sides -> Int] /\ engine.reserved \in [Sides -> Int]
  /\ engine.watermark \in Nat /\ engine.recon \in Nat
  /\ engine.silent \in 0 .. SilenceSpins /\ engine.streak \in 0 .. MaxRejects
  /\ engine.halt \in HaltReasons \cup {"Armed"}
  /\ {engine.holds, engine.hasBalances, engine.streamReady, engine.hasOpenOrders} \subseteq BOOLEAN
  /\ fate \in [Slot -> {"open", "unsent", "known"}]
  /\ engine.position \in Int /\ engine.banked \in 0 .. BankCapacity

HeldBySlots(side) == SumFunctionOnSet(Holdings(engine), SideSlots(side))

\* No reservation is freed twice: what the account holds back for a side is
\* never less than what the side's slots still claim (the assertion in
\* account.rs debit_reservation), through early acks, late updates,
\* resurrections and unsent placements.
NeverFreedTwice == \A side \in Sides : engine.reserved[side] >= HeldBySlots(side)

\* mint.rs: "every path through it must leave the slot, the reservation and
\* the audit trail agreeing".  Claiming or reaping a closed slot that still
\* waits for its balance update forgets the amount but not the reservation.
ReservationsAgree == \A side \in Sides : engine.reserved[side] = HeldBySlots(side)

\* A placement is minted only by an engine that is armed and ready, only when
\* no other order of the side awaits an answer, only within the side's order
\* limit, and one per side and spin, whether it comes from the flatten pass or
\* the quote pass.
PlacesOneAtATime ==
  [][\A s \in Slot : Minted(s) =>
       /\ engine.halt = "Armed" /\ IsReady(engine)
       /\ PossiblyLive(engine', SideOf(s)) <= MaxOrders
       /\ \A t \in SideSlots(SideOf(s)) \ {s} : engine'.slots[t].state \notin InFlight]_vars

\* No venue answer, reset, sweep or timeout rewrites how an order ended; only a
\* snapshot that still finds it open brings it back, as unknown.
EndsOnce ==
  [][\A s \in Slot :
       engine.slots[s].state \in Closed =>
         \/ engine'.slots[s].state = engine.slots[s].state
         \/ engine'.slots[s] = EmptySlot
         \/ engine'.slots[s].state \in {"PendingNew", "Rejected"} /\ engine'.slots[s].filled = 0
         \/ engine'.slots[s].state = "Unknown"]_vars

\* Without resurrections the engine never holds more possibly live orders on a
\* side than the limit, whatever the venue answers and in whatever order.
WithinOrderLimit == \A side \in Sides : PossiblyLive(engine, side) <= MaxOrders

\* A halt is final: its reason stands and nothing is placed or amended after it.
HaltIsFinal ==
  [][engine.halt # "Armed" =>
       /\ engine'.halt = engine.halt
       /\ \A s \in Slot : engine'.slots[s].state \in {"PendingNew", "AmendInFlight"}
                            => engine.slots[s].state = engine'.slots[s].state]_vars

\* command.rs: the bank is "sized so a single spin can never fill it".  As long
\* as the lane takes each spin's commands the engine never halts for want of room.
NeverOverflows == engine.halt # "CommandBankOverflow"

\* On a venue that does not lock funds an order is minted with a reservation and
\* keeps it for as long as it works and was not reported unsent: neither an answer
\* nor a balance update frees money a resting order has committed.
WorkingKeepsReservation ==
  [][~ engine.holds =>
       \A s \in Slot :
         (Minted(s) \/ engine.slots[s].reserved > 0)
           /\ engine'.slots[s].state \in Working /\ fate'[s] # "unsent"
         => engine'.slots[s].reserved > 0]_vars

\* A reconciliation retires no order placed after the pass began.
SparesTheYoung ==
  [][\A s \in Slot, recon \in 0 .. engine.recon :
       SnapshotEnd(recon) /\ engine.slots[s].placed >= recon
         => engine'.slots[s].state = engine.slots[s].state]_vars
=============================================================================
