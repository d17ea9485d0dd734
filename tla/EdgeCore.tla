------------------------------- MODULE EdgeCore -------------------------------
(***************************************************************************)
(* The order core of an execution edge (adapters/exec/core and mirror.rs): *)
(* the phase gate, the mirror of orders this run may have resting, the     *)
(* cancel latches and the exit sweep.  Every operator takes the core and   *)
(* gives back what the code would leave: the core after, the requests it   *)
(* wants sent and whether it trips the fatal signal.                       *)
(*                                                                         *)
(* An order stands for its client id.  Foreign orders never enter the      *)
(* mirror and are left out; whether an order is this run's or a prior      *)
(* run's never changes, because before quoting first opens no order can be *)
(* this run's, so provenance is membership of `Prior`.  One instrument.    *)
(***************************************************************************)
EXTENDS Integers, FiniteSets

CONSTANTS
  Own,        \* the client ids this run may place
  Prior,      \* orders a prior run left, whether or not they still rest
  Buys,       \* the orders that buy; the others sell
  SideLimit   \* max_orders_per_side

Order == Own \cup Prior

ASSUME CoreAssumption ==
  /\ Own \cap Prior = {}
  /\ Buys \subseteq Order
  /\ SideLimit \in Nat \ {0}
  /\ IsFiniteSet(Order)

Phases      == {"Down", "Resyncing", "Quoting", "Cancelling", "Settled"}
ExitReasons == {"Shutdown", "Fatal", "Park", "Disconnect"}
Reasons     == ExitReasons \cup {"Halt"}
None        == "none"

IsTerminal(reason) == reason \in {"Shutdown", "Fatal"}

RequestKinds == {"Place", "Cancel", "Amend", "Status"}
Request      == [kind : RequestKinds, order : Order]
Req(kind, o) == [kind |-> kind, order |-> o]
Reqs(kind, orders) == {Req(kind, o) : o \in orders}

SameSide(o) == IF o \in Buys THEN Buys ELSE Order \ Buys

Core == [phase      : Phases,
         mirror     : SUBSET Order,
         latched    : SUBSET Order,           \* has_sent_cancel
         ambiguous  : SUBSET Order,
         sweep      : Reasons \cup {None},
         hasOpened  : BOOLEAN,                \* has_opened_quoting
         isPending  : BOOLEAN,                \* is_readiness_pending
         isSwept    : BOOLEAN]

InitCore == [phase |-> "Down", mirror |-> {}, latched |-> {}, ambiguous |-> {},
             sweep |-> None, hasOpened |-> FALSE, isPending |-> FALSE, isSwept |-> FALSE]

\* What an operation does: the core after, what it sends, whether it is fatal.
Does(c, sends)  == [core |-> c, sends |-> sends, trips |-> FALSE]
Only(c)         == Does(c, {})
Trips(c, sends) == [core |-> c, sends |-> sends, trips |-> TRUE]
Then(did, next) == [core |-> next.core, sends |-> did.sends \cup next.sends, trips |-> did.trips]

AdmitsCancels(c) == c.phase \in {"Resyncing", "Quoting", "Cancelling"}

SideCount(c, o) == Cardinality(c.mirror \cap SameSide(o))

\* The bug of a gate that counts the new order out.
AdmitsOneTooMany(c, o) ==
  /\ c.phase = "Quoting"
  /\ SideCount(c, o) <= SideLimit

\* The gate every placement passes.
AdmitsPlace(c, o) ==
  /\ c.phase = "Quoting"
  /\ SideCount(c, o) < SideLimit

-----------------------------------------------------------------------------
(***************************************************************************)
(* The connection                                                          *)
(***************************************************************************)
OnConnected(c) ==
  [c EXCEPT !.phase = IF c.phase \in {"Down", "Resyncing", "Quoting"} THEN "Resyncing" ELSE @]

\* The bug mark_all_stale guards against: what was under way on the dead socket
\* stays as it was.
DisconnectWithoutStale(c) ==
  IF c.phase = "Settled" THEN c
  ELSE [c EXCEPT !.phase = IF c.phase = "Cancelling" THEN @ ELSE "Down"]

\* Every mirrored order becomes a guess and its cancel may go again.
OnDisconnected(c) ==
  IF c.phase = "Settled" THEN c
  ELSE [c EXCEPT !.phase     = IF c.phase = "Cancelling" THEN @ ELSE "Down",
                 !.ambiguous = c.mirror,
                 !.latched   = {}]

\* The bug of opening over a prior run's order.
ArmRegardless(c) ==
  IF c.isPending /\ c.phase = "Resyncing"
  THEN [c EXCEPT !.phase = "Quoting", !.hasOpened = TRUE, !.isPending = FALSE]
  ELSE c

\* arm_readiness: the finished pass opens quoting once no prior order is mirrored.
ArmReadiness(c) ==
  IF c.isPending /\ c.phase = "Resyncing" /\ c.mirror \cap Prior = {}
  THEN [c EXCEPT !.phase = "Quoting", !.hasOpened = TRUE, !.isPending = FALSE]
  ELSE c

Armed(did) == [did EXCEPT !.core = ArmReadiness(did.core)]

StopQuoting(c) == [c EXCEPT !.phase = IF c.phase = "Settled" THEN @ ELSE "Cancelling"]

-----------------------------------------------------------------------------
(***************************************************************************)
(* Cancels and the sweep                                                   *)
(***************************************************************************)
\* cancel_matching: one cancel for each of `orders` that is not latched.
CancelMatching(c, orders) ==
  LET due == IF AdmitsCancels(c) THEN (c.mirror \cap orders) \ c.latched ELSE {}
  IN Does([c EXCEPT !.latched = @ \cup due], Reqs("Cancel", due))

\* A cancel the hot thread asks for.  An unmirrored order is cancelled blind.
CancelOne(c, o) ==
  IF o \in c.mirror THEN CancelMatching(c, {o})
  ELSE Does(c, IF AdmitsCancels(c) THEN {Req("Cancel", o)} ELSE {})

\* The bug of a sweep that is over once every cancel has been sent.
SettleOnceLatched(c) ==
  IF c.sweep = None \/ ~ (c.mirror \subseteq c.latched) THEN c
  ELSE [c EXCEPT !.sweep   = None,
                 !.phase   = IF IsTerminal(c.sweep) THEN "Settled" ELSE "Down",
                 !.isSwept = TRUE]

\* settle_if_swept, and the driver's note that the sweep is complete.
SettleIfSwept(c) ==
  IF c.sweep = None \/ c.mirror # {} THEN c
  ELSE [c EXCEPT !.sweep   = None,
                 !.phase   = IF IsTerminal(c.sweep) THEN "Settled" ELSE "Down",
                 !.isSwept = TRUE]

\* begin_sweep: cancel what is not latched, ask again about what is in doubt.
BeginSweep(c, reason) ==
  IF c.phase = "Settled" THEN Only(c)
  ELSE LET cancels == CancelMatching([c EXCEPT !.phase = "Cancelling", !.sweep = reason], Order)
           unresolved == cancels.core.mirror \cap cancels.core.latched \cap cancels.core.ambiguous
       IN Does(SettleIfSwept(cancels.core), cancels.sends \cup Reqs("Status", unresolved))

-----------------------------------------------------------------------------
(***************************************************************************)
(* Answers                                                                 *)
(***************************************************************************)
\* The bug of dropping the order and not its flags.
ForgetEntryOnly(c, o) == Only(SettleIfSwept([c EXCEPT !.mirror = @ \ {o}]))

\* An order leaves the mirror, with its latches, only here and when its
\* placement was proved unsent.
OnOrderGone(c, o) ==
  Only(SettleIfSwept([c EXCEPT !.mirror = @ \ {o}, !.latched = @ \ {o}, !.ambiguous = @ \ {o}]))

\* The bug of a refused cancel that is never sent again.
KeepLatch(c, o) == c

\* The venue still holds the order: its cancel may go again.
ReArmCancel(c, o) == [c EXCEPT !.latched = @ \ {o}]

MarkAmbiguous(c, o) == [c EXCEPT !.ambiguous = IF o \in c.mirror THEN @ \cup {o} ELSE @]

OnAmbiguous(c, o) ==
  IF o \in c.mirror THEN Does(MarkAmbiguous(c, o), {Req("Status", o)}) ELSE Only(c)

\* The bug of giving up on an order whose request went unanswered.
ForgetOnTimeout(c, o) == Does(OnOrderGone(c, o).core, {Req("Status", o)})

\* Reconciled, never retried.
OnRequestTimeout(c, o) == Does(MarkAmbiguous(c, o), {Req("Status", o)})

OverLimit(mirror, o) == Cardinality(mirror \cap SameSide(o)) > SideLimit

\* observe_if_unknown: a live order this core has not heard of.
ObserveIfUnknown(c, o) ==
  LET seen == [c EXCEPT !.mirror = @ \cup {o}]
  IN CASE o \in c.mirror           -> Only(c)
       [] o \notin c.mirror /\ OverLimit(seen.mirror, o) -> Trips(StopQuoting(seen), {})
       [] OTHER -> IF o \in Prior THEN CancelMatching(seen, Prior) ELSE Only(seen)

\* What an answer or a report can say of an order.
Verdicts == {"live", "gone", "ambiguous", "stillLive", "fatal"}

\* on_event.  "gone" is a terminal status, or a reject class Gone or Refused.
OnEvent(c, o, says) ==
  CASE says = "live"      -> ObserveIfUnknown(c, o)
    [] says = "gone"      -> OnOrderGone(c, o)
    [] says = "ambiguous" -> OnAmbiguous(c, o)
    [] says = "stillLive" -> Only(ReArmCancel(c, o))
    [] says = "fatal"     -> Only(c)

=============================================================================
