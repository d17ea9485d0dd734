------------------------------ MODULE OrderSlot ------------------------------
(***************************************************************************)
(* One slot of the hot engine's order table and what a venue event means   *)
(* for the order in it (hot/exec/order.rs, hot/exec/transition.rs).        *)
(*                                                                         *)
(* Prices, timestamps and venue order ids are left out: no transition      *)
(* reads them.  `Closed(reason)` is one state per reason, the flattening   *)
(* OrderLifecycle makes of it.  Quantities are small naturals.             *)
(***************************************************************************)
EXTENDS Naturals

CONSTANT MaxAmends  \* amends the venue grants an order (TickGrid.max_amends)

InFlight == {"PendingNew", "CancelInFlight", "AmendInFlight", "Unknown"}
Working  == InFlight \cup {"Live"}
Closed   == {"Filled", "Canceled", "Rejected", "Expired", "ReconciledGone"}
State    == Working \cup Closed \cup {"Free"}

Styles == {"none", "PostOnly", "Immediate"}

EmptySlot ==
  [state |-> "Free", style |-> "none", qty |-> 0, filled |-> 0,
   amends |-> 0, reserved |-> 0, reservedAt |-> 0, placed |-> 0, seen |-> 0]

\* Whether the venue holds the order passively, so that a cancel can reach it.
IsRestingQuote(slot) == slot.state = "Live" /\ slot.style # "Immediate"

-----------------------------------------------------------------------------
(***************************************************************************)
(* Events.  `cum` is the venue's cumulative filled quantity, `qty` the     *)
(* order quantity it states (0: none stated), `recon` the reconciliation   *)
(* pass that produced it (0: none).                                        *)
(***************************************************************************)
RejectClass == {"StillLive", "Refused", "Gone", "Ambiguous", "Fatal"}
OpenStatus  == {"none", "Open"}   \* New, PartiallyFilled and PendingCancel
EndStatus   == {"Filled", "Canceled", "Expired", "Rejected"}

OrderKinds ==
  {"AckPlaced", "ReportNew", "PlaceNotSent", "AmendNotSent", "AckFailed",
   "ReportTrade", "ReportCanceled", "AckCanceled", "ReportExpired",
   "ReportRejected", "AckAmended", "ReportAmended", "SnapshotOrder"}

\* The bug CloseOrKeep guards against: a late duplicate rewrites why an order ended.
CloseOrRewrite(state, reason) == reason

CloseOrKeep(state, reason) == IF state \in Closed THEN state ELSE reason

\* A fill proves the order exists; it says nothing of a command under way.
KeepWorking(state) == IF state \in {"PendingNew", "Unknown"} THEN "Live" ELSE state

AfterAck(state) ==
  IF state \in Closed \cup {"CancelInFlight", "AmendInFlight"} THEN state ELSE "Live"

AfterFailure(state, class) ==
  CASE class = "StillLive" ->
         (CASE state = "PendingNew" -> "Rejected"
            [] state \in Closed \cup {"Unknown"} -> state
            [] OTHER -> "Live")
    [] class = "Refused" -> CloseOrKeep(state, "Rejected")
    [] class = "Gone"    -> CloseOrKeep(state, "ReconciledGone")
    [] OTHER             -> CloseOrKeep(state, "Unknown")

AfterSnapshot(state, status) ==
  IF status \in EndStatus THEN CloseOrKeep(state, status)
  ELSE IF state \in Closed THEN "Unknown"          \* resurrection
  ELSE AfterAck(state)

IsResurrection(slot, ev) ==
  ev.kind = "SnapshotOrder" /\ slot.state \in Closed /\ ev.status \notin EndStatus

FoldedFill(slot, ev) == IF ev.cum > slot.filled THEN ev.cum ELSE slot.filled

IsComplete(slot, ev) ==
  ev.status = "Filled" \/ (slot.qty > 0 /\ FoldedFill(slot, ev) >= slot.qty)

NextState(slot, ev) ==
  LET state == slot.state IN
  CASE ev.kind \in {"AckPlaced", "ReportNew"} -> AfterAck(state)
    [] ev.kind = "PlaceNotSent" -> IF state = "PendingNew" THEN "Rejected" ELSE state
    [] ev.kind = "AmendNotSent" -> IF state = "AmendInFlight" THEN "Live" ELSE state
    [] ev.kind = "AckFailed" -> AfterFailure(state, ev.reject)
    [] ev.kind = "ReportTrade" ->
         IF IsComplete(slot, ev) THEN CloseOrKeep(state, "Filled") ELSE KeepWorking(state)
    [] ev.kind \in {"ReportCanceled", "AckCanceled"} -> CloseOrKeep(state, "Canceled")
    [] ev.kind = "ReportExpired" -> CloseOrKeep(state, "Expired")
    [] ev.kind = "ReportRejected" -> CloseOrKeep(state, "Rejected")
    [] ev.kind \in {"AckAmended", "ReportAmended"} -> CloseOrKeep(state, "Live")
    [] ev.kind = "SnapshotOrder" -> AfterSnapshot(state, ev.status)

IsAmendAnswer(ev) == ev.kind \in {"AckAmended", "ReportAmended"}

NextQty(slot, ev) ==
  CASE IsAmendAnswer(ev) /\ ev.qty > 0 /\ ev.qty < slot.qty -> ev.qty
    [] ev.kind = "SnapshotOrder" /\ ev.qty > 0 -> ev.qty
    [] OTHER -> slot.qty

NextAmends(slot, ev) ==
  IF ev.exhausted THEN MaxAmends
  ELSE IF IsAmendAnswer(ev) /\ slot.state = "AmendInFlight" /\ slot.amends < MaxAmends
  THEN slot.amends + 1 ELSE slot.amends

NextSeen(slot, ev) ==
  IF ev.kind = "SnapshotOrder" /\ ev.recon > slot.seen THEN ev.recon ELSE slot.seen

\* apply_exec_event on an occupied slot.  On a free one it is the identity.
Apply(slot, ev) ==
  IF slot.state = "Free" THEN slot
  ELSE [slot EXCEPT !.state  = NextState(slot, ev),
                    !.filled = FoldedFill(slot, ev),
                    !.qty    = NextQty(slot, ev),
                    !.amends = NextAmends(slot, ev),
                    !.seen   = NextSeen(slot, ev)]
=============================================================================
