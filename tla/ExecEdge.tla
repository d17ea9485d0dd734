------------------------------- MODULE ExecEdge -------------------------------
(***************************************************************************)
(* An execution edge and the venue it talks to: the session (session.rs),  *)
(* the Binance driver's routing of requests and answers, the chassis's     *)
(* connection loop and its exit control (edge.rs, exit.rs), over the order *)
(* core of EdgeCore.                                                       *)
(*                                                                         *)
(* The edge is one task, so each of its handlers is one step; the venue,   *)
(* the socket, the REST worker and the three latches that can end a run    *)
(* interleave with it.  Messages are sets: answers and reports may be      *)
(* folded in any order, and two equal requests under way are one.  What a  *)
(* dead socket still carries is lost, except that with `Lingers` a         *)
(* placement may yet land.  The balance read of a resync pass precedes the *)
(* open-orders read in the worker's queue, so one read stands for the pass.*)
(***************************************************************************)
EXTENDS EdgeCore

CONSTANTS
  Commands,      \* kinds of command the hot thread gives
  Refusals,      \* <<kind, verdict>>: how the venue may refuse a kind of request
  RestFails,     \* BOOLEAN values: whether a REST call may fail
  Latches,       \* latches that may trip: a subset of {"Shutdown", "Fatal", "Park"}
  MayGiveUp,     \* BOOLEAN values: whether a sweep may miss its deadline
  Lingers,       \* whether a placement on a dead socket may still land
  FoldsEarly,    \* whether anything is folded before the subscription is answered
  \* Bounds of the model.
  MaxUnderway,   \* requests on the wire when the hot thread asks for another
  MaxNews,       \* answers and reports unfolded when the venue sends another
  MaxRest,       \* REST answers unfolded when the worker makes another call
  MaxBacklog     \* REST calls and answers left over when the chassis dials

ASSUME EdgeAssumption ==
  /\ Commands \subseteq {"Cancel", "Amend", "Status", "Snapshot", "Halt", "CancelPrior"}
  /\ Refusals \subseteq ({"Place"} \X {"gone", "ambiguous", "stillLive", "fatal"})
                 \cup ({"Cancel", "Amend", "Status"} \X {"stillLive", "fatal"})
  /\ RestFails \subseteq BOOLEAN /\ MayGiveUp \subseteq BOOLEAN
  /\ Latches \subseteq {"Shutdown", "Fatal", "Park"}
  /\ Lingers \in BOOLEAN /\ FoldsEarly \in BOOLEAN
  /\ {MaxUnderway, MaxNews, MaxRest, MaxBacklog} \subseteq Nat

VARIABLES
  core,       \* the order core and the session's readiness
  link,       \* where the chassis loop is
  exit,       \* the reason of the exit under way
  wants,      \* latches tripped
  fresh,      \* ids no placement has used
  owed,       \* placements sent whose hot slot has been told nothing yet
  inflight,   \* requests the socket owes an answer
  wire,       \* requests the venue has not taken from the socket
  replies,    \* answers on their way back over the socket
  stream,     \* account-stream reports on their way
  jobs,       \* REST cancels and status reads queued
  answers,    \* their answers, not yet folded
  reads,      \* open-orders reads of resync passes queued
  snapshots,  \* their answers, not yet folded
  mustReread, \* a failed pass is due for a retry
  venue       \* what became of each order at the venue

restVars == <<jobs, answers, reads, snapshots>>
vars == <<core, link, exit, wants, fresh, owed, inflight, wire, replies, stream,
          jobs, answers, reads, snapshots, mustReread, venue>>

Links == {"down", "dialled", "subscribed", "parked", "stopped"}
Fates == {"unborn", "resting", "over", "turnedAway"}

Serving == link \in {"dialled", "subscribed"}
Folding == link \in {"down", "subscribed"} \/ (FoldsEarly /\ link = "dialled")

\* A REST call: a cancel or a status read.  An open-orders read of a resync
\* pass is stale once a newer pass has begun.
Call(kind, o) == [kind |-> kind, order |-> o]
Calls         == [kind : {"Cancel", "Status"}, order : Order]
Passes        == {"current", "stale"}

Replies   == [kind : RequestKinds, order : Order, says : Verdicts]
Reports   == [order : Order, says : {"live", "gone"}]
Answers   == [kind : {"Cancel", "Status"}, order : Order,
              says : {"live", "gone", "ambiguous", "failed"}]
Snapshots == [pass : Passes, open : SUBSET Order, isRead : BOOLEAN]

\* Whether this run's order rests, or may yet come to rest.
MayRest(o) == venue[o] = "resting" \/ Req("Place", o) \in wire

MayAsk   == Cardinality(wire) < MaxUnderway
MayTell  == Cardinality(replies) + Cardinality(stream) < MaxNews
MayCall  == Cardinality(answers) + Cardinality(snapshots) < MaxRest
MayDial  == Cardinality(jobs) + Cardinality(answers) + Cardinality(reads) + Cardinality(snapshots)
              <= MaxBacklog

-----------------------------------------------------------------------------
Init ==
  /\ core = InitCore
  /\ link = "down" /\ exit = None /\ wants = {}
  /\ fresh = Own /\ owed = {}
  /\ inflight = {} /\ wire = {} /\ replies = {} /\ stream = {}
  /\ jobs = {} /\ answers = {}
  /\ reads = {"current"} /\ snapshots = {} /\ mustReread = FALSE
  /\ venue \in [Order -> {"unborn", "resting", "over"}]
  /\ \A o \in Own : venue[o] = "unborn"
  /\ \A o \in Prior : venue[o] # "unborn"

CallsFor(sends) == {Call(r.kind, r.order) : r \in {s \in sends : s.kind \in {"Cancel", "Status"}}}

\* Requests go to the socket while there is one, else cancels and reads to REST.
Dispatch(sends) ==
  IF Serving
  THEN /\ inflight' = inflight \cup sends
       /\ wire' = wire \cup sends
       /\ UNCHANGED jobs
  ELSE /\ jobs' = jobs \cup CallsFor(sends)
       /\ UNCHANGED <<inflight, wire>>

\* The edge applies what an operation of the core does.
Apply(did) ==
  /\ core' = did.core
  /\ wants' = IF did.trips THEN wants \cup {"Fatal"} ELSE wants
  /\ Dispatch(did.sends)

-----------------------------------------------------------------------------
(***************************************************************************)
(* Commands, drained only while a connection is served                     *)
(***************************************************************************)
PlaceAdmitted(o) ==
  /\ Serving /\ o \in fresh /\ AdmitsPlace(core, o)
  /\ fresh' = fresh \ {o}
  /\ owed' = owed \cup {o}
  /\ Apply(Does([core EXCEPT !.mirror = @ \cup {o}], {Req("Place", o)}))
  /\ UNCHANGED <<link, exit, replies, stream, answers, reads, snapshots, mustReread, venue>>

\* Answered at once: the hot slot waits for nothing.
PlaceRefused(o) ==
  /\ Serving /\ o \in fresh /\ ~ AdmitsPlace(core, o)
  /\ fresh' = fresh \ {o}
  /\ UNCHANGED <<core, link, exit, wants, owed, inflight, wire, replies, stream, restVars, mustReread, venue>>

CancelCommand(o) ==
  /\ Serving /\ "Cancel" \in Commands /\ MayAsk /\ o \in Own \ fresh
  /\ Apply(CancelOne(core, o))
  /\ UNCHANGED <<link, exit, fresh, owed, replies, stream, answers, reads, snapshots, mustReread, venue>>

AmendCommand(o) ==
  /\ Serving /\ "Amend" \in Commands /\ MayAsk /\ o \in Own \ fresh
  /\ core.phase = "Quoting"
  /\ Apply(Does(core, {Req("Amend", o)}))
  /\ UNCHANGED <<link, exit, fresh, owed, replies, stream, answers, reads, snapshots, mustReread, venue>>

ReconcileOrderCommand(o) ==
  /\ Serving /\ "Status" \in Commands /\ MayAsk /\ o \in Own \ fresh
  /\ Apply(Does(core, {Req("Status", o)}))
  /\ UNCHANGED <<link, exit, fresh, owed, replies, stream, answers, reads, snapshots, mustReread, venue>>

CancelOursCommand ==
  /\ Serving /\ "Halt" \in Commands
  /\ Apply(BeginSweep(core, "Halt"))
  /\ UNCHANGED <<link, exit, fresh, owed, replies, stream, answers, reads, snapshots, mustReread, venue>>

\* The hot thread saw a prior run's order.
CancelPriorCommand ==
  /\ Serving /\ "CancelPrior" \in Commands
  /\ Apply(CancelMatching(core, Prior))
  /\ UNCHANGED <<link, exit, fresh, owed, replies, stream, answers, reads, snapshots, mustReread, venue>>

-----------------------------------------------------------------------------
(***************************************************************************)
(* The connection                                                          *)
(***************************************************************************)
\* The chassis dials only with no exit under way.
Connect ==
  /\ link = "down" /\ exit = None /\ MayDial
  /\ link' = "dialled"
  /\ core' = OnConnected(core)
  /\ UNCHANGED <<exit, wants, fresh, owed, inflight, wire, replies, stream, restVars,
                 mustReread, venue>>

\* A new sequence number: whatever an earlier pass still waits for is stale.
BeginPass ==
  /\ reads' = {"current"} \cup (IF reads = {} THEN {} ELSE {"stale"})
  /\ snapshots' = {[s EXCEPT !.pass = "stale"] : s \in snapshots}
  /\ mustReread' = FALSE

\* The bug of opening on what an earlier connection verified.
SubscribedStillArmed ==
  /\ link = "dialled"
  /\ link' = "subscribed"
  /\ BeginPass
  /\ UNCHANGED <<core, exit, wants, fresh, owed, inflight, wire, replies, stream, jobs, answers, venue>>

\* The account stream is up: a fresh pass begins.
Subscribed ==
  /\ link = "dialled"
  /\ link' = "subscribed"
  /\ core' = [core EXCEPT !.isPending = FALSE]
  /\ BeginPass
  /\ UNCHANGED <<exit, wants, fresh, owed, inflight, wire, replies, stream, jobs, answers, venue>>

\* The bug that leaves the hot slots of lost placements waiting.
DoomNothing ==
  /\ inflight' = {} /\ replies' = {} /\ stream' = {}
  /\ \E landing \in SUBSET {r \in wire : Lingers /\ r.kind = "Place"} : wire' = landing
  /\ UNCHANGED <<owed, fresh, restVars, mustReread, venue, wants>>

\* lose_connection: every request still owed an answer is in doubt.
Doom ==
  /\ owed' = {o \in owed : Req("Place", o) \notin inflight}
  /\ inflight' = {} /\ replies' = {} /\ stream' = {}
  /\ \E landing \in SUBSET {r \in wire : Lingers /\ r.kind = "Place"} : wire' = landing
  /\ UNCHANGED <<fresh, restVars, mustReread, venue, wants>>

LoseConnection ==
  /\ Serving
  /\ link' = "down"
  /\ core' = OnDisconnected(core)
  /\ Doom
  /\ UNCHANGED exit

\* A request past its deadline: its answer will not be matched any more.
Expire(r) ==
  /\ Serving /\ r \in inflight
  /\ owed' = IF r.kind = "Place" THEN owed \ {r.order} ELSE owed
  /\ LET did == OnRequestTimeout(core, r.order)
     IN /\ core' = did.core
        /\ inflight' = (inflight \ {r}) \cup did.sends
        /\ wire' = wire \cup did.sends
  /\ replies' = {m \in replies : ~ (m.kind = r.kind /\ m.order = r.order)}
  /\ UNCHANGED <<link, exit, wants, fresh, stream, restVars, mustReread, venue>>

-----------------------------------------------------------------------------
(***************************************************************************)
(* What the socket brings back                                             *)
(***************************************************************************)
\* A live answer to a status read also re-arms the cancel.
ReplyFolded(m) ==
  LET did == OnEvent(core, m.order, m.says)
  IN IF m.kind = "Status" /\ m.says = "live"
     THEN [did EXCEPT !.core = ReArmCancel(did.core, m.order)]
     ELSE did

OnReply(m) ==
  /\ Serving /\ Folding /\ m \in replies
  /\ replies' = replies \ {m}
  /\ owed' = IF m.kind = "Place" THEN owed \ {m.order} ELSE owed
  /\ LET did == Armed(ReplyFolded(m))
     IN /\ core' = did.core
        /\ wants' = IF did.trips THEN wants \cup {"Fatal"} ELSE wants
        /\ inflight' = (inflight \ {Req(m.kind, m.order)}) \cup did.sends
        /\ wire' = wire \cup did.sends
  /\ UNCHANGED <<link, exit, fresh, stream, restVars, mustReread, venue>>

OnReport(m) ==
  /\ link = "subscribed" /\ m \in stream
  /\ stream' = stream \ {m}
  /\ Apply(Armed(OnEvent(core, m.order, m.says)))
  /\ UNCHANGED <<link, exit, fresh, owed, replies, answers, reads, snapshots, mustReread, venue>>

-----------------------------------------------------------------------------
(***************************************************************************)
(* What the REST worker brings back, whether or not there is a socket      *)
(***************************************************************************)
\* With the socket down each answer may carry a paced retry of the sweep.
AndRetry(did) ==
  {did} \cup (IF Serving \/ exit = None \/ did.core.isSwept THEN {}
              ELSE {Then(did, BeginSweep(did.core, exit))})

\* A cancel or status answer: what the order record or the failure says.
AnswerFolded(a) ==
  CASE a.says = "gone"      -> Armed(OnOrderGone(core, a.order))
    [] a.says = "ambiguous" -> OnAmbiguous(core, a.order)
    [] a.says = "failed"    -> Only(ReArmCancel(core, a.order))
    [] a.says = "live"      ->
         LET armed == ReArmCancel(core, a.order)
         IN IF a.order \in core.mirror \cap Prior THEN CancelMatching(armed, Prior) ELSE Only(armed)

OnAnswer(a) ==
  /\ Folding /\ a \in answers
  /\ answers' = answers \ {a}
  /\ \E did \in AndRetry(AnswerFolded(a)) : Apply(did)
  /\ UNCHANGED <<link, exit, fresh, owed, replies, stream, reads, snapshots, mustReread, venue>>

\* The worker is one task, so a pass's answer never overtakes an earlier one's.
IsNextSnapshot(s) ==
  s \in snapshots /\ (s.pass = "current" => "stale" \notin reads \cup {t.pass : t \in snapshots})

SnapshotFailed(s) ==
  /\ Folding /\ IsNextSnapshot(s) /\ ~ s.isRead
  /\ snapshots' = snapshots \ {s}
  /\ mustReread' = (mustReread \/ s.pass = "current")
  /\ UNCHANGED <<core, link, exit, wants, fresh, owed, inflight, wire, replies, stream, jobs,
                 answers, reads, venue>>

BreaksLimit(mirror, seen) == \E o \in seen : OverLimit(mirror \cup seen, o)

\* Folded up to the order that breaks its side's limit: the run is over.
SnapshotBroken(s) ==
  /\ Folding /\ IsNextSnapshot(s) /\ s.isRead
  /\ \E seen \in SUBSET s.open :
       /\ BreaksLimit(core.mirror, seen)
       /\ \E last \in seen : ~ BreaksLimit(core.mirror, seen \ {last})
       /\ Apply(Trips(StopQuoting([core EXCEPT !.mirror = @ \cup seen]), {}))
  /\ snapshots' = snapshots \ {s}
  /\ mustReread' = (mustReread \/ s.pass = "current")
  /\ UNCHANGED <<link, exit, fresh, owed, replies, stream, answers, reads, venue>>

\* Every order read is mirrored, every mirrored order the read misses is asked
\* about, and the current pass is finished.
SnapshotFolded(s) ==
  LET mirror  == core.mirror \cup s.open
      missing == mirror \ s.open
      seen    == [core EXCEPT !.mirror = mirror, !.ambiguous = @ \cup missing]
      did     == IF s.pass = "stale" THEN Only(seen)
                 ELSE Armed(CancelMatching([seen EXCEPT !.isPending = TRUE], Prior))
  IN /\ Folding /\ IsNextSnapshot(s) /\ s.isRead
     /\ ~ BreaksLimit(core.mirror, s.open)
     /\ core' = did.core
     /\ jobs' = jobs \cup Reqs("Status", missing) \cup (IF Serving THEN {} ELSE CallsFor(did.sends))
     /\ inflight' = IF Serving THEN inflight \cup did.sends ELSE inflight
     /\ wire' = IF Serving THEN wire \cup did.sends ELSE wire
     /\ snapshots' = snapshots \ {s}
     /\ UNCHANGED <<link, exit, wants, fresh, owed, replies, stream, answers, reads, mustReread, venue>>

\* poll_resync; giving up after four attempts is LoseConnection.
RetryPass ==
  /\ Serving /\ exit = None /\ mustReread
  /\ BeginPass
  /\ UNCHANGED <<core, link, exit, wants, fresh, owed, inflight, wire, replies, stream, jobs,
                 answers, venue>>

-----------------------------------------------------------------------------
(***************************************************************************)
(* The exit                                                                *)
(***************************************************************************)
\* wanted_exit: Shutdown outranks Fatal outranks Park.
WantedExit ==
  IF "Shutdown" \in wants THEN "Shutdown"
  ELSE IF "Fatal" \in wants THEN "Fatal"
  ELSE IF "Park" \in wants THEN "Park" ELSE None

OpenExit(reason) ==
  /\ exit = None
  /\ exit' = reason
  /\ Apply(BeginSweep([core EXCEPT !.isSwept = FALSE], reason))
  /\ UNCHANGED <<link, fresh, owed, replies, stream, answers, reads, snapshots, mustReread, venue>>

PlanExit == link \in {"down", "dialled", "subscribed"} /\ WantedExit # None /\ OpenExit(WantedExit)

\* The dial has failed for too long.
SweepBlind == link = "down" /\ OpenExit("Disconnect")

RetrySweep ==
  /\ Serving /\ exit # None /\ ~ core.isSwept
  /\ Apply(BeginSweep(core, exit))
  /\ UNCHANGED <<link, exit, fresh, owed, replies, stream, answers, reads, snapshots, mustReread,
                 venue>>

ExitOver == exit # None /\ (core.isSwept \/ TRUE \in MayGiveUp)

\* complete_exit: a final exit stops the edge, a park leaves it waiting.
CompleteExit(c) ==
  /\ ExitOver
  /\ core' = [c EXCEPT !.isSwept = IsTerminal(exit)]
  /\ exit' = IF IsTerminal(exit) THEN exit ELSE None
  /\ link' = IF IsTerminal(exit) THEN "stopped" ELSE IF exit = "Park" THEN "parked" ELSE "down"

FinishServed  == Serving /\ CompleteExit(OnDisconnected(core)) /\ Doom

FinishOffline ==
  /\ link = "down"
  /\ CompleteExit(core)
  /\ UNCHANGED <<wants, fresh, owed, inflight, wire, replies, stream, restVars, mustReread, venue>>

\* Park outranks nothing: a stop or a fatal ends the wait, as a resume does.
Unpark ==
  /\ link = "parked" /\ WantedExit # "Park"
  /\ link' = "down"
  /\ UNCHANGED <<core, exit, wants, fresh, owed, inflight, wire, replies, stream, restVars,
                 mustReread, venue>>

Latch(l) ==
  /\ link # "stopped" /\ l \in Latches
  /\ wants' = wants \cup {l}
  /\ UNCHANGED <<core, link, exit, fresh, owed, inflight, wire, replies, stream, restVars,
                 mustReread, venue>>

Resume ==
  /\ link # "stopped" /\ "Park" \in wants
  /\ wants' = wants \ {"Park"}
  /\ UNCHANGED <<core, link, exit, fresh, owed, inflight, wire, replies, stream, restVars,
                 mustReread, venue>>

-----------------------------------------------------------------------------
(***************************************************************************)
(* The venue                                                               *)
(***************************************************************************)
\* What the venue does with a request and answers: <<the order after, verdict>>.
InFull(kind, fate) ==
  CASE kind = "Place"  -> <<"resting", "live">>
    [] kind = "Cancel" -> IF fate = "resting" THEN <<"over", "gone">> ELSE <<fate, "ambiguous">>
    [] kind = "Amend"  -> IF fate = "resting" THEN <<fate, "live">> ELSE <<fate, "ambiguous">>
    [] kind = "Status" -> IF fate = "resting" THEN <<fate, "live">> ELSE <<fate, "gone">>

\* Refused: a placement never rests, unless its execution status is unknown; a
\* cancel whose status is unknown reads StillLive and may have gone through.
Refused(kind, fate, says) ==
  CASE kind = "Place" /\ says = "ambiguous" -> {<<"resting", says>>, <<"turnedAway", says>>}
    [] kind = "Place" /\ says # "ambiguous" -> {<<"turnedAway", says>>}
    [] kind = "Cancel" /\ says = "stillLive" /\ fate = "resting" -> {<<fate, says>>, <<"over", says>>}
    [] OTHER -> {<<fate, says>>}

Outcomes(kind, fate) ==
  {InFull(kind, fate)} \cup
  UNION {Refused(kind, fate, says) : says \in {v \in Verdicts : <<kind, v>> \in Refusals}}

\* The account stream reports an order that came to rest or ceased to.
Report(o, fate) ==
  IF link # "subscribed" \/ fate = venue[o] \/ fate \notin {"resting", "over"} THEN stream
  ELSE stream \cup {[order |-> o, says |-> IF fate = "resting" THEN "live" ELSE "gone"]}

\* A request is answered only while the edge still counts it in flight.
Settles(r, outcome) ==
  /\ venue' = [venue EXCEPT ![r.order] = outcome[1]]
  /\ stream' = Report(r.order, outcome[1])
  /\ wire' = wire \ {r}
  /\ replies' = IF r \notin inflight THEN replies
                ELSE replies \cup {[kind |-> r.kind, order |-> r.order, says |-> outcome[2]]}
  /\ UNCHANGED <<core, link, exit, wants, fresh, owed, inflight, restVars, mustReread>>

\* One socket carries an order's requests in order, so none overtakes its placement.
IsNextOnWire(r) ==
  MayTell /\ r \in wire /\ (r.kind # "Place" => Req("Place", r.order) \notin wire)

VenueObeys(r)   == IsNextOnWire(r) /\ r \in inflight /\ Settles(r, InFull(r.kind, venue[r.order]))
VenueAnswers(r) == IsNextOnWire(r) /\ \E outcome \in Outcomes(r.kind, venue[r.order]) : Settles(r, outcome)

\* A REST call; one that fails may yet have been carried out.
CallOutcomes(j) ==
  LET fate == venue[j.order]
      done == InFull(j.kind, fate)
  IN {done} \cup
     IF TRUE \notin RestFails THEN {}
     ELSE IF j.kind = "Status" THEN {<<fate, "failed">>}
     ELSE {<<fate, "failed">>, <<fate, "ambiguous">>, <<done[1], "ambiguous">>}

CallMade(j) ==
  /\ MayCall /\ j \in jobs
  /\ jobs' = jobs \ {j}
  /\ \E outcome \in CallOutcomes(j) :
       /\ venue' = [venue EXCEPT ![j.order] = outcome[1]]
       /\ stream' = Report(j.order, outcome[1])
       /\ answers' = answers \cup {[kind |-> j.kind, order |-> j.order, says |-> outcome[2]]}
  /\ UNCHANGED <<core, link, exit, wants, fresh, owed, inflight, wire, replies, reads, snapshots,
                 mustReread>>

OpenOrdersRead(p) ==
  /\ MayCall /\ p \in reads /\ (p = "current" => "stale" \notin reads)
  /\ reads' = reads \ {p}
  /\ \E isRead \in {TRUE} \cup {~ fails : fails \in RestFails} :
       snapshots' = snapshots \cup
         {[pass |-> p, isRead |-> isRead,
           open |-> IF isRead THEN {o \in Order : venue[o] = "resting"} ELSE {}]}
  /\ UNCHANGED <<core, link, exit, wants, fresh, owed, inflight, wire, replies, stream, jobs,
                 answers, mustReread, venue>>

\* An order fills, expires or is cancelled by hand.
Ends(o) ==
  /\ MayTell /\ venue[o] = "resting"
  /\ venue' = [venue EXCEPT ![o] = "over"]
  /\ stream' = Report(o, "over")
  /\ UNCHANGED <<core, link, exit, wants, fresh, owed, inflight, wire, replies, restVars, mustReread>>

\* One line of the open-orders answer the hot thread's own reconcile asks for.
OpenOrderLine(o) ==
  /\ link = "subscribed" /\ "Snapshot" \in Commands
  /\ MayTell /\ venue[o] = "resting"
  /\ stream' = stream \cup {[order |-> o, says |-> "live"]}
  /\ UNCHANGED <<core, link, exit, wants, fresh, owed, inflight, wire, replies, restVars, mustReread,
                 venue>>

-----------------------------------------------------------------------------
Commanded ==
  \/ \E o \in Own : \/ PlaceAdmitted(o) \/ PlaceRefused(o) \/ CancelCommand(o)
                    \/ AmendCommand(o) \/ ReconcileOrderCommand(o)
  \/ CancelOursCommand \/ CancelPriorCommand

Connection ==
  \/ Connect \/ Subscribed \/ LoseConnection \/ RetryPass
  \/ \E r \in inflight : Expire(r)

Folded ==
  \/ \E m \in replies : OnReply(m)
  \/ \E m \in stream : OnReport(m)
  \/ \E a \in answers : OnAnswer(a)
  \/ \E s \in snapshots : SnapshotFailed(s) \/ SnapshotBroken(s) \/ SnapshotFolded(s)

Exiting ==
  \/ PlanExit \/ SweepBlind \/ RetrySweep \/ FinishServed \/ FinishOffline \/ Unpark \/ Resume
  \/ \E l \in Latches : Latch(l)

Venue ==
  \/ \E r \in wire : VenueAnswers(r)
  \/ \E j \in jobs : CallMade(j)
  \/ \E p \in reads : OpenOrdersRead(p)
  \/ \E o \in Order : Ends(o) \/ OpenOrderLine(o)

Next == Commanded \/ Connection \/ Folded \/ Exiting \/ Venue

Spec == Init /\ [][Next]_vars

LearnsFate(o) ==
  \E m \in replies : /\ m.order = o /\ m.kind \in {"Cancel", "Status"} /\ m.says \in {"gone", "live"}
                    /\ OnReply(m)

\* A dialled socket is subscribed.  The housekeeping tick runs while a connection
\* is served: it expires what is past its deadline and retries a sweep.  The venue
\* takes what is on the wire; asked again and again for a cancel or a status it
\* obeys one in time at last, and at last word of whether an order rests beats the
\* deadline.
Fairness ==
  /\ \A r \in Request : WF_vars(Expire(r)) /\ WF_vars(VenueAnswers(r))
  /\ \A o \in Order : /\ SF_vars(VenueObeys(Req("Cancel", o)))
                      /\ SF_vars(VenueObeys(Req("Status", o)))
                      /\ SF_vars(LearnsFate(o))
  /\ \A m \in Reports : WF_vars(OnReport(m))
  /\ WF_vars(Subscribed) /\ WF_vars(RetrySweep)

FairSpec == Spec /\ Fairness

-----------------------------------------------------------------------------
(***************************************************************************)
(* Properties                                                              *)
(***************************************************************************)
\* Every variable has its type, and the latches belong to mirrored orders (mirror.rs).
TypeOK ==
  /\ core \in Core
  /\ core.latched \cup core.ambiguous \subseteq core.mirror
  /\ link \in Links /\ exit \in ExitReasons \cup {None}
  /\ wants \subseteq {"Shutdown", "Fatal", "Park"}
  /\ fresh \subseteq Own /\ owed \subseteq Own
  /\ inflight \subseteq Request /\ wire \subseteq Request
  /\ replies \subseteq Replies /\ stream \subseteq Reports
  /\ jobs \subseteq Calls /\ answers \subseteq Answers
  /\ reads \subseteq Passes /\ snapshots \subseteq Snapshots
  /\ mustReread \in BOOLEAN
  /\ venue \in [Order -> Fates]

\* The mirror never forgets an order of this run that rests at the venue or may
\* still come to rest there: whatever was refused, timed out, answered twice or
\* lost with a socket, the exit sweep would still name it (answer.rs, mirror.rs).
NeverForgets == \A o \in Own : MayRest(o) => o \in core.mirror

\* When an exit's sweep reports complete, no order of this run rests or may still
\* come to rest: settle_if_swept is never early.
SweptIsSwept ==
  core.isSwept /\ exit # None /\ link # "stopped" => \A o \in Own : ~ MayRest(o)

\* Once the core has settled nothing of this run rests, for good.
SettledIsEmpty == core.phase = "Settled" => \A o \in Own : ~ MayRest(o)

\* A sweep that reports complete left nothing behind, then and for good.
SweepLeavesNothing == SweptIsSwept /\ SettledIsEmpty

\* Quoting opens only over an account stream that is up and a resync pass that is
\* complete: nothing is placed against a mirror nobody verified (on_connected).
QuotesVerified ==
  core.phase = "Quoting" => link = "subscribed" /\ reads = {} /\ snapshots = {}

\* Quoting never opens over a prior run's order: none rests while it is open,
\* whenever the socket dropped between the read and the cancels (on_stream_ready).
QuotesAlone == core.phase = "Quoting" => \A o \in Prior : venue[o] # "resting"

\* At the venue itself no side ever holds, or may come to hold, more of this
\* run's orders than the limit, however stale the edge's view (on_place).
SideLimitHolds ==
  \A o \in Own : Cardinality({p \in Own \cap SameSide(o) : MayRest(p)}) <= SideLimit

\* A latched cancel is never stranded: its answer is owed, or a sweep asks again,
\* so no order drops out of every cancel path (re_arm_cancel, probe_unresolved).
LatchIsOwed ==
  \A o \in core.mirror \cap core.latched :
    \/ o \in core.ambiguous
    \/ Req("Cancel", o) \in inflight \cup jobs
    \/ \E a \in answers : a.kind = "Cancel" /\ a.order = o

\* Every placement whose hot slot still waits has its request in flight, so an
\* answer, its deadline or the end of the connection will speak for it.
OwedIsInFlight == \A o \in owed : Req("Place", o) \in inflight

\* ... and so every placement sent is at length answered.
EveryPlaceAnswered == \A o \in Own : o \in owed ~> o \notin owed

\* A sweep begun over a connection that stays up completes, whatever was in
\* flight, in doubt or refused when it began.
SweepCompletes == (Serving /\ exit # None) ~> (core.isSwept \/ ~ Serving)

=============================================================================
