---------------------------- MODULE ExecEdge_proofs ----------------------------
(***************************************************************************)
(* The safety of the execution edge, for any number of orders, any side    *)
(* limit, any commands, refusals, failures and latches, and any bounds.    *)
(*                                                                         *)
(* Where Inputs is assumed, nothing a dead socket carried lands later, and *)
(* nothing is folded before the subscription is answered.                  *)
(***************************************************************************)
EXTENDS ExecEdge, FiniteSetTheorems, TLAPS

-----------------------------------------------------------------------------
(***************************************************************************)
(* What every operation of the order core leaves alone, for any orders and *)
(* any side limit.                                                         *)
(***************************************************************************)
\* A core as the code can hold one: the flags are fields of mirrored orders.
Sound(c) == c \in Core /\ c.latched \cup c.ambiguous \subseteq c.mirror

\* What an operation may do to a core: only orders of `gone` leave the mirror,
\* only orders of `seen` enter it, only orders known before or after are asked
\* about, quoting opens only out of a resync whose pass is complete and over a
\* mirror without a prior run's order, and the core settles, or reports its sweep
\* complete, only over an empty mirror.
Follows(c, did, gone, seen) ==
  /\ did = [core |-> did.core, sends |-> did.sends, trips |-> did.trips]
  /\ Sound(did.core)
  /\ did.sends \subseteq [kind : {"Cancel", "Status"}, order : c.mirror \cup gone \cup seen]
  /\ did.trips \in BOOLEAN
  /\ c.mirror \ gone \subseteq did.core.mirror
  /\ did.core.mirror \subseteq c.mirror \cup seen
  /\ did.core.phase = "Quoting" =>
       \/ c.phase = "Quoting"
       \/ c.phase = "Resyncing" /\ c.isPending /\ did.core.mirror \cap Prior = {}
  /\ did.core.phase = "Resyncing" => c.phase = "Resyncing"
  /\ did.core.phase = "Settled" => c.phase = "Settled" \/ did.core.mirror = {}
  /\ did.core.isSwept => c.isSwept \/ did.core.mirror = {}
  /\ did.core.isPending => c.isPending

\* Settling keeps a sound core sound, and happens only over an empty mirror.
LEMMA SettleIfSweptSound ==
  ASSUME NEW c, Sound(c)
  PROVE  /\ Sound(SettleIfSwept(c))
         /\ SettleIfSwept(c).mirror = c.mirror
         /\ SettleIfSwept(c).isPending = c.isPending
         /\ SettleIfSwept(c).phase \in {c.phase, "Settled", "Down"}
         /\ SettleIfSwept(c).phase = "Settled" => c.phase = "Settled" \/ c.mirror = {}
         /\ SettleIfSwept(c).isSwept => c.isSwept \/ c.mirror = {}
BY DEF SettleIfSwept, Sound, Core, Phases, None, IsTerminal

\* Arming after an operation opens quoting and touches nothing else.
LEMMA ArmedFollows ==
  ASSUME NEW c, NEW did, NEW gone, NEW seen, Follows(c, did, gone, seen)
  PROVE  Follows(c, Armed(did), gone, seen)
<1>1. PICK k, q, t : did = [core |-> k, sends |-> q, trips |-> t]
  BY DEF Follows
<1>2. Armed(did) = [core |-> ArmReadiness(k), sends |-> q, trips |-> t]
  BY <1>1 DEF Armed
<1>3. /\ Sound(k) => Sound(ArmReadiness(k)) /\ ArmReadiness(k).mirror = k.mirror
                      /\ ArmReadiness(k).isSwept = k.isSwept
      /\ Sound(k) /\ ArmReadiness(k).isPending => k.isPending
      /\ Sound(k) => \/ ArmReadiness(k).phase = k.phase
                     \/ /\ ArmReadiness(k).phase = "Quoting" /\ k.phase = "Resyncing" /\ k.isPending
                        /\ k.mirror \cap Prior = {}
  BY DEF ArmReadiness, Sound, Core, Phases
<1>4. Follows(c, [core |-> k, sends |-> q, trips |-> t], gone, seen)
  BY <1>1
<1>5. Follows(c, [core |-> ArmReadiness(k), sends |-> q, trips |-> t], gone, seen)
  BY <1>3, <1>4 DEF Follows
<1> QED BY <1>2, <1>5

\* Re-arming a cancel after an operation touches nothing else.
LEMMA ReArmedFollows ==
  ASSUME NEW c, NEW did, NEW gone, NEW seen, NEW o, Follows(c, did, gone, seen)
  PROVE  Follows(c, [did EXCEPT !.core = ReArmCancel(did.core, o)], gone, seen)
<1>1. PICK k, q, t : did = [core |-> k, sends |-> q, trips |-> t]
  BY DEF Follows
<1>2. [did EXCEPT !.core = ReArmCancel(did.core, o)] = [core |-> ReArmCancel(k, o), sends |-> q, trips |-> t]
  BY <1>1
<1>3. Follows(c, [core |-> k, sends |-> q, trips |-> t], gone, seen)
  BY <1>1
<1>4. Follows(c, [core |-> ReArmCancel(k, o), sends |-> q, trips |-> t], gone, seen)
  BY <1>3 DEF Follows, ReArmCancel, Sound, Core, Phases
<1> QED BY <1>2, <1>4

\* One operation after another that neither sees nor forgets an order.
LEMMA ThenFollows ==
  ASSUME NEW c, NEW did, NEW next, NEW gone, NEW seen,
         Follows(c, did, gone, seen), Follows(did.core, next, {}, {})
  PROVE  Follows(c, Then(did, next), gone, seen)
BY DEF Follows, Then

\* Cancelling orders of the mirror only sets their latches.
LEMMA CancelMatchingFollows ==
  ASSUME NEW c, NEW orders, Sound(c)
  PROVE  /\ Follows(c, CancelMatching(c, orders), {}, {})
         /\ CancelMatching(c, orders).core.phase = c.phase
         /\ CancelMatching(c, orders).core.mirror = c.mirror
         /\ CancelMatching(c, orders).core.isSwept = c.isSwept
         /\ CancelMatching(c, orders).core.isPending = c.isPending
BY DEF Follows, CancelMatching, Does, Reqs, Req, Sound, Core, Phases

\* A command's cancel, blind if the order is not mirrored.
LEMMA CancelOneFollows ==
  ASSUME NEW c, NEW o \in Order, Sound(c)
  PROVE  Follows(c, CancelOne(c, o), {}, {o})
<1>1. CASE o \in c.mirror
  <2>1. Follows(c, CancelMatching(c, {o}), {}, {})
    BY CancelMatchingFollows
  <2> QED BY <1>1, <2>1 DEF CancelOne, Follows
<1>2. CASE o \notin c.mirror
  BY <1>2 DEF Follows, CancelOne, Does, Req, Sound
<1> QED BY <1>1, <1>2

\* A sweep forgets nothing, closes quoting and settles only an empty mirror.
LEMMA BeginSweepFollows ==
  ASSUME NEW c, NEW reason \in Reasons, Sound(c)
  PROVE  /\ Follows(c, BeginSweep(c, reason), {}, {})
         /\ BeginSweep(c, reason).core.phase \in {"Down", "Cancelling", "Settled"}
         /\ BeginSweep(c, reason).core.mirror = c.mirror
<1>1. CASE c.phase = "Settled"
  BY <1>1 DEF BeginSweep, Only, Does, Follows, Sound
<1>2. CASE c.phase # "Settled"
  <2> DEFINE begun      == [c EXCEPT !.phase = "Cancelling", !.sweep = reason]
             cancels    == CancelMatching(begun, Order)
             unresolved == cancels.core.mirror \cap cancels.core.latched \cap cancels.core.ambiguous
             settled    == SettleIfSwept(cancels.core)
  <2>1. BeginSweep(c, reason) = Does(settled, cancels.sends \cup Reqs("Status", unresolved))
    BY <1>2 DEF BeginSweep
  <2>2. /\ Sound(begun) /\ begun.mirror = c.mirror /\ begun.isSwept = c.isSwept
        /\ begun.isPending = c.isPending /\ begun.phase = "Cancelling"
    BY DEF Sound, Core, Phases
  <2>3. /\ Follows(begun, cancels, {}, {}) /\ cancels.core.phase = "Cancelling"
        /\ cancels.core.mirror = c.mirror /\ cancels.core.isSwept = c.isSwept
        /\ cancels.core.isPending = c.isPending
    BY <2>2, CancelMatchingFollows
  <2>4. Sound(cancels.core)
    BY <2>3 DEF Follows
  <2>5. /\ Sound(settled) /\ settled.mirror = c.mirror /\ settled.isPending = c.isPending
        /\ settled.phase \in {"Cancelling", "Settled", "Down"}
        /\ settled.phase = "Settled" => c.mirror = {}
        /\ settled.isSwept => c.isSwept \/ c.mirror = {}
    BY <2>3, <2>4, SettleIfSweptSound
  <2>6. cancels.sends \cup Reqs("Status", unresolved)
          \subseteq [kind : {"Cancel", "Status"}, order : c.mirror]
    BY <2>2, <2>3 DEF Follows, Reqs, Req
  <2> HIDE DEF settled, unresolved, cancels
  <2> QED BY <2>1, <2>5, <2>6 DEF Follows, Does
<1> QED BY <1>1, <1>2

\* An end forgets the one order it is about.
LEMMA OnOrderGoneFollows ==
  ASSUME NEW c, NEW o \in Order, Sound(c)
  PROVE  Follows(c, OnOrderGone(c, o), {o}, {})
BY DEF Follows, OnOrderGone, SettleIfSwept, Only, Does, Sound, Core, Phases, None, IsTerminal

\* A refused or failed cancel may go again; nothing else changes.
LEMMA ReArmCancelFollows ==
  ASSUME NEW c, NEW o, Sound(c)
  PROVE  Follows(c, Only(ReArmCancel(c, o)), {}, {})
BY DEF Follows, ReArmCancel, Only, Does, Sound, Core, Phases

\* An order in doubt is asked about and not forgotten.
LEMMA OnAmbiguousFollows ==
  ASSUME NEW c, NEW o \in Order, Sound(c)
  PROVE  Follows(c, OnAmbiguous(c, o), {}, {})
<1>1. CASE o \in c.mirror
  BY <1>1 DEF Follows, OnAmbiguous, MarkAmbiguous, Does, Req, Sound, Core
<1>2. CASE o \notin c.mirror
  BY <1>2 DEF Follows, OnAmbiguous, Only, Does, Sound
<1> QED BY <1>1, <1>2

\* A request past its deadline is asked about and nothing is forgotten.
LEMMA OnRequestTimeoutFollows ==
  ASSUME NEW c, NEW o \in Order, Sound(c)
  PROVE  /\ Follows(c, OnRequestTimeout(c, o), {}, {o})
         /\ OnRequestTimeout(c, o).core.phase = c.phase
         /\ OnRequestTimeout(c, o).core.mirror = c.mirror
BY DEF Follows, OnRequestTimeout, MarkAmbiguous, Does, Req, Sound, Core, Phases

\* A live order enters the mirror, if need be beyond the limit of its side.
LEMMA ObserveIfUnknownFollows ==
  ASSUME NEW c, NEW o \in Order, Sound(c)
  PROVE  Follows(c, ObserveIfUnknown(c, o), {}, {o})
<1> DEFINE seen == [c EXCEPT !.mirror = @ \cup {o}]
<1>1. /\ Sound(seen) /\ seen.mirror = c.mirror \cup {o} /\ seen.phase = c.phase
      /\ seen.isSwept = c.isSwept /\ seen.isPending = c.isPending
  BY DEF Sound, Core
<1>2. Follows(c, Only(c), {}, {o})
  BY DEF Follows, Only, Does, Sound
<1>3. Follows(c, Trips(StopQuoting(seen), {}), {}, {o})
  BY <1>1 DEF Follows, Trips, StopQuoting, Sound, Core, Phases
<1>4. Follows(c, Only(seen), {}, {o})
  BY <1>1 DEF Follows, Only, Does
<1>5. Follows(c, CancelMatching(seen, Prior), {}, {o})
  <2> DEFINE did == CancelMatching(seen, Prior)
  <2>1. /\ Follows(seen, did, {}, {}) /\ did.core.phase = c.phase
        /\ did.core.mirror = c.mirror \cup {o} /\ did.core.isSwept = c.isSwept
        /\ did.core.isPending = c.isPending
    BY <1>1, CancelMatchingFollows
  <2> HIDE DEF did, seen
  <2>2. Follows(c, did, {}, {o})
    BY <1>1, <2>1 DEF Follows
  <2> QED BY <2>2 DEF did
<1> HIDE DEF seen
<1> QED
  <2>1. \/ ObserveIfUnknown(c, o) = Only(c)
        \/ ObserveIfUnknown(c, o) = Trips(StopQuoting(seen), {})
        \/ ObserveIfUnknown(c, o) = Only(seen)
        \/ ObserveIfUnknown(c, o) = CancelMatching(seen, Prior)
    BY DEF ObserveIfUnknown, seen
  <2> QED BY <2>1, <1>2, <1>3, <1>4, <1>5

\* Whatever is said of an order, only word of its end takes it from the mirror.
LEMMA OnEventFollows ==
  ASSUME NEW c, NEW o \in Order, NEW says \in Verdicts, Sound(c)
  PROVE  Follows(c, OnEvent(c, o, says), IF says = "gone" THEN {o} ELSE {}, {o})
<1>1. Follows(c, Only(c), {}, {})
  BY DEF Follows, Only, Does, Sound
<1>2. CASE says = "live"
  BY <1>2, ObserveIfUnknownFollows DEF OnEvent
<1>3. CASE says = "gone"
  BY <1>3, OnOrderGoneFollows DEF OnEvent, Follows
<1>4. CASE says = "ambiguous"
  BY <1>4, OnAmbiguousFollows DEF OnEvent, Follows
<1>5. CASE says = "stillLive"
  BY <1>5, ReArmCancelFollows DEF OnEvent, Follows
<1>6. CASE says = "fatal"
  BY <1>6, <1>1 DEF OnEvent, Follows
<1> QED BY <1>2, <1>3, <1>4, <1>5, <1>6 DEF Verdicts

\* A new connection starts a resync, a lost one closes quoting.
LEMMA ConnectionSound ==
  ASSUME NEW c, Sound(c)
  PROVE  /\ Sound(OnConnected(c)) /\ Sound(OnDisconnected(c))
         /\ OnConnected(c).mirror = c.mirror /\ OnDisconnected(c).mirror = c.mirror
         /\ OnConnected(c).phase # "Quoting"
         /\ OnConnected(c).phase = "Settled" => c.phase = "Settled"
         /\ OnConnected(c).isSwept = c.isSwept /\ OnDisconnected(c).isSwept = c.isSwept
         /\ OnConnected(c).isPending = c.isPending /\ OnDisconnected(c).isPending = c.isPending
         /\ OnDisconnected(c).phase \in {"Down", "Cancelling", "Settled"}
         /\ OnDisconnected(c).phase = "Settled" => c.phase = "Settled"
BY DEF Sound, Core, Phases, OnConnected, OnDisconnected

-----------------------------------------------------------------------------
(***************************************************************************)
(* The cancel latches                                                      *)
(***************************************************************************)
\* A settled core has no cancel latched.
Unlatched(c) == c.phase = "Settled" => c.latched = {}

\* What an operation may do to the latches: a cancel newly latched is sent, and an
\* order in doubt stays in doubt until it is forgotten.
Owes(c, did) ==
  /\ \A o \in did.core.latched : o \in c.latched \/ Req("Cancel", o) \in did.sends
  /\ c.ambiguous \cap did.core.mirror \subseteq did.core.ambiguous
  /\ Unlatched(c) => Unlatched(did.core)

\* An operation that latches nothing and doubts no less.
LEMMA OwesNothing ==
  ASSUME NEW c, NEW did, NEW gone, NEW seen, Sound(c), Follows(c, did, gone, seen),
         did.core.latched \subseteq c.latched,
         c.ambiguous \cap did.core.mirror \subseteq did.core.ambiguous
  PROVE  Owes(c, did)
BY DEF Owes, Unlatched, Follows, Sound

\* Every cancel latched is sent, and none while settled.
LEMMA CancelMatchingOwes ==
  ASSUME NEW c, NEW orders, Sound(c)
  PROVE  Owes(c, CancelMatching(c, orders))
BY DEF Owes, Unlatched, CancelMatching, AdmitsCancels, Does, Reqs, Req, Sound, Core, Phases

\* One operation after another.
LEMMA ThenOwes ==
  ASSUME NEW c, NEW did, NEW next, NEW gone, NEW seen, Follows(c, did, gone, seen),
         Follows(did.core, next, {}, {}), Owes(c, did), Owes(did.core, next)
  PROVE  Owes(c, Then(did, next))
<1> DEFINE both == Then(did, next)
<1>1. both.core = next.core /\ both.sends = did.sends \cup next.sends
  BY DEF Then
<1>2. next.core.mirror = did.core.mirror
  BY DEF Follows
<1> HIDE DEF both
<1>3. \A o \in both.core.latched : o \in c.latched \/ Req("Cancel", o) \in both.sends
  BY <1>1 DEF Owes
<1>4. c.ambiguous \cap both.core.mirror \subseteq both.core.ambiguous
  BY <1>1, <1>2 DEF Owes
<1>5. Unlatched(c) => Unlatched(both.core)
  BY <1>1 DEF Owes
<1>6. Owes(c, both)
  BY <1>3, <1>4, <1>5 DEF Owes
<1> QED BY <1>6 DEF both

\* Arming touches neither the latches nor what is in doubt.
LEMMA ArmedOwes ==
  ASSUME NEW c, NEW did, NEW gone, NEW seen, Sound(c), Follows(c, did, gone, seen), Owes(c, did)
  PROVE  Owes(c, Armed(did))
<1>1. PICK k, q, t : did = [core |-> k, sends |-> q, trips |-> t]
  BY DEF Follows
<1>2. Armed(did) = [core |-> ArmReadiness(k), sends |-> q, trips |-> t]
  BY <1>1 DEF Armed
<1>3. Sound(k)
  BY <1>1 DEF Follows
<1>4. /\ ArmReadiness(k).latched = k.latched /\ ArmReadiness(k).ambiguous = k.ambiguous
      /\ ArmReadiness(k).mirror = k.mirror
      /\ ArmReadiness(k).phase = "Settled" => k.phase = "Settled"
  BY <1>3 DEF ArmReadiness, Sound, Core, Phases
<1>5. Owes(c, [core |-> k, sends |-> q, trips |-> t])
  BY <1>1
<1>6. Owes(c, [core |-> ArmReadiness(k), sends |-> q, trips |-> t])
  BY <1>4, <1>5 DEF Owes, Unlatched
<1> QED BY <1>2, <1>6

\* A re-armed cancel is not latched.
LEMMA ReArmedOwes ==
  ASSUME NEW c, NEW did, NEW gone, NEW seen, NEW o, Sound(c), Follows(c, did, gone, seen), Owes(c, did)
  PROVE  /\ Owes(c, [did EXCEPT !.core = ReArmCancel(did.core, o)])
         /\ o \notin ReArmCancel(did.core, o).latched
<1>1. PICK k, q, t : did = [core |-> k, sends |-> q, trips |-> t]
  BY DEF Follows
<1>2. [did EXCEPT !.core = ReArmCancel(did.core, o)] = [core |-> ReArmCancel(k, o), sends |-> q, trips |-> t]
  BY <1>1
<1>3. Sound(k)
  BY <1>1 DEF Follows
<1>4. /\ ReArmCancel(k, o).latched = k.latched \ {o} /\ ReArmCancel(k, o).ambiguous = k.ambiguous
      /\ ReArmCancel(k, o).mirror = k.mirror /\ ReArmCancel(k, o).phase = k.phase
  BY <1>3 DEF ReArmCancel, Sound, Core
<1>5. Owes(c, [core |-> k, sends |-> q, trips |-> t])
  BY <1>1
<1>6. Owes(c, [core |-> ReArmCancel(k, o), sends |-> q, trips |-> t])
  BY <1>4, <1>5 DEF Owes, Unlatched
<1> QED BY <1>1, <1>2, <1>4, <1>6

\* A sweep sends every cancel it latches.
LEMMA BeginSweepOwes ==
  ASSUME NEW c, NEW reason \in Reasons, Sound(c)
  PROVE  Owes(c, BeginSweep(c, reason))
<1>1. CASE c.phase = "Settled"
  BY <1>1 DEF BeginSweep, Only, Does, Owes
<1>2. CASE c.phase # "Settled"
  <2> DEFINE begun      == [c EXCEPT !.phase = "Cancelling", !.sweep = reason]
             cancels    == CancelMatching(begun, Order)
             unresolved == cancels.core.mirror \cap cancels.core.latched \cap cancels.core.ambiguous
             settled    == SettleIfSwept(cancels.core)
  <2>1. BeginSweep(c, reason) = Does(settled, cancels.sends \cup Reqs("Status", unresolved))
    BY <1>2 DEF BeginSweep
  <2>2. /\ Sound(begun) /\ begun.latched = c.latched /\ begun.ambiguous = c.ambiguous
        /\ begun.mirror = c.mirror /\ begun.phase = "Cancelling"
    BY DEF Sound, Core, Phases
  <2>3. Owes(begun, cancels) /\ Follows(begun, cancels, {}, {}) /\ cancels.core.phase = "Cancelling"
    BY <2>2, CancelMatchingOwes, CancelMatchingFollows
  <2>4. Sound(cancels.core)
    BY <2>3 DEF Follows
  <2>5. /\ Sound(settled) /\ settled.latched = cancels.core.latched
        /\ settled.ambiguous = cancels.core.ambiguous /\ settled.mirror = cancels.core.mirror
        /\ settled.phase = "Settled" => settled.mirror = {}
    <3> DEFINE k == cancels.core
    <3> HIDE DEF k, settled
    <3>1. settled = SettleIfSwept(k) /\ Sound(k) /\ k.phase = "Cancelling"
      BY <2>3, <2>4 DEF k, settled
    <3>2. /\ SettleIfSwept(k).latched = k.latched /\ SettleIfSwept(k).ambiguous = k.ambiguous
      BY <3>1 DEF SettleIfSwept, Sound, Core
    <3>3. /\ Sound(SettleIfSwept(k)) /\ SettleIfSwept(k).mirror = k.mirror
          /\ SettleIfSwept(k).phase = "Settled" => k.mirror = {}
      BY <3>1, SettleIfSweptSound
    <3> QED BY <3>1, <3>2, <3>3 DEF k
  <2>6. settled.phase = "Settled" => settled.latched = {}
    BY <2>5 DEF Sound
  <2> HIDE DEF settled, unresolved, cancels, begun
  <2>7. Owes(c, Does(settled, cancels.sends \cup Reqs("Status", unresolved)))
    BY <2>2, <2>3, <2>5, <2>6 DEF Owes, Unlatched, Does
  <2> QED BY <2>1, <2>7
<1> QED BY <1>1, <1>2

\* Word of one order: what it says of its latch.
LEMMA WordOwes ==
  ASSUME NEW c, NEW o \in Order, Sound(c)
  PROVE  /\ Owes(c, OnOrderGone(c, o)) /\ o \notin OnOrderGone(c, o).core.latched
         /\ Owes(c, Only(ReArmCancel(c, o))) /\ o \notin ReArmCancel(c, o).latched
         /\ Owes(c, OnAmbiguous(c, o))
         /\ o \in OnAmbiguous(c, o).core.latched => o \in OnAmbiguous(c, o).core.ambiguous
         /\ Owes(c, OnRequestTimeout(c, o))
         /\ o \in OnRequestTimeout(c, o).core.latched => o \in OnRequestTimeout(c, o).core.ambiguous
<1>1. Owes(c, OnOrderGone(c, o)) /\ o \notin OnOrderGone(c, o).core.latched
  <2>1. Follows(c, OnOrderGone(c, o), {o}, {})
    BY OnOrderGoneFollows
  <2>2. /\ OnOrderGone(c, o).core.latched = c.latched \ {o}
        /\ OnOrderGone(c, o).core.ambiguous = c.ambiguous \ {o}
        /\ OnOrderGone(c, o).core.mirror = c.mirror \ {o}
    BY DEF OnOrderGone, SettleIfSwept, Only, Does, Sound, Core
  <2> QED BY <2>1, <2>2, OwesNothing
<1>2. Owes(c, Only(ReArmCancel(c, o))) /\ o \notin ReArmCancel(c, o).latched
  <2>1. Follows(c, Only(ReArmCancel(c, o)), {}, {})
    BY ReArmCancelFollows
  <2>2. /\ ReArmCancel(c, o).latched = c.latched \ {o} /\ ReArmCancel(c, o).ambiguous = c.ambiguous
        /\ Only(ReArmCancel(c, o)).core = ReArmCancel(c, o)
    BY DEF ReArmCancel, Only, Does, Sound, Core
  <2> QED BY <2>1, <2>2, OwesNothing
<1>3. /\ Owes(c, OnAmbiguous(c, o))
      /\ o \in OnAmbiguous(c, o).core.latched => o \in OnAmbiguous(c, o).core.ambiguous
  <2>1. Follows(c, OnAmbiguous(c, o), {}, {})
    BY OnAmbiguousFollows
  <2>2. /\ OnAmbiguous(c, o).core.latched = c.latched /\ c.ambiguous \subseteq OnAmbiguous(c, o).core.ambiguous
        /\ o \in c.mirror => o \in OnAmbiguous(c, o).core.ambiguous
    BY DEF OnAmbiguous, MarkAmbiguous, Only, Does, Sound, Core
  <2> QED BY <2>1, <2>2, OwesNothing DEF Sound
<1>4. /\ Owes(c, OnRequestTimeout(c, o))
      /\ o \in OnRequestTimeout(c, o).core.latched => o \in OnRequestTimeout(c, o).core.ambiguous
  <2>1. Follows(c, OnRequestTimeout(c, o), {}, {o})
    BY OnRequestTimeoutFollows
  <2>2. /\ OnRequestTimeout(c, o).core.latched = c.latched
        /\ c.ambiguous \subseteq OnRequestTimeout(c, o).core.ambiguous
        /\ o \in c.mirror => o \in OnRequestTimeout(c, o).core.ambiguous
    BY DEF OnRequestTimeout, MarkAmbiguous, Does, Sound, Core
  <2> QED BY <2>1, <2>2, OwesNothing DEF Sound
<1> QED BY <1>1, <1>2, <1>3, <1>4

\* A live order that is first seen is latched only with its cancel.
LEMMA ObserveOwes ==
  ASSUME NEW c, NEW o \in Order, Sound(c)
  PROVE  Owes(c, ObserveIfUnknown(c, o))
<1> DEFINE seen == [c EXCEPT !.mirror = @ \cup {o}]
<1>1. /\ Sound(seen) /\ seen.mirror = c.mirror \cup {o} /\ seen.phase = c.phase
      /\ seen.latched = c.latched /\ seen.ambiguous = c.ambiguous
  BY DEF Sound, Core
<1> HIDE DEF seen
<1>2. Owes(c, Only(c)) /\ Owes(c, Only(seen))
  BY <1>1 DEF Owes, Only, Does, Unlatched, Sound
<1>3. Owes(c, Trips(StopQuoting(seen), {}))
  <2>1. /\ StopQuoting(seen).latched = c.latched /\ StopQuoting(seen).ambiguous = c.ambiguous
        /\ StopQuoting(seen).mirror = c.mirror \cup {o}
        /\ StopQuoting(seen).phase = "Settled" => c.phase = "Settled"
    BY <1>1 DEF StopQuoting, Sound, Core, Phases
  <2> QED BY <2>1 DEF Owes, Trips, Unlatched, Sound
<1>4. Owes(c, CancelMatching(seen, Prior))
  <2>1. Owes(seen, CancelMatching(seen, Prior)) /\ CancelMatching(seen, Prior).core.mirror = seen.mirror
    BY <1>1, CancelMatchingOwes, CancelMatchingFollows
  <2> QED BY <1>1, <2>1 DEF Owes, Unlatched
<1>5. \/ ObserveIfUnknown(c, o) = Only(c)
      \/ ObserveIfUnknown(c, o) = Trips(StopQuoting(seen), {})
      \/ ObserveIfUnknown(c, o) = Only(seen)
      \/ ObserveIfUnknown(c, o) = CancelMatching(seen, Prior)
  BY DEF ObserveIfUnknown, seen
<1> QED BY <1>2, <1>3, <1>4, <1>5

\* Whatever is said of an order; a refusal or an end of its cancel clears the latch
\* or leaves the order in doubt.
LEMMA OnEventOwes ==
  ASSUME NEW c, NEW o \in Order, NEW says \in Verdicts, Sound(c)
  PROVE  /\ Owes(c, OnEvent(c, o, says))
         /\ says \in {"gone", "ambiguous", "stillLive"} /\ o \in OnEvent(c, o, says).core.latched
              => o \in OnEvent(c, o, says).core.ambiguous
<1>1. CASE says = "live"
  BY <1>1, ObserveOwes DEF OnEvent
<1>2. CASE says = "gone"
  BY <1>2, WordOwes DEF OnEvent
<1>3. CASE says = "ambiguous"
  BY <1>3, WordOwes DEF OnEvent
<1>4. CASE says = "stillLive"
  <2>1. OnEvent(c, o, says) = Only(ReArmCancel(c, o)) /\ Only(ReArmCancel(c, o)).core = ReArmCancel(c, o)
    BY <1>4 DEF OnEvent, Only, Does
  <2> QED BY <2>1, WordOwes
<1>5. CASE says = "fatal"
  <2>1. OnEvent(c, o, says) = Only(c) /\ Only(c).core = c
    BY <1>5 DEF OnEvent, Only, Does
  <2> QED BY <1>5, <2>1 DEF Owes
<1> QED BY <1>1, <1>2, <1>3, <1>4, <1>5 DEF Verdicts

-----------------------------------------------------------------------------
(***************************************************************************)
(* The inductive invariant                                                 *)
(***************************************************************************)
Asked == inflight \cup wire \cup jobs
Told  == replies \cup stream \cup answers

\* Nothing rests, and nothing ever will: the id is used up.
Over(o) == ~ MayRest(o) /\ o \notin fresh

\* No word of an id before it is placed.
FreshUnheard ==
  \A o \in fresh : /\ venue[o] = "unborn" /\ o \notin core.mirror
                   /\ \A r \in Asked : r.order # o
                   /\ \A m \in Told : m.order # o
                   /\ \A s \in snapshots : o \notin s.open

\* Word that an order is gone is true whenever it is read.
GoneIsOver == \A m \in Told : m.says = "gone" /\ m.order \in Own => Over(m.order)

\* No resync pass is under way or due.
Verified == reads = {} /\ snapshots = {} /\ ~ mustReread

\* While a placement is under way nobody asks REST about its order, so an
\* "unknown order" cannot be taken for its end.
PlacesUnborn ==
  \A o \in Own : Req("Place", o) \in wire =>
    /\ link = "subscribed" /\ Verified
    /\ venue[o] = "unborn"
    /\ \A j \in jobs : j.order # o

\* Quoting opens only while served, subscribed and verified.
QuotingIsVerified ==
  /\ core.phase \in {"Resyncing", "Quoting"} => Serving /\ exit = None
  /\ core.phase = "Quoting" => link = "subscribed" /\ Verified
  /\ link = "subscribed" /\ core.isPending => Verified

\* One current pass at most, and no stale one outlives it.
PassesInOrder ==
  /\ "current" \in reads => ~ mustReread /\ \A s \in snapshots : s.pass # "current"
  /\ \A s \in snapshots : s.pass = "current" => ~ mustReread
  /\ \A s, t \in snapshots : s.pass = "current" /\ t.pass = "current" => s = t
  /\ "stale" \in reads \/ (\E s \in snapshots : s.pass = "stale")
       => "current" \in reads \/ \E s \in snapshots : s.pass = "current"

IInv ==
  /\ TypeOK /\ FreshUnheard /\ GoneIsOver /\ PlacesUnborn /\ QuotingIsVerified /\ PassesInOrder
  /\ NeverForgets /\ SettledIsEmpty /\ SweptIsSwept

Inputs == ~ Lingers /\ ~ FoldsEarly

\* A step of the edge itself: what it may do to the core, what it may ask, and
\* that it neither invents word of an order nor hides a pass under way.
EdgeStep(c, gone, seen, asks, calls) ==
  /\ core' = c /\ Sound(c)
  /\ core.mirror \ gone \subseteq c.mirror /\ c.mirror \subseteq core.mirror \cup seen
  /\ gone \subseteq Order /\ seen \subseteq Order /\ (gone \cup seen) \cap fresh = {}
  /\ \A o \in gone \cap Own : Over(o)
  /\ c.phase = "Resyncing" => core.phase = "Resyncing"
  /\ c.phase = "Quoting" => core.phase = "Quoting" \/ (core.phase = "Resyncing" /\ link = "subscribed" /\ Verified')
  /\ c.phase = "Settled" => core.phase = "Settled" \/ c.mirror = {}
  /\ c.isSwept => core.isSwept \/ c.mirror = {}
  /\ c.isPending => core.isPending \/ Verified'
  /\ Verified => Verified'
  /\ reads' = reads /\ snapshots' \subseteq snapshots /\ mustReread' \in BOOLEAN /\ PassesInOrder'
  /\ asks \subseteq [kind : {"Cancel", "Status"}, order : Order \ fresh]
  /\ calls \subseteq [kind : {"Cancel", "Status"}, order : Order \ fresh]
  /\ calls # {} => ~ Serving \/ snapshots # {}
  /\ inflight' \subseteq inflight \cup asks /\ wire' \subseteq wire \cup asks
  /\ jobs' \subseteq jobs \cup calls
  /\ replies' \subseteq replies /\ stream' \subseteq stream /\ answers' \subseteq answers
  /\ owed' \subseteq owed /\ wants' \subseteq wants \cup {"Fatal"}
  /\ \/ exit' = exit
     \/ exit' \in ExitReasons /\ c.phase \notin {"Resyncing", "Quoting"} /\ (c.isSwept => c.mirror = {})
  /\ UNCHANGED <<link, fresh, venue>>

\* A step keeps the invariant, and no order of this run comes to rest, or may now
\* come to rest, that could not before.
Keeps == IInv' /\ \A o \in Own : MayRest(o)' => MayRest(o)

\* Such a step keeps the invariant.
LEMMA EdgeStepKeeps ==
  ASSUME IInv, NEW c, NEW gone, NEW seen, NEW asks, NEW calls, EdgeStep(c, gone, seen, asks, calls)
  PROVE  Keeps
<1> USE DEF EdgeStep
<1>1. TypeOK'
  BY DEF IInv, TypeOK, Sound, Request, RequestKinds, Calls
<1>2. \A o \in Own : MayRest(o)' => MayRest(o)
  BY DEF MayRest, Req
<1>3. \A o \in Own : Over(o) => Over(o)'
  BY <1>2 DEF Over
<1>4. FreshUnheard'
  BY DEF IInv, FreshUnheard, Asked, Told
<1>5. GoneIsOver'
  BY <1>3 DEF IInv, GoneIsOver, Told
<1>6. PlacesUnborn'
  <2> SUFFICES ASSUME NEW o \in Own, Req("Place", o) \in wire'
               PROVE  link = "subscribed" /\ Verified' /\ venue[o] = "unborn" /\ \A j \in jobs' : j.order # o
    BY DEF PlacesUnborn
  <2>1. Req("Place", o) \in wire
    BY DEF Req
  <2>2. link = "subscribed" /\ Verified /\ venue[o] = "unborn" /\ \A j \in jobs : j.order # o
    BY <2>1 DEF IInv, PlacesUnborn
  <2>3. jobs' \subseteq jobs
    BY <2>2 DEF Serving, Verified
  <2> QED BY <2>2, <2>3
<1>7. QuotingIsVerified'
  BY DEF IInv, QuotingIsVerified, Serving
<1>8. NeverForgets'
  BY <1>2 DEF IInv, NeverForgets, Over
<1>9. SettledIsEmpty'
  BY <1>2, <1>8 DEF IInv, SettledIsEmpty, NeverForgets
<1>10. SweptIsSwept'
  BY <1>2, <1>8 DEF IInv, SweptIsSwept, NeverForgets
<1> QED BY <1>2, <1>1, <1>4, <1>5, <1>6, <1>7, <1>8, <1>9, <1>10 DEF IInv, Keeps

\* A step of the venue: one order changes, or is only spoken of, and only true
\* word of its end is sent.
VenueStep(o, fate) ==
  /\ o \in Order \ fresh
  /\ venue' = [venue EXCEPT ![o] = fate]
  /\ fate = "resting" /\ o \in Own => MayRest(o)
  /\ o \in Own /\ Req("Place", o) \in wire' => fate = "unborn"
  /\ \A m \in Told' \ Told : m.order = o /\ (m.says = "gone" /\ o \in Own => fate # "resting" /\ Req("Place", o) \notin wire')
  /\ wire' \subseteq wire /\ jobs' \subseteq jobs
  /\ TypeOK'
  /\ UNCHANGED <<core, link, exit, wants, fresh, owed, inflight, reads, snapshots, mustReread>>

\* Such a step of the venue keeps the invariant.
LEMMA VenueStepKeeps ==
  ASSUME IInv, NEW o, NEW fate, VenueStep(o, fate)
  PROVE  Keeps
<1> USE DEF VenueStep
<1>1. venue \in [Order -> Fates] /\ Own \subseteq Order
  BY DEF IInv, TypeOK, Order
<1>2. \A p \in Own : MayRest(p)' => MayRest(p)
  BY <1>1 DEF MayRest
<1>3. \A p \in Own : Over(p) => Over(p)'
  BY <1>2 DEF Over
<1>4. FreshUnheard'
  BY <1>1 DEF IInv, FreshUnheard, Asked, Told, TypeOK
<1>5. GoneIsOver'
  <2> SUFFICES ASSUME NEW m \in Told', m.says = "gone", m.order \in Own
               PROVE  Over(m.order)'
    BY DEF GoneIsOver
  <2>1. CASE m \in Told
    BY <2>1, <1>3 DEF IInv, GoneIsOver
  <2>2. CASE m \notin Told
    BY <2>2, <1>1 DEF Over, MayRest
  <2> QED BY <2>1, <2>2
<1>6. PlacesUnborn'
  BY <1>1 DEF IInv, PlacesUnborn, Verified
<1>7. QuotingIsVerified' /\ PassesInOrder'
  BY DEF IInv, QuotingIsVerified, PassesInOrder, Verified, Serving
<1>8. NeverForgets' /\ SettledIsEmpty' /\ SweptIsSwept'
  BY <1>2 DEF IInv, NeverForgets, SettledIsEmpty, SweptIsSwept
<1> QED BY <1>2, <1>4, <1>5, <1>6, <1>7, <1>8 DEF IInv, Keeps

-----------------------------------------------------------------------------
(***************************************************************************)
(* The steps of the edge                                                   *)
(***************************************************************************)
\* The step applies an operation of the core and sends what it sends.
Carries(did, gone, seen) ==
  /\ Follows(core, did, gone, seen)
  /\ gone \cup seen \subseteq Order \ fresh
  /\ \A o \in gone \cap Own : Over(o)
  /\ core.phase = "Resyncing" /\ did.core.phase = "Quoting" => link = "subscribed"
  /\ core' = did.core /\ wants' \subseteq wants \cup {"Fatal"} /\ owed' \subseteq owed
  /\ inflight' \subseteq inflight \cup did.sends /\ wire' \subseteq wire \cup did.sends
  /\ jobs' \subseteq jobs \cup did.sends /\ (Serving => jobs' \subseteq jobs)
  /\ replies' \subseteq replies /\ stream' \subseteq stream /\ answers' \subseteq answers
  /\ UNCHANGED <<link, exit, fresh, reads, snapshots, mustReread, venue>>

\* A step that carries out an operation of the core keeps the invariant.
LEMMA CarriesKeeps ==
  ASSUME IInv, NEW did, NEW gone, NEW seen, Carries(did, gone, seen)
  PROVE  Keeps
<1> DEFINE calls == IF Serving THEN {} ELSE did.sends
<1>1. core.mirror \subseteq Order \ fresh
  BY DEF IInv, FreshUnheard, TypeOK, Core
<1>2. did.sends \subseteq [kind : {"Cancel", "Status"}, order : Order \ fresh]
  BY <1>1 DEF Carries, Follows
<1>3. PassesInOrder' /\ Verified' = Verified
  BY DEF Carries, IInv, PassesInOrder, Verified
<1>4. core.phase = "Resyncing" /\ core.isPending /\ link = "subscribed" => Verified
  BY DEF IInv, QuotingIsVerified
<1>5. mustReread' \in BOOLEAN /\ reads' = reads /\ snapshots' = snapshots
  BY DEF Carries, IInv, TypeOK
<1>6. EdgeStep(did.core, gone, seen, did.sends, calls)
  BY <1>2, <1>3, <1>4, <1>5 DEF Carries, Follows, EdgeStep
<1> QED BY <1>6, EdgeStepKeeps

\* What Apply does to the wire, the table of requests and the REST queue.
LEMMA ApplySends ==
  ASSUME NEW did, Apply(did), did.sends \subseteq [kind : {"Cancel", "Status"}, order : Order], did.trips \in BOOLEAN
  PROVE  /\ core' = did.core /\ wants' \subseteq wants \cup {"Fatal"}
         /\ inflight' \subseteq inflight \cup did.sends /\ wire' \subseteq wire \cup did.sends
         /\ jobs' \subseteq jobs \cup did.sends /\ (Serving => jobs' = jobs)
BY DEF Apply, Dispatch, CallsFor, Call

\* A command of the hot thread other than a placement.
LEMMA CommandKeeps ==
  ASSUME IInv,
         \/ CancelOursCommand \/ CancelPriorCommand
         \/ \E o \in Own : CancelCommand(o) \/ ReconcileOrderCommand(o)
  PROVE  Keeps
<1>1. Sound(core)
  BY DEF IInv, TypeOK, Sound
<1>2. ASSUME NEW did, NEW seen, Follows(core, did, {}, seen), seen \subseteq Order \ fresh,
             did.core.phase = "Quoting" => core.phase = "Quoting", Apply(did),
             UNCHANGED <<link, exit, fresh, owed, replies, stream, answers, reads, snapshots, mustReread, venue>>
      PROVE  Keeps
  <2>1. did.sends \subseteq [kind : {"Cancel", "Status"}, order : Order] /\ did.trips \in BOOLEAN
    BY <1>1, <1>2 DEF Follows, Sound, Core
  <2>2. Carries(did, {}, seen)
    BY <1>2, <2>1, ApplySends DEF Carries
  <2> QED BY <2>2, CarriesKeeps
<1>3. CASE CancelOursCommand
  <2>1. Follows(core, BeginSweep(core, "Halt"), {}, {}) /\ BeginSweep(core, "Halt").core.phase # "Quoting"
    BY <1>1, BeginSweepFollows DEF Reasons
  <2> QED BY <1>2, <1>3, <2>1 DEF CancelOursCommand
<1>4. CASE CancelPriorCommand
  <2>1. /\ Follows(core, CancelMatching(core, Prior), {}, {})
        /\ CancelMatching(core, Prior).core.phase = core.phase
    BY <1>1, CancelMatchingFollows
  <2> QED BY <1>2, <1>4, <2>1 DEF CancelPriorCommand
<1>5. ASSUME NEW o \in Own, CancelCommand(o)
      PROVE  Keeps
  <2>1. Follows(core, CancelOne(core, o), {}, {o}) /\ {o} \subseteq Order \ fresh
    BY <1>1, <1>5, CancelOneFollows DEF Order, CancelCommand
  <2>2. CancelOne(core, o).core.phase = core.phase
    BY <1>1, CancelMatchingFollows DEF CancelOne, Does
  <2> QED BY <1>2, <1>5, <2>1, <2>2 DEF CancelCommand
<1>6. ASSUME NEW o \in Own, ReconcileOrderCommand(o)
      PROVE  Keeps
  <2> DEFINE did == Does(core, {Req("Status", o)})
  <2>1. Follows(core, did, {}, {o}) /\ did.core.phase = core.phase
    BY <1>1 DEF Follows, Does, Req, Sound
  <2>2. {o} \subseteq Order \ fresh
    BY <1>6 DEF ReconcileOrderCommand, Order
  <2>3. /\ Apply(did)
        /\ UNCHANGED <<link, exit, fresh, owed, replies, stream, answers, reads, snapshots, mustReread, venue>>
    BY <1>6 DEF ReconcileOrderCommand
  <2> HIDE DEF did
  <2> QED BY <1>2, <2>1, <2>2, <2>3
<1> QED BY <1>3, <1>4, <1>5, <1>6

\* A placement is admitted only while verified, of an id nobody has heard of.
LEMMA PlaceKeeps ==
  ASSUME IInv, NEW o \in Own, PlaceAdmitted(o)
  PROVE  IInv'
<1>1. /\ core.phase = "Quoting" /\ link = "subscribed" /\ Verified /\ exit = None /\ Serving
      /\ o \in fresh /\ venue[o] = "unborn" /\ o \in Order
      /\ \A j \in jobs : j.order # o /\ \A m \in Told : m.order # o
  BY DEF PlaceAdmitted, AdmitsPlace, IInv, QuotingIsVerified, FreshUnheard, Asked, Order, Serving
<1>2. /\ core' = [core EXCEPT !.mirror = @ \cup {o}] /\ fresh' = fresh \ {o} /\ owed' = owed \cup {o}
      /\ inflight' = inflight \cup {Req("Place", o)} /\ wire' = wire \cup {Req("Place", o)}
      /\ UNCHANGED <<jobs, wants, link, exit, replies, stream, answers, reads, snapshots, mustReread, venue>>
  BY <1>1 DEF PlaceAdmitted, Apply, Does, Dispatch
<1>3. /\ core'.phase = core.phase /\ core'.mirror = core.mirror \cup {o} /\ core'.isSwept = core.isSwept
      /\ core'.isPending = core.isPending
  BY <1>2 DEF IInv, TypeOK, Core
<1>4. TypeOK'
  BY <1>1, <1>2 DEF IInv, TypeOK, Core, Request, RequestKinds, Req
<1>5. FreshUnheard'
  BY <1>1, <1>2, <1>3 DEF IInv, FreshUnheard, Asked, Told, Req
<1>6. \A p \in Own : MayRest(p)' => MayRest(p) \/ p = o
  BY <1>1, <1>2 DEF MayRest, Req
<1>7. GoneIsOver'
  BY <1>1, <1>2, <1>6 DEF IInv, GoneIsOver, Told, Over
<1>8. PlacesUnborn'
  BY <1>1, <1>2 DEF IInv, PlacesUnborn, Req, Verified
<1>9. QuotingIsVerified' /\ PassesInOrder'
  BY <1>1, <1>2, <1>3 DEF IInv, QuotingIsVerified, PassesInOrder, Verified, Serving
<1>10. NeverForgets' /\ SettledIsEmpty' /\ SweptIsSwept'
  BY <1>1, <1>2, <1>3, <1>6 DEF IInv, NeverForgets, SettledIsEmpty, SweptIsSwept
<1> QED BY <1>4, <1>5, <1>7, <1>8, <1>9, <1>10 DEF IInv

\* A refused placement uses up its id and nothing else.
LEMMA PlaceRefusedKeeps ==
  ASSUME IInv, NEW o \in Own, PlaceRefused(o)
  PROVE  Keeps
BY DEF Keeps, IInv, PlaceRefused, TypeOK, FreshUnheard, Asked, Told, GoneIsOver, Over, MayRest, PlacesUnborn,
       QuotingIsVerified, Verified, Serving, PassesInOrder, NeverForgets, SettledIsEmpty, SweptIsSwept, restVars

\* An amend asks about an order that was placed.
LEMMA AmendKeeps ==
  ASSUME IInv, NEW o \in Own, AmendCommand(o)
  PROVE  Keeps
<1>1. /\ Serving /\ o \notin fresh /\ core' = core /\ wants' = wants
      /\ inflight' = inflight \cup {Req("Amend", o)} /\ wire' = wire \cup {Req("Amend", o)} /\ jobs' = jobs
      /\ UNCHANGED <<link, exit, fresh, owed, replies, stream, answers, reads, snapshots, mustReread, venue>>
  BY DEF AmendCommand, Apply, Does, Dispatch
<1>2. \A p \in Own : MayRest(p)' => MayRest(p)
  BY <1>1 DEF MayRest, Req
<1>3. TypeOK'
  BY <1>1 DEF IInv, TypeOK, Request, RequestKinds, Req, Order
<1>4. FreshUnheard' /\ GoneIsOver' /\ PlacesUnborn'
  BY <1>1, <1>2 DEF IInv, FreshUnheard, Asked, Told, GoneIsOver, Over, PlacesUnborn, Req, Verified
<1>5. QuotingIsVerified' /\ PassesInOrder' /\ NeverForgets' /\ SettledIsEmpty' /\ SweptIsSwept'
  BY <1>1, <1>2 DEF IInv, QuotingIsVerified, PassesInOrder, NeverForgets, SettledIsEmpty, SweptIsSwept, Verified, Serving
<1> QED BY <1>2, <1>3, <1>4, <1>5 DEF IInv, Keeps

-----------------------------------------------------------------------------
(***************************************************************************)
(* The connection and the exit                                             *)
(***************************************************************************)
\* A new pass is the only current one, and makes what was under way stale.
LEMMA BeginPassOrders ==
  ASSUME TypeOK, BeginPass
  PROVE  /\ reads' \subseteq Passes /\ snapshots' \subseteq Snapshots /\ mustReread' = FALSE
         /\ PassesInOrder'
         /\ \A s \in snapshots' : \E t \in snapshots : s.open = t.open
<1>1. snapshots \subseteq Snapshots
  BY DEF TypeOK
<1>2. reads' = {"current"} \cup (IF reads = {} THEN {} ELSE {"stale"}) /\ mustReread' = FALSE
      /\ snapshots' = {[s EXCEPT !.pass = "stale"] : s \in snapshots}
  BY DEF BeginPass
<1>3. ASSUME NEW s \in snapshots'
      PROVE  s \in Snapshots /\ s.pass = "stale" /\ \E t \in snapshots : s.open = t.open
  <2>1. PICK t \in snapshots : s = [t EXCEPT !.pass = "stale"]
    BY <1>2
  <2>2. t \in Snapshots
    BY <1>1
  <2> QED BY <2>1, <2>2 DEF Snapshots, Passes
<1>4. PassesInOrder'
  BY <1>2, <1>3 DEF PassesInOrder
<1> QED BY <1>2, <1>3, <1>4 DEF Passes

\* Setting the flag of a core sets nothing else.
LEMMA FlagsSound ==
  ASSUME NEW c, NEW d, Sound(c),
         \/ d = [c EXCEPT !.isSwept = TRUE] \/ d = [c EXCEPT !.isSwept = FALSE]
         \/ d = [c EXCEPT !.isPending = TRUE] \/ d = [c EXCEPT !.isPending = FALSE]
  PROVE  /\ Sound(d) /\ d.mirror = c.mirror /\ d.phase = c.phase
         /\ d.isSwept = c.isSwept \/ d = [c EXCEPT !.isSwept = TRUE] \/ d = [c EXCEPT !.isSwept = FALSE]
         /\ d = [c EXCEPT !.isPending = FALSE] => ~ d.isPending
         /\ d = [c EXCEPT !.isPending = FALSE] => d.isSwept = c.isSwept
         /\ d = [c EXCEPT !.isPending = TRUE] => d.isSwept = c.isSwept
         /\ d = [c EXCEPT !.isSwept = FALSE] => ~ d.isSwept
BY DEF Sound, Core

\* Where the link goes, with no word, request or order changed.
LEMMA ConnectKeeps ==
  ASSUME IInv, Connect \/ Subscribed
  PROVE  Keeps
<1>1. Sound(core)
  BY DEF IInv, TypeOK, Sound
<1>2. /\ Sound(core') /\ core'.mirror = core.mirror /\ core'.isSwept = core.isSwept
      /\ core'.phase # "Quoting" /\ (core'.phase = "Settled" => core.phase = "Settled")
      /\ core'.phase = "Resyncing" => exit = None
      /\ link' = "subscribed" => ~ core'.isPending
  <2>1. CASE Connect
    BY <1>1, <2>1, ConnectionSound DEF Connect
  <2>2. CASE Subscribed
    BY <1>1, <2>2, FlagsSound DEF Subscribed, IInv, QuotingIsVerified
  <2> QED BY <2>1, <2>2
<1>3. /\ link' \in {"dialled", "subscribed"} /\ link # "subscribed" /\ link # "stopped"
      /\ UNCHANGED <<exit, wants, fresh, owed, inflight, wire, replies, stream, jobs, answers, venue>>
  BY DEF Connect, Subscribed, restVars
<1>4. /\ TypeOK' /\ PassesInOrder' /\ \A s \in snapshots' : \E t \in snapshots : s.open = t.open
  <2>1. /\ reads' \subseteq Passes /\ snapshots' \subseteq Snapshots /\ mustReread' \in BOOLEAN
        /\ PassesInOrder' /\ \A s \in snapshots' : \E t \in snapshots : s.open = t.open
    <3>1. CASE Connect
      BY <3>1 DEF Connect, restVars, IInv, TypeOK, PassesInOrder
    <3>2. CASE Subscribed
      BY <3>2, BeginPassOrders DEF Subscribed, IInv
    <3> QED BY <3>1, <3>2
  <2> QED BY <1>2, <1>3, <2>1 DEF IInv, TypeOK, Sound, Links
<1>5. \A o \in Own : MayRest(o)' = MayRest(o)
  BY <1>3 DEF MayRest
<1>6. FreshUnheard' /\ GoneIsOver' /\ PlacesUnborn'
  BY <1>2, <1>3, <1>4, <1>5 DEF IInv, FreshUnheard, Asked, Told, GoneIsOver, Over, PlacesUnborn
<1>7. QuotingIsVerified' /\ NeverForgets' /\ SettledIsEmpty' /\ SweptIsSwept'
  BY <1>2, <1>3, <1>5 DEF IInv, QuotingIsVerified, NeverForgets, SettledIsEmpty, SweptIsSwept, Serving
<1> QED BY <1>5, <1>4, <1>6, <1>7 DEF IInv, Keeps

\* What a lost connection leaves: nothing on the wire, nothing to read from it.
LEMMA DoomEmpties ==
  ASSUME ~ Lingers, Doom
  PROVE  /\ inflight' = {} /\ wire' = {} /\ replies' = {} /\ stream' = {} /\ owed' \subseteq owed
         /\ UNCHANGED <<fresh, jobs, answers, reads, snapshots, mustReread, venue, wants>>
BY DEF Doom, restVars

\* The connection is lost, or the exit's last act ends it.
LEMMA LeaveKeeps ==
  ASSUME IInv, ~ Lingers, LoseConnection \/ FinishServed \/ FinishOffline
  PROVE  Keeps
<1>1. Sound(core)
  BY DEF IInv, TypeOK, Sound
<1>2. /\ wire' \subseteq wire /\ inflight' \subseteq inflight /\ owed' \subseteq owed
      /\ replies' \subseteq replies /\ stream' \subseteq stream
      /\ UNCHANGED <<fresh, jobs, answers, reads, snapshots, mustReread, venue, wants>>
      /\ wire' = {} \/ link = "down"
  BY DoomEmpties DEF LoseConnection, FinishServed, FinishOffline, restVars
<1>3. /\ Sound(core') /\ core'.mirror = core.mirror
      /\ core'.phase \notin {"Resyncing", "Quoting"}
      /\ core'.phase = "Settled" => core.phase = "Settled"
  <2>1. CASE LoseConnection
    BY <1>1, <2>1, ConnectionSound DEF LoseConnection
  <2>2. CASE FinishServed
    <3>1. core' = [OnDisconnected(core) EXCEPT !.isSwept = IsTerminal(exit)]
      BY <2>2 DEF FinishServed, CompleteExit
    <3>2. IsTerminal(exit) = TRUE \/ IsTerminal(exit) = FALSE
      BY DEF IsTerminal
    <3>3. \/ core' = [OnDisconnected(core) EXCEPT !.isSwept = TRUE]
          \/ core' = [OnDisconnected(core) EXCEPT !.isSwept = FALSE]
      BY <3>1, <3>2, Zenon
    <3>4. Sound(OnDisconnected(core))
      BY <1>1, ConnectionSound
    <3> QED BY <1>1, <3>3, <3>4, ConnectionSound, FlagsSound
  <2>3. CASE FinishOffline
    <3>1. core' = [core EXCEPT !.isSwept = IsTerminal(exit)] /\ ~ Serving
      BY <2>3 DEF FinishOffline, CompleteExit, Serving
    <3>2. IsTerminal(exit) = TRUE \/ IsTerminal(exit) = FALSE
      BY DEF IsTerminal
    <3>3. core' = [core EXCEPT !.isSwept = TRUE] \/ core' = [core EXCEPT !.isSwept = FALSE]
      BY <3>1, <3>2, Zenon
    <3> QED BY <1>1, <3>1, <3>3, FlagsSound DEF IInv, QuotingIsVerified
  <2> QED BY <2>1, <2>2, <2>3
<1>4. /\ link' \in {"down", "parked", "stopped"} /\ exit' \in ExitReasons \cup {None}
      /\ link' = "stopped" \/ exit' = None \/ (exit' = exit /\ core'.isSwept = core.isSwept /\ link # "stopped")
  <2>1. exit \in ExitReasons \cup {None}
    BY DEF IInv, TypeOK
  <2>2. CASE LoseConnection
    BY <1>1, <2>1, <2>2, ConnectionSound DEF LoseConnection, Serving
  <2>3. ASSUME NEW c, CompleteExit(c)
        PROVE  link' \in {"down", "parked", "stopped"} /\ exit' \in ExitReasons \cup {None} /\ (link' = "stopped" \/ exit' = None)
    <3>1. /\ link' = IF IsTerminal(exit) THEN "stopped" ELSE IF exit = "Park" THEN "parked" ELSE "down"
          /\ exit' = IF IsTerminal(exit) THEN exit ELSE None
      BY <2>3 DEF CompleteExit
    <3> QED BY <2>1, <3>1 DEF IsTerminal, ExitReasons, None
  <2> QED BY <2>2, <2>3 DEF FinishServed, FinishOffline
<1>5. TypeOK'
  BY <1>2, <1>3, <1>4 DEF IInv, TypeOK, Sound, Links
<1>6. \A o \in Own : MayRest(o)' => MayRest(o)
  BY <1>2 DEF MayRest
<1>7. FreshUnheard' /\ GoneIsOver' /\ PlacesUnborn'
  BY <1>2, <1>3, <1>6 DEF IInv, FreshUnheard, Asked, Told, GoneIsOver, Over, PlacesUnborn
<1>8. QuotingIsVerified' /\ PassesInOrder'
  BY <1>2, <1>3, <1>4 DEF IInv, QuotingIsVerified, PassesInOrder
<1>9. NeverForgets' /\ SettledIsEmpty' /\ SweptIsSwept'
  BY <1>2, <1>3, <1>4, <1>6 DEF IInv, NeverForgets, SettledIsEmpty, SweptIsSwept
<1> QED BY <1>6, <1>5, <1>7, <1>8, <1>9 DEF IInv, Keeps

\* A failed pass is due only while quoting is closed, and its retry starts afresh.
LEMMA RetryPassKeeps ==
  ASSUME IInv, RetryPass
  PROVE  Keeps
<1>1. /\ mustReread /\ Serving /\ exit = None
      /\ UNCHANGED <<core, link, exit, wants, fresh, owed, inflight, wire, replies, stream, jobs, answers, venue>>
  BY DEF RetryPass
<1>2. /\ reads' \subseteq Passes /\ snapshots' \subseteq Snapshots /\ mustReread' = FALSE
      /\ PassesInOrder' /\ \A s \in snapshots' : \E t \in snapshots : s.open = t.open
  BY BeginPassOrders DEF RetryPass, IInv
<1>3. TypeOK'
  BY <1>1, <1>2 DEF IInv, TypeOK
<1>4. ~ Verified
  BY <1>1 DEF Verified
<1>5. \A o \in Own : MayRest(o)' = MayRest(o)
  BY <1>1 DEF MayRest
<1>6. FreshUnheard' /\ GoneIsOver' /\ PlacesUnborn'
  BY <1>1, <1>2, <1>4, <1>5 DEF IInv, FreshUnheard, Asked, Told, GoneIsOver, Over, PlacesUnborn
<1>7. QuotingIsVerified' /\ NeverForgets' /\ SettledIsEmpty' /\ SweptIsSwept'
  BY <1>1, <1>4, <1>5 DEF IInv, QuotingIsVerified, NeverForgets, SettledIsEmpty, SweptIsSwept, Serving
<1> QED BY <1>5, <1>2, <1>3, <1>6, <1>7 DEF IInv, Keeps

-----------------------------------------------------------------------------
(***************************************************************************)
(* The answers                                                             *)
(***************************************************************************)
\* A request past its deadline is asked about again, and nothing is forgotten.
LEMMA ExpireKeeps ==
  ASSUME IInv, NEW r \in inflight, Expire(r)
  PROVE  Keeps
<1> DEFINE did == OnRequestTimeout(core, r.order)
<1>1. Sound(core) /\ r \in Request /\ r.order \notin fresh
  BY DEF IInv, TypeOK, Sound, FreshUnheard, Asked
<1>2. Follows(core, did, {}, {r.order}) /\ did.core.phase = core.phase
  BY <1>1, OnRequestTimeoutFollows DEF Request
<1>3. /\ core' = did.core /\ inflight' = (inflight \ {r}) \cup did.sends /\ wire' = wire \cup did.sends
      /\ replies' \subseteq replies /\ owed' \subseteq owed
      /\ UNCHANGED <<link, exit, wants, fresh, stream, jobs, answers, reads, snapshots, mustReread, venue>>
  BY DEF Expire, restVars
<1>4. r.order \in Order
  BY <1>1 DEF Request
<1> HIDE DEF did
<1>5. Carries(did, {}, {r.order})
  BY <1>1, <1>2, <1>3, <1>4 DEF Carries
<1> QED BY <1>5, CarriesKeeps

\* What the edge makes of an answer over the socket.
LEMMA ReplyFoldedFollows ==
  ASSUME NEW c, NEW m \in Replies, Sound(c)
  PROVE  LET did == OnEvent(c, m.order, m.says)
             folded == IF m.kind = "Status" /\ m.says = "live"
                       THEN [did EXCEPT !.core = ReArmCancel(did.core, m.order)] ELSE did
         IN Follows(c, Armed(folded), IF m.says = "gone" THEN {m.order} ELSE {}, {m.order})
<1> DEFINE did == OnEvent(c, m.order, m.says)
           gone == IF m.says = "gone" THEN {m.order} ELSE {}
<1>1. Follows(c, did, gone, {m.order})
  BY OnEventFollows DEF Replies
<1> HIDE DEF did, gone
<1>2. Follows(c, [did EXCEPT !.core = ReArmCancel(did.core, m.order)], gone, {m.order})
  BY <1>1, ReArmedFollows
<1>3. /\ Follows(c, Armed(did), gone, {m.order})
      /\ Follows(c, Armed([did EXCEPT !.core = ReArmCancel(did.core, m.order)]), gone, {m.order})
  BY <1>1, <1>2, ArmedFollows
<1> QED BY <1>3 DEF did, gone

\* An answer over the socket, and whatever it says of its order.
LEMMA OnReplyKeeps ==
  ASSUME IInv, Inputs, NEW m \in replies, OnReply(m)
  PROVE  Keeps
<1> DEFINE did == Armed(ReplyFolded(m))
           gone == IF m.says = "gone" THEN {m.order} ELSE {}
<1>1. Sound(core) /\ m \in Replies /\ m.order \in Order \ fresh
  BY DEF IInv, TypeOK, Sound, FreshUnheard, Told, Replies
<1>2. Follows(core, did, gone, {m.order})
  BY <1>1, ReplyFoldedFollows DEF ReplyFolded
<1>3. \A o \in gone \cap Own : Over(o)
  BY DEF IInv, GoneIsOver, Told
<1>4. link = "subscribed"
  BY DEF OnReply, Folding, Serving, Inputs
<1>5. /\ core' = did.core /\ wants' \subseteq wants \cup {"Fatal"}
      /\ inflight' \subseteq inflight \cup did.sends /\ wire' \subseteq wire \cup did.sends
      /\ replies' \subseteq replies /\ owed' \subseteq owed
      /\ UNCHANGED <<link, exit, fresh, stream, jobs, answers, reads, snapshots, mustReread, venue>>
  BY DEF OnReply, restVars
<1>6. gone \cup {m.order} \subseteq Order \ fresh
  BY <1>1
<1> HIDE DEF did, gone
<1>7. Carries(did, gone, {m.order})
  BY <1>2, <1>3, <1>4, <1>5, <1>6 DEF Carries
<1> QED BY <1>7, CarriesKeeps

\* A report of the account stream.
LEMMA OnReportKeeps ==
  ASSUME IInv, NEW m \in stream, OnReport(m)
  PROVE  Keeps
<1> DEFINE event == OnEvent(core, m.order, m.says)
           did == Armed(event)
           gone == IF m.says = "gone" THEN {m.order} ELSE {}
<1>1. Sound(core) /\ m.order \in Order \ fresh /\ m.says \in Verdicts
  BY DEF IInv, TypeOK, Sound, FreshUnheard, Told, Reports, Verdicts
<1>2. Follows(core, event, gone, {m.order})
  BY <1>1, OnEventFollows
<1>3. \A o \in gone \cap Own : Over(o)
  BY DEF IInv, GoneIsOver, Told
<1>4. link = "subscribed" /\ Apply(did) /\ stream' \subseteq stream
      /\ UNCHANGED <<link, exit, fresh, owed, replies, answers, reads, snapshots, mustReread, venue>>
  BY DEF OnReport
<1>5. gone \cup {m.order} \subseteq Order \ fresh
  BY <1>1
<1> HIDE DEF event, gone
<1>6. Follows(core, did, gone, {m.order})
  BY <1>2, ArmedFollows
<1> HIDE DEF did
<1>7. did.sends \subseteq [kind : {"Cancel", "Status"}, order : Order] /\ did.trips \in BOOLEAN
  BY <1>1, <1>5, <1>6 DEF Follows, Sound, Core
<1>8. Carries(did, gone, {m.order})
  BY <1>3, <1>4, <1>5, <1>6, <1>7, ApplySends DEF Carries
<1> QED BY <1>8, CarriesKeeps

\* What the edge makes of a REST answer about one order.
LEMMA AnswerFoldedFollows ==
  ASSUME NEW a \in Answers, Sound(core)
  PROVE  Follows(core, AnswerFolded(a), IF a.says = "gone" THEN {a.order} ELSE {}, {})
<1>1. a.order \in Order /\ a.says \in {"live", "gone", "ambiguous", "failed"}
  BY DEF Answers
<1>2. CASE a.says = "gone"
  <2>1. Follows(core, Armed(OnOrderGone(core, a.order)), {a.order}, {})
    BY <1>1, OnOrderGoneFollows, ArmedFollows
  <2> QED BY <1>2, <2>1 DEF AnswerFolded
<1>3. CASE a.says = "ambiguous"
  BY <1>1, <1>3, OnAmbiguousFollows DEF AnswerFolded
<1>4. CASE a.says = "failed"
  BY <1>1, <1>4, ReArmCancelFollows DEF AnswerFolded
<1>5. CASE a.says = "live"
  <2> DEFINE armed == ReArmCancel(core, a.order)
  <2>1. Sound(armed) /\ Follows(core, Only(armed), {}, {})
    BY ReArmCancelFollows DEF Follows, Only, Does
  <2>2. /\ armed.mirror = core.mirror /\ armed.phase = core.phase
        /\ armed.isSwept = core.isSwept /\ armed.isPending = core.isPending
    BY DEF ReArmCancel, Sound, Core
  <2> HIDE DEF armed
  <2>3. Follows(armed, CancelMatching(armed, Prior), {}, {})
    BY <2>1, CancelMatchingFollows
  <2>4. Follows(core, CancelMatching(armed, Prior), {}, {})
    BY <2>2, <2>3 DEF Follows
  <2>5. AnswerFolded(a) = CancelMatching(armed, Prior) \/ AnswerFolded(a) = Only(armed)
    BY <1>5 DEF AnswerFolded, armed
  <2> QED BY <1>5, <2>1, <2>4, <2>5
<1> QED BY <1>1, <1>2, <1>3, <1>4, <1>5

\* A REST answer about one order, and the sweep retry it may carry.
LEMMA OnAnswerKeeps ==
  ASSUME IInv, Inputs, NEW a \in answers, OnAnswer(a)
  PROVE  Keeps
<1> DEFINE gone == IF a.says = "gone" THEN {a.order} ELSE {}
<1>1. Sound(core) /\ a \in Answers /\ a.order \in Order \ fresh
  BY DEF IInv, TypeOK, Sound, FreshUnheard, Told, Answers
<1>2. \A o \in gone \cap Own : Over(o)
  BY DEF IInv, GoneIsOver, Told
<1>3. gone \subseteq Order \ fresh
  BY <1>1
<1>4. Follows(core, AnswerFolded(a), gone, {})
  BY <1>1, AnswerFoldedFollows
<1>5. PICK did \in AndRetry(AnswerFolded(a)) : Apply(did)
  BY DEF OnAnswer
<1> DEFINE retried == Then(AnswerFolded(a), BeginSweep(AnswerFolded(a).core, exit))
<1>6. did = AnswerFolded(a) \/ (exit # None /\ did = retried)
  BY <1>5 DEF AndRetry
<1>7. exit # None => exit \in Reasons
  BY DEF IInv, TypeOK, Reasons
<1> HIDE DEF gone
<1>8. Follows(core, did, gone, {})
  <2>1. ASSUME exit # None
        PROVE  Follows(core, retried, gone, {})
    <3>1. Sound(AnswerFolded(a).core)
      BY <1>4 DEF Follows
    <3>2. Follows(AnswerFolded(a).core, BeginSweep(AnswerFolded(a).core, exit), {}, {})
      BY <1>7, <2>1, <3>1, BeginSweepFollows
    <3> QED BY <1>4, <3>2, ThenFollows
  <2> QED BY <1>4, <1>6, <2>1
<1>9. core.phase = "Resyncing" => link = "subscribed"
  BY DEF OnAnswer, Folding, Inputs, IInv, QuotingIsVerified, Serving
<1>10. did.sends \subseteq [kind : {"Cancel", "Status"}, order : Order] /\ did.trips \in BOOLEAN
  BY <1>1, <1>3, <1>8 DEF Follows, Sound, Core
<1>11. /\ answers' \subseteq answers
       /\ UNCHANGED <<link, exit, fresh, owed, replies, stream, reads, snapshots, mustReread, venue>>
  BY DEF OnAnswer
<1>12. Carries(did, gone, {})
  BY <1>2, <1>3, <1>5, <1>8, <1>9, <1>10, <1>11, ApplySends DEF Carries
<1> QED BY <1>12, CarriesKeeps

\* Folding the next pass's answer keeps the passes in order; folding the current
\* one leaves none under way.
LEMMA NextSnapshotInOrder ==
  ASSUME IInv, NEW s \in snapshots, IsNextSnapshot(s),
         reads' = reads, snapshots' = snapshots \ {s},
         mustReread' = mustReread \/ mustReread' = (mustReread \/ s.pass = "current")
  PROVE  /\ PassesInOrder' /\ ~ Verified /\ mustReread' \in BOOLEAN
         /\ s.pass = "current" /\ mustReread' = mustReread => Verified'
<1>1. reads \subseteq Passes /\ snapshots \subseteq Snapshots /\ mustReread \in BOOLEAN
  BY DEF IInv, TypeOK
<1>2. \A t \in snapshots : t.pass \in {"current", "stale"}
  BY <1>1 DEF Snapshots, Passes
<1>3. mustReread' \in BOOLEAN /\ (mustReread' => mustReread \/ s.pass = "current")
  <2>1. CASE mustReread' = mustReread
    BY <1>1, <2>1
  <2>2. CASE mustReread' = (mustReread \/ s.pass = "current")
    <3>1. mustReread' = TRUE \/ mustReread' = FALSE
      BY <2>2, Zenon
    <3> QED BY <2>2, <3>1
  <2> QED BY <2>1, <2>2
<1>4. PassesInOrder
  BY DEF IInv
<1>5. s.pass = "current" => "stale" \notin reads /\ \A t \in snapshots : t.pass # "stale"
  BY DEF IsNextSnapshot
<1>6. PassesInOrder'
  BY <1>2, <1>3, <1>4, <1>5 DEF PassesInOrder
<1>7. ASSUME s.pass = "current", mustReread' = mustReread
      PROVE  Verified'
  BY <1>1, <1>2, <1>4, <1>5, <1>7 DEF PassesInOrder, Verified, Passes
<1> QED BY <1>3, <1>6, <1>7 DEF Verified

\* A pass's answer, unread, read up to the order that breaks a limit, or read.
LEMMA SnapshotKeeps ==
  ASSUME IInv, Inputs, NEW s \in snapshots, SnapshotFailed(s) \/ SnapshotBroken(s) \/ SnapshotFolded(s)
  PROVE  Keeps
<1>1. Sound(core) /\ s.open \subseteq Order \ fresh
  BY DEF IInv, TypeOK, Sound, FreshUnheard, Snapshots
<1>2. CASE SnapshotFailed(s)
  <2>1. /\ IsNextSnapshot(s) /\ snapshots' = snapshots \ {s} /\ mustReread' = (mustReread \/ s.pass = "current")
        /\ UNCHANGED <<core, link, exit, wants, fresh, owed, inflight, wire, replies, stream, jobs,
                        answers, reads, venue>>
    BY <1>2 DEF SnapshotFailed
  <2>2. PassesInOrder' /\ ~ Verified /\ mustReread' \in BOOLEAN
    BY <2>1, NextSnapshotInOrder
  <2>3. EdgeStep(core, {}, {}, {}, {})
    BY <1>1, <2>1, <2>2 DEF EdgeStep
  <2> QED BY <2>3, EdgeStepKeeps
<1>3. CASE SnapshotBroken(s)
  <2>1. /\ IsNextSnapshot(s) /\ snapshots' = snapshots \ {s} /\ mustReread' = (mustReread \/ s.pass = "current")
        /\ UNCHANGED <<link, exit, fresh, owed, replies, stream, answers, reads, venue>>
    BY <1>3 DEF SnapshotBroken
  <2>2. PassesInOrder' /\ ~ Verified /\ mustReread' \in BOOLEAN
    BY <2>1, NextSnapshotInOrder
  <2>3. PICK seen \in SUBSET s.open : Apply(Trips(StopQuoting([core EXCEPT !.mirror = @ \cup seen]), {}))
    BY <1>3 DEF SnapshotBroken
  <2> DEFINE c == StopQuoting([core EXCEPT !.mirror = @ \cup seen])
  <2>4. /\ Sound(c) /\ c.mirror = core.mirror \cup seen /\ c.phase \in {"Settled", "Cancelling"}
        /\ c.phase = "Settled" => core.phase = "Settled"
        /\ c.isSwept = core.isSwept /\ c.isPending = core.isPending
    BY <1>1 DEF StopQuoting, Sound, Core, Phases
  <2>5. core' = c /\ wants' \subseteq wants \cup {"Fatal"} /\ UNCHANGED <<inflight, wire, jobs>>
    BY <2>3 DEF Apply, Trips, Dispatch, CallsFor
  <2> HIDE DEF c
  <2>6. EdgeStep(c, {}, seen, {}, {})
    BY <1>1, <2>1, <2>2, <2>4, <2>5 DEF EdgeStep
  <2> QED BY <2>6, EdgeStepKeeps
<1>4. CASE SnapshotFolded(s)
  <2> DEFINE mirror  == core.mirror \cup s.open
             missing == mirror \ s.open
             seen    == [core EXCEPT !.mirror = mirror, !.ambiguous = @ \cup missing]
             pending == [seen EXCEPT !.isPending = TRUE]
             finished == Armed(CancelMatching(pending, Prior))
             did     == IF s.pass = "stale" THEN Only(seen) ELSE finished
             calls   == Reqs("Status", missing) \cup did.sends
  <2>1. /\ Folding /\ IsNextSnapshot(s) /\ snapshots' = snapshots \ {s} /\ mustReread' = mustReread
        /\ core' = did.core
        /\ jobs' = jobs \cup Reqs("Status", missing) \cup (IF Serving THEN {} ELSE CallsFor(did.sends))
        /\ inflight' \subseteq inflight \cup did.sends /\ wire' \subseteq wire \cup did.sends
        /\ UNCHANGED <<link, exit, wants, fresh, owed, replies, stream, answers, reads, venue>>
    BY <1>4 DEF SnapshotFolded
  <2>2. /\ PassesInOrder' /\ ~ Verified /\ mustReread' \in BOOLEAN
        /\ s.pass = "current" => Verified'
    BY <2>1, NextSnapshotInOrder
  <2>3. /\ Sound(seen) /\ seen.mirror = mirror /\ seen.phase = core.phase
        /\ seen.isSwept = core.isSwept /\ seen.isPending = core.isPending
    BY <1>1 DEF Sound, Core
  <2>4. mirror \subseteq Order \ fresh /\ missing \subseteq mirror
    BY <1>1 DEF IInv, FreshUnheard, TypeOK, Core
  <2>5. s.pass \in {"current", "stale"}
    BY DEF IInv, TypeOK, Snapshots, Passes
  <2>6. core.phase = "Resyncing" => link = "subscribed"
    BY <2>1 DEF Folding, Inputs, IInv, QuotingIsVerified, Serving
  <2> HIDE DEF seen
  <2>7. /\ Sound(pending) /\ pending.mirror = mirror /\ pending.phase = core.phase
        /\ pending.isSwept = core.isSwept
    BY <2>3, FlagsSound
  <2> HIDE DEF pending
  <2>8. Follows(pending, CancelMatching(pending, Prior), {}, {})
    BY <2>7, CancelMatchingFollows
  <2>9. Follows(pending, finished, {}, {})
    BY <2>8, ArmedFollows
  <2> HIDE DEF finished
  <2>10. /\ Sound(did.core) /\ did.core.mirror = mirror
         /\ did.core.phase = "Resyncing" => core.phase = "Resyncing"
         /\ did.core.phase = "Quoting" => core.phase = "Quoting" \/ (core.phase = "Resyncing" /\ s.pass = "current")
         /\ did.core.phase = "Settled" => core.phase = "Settled" \/ did.core.mirror = {}
         /\ did.core.isSwept => core.isSwept \/ did.core.mirror = {}
         /\ did.core.isPending => core.isPending \/ s.pass = "current"
         /\ did.sends \subseteq [kind : {"Cancel", "Status"}, order : mirror]
    <3>1. CASE s.pass = "stale"
      <4>1. did = Only(seen)
        BY <3>1
      <4>2. did.core = seen /\ did.sends = {}
        BY <4>1 DEF Only, Does
      <4> QED BY <2>3, <4>2
    <3>2. CASE s.pass # "stale"
      <4>1. did = finished
        BY <3>2
      <4> HIDE DEF did
      <4> QED BY <2>5, <2>7, <2>9, <3>2, <4>1 DEF Follows
    <3> QED BY <3>1, <3>2
  <2> HIDE DEF did
  <2>11. Reqs("Status", missing) \subseteq [kind : {"Cancel", "Status"}, order : mirror]
    BY <2>4 DEF Reqs, Req
  <2>12. CallsFor(did.sends) \subseteq did.sends
    BY <2>10 DEF CallsFor, Call
  <2> HIDE DEF missing
  <2>13. EdgeStep(did.core, {}, s.open, did.sends, calls)
    <3>1. /\ core.mirror \subseteq did.core.mirror /\ did.core.mirror \subseteq core.mirror \cup s.open
          /\ did.core.phase = "Quoting" => core.phase = "Quoting" \/ (core.phase = "Resyncing" /\ link = "subscribed" /\ Verified')
          /\ did.core.isPending => core.isPending \/ Verified'
      BY <2>2, <2>6, <2>10
    <3>2. /\ did.sends \subseteq [kind : {"Cancel", "Status"}, order : Order \ fresh]
          /\ calls \subseteq [kind : {"Cancel", "Status"}, order : Order \ fresh]
          /\ jobs' \subseteq jobs \cup calls
      BY <2>1, <2>4, <2>10, <2>11, <2>12
    <3> QED BY <1>1, <2>1, <2>2, <2>10, <3>1, <3>2 DEF EdgeStep
  <2> QED BY <2>13, EdgeStepKeeps
<1> QED BY <1>2, <1>3, <1>4

-----------------------------------------------------------------------------
(***************************************************************************)
(* The exit's sweeps and the latches                                       *)
(***************************************************************************)
\* Opening an exit sweeps, and its sweep is complete only over an empty mirror.
LEMMA OpenExitKeeps ==
  ASSUME IInv, NEW reason \in ExitReasons, OpenExit(reason)
  PROVE  Keeps
<1> DEFINE begun == [core EXCEPT !.isSwept = FALSE]
           did   == BeginSweep(begun, reason)
           calls == IF Serving THEN {} ELSE did.sends
<1>1. Sound(core) /\ core.mirror \subseteq Order \ fresh
  BY DEF IInv, TypeOK, Sound, FreshUnheard, Core
<1>2. /\ Sound(begun) /\ begun.mirror = core.mirror /\ begun.phase = core.phase /\ ~ begun.isSwept
      /\ begun.isPending = core.isPending
  BY <1>1 DEF Sound, Core
<1>3. /\ exit = None /\ exit' = reason /\ Apply(did)
      /\ UNCHANGED <<link, fresh, owed, replies, stream, answers, reads, snapshots, mustReread, venue>>
  BY DEF OpenExit
<1> HIDE DEF begun
<1>4. /\ Follows(begun, did, {}, {}) /\ did.core.phase \in {"Down", "Cancelling", "Settled"}
  BY <1>2, BeginSweepFollows DEF Reasons
<1> HIDE DEF did
<1>5. did.sends \subseteq [kind : {"Cancel", "Status"}, order : Order] /\ did.trips \in BOOLEAN
  BY <1>1, <1>2, <1>4 DEF Follows
<1>6. PassesInOrder' /\ Verified' = Verified /\ mustReread' \in BOOLEAN
  BY <1>3 DEF IInv, PassesInOrder, Verified, TypeOK
<1>7. EdgeStep(did.core, {}, {}, did.sends, calls)
  BY <1>1, <1>2, <1>3, <1>4, <1>5, <1>6, ApplySends DEF Follows, EdgeStep
<1> QED BY <1>7, EdgeStepKeeps

\* The exit that is wanted is one of those an exit can have.
LEMMA WantedIsReason ==
  ASSUME WantedExit # None
  PROVE  WantedExit \in ExitReasons
BY DEF WantedExit, ExitReasons, None

\* A sweep begun, or retried while the exit is under way.
LEMMA SweepKeeps ==
  ASSUME IInv, PlanExit \/ SweepBlind \/ RetrySweep
  PROVE  Keeps
<1>1. CASE PlanExit
  BY <1>1, WantedIsReason, OpenExitKeeps DEF PlanExit
<1>2. CASE SweepBlind
  BY <1>2, OpenExitKeeps DEF SweepBlind, ExitReasons
<1>3. CASE RetrySweep
  <2> DEFINE did == BeginSweep(core, exit)
  <2>1. Sound(core) /\ core.mirror \subseteq Order \ fresh /\ exit \in Reasons
    BY <1>3 DEF IInv, TypeOK, Sound, FreshUnheard, Core, RetrySweep, Reasons
  <2>2. Follows(core, did, {}, {}) /\ did.core.phase # "Quoting"
    BY <2>1, BeginSweepFollows
  <2>3. /\ Apply(did)
        /\ UNCHANGED <<link, exit, fresh, owed, replies, stream, answers, reads, snapshots, mustReread, venue>>
    BY <1>3 DEF RetrySweep
  <2> HIDE DEF did
  <2>4. did.sends \subseteq [kind : {"Cancel", "Status"}, order : Order] /\ did.trips \in BOOLEAN
    BY <2>1, <2>2 DEF Follows
  <2>5. Carries(did, {}, {})
    BY <2>1, <2>2, <2>3, <2>4, ApplySends DEF Carries
  <2> QED BY <2>5, CarriesKeeps
<1> QED BY <1>1, <1>2, <1>3

\* The latches, and the end of a park, touch no order.
LEMMA LatchKeeps ==
  ASSUME IInv, Unpark \/ Resume \/ \E l \in Latches : Latch(l)
  PROVE  Keeps
<1>1. /\ UNCHANGED <<core, exit, fresh, owed, inflight, wire, replies, stream, jobs, answers, reads,
                     snapshots, mustReread, venue>>
      /\ link' = link \/ (link = "parked" /\ link' = "down")
      /\ wants' \subseteq {"Shutdown", "Fatal", "Park"}
  BY EdgeAssumption DEF Unpark, Resume, Latch, restVars, IInv, TypeOK
<1>2. TypeOK'
  BY <1>1 DEF IInv, TypeOK, Links
<1>3. \A o \in Own : MayRest(o)' = MayRest(o)
  BY <1>1 DEF MayRest
<1>4. FreshUnheard' /\ GoneIsOver' /\ PlacesUnborn'
  BY <1>1, <1>3 DEF IInv, FreshUnheard, Asked, Told, GoneIsOver, Over, PlacesUnborn, Verified
<1>5. QuotingIsVerified' /\ PassesInOrder' /\ NeverForgets' /\ SettledIsEmpty' /\ SweptIsSwept'
  BY <1>1, <1>3 DEF IInv, QuotingIsVerified, PassesInOrder, NeverForgets, SettledIsEmpty, SweptIsSwept,
                    Verified, Serving
<1> QED BY <1>3, <1>2, <1>4, <1>5 DEF IInv, Keeps

-----------------------------------------------------------------------------
(***************************************************************************)
(* The venue                                                               *)
(***************************************************************************)
\* The venue answers "gone" only of what does not rest, and only a placement
\* brings an order to rest.
LEMMA OutcomesTrue ==
  ASSUME NEW kind \in RequestKinds, NEW fate \in Fates, NEW outcome \in Outcomes(kind, fate)
  PROVE  /\ outcome[1] \in Fates /\ outcome[2] \in Verdicts
         /\ outcome[2] = "gone" => outcome[1] # "resting"
         /\ outcome[1] = "resting" => fate = "resting" \/ kind = "Place"
<1>1. CASE outcome = InFull(kind, fate)
  <2>1. CASE kind = "Place"
    BY <1>1, <2>1 DEF InFull, Fates, Verdicts
  <2>2. CASE kind = "Cancel"
    BY <1>1, <2>2 DEF InFull, Fates, Verdicts
  <2>3. CASE kind = "Amend"
    BY <1>1, <2>3 DEF InFull, Fates, Verdicts
  <2>4. CASE kind = "Status"
    BY <1>1, <2>4 DEF InFull, Fates, Verdicts
  <2> QED BY <2>1, <2>2, <2>3, <2>4 DEF RequestKinds
<1>2. ASSUME NEW says \in Verdicts, <<kind, says>> \in Refusals, outcome \in Refused(kind, fate, says)
      PROVE  /\ outcome[1] \in Fates /\ outcome[2] \in Verdicts
             /\ outcome[2] = "gone" => outcome[1] # "resting"
             /\ outcome[1] = "resting" => fate = "resting" \/ kind = "Place"
  <2>1. says = "gone" => kind = "Place"
    BY <1>2, EdgeAssumption
  <2>2. \/ outcome = <<"resting", says>> /\ kind = "Place" /\ says = "ambiguous"
        \/ outcome = <<"turnedAway", says>>
        \/ outcome = <<"over", says>>
        \/ outcome = <<fate, says>> /\ kind # "Place"
    BY <1>2 DEF Refused
  <2> QED BY <2>1, <2>2 DEF Fates
<1> QED BY <1>1, <1>2 DEF Outcomes

\* The account stream reports what came of an order.
LEMMA ReportTrue ==
  ASSUME TypeOK, NEW o \in Order, NEW fate \in Fates
  PROVE  /\ Report(o, fate) \subseteq Reports
         /\ \A m \in Report(o, fate) \ stream : m.order = o /\ (m.says = "gone" => fate = "over")
BY DEF Report, Reports, TypeOK

\* The venue takes a request from the wire.
LEMMA VenueAnswersKeeps ==
  ASSUME IInv, NEW r \in wire, VenueAnswers(r)
  PROVE  Keeps
<1>1. r \in Request /\ r.order \in Order \ fresh /\ r.kind \in RequestKinds /\ r = Req(r.kind, r.order)
  BY DEF IInv, TypeOK, FreshUnheard, Asked, Request, Req
<1>2. venue[r.order] \in Fates /\ TypeOK
  BY <1>1 DEF IInv, TypeOK
<1>3. PICK outcome \in Outcomes(r.kind, venue[r.order]) : Settles(r, outcome)
  BY DEF VenueAnswers
<1>4. /\ outcome[1] \in Fates /\ outcome[2] \in Verdicts
      /\ outcome[2] = "gone" => outcome[1] # "resting"
      /\ outcome[1] = "resting" => venue[r.order] = "resting" \/ r.kind = "Place"
  BY <1>1, <1>2, OutcomesTrue
<1>5. /\ venue' = [venue EXCEPT ![r.order] = outcome[1]]
      /\ stream' = Report(r.order, outcome[1]) /\ wire' = wire \ {r}
      /\ replies' \subseteq replies \cup {[kind |-> r.kind, order |-> r.order, says |-> outcome[2]]}
      /\ UNCHANGED <<core, link, exit, wants, fresh, owed, inflight, jobs, answers, reads, snapshots, mustReread>>
  BY <1>3 DEF Settles, restVars
<1>6. /\ stream' \subseteq Reports
      /\ \A m \in stream' \ stream : m.order = r.order /\ (m.says = "gone" => outcome[1] = "over")
  BY <1>1, <1>2, <1>4, <1>5, ReportTrue
<1>7. TypeOK'
  BY <1>1, <1>2, <1>4, <1>5, <1>6 DEF TypeOK, Replies
<1>8. Req("Place", r.order) \notin wire'
  BY <1>1, <1>5 DEF VenueAnswers, IsNextOnWire
<1>9. VenueStep(r.order, outcome[1])
  BY <1>1, <1>4, <1>5, <1>6, <1>7, <1>8 DEF VenueStep, MayRest, Told
<1> QED BY <1>9, VenueStepKeeps

\* The REST worker answers "gone" only of what does not rest, and ends what it ends.
LEMMA CallsTrue ==
  ASSUME NEW kind \in {"Cancel", "Status"}, NEW fate \in Fates,
         NEW j, j.kind = kind, venue[j.order] = fate, NEW outcome \in CallOutcomes(j)
  PROVE  /\ outcome[1] \in {fate, "over"} /\ outcome[2] \in {"live", "gone", "ambiguous", "failed"}
         /\ outcome[2] = "gone" => outcome[1] # "resting"
<1>1. ASSUME NEW done, done = InFull(kind, fate)
      PROVE  /\ done \in {<<"over", "gone">>, <<fate, "ambiguous">>, <<fate, "live">>, <<fate, "gone">>}
             /\ done = <<fate, "gone">> => fate # "resting"
  <2>1. CASE kind = "Cancel"
    BY <1>1, <2>1 DEF InFull
  <2>2. CASE kind = "Status"
    BY <1>1, <2>2 DEF InFull
  <2> QED BY <2>1, <2>2
<1>2. PICK done : done = InFull(kind, fate)
  OBVIOUS
<1>3. outcome \in {done, <<fate, "failed">>, <<fate, "ambiguous">>, <<done[1], "ambiguous">>}
  BY <1>2 DEF CallOutcomes
<1>4. done[1] \in {fate, "over"}
  BY <1>1, <1>2
<1> QED BY <1>1, <1>2, <1>3, <1>4

\* The REST worker makes a call; none concerns an order still on the wire.
LEMMA CallMadeKeeps ==
  ASSUME IInv, NEW j \in jobs, CallMade(j)
  PROVE  Keeps
<1>1. j.kind \in {"Cancel", "Status"} /\ j.order \in Order \ fresh
  BY DEF IInv, TypeOK, FreshUnheard, Asked, Calls
<1>2. venue[j.order] \in Fates /\ TypeOK
  BY <1>1 DEF IInv, TypeOK
<1>3. PICK outcome \in CallOutcomes(j) :
       /\ venue' = [venue EXCEPT ![j.order] = outcome[1]]
       /\ stream' = Report(j.order, outcome[1])
       /\ answers' = answers \cup {[kind |-> j.kind, order |-> j.order, says |-> outcome[2]]}
  BY DEF CallMade
<1>4. /\ outcome[1] \in Fates /\ outcome[2] \in {"live", "gone", "ambiguous", "failed"}
      /\ outcome[2] = "gone" => outcome[1] # "resting"
      /\ outcome[1] = "resting" => venue[j.order] = "resting"
  <2>1. outcome[1] \in {venue[j.order], "over"}
    BY <1>1, <1>2, <1>3, CallsTrue
  <2> QED BY <1>1, <1>2, <1>3, <2>1, CallsTrue DEF Fates
<1>5. /\ jobs' \subseteq jobs
      /\ UNCHANGED <<core, link, exit, wants, fresh, owed, inflight, wire, replies, reads, snapshots, mustReread>>
  BY DEF CallMade
<1>6. /\ stream' \subseteq Reports
      /\ \A m \in stream' \ stream : m.order = j.order /\ (m.says = "gone" => outcome[1] = "over")
  BY <1>1, <1>2, <1>3, <1>4, ReportTrue
<1>7. TypeOK'
  BY <1>1, <1>2, <1>3, <1>4, <1>5, <1>6 DEF TypeOK, Answers
<1>8. j.order \in Own => Req("Place", j.order) \notin wire
  BY DEF IInv, PlacesUnborn
<1>9. VenueStep(j.order, outcome[1])
  BY <1>1, <1>3, <1>4, <1>5, <1>6, <1>7, <1>8 DEF VenueStep, MayRest, Told
<1> QED BY <1>9, VenueStepKeeps

\* The REST worker reads the open orders.
LEMMA OpenOrdersReadKeeps ==
  ASSUME IInv, NEW p \in reads, OpenOrdersRead(p)
  PROVE  Keeps
<1>1. PICK isRead \in BOOLEAN : snapshots' = snapshots \cup
         {[pass |-> p, isRead |-> isRead,
           open |-> IF isRead THEN {o \in Order : venue[o] = "resting"} ELSE {}]}
  BY DEF OpenOrdersRead
<1>2. /\ p = "current" => "stale" \notin reads
      /\ reads' = reads \ {p}
      /\ UNCHANGED <<core, link, exit, wants, fresh, owed, inflight, wire, replies, stream, jobs,
                    answers, mustReread, venue>>
  BY DEF OpenOrdersRead
<1>3. PICK s \in Snapshots : /\ snapshots' = snapshots \cup {s} /\ s.pass = p
                            /\ s.open \subseteq {o \in Order : venue[o] = "resting"}
  <2> DEFINE read == IF isRead THEN {o \in Order : venue[o] = "resting"} ELSE {}
             s    == [pass |-> p, isRead |-> isRead, open |-> read]
  <2>1. p \in Passes /\ read \subseteq {o \in Order : venue[o] = "resting"} /\ read \subseteq Order
    BY DEF IInv, TypeOK
  <2>2. snapshots' = snapshots \cup {s}
    BY <1>1
  <2> HIDE DEF read
  <2>3. s \in Snapshots /\ s.pass = p /\ s.open = read
    BY <2>1 DEF Snapshots
  <2> QED BY <2>1, <2>2, <2>3
<1>4. TypeOK'
  BY <1>2, <1>3 DEF IInv, TypeOK
<1>5. ~ Verified
  BY DEF Verified
<1>6. reads \subseteq {"current", "stale"} /\ PassesInOrder /\ \A t \in snapshots : t.pass \in {"current", "stale"}
  BY DEF IInv, TypeOK, Passes, Snapshots
<1>7. PassesInOrder'
  BY <1>2, <1>3, <1>6 DEF PassesInOrder
<1>8. FreshUnheard' /\ GoneIsOver' /\ PlacesUnborn'
  BY <1>2, <1>3, <1>5 DEF IInv, FreshUnheard, Asked, Told, GoneIsOver, Over, MayRest, PlacesUnborn
<1>9. QuotingIsVerified' /\ NeverForgets' /\ SettledIsEmpty' /\ SweptIsSwept'
  BY <1>2, <1>5 DEF IInv, QuotingIsVerified, NeverForgets, SettledIsEmpty, SweptIsSwept, Serving, MayRest
<1>10. \A o \in Own : MayRest(o)' = MayRest(o)
  BY <1>2 DEF MayRest
<1> QED BY <1>4, <1>7, <1>8, <1>9, <1>10 DEF IInv, Keeps

\* An order ends by itself, or the hot thread's reconcile reads that it rests.
LEMMA OrderSpeaksKeeps ==
  ASSUME IInv, NEW o \in Order, Ends(o) \/ OpenOrderLine(o)
  PROVE  Keeps
<1>1. TypeOK /\ o \notin fresh /\ venue[o] = "resting"
  BY DEF Ends, OpenOrderLine, IInv, FreshUnheard
<1>2. o \in Own => Req("Place", o) \notin wire
  BY <1>1 DEF IInv, PlacesUnborn
<1>3. CASE Ends(o)
  <2>1. /\ venue' = [venue EXCEPT ![o] = "over"] /\ stream' = Report(o, "over")
        /\ UNCHANGED <<core, link, exit, wants, fresh, owed, inflight, wire, replies, jobs, answers, reads,
                      snapshots, mustReread>>
    BY <1>3 DEF Ends, restVars
  <2>2. /\ stream' \subseteq Reports
        /\ \A m \in stream' \ stream : m.order = o
    BY <1>1, <2>1, ReportTrue DEF Fates
  <2>3. TypeOK'
    BY <1>1, <2>1, <2>2 DEF TypeOK, Fates
  <2>4. VenueStep(o, "over")
    BY <1>1, <1>2, <2>1, <2>2, <2>3 DEF VenueStep, Told
  <2> QED BY <2>4, VenueStepKeeps
<1>4. CASE OpenOrderLine(o)
  <2>1. /\ stream' = stream \cup {[order |-> o, says |-> "live"]}
        /\ UNCHANGED <<core, link, exit, wants, fresh, owed, inflight, wire, replies, jobs, answers, reads,
                      snapshots, mustReread, venue>>
    BY <1>4 DEF OpenOrderLine, restVars
  <2>2. TypeOK' /\ venue' = [venue EXCEPT ![o] = "resting"]
    BY <1>1, <2>1 DEF TypeOK, Reports
  <2>3. \A m \in Told' \ Told : m.order = o /\ m.says = "live"
    BY <2>1 DEF Told
  <2>4. VenueStep(o, "resting")
    BY <1>1, <1>2, <2>1, <2>2, <2>3 DEF VenueStep, MayRest
  <2> QED BY <2>4, VenueStepKeeps
<1> QED BY <1>3, <1>4

-----------------------------------------------------------------------------
(***************************************************************************)
(* Prior runs' orders, and the types, whatever the inputs                  *)
(***************************************************************************)
\* The prior runs' orders that still rest: none is ever placed again.
Resting == {o \in Prior : venue[o] = "resting"}

\* Nobody says of such an order that it is gone, and every pass that was read has it.
PriorsTold ==
  /\ \A r \in wire : r.kind = "Place" => r.order \in Own
  /\ \A m \in Told : m.says = "gone" => m.order \notin Resting
  /\ \A s \in snapshots : s.isRead => Resting \subseteq s.open

\* A finished pass mirrors them all, and quoting opens once none is left there.
PriorsKnown(c) ==
  /\ c.isPending => Resting \subseteq c.mirror
  /\ c.phase = "Quoting" => Resting = {}

PInv == TypeOK /\ PriorsTold /\ PriorsKnown(core)

\* An operation of the core that forgets no such order knows them still.
LEMMA FollowsKnown ==
  ASSUME NEW c, NEW did, NEW gone, NEW seen, Follows(c, did, gone, seen), gone \cap Resting = {}, PriorsKnown(c)
  PROVE  PriorsKnown(did.core)
BY DEF Follows, PriorsKnown, Resting

\* The step of the edge applies an operation of the core.
Operates(did, gone, seen) ==
  /\ Follows(core, did, gone, seen)
  /\ gone \cup seen \subseteq Order /\ gone \cap Resting = {}
  /\ core' = did.core
  /\ inflight' \subseteq inflight \cup did.sends /\ wire' \subseteq wire \cup did.sends
  /\ jobs' \subseteq jobs \cup did.sends
  /\ replies' \subseteq replies /\ stream' \subseteq stream /\ answers' \subseteq answers
  /\ owed' \subseteq owed /\ wants' \subseteq wants \cup {"Fatal"}
  /\ exit' \in ExitReasons \cup {None}
  /\ UNCHANGED <<link, fresh, reads, snapshots, mustReread, venue>>

\* Such a step keeps the types and what is known of prior runs' orders.
LEMMA OperatesKeeps ==
  ASSUME PInv, NEW did, NEW gone, NEW seen, Operates(did, gone, seen)
  PROVE  PInv'
<1>1. Resting' = Resting
  BY DEF Operates, Resting
<1>2. PriorsKnown(core')
  BY FollowsKnown DEF Operates, PInv
<1>3. PriorsKnown(core)'
  BY <1>1, <1>2 DEF PriorsKnown
<1>4. did.sends \subseteq [kind : {"Cancel", "Status"}, order : Order] /\ Sound(did.core)
  BY DEF Operates, Follows, PInv, TypeOK, Core
<1>5. did.sends \subseteq Request /\ did.sends \subseteq Calls /\ \A r \in did.sends : r.kind # "Place"
  BY <1>4 DEF Request, RequestKinds, Calls
<1>6. TypeOK'
  BY <1>4, <1>5 DEF PInv, TypeOK, Operates, Sound
<1>7. PriorsTold'
  BY <1>1, <1>5 DEF PInv, PriorsTold, Operates, Told
<1> QED BY <1>3, <1>6, <1>7 DEF PInv

\* A step that sends nothing and hears nothing, and opens nothing.
IsQuiet ==
  /\ Sound(core') /\ core'.mirror = core.mirror
  /\ core'.isPending => core.isPending
  /\ core'.phase = "Quoting" => core.phase = "Quoting"
  /\ inflight' \subseteq inflight /\ wire' \subseteq wire
  /\ replies' \subseteq replies /\ stream' \subseteq stream
  /\ owed' \subseteq owed /\ fresh' \subseteq fresh
  /\ link' \in Links /\ exit' \in ExitReasons \cup {None}
  /\ wants' \subseteq {"Shutdown", "Fatal", "Park"}
  /\ reads' \subseteq Passes /\ snapshots' \subseteq Snapshots /\ mustReread' \in BOOLEAN
  /\ \A s \in snapshots' : \E t \in snapshots : s.open = t.open /\ s.isRead = t.isRead
  /\ UNCHANGED <<jobs, answers, venue>>

\* Such a step keeps them too.
LEMMA QuietKeeps ==
  ASSUME PInv, IsQuiet
  PROVE  PInv'
<1>1. Resting' = Resting
  BY DEF IsQuiet, Resting
<1>2. TypeOK'
  BY DEF PInv, TypeOK, IsQuiet, Sound
<1>3. PriorsTold'
  BY <1>1 DEF PInv, PriorsTold, IsQuiet, Told
<1>4. PriorsKnown(core)'
  BY <1>1 DEF PInv, PriorsKnown, IsQuiet
<1> QED BY <1>2, <1>3, <1>4 DEF PInv

\* What was read of the open orders is what a pass begun again still holds.
LEMMA BeginPassReads ==
  ASSUME TypeOK, BeginPass
  PROVE  /\ reads' \subseteq Passes /\ snapshots' \subseteq Snapshots /\ mustReread' \in BOOLEAN
         /\ \A s \in snapshots' : \E t \in snapshots : s.open = t.open /\ s.isRead = t.isRead
<1>1. reads' \subseteq Passes /\ mustReread' \in BOOLEAN
  BY DEF BeginPass, Passes
<1>2. ASSUME NEW s \in snapshots'
      PROVE  s \in Snapshots /\ \E t \in snapshots : s.open = t.open /\ s.isRead = t.isRead
  <2>1. PICK t \in snapshots : s = [t EXCEPT !.pass = "stale"]
    BY <1>2 DEF BeginPass
  <2>2. t \in Snapshots
    BY DEF TypeOK
  <2> QED BY <2>1, <2>2 DEF Snapshots, Passes
<1> QED BY <1>1, <1>2

\* The connection, the end of an exit and the latches.
LEMMA QuietSteps ==
  ASSUME PInv,
         \/ Connect \/ Subscribed \/ RetryPass \/ LoseConnection
         \/ FinishServed \/ FinishOffline \/ Unpark \/ Resume
         \/ \E l \in Latches : Latch(l)
         \/ \E o \in Own : PlaceRefused(o)
  PROVE  PInv'
<1>1. TypeOK /\ Sound(core)
  BY DEF PInv, TypeOK, Sound
<1>2. \A s \in snapshots : \E t \in snapshots : s.open = t.open /\ s.isRead = t.isRead
  OBVIOUS
<1>3. /\ link \in Links /\ exit \in ExitReasons \cup {None} /\ wants \subseteq {"Shutdown", "Fatal", "Park"}
      /\ reads \subseteq Passes /\ snapshots \subseteq Snapshots /\ mustReread \in BOOLEAN
  BY <1>1 DEF TypeOK
<1>4. CASE Connect
  <2>1. /\ Sound(core') /\ core'.mirror = core.mirror /\ core'.isPending = core.isPending
        /\ core'.phase # "Quoting"
    BY <1>1, <1>4, ConnectionSound DEF Connect
  <2>2. IsQuiet
    BY <1>2, <1>3, <1>4, <2>1 DEF Connect, IsQuiet, restVars, Links
  <2> QED BY <2>2, QuietKeeps
<1>5. CASE Subscribed
  <2>1. Sound(core') /\ core'.mirror = core.mirror /\ core'.phase = core.phase /\ ~ core'.isPending
    BY <1>1, <1>5, FlagsSound DEF Subscribed
  <2>2. IsQuiet
    BY <1>1, <1>3, <1>5, <2>1, BeginPassReads DEF Subscribed, IsQuiet, Links
  <2> QED BY <2>2, QuietKeeps
<1>6. CASE RetryPass
  <2>1. IsQuiet
    BY <1>1, <1>3, <1>6, BeginPassReads DEF RetryPass, IsQuiet
  <2> QED BY <2>1, QuietKeeps
<1>7. ASSUME Doom
      PROVE  /\ owed' \subseteq owed /\ inflight' \subseteq inflight /\ wire' \subseteq wire
             /\ replies' \subseteq replies /\ stream' \subseteq stream
             /\ UNCHANGED <<fresh, jobs, answers, reads, snapshots, mustReread, venue, wants>>
  BY <1>7 DEF Doom, restVars
<1>8. ASSUME NEW c, Sound(c), c.mirror = core.mirror, c.isPending = core.isPending,
             c.phase = "Quoting" => core.phase = "Quoting", CompleteExit(c)
      PROVE  /\ Sound(core') /\ core'.mirror = core.mirror /\ core'.isPending = core.isPending
             /\ core'.phase = "Quoting" => core.phase = "Quoting"
             /\ link' \in Links /\ exit' \in ExitReasons \cup {None}
  <2>1. /\ core' = [c EXCEPT !.isSwept = IsTerminal(exit)]
        /\ exit' = IF IsTerminal(exit) THEN exit ELSE None
        /\ link' = IF IsTerminal(exit) THEN "stopped" ELSE IF exit = "Park" THEN "parked" ELSE "down"
    BY <1>8 DEF CompleteExit
  <2>2. IsTerminal(exit) \in BOOLEAN
    BY DEF IsTerminal
  <2>3. c \in Core /\ c.latched \cup c.ambiguous \subseteq c.mirror
    BY <1>8 DEF Sound
  <2> DEFINE t == IsTerminal(exit)
             d == [c EXCEPT !.isSwept = t]
  <2> HIDE DEF t
  <2>4. t \in BOOLEAN
    BY <2>2 DEF t
  <2>5. d \in Core /\ d.latched \cup d.ambiguous \subseteq d.mirror
    BY <2>3, <2>4 DEF Core
  <2>6. d.mirror = c.mirror /\ d.isPending = c.isPending /\ d.phase = c.phase
    BY <2>3 DEF Core
  <2>7. core' = d
    BY <2>1 DEF t
  <2>8. link' \in Links /\ exit' \in ExitReasons \cup {None}
    BY <1>3, <2>1 DEF Links
  <2> HIDE DEF d
  <2> QED BY <1>8, <2>5, <2>6, <2>7, <2>8 DEF Sound
<1>9. CASE LoseConnection
  <2>1. /\ Sound(core') /\ core'.mirror = core.mirror /\ core'.isPending = core.isPending
        /\ core'.phase # "Quoting"
    BY <1>1, <1>9, ConnectionSound DEF LoseConnection
  <2>2. /\ owed' \subseteq owed /\ inflight' \subseteq inflight /\ wire' \subseteq wire
        /\ replies' \subseteq replies /\ stream' \subseteq stream /\ exit' = exit /\ link' = "down"
        /\ UNCHANGED <<fresh, jobs, answers, reads, snapshots, mustReread, venue, wants>>
    BY <1>7, <1>9 DEF LoseConnection
  <2>3. IsQuiet
    BY <1>2, <1>3, <2>1, <2>2 DEF IsQuiet, Links
  <2> QED BY <2>3, QuietKeeps
<1>10. CASE FinishServed
  <2>1. /\ Sound(OnDisconnected(core)) /\ OnDisconnected(core).mirror = core.mirror
        /\ OnDisconnected(core).isPending = core.isPending /\ OnDisconnected(core).phase # "Quoting"
    BY <1>1, ConnectionSound
  <2>2. /\ Sound(core') /\ core'.mirror = core.mirror /\ core'.isPending = core.isPending
        /\ core'.phase = "Quoting" => core.phase = "Quoting"
        /\ link' \in Links /\ exit' \in ExitReasons \cup {None}
    BY <1>8, <1>10, <2>1 DEF FinishServed
  <2>3. /\ owed' \subseteq owed /\ inflight' \subseteq inflight /\ wire' \subseteq wire
        /\ replies' \subseteq replies /\ stream' \subseteq stream
        /\ UNCHANGED <<fresh, jobs, answers, reads, snapshots, mustReread, venue, wants>>
    BY <1>7, <1>10 DEF FinishServed
  <2>4. IsQuiet
    BY <1>2, <1>3, <2>2, <2>3 DEF IsQuiet
  <2> QED BY <2>4, QuietKeeps
<1>11. CASE FinishOffline
  <2>1. /\ Sound(core') /\ core'.mirror = core.mirror /\ core'.isPending = core.isPending
        /\ core'.phase = "Quoting" => core.phase = "Quoting"
        /\ link' \in Links /\ exit' \in ExitReasons \cup {None}
    BY <1>1, <1>8, <1>11 DEF FinishOffline
  <2>2. IsQuiet
    BY <1>2, <1>3, <1>11, <2>1 DEF FinishOffline, IsQuiet, restVars
  <2> QED BY <2>2, QuietKeeps
<1>12. CASE Unpark \/ Resume \/ \E l \in Latches : Latch(l)
  <2>1. /\ UNCHANGED <<core, exit, fresh, owed, inflight, wire, replies, stream, jobs, answers, reads,
                       snapshots, mustReread, venue>>
        /\ link' = link \/ link' = "down"
        /\ wants' \subseteq {"Shutdown", "Fatal", "Park"}
    BY <1>3, <1>12, EdgeAssumption DEF Unpark, Resume, Latch, restVars
  <2>2. IsQuiet
    BY <1>1, <1>2, <1>3, <2>1 DEF IsQuiet, Links
  <2> QED BY <2>2, QuietKeeps
<1>13. CASE \E o \in Own : PlaceRefused(o)
  <2>1. IsQuiet
    BY <1>1, <1>2, <1>3, <1>13 DEF IsQuiet, PlaceRefused, restVars
  <2> QED BY <2>1, QuietKeeps
<1> QED BY <1>4, <1>5, <1>6, <1>9, <1>10, <1>11, <1>12, <1>13

\* The commands: a placement and an amend are of orders of this run.
LEMMA CommandsKeepPriors ==
  ASSUME PInv,
         \/ \E o \in Own : PlaceAdmitted(o) \/ CancelCommand(o) \/ AmendCommand(o) \/ ReconcileOrderCommand(o)
         \/ CancelOursCommand \/ CancelPriorCommand
  PROVE  PInv'
<1>1. TypeOK /\ Sound(core) /\ exit \in ExitReasons \cup {None}
  BY DEF PInv, TypeOK, Sound
<1>2. ASSUME NEW did, NEW seen, Follows(core, did, {}, seen), seen \subseteq Order, Apply(did),
             UNCHANGED <<link, exit, fresh, owed, replies, stream, answers, reads, snapshots, mustReread, venue>>
      PROVE  PInv'
  <2>1. did.sends \subseteq [kind : {"Cancel", "Status"}, order : Order] /\ did.trips \in BOOLEAN
    BY <1>1, <1>2 DEF Follows, Sound, Core
  <2>2. Operates(did, {}, seen)
    BY <1>1, <1>2, <2>1, ApplySends DEF Operates
  <2> QED BY <2>2, OperatesKeeps
<1>3. CASE CancelOursCommand
  <2>1. Follows(core, BeginSweep(core, "Halt"), {}, {})
    BY <1>1, BeginSweepFollows DEF Reasons
  <2> QED BY <1>2, <1>3, <2>1 DEF CancelOursCommand
<1>4. CASE CancelPriorCommand
  <2>1. Follows(core, CancelMatching(core, Prior), {}, {})
    BY <1>1, CancelMatchingFollows
  <2> QED BY <1>2, <1>4, <2>1 DEF CancelPriorCommand
<1>5. ASSUME NEW o \in Own, CancelCommand(o)
      PROVE  PInv'
  <2>1. Follows(core, CancelOne(core, o), {}, {o}) /\ {o} \subseteq Order
    BY <1>1, CancelOneFollows DEF Order
  <2> QED BY <1>2, <1>5, <2>1 DEF CancelCommand
<1>6. ASSUME NEW o \in Own, ReconcileOrderCommand(o)
      PROVE  PInv'
  <2> DEFINE did == Does(core, {Req("Status", o)})
  <2>1. Follows(core, did, {}, {o}) /\ {o} \subseteq Order
    BY <1>1 DEF Follows, Does, Req, Sound, Order
  <2>2. /\ Apply(did)
        /\ UNCHANGED <<link, exit, fresh, owed, replies, stream, answers, reads, snapshots, mustReread, venue>>
    BY <1>6 DEF ReconcileOrderCommand
  <2> HIDE DEF did
  <2> QED BY <1>2, <2>1, <2>2
<1>7. ASSUME NEW o \in Own, AmendCommand(o)
      PROVE  PInv'
  <2>1. /\ core' = core /\ wants' = wants /\ jobs' = jobs
        /\ inflight' = inflight \cup {Req("Amend", o)} /\ wire' = wire \cup {Req("Amend", o)}
        /\ UNCHANGED <<link, exit, fresh, owed, replies, stream, answers, reads, snapshots, mustReread, venue>>
    BY <1>7 DEF AmendCommand, Apply, Does, Dispatch
  <2>2. Req("Amend", o) \in Request /\ Req("Amend", o).kind # "Place"
    BY DEF Req, Request, RequestKinds, Order
  <2>3. TypeOK'
    BY <1>1, <2>1, <2>2 DEF TypeOK
  <2>4. PriorsTold' /\ PriorsKnown(core)'
    BY <2>1, <2>2 DEF PInv, PriorsTold, PriorsKnown, Told, Resting
  <2> QED BY <2>3, <2>4 DEF PInv
<1>8. ASSUME NEW o \in Own, PlaceAdmitted(o)
      PROVE  PInv'
  <2>1. /\ core' = [core EXCEPT !.mirror = @ \cup {o}] /\ wants' = wants /\ jobs' = jobs
        /\ fresh' = fresh \ {o} /\ owed' = owed \cup {o}
        /\ inflight' = inflight \cup {Req("Place", o)} /\ wire' = wire \cup {Req("Place", o)}
        /\ UNCHANGED <<link, exit, replies, stream, answers, reads, snapshots, mustReread, venue>>
    BY <1>8 DEF PlaceAdmitted, Apply, Does, Dispatch
  <2>2. Req("Place", o) \in Request /\ Req("Place", o).order = o
    BY DEF Req, Request, RequestKinds, Order
  <2>3. /\ core' \in Core /\ core'.latched \cup core'.ambiguous \subseteq core'.mirror
        /\ core'.mirror = core.mirror \cup {o} /\ core'.phase = core.phase /\ core'.isPending = core.isPending
    BY <1>1, <2>1 DEF Sound, Core, Order
  <2>4. TypeOK'
    BY <1>1, <2>1, <2>2, <2>3 DEF TypeOK
  <2>5. PriorsTold' /\ PriorsKnown(core)'
    BY <2>1, <2>2, <2>3 DEF PInv, PriorsTold, PriorsKnown, Told, Resting
  <2> QED BY <2>4, <2>5 DEF PInv
<1> QED BY <1>3, <1>4, <1>5, <1>6, <1>7, <1>8

\* An operation carried out on word of an order, over the socket, by the stream,
\* from REST or by a deadline.
LEMMA WordKeepsPriors ==
  ASSUME PInv,
         \/ \E r \in inflight : Expire(r)
         \/ \E m \in replies : OnReply(m)
         \/ \E m \in stream : OnReport(m)
         \/ \E a \in answers : OnAnswer(a)
  PROVE  PInv'
<1>1. TypeOK /\ Sound(core) /\ exit \in ExitReasons \cup {None}
  BY DEF PInv, TypeOK, Sound
<1>2. ASSUME NEW r \in inflight, Expire(r)
      PROVE  PInv'
  <2> DEFINE did == OnRequestTimeout(core, r.order)
  <2>1. r.order \in Order
    BY <1>1 DEF TypeOK, Request
  <2>2. Follows(core, did, {}, {r.order})
    BY <1>1, <2>1, OnRequestTimeoutFollows
  <2>3. /\ core' = did.core /\ inflight' = (inflight \ {r}) \cup did.sends /\ wire' = wire \cup did.sends
        /\ replies' \subseteq replies /\ owed' \subseteq owed
        /\ UNCHANGED <<link, exit, wants, fresh, stream, jobs, answers, reads, snapshots, mustReread, venue>>
    BY <1>2 DEF Expire, restVars
  <2> HIDE DEF did
  <2>4. Operates(did, {}, {r.order})
    BY <1>1, <2>1, <2>2, <2>3 DEF Operates
  <2> QED BY <2>4, OperatesKeeps
<1>3. ASSUME NEW m \in Told
      PROVE  m.order \in Order /\ (IF m.says = "gone" THEN {m.order} ELSE {}) \cap Resting = {}
  BY <1>1, <1>3 DEF PInv, PriorsTold, TypeOK, Told, Replies, Reports, Answers
<1>4. ASSUME NEW m \in replies, OnReply(m)
      PROVE  PInv'
  <2> DEFINE did  == Armed(ReplyFolded(m))
             gone == IF m.says = "gone" THEN {m.order} ELSE {}
  <2>1. m \in Replies /\ m.order \in Order /\ gone \cap Resting = {}
    BY <1>1, <1>3 DEF TypeOK, Told
  <2>2. Follows(core, did, gone, {m.order})
    BY <1>1, <2>1, ReplyFoldedFollows DEF ReplyFolded
  <2>3. gone \cup {m.order} \subseteq Order
    BY <2>1
  <2>4. /\ core' = did.core /\ wants' \subseteq wants \cup {"Fatal"}
        /\ inflight' \subseteq inflight \cup did.sends /\ wire' \subseteq wire \cup did.sends
        /\ replies' \subseteq replies /\ owed' \subseteq owed
        /\ UNCHANGED <<link, exit, fresh, stream, jobs, answers, reads, snapshots, mustReread, venue>>
    BY <1>4 DEF OnReply, restVars
  <2> HIDE DEF did, gone
  <2>5. Operates(did, gone, {m.order})
    BY <1>1, <2>1, <2>2, <2>3, <2>4 DEF Operates
  <2> QED BY <2>5, OperatesKeeps
<1>5. ASSUME NEW did, NEW gone, NEW seen, Follows(core, did, gone, seen), gone \cup seen \subseteq Order,
             gone \cap Resting = {}, Apply(did), stream' \subseteq stream, answers' \subseteq answers,
             UNCHANGED <<link, exit, fresh, owed, replies, reads, snapshots, mustReread, venue>>
      PROVE  PInv'
  <2>1. did.sends \subseteq [kind : {"Cancel", "Status"}, order : Order] /\ did.trips \in BOOLEAN
    BY <1>1, <1>5 DEF Follows, Sound, Core
  <2>2. Operates(did, gone, seen)
    BY <1>1, <1>5, <2>1, ApplySends DEF Operates
  <2> QED BY <2>2, OperatesKeeps
<1>6. ASSUME NEW m \in stream, OnReport(m)
      PROVE  PInv'
  <2> DEFINE event == OnEvent(core, m.order, m.says)
             gone  == IF m.says = "gone" THEN {m.order} ELSE {}
  <2>1. m.order \in Order /\ m.says \in Verdicts /\ gone \cap Resting = {}
    BY <1>1, <1>3 DEF TypeOK, Told, Reports, Verdicts
  <2>2. Follows(core, event, gone, {m.order})
    BY <1>1, <2>1, OnEventFollows
  <2>3. gone \cup {m.order} \subseteq Order
    BY <2>1
  <2>4. /\ Apply(Armed(event)) /\ stream' \subseteq stream /\ answers' \subseteq answers
        /\ UNCHANGED <<link, exit, fresh, owed, replies, reads, snapshots, mustReread, venue>>
    BY <1>6 DEF OnReport
  <2> HIDE DEF event, gone
  <2>5. Follows(core, Armed(event), gone, {m.order})
    BY <2>2, ArmedFollows
  <2> QED BY <1>5, <2>1, <2>3, <2>4, <2>5
<1>7. ASSUME NEW a \in answers, OnAnswer(a)
      PROVE  PInv'
  <2> DEFINE gone == IF a.says = "gone" THEN {a.order} ELSE {}
             retried == Then(AnswerFolded(a), BeginSweep(AnswerFolded(a).core, exit))
  <2>1. a \in Answers /\ a.order \in Order /\ gone \cap Resting = {}
    BY <1>1, <1>3 DEF TypeOK, Told
  <2>2. Follows(core, AnswerFolded(a), gone, {}) /\ gone \cup {} \subseteq Order
    BY <1>1, <2>1, AnswerFoldedFollows
  <2>3. PICK did \in AndRetry(AnswerFolded(a)) : Apply(did)
    BY <1>7 DEF OnAnswer
  <2>4. did = AnswerFolded(a) \/ (exit # None /\ did = retried)
    BY <2>3 DEF AndRetry
  <2>5. exit # None => exit \in Reasons
    BY <1>1 DEF Reasons
  <2> HIDE DEF gone
  <2>6. exit # None => Follows(core, retried, gone, {})
    <3> SUFFICES ASSUME exit # None PROVE Follows(core, retried, gone, {})
      OBVIOUS
    <3>1. Sound(AnswerFolded(a).core)
      BY <2>2 DEF Follows
    <3>2. Follows(AnswerFolded(a).core, BeginSweep(AnswerFolded(a).core, exit), {}, {})
      BY <2>5, <3>1, BeginSweepFollows
    <3> QED BY <2>2, <3>2, ThenFollows
  <2>7. Follows(core, did, gone, {})
    BY <2>2, <2>4, <2>6
  <2>8. /\ stream' \subseteq stream /\ answers' \subseteq answers
        /\ UNCHANGED <<link, exit, fresh, owed, replies, reads, snapshots, mustReread, venue>>
    BY <1>7 DEF OnAnswer
  <2> HIDE DEF retried
  <2> QED BY <1>5, <2>1, <2>2, <2>3, <2>7, <2>8
<1> QED BY <1>2, <1>4, <1>6, <1>7

\* A pass's answer: what it read is mirrored, so a finished pass knows every order
\* of a prior run that rests.
LEMMA SnapshotsKeepPriors ==
  ASSUME PInv, NEW s \in snapshots, SnapshotFailed(s) \/ SnapshotBroken(s) \/ SnapshotFolded(s)
  PROVE  PInv'
<1>1. TypeOK /\ Sound(core) /\ s.open \subseteq Order /\ s.pass \in {"current", "stale"}
  BY DEF PInv, TypeOK, Sound, Snapshots, Passes
<1>2. mustReread' \in BOOLEAN
  <2>1. (mustReread \/ s.pass = "current") \in BOOLEAN
    BY <1>1 DEF TypeOK
  <2> QED BY <1>1, <2>1 DEF TypeOK, SnapshotFailed, SnapshotBroken, SnapshotFolded
<1>3. Resting' = Resting /\ snapshots' \subseteq snapshots
  BY DEF SnapshotFailed, SnapshotBroken, SnapshotFolded, Resting
<1>4. CASE SnapshotFailed(s)
  <2>1. UNCHANGED <<core, link, exit, wants, fresh, owed, inflight, wire, replies, stream, jobs, answers, reads, venue>>
    BY <1>4 DEF SnapshotFailed
  <2>2. TypeOK'
    BY <1>1, <1>2, <1>3, <2>1 DEF TypeOK
  <2> QED BY <1>3, <2>1, <2>2 DEF PInv, PriorsTold, PriorsKnown, Told
<1>5. CASE SnapshotBroken(s)
  <2>1. PICK seen \in SUBSET s.open : Apply(Trips(StopQuoting([core EXCEPT !.mirror = @ \cup seen]), {}))
    BY <1>5 DEF SnapshotBroken
  <2> DEFINE c == StopQuoting([core EXCEPT !.mirror = @ \cup seen])
  <2>2. /\ c \in Core /\ c.latched \cup c.ambiguous \subseteq c.mirror
        /\ c.mirror = core.mirror \cup seen /\ c.phase \in {"Settled", "Cancelling"}
        /\ c.isPending = core.isPending
    BY <1>1 DEF StopQuoting, Sound, Core, Phases
  <2>3. core' = c /\ wants' \subseteq wants \cup {"Fatal"} /\ UNCHANGED <<inflight, wire, jobs>>
    BY <2>1 DEF Apply, Trips, Dispatch, CallsFor
  <2>4. UNCHANGED <<link, exit, fresh, owed, replies, stream, answers, reads, venue>>
    BY <1>5 DEF SnapshotBroken
  <2> HIDE DEF c
  <2>5. TypeOK'
    BY <1>1, <1>2, <1>3, <2>2, <2>3, <2>4 DEF TypeOK
  <2> QED BY <1>3, <2>2, <2>3, <2>4, <2>5 DEF PInv, PriorsTold, PriorsKnown, Told
<1>6. CASE SnapshotFolded(s)
  <2> DEFINE mirror  == core.mirror \cup s.open
             missing == mirror \ s.open
             seen    == [core EXCEPT !.mirror = mirror, !.ambiguous = @ \cup missing]
             pending == [seen EXCEPT !.isPending = TRUE]
             finished == Armed(CancelMatching(pending, Prior))
             did     == IF s.pass = "stale" THEN Only(seen) ELSE finished
  <2>1. /\ s.isRead /\ core' = did.core
        /\ jobs' = jobs \cup Reqs("Status", missing) \cup (IF Serving THEN {} ELSE CallsFor(did.sends))
        /\ inflight' \subseteq inflight \cup did.sends /\ wire' \subseteq wire \cup did.sends
        /\ UNCHANGED <<link, exit, wants, fresh, owed, replies, stream, answers, reads, venue>>
    BY <1>6 DEF SnapshotFolded
  <2>2. /\ Sound(seen) /\ seen.mirror = mirror /\ seen.phase = core.phase /\ seen.isPending = core.isPending
    BY <1>1 DEF Sound, Core
  <2>3. mirror \subseteq Order /\ missing \subseteq mirror /\ core.mirror \subseteq mirror
    BY <1>1 DEF TypeOK, Core
  <2>4. Resting \subseteq mirror
    BY <2>1 DEF PInv, PriorsTold
  <2> HIDE DEF seen
  <2>5. Sound(pending) /\ pending.mirror = mirror /\ pending.phase = core.phase
    BY <2>2, FlagsSound
  <2> HIDE DEF pending
  <2>6. PriorsKnown(seen) /\ PriorsKnown(pending)
    BY <2>2, <2>3, <2>4, <2>5 DEF PInv, PriorsKnown
  <2>7. Follows(pending, finished, {}, {})
    BY <2>5, CancelMatchingFollows, ArmedFollows
  <2> HIDE DEF finished
  <2>8. PriorsKnown(finished.core) /\ Sound(finished.core)
        /\ finished.sends \subseteq [kind : {"Cancel", "Status"}, order : mirror]
    <3>1. PriorsKnown(finished.core)
      BY <2>6, <2>7, FollowsKnown
    <3>2. Sound(finished.core) /\ finished.sends \subseteq [kind : {"Cancel", "Status"}, order : pending.mirror]
      BY <2>7 DEF Follows
    <3> QED BY <2>5, <3>1, <3>2
  <2>9. PriorsKnown(did.core) /\ Sound(did.core) /\ did.sends \subseteq [kind : {"Cancel", "Status"}, order : mirror]
    <3>1. CASE s.pass = "stale"
      <4>1. did = Only(seen)
        BY <3>1
      <4>2. did.core = seen /\ did.sends = {}
        BY <4>1 DEF Only, Does
      <4> HIDE DEF did
      <4> QED BY <2>2, <2>6, <4>2
    <3>2. CASE s.pass # "stale"
      <4>1. did = finished
        BY <3>2
      <4> HIDE DEF did
      <4> QED BY <2>8, <4>1
    <3> QED BY <3>1, <3>2
  <2> HIDE DEF did
  <2>10. did.sends \subseteq Request /\ \A r \in did.sends : r.kind # "Place"
    BY <2>3, <2>9 DEF Request, RequestKinds
  <2>11. Reqs("Status", missing) \subseteq Calls /\ CallsFor(did.sends) \subseteq Calls
    BY <2>3, <2>9 DEF Reqs, Req, Calls, CallsFor, Call
  <2>12. jobs' \subseteq Calls /\ inflight' \subseteq Request /\ wire' \subseteq Request
    BY <1>1, <2>1, <2>10, <2>11 DEF TypeOK
  <2>13. core' \in Core /\ core'.latched \cup core'.ambiguous \subseteq core'.mirror
    BY <2>1, <2>9 DEF Sound
  <2>14. TypeOK'
    BY <1>1, <1>2, <1>3, <2>1, <2>12, <2>13 DEF TypeOK
  <2>15. PriorsKnown(core)'
    BY <1>3, <2>1, <2>9 DEF PriorsKnown
  <2>16. PriorsTold'
    BY <1>3, <2>1, <2>10 DEF PInv, PriorsTold, Told
  <2> QED BY <2>14, <2>15, <2>16 DEF PInv
<1> QED BY <1>4, <1>5, <1>6

\* A sweep forgets nothing, and closes quoting.
LEMMA SweepsKeepPriors ==
  ASSUME PInv, PlanExit \/ SweepBlind \/ RetrySweep
  PROVE  PInv'
<1>1. TypeOK /\ Sound(core) /\ exit \in ExitReasons \cup {None}
  BY DEF PInv, TypeOK, Sound
<1>2. ASSUME NEW did, Follows(core, did, {}, {}), Apply(did), exit' \in ExitReasons \cup {None},
             UNCHANGED <<link, fresh, owed, replies, stream, answers, reads, snapshots, mustReread, venue>>
      PROVE  PInv'
  <2>1. did.sends \subseteq [kind : {"Cancel", "Status"}, order : Order] /\ did.trips \in BOOLEAN
    BY <1>1, <1>2 DEF Follows, Sound, Core
  <2>2. Operates(did, {}, {})
    BY <1>1, <1>2, <2>1, ApplySends DEF Operates
  <2> QED BY <2>2, OperatesKeeps
<1>3. ASSUME NEW reason \in ExitReasons, OpenExit(reason)
      PROVE  PInv'
  <2> DEFINE begun == [core EXCEPT !.isSwept = FALSE]
             did   == BeginSweep(begun, reason)
  <2>1. /\ Sound(begun) /\ begun.mirror = core.mirror /\ begun.phase = core.phase
        /\ begun.isPending = core.isPending /\ ~ begun.isSwept
    BY <1>1 DEF Sound, Core
  <2>2. /\ exit' = reason /\ Apply(did)
        /\ UNCHANGED <<link, fresh, owed, replies, stream, answers, reads, snapshots, mustReread, venue>>
    BY <1>3 DEF OpenExit
  <2> HIDE DEF begun
  <2>3. Follows(begun, did, {}, {})
    BY <2>1, BeginSweepFollows DEF Reasons
  <2> HIDE DEF did
  <2>4. Follows(core, did, {}, {})
    BY <2>1, <2>3 DEF Follows
  <2> QED BY <1>2, <1>3, <2>2, <2>4
<1>4. CASE RetrySweep
  <2>1. exit \in Reasons
    BY <1>1, <1>4 DEF RetrySweep, Reasons
  <2>2. Follows(core, BeginSweep(core, exit), {}, {})
    BY <1>1, <2>1, BeginSweepFollows
  <2> QED BY <1>1, <1>2, <1>4, <2>2 DEF RetrySweep
<1> QED BY <1>3, <1>4, WantedIsReason DEF PlanExit, SweepBlind, ExitReasons

\* A step of the venue: no order of a prior run comes to rest, and no word goes out
\* that one which rests is gone.
Tells(o, fate) ==
  /\ o \in Order /\ fate \in Fates
  /\ venue' = [venue EXCEPT ![o] = fate]
  /\ fate = "resting" /\ o \in Prior => venue[o] = "resting"
  /\ \A m \in Told' \ Told : m.order = o /\ (m.says = "gone" => fate # "resting")
  /\ replies' \subseteq Replies /\ stream' \subseteq Reports /\ answers' \subseteq Answers
  /\ wire' \subseteq wire /\ jobs' \subseteq jobs
  /\ UNCHANGED <<core, link, exit, wants, fresh, owed, inflight, reads, snapshots, mustReread>>

\* Such a step keeps them.
LEMMA TellsKeeps ==
  ASSUME PInv, NEW o, NEW fate, Tells(o, fate)
  PROVE  PInv'
<1>1. venue \in [Order -> Fates] /\ Prior \subseteq Order
  BY DEF PInv, TypeOK, Order
<1>2. Resting' \subseteq Resting
  BY <1>1 DEF Tells, Resting
<1>3. fate # "resting" => o \notin Resting'
  BY <1>1 DEF Tells, Resting
<1>4. TypeOK'
  BY <1>1 DEF PInv, TypeOK, Tells
<1>5. PriorsKnown(core)'
  BY <1>2 DEF PInv, PriorsKnown, Tells
<1>6. PriorsTold'
  <2>1. \A r \in wire' : r.kind = "Place" => r.order \in Own
    BY DEF PInv, PriorsTold, Tells
  <2>2. \A s \in snapshots' : s.isRead => Resting' \subseteq s.open
    BY <1>2 DEF PInv, PriorsTold, Tells
  <2>3. ASSUME NEW m \in Told', m.says = "gone" PROVE m.order \notin Resting'
    <3>1. CASE m \in Told
      BY <1>2, <2>3, <3>1 DEF PInv, PriorsTold
    <3>2. CASE m \notin Told
      BY <1>3, <2>3, <3>2 DEF Tells
    <3> QED BY <3>1, <3>2
  <2> QED BY <2>1, <2>2, <2>3 DEF PriorsTold
<1> QED BY <1>4, <1>5, <1>6 DEF PInv

\* The venue's steps.
LEMMA VenueKeepsPriors ==
  ASSUME PInv, Venue
  PROVE  PInv'
<1>1. /\ TypeOK /\ venue \in [Order -> Fates] /\ wire \subseteq Request /\ jobs \subseteq Calls
      /\ replies \subseteq Replies /\ answers \subseteq Answers /\ stream \subseteq Reports
  BY DEF PInv, TypeOK
<1>2. ASSUME NEW r \in wire, VenueAnswers(r)
      PROVE  PInv'
  <2>1. r.order \in Order /\ r.kind \in RequestKinds /\ venue[r.order] \in Fates
    BY <1>1 DEF Request
  <2>2. PICK outcome \in Outcomes(r.kind, venue[r.order]) : Settles(r, outcome)
    BY <1>2 DEF VenueAnswers
  <2>3. /\ outcome[1] \in Fates /\ outcome[2] \in Verdicts
        /\ outcome[2] = "gone" => outcome[1] # "resting"
        /\ outcome[1] = "resting" => venue[r.order] = "resting" \/ r.kind = "Place"
    BY <2>1, OutcomesTrue
  <2>4. r.kind = "Place" => r.order \notin Prior
    BY CoreAssumption DEF PInv, PriorsTold
  <2>5. /\ venue' = [venue EXCEPT ![r.order] = outcome[1]]
        /\ stream' = Report(r.order, outcome[1]) /\ wire' = wire \ {r}
        /\ replies' \subseteq replies \cup {[kind |-> r.kind, order |-> r.order, says |-> outcome[2]]}
        /\ UNCHANGED <<core, link, exit, wants, fresh, owed, inflight, jobs, answers, reads, snapshots, mustReread>>
    BY <2>2 DEF Settles, restVars
  <2>6. /\ stream' \subseteq Reports
        /\ \A m \in stream' \ stream : m.order = r.order /\ (m.says = "gone" => outcome[1] = "over")
    BY <1>1, <2>1, <2>3, <2>5, ReportTrue
  <2>7. Tells(r.order, outcome[1])
    BY <1>1, <2>1, <2>3, <2>4, <2>5, <2>6 DEF Tells, Told, Replies
  <2> QED BY <2>7, TellsKeeps
<1>3. ASSUME NEW j \in jobs, CallMade(j)
      PROVE  PInv'
  <2>1. j.order \in Order /\ j.kind \in {"Cancel", "Status"} /\ venue[j.order] \in Fates
    BY <1>1 DEF Calls
  <2>2. PICK outcome \in CallOutcomes(j) :
         /\ venue' = [venue EXCEPT ![j.order] = outcome[1]]
         /\ stream' = Report(j.order, outcome[1])
         /\ answers' = answers \cup {[kind |-> j.kind, order |-> j.order, says |-> outcome[2]]}
    BY <1>3 DEF CallMade
  <2>3. /\ outcome[1] \in {venue[j.order], "over"} /\ outcome[2] \in {"live", "gone", "ambiguous", "failed"}
        /\ outcome[2] = "gone" => outcome[1] # "resting"
    BY <2>1, CallsTrue
  <2>4. outcome[1] \in Fates
    BY <2>1, <2>3 DEF Fates
  <2>5. /\ jobs' \subseteq jobs
        /\ UNCHANGED <<core, link, exit, wants, fresh, owed, inflight, wire, replies, reads, snapshots, mustReread>>
    BY <1>3 DEF CallMade
  <2>6. /\ stream' \subseteq Reports
        /\ \A m \in stream' \ stream : m.order = j.order /\ (m.says = "gone" => outcome[1] = "over")
    BY <1>1, <2>1, <2>2, <2>4, ReportTrue
  <2>7. Tells(j.order, outcome[1])
    BY <1>1, <2>1, <2>2, <2>3, <2>4, <2>5, <2>6 DEF Tells, Told, Answers
  <2> QED BY <2>7, TellsKeeps
<1>4. ASSUME NEW p \in reads, OpenOrdersRead(p)
      PROVE  PInv'
  <2>1. PICK isRead \in BOOLEAN : snapshots' = snapshots \cup
           {[pass |-> p, isRead |-> isRead,
             open |-> IF isRead THEN {o \in Order : venue[o] = "resting"} ELSE {}]}
    BY <1>4 DEF OpenOrdersRead
  <2> DEFINE read == IF isRead THEN {o \in Order : venue[o] = "resting"} ELSE {}
             s    == [pass |-> p, isRead |-> isRead, open |-> read]
  <2>2. p \in Passes /\ read \subseteq Order /\ (isRead => Resting \subseteq read)
    BY <1>1 DEF TypeOK, Resting, Order
  <2>3. snapshots' = snapshots \cup {s}
    BY <2>1
  <2> HIDE DEF read
  <2>4. s \in Snapshots /\ (s.isRead => Resting \subseteq s.open)
    BY <2>2 DEF Snapshots
  <2> HIDE DEF s
  <2>5. /\ reads' \subseteq reads
        /\ UNCHANGED <<core, link, exit, wants, fresh, owed, inflight, wire, replies, stream, jobs,
                      answers, mustReread, venue>>
    BY <1>4 DEF OpenOrdersRead
  <2>6. TypeOK'
    BY <1>1, <2>3, <2>4, <2>5 DEF TypeOK
  <2> QED BY <2>3, <2>4, <2>5, <2>6 DEF PInv, PriorsTold, PriorsKnown, Told, Resting
<1>5. ASSUME NEW o \in Order, Ends(o)
      PROVE  PInv'
  <2>1. /\ venue' = [venue EXCEPT ![o] = "over"] /\ stream' = Report(o, "over")
        /\ UNCHANGED <<core, link, exit, wants, fresh, owed, inflight, wire, replies, jobs, answers, reads,
                      snapshots, mustReread>>
    BY <1>5 DEF Ends, restVars
  <2>2. stream' \subseteq Reports /\ \A m \in stream' \ stream : m.order = o
    BY <1>1, <2>1, ReportTrue DEF Fates
  <2>3. Tells(o, "over")
    BY <1>1, <2>1, <2>2 DEF Tells, Told, Fates
  <2> QED BY <2>3, TellsKeeps
<1>6. ASSUME NEW o \in Order, OpenOrderLine(o)
      PROVE  PInv'
  <2>1. /\ venue[o] = "resting" /\ stream' = stream \cup {[order |-> o, says |-> "live"]}
        /\ UNCHANGED <<core, link, exit, wants, fresh, owed, inflight, wire, replies, jobs, answers, reads,
                      snapshots, mustReread, venue>>
    BY <1>6 DEF OpenOrderLine, restVars
  <2>2. venue' = [venue EXCEPT ![o] = "resting"] /\ stream' \subseteq Reports
    BY <1>1, <2>1 DEF Reports
  <2>3. \A m \in Told' \ Told : m.order = o /\ m.says = "live"
    BY <2>1 DEF Told
  <2>4. Tells(o, "resting")
    BY <1>1, <2>1, <2>2, <2>3 DEF Tells, Fates
  <2> QED BY <2>4, TellsKeeps
<1> QED BY <1>2, <1>3, <1>4, <1>5, <1>6 DEF Venue

\* Whatever the inputs, every step keeps the types and knows the prior runs' orders.
LEMMA PriorsStep ==
  ASSUME PInv, [Next]_vars
  PROVE  PInv'
<1>1. CASE Commanded
  BY <1>1, QuietSteps, CommandsKeepPriors DEF Commanded
<1>2. CASE Connection
  BY <1>2, QuietSteps, WordKeepsPriors DEF Connection
<1>3. CASE Folded
  BY <1>3, WordKeepsPriors, SnapshotsKeepPriors DEF Folded
<1>4. CASE Exiting
  BY <1>4, QuietSteps, SweepsKeepPriors DEF Exiting
<1>5. CASE Venue
  BY <1>5, VenueKeepsPriors
<1>6. CASE UNCHANGED vars
  BY <1>6 DEF vars, restVars, PInv, TypeOK, PriorsTold, PriorsKnown, Told, Resting
<1> QED BY <1>1, <1>2, <1>3, <1>4, <1>5, <1>6 DEF Next

\* They are kept from the first state on.
LEMMA PriorsInvariant == Spec => []PInv
<1>1. Init => PInv
  <2> SUFFICES ASSUME Init PROVE PInv
    OBVIOUS
  <2>1. TypeOK
    BY DEF Init, TypeOK, InitCore, Core, Phases, None, Links, Passes, Fates
  <2>2. PriorsTold /\ PriorsKnown(core)
    BY DEF Init, InitCore, PriorsTold, PriorsKnown, Told
  <2> QED BY <2>1, <2>2 DEF PInv
<1>2. PInv /\ [Next]_vars => PInv'
  BY PriorsStep
<1> QED BY <1>1, <1>2, PTL DEF Spec

-----------------------------------------------------------------------------
(***************************************************************************)
(* The cancel latches, whatever the inputs but a refusal nobody classified *)
(***************************************************************************)
\* No refused cancel carries a code outside the table of classify_reject.
Classified == <<"Cancel", "fatal">> \notin Refusals

\* An answer to the cancel of o is still owed, by the socket or by REST.
CancelOwed(o) ==
  \/ Req("Cancel", o) \in inflight \cup jobs
  \/ \E a \in answers : a.kind = "Cancel" /\ a.order = o

LInv ==
  /\ Unlatched(core)
  /\ \A o \in core.latched : o \in core.ambiguous \/ CancelOwed(o)
  /\ \A m \in replies : m.kind = "Cancel" => m.says \in {"gone", "ambiguous", "stillLive"}

\* An operation carried out keeps the latches owed, if what it takes from those
\* that owe has told it of its order.
LEMMA OwesKeeps ==
  ASSUME LInv, PInv, PInv', NEW did, Owes(core, did), core' = did.core,
         \A o \in Order : Req("Cancel", o) \in did.sends => CancelOwed(o)',
         \A o \in core'.latched : CancelOwed(o) => CancelOwed(o)' \/ o \in core'.ambiguous,
         replies' \subseteq replies
  PROVE  LInv'
<1>1. Unlatched(core)'
  BY DEF LInv, Owes, Unlatched
<1>2. core'.latched \subseteq core'.mirror /\ core'.mirror \subseteq Order
  BY DEF PInv, TypeOK, Core
<1>3. ASSUME NEW o \in core'.latched PROVE o \in core'.ambiguous \/ CancelOwed(o)'
  <2>1. o \in core.latched \/ Req("Cancel", o) \in did.sends
    BY <1>3 DEF Owes
  <2>2. o \in core.ambiguous => o \in core'.ambiguous
    BY <1>2, <1>3 DEF Owes
  <2> QED BY <1>2, <1>3, <2>1, <2>2 DEF LInv
<1>4. \A m \in replies' : m.kind = "Cancel" => m.says \in {"gone", "ambiguous", "stillLive"}
  BY DEF LInv
<1> QED BY <1>1, <1>3, <1>4 DEF LInv

\* What Apply sends is owed, and what was owed stays so.
LEMMA ApplyOwes ==
  ASSUME NEW did, Apply(did), did.sends \subseteq [kind : {"Cancel", "Status"}, order : Order]
  PROVE  /\ core' = did.core
         /\ \A o : Req("Cancel", o) \in did.sends => Req("Cancel", o) \in inflight' \cup jobs'
         /\ inflight \subseteq inflight' /\ jobs \subseteq jobs'
<1>1. core' = did.core /\ Dispatch(did.sends)
  BY DEF Apply
<1>2. CASE Serving
  BY <1>1, <1>2 DEF Dispatch
<1>3. CASE ~ Serving
  <2>1. \A o : Req("Cancel", o) \in did.sends => Req("Cancel", o) \in CallsFor(did.sends)
    BY DEF CallsFor, Call, Req
  <2> QED BY <1>1, <1>3, <2>1 DEF Dispatch
<1> QED BY <1>2, <1>3

\* Such a step, with nothing taken from those that owe.
LEMMA ApplyKeepsLatches ==
  ASSUME LInv, PInv, PInv', NEW did, NEW gone, NEW seen, Follows(core, did, gone, seen), gone \cup seen \subseteq Order,
         Owes(core, did), Apply(did), answers' = answers, replies' \subseteq replies
  PROVE  LInv'
<1>1. did.sends \subseteq [kind : {"Cancel", "Status"}, order : Order]
  BY DEF PInv, TypeOK, Core, Follows
<1>2. /\ \A o : Req("Cancel", o) \in did.sends => CancelOwed(o)'
      /\ \A o : CancelOwed(o) => CancelOwed(o)'
  BY <1>1, ApplyOwes DEF CancelOwed
<1> QED BY <1>1, <1>2, ApplyOwes, OwesKeeps

\* A step that latches nothing, doubts no less and takes nothing from those that owe.
LEMMA QuietKeepsLatches ==
  ASSUME LInv, PInv, PInv', Unlatched(core) => Unlatched(core)', core'.latched \subseteq core.latched,
         core.ambiguous \cap core'.latched \subseteq core'.ambiguous,
         \A o \in core'.latched : CancelOwed(o) => CancelOwed(o)',
         \A m \in replies' \ replies : m.kind = "Cancel" => m.says \in {"gone", "ambiguous", "stillLive"}
  PROVE  LInv'
BY DEF LInv

\* The commands.
LEMMA CommandsKeepLatches ==
  ASSUME LInv, PInv, PInv', Commanded
  PROVE  LInv'
<1>1. Sound(core)
  BY DEF PInv, TypeOK, Sound
<1>2. CASE CancelOursCommand
  <2>1. Follows(core, BeginSweep(core, "Halt"), {}, {}) /\ Owes(core, BeginSweep(core, "Halt"))
    BY <1>1, BeginSweepFollows, BeginSweepOwes DEF Reasons
  <2> QED BY <1>2, <2>1, ApplyKeepsLatches DEF CancelOursCommand
<1>3. CASE CancelPriorCommand
  <2>1. Follows(core, CancelMatching(core, Prior), {}, {}) /\ Owes(core, CancelMatching(core, Prior))
    BY <1>1, CancelMatchingFollows, CancelMatchingOwes
  <2> QED BY <1>3, <2>1, ApplyKeepsLatches DEF CancelPriorCommand
<1>4. ASSUME NEW o \in Own, CancelCommand(o)
      PROVE  LInv'
  <2>1. Follows(core, CancelOne(core, o), {}, {o}) /\ {o} \subseteq Order
    BY <1>1, CancelOneFollows DEF Order
  <2>2. Owes(core, CancelOne(core, o))
    <3>1. CASE o \in core.mirror
      BY <1>1, <3>1, CancelMatchingOwes DEF CancelOne
    <3>2. CASE o \notin core.mirror
      <4>1. CancelOne(core, o).core = core
        BY <3>2 DEF CancelOne, Does
      <4> QED BY <4>1 DEF Owes
    <3> QED BY <3>1, <3>2
  <2> QED BY <1>4, <2>1, <2>2, ApplyKeepsLatches DEF CancelCommand
<1>5. ASSUME NEW o \in Own,
             \/ PlaceAdmitted(o) \/ PlaceRefused(o) \/ AmendCommand(o) \/ ReconcileOrderCommand(o)
      PROVE  LInv'
  <2>1. /\ core'.latched = core.latched /\ core'.ambiguous = core.ambiguous /\ core'.phase = core.phase
        /\ inflight \subseteq inflight' /\ jobs \subseteq jobs' /\ answers' = answers /\ replies' = replies
    <3>1. CASE PlaceAdmitted(o)
      <4>1. core' = [core EXCEPT !.mirror = @ \cup {o}]
        BY <3>1 DEF PlaceAdmitted, Apply, Does
      <4>2. inflight \subseteq inflight' /\ jobs \subseteq jobs' /\ answers' = answers /\ replies' = replies
        BY <3>1 DEF PlaceAdmitted, Apply, Dispatch
      <4> QED BY <1>1, <4>1, <4>2 DEF Sound, Core
    <3>2. CASE PlaceRefused(o)
      BY <3>2 DEF PlaceRefused, restVars
    <3>3. CASE AmendCommand(o) \/ ReconcileOrderCommand(o)
      BY <3>3 DEF AmendCommand, ReconcileOrderCommand, Apply, Does, Dispatch
    <3> QED BY <1>5, <3>1, <3>2, <3>3
  <2>2. \A p : CancelOwed(p) => CancelOwed(p)'
    BY <2>1 DEF CancelOwed
  <2>3. Unlatched(core) => Unlatched(core)'
    BY <2>1 DEF Unlatched
  <2> QED BY <2>1, <2>2, <2>3, QuietKeepsLatches
<1> QED BY <1>2, <1>3, <1>4, <1>5 DEF Commanded

\* The connection: what is lost with it leaves every order in doubt and no cancel latched.
LEMMA ConnectionKeepsLatches ==
  ASSUME LInv, PInv, PInv',
         \/ Connect \/ Subscribed \/ RetryPass \/ LoseConnection
         \/ FinishServed \/ FinishOffline \/ Unpark \/ Resume
         \/ \E l \in Latches : Latch(l)
         \/ UNCHANGED vars
  PROVE  LInv'
<1>1. Sound(core)
  BY DEF PInv, TypeOK, Sound
<1>2. CASE LoseConnection \/ FinishServed
  <2> DEFINE c == OnDisconnected(core)
  <2>1. c.latched = {}
    BY <1>1 DEF OnDisconnected, Sound, Core, LInv, Unlatched
  <2>2. Sound(c)
    BY <1>1, ConnectionSound
  <2> HIDE DEF c
  <2>3. core'.latched = {} /\ replies' = {}
    <3>1. CASE LoseConnection
      BY <2>1, <3>1 DEF LoseConnection, Doom, c
    <3>2. CASE FinishServed
      <4>1. core' = [c EXCEPT !.isSwept = IsTerminal(exit)] /\ replies' = {}
        BY <3>2 DEF FinishServed, CompleteExit, Doom, c
      <4> QED BY <2>1, <2>2, <4>1 DEF Sound, Core
    <3> QED BY <1>2, <3>1, <3>2
  <2>4. Unlatched(core)'
    BY <2>3 DEF Unlatched
  <2> QED BY <2>3, <2>4, QuietKeepsLatches
<1>3. CASE \/ Connect \/ Subscribed \/ RetryPass \/ FinishOffline \/ Unpark \/ Resume
           \/ \E l \in Latches : Latch(l)
           \/ UNCHANGED vars
  <2>1. /\ core'.latched = core.latched /\ core'.ambiguous = core.ambiguous
        /\ core'.phase = "Settled" => core.phase = "Settled"
    <3>1. CASE Connect
      BY <1>1, <3>1 DEF Connect, OnConnected, Sound, Core, Phases
    <3>2. CASE Subscribed
      BY <1>1, <3>2 DEF Subscribed, Sound, Core
    <3>3. CASE FinishOffline
      <4>1. core' = [core EXCEPT !.isSwept = IsTerminal(exit)]
        BY <3>3 DEF FinishOffline, CompleteExit
      <4> QED BY <1>1, <4>1 DEF Sound, Core
    <3>4. CASE \/ RetryPass \/ Unpark \/ Resume \/ (\E l \in Latches : Latch(l)) \/ UNCHANGED vars
      BY <3>4 DEF RetryPass, Unpark, Resume, Latch, vars
    <3> QED BY <1>3, <3>1, <3>2, <3>3, <3>4
  <2>2. UNCHANGED <<inflight, jobs, answers, replies>>
    BY <1>3 DEF Connect, Subscribed, RetryPass, FinishOffline, Unpark, Resume, Latch, vars, restVars
  <2>3. \A p : CancelOwed(p) => CancelOwed(p)'
    BY <2>2 DEF CancelOwed
  <2>4. Unlatched(core) => Unlatched(core)'
    BY <2>1 DEF Unlatched
  <2> QED BY <2>1, <2>2, <2>3, <2>4, QuietKeepsLatches
<1> QED BY <1>2, <1>3

\* A deadline: the order it is about is in doubt.
LEMMA ExpireKeepsLatches ==
  ASSUME LInv, PInv, PInv', NEW r \in inflight, Expire(r)
  PROVE  LInv'
<1> DEFINE did == OnRequestTimeout(core, r.order)
<1>1. Sound(core) /\ r.order \in Order /\ r = Req(r.kind, r.order)
  BY DEF PInv, TypeOK, Sound, Request, Req
<1>2. /\ Owes(core, did)
      /\ r.order \in did.core.latched => r.order \in did.core.ambiguous
  BY <1>1, WordOwes
<1>3. /\ core' = did.core /\ inflight' = (inflight \ {r}) \cup did.sends
      /\ replies' \subseteq replies /\ jobs' = jobs /\ answers' = answers
  BY DEF Expire, restVars
<1> HIDE DEF did
<1>4. \A o \in Order : Req("Cancel", o) \in did.sends => CancelOwed(o)'
  BY <1>3 DEF CancelOwed
<1>5. ASSUME NEW o \in core'.latched, CancelOwed(o)
      PROVE  CancelOwed(o)' \/ o \in core'.ambiguous
  <2>1. CASE Req("Cancel", o) = r
    <3>1. r.order = o
      BY <2>1 DEF Req
    <3> QED BY <1>2, <1>3, <1>5, <3>1
  <2>2. CASE Req("Cancel", o) # r
    BY <1>3, <1>5, <2>2 DEF CancelOwed
  <2> QED BY <2>1, <2>2
<1> QED BY <1>2, <1>3, <1>4, <1>5, OwesKeeps

\* What the edge makes of an answer over the socket.
LEMMA ReplyFoldedOwes ==
  ASSUME NEW m \in Replies, Sound(core)
  PROVE  /\ Owes(core, Armed(ReplyFolded(m)))
         /\ m.says \in {"gone", "ambiguous", "stillLive"} /\ m.order \in Armed(ReplyFolded(m)).core.latched
              => m.order \in Armed(ReplyFolded(m)).core.ambiguous
<1> DEFINE event == OnEvent(core, m.order, m.says)
           again == [event EXCEPT !.core = ReArmCancel(event.core, m.order)]
           gone  == IF m.says = "gone" THEN {m.order} ELSE {}
<1>1. m.order \in Order /\ m.says \in Verdicts
  BY DEF Replies
<1>2. Follows(core, event, gone, {m.order}) /\ Owes(core, event)
      /\ (m.says \in {"gone", "ambiguous", "stillLive"} /\ m.order \in event.core.latched
            => m.order \in event.core.ambiguous)
  BY <1>1, OnEventFollows, OnEventOwes
<1>3. ReplyFolded(m) = IF m.kind = "Status" /\ m.says = "live" THEN again ELSE event
  BY DEF ReplyFolded
<1> HIDE DEF event, gone
<1>4. Follows(core, again, gone, {m.order}) /\ Owes(core, again)
  BY <1>2, ReArmedFollows, ReArmedOwes
<1>5. Owes(core, Armed(event)) /\ Owes(core, Armed(again))
  BY <1>2, <1>4, ArmedOwes
<1>6. m.says \in {"gone", "ambiguous", "stillLive"} => ReplyFolded(m) = event
  BY <1>3
<1>7. ASSUME m.order \in Armed(event).core.latched, m.order \in event.core.latched => m.order \in event.core.ambiguous
      PROVE  m.order \in Armed(event).core.ambiguous
  <2>1. PICK k, q, t : event = [core |-> k, sends |-> q, trips |-> t]
    BY <1>2 DEF Follows
  <2>2. Armed(event).core = ArmReadiness(k) /\ event.core = k /\ Sound(k)
    BY <1>2, <2>1 DEF Armed, Follows
  <2>3. ArmReadiness(k).latched = k.latched /\ ArmReadiness(k).ambiguous = k.ambiguous
    BY <2>2 DEF ArmReadiness, Sound, Core
  <2> QED BY <1>7, <2>2, <2>3
<1> HIDE DEF again
<1> QED BY <1>2, <1>3, <1>5, <1>6, <1>7

\* An answer over the socket: that of a cancel ends it, refuses it or leaves it in doubt.
LEMMA OnReplyKeepsLatches ==
  ASSUME LInv, PInv, PInv', NEW m \in replies, OnReply(m)
  PROVE  LInv'
<1> DEFINE did == Armed(ReplyFolded(m))
<1>1. Sound(core) /\ m \in Replies
  BY DEF PInv, TypeOK, Sound
<1>2. /\ Owes(core, did)
      /\ m.says \in {"gone", "ambiguous", "stillLive"} /\ m.order \in did.core.latched
           => m.order \in did.core.ambiguous
  BY <1>1, ReplyFoldedOwes
<1>3. /\ core' = did.core /\ inflight' = (inflight \ {Req(m.kind, m.order)}) \cup did.sends
      /\ replies' \subseteq replies /\ jobs' = jobs /\ answers' = answers
  BY DEF OnReply, restVars
<1> HIDE DEF did
<1>4. \A o \in Order : Req("Cancel", o) \in did.sends => CancelOwed(o)'
  BY <1>3 DEF CancelOwed
<1>5. ASSUME NEW o \in core'.latched, CancelOwed(o)
      PROVE  CancelOwed(o)' \/ o \in core'.ambiguous
  <2>1. CASE Req("Cancel", o) = Req(m.kind, m.order)
    <3>1. m.order = o /\ m.kind = "Cancel"
      BY <2>1 DEF Req
    <3>2. m.says \in {"gone", "ambiguous", "stillLive"}
      BY <3>1 DEF LInv
    <3> QED BY <1>2, <1>3, <1>5, <3>1, <3>2
  <2>2. CASE Req("Cancel", o) # Req(m.kind, m.order)
    BY <1>3, <1>5, <2>2 DEF CancelOwed
  <2> QED BY <2>1, <2>2
<1> QED BY <1>2, <1>3, <1>4, <1>5, OwesKeeps

\* A report of the account stream.
LEMMA OnReportKeepsLatches ==
  ASSUME LInv, PInv, PInv', NEW m \in stream, OnReport(m)
  PROVE  LInv'
<1> DEFINE event == OnEvent(core, m.order, m.says)
           gone  == IF m.says = "gone" THEN {m.order} ELSE {}
<1>1. Sound(core) /\ m.order \in Order /\ m.says \in Verdicts
  BY DEF PInv, TypeOK, Sound, Reports, Verdicts
<1>2. Follows(core, event, gone, {m.order}) /\ Owes(core, event)
  BY <1>1, OnEventFollows, OnEventOwes
<1>3. gone \cup {m.order} \subseteq Order
  BY <1>1
<1>4. Apply(Armed(event)) /\ answers' = answers /\ replies' = replies
  BY DEF OnReport
<1> HIDE DEF event, gone
<1>5. Follows(core, Armed(event), gone, {m.order}) /\ Owes(core, Armed(event))
  BY <1>1, <1>2, ArmedFollows, ArmedOwes
<1> QED BY <1>3, <1>4, <1>5, ApplyKeepsLatches

\* What the edge makes of a REST answer: the order it is about is no longer
\* latched, or in doubt, or its cancel goes again.
LEMMA AnswerFoldedOwes ==
  ASSUME NEW a \in Answers, Sound(core)
  PROVE  /\ Owes(core, AnswerFolded(a))
         /\ a.order \in AnswerFolded(a).core.latched =>
              \/ a.order \in AnswerFolded(a).core.ambiguous
              \/ Req("Cancel", a.order) \in AnswerFolded(a).sends
<1>1. a.order \in Order /\ a.says \in {"live", "gone", "ambiguous", "failed"}
  BY DEF Answers
<1>2. CASE a.says = "gone"
  <2> DEFINE event == OnOrderGone(core, a.order)
  <2>1. Follows(core, event, {a.order}, {}) /\ Owes(core, event) /\ a.order \notin event.core.latched
    BY <1>1, OnOrderGoneFollows, WordOwes
  <2>2. AnswerFolded(a) = Armed(event)
    BY <1>2 DEF AnswerFolded
  <2> HIDE DEF event
  <2>3. PICK k, q, t : event = [core |-> k, sends |-> q, trips |-> t]
    BY <2>1 DEF Follows
  <2>4. Armed(event).core = ArmReadiness(k) /\ event.core = k /\ Sound(k)
    BY <2>1, <2>3 DEF Armed, Follows
  <2>5. ArmReadiness(k).latched = k.latched
    BY <2>4 DEF ArmReadiness, Sound, Core
  <2>6. Owes(core, Armed(event))
    BY <2>1, ArmedOwes
  <2> QED BY <2>1, <2>2, <2>4, <2>5, <2>6
<1>3. CASE a.says = "ambiguous"
  BY <1>1, <1>3, WordOwes DEF AnswerFolded
<1>4. CASE a.says = "failed"
  <2>1. AnswerFolded(a) = Only(ReArmCancel(core, a.order))
    BY <1>4 DEF AnswerFolded
  <2>2. Only(ReArmCancel(core, a.order)).core = ReArmCancel(core, a.order)
    BY DEF Only, Does
  <2> QED BY <1>1, <2>1, <2>2, WordOwes
<1>5. CASE a.says = "live"
  <2> DEFINE armed == ReArmCancel(core, a.order)
  <2>1. Owes(core, Only(armed)) /\ a.order \notin armed.latched
    BY <1>1, WordOwes DEF Only, Does
  <2>0. Only(armed).core = armed /\ Only(armed).sends = {}
    BY DEF Only, Does
  <2>2. Sound(armed) /\ armed.mirror = core.mirror
    BY ReArmCancelFollows DEF ReArmCancel, Sound, Core
  <2> HIDE DEF armed
  <2>3. Owes(armed, CancelMatching(armed, Prior)) /\ CancelMatching(armed, Prior).core.mirror = armed.mirror
    BY <2>2, CancelMatchingOwes, CancelMatchingFollows
  <2>4. Owes(core, CancelMatching(armed, Prior))
    <3> DEFINE did == CancelMatching(armed, Prior)
    <3> HIDE DEF did
    <3>1. \A o \in armed.latched : o \in core.latched
      BY <2>0, <2>1 DEF Owes
    <3>2. core.ambiguous \cap armed.mirror \subseteq armed.ambiguous /\ (Unlatched(core) => Unlatched(armed))
      BY <2>0, <2>1 DEF Owes
    <3>3. Owes(armed, did) /\ did.core.mirror = armed.mirror
      BY <2>3 DEF did
    <3>4. Owes(core, did)
      BY <3>1, <3>2, <3>3 DEF Owes
    <3> QED BY <3>4 DEF did
  <2>5. a.order \in CancelMatching(armed, Prior).core.latched
          => Req("Cancel", a.order) \in CancelMatching(armed, Prior).sends
    BY <2>1, <2>3 DEF Owes
  <2>6. AnswerFolded(a) = CancelMatching(armed, Prior) \/ AnswerFolded(a) = Only(armed)
    BY <1>5 DEF AnswerFolded, armed
  <2> QED BY <2>0, <2>1, <2>4, <2>5, <2>6
<1> QED BY <1>1, <1>2, <1>3, <1>4, <1>5

\* A REST answer, and the sweep retry it may carry.
LEMMA OnAnswerKeepsLatches ==
  ASSUME LInv, PInv, PInv', NEW a \in answers, OnAnswer(a)
  PROVE  LInv'
<1> DEFINE first == AnswerFolded(a)
           gone  == IF a.says = "gone" THEN {a.order} ELSE {}
           sweep == BeginSweep(first.core, exit)
<1>1. Sound(core) /\ a \in Answers /\ a.order \in Order /\ exit \in ExitReasons \cup {None}
  BY DEF PInv, TypeOK, Sound, Answers
<1>2. /\ Follows(core, first, gone, {}) /\ Owes(core, first)
      /\ a.order \in first.core.latched => a.order \in first.core.ambiguous \/ Req("Cancel", a.order) \in first.sends
  BY <1>1, AnswerFoldedFollows, AnswerFoldedOwes
<1>3. PICK did \in AndRetry(first) : Apply(did)
  BY DEF OnAnswer
<1>4. did = first \/ (exit # None /\ did = Then(first, sweep))
  BY <1>3 DEF AndRetry
<1>5. gone \subseteq Order /\ answers' = answers \ {a} /\ replies' = replies
  BY <1>1 DEF OnAnswer
<1> HIDE DEF first, gone
<1>6. exit # None => Follows(first.core, sweep, {}, {}) /\ Owes(first.core, sweep)
  <2>1. Sound(first.core)
    BY <1>2 DEF Follows
  <2> QED BY <1>1, <2>1, BeginSweepFollows, BeginSweepOwes DEF Reasons
<1> HIDE DEF sweep
<1>7. Follows(core, did, gone, {}) /\ Owes(core, did)
  BY <1>2, <1>4, <1>6, ThenFollows, ThenOwes
<1>8. a.order \in did.core.latched => a.order \in did.core.ambiguous \/ Req("Cancel", a.order) \in did.sends
  <2>1. CASE did = first
    BY <1>2, <2>1
  <2>2. CASE exit # None /\ did = Then(first, sweep)
    <3>1. did.core = sweep.core /\ did.sends = first.sends \cup sweep.sends
      BY <2>2 DEF Then
    <3>2. sweep.core.latched \subseteq sweep.core.mirror
      BY <1>6, <2>2 DEF Follows, Sound
    <3>3. first.core.ambiguous \cap sweep.core.mirror \subseteq sweep.core.ambiguous
      BY <1>6, <2>2 DEF Owes
    <3>4. a.order \in sweep.core.latched => a.order \in first.core.latched \/ Req("Cancel", a.order) \in sweep.sends
      BY <1>6, <2>2 DEF Owes
    <3> QED BY <1>2, <3>1, <3>2, <3>3, <3>4
  <2> QED BY <1>4, <2>1, <2>2
<1>9. did.sends \subseteq [kind : {"Cancel", "Status"}, order : Order]
  BY <1>1, <1>5, <1>7 DEF Follows, Sound, Core
<1>10. /\ core' = did.core
       /\ \A o : Req("Cancel", o) \in did.sends => Req("Cancel", o) \in inflight' \cup jobs'
       /\ inflight \subseteq inflight' /\ jobs \subseteq jobs'
  BY <1>3, <1>9, ApplyOwes
<1>11. \A o \in Order : Req("Cancel", o) \in did.sends => CancelOwed(o)'
  BY <1>10 DEF CancelOwed
<1>12. ASSUME NEW o \in core'.latched, CancelOwed(o)
       PROVE  CancelOwed(o)' \/ o \in core'.ambiguous
  <2>1. CASE o = a.order
    BY <1>8, <1>10, <1>12, <2>1 DEF CancelOwed
  <2>2. CASE o # a.order
    BY <1>5, <1>10, <1>12, <2>2 DEF CancelOwed
  <2> QED BY <2>1, <2>2
<1> QED BY <1>5, <1>7, <1>10, <1>11, <1>12, OwesKeeps

\* A pass's answer latches only the cancels of prior runs' orders it sends.
LEMMA SnapshotsKeepLatches ==
  ASSUME LInv, PInv, PInv', NEW s \in snapshots, SnapshotFailed(s) \/ SnapshotBroken(s) \/ SnapshotFolded(s)
  PROVE  LInv'
<1>1. Sound(core) /\ s.open \subseteq Order
  BY DEF PInv, TypeOK, Sound, Snapshots
<1>2. CASE SnapshotFailed(s)
  <2>1. UNCHANGED <<core, inflight, jobs, answers, replies>>
    BY <1>2 DEF SnapshotFailed
  <2>2. Unlatched(core)' = Unlatched(core) /\ \A o : CancelOwed(o)' = CancelOwed(o)
    BY <2>1 DEF Unlatched, CancelOwed
  <2> QED BY <2>1, <2>2, QuietKeepsLatches
<1>3. CASE SnapshotBroken(s)
  <2>1. PICK seen \in SUBSET s.open : Apply(Trips(StopQuoting([core EXCEPT !.mirror = @ \cup seen]), {}))
    BY <1>3 DEF SnapshotBroken
  <2> DEFINE c == StopQuoting([core EXCEPT !.mirror = @ \cup seen])
  <2>2. /\ c.latched = core.latched /\ c.ambiguous = core.ambiguous
        /\ c.phase = "Settled" => core.phase = "Settled"
    BY <1>1 DEF StopQuoting, Sound, Core, Phases
  <2>3. core' = c /\ UNCHANGED <<inflight, jobs>>
    BY <2>1 DEF Apply, Trips, Dispatch, CallsFor
  <2>4. UNCHANGED <<answers, replies>>
    BY <1>3 DEF SnapshotBroken
  <2> HIDE DEF c
  <2>5. (Unlatched(core) => Unlatched(core)') /\ \A o : CancelOwed(o)' = CancelOwed(o)
    BY <2>2, <2>3, <2>4 DEF Unlatched, CancelOwed
  <2> QED BY <2>2, <2>3, <2>4, <2>5, QuietKeepsLatches
<1>4. CASE SnapshotFolded(s)
  <2> DEFINE mirror  == core.mirror \cup s.open
             missing == mirror \ s.open
             seen    == [core EXCEPT !.mirror = mirror, !.ambiguous = @ \cup missing]
             pending == [seen EXCEPT !.isPending = TRUE]
             finished == Armed(CancelMatching(pending, Prior))
             did     == IF s.pass = "stale" THEN Only(seen) ELSE finished
  <2>1. /\ core' = did.core
        /\ jobs' = jobs \cup Reqs("Status", missing) \cup (IF Serving THEN {} ELSE CallsFor(did.sends))
        /\ inflight' = IF Serving THEN inflight \cup did.sends ELSE inflight
        /\ UNCHANGED <<answers, replies>>
    BY <1>4 DEF SnapshotFolded
  <2>2. /\ Sound(seen) /\ seen.latched = core.latched /\ seen.phase = core.phase
        /\ core.ambiguous \subseteq seen.ambiguous
    BY <1>1 DEF Sound, Core
  <2> HIDE DEF seen
  <2>3. /\ Sound(pending) /\ pending.latched = seen.latched /\ pending.phase = seen.phase
        /\ pending.ambiguous = seen.ambiguous
    BY <2>2 DEF Sound, Core
  <2> HIDE DEF pending
  <2>4. Owes(pending, finished)
    BY <2>3, CancelMatchingFollows, CancelMatchingOwes, ArmedOwes
  <2> HIDE DEF finished
  <2>5. Owes(core, finished)
    BY <2>2, <2>3, <2>4 DEF Owes, Unlatched
  <2>6. Owes(core, Only(seen))
    BY <2>2 DEF Owes, Unlatched, Only, Does
  <2>7. Owes(core, did)
    <3>1. did = Only(seen) \/ did = finished
      OBVIOUS
    <3> HIDE DEF did
    <3> QED BY <2>5, <2>6, <3>1
  <2> HIDE DEF did
  <2>8. \A o : Req("Cancel", o) \in did.sends => Req("Cancel", o) \in inflight' \cup jobs'
    <3>1. \A o : Req("Cancel", o) \in did.sends => Req("Cancel", o) \in CallsFor(did.sends)
      BY DEF CallsFor, Call, Req
    <3> QED BY <2>1, <3>1
  <2>9. inflight \subseteq inflight' /\ jobs \subseteq jobs'
    BY <2>1
  <2>10. /\ \A o \in Order : Req("Cancel", o) \in did.sends => CancelOwed(o)'
         /\ \A o : CancelOwed(o) => CancelOwed(o)'
    BY <2>1, <2>8, <2>9 DEF CancelOwed
  <2> QED BY <2>1, <2>7, <2>10, OwesKeeps
<1> QED BY <1>2, <1>3, <1>4

\* A sweep sends what it latches.
LEMMA SweepsKeepLatches ==
  ASSUME LInv, PInv, PInv', PlanExit \/ SweepBlind \/ RetrySweep
  PROVE  LInv'
<1>1. Sound(core) /\ exit \in ExitReasons \cup {None}
  BY DEF PInv, TypeOK, Sound
<1>2. ASSUME NEW reason \in ExitReasons, OpenExit(reason)
      PROVE  LInv'
  <2> DEFINE begun == [core EXCEPT !.isSwept = FALSE]
             did   == BeginSweep(begun, reason)
  <2>1. /\ Sound(begun) /\ begun.mirror = core.mirror /\ begun.phase = core.phase /\ ~ begun.isSwept
        /\ begun.isPending = core.isPending /\ begun.latched = core.latched /\ begun.ambiguous = core.ambiguous
    BY <1>1 DEF Sound, Core
  <2>2. Apply(did) /\ answers' = answers /\ replies' = replies
    BY <1>2 DEF OpenExit
  <2> HIDE DEF begun
  <2>3. Follows(begun, did, {}, {}) /\ Owes(begun, did)
    BY <2>1, BeginSweepFollows, BeginSweepOwes DEF Reasons
  <2> HIDE DEF did
  <2>4. Follows(core, did, {}, {})
    BY <2>1, <2>3 DEF Follows
  <2>5. Owes(core, did)
    BY <2>1, <2>3 DEF Owes, Unlatched
  <2> QED BY <2>2, <2>4, <2>5, ApplyKeepsLatches
<1>3. CASE RetrySweep
  <2>1. exit \in Reasons
    BY <1>1, <1>3 DEF RetrySweep, Reasons
  <2>2. Follows(core, BeginSweep(core, exit), {}, {}) /\ Owes(core, BeginSweep(core, exit))
    BY <1>1, <2>1, BeginSweepFollows, BeginSweepOwes
  <2> QED BY <1>3, <2>2, ApplyKeepsLatches DEF RetrySweep
<1> QED BY <1>2, <1>3, WantedIsReason DEF PlanExit, SweepBlind, ExitReasons

\* The venue answers a cancel with its end, a doubt or a refusal, and REST hands the
\* debt of a call on to its answer.
LEMMA VenueKeepsLatches ==
  ASSUME Classified, LInv, PInv, PInv', Venue
  PROVE  LInv'
<1>1. core' = core /\ inflight' = inflight
  BY DEF Venue, VenueAnswers, Settles, CallMade, OpenOrdersRead, Ends, OpenOrderLine
<1>2. \A o : CancelOwed(o) => CancelOwed(o)'
  <2>1. CASE jobs' = jobs /\ answers' = answers
    BY <1>1, <2>1 DEF CancelOwed
  <2>2. ASSUME NEW j \in jobs, CallMade(j)
        PROVE  \A o : CancelOwed(o) => CancelOwed(o)'
    <3>1. PICK says : answers' = answers \cup {[kind |-> j.kind, order |-> j.order, says |-> says]}
      BY <2>2 DEF CallMade
    <3>2. jobs' = jobs \ {j}
      BY <2>2 DEF CallMade
    <3>3. ASSUME NEW o, Req("Cancel", o) = j PROVE j.kind = "Cancel" /\ j.order = o
      BY <3>3 DEF Req
    <3>4. ASSUME NEW o, Req("Cancel", o) = j PROVE CancelOwed(o)'
      <4> DEFINE a == [kind |-> j.kind, order |-> j.order, says |-> says]
      <4>1. a \in answers' /\ a.kind = "Cancel" /\ a.order = o
        BY <3>1, <3>3, <3>4
      <4> QED BY <4>1 DEF CancelOwed
    <3>5. ASSUME NEW o, CancelOwed(o), Req("Cancel", o) # j PROVE CancelOwed(o)'
      BY <1>1, <3>1, <3>2, <3>5 DEF CancelOwed
    <3> QED BY <3>4, <3>5
  <2> QED BY <2>1, <2>2 DEF Venue, VenueAnswers, Settles, OpenOrdersRead, Ends, OpenOrderLine, restVars
<1>3. ASSUME NEW m \in replies' \ replies, m.kind = "Cancel"
      PROVE  m.says \in {"gone", "ambiguous", "stillLive"}
  <2>1. PICK r \in wire : VenueAnswers(r)
    BY <1>3 DEF Venue, CallMade, OpenOrdersRead, Ends, OpenOrderLine, restVars
  <2>2. PICK outcome \in Outcomes(r.kind, venue[r.order]) : Settles(r, outcome)
    BY <2>1 DEF VenueAnswers
  <2>3. m = [kind |-> r.kind, order |-> r.order, says |-> outcome[2]]
    BY <1>3, <2>2 DEF Settles
  <2>4. r.kind = "Cancel" /\ m.says = outcome[2]
    BY <1>3, <2>3
  <2>5. CASE outcome = InFull(r.kind, venue[r.order])
    BY <2>4, <2>5 DEF InFull
  <2>6. ASSUME NEW says \in Verdicts, <<r.kind, says>> \in Refusals, outcome \in Refused(r.kind, venue[r.order], says)
        PROVE  m.says \in {"gone", "ambiguous", "stillLive"}
    <3>1. says = "stillLive"
      BY <2>4, <2>6, EdgeAssumption DEF Classified
    <3>2. outcome[2] = says
      BY <2>4, <2>6, <3>1 DEF Refused
    <3> QED BY <2>4, <3>1, <3>2
  <2> QED BY <2>2, <2>5, <2>6 DEF Outcomes
<1>4. Unlatched(core)' = Unlatched(core)
  BY <1>1 DEF Unlatched
<1> QED BY <1>1, <1>2, <1>3, <1>4, QuietKeepsLatches

-----------------------------------------------------------------------------
(***************************************************************************)
(* The theorems                                                            *)
(***************************************************************************)
\* Nothing is asked, told, mirrored or due before the first connection.
LEMMA InitIInv == Init => IInv
<1> SUFFICES ASSUME Init PROVE IInv
  OBVIOUS
<1>1. TypeOK
  BY DEF Init, TypeOK, InitCore, Core, Phases, None, Links, Passes, Fates
<1>2. FreshUnheard /\ GoneIsOver /\ PlacesUnborn /\ PassesInOrder
  BY DEF Init, InitCore, FreshUnheard, GoneIsOver, PlacesUnborn, PassesInOrder, Asked, Told
<1>3. QuotingIsVerified /\ NeverForgets /\ SettledIsEmpty /\ SweptIsSwept
  BY DEF Init, InitCore, QuotingIsVerified, NeverForgets, SettledIsEmpty, SweptIsSwept, MayRest
<1> QED BY <1>1, <1>2, <1>3 DEF IInv

\* Every step but an admitted placement keeps the invariant and what may rest.
LEMMA StepKeeps ==
  ASSUME Inputs, IInv, [Next]_vars, \A o \in Own : ~ PlaceAdmitted(o)
  PROVE  Keeps
<1>1. CASE Commanded
  BY <1>1, PlaceRefusedKeeps, AmendKeeps, CommandKeeps DEF Commanded
<1>2. CASE Connection
  BY <1>2, ConnectKeeps, LeaveKeeps, RetryPassKeeps, ExpireKeeps DEF Connection, Inputs
<1>3. CASE Folded
  BY <1>3, OnReplyKeeps, OnReportKeeps, OnAnswerKeeps, SnapshotKeeps DEF Folded
<1>4. CASE Exiting
  BY <1>4, SweepKeeps, LeaveKeeps, LatchKeeps DEF Exiting, Inputs
<1>5. CASE Venue
  BY <1>5, VenueAnswersKeeps, CallMadeKeeps, OpenOrdersReadKeeps, OrderSpeaksKeeps DEF Venue
<1>6. CASE UNCHANGED vars
  BY <1>6 DEF Keeps, vars, restVars, IInv, TypeOK, FreshUnheard, Asked, Told, GoneIsOver, Over, MayRest,
     PlacesUnborn, QuotingIsVerified, Verified, Serving, PassesInOrder, NeverForgets, SettledIsEmpty, SweptIsSwept
<1> QED BY <1>1, <1>2, <1>3, <1>4, <1>5, <1>6 DEF Next

\* Every step keeps the invariant.
LEMMA NextIInv ==
  ASSUME Inputs, IInv, [Next]_vars
  PROVE  IInv'
BY StepKeeps, PlaceKeeps DEF Keeps

\* The invariant holds of every behaviour with those inputs.
THEOREM Invariance == ASSUME Inputs PROVE Spec => []IInv
<1>1. IInv /\ [Next]_vars => IInv'
  BY NextIInv
<1> QED BY <1>1, InitIInv, PTL DEF Spec

\* Whatever lingers or is folded early, every variable keeps its type, and the
\* latches their orders.
THEOREM TypeCorrect == Spec => []TypeOK
<1>1. PInv => TypeOK
  BY DEF PInv
<1> QED BY <1>1, PriorsInvariant, PTL

\* Whatever lingers or is folded early, quoting is never open over a prior run's
\* order that rests (on_stream_ready, arm_readiness).
THEOREM QuotesOverNoPrior == Spec => []QuotesAlone
<1>1. PInv => QuotesAlone
  BY DEF PInv, PriorsKnown, Resting, QuotesAlone
<1> QED BY <1>1, PriorsInvariant, PTL

\* Whatever lingers, is folded early, fails or is refused with a code the table knows,
\* a latched cancel is never stranded (re_arm_cancel, probe_unresolved).
THEOREM LatchesAreOwed == ASSUME Classified PROVE Spec => []LatchIsOwed
<1>1. Init => LInv
  BY DEF Init, InitCore, LInv, Unlatched
<1>2. PInv /\ PInv' /\ LInv /\ [Next]_vars => LInv'
  <2> SUFFICES ASSUME PInv, PInv', LInv, [Next]_vars PROVE LInv'
    OBVIOUS
  <2>1. CASE Commanded
    BY <2>1, CommandsKeepLatches
  <2>2. CASE Connection
    BY <2>2, ConnectionKeepsLatches, ExpireKeepsLatches DEF Connection
  <2>3. CASE Folded
    BY <2>3, OnReplyKeepsLatches, OnReportKeepsLatches, OnAnswerKeepsLatches, SnapshotsKeepLatches DEF Folded
  <2>4. CASE Exiting
    BY <2>4, ConnectionKeepsLatches, SweepsKeepLatches DEF Exiting
  <2>5. CASE Venue
    BY <2>5, VenueKeepsLatches
  <2>6. CASE UNCHANGED vars
    BY <2>6, ConnectionKeepsLatches
  <2> QED BY <2>1, <2>2, <2>3, <2>4, <2>5, <2>6 DEF Next
<1>3. LInv => LatchIsOwed
  BY DEF LInv, LatchIsOwed, CancelOwed
<1> QED BY <1>1, <1>2, <1>3, PriorsInvariant, PTL DEF Spec

\* The mirror never forgets an order of this run that rests, or may come to
\* rest, at the venue: the exit sweep would still name it (mirror.rs, answer.rs).
THEOREM MirrorNeverForgets == ASSUME Inputs PROVE Spec => []NeverForgets
<1>1. IInv => NeverForgets
  BY DEF IInv
<1> QED BY <1>1, Invariance, PTL

\* A sweep that reports complete leaves nothing of this run at the venue
\* (sweep.rs, settle_if_swept).
THEOREM SweepIsComplete == ASSUME Inputs PROVE Spec => []SweepLeavesNothing
<1>1. IInv => SweepLeavesNothing
  BY DEF IInv, SweepLeavesNothing
<1> QED BY <1>1, Invariance, PTL

\* Quoting is open only over a stream that is up and a verified mirror
\* (on_connected, arm_readiness).
THEOREM QuotingOnlyVerified == ASSUME Inputs PROVE Spec => []QuotesVerified
<1>1. IInv => QuotesVerified
  BY DEF IInv, QuotingIsVerified, QuotesVerified, Verified
<1> QED BY <1>1, Invariance, PTL

\* A side's orders only grow by an admitted placement, which the mirror counts.
LEMMA SideLimitKeeps ==
  ASSUME Inputs, IInv, SideLimitHolds, [Next]_vars
  PROVE  SideLimitHolds'
<1> DEFINE May(o)  == {p \in Own \cap SameSide(o) : MayRest(p)}
           Then_(o) == {p \in Own \cap SameSide(o) : MayRest(p)'}
<1> SUFFICES ASSUME NEW o \in Own PROVE Cardinality(Then_(o)) <= SideLimit
  BY DEF SideLimitHolds, SameSide
<1>1. IsFiniteSet(May(o)) /\ May(o) \subseteq Order /\ IsFiniteSet(Order) /\ SideLimit \in Nat
  <2>1. May(o) \subseteq Order
    BY DEF Order
  <2> QED BY <2>1, FS_Subset, CoreAssumption
<1>2. Cardinality(May(o)) <= SideLimit
  BY DEF SideLimitHolds
<1>3. CASE \A p \in Own : ~ PlaceAdmitted(p)
  <2>1. Then_(o) \subseteq May(o)
    BY <1>3, StepKeeps DEF Keeps
  <2>2. Cardinality(Then_(o)) <= Cardinality(May(o)) /\ Cardinality(Then_(o)) \in Nat /\ Cardinality(May(o)) \in Nat
    BY <1>1, <2>1, FS_Subset, FS_CardinalityType
  <2> HIDE DEF May, Then_
  <2> QED BY <1>1, <1>2, <2>2
<1>4. ASSUME NEW n \in Own, PlaceAdmitted(n)
      PROVE  Cardinality(Then_(o)) <= SideLimit
  <2>1. \A p \in Own : MayRest(p)' => MayRest(p) \/ p = n
    BY <1>4 DEF PlaceAdmitted, Apply, Does, Dispatch, MayRest, Req
  <2>2. CASE n \notin SameSide(o)
    <3>1. Then_(o) \subseteq May(o)
      BY <2>1, <2>2
    <3>2. Cardinality(Then_(o)) <= Cardinality(May(o)) /\ Cardinality(Then_(o)) \in Nat /\ Cardinality(May(o)) \in Nat
      BY <1>1, <3>1, FS_Subset, FS_CardinalityType
    <3> HIDE DEF May, Then_
    <3> QED BY <1>1, <1>2, <3>2
  <2>3. CASE n \in SameSide(o)
    <3> DEFINE held == core.mirror \cap SameSide(n)
    <3>1. SameSide(o) = SameSide(n)
      BY <2>3 DEF SameSide, Order
    <3>2. Then_(o) \subseteq held \cup {n}
      BY <2>1, <3>1 DEF IInv, NeverForgets
    <3>3. IsFiniteSet(held) /\ IsFiniteSet(held \cup {n})
      <4>1. held \subseteq Order /\ n \in Order
        BY DEF IInv, TypeOK, Core, Order
      <4> QED BY <1>1, <4>1, FS_Subset, FS_AddElement
    <3>4. Cardinality(held) < SideLimit
      BY <1>4 DEF PlaceAdmitted, AdmitsPlace, SideCount
    <3> HIDE DEF held
    <3>5. Cardinality(held \cup {n}) <= Cardinality(held) + 1 /\ Cardinality(held) \in Nat
      BY <3>3, FS_AddElement, FS_CardinalityType
    <3>6. /\ Cardinality(Then_(o)) <= Cardinality(held \cup {n})
          /\ Cardinality(Then_(o)) \in Nat /\ Cardinality(held \cup {n}) \in Nat
      BY <3>2, <3>3, FS_Subset, FS_CardinalityType
    <3> HIDE DEF May, Then_
    <3> QED BY <1>1, <3>4, <3>5, <3>6
  <2> QED BY <2>2, <2>3
<1> QED BY <1>3, <1>4

\* At the venue no side ever holds, or may come to hold, more than its limit.
THEOREM SideLimitAtVenue == ASSUME Inputs PROVE Spec => []SideLimitHolds
<1>1. Init => SideLimitHolds
  <2> SUFFICES ASSUME Init, NEW o \in Own
               PROVE  Cardinality({p \in Own \cap SameSide(o) : MayRest(p)}) <= SideLimit
    BY DEF SideLimitHolds
  <2>1. {p \in Own \cap SameSide(o) : MayRest(p)} = {}
    BY DEF Init, MayRest
  <2> QED BY <2>1, FS_EmptySet, CoreAssumption
<1>2. IInv /\ SideLimitHolds /\ [Next]_vars => SideLimitHolds'
  BY SideLimitKeeps
<1> QED BY <1>1, <1>2, Invariance, PTL DEF Spec

\* Whatever lingers or is folded early: a placement whose hot slot still waits has
\* its request in flight (session.rs, flight).
THEOREM OwedInFlight == Spec => []OwedIsInFlight
<1>1. Init => OwedIsInFlight
  BY DEF Init, OwedIsInFlight
<1>2. ASSUME OwedIsInFlight, [Next]_vars
      PROVE  OwedIsInFlight'
  <2>1. ASSUME NEW o \in Own, PlaceAdmitted(o)
        PROVE  OwedIsInFlight'
    BY <1>2, <2>1 DEF PlaceAdmitted, Apply, Does, Dispatch, OwedIsInFlight
  <2>2. CASE Commanded /\ \A o \in Own : ~ PlaceAdmitted(o)
    <3>1. owed' = owed /\ inflight \subseteq inflight'
      BY <2>2 DEF Commanded, PlaceRefused, CancelCommand, AmendCommand, ReconcileOrderCommand,
         CancelOursCommand, CancelPriorCommand, Apply, Dispatch
    <3> QED BY <1>2, <3>1 DEF OwedIsInFlight
  <2>3. CASE Connect \/ Subscribed \/ RetryPass
    BY <1>2, <2>3 DEF Connect, Subscribed, RetryPass, OwedIsInFlight
  <2>4. ASSUME NEW r \in inflight, Expire(r)
        PROVE  OwedIsInFlight'
    <3>1. inflight \ {r} \subseteq inflight' /\ owed' \subseteq owed
          /\ (r.kind = "Place" => r.order \notin owed')
      BY <2>4 DEF Expire
    <3>2. ASSUME NEW o, Req("Place", o) = r
          PROVE  r.kind = "Place" /\ r.order = o
      BY <3>2 DEF Req
    <3> QED BY <1>2, <3>1, <3>2 DEF OwedIsInFlight
  <2>5. ASSUME NEW m \in replies, OnReply(m)
        PROVE  OwedIsInFlight'
    <3>1. inflight \ {Req(m.kind, m.order)} \subseteq inflight' /\ owed' \subseteq owed
          /\ (m.kind = "Place" => m.order \notin owed')
      BY <2>5 DEF OnReply
    <3> QED BY <1>2, <3>1 DEF OwedIsInFlight, Req
  <2>6. CASE Doom
    BY <1>2, <2>6 DEF Doom, OwedIsInFlight
  <2>7. CASE \/ \E m \in stream : OnReport(m)
             \/ \E a \in answers : OnAnswer(a)
             \/ PlanExit \/ SweepBlind \/ RetrySweep
    <3>1. owed' = owed /\ inflight \subseteq inflight'
      BY <2>7 DEF OnReport, OnAnswer, PlanExit, SweepBlind, OpenExit, RetrySweep, Apply, Dispatch
    <3> QED BY <1>2, <3>1 DEF OwedIsInFlight
  <2>8. CASE \E s \in snapshots : SnapshotFailed(s) \/ SnapshotBroken(s) \/ SnapshotFolded(s)
    <3>1. owed' = owed /\ inflight \subseteq inflight'
      BY <2>8 DEF SnapshotFailed, SnapshotBroken, SnapshotFolded, Apply, Dispatch
    <3> QED BY <1>2, <3>1 DEF OwedIsInFlight
  <2>9. CASE FinishOffline \/ Unpark \/ Resume \/ \E l \in Latches : Latch(l)
    BY <1>2, <2>9 DEF FinishOffline, Unpark, Resume, Latch, OwedIsInFlight
  <2>10. CASE Venue
    <3>1. owed' = owed /\ inflight' = inflight
      BY <2>10 DEF Venue, VenueAnswers, Settles, CallMade, OpenOrdersRead, Ends, OpenOrderLine
    <3> QED BY <1>2, <3>1 DEF OwedIsInFlight
  <2>11. CASE UNCHANGED vars
    BY <1>2, <2>11 DEF vars, OwedIsInFlight
  <2> QED BY <1>2, <2>1, <2>2, <2>3, <2>4, <2>5, <2>6, <2>7, <2>8, <2>9, <2>10, <2>11
          DEF Next, Connection, Folded, Exiting, LoseConnection, FinishServed
<1> QED BY <1>1, <1>2, PTL DEF Spec

=============================================================================
