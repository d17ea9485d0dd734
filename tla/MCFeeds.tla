-------------------------------- MODULE MCFeeds --------------------------------
(***************************************************************************)
(* Small instances of the feeds: DepthSequencer makes the depth feed,      *)
(* ExchangeSim listens to it, and SequenceGate is what a link puts before  *)
(* any other.  They share no state: a behaviour is of one of them, as      *)
(* `instance` says, and leaves the others where they start.                *)
(***************************************************************************)
EXTENDS DepthSequencer, SequenceGate, TLC

CONSTANTS
  near, far, order, here, there, elsewhere,
  Own, Prior, Buys, SideLimit, Fates, Entry, Ack,     \* as in ExchangeSim
  MaxMark, MaxFlips, MaxCommands, MaxEvents

VARIABLES sim, end, instance

TwoLevels == {near, far}
Alike     == Permutations(TwoLevels)

Simulator == INSTANCE ExchangeSim

ASSUME GateAssumption == GateDeclared

simVars == <<sim, end>>

FeedsInit ==
  /\ Init /\ Simulator!Init /\ GateInit
  /\ \/ instance = "depth" /\ ~ sim.isParked
     \/ instance = "simulator" /\ rule = "Spot"
     \/ instance = "gate" /\ rule = "Spot" /\ ~ sim.isParked

FeedsNext ==
  \/ instance = "depth" /\ Next /\ UNCHANGED <<simVars, gateVars, instance>>
  \/ instance = "simulator" /\ Simulator!Next /\ UNCHANGED <<vars, gateVars, instance>>
  \/ instance = "gate" /\ GateNext /\ UNCHANGED <<vars, simVars, instance>>

FeedsSpec == FeedsInit /\ [][FeedsNext]_<<vars, simVars, gateVars, instance>>

\* The simulator's properties: what its schedule says of an order is a legal life of
\* it, its core knows of every order open at the venue, and a settled end is one.
SpeaksInOrder     == Simulator!SpeaksInOrder
EdgeMatchesVenue  == Simulator!EdgeMatchesVenue
SettledIsResolved == Simulator!SettledIsResolved
=============================================================================
