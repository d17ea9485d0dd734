---------------------------- MODULE MCOrderBudget ----------------------------
(***************************************************************************)
(* A small instance of OrderEngine beside one of the meter it asks for     *)
(* room.  Each takes whatever the other may do as an input, the engine its *)
(* `Rooms` and the meter the placements, so they need not move together: a *)
(* behaviour is of the one or of the other, as `instance` says, and leaves *)
(* the other where it starts.                                              *)
(***************************************************************************)
EXTENDS MCOrderEngine, BudgetMeter

CONSTANTS second, minute

VARIABLE instance

Lengths == [w \in Windows |-> IF w = second THEN 4 ELSE 8]
Two     == [w \in Windows |-> 2]

ASSUME MeterAssumption == BudgetDeclared

BudgetInit == Init /\ MeterInit /\ instance \in {"engine", "meter"}

BudgetNext ==
  \/ instance = "engine" /\ Next /\ UNCHANGED <<meterVars, instance>>
  \/ instance = "meter" /\ MeterNext /\ UNCHANGED <<vars, instance>>

BudgetSpec == BudgetInit /\ [][BudgetNext]_<<vars, meterVars, instance>>
=============================================================================
