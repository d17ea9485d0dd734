--------------------------- MODULE MCOrderEngine ---------------------------
(***************************************************************************)
(* Small instances of OrderEngine.                                         *)
(***************************************************************************)
EXTENDS OrderEngine

Want(moved, qty) == [quote |-> TRUE, ok |-> TRUE, moved |-> moved, qty |-> qty]

OneWant   == {Want(FALSE, 1)}
Verdicts  == {Want(FALSE, 1), Want(TRUE, 1), [Want(FALSE, 1) EXCEPT !.ok = FALSE]}
Sizes     == {Want(FALSE, qty) : qty \in 1 .. 2}
BuySide   == {Buy}
BothSides == Sides
=============================================================================
