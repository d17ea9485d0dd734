----------------------------- MODULE MCRunControl -----------------------------
(***************************************************************************)
(* Small instances of RunControl for TLC.  Boot stamps are microseconds:   *)
(* those of two tabs lie further apart than any count of presses.          *)
(***************************************************************************)
EXTENDS RunControl

CONSTANTS older, newer

OneTab  == {older}
TwoTabs == {older, newer}
Boots   == [t \in Tabs |-> IF t = older THEN 10 ELSE 20]
=============================================================================
