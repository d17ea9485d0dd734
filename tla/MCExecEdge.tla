------------------------------ MODULE MCExecEdge ------------------------------
(***************************************************************************)
(* Small instances of ExecEdge for TLC.                                    *)
(***************************************************************************)
EXTENDS ExecEdge, TLC

CONSTANTS o1, o2, p1

OneOwn   == {o1}
TwoOwn   == {o1, o2}
OnePrior == {p1}
Both     == {o1, o2, p1}

\* A placement may be turned away or in doubt, a cancel or a read put off.
Usual == {<<"Place", "gone">>, <<"Place", "ambiguous">>, <<"Cancel", "stillLive">>,
          <<"Status", "stillLive">>}

Alike == Permutations(Own) \cup Permutations(Prior)
=============================================================================
