----------------------------- MODULE MCRunCache -----------------------------
(***************************************************************************)
(* Instances of RunCache for TLC: which command lines the runs are started  *)
(* with, and the symmetry of the runs.                                      *)
(***************************************************************************)
EXTENDS RunLedger, TLC

CONSTANTS d1, d2

Line(d, force, start) == [data |-> d, force |-> force, start |-> start]

\* `wintersar run`, and nothing else.
PlainRequests == { Line(d1, Depth + 1, 1) }

\* A plain run, one with `--from` the last stage, and one for another date
\* set with `--force` of the first stage.
MixedRequests ==
    { Line(d1, Depth + 1, 1), Line(d1, Depth + 1, Depth), Line(d2, 1, 1) }

OneStage == 1 .. 1
TwoStages == 1 .. 2

RunSymmetry == Permutations(Runs)
=============================================================================
