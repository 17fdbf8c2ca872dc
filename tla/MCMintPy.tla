------------------------------- MODULE MCMintPy -------------------------------
(***************************************************************************)
(* Instances of MintPy for TLC: two configurations, and runs of all stages, *)
(* from the second or the third one on, or with --force.                    *)
(***************************************************************************)
EXTENDS MintPy

CONSTANTS p1, p2    \* values of the timeseries section

Command(p, from, force) == [params |-> p, from |-> from, force |-> force]

TsLines == { Command(p1, 1, 4), Command(p2, 1, 4), Command(p2, 2, 4),
             Command(p1, 1, 2), Command(p1, 3, 4) }

PlainLines == { Command(p, 1, 4) : p \in {p1, p2} }
=============================================================================
