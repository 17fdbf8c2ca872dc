------------------------------- MODULE MCHyp3 -------------------------------
(***************************************************************************)
(* Instances of Hyp3 for TLC: the engine called directly and by the         *)
(* executor.                                                               *)
(***************************************************************************)
EXTENDS Hyp3

AnyCaller == {"executor", "engine"}
Executor == {"executor"}
=============================================================================
