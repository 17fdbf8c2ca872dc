---------------------------- MODULE MCDockPanels ----------------------------
(***************************************************************************)
(* Instances of DockPanels for TLC.                                         *)
(***************************************************************************)
EXTENDS DockPanels

CONSTANTS pointA, pointB    \* points, and sites

SomeChoices == { [exe |-> TRUE, hint |-> "none"], [exe |-> FALSE, hint |-> "bad"] }

SomeWorkdirs == [p \in Projects |-> IF p = "a" THEN "./work" ELSE "absolute"]

SomePoints == { << >>, <<pointA, pointB>> }
=============================================================================
