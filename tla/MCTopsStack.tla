----------------------------- MODULE MCTopsStack -----------------------------
(***************************************************************************)
(* Instances of TopsStack for TLC: the configurations that runs are started *)
(* with.                                                                    *)
(***************************************************************************)
EXTENDS TopsStack

Config(D, l, regen) == [dates |-> D, looks |-> l, regen |-> regen]

\* Dates are coregistered together, the other steps take one job at a time.
Caps == [s \in Steps |-> IF s = Coreg THEN 2 ELSE 1]

\* Two looks for the same dates.
TwoLooks == { Config(Dates, l, FALSE) : l \in Looks }

\* One date; all dates with other looks, as usual and with the run files
\* generated again.
Growing ==
    LET first == { Min(Dates) }
        some == CHOOSE l \in Looks : TRUE
        other == CHOOSE l \in Looks : l # some
    IN  { Config(first, some, FALSE),
          Config(Dates, other, FALSE), Config(Dates, other, TRUE) }
=============================================================================
