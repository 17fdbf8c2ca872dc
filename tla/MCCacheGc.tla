----------------------------- MODULE MCCacheGc -----------------------------
(***************************************************************************)
(* Instances of CacheGc for TLC: gc next to a run, from an empty work       *)
(* directory; and gc alone, from every small work directory.                *)
(***************************************************************************)
EXTENDS CacheGc

CONSTANTS d1, d2, d3

Line(d, force) == [data |-> d, force |-> force, start |-> 1]

\* Every date set is a result of its own in a stage that is not incremental;
\* the last of them is also computed again.
Variants == { Line(d, Depth + 1) : d \in Data } \union { Line(d2, 1) }

NoStage == 1 .. 0
OneStage == 1 .. 1

Policy(k, b) == [keep |-> k, budget |-> b]

Budgets == { Policy(0, NoBudget), Policy(0, 2), Policy(1, 1) }

NoBudgets == { Policy(0, NoBudget) }

-----------------------------------------------------------------------------
\* What the runs of the past may have left in a node directory: an `ok`
\* manifest with or without its outputs (a run died between deleting out/ and
\* writing its manifest), a failed one, outputs and no manifest, nothing.
Remains ==
    { [st |-> "ok", at |-> t, whole |-> w] : t \in 1 .. MaxClock, w \in BOOLEAN }
        \union { [st |-> "failed", at |-> t, whole |-> FALSE] : t \in {1, MaxClock} }
        \union { [st |-> st, at |-> 0, whole |-> FALSE] : st \in {"none", "absent"} }

\* Three results of the first stage, one of the second, which is whole if there.
Present ==
    { n \in Node : \/ n.stage = 1 /\ n.data \in Data
                   \/ n.stage = 2 /\ n.in = 1 }

\* The node that r is executing, if it is.
Executing == [stage |-> 1, data |-> d1, in |-> 0]

Is(left, n, st) == n \in Present /\ left[n].st = st

\* Nobody runs, or r is executing one of the first stage's nodes.
DiskIs(left, busy, r) ==
    /\ \A n \in Present : n.stage = 2 => left[n].st = "absent" \/ left[n].whole
    /\ \A m, n \in Present :
          m # n /\ Is(left, m, "ok") /\ Is(left, n, "ok") => left[m].at # left[n].at
    /\ busy => Is(left, Executing, "failed")
    /\ man = [n \in Node |->
                IF Is(left, n, "ok") \/ Is(left, n, "failed")
                THEN [NoManifest EXCEPT
                        !.st = IF busy /\ n = Executing THEN "running" ELSE left[n].st,
                        !.at = left[n].at,
                        !.out = IF Is(left, n, "ok") THEN left[n].at ELSE 0]
                ELSE NoManifest]
    /\ out = [n \in Node |-> IF Is(left, n, "ok") /\ left[n].whole THEN left[n].at ELSE 0]
    /\ dir = { n \in Present : left[n].st # "absent" }
    /\ lock = [n \in Node |-> IF busy /\ n = Executing THEN r ELSE Free]
    /\ pc = [q \in Runs |-> IF busy /\ q = r THEN "engine" ELSE "idle"]
    /\ node = [q \in Runs |-> IF busy /\ q = r THEN Executing ELSE NoNode]
    /\ req = [q \in Runs |-> IF busy /\ q = r THEN Line(d1, Depth + 1) ELSE NoRequest]

DiskInit ==
    /\ \E left \in [Present -> Remains], busy \in BOOLEAN, r \in Runs : DiskIs(left, busy, r)
    /\ clock = MaxClock
    /\ prov = [t \in 1 .. MaxClock |-> NoProv]
    /\ at = [q \in Runs |-> 1]
    /\ prev = [q \in Runs |-> NoNode]
    /\ have = [q \in Runs |-> 0]
    /\ read = [q \in Runs |-> Unread]
    /\ made = [q \in Runs |-> 0]
    /\ fall = [q \in Runs |-> NoFall]
    /\ used = [q \in Runs |-> NoUse]
    /\ GcIdle

DiskSpec == DiskInit /\ [][Gc]_allvars
=============================================================================
