------------------------------ MODULE MCEngines ------------------------------
(***************************************************************************)
(* Instances, for TLC, of engines that share no state: HyP3 in the cloud    *)
(* and ISCE2 topsStack.  A behaviour is one of one engine.                  *)
(***************************************************************************)
EXTENDS MCHyp3, MCTopsStack

VARIABLE engine    \* the engine of this behaviour

enginevars == <<engine, vars, topsvars>>

EnginesInit ==
    /\ engine \in {"hyp3", "tops"}
    /\ Init /\ TopsInit
    /\ engine = "hyp3" => gen = CHOOSE l \in Looks : TRUE
    /\ engine = "tops" => caller = CHOOSE c \in Callers : TRUE

EnginesNext ==
    /\ UNCHANGED engine
    /\ \/ engine = "hyp3" /\ Next /\ UNCHANGED topsvars
       \/ engine = "tops" /\ TopsNext /\ UNCHANGED vars

\* Each engine with the fairness of its own specification.
EnginesSpec ==
    /\ EnginesInit
    /\ [][EnginesNext]_enginevars
    /\ WF_vars(engine = "hyp3" /\ Step)
    /\ WF_topsvars(engine = "tops" /\ TopsStep)

\* A run of an engine ends, whatever fails and dies, and even if the cloud
\* service never completes a job (_poll and its time limit; run_steps).
EveryRunEnds ==
    (phase # "idle" \/ pc \notin Rest) ~> (phase = "idle" /\ pc \in Rest)

EnginesTypeOK == Hyp3TypeOK /\ TopsTypeOK
=============================================================================
