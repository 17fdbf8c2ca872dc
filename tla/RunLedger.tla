------------------------------ MODULE RunLedger ------------------------------
(***************************************************************************)
(* The runs of RunCache implement ResultLedger: the refinement mapping.     *)
(*                                                                         *)
(* A token is a version, and is kept as long as the directory that it was   *)
(* produced in holds it.  Looking results up, locking, waiting and writing  *)
(* manifests are invisible; PrepareNodeDir loses a version, EngineReturns   *)
(* produces one, and the step that serves the last stage is the report.     *)
(***************************************************************************)
EXTENDS RunCache

JobOf(p) == IF p = "idle" THEN "idle" ELSE IF p = "ok" THEN "done" ELSE "working"

LedgerVersion ==
    [t \in 1 .. MaxClock |-> [stage |-> prov[t].node.stage, data |-> prov[t].data,
                              read |-> prov[t].read]]
LedgerKept == { t \in 1 .. MaxClock : Current(t) }
LedgerJob == [r \in Runs |-> JobOf(pc[r])]
LedgerAsked == [r \in Runs |-> [data |-> req[r].data, start |-> req[r].start]]
LedgerReport == [r \in Runs |-> IF pc[r] = "ok" THEN used[r] ELSE NoUse]

Ledger == INSTANCE ResultLedger WITH
    version <- LedgerVersion, count <- clock, kept <- LedgerKept,
    job <- LedgerJob, asked <- LedgerAsked, report <- LedgerReport

\* Every behaviour of the runs on their shared directories is one of a ledger
\* of versions: results are produced by runs at work only, never change, never
\* come back once overwritten, and a run reports, in one step, versions that
\* belong together (the executor, the cache and the incremental rules).
ImplementsLedger == Ledger!LedgerSpec
=============================================================================
