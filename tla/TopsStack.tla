------------------------------ MODULE TopsStack ------------------------------
(***************************************************************************)
(* The ISCE2 topsStack engine: `wintersar run`, one after another, on one   *)
(* topsStack work directory.                                                *)
(*                                                                         *)
(* That directory is chosen by what determines the geometry and outlives    *)
(* the node directories of the cache (ADR-0029): runs that differ in their  *)
(* dates or looks have other nodes and the same work directory.  The        *)
(* coregister stage has stackSentinel.py write the run files when they are  *)
(* missing or dates are new, and runs their first steps; the interferogram  *)
(* stage runs the rest and reports every pair it finds.                     *)
(*                                                                         *)
(* Source: engines/isce2_topsstack.py, with RunFiles for run_steps.         *)
(* stackSentinel.py is external and modelled by what ADR-0029 verified.     *)
(***************************************************************************)
EXTENDS RunFiles

CONSTANTS
    Requests,   \* configurations that runs are started with
    Reprocess,  \* coregistered dates that an update processes again
    MaxTopsRuns     \* bound: number of runs

ASSUME RequestsAssumption ==
    Requests \subseteq [dates : SUBSET Dates \ {{}}, looks : Looks, regen : BOOLEAN]
ASSUME TopsBoundAssumption == Reprocess \in Nat /\ MaxTopsRuns \in Nat

NoRequest == [dates |-> {}, looks |-> None, regen |-> FALSE]

VARIABLES
    dir,     \* run_files/ exists
    coregs,  \* dates of the coregister node of each looks, {} unless it is ok
    pc,      \* where the run is
    req,     \* its configuration
    topsRuns \* runs so far

stack == <<dir, coregs>>
topsvars == <<files, gen, completed, made, stepPhase, stepsLeft, job, tries, doomed,
              dir, coregs, pc, req, topsRuns>>

\* No run, or one that failed; one that finished.
Rest == {"idle", "ok"}

Stage == Rest \union {"coreg", "archived", "sentinel", "window", "coregjobs",
                      "igram", "igramjobs"}

TopsInit ==
    /\ InitRunFiles
    /\ dir = FALSE
    /\ coregs = [l \in Looks |-> {}]
    /\ pc = "idle"
    /\ req = NoRequest
    /\ topsRuns = 0

TopsBegin ==
    /\ pc \in Rest /\ topsRuns < MaxTopsRuns
    /\ req' \in Requests
    /\ topsRuns' = topsRuns + 1
    /\ pc' = "coreg"
    /\ UNCHANGED <<rfdisk, pool, stack>>

-----------------------------------------------------------------------------
\* Dates that have a directory under coreg_secondarys/, whole or not.
KnownDates == { d \in Dates : made[Coreg][d] # None }

NewDates == req.dates \ KnownDates

UpdateMode == KnownDates # {}

Regenerate == req.regen \/ ~dir \/ (UpdateMode /\ NewDates # {})

\* The executor empties the node's out/ before the engine runs.
Fails == pc' = "idle" /\ UNCHANGED <<req, topsRuns>>

\* The coregister node of these looks is ok and fresh: the engine is not run.
CoregServed ==
    /\ pc = "coreg" /\ coregs[req.looks] = req.dates
    /\ pc' = "igram"
    /\ UNCHANGED <<rfdisk, pool, stack, req, topsRuns>>

Continue ==
    /\ pc = "coreg" /\ ~Regenerate
    /\ coregs' = [coregs EXCEPT ![req.looks] = {}]
    /\ pc' = "window"
    /\ UNCHANGED <<rfdisk, pool, dir, req, topsRuns>>

\* run_files/ and configs/ are renamed.
Archive ==
    /\ pc = "coreg" /\ Regenerate
    /\ coregs' = [coregs EXCEPT ![req.looks] = {}]
    /\ dir' = FALSE
    /\ files' = [s \in Steps |-> {}]
    /\ pc' = "archived"
    /\ UNCHANGED <<gen, completed, made, pool, req, topsRuns>>

\* save_state(workdir, {"completed": []}).
ResetState ==
    /\ pc = "archived"
    /\ completed' = {}
    /\ pc' = "sentinel"
    /\ UNCHANGED <<files, gen, made, pool, stack, req, topsRuns>>

\* The newest k of a set of dates.
Newest(k, S) == { d \in S : Cardinality({ e \in S : e > d }) < k }

\* The dates that stackSentinel.py writes jobs for: all of them, or in
\* update mode the new ones and the newest coregistered ones.
Processed == IF UpdateMode THEN NewDates \union Newest(Reprocess, KnownDates \cap req.dates)
             ELSE req.dates

\* In update mode stackSentinel.py exits if there is no new date.
Refused == UpdateMode /\ NewDates = {}

Sentinel ==
    /\ pc = "sentinel" /\ ~Refused
    /\ dir' = TRUE
    /\ files' = [s \in Steps |-> Processed]
    /\ gen' = req.looks
    /\ pc' = "window"
    /\ UNCHANGED <<completed, made, pool, coregs, req, topsRuns>>

SentinelRefuses ==
    /\ pc = "sentinel" /\ Refused
    /\ Fails
    /\ UNCHANGED <<rfdisk, pool, stack>>

\* stackSentinel.py, or the process, dies between two run files.
SentinelDies ==
    /\ pc = "sentinel" /\ ~Refused
    /\ dir' = TRUE
    /\ \E n \in Steps \union {0} :
         files' = [s \in Steps |-> IF s <= n THEN Processed ELSE {}]
    /\ gen' = req.looks
    /\ Fails
    /\ UNCHANGED <<completed, made, pool, coregs>>

-----------------------------------------------------------------------------
Listed == { s \in Steps : files[s] # {} }

\* _run_window: a step that is not listed stands for the end of the list.
Window(start, until) ==
    { s \in Listed : /\ start \in Listed => start <= s
                     /\ until \in Listed => s <= until }

CoregSteps ==
    /\ pc = "window"
    /\ RunSteps(Window(Coreg, Coreg))
    /\ pc' = "coregjobs"
    /\ UNCHANGED <<stack, req, topsRuns>>

\* The coregister manifest is written; the executor records the node as ok.
CoregOk ==
    /\ pc = "coregjobs" /\ stepPhase = "done"
    /\ Return
    /\ coregs' = [coregs EXCEPT ![req.looks] = req.dates]
    /\ pc' = "igram"
    /\ UNCHANGED <<rfdisk, dir, req, topsRuns>>

IgramSteps ==
    /\ pc = "igram" /\ dir
    /\ RunSteps(Window(Burst, Filter))
    /\ pc' = "igramjobs"
    /\ UNCHANGED <<stack, req, topsRuns>>

\* ISCE2-003.
NoRunFiles ==
    /\ pc = "igram" /\ ~dir
    /\ Fails
    /\ UNCHANGED <<rfdisk, pool, stack>>

\* merged_pairs: the pairs that have a directory under merged/.
MergedPairs == { d \in Dates : made[Merge][d] # None }

\* Every one of them has a coherence file.
PairsUsable ==
    MergedPairs # {} /\ \A d \in MergedPairs : made[Filter][d] # None

IgramOk ==
    /\ pc = "igramjobs" /\ stepPhase = "done" /\ PairsUsable
    /\ Return
    /\ pc' = "ok"
    /\ UNCHANGED <<rfdisk, stack, req, topsRuns>>

\* ISCE2-009.
IgramMissing ==
    /\ pc = "igramjobs" /\ stepPhase = "done" /\ ~PairsUsable
    /\ Return /\ Fails
    /\ UNCHANGED <<rfdisk, stack>>

\* ISCE2-001, in either stage.
StepsFailed ==
    /\ stepPhase = "broken"
    /\ Return /\ Fails
    /\ UNCHANGED <<rfdisk, stack>>

StepJobs ==
    /\ RunFilesStep
    /\ UNCHANGED <<stack, pc, req, topsRuns>>

\* The run and its jobs are killed.  runfiles_state.json is written in place;
\* what cannot be parsed counts as empty.
Crash ==
    /\ pc \notin Rest
    /\ Return /\ Fails
    /\ completed' \in IF stepPhase = "record" THEN {completed, {}} ELSE {completed}
    /\ UNCHANGED <<files, gen, made, stack>>

\* ISCE2-001: "to start the step over, delete that entry".
Reopen(s) ==
    /\ pc \in Rest /\ s \in completed
    /\ completed' = completed \ {s}
    /\ pc' = "idle"
    /\ UNCHANGED <<files, gen, made, pool, stack, req, topsRuns>>

-----------------------------------------------------------------------------
TopsStep ==
    \/ CoregServed \/ Continue \/ Archive \/ ResetState
    \/ Sentinel \/ SentinelRefuses \/ SentinelDies
    \/ CoregSteps \/ CoregOk \/ IgramSteps \/ NoRunFiles \/ StepJobs
    \/ IgramOk \/ IgramMissing \/ StepsFailed

TopsNext == TopsBegin \/ TopsStep \/ Crash \/ \E s \in Steps : Reopen(s)

TopsSpec == TopsInit /\ [][TopsNext]_topsvars

TopsFairSpec == TopsSpec /\ WF_topsvars(TopsStep)

-----------------------------------------------------------------------------
\* Every variable stays in its range, no job is tried more often than the
\* retries allow, and a run that is not in run_steps has no jobs.
TopsTypeOK ==
    /\ files \in [Steps -> SUBSET Dates]
    /\ gen \in Looks
    /\ completed \subseteq Steps
    /\ made \in [Steps -> [Dates -> Product]]
    /\ stepPhase \in Phases
    /\ stepsLeft \subseteq Steps
    /\ job \in [Dates -> JobState]
    /\ tries \in [Dates -> 0 .. Retries + 1]
    /\ doomed \subseteq Dates
    /\ dir \in BOOLEAN
    /\ coregs \in [Looks -> SUBSET Dates]
    /\ pc \in Stage
    /\ req \in Requests \union {NoRequest}
    /\ topsRuns \in 0 .. MaxTopsRuns
    /\ stepPhase # "out" <=> pc \in {"coregjobs", "igramjobs"}

\* runfiles_state.json tells the truth, whatever was killed or regenerated:
\* a step that is recorded as completed has all products that its run file
\* asks for, made with the configs that are there, and no part of one; only
\* burst interferograms may be gone or deleted in part, and then there is a
\* merged one (which a step that is done again may be writing).
CompletedTrue ==
    \A s \in completed : \A d \in files[s] :
        \/ made[s][d] = gen
        \/ s = Burst /\ made[s][d] \in {None, Part} /\ made[Merge][d] # None

\* A run that reports interferograms has every one that the run files list,
\* whole and filtered, of the looks in the configs.
OkIsListed ==
    pc = "ok" => \A s \in {Merge, Filter} : \A d \in files[s] : made[s][d] = gen

\* The record of steps and the answer of a run agree with the products, across
\* deaths, new dates and regenerated run files.
RecordIsTrue == CompletedTrue /\ OkIsListed

\* The pool: a step has never more jobs that started and did not succeed than
\* its cap, so a step that fails does not work its way through its run file.
FailureStops ==
    stepPhase = "jobs" =>
        Cardinality({ d \in Dates : job[d] \in {"running", "good", "bad", "failed"} })
            <= Cap[Current]

\* Steps are in order across calls, failures and deaths: a filter job runs
\* on a merged interferogram that is whole.
FilterReadsMerged ==
    stepPhase = "jobs" /\ Current = Filter =>
        \A d \in SubmittedJobs : made[Merge][d] \in Looks

\* A step that fails stops itself and the steps after it.
FailureIsContained == FailureStops /\ FilterReadsMerged

\* What is recorded as completed is not done again: as long as the record
\* stands, no step touches its products but the cleanup after the merge, which
\* takes a burst interferogram, or a part of it, only while the merged one of
\* the same configs is whole and no VRT over it.
CompletedIsKept ==
    [][\A s \in completed \cap completed' : \A d \in files[s] \cap files'[s] :
         made'[s][d] # made[s][d] =>
            /\ s = Burst /\ made'[s][d] \in {None, Part}
            /\ made[Merge][d] = gen /\ gen \notin Virtual]_topsvars

\* ADR-0029 (decision 1): a work directory shared by all looks "does not
\* conflict with the upstream cache on re-runs".  So a run that reports
\* interferograms of some looks has interferograms of these looks.
ReportedLooks ==
    pc = "ok" => \A d \in MergedPairs : made[Merge][d] = req.looks

\* ISCE2-001: re-running the same command resumes at the step that failed,
\* and its entry may be deleted to start it over.  So a job that is started
\* finds what it reads (cleanup_targets: only "what [...] is not read again"
\* is deleted).
JobsFindInputs ==
    stepPhase = "jobs" => \A d \in SubmittedJobs : InputsPresent(Current, d)
=============================================================================
