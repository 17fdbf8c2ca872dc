------------------------------- MODULE RunFiles -------------------------------
(***************************************************************************)
(* The executor of topsStack run files.                                     *)
(*                                                                         *)
(* A topsStack work directory holds run_files/run_NN_<step>, one shell      *)
(* command per line.  run_steps takes the steps in order and runs the jobs  *)
(* of one step in a thread pool, with retries; after each step it deletes   *)
(* what no later step reads and records the step in runfiles_state.json, so *)
(* that the next call leaves it out.                                        *)
(*                                                                         *)
(* Source: engines/runfiles.py.  Four steps stand for the workflow's        *)
(* sixteen, one for each kind of product: coregistered dates, burst         *)
(* interferograms, merged and filtered ones.  A job is named by its date;   *)
(* the pair of date d is d with the date before it.  The actions that begin *)
(* and end a call are in TopsStack.                                         *)
(***************************************************************************)
EXTENDS Integers, FiniteSets, FiniteSetsExt

CONSTANTS
    Dates,    \* the secondary dates, as numbers: jobs are listed in their order
    Looks,    \* multilook settings that a configuration can ask for
    Virtual,  \* those (1x1) of which the merged product is a VRT over the bursts
    Cap,      \* parallel_cap: how many jobs of each step run at the same time
    Retries,  \* extra attempts of a job
    None,     \* a product that does not exist
    Part      \* one that a job began to write, or that is deleted in part

ASSUME DatesAssumption == Dates \subseteq Nat /\ IsFiniteSet(Dates)
ASSUME ProductAssumption == None # Part /\ {None, Part} \cap Looks = {}
ASSUME VirtualAssumption == Virtual \subseteq Looks

\* The steps: coreg_secondarys/<date>, interferograms/<pair>,
\* merged/interferograms/<pair>/fine.int and .../filt_fine.cor.
Coreg == 1
Burst == 2
Merge == 3
Filter == 4
Steps == Coreg .. Filter

ASSUME PoolAssumption == Cap \in [Steps -> Nat \ {0}] /\ Retries \in Nat

\* A product carries the looks of the configuration it was made with, once
\* the command that makes it has exited with 0.
Product == {None, Part} \union Looks

\* A job of the current step: not part of it, pending, in a thread, its
\* future done with either result, its result taken by the main thread.
JobState == {"none", "pending", "running", "good", "bad", "ok", "failed"}

Phases == {"out", "next", "jobs", "clean", "record", "done", "broken"}

VARIABLES
    files,      \* the jobs in each step's run file; {} when there is no file
    gen,        \* the looks in the configs that the run files refer to
    completed,  \* runfiles_state.json: the steps recorded as completed
    made,       \* the product of every job, on disk
    stepPhase,  \* where run_steps is; "out" outside a call
    stepsLeft,  \* the steps that this call still has to run
    job,        \* state of the current step's jobs
    tries,      \* attempts of the current step's jobs
    doomed      \* burst interferograms that the cleanup still has to delete

rfdisk == <<files, gen, completed, made>>
pool == <<stepPhase, stepsLeft, job, tries, doomed>>

-----------------------------------------------------------------------------
Current == Min(stepsLeft)

In(state) == { d \in Dates : job[d] = state }

\* Futures that the main thread waits for.
SubmittedJobs == In("running") \union In("good") \union In("bad")

\* stop is set.
Stopped == In("failed") # {}

\* What a job reads: the coregistered dates of its pair, its burst
\* interferogram, its merged one.
Before(d) == { e \in Dates : e < d /\ \A f \in Dates : ~(e < f /\ f < d) }

Inputs(s, d) ==
    CASE s = Coreg  -> {}
      [] s = Burst  -> { made[Coreg][e] : e \in {d} \union Before(d) }
      [] s = Merge  -> { made[Burst][d] }
      [] s = Filter -> { made[Merge][d] }

InputsPresent(s, d) == None \notin Inputs(s, d)

InitRunFiles ==
    /\ files = [s \in Steps |-> {}]
    /\ gen \in Looks
    /\ completed = {}
    /\ made = [s \in Steps |-> [d \in Dates |-> None]]
    /\ stepPhase = "out"
    /\ stepsLeft = {}
    /\ job = [d \in Dates |-> "none"]
    /\ tries = [d \in Dates |-> 0]
    /\ doomed = {}

\* FAULT: completed steps are run again.
PendingAll(wanted) == wanted

\* pending_steps.
PendingSteps(wanted) == wanted \ completed

\* run_steps is called.
RunSteps(wanted) ==
    /\ stepPhase' = "next"
    /\ stepsLeft' = PendingSteps(wanted)
    /\ UNCHANGED <<rfdisk, job, tries, doomed>>

\* FAULT: a step is recorded when it begins.
StepBeginsRecorded ==
    /\ stepPhase = "next" /\ stepsLeft # {}
    /\ stepPhase' = "jobs"
    /\ job' = [d \in Dates |-> IF d \in files[Current] THEN "pending" ELSE "none"]
    /\ tries' = [d \in Dates |-> 0]
    /\ completed' = completed \union {Current}
    /\ UNCHANGED <<files, gen, made, stepsLeft, doomed>>

StepBegins ==
    /\ stepPhase = "next" /\ stepsLeft # {}
    /\ stepPhase' = "jobs"
    /\ job' = [d \in Dates |-> IF d \in files[Current] THEN "pending" ELSE "none"]
    /\ tries' = [d \in Dates |-> 0]
    /\ UNCHANGED <<rfdisk, stepsLeft, doomed>>

\* run_steps returns after the last step.
StepsDone ==
    /\ stepPhase = "next" /\ stepsLeft = {}
    /\ stepPhase' = "done"
    /\ UNCHANGED <<rfdisk, stepsLeft, job, tries, doomed>>

CanSubmit ==
    /\ stepPhase = "jobs" /\ ~Stopped
    /\ In("pending") # {} /\ Cardinality(SubmittedJobs) < Cap[Current]

\* FAULT: the pool is filled without counting what is in it.
SubmitUncounted ==
    /\ stepPhase = "jobs" /\ ~Stopped /\ In("pending") # {}
    /\ LET d == Min(In("pending")) IN
        /\ job' = [job EXCEPT ![d] = "running"]
        /\ tries' = [tries EXCEPT ![d] = 1]
        /\ made' = [made EXCEPT ![Current][d] = Part]
    /\ UNCHANGED <<files, gen, completed, stepPhase, stepsLeft, doomed>>

\* pool.submit of the first pending job, which begins to write, or will.
SubmitJob ==
    /\ CanSubmit
    /\ LET d == Min(In("pending")) IN
        /\ job' = [job EXCEPT ![d] = "running"]
        /\ tries' = [tries EXCEPT ![d] = 1]
        /\ \E p \in {Part, made[Current][d]} :
              made' = [made EXCEPT ![Current][d] = p]
    /\ UNCHANGED <<files, gen, completed, stepPhase, stepsLeft, doomed>>

\* Exit code 0.  A job cannot succeed without its inputs; on a part of one
\* it may.
JobSucceeds(d) ==
    /\ stepPhase = "jobs" /\ job[d] = "running" /\ InputsPresent(Current, d)
    /\ job' = [job EXCEPT ![d] = "good"]
    /\ made' = [made EXCEPT ![Current][d] = gen]
    /\ UNCHANGED <<files, gen, completed, stepPhase, stepsLeft, tries, doomed>>

\* A non-zero exit code, a time-out: another attempt, or the job has failed.
JobFails(d) ==
    /\ stepPhase = "jobs" /\ job[d] = "running"
    /\ IF tries[d] <= Retries
       THEN /\ tries' = [tries EXCEPT ![d] = @ + 1]
            /\ UNCHANGED job
       ELSE /\ job' = [job EXCEPT ![d] = "bad"]
            /\ UNCHANGED tries
    /\ UNCHANGED <<rfdisk, stepPhase, stepsLeft, doomed>>

\* The thread raises (its log cannot be written): no other attempt.
JobRaises(d) ==
    /\ stepPhase = "jobs" /\ job[d] = "running"
    /\ job' = [job EXCEPT ![d] = "bad"]
    /\ UNCHANGED <<rfdisk, stepPhase, stepsLeft, tries, doomed>>

\* What becomes of a job when the finished futures are taken: after a
\* failure nothing is pending any more.
Taken(state) ==
    CASE state = "good" -> "ok"
      [] state = "bad" -> "failed"
      [] state = "pending" /\ In("bad") # {} -> "none"
      [] OTHER -> state

\* wait() returns.
Collect ==
    /\ stepPhase = "jobs" /\ ~CanSubmit
    /\ In("good") \union In("bad") # {}
    /\ job' = [d \in Dates |-> Taken(job[d])]
    /\ UNCHANGED <<rfdisk, stepPhase, stepsLeft, tries, doomed>>

StepOver == stepPhase = "jobs" /\ SubmittedJobs = {} /\ ~CanSubmit

\* run_steps returns at the first step that fails.
StepFailed ==
    /\ StepOver /\ Stopped
    /\ stepPhase' = "broken"
    /\ UNCHANGED <<rfdisk, stepsLeft, job, tries, doomed>>

\* cleanup_targets, policy "stage": after the merge, what is there of the
\* burst interferograms whose merged fine.int is a file with something in it
\* (perhaps a part of one too) and no VRT over them.
CleanupTargets ==
    LET real == { d \in Dates : made[Merge][d] \in Looks \ Virtual }
        begun == { d \in Dates : made[Merge][d] = Part }
    IN IF Current = Merge
       THEN { { d \in real \union some : made[Burst][d] # None } : some \in SUBSET begun }
       ELSE {{}}

\* The cleanup of a step that succeeded begins.
StepSucceeded ==
    /\ StepOver /\ ~Stopped
    /\ stepPhase' = "clean"
    /\ doomed' \in CleanupTargets
    /\ UNCHANGED <<rfdisk, stepsLeft, job, tries>>

\* shutil.rmtree of the first one left.  Its errors are ignored, so that all
\* of it or a part may stay.
RemoveTarget ==
    /\ stepPhase = "clean" /\ doomed # {}
    /\ LET d == Min(doomed) IN
        /\ \E p \in {None, Part, made[Burst][d]} :
              made' = [made EXCEPT ![Burst][d] = p]
        /\ doomed' = doomed \ {d}
    /\ UNCHANGED <<files, gen, completed, stepPhase, stepsLeft, job, tries>>

\* The hook returns.
CleanupDone ==
    /\ stepPhase = "clean" /\ doomed = {}
    /\ stepPhase' = "record"
    /\ UNCHANGED <<rfdisk, stepsLeft, job, tries, doomed>>

\* on_step: mark_completed.
MarkCompleted ==
    /\ stepPhase = "record"
    /\ completed' = completed \union {Current}
    /\ stepsLeft' = stepsLeft \ {Current}
    /\ stepPhase' = "next"
    /\ UNCHANGED <<files, gen, made, job, tries, doomed>>

\* What one call does by itself.
RunFilesStep ==
    \/ StepBegins \/ StepsDone \/ SubmitJob
    \/ \E d \in Dates : JobSucceeds(d) \/ JobFails(d) \/ JobRaises(d)
    \/ Collect \/ StepFailed \/ StepSucceeded
    \/ RemoveTarget \/ CleanupDone \/ MarkCompleted

\* The call is over: it returned, or its process and jobs were killed.
Return ==
    /\ stepPhase' = "out"
    /\ stepsLeft' = {}
    /\ job' = [d \in Dates |-> "none"]
    /\ tries' = [d \in Dates |-> 0]
    /\ doomed' = {}
=============================================================================
