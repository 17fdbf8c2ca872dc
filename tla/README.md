# WinterSAR in TLA+

WinterSAR turns a stack of Sentinel-1 acquisitions into a displacement time
series.  `wintersar run` walks eleven stages (search, precheck, fetch,
coregister, interferogram, multilook, unwrap, timeseries, corrections, geocode,
validate), takes from a content-addressed cache what it can, and has an engine
(HyP3 in the cloud, ISCE2 topsStack, MintPy, SNAPHU and others locally) compute
the rest.  A QGIS plugin drives the command line.

The numbers are the business of unit tests.  What tests hardly reach is the
life of a work directory: several runs that share it, runs that are killed and
started again, a garbage collection next to them, cloud jobs that go on while
nobody watches, a dock whose user goes on typing.  That is what the modules here
model, check with TLC and, for nearly every safety property, prove with TLAPS.

## 1. Inventory

| Component | State | Operations | Talks to |
|---|---|---|---|
| Node cache and executor (`pipeline/executor.py`, `cache.py`, `api.py`) | `work/<stage>/<hash>/` with `out/`, `manifest.json`, `.lock`; `available` artifacts | `lookup`, lock, prepare, write record, dispatch, hash outputs | engines (calls), other runs (disk and `flock`), gc |
| Stage graph and plan (`pipeline/dag.py`, `plan.py`, `stages.py`) | the graph of a configuration, in memory | build, skip, force closure, `resolve_all`, `--from` fallback | executor |
| Cache gc (`pipeline/cache.py`) | none of its own | list, probe lock, sort, evict, delete | node directories of live runs |
| Per-pair sub-cache (`pipeline/incremental.py`, `unwrap/api.py`) | `pairs/` files and `pairs/manifest.json` | load, lookup, discard, store, save, prune | executor (`keep_pairs`), worker pool |
| Unwrapping (`unwrap/`, `engines/snaphu.py`, `tophu.py`) | tiles and parts on disk, memory budget, `stats.json` | choose a strategy, cut tiles, run pairs, mask, merge | SNAPHU, tophu, sub-cache |
| HyP3 engine (`engines/hyp3.py`) | `out/hyp3/jobs.json`, product folders; jobs and credits at the service | resume, credit check, submit, poll, download, validate | HyP3 service, executor |
| ISCE2 topsStack engine (`engines/isce2_topsstack.py`, `runfiles.py`) | a work directory that survives node hashes: `run_files/`, `runfiles_state.json`, intermediate directories | regenerate run files, run a window of steps, retry jobs, clean up, mark completed | executor, subprocesses |
| MintPy engine (`engines/mintpy.py`) | one work directory for three stages | template, run a stage, list products | executor |
| Auxiliary data cache (`engines/aux_cache.py`) | a directory shared by projects, lock files with an age | acquire, steal, fetch, publish | downloads, other projects |
| Scene selection (`select/`) | stack candidates | group, build a network, apply baselines, recommend | catalogues |
| Interferogram store (`io/zarr_store.py`) | arrays and the attribute that names their slices | create, open, append | readers |
| Sweeps (`validate/sweep.py`) | rows of results | run points, rank | the pipeline and its cache |
| Diagnosis (`diagnose/`) | the knowledge base, logs of an attempt | detect an engine, match, advise | executor, user |
| QGIS plugin (`qgis_plugin/`) | jobs and their threads, a queue, the form, the tables, settings | start, cancel, time out, load, save, apply | the command line, as a process |
| Command line (`util/output.py`, `clihelp.py`, `masking.py`) | none | envelopes, exit codes, masking | everything above |
| Compute kernels, other file formats, metrics, cost models, benchmarks | files | sequential computation | the executor, as opaque engines |

### What is hard

* **Interleaving.**  Nothing is locked but one node directory, and that only
  while its stage executes: planning, lookups and the reading of inputs happen
  beside other runs' writes.  Processes share the auxiliary cache under a lock
  that is taken from its owner by age.  Cancel races with the end of a process
  and with its time-out.
* **Crashes.**  `prepare_node_dir` deletes `out/` before the manifest says
  `running`; a run killed there leaves an `ok` manifest with nothing behind it.
  jobs.json, runfiles_state.json and pair files are written in place.
* **Stale decisions.**  A miss is decided before the lock is taken; a fallback
  is chosen when planning and used much later; gc deletes what it found
  unlocked a while ago; a button uses what an earlier answer put in a table.
* **What the hash leaves out.**  An incremental stage (ADR-0080) keeps the date
  set and its input's content out of the hash, so that two different results
  live in one directory, one after the other.  The topsStack directory leaves
  out the looks, MintPy's directory serves three stages.
* **Partial failure.**  Interferograms, jobs, products, arrays and points of a
  sweep fail one at a time, and what succeeded must be kept.
* **Time.**  Cloud jobs finish late, never, or expire before their download;
  engines hang with a child's pipes open.

`PROJECT.json` lists every such hazard with its line and the properties that
cover it.  Two have none: jobs.json is written in place (`hyp3.py:523`; a run
that finds it torn fails for good, and no text promises otherwise), and two runs
with different looks share a topsStack directory that has no lock
(`isce2_topsstack.py:1177`; what two scripts leave in the same files is outside
the repository).

### What makes each component correct

* Executor: one executor per directory; only the lock holder writes; what a
  successful run reports is, stage by stage, computed for its own date set and
  from the very result it reports for the stage before; no lock is leaked; every
  run ends; all of it together is a ledger of immutable results.
* Plan: the run does what the plan said, and refuses only for a reason.
* gc: a byte budget is met and never costs the next run its hit; nothing in use is deleted.
* Sub-cache: a pair is reused only if its identity and its file are unchanged,
  whatever died between a pair's file and the manifest; a failed pair costs no other.
* Unwrapping: a strategy fits the memory; an answer is about this run and this pair.
* HyP3: no pair is paid for twice, no submitted job is forgotten, success means
  a complete product for each pair or a warning about it, every run ends.
* topsStack: a step counts as completed only when all its products are there and
  is then left alone; a failure stops its step and nothing after it is started;
  every run ends.
* MintPy: the reported products form a chain, made with the run's parameters.
* Auxiliary cache: one download at a time per key, no half-written file is ever
  visible, a dead owner does not block others for ever.
* Selection: what a candidate says of its network is true of its pairs.
* Store: a reader finds under a key what the call that named it brought.
* Sweep: the front is what no row dominates, whatever points failed.
* Diagnosis: a failure that is in a log is in the record, with its cause.
* Plugin: every job is answered once, in its turn, with what became of it; a
  signalled group dies; a saved form is what a run uses; what a button acts on is
  what the user sees; "done" is said of work that was done.

## 2. Modules

| Module | Models | Extends |
|---|---|---|
| `RunCache` | runs sharing a work directory | |
| `ResultLedger` | the abstract specification: a ledger of versions and reports | |
| `RunLedger` | the refinement mapping from `RunCache` to `ResultLedger` | `RunCache` |
| `StageGraph` | graph, plan and the run that follows it, evictions | |
| `CacheGc` | gc next to runs | `RunCache` |
| `PairCache` | the per-pair sub-cache and the pool that fills it | |
| `UnwrapPlan` | memory strategy, tile grid and merge weights | |
| `UnwrapStage` | successive unwraps in one output directory | |
| `Hyp3` | HyP3 engine, its service, its two callers | |
| `RunFiles` | executor of topsStack run files: pool, retries, cleanup, record | |
| `TopsStack` | ISCE2 topsStack engine on its work directory | `RunFiles` |
| `MintPy` | three stages in one work directory | |
| `AuxCache` | processes that fetch one key | |
| `Network` | stack candidates and their networks | |
| `IgramStore` | writer and readers of the chunked store | |
| `Sweep` | points, rows and their Pareto front | |
| `Diagnose` | logs, knowledge base, records, the user's look | |
| `CommandLine` | how a command answers and how the plugin reads it (no state) | |
| `QgisDock` | jobs, threads, queue, process groups of the dock | |
| `ConfigForm` | the form, its memory, the files | |
| `DockPanels` | every button, its command, its answer and its tables | `CommandLine` |
| `MCRunCache`, `MCCacheGc`, `MCHyp3`, `MCTopsStack`, `MCMintPy`, `MCDockPanels` | TLC instances of one component | that component |
| `MCEngines`, `MCParts`, `MCSafety` | TLC instances of several components | theirs |
| `RunCache_proofs`, `RunLedger_proofs` | locks, results and refinement of `RunCache` | the second the first |
| `Planning_proofs` | networks, sweeps and tilings | `Network`, `Sweep`, `UnwrapPlan` |
| `CacheGc_proofs`, `StageGraph_proofs`, `Engines_proofs`, `Parts_proofs` | the theorems on these components | the component or its MC module |
| `Safety_proofs` | the other components of `MCSafety`, and all of them together | `MCSafety` and the proofs on its components |

Components that share no variable are run together: in `MCEngines` (variable
`engine`), `MCParts` and `MCSafety` (variable `part`) a behaviour is one of one
component while the others rest.  Nothing is lost by that, since they do not
interact; the runs of one invocation are fewer.

Definitions named `FAULT` in a comment are the mutated forms of the definition
after them; no specification uses them.

### RunCache

A stage graph is reduced to a chain of `Depth` stages, each with its
predecessor's artifact as its only input.  Stages in `Incremental` are those of
`INCREMENTAL_STAGES`; stages in `DataStages` see the date set themselves, in
their parameters (`n_dates`, `dates`, `pairs`) or as the `stack` input.
All other parameters are equal in all runs; different ones give
different directories and no interaction.

| Variable | Code |
|---|---|
| `man[n]`, `out[n]`, `lock[n]` | `manifest.json`, `out/` and the flock of node directory `n` |
| `clock` | executions finished; the next number is the identity of what is written next |
| `pc[r]` | where run `r` is: planning (`resolve_all`), resolving a stage, at the lock, inside |
| `req[r]` | its command line: date set, first `--force` stage, `--from` stage |
| `at`, `prev`, `have` | the stage it is at, the node and the artifact (`available`) of the one before |
| `node`, `read`, `made` | the node it executes, the version of its input the engine has read, its outputs |
| `fall`, `used` | plan-time fallback records, and what the run reports |
| `prov` | history: what each token was computed for and from |

*Content* is a token.  `hash_file_fast` hashes size, `mtime_ns` and both ends of
a file, so a file that is written again gets a new token, whatever its bytes; a
token of an old execution never comes back.  A directory is a record of what
enters its hash: stage, date set (or `NoData`), input token (0 if the input
enters as the node hash of its producer).

Each action is one handler up to the next point where another process can
interfere: `PlanHit`, `PlanFallback`, `PlanBlocked` (`Dag.resolve_all`),
`StartExecutor`, `UseFallback`, `UseCache`, `Blocked`, `Miss` (`Executor.run`),
`Lock`, `LockBusy` (`node_lock`), `BusyHit`, `BusyFail` (`Executor._execute`),
`PrepareNodeDir`, `WriteRunning`, `ReadInput`, `EngineReturns`, `EngineRaises`,
`WriteRecord`, `UnlockOk`, `UnlockFailed` (`_execute_locked` and the context
manager's end), `Begin` (the user), `Crash` (the kernel drops the flock, the disk stays).
A verification of a manifest and the hashing of its outputs are one step, and an
engine's outputs appear in one step: a directory that is being written has
token 0, which equals no recorded token, so that a lookup in between sees a
mismatch, as it does in the code.  An engine reads its input in as many
`ReadInput` steps as it likes; if it sees two versions, what it read is 0, no version.

### ResultLedger and RunLedger

`ResultLedger` is what `wintersar run` promises without a cache: `Start`,
`Produce` (a version enters the ledger), `Lose` (room is made for another one),
`Finish` (a run reports, in one step, one version per stage, and they belong
together) and `Fail`.  A version never changes and, once lost, never comes back.
In `RunLedger` a token is a version, kept as long as the directory it was
produced in holds it.  Lookups, locks, waiting and manifests are invisible;
`PrepareNodeDir` loses, `EngineReturns` produces, the step that serves the last
stage reports.

### StageGraph

`PlanBegins`, `PlanStage`, `PlanEnds` are `Dag.build`, `resolve_all` and
`build_plan`, a stage at a time; `RunStage` (`SkipStage`, `ServeStage`,
`BlockedMidway`, `ExecuteStage`) is `Executor.run` at one stage; `Evict` is a
record that goes away between runs.  The eleven stages, their inputs and outputs
for each engine, the skip rules, the choice of producers, the force closure, the
hash rule and the incremental rule are tables and operators of the module.
Parameters are one value that enters every node's hash from the unwrapping on.

### CacheGc

gc is one more process beside the runs: `GcBegin`, `GcList` (`list_records`),
`GcSkipLocked` / `GcProbe` / `GcUnprobe` (`is_locked`, which takes the lock for a
moment and so can make a run find its node busy), `GcSort` (survivors, victims,
the protected newest `ok` entry of a stage), `GcEvict` (the byte budget),
`GcRemove` (one victim, its lock file included), `GcEnd`.  A directory weighs 1
if it holds complete outputs, else 0.  Deletions that fail and symlinked
directories are left out.

### PairCache

`file` and `rows` (with `legible`) are the result files and the manifest of
`pairs/`; `stage`, `ask`, `partial`, `again`, `fate`, `entries`, `unw`, `cur` are
the run.  `BeginStage` is the executor's call, with or without the sub-cache;
`Wipe` / `Wiped` the discard of a forced stage; `Lookup` the decision for every
pair; `JobStarts`, `JobEnds`, `PoolDrained` the pool; `TakePart`, `StorePart` the
file of a pair, which is written in place; `LoadReused` / `AllLoaded` the reused
ones and the second round for those that do not load; `SaveManifest`,
`PruneFile`, `AllPruned`, `Leave` the end.  `Die` comes anywhere, `Rot` and
`RotManifest` damage files between and during runs.

### AuxCache

`Call`, `Acquire`, `Judge` (a lock's age), `Steal`, `Timeout`, `Check`, `Fetch`,
`Discard` (an old entry, file by file), `Publish`, `ReleaseEntry`,
`FetcherDies`, `LockAges`.  `shelf` and `there` are the entry directory,
`lockfile` its lock with its owner and age, `listed` what a discard has still to
unlink, `stolen` is history: the lock of a live process was unlinked.

### UnwrapPlan and UnwrapStage

`UnwrapPlan` has the arithmetic of `choose_strategy`, `tile_grid` and the ramps
of the merge, with Python's rounding, over every stack of the instance.  `Ask` is
the call up to the automatic tiling, which the given tiles and a stack that fits do
without; `TryGrid` is one turn of the loop of `_auto_tiling` (`ntiles`, and `last`
for the grid it tried last), and `GiveUp` is what follows the loop, with the
assertion that fails when no grid was tried.
`UnwrapStage` has the directory: `RunUnwrap` (by the pipeline, which empties it,
or by the command, which does not), `JobTaken`, `LibraryUnwraps`, `SnaphuRuns`,
`SnaphuFails`, `ReadOutputs`, `JobRaises`, `SaveProduct`, `WriteStats`,
`UnwrapDies`.  An array is a tag: whose inputs it was computed from.

### Hyp3

One engine run: `Load` (jobs.json and the resume rules), `CheckCredits` /
`CreditsShort`, `Submit` and `Record` (the service's side of a submission and
the engine's), `PollAgain` / `PollTimeout` / `PollDone`, one action per outcome
of a pair in the download loop, `Finish`.  `BreakOff` is a call that raises or
a process that dies, at any point; `DieWriting` is a death inside
`JobState.save`, which leaves a file that does not parse.  The service (external)
ends jobs and lets products expire; the user deletes product files.  Callers are
the executor, which empties `out/` before each execution and serves an `ok`
stage from its cache, and a direct caller, which does neither (as the unit tests
of the engine).  A job costs one credit, a product folder is whole, partial or
absent, and requests and rasters have no content.

### RunFiles and TopsStack

One topsStack work directory, named by what determines the geometry and not by
the node's hash, and a sequence of runs on it.

| Variable | Code |
|---|---|
| `dir`, `files` | `run_files/` and the jobs of each `run_NN_<step>` in it |
| `gen` | the looks in `configs/`, which the jobs' commands refer to |
| `completed` | `runfiles_state.json` |
| `made` | the product of every job: absent, begun, or whole with the looks it was made with |
| `stepPhase`, `stepsLeft`, `job`, `tries` | `run_steps`: the steps left, the current step's jobs and their attempts |
| `doomed` | the directories that the cleanup after a step still has to delete |
| `pc`, `req`, `coregs` | the stage and its configuration, and which coregister nodes the executor has as `ok` |

`_stage_coregister` is `CoregServed` (the executor does not call it), or
`Continue` or `Archive`, `ResetState` and `Sentinel` / `SentinelRefuses` /
`SentinelDies`, then `CoregSteps` and `CoregOk`; `_stage_interferogram` is
`NoRunFiles` or `IgramSteps`, then `IgramOk` or `IgramMissing`; either fails
with `StepsFailed`.  `run_steps` is `StepBegins`, `SubmitJob`, `JobSucceeds` /
`JobFails` / `JobRaises` for each job, `Collect` (a return of `wait`),
`StepFailed` or `StepSucceeded`, which settles what to delete
(`CleanupTargets`), then `RemoveTarget` for one directory after another,
`CleanupDone`, `MarkCompleted`.  The death of the process (`Crash`) can come
between any two of them, so also when some of the directories are gone and
others are not; and as `rmtree` ignores its errors, a directory may stay or go in
part while the hook goes on.  `Reopen` is the user who
deletes an entry of the record, as ISCE2-001 says.

Four steps stand for the workflow's sixteen: one per kind of product that
another step reads, the cleanup deletes or the engine lists.  A job is named by
its date, a pair by its later date.  stackSentinel.py is external: what it
writes jobs for, and that it refuses an update without a new date, is what
ADR-0029 found in its source.  A product counts as whole once its command exited
with 0: a command fails without its inputs, and may succeed on a part of one.
`Virtual` are the looks (1x1) of which the merged product is a VRT over the burst
interferograms: these are then spared, one pair at a time, while a pair whose
`fine.int` was only begun may be taken for either.  Left out: the fetch and DEM
stages, `cleanup: aggressive`, more than one run at a time, and jobs that survive
the death of the run.  A run whose interferogram
node is served by the cache does nothing here.  A product tells its looks, not
the versions of what it was made from.

### MintPy

`tree` holds the products of each work directory, a directory being named by the
parameters its timeseries node was started with; `records` the `ok` manifests,
whose hash of the tree is the set of products in it.  `StartRun`, `ServeRecord`,
`StandIn` / `NothingStandsIn` (`--from`), `StartStage`, `StageOk`, `StageFails`
(with whatever products were written by then).

### Network, IgramStore, Sweep, Diagnose

`Network`: `Group` (rectangle of bursts and dates, network), `ApplyBaselines`
(per orbit, as they arrive), `Recommend`.  `IgramStore`: `Create`, `OpenWriter`,
`AppendPair`, then `GrowArray` and `WriteSlice` array by array and `NamePair`;
`AppendFails`, `WriterDies`, `OpenReader` anywhere.  `Sweep`: `RunPoint`,
`RefusePoint`, `RankRows` (with `pareto_front`), next to the node cache that the
points before filled.  `Diagnose`: `TryStage`, `WriteLog`, `OnFailure`,
`StageSucceeds`; and, in steps of its own, the user's `LookUp`, `ReadNext`,
`LookEnds`.

### QgisDock, ConfigForm, DockPanels, CommandLine

`QgisDock` has the concurrency: for each job the worker thread (`Worker`: makes
the client, `Popen`, registers, waits, times out, joins the readers, reports),
the process and its group (`LeaderExits`: the CLI ends, crashes or is killed at any
time, its engines going on; `EngineStarts`, `EngineEnds`),
`Cancel` and `Escalate` (SIGTERM, then SIGKILL), the queue that `Drain` empties on
a timer, `Shutdown`.  `ConfigForm` has the four places a value can be in: the
file, the memory (`data`), the widgets (`form`), and what a run makes of the file;
`LoadConfig`, `SaveConfig` (which may be refused), `EditField`, `TypePath`, and
"New", whose file a job writes in the background.  `DockPanels` has the panels:
each button settles a command line, `Process` is the CLI (with `CommandLine` for
its envelope and exit code), `Drain` hands an answer to its handler, and load,
apply and plot index what handlers remembered; `Restart` is QGIS started again
with its settings.  `Workdir` combines, as the dock does, the setting of the file
that was opened (`WorkdirSetting`: absolute, or a name) with the directory of the
path typed since, so that it may be nobody's work directory.  A run that the plan
blocks answers with the artifacts of the stages that are cached, which an earlier
run made (`RunResults`).

## 3. Runs

| Run | Instance | Properties |
|---|---|---|
| `cache_data` | two symmetric runs, two incremental stages, two date sets, command lines plain / `--from` last stage / `--force` first stage, 3 executions | `TypeOK`, `OneExecutor`, `HitReadItsInput`, `ResultCoherent`; `OnlyHolderWrites` |
| `cache_live` | two plain runs, an incremental and a content-keyed stage, 3 executions | `LockOwned`; `RunsEnd`, `ImplementsLedger` |
| `parts_live` | *pairs*: two pairs, two identities, two stacks, one worker; *downloads*: two processes; *dock*: three commands, two jobs, a queue of one line | `PartsTypeOK`, `AssembledIsAsked`, `FailureKeepsTheRest`, `OneAtTheEntry`, `JobsAreAnswered`; `WantedIsKept`, `StageEnds`, `CallsEnd`, `SignalledGroupDies`, `JobIsShown` |
| `engines_resume` | *HyP3*: two pairs, batches of one, three credits, four jobs, three runs by either caller; *topsStack*: two dates coregistered together, other steps one job at a time, one retry, three runs with one date, with both and other looks, or with forced regeneration | `EnginesTypeOK`, `NothingIsLost`, `RecordIsTrue`, `FailureIsContained`; `NeverPaidTwice`, `CompletedIsKept`, `EveryRunEnds` |
| `safety` | eleven components that promise safety only, below | `SafetyTypeOK`, `BudgetSpares`, `StrategyFits`, `ReportedChain`, `PlanIsKept`, `NetworkAdds`, `SlicesAreTheirOwn`, `GridIsCovered`, `FrontIsHonest`, `SavedIsUsed`, `FailureIsExplained`, `AnswerIsOwn`, `DoneIsDone`; `LongHeldKept`, `WhatIsShownIsUsed` |
| `gc_locked` | one run and gc | violation of `LockedKept` |
| `hyp3_timeout`, `hyp3_expired` | one pair, run twice by the executor | violation of `TimeoutResumes`, `ExpiredIsResubmitted` |
| `tops_looks`, `tops_inputs` | one date, two runs (with two looks) | violation of `ReportedLooks`, `JobsFindInputs` |
| `mintpy_rerun` | two configurations, plain command lines | violation of `SecondRunIsCached` |
| `dock_paths` | one project below the home directory | violation of `LastRunLoads` |

Every module's comments state its properties in words, at their definitions.

*The instances of `safety`.*  gc: every work directory of up to three results in
stage 1 and one in stage 2 (ok with or without outputs, failed, orphan, absent;
one possibly in execution), the policies keep 0 without budget, keep 0 with
budget 2, keep 1 with budget 1.  Tiling: every raster with sides 1, 5, 8, four
memory budgets, three numbers of cores, four tile counts.  MintPy: two parameter
sets, five products, five command lines.  Plan: five configurations (HyP3 and
MintPy, topsStack with either time series engine, fake, an engine that is not
registered), six command lines, two runs, one eviction.  Network: two orbits, four
days, five archives, every assignment of two offsets or none.  Store: two keys,
three appends, one create.  Sweeps: four grids of up to four points (one is
refused), four outcomes.  Form: two files, two edits.  Diagnosis: four entries
with one supersession, two logs of five kinds, two attempts.  Unwrapping: two
interferograms, six calls, three installations, two runs.  Panels: two projects,
one below home, one with an absolute work directory and one with a relative one, two
jobs, one edit of a path.

*Bounds.*  Three executions are what the interesting histories of the cache take:
a result, one that replaces it, and one that read the first.  Two runs are the
two sides of each race.  Two stages have one producer and one consumer; the
`--from` fallback, the force closure and the freshness check each concern one
link.  When the clock is used up engines can only raise, so every run still
ends.  For HyP3, two pairs with batches of one give a first and a later batch,
one pair ready while the other is pending; three runs give a first, a resumed
one, and one after that; `MaxWaits` 1 is a poll loop that goes round; three
credits are fewer than the four jobs the bound allows, so that the credit check,
not the bound, is what stops submission.  For topsStack, two dates make one old
and one new date for the update mode, and a cap (parallel_cap is one per step)
that is met in one step and exceeded by the jobs of the others; they are also two
directories for the cleanup, one deleted and one not; of the two looks one gives
VRTs; three runs leave the run files archived by one run to another one whose
coregister node is still cached.  Two pairs with one worker give a pair that is done while the other
waits, fails or dies half written; two identities are the old and the new one.
Two fetchers and an aging lock give an owner and a thief.  Two jobs are the one
that is cancelled and the one started after it, a queue of one line fills.  For
nearly all of it the theorems of section 4 remove the bound.

*Deadlock* is checked in `cache_data`, `cache_live` and `gc_locked`.  It is off
where the instance really stops: gc is started once, runs of an engine, jobs of
the dock, attempts, appends, points and edits are bounded in number, and a
component that rests takes no step.

*Fairness.*  A run of `RunCache` takes its next step (`WF` of `Step(r)`): it is a
process that nothing blocks (locks are taken with `LOCK_NB`, there is no retry
loop), and an engine either returns or raises.  The run of a stage takes its next
step (`PairWork`).  A process in `cached_fetch` takes its next step; one that
waits for the lock gets it or gives up (`SF` of `Acquire(c) \/ Timeout(c)`: its
deadline passes once and for all, while the lock may be free and taken again any
number of times); locks age.  The plugin's timer ticks, its threads are
scheduled, its time-outs and grace periods pass; nothing is asked of the command
line and its engines, which may hang, ignore SIGTERM, crash and outlive their
parent.  (So `JobIsShown` has to name the one case in which the dock does wait for
them: see below.)
The HyP3 engine takes its next step, and nothing is asked of the service.  A
topsStack run takes its next step and jobs end, with whatever result; in the code
that is `job_timeout_s`, if it is set.  No fairness is asked of users, crashes, rot or
deaths.

*Mutants.*  `PROJECT.json` names, for each property of a passing run, a bug in a
mapped definition that makes TLC report that property.

### Disagreements between code and text

* `gc_locked`: "Entries locked by a running pipeline are always kept"
  (`cache.py:443`), but the lock is tested while listing and the deletion is
  later and takes no lock.  `LongHeldKept` is what holds: a run that has held its
  lock since before gc began is safe.
* `hyp3_timeout`: HYP3-006 says that a re-run resumes polling, but jobs.json is
  inside the `out/` that the executor deletes first, so everything is submitted
  and paid for again.  Called directly, the engine does resume (`NeverPaidTwice`).
* `hyp3_expired`: HYP3-012 says that a re-run resubmits the pair, but it is a
  warning, so the stage is `ok` and cached, and a re-run does not call the engine.
* `tops_looks`: ADR-0029 leaves looks out of the work directory's name and sees
  no conflict.  But steps count as completed by name: a run with other looks
  finds all of them done, runs nothing and writes a manifest with its looks over
  the other run's rasters.  (TLC's shortest history: the first run dies in
  stackSentinel.py, the second goes on with its run files.)  `RecordIsTrue` is what
  holds: the products have the looks of the configs that are there.
* `tops_inputs`: ISCE2-001 says that a re-run resumes at the step, or starts it
  over when its entry is deleted.  The merge step's inputs are deleted before it
  is recorded: after a death in between, or with the entry deleted, its jobs have
  nothing to read, and every later run fails.  Deaths in the middle of the deletion
  leave part of it.  `CompletedTrue` and `CompletedIsKept` say what holds all the
  same: a burst interferogram under a recorded step is whole, or there is a merged one;
  and it is deleted only once the merged one is whole and no VRT over it.
* `mintpy_rerun`: the quickstart says that a second run is fully cached, but later
  stages change the directory that earlier stages recorded.
* `dock_paths`: the dock loads the artifacts of the last run by the paths in its
  record, which are masked: below the home directory they begin with `~` and no
  raster loads.

### What the models show besides

Behaviour found while modelling that no text of the repository contradicts, or
that no run states:

* gc's byte budget protects the newest entry of a stage whose manifest says `ok`
  (`cache.py:460`).  After a run died in `prepare_node_dir` that may be an entry
  without outputs, and the intact result the next run would use is deleted.
  `BudgetSpares` therefore speaks of work directories in which every `ok`
  manifest has its outputs.
* The plan's "cached" is a statement about the results at planning time.  HyP3
  completes a time series; a run with ISCE2 fails at interferogram; a run of ISCE2
  with `--from multilook` takes HyP3's interferogram to stand in, and the plan calls
  the time series cached, but the run executes it, because multilook and unwrap
  yield new artifacts (`dag.py:473-525`, 641-697).  `PlanIsKept` therefore says that
  a stage the plan calls cached is executed only behind one that it says will run.
* `--force` of a stage before `--from` is ignored for that stage (ADR-0033), while what
  follows it from `--from` on is forced; a
  stand-in that lacks an artifact blocks a run midway, after stages have run.
* A pair of the auxiliary cache's waiters that judged the same stale lock can unlink
  the lock of a live process (`aux_cache.py:96`); `OneAtTheEntry` is about the time
  before that happens.
* ConfigForm: `dock_widget.py:83-84` says that `tiles.overlap` and
  `min_overlap_px` are untouched, but Save replaces `tiles` by rows and columns;
  a checkbox whose key is absent and whose default is true shows off after a load and
  is saved as false (the second disjunct of `SavedIsUsed`); a refused Save has
  already changed nested sections in memory; `_refresh_results` and `_diagnose` use
  the last run of another project after the path was changed.
* DockPanels: an exception gives data `{"error"}`, so that Refresh no longer falls
  back to the newest summary; `_picked` is never reset; the answer of a search for
  one project overwrites the candidates field of another; `refpoint` without
  candidates exits with 1 in text mode and with 0 under `--json`; Ctrl-C under
  `--json` and `-v` with an exception give no envelope; a blocked run writes
  runs/plan.json; cancelling a Processing algorithm takes effect at its next line.
* QgisDock: a CLI that ends by itself (a crash, the OOM killer) while an engine holds
  its pipes leaves the dock in "running" for as long as that engine lives:
  `proc.wait` has returned, so the time-out is over; the two `join`s of the readers have no
  limit (`cli_client.py:797-798`); and Cancel signals nothing, because the leader
  of the group has been waited for, though the docstring of `cancel` speaks of the
  "command and its engines" (`cli_client.py:714`).  `JobIsShown` names exactly this
  state (`Abandoned`) and holds but for it; an engine that lets go of its pipes one day
  ends it.
* IgramStore: a failed append leaves slices beyond those that are named, and a
  later pair without that array inherits them (so `SlicesAreTheirOwn` speaks of the
  arrays a call brings); growing half of the arrays makes later appends fail.
* Tiling: when the first grid would already need more than `MAX_TILES` tiles,
  `_auto_tiling` has tried none, and its assertion fails (`scheduler.py:276`); the
  comment behind it speaks of a caller that records "memory insufficient", which
  happens only when some grid was tried.  No strategy is made (`GiveUp`).
* Unwrapping: `unwrap.mask.coherence: false` is ignored by the adapters, since
  `_backend_params` (`api.py:551`) leaves `mask` out; `wintersar unwrap run` with an
  unusable method shows an earlier run's findings (`unwrap/cli.py:262`), which
  `AnswerIsOwn` leaves out; a kept scratch directory may serve a stale conncomp.u32
  (labels are left out of `ResultOf`); the configured tile directory is shared by
  all pairs; SNAPHU without keep_tile_dir reports a tile directory that it removes;
  `overlap_pixels` caps at the largest core side and `tile_grid` refuses above the
  smallest, so that some explicit grids cannot be cut.
* Diagnosis: the executor's table of engine names (`_check_engine`) and the one of
  the advice (`kb_engine`) differ for compass_isce3, tophu and asf_search, whose users are
  advised to look without `--engine` and may see more than the record does: the last conjunct
  of `FailureIsExplained` is about the names on which they agree.  A look during a
  retry may find a log deleted that it listed, and ends in a traceback.

## 4. Proofs

TLAPS proves, for every value of the constants that the named assumptions of the
modules admit (any number of runs, stages, pairs, jobs, dates, products,
configurations, ...):

| Module | Theorem | Statement |
|---|---|---|
| `RunCache_proofs` | `TypeCorrect` (`TypeOK`) | Every variable of RunCache stays in its type, for any number of runs, stages, date sets and executions. |
| `RunCache_proofs` | `MutualExclusion` (`OneExecutor`) | A node directory has at most one run inside it, whatever crashes. |
| `RunCache_proofs` | `NoLeakedLock` (`LockOwned`) | Every lock belongs to a live run inside the directory. |
| `RunCache_proofs` | `HolderWrites` (`OnlyHolderWrites`) | Only the holder of a directory's lock changes its outputs or its manifest. |
| `RunLedger_proofs` | `HitsAreTrue` (`HitReadItsInput`) | An intact ok manifest was computed from exactly the input it names, if that is still there, for any number of runs, stages and date sets. |
| `RunLedger_proofs` | `CoherentResults` (`ResultCoherent`) | A run that ends well reports results for its own date set, each made from the reported result of the stage before, if that is still there. |
| `RunLedger_proofs` | `LedgerRefined` (`ImplementsLedger`) | Every behaviour of the runs, crashes included, is one of the abstract ledger: results are immutable, never come back, and a finished run reports versions that belong together, for any number of runs, stages and date sets. |
| `Parts_proofs` | `PairTypes` | Every variable of PairCache stays in its type. |
| `Parts_proofs` | `TrueRows` | A row whose fast hash matches a whole file names the identity of its content: the inductive core of reuse. |
| `Parts_proofs` | `AskedIsAssembled` (`AssembledIsAsked`) | A stack without failed pairs holds at every pair the result that this run asked for, for any stack, any number of workers, and any history of deaths and rot. |
| `Parts_proofs` | `RestIsKept` (`FailureKeepsTheRest`) | When the stage ends, whatever failed, every other pair is found by the next run and nothing unnamed is left. |
| `Parts_proofs` | `WantedStays` (`WantedIsKept`) | No step of a run loses a result that it wants and the manifest vouches for. |
| `Parts_proofs` | `AuxTypes` | Every variable of AuxCache stays in its type. |
| `Parts_proofs` | `OneAtTheEntryHolds` (`OneAtTheEntry`) | As long as no lock of a live process was unlinked, one process at most is at an entry, a marker stands for a whole entry and nothing marked is discarded, for any number of processes, deaths and time-outs. |
| `Parts_proofs` | `DockTypes` | Every variable of QgisDock stays in its type, for any set of commands, number of jobs and length of the queue. |
| `Parts_proofs` | `JobsAreAnsweredHolds` (`JobsAreAnswered`) | A cancel that signalled is what the job answers, and every job is answered once, in its turn, after its last line, for any number of jobs and any bound of the queue. |
| `Parts_proofs` | `PartsAreTyped` (`PartsTypeOK`) | The three parts keep their types when one of them runs and the others rest; with it the theorems about the parts hold of the run that checks them together. |
| `Parts_proofs` | `PartsHold` | Every property that the run parts_live checks of the three parts but liveness holds of MCParts for every value of the constants. |
| `Engines_proofs` | `Hyp3Types` | Every variable of Hyp3 stays in its type: the account is not overdrawn, and what the engine waits for, returns or reported is a job of the service. |
| `Engines_proofs` | `NothingIsLostHolds` (`NothingIsLost`) | Between runs jobs.json names every live job but those of the lost answers, and a stage that succeeds has a complete product for every pair it did not warn about, whatever fails, dies, expires or times out, for any pairs, batch and credits. |
| `Engines_proofs` | `NeverPaidTwiceHolds` (`NeverPaidTwice`) | No pair is paid for while jobs.json names a live job for it. |
| `Engines_proofs` | `TopsTypes` | Every variable of TopsStack stays in its type: no job is tried more often than the retries allow. |
| `Engines_proofs` | `RecordIsTrueHolds` (`RecordIsTrue`) | A recorded step has every product of its run file, but for burst interferograms that the cleanup may delete, in whole or in part, once their merge is there; a run that ends with interferograms has each one that was asked for; whatever is killed, between two deletions too, added or regenerated. |
| `Engines_proofs` | `FailureIsContainedHolds` (`FailureIsContained`) | A step that fails has at most its cap of jobs that started and did not succeed, and a filter job finds its merged interferogram whole. |
| `Engines_proofs` | `CompletedIsKeptHolds` (`CompletedIsKept`) | What the record calls completed is not done again: of its products only burst interferograms are touched, by the cleanup, one at a time, and only when their merge is finished and is no VRT over them. |
| `Engines_proofs` | `EnginesAreTyped` (`EnginesTypeOK`) | The two engines keep their types when one of them runs and the other rests. |
| `Engines_proofs` | `EnginesHold` | Every property that the run engines_resume checks of the two engines but liveness holds of MCEngines for every value of the constants. |
| `CacheGc_proofs` | `GcTypes` | Every variable of CacheGc stays in its type, for any finite set of dates and any policy. |
| `CacheGc_proofs` | `LongHeldKeptHolds` (`LongHeldKept`) | No step deletes a directory whose run has held the lock since before gc began, for any policy and any interleaving of gc with runs. |
| `CacheGc_proofs` | `BudgetSparesHolds` (`BudgetSpares`) | A byte budget never costs the next run its hit, and is met or leaves nothing but what the next run uses, provided that no run was there meanwhile and that every ok manifest had its outputs. |
| `StageGraph_proofs` | `PlanIsKeptHolds` (`PlanIsKept`) | What a run executes was announced, it is refused or blocked only for a reason that the plan shows, and what it reports was made from what it reports, for any configurations, command lines, runs and evictions. |
| `Planning_proofs` | `NetworkAddsHolds` (`NetworkAdds`) | What a candidate says of its network is true of its pairs: its components are what the pairs connect, its per-date baselines reproduce those of the acquisitions, and dropping pairs leaves the network that would have been built had the baselines been known at once, for any orbits, dates, bursts, baselines and network methods. |
| `Planning_proofs` | `GridIsCoveredHolds` (`GridIsCovered`) | The points of a grid are all the ways to choose a value for each key, each of them once unless a list has a value twice, for any number of axes of any length. |
| `Planning_proofs` | `FrontIsHonestHolds` (`FrontIsHonest`) | The front of a sweep is what no complete row dominates, is not empty when a complete row exists, and every other complete row is dominated by one in it, for any grids, objectives and failures of points. |
| `Planning_proofs` | `StrategyFitsHolds` (`StrategyFits`) | A strategy keeps to the budget with all it runs at once or says that it cannot, uses no more cores than there are, and is cut into tiles that cover the raster and are no larger than estimated, with Python's rounding, for any sides, budgets, cores, tile counts and least overlap. |
| `Safety_proofs` | `MintPyTypes` | Every variable of MintPy stays in its type. |
| `Safety_proofs` | `ReportedChainHolds` (`ReportedChain`) | Every product that a MintPy run reports was made from the product it reports for the stage before, for any templates, command lines and number of products. |
| `Safety_proofs` | `SlicesAreTheirOwnHolds` (`SlicesAreTheirOwn`) | Every name in the store is followed, in every array its call brought, by the slice of that call, whatever calls failed or died on the way, for any keys and arrays. |
| `Safety_proofs` | `SavedIsUsedHolds` (`SavedIsUsed`) | After a save the commands work with what the form shows, for any files and any sequence of edits, loads and refused saves. |
| `Safety_proofs` | `AnswerIsOwnHolds` (`AnswerIsOwn`) | What the unwrapping answers for a pair was unwrapped in this run from this pair, for any set of pairs, engines and calls. |
| `Safety_proofs` | `FailureIsExplainedHolds` (`FailureIsExplained`) | A failure that is in a log is in the record with its cause, and not with a consequence of it, and the user's look says the same, for any knowledge base without a circle of supersession, any logs and attempts. |
| `Safety_proofs` | `PanelsTypes` | Every variable of DockPanels stays in its type; no more answers are under way than jobs were started. |
| `Safety_proofs` | `DoneIsDoneHolds` (`DoneIsDone`) | The status line says done only of a command that did its work, for any projects, points and interpreters. |
| `Safety_proofs` | `WhatIsShownIsUsedHolds` (`WhatIsShownIsUsed`) | Load, apply and plot act on the row the user sees. |
| `Safety_proofs` | `SafetyIsTyped` (`SafetyTypeOK`) | The components keep their types when one of them runs and the others rest; with it the theorems about them hold of the run that checks them together. |
| `Safety_proofs` | `SafetyHolds` | Every property that the run safety checks holds of MCSafety for every value of the constants. |

The assumptions are those of the modules' headers, each a fact about the
program's data (identifiers are distinct from the markers for "none", sets that
the code iterates are finite, bounds are natural numbers, command lines name
stages that exist); TLC evaluates each of them in a run.

None of these properties is inductive by itself.  The arguments:

*RunCache, locks.*  The invariant is `IndInv`: `TypeOK`; `Walk`, which ties a run's
position to its phase; `Holds`, that a run inside a directory holds that
directory's lock; and `LockOwned`, that a lock's holder is inside.  `Holds` gives
mutual exclusion: two runs inside the same directory would both be the one holder.
`Holds` and `LockOwned` need each other: releasing a lock is harmless only
because the holder is the run that releases it.  `KeyInNode` and `WantedInNode`
show that the hash rule maps to a directory of the right stage, where a stage
whose input tokens enter the hash must be `ContentKeyed`.

*RunCache, results.*  The invariant is `DataInv`, that is `IndInv` with, for each
directory, `Tokens` (the token in it was given out for it) and `ManTruth` (what
an `ok` manifest says is so) and, for each run, `InHand`, `FallGood`,
`ReadsInput`, `Makes` and `Reports`.  Two facts carry it.  `Frozen`: a step
never changes what is recorded of an old token, and puts into a directory what
it had, nothing, or the one new token, for which mutual exclusion is needed.
So `Gone`: a token that has left its directory does not come back, and every
statement of the form "if that input is still there, then ..." is stable.  What
has to be shown is then that it holds when it is first made: when a record is
written, because the engine has read what the run had in hand or that is gone
(`ReadsInput`); when a lookup hits, because either the hash or the freshness
check of an incremental stage pins the date set and the input (`HitData`); when
a fallback is used, because it still names the directory it came from.

*RunLedger.*  Most steps are invisible; each other maps to one step of the ledger.
That a report is coherent is what `DataInv` says of the state after it, that a
lost version does not come back is `Gone`, and that an execution reads a version
of the stage before is `ReadKnown`, which joins the invariant.

*CacheGc.*  `GcCore` follows what gc has in its hands: only entries of stages it
has been to, and none whose lock was held when gc began and is held still,
because its probe fails.  `BudgetInv` is about the time in which no run steps:
what gc has noted is true, nothing is overlooked, each entry is kept or doomed,
and what the next run would use is kept.

*StageGraph.*  Four facts.  A stage that is asked to run and whose engine is
registered misses no input (from the tables).  A record's hash tells the contents
it was made from, for a stage that is not incremental, and the lookup compares
them for the others, so that what is used fits what is there.  Before the first
stage that will run, the run is where the plan was and finds what it found.  And
what a record gives depends on engine and stage only, so that only a result that
stands in for another engine's can lack something.

*Pairs.*  The core is `RowsAreTrue`: a row whose stamp is its file's tells the
identity the file was computed for, or the file does not load.  Writing in place
keeps it because a written file has a stamp that no row knows, whether the run
dies before the manifest or not.

*Downloads.*  `Orderly`: whoever is inside owns the lock, no marker stands while an
entry is being made or removed, and a marker stands for a whole entry.  It holds as
long as no live lock was stolen.

*Dock.*  `InTurn`: one thread at a time, what is in the queue is true and in order,
what was shown was in order, no answer is lost, the status line is of the last
job; `StopNoted`: a group that was signalled has a client that knows it.

*HyP3.*  `Hyp3Inv`: the state in memory is what jobs.json will say, jobs that are
not in it are those of the batch on its way, a pair is in a batch only if its old
job is of no use any more (`Unusable`), and the credits left pay for what is
still to be submitted.

*topsStack.*  `TopsInv`: the run files are a prefix of the steps, what is completed
is whole, and the step at work is the first that is not; what the cleanup still has to
delete are burst interferograms of which the merged ones exist, so that the record
stays true after each of its deletions.

*MintPy.*  A product in a directory was made with its template from a product that
is or was there (`Made`), records hold only what was made (`TrueRecords`), and what
a run has reported so far is in the directory it inherits (`Known`, `Chained`).

*Store, form, unwrapping, panels.*  `StoreInv` says which arrays the current call
has grown and written; `FormInv` that memory and file agree field by field since the
last load or save; `UnwrapInv` whose inputs each scratch file was computed from, in
each phase of a pair; `PanelsInv` what each answer in flight can claim, and that a
table is what the last handler put there.

*Diagnosis.*  A text gives only findings of the log it is, and none of what it gives is
explained by another one it gives: of the entries that match, one that nothing supersedes
is above each that is left out, because the knowledge base has no circle of
supersession (`SupersessionAssumption`: the files under `diagnose/kb` have a single
`supersedes`).  The loader does not reject a circle, and with one
`FailureIsExplained` is false: its entries hide each other, and a failure that is in
the log is in no record.  Within an attempt logs are added and never change, so what a
look has read of them it has read as the record did.

*Induction.*  A property of the numbers up to `n` is stated as a set of them: if it is
not all of `0 .. n`, a least number is missing, and that is contradicted (`Climbs`).
So induction is a set, not an operator, and no theorem is cited that takes an operator
as a parameter.  In the same way the functions that `RootOf`, `Connected` and `Integrate`
define by recursion exist (`IterationExists`) and so do the folds, because they do
over each initial segment (`FoldExists`).

*Networks.*  `NetInv` says that each candidate is the rectangle of its orbit with the
network that dates and method give, or with what the baselines make of that network,
and that what is recommended has bursts.  Four facts about the operators make it say
what `NetworkAdds` says.
* Lists: a finite set has one listing that follows a strict order (`InOrderOnly`), and
  the elements at some indexes of a list follow each other as they did (`ThoseInOrder`).
  So what is left of the pairs when those over the limit are dropped is the list of the
  pairs within it, which `BuildNetwork` would have made (`DroppedAtOnce`).
* Union-find: parents are a forest (`Forest`: a rank decreases from a date to its
  parent), so that the root is found in fewer steps than there are dates
  (`RootIsFound`), and joining two trees gives a forest (`TreesAreJoined`).  After the
  last pair two dates have one root exactly when every set of dates that no pair leaves
  has both or neither (`ClassesAreFound`).
* Connectivity: `Connected` is the least such set around a date (`ConnectedIs`); it
  is complete after as many rounds as there are dates, each round before having added one.
  Hence the components are the connected sets, and their earliest dates differ, so that
  the order by size and earliest date is strict (`ComponentsAre`).
* Baselines: a pair's baseline is the difference of those of its dates, so each round
  of the breadth-first search keeps the differences between the dates it has found
  (`WaveAdds`), along whichever pair it chose.

*Sweeps.*  Dominance is a strict order on the rows that measured every objective, and
a sweep has finitely many of them; so above a dominated row there is one that is not.
The number of points is a product folded over the axes, a natural number by induction
over their number; a point is the number whose digits, in the mixed base of the lengths
of the axes, are the indexes of its values (`PointsCover`), and every number below the
product has its own digits.  That is why the points are all choices, each once.
`GridAssumption` asks only that an axis is a list and that no key has two axes.

*Tiling.*  `UnwrapPlanInv` says that what the search tries is the tiling of a grid of
the raster, and that a strategy was made of such a tiling: the one that was asked for,
or the one tried last.  The rest is arithmetic.  A rounded edge is at most half a
pixel from the exact one, so cores are in order, cover the axis and are no longer than
the largest core of the estimate; an accepted overlap is no longer than the smallest
core, so an extent reaches its neighbours only.  That what runs at once fits follows
from the divisions by which the number of unwrappers was found.

*Instances.*  `PartsAreTyped`, `EnginesAreTyped` and `SafetyIsTyped` carry the types of
the components, and `PartsHold`, `EnginesHold` and `SafetyHolds` their properties, to
the specifications of `MCParts`, `MCEngines` and `MCSafety`: a behaviour
of one of these is a behaviour of one component, with the others at rest.

*Only model-checked.*
* Every safety property that a passing run checks is proved.
* Liveness (`RunsEnd`, `StageEnds`, `CallsEnd`, `SignalledGroupDies`, `JobIsShown`,
  `EveryRunEnds`) rests on fairness and `ENABLED`, which are out of the prover's
  reach.

## 5. Not modelled

Numeric code (kernels, validation metrics, estimates of run time), the other file
formats, the catalogue search with its fallback, orbits and the rules on scenes
other than coverage and baselines, and the benchmarks and research drivers are
sequential computations on data or drivers around the pipeline.  The resource budget
holds one reservation at a time because stages are executed one by one.  On
platforms without `fcntl` the lock is a no-op: the modules model POSIX.  The fake
engine's use of the sub-cache is the one modelled for unwrapping.  `prune()` of
the auxiliary cache has no caller.  Of topsStack, the fetch and DEM stages, the
aggressive cleanup and two runs at a time are left out; of the plugin, the
Processing algorithms, layers, the AOI file and the geometry of the map tool.
`PROJECT.json` lists each component with what is left out of it.
