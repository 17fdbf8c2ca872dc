----------------------------- MODULE UnwrapStage -----------------------------
(***************************************************************************)
(* Successive runs of the unwrap stage in one output directory: by the      *)
(* pipeline, which empties it first, or by `wintersar unwrap run`, which    *)
(* does not.  Several pairs are unwrapped at a time; the adapter of SNAPHU  *)
(* exchanges files with the program in a directory of the pair.             *)
(*                                                                         *)
(* Source: unwrap/api.py, backends.py, masks.py, inputs.py, cli.py,         *)
(* engines/snaphu.py, tophu.py, _unwrap_common.py.  Arrays are tags: which  *)
(* run's inputs of which pair they were computed from, and which kinds of   *)
(* pixel are NaN or without a label.  Reuse of earlier pairs is PairCache,  *)
(* the strategy UnwrapPlan; nlooks, statistics and log lines are left out.  *)
(***************************************************************************)
EXTENDS Naturals, FiniteSets

CONSTANTS
    Igrams,        \* pairs of the stack
    UnwrapCalls,   \* what users ask for, see UnwrapCall
    Installations, \* sets of "snaphu-py", "snaphu", "tophu", "spurt"
    MaxUnwraps

PixelKinds == {"clean", "low", "geometry", "no coherence", "no phase"}

Methods == {"snaphu", "tophu", "spurt", "identity", "typo"}

\* origin: "stage" or "command"; stack: what load_igrams meets; lows, geometry:
\* unwrap.mask; tiled: more than one tile; pool: n_parallel.
UnwrapCall ==
    [origin : {"stage", "command"}, method : Methods, cost : {"defo", "topo"},
     saves : BOOLEAN, tiled : BOOLEAN, lows : BOOLEAN, geometry : BOOLEAN,
     stack : {"good", "unreadable"}, pool : 1 .. Cardinality(Igrams)]

ASSUME CallAssumption == UnwrapCalls # {} /\ UnwrapCalls \subseteq UnwrapCall

None == [run |-> 0, pair |-> "none"]
Torn == [run |-> 0, pair |-> "torn"]
OneLabel == [run |-> 0, pair |-> "one label"]

EmptyDir == [input |-> None, unw |-> None, conncomp |-> None, tiles |-> None]

NoResult == [phase |-> None, labels |-> None, nan |-> PixelKinds, zero |-> PixelKinds,
             assembles |-> FALSE]

NoStats == [run |-> 0, failed |-> {}, ok |-> FALSE]
NoReply == [given |-> FALSE, ok |-> FALSE, stats |-> 0]

VARIABLES
    installed,
    runs,      \* unwraps so far
    request,   \* what the last one was asked
    stagepc,   \* "idle", "jobs", "saved"
    job,       \* of each pair: "none", "queued", "inputs", "ran", "done", "failed"
    tilesdir,  \* tiles/<pair>: the adapter's files
    partfile,  \* parts/: results of the jobs
    product,   \* unw.npz
    stats,     \* stats.json
    reply      \* of the last unwrap: its outcome, and whose stats.json it read

unwrapstagevars ==
    <<installed, runs, request, stagepc, job, tilesdir, partfile, product, stats, reply>>

-----------------------------------------------------------------------------
\* combine_masks, as the job calls it.
JobMask(r) ==
    {"no coherence"} \union (IF r.lows THEN {"low"} ELSE {})
                     \union (IF r.geometry THEN {"geometry"} ELSE {})

\* build_masked, as the adapters call it: _backend_params leaves unwrap.mask
\* out, and unwrap_cfg fills in its default, with which low coherence counts.
AdapterMask(r) == JobMask(r) \union {"no coherence", "no phase", "low"}

\* require_available.
Available(method) ==
    CASE method = "snaphu" -> installed \intersect {"snaphu-py", "snaphu"} # {}
      [] method = "identity" -> TRUE
      [] OTHER -> method \in installed

\* select_backend, with backend "auto", and the engines that have only one.
SelectBackend(r) ==
    LET needsExe == r.cost = "topo" \/ r.saves
    IN  CASE r.method = "snaphu" /\ "snaphu-py" \in installed /\ ~needsExe -> "snaphu-py"
          [] r.method = "snaphu" /\ "snaphu" \in installed -> "subprocess"
          [] r.method = "snaphu" -> "refused"     \* UNW-004: snaphu-py cannot do it
          [] r.method = "spurt"  -> "refused"     \* UNW-009: a stack at a time
          [] OTHER -> r.method

\* FAULT: one directory for the stage.
StageDir(p) == CHOOSE q \in Igrams : TRUE

\* scratch_dir: _tile_dir / _pair.
ScratchDir(p) == p

\* What the job saves of an adapter's arrays: apply_mask and masked_conncomp
\* over nan_masked and conncomp_masked.
Masked(r, phase, labels, assembles) ==
    LET of == IF r.method = "identity" THEN JobMask(r) ELSE AdapterMask(r) \union JobMask(r)
    IN  [phase |-> phase, labels |-> labels, nan |-> of \union {"no phase"}, zero |-> of,
         assembles |-> assembles]

Tag(p) == [run |-> runs, pair |-> p]
AtWork == { p \in Igrams : job[p] \in {"inputs", "ran"} }
Failed == { p \in Igrams : job[p] = "failed" }

-----------------------------------------------------------------------------
\* prepare_node_dir of the pipeline empties the directory.  An unreadable stack
\* (UNW-005) and a missing engine (UNW-001) leave a stats.json; what UnwrapCfg
\* refuses does not, and the command then reads the one that is there.
RunUnwrap(r) ==
    LET emptied == r.origin = "stage"
        refused == r.stack = "unreadable" \/ ~Available(r.method)
        leavesStats == r.stack = "unreadable" \/ r.method # "typo"
    IN  /\ stagepc = "idle" /\ runs < MaxUnwraps
        /\ runs' = runs + 1
        /\ request' = r
        /\ stagepc' = IF refused THEN "idle" ELSE "jobs"
        /\ job' = [p \in Igrams |-> IF refused THEN "none" ELSE "queued"]
        /\ tilesdir' = [p \in Igrams |-> IF emptied THEN EmptyDir ELSE tilesdir[p]]
        /\ partfile' = [p \in Igrams |-> IF emptied THEN NoResult ELSE partfile[p]]
        /\ product' = [p \in Igrams |-> IF emptied THEN NoResult ELSE product[p]]
        /\ stats' = IF refused /\ leavesStats THEN [run |-> runs', failed |-> {}, ok |-> FALSE]
                    ELSE IF emptied THEN NoStats ELSE stats
        /\ reply' = IF refused THEN [given |-> TRUE, ok |-> FALSE, stats |-> stats'.run]
                    ELSE NoReply
        /\ UNCHANGED installed

\* A worker takes a job: the adapter writes its inputs for SNAPHU,
JobTaken(p) ==
    /\ stagepc = "jobs" /\ job[p] = "queued"
    /\ Cardinality(AtWork) < request.pool
    /\ SelectBackend(request) = "subprocess"
    /\ job' = [job EXCEPT ![p] = "inputs"]
    /\ tilesdir' = [tilesdir EXCEPT ![ScratchDir(p)].input = Tag(p)]
    /\ UNCHANGED <<installed, runs, request, stagepc, partfile, product, stats,
                   reply>>

\* or unwraps by a call of a library,
LibraryUnwraps(p) ==
    /\ stagepc = "jobs" /\ job[p] = "queued"
    /\ Cardinality(AtWork) < request.pool
    /\ SelectBackend(request) \in {"snaphu-py", "tophu", "identity"}
    /\ job' = [job EXCEPT ![p] = "done"]
    /\ partfile' = [partfile EXCEPT ![p] = Masked(request, Tag(p), Tag(p), FALSE)]
    /\ UNCHANGED <<installed, runs, request, stagepc, tilesdir, product, stats,
                   reply>>

\* or raises.
JobRaises(p) ==
    /\ stagepc = "jobs" /\ job[p] = "queued"
    /\ SelectBackend(request) # "identity"
    /\ job' = [job EXCEPT ![p] = "failed"]
    /\ UNCHANGED <<installed, runs, request, stagepc, tilesdir, partfile, product,
                   stats, reply>>

\* SNAPHU unwraps what it finds; it may leave the labels out.
SnaphuRuns(p, labelled) ==
    /\ stagepc = "jobs" /\ job[p] = "inputs"
    /\ job' = [job EXCEPT ![p] = "ran"]
    /\ LET d == tilesdir[ScratchDir(p)]
       IN  tilesdir' = [tilesdir EXCEPT
               ![ScratchDir(p)].unw = d.input,
               ![ScratchDir(p)].conncomp = IF labelled THEN d.input ELSE @,
               ![ScratchDir(p)].tiles = IF request.tiled THEN d.input ELSE @]
    /\ UNCHANGED <<installed, runs, request, stagepc, partfile, product, stats,
                   reply>>

\* It stops with an error, or at the time-out.
SnaphuFails(p) ==
    /\ stagepc = "jobs" /\ job[p] = "inputs"
    /\ job' = [job EXCEPT ![p] = "failed"]
    /\ \E left \in {Torn, tilesdir[ScratchDir(p)].unw} :
           tilesdir' = [tilesdir EXCEPT ![ScratchDir(p)].unw = left]
    /\ UNCHANGED <<installed, runs, request, stagepc, partfile, product, stats,
                   reply>>

\* The adapter reads the outputs back; a file of the wrong size is UNW-012.
ReadOutputs(p) ==
    /\ stagepc = "jobs" /\ job[p] = "ran"
    /\ LET d == tilesdir[ScratchDir(p)]
           labels == IF d.conncomp = None THEN OneLabel ELSE d.conncomp
       IN  IF d.unw \in {None, Torn}
           THEN /\ job' = [job EXCEPT ![p] = "failed"]
                /\ UNCHANGED partfile
           ELSE /\ job' = [job EXCEPT ![p] = "done"]
                /\ partfile' = [partfile EXCEPT ![p] =
                                   Masked(request, d.unw, labels, request.tiled)]
    /\ UNCHANGED <<installed, runs, request, stagepc, tilesdir, product, stats,
                   reply>>

\* place and take: a pair that failed stays NaN; then parts/ goes.
SaveProduct ==
    /\ stagepc = "jobs"
    /\ \A p \in Igrams : job[p] \in {"done", "failed"}
    /\ product' = [p \in Igrams |-> IF job[p] = "done" THEN partfile[p] ELSE NoResult]
    /\ partfile' = [p \in Igrams |-> NoResult]
    /\ stagepc' = "saved"
    /\ UNCHANGED <<installed, runs, request, job, tilesdir, stats, reply>>

\* stats.json last, then the answer: UnwrapFailedError when a pair failed.
WriteStats ==
    /\ stagepc = "saved"
    /\ stats' = [run |-> runs, failed |-> Failed, ok |-> Failed = {}]
    /\ reply' = [given |-> TRUE, ok |-> Failed = {}, stats |-> runs]
    /\ stagepc' = "idle"
    /\ UNCHANGED <<installed, runs, request, job, tilesdir, partfile, product>>

\* The process dies, with its workers and programs: _abort, or a signal to the
\* group.
UnwrapDies ==
    /\ stagepc # "idle"
    /\ stagepc' = "idle"
    /\ UNCHANGED <<installed, runs, request, job, tilesdir, partfile, product, stats, reply>>

-----------------------------------------------------------------------------
UnwrapStageInit ==
    /\ installed \in Installations
    /\ runs = 0 /\ request = (CHOOSE r \in UnwrapCalls : TRUE) /\ stagepc = "idle"
    /\ job = [p \in Igrams |-> "none"]
    /\ tilesdir = [p \in Igrams |-> EmptyDir]
    /\ partfile = [p \in Igrams |-> NoResult]
    /\ product = [p \in Igrams |-> NoResult]
    /\ stats = NoStats /\ reply = NoReply

UnwrapStageNext ==
    \/ \E r \in UnwrapCalls : RunUnwrap(r)
    \/ \E p \in Igrams :
          \/ JobTaken(p) \/ LibraryUnwraps(p) \/ JobRaises(p) \/ SnaphuFails(p)
          \/ ReadOutputs(p)
          \/ \E labelled \in BOOLEAN : SnaphuRuns(p, labelled)
    \/ SaveProduct \/ WriteStats \/ UnwrapDies

UnwrapStageSpec == UnwrapStageInit /\ [][UnwrapStageNext]_unwrapstagevars

-----------------------------------------------------------------------------
\* A result of this run: from the inputs of its own pair, without what is
\* masked, with tiles of its own where it says that they can be assembled
\* again.  Only labels may be those of an earlier run of the command, when
\* SNAPHU wrote none.
ResultOf(p, res) ==
    /\ res.phase = Tag(p)
    /\ \/ res.labels \in {Tag(p), OneLabel}
       \/ request.origin = "command" /\ res.labels.pair = p
    /\ JobMask(request) \subseteq res.nan \intersect res.zero
    /\ "clean" \notin res.nan
    /\ "low" \in res.nan => request.lows \/ request.method # "identity"
    /\ res.nan \ res.zero \subseteq (IF request.method = "identity" THEN {"no phase"} ELSE {})
    /\ res.assembles => tilesdir[ScratchDir(p)].tiles = Tag(p)

\* Whatever ran, failed or died in the directory before, and whatever the
\* workers do at the same time: an answer is about this run, a pair that it
\* does not name as failed has its own result, and a pair that failed has none.
\* A command refused before it wrote stats.json shows an earlier run's
\* findings: see the README.
AnswerIsOwn ==
    reply.given =>
        /\ reply.ok => reply.stats = runs
        /\ reply.stats # runs => request.method = "typo"
        /\ reply.stats = runs /\ job # [p \in Igrams |-> "none"] =>
              \A p \in Igrams : IF p \in stats.failed THEN product[p] = NoResult
                                ELSE ResultOf(p, product[p])
=============================================================================
