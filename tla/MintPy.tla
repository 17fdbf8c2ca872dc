-------------------------------- MODULE MintPy --------------------------------
(***************************************************************************)
(* Runs of MintPy's stages, timeseries -> corrections -> geocode, one after *)
(* the other in one work directory.                                         *)
(*                                                                         *)
(* All three stages work in one directory: timeseries creates it in its own *)
(* node's out/, the others inherit it from the timeseries they are given    *)
(* and add their products.  The record of every stage lists the directory   *)
(* as an artifact, so a record is intact only while nobody has written      *)
(* there since.                                                             *)
(*                                                                         *)
(* Source: engines/mintpy.py with pipeline/{dag,executor,cache,stages}.py.  *)
(* The hash of the tree is the products in it.  A directory is named by the *)
(* parameters that its timeseries node was started with; its template holds *)
(* them.  RunCache models runs that interleave.                             *)
(***************************************************************************)
EXTENDS Integers, FiniteSets

CONSTANTS
    Params,     \* values of the configuration's timeseries section
    NoParams,   \* geocode is hashed with the engine section only
    Lines,      \* the command lines that runs are started with
    MaxProducts \* bound: number of products that get written

ASSUME ParamsAssumption == NoParams \notin Params
ASSUME ProductAssumption == MaxProducts \in Nat

TsStage == 1
CorrStage == 2
GeoStage == 3
MintPyStages == TsStage .. GeoStage

Products == 0 .. MaxProducts

Tree == [MintPyStages -> Products]

NoTree == [s \in MintPyStages |-> 0]

\* An `ok` record: its stage, what its node is hashed from, the directory,
\* the tree as it was when the record was written, and when that was.  A
\* record that is not `ok` serves nobody: it is as if there were none.
TsRecord == [stage : MintPyStages, params : Params \union {NoParams}, in : Tree,
             dir : Params, tree : Tree, at : Products]

\* The command line: the stage of --from and the first one of --force.
MintPyLine == [params : Params, from : MintPyStages, force : 1 .. GeoStage + 1]

ASSUME LineAssumption == Lines \subseteq MintPyLine

MintPyPhase == {"idle", "walk", "engine", "failed", "finished"}

VARIABLES
    tree,      \* the products in every work directory; 0: absent
    records,   \* the `ok` manifests
    written,   \* products written so far; a product is named by its number
    makings,   \* history: with which template, from which product
    runPhase,  \* phase of the run
    asked,     \* its command line
    step,      \* stage it is at
    given,     \* the tree that the previous stage's record holds
    inherited, \* work directory of the previous stage's artifacts
    reported,  \* the products it reports
    again      \* history: the run before had the same command line and finished

mintpyvars == <<tree, records, written, makings, runPhase, asked, step, given,
                inherited, reported, again>>

-----------------------------------------------------------------------------
MintPyInit ==
    /\ tree = [d \in Params |-> NoTree]
    /\ records = {}
    /\ written = 0
    /\ makings = <<>>
    /\ runPhase = "idle"
    /\ asked \in Lines
    /\ step = TsStage
    /\ given = NoTree
    /\ inherited = asked.params
    /\ reported = NoTree
    /\ again = FALSE

\* artifacts_unchanged.  FAULT: a file that exists is the recorded one.
Exists(r) == tree[r.dir][r.stage] # 0

Unchanged(r) == tree[r.dir] = r.tree

\* corrections is hashed from the tree that timeseries recorded, geocode from
\* that of corrections (the optional input mintpy_workdir).
NodeOf(s, p, t) == [stage |-> s, params |-> IF s = GeoStage THEN NoParams ELSE p, in |-> t]

IsOf(r, n) == r.stage = n.stage /\ r.params = n.params /\ r.in = n.in

Here == NodeOf(step, asked.params, given)

\* The fresh cache hit for the stage the run is at.
CacheHits ==
    IF step >= asked.force THEN {}
    ELSE { r \in records : IsOf(r, Here) /\ Unchanged(r) }

\* The newest intact record of the stage, for --from.
LatestOf(s) == { r \in records : /\ r.stage = s /\ Unchanged(r)
                                 /\ \A q \in records : q.stage = s /\ Unchanged(q) => q.at <= r.at }

StartRun(l) ==
    /\ runPhase \in {"idle", "failed", "finished"}
    /\ runPhase' = "walk" /\ asked' = l
    /\ again' = (runPhase = "finished" /\ l = asked)
    /\ step' = TsStage /\ given' = NoTree /\ inherited' = l.params
    /\ reported' = NoTree
    /\ UNCHANGED <<tree, records, written, makings>>

UseRecord(r) ==
    /\ reported' = [reported EXCEPT ![step] = r.tree[step]]
    /\ given' = r.tree /\ inherited' = r.dir
    /\ IF step = GeoStage THEN runPhase' = "finished" /\ UNCHANGED step
       ELSE step' = step + 1 /\ UNCHANGED runPhase
    /\ UNCHANGED <<tree, records, written, makings, asked, again>>

ServeRecord == runPhase = "walk" /\ \E r \in CacheHits : UseRecord(r)

\* Before --from: whatever parameters the record was computed with.
StandIn ==
    /\ runPhase = "walk" /\ CacheHits = {} /\ step < asked.from
    /\ \E r \in LatestOf(step) : UseRecord(r)

\* The run ends with a failed stage, or dies.
Stops ==
    /\ runPhase' = "failed"
    /\ step' = TsStage /\ given' = NoTree /\ inherited' = asked.params
    /\ reported' = NoTree /\ again' = FALSE
    /\ UNCHANGED asked

\* PIPELINE-002.
NothingStandsIn ==
    /\ runPhase = "walk" /\ CacheHits = {} /\ step < asked.from
    /\ LatestOf(step) = {}
    /\ Stops
    /\ UNCHANGED <<tree, records, written, makings>>

Replaced == { r \in records : ~IsOf(r, Here) }

\* The node is prepared: out/ is emptied, and with it timeseries empties the
\* work directory; the others work in the one they inherit.
StartStage ==
    /\ runPhase = "walk" /\ CacheHits = {} /\ step >= asked.from
    /\ runPhase' = "engine"
    /\ tree' = IF step = TsStage THEN [tree EXCEPT ![asked.params] = NoTree] ELSE tree
    /\ inherited' = IF step = TsStage THEN asked.params ELSE inherited
    /\ records' = Replaced
    /\ UNCHANGED <<written, makings, asked, step, given, reported, again>>

\* The steps of the stage have written its products, all or some of them.
Writes ==
    /\ written < MaxProducts
    /\ written' = written + 1
    /\ tree' = [tree EXCEPT ![inherited][step] = written + 1]
    /\ makings' = [n \in 1 .. written + 1 |->
                   IF n <= written THEN makings[n]
                   ELSE [with |-> inherited,
                         from |-> IF step = TsStage THEN 0 ELSE tree[inherited][step - 1]]]

WritesNothing == UNCHANGED <<tree, written, makings>>

StageOk ==
    /\ runPhase = "engine"
    /\ Writes
    /\ records' = records \union
          {[stage |-> step, params |-> Here.params, in |-> given,
            dir |-> inherited, tree |-> tree'[inherited], at |-> written']}
    /\ reported' = [reported EXCEPT ![step] = written']
    /\ given' = tree'[inherited]
    /\ IF step = GeoStage THEN runPhase' = "finished" /\ UNCHANGED step
       ELSE runPhase' = "walk" /\ step' = step + 1
    /\ UNCHANGED <<asked, inherited, again>>

\* A stage fails (MP-001), a product is missing after the last (MP-007), or
\* the run dies.
StageFails ==
    /\ runPhase = "engine"
    /\ Writes \/ WritesNothing
    /\ Stops
    /\ UNCHANGED records

MintPyNext ==
    \/ \E l \in Lines : StartRun(l)
    \/ ServeRecord \/ StandIn \/ NothingStandsIn
    \/ StartStage \/ StageOk \/ StageFails

MintPySpec == MintPyInit /\ [][MintPyNext]_mintpyvars

-----------------------------------------------------------------------------
(* Properties.                                                              *)

MintPyTypeOK ==
    /\ tree \in [Params -> Tree]
    /\ records \subseteq TsRecord
    /\ written \in Products
    /\ makings \in [1 .. written -> [with : Params, from : Products]]
    /\ runPhase \in MintPyPhase
    /\ asked \in MintPyLine
    /\ step \in MintPyStages
    /\ given \in Tree
    /\ inherited \in Params
    /\ reported \in Tree
    /\ again \in BOOLEAN

\* Of the stages from --from on, the products that a finished run reports are
\* in the work directory, each made from the reported product of the stage
\* before it; without --from, all of them with the run's own parameters.
\* (Records of different parameters share a directory after a --from, and
\* stages that failed or died leave products.)
ReportedChain ==
    runPhase = "finished" =>
        /\ \A s \in asked.from .. GeoStage :
             /\ reported[s] # 0 /\ reported[s] = tree[inherited][s]
             /\ s > TsStage => makings[reported[s]].from = reported[s - 1]
        /\ asked.from = TsStage =>
             \A s \in MintPyStages : makings[reported[s]].with = asked.params

\* docs/tutorials/hyp3-quickstart.md: "MintPy runs timeseries -> corrections
\* -> geocode; a second `run` is fully cached".
SecondRunIsCached ==
    again /\ asked.from = TsStage /\ asked.force > GeoStage => runPhase # "engine"
=============================================================================
