------------------------------ MODULE StageGraph ------------------------------
(***************************************************************************)
(* The graph of the eleven stages: how a configuration makes it, what the   *)
(* plan says of it, and what the run that follows does with it.             *)
(*                                                                         *)
(* Source: pipeline/{stages,dag,plan,executor,api}.py.  Runs come one after *)
(* the other (RunCache models runs that interleave, on a chain); between    *)
(* them results are evicted.  Parameters are one value that enters every    *)
(* node's hash from the unwrapping on, the date set is constant, and what a *)
(* stage has computed is named by the number of the execution.              *)
(***************************************************************************)
EXTENDS Integers, FiniteSets, Sequences, FiniteSetsExt

CONSTANTS
    Configs,    \* configurations: engines, ground truth, tuning parameter
    GraphLines, \* the command lines: --until, --from, --force
    MaxGraphRuns, MaxEvictions  \* bounds

-----------------------------------------------------------------------------
(* The stages.                                                              *)

StageOrder == << "search", "precheck", "fetch", "coregister", "interferogram",
                 "multilook", "unwrap", "timeseries", "corrections", "geocode",
                 "validate" >>

Index == DOMAIN StageOrder

Inputs(s) ==
    CASE s = "precheck" -> <<"candidates">>
      [] s = "fetch" -> <<"stack">>
      [] s = "coregister" -> <<"slc_manifest">>
      [] s = "interferogram" -> <<"coreg_manifest">>
      [] s \in {"multilook", "unwrap"} -> <<"igrams">>
      [] s = "timeseries" -> <<"unw", "igrams">>
      [] s \in {"corrections", "geocode"} -> <<"timeseries">>
      [] OTHER -> <<>>

OptionalInputs(s) ==
    CASE s \in {"coregister", "interferogram", "multilook"} -> {"stack"}
      [] s \in {"corrections", "geocode"} -> {"mintpy_workdir"}
      [] s = "validate" -> {"velocity", "timeseries"}
      [] OTHER -> {}

Outputs(s) ==
    CASE s = "search" -> {"candidates"}
      [] s = "precheck" -> {"stack", "precheck_report"}
      [] s = "fetch" -> {"slc_manifest"}
      [] s = "coregister" -> {"coreg_manifest"}
      [] s \in {"interferogram", "multilook"} -> {"igrams"}
      [] s = "unwrap" -> {"unw"}
      [] s = "timeseries" -> {"timeseries", "mintpy_workdir"}
      [] s = "corrections" -> {"timeseries", "velocity", "mintpy_workdir"}
      [] s = "geocode" -> {"velocity"}
      [] s = "validate" -> {"validation_report"}

ArtifactNames == UNION { Outputs(StageOrder[i]) : i \in Index }

PythonStages == {"search", "precheck", "validate"}

IncrementalStages == {"fetch", "coregister", "interferogram", "multilook", "unwrap"}

-----------------------------------------------------------------------------
(* A configuration c : [ig, method, ts, truth, tuning].                     *)

Config == [ig : {"hyp3", "isce2_topsstack", "compass_isce3", "fake"},
           method : {"snaphu", "tophu", "spurt", "auto"},
           ts : {"mintpy", "dolphin", "fake"},
           truth : BOOLEAN,
           tuning : {1, 2}]

GraphLine == [until : Index, from : 0 .. Len(StageOrder), force : SUBSET Index]

ASSUME ConfigAssumption == Configs \subseteq Config /\ Configs # {}
ASSUME GraphLineAssumption == GraphLines \subseteq GraphLine /\ GraphLines # {}
ASSUME GraphBoundAssumption == MaxGraphRuns \in Nat /\ MaxEvictions \in Nat

FakePath(c) == c.ig = "fake"

EngineOf(c, s) ==
    IF s \in PythonStages THEN "none"
    ELSE IF FakePath(c) THEN "fake"
    ELSE IF s \in {"fetch", "coregister", "interferogram", "multilook"} THEN c.ig
    ELSE IF s = "unwrap" THEN IF c.method = "auto" THEN "snaphu" ELSE c.method
    ELSE c.ts

\* Engine.stages of the registered engines.
StagesOf(e) ==
    CASE e = "hyp3" -> {"interferogram"}
      [] e = "isce2_topsstack" -> {"fetch", "coregister", "interferogram", "multilook"}
      [] e = "mintpy" -> {"timeseries", "corrections", "geocode"}
      [] e = "dolphin" -> {"timeseries"}
      [] e = "fake" -> {StageOrder[i] : i \in Index} \ PythonStages
      [] e \in {"snaphu", "tophu", "spurt"} -> {"unwrap"}

Registered(e) == e # "compass_isce3"

\* Engine.produces: HyP3 products are unwrapped.
BundlesUnwrapping(e) == e = "hyp3"

\* skip_reason of a node.
SkipReason(c, s) ==
    IF s \in {"search", "precheck"} /\ FakePath(c) THEN "fake_path"
    ELSE IF s = "validate" /\ ~c.truth THEN "not_configured"
    ELSE IF s = "unwrap" /\ BundlesUnwrapping(c.ig) THEN "produced_upstream"
    ELSE LET e == EngineOf(c, s) IN
         IF s \notin PythonStages /\ Registered(e) /\ s \notin StagesOf(e)
         THEN "engine_no_stage" ELSE "none"

Skipped(c, s) == SkipReason(c, s) # "none"

\* spec.outputs of a node.
Declares(c, s) ==
    Outputs(s) \union (IF s = "interferogram" /\ BundlesUnwrapping(c.ig) THEN {"unw"} ELSE {})

\* What an execution leaves: only MintPy has a work directory to hand on.
Yields(c, s) ==
    IF EngineOf(c, s) = "mintpy" THEN Declares(c, s)
    ELSE Declares(c, s) \ {"mintpy_workdir"}

\* _link_producers: for stage i and artifact n, the last stage before i that
\* is not skipped and declares n; 0 when there is none.
Links(c) ==
    LET gives == [j \in Index |-> IF Skipped(c, StageOrder[j]) THEN {}
                                  ELSE Declares(c, StageOrder[j])]
        last(i, n) == Max({0} \union { j \in 1 .. i - 1 : n \in gives[j] })
    IN  [i \in Index |-> [n \in ArtifactNames |-> last(i, n)]]

InputNames(s) == { Inputs(s)[k] : k \in DOMAIN Inputs(s) }

\* FAULT: what an engine has skipped itself is missed.
NothingTolerated(c, until, s, n) == FALSE

\* A missing input is tolerated when its last producer in the window was
\* skipped, and the consumer is the fake engine or has the same engine.
Tolerated(c, until, s, n) ==
    LET skippers == { j \in 1 .. until : /\ Skipped(c, StageOrder[j])
                                         /\ n \in Declares(c, StageOrder[j]) }
    IN  /\ skippers # {}
        /\ LET j == CHOOSE j \in skippers : \A k \in skippers : k <= j
           IN  \/ EngineOf(c, s) = "fake"
               \/ EngineOf(c, s) # "none" /\ EngineOf(c, s) = EngineOf(c, StageOrder[j])

\* _apply_force: the forced stages and what their artifacts reach.
ForceClosure(c, l, link) ==
    LET reached[i \in Index] ==
            \/ i \in l.force
            \/ \E n \in InputNames(StageOrder[i]) \union OptionalInputs(StageOrder[i]) :
                  link[i][n] # 0 /\ reached[link[i][n]]
    IN  { i \in 1 .. l.until : reached[i] /\ ~Skipped(c, StageOrder[i]) }

-----------------------------------------------------------------------------
(* Nodes and records.                                                       *)

\* A node hash is the record of what enters it; an input enters as its content
\* or as the node hash of its producer.
NoHash == [stage |-> "none", params |-> 0, engine |-> "none", ids |-> {}]

Absent == [n \in ArtifactNames |-> 0]

\* The tuning parameter is one of the unwrap and timeseries sections.
ParamsOf(c, s) ==
    IF s \in {"unwrap", "timeseries", "corrections"} THEN c.tuning ELSE 0

\* Dag.resolve.  from: the producers of the node's inputs; had: tokens of the
\* available artifacts; hashed: node hashes of the stages before i.
Resolve(c, until, i, from, had, hashed) ==
    LET s == StageOrder[i]
        linked(n) == from[n] # 0 /\ {s, StageOrder[from[n]]} \subseteq IncrementalStages
        ident(n) == IF linked(n) THEN [name |-> n, node |-> hashed[from[n]], token |-> 0]
                    ELSE [name |-> n, node |-> NoHash, token |-> had[n]]
        known(n) == IF linked(n) THEN hashed[from[n]] # NoHash ELSE had[n] # 0
        missing(n) == had[n] = 0 /\ from[n] = 0
        stops(k) == LET n == Inputs(s)[k] IN
                    IF missing(n) THEN ~Tolerated(c, until, s, n) ELSE ~known(n)
        bad == { k \in DOMAIN Inputs(s) : stops(k) }
        needed == { n \in InputNames(s) : ~missing(n) }
        optional == { n \in OptionalInputs(s) : had[n] # 0 }
        entering == { n \in needed \union optional :
                        s \in IncrementalStages => n # "stack" }
    IN  IF bad # {}
        THEN [hash |-> NoHash, complete |-> FALSE, content |-> Absent,
              missing |-> LET k == CHOOSE k \in bad : \A j \in bad : k <= j
                          IN  missing(Inputs(s)[k])]
        ELSE [hash |-> [stage |-> s, params |-> ParamsOf(c, s), engine |-> EngineOf(c, s),
                        ids |-> { ident(n) : n \in entering }],
              complete |-> \A n \in needed : had[n] # 0,
              content |-> [n \in ArtifactNames |->
                              IF n \in needed \union optional THEN had[n] ELSE 0],
              missing |-> FALSE]

\* An intact `ok` record: its node, the contents it was computed from, the
\* artifacts and their token.
NoGraphRecord == [hash |-> NoHash, content |-> Absent, gives |-> {}, token |-> 0]

FreshRecord(r, content) ==
    r.hash.stage \in IncrementalStages => r.content = content

\* Dag.lookup.
LookupRecord(past, forced, res) ==
    LET found == { r \in past : r.hash = res.hash /\ FreshRecord(r, res.content) }
    IN  IF forced \/ ~res.complete \/ found = {} THEN NoGraphRecord
        ELSE CHOOSE r \in found : TRUE

\* cache.latest_record.
LatestRecord(past, s) ==
    LET all == { r \in past : r.hash.stage = s }
    IN  IF all = {} THEN NoGraphRecord
        ELSE CHOOSE r \in all : \A q \in all : q.token <= r.token

Merged(av, gives, token) ==
    [n \in ArtifactNames |-> IF n \in gives THEN token ELSE av[n]]

-----------------------------------------------------------------------------
VARIABLES
    past,       \* the intact records
    config, cmd, \* what was asked
    links, forced, \* the graph's edges, and the nodes whose cache is not used
    nodes,      \* the plan: a status and a record for each stage
    phase, pos, \* "idle", "plan" or "run", and the stage it is at
    outcome,    \* "none", or how the run ended
    avail, hashes, \* the artifacts and node hashes so far, of the plan or the run
    executed,   \* the stages the run executed
    recordOf,   \* the record it reports for every stage so far
    tokens, graphRuns, evictions  \* counters

graphvars == <<past, config, cmd, links, forced, nodes, phase, pos, outcome, avail,
               hashes, executed, recordOf, tokens, graphRuns, evictions>>

NotPlanned == [status |-> "none", record |-> NoGraphRecord, standsIn |-> FALSE]

GraphInit ==
    /\ past = {}
    /\ config = CHOOSE c \in Configs : TRUE
    /\ cmd = CHOOSE l \in GraphLines : TRUE
    /\ links = Links(config) /\ forced = {} /\ nodes = [i \in Index |-> NotPlanned]
    /\ phase = "idle" /\ pos = 1 /\ outcome = "none"
    /\ avail = Absent /\ hashes = [i \in Index |-> NoHash]
    /\ executed = {} /\ recordOf = [i \in Index |-> NoGraphRecord]
    /\ tokens = 0 /\ graphRuns = 0 /\ evictions = 0

\* Dag.resolve at the stage where the plan or the run is.
Resolution == Resolve(config, cmd.until, pos, links[pos], avail, hashes)

-----------------------------------------------------------------------------
(* The plan.                                                                *)

\* Dag.build.
PlanBegins(c, l) ==
    /\ phase = "idle" /\ graphRuns < MaxGraphRuns
    /\ graphRuns' = graphRuns + 1
    /\ config' = c /\ cmd' = l
    /\ links' = Links(c) /\ forced' = ForceClosure(c, l, links')
    /\ nodes' = [i \in Index |-> NotPlanned]
    /\ phase' = "plan" /\ pos' = 1 /\ outcome' = "none"
    /\ avail' = Absent /\ hashes' = [i \in Index |-> NoHash]
    /\ executed' = {} /\ recordOf' = [i \in Index |-> NoGraphRecord]
    /\ UNCHANGED <<past, tokens, evictions>>

\* What the plan says of a stage.
Noted(status, hash, rec, standsIn) ==
    /\ nodes' = [nodes EXCEPT ![pos] =
                     [status |-> status, record |-> rec, standsIn |-> standsIn]]
    /\ avail' = Merged(avail, rec.gives, rec.token)
    /\ hashes' = [hashes EXCEPT ![pos] = hash]
    /\ pos' = pos + 1
    /\ UNCHANGED <<past, config, cmd, links, phase, outcome, executed, recordOf, tokens,
                   graphRuns, evictions>>

PlanSkips ==
    /\ Skipped(config, StageOrder[pos])
    /\ Noted("skipped", NoHash, NoGraphRecord, FALSE)
    /\ UNCHANGED forced

\* One round of Dag.resolve_all.  A stage before --from without a hit takes
\* the newest record, and is then not forced any more.
PlanResolves(res, hit) ==
    LET before == pos < cmd.from
        fails == res.missing \/ ~Registered(EngineOf(config, StageOrder[pos]))
        newest == LatestRecord(past, StageOrder[pos])
    IN
    /\ ~Skipped(config, StageOrder[pos])
    /\ \/ /\ hit # NoGraphRecord
          /\ Noted(IF fails THEN "blocked" ELSE "cached", hit.hash, hit, FALSE)
          /\ UNCHANGED forced
       \/ /\ hit = NoGraphRecord /\ before /\ newest # NoGraphRecord
          /\ Noted(IF fails THEN "blocked" ELSE "cached", newest.hash, newest, TRUE)
          /\ forced' = forced \ {pos}
       \/ /\ hit = NoGraphRecord /\ (before => newest = NoGraphRecord)
          /\ Noted(IF before \/ fails THEN "blocked" ELSE "to_run", res.hash,
                   NoGraphRecord, FALSE)
          /\ UNCHANGED forced

PlanStage ==
    /\ phase = "plan" /\ pos <= cmd.until
    /\ \/ PlanSkips
       \/ \E res \in {Resolution} :
             PlanResolves(res, LookupRecord(past, pos \in forced, res))

\* api.run: nothing is executed when the plan holds a FAIL.
PlanEnds ==
    /\ phase = "plan" /\ pos > cmd.until
    /\ IF \E i \in 1 .. cmd.until : nodes[i].status = "blocked"
       THEN phase' = "idle" /\ outcome' = "refused"
       ELSE phase' = "run" /\ UNCHANGED outcome
    /\ pos' = 1
    /\ avail' = Absent /\ hashes' = [i \in Index |-> NoHash]
    /\ UNCHANGED <<past, config, cmd, links, forced, nodes, executed, recordOf, tokens,
                   graphRuns, evictions>>

-----------------------------------------------------------------------------
(* The run.                                                                 *)

GoesOn ==
    IF pos = cmd.until THEN phase' = "idle" /\ outcome' = "ok" /\ UNCHANGED pos
    ELSE pos' = pos + 1 /\ UNCHANGED <<phase, outcome>>

RunStops(how) == phase' = "idle" /\ outcome' = how /\ UNCHANGED pos

SkipStage ==
    /\ GoesOn
    /\ UNCHANGED <<past, config, cmd, links, forced, nodes, avail, hashes, executed,
                   recordOf, tokens, graphRuns, evictions>>

\* A record is used: the one that stands in, or the one that is found.
ServeStage(r) ==
    /\ r # NoGraphRecord
    /\ recordOf' = [recordOf EXCEPT ![pos] = r]
    /\ avail' = Merged(avail, r.gives, r.token)
    /\ hashes' = [hashes EXCEPT ![pos] = r.hash]
    /\ GoesOn
    /\ UNCHANGED <<past, config, cmd, links, forced, nodes, executed, tokens, graphRuns,
                   evictions>>

\* "stage ... is blocked".
BlockedMidway(res, r) ==
    /\ r = NoGraphRecord
    /\ ~res.complete \/ pos < cmd.from
    /\ RunStops("blocked")
    /\ UNCHANGED <<past, config, cmd, links, forced, nodes, avail, hashes, executed,
                   recordOf, tokens, graphRuns, evictions>>

\* The record of the node is replaced by a `running` one, and that by the
\* result's; MaxGraphRuns bounds the tokens.
ExecuteStage(res, r) ==
    LET others == { q \in past : q.hash # res.hash }
        result == [hash |-> res.hash, content |-> res.content,
                   gives |-> Yields(config, StageOrder[pos]), token |-> tokens + 1]
    IN
    /\ r = NoGraphRecord
    /\ res.complete /\ pos >= cmd.from
    /\ \/ /\ past' = others \union {result}
          /\ tokens' = tokens + 1
          /\ recordOf' = [recordOf EXCEPT ![pos] = result]
          /\ avail' = Merged(avail, result.gives, result.token)
          /\ hashes' = [hashes EXCEPT ![pos] = result.hash]
          /\ GoesOn
       \/ /\ past' = others
          /\ RunStops("failed")
          /\ UNCHANGED <<tokens, recordOf, avail, hashes>>
    /\ executed' = executed \union {pos}
    /\ UNCHANGED <<config, cmd, links, forced, nodes, graphRuns, evictions>>

\* One round of Executor.run.
RunStage ==
    /\ phase = "run"
    /\ IF nodes[pos].status = "skipped" THEN SkipStage
       ELSE \E res \in {Resolution} :
            \E r \in { IF nodes[pos].standsIn THEN nodes[pos].record
                        ELSE LookupRecord(past, pos \in forced, res) } :
               \/ ServeStage(r)
               \/ BlockedMidway(res, r)
               \/ ExecuteStage(res, r)

\* Between two runs: the outputs of a record are deleted or changed.
Evict ==
    /\ phase = "idle" /\ evictions < MaxEvictions
    /\ evictions' = evictions + 1
    /\ \E r \in past : past' = past \ {r}
    /\ UNCHANGED <<config, cmd, links, forced, nodes, phase, pos, outcome, avail, hashes,
                   executed, recordOf, tokens, graphRuns>>

GraphNext ==
    \/ \E c \in Configs : \E l \in GraphLines : PlanBegins(c, l)
    \/ PlanStage \/ PlanEnds \/ RunStage \/ Evict

GraphSpec == GraphInit /\ [][GraphNext]_graphvars

-----------------------------------------------------------------------------
(* Properties.                                                              *)

\* The last stage before i whose record gives n.
GivenBy(i, n) ==
    LET before == { j \in 1 .. i - 1 : n \in recordOf[j].gives }
    IN  IF before = {} THEN 0 ELSE CHOOSE j \in before : \A k \in before : k <= j

\* The plan of a run and the run agree.  A stage before --from is never
\* executed, and a stage that the plan calls cached only behind one that it
\* says will run (a new result may not be the one the plan saw): a plan with
\* nothing to run executes nothing.  A run is refused only for an engine that
\* does not exist or, with --from, for a stage before it that has no result;
\* it is blocked halfway only behind a result that stands in and lacks what
\* the stage declares.  What a finished run reports from --from on was
\* computed from what it reports for the stages before.
PlanIsKept ==
    /\ \A i \in executed : i >= cmd.from /\ \E j \in 1 .. i : nodes[j].status = "to_run"
    /\ outcome = "refused" =>
          \E i \in 1 .. cmd.until :
             \/ /\ ~Skipped(config, StageOrder[i])
                /\ ~Registered(EngineOf(config, StageOrder[i]))
             \/ i < cmd.from /\ \A r \in past : r.hash.stage # StageOrder[i]
    /\ outcome = "blocked" =>
          \E i \in 1 .. cmd.until : /\ nodes[i].standsIn
                                  /\ ~(Yields(config, StageOrder[i]) \subseteq nodes[i].record.gives)
    /\ outcome = "ok" =>
          \A i \in 1 .. cmd.until : \A n \in ArtifactNames :
             LET p == GivenBy(i, n) IN
             (i >= cmd.from /\ recordOf[i].content[n] # 0) =>
                p # 0 /\ recordOf[i].content[n] = recordOf[p].token
=============================================================================
