-------------------------- MODULE StageGraph_proofs --------------------------
(***************************************************************************)
(* PlanIsKept of StageGraph, for every set of configurations and command    *)
(* lines and any number of runs and evictions.                              *)
(*                                                                          *)
(* Four things carry it.  A stage that is asked to run and whose engine is   *)
(* registered misses no input (NothingMissing, from the tables): only what is*)
(* blocked before --from, or an unknown engine, refuses a run.  A record's   *)
(* hash tells the contents it was made from, for a stage that is not         *)
(* incremental, and the lookup compares them for the others                  *)
(* (HashTellsContent): what is used fits what is there.  Before the first    *)
(* stage that will run, the run is where the plan was (PlanState, PlanFinds, *)
(* RunState), so that it finds what the plan found and executes nothing.     *)
(* And what a record gives depends on engine and stage only (YieldsAre), so  *)
(* that only a result that stands in for another engine's can lack something.*)
(***************************************************************************)
EXTENDS StageGraph, WellFoundedInduction, NaturalsInduction, TLAPS

-----------------------------------------------------------------------------
(* The tables.                                                              *)

LEMMA GraphStagesAre ==
    /\ Index = 1 .. 11 /\ Len(StageOrder) = 11
    /\ StageOrder[1] = "search" /\ StageOrder[2] = "precheck" /\ StageOrder[3] = "fetch"
    /\ StageOrder[4] = "coregister" /\ StageOrder[5] = "interferogram"
    /\ StageOrder[6] = "multilook" /\ StageOrder[7] = "unwrap"
    /\ StageOrder[8] = "timeseries" /\ StageOrder[9] = "corrections"
    /\ StageOrder[10] = "geocode" /\ StageOrder[11] = "validate"
BY DEF Index, StageOrder

GraphStages == { StageOrder[i] : i \in Index }

\* A set of stages has a last one.
LEMMA LastExists ==
    ASSUME NEW S, S \subseteq 0 .. 11, S # {}
    PROVE  \E m \in S : \A k \in S : k <= m
<1>1. CASE 11 \in S
    BY <1>1
<1>2. CASE 11 \notin S /\ 10 \in S
    BY <1>2
<1>3. CASE S \subseteq 0 .. 9 /\ 9 \in S
    BY <1>3
<1>4. CASE S \subseteq 0 .. 8 /\ 8 \in S
    BY <1>4
<1>5. CASE S \subseteq 0 .. 7 /\ 7 \in S
    BY <1>5
<1>6. CASE S \subseteq 0 .. 6 /\ 6 \in S
    BY <1>6
<1>7. CASE S \subseteq 0 .. 5 /\ 5 \in S
    BY <1>7
<1>8. CASE S \subseteq 0 .. 4 /\ 4 \in S
    BY <1>8
<1>9. CASE S \subseteq 0 .. 3
    <2>1. CASE 3 \in S
        BY <1>9, <2>1
    <2>2. CASE 3 \notin S /\ 2 \in S
        BY <1>9, <2>2
    <2>3. CASE S \subseteq 0 .. 1
        <3>1. CASE 1 \in S
            BY <2>3, <3>1
        <3>2. CASE 1 \notin S
            <4>1. \A k \in S : k = 0
                BY <2>3, <3>2
            <4>2. PICK m \in S : TRUE
                OBVIOUS
            <4> QED
                BY <4>1, <4>2
        <3> QED
            BY <3>1, <3>2
    <2> QED
        BY <1>9, <2>1, <2>2, <2>3
<1> QED
    BY <1>1, <1>2, <1>3, <1>4, <1>5, <1>6, <1>7, <1>8, <1>9

\* _link_producers.
LEMMA LinkFacts ==
    ASSUME NEW c, NEW i \in Index, NEW n \in ArtifactNames
    PROVE  /\ Links(c)[i][n] \in 0 .. (i - 1)
           /\ LET j == Links(c)[i][n] IN
                j # 0 => ~Skipped(c, StageOrder[j]) /\ n \in Declares(c, StageOrder[j])
           /\ \A j \in 1 .. (i - 1) :
                ~Skipped(c, StageOrder[j]) /\ n \in Declares(c, StageOrder[j])
                   => Links(c)[i][n] # 0
<1> DEFINE gives == [j \in Index |-> IF Skipped(c, StageOrder[j]) THEN {}
                                     ELSE Declares(c, StageOrder[j])]
           B == {0} \union { j \in 1 .. i - 1 : n \in gives[j] }
<1>1. Links(c)[i][n] = Max(B)
    BY DEF Links
<1>2. B \subseteq 0 .. 11 /\ 0 \in B /\ Index = 1 .. 11
    BY GraphStagesAre
<1>3. \E m \in B : \A k \in B : k <= m
    BY <1>2, LastExists
<1>4. Max(B) \in B /\ \A k \in B : k <= Max(B)
    BY <1>2, <1>3 DEF Max
<1> HIDE DEF B
<1>5. \A j \in B : j # 0 => ~Skipped(c, StageOrder[j]) /\ n \in Declares(c, StageOrder[j])
    BY <1>2 DEF B
<1>6. \A j \in 1 .. (i - 1) : ~Skipped(c, StageOrder[j]) /\ n \in Declares(c,
StageOrder[j]) => j \in B
    BY <1>2 DEF B
<1>7. B \subseteq 0 .. (i - 1)
    BY <1>2 DEF B
<1> DEFINE l == Links(c)[i][n]
<1>8. l \in B /\ \A k \in B : k <= l
    BY <1>1, <1>4
<1> HIDE DEF l
<1>9. /\ l \in 0 .. (i - 1)
      /\ l # 0 => ~Skipped(c, StageOrder[l]) /\ n \in Declares(c, StageOrder[l])
    BY <1>5, <1>7, <1>8
<1>10. \A j \in 1 .. (i - 1) :
         ~Skipped(c, StageOrder[j]) /\ n \in Declares(c, StageOrder[j]) => l # 0
    BY <1>2, <1>6, <1>7, <1>8
<1> QED
    BY <1>9, <1>10 DEF l

\* What an execution leaves depends on the engine and the stage alone.
GivesOf(e, s) ==
    (Outputs(s) \union (IF s = "interferogram" /\ e = "hyp3" THEN {"unw"} ELSE {}))
    \ (IF e = "mintpy" THEN {} ELSE {"mintpy_workdir"})

LEMMA YieldsAre ==
    ASSUME NEW c \in Config, NEW s \in GraphStages
    PROVE  Yields(c, s) = GivesOf(EngineOf(c, s), s)
<1>1. s = "interferogram" => (BundlesUnwrapping(c.ig) <=> EngineOf(c, s) = "hyp3")
    BY DEF BundlesUnwrapping, EngineOf, PythonStages, FakePath, Config
<1> QED
    BY <1>1 DEF Yields, Declares, GivesOf

LEMMA DeclaredIsYielded ==
    ASSUME NEW c \in Config, NEW s \in GraphStages, NEW t \in GraphStages, NEW n \in InputNames(t),
           n \in Declares(c, s)
    PROVE  n \in Yields(c, s)
<1>1. n # "mintpy_workdir"
    BY GraphStagesAre DEF InputNames, Inputs, GraphStages
<1> QED
    BY <1>1 DEF Yields

\* skip_reason, stage by stage.
LEMMA Skips ==
    ASSUME NEW c \in Config
    PROVE  /\ Skipped(c, "search") <=> c.ig = "fake"
           /\ Skipped(c, "precheck") <=> c.ig = "fake"
           /\ Skipped(c, "fetch") <=> c.ig = "hyp3"
           /\ Skipped(c, "coregister") <=> c.ig = "hyp3"
           /\ ~Skipped(c, "interferogram")
           /\ Skipped(c, "multilook") <=> c.ig = "hyp3"
           /\ Skipped(c, "unwrap") <=> c.ig = "hyp3"
           /\ ~Skipped(c, "timeseries")
           /\ Skipped(c, "corrections") => EngineOf(c, "corrections") = "dolphin"
           /\ Skipped(c, "corrections") <=> Skipped(c, "geocode")
<1> USE DEF Skipped, SkipReason, FakePath, PythonStages, EngineOf, StagesOf, Registered,
            BundlesUnwrapping, Config
<1>1. \A s \in {"search", "precheck"} : Skipped(c, s) <=> c.ig = "fake"
    OBVIOUS
<1>2. \A s \in {"fetch", "coregister", "multilook"} : Skipped(c, s) <=> c.ig = "hyp3"
    <2>1. CASE c.ig = "fake"
        BY <2>1, GraphStagesAre
    <2>2. CASE c.ig # "fake"
        BY <2>2
    <2> QED
        BY <2>1, <2>2
<1>3. ~Skipped(c, "interferogram")
    BY GraphStagesAre
<1>4. Skipped(c, "unwrap") <=> c.ig = "hyp3"
    BY GraphStagesAre
<1>5. ~Skipped(c, "timeseries")
    BY GraphStagesAre
<1>6. Skipped(c, "corrections") => EngineOf(c, "corrections") = "dolphin"
    BY GraphStagesAre
<1>7. Skipped(c, "corrections") <=> Skipped(c, "geocode")
    BY GraphStagesAre
<1> QED
    BY <1>1, <1>2, <1>3, <1>4, <1>5, <1>6, <1>7

\* An input that no stage of the window gives was left out by the consumer's
\* own engine (build, _tolerates_missing).
LEMMA NothingMissing ==
    ASSUME NEW c \in Config, NEW i \in Index, NEW until \in i .. 11,
           ~Skipped(c, StageOrder[i]), Registered(EngineOf(c, StageOrder[i])),
           NEW n \in InputNames(StageOrder[i]), Links(c)[i][n] = 0
    PROVE  Tolerated(c, until, StageOrder[i], n)
<1> DEFINE s == StageOrder[i]
           Left(j) == Skipped(c, StageOrder[j]) /\ n \in Declares(c, StageOrder[j])
<1>1. /\ i \in 1 .. 11
      /\ s \in {"precheck", "fetch", "coregister", "interferogram", "multilook", "unwrap",
                "timeseries", "corrections", "geocode"}
    BY GraphStagesAre DEF InputNames, Inputs
<1>2. n \in ArtifactNames
    BY <1>1, GraphStagesAre DEF InputNames, Inputs, ArtifactNames, Outputs
<1>3. \A j \in 1 .. (i - 1) : n \in Declares(c, StageOrder[j]) => Skipped(c,
StageOrder[j])
    BY <1>2, LinkFacts
<1>4. CASE s = "precheck"
    <2>1. i = 2 /\ n = "candidates"
        BY <1>1, <1>4, GraphStagesAre DEF InputNames, Inputs
    <2> QED
        BY <1>3, <1>4, <2>1, GraphStagesAre, Skips DEF Declares, Outputs
<1>5. CASE s = "fetch"
    <2>1. i = 3 /\ n = "stack"
        BY <1>1, <1>5, GraphStagesAre DEF InputNames, Inputs
    <2>2. c.ig = "fake"
        BY <1>3, <2>1, GraphStagesAre, Skips DEF Declares, Outputs
    <2> QED
        BY <2>1, <2>2, GraphStagesAre, Skips
           DEF Declares, Outputs, Tolerated, EngineOf, FakePath, PythonStages
<1>6. CASE s = "coregister"
    <2>1. i = 4 /\ n = "slc_manifest"
        BY <1>1, <1>6, GraphStagesAre DEF InputNames, Inputs
    <2> QED
        BY <1>3, <1>6, <2>1, GraphStagesAre, Skips DEF Declares, Outputs
<1>7. CASE s = "interferogram"
    <2>1. i = 5 /\ n = "coreg_manifest"
        BY <1>1, <1>7, GraphStagesAre DEF InputNames, Inputs
    <2>2. c.ig = "hyp3"
        BY <1>3, <2>1, GraphStagesAre, Skips DEF Declares, Outputs
    <2> DEFINE skippers == { j \in 1 .. until : Left(j) }
    <2>3. \A j \in 1 .. 11 : n \in Declares(c, StageOrder[j]) => j = 4
        BY <2>1, GraphStagesAre DEF Declares, Outputs
    <2>4. Left(4)
        BY <2>1, <2>2, GraphStagesAre, Skips DEF Declares, Outputs
    <2>5. skippers = {4}
        BY <2>1, <2>3, <2>4
    <2>6. EngineOf(c, s) = "hyp3" /\ EngineOf(c, StageOrder[4]) = "hyp3"
        BY <1>7, <2>2, GraphStagesAre DEF EngineOf, FakePath, PythonStages
    <2>7. (CHOOSE j \in {4} : \A k \in {4} : k <= j) = 4
        OBVIOUS
    <2> HIDE DEF skippers, Left
    <2>8. LET j == CHOOSE j \in skippers : \A k \in skippers : k <= j
          IN  EngineOf(c, s) # "none" /\ EngineOf(c, s) = EngineOf(c, StageOrder[j])
        BY <2>5, <2>6, <2>7
    <2> QED
        BY <2>5, <2>8 DEF Tolerated, skippers, Left
<1>8. CASE s \in {"multilook", "unwrap"}
    <2>1. i \in 6 .. 7 /\ n = "igrams"
        BY <1>1, <1>8, GraphStagesAre DEF InputNames, Inputs
    <2> QED
        BY <1>3, <2>1, GraphStagesAre, Skips DEF Declares, Outputs
<1>9. CASE s = "timeseries"
    <2>1. i = 8 /\ n \in {"unw", "igrams"}
        BY <1>1, <1>9, GraphStagesAre DEF InputNames, Inputs
    <2>2. 5 \in 1 .. (i - 1) /\ 7 \in 1 .. (i - 1)
        BY <2>1
    <2>3. CASE n = "igrams"
        BY <1>3, <2>2, <2>3, GraphStagesAre, Skips DEF Declares, Outputs
    <2>4. CASE n = "unw"
        <3>1. c.ig = "hyp3"
            BY <1>3, <2>2, <2>4, GraphStagesAre, Skips DEF Declares, Outputs
        <3> QED
            BY <1>3, <2>2, <2>4, <3>1, GraphStagesAre, Skips
               DEF Declares, Outputs, BundlesUnwrapping
    <2> QED
        BY <2>1, <2>3, <2>4
<1>10. CASE s \in {"corrections", "geocode"}
    <2>1. i \in 9 .. 10 /\ n = "timeseries" /\ 8 \in 1 .. (i - 1)
        BY <1>1, <1>10, GraphStagesAre DEF InputNames, Inputs
    <2> QED
        BY <1>3, <2>1, GraphStagesAre, Skips DEF Declares, Outputs
<1> QED
    BY <1>1, <1>4, <1>5, <1>6, <1>7, <1>8, <1>9, <1>10

-----------------------------------------------------------------------------
(* Resolving a stage, and the records.                                      *)

\* What enters the hash of a stage that is not incremental.
IdsOf(content) ==
    { [name |-> n, node |-> NoHash, token |-> content[n]] :
        n \in { m \in ArtifactNames : content[m] # 0 } }

LEMMA InputsAre ==
    ASSUME NEW s \in GraphStages
    PROVE  /\ DOMAIN Inputs(s) \subseteq 1 .. 2
           /\ InputNames(s) \subseteq ArtifactNames /\ OptionalInputs(s) \subseteq ArtifactNames
<1>1. s \in {"search", "precheck", "fetch", "coregister", "interferogram", "multilook", "unwrap",
             "timeseries", "corrections", "geocode", "validate"}
    BY GraphStagesAre DEF GraphStages
<1>2. DOMAIN Inputs(s) \subseteq 1 .. 2
    BY <1>1 DEF Inputs
<1>3. {"candidates", "stack", "slc_manifest", "coreg_manifest", "igrams", "unw",
"timeseries",
       "mintpy_workdir", "velocity"} \subseteq ArtifactNames
    BY GraphStagesAre DEF ArtifactNames, Outputs
<1>4. \A k \in DOMAIN Inputs(s) :
         Inputs(s)[k] \in {"candidates", "stack", "slc_manifest", "coreg_manifest", "igrams", "unw",
                           "timeseries"}
    BY <1>1 DEF Inputs
<1>5. OptionalInputs(s) \subseteq {"stack", "mintpy_workdir", "velocity",
"timeseries"}
    BY <1>1 DEF OptionalInputs
<1> QED
    BY <1>2, <1>3, <1>4, <1>5 DEF InputNames

\* What a resolution of stage s says: what it names is what is available, and
\* it is incomplete only for an input that nobody has.
ResolveSays(res, c, until, s, from, had, hashed) ==
    /\ res.complete =>
          /\ res.hash.stage = s /\ res.hash.engine = EngineOf(c, s)
          /\ res.content \in [ArtifactNames -> Nat]
          /\ \A n \in ArtifactNames : res.content[n] # 0 => res.content[n] = had[n]
          /\ s \notin IncrementalStages => res.hash.ids = IdsOf(res.content)
    /\ res.missing =>
          \E n \in InputNames(s) : from[n] = 0 /\ ~Tolerated(c, until, s, n)
    /\ ~res.complete =>
          \E n \in InputNames(s) :
             \/ from[n] = 0 /\ ~Tolerated(c, until, s, n)
             \/ from[n] # 0 /\ (had[n] = 0 \/ hashed[from[n]] = NoHash)

LEMMA ResolveFacts ==
    ASSUME NEW c, NEW until, NEW i \in Index, NEW from, NEW hashed,
           NEW had \in [ArtifactNames -> Nat]
    PROVE  ResolveSays(Resolve(c, until, i, from, had, hashed), c, until, StageOrder[i],
                       from, had, hashed)
<1> DEFINE s == StageOrder[i]
           linked(n) == from[n] # 0 /\ {s, StageOrder[from[n]]} \subseteq IncrementalStages
           ident(n) == IF linked(n) THEN [name |-> n, node |-> hashed[from[n]], token |-> 0]
                       ELSE [name |-> n, node |-> NoHash, token |-> had[n]]
           known(n) == IF linked(n) THEN hashed[from[n]] # NoHash ELSE had[n] # 0
           missing(n) == had[n] = 0 /\ from[n] = 0
           stops(k) == LET n == Inputs(s)[k] IN
                       IF missing(n) THEN ~Tolerated(c, until, s, n) ELSE ~known(n)
           bad == { k \in DOMAIN Inputs(s) : stops(k) }
           needed == { n \in InputNames(s) : ~missing(n) }
           optional == { n \in OptionalInputs(s) : had[n] # 0 }
           entering == { n \in needed \union optional :
                           s \in IncrementalStages => n # "stack" }
           first == CHOOSE k \in bad : \A j \in bad : k <= j
           res == Resolve(c, until, i, from, had, hashed)
<1>0. s \in GraphStages
    BY DEF GraphStages
<1>1. CASE bad # {}
    <2>1. res = [hash |-> NoHash, complete |-> FALSE, content |-> Absent,
                 missing |-> missing(Inputs(s)[first])]
        BY <1>1 DEF Resolve
    <2>2. \E k \in bad : \A j \in bad : k <= j
        <3>1. bad \subseteq 1 .. 2
            BY <1>0, InputsAre
        <3> HIDE DEF bad
        <3>2. CASE 1 \in bad
            BY <3>1, <3>2
        <3>3. CASE 1 \notin bad
            <4>1. \A k \in bad : k = 2
                BY <3>1, <3>3
            <4>2. PICK k \in bad : TRUE
                BY <1>1
            <4> QED
                BY <4>1, <4>2
        <3> QED
            BY <3>2, <3>3
    <2>3. first \in bad
        BY <2>2
    <2> DEFINE n == Inputs(s)[first]
    <2>4. n \in InputNames(s) /\ stops(first)
        BY <2>3 DEF InputNames
    <2>5. IF had[n] = 0 /\ from[n] = 0 THEN ~Tolerated(c, until, s, n) ELSE ~known(n)
        BY <2>4
    <2>6. n \in ArtifactNames
        BY <1>0, <2>4, InputsAre
    <2>7. /\ res.missing => had[n] = 0 /\ from[n] = 0
          /\ ~res.complete
        <3> HIDE DEF first, res, bad
        <3>1. res.missing = missing(Inputs(s)[first]) /\ res.complete = FALSE
            BY <2>1, Zenon
        <3> QED
            BY <3>1
    <2> HIDE DEF n, res, first, bad
    <2>8. ~(had[n] = 0 /\ from[n] = 0) => from[n] # 0 /\ (had[n] = 0 \/ hashed[from[n]] = NoHash)
        BY <2>5
    <2>9. res.missing => from[n] = 0 /\ ~Tolerated(c, until, s, n)
        BY <2>5, <2>7
    <2>10. \/ from[n] = 0 /\ ~Tolerated(c, until, s, n)
           \/ from[n] # 0 /\ (had[n] = 0 \/ hashed[from[n]] = NoHash)
        BY <2>5, <2>8
    <2> QED
        BY <2>4, <2>7, <2>9, <2>10 DEF res, ResolveSays
<1>2. CASE bad = {}
    <2>1. res = [hash |-> [stage |-> s, params |-> ParamsOf(c, s), engine |-> EngineOf(c, s),
                           ids |-> { ident(n) : n \in entering }],
                 complete |-> \A n \in needed : had[n] # 0,
                 content |-> [n \in ArtifactNames |->
                                 IF n \in needed \union optional THEN had[n] ELSE 0],
                 missing |-> FALSE]
        BY <1>2 DEF Resolve
    <2>2. ~res.complete => \E n \in InputNames(s) : had[n] = 0 /\ from[n] # 0
        BY <2>1
    <2>3. ASSUME res.complete, s \notin IncrementalStages
          PROVE  res.hash.ids = IdsOf(res.content)
        <3>1. needed \union optional = { n \in ArtifactNames : res.content[n] # 0 }
            <4>1. needed \union optional \subseteq ArtifactNames
                BY <1>0, InputsAre
            <4>2. \A n \in needed \union optional : had[n] # 0
                BY <2>1, <2>3
            <4> QED
                BY <2>1, <4>1, <4>2
        <3>2. entering = needed \union optional
            BY <2>3
        <3>3. \A n \in entering : ident(n) = [name |-> n, node |-> NoHash,
        token |-> res.content[n]]
            BY <2>1, <2>3, <3>1, <3>2
        <3>4. res.hash.ids = { ident(n) : n \in entering }
            BY <2>1
        <3> HIDE DEF res, entering, ident, needed, optional
        <3>5. entering = { m \in ArtifactNames : res.content[m] # 0 }
            BY <3>1, <3>2
        <3> QED
            BY <3>3, <3>4, <3>5 DEF IdsOf
    <2>4. res.complete => /\ res.hash.stage = s /\ res.hash.engine = EngineOf(c, s)
                          /\ res.content \in [ArtifactNames -> Nat]
                          /\ \A n \in ArtifactNames : res.content[n] # 0 => res.content[n] = had[n]
        BY <2>1
    <2>5. ~res.missing
        BY <2>1
    <2> QED
        BY <2>2, <2>3, <2>4, <2>5 DEF ResolveSays
<1> QED
    BY <1>1, <1>2

\* A record is what an execution of its stage by its engine leaves, and the
\* hash of a stage that is not incremental names the contents it read.
RecordTrue(r) ==
    /\ r.token \in Nat \ {0} /\ r.token <= tokens
    /\ r.hash.stage \in GraphStages
    /\ r.content \in [ArtifactNames -> Nat]
    /\ r.gives = GivesOf(r.hash.engine, r.hash.stage)
    /\ r.hash.stage \notin IncrementalStages => r.hash.ids = IdsOf(r.content)

LEMMA TrueIsSome ==
    ASSUME NEW r, RecordTrue(r)
    PROVE  r # NoGraphRecord /\ r.hash # NoHash /\ r.token # 0
<1>1. NoGraphRecord.token = 0 /\ NoHash.stage = "none"
    BY DEF NoGraphRecord, NoHash
<1>2. "none" \notin GraphStages
    BY GraphStagesAre DEF GraphStages
<1> QED
    BY <1>1, <1>2 DEF RecordTrue

LEMMA NoneIsEmpty ==
    /\ NoGraphRecord.gives = {} /\ NoGraphRecord.token = 0 /\ NoGraphRecord.hash = NoHash
    /\ \A n \in ArtifactNames : NoGraphRecord.content[n] = 0
BY DEF NoGraphRecord, Absent

\* Two records with the same hash and, for an incremental stage, the same
\* contents, name the same contents.
LEMMA HashTellsContent ==
    ASSUME NEW r, RecordTrue(r), NEW content \in [ArtifactNames -> Nat],
           r.hash.stage \notin IncrementalStages => r.hash.ids = IdsOf(content),
           FreshRecord(r, content)
    PROVE  \A n \in ArtifactNames : r.content[n] # 0 => r.content[n] = content[n]
<1>1. CASE r.hash.stage \in IncrementalStages
    BY <1>1 DEF FreshRecord
<1>2. CASE r.hash.stage \notin IncrementalStages
    <2> SUFFICES ASSUME NEW n \in ArtifactNames, r.content[n] # 0
                 PROVE  r.content[n] = content[n]
        OBVIOUS
    <2>1. [name |-> n, node |-> NoHash, token |-> r.content[n]] \in IdsOf(r.content)
        BY DEF IdsOf
    <2>2. PICK m \in ArtifactNames :
            [name |-> n, node |-> NoHash, token |-> r.content[n]]
              = [name |-> m, node |-> NoHash, token |-> content[m]]
        BY <1>2, <2>1 DEF IdsOf, RecordTrue
    <2> QED
        BY <2>2
<1> QED
    BY <1>1, <1>2

LEMMA LookupFacts ==
    ASSUME NEW forces \in BOOLEAN, NEW res
    PROVE  LET r == LookupRecord(past, forces, res) IN
             \/ r = NoGraphRecord
             \/ /\ r \in past /\ res.complete
                /\ r.hash = res.hash /\ FreshRecord(r, res.content)
<1> DEFINE found == { r \in past : r.hash = res.hash /\ FreshRecord(r, res.content) }
<1>1. CASE forces \/ ~res.complete \/ found = {}
    BY <1>1 DEF LookupRecord
<1>2. CASE ~(forces \/ ~res.complete \/ found = {})
    <2>1. LookupRecord(past, forces, res) = CHOOSE r \in found : TRUE
        BY <1>2 DEF LookupRecord
    <2>2. LookupRecord(past, forces, res) \in found
        BY <1>2, <2>1
    <2> QED
        BY <1>2, <2>2
<1> QED
    BY <1>1, <1>2

LEMMA LatestFacts ==
    ASSUME NEW s, tokens \in Nat, \A r \in past : RecordTrue(r)
    PROVE  LET r == LatestRecord(past, s) IN
             /\ r # NoGraphRecord => r \in past /\ r.hash.stage = s
             /\ r = NoGraphRecord => \A q \in past : q.hash.stage # s
<1> DEFINE all == { r \in past : r.hash.stage = s }
           ages == { tokens - r.token : r \in all }
           last == CHOOSE r \in all : \A q \in all : q.token <= r.token
<1>1. CASE all = {}
    <2>1. LatestRecord(past, s) = NoGraphRecord
        BY <1>1 DEF LatestRecord
    <2> QED
        BY <1>1, <2>1
<1>2. CASE all # {}
    <2>1. ages \subseteq Nat /\ ages # {}
        BY <1>2 DEF RecordTrue
    <2>2. PICK a \in ages : \A b \in ages : a <= b
        <3>1. PICK x \in ages : \A y \in ages : ~ (<<y, x>> \in OpToRel(<, Nat))
            BY <2>1, NatLessThanWellFounded, WFMin
        <3>2. \A y, z \in Nat : (y < z) => <<y, z>> \in OpToRel(<, Nat)
            BY DEF OpToRel
        <3>3. \A y \in ages : ~(y < x)
            BY <2>1, <3>1, <3>2
        <3> HIDE DEF ages
        <3>4. \A y \in ages : x <= y
            BY <2>1, <3>3
        <3> QED
            BY <3>4
    <2>3. PICK r \in all : a = tokens - r.token
        BY <2>2
    <2>4. \A q \in all : q.token <= r.token
        <3> SUFFICES ASSUME NEW q \in all PROVE q.token <= r.token
            OBVIOUS
        <3>1. q.token \in Nat /\ r.token \in Nat
            BY <2>3 DEF RecordTrue
        <3>2. tokens - r.token <= tokens - q.token
            BY <2>2, <2>3
        <3> QED
            BY <3>1, <3>2
    <2>5. last \in all
        BY <2>4
    <2>6. LatestRecord(past, s) = last
        BY <1>2 DEF LatestRecord
    <2>7. last # NoGraphRecord
        BY <2>5, TrueIsSome
    <2> QED
        BY <2>5, <2>6, <2>7
<1> QED
    BY <1>1, <1>2

-----------------------------------------------------------------------------
(* What is available before a stage.                                        *)

LastOf(S) == CHOOSE j \in S : \A k \in S : k <= j

\* The last of the stages before i whose record, of rec, gives n.
Giver(rec, i, n) ==
    LET before == { j \in 1 .. i - 1 : n \in rec[j].gives }
    IN  IF before = {} THEN 0 ELSE LastOf(before)

AvailOf(rec, i) ==
    [n \in ArtifactNames |-> IF Giver(rec, i, n) = 0 THEN 0 ELSE rec[Giver(rec, i, n)].token]

LEMMA GiverIs ==
    ASSUME NEW rec, NEW i \in 1 .. 12, NEW n
    PROVE  /\ Giver(rec, i, n) \in 0 .. (i - 1)
           /\ Giver(rec, i, n) # 0 => n \in rec[Giver(rec, i, n)].gives
           /\ \A j \in 1 .. (i - 1) : n \in rec[j].gives => Giver(rec, i, n) # 0
<1> DEFINE before == { j \in 1 .. i - 1 : n \in rec[j].gives }
           g == Giver(rec, i, n)
<1>1. CASE before = {}
    <2>1. g = 0
        BY <1>1 DEF Giver
    <2> QED
        BY <1>1, <2>1
<1>2. CASE before # {}
    <2>1. g = LastOf(before)
        BY <1>2 DEF Giver
    <2>2. before \subseteq 0 .. 11
        OBVIOUS
    <2>3. \E j \in before : \A k \in before : k <= j
        BY <1>2, <2>2, LastExists
    <2>4. g \in before
        BY <2>1, <2>3 DEF LastOf
    <2> QED
        BY <2>4
<1> QED
    BY <1>1, <1>2

LEMMA NothingBefore ==
    ASSUME NEW rec
    PROVE  AvailOf(rec, 1) = Absent
<1>1. 1 \in 1 .. 12
    OBVIOUS
<1>2. ASSUME NEW n PROVE Giver(rec, 1, n) = 0
    <2>1. Giver(rec, 1, n) \in 0 .. (1 - 1)
        BY <1>1, GiverIs
    <2> QED
        BY <2>1
<1> QED
    BY <1>2 DEF AvailOf, Absent

\* What is available has a token, and what has a giver is available.
LEMMA AvailTyped ==
    ASSUME NEW rec, NEW i \in 1 .. 12,
           \A j \in 1 .. (i - 1) : rec[j] = NoGraphRecord \/ RecordTrue(rec[j])
    PROVE  /\ AvailOf(rec, i) \in [ArtifactNames -> Nat]
           /\ \A n \in ArtifactNames : \A j \in 1 .. (i - 1) :
                n \in rec[j].gives => AvailOf(rec, i)[n] # 0
<1>1. ASSUME NEW n, Giver(rec, i, n) # 0
      PROVE  rec[Giver(rec, i, n)].token \in Nat \ {0}
    <2>1. Giver(rec, i, n) \in 1 .. (i - 1) /\ n \in rec[Giver(rec, i, n)].gives
        BY <1>1, GiverIs
    <2>2. rec[Giver(rec, i, n)] # NoGraphRecord
        BY <2>1, NoneIsEmpty
    <2> QED
        BY <2>1, <2>2 DEF RecordTrue
<1>2. ASSUME NEW n \in ArtifactNames
      PROVE  /\ AvailOf(rec, i)[n] \in Nat
             /\ Giver(rec, i, n) # 0 => AvailOf(rec, i)[n] # 0
    BY <1>1 DEF AvailOf
<1>3. AvailOf(rec, i) \in [ArtifactNames -> Nat]
    BY <1>1 DEF AvailOf
<1> QED
    BY <1>2, <1>3, GiverIs

LEMMA AvailSame ==
    ASSUME NEW rec, NEW new, NEW i \in 1 .. 12, \A j \in 1 .. (i - 1) : new[j] = rec[j]
    PROVE  /\ \A n : Giver(new, i, n) = Giver(rec, i, n)
           /\ AvailOf(new, i) = AvailOf(rec, i)
<1>1. ASSUME NEW n PROVE Giver(new, i, n) = Giver(rec, i, n)
    <2> DEFINE old == { j \in 1 .. i - 1 : n \in rec[j].gives }
               now == { j \in 1 .. i - 1 : n \in new[j].gives }
    <2>1. old = now
        OBVIOUS
    <2>2. Giver(rec, i, n) = IF old = {} THEN 0 ELSE LastOf(old)
        BY DEF Giver
    <2>3. Giver(new, i, n) = IF now = {} THEN 0 ELSE LastOf(now)
        BY DEF Giver
    <2> HIDE DEF old, now
    <2> QED
        BY <2>1, <2>2, <2>3
<1>2. ASSUME NEW n, Giver(rec, i, n) # 0
      PROVE  new[Giver(rec, i, n)] = rec[Giver(rec, i, n)]
    <2>1. Giver(rec, i, n) \in 0 .. (i - 1)
        BY GiverIs
    <2>2. Giver(rec, i, n) \in 1 .. (i - 1)
        BY <1>2, <2>1
    <2> QED
        BY <2>2
<1>3. AvailOf(new, i) = AvailOf(rec, i)
    BY <1>1, <1>2 DEF AvailOf
<1> QED
    BY <1>1, <1>3

LEMMA AvailStep ==
    ASSUME NEW rec, NEW new, NEW i \in 1 .. 11, \A j \in 1 .. (i - 1) : new[j] = rec[j]
    PROVE  AvailOf(new, i + 1) = Merged(AvailOf(rec, i), new[i].gives, new[i].token)
<1> SUFFICES ASSUME NEW n \in ArtifactNames
             PROVE  AvailOf(new, i + 1)[n] = IF n \in new[i].gives THEN new[i].token
                                             ELSE AvailOf(rec, i)[n]
    BY DEF AvailOf, Merged
<1> DEFINE upto == { j \in 1 .. (i + 1) - 1 : n \in new[j].gives }
           before == { j \in 1 .. i - 1 : n \in new[j].gives }
<1>1. CASE n \in new[i].gives
    <2>1. i \in upto /\ \A k \in upto : k <= i
        BY <1>1
    <2>2. \A j \in upto : (\A k \in upto : k <= j) => j = i
        BY <2>1
    <2>3. Giver(new, i + 1, n) = LastOf(upto)
        BY <2>1 DEF Giver
    <2> HIDE DEF upto
    <2>4. LastOf(upto) = i
        BY <2>1, <2>2 DEF LastOf
    <2>5. Giver(new, i + 1, n) = i /\ i # 0
        BY <2>3, <2>4
    <2> QED
        BY <1>1, <2>5 DEF AvailOf
<1>2. CASE n \notin new[i].gives
    <2>1. upto = before
        BY <1>2
    <2>2. Giver(new, i + 1, n) = Giver(new, i, n)
        <3>1. Giver(new, i + 1, n) = IF upto = {} THEN 0 ELSE LastOf(upto)
            BY DEF Giver
        <3>2. Giver(new, i, n) = IF before = {} THEN 0 ELSE LastOf(before)
            BY DEF Giver
        <3> HIDE DEF upto, before
        <3> QED
            BY <2>1, <3>1, <3>2
    <2>3. AvailOf(new, i + 1)[n] = AvailOf(new, i)[n]
        BY <2>2 DEF AvailOf
    <2>4. AvailOf(new, i) = AvailOf(rec, i)
        BY AvailSame
    <2> QED
        BY <1>2, <2>3, <2>4
<1> QED
    BY <1>1, <1>2
-----------------------------------------------------------------------------
(* The invariant.                                                           *)

\* The stages of which the plan says something.
Planned ==
    IF phase = "plan" THEN 1 .. (pos - 1)
    ELSE IF phase = "idle" /\ outcome = "none" THEN {} ELSE 1 .. cmd.until

PerStage(f) == f = [i \in Index |-> f[i]]

GraphTypes ==
    /\ config \in Configs /\ cmd \in GraphLines /\ links = Links(config)
    /\ DOMAIN nodes = Index /\ DOMAIN recordOf = Index
    /\ PerStage(hashes)
    /\ phase \in {"idle", "plan", "run"}
    /\ outcome \in {"none", "refused", "blocked", "failed", "ok"}
    /\ phase # "idle" => outcome = "none"
    /\ pos \in 1 .. 12
    /\ phase = "plan" => pos <= cmd.until + 1
    /\ phase = "run" => pos <= cmd.until
    /\ executed \subseteq Index
    /\ tokens \in Nat
    /\ \A r \in past : RecordTrue(r)

\* What the plan may say of stage i.
NodeSound(i, status, rec, standsIn) ==
    /\ status \in {"skipped", "cached", "to_run", "blocked"}
    /\ (status = "skipped") <=> Skipped(config, StageOrder[i])
    /\ rec = NoGraphRecord \/ RecordTrue(rec)
    /\ status = "cached" => rec # NoGraphRecord
    /\ status \in {"skipped", "to_run"} => rec = NoGraphRecord /\ ~standsIn
    /\ status = "to_run" => i >= cmd.from
    /\ status \in {"cached", "to_run"} => Registered(EngineOf(config, StageOrder[i]))
    /\ standsIn \in BOOLEAN
    /\ standsIn => i < cmd.from /\ rec # NoGraphRecord

PlanSound ==
    \A i \in Planned : NodeSound(i, nodes[i].status, nodes[i].record, nodes[i].standsIn)

\* Why a stage is blocked in the plan.
Excuse(i) ==
    \/ /\ ~Skipped(config, StageOrder[i])
       /\ ~Registered(EngineOf(config, StageOrder[i]))
    \/ i < cmd.from /\ \A r \in past : r.hash.stage # StageOrder[i]

Refusals ==
    /\ phase = "plan" \/ outcome = "refused" =>
          \A i \in Planned : nodes[i].status = "blocked" => Excuse(i)
    /\ outcome = "refused" => \E i \in 1 .. cmd.until : nodes[i].status = "blocked"
    /\ phase = "run" => \A i \in 1 .. cmd.until : nodes[i].status # "blocked"

\* Before the first stage that the plan says will run.
NothingToRun(i) == \A j \in 1 .. i : nodes[j].status \in {"skipped", "cached"}

PlanRecs == [j \in Index |-> nodes[j].record]

HashesOf(rec, i) == [k \in Index |-> IF k < i THEN rec[k].hash ELSE NoHash]

PlanState ==
    phase = "plan" =>
        /\ executed = {} /\ recordOf = [i \in Index |-> NoGraphRecord]
        /\ avail = AvailOf(PlanRecs, pos)
        /\ NothingToRun(pos - 1) => hashes = HashesOf(PlanRecs, pos)

\* There, the plan's record is what a lookup behind the plan's records finds.
FoundThen(i) ==
    LookupRecord(past, i \in forced,
                 Resolve(config, cmd.until, i, links[i], AvailOf(PlanRecs, i),
                         HashesOf(PlanRecs, i)))

PlanFinds ==
    phase = "plan" \/ (phase = "run" /\ executed = {}) =>
        \A i \in Planned :
            NothingToRun(i) /\ nodes[i].status = "cached" /\ ~nodes[i].standsIn =>
                nodes[i].record = FoundThen(i)

\* Where the run has a record from.
RecordFor(i) ==
    IF nodes[i].status = "skipped" THEN recordOf[i] = NoGraphRecord
    ELSE /\ RecordTrue(recordOf[i])
         /\ hashes[i] = recordOf[i].hash
         /\ IF nodes[i].standsIn THEN recordOf[i] = nodes[i].record
            ELSE /\ recordOf[i].hash.stage = StageOrder[i]
                 /\ recordOf[i].hash.engine = EngineOf(config, StageOrder[i])

\* What a record says it was computed from is what the run has.
CoherentAt(i) ==
    i >= cmd.from =>
        \A n \in ArtifactNames :
            recordOf[i].content[n] # 0 => recordOf[i].content[n] = AvailOf(recordOf, i)[n]

RunState ==
    phase = "run" =>
        /\ avail = AvailOf(recordOf, pos)
        /\ \A i \in 1 .. (pos - 1) : RecordFor(i) /\ CoherentAt(i)
        /\ \A i \in pos .. 11 : recordOf[i] = NoGraphRecord
        /\ NothingToRun(pos - 1) =>
              /\ executed = {}
              /\ \A i \in 1 .. (pos - 1) : recordOf[i] = nodes[i].record
              /\ hashes = HashesOf(PlanRecs, pos)

PlanKept ==
    /\ \A i \in executed : i >= cmd.from /\ \E j \in 1 .. i : nodes[j].status = "to_run"
    /\ outcome = "blocked" =>
          \E i \in 1 .. cmd.until :
             /\ nodes[i].standsIn
             /\ ~(Yields(config, StageOrder[i]) \subseteq nodes[i].record.gives)
    /\ outcome = "ok" => \A i \in 1 .. cmd.until : CoherentAt(i)

GraphInv ==
    /\ GraphTypes /\ PlanSound /\ Refusals /\ PlanState /\ PlanFinds /\ RunState /\ PlanKept

LEMMA LinesAre ==
    ASSUME GraphTypes
    PROVE  /\ config \in Config /\ cmd.until \in 1 .. 11 /\ cmd.from \in 0 .. 11
           /\ Index = 1 .. 11
BY ConfigAssumption, GraphLineAssumption, GraphStagesAre DEF GraphTypes, GraphLine

LEMMA TrueStays ==
    ASSUME NEW r, RecordTrue(r), tokens \in Nat, tokens' \in Nat, tokens <= tokens'
    PROVE  RecordTrue(r)'
BY DEF RecordTrue

LEMMA EveryStage ==
    ASSUME NEW f, PerStage(f), NEW i, NEW v
    PROVE  DOMAIN f = Index /\ PerStage([f EXCEPT ![i] = v])
<1>1. DOMAIN f = Index
    BY DEF PerStage
<1> DEFINE g == [f EXCEPT ![i] = v]
<1>2. g = [k \in Index |-> g[k]]
    BY <1>1
<1> QED
    BY <1>1, <1>2 DEF PerStage

LEMMA NoneHashed == PerStage([i \in Index |-> NoHash])
BY DEF PerStage

LEMMA GraphStarts == GraphInit => GraphInv
<1> SUFFICES ASSUME GraphInit PROVE GraphInv
    OBVIOUS
<1> USE DEF GraphInit
<1>1. config \in Configs /\ cmd \in GraphLines
    BY ConfigAssumption, GraphLineAssumption
<1>2. GraphTypes
    BY <1>1, GraphStagesAre, NoneHashed DEF GraphTypes
<1>3. Planned = {}
    BY DEF Planned
<1> QED
    BY <1>2, <1>3
       DEF GraphInv, PlanSound, Refusals, PlanState, PlanFinds, RunState, PlanKept

LEMMA PlanBeginsKeeps ==
    ASSUME GraphInv, NEW c \in Configs, NEW l \in GraphLines, PlanBegins(c, l)
    PROVE  GraphInv'
<1> USE DEF PlanBegins
<1>1. GraphTypes'
    <2>1. \A r \in past' : RecordTrue(r)'
        BY TrueStays DEF GraphInv, GraphTypes
    <2>2. l.until \in 1 .. 11
        BY GraphLineAssumption, GraphStagesAre DEF GraphLine
    <2> QED
        BY <2>1, <2>2, GraphStagesAre, NoneHashed DEF GraphInv, GraphTypes
<1>2. Planned' = {}
    BY DEF Planned
<1>3. PlanSound' /\ Refusals' /\ PlanFinds' /\ RunState' /\ PlanKept'
    BY <1>2 DEF PlanSound, Refusals, PlanFinds, RunState, PlanKept
<1>4. AvailOf(PlanRecs', 1) = Absent
    BY NothingBefore
<1>5. HashesOf(PlanRecs', 1) = [i \in Index |-> NoHash]
    BY GraphStagesAre DEF HashesOf
<1>6. PlanState'
    BY <1>4, <1>5 DEF PlanState
<1> QED
    BY <1>1, <1>3, <1>6 DEF GraphInv

\* Before stage i, a plan that only grew says what it said.
LEMMA PlanSame ==
    ASSUME NEW i \in 1 .. 12, \A j \in 1 .. (i - 1) : nodes'[j] = nodes[j]
    PROVE  /\ AvailOf(PlanRecs', i) = AvailOf(PlanRecs, i)
           /\ HashesOf(PlanRecs', i) = HashesOf(PlanRecs, i)
           /\ NothingToRun(i - 1)' <=> NothingToRun(i - 1)
<1>1. \A j \in 1 .. (i - 1) : PlanRecs'[j] = PlanRecs[j]
    BY GraphStagesAre DEF PlanRecs
<1>2. AvailOf(PlanRecs', i) = AvailOf(PlanRecs, i)
    BY <1>1, AvailSame
<1>3. HashesOf(PlanRecs', i) = HashesOf(PlanRecs, i)
    BY <1>1, GraphStagesAre DEF HashesOf
<1>4. NothingToRun(i - 1)' <=> NothingToRun(i - 1)
    BY DEF NothingToRun
<1> QED
    BY <1>2, <1>3, <1>4

LEMMA NotedKeeps ==
    ASSUME GraphInv, phase = "plan", pos <= cmd.until,
           NEW status, NEW hash, NEW rec, NEW standsIn,
           Noted(status, hash, rec, standsIn),
           forced' = forced \/ (standsIn /\ forced' = forced \ {pos}),
           NodeSound(pos, status, rec, standsIn),
           status = "blocked" => Excuse(pos),
           NothingToRun(pos - 1) /\ status \in {"skipped", "cached"} => hash = rec.hash,
           NothingToRun(pos - 1) /\ status = "cached" /\ ~standsIn => rec = FoundThen(pos)
    PROVE  GraphInv'
<1> USE DEF Noted
<1>0. /\ pos \in 1 .. 11 /\ cmd.until \in 1 .. 11 /\ Index = 1 .. 11 /\ GraphTypes
      /\ Planned = 1 .. (pos - 1) /\ Planned' = 1 .. pos
      /\ phase' = "plan" /\ outcome = "none" /\ pos' = pos + 1
    BY LinesAre DEF GraphInv, GraphTypes, Planned
<1>1. GraphTypes'
    <2>1. \A r \in past' : RecordTrue(r)'
        BY <1>0, TrueStays DEF GraphTypes
    <2>2. PerStage(hashes')
        BY <1>0, EveryStage DEF GraphTypes
    <2> QED
        BY <1>0, <2>1, <2>2 DEF GraphTypes
<1>2. /\ \A i \in 1 .. 11 : i # pos => nodes'[i] = nodes[i]
      /\ nodes'[pos].status = status /\ nodes'[pos].record = rec /\ nodes'[pos].standsIn = standsIn
    BY <1>0 DEF GraphTypes
<1>3. PlanSound'
    <2> SUFFICES ASSUME NEW i \in 1 .. pos
                 PROVE  NodeSound(i, nodes[i].status, nodes[i].record, nodes[i].standsIn)'
        BY <1>0 DEF PlanSound
    <2>1. NodeSound(i, nodes'[i].status, nodes'[i].record, nodes'[i].standsIn)
        <3>1. CASE i = pos
            BY <1>2, <3>1
        <3>2. CASE i # pos
            <4>1. nodes'[i] = nodes[i] /\ i \in Planned
                BY <1>0, <1>2, <3>2
            <4> QED
                BY <4>1 DEF GraphInv, PlanSound
        <3> QED
            BY <3>1, <3>2
    <2>2. RecordTrue(nodes'[i].record) => RecordTrue(nodes[i].record)'
        BY DEF RecordTrue
    <2> QED
        BY <2>1, <2>2 DEF NodeSound
<1>4. Refusals'
    <2> SUFFICES ASSUME NEW i \in 1 .. pos, nodes'[i].status = "blocked"
                 PROVE  Excuse(i)'
        BY <1>0 DEF Refusals
    <2>1. Excuse(i)
        BY <1>0, <1>2 DEF GraphInv, Refusals
    <2> QED
        BY <2>1 DEF Excuse
<1>5. AvailOf(PlanRecs', pos) = AvailOf(PlanRecs, pos) /\ HashesOf(PlanRecs',
pos) = HashesOf(PlanRecs, pos)
    BY <1>0, <1>2, PlanSame
<1>6. PlanState'
    <2>1. PlanRecs'[pos] = rec
        BY <1>0, <1>2 DEF PlanRecs
    <2>2. \A j \in 1 .. (pos - 1) : PlanRecs'[j] = PlanRecs[j]
        BY <1>0, <1>2 DEF PlanRecs
    <2>3. AvailOf(PlanRecs', pos + 1) = Merged(AvailOf(PlanRecs, pos),
    PlanRecs'[pos].gives, PlanRecs'[pos].token)
        BY <1>0, <2>2, AvailStep
    <2>4. avail' = AvailOf(PlanRecs', pos + 1)
        BY <1>0, <2>1, <2>3 DEF GraphInv, PlanState
    <2>5. ASSUME NothingToRun(pos - 1)' PROVE hashes' = HashesOf(PlanRecs', pos + 1)
        <3>1. NothingToRun(pos - 1) /\ status \in {"skipped", "cached"}
            BY <1>0, <1>2, <2>5 DEF NothingToRun
        <3>2. hashes = HashesOf(PlanRecs, pos) /\ hash = rec.hash
            BY <1>0, <3>1 DEF GraphInv, PlanState
        <3>3. hashes' = [k \in Index |-> IF k = pos THEN rec.hash ELSE HashesOf(PlanRecs', pos)[k]]
            <4>1. PerStage(hashes)
                BY <1>0 DEF GraphTypes
            <4>2. DOMAIN hashes = Index
                BY <4>1, EveryStage
            <4> QED
                BY <1>0, <1>5, <3>2, <4>2
        <3>4. \A k \in Index : HashesOf(PlanRecs', pos + 1)[k] =
                 IF k = pos THEN rec.hash ELSE HashesOf(PlanRecs', pos)[k]
            BY <1>0, <2>1 DEF HashesOf
        <3> QED
            BY <3>3, <3>4 DEF HashesOf
    <2>6. executed' = {} /\ recordOf' = [i \in Index |-> NoGraphRecord]
        BY <1>0 DEF GraphInv, PlanState
    <2> QED
        BY <1>0, <2>4, <2>5, <2>6 DEF PlanState
<1>7. PlanFinds'
    <2> SUFFICES ASSUME NEW i \in 1 .. pos, NothingToRun(i)', nodes'[i].status = "cached", ~nodes'[i].standsIn
                 PROVE  nodes'[i].record = FoundThen(i)'
        BY <1>0 DEF PlanFinds
    <2>1. NothingToRun(i - 1) /\ (i # pos => NothingToRun(i))
        BY <1>0, <1>2 DEF NothingToRun
    <2>2. nodes'[i].record = FoundThen(i)
        BY <1>0, <1>2, <2>1 DEF GraphInv, PlanFinds
    <2>3. i \in forced' <=> i \in forced
        BY <1>2
    <2>4. (i \in forced') = (i \in forced)
        BY <2>3
    <2>5. AvailOf(PlanRecs', i) = AvailOf(PlanRecs, i) /\ HashesOf(PlanRecs',
    i) = HashesOf(PlanRecs, i)
        BY <1>0, <1>2, PlanSame
    <2> QED
        BY <2>2, <2>4, <2>5 DEF FoundThen
<1>8. RunState' /\ PlanKept'
    BY <1>0 DEF GraphInv, PlanState, RunState, PlanKept
<1> QED
    BY <1>1, <1>3, <1>4, <1>6, <1>7, <1>8 DEF GraphInv

LEMMA PlanStageKeeps ==
    ASSUME GraphInv, PlanStage
    PROVE  GraphInv'
<1> DEFINE s == StageOrder[pos]
           hit == LookupRecord(past, pos \in forced, Resolution)
           newest == LatestRecord(past, s)
<1>0. /\ phase = "plan" /\ pos <= cmd.until /\ pos \in 1 .. 11 /\ GraphTypes
      /\ cmd.until \in 1 .. 11 /\ cmd.from \in 0 .. 11 /\ Index = 1 .. 11 /\ config \in Config
    BY LinesAre DEF GraphInv, GraphTypes, PlanStage
<1>1. CASE PlanSkips
    <2>1. /\ Noted("skipped", NoHash, NoGraphRecord, FALSE)
          /\ forced' = forced
          /\ Skipped(config, s)
        BY <1>1 DEF PlanSkips
    <2>2. NodeSound(pos, "skipped", NoGraphRecord, FALSE)
        BY <2>1 DEF NodeSound
    <2> QED
        BY <1>0, <2>1, <2>2, NotedKeeps, NoneIsEmpty
<1>2. CASE PlanResolves(Resolution, hit)
    <2>1. NothingToRun(pos - 1) => hit = FoundThen(pos)
        BY <1>0 DEF GraphInv, PlanState, FoundThen, Resolution
    <2>2. hit # NoGraphRecord => RecordTrue(hit)
        <3>1. (pos \in forced) \in BOOLEAN
            OBVIOUS
        <3> HIDE DEF hit
        <3>2. hit = NoGraphRecord \/ hit \in past
            BY <3>1, LookupFacts DEF hit
        <3> QED
            BY <1>0, <3>2 DEF GraphTypes
    <2>3. /\ newest # NoGraphRecord => RecordTrue(newest)
          /\ newest = NoGraphRecord => \A q \in past : q.hash.stage # s
        BY <1>0, LatestFacts DEF GraphTypes
    <2>4. ASSUME Resolution.missing, ~Skipped(config, s)
          PROVE  ~Registered(EngineOf(config, s))
        <3>1. avail \in [ArtifactNames -> Nat]
            <4>1. \A j \in 1 .. (pos - 1) :
                    PlanRecs[j] = NoGraphRecord \/ RecordTrue(PlanRecs[j])
                BY <1>0 DEF GraphInv, PlanSound, NodeSound, Planned, PlanRecs
            <4>2. pos \in 1 .. 12
                BY <1>0
            <4>3. AvailOf(PlanRecs, pos) \in [ArtifactNames -> Nat]
                BY <4>1, <4>2, AvailTyped
            <4> QED
                BY <1>0, <4>3 DEF GraphInv, PlanState
        <3>2. PICK n \in InputNames(s) : links[pos][n] = 0 /\ ~Tolerated(config,
        cmd.until, s, n)
            <4>1. ResolveSays(Resolution, config, cmd.until, s, links[pos], avail, hashes)
                BY <1>0, <3>1, ResolveFacts DEF Resolution
            <4> QED
                BY <2>4, <4>1 DEF ResolveSays
        <3>3. cmd.until \in pos .. 11 /\ links = Links(config)
            BY <1>0 DEF GraphTypes
        <3> QED
            BY <1>0, <2>4, <3>2, <3>3, NothingMissing
    <2> DEFINE fails == Resolution.missing \/ ~Registered(EngineOf(config, s))
               fate == IF fails THEN "blocked" ELSE "cached"
    <2>5. ~Skipped(config, s) /\ (fails => ~Registered(EngineOf(config, s)))
        BY <1>2, <2>4 DEF PlanResolves
    <2> HIDE DEF hit, newest, fails
    <2>6. CASE hit # NoGraphRecord /\ Noted(fate, hit.hash, hit, FALSE) /\ forced' = forced
        <3>1. NodeSound(pos, fate, hit, FALSE) /\ (fate = "blocked" => Excuse(pos))
            BY <2>2, <2>5, <2>6 DEF NodeSound, Excuse, fails
        <3> QED
            BY <1>0, <2>1, <2>6, <3>1, NotedKeeps
    <2>7. CASE /\ pos < cmd.from /\ newest # NoGraphRecord
               /\ Noted(fate, newest.hash, newest, TRUE) /\ forced' = forced \ {pos}
        <3>1. NodeSound(pos, fate, newest, TRUE) /\ (fate = "blocked" => Excuse(pos))
            BY <2>3, <2>5, <2>7 DEF NodeSound, Excuse, fails
        <3> QED
            BY <1>0, <2>7, <3>1, NotedKeeps
    <2> DEFINE lot == IF pos < cmd.from \/ fails THEN "blocked" ELSE "to_run"
    <2>8. CASE /\ pos < cmd.from => newest = NoGraphRecord
               /\ Noted(lot, Resolution.hash, NoGraphRecord, FALSE) /\ forced' = forced
        <3>1. NodeSound(pos, lot, NoGraphRecord, FALSE) /\ (lot = "blocked" => Excuse(pos))
            BY <1>0, <2>3, <2>5, <2>8 DEF NodeSound, Excuse, fails
        <3>2. lot \notin {"skipped", "cached"}
            OBVIOUS
        <3> QED
            BY <1>0, <2>8, <3>1, <3>2, NotedKeeps
    <2> QED
        BY <1>2, <2>6, <2>7, <2>8 DEF PlanResolves, hit, newest, fails
<1> QED
    BY <1>1, <1>2 DEF PlanStage

LEMMA PlanEndsKeeps ==
    ASSUME GraphInv, PlanEnds
    PROVE  GraphInv'
<1> USE DEF PlanEnds
<1>0. /\ phase = "plan" /\ pos = cmd.until + 1 /\ cmd.until \in 1 .. 11 /\ GraphTypes
      /\ Planned = 1 .. cmd.until /\ Planned' = 1 .. cmd.until /\ Index = 1 .. 11
      /\ outcome = "none" /\ executed = {} /\ recordOf = [i \in Index |-> NoGraphRecord]
    BY LinesAre DEF GraphInv, GraphTypes, Planned, PlanState
<1>1. GraphTypes'
    <2>1. \A r \in past' : RecordTrue(r)'
        BY <1>0, TrueStays DEF GraphTypes
    <2> QED
        BY <1>0, <2>1, NoneHashed DEF GraphTypes
<1>2. PlanSound'
    BY <1>0 DEF GraphInv, PlanSound, NodeSound, RecordTrue
<1>3. Refusals'
    BY <1>0 DEF GraphInv, Refusals, Excuse
<1>4. PlanFinds'
    BY <1>0 DEF GraphInv, PlanFinds, NothingToRun, FoundThen, PlanRecs
<1>5. RunState'
    <2>1. /\ AvailOf(recordOf, 1) = Absent
          /\ HashesOf(PlanRecs, 1) = [i \in Index |-> NoHash]
        BY <1>0, NothingBefore DEF HashesOf
    <2> QED
        BY <1>0, <2>1 DEF RunState, PlanRecs
<1>6. PlanState' /\ PlanKept'
    BY <1>0 DEF PlanState, PlanKept
<1> QED
    BY <1>1, <1>2, <1>3, <1>4, <1>5, <1>6 DEF GraphInv

\* Up to the first stage that will run, the run is where the plan was.
LEMMA RunIsWherePlanWas ==
    ASSUME GraphInv, phase = "run", NothingToRun(pos - 1)
    PROVE  /\ executed = {} /\ hashes = HashesOf(PlanRecs, pos)
           /\ avail = AvailOf(recordOf, pos)
           /\ \A i \in 1 .. (pos - 1) : recordOf[i] = nodes[i].record
<1>1. RunState
    BY DEF GraphInv
<1> QED
    BY <1>1 DEF RunState

\* A stage of the run is reported with rec, and the run goes on or ends.
LEMMA ReportedKeeps ==
    ASSUME GraphInv, phase = "run", GoesOn, NEW rec,
           UNCHANGED <<config, cmd, links, forced, nodes>>,
           DOMAIN recordOf' = Index, recordOf'[pos] = rec,
           \A k \in Index : k # pos => recordOf'[k] = recordOf[k],
           PerStage(hashes'),
           \A k \in Index : k # pos => hashes'[k] = hashes[k],
           avail' = Merged(avail, rec.gives, rec.token),
           IF nodes[pos].status = "skipped" THEN rec = NoGraphRecord
           ELSE /\ RecordTrue(rec)' /\ hashes'[pos] = rec.hash
                /\ IF nodes[pos].standsIn THEN rec = nodes[pos].record
                   ELSE /\ rec.hash.stage = StageOrder[pos]
                        /\ rec.hash.engine = EngineOf(config, StageOrder[pos]),
           pos >= cmd.from => \A n \in ArtifactNames :
               rec.content[n] # 0 => rec.content[n] = avail[n],
           tokens' \in Nat, tokens <= tokens', \A r \in past' : RecordTrue(r)',
           \/ executed' = executed /\ past' = past
           \/ executed' = executed \union {pos} /\ pos >= cmd.from /\ ~NothingToRun(pos),
           NothingToRun(pos) => rec = nodes[pos].record /\ hashes'[pos] = rec.hash
    PROVE  GraphInv'
<1>0. /\ pos \in 1 .. 11 /\ cmd.until \in 1 .. 11 /\ pos <= cmd.until /\ Index = 1 .. 11
      /\ GraphTypes /\ outcome = "none" /\ Planned = 1 .. cmd.until /\ tokens \in Nat
    BY LinesAre DEF GraphInv, GraphTypes, Planned
<1>1. /\ Planned' = 1 .. cmd.until /\ outcome' \in {"none", "ok"}
      /\ \/ phase' = "idle" /\ outcome' = "ok" /\ pos = cmd.until /\ pos' = pos
         \/ phase' = "run" /\ outcome' = "none" /\ pos' = pos + 1 /\ pos < cmd.until
    <2>1. \/ phase' = "idle" /\ outcome' = "ok" /\ pos = cmd.until /\ pos' = pos
          \/ phase' = "run" /\ outcome' = "none" /\ pos' = pos + 1 /\ pos < cmd.until
        <3>1. CASE pos = cmd.until
            BY <3>1 DEF GoesOn
        <3>2. CASE pos # cmd.until
            <4>1. pos < cmd.until
                BY <1>0, <3>2
            <4> QED
                BY <1>0, <3>2, <4>1 DEF GoesOn
        <3> QED
            BY <3>1, <3>2
    <2>2. cmd' = cmd
        OBVIOUS
    <2> QED
        BY <2>1, <2>2 DEF Planned
<1>2. \A j \in 1 .. pos : nodes[j].status \in {"skipped", "cached", "to_run"}
    BY <1>0 DEF GraphInv, PlanSound, NodeSound, Refusals
<1>3. GraphTypes'
    <2>1. pos' \in 1 .. 12 /\ (phase' = "run" => pos' <= cmd.until)
        BY <1>0, <1>1
    <2> QED
        BY <1>0, <1>1, <2>1 DEF GraphTypes
<1>4. PlanSound'
    <2>1. \A i \in 1 .. cmd.until : RecordTrue(nodes[i].record) => RecordTrue(nodes[i].record)'
        BY <1>0 DEF RecordTrue
    <2> QED
        BY <1>0, <1>1, <2>1 DEF GraphInv, PlanSound, NodeSound
<1>5. Refusals' /\ PlanState'
    BY <1>0, <1>1 DEF GraphInv, Refusals, PlanState
<1>6. PlanFinds'
    <2> SUFFICES ASSUME phase' = "run", executed' = {}
                 PROVE  PlanFinds'
        BY <1>1 DEF PlanFinds
    <2>1. executed' = executed /\ past' = past
        OBVIOUS
    <2> QED
        BY <1>0, <1>1, <2>1 DEF GraphInv, PlanFinds, NothingToRun, FoundThen, PlanRecs
<1>7. AvailOf(recordOf', pos) = AvailOf(recordOf, pos) /\ AvailOf(recordOf,
pos) = avail
    BY <1>0, AvailSame DEF GraphInv, RunState
<1>8. AvailOf(recordOf', pos + 1) = avail'
    <2>1. \A j \in 1 .. (pos - 1) : recordOf'[j] = recordOf[j]
        BY <1>0
    <2>2. AvailOf(recordOf', pos + 1) = Merged(AvailOf(recordOf, pos),
    recordOf'[pos].gives, recordOf'[pos].token)
        BY <1>0, <2>1, AvailStep
    <2> QED
        BY <1>7, <2>2
<1>9. ASSUME NEW i \in 1 .. pos
      PROVE  RecordFor(i)' /\ CoherentAt(i)'
    <2>1. CASE i = pos
        <3>1. RecordFor(i)'
            BY <1>0, <2>1 DEF RecordFor
        <3>2. CoherentAt(i)'
            BY <1>7, <2>1 DEF CoherentAt
        <3> QED
            BY <3>1, <3>2
    <2>2. CASE i # pos
        <3>1. /\ i \in 1 .. (pos - 1)
              /\ recordOf'[i] = recordOf[i]
              /\ hashes'[i] = hashes[i]
            BY <1>0, <2>2
        <3>2. RecordFor(i) /\ CoherentAt(i)
            BY <3>1 DEF GraphInv, RunState
        <3>3. RecordTrue(recordOf[i]) => RecordTrue(recordOf[i])'
            BY <1>0, <3>1 DEF RecordTrue
        <3>4. RecordFor(i)'
            BY <3>1, <3>2, <3>3 DEF RecordFor
        <3>5. i \in 1 .. 12 /\ \A j \in 1 .. (i - 1) : recordOf'[j] = recordOf[j]
            <4>1. i \in 1 .. 12 /\ \A j \in 1 .. (i - 1) : j \in Index /\ j # pos
                BY <1>0, <3>1
            <4> QED
                BY <4>1
        <3>6. AvailOf(recordOf', i) = AvailOf(recordOf, i)
            BY <3>5, AvailSame
        <3>7. CoherentAt(i)'
            BY <3>1, <3>2, <3>6 DEF CoherentAt
        <3> QED
            BY <3>4, <3>7
    <2> QED
        BY <2>1, <2>2
<1>10. RunState'
    <2> SUFFICES ASSUME phase' = "run" PROVE RunState'
        BY DEF RunState
    <2>1. pos' = pos + 1
        BY <1>1
    <2>2. \A i \in pos' .. 11 : recordOf'[i] = NoGraphRecord
        BY <1>0, <2>1 DEF GraphInv, RunState
    <2>3. ASSUME NothingToRun(pos - 1)'
          PROVE  /\ executed' = {}
                 /\ \A i \in 1 .. pos : recordOf'[i] = nodes'[i].record
                 /\ hashes' = HashesOf(PlanRecs', pos + 1)
        <3>1. NothingToRun(pos) /\ NothingToRun(pos - 1)
            BY <1>0, <2>1, <2>3 DEF NothingToRun
        <3>2. /\ executed = {} /\ hashes = HashesOf(PlanRecs, pos)
              /\ \A i \in 1 .. (pos - 1) : recordOf[i] = nodes[i].record
            BY <3>1, RunIsWherePlanWas
        <3>3. executed' = {} /\ \A i \in 1 .. pos : recordOf'[i] = nodes'[i].record
            <4>1. executed' = {} /\ recordOf'[pos] = nodes'[pos].record
                BY <3>1, <3>2
            <4>2. \A i \in 1 .. (pos - 1) : recordOf'[i] = nodes'[i].record
                BY <1>0, <3>2
            <4> QED
                BY <1>0, <4>1, <4>2
        <3>4. \A k \in Index : hashes'[k] = IF k < pos + 1 THEN nodes[k].record.hash ELSE NoHash
            <4> SUFFICES ASSUME NEW k \in Index
                         PROVE  hashes'[k] = IF k < pos + 1 THEN nodes[k].record.hash ELSE NoHash
                OBVIOUS
            <4>1. CASE k = pos
                <5>1. hashes'[pos] = nodes[pos].record.hash
                    BY <3>1
                <5> QED
                    BY <1>0, <4>1, <5>1
            <4>2. CASE k # pos
                <5>1. hashes'[k] = hashes[k]
                    BY <4>2
                <5>2. hashes[k] = IF k < pos THEN nodes[k].record.hash ELSE NoHash
                    BY <3>2 DEF HashesOf, PlanRecs
                <5>3. (k < pos) <=> (k < pos + 1)
                    BY <1>0, <4>2
                <5> QED
                    BY <5>1, <5>2, <5>3
            <4> QED
                BY <4>1, <4>2
        <3>5. \A k \in Index : hashes'[k] = HashesOf(PlanRecs', pos + 1)[k]
            BY <1>0, <3>4 DEF HashesOf, PlanRecs
        <3>6. HashesOf(PlanRecs', pos + 1) = [k \in Index |-> hashes'[k]]
            BY <3>5 DEF HashesOf
        <3> QED
            BY <3>3, <3>6 DEF PerStage
    <2>4. 1 .. (pos' - 1) = 1 .. pos
        BY <1>0, <2>1
    <2> QED
        BY <1>8, <1>9, <2>1, <2>2, <2>3, <2>4 DEF RunState
<1>11. PlanKept'
    <2>1. ASSUME NEW i \in executed'
          PROVE  i >= cmd.from /\ \E j \in 1 .. i : nodes[j].status = "to_run"
        <3>1. CASE i \in executed
            BY <3>1 DEF GraphInv, PlanKept
        <3>2. CASE i = pos /\ pos >= cmd.from /\ ~NothingToRun(pos)
            BY <1>2, <3>2 DEF NothingToRun
        <3> QED
            BY <2>1, <3>1, <3>2
    <2> QED
        BY <1>1, <1>9, <2>1 DEF PlanKept
<1> QED
    BY <1>3, <1>4, <1>5, <1>6, <1>10, <1>11 DEF GraphInv

\* What the run knows at a stage.
LEMMA AtStage ==
    ASSUME GraphInv, phase = "run"
    PROVE  /\ pos \in 1 .. 11 /\ cmd.until \in pos .. 11 /\ cmd.from \in 0 .. 11
           /\ Index = 1 .. 11 /\ config \in Config /\ links = Links(config)
           /\ tokens \in Nat /\ Planned = 1 .. cmd.until
           /\ \A j \in 1 .. cmd.until :
                /\ NodeSound(j, nodes[j].status, nodes[j].record, nodes[j].standsIn)
                /\ nodes[j].status # "blocked"
           /\ \A j \in 1 .. (pos - 1) : recordOf[j] = NoGraphRecord \/ RecordTrue(recordOf[j])
           /\ avail \in [ArtifactNames -> Nat]
           /\ \A n \in ArtifactNames : \A j \in 1 .. (pos - 1) :
                n \in recordOf[j].gives => avail[n] # 0
<1>1. /\ pos \in 1 .. 11 /\ cmd.until \in pos .. 11 /\ cmd.from \in 0 .. 11
      /\ Index = 1 .. 11 /\ config \in Config /\ links = Links(config)
      /\ tokens \in Nat /\ Planned = 1 .. cmd.until
    BY LinesAre DEF GraphInv, GraphTypes, Planned
<1>2. \A j \in 1 .. cmd.until :
         /\ NodeSound(j, nodes[j].status, nodes[j].record, nodes[j].standsIn)
         /\ nodes[j].status # "blocked"
    BY <1>1 DEF GraphInv, PlanSound, Refusals
<1>3. /\ \A j \in 1 .. (pos - 1) : recordOf[j] = NoGraphRecord \/ RecordTrue(recordOf[j])
      /\ avail = AvailOf(recordOf, pos)
    BY DEF GraphInv, RunState, RecordFor
<1>4. pos \in 1 .. 12
    BY <1>1
<1>5. /\ avail \in [ArtifactNames -> Nat]
      /\ \A n \in ArtifactNames : \A j \in 1 .. (pos - 1) :
            n \in recordOf[j].gives => avail[n] # 0
    BY <1>3, <1>4, AvailTyped
<1> QED
    BY <1>1, <1>2, <1>3, <1>5

\* The record that the run uses at a stage, if any.
UsedHere == IF nodes[pos].standsIn THEN nodes[pos].record
        ELSE LookupRecord(past, pos \in forced, Resolution)

LEMMA UsedIs ==
    ASSUME GraphInv, phase = "run", nodes[pos].status # "skipped"
    PROVE  /\ UsedHere # NoGraphRecord =>
                /\ RecordTrue(UsedHere)
                /\ ~nodes[pos].standsIn =>
                      /\ UsedHere.hash.stage = StageOrder[pos]
                      /\ UsedHere.hash.engine = EngineOf(config, StageOrder[pos])
                /\ pos >= cmd.from => \A n \in ArtifactNames :
                      UsedHere.content[n] # 0 => UsedHere.content[n] = avail[n]
           /\ NothingToRun(pos) => UsedHere = nodes[pos].record
           /\ UsedHere = NoGraphRecord =>
                ~nodes[pos].standsIn /\ ~NothingToRun(pos) /\ pos >= cmd.from
<1> DEFINE node == nodes[pos]
           s == StageOrder[pos]
           found == LookupRecord(past, pos \in forced, Resolution)
<1>1. /\ pos \in Index
      /\ pos \in 1 .. cmd.until
      /\ pos \in 1 .. 12
      /\ cmd.from \in 0 .. 11
      /\ Index = 1 .. 11
    BY AtStage
<1>2. NodeSound(pos, node.status, node.record,
node.standsIn) /\ node.status \in {"cached", "to_run"}
    BY <1>1, AtStage DEF NodeSound
<1>3. ASSUME node.standsIn
      PROVE  UsedHere = node.record /\ RecordTrue(UsedHere) /\ UsedHere # NoGraphRecord /\ ~(pos >= cmd.from)
    BY <1>1, <1>2, <1>3 DEF NodeSound, UsedHere
<1>4. ASSUME ~node.standsIn, UsedHere # NoGraphRecord
      PROVE  /\ RecordTrue(UsedHere) /\ UsedHere.hash.stage = s
             /\ UsedHere.hash.engine = EngineOf(config, s)
             /\ \A n \in ArtifactNames : UsedHere.content[n] # 0 => UsedHere.content[n] = avail[n]
    <2>1. UsedHere = found
        BY <1>4 DEF UsedHere
    <2>2. (pos \in forced) \in BOOLEAN
        OBVIOUS
    <2>3. /\ UsedHere \in past
          /\ Resolution.complete
          /\ UsedHere.hash = Resolution.hash
          /\ FreshRecord(UsedHere, Resolution.content)
        BY <1>4, <2>1, <2>2, LookupFacts
    <2>4. RecordTrue(UsedHere)
        BY <2>3 DEF GraphInv, GraphTypes
    <2>5. avail \in [ArtifactNames -> Nat]
        BY AtStage
    <2>6. /\ Resolution.hash.stage = s /\ Resolution.hash.engine = EngineOf(config, s)
          /\ Resolution.content \in [ArtifactNames -> Nat]
          /\ \A n \in ArtifactNames : Resolution.content[n] # 0 => Resolution.content[n] = avail[n]
          /\ s \notin IncrementalStages => Resolution.hash.ids = IdsOf(Resolution.content)
        <3>1. pos \in Index
            BY <1>1
        <3>2. ResolveSays(Resolution, config, cmd.until, s, links[pos], avail, hashes)
            BY <2>5, <3>1, ResolveFacts DEF Resolution
        <3> QED
            BY <2>3, <3>2 DEF ResolveSays
    <2>7. \A n \in ArtifactNames : UsedHere.content[n] # 0 => UsedHere.content[n] = Resolution.content[n]
        BY <2>3, <2>4, <2>6, HashTellsContent
    <2> QED
        BY <2>3, <2>4, <2>6, <2>7
<1>5. ASSUME NothingToRun(pos)
      PROVE UsedHere = node.record /\ UsedHere # NoGraphRecord
    <2>1. /\ node.status = "cached"
          /\ node.record # NoGraphRecord
          /\ NothingToRun(pos - 1)
        BY <1>1, <1>2, <1>5 DEF NothingToRun, NodeSound
    <2>2. CASE node.standsIn
        BY <1>3, <2>2
    <2>3. CASE ~node.standsIn
        <3>1. /\ executed = {} /\ hashes = HashesOf(PlanRecs, pos)
              /\ avail = AvailOf(recordOf, pos)
              /\ \A i \in 1 .. (pos - 1) : recordOf[i] = nodes[i].record
            BY <2>1, RunIsWherePlanWas
        <3>2. \A i \in 1 .. (pos - 1) : PlanRecs[i] = recordOf[i]
            BY <1>1, <3>1 DEF PlanRecs
        <3>3. AvailOf(PlanRecs, pos) = avail
            BY <1>1, <3>1, <3>2, AvailSame
        <3>4. pos \in Planned
            BY <1>1, AtStage
        <3>5. node.record = FoundThen(pos)
            BY <1>5, <2>1, <2>3, <3>1, <3>4 DEF GraphInv, PlanFinds
        <3> QED
            BY <2>1, <2>3, <3>1, <3>3, <3>5 DEF FoundThen, UsedHere, Resolution
    <2> QED
        BY <2>2, <2>3
<1>6. ASSUME UsedHere = NoGraphRecord
      PROVE ~node.standsIn /\ ~NothingToRun(pos) /\ pos >= cmd.from
    <2>1. ~node.standsIn /\ ~NothingToRun(pos)
        BY <1>3, <1>5, <1>6
    <2>2. PICK j \in 1 .. pos : nodes[j].status \notin {"skipped", "cached"}
        BY <2>1 DEF NothingToRun
    <2>3. j \in 1 .. cmd.until
        BY <1>1, AtStage
    <2>4. NodeSound(j, nodes[j].status, nodes[j].record,
    nodes[j].standsIn) /\ nodes[j].status # "blocked"
        BY <2>3, AtStage
    <2>5. j >= cmd.from
        BY <2>2, <2>4 DEF NodeSound
    <2> QED
        BY <1>1, <2>1, <2>5
<1> QED
    BY <1>3, <1>4, <1>5, <1>6

\* A run that ends at a stage without a result.
LEMMA StopsKeeps ==
    ASSUME GraphInv, phase = "run", NEW how \in {"blocked", "failed"}, RunStops(how),
           UNCHANGED <<config, cmd, links, forced, nodes, recordOf, hashes, tokens>>,
           \A r \in past' : RecordTrue(r),
           \/ executed' = executed
           \/ executed' = executed \union {pos} /\ pos >= cmd.from /\ ~NothingToRun(pos),
           how = "blocked" =>
              \E i \in 1 .. cmd.until :
                 /\ nodes[i].standsIn
                 /\ ~(Yields(config, StageOrder[i]) \subseteq nodes[i].record.gives)
    PROVE  GraphInv'
<1> USE DEF RunStops
<1>1. /\ pos \in 1 .. 11 /\ cmd.until \in 1 .. 11 /\ pos <= cmd.until /\ Index = 1 .. 11
      /\ tokens \in Nat /\ Planned = 1 .. cmd.until /\ Planned' = 1 .. cmd.until /\ GraphTypes
    BY AtStage DEF Planned, GraphInv
<1>2. GraphTypes'
    <2>1. \A r \in past' : RecordTrue(r)'
        BY DEF RecordTrue
    <2> QED
        BY <1>1, <2>1 DEF GraphTypes
<1>3. PlanSound'
    <2>1. \A i \in 1 .. cmd.until : RecordTrue(nodes[i].record) => RecordTrue(nodes[i].record)'
        BY DEF RecordTrue
    <2> QED
        BY <1>1, <2>1 DEF GraphInv, PlanSound, NodeSound
<1>4. PlanKept'
    <2>1. ASSUME NEW i \in executed'
          PROVE  i >= cmd.from /\ \E j \in 1 .. i : nodes[j].status = "to_run"
        <3>1. CASE i \in executed
            BY <3>1 DEF GraphInv, PlanKept
        <3>2. CASE i = pos /\ pos >= cmd.from /\ ~NothingToRun(pos)
            <4>1. PICK j \in 1 .. pos : nodes[j].status \notin {"skipped", "cached"}
                BY <3>2 DEF NothingToRun
            <4>2. j \in 1 .. cmd.until
                BY <1>1
            <4>3. nodes[j].status = "to_run"
                BY <4>1, <4>2, AtStage DEF NodeSound
            <4> QED
                BY <3>2, <4>3
        <3> QED
            BY <2>1, <3>1, <3>2
    <2> QED
        BY <2>1 DEF PlanKept
<1>5. Refusals' /\ PlanState' /\ PlanFinds' /\ RunState'
    BY DEF Refusals, PlanState, PlanFinds, RunState
<1> QED
    BY <1>2, <1>3, <1>4, <1>5 DEF GraphInv
LEMMA RunStageKeeps ==
    ASSUME GraphInv, RunStage
    PROVE  GraphInv'
<1> DEFINE node == nodes[pos]
           s == StageOrder[pos]
<1>1. phase = "run"
    BY DEF RunStage
<1>2. /\ pos \in Index /\ pos \in 1 .. 11 /\ Index = 1 .. 11 /\ pos \in 1 .. cmd.until
      /\ tokens \in Nat /\ config \in Config /\ s \in GraphStages
      /\ DOMAIN recordOf = Index /\ PerStage(hashes) /\ \A r \in past : RecordTrue(r)
    BY <1>1, AtStage DEF GraphInv, GraphTypes, GraphStages
<1>3. /\ NodeSound(pos, node.status, node.record, node.standsIn)
      /\ node.status \in {"skipped", "cached", "to_run"}
    BY <1>1, <1>2, AtStage DEF NodeSound
<1>4. avail = AvailOf(recordOf, pos) /\ recordOf[pos] = NoGraphRecord
    BY <1>1, <1>2 DEF GraphInv, RunState
<1>5. DOMAIN hashes = Index
    BY <1>2, EveryStage
<1>6. CASE node.status = "skipped" /\ SkipStage
    <2>1. /\ GoesOn /\ UNCHANGED <<past, config, cmd, links, forced, nodes, avail, hashes,
                                   executed, recordOf, tokens>>
        BY <1>6 DEF SkipStage
    <2>2. avail' = Merged(avail, NoGraphRecord.gives, NoGraphRecord.token)
        BY <1>4, <2>1, NoneIsEmpty DEF Merged, AvailOf
    <2>3. NothingToRun(pos) => NoGraphRecord = node.record /\ hashes[pos] = NoGraphRecord.hash
        <3> SUFFICES ASSUME NothingToRun(pos)
                     PROVE NoGraphRecord = node.record /\ hashes[pos] = NoGraphRecord.hash
            OBVIOUS
        <3>1. NoGraphRecord = node.record
            BY <1>3, <1>6 DEF NodeSound
        <3>2. NothingToRun(pos - 1)
            BY <1>2 DEF NothingToRun
        <3>3. hashes = HashesOf(PlanRecs, pos)
            BY <1>1, <3>2, RunIsWherePlanWas
        <3>4. hashes[pos] = NoHash
            BY <1>2, <3>3 DEF HashesOf
        <3> QED
            BY <3>1, <3>4, NoneIsEmpty
    <2>4. \A r \in past' : RecordTrue(r)'
        BY <1>2, <2>1 DEF RecordTrue
    <2> QED
        BY <1>1, <1>2, <1>4, <1>6, <2>1, <2>2, <2>3, <2>4, NoneIsEmpty, ReportedKeeps
<1>7. ASSUME node.status # "skipped", ServeStage(UsedHere)
      PROVE  GraphInv'
    <2>1. /\ UsedHere # NoGraphRecord /\ GoesOn
          /\ recordOf' = [recordOf EXCEPT ![pos] = UsedHere]
          /\ avail' = Merged(avail, UsedHere.gives, UsedHere.token)
          /\ hashes' = [hashes EXCEPT ![pos] = UsedHere.hash]
          /\ UNCHANGED <<past, config, cmd, links, forced, nodes, executed, tokens>>
        BY <1>7 DEF ServeStage
    <2>2. /\ RecordTrue(UsedHere)
          /\ ~node.standsIn => /\ UsedHere.hash.stage = s
                               /\ UsedHere.hash.engine = EngineOf(config, s)
          /\ pos >= cmd.from => \A n \in ArtifactNames :
                 UsedHere.content[n] # 0 => UsedHere.content[n] = avail[n]
          /\ NothingToRun(pos) => UsedHere = node.record
        BY <1>1, <1>7, <2>1, UsedIs
    <2>3. node.standsIn => UsedHere = node.record
        BY DEF UsedHere
    <2>4. PICK rec : rec = UsedHere
        OBVIOUS
    <2>5. PerStage(hashes') /\ hashes'[pos] = rec.hash /\ (\A k \in Index : k # pos => hashes'[k] = hashes[k])
        BY <1>2, <1>5, <2>1, <2>4, EveryStage
    <2>6. DOMAIN recordOf' = Index /\ recordOf'[pos] = rec /\ (\A k \in Index : k # pos => recordOf'[k] = recordOf[k])
        BY <1>2, <2>1, <2>4
    <2>7. RecordTrue(rec)' /\ \A r \in past' : RecordTrue(r)'
        BY <1>2, <2>1, <2>2, <2>4 DEF RecordTrue
    <2>8. /\ RecordTrue(rec)' /\ hashes'[pos] = rec.hash
          /\ IF nodes[pos].standsIn THEN rec = nodes[pos].record
             ELSE /\ rec.hash.stage = StageOrder[pos]
                  /\ rec.hash.engine = EngineOf(config, StageOrder[pos])
        BY <2>2, <2>3, <2>4, <2>5, <2>7
    <2>9. /\ avail' = Merged(avail, rec.gives, rec.token)
          /\ NothingToRun(pos) => rec = nodes[pos].record /\ hashes'[pos] = rec.hash
          /\ pos >= cmd.from => \A n \in ArtifactNames :
                rec.content[n] # 0 => rec.content[n] = avail[n]
        BY <2>1, <2>2, <2>4, <2>5
    <2>10. /\ tokens' \in Nat
           /\ tokens <= tokens' /\ executed' = executed /\ past' = past
        BY <1>2, <2>1
    <2>11. GoesOn /\ UNCHANGED <<config, cmd, links, forced, nodes>>
        BY <2>1
    <2> QED
        BY <1>1, <1>7, <2>5, <2>6, <2>7, <2>8, <2>9, <2>10, <2>11, ReportedKeeps
<1>8. ASSUME node.status # "skipped", BlockedMidway(Resolution, UsedHere)
      PROVE  GraphInv'
    <2>1. /\ UsedHere = NoGraphRecord /\ (~Resolution.complete \/ pos < cmd.from) /\ RunStops("blocked")
          /\ UNCHANGED <<past, config, cmd, links, forced, nodes, hashes, executed, recordOf, tokens>>
        BY <1>8 DEF BlockedMidway
    <2>2. ~node.standsIn /\ ~NothingToRun(pos) /\ pos >= cmd.from
        BY <1>1, <1>8, <2>1, UsedIs
    <2>3. ~Resolution.complete
        BY <1>1, <2>1, <2>2, AtStage
    <2>4. Registered(EngineOf(config, s)) /\ ~Skipped(config, s)
        BY <1>3, <1>8 DEF NodeSound
    <2>5. avail \in [ArtifactNames -> Nat] /\ links = Links(config) /\ cmd.until \in pos .. 11
        BY <1>1, AtStage
    <2>6. PICK n \in InputNames(s) :
             \/ links[pos][n] = 0 /\ ~Tolerated(config, cmd.until, s, n)
             \/ links[pos][n] # 0 /\ (avail[n] = 0 \/ hashes[links[pos][n]] = NoHash)
        <3>1. ResolveSays(Resolution, config, cmd.until, s, links[pos], avail, hashes)
            BY <1>2, <2>5, ResolveFacts DEF Resolution
        <3> QED
            BY <2>3, <3>1 DEF ResolveSays
    <2>7. links[pos][n] # 0 /\ (avail[n] = 0 \/ hashes[links[pos][n]] = NoHash)
        BY <1>2, <2>4, <2>5, <2>6, NothingMissing
    <2> DEFINE j == links[pos][n]
    <2>8. n \in ArtifactNames
        BY <1>2, InputsAre
    <2>9. j \in 1 .. (pos - 1) /\ ~Skipped(config,
    StageOrder[j]) /\ n \in Declares(config, StageOrder[j])
        BY <1>2, <2>5, <2>7, <2>8, LinkFacts
    <2> HIDE DEF j
    <2>10. j \in 1 .. cmd.until /\ j \in Index /\ StageOrder[j] \in GraphStages
        BY <1>2, <2>5, <2>9 DEF GraphStages
    <2>11. nodes[j].status # "skipped"
        BY <1>1, <2>9, <2>10, AtStage DEF NodeSound
    <2>12. /\ RecordTrue(recordOf[j]) /\ hashes[j] = recordOf[j].hash
           /\ IF nodes[j].standsIn THEN recordOf[j] = nodes[j].record
              ELSE /\ recordOf[j].hash.stage = StageOrder[j]
                   /\ recordOf[j].hash.engine = EngineOf(config, StageOrder[j])
        BY <1>1, <2>9, <2>11 DEF GraphInv, RunState, RecordFor
    <2>13. avail[n] = 0
        BY <2>7, <2>12, TrueIsSome DEF j
    <2>14. n \notin recordOf[j].gives
        BY <1>1, <2>8, <2>9, <2>13, AtStage
    <2>15. n \in Yields(config, StageOrder[j])
        BY <1>2, <2>9, <2>10, DeclaredIsYielded
    <2>16. nodes[j].standsIn
        <3> SUFFICES ASSUME ~nodes[j].standsIn PROVE FALSE
            OBVIOUS
        <3>1. recordOf[j].gives = GivesOf(EngineOf(config, StageOrder[j]), StageOrder[j])
            BY <2>12 DEF RecordTrue
        <3>2. recordOf[j].gives = Yields(config, StageOrder[j])
            BY <1>2, <2>10, <3>1, YieldsAre
        <3> QED
            BY <2>14, <2>15, <3>2
    <2>17. ~(Yields(config, StageOrder[j]) \subseteq nodes[j].record.gives)
        BY <2>12, <2>14, <2>15, <2>16
    <2> QED
        BY <1>1, <1>2, <2>1, <2>10, <2>16, <2>17, StopsKeeps
<1>9. ASSUME node.status # "skipped", ExecuteStage(Resolution, UsedHere)
      PROVE  GraphInv'
    <2> DEFINE others == { q \in past : q.hash # Resolution.hash }
               result == [hash |-> Resolution.hash, content |-> Resolution.content,
                          gives |-> Yields(config, s), token |-> tokens + 1]
    <2>1. /\ UsedHere = NoGraphRecord /\ Resolution.complete /\ pos >= cmd.from
          /\ executed' = executed \union {pos}
          /\ UNCHANGED <<config, cmd, links, forced, nodes>>
        BY <1>9 DEF ExecuteStage
    <2>2. ~node.standsIn /\ ~NothingToRun(pos)
        BY <1>1, <1>9, <2>1, UsedIs
    <2>3. CASE /\ past' = others /\ RunStops("failed")
               /\ UNCHANGED <<tokens, recordOf, avail, hashes>>
        BY <1>1, <1>2, <2>1, <2>2, <2>3, StopsKeeps
    <2>4. CASE /\ past' = others \union {result} /\ tokens' = tokens + 1
               /\ recordOf' = [recordOf EXCEPT ![pos] = result]
               /\ avail' = Merged(avail, result.gives, result.token)
               /\ hashes' = [hashes EXCEPT ![pos] = result.hash]
               /\ GoesOn
        <3>1. avail \in [ArtifactNames -> Nat]
            BY <1>1, AtStage
        <3>2. /\ Resolution.hash.stage = s /\ Resolution.hash.engine = EngineOf(config, s)
              /\ Resolution.content \in [ArtifactNames -> Nat]
              /\ \A n \in ArtifactNames : Resolution.content[n] # 0 => Resolution.content[n] = avail[n]
              /\ s \notin IncrementalStages => Resolution.hash.ids = IdsOf(Resolution.content)
            <4>1. ResolveSays(Resolution, config, cmd.until, s, links[pos], avail, hashes)
                BY <1>2, <3>1, ResolveFacts DEF Resolution
            <4> QED
                BY <2>1, <4>1 DEF ResolveSays
        <3>3. result.gives = GivesOf(EngineOf(config, s), s)
            BY <1>2, YieldsAre
        <3>4. PICK rec : rec = result
            OBVIOUS
        <3>5. RecordTrue(rec)'
            BY <1>2, <2>4, <3>2, <3>3, <3>4 DEF RecordTrue
        <3>6. \A r \in past' : RecordTrue(r)'
            <4> SUFFICES ASSUME NEW r \in past' PROVE RecordTrue(r)'
                OBVIOUS
            <4>1. CASE r \in past
                <5>1. tokens \in Nat /\ tokens' \in Nat /\ tokens <= tokens'
                    BY <1>2, <2>4
                <5> QED
                    BY <1>2, <4>1, <5>1, TrueStays
            <4>2. CASE r = rec
                BY <3>5, <4>2
            <4> QED
                BY <2>4, <3>4, <4>1, <4>2
        <3>7. PerStage(hashes') /\ hashes'[pos] = rec.hash /\ (\A k \in Index : k # pos => hashes'[k] = hashes[k])
            BY <1>2, <1>5, <2>4, <3>4, EveryStage
        <3>8. DOMAIN recordOf' = Index /\ recordOf'[pos] = rec /\ (\A k \in Index : k # pos => recordOf'[k] = recordOf[k])
            BY <1>2, <2>4, <3>4
        <3>9. tokens' \in Nat /\ tokens <= tokens'
            BY <1>2, <2>4
        <3>10. /\ RecordTrue(rec)' /\ hashes'[pos] = rec.hash
               /\ IF nodes[pos].standsIn THEN rec = nodes[pos].record
                  ELSE /\ rec.hash.stage = StageOrder[pos]
                       /\ rec.hash.engine = EngineOf(config, StageOrder[pos])
            BY <2>2, <3>2, <3>4, <3>5, <3>7
        <3>11. /\ avail' = Merged(avail, rec.gives, rec.token)
               /\ pos >= cmd.from => \A n \in ArtifactNames :
                     rec.content[n] # 0 => rec.content[n] = avail[n]
            BY <2>4, <3>2, <3>4
        <3>12. GoesOn
            BY <2>4
        <3> QED
            BY <1>1, <1>9, <2>1, <2>2, <3>6, <3>7, <3>8, <3>9, <3>10, <3>11, <3>12,
               ReportedKeeps
    <2> QED
        BY <1>9, <2>3, <2>4 DEF ExecuteStage
<1> QED
    BY <1>6, <1>7, <1>8, <1>9 DEF RunStage, UsedHere

LEMMA EvictKeeps ==
    ASSUME GraphInv, Evict
    PROVE  GraphInv'
<1> USE DEF Evict
<1>1. past' \subseteq past /\ phase = "idle"
    OBVIOUS
<1>2. Planned' = Planned
    BY DEF Planned
<1>3. GraphTypes'
    BY <1>1 DEF GraphInv, GraphTypes, RecordTrue
<1>4. PlanSound'
    BY <1>2 DEF GraphInv, PlanSound, NodeSound, RecordTrue
<1>5. Refusals'
    BY <1>1, <1>2 DEF GraphInv, Refusals, Excuse
<1>6. PlanKept'
    BY DEF GraphInv, PlanKept, CoherentAt
<1>7. PlanState' /\ PlanFinds' /\ RunState'
    BY <1>1 DEF PlanState, PlanFinds, RunState
<1> QED
    BY <1>3, <1>4, <1>5, <1>6, <1>7 DEF GraphInv

LEMMA GraphStutters == GraphInv /\ UNCHANGED graphvars => GraphInv'
<1> SUFFICES ASSUME GraphInv, UNCHANGED graphvars PROVE GraphInv'
    OBVIOUS
<1> USE DEF graphvars
<1>1. Planned' = Planned /\ PlanRecs' = PlanRecs /\ \A r : RecordTrue(r)' <=> RecordTrue(r)
    BY DEF Planned, PlanRecs, RecordTrue
<1>2. GraphTypes'
    BY <1>1 DEF GraphInv, GraphTypes
<1>3. PlanSound' /\ Refusals'
    BY <1>1 DEF GraphInv, PlanSound, NodeSound, RecordTrue, Refusals, Excuse
<1>4. PlanState' /\ PlanFinds'
    BY <1>1 DEF GraphInv, PlanState, PlanFinds, FoundThen, HashesOf, NothingToRun
<1>5. RunState' /\ PlanKept'
    BY <1>1 DEF GraphInv, RunState, RecordFor, RecordTrue, CoherentAt, HashesOf,
                NothingToRun, PlanKept
<1> QED
    BY <1>2, <1>3, <1>4, <1>5 DEF GraphInv

LEMMA GraphStep == GraphInv /\ [GraphNext]_graphvars => GraphInv'
<1> SUFFICES ASSUME GraphInv, [GraphNext]_graphvars PROVE GraphInv'
    OBVIOUS
<1>1. CASE GraphNext
    BY <1>1, PlanBeginsKeeps, PlanStageKeeps, PlanEndsKeeps, RunStageKeeps, EvictKeeps
       DEF GraphNext
<1>2. CASE UNCHANGED graphvars
    BY <1>2, GraphStutters
<1> QED
    BY <1>1, <1>2

LEMMA GraphInvHolds == GraphSpec => []GraphInv
BY GraphStarts, GraphStep, PTL DEF GraphSpec

LEMMA InvKeepsPlan == GraphInv => PlanIsKept
<1> SUFFICES ASSUME GraphInv PROVE PlanIsKept
    OBVIOUS
<1>1. cmd.until \in 1 .. 11 /\ cmd.from \in 0 .. 11
    BY LinesAre DEF GraphInv
<1>2. ASSUME outcome = "refused"
      PROVE  \E i \in 1 .. cmd.until : Excuse(i)
    <2>1. PICK i \in 1 .. cmd.until : nodes[i].status = "blocked"
        BY <1>2 DEF GraphInv, Refusals
    <2>2. Planned = 1 .. cmd.until
        BY <1>2 DEF Planned, GraphInv, GraphTypes
    <2> QED
        BY <1>2, <2>1, <2>2 DEF GraphInv, Refusals
<1>3. ASSUME outcome = "ok", NEW i \in 1 .. cmd.until, NEW n \in ArtifactNames,
             i >= cmd.from, recordOf[i].content[n] # 0
      PROVE  GivenBy(i, n) # 0 /\ recordOf[i].content[n] = recordOf[GivenBy(i, n)].token
    <2>1. recordOf[i].content[n] = AvailOf(recordOf, i)[n]
        BY <1>3 DEF GraphInv, PlanKept, CoherentAt
    <2>2. GivenBy(i, n) = Giver(recordOf, i, n)
        BY DEF GivenBy, Giver, LastOf
    <2> QED
        BY <1>3, <2>1, <2>2 DEF AvailOf
<1>4. /\ \A i \in executed : i >= cmd.from /\ \E j \in 1 .. i : nodes[j].status = "to_run"
      /\ outcome = "blocked" =>
            \E i \in 1 .. cmd.until : /\ nodes[i].standsIn
                                    /\ ~(Yields(config, StageOrder[i]) \subseteq nodes[i].record.gives)
    BY DEF GraphInv, PlanKept
<1> QED
    BY <1>2, <1>3, <1>4 DEF PlanIsKept, Excuse

\* The plan of a run and the run agree: what is executed was announced, a run
\* is refused or blocked only for the reasons that PlanIsKept lists, and what a
\* finished run reports from --from on was made from what it reports before.
THEOREM PlanIsKeptHolds == GraphSpec => []PlanIsKept
BY GraphInvHolds, InvKeepsPlan, PTL
=============================================================================
