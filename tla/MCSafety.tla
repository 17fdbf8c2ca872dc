------------------------------ MODULE MCSafety ------------------------------
(***************************************************************************)
(* Instances, for TLC, of components that share no state and promise        *)
(* nothing but safety: gc alone, tiling, the MintPy directory, planning,    *)
(* the interferogram network, the stack store, sweeps, the configuration    *)
(* form, diagnosis, the unwrap stage, and the panels of the dock.  A         *)
(* behaviour is one of one component.                                       *)
(***************************************************************************)
EXTENDS MCCacheGc, MCMintPy, UnwrapPlan, StageGraph, Network, IgramStore, Sweep,
        ConfigForm, Diagnose, UnwrapStage, MCDockPanels

CONSTANTS k1, k2    \* keys of pairs

(* Planning.                                                                *)

GraphConfig(ig, m, ts, t, u) ==
    [ig |-> ig, method |-> m, ts |-> ts, truth |-> t, tuning |-> u]

SomeConfigs ==
    { GraphConfig("hyp3", "snaphu", "mintpy", TRUE, 1),
      GraphConfig("isce2_topsstack", "auto", "mintpy", TRUE, 1),
      GraphConfig("isce2_topsstack", "auto", "dolphin", FALSE, 2),
      GraphConfig("fake", "snaphu", "fake", FALSE, 1),
      GraphConfig("compass_isce3", "snaphu", "mintpy", FALSE, 1) }

Steps(until, from, force) == [until |-> until, from |-> from, force |-> force]

SomeLines == { Steps(11, 0, {}), Steps(11, 0, {2}), Steps(8, 0, {5}), Steps(11, 7, {}),
               Steps(11, 6, {}), Steps(11, 9, {4}) }

(* The network: of two orbits, the first with bursts missing in every way,  *)
(* and every combination of baselines.                                      *)

Shares == [b \in {1, 2} |-> IF b = 1 THEN 60 ELSE 40]

FourDays == {0, 12, 24, 60}

Acquired(whole, some, b) ==
    [d \in Days |-> IF d \in whole THEN {1, 2} ELSE IF d \in some THEN {b} ELSE {}]

Archives ==
    { Acquired(Days, {}, 1), Acquired({0, 24, 60}, {}, 1), Acquired({0, 24, 60}, {12}, 1),
      Acquired({12, 24}, {0, 60}, 2), [d \in Days |-> IF d = 0 THEN {1} ELSE {2}] }

SomeSearches ==
    { [archive |-> << a, Acquired(Days, {}, 1) >>,
       perps |-> << p, [d \in Days |-> IF d < 24 THEN 0 ELSE 9] >>, network |-> m] :
        a \in Archives, p \in [Days -> Offsets \union {Unknown}], m \in NetworkMethods }

(* The store.                                                               *)

SomeStacks == { [n |-> 1, unw |-> FALSE, conncomp |-> FALSE],
                [n |-> 2, unw |-> TRUE, conncomp |-> FALSE] }

SomeExtras == { {"mask"}, {"unw", "conncomp"} }

(* Sweeps.                                                                  *)

BaseConfig == [alpha |-> 1, cost |-> 1]

Reads == [alpha |-> 1, cost |-> 2]

Goals == [gt |-> "min", tc |-> "max"]

Axis(k, v) == [key |-> k, values |-> v]

SomeGrids ==
    { << Axis("alpha", <<1, 2>>), Axis("cost", <<1, 2>>) >>, << Axis("cost", <<1, 2, 3>>) >>,
      << Axis("alpha", <<1>>), Axis("none", <<1, 2>>) >>,
      << Axis("alpha", <<1, 2, 3>>), Axis("cost", <<1, 2>>) >> }

Measured(gt, tc) == [gt |-> gt, tc |-> tc]

SomeQualities == { Measured(Unmeasured, 1), Measured(1, 1), Measured(2, 2), Measured(2, Unmeasured) }

(* The form: one of the files exists at first.                              *)

Existing == CHOOSE p \in Files : TRUE

(* The knowledge base: a generic entry that one of SNAPHU supersedes, and   *)
(* two of ISCE2; logs whose content speaks for one engine, for two or none. *)

KBEntry(i, e, severity, hint, supersedes) ==
    [id |-> i, engine |-> e, severity |-> severity, hint |-> hint, supersedes |-> supersedes]

SomeEntries ==
    { KBEntry(1, "any", "WARN", "later", {}),
      KBEntry(2, "snaphu", "FAIL", "tile", {1}),
      KBEntry(3, "isce2", "FAIL", NoHint, {}),
      KBEntry(4, "isce2", "WARN", "retry", {}) }

LogText(hits, marks, best, event) ==
    [hits |-> hits, marks |-> marks, best |-> best, event |-> event]

SomeLogs ==
    { LogText({}, {}, {}, {}), LogText({1, 2}, {"snaphu"}, {"snaphu"}, {"any"}),
      LogText({1, 3, 4}, {"isce2", "snaphu"}, {"isce2", "snaphu"}, {"any"}),
      LogText({2}, {"snaphu", "isce2"}, {"isce2"}, {}), LogText({}, {"isce2"}, {"isce2"}, {"isce2"}) }

LogNamedAfter == [n \in LogNames |-> IF n = 1 THEN "snaphu" ELSE NoEngine]

SomeErrors == { [hint |-> NoHint, attached |-> {}], [hint |-> "own", attached |-> {}] }

(* Unwrapping: with files and with a library, two at a time; refused calls. *)

CallOf(from, method, cost, tiled, lows, input) ==
    [origin |-> from, method |-> method, cost |-> cost, saves |-> FALSE,
     tiled |-> tiled, lows |-> lows, geometry |-> tiled, stack |-> input, pool |-> 2]

SomeCalls ==
    { CallOf("command", "snaphu", "topo", TRUE, TRUE, "good"),
      CallOf("stage", "snaphu", "topo", FALSE, FALSE, "good"),
      CallOf("stage", "snaphu", "defo", TRUE, FALSE, "good"),
      CallOf("command", "identity", "defo", FALSE, TRUE, "good"),
      CallOf("command", "typo", "defo", FALSE, TRUE, "good"),
      CallOf("command", "tophu", "defo", TRUE, TRUE, "unreadable") }

SomeEngines == { {"snaphu-py", "snaphu"}, {"snaphu-py", "tophu"}, {"snaphu"} }

-----------------------------------------------------------------------------
VARIABLE part    \* the component of this behaviour

safetyvars == <<part, allvars, mintpyvars, unwrapvars, graphvars, netvars, storevars,
                sweepvars, formvars, diagvars, unwrapstagevars, panelvars>>

\* A component that rests.
NetworkRest ==
    /\ search = CHOOSE s \in Searches : TRUE
    /\ search \in Searches
    /\ candidates = [o \in Orbits |-> NoCandidate]
    /\ recommended = 0

SweepRest ==
    /\ grid = CHOOSE g \in Grids : Count(g) <= MaxPoints
    /\ grid \in Grids
    /\ quality = << >> /\ cached = {} /\ rows = << >> /\ front = NotRanked

SafetyInit ==
    /\ part \in {"gc", "mintpy", "tiles", "plan", "net", "store", "sweep", "form",
                 "diag", "unwrap", "panels"}
    /\ MintPyInit /\ (part # "mintpy" => asked = CHOOSE l \in Lines : TRUE)
    /\ UnwrapInit /\ GraphInit /\ StoreInit
    /\ IF part = "net" THEN NetworkInit ELSE NetworkRest
    /\ IF part = "sweep" THEN SweepInit ELSE SweepRest
    /\ FormInit /\ \A p \in Files : configs[p] # NoFile <=> p = Existing
    /\ DiagInit /\ (part # "diag" => runsOn = CHOOSE e \in StageEngines : TRUE)
    /\ UnwrapStageInit
    /\ part # "unwrap" => installed = CHOOSE i \in Installations : TRUE
    /\ PanelsInit /\ configFiles = IF part = "panels" THEN {"a"} ELSE {}
    /\ settings.exe
    /\ IF part = "gc" THEN DiskInit ELSE GcInit

\* One component steps, the others rest.
SafetyNext ==
    /\ UNCHANGED part
    /\ IF part = "gc" THEN Gc ELSE UNCHANGED allvars
    /\ IF part = "mintpy" THEN MintPyNext ELSE UNCHANGED mintpyvars
    /\ IF part = "tiles" THEN UnwrapNext ELSE UNCHANGED unwrapvars
    /\ IF part = "plan" THEN GraphNext ELSE UNCHANGED graphvars
    /\ IF part = "net" THEN NetworkNext ELSE UNCHANGED netvars
    /\ IF part = "store" THEN StoreNext ELSE UNCHANGED storevars
    /\ IF part = "sweep" THEN SweepNext ELSE UNCHANGED sweepvars
    /\ IF part = "form" THEN FormNext ELSE UNCHANGED formvars
    /\ IF part = "diag" THEN DiagNext ELSE UNCHANGED diagvars
    /\ IF part = "unwrap" THEN UnwrapStageNext ELSE UNCHANGED unwrapstagevars
    /\ IF part = "panels" THEN PanelsNext ELSE UNCHANGED panelvars

SafetySpec == SafetyInit /\ [][SafetyNext]_safetyvars

SafetyTypeOK == GcTypeOK /\ MintPyTypeOK /\ PanelsTypeOK
=============================================================================
