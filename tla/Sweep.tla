------------------------------- MODULE Sweep -------------------------------
(***************************************************************************)
(* A parameter sweep: every point of a grid is merged into the              *)
(* configuration and run through the pipeline, next to the results that the *)
(* points before it left in the node cache; a point that fails is a row of  *)
(* its own, and the rows that none of the others dominates are the front.   *)
(*                                                                         *)
(* Source: validate/sweep.py.  The pipeline is two stages, the second reads *)
(* the first; how good a result is depends on the configuration alone.      *)
(***************************************************************************)
EXTENDS Integers, Sequences, FiniteSets, FiniteSetsExt, SequencesExt

CONSTANTS
    Base,         \* the configuration: [dotted key -> value]
    StageOf,      \* [dotted key -> 1 .. 2], the stage that reads it
    Grids,        \* bound: grids, sequences of [key, values : sequence]
    MaxPoints,    \* max_points
    Senses,       \* objectives: [metric -> "min" or "max"]
    Qualities,    \* bound: what a configuration measures: [metric -> Nat or Unmeasured]
    Unmeasured    \* a metric that is None or not finite

ASSUME SweepAssumption ==
    /\ MaxPoints \in Nat
    /\ \A m \in DOMAIN Senses : Senses[m] \in {"min", "max"}
    /\ Qualities \subseteq [DOMAIN Senses -> Int \union {Unmeasured}]
    /\ Unmeasured \notin Int

\* A grid is a mapping of keys to lists.
ASSUME GridAssumption ==
    \A g \in Grids :
        /\ g \in Seq(Range(g))
        /\ \A k \in DOMAIN g : g[k].values \in Seq(Range(g[k].values))
        /\ \A j, k \in DOMAIN g : g[j].key = g[k].key => j = k

VARIABLES
    grid,      \* the grid of the sweep file
    quality,   \* what the configurations of the grid measure
    cached,    \* keys of the results in the node cache
    rows,      \* the SweepRows
    front      \* indices of pareto_front, or NotRanked

sweepvars == <<grid, quality, cached, rows, front>>

NotRanked == {0}

-----------------------------------------------------------------------------
(* Points and configurations.                                               *)

Count(g) == FoldLeft(LAMBDA n, axis : n * Len(axis.values), 1, g)

\* FAULT: all keys step together.
StepTogether(g, i) ==
    [key \in { g[k].key : k \in DOMAIN g } |->
        LET k == CHOOSE x \in DOMAIN g : g[x].key = key
        IN  g[k].values[((i - 1) % Len(g[k].values)) + 1]]

\* The i-th point of the product, the first key the slowest.
PointOf(g, i) ==
    LET faster(k) == Count(SubSeq(g, k + 1, Len(g)))
        value(k) == g[k].values[(((i - 1) \div faster(k)) % Len(g[k].values)) + 1]
    IN  [key \in { g[k].key : k \in DOMAIN g } |->
            value(CHOOSE k \in DOMAIN g : g[k].key = key)]

\* deep_merge, and validation, which refuses a key that the configuration has
\* not.
Valid(point) == DOMAIN point \subseteq DOMAIN Base

Applied(point) == [k \in DOMAIN Base |-> IF k \in DOMAIN point THEN point[k] ELSE Base[k]]

\* The key of the result of a stage: the parameters that went into it.
ResultKey(cfg, s) ==
    [stage |-> s, params |-> [k \in { x \in DOMAIN Base : StageOf[x] <= s } |-> cfg[k]]]

-----------------------------------------------------------------------------
(* The front.                                                               *)

OkRows == { i \in DOMAIN rows : rows[i].ok }

\* FAULT: an objective that nothing measured is kept.
EveryObjective == DOMAIN Senses

\* available_objectives: without those that no successful row measured.
Objectives ==
    IF OkRows = {} THEN DOMAIN Senses
    ELSE { m \in DOMAIN Senses : \E i \in OkRows : rows[i].metrics[m] # Unmeasured }

Better(m, v, w) == IF Senses[m] = "max" THEN v > w ELSE v < w

Dominates(names, i, j) ==
    /\ \A m \in names : ~Better(m, rows[j].metrics[m], rows[i].metrics[m])
    /\ \E m \in names : Better(m, rows[i].metrics[m], rows[j].metrics[m])

Usable(names) == { i \in OkRows : \A m \in names : rows[i].metrics[m] # Unmeasured }

ParetoFront ==
    LET names == Objectives
        usable == Usable(names)
    IN  IF names = {} THEN {}
        ELSE { i \in usable : ~\E j \in usable \ {i} : Dominates(names, j, i) }

-----------------------------------------------------------------------------
Points == { PointOf(grid, i) : i \in 1 .. Count(grid) }

SweepInit ==
    /\ grid \in { g \in Grids : Count(g) <= MaxPoints }
    /\ quality \in [{ Applied(p) : p \in { q \in Points : Valid(q) } } -> Qualities]
    /\ cached = {}
    /\ rows = << >>
    /\ front = NotRanked

Running == Len(rows) < Count(grid)

Point == PointOf(grid, Len(rows) + 1)

NoMetrics == [m \in DOMAIN Senses |-> Unmeasured]

\* A run that ends after n stages, and metrics_from_run, which may raise.  A
\* stage whose result is cached cannot fail.  (Of a failed run, metrics are
\* recorded as far as it came; they are never ranked.)
RunPoint ==
    /\ Running /\ Valid(Point)
    /\ \E n \in 0 .. 2, raised \in BOOLEAN :
         LET cfg == Applied(Point)
             ok == n = 2 /\ ~raised
         IN  /\ n < 2 => ResultKey(cfg, n + 1) \notin cached
             /\ cached' = cached \union { ResultKey(cfg, s) : s \in 1 .. n }
             /\ rows' = Append(rows,
                    [params |-> Point, ok |-> ok,
                     hits |-> Cardinality({ s \in 1 .. n : ResultKey(cfg, s) \in cached }),
                     metrics |-> IF ok THEN quality[cfg] ELSE NoMetrics])
    /\ UNCHANGED <<grid, quality, front>>

RefusePoint ==
    /\ Running /\ ~Valid(Point)
    /\ rows' = Append(rows, [params |-> Point, ok |-> FALSE, hits |-> 0, metrics |-> NoMetrics])
    /\ UNCHANGED <<grid, quality, cached, front>>

RankRows ==
    /\ ~Running /\ front = NotRanked
    /\ front' = ParetoFront
    /\ UNCHANGED <<grid, quality, cached, rows>>

SweepNext == RunPoint \/ RefusePoint \/ RankRows

SweepSpec == SweepInit /\ [][SweepNext]_sweepvars

-----------------------------------------------------------------------------
(* Properties.                                                              *)

Measures(i, names) == \A m \in names : rows[i].metrics[m] # Unmeasured

\* The points of a grid are all the ways to choose a value for each key, each of
\* them once, unless a list has a value twice.
GridIsCovered ==
    LET keys == { grid[k].key : k \in DOMAIN grid }
        values == UNION { Range(grid[k].values) : k \in DOMAIN grid }
    IN  /\ Points = { p \in [keys -> values] :
                        \A k \in DOMAIN grid : p[grid[k].key] \in Range(grid[k].values) }
        /\ (\A k \in DOMAIN grid : IsInjective(grid[k].values)) =>
              Cardinality(Points) = Count(grid)

\* The front of a sweep, whatever points failed or measured only part of the
\* objectives: none of its rows dominates another, each complete row left out is
\* dominated by a row of it, and an objective that nothing could measure does
\* not empty it (validate/sweep.py).
FrontIsHonest ==
    front # NotRanked =>
        LET measured == { m \in DOMAIN Senses :
                           \E i \in OkRows : rows[i].metrics[m] # Unmeasured }
            whole == { i \in OkRows : measured # {} /\ Measures(i, measured) }
        IN  /\ front \subseteq whole
            /\ \A i, j \in front : ~Dominates(measured, i, j)
            /\ \A j \in whole \ front : \E i \in front : Dominates(measured, i, j)
            /\ whole # {} => front # {}
=============================================================================
