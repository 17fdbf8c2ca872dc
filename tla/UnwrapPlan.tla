----------------------------- MODULE UnwrapPlan -----------------------------
(***************************************************************************)
(* How an interferogram is cut into tiles and how many unwrappers run at    *)
(* once: the strategy of a stack (choose_strategy) and the tiles that the   *)
(* unwrapping stage then cuts (tile_grid, merge_tiles, merge_labels).       *)
(*                                                                         *)
(* Source: unwrap/scheduler.py, unwrap/tiling.py.  Memory is counted in     *)
(* pixels: the estimate is proportional to them.  Phases are left out: a    *)
(* tile is its two intervals per axis.  Python's round() takes halves to    *)
(* the even neighbour.                                                      *)
(***************************************************************************)
EXTENDS Integers, FiniteSets, Sequences

CONSTANTS
    Sides,        \* bound: heights and widths of an interferogram, in pixels
    MemoryBudgets,      \* bound: pixels the memory budget stands for; 0: unknown
    CoreCounts,   \* bound: cores of the machine, nproc_per_igram
    TileCounts,   \* bound: rows and columns a configuration asks for; 0: auto
    MinOverlap,   \* min_overlap_px (200 in the code)
    MaxTiles      \* MAX_TILES (4096 in the code)

ASSUME SideAssumption == Sides \subseteq Nat \ {0}
ASSUME PlanCountAssumption ==
    /\ MemoryBudgets \subseteq Nat /\ TileCounts \subseteq Nat
    /\ CoreCounts \subseteq Nat \ {0}
    /\ MinOverlap \in Nat /\ MaxTiles \in Nat \ {0, 1}

VARIABLES
    stack,     \* what choose_strategy is asked for
    ntiles,    \* _auto_tiling: how many tiles the next grid is for; 0: not in its loop
    last,      \* the tiling it tried last
    strategy   \* the UnwrapPlan

unwrapvars == <<stack, ntiles, last, strategy>>

NoStack == [ny |-> 0]
NoTiling == [rows |-> 0]
NoStrategy == [rows |-> 0]

-----------------------------------------------------------------------------
Least(a, b) == IF a <= b THEN a ELSE b
Most(a, b) == IF a >= b THEN a ELSE b

CeilDiv(a, b) == (a + b - 1) \div b

\* round(a / b)
RoundDiv(a, b) ==
    LET q == a \div b
        r == 2 * (a % b)
    IN  IF r < b \/ (r = b /\ q % 2 = 0) THEN q ELSE q + 1

\* round(sqrt(a / b))
RoundSqrt(a, b) ==
    CHOOSE r \in 0 .. (a + 1) :
        LET low == (2 * r - 1) * (2 * r - 1) * b
            high == (2 * r + 1) * (2 * r + 1) * b
        IN  /\ r > 0 => low < 4 * a \/ (low = 4 * a /\ r % 2 = 0)
            /\ 4 * a < high \/ (high = 4 * a /\ r % 2 = 0)

-----------------------------------------------------------------------------
(* The grid.                                                                *)

\* rows * cols >= n when the raster allows it, tiles as square as possible.
NearSquareGrid(n, ny, nx) ==
    LET r0 == Least(Most(RoundSqrt(n * ny, nx), 1), ny)
        cols == Least(Most(CeilDiv(n, r0), 1), nx)
        rows == Most(r0, Least(ny, CeilDiv(n, cols)))
    IN  <<rows, cols>>

CoreShape(ny, nx, rows, cols) == <<CeilDiv(ny, rows), CeilDiv(nx, cols)>>

\* A quarter of the smaller side of the largest core, at least MinOverlap, at
\* most that side.
OverlapPixels(core) ==
    LET side == Least(core[1], core[2])
    IN  Least(Most(RoundDiv(side, 4), MinOverlap), side)

\* FAULT: the margins that overlap the neighbours are not counted.
TileIsItsCore(ny, nx, rows, cols, overlap) == CoreShape(ny, nx, rows, cols)

TileShape(ny, nx, rows, cols, overlap) ==
    LET core == CoreShape(ny, nx, rows, cols)
    IN  <<Least(ny, core[1] + (IF rows > 1 THEN overlap ELSE 0)),
          Least(nx, core[2] + (IF cols > 1 THEN overlap ELSE 0))>>

Tiling(ny, nx, rows, cols) ==
    LET overlap == IF rows * cols > 1
                   THEN OverlapPixels(CoreShape(ny, nx, rows, cols)) ELSE 0
        shape == TileShape(ny, nx, rows, cols, overlap)
    IN  [rows |-> rows, cols |-> cols, overlap |-> overlap, shape |-> shape,
         tile |-> shape[1] * shape[2]]

\* Concurrent tiles of one interferogram that fit the budget.
FittingTiles(t, budget, target) ==
    Least(Least(target, budget \div t.tile), t.rows * t.cols)

-----------------------------------------------------------------------------
(* The strategy.                                                            *)

\* Explicit tiles win; one tile when the interferogram fits or the budget is
\* unknown; otherwise as many as it takes.
Automatic(s) == s.rows = 0 /\ s.budget > 0 /\ s.ny * s.nx > s.budget

GivenTiles(s) ==
    IF s.rows > 0
    THEN Tiling(s.ny, s.nx, Least(s.rows, s.ny), Least(s.cols, s.nx))
    ELSE Tiling(s.ny, s.nx, 1, 1)

\* Unwrappers that are to work on one interferogram at once, if they fit.
Target(s) == IF s.nproc > 1 THEN s.nproc ELSE s.cores

\* Unwrapper processes per interferogram.
Nproc(s, t) ==
    IF Automatic(s)
    THEN Most(1, FittingTiles(t, s.budget, Target(s)))
    ELSE s.nproc

\* By cores, by memory and by the number of interferograms.
Parallel(s, nproc, est) ==
    LET byCores == Most(1, s.cores \div nproc)
        byMem == IF s.budget > 0 THEN Most(1, s.budget \div est) ELSE byCores
    IN  Most(1, Least(Least(byCores, byMem), s.n))

\* The plan says that the budget does not suffice.
Insufficient(s, t, nproc) ==
    /\ s.budget > 0
    /\ IF s.rows > 0 THEN t.tile * nproc > s.budget
       ELSE Automatic(s) /\ t.tile > s.budget

\* With method auto: the multi-resolution unwrapper for tiles and for dense
\* fringes, when it is there.
MethodOf(s, tiled) ==
    IF s.method # "auto" THEN s.method
    ELSE IF (tiled \/ s.fringed) /\ "tophu" \in s.available THEN "tophu"
    ELSE IF "snaphu" \in s.available \/ s.available = {} THEN "snaphu"
    ELSE CHOOSE m \in s.available : TRUE

ChooseStrategy(s, t) ==
    LET nproc == Nproc(s, t)
        tiled == t.rows * t.cols > 1
        est == IF tiled THEN t.tile * nproc ELSE s.ny * s.nx
    IN  [rows |-> t.rows, cols |-> t.cols, overlap |-> t.overlap,
         tile |-> t.tile, nproc |-> nproc, est |-> est,
         parallel |-> Parallel(s, nproc, est),
         insufficient |-> Insufficient(s, t, nproc),
         method |-> MethodOf(s, tiled)]

-----------------------------------------------------------------------------
(* The tiles of one axis: k pieces of 0 .. n - 1, each with a core it owns  *)
(* and the extent that is read.                                             *)

Edge(n, k, i) == RoundDiv(i * n, k)

AxisPartition(n, k, overlap) ==
    LET low == overlap \div 2
        high == overlap - low
    IN  [i \in 1 .. k |->
            [from |-> IF i = 1 THEN 0 ELSE Most(0, Edge(n, k, i - 1) - low),
             to |-> IF i = k THEN n ELSE Least(n, Edge(n, k, i) + high),
             coreFrom |-> Edge(n, k, i - 1),
             coreTo |-> Edge(n, k, i)]]

SmallestCore(n, k) ==
    CHOOSE c \in 0 .. n :
        /\ \E i \in 1 .. k : Edge(n, k, i) - Edge(n, k, i - 1) = c
        /\ \A i \in 1 .. k : Edge(n, k, i) - Edge(n, k, i - 1) >= c

\* tile_grid does not raise.
Accepted(n, k, overlap) ==
    k <= n /\ (k > 1 => overlap <= SmallestCore(n, k))

\* merge_tiles: the weight of pixel x in a piece, times the length of its
\* ramp: 0 outside, and more than 0 inside the extent.
RampWeight(piece, x) ==
    LET low == piece.coreFrom - piece.from
        high == piece.to - piece.coreTo
        size == piece.to - piece.from
        up == Least(size, 2 * low)
        down == Least(size, 2 * high)
    IN  IF x < piece.from \/ x >= piece.to THEN 0
        ELSE IF low > 0 /\ x - piece.from < up THEN x - piece.from + 1
        ELSE IF high > 0 /\ piece.to - x <= down THEN piece.to - x
        ELSE 1

-----------------------------------------------------------------------------
UnwrapInit ==
    stack = NoStack /\ ntiles = 0 /\ last = NoTiling /\ strategy = NoStrategy

Ask(s) ==
    /\ stack = NoStack
    /\ stack' = s
    /\ IF Automatic(s)
       THEN /\ ntiles' = Most(2, CeilDiv(s.ny * s.nx * Target(s), s.budget))
            /\ UNCHANGED strategy
       ELSE /\ strategy' = ChooseStrategy(s, GivenTiles(s))
            /\ UNCHANGED ntiles
    /\ UNCHANGED last

\* Once round the loop: the first grid of which a tile fits is taken; until then,
\* the next one has more tiles than the last.
TryGrid ==
    /\ 0 < ntiles /\ ntiles <= MaxTiles
    /\ LET grid == NearSquareGrid(ntiles, stack.ny, stack.nx)
           t == Tiling(stack.ny, stack.nx, grid[1], grid[2])
       IN  /\ last' = t
           /\ IF FittingTiles(t, stack.budget, Target(stack)) >= 1
              THEN ntiles' = 0 /\ strategy' = ChooseStrategy(stack, t)
              ELSE ntiles' = t.rows * t.cols + 1 /\ UNCHANGED strategy
    /\ UNCHANGED stack

\* No grid is small enough: the last one tried is taken; when the first was to
\* have too many tiles already, there is none, and the assertion fails.
GiveUp ==
    /\ ntiles > MaxTiles
    /\ ntiles' = 0
    /\ strategy' = IF last = NoTiling THEN NoStrategy ELSE ChooseStrategy(stack, last)
    /\ UNCHANGED <<stack, last>>

\* One interferogram where nothing is installed, or three with dense fringes
\* and both unwrappers.
StackInputs ==
    { [ny |-> y, nx |-> x, n |-> n, cores |-> c, budget |-> b, nproc |-> p, rows |-> g[1],
       cols |-> g[2], method |-> "auto", fringed |-> n = 3,
       available |-> IF n = 3 THEN {"snaphu", "tophu"} ELSE {}] :
        y \in Sides, x \in Sides, n \in {1, 3}, c \in CoreCounts, b \in MemoryBudgets,
        p \in CoreCounts, g \in {<<0, 0>>} \union (TileCounts \ {0}) \X (TileCounts \ {0}) }

UnwrapNext == (\E s \in StackInputs : Ask(s)) \/ TryGrid \/ GiveUp

UnwrapSpec == UnwrapInit /\ [][UnwrapNext]_unwrapvars

-----------------------------------------------------------------------------
(* Properties.                                                              *)

\* Pieces of an accepted axis: the cores are disjoint and cover the axis, an
\* extent holds its core and overlaps its neighbours only, and every pixel is
\* merged from at least one piece.
AxisIsCovered(n, k, overlap) ==
    LET A == AxisPartition(n, k, overlap)
    IN  /\ \A x \in 0 .. n - 1 :
             /\ Cardinality({i \in 1 .. k : A[i].coreFrom <= x /\ x < A[i].coreTo}) = 1
             /\ \E i \in 1 .. k : RampWeight(A[i], x) > 0
        /\ \A i \in 1 .. k :
             /\ A[i].from <= A[i].coreFrom /\ A[i].coreTo <= A[i].to
             /\ \A j \in i + 2 .. k : A[i].to <= A[j].from

\* A strategy that does not say that memory is insufficient stays within the
\* budget with everything it runs at once, uses no more cores than there are
\* (or than one interferogram was told to use), and cuts tiles that cover the
\* raster and are not larger than it estimated.  When the rows and columns
\* divide the raster, tile_grid accepts its overlap.
StrategyFits ==
    strategy # NoStrategy =>
        /\ stack.budget > 0 /\ ~strategy.insufficient =>
             strategy.parallel * strategy.est <= stack.budget
        /\ strategy.parallel * strategy.nproc <= Most(stack.cores, strategy.nproc)
        /\ stack.ny % strategy.rows = 0 /\ stack.nx % strategy.cols = 0 =>
             /\ Accepted(stack.ny, strategy.rows, strategy.overlap)
             /\ Accepted(stack.nx, strategy.cols, strategy.overlap)
        /\ Accepted(stack.ny, strategy.rows, strategy.overlap)
           /\ Accepted(stack.nx, strategy.cols, strategy.overlap) =>
             LET Y == AxisPartition(stack.ny, strategy.rows, strategy.overlap)
                 X == AxisPartition(stack.nx, strategy.cols, strategy.overlap)
             IN  /\ AxisIsCovered(stack.ny, strategy.rows, strategy.overlap)
                 /\ AxisIsCovered(stack.nx, strategy.cols, strategy.overlap)
                 /\ \A i \in DOMAIN Y : \A j \in DOMAIN X :
                      (Y[i].to - Y[i].from) * (X[j].to - X[j].from) <= strategy.tile

=============================================================================
