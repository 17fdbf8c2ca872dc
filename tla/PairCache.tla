----------------------------- MODULE PairCache -----------------------------
(***************************************************************************)
(* The per-pair sub-cache of one node directory, and the unwrapping stage   *)
(* that fills it.                                                           *)
(*                                                                         *)
(* work/unwrap/<hash>/pairs/ holds one result file per interferogram and a  *)
(* manifest.json with, per pair, the identity the result was computed for   *)
(* and a fast hash of the file (size, mtime, first and last MiB).  A run    *)
(* looks every pair up, computes the missing ones in a pool of workers,     *)
(* writes their files in place, loads the reused ones, computes again those *)
(* that do not load, replaces the manifest and prunes what it no longer     *)
(* names.  Runs follow one another (the node lock, module RunCache); each   *)
(* may die at any step, and files may rot in place.                         *)
(*                                                                         *)
(* Source: pipeline/incremental.py, unwrap/api.py, pipeline/cache.py,       *)
(* pipeline/executor.py.  The fast hash is a stamp: every write gives a     *)
(* file a stamp nobody remembers, and damage in the middle of the file      *)
(* leaves it alone.  A death takes the pool's workers with it.              *)
(***************************************************************************)
EXTENDS Integers, FiniteSets

CONSTANTS
    Pairs,        \* interferograms of the stack, in stack order
    Identities,   \* what a pair's result depends on: parameters and input
    FileStamps,   \* values of the fast hash that are told apart
    Workers,      \* n_parallel of the resolved plan
    NoIdentity,   \* "not a pair of this run", "no entry", "no file"
    Stacks        \* what a run can ask: an identity for each pair it has

ASSUME PairAssumption == Pairs \subseteq Nat
ASSUME WorkerAssumption == Workers \in Nat \ {0}
ASSUME NoIdentityAssumption == NoIdentity \notin Identities

MaybeId == Identities \union {NoIdentity}

ASSUME StackAssumption == Stacks \subseteq [Pairs -> MaybeId]

NoStamp == 0
ASSUME StampAssumption == FileStamps \subseteq Nat \ {NoStamp}

\* A row of pairs/manifest.json, and a result file.
PairEntry == [id : MaybeId, at : FileStamps \union {NoStamp}]
PairFile == [id : MaybeId, ok : BOOLEAN, at : FileStamps \union {NoStamp}]

NoEntry == [id |-> NoIdentity, at |-> NoStamp]
NoFile == [id |-> NoIdentity, ok |-> FALSE, at |-> NoStamp]

NoEntries == [p \in Pairs |-> NoEntry]
NoPairs == [p \in Pairs |-> NoIdentity]

PairFate == {"none", "queued", "running", "part", "reused", "retry", "placed",
             "failed"}

StagePhase == {"idle", "wipe", "lookup", "pool", "take", "write", "reuse",
               "save", "prune", "ended"}

VARIABLES
    file,     \* result files in pairs/
    rows,     \* the rows of pairs/manifest.json
    legible,  \* the manifest can be parsed
    stage,    \* where the run in the stage is
    ask,      \* identity it wants for every pair of its stack
    partial,  \* the executor asked for the sub-cache (incremental, not forced)
    again,    \* in the second round, for the pairs that did not load
    fate,     \* what became of every pair so far
    entries,  \* rows of the manifest being built
    unw,      \* identity of the result placed in the stack, pair by pair
    cur       \* pairs whose file is being written: at most one

store == <<file, rows, legible>>
runvars == <<stage, ask, partial, again, fate, entries, unw, cur>>
pairvars == <<file, rows, legible, stage, ask, partial, again, fate, entries,
              unw, cur>>

-----------------------------------------------------------------------------
Asked == {p \in Pairs : ask[p] # NoIdentity}

With(state) == {p \in Pairs : fate[p] = state}

\* Pairs are submitted, taken and loaded in stack order (also: one stamp).
First(S) == {p \in S : \A q \in S : p <= q}

\* A stamp that neither the manifest on disk nor the one being built holds.
FreshStamps(p) == FileStamps \ {file[p].at, rows[p].at, entries[p].at}

\* The manifest names this identity and the file is what was hashed.
LookupHit(p) ==
    /\ rows[p].id = ask[p]
    /\ file[p] # NoFile
    /\ file[p].at = rows[p].at

-----------------------------------------------------------------------------
\* The executor starts the stage under the node's lock.  Without the
\* sub-cache pairs/ is removed, and nothing is kept afterwards.
BeginStage(want, sub) ==
    /\ stage = "idle"
    /\ ask' = want
    /\ partial' = sub
    /\ again' = FALSE
    /\ stage' = IF sub THEN "lookup" ELSE "wipe"
    /\ UNCHANGED <<file, rows, legible, fate, entries, unw, cur>>

\* shutil.rmtree(pairs/), in the order the file system lists it.
Wipe ==
    /\ stage = "wipe"
    /\ \/ \E p \in Pairs :
            /\ file[p] # NoFile
            /\ file' = [file EXCEPT ![p] = NoFile]
            /\ UNCHANGED <<rows, legible>>
       \/ /\ rows # NoEntries \/ ~legible
          /\ rows' = NoEntries
          /\ legible' = TRUE
          /\ UNCHANGED file
    /\ UNCHANGED runvars

Wiped ==
    /\ stage = "wipe"
    /\ rows = NoEntries /\ legible
    /\ \A p \in Pairs : file[p] = NoFile
    /\ stage' = "lookup"
    /\ UNCHANGED <<file, rows, legible, ask, partial, again, fate, entries, unw,
                   cur>>

\* FAULT: a hit is not carried over into the manifest being built.
HitForgotten(p, hit) == NoEntry

\* lookup() registers the entry of a hit.
Registered(p, hit) == IF hit THEN rows[p] ELSE NoEntry

\* PairCache.load and one lookup per pair.  An unreadable manifest, or no
\* sub-cache at all, is a miss for every pair.
Lookup ==
    LET Hit(p) == partial /\ legible /\ LookupHit(p)
    IN  /\ stage = "lookup"
        /\ fate' = [p \in Pairs |-> IF p \notin Asked THEN "none"
                                   ELSE IF Hit(p) THEN "reused" ELSE "queued"]
        /\ entries' = [p \in Pairs |-> Registered(p, p \in Asked /\ Hit(p))]
        /\ stage' = "pool"
        /\ UNCHANGED <<file, rows, legible, ask, partial, again, unw, cur>>

-----------------------------------------------------------------------------
(* The worker pool.                                                         *)

JobStarts(p) ==
    /\ stage = "pool"
    /\ p \in First(With("queued"))
    /\ Cardinality(With("running")) < Workers
    /\ fate' = [fate EXCEPT ![p] = "running"]
    /\ UNCHANGED <<file, rows, legible, stage, ask, partial, again, entries,
                   unw, cur>>

\* The worker leaves its arrays in out/_parts, or raises: the other
\* interferograms go on either way.
JobEnds(p) ==
    /\ stage = "pool"
    /\ fate[p] = "running"
    /\ \E end \in {"part", "failed"} : fate' = [fate EXCEPT ![p] = end]
    /\ UNCHANGED <<file, rows, legible, stage, ask, partial, again, entries,
                   unw, cur>>

PoolDrained ==
    /\ stage = "pool"
    /\ With("queued") \union With("running") = {}
    /\ stage' = "take"
    /\ UNCHANGED <<file, rows, legible, ask, partial, again, fate, entries, unw,
                   cur>>

-----------------------------------------------------------------------------
(* Assembly of the stack.                                                   *)

\* take(): the arrays of a part are placed; with the sub-cache its file is
\* opened for writing over whatever was there.
TakePart(p) ==
    /\ stage = "take"
    /\ p \in First(With("part"))
    /\ unw' = [unw EXCEPT ![p] = ask[p]]
    /\ IF partial
       THEN /\ \E t \in First(FreshStamps(p)) :
                 file' = [file EXCEPT
                            ![p] = [id |-> ask[p], ok |-> FALSE, at |-> t]]
            /\ cur' = {p}
            /\ stage' = "write"
            /\ UNCHANGED fate
       ELSE /\ fate' = [fate EXCEPT ![p] = "placed"]
            /\ UNCHANGED <<file, cur, stage>>
    /\ UNCHANGED <<rows, legible, ask, partial, again, entries>>

\* store() hashes the file that was just written.
StampNow(p) == file[p].at

StorePart(p) ==
    /\ stage = "write"
    /\ p \in cur
    /\ file' = [file EXCEPT ![p].ok = TRUE]
    /\ entries' = [entries EXCEPT ![p] = [id |-> ask[p], at |-> StampNow(p)]]
    /\ fate' = [fate EXCEPT ![p] = "placed"]
    /\ cur' = {}
    /\ stage' = "take"
    /\ UNCHANGED <<rows, legible, ask, partial, again, unw>>

AllTaken ==
    /\ stage = "take"
    /\ With("part") = {}
    /\ stage' = IF ~partial THEN "ended" ELSE IF again THEN "save" ELSE "reuse"
    /\ UNCHANGED <<file, rows, legible, ask, partial, again, fate, entries, unw,
                   cur>>

\* FAULT: a reused pair is placed without loading its file.
LoadsAnyway(p) == TRUE

\* numpy reads the archive and its checksums agree.
Loads(p) == file[p].ok

\* FAULT: the pair stays in the reuse set.
StillReused == "reused"

\* FAULT: the pair gets a status that no round handles.
Unhandled == "miss"

Unloadable == "retry"

\* A file that does not load is a miss for that pair: its entry is dropped.
LoadReused(p) ==
    /\ stage = "reuse"
    /\ p \in First(With("reused"))
    /\ IF Loads(p)
       THEN /\ unw' = [unw EXCEPT ![p] = IF file[p].ok THEN file[p].id
                                                       ELSE NoIdentity]
            /\ fate' = [fate EXCEPT ![p] = "placed"]
            /\ UNCHANGED entries
       ELSE /\ fate' = [fate EXCEPT ![p] = Unloadable]
            /\ entries' = [entries EXCEPT ![p] = NoEntry]
            /\ UNCHANGED unw
    /\ UNCHANGED <<file, rows, legible, stage, ask, partial, again, cur>>

AllLoaded ==
    /\ stage = "reuse"
    /\ With("reused") = {}
    /\ IF With("retry") = {}
       THEN stage' = "save" /\ UNCHANGED <<again, fate>>
       ELSE /\ stage' = "pool"
            /\ again' = TRUE
            /\ fate' = [p \in Pairs |-> IF fate[p] = "retry" THEN "queued"
                                                           ELSE fate[p]]
    /\ UNCHANGED <<file, rows, legible, ask, partial, entries, unw, cur>>

-----------------------------------------------------------------------------
(* The manifest is replaced in one step, also when interferograms failed;   *)
(* files that no row names are unlinked one by one afterwards.              *)

SaveManifest ==
    /\ stage = "save"
    /\ rows' = entries
    /\ legible' = TRUE
    /\ stage' = "prune"
    /\ UNCHANGED <<file, ask, partial, again, fate, entries, unw, cur>>

\* FAULT: only files of pairs outside this stack are unlinked.
PrunedOutside(p) == p \notin Asked

Pruned(p) == entries[p] = NoEntry

PruneFile(p) ==
    /\ stage = "prune"
    /\ file[p] # NoFile
    /\ Pruned(p)
    /\ file' = [file EXCEPT ![p] = NoFile]
    /\ UNCHANGED <<rows, legible, runvars>>

AllPruned ==
    /\ stage = "prune"
    /\ \A p \in Pairs : file[p] # NoFile => ~Pruned(p)
    /\ stage' = "ended"
    /\ UNCHANGED <<file, rows, legible, ask, partial, again, fate, entries, unw,
                   cur>>

-----------------------------------------------------------------------------
(* The ends of a run.                                                       *)

Gone ==
    /\ stage' = "idle"
    /\ ask' = NoPairs
    /\ partial' = FALSE
    /\ again' = FALSE
    /\ fate' = [p \in Pairs |-> "none"]
    /\ entries' = NoEntries
    /\ unw' = NoPairs
    /\ cur' = {}
    /\ UNCHANGED store

\* The record is written and the process goes on to the next stage.
Leave == stage = "ended" /\ Gone

\* A crash; Ctrl-C (the pool is aborted, nothing is saved); or np.savez
\* raising while it writes a pair, which fails the stage on the spot.
Die == stage \notin {"idle", "ended"} /\ Gone

\* The content of a result file is damaged where the fast hash cannot see.
\* Only damage between two runs and damage between the lookup and the load
\* is read by anyone.
Rot(p) ==
    /\ stage \in {"idle", "pool"}
    /\ file[p].ok
    /\ file' = [file EXCEPT ![p].ok = FALSE]
    /\ UNCHANGED <<rows, legible, runvars>>

\* pairs/manifest.json is damaged while no run is at work.
RotManifest ==
    /\ stage = "idle"
    /\ rows # NoEntries
    /\ legible
    /\ legible' = FALSE
    /\ UNCHANGED <<file, rows, runvars>>

-----------------------------------------------------------------------------
PairInit ==
    /\ file = [p \in Pairs |-> NoFile]
    /\ rows = NoEntries
    /\ legible = TRUE
    /\ stage = "idle"
    /\ ask = NoPairs
    /\ partial = FALSE
    /\ again = FALSE
    /\ fate = [p \in Pairs |-> "none"]
    /\ entries = NoEntries
    /\ unw = NoPairs
    /\ cur = {}

PairWork ==
    \/ Wipe \/ Wiped \/ Lookup
    \/ \E p \in Pairs : JobStarts(p) \/ JobEnds(p)
    \/ PoolDrained
    \/ \E p \in Pairs : TakePart(p) \/ StorePart(p)
    \/ AllTaken
    \/ \E p \in Pairs : LoadReused(p)
    \/ AllLoaded \/ SaveManifest
    \/ \E p \in Pairs : PruneFile(p)
    \/ AllPruned \/ Leave

PairNext ==
    \/ \E want \in Stacks, sub \in BOOLEAN : BeginStage(want, sub)
    \/ PairWork
    \/ Die
    \/ \E p \in Pairs : Rot(p)
    \/ RotManifest

PairSpec == PairInit /\ [][PairNext]_pairvars

\* A started run is scheduled until it ends.
PairFairSpec == PairSpec /\ WF_pairvars(PairWork)

-----------------------------------------------------------------------------
(* Properties.                                                              *)

PairTypeOK ==
    /\ file \in [Pairs -> PairFile]
    /\ rows \in [Pairs -> PairEntry]
    /\ legible \in BOOLEAN
    /\ stage \in StagePhase
    /\ ask \in [Pairs -> MaybeId]
    /\ partial \in BOOLEAN
    /\ again \in BOOLEAN
    /\ fate \in [Pairs -> PairFate]
    /\ entries \in [Pairs -> PairEntry]
    /\ unw \in [Pairs -> MaybeId]
    /\ cur \in SUBSET Pairs

\* A stack that is handed on without a failed pair holds, at every pair, the
\* result for the identity this run asked for: reuse across other date sets
\* and parameters, crashes in the middle of a write and rot included.
AssembledIsAsked ==
    stage \in {"save", "prune", "ended"} /\ With("failed") = {} =>
        \A p \in Asked : unw[p] = ask[p]

\* A row whose fast hash matches a whole file names the identity of that
\* file's content, whichever step the previous runs died at.
RowsAreTrue ==
    \A p \in Pairs :
        /\ file[p].ok /\ rows[p].at = file[p].at => rows[p].id = file[p].id
        /\ file[p].ok /\ entries[p].at = file[p].at => entries[p].id = file[p].id

\* When the stage ends, failed interferograms or not, a next run that asks
\* the same finds every pair that did not fail; and pairs/ holds nothing that
\* no row names.
FailureKeepsTheRest ==
    stage = "ended" /\ partial =>
        /\ \A p \in Asked : fate[p] # "failed" => legible /\ LookupHit(p)
        /\ \A p \in Pairs : file[p] # NoFile => rows[p] # NoEntry

\* A result this run wants and the manifest vouches for is lost to no step of
\* the run, whatever happens to the other pairs, its death included.
NotLost(p) ==
    /\ stage # "wipe" /\ legible /\ LookupHit(p) /\ file[p].ok /\ ~Rot(p)
    => /\ legible' /\ rows'[p].id = ask[p]
       /\ file'[p].ok /\ file'[p].at = rows'[p].at

WantedIsKept == [][\A p \in Asked : NotLost(p)]_pairvars

\* Every run of the stage ends.
StageEnds == stage # "idle" ~> stage = "idle"
=============================================================================
