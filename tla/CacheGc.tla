------------------------------ MODULE CacheGc ------------------------------
(***************************************************************************)
(* `wintersar cache gc` next to the runs of RunCache.                       *)
(*                                                                         *)
(* gc goes through the stages: it lists the node directories of a stage,    *)
(* probes the lock of each, and divides the unlocked ones into survivors    *)
(* and victims.  When it has seen every stage it evicts survivors to meet a *)
(* byte budget and deletes the victims one by one.  The probe takes the     *)
(* lock for a moment; the deletion takes no lock, and removes the lock file *)
(* with the directory.  Source: pipeline/cache.py, gc and is_locked.        *)
(*                                                                         *)
(* Directories weigh 1 when they hold complete outputs and 0 otherwise, and *)
(* every deletion succeeds.                                                 *)
(***************************************************************************)
EXTENDS RunCache

CONSTANTS
    Policies,  \* arguments of gc: [keep : Nat, budget : Nat \union {NoBudget}]
    NoBudget,  \* max_bytes is None
    GC,        \* the gc process, as a holder of locks
    MaxGcs     \* bound: how often gc is started

ASSUME GCAssumption == GC \notin Runs \union {Free}
ASSUME DataAssumption == IsFiniteSet(Data)
ASSUME PolicyAssumption == Policies \subseteq [keep : Nat, budget : Nat \union {NoBudget}]

VARIABLES
    dir,     \* the node directories that exist
    gpc,     \* what gc is doing
    count,   \* how often it was started
    policy,  \* keep_latest and max_bytes
    stage,   \* the stage gc is looking at
    todo,    \* its entries that are still to be probed
    probed,  \* the entry whose lock gc holds
    seen,    \* its entries that were not locked
    kept,    \* survivors of the stages so far
    safe,    \* those among them that are never evicted
    doomed,  \* the entries to delete
    before,  \* history: newest intact entry per stage when gc started
    broken,  \* history: some `ok` manifest had lost its outputs then
    quiet,   \* history: no run has taken a step since
    within   \* history: the runs that have held their lock ever since

gcvars == <<gpc, count, policy, stage, todo, probed, seen, kept, safe, doomed,
            before, broken>>
allvars == <<vars, dir, gcvars, quiet, within>>

NoEntry == [node |-> NoNode, st |-> "none", at |-> 0, size |-> 0]

Entry(n) == [node |-> n, st |-> man[n].st, at |-> man[n].at,
             size |-> IF out[n] # 0 THEN 1 ELSE 0]

Bytes(S) == Cardinality({ e \in S : e.size = 1 })

\* S holds the newest elements of T (ties are broken by hash, arbitrarily).
NewestOf(S, T) == S \subseteq T /\ \A e \in S, f \in T \ S : e.at >= f.at

\* The entries of the stage that survive for their age ...
Survivors(S) ==
    LET readable == { e \in S : e.st # "none" } IN
    { K \in SUBSET readable :
        /\ NewestOf(K, readable)
        /\ Cardinality(K) <= policy.keep
        /\ Cardinality(K) = policy.keep \/ K = readable }

\* ... and the one that the next run resolves against.
NewestOk(S) == { e \in S : e.st = "ok" /\ \A f \in S : f.st = "ok" => f.at <= e.at }

-----------------------------------------------------------------------------
GcIdle ==
    /\ gpc = "idle" /\ count = 0
    /\ policy = [keep |-> 0, budget |-> NoBudget]
    /\ stage = 1
    /\ todo = {} /\ seen = {} /\ kept = {} /\ safe = {} /\ doomed = {}
    /\ probed = NoEntry
    /\ before = [s \in Stages |-> {}] /\ broken = FALSE
    /\ quiet = FALSE
    /\ within = {}

GcInit == Init /\ dir = {} /\ GcIdle

GcBegin ==
    /\ gpc = "idle" /\ count < MaxGcs /\ count' = count + 1
    /\ policy' \in Policies
    /\ gpc' = "list"
    /\ stage' = 1
    /\ before' = [s \in Stages |-> Latest(s)]
    /\ broken' = \E n \in Node : man[n].st = "ok" /\ ~Intact(n)
    /\ quiet' = TRUE
    /\ within' = { r \in Runs : pc[r] \in Holding /\ lock[node[r]] = r }
    /\ kept' = {} /\ safe' = {} /\ doomed' = {}
    /\ UNCHANGED <<vars, dir, todo, probed, seen>>

\* list_records.
GcList ==
    /\ gpc = "list"
    /\ todo' = { Entry(n) : n \in { m \in dir : m.stage = stage } }
    /\ seen' = {}
    /\ gpc' = "probe"
    /\ UNCHANGED <<vars, dir, count, policy, stage, probed, kept, safe, doomed, before, broken,
                   quiet, within>>

\* Newest first.
NextEntry == { e \in todo : \A f \in todo : f.at <= e.at }

\* is_locked: flock(LOCK_EX | LOCK_NB) fails ...
GcSkipLocked ==
    /\ gpc = "probe"
    /\ \E e \in NextEntry : lock[e.node] # Free /\ todo' = todo \ {e}
    /\ UNCHANGED <<vars, dir, gpc, count, policy, stage, probed, seen, kept, safe, doomed,
                   before, broken, quiet, within>>

\* FAULT: the lock is not looked at.
GcProbeNothing ==
    /\ gpc = "probe"
    /\ \E e \in NextEntry :
        /\ todo' = todo \ {e}
        /\ probed' = e
    /\ gpc' = "release"
    /\ UNCHANGED <<vars, dir, count, policy, stage, seen, kept, safe, doomed, before, broken,
                   quiet, within>>

\* ... or succeeds, and is undone at once.
GcProbe ==
    /\ gpc = "probe"
    /\ \E e \in NextEntry :
        /\ lock[e.node] = Free
        /\ lock' = [lock EXCEPT ![e.node] = GC]
        /\ todo' = todo \ {e}
        /\ probed' = e
    /\ gpc' = "release"
    /\ UNCHANGED <<man, out, clock, prov, pc, walk, exec, dir, count, policy, stage, seen,
                   kept, safe, doomed, before, broken, quiet, within>>

GcUnprobe ==
    /\ gpc = "release"
    /\ lock' = [lock EXCEPT ![probed.node] = IF @ = GC THEN Free ELSE @]
    /\ seen' = seen \union {probed}
    /\ probed' = NoEntry
    /\ gpc' = "probe"
    /\ UNCHANGED <<man, out, clock, prov, pc, walk, exec, dir, count, policy, stage, todo,
                   kept, safe, doomed, before, broken, quiet, within>>

\* Survivors and victims of one stage.
GcSort ==
    /\ gpc = "probe" /\ todo = {}
    /\ \E old \in Survivors(seen) :
        LET stay == IF policy.budget # NoBudget THEN old \union NewestOk(seen) ELSE old IN
        /\ kept' = kept \union stay
        /\ doomed' = doomed \union (seen \ stay)
        /\ safe' = safe \union (NewestOk(seen) \intersect stay)
    /\ seen' = {}
    /\ IF stage < Depth THEN stage' = stage + 1 /\ gpc' = "list"
                        ELSE stage' = stage /\ gpc' = "evict"
    /\ UNCHANGED <<vars, dir, count, policy, todo, probed, before, broken, quiet, within>>

\* FAULT: one entry too few is evicted.
EvictionsOffByOne(b) ==
    { E \in SUBSET (kept \ safe) :
        /\ NewestOf((kept \ safe) \ E, kept \ safe)
        /\ Bytes(kept \ E) = b + 1 \/ E = {} }

\* Eviction removes the oldest candidates, just as many as the budget takes.
Evictions(b) ==
    LET candidates == kept \ safe IN
    { E \in SUBSET candidates :
        /\ NewestOf(candidates \ E, candidates)
        /\ Bytes(kept \ E) <= b \/ E = candidates
        /\ E # {} => \E e \in E : /\ \A f \in E : f.at <= e.at
                                  /\ Bytes(kept \ (E \ {e})) > b }

\* FAULT: what is evicted still counts as kept.
GcEvictCounted ==
    /\ gpc = "evict"
    /\ IF policy.budget = NoBudget
       THEN UNCHANGED doomed
       ELSE \E E \in Evictions(policy.budget) : doomed' = doomed \union E
    /\ gpc' = "delete"
    /\ UNCHANGED <<vars, dir, count, policy, stage, todo, probed, seen, kept, safe,
                   before, broken, quiet, within>>

GcEvict ==
    /\ gpc = "evict"
    /\ IF policy.budget = NoBudget
       THEN UNCHANGED <<kept, doomed>>
       ELSE \E E \in Evictions(policy.budget) :
                doomed' = doomed \union E /\ kept' = kept \ E
    /\ gpc' = "delete"
    /\ UNCHANGED <<vars, dir, count, policy, stage, todo, probed, seen, safe, before, broken, quiet,
                   within>>

\* _remove_node_dir: the manifest, the outputs and the lock file are gone.
GcRemove ==
    /\ gpc = "delete"
    /\ \E e \in doomed :
        /\ man' = [man EXCEPT ![e.node] = NoManifest]
        /\ out' = [out EXCEPT ![e.node] = 0]
        /\ lock' = [lock EXCEPT ![e.node] = Free]
        /\ dir' = dir \ {e.node}
        /\ doomed' = doomed \ {e}
    /\ UNCHANGED <<clock, prov, pc, walk, exec, gpc, count, policy, stage, todo, probed,
                   seen, kept, safe, before, broken, quiet, within>>

GcEnd ==
    /\ gpc = "delete" /\ doomed = {}
    /\ gpc' = "idle" /\ kept' = {} /\ safe' = {} /\ within' = {}
    /\ UNCHANGED <<vars, dir, count, policy, stage, todo, probed, seen, doomed,
                   before, broken, quiet>>

Gc == \/ GcBegin \/ GcList \/ GcSkipLocked \/ GcProbe \/ GcUnprobe \/ GcSort
      \/ GcEvict \/ GcRemove \/ GcEnd

\* A step of a run: taking a lock and writing a record create the directory.
RunStep ==
    /\ Next
    /\ dir' = dir \union { n \in Node : \/ lock'[n] # Free
                                        \/ out'[n] # out[n] \/ man'[n] # man[n] }
    /\ quiet' = FALSE
    /\ within' = { r \in within : pc'[r] \in Holding }
    /\ before' = [s \in Stages |-> {}] /\ broken' = FALSE
    /\ UNCHANGED <<gpc, count, policy, stage, todo, probed, seen, kept, safe, doomed>>

GcSpec == GcInit /\ [][RunStep \/ Gc]_allvars

-----------------------------------------------------------------------------
GcTypeOK ==
    /\ lock \in [Node -> Runs \union {Free, GC}]
    /\ dir \subseteq Node
    /\ stage \in Stages
    /\ { e.node : e \in todo \union seen \union kept \union safe \union doomed }
          \subseteq Node
    /\ safe \subseteq kept /\ kept \intersect doomed = {}
    /\ gpc \in {"idle", "list", "probe", "release", "evict", "delete"}

\* gc with max_bytes has ended, and no run was active meanwhile.
BudgetGcDone ==
    /\ gpc = "idle" /\ quiet /\ policy.budget # NoBudget
    /\ \A r \in Runs : pc[r] \in Idle

\* A byte budget never costs the next run its hit: every stage still has its
\* newest intact result, even with keep_latest = 0 (gc's docstring, ADR-0081);
\* provided that every `ok` manifest still had its outputs when gc started.
BudgetKeepsNewest ==
    BudgetGcDone /\ ~broken => \A s \in Stages : Latest(s) = before[s]

\* And what is left fits the budget, or is nothing but those results.
BudgetIsMet ==
    BudgetGcDone /\ ~broken =>
        \/ Cardinality({ n \in dir : out[n] # 0 }) <= policy.budget
        \/ \A n \in dir : n \in Latest(n.stage)

\* A byte budget is met and costs nothing that the next run would use.
BudgetSpares == BudgetKeepsNewest /\ BudgetIsMet

\* A directory whose run has held the lock since before gc began is not
\* deleted under it.
LongHeldKept ==
    [][\A r \in within : node[r] \in dir => node[r] \in dir']_allvars

\* gc's docstring: "Entries locked by a running pipeline are always kept."
LockedKept ==
    [][\A n \in dir \ dir' : lock[n] \notin Runs]_allvars
=============================================================================
