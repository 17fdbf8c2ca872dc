--------------------------- MODULE CacheGc_proofs ---------------------------
(***************************************************************************)
(* Proofs about CacheGc, for any number of runs, stages, date sets and gcs, *)
(* and any arguments of gc: what gc may and may not delete.                 *)
(*                                                                         *)
(* The argument.  The entries that gc has in its hands are of the stages it *)
(* has been to (GcFlow); a directory whose lock was held when gc began, and *)
(* is held still, is not among them, as its probe fails (Spared).  While no *)
(* run takes a step, what gc has noted of an entry is true (TrueEntries)    *)
(* and no entry is overlooked (AllListed): so, when it deletes, every entry *)
(* is kept or doomed, and those that the next run would use are safe        *)
(* (AllSorted); deleting others changes nothing for the next run, and what  *)
(* is left fits the budget (WithinBudget), or is those.                     *)
(***************************************************************************)
EXTENDS MCCacheGc, FiniteSetTheorems, TLAPS

\* What the directories, the locks and the runs are; a directory that is not
\* there holds nothing, and a lock belongs to the run that is inside or to a
\* probe.
GcBase ==
    /\ DOMAIN pc = Runs /\ DOMAIN node = Runs /\ made \in [Runs -> Nat] /\ clock \in Nat
    /\ lock \in [Node -> Runs \union {Free, GC}]
    /\ DOMAIN man = Node /\ DOMAIN out = Node
    /\ \A n \in Node : man[n].at \in Nat
    /\ dir \subseteq Node
    /\ \A n \in Node \ dir : man[n] = NoManifest /\ out[n] = 0
    /\ \A n \in Node : lock[n] \in Runs => pc[lock[n]] \in Holding /\ node[lock[n]] = n
    /\ \A n \in Node : lock[n] = GC => gpc = "release" /\ n = probed.node

Sorting == {"list", "probe", "release"}

\* Where gc is, and what it has in its hands there.
GcFlow ==
    /\ gpc \in {"idle", "list", "probe", "release", "evict", "delete"} /\ stage \in Stages
    /\ gpc = "idle" => kept = {} /\ safe = {} /\ doomed = {}
    /\ gpc \notin {"probe", "release"} => todo = {} /\ seen = {}
    /\ \A e \in todo \union seen : e.node \in Node /\ e.node.stage = stage
    /\ gpc = "release" => probed.node \in Node /\ probed.node.stage = stage
    /\ \A e \in kept \union doomed :
          e.node \in Node /\ (gpc \in Sorting => e.node.stage < stage)
    /\ safe \subseteq kept /\ kept \intersect doomed = {}
    /\ policy.budget \in Nat \union {NoBudget}

\* A run that has held its lock since gc began: no entry of its directory got
\* past the probe.
Spared(r) ==
    /\ r \in Runs /\ pc[r] \in Holding
    /\ node[r] \in Node => lock[node[r]] = r
    /\ \A e \in seen \union kept \union doomed : e.node # node[r]
    /\ gpc = "release" => probed.node # node[r]

GcSpares == \A r \in within : Spared(r)

-----------------------------------------------------------------------------
\* What a step of a run does to the variables that gc depends on.
Effect(r) ==
    /\ \A o \in Runs \ {r} : pc'[o] = pc[o] /\ node'[o] = node[o]
    /\ DOMAIN pc' = Runs /\ DOMAIN node' = Runs /\ made' \in [Runs -> Nat] /\ clock' \in Nat
    /\ pc[r] \in Holding /\ pc'[r] \in Holding => node'[r] = node[r]
    /\ \/ lock' = lock /\ (pc[r] \in Holding => pc'[r] \in Holding)
       \/ /\ lock' = [lock EXCEPT ![node[r]] = r] /\ lock[node[r]] = Free
          /\ pc'[r] \in Holding /\ node'[r] = node[r]
       \/ Release(r) /\ pc[r] \in Holding /\ pc'[r] \notin Holding
    /\ \/ man' = man
       \/ \E m : m.at \in Nat /\ man' = [man EXCEPT ![node[r]] = m]
    /\ DOMAIN out' = DOMAIN out

LEMMA LeaveIs ==
    ASSUME GcBase, NEW r \in Runs, Leave(r)
    PROVE  /\ \A o \in Runs \ {r} : pc'[o] = pc[o] /\ node'[o] = node[o]
           /\ DOMAIN pc' = Runs /\ DOMAIN node' = Runs /\ made' \in [Runs -> Nat]
           /\ pc'[r] = "idle"
BY DEF GcBase, Leave

LEMMA RecordIs ==
    ASSUME NEW r, NEW st, NEW t, NEW time \in Nat
    PROVE  Record(r, st, t, time).at \in Nat
BY DEF Record

LEMMA PlanEffect ==
    ASSUME GcBase, NEW r \in Runs,
           \/ Begin(r) \/ PlanHit(r) \/ PlanFallback(r) \/ PlanBlocked(r) \/ StartExecutor(r)
           \/ UseFallback(r) \/ UseCache(r) \/ Blocked(r) \/ Miss(r)
    PROVE  Effect(r)
<1> USE DEF GcBase, Effect, disk, exec, walk, Holding, Idle
<1>1. CASE Begin(r)
    BY <1>1 DEF Begin
<1>2. CASE PlanHit(r) \/ PlanFallback(r) \/ StartExecutor(r)
    BY <1>2 DEF PlanHit, PlanFallback, StartExecutor
<1>3. CASE PlanBlocked(r) \/ Blocked(r)
    BY <1>3, LeaveIs DEF PlanBlocked, Blocked
<1>4. CASE UseFallback(r) \/ UseCache(r)
    BY <1>4 DEF UseFallback, UseCache, Advance
<1>5. CASE Miss(r)
    BY <1>5 DEF Miss
<1> QED
    BY <1>1, <1>2, <1>3, <1>4, <1>5

LEMMA WorkEffect ==
    ASSUME GcBase, NEW r \in Runs, Step(r) \/ Crash(r) \/ Begin(r)
    PROVE  Effect(r)
<1> USE DEF GcBase, disk, exec, walk
<1>1. CASE Lock(r) \/ LockBusy(r)
    BY <1>1 DEF Lock, LockBusy, Effect, Holding
<1>2. CASE BusyHit(r)
    BY <1>2 DEF BusyHit, Advance, Effect, Holding
<1>3. CASE BusyFail(r)
    BY <1>3, LeaveIs DEF BusyFail, Effect, Holding
<1>4. CASE PrepareNodeDir(r) \/ ReadInput(r) \/ EngineRaises(r)
    BY <1>4 DEF PrepareNodeDir, ReadInput, EngineRaises, Effect, Holding
<1>5. CASE WriteRunning(r)
    <2>1. Record(r, "running", 0, clock).at \in Nat
        BY RecordIs
    <2>2. \E m : m.at \in Nat /\ man' = [man EXCEPT ![node[r]] = m]
        BY <1>5, <2>1 DEF WriteRunning
    <2> QED
        BY <1>5, <2>2 DEF WriteRunning, Effect, Holding
<1>6. CASE EngineReturns(r)
    <2>1. made' = [made EXCEPT ![r] = clock + 1] /\ clock' = clock + 1
        BY <1>6 DEF EngineReturns
    <2>2. made' \in [Runs -> Nat] /\ clock' \in Nat
        BY <2>1
    <2> QED
        BY <1>6, <2>2 DEF EngineReturns, Effect, Holding
<1>7. CASE WriteRecord(r)
    <2>1. made[r] \in Nat
        OBVIOUS
    <2>2. /\ Record(r, "ok", made[r], made[r]).at \in Nat
          /\ Record(r, "failed", 0, clock).at \in Nat
        BY <2>1, RecordIs
    <2>3. \E m : m.at \in Nat /\ man' = [man EXCEPT ![node[r]] = m]
        BY <1>7, <2>2 DEF WriteRecord
    <2> QED
        BY <1>7, <2>3 DEF WriteRecord, Effect, Holding
<1>8. CASE UnlockOk(r)
    <2>1. pc'[r] \notin Holding /\ pc[r] \in Holding
        BY <1>8 DEF UnlockOk, Advance, Holding
    <2> QED
        BY <1>8, <2>1 DEF UnlockOk, Advance, Effect
<1>9. CASE UnlockFailed(r)
    BY <1>9, LeaveIs DEF UnlockFailed, Effect, Holding
<1>10. CASE Crash(r)
    BY <1>10, LeaveIs DEF Crash, Effect, Holding
<1> QED
    BY <1>1, <1>2, <1>3, <1>4, <1>5, <1>6, <1>7, <1>8, <1>9, <1>10, PlanEffect DEF Step

LEMMA RunBase ==
    ASSUME GcBase, GcFlow, GcSpares, RunStep
    PROVE  GcBase' /\ GcFlow' /\ GcSpares'
<1>1. PICK r \in Runs : Step(r) \/ Crash(r) \/ Begin(r)
    BY DEF RunStep, Next
<1>2. Effect(r)
    BY <1>1, WorkEffect
<1>3. /\ dir' = dir \union { n \in Node : \/ lock'[n] # Free
                                           \/ out'[n] # out[n] \/ man'[n] # man[n] }
      /\ within' = { q \in within : pc'[q] \in Holding }
      /\ UNCHANGED <<gpc, policy, stage, todo, probed, seen, kept, safe, doomed>>
    BY DEF RunStep
<1>4. lock' \in [Node -> Runs \union {Free, GC}]
    BY <1>2 DEF Effect, GcBase, Release
<1>5. DOMAIN man' = Node /\ DOMAIN out' = Node /\ \A n \in Node : man'[n].at \in Nat
    BY <1>2 DEF Effect, GcBase
<1>6. \A n \in Node : lock'[n] \in Runs => pc'[lock'[n]] \in Holding /\ node'[lock'[n]] = n
    <2> SUFFICES ASSUME NEW n \in Node, lock'[n] \in Runs
                 PROVE  pc'[lock'[n]] \in Holding /\ node'[lock'[n]] = n
        OBVIOUS
    <2>1. CASE lock'[n] # r
        <3>1. lock'[n] = lock[n]
            BY <1>2, <2>1, NullAssumption DEF Effect, GcBase, Release
        <3> QED
            BY <1>2, <2>1, <3>1 DEF Effect, GcBase
    <2>2. CASE lock'[n] = r
        <3>1. CASE lock' = lock /\ (pc[r] \in Holding => pc'[r] \in Holding)
            BY <1>2, <2>2, <3>1 DEF Effect, GcBase
        <3>2. CASE /\ lock' = [lock EXCEPT ![node[r]] = r] /\ lock[node[r]] = Free
                   /\ pc'[r] \in Holding /\ node'[r] = node[r]
            <4>1. lock[n] = r => pc[r] \in Holding /\ node[r] = n
                BY DEF GcBase
            <4>2. n = node[r]
                BY <2>2, <3>2, <4>1 DEF GcBase
            <4> QED
                BY <2>2, <3>2, <4>2
        <3>3. CASE Release(r)
            <4>1. n # node[r] \/ lock'[n] = Free
                BY <2>2, <3>3 DEF Release, GcBase
            <4>2. n # node[r] /\ lock'[n] = lock[n]
                BY <2>2, <3>3, <4>1, NullAssumption DEF Release, GcBase
            <4> QED
                BY <2>2, <4>2 DEF GcBase
        <3> QED
            BY <1>2, <3>1, <3>2, <3>3 DEF Effect
    <2> QED
        BY <2>1, <2>2
<1>7. \A n \in Node : lock'[n] = GC => lock[n] = GC
    BY <1>2, GCAssumption DEF Effect, GcBase, Release
<1>8. GcBase'
    BY <1>2, <1>3, <1>4, <1>5, <1>6, <1>7 DEF GcBase, Effect
<1>9. GcFlow'
    BY <1>3 DEF GcFlow
<1>10. GcSpares'
    <2> SUFFICES ASSUME NEW q \in within, pc'[q] \in Holding PROVE Spared(q)'
        BY <1>3 DEF GcSpares
    <2>1. Spared(q)
        BY DEF GcSpares
    <2>2. node'[q] = node[q]
        BY <1>2, <2>1 DEF Effect, Spared
    <2>3. node[q] \in Node => lock'[node[q]] = q
        BY <1>2, <2>1, NullAssumption DEF Effect, Spared, GcBase, Release
    <2> QED
        BY <1>3, <2>1, <2>2, <2>3 DEF Spared
<1> QED
    BY <1>8, <1>9, <1>10

LEMMA NodesAre == \A n \in Node : n.stage \in Stages /\ n.stage \in Int
BY DepthAssumption DEF Node, Stages

LEMMA SafeStart == GcInit => GcBase /\ GcFlow /\ GcSpares
<1> SUFFICES ASSUME GcInit PROVE GcBase /\ GcFlow /\ GcSpares
    OBVIOUS
<1>1. GcBase
    BY NullAssumption, GCAssumption DEF GcInit, Init, GcIdle, GcBase, NoManifest
<1>2. GcFlow
    BY DepthAssumption DEF GcInit, GcIdle, GcFlow, Stages
<1>3. GcSpares
    BY DEF GcInit, GcIdle, GcSpares
<1> QED
    BY <1>1, <1>2, <1>3

LEMMA GcStepBase ==
    ASSUME GcBase, GcFlow, Gc
    PROVE  GcBase'
<1> USE DEF GcBase, vars
<1>1. CASE GcBegin \/ GcList \/ GcSkipLocked \/ GcSort \/ GcEvict \/ GcEnd
    BY <1>1 DEF GcBegin, GcList, GcSkipLocked, GcSort, GcEvict, GcEnd
<1>2. CASE GcProbe
    <2>1. PICK e \in NextEntry : /\ lock[e.node] = Free
                                 /\ lock' = [lock EXCEPT ![e.node] = GC]
                                 /\ probed' = e
        BY <1>2 DEF GcProbe
    <2>2. e \in todo /\ e.node \in Node
        BY <2>1 DEF NextEntry, GcFlow
    <2>3. \A n \in Node : lock'[n] = IF n = e.node THEN GC ELSE lock[n]
        BY <2>1, <2>2
    <2>4. gpc = "probe" /\ gpc' = "release"
        BY <1>2 DEF GcProbe
    <2>5. lock' \in [Node -> Runs \union {Free, GC}]
        BY <2>1, <2>2
    <2>6. \A n \in Node : lock'[n] = GC => gpc' = "release" /\ n = probed'.node
        BY <2>1, <2>3, <2>4
    <2>7. UNCHANGED <<pc, node, made, clock, man, out, dir>>
        BY <1>2 DEF GcProbe, walk, exec
    <2>8. \A n \in Node : lock'[n] \in Runs => pc[lock'[n]] \in Holding /\ node[lock'[n]] = n
        BY <2>3, GCAssumption
    <2> QED
        BY <2>5, <2>6, <2>7, <2>8
<1>3. CASE GcUnprobe
    <2>1. /\ probed.node \in Node /\ gpc = "release"
          /\ lock' = [lock EXCEPT ![probed.node] = IF @ = GC THEN Free ELSE @]
          /\ UNCHANGED <<pc, node, made, clock, man, out, dir>>
        BY <1>3 DEF GcUnprobe, GcFlow, walk, exec
    <2>2. \A n \in Node : lock'[n] = IF n = probed.node /\ lock[n] = GC THEN Free ELSE lock[n]
        BY <2>1
    <2>3. \A n \in Node : lock'[n] # GC
        BY <2>1, <2>2, GCAssumption
    <2>4. \A n \in Node : lock'[n] \in Runs => lock'[n] = lock[n]
        BY <2>2, NullAssumption
    <2>5. lock' \in [Node -> Runs \union {Free, GC}]
        BY <2>1
    <2> QED
        BY <2>1, <2>3, <2>4, <2>5
<1>4. CASE GcRemove
    <2>1. PICK e \in doomed : /\ man' = [man EXCEPT ![e.node] = NoManifest]
                              /\ out' = [out EXCEPT ![e.node] = 0]
                              /\ lock' = [lock EXCEPT ![e.node] = Free]
                              /\ dir' = dir \ {e.node}
        BY <1>4 DEF GcRemove
    <2>2. e.node \in Node /\ NoManifest.at = 0
        BY DEF GcFlow, NoManifest
    <2>3. \A n \in Node : /\ lock'[n] = IF n = e.node THEN Free ELSE lock[n]
                          /\ man'[n] = IF n = e.node THEN NoManifest ELSE man[n]
                          /\ out'[n] = IF n = e.node THEN 0 ELSE out[n]
        BY <2>1, <2>2
    <2>4. UNCHANGED <<pc, node, made, clock, gpc, probed>>
        BY <1>4 DEF GcRemove, walk, exec
    <2>5. \A n \in Node : lock'[n] \in Runs \union {GC} => lock'[n] = lock[n]
        BY <2>3, GCAssumption, NullAssumption
    <2>6. /\ lock' \in [Node -> Runs \union {Free, GC}]
          /\ DOMAIN man' = Node /\ DOMAIN out' = Node /\ dir' \subseteq Node
          /\ \A n \in Node : man'[n].at \in Nat
          /\ \A n \in Node \ dir' : man'[n] = NoManifest /\ out'[n] = 0
        BY <2>1, <2>2, <2>3
    <2> QED
        BY <2>4, <2>5, <2>6
<1> QED
    BY <1>1, <1>2, <1>3, <1>4 DEF Gc

LEMMA GcStepFlow ==
    ASSUME GcBase, GcFlow, Gc
    PROVE  GcFlow'
<1> USE DEF GcFlow, Sorting
<1>1. CASE GcBegin
    BY <1>1, DepthAssumption, PolicyAssumption DEF GcBegin, Stages
<1>2. CASE GcList
    <2>1. \A e \in todo' : e.node \in Node /\ e.node.stage = stage
        BY <1>2 DEF GcList, Entry, GcBase
    <2> QED
        BY <1>2, <2>1 DEF GcList
<1>3. CASE GcSkipLocked
    BY <1>3 DEF GcSkipLocked
<1>4. CASE GcProbe
    BY <1>4 DEF GcProbe, NextEntry
<1>5. CASE GcUnprobe
    BY <1>5 DEF GcUnprobe
<1>6. CASE GcSort
    <2>1. PICK stay : /\ stay \subseteq seen
                      /\ kept' = kept \union stay
                      /\ doomed' = doomed \union (seen \ stay)
                      /\ safe' = safe \union (NewestOk(seen) \intersect stay)
        <3>1. PICK old \in Survivors(seen) :
                LET stay == IF policy.budget # NoBudget THEN old \union NewestOk(seen) ELSE old IN
                /\ kept' = kept \union stay
                /\ doomed' = doomed \union (seen \ stay)
                /\ safe' = safe \union (NewestOk(seen) \intersect stay)
            BY <1>6 DEF GcSort
        <3>2. old \subseteq seen /\ NewestOk(seen) \subseteq seen
            BY <3>1 DEF Survivors, NewestOk
        <3> QED
            BY <3>1, <3>2
    <2>2. \A e \in kept \union doomed : e.node.stage < stage
        BY <1>6 DEF GcSort
    <2>3. \A e \in seen : e \notin kept /\ e \notin doomed
        BY <2>2, DepthAssumption DEF Stages
    <2>4. safe' \subseteq kept' /\ kept' \intersect doomed' = {}
        BY <2>1, <2>3
    <2>5. \A e \in kept' \union doomed' : e.node \in Node /\ e.node.stage <= stage
        <3>1. kept' \union doomed' \subseteq kept \union doomed \union seen
            BY <2>1
        <3>2. \A e \in kept \union doomed \union seen :
                e.node \in Node /\ (e.node.stage < stage \/ e.node.stage = stage)
            BY <2>2
        <3>3. stage \in Int
            BY DepthAssumption DEF Stages
        <3> QED
            BY <3>1, <3>2, <3>3, NodesAre
    <2>6. \/ stage < Depth /\ stage' = stage + 1 /\ gpc' = "list"
          \/ stage' = stage /\ gpc' = "evict"
        BY <1>6 DEF GcSort
    <2>7. stage' \in Stages /\ (gpc' = "list" => \A e \in kept' \union doomed' : e.node.stage < stage')
        BY <2>5, <2>6, NodesAre, DepthAssumption DEF Stages
    <2> QED
        BY <1>6, <2>4, <2>5, <2>6, <2>7 DEF GcSort
<1>7. CASE GcEvict
    <2>1. CASE policy.budget = NoBudget
        BY <1>7, <2>1 DEF GcEvict
    <2>2. CASE policy.budget # NoBudget
        <3>1. PICK E \in Evictions(policy.budget) :
                    doomed' = doomed \union E /\ kept' = kept \ E
            BY <1>7, <2>2 DEF GcEvict
        <3>2. E \subseteq kept \ safe
            BY <3>1 DEF Evictions
        <3> QED
            BY <1>7, <3>1, <3>2 DEF GcEvict
    <2> QED
        BY <2>1, <2>2
<1>8. CASE GcRemove
    BY <1>8 DEF GcRemove
<1>9. CASE GcEnd
    BY <1>9 DEF GcEnd
<1> QED
    BY <1>1, <1>2, <1>3, <1>4, <1>5, <1>6, <1>7, <1>8, <1>9 DEF Gc

LEMMA GcStepSpares ==
    ASSUME GcBase, GcFlow, GcSpares, Gc
    PROVE  GcSpares'
<1> SUFFICES ASSUME NEW r \in within' PROVE Spared(r)'
    BY DEF GcSpares
<1> USE DEF vars
<1>1. CASE GcBegin
    <2>1. /\ r \in Runs /\ pc[r] \in Holding /\ lock[node[r]] = r
          /\ seen' = {} /\ kept' = {} /\ doomed' = {} /\ gpc' = "list"
          /\ UNCHANGED <<pc, lock, node>>
        BY <1>1 DEF GcBegin, GcFlow
    <2> QED
        BY <2>1 DEF Spared
<1>2. ASSUME ~GcBegin PROVE r \in within /\ Spared(r)
    BY <1>2 DEF Gc, GcList, GcSkipLocked, GcProbe, GcUnprobe, GcSort, GcEvict, GcRemove, GcEnd,
                GcSpares
<1>3. CASE GcList
    BY <1>2, <1>3 DEF GcList, GcBegin, Spared, GcFlow
<1>4. CASE GcSkipLocked
    BY <1>2, <1>4 DEF GcSkipLocked, GcBegin, Spared
<1>5. CASE GcProbe
    <2>1. PICK e \in NextEntry : /\ lock[e.node] = Free
                                 /\ lock' = [lock EXCEPT ![e.node] = GC]
                                 /\ probed' = e
        BY <1>5 DEF GcProbe
    <2>2. e \in todo /\ e.node \in Node /\ Spared(r)
        BY <1>2, <1>5, <2>1 DEF NextEntry, GcFlow, GcProbe, GcBegin
    <2>3. e.node # node[r]
        BY <2>1, <2>2, NullAssumption DEF Spared
    <2>4. node[r] \in Node => lock'[node[r]] = r
        BY <2>1, <2>2, <2>3 DEF Spared, GcBase
    <2>5. UNCHANGED <<pc, node, seen, kept, doomed>>
        BY <1>5 DEF GcProbe, walk, exec
    <2> QED
        BY <2>1, <2>2, <2>3, <2>4, <2>5 DEF Spared
<1>6. CASE GcUnprobe
    <2>1. Spared(r)
        BY <1>2, <1>6 DEF GcUnprobe, GcBegin
    <2>2. /\ lock' = [lock EXCEPT ![probed.node] = IF @ = GC THEN Free ELSE @]
          /\ seen' = seen \union {probed} /\ gpc = "release" /\ gpc' = "probe"
          /\ UNCHANGED <<pc, node, kept, doomed>>
        BY <1>6 DEF GcUnprobe, walk, exec
    <2>3. node[r] \in Node => lock'[node[r]] = r
        BY <2>1, <2>2 DEF Spared, GcBase
    <2> QED
        BY <2>1, <2>2, <2>3 DEF Spared
<1>7. CASE GcSort
    <2>1. Spared(r)
        BY <1>2, <1>7 DEF GcSort, GcBegin
    <2>2. kept' \union doomed' \subseteq kept \union doomed \union seen
        BY <1>7 DEF GcSort, Survivors, NewestOk
    <2> QED
        BY <1>7, <2>1, <2>2 DEF GcSort, Spared
<1>8. CASE GcEvict
    <2>1. Spared(r)
        BY <1>2, <1>8 DEF GcEvict, GcBegin
    <2>2. kept' \union doomed' \subseteq kept \union doomed
        BY <1>8 DEF GcEvict, Evictions
    <2> QED
        BY <1>8, <2>1, <2>2 DEF GcEvict, Spared
<1>9. CASE GcRemove
    <2>1. Spared(r)
        BY <1>2, <1>9 DEF GcRemove, GcBegin
    <2>2. PICK e \in doomed : lock' = [lock EXCEPT ![e.node] = Free] /\ doomed' = doomed \ {e}
        BY <1>9 DEF GcRemove
    <2>3. e.node # node[r]
        BY <2>1 DEF Spared
    <2>4. UNCHANGED <<pc, node, seen, kept, gpc, probed>>
        BY <1>9 DEF GcRemove, walk, exec
    <2>5. node[r] \in Node => lock'[node[r]] = r
        BY <2>1, <2>2, <2>3 DEF Spared, GcBase
    <2> QED
        BY <2>1, <2>2, <2>4, <2>5 DEF Spared
<1>10. CASE GcEnd
    BY <1>10 DEF GcEnd
<1> QED
    BY <1>1, <1>3, <1>4, <1>5, <1>6, <1>7, <1>8, <1>9, <1>10 DEF Gc

GcCore == GcBase /\ GcFlow /\ GcSpares

LEMMA GcCoreStep == GcCore /\ [RunStep \/ Gc]_allvars => GcCore'
<1> SUFFICES ASSUME GcCore, [RunStep \/ Gc]_allvars PROVE GcCore'
    OBVIOUS
<1>1. CASE RunStep
    BY <1>1, RunBase DEF GcCore
<1>2. CASE Gc
    BY <1>2, GcStepBase, GcStepFlow, GcStepSpares DEF GcCore
<1>3. CASE UNCHANGED allvars
    BY <1>3 DEF allvars, vars, gcvars, GcCore, GcBase, GcFlow, GcSpares, Spared
<1> QED
    BY <1>1, <1>2, <1>3

LEMMA GcCoreHolds == GcSpec => []GcCore
<1>1. GcInit => GcCore
    BY SafeStart DEF GcCore
<1> QED
    BY <1>1, GcCoreStep, PTL DEF GcSpec

\* The variables of gc and the directories stay in their ranges (cache.py, gc).
THEOREM GcTypes == GcSpec => []GcTypeOK
<1>1. GcCore => GcTypeOK
    BY DEF GcCore, GcBase, GcFlow, GcTypeOK
<1> QED
    BY <1>1, GcCoreHolds, PTL

\* No step deletes such a directory.
LEMMA SparedStep ==
    GcCore /\ [RunStep \/ Gc]_allvars
        => [\A r \in within : node[r] \in dir => node[r] \in dir']_allvars
<1> SUFFICES ASSUME GcCore, RunStep \/ Gc, NEW r \in within, node[r] \in dir
             PROVE  node[r] \in dir'
    OBVIOUS
<1>1. CASE ~GcRemove
    BY <1>1 DEF RunStep, Gc, GcBegin, GcList, GcSkipLocked, GcProbe, GcUnprobe, GcSort,
                GcEvict, GcEnd
<1>2. CASE GcRemove
    BY <1>2 DEF GcRemove, GcCore, GcSpares, Spared
<1> QED
    BY <1>1, <1>2

\* A directory whose run has held the lock since before gc began is not deleted
\* under it, whatever the other runs do meanwhile (cache.py, is_locked in gc).
THEOREM LongHeldKeptHolds == GcSpec => LongHeldKept
BY GcCoreHolds, SparedStep, PTL DEF GcSpec, LongHeldKept

-----------------------------------------------------------------------------
\* gc has a budget, every ok manifest had its outputs when it started, and no
\* run has been there since.
Watching ==
    /\ quiet /\ policy.budget # NoBudget /\ ~broken
    /\ \A r \in Runs : pc[r] \in Idle

\* What gc has noted of an entry is what is on disk.
TrueEntries ==
    /\ \A e \in todo \union seen \union kept \union doomed : e.node \in dir /\ e = Entry(e.node)
    /\ gpc = "release" => probed.node \in dir /\ probed = Entry(probed.node)

SameLatest == \A s \in Stages : Latest(s) = before[s]

AllWhole == \A n \in Node : man[n].st = "ok" => Intact(n)

\* Nothing of the stage is overlooked.
AllListed ==
    gpc \in {"probe", "release"} =>
        \A n \in dir : n.stage = stage =>
            Entry(n) \in todo \union seen \/ (gpc = "release" /\ probed.node = n)

\* Everything in the stages behind is kept or doomed, and safe when the next
\* run would use it.
AllSorted ==
    /\ \A n \in dir : n.stage < stage \/ gpc \in {"evict", "delete"} =>
          /\ Entry(n) \in kept \union doomed
          /\ n \in Latest(n.stage) => Entry(n) \in safe
    /\ \A e \in safe : e.node \in Latest(e.node.stage)

WithinBudget == gpc = "delete" => Bytes(kept) <= policy.budget \/ kept \subseteq safe

Watched ==
    /\ gpc # "idle" => /\ TrueEntries /\ AllWhole
                       /\ AllListed /\ AllSorted /\ WithinBudget
    /\ SameLatest
    /\ gpc = "idle" => \/ Cardinality({ n \in dir : out[n] # 0 }) <= policy.budget
                       \/ \A n \in dir : n \in Latest(n.stage)

BudgetInv == Watching => Watched

LEMMA EntryIs ==
    \A n \in Node : /\ Entry(n).node = n /\ Entry(n).st = man[n].st /\ Entry(n).at = man[n].at
                    /\ Entry(n).size = IF out[n] # 0 THEN 1 ELSE 0
BY DEF Entry

\* An intact result is in a directory that is there.
LEMMA IntactIsThere == ASSUME GcBase, NEW n \in Node, man[n].st = "ok" PROVE n \in dir
BY DEF GcBase, NoManifest

\* While no run is there, gc finds no lock but its own.
LEMMA NothingLocked ==
    ASSUME GcBase, Watching, gpc # "release", NEW n \in Node
    PROVE  lock[n] = Free
BY DEF GcBase, Watching, Holding, Idle

LEMMA BeginWatched == ASSUME GcCore, GcBegin, Watching' PROVE Watched'
<1>1. /\ gpc' = "list" /\ stage' = 1 /\ todo' = {} /\ seen' = {} /\ kept' = {} /\ doomed' = {}
      /\ safe' = {} /\ before' = [s \in Stages |-> Latest(s)]
      /\ UNCHANGED <<man, out, dir>>
      /\ \A n \in Node : man[n].st = "ok" => Intact(n)
    BY DEF GcBegin, GcCore, GcFlow, vars, Watching
<1>2. TrueEntries' /\ AllListed' /\ WithinBudget'
    BY <1>1 DEF TrueEntries, AllListed, WithinBudget
<1>3. AllWhole' /\ SameLatest'
    BY <1>1 DEF AllWhole, SameLatest, Intact, Latest
<1>4. \A n \in dir : ~(n.stage < 1)
    BY NodesAre DEF GcCore, GcBase, Stages
<1>5. AllSorted'
    BY <1>1, <1>4 DEF AllSorted
<1> QED
    BY <1>1, <1>2, <1>3, <1>5 DEF Watched

\* A step of gc that leaves the disk alone leaves its entries true.
SameDisk == UNCHANGED <<man, out, dir, before, policy>> /\ gpc # "idle" /\ gpc' # "idle"

LEMMA SameDiskKeeps ==
    ASSUME Watched, SameDisk
    PROVE  /\ AllWhole' /\ SameLatest'
           /\ \A n \in Node : Entry(n)' = Entry(n) /\ (Intact(n)' <=> Intact(n))
           /\ \A s \in Stages : Latest(s)' = Latest(s)
BY DEF Watched, SameDisk, AllWhole, SameLatest, Entry, Intact, Latest

LEMMA ListWatched == ASSUME GcCore, Watching, Watched, GcList PROVE Watched'
<1>1. /\ gpc = "list" /\ gpc' = "probe" /\ seen' = {} /\ seen = {} /\ SameDisk
      /\ todo' = { Entry(n) : n \in { m \in dir : m.stage = stage } }
      /\ UNCHANGED <<stage, kept, safe, doomed>>
    BY DEF GcList, GcCore, GcFlow, vars, SameDisk
<1>2. dir \subseteq Node /\ dir' = dir
    BY <1>1 DEF GcCore, GcBase, SameDisk
<1>3. \A n \in Node : Entry(n)' = Entry(n) /\ Entry(n).node = n
    BY <1>1, SameDiskKeeps, EntryIs
<1>4. TrueEntries /\ AllSorted
    BY <1>1 DEF Watched
<1>5. TrueEntries'
    BY <1>1, <1>2, <1>3, <1>4 DEF TrueEntries
<1>6. AllListed'
    BY <1>1, <1>2, <1>3 DEF AllListed
<1>7. AllSorted'
    <2>1. \A n \in dir : Latest(n.stage)' = Latest(n.stage)
        BY <1>1, <1>2, SameDiskKeeps, NodesAre
    <2>2. \A e \in safe : e.node \in Node /\ Latest(e.node.stage)' = Latest(e.node.stage)
        BY <1>1, SameDiskKeeps, NodesAre DEF GcCore, GcFlow
    <2> QED
        BY <1>1, <1>2, <1>3, <1>4, <2>1, <2>2 DEF AllSorted
<1> QED
    BY <1>1, <1>5, <1>6, <1>7, SameDiskKeeps DEF Watched, WithinBudget

LEMMA ProbeWatched ==
    ASSUME GcCore, Watching, Watched, GcSkipLocked \/ GcProbe \/ GcUnprobe PROVE Watched'
<1>1. /\ SameDisk /\ UNCHANGED <<stage, kept, safe, doomed>>
      /\ gpc \in {"probe", "release"} /\ gpc' \in {"probe", "release"}
    BY DEF GcSkipLocked, GcProbe, GcUnprobe, vars, SameDisk
<1>2. dir \subseteq Node /\ dir' = dir
    BY <1>1 DEF GcCore, GcBase, SameDisk
<1>3. \A n \in Node : Entry(n)' = Entry(n) /\ Entry(n).node = n
    BY <1>1, SameDiskKeeps, EntryIs
<1>4. TrueEntries /\ AllSorted /\ AllListed
    BY <1>1 DEF Watched
<1>5. AllSorted'
    <2>1. \A n \in dir : Latest(n.stage)' = Latest(n.stage)
        BY <1>1, <1>2, SameDiskKeeps, NodesAre
    <2>2. \A e \in safe : e.node \in Node /\ Latest(e.node.stage)' = Latest(e.node.stage)
        BY <1>1, SameDiskKeeps, NodesAre DEF GcCore, GcFlow
    <2> QED
        BY <1>1, <1>2, <1>3, <1>4, <2>1, <2>2 DEF AllSorted
<1>6. ~GcSkipLocked
    <2> SUFFICES ASSUME GcSkipLocked PROVE FALSE
        OBVIOUS
    <2>1. PICK e \in todo : lock[e.node] # Free
        BY DEF GcSkipLocked, NextEntry
    <2> QED
        BY <2>1, NothingLocked DEF GcSkipLocked, GcCore, GcFlow
<1>7. TrueEntries' /\ AllListed'
    <2>1. CASE GcProbe
        <3>1. PICK e \in todo : /\ todo' = todo \ {e} /\ probed' = e /\ seen' = seen
                                /\ gpc' = "release" /\ gpc = "probe"
            BY <2>1 DEF GcProbe, NextEntry
        <3>2. TrueEntries'
            BY <1>1, <1>2, <1>3, <1>4, <3>1 DEF TrueEntries
        <3>3. e = Entry(e.node) /\ e.node \in dir
            BY <1>4 DEF TrueEntries
        <3>4. AllListed'
            BY <1>1, <1>2, <1>3, <1>4, <3>1, <3>3 DEF AllListed
        <3> QED
            BY <3>2, <3>4
    <2>2. CASE GcUnprobe
        <3>1. /\ seen' = seen \union {probed} /\ todo' = todo
              /\ gpc = "release" /\ gpc' = "probe"
            BY <2>2 DEF GcUnprobe
        <3>2. probed = Entry(probed.node) /\ probed.node \in dir
            BY <1>4, <3>1 DEF TrueEntries
        <3>3. TrueEntries'
            BY <1>1, <1>2, <1>3, <1>4, <3>1, <3>2 DEF TrueEntries
        <3>4. AllListed'
            BY <1>1, <1>2, <1>3, <1>4, <3>1, <3>2 DEF AllListed
        <3> QED
            BY <3>3, <3>4
    <2> QED
        BY <1>6, <2>1, <2>2
<1> QED
    BY <1>1, <1>5, <1>7, SameDiskKeeps DEF Watched, WithinBudget

\* Among the entries of a stage, the newest ok ones are those that the next
\* run would use.
LEMMA NewestAre ==
    ASSUME GcCore, TrueEntries, AllWhole, AllListed, gpc = "probe", todo = {}
    PROVE  /\ \A n \in dir : n.stage = stage /\ n \in Latest(stage) => Entry(n) \in NewestOk(seen)
           /\ \A e \in NewestOk(seen) : e.node \in Latest(stage)
<1>1. \A n \in dir : n.stage = stage => Entry(n) \in seen
    BY DEF AllListed
<1>2. \A e \in seen : /\ e.node \in dir /\ e.node \in Node /\ e.node.stage = stage
                      /\ e.st = man[e.node].st /\ e.at = man[e.node].at
    BY EntryIs DEF TrueEntries, GcCore, GcBase, GcFlow
<1>3. ASSUME NEW n \in dir, n.stage = stage, n \in Latest(stage)
      PROVE  Entry(n) \in NewestOk(seen)
    <2>1. n \in Node /\ Intact(n) /\ Entry(n) \in seen
          /\ (\A m \in Node : m.stage = stage /\ Intact(m) => man[m].at <= man[n].at)
        BY <1>1, <1>3 DEF Latest
    <2>2. Entry(n).st = "ok" /\ Entry(n).at = man[n].at
        BY <2>1, EntryIs DEF Intact
    <2>3. \A f \in seen : f.st = "ok" => f.at <= Entry(n).at
        BY <1>2, <2>1, <2>2 DEF AllWhole
    <2> QED
        BY <2>1, <2>2, <2>3 DEF NewestOk
<1>4. ASSUME NEW e \in NewestOk(seen) PROVE e.node \in Latest(stage)
    <2>1. e \in seen /\ e.st = "ok" /\ \A f \in seen : f.st = "ok" => f.at <= e.at
        BY <1>4 DEF NewestOk
    <2>2. e.node \in Node /\ e.node.stage = stage /\ Intact(e.node) /\ e.at = man[e.node].at
        BY <1>2, <2>1 DEF AllWhole
    <2>3. ASSUME NEW m \in Node, m.stage = stage, Intact(m) PROVE man[m].at <= man[e.node].at
        <3>1. m \in dir /\ Entry(m) \in seen /\ Entry(m).st = "ok" /\ Entry(m).at = man[m].at
            BY <1>1, <2>3, IntactIsThere, EntryIs DEF Intact, GcCore
        <3> QED
            BY <2>1, <2>2, <3>1
    <2> QED
        BY <2>2, <2>3 DEF Latest
<1> QED
    BY <1>3, <1>4

LEMMA SortWatched == ASSUME GcCore, Watching, Watched, GcSort PROVE Watched'
<1>1. /\ SameDisk /\ gpc = "probe" /\ todo = {} /\ todo' = {} /\ seen' = {}
      /\ policy.budget # NoBudget
      /\ \/ stage < Depth /\ stage' = stage + 1 /\ gpc' = "list"
         \/ stage' = stage /\ stage = Depth /\ gpc' = "evict"
    BY DepthAssumption DEF GcSort, vars, SameDisk, Watching, GcCore, GcFlow, Stages
<1>2. dir \subseteq Node /\ dir' = dir
    BY <1>1 DEF GcCore, GcBase, SameDisk
<1>3. \A n \in Node : Entry(n)' = Entry(n) /\ Entry(n).node = n
    BY <1>1, SameDiskKeeps, EntryIs
<1>4. TrueEntries /\ AllSorted /\ AllListed /\ AllWhole
    BY <1>1 DEF Watched
<1>5. PICK stay : /\ NewestOk(seen) \subseteq stay /\ stay \subseteq seen
                  /\ kept' = kept \union stay
                  /\ doomed' = doomed \union (seen \ stay)
                  /\ safe' = safe \union NewestOk(seen)
    <2>1. PICK old \in Survivors(seen) :
            LET stay == IF policy.budget # NoBudget THEN old \union NewestOk(seen) ELSE old IN
            /\ kept' = kept \union stay
            /\ doomed' = doomed \union (seen \ stay)
            /\ safe' = safe \union (NewestOk(seen) \intersect stay)
        BY DEF GcSort
    <2>2. old \subseteq seen /\ NewestOk(seen) \subseteq seen
        BY <2>1 DEF Survivors, NewestOk
    <2> QED
        BY <1>1, <2>1, <2>2
<1>6. TrueEntries'
    BY <1>1, <1>2, <1>3, <1>4, <1>5 DEF TrueEntries
<1>7. \A n \in Node : n.stage \in Stages /\ Latest(n.stage)' = Latest(n.stage)
    BY <1>1, SameDiskKeeps, NodesAre
<1>8. /\ \A n \in dir : n.stage = stage /\ n \in Latest(stage) => Entry(n) \in NewestOk(seen)
      /\ \A e \in NewestOk(seen) : e.node \in Latest(stage) /\ e.node.stage = stage
                                   /\ e.node \in Node
    BY <1>1, <1>4, NewestAre DEF NewestOk, GcCore, GcFlow
<1>9. ASSUME NEW n \in dir, n.stage < stage' \/ gpc' = "evict"
      PROVE  Entry(n) \in kept' \union doomed' /\ (n \in Latest(n.stage) => Entry(n) \in safe')
    <2>1. n.stage < stage \/ n.stage = stage
        BY <1>1, <1>2, <1>9, NodesAre, DepthAssumption DEF Stages, GcCore, GcFlow
    <2>2. CASE n.stage < stage
        BY <1>4, <1>5, <2>2 DEF AllSorted
    <2>3. CASE n.stage = stage
        <3>1. Entry(n) \in seen
            BY <1>1, <1>4, <2>3 DEF AllListed
        <3> QED
            BY <1>5, <1>8, <2>3, <3>1
    <2> QED
        BY <2>1, <2>2, <2>3
<1>10. \A e \in safe' : e.node \in Node /\ e.node \in Latest(e.node.stage)
    BY <1>4, <1>5, <1>8 DEF AllSorted, GcCore, GcFlow
<1>11. AllSorted'
    BY <1>1, <1>2, <1>3, <1>7, <1>9, <1>10 DEF AllSorted
<1>12. AllListed' /\ WithinBudget'
    BY <1>1 DEF AllListed, WithinBudget
<1> QED
    BY <1>1, <1>6, <1>11, <1>12, SameDiskKeeps DEF Watched, SameDisk

LEMMA EvictWatched == ASSUME GcCore, Watching, Watched, GcEvict PROVE Watched'
<1>1. /\ SameDisk /\ gpc = "evict" /\ gpc' = "delete"
      /\ UNCHANGED <<stage, todo, seen, safe>>
    BY DEF GcEvict, vars, SameDisk
<1>2. dir \subseteq Node /\ dir' = dir
    BY <1>1 DEF GcCore, GcBase, SameDisk
<1>3. \A n \in Node : Entry(n)' = Entry(n)
    BY <1>1, SameDiskKeeps
<1>4. TrueEntries /\ AllSorted
    BY <1>1 DEF Watched
<1>5. PICK E \in Evictions(policy.budget) : doomed' = doomed \union E /\ kept' = kept \ E
    BY DEF GcEvict, Watching
<1>6. /\ E \subseteq kept \ safe
      /\ Bytes(kept \ E) <= policy.budget \/ E = kept \ safe
    BY <1>5 DEF Evictions
<1>7. TrueEntries'
    BY <1>1, <1>2, <1>3, <1>4, <1>5, <1>6 DEF TrueEntries
<1>8. \A n \in Node : Latest(n.stage)' = Latest(n.stage)
    BY <1>1, SameDiskKeeps, NodesAre
<1>9. AllSorted'
    <2>1. \A e \in safe : e.node \in Node
        BY DEF GcCore, GcFlow
    <2> QED
        BY <1>1, <1>2, <1>3, <1>4, <1>5, <1>6, <1>8, <2>1 DEF AllSorted
<1>10. WithinBudget'
    BY <1>1, <1>5, <1>6 DEF WithinBudget, Bytes, SameDisk
<1>11. AllListed'
    BY <1>1 DEF AllListed
<1> QED
    BY <1>1, <1>7, <1>9, <1>10, <1>11, SameDiskKeeps DEF Watched

LEMMA RemoveWatched == ASSUME GcCore, Watching, Watched, GcRemove PROVE Watched'
<1>1. PICK e \in doomed : /\ man' = [man EXCEPT ![e.node] = NoManifest]
                          /\ out' = [out EXCEPT ![e.node] = 0]
                          /\ dir' = dir \ {e.node}
                          /\ doomed' = doomed \ {e}
    BY DEF GcRemove
<1>2. gpc = "delete" /\ UNCHANGED <<gpc, stage, todo, seen, kept, safe, before, policy>>
    BY DEF GcRemove
<1>3. TrueEntries /\ AllSorted /\ AllWhole /\ WithinBudget /\ SameLatest
    BY <1>2 DEF Watched
<1>4. /\ e.node \in Node /\ e.node \in dir /\ e = Entry(e.node) /\ dir \subseteq Node
      /\ DOMAIN man = Node /\ DOMAIN out = Node /\ \A n \in Node : man[n].at \in Nat
    BY <1>3 DEF TrueEntries, GcCore, GcBase
<1>5. \A n \in Node : n # e.node => /\ man'[n] = man[n] /\ out'[n] = out[n]
                                    /\ Entry(n)' = Entry(n) /\ (Intact(n)' <=> Intact(n))
    BY <1>1, <1>4 DEF Entry, Intact
<1>6. ~Intact(e.node)' /\ man'[e.node].st # "ok" /\ man'[e.node].at = 0
    BY <1>1, <1>4 DEF Intact, NoManifest
<1>7. e \notin kept /\ e \notin safe
    BY DEF GcCore, GcFlow
<1>8. e.node \notin Latest(e.node.stage)
    BY <1>2, <1>3, <1>4, <1>7 DEF AllSorted
<1>9. ASSUME NEW s \in Stages PROVE Latest(s)' = Latest(s)
    <2>1. ASSUME NEW n \in Latest(s) PROVE n \in Latest(s)'
        <3>1. n \in Node /\ n.stage = s /\ Intact(n)
              /\ (\A m \in Node : m.stage = s /\ Intact(m) => man[m].at <= man[n].at)
            BY <2>1 DEF Latest
        <3>2. n # e.node
            BY <1>8, <2>1, <3>1
        <3>3. \A m \in Node : m.stage = s /\ Intact(m)' => man'[m].at <= man'[n].at
            BY <1>5, <1>6, <3>1, <3>2
        <3> QED
            BY <1>5, <3>1, <3>2, <3>3 DEF Latest
    <2>2. ASSUME NEW n \in Latest(s)' PROVE n \in Latest(s)
        <3>1. n \in Node /\ n.stage = s /\ Intact(n)'
              /\ (\A m \in Node : m.stage = s /\ Intact(m)' => man'[m].at <= man'[n].at)
            BY <2>2 DEF Latest
        <3>2. n # e.node /\ Intact(n) /\ man'[n] = man[n]
            BY <1>5, <1>6, <3>1
        <3>3. \A m \in Node : m # e.node /\ m.stage = s /\ Intact(m) => man[m].at <= man[n].at
            BY <1>5, <3>1, <3>2
        <3>4. e.node.stage = s /\ Intact(e.node) => man[e.node].at <= man[n].at
            <4> SUFFICES ASSUME e.node.stage = s, Intact(e.node)
                         PROVE  man[e.node].at <= man[n].at
                OBVIOUS
            <4>1. PICK m \in Node : /\ m.stage = s /\ Intact(m)
                                    /\ ~(man[m].at <= man[e.node].at)
                BY <1>4, <1>8 DEF Latest
            <4>2. m # e.node
                BY <1>4, <4>1
            <4> QED
                BY <1>4, <3>1, <3>3, <4>1, <4>2
        <3> QED
            BY <3>1, <3>2, <3>3, <3>4 DEF Latest
    <2> QED
        BY <2>1, <2>2
<1>10. \A f \in (todo \union seen \union kept \union doomed) \ {e} :
            f.node \in dir /\ f = Entry(f.node) /\ f.node # e.node
    BY <1>3, <1>4 DEF TrueEntries
<1>11. TrueEntries'
    <2>1. todo' \union seen' \union kept' \union doomed'
            \subseteq (todo \union seen \union kept \union doomed) \ {e}
        BY <1>1, <1>2, <1>7 DEF GcCore, GcFlow
    <2> QED
        BY <1>1, <1>2, <1>4, <1>5, <1>10, <2>1 DEF TrueEntries
<1>12. AllWhole' /\ SameLatest'
    BY <1>2, <1>3, <1>5, <1>6, <1>9 DEF AllWhole, SameLatest
<1>13. AllSorted'
    <2>1. \A n \in Node : Latest(n.stage)' = Latest(n.stage)
        BY <1>9, NodesAre
    <2>2. \A f \in safe : f.node \in Node
        BY DEF GcCore, GcFlow
    <2>3. \A n \in dir' : n \in dir /\ n # e.node /\ n \in Node /\ Entry(n)' = Entry(n)
                          /\ Entry(n) # e
        BY <1>1, <1>4, <1>5, EntryIs
    <2>4. \A n \in dir' : Entry(n)' \in kept' \union doomed'
        BY <1>1, <1>2, <1>3, <2>3 DEF AllSorted
    <2>5. \A n \in dir' : n \in Latest(n.stage)' => Entry(n)' \in safe'
        BY <1>2, <1>3, <2>1, <2>3 DEF AllSorted
    <2>6. \A f \in safe' : f.node \in Latest(f.node.stage)'
        BY <1>2, <1>3, <2>1, <2>2 DEF AllSorted
    <2> QED
        BY <2>4, <2>5, <2>6 DEF AllSorted
<1>14. WithinBudget' /\ AllListed'
    BY <1>2, <1>3 DEF WithinBudget, AllListed, Bytes
<1> QED
    BY <1>2, <1>11, <1>12, <1>13, <1>14 DEF Watched

\* There are finitely many node directories.
LEMMA NodesAreFinite == IsFiniteSet(Node)
<1> DEFINE T == (Stages \X (Data \union {NoData})) \X Stamps
           f == [n \in Node |-> << <<n.stage, n.data>>, n.in >>]
<1>1. IsFiniteSet(Stages) /\ IsFiniteSet(Stamps)
    BY FS_Interval, DepthAssumption, ClockAssumption DEF Stages, Stamps
<1>2. IsFiniteSet(Data \union {NoData})
    BY DataAssumption, FS_AddElement
<1>3. IsFiniteSet(T)
    BY <1>1, <1>2, FS_Product
<1>4. \A n \in Node : f[n] = << <<n.stage, n.data>>, n.in >> /\ f[n] \in T
    BY DEF Node
<1>5. \A n \in Node : n = [stage |-> n.stage, data |-> n.data, in |-> n.in]
    BY DEF Node
<1>6. \A m, n \in Node : f[m] = f[n] => m = n
    BY <1>4, <1>5
<1>7. f \in Injection(Node, T)
    <2> HIDE DEF T
    <2> QED
        BY <1>4, <1>6 DEF Injection, IsInjective
<1> QED
    BY <1>3, <1>7, FS_Injection

LEMMA EndWatched == ASSUME GcCore, Watching, Watched, GcEnd PROVE Watched'
<1>1. /\ gpc = "delete" /\ gpc' = "idle" /\ doomed = {}
      /\ UNCHANGED <<dir, out, man, before, policy>>
    BY DEF GcEnd, vars
<1>2. TrueEntries /\ AllSorted /\ WithinBudget /\ SameLatest
    BY <1>1 DEF Watched
<1>3. SameLatest'
    BY <1>1, <1>2 DEF SameLatest, Latest, Intact
<1>4. dir \subseteq Node /\ safe \subseteq kept /\ policy.budget \in Nat
    BY DEF GcCore, GcBase, GcFlow, Watching
<1>5. \A n \in dir : Entry(n) \in kept /\ (n \in Latest(n.stage) => Entry(n) \in safe)
    BY <1>1, <1>2 DEF AllSorted
<1>6. CASE kept \subseteq safe
    <2>1. ASSUME NEW n \in dir PROVE n \in Latest(n.stage)
        BY <1>2, <1>4, <1>5, <1>6, EntryIs DEF AllSorted
    <2>2. \A n \in dir' : n \in Latest(n.stage)'
        BY <1>1, <2>1 DEF Latest, Intact
    <2> QED
        BY <1>1, <1>3, <2>2 DEF Watched
<1>7. CASE Bytes(kept) <= policy.budget
    <2> DEFINE full == { n \in dir : out[n] # 0 }
               heavy == { e \in kept : e.size = 1 }
               f == [n \in full |-> Entry(n)]
               g == [e \in kept |-> e.node]
    <2>1. IsFiniteSet(heavy)
        <3>1. \A e \in kept : e.node \in Node /\ e = Entry(e.node)
            BY <1>2, <1>4 DEF TrueEntries
        <3>2. \A d, e \in kept : g[d] = g[e] => d = e
            BY <3>1
        <3>3. g \in Injection(kept, Node)
            BY <3>1, <3>2 DEF Injection, IsInjective
        <3>4. IsFiniteSet(kept)
            <4> HIDE DEF g
            <4> QED
                BY <3>3, NodesAreFinite, FS_Injection
        <3>5. heavy \in SUBSET kept
            OBVIOUS
        <3> HIDE DEF heavy
        <3> QED
            BY <3>4, <3>5, FS_Subset
    <2>2. \A n \in full : f[n] = Entry(n) /\ f[n] \in heavy /\ f[n].node = n
        BY <1>4, <1>5, EntryIs
    <2>3. \A m, n \in full : f[m] = f[n] => m = n
        BY <2>2
    <2>4. f \in [full -> heavy]
        BY <2>2
    <2>5. f \in Injection(full, heavy)
        <3> HIDE DEF full, heavy, f
        <3> QED
            BY <2>3, <2>4 DEF Injection, IsInjective
    <2>6. IsFiniteSet(full) /\ Cardinality(full) <= Cardinality(heavy)
        <3> HIDE DEF full, heavy, f
        <3> QED
            BY <2>1, <2>5, FS_Injection
    <2>7. Cardinality(full) \in Nat /\ Cardinality(heavy) \in Nat
        <3> HIDE DEF full, heavy
        <3> QED
            BY <2>1, <2>6, FS_CardinalityType
    <2>8. Cardinality(heavy) <= policy.budget
        BY <1>7 DEF Bytes
    <2>9. Cardinality(full) <= policy.budget
        <3> HIDE DEF full, heavy
        <3> QED
            BY <1>4, <2>6, <2>7, <2>8
    <2>10. Cardinality({ n \in dir' : out'[n] # 0 }) <= policy'.budget
        BY <1>1, <2>9
    <2> QED
        BY <1>1, <1>3, <2>10 DEF Watched
<1> QED
    BY <1>1, <1>2, <1>6, <1>7 DEF WithinBudget

LEMMA BudgetStep == GcCore /\ BudgetInv /\ [RunStep \/ Gc]_allvars => BudgetInv'
<1> SUFFICES ASSUME GcCore, BudgetInv, [RunStep \/ Gc]_allvars, Watching' PROVE Watched'
    BY DEF BudgetInv
<1>1. CASE RunStep
    BY <1>1 DEF RunStep, Watching
<1>2. CASE GcBegin
    BY <1>2, BeginWatched
<1>3. ASSUME Gc, ~GcBegin PROVE Watched'
    <2>1. UNCHANGED <<quiet, policy, broken, pc>>
        BY <1>3 DEF Gc, GcList, GcSkipLocked, GcProbe, GcUnprobe, GcSort, GcEvict, GcRemove,
                    GcEnd, vars
    <2>2. Watching /\ Watched
        BY <2>1 DEF Watching, BudgetInv
    <2> QED
        BY <1>3, <2>2, ListWatched, ProbeWatched, SortWatched, EvictWatched, RemoveWatched,
           EndWatched DEF Gc
<1>4. CASE UNCHANGED allvars
    <2>1. Watching /\ Watched
        BY <1>4 DEF Watching, BudgetInv, allvars, gcvars, vars
    <2> QED
        BY <1>4, <2>1 DEF allvars, gcvars, vars, Watched, TrueEntries, AllWhole, AllListed,
           AllSorted, WithinBudget, SameLatest, Entry, Latest, Intact, Bytes
<1> QED
    BY <1>1, <1>2, <1>3, <1>4

LEMMA BudgetSays == BudgetInv => BudgetSpares
BY DEF BudgetInv, Watching, Watched, BudgetSpares, BudgetKeepsNewest, BudgetIsMet,
       BudgetGcDone, SameLatest

\* A byte budget never costs the next run its hit, and is met or leaves nothing
\* but what the next run uses; provided that no run was there meanwhile, and that
\* every ok manifest had its outputs (cache.py, gc with max_bytes, ADR-0081).
THEOREM BudgetSparesHolds == GcSpec => []BudgetSpares
<1>1. GcInit => BudgetInv
    BY DEF GcInit, GcIdle, BudgetInv, Watching
<1> QED
    BY <1>1, BudgetSays, BudgetStep, GcCoreHolds, PTL DEF GcSpec

\* The directories that the runs of the past may have left are as good a start.
LEMMA DiskStart == DiskInit => GcCore /\ BudgetInv
<1> SUFFICES ASSUME DiskInit PROVE GcCore /\ BudgetInv
    OBVIOUS
<1>0. PICK left \in [Present -> Remains], busy \in BOOLEAN, r \in Runs : DiskIs(left, busy, r)
    BY DEF DiskInit
<1> USE DEF Is
<1>1. GcIdle /\ clock = MaxClock /\ made = [q \in Runs |-> 0]
    BY DEF DiskInit
<1>2. /\ DOMAIN man = Node /\ DOMAIN out = Node /\ DOMAIN pc = Runs /\ DOMAIN node = Runs
      /\ dir \subseteq Node
    BY <1>0 DEF DiskIs, Present
<1>3. /\ \A n \in Node : man[n].at \in Nat
      /\ \A n \in Node \ dir : man[n] = NoManifest /\ out[n] = 0
    <2> SUFFICES ASSUME NEW n \in Node
                 PROVE  man[n].at \in Nat /\ (n \notin dir => man[n] = NoManifest /\ out[n] = 0)
        OBVIOUS
    <2>1. n \in Present => left[n] \in Remains /\ left[n].at \in Nat
        BY ClockAssumption DEF Remains
    <2>2. n \in dir <=> (n \in Present /\ left[n].st # "absent")
        BY <1>0 DEF DiskIs
    <2>3. n \notin dir => ~Is(left, n, "ok") /\ ~Is(left, n, "failed")
        BY <2>2
    <2>4. man[n].at \in Nat
        BY <1>0, <2>1 DEF DiskIs, NoManifest
    <2>5. n \notin dir => man[n] = NoManifest
        <3> HIDE DEF Is
        <3> QED
            BY <1>0, <2>3 DEF DiskIs
    <2>6. n \notin dir => out[n] = 0
        <3> HIDE DEF Is
        <3> QED
            BY <1>0, <2>3 DEF DiskIs
    <2> QED
        BY <2>4, <2>5, <2>6
<1>4. /\ lock \in [Node -> Runs \union {Free}]
      /\ \A n \in Node : lock[n] \in Runs => pc[lock[n]] \in Holding /\ node[lock[n]] = n
    <2>1. \A n \in Node : lock[n] = IF busy /\ n = Executing THEN r ELSE Free
        BY <1>0 DEF DiskIs
    <2>2. busy => pc[r] = "engine" /\ node[r] = Executing
        BY <1>0 DEF DiskIs
    <2> QED
        BY <1>0, <2>1, <2>2, NullAssumption DEF DiskIs, Holding
<1>5. GcBase
    BY <1>1, <1>2, <1>3, <1>4, ClockAssumption, GCAssumption DEF GcBase, GcIdle
<1>6. GcFlow /\ GcSpares /\ BudgetInv
    BY <1>1, DepthAssumption DEF GcIdle, GcFlow, GcSpares, BudgetInv, Watching, Stages
<1> QED
    BY <1>5, <1>6 DEF GcCore
=============================================================================
