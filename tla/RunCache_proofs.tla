--------------------------- MODULE RunCache_proofs ---------------------------
(***************************************************************************)
(* Proofs about RunCache, for any number of runs, stages and date sets.     *)
(*                                                                         *)
(* IndInv is the inductive invariant: the variables have their types, each  *)
(* run is where its phase says it is (Walk), and a lock belongs exactly to  *)
(* the run inside its directory (Holds, LockOwned).                         *)
(***************************************************************************)
EXTENDS RunCache, TLAPS

Inside == {"lock", "busy"} \union Holding

\* The position of a run in the chain.
Walk(r) ==
    /\ pc[r] = "plan" => at[r] <= req[r].start
    /\ pc[r] \notin Idle =>
         /\ at[r] \in Stages
         /\ at[r] = 1 => have[r] = 0
         /\ at[r] > 1 => prev[r] \in Node /\ prev[r].stage = at[r] - 1
    /\ pc[r] \in Inside => node[r] \in Node /\ node[r].stage = at[r]
    /\ \A s \in Stages : fall[r][s].tok # 0 =>
         fall[r][s].node \in Node /\ fall[r][s].node.stage = s

\* A run between taking and releasing a lock holds it.
Holds(r) == pc[r] \in Holding => lock[node[r]] = r

IndInv ==
    /\ TypeOK
    /\ \A r \in Runs : Walk(r)
    /\ \A r \in Runs : Holds(r)
    /\ LockOwned

-----------------------------------------------------------------------------
\* The hash rule always leads to a node directory of the stage it is for.
LEMMA KeyInNode ==
    ASSUME NEW s \in Stages, NEW d \in Data \union {NoData}, NEW t \in Stamps, NEW up,
           s = 1 => t = 0,
           s > 1 => up \in Node /\ up.stage = s - 1
    PROVE  Key(s, d, up, t) \in Node /\ Key(s, d, up, t).stage = s
<1> DEFINE k == Key(s, d, up, t)
<1>1. k.stage = s /\ k.in = (IF Linked(s) THEN up.in ELSE t)
       /\ k.data = (IF s \in DataStages \ Incremental THEN d ELSE NoData)
  BY DEF Key
<1>2. k \in [stage : Stages, data : Data \union {NoData}, in : Stamps]
  BY DEF Key, Node, Linked
<1>3. k.data # NoData => k.stage \in DataStages \ Incremental
  BY <1>1
<1>4. k.in # 0 => ContentKeyed(s)
  <2>1. CASE Linked(s)
    <3>1. up \in Node /\ up.stage = s - 1 /\ k.in = up.in
      BY <1>1, <2>1 DEF Linked
    <3>2. k.in # 0 => ContentKeyed(s - 1)
      BY <3>1 DEF Node
    <3> QED
      BY <3>2, DepthAssumption DEF ContentKeyed, Stages
  <2>2. CASE ~Linked(s)
    <3>1. k.in # 0 => s > 1
      BY <1>1, <2>2, DepthAssumption DEF Stages
    <3> QED
      BY <3>1, <2>2, DepthAssumption DEF ContentKeyed, Stages
  <2> QED
    BY <2>1, <2>2
<1> QED
  BY <1>1, <1>2, <1>3, <1>4 DEF Node

\* The directory a run wants is a directory of its current stage.
LEMMA WantedInNode ==
    ASSUME IndInv, NEW r \in Runs, pc[r] \notin Idle
    PROVE  Wanted(r) \in Node /\ Wanted(r).stage = at[r]
<1>1. req[r].data \in Data \union {NoData}
  BY RequestAssumption DEF IndInv, TypeOK, WalkTypeOK, NoRequest
<1>2. at[r] \in Stages /\ have[r] \in Stamps
  BY DEF IndInv, TypeOK, WalkTypeOK, Walk
<1>3. at[r] = 1 => have[r] = 0
  BY DEF IndInv, Walk
<1>4. at[r] > 1 => prev[r] \in Node /\ prev[r].stage = at[r] - 1
  BY DEF IndInv, Walk
<1> QED
  BY <1>1, <1>2, <1>3, <1>4, KeyInNode DEF Wanted

LEMMA InitInv == Init => IndInv
<1> SUFFICES ASSUME Init PROVE IndInv
  OBVIOUS
<1>1. TypeOK
  BY DepthAssumption, ClockAssumption DEF Init, TypeOK, DiskTypeOK, WalkTypeOK, ExecTypeOK, Manifest, NoManifest, Status,
     Stamps, Stages, Phase, Idle, NoFall, NoUse, NoProv
<1>2. \A r \in Runs : Walk(r)
  BY DEF Init, Walk, Idle, Inside, Holding, NoFall
<1>3. (\A r \in Runs : Holds(r)) /\ LockOwned
  BY DEF Init, Holds, LockOwned, Holding
<1> QED
  BY <1>1, <1>2, <1>3 DEF IndInv

-----------------------------------------------------------------------------
\* The values that runs start and end with.
FallType == [Stages -> [node : Node \union {NoNode}, tok : Stamps]]

LEMMA Resets ==
    /\ 0 \in Stamps
    /\ 1 \in Stages /\ 1 \in 1 .. (Depth + 1)
    /\ Stages \subseteq 1 .. (Depth + 1)
    /\ NoFall \in FallType
    /\ NoUse \in [Stages -> Stamps]
    /\ Idle \subseteq Phase /\ {"plan", "resolve", "lock", "busy"} \subseteq Phase
    /\ Holding \subseteq Phase
<1>1. 0 \in Stamps
  BY ClockAssumption DEF Stamps
<1>2. 1 \in Stages /\ 1 \in 1 .. (Depth + 1) /\ Stages \subseteq 1 .. (Depth + 1)
  BY DepthAssumption DEF Stages
<1>3. NoFall \in FallType /\ NoUse \in [Stages -> Stamps]
  BY <1>1 DEF NoFall, FallType, NoUse
<1> QED
  BY <1>1, <1>2, <1>3 DEF Phase

LEMMA LeaveType ==
    ASSUME WalkTypeOK, ExecTypeOK, NEW r \in Runs, Leave(r)
    PROVE  WalkTypeOK' /\ ExecTypeOK'
<1>1. pc' \in [Runs -> Phase] /\ req' \in [Runs -> Requests \union {NoRequest}]
  BY Resets DEF WalkTypeOK, Leave, Idle
<1>2. at' \in [Runs -> 1 .. (Depth + 1)] /\ have' \in [Runs -> Stamps]
  BY Resets DEF WalkTypeOK, Leave
<1>3. prev' \in [Runs -> Node \union {NoNode}]
  BY DEF WalkTypeOK, Leave
<1>4. fall' \in [Runs -> FallType] /\ used' \in [Runs -> [Stages -> Stamps]]
  BY Resets DEF WalkTypeOK, Leave, FallType
<1>5. ExecTypeOK'
  BY Resets DEF ExecTypeOK, Leave
<1> QED
  BY <1>1, <1>2, <1>3, <1>4, <1>5 DEF WalkTypeOK, FallType

LEMMA AdvanceType ==
    ASSUME WalkTypeOK, NEW r \in Runs, at[r] \in Stages, NEW n \in Node, NEW t \in Stamps,
           Advance(r, n, t), UNCHANGED <<req, fall>>
    PROVE  WalkTypeOK'
<1>1. pc' \in [Runs -> Phase]
  BY Resets DEF WalkTypeOK, Advance, Idle
<1>2. at' \in [Runs -> 1 .. (Depth + 1)]
  BY DepthAssumption DEF WalkTypeOK, Advance, Stages
<1>3. prev' \in [Runs -> Node \union {NoNode}] /\ have' \in [Runs -> Stamps]
  BY DEF WalkTypeOK, Advance
<1>4. used' \in [Runs -> [Stages -> Stamps]]
  BY DEF WalkTypeOK, Advance
<1> QED
  BY <1>1, <1>2, <1>3, <1>4 DEF WalkTypeOK

\* Every action preserves the invariant.
LEMMA BeginInv == ASSUME IndInv, NEW r \in Runs, Begin(r) PROVE IndInv'
<1> USE DEF IndInv
<1>1. DiskTypeOK'
  BY DEF TypeOK, DiskTypeOK, Begin, disk
<1>2. WalkTypeOK'
  <2>1. pc' \in [Runs -> Phase] /\ req' \in [Runs -> Requests \union {NoRequest}]
    BY Resets DEF TypeOK, WalkTypeOK, Begin
  <2>2. at' \in [Runs -> 1 .. (Depth + 1)] /\ have' \in [Runs -> Stamps]
    BY Resets DEF TypeOK, WalkTypeOK, Begin
  <2>3. prev' \in [Runs -> Node \union {NoNode}]
    BY DEF TypeOK, WalkTypeOK, Begin
  <2>4. fall' \in [Runs -> FallType] /\ used' \in [Runs -> [Stages -> Stamps]]
    BY Resets DEF TypeOK, WalkTypeOK, Begin, FallType
  <2> QED
    BY <2>1, <2>2, <2>3, <2>4 DEF WalkTypeOK, FallType
<1>3. ExecTypeOK'
  BY DEF TypeOK, ExecTypeOK, Begin, exec
<1>4. ASSUME NEW q \in Runs PROVE Walk(q)'
  BY DepthAssumption, RequestAssumption
  DEF TypeOK, DiskTypeOK, WalkTypeOK, ExecTypeOK, Begin, Walk, disk, walk, exec,
      Idle, Inside, Holding, Stages, NoFall
<1>5. ASSUME NEW q \in Runs PROVE Holds(q)'
  BY NullAssumption
  DEF TypeOK, DiskTypeOK, WalkTypeOK, ExecTypeOK, Begin, Walk, Holds, LockOwned,
      disk, walk, exec, Idle, Inside, Holding
<1>6. LockOwned'
  BY NullAssumption
  DEF TypeOK, DiskTypeOK, WalkTypeOK, ExecTypeOK, Begin, Walk, Holds, LockOwned,
      disk, walk, exec, Idle, Inside, Holding
<1> QED
  BY <1>1, <1>2, <1>3, <1>4, <1>5, <1>6 DEF TypeOK

LEMMA PlanHitInv == ASSUME IndInv, NEW r \in Runs, PlanHit(r) PROVE IndInv'
<1> USE DEF IndInv
<1>0. Wanted(r) \in Node /\ Wanted(r).stage = at[r]
  BY WantedInNode DEF PlanHit, Idle
<1>1. DiskTypeOK'
  BY DEF TypeOK, DiskTypeOK, PlanHit, disk
<1>2. WalkTypeOK'
  <2>1. at[r] \in Stages /\ Wanted(r) \in Node /\ out[Wanted(r)] \in Stamps
    BY <1>0 DEF TypeOK, DiskTypeOK, Walk, PlanHit, Idle
  <2>2. at' \in [Runs -> 1 .. (Depth + 1)]
    BY <1>0, <2>1, DepthAssumption DEF TypeOK, WalkTypeOK, PlanHit, Stages
  <2>3. prev' \in [Runs -> Node \union {NoNode}] /\ have' \in [Runs -> Stamps]
    BY <1>0, <2>1 DEF TypeOK, WalkTypeOK, PlanHit
  <2>4. fall' \in [Runs -> FallType]
    BY <1>0, <2>1 DEF TypeOK, WalkTypeOK, PlanHit, FallType
  <2> QED
    BY <2>2, <2>3, <2>4 DEF TypeOK, WalkTypeOK, PlanHit, FallType
<1>3. ExecTypeOK'
  BY <1>0, DepthAssumption, ClockAssumption DEF TypeOK, ExecTypeOK, PlanHit, exec
<1>4. ASSUME NEW q \in Runs PROVE Walk(q)'
  <2>1. at[r] \in Stages
    BY DEF Walk, PlanHit, Idle
  <2>a. CASE q = r
    <3>1. at'[r] = at[r] + 1 /\ at[r] \in Nat /\ at[r] > 0
      BY <2>1, DepthAssumption DEF TypeOK, WalkTypeOK, PlanHit, Stages
    <3>2. prev'[r] \in Node /\ prev'[r].stage = at[r]
      BY <1>0, <2>1 DEF TypeOK, WalkTypeOK, PlanHit
    <3>0. req[r].start \in Stages /\ at[r] < req[r].start /\ req' = req
      BY Resets, RequestAssumption DEF TypeOK, WalkTypeOK, PlanHit, NoRequest
    <3>3. at'[r] \in Stages /\ at'[r] <= req'[r].start
      BY <3>0, <3>1, DepthAssumption DEF Stages
    <3>5. ASSUME NEW s \in Stages, fall'[r][s].tok # 0
          PROVE  fall'[r][s].node \in Node /\ fall'[r][s].node.stage = s
      BY <1>0, <2>1, <3>5 DEF TypeOK, WalkTypeOK, Walk, PlanHit
    <3>6. pc'[r] \notin Inside
      BY DEF TypeOK, WalkTypeOK, PlanHit, Inside, Holding
    <3> QED
      BY <2>a, <3>1, <3>2, <3>3, <3>5, <3>6 DEF Walk
  <2>b. CASE q # r
    BY <1>0, <2>1, <2>b DEF TypeOK, WalkTypeOK, ExecTypeOK, Walk, disk, exec, PlanHit
  <2> QED
    BY <2>a, <2>b
<1>5. ASSUME NEW q \in Runs PROVE Holds(q)'
  BY <1>0, NullAssumption
  DEF TypeOK, DiskTypeOK, WalkTypeOK, ExecTypeOK, PlanHit, Walk, Holds, LockOwned,
      disk, walk, exec, Idle, Inside, Holding, Hit, Intact
<1>6. LockOwned'
  BY <1>0, NullAssumption
  DEF TypeOK, DiskTypeOK, WalkTypeOK, ExecTypeOK, PlanHit, Walk, Holds, LockOwned,
      disk, walk, exec, Idle, Inside, Holding, Hit, Intact
<1> QED
  BY <1>1, <1>2, <1>3, <1>4, <1>5, <1>6 DEF TypeOK

LEMMA PlanFallbackInv == ASSUME IndInv, NEW r \in Runs, PlanFallback(r) PROVE IndInv'
<1> USE DEF IndInv
<1>1. DiskTypeOK'
  BY DEF TypeOK, DiskTypeOK, PlanFallback, disk
<1>2. WalkTypeOK'
  <2>0. PICK n \in Latest(at[r]) :
          /\ at' = [at EXCEPT ![r] = @ + 1]
          /\ prev' = [prev EXCEPT ![r] = n]
          /\ have' = [have EXCEPT ![r] = out[n]]
          /\ fall' = [fall EXCEPT
                        ![r] = [@ EXCEPT ![at[r]] = [node |-> n, tok |-> out[n]]]]
    BY DEF PlanFallback
  <2>1. at[r] \in Stages /\ n \in Node /\ out[n] \in Stamps
    BY <2>0 DEF TypeOK, DiskTypeOK, Walk, PlanFallback, Idle, Latest
  <2>2. at' \in [Runs -> 1 .. (Depth + 1)]
    BY <2>0, <2>1, DepthAssumption DEF TypeOK, WalkTypeOK, PlanFallback, Stages
  <2>3. prev' \in [Runs -> Node \union {NoNode}] /\ have' \in [Runs -> Stamps]
    BY <2>0, <2>1 DEF TypeOK, WalkTypeOK, PlanFallback
  <2>4. fall' \in [Runs -> FallType]
    BY <2>0, <2>1 DEF TypeOK, WalkTypeOK, PlanFallback, FallType
  <2> QED
    BY <2>2, <2>3, <2>4 DEF TypeOK, WalkTypeOK, PlanFallback, FallType
<1>3. ExecTypeOK'
  BY DEF TypeOK, ExecTypeOK, PlanFallback, exec
<1>4. ASSUME NEW q \in Runs PROVE Walk(q)'
  <2>0. PICK n \in Latest(at[r]) :
          /\ at' = [at EXCEPT ![r] = @ + 1]
          /\ prev' = [prev EXCEPT ![r] = n]
          /\ have' = [have EXCEPT ![r] = out[n]]
          /\ fall' = [fall EXCEPT
                        ![r] = [@ EXCEPT ![at[r]] = [node |-> n, tok |-> out[n]]]]
    BY DEF PlanFallback
  <2>1. at[r] \in Stages /\ n \in Node /\ n.stage = at[r]
    BY <2>0 DEF Walk, PlanFallback, Idle, Latest
  <2>a. CASE q = r
    <3>1. at'[r] = at[r] + 1 /\ at[r] \in Nat /\ at[r] > 0
      BY <2>1, DepthAssumption DEF TypeOK, WalkTypeOK, PlanFallback, Stages
    <3>2. prev'[r] \in Node /\ prev'[r].stage = at[r]
      BY <2>0, <2>1 DEF TypeOK, WalkTypeOK, PlanFallback
    <3>0. req[r].start \in Stages /\ at[r] < req[r].start /\ req' = req
      BY Resets, RequestAssumption DEF TypeOK, WalkTypeOK, PlanFallback, NoRequest
    <3>3. at'[r] \in Stages /\ at'[r] <= req'[r].start
      BY <3>0, <3>1, DepthAssumption DEF Stages
    <3>5. ASSUME NEW s \in Stages, fall'[r][s].tok # 0
          PROVE  fall'[r][s].node \in Node /\ fall'[r][s].node.stage = s
      BY <2>0, <2>1, <3>5 DEF TypeOK, WalkTypeOK, Walk, PlanFallback
    <3>6. pc'[r] \notin Inside
      BY DEF TypeOK, WalkTypeOK, PlanFallback, Inside, Holding
    <3> QED
      BY <2>a, <3>1, <3>2, <3>3, <3>5, <3>6 DEF Walk
  <2>b. CASE q # r
    BY <2>0, <2>1, <2>b DEF TypeOK, WalkTypeOK, ExecTypeOK, Walk, disk, exec, PlanFallback
  <2> QED
    BY <2>a, <2>b
<1>5. ASSUME NEW q \in Runs PROVE Holds(q)'
  BY NullAssumption
  DEF TypeOK, DiskTypeOK, WalkTypeOK, ExecTypeOK, PlanFallback, Walk, Holds,
      LockOwned, disk, walk, exec, Idle, Inside, Holding, Latest, Intact
<1>6. LockOwned'
  BY NullAssumption
  DEF TypeOK, DiskTypeOK, WalkTypeOK, ExecTypeOK, PlanFallback, Walk, Holds,
      LockOwned, disk, walk, exec, Idle, Inside, Holding, Latest, Intact
<1> QED
  BY <1>1, <1>2, <1>3, <1>4, <1>5, <1>6 DEF TypeOK

LEMMA PlanBlockedInv == ASSUME IndInv, NEW r \in Runs, PlanBlocked(r) PROVE IndInv'
<1> USE DEF IndInv
<1>1. DiskTypeOK'
  BY DEF TypeOK, DiskTypeOK, PlanBlocked, disk
<1>2. WalkTypeOK'
  BY LeaveType DEF TypeOK, PlanBlocked
<1>3. ExecTypeOK'
  BY LeaveType DEF TypeOK, PlanBlocked
<1>4. ASSUME NEW q \in Runs PROVE Walk(q)'
  BY DepthAssumption, RequestAssumption
  DEF TypeOK, DiskTypeOK, WalkTypeOK, ExecTypeOK, PlanBlocked, Walk, disk, walk,
      exec, Idle, Inside, Holding, Stages, NoFall, Leave, NoRequest
<1>5. ASSUME NEW q \in Runs PROVE Holds(q)'
  BY NullAssumption
  DEF TypeOK, DiskTypeOK, WalkTypeOK, ExecTypeOK, PlanBlocked, Walk, Holds,
      LockOwned, disk, walk, exec, Idle, Inside, Holding, Leave, NoRequest
<1>6. LockOwned'
  BY NullAssumption
  DEF TypeOK, DiskTypeOK, WalkTypeOK, ExecTypeOK, PlanBlocked, Walk, Holds,
      LockOwned, disk, walk, exec, Idle, Inside, Holding, Leave, NoRequest
<1> QED
  BY <1>1, <1>2, <1>3, <1>4, <1>5, <1>6 DEF TypeOK

LEMMA StartExecutorInv == ASSUME IndInv, NEW r \in Runs, StartExecutor(r) PROVE IndInv'
<1> USE DEF IndInv
<1>1. DiskTypeOK'
  BY DEF TypeOK, DiskTypeOK, StartExecutor, disk
<1>2. WalkTypeOK'
  BY Resets DEF TypeOK, WalkTypeOK, StartExecutor
<1>3. ExecTypeOK'
  BY DEF TypeOK, ExecTypeOK, StartExecutor, exec
<1>4. ASSUME NEW q \in Runs PROVE Walk(q)'
  BY DepthAssumption, RequestAssumption
  DEF TypeOK, DiskTypeOK, WalkTypeOK, ExecTypeOK, StartExecutor, Walk, disk, walk,
      exec, Idle, Inside, Holding, Stages, NoFall
<1>5. ASSUME NEW q \in Runs PROVE Holds(q)'
  BY NullAssumption
  DEF TypeOK, DiskTypeOK, WalkTypeOK, ExecTypeOK, StartExecutor, Walk, Holds,
      LockOwned, disk, walk, exec, Idle, Inside, Holding
<1>6. LockOwned'
  BY NullAssumption
  DEF TypeOK, DiskTypeOK, WalkTypeOK, ExecTypeOK, StartExecutor, Walk, Holds,
      LockOwned, disk, walk, exec, Idle, Inside, Holding
<1> QED
  BY <1>1, <1>2, <1>3, <1>4, <1>5, <1>6 DEF TypeOK

LEMMA UseFallbackInv == ASSUME IndInv, NEW r \in Runs, UseFallback(r) PROVE IndInv'
<1> USE DEF IndInv
<1>1. DiskTypeOK'
  BY DEF TypeOK, DiskTypeOK, UseFallback, disk
<1>2. WalkTypeOK'
  <2>1. at[r] \in Stages
    BY DEF Walk, UseFallback, Idle
  <2>2. fall[r][at[r]].node \in Node /\ fall[r][at[r]].tok \in Stamps
    BY <2>1 DEF TypeOK, WalkTypeOK, Walk, UseFallback, FallbackAt
  <2> QED
    BY <2>1, <2>2, AdvanceType DEF TypeOK, UseFallback
<1>3. ExecTypeOK'
  BY DEF TypeOK, ExecTypeOK, UseFallback, exec
<1>4. ASSUME NEW q \in Runs PROVE Walk(q)'
  <2>1. at[r] \in Stages
    BY DEF Walk, UseFallback, Idle
  <2>2. fall[r][at[r]].node \in Node /\ fall[r][at[r]].node.stage = at[r]
    BY <2>1 DEF TypeOK, WalkTypeOK, Walk, UseFallback, FallbackAt
  <2>a. CASE q = r
    <3>1. at'[r] = at[r] + 1 /\ at[r] \in Nat /\ at[r] > 0
      BY <2>1, DepthAssumption DEF TypeOK, WalkTypeOK, UseFallback, Advance, Stages
    <3>2. prev'[r] \in Node /\ prev'[r].stage = at[r]
      BY <2>1, <2>2 DEF TypeOK, WalkTypeOK, UseFallback, Advance
    <3>3. pc'[r] \notin Idle => at'[r] \in Stages
      BY <2>1, <2>2, DepthAssumption, RequestAssumption
      DEF TypeOK, WalkTypeOK, Walk, UseFallback, Advance, Stages, Idle, NoRequest
    <3>4. pc'[r] = "plan" => at'[r] <= req'[r].start
      BY <2>1, <2>2, DepthAssumption, RequestAssumption
      DEF TypeOK, WalkTypeOK, Walk, UseFallback, Advance, Stages, Idle, NoRequest
    <3>5. ASSUME NEW s \in Stages, fall'[r][s].tok # 0
          PROVE  fall'[r][s].node \in Node /\ fall'[r][s].node.stage = s
      BY <2>1, <2>2, <3>5 DEF TypeOK, WalkTypeOK, Walk, UseFallback, Advance
    <3>6. pc'[r] \notin Inside
      BY DEF TypeOK, WalkTypeOK, UseFallback, Advance, Inside, Holding
    <3> QED
      BY <2>a, <3>1, <3>2, <3>3, <3>4, <3>5, <3>6 DEF Walk
  <2>b. CASE q # r
    BY <2>1, <2>2, <2>b DEF TypeOK, WalkTypeOK, ExecTypeOK, Walk, disk, exec, UseFallback, Advance
  <2> QED
    BY <2>a, <2>b
<1>5. ASSUME NEW q \in Runs PROVE Holds(q)'
  BY NullAssumption
  DEF TypeOK, DiskTypeOK, WalkTypeOK, ExecTypeOK, UseFallback, Walk, Holds,
      LockOwned, disk, walk, exec, Idle, Inside, Holding, Advance, FallbackAt
<1>6. LockOwned'
  BY NullAssumption
  DEF TypeOK, DiskTypeOK, WalkTypeOK, ExecTypeOK, UseFallback, Walk, Holds,
      LockOwned, disk, walk, exec, Idle, Inside, Holding, Advance, FallbackAt
<1> QED
  BY <1>1, <1>2, <1>3, <1>4, <1>5, <1>6 DEF TypeOK

LEMMA UseCacheInv == ASSUME IndInv, NEW r \in Runs, UseCache(r) PROVE IndInv'
<1> USE DEF IndInv
<1>0. Wanted(r) \in Node /\ Wanted(r).stage = at[r]
  BY WantedInNode DEF UseCache, Idle
<1>1. DiskTypeOK'
  BY DEF TypeOK, DiskTypeOK, UseCache, disk
<1>2. WalkTypeOK'
  <2>1. out[Wanted(r)] \in Stamps /\ at[r] \in Stages
    BY <1>0 DEF TypeOK, DiskTypeOK, Walk, UseCache, Idle
  <2> QED
    BY <1>0, <2>1, AdvanceType DEF TypeOK, UseCache
<1>3. ExecTypeOK'
  BY <1>0, DepthAssumption, ClockAssumption DEF TypeOK, ExecTypeOK, UseCache, exec
<1>4. ASSUME NEW q \in Runs PROVE Walk(q)'
  BY <1>0, DepthAssumption, RequestAssumption
  DEF TypeOK, DiskTypeOK, WalkTypeOK, ExecTypeOK, UseCache, Walk, disk, walk,
      exec, Idle, Inside, Holding, Stages, NoFall, Advance, Hit, Intact
<1>5. ASSUME NEW q \in Runs PROVE Holds(q)'
  BY <1>0, NullAssumption
  DEF TypeOK, DiskTypeOK, WalkTypeOK, ExecTypeOK, UseCache, Walk, Holds,
      LockOwned, disk, walk, exec, Idle, Inside, Holding, Advance, Hit, Intact
<1>6. LockOwned'
  BY <1>0, NullAssumption
  DEF TypeOK, DiskTypeOK, WalkTypeOK, ExecTypeOK, UseCache, Walk, Holds,
      LockOwned, disk, walk, exec, Idle, Inside, Holding, Advance, Hit, Intact
<1> QED
  BY <1>1, <1>2, <1>3, <1>4, <1>5, <1>6 DEF TypeOK

LEMMA BlockedInv == ASSUME IndInv, NEW r \in Runs, Blocked(r) PROVE IndInv'
<1> USE DEF IndInv
<1>1. DiskTypeOK'
  BY DEF TypeOK, DiskTypeOK, Blocked, disk
<1>2. WalkTypeOK'
  BY LeaveType DEF TypeOK, Blocked
<1>3. ExecTypeOK'
  BY LeaveType DEF TypeOK, Blocked
<1>4. ASSUME NEW q \in Runs PROVE Walk(q)'
  BY DepthAssumption, RequestAssumption
  DEF TypeOK, DiskTypeOK, WalkTypeOK, ExecTypeOK, Blocked, Walk, disk, walk, exec,
      Idle, Inside, Holding, Stages, NoFall, Leave, NoRequest
<1>5. ASSUME NEW q \in Runs PROVE Holds(q)'
  BY NullAssumption
  DEF TypeOK, DiskTypeOK, WalkTypeOK, ExecTypeOK, Blocked, Walk, Holds, LockOwned,
      disk, walk, exec, Idle, Inside, Holding, Leave, NoRequest
<1>6. LockOwned'
  BY NullAssumption
  DEF TypeOK, DiskTypeOK, WalkTypeOK, ExecTypeOK, Blocked, Walk, Holds, LockOwned,
      disk, walk, exec, Idle, Inside, Holding, Leave, NoRequest
<1> QED
  BY <1>1, <1>2, <1>3, <1>4, <1>5, <1>6 DEF TypeOK

LEMMA MissInv == ASSUME IndInv, NEW r \in Runs, Miss(r) PROVE IndInv'
<1> USE DEF IndInv
<1>0. Wanted(r) \in Node /\ Wanted(r).stage = at[r]
  BY WantedInNode DEF Miss, Idle
<1>1. DiskTypeOK'
  BY DEF TypeOK, DiskTypeOK, Miss, disk
<1>2. WalkTypeOK'
  BY <1>0, DepthAssumption, ClockAssumption, RequestAssumption
  DEF TypeOK, DiskTypeOK, WalkTypeOK, ExecTypeOK, Miss, Walk, walk, Phase, Idle,
      Inside, Holding, Stamps, Stages, NoFall, NoUse
<1>3. ExecTypeOK'
  BY <1>0, DepthAssumption, ClockAssumption DEF TypeOK, DiskTypeOK, WalkTypeOK,
      ExecTypeOK, Miss, Walk, Idle, exec, Stamps
<1>4. ASSUME NEW q \in Runs PROVE Walk(q)'
  BY <1>0, DepthAssumption, RequestAssumption
  DEF TypeOK, DiskTypeOK, WalkTypeOK, ExecTypeOK, Miss, Walk, disk, walk, exec,
      Idle, Inside, Holding, Stages, NoFall
<1>5. ASSUME NEW q \in Runs PROVE Holds(q)'
  BY <1>0, NullAssumption
  DEF TypeOK, DiskTypeOK, WalkTypeOK, ExecTypeOK, Miss, Walk, Holds, LockOwned,
      disk, walk, exec, Idle, Inside, Holding
<1>6. LockOwned'
  BY <1>0, NullAssumption
  DEF TypeOK, DiskTypeOK, WalkTypeOK, ExecTypeOK, Miss, Walk, Holds, LockOwned,
      disk, walk, exec, Idle, Inside, Holding
<1> QED
  BY <1>1, <1>2, <1>3, <1>4, <1>5, <1>6 DEF TypeOK

LEMMA LockInv == ASSUME IndInv, NEW r \in Runs, Lock(r) PROVE IndInv'
<1> USE DEF IndInv
<1>1. DiskTypeOK'
  BY ClockAssumption, RequestAssumption, NullAssumption DEF TypeOK, DiskTypeOK,
      WalkTypeOK, ExecTypeOK, Lock, Stamps, Walk, Inside, Holding, Idle
<1>2. WalkTypeOK'
  BY DepthAssumption, ClockAssumption, RequestAssumption
  DEF TypeOK, DiskTypeOK, WalkTypeOK, ExecTypeOK, Lock, Walk, walk, Phase, Idle,
      Inside, Holding, Stamps, Stages, NoFall, NoUse
<1>3. ExecTypeOK'
  BY DepthAssumption, ClockAssumption DEF TypeOK, DiskTypeOK, WalkTypeOK,
      ExecTypeOK, Lock, Walk, Idle, exec, Stamps
<1>4. ASSUME NEW q \in Runs PROVE Walk(q)'
  BY DepthAssumption, RequestAssumption
  DEF TypeOK, DiskTypeOK, WalkTypeOK, ExecTypeOK, Lock, Walk, disk, walk, exec,
      Idle, Inside, Holding, Stages, NoFall
<1>5. ASSUME NEW q \in Runs PROVE Holds(q)'
  BY NullAssumption
  DEF TypeOK, DiskTypeOK, WalkTypeOK, ExecTypeOK, Lock, Walk, Holds, LockOwned,
      disk, walk, exec, Idle, Inside, Holding
<1>6. LockOwned'
  BY NullAssumption
  DEF TypeOK, DiskTypeOK, WalkTypeOK, ExecTypeOK, Lock, Walk, Holds, LockOwned,
      disk, walk, exec, Idle, Inside, Holding
<1> QED
  BY <1>1, <1>2, <1>3, <1>4, <1>5, <1>6 DEF TypeOK

LEMMA LockBusyInv == ASSUME IndInv, NEW r \in Runs, LockBusy(r) PROVE IndInv'
<1> USE DEF IndInv
<1>1. DiskTypeOK'
  BY DEF TypeOK, DiskTypeOK, LockBusy, disk
<1>2. WalkTypeOK'
  BY DepthAssumption, ClockAssumption, RequestAssumption
  DEF TypeOK, DiskTypeOK, WalkTypeOK, ExecTypeOK, LockBusy, Walk, walk, Phase,
      Idle, Inside, Holding, Stamps, Stages, NoFall, NoUse
<1>3. ExecTypeOK'
  BY DEF TypeOK, ExecTypeOK, LockBusy, exec
<1>4. ASSUME NEW q \in Runs PROVE Walk(q)'
  BY DepthAssumption, RequestAssumption
  DEF TypeOK, DiskTypeOK, WalkTypeOK, ExecTypeOK, LockBusy, Walk, disk, walk,
      exec, Idle, Inside, Holding, Stages, NoFall
<1>5. ASSUME NEW q \in Runs PROVE Holds(q)'
  BY NullAssumption
  DEF TypeOK, DiskTypeOK, WalkTypeOK, ExecTypeOK, LockBusy, Walk, Holds,
      LockOwned, disk, walk, exec, Idle, Inside, Holding
<1>6. LockOwned'
  BY NullAssumption
  DEF TypeOK, DiskTypeOK, WalkTypeOK, ExecTypeOK, LockBusy, Walk, Holds,
      LockOwned, disk, walk, exec, Idle, Inside, Holding
<1> QED
  BY <1>1, <1>2, <1>3, <1>4, <1>5, <1>6 DEF TypeOK

LEMMA BusyHitInv == ASSUME IndInv, NEW r \in Runs, BusyHit(r) PROVE IndInv'
<1> USE DEF IndInv
<1>0. Wanted(r) \in Node /\ Wanted(r).stage = at[r]
  BY WantedInNode DEF BusyHit, Idle
<1>1. DiskTypeOK'
  BY DEF TypeOK, DiskTypeOK, BusyHit, disk
<1>2. WalkTypeOK'
  <2>1. out[Wanted(r)] \in Stamps /\ at[r] \in Stages
    BY <1>0 DEF TypeOK, DiskTypeOK, Walk, BusyHit, Idle
  <2> QED
    BY <1>0, <2>1, AdvanceType DEF TypeOK, BusyHit
<1>3. ExecTypeOK'
  BY <1>0, DepthAssumption, ClockAssumption DEF TypeOK, DiskTypeOK, WalkTypeOK,
      ExecTypeOK, BusyHit, Walk, Idle, exec, Stamps, Advance
<1>4. ASSUME NEW q \in Runs PROVE Walk(q)'
  BY <1>0, DepthAssumption, RequestAssumption
  DEF TypeOK, DiskTypeOK, WalkTypeOK, ExecTypeOK, BusyHit, Walk, disk, walk, exec,
      Idle, Inside, Holding, Stages, NoFall, Advance, Hit, Intact
<1>5. ASSUME NEW q \in Runs PROVE Holds(q)'
  BY <1>0, NullAssumption
  DEF TypeOK, DiskTypeOK, WalkTypeOK, ExecTypeOK, BusyHit, Walk, Holds, LockOwned,
      disk, walk, exec, Idle, Inside, Holding, Advance, Hit, Intact
<1>6. LockOwned'
  BY <1>0, NullAssumption
  DEF TypeOK, DiskTypeOK, WalkTypeOK, ExecTypeOK, BusyHit, Walk, Holds, LockOwned,
      disk, walk, exec, Idle, Inside, Holding, Advance, Hit, Intact
<1> QED
  BY <1>1, <1>2, <1>3, <1>4, <1>5, <1>6 DEF TypeOK

LEMMA BusyFailInv == ASSUME IndInv, NEW r \in Runs, BusyFail(r) PROVE IndInv'
<1> USE DEF IndInv
<1>1. DiskTypeOK'
  BY DEF TypeOK, DiskTypeOK, BusyFail, disk
<1>2. WalkTypeOK'
  BY LeaveType DEF TypeOK, BusyFail
<1>3. ExecTypeOK'
  BY LeaveType DEF TypeOK, BusyFail
<1>4. ASSUME NEW q \in Runs PROVE Walk(q)'
  BY DepthAssumption, RequestAssumption
  DEF TypeOK, DiskTypeOK, WalkTypeOK, ExecTypeOK, BusyFail, Walk, disk, walk,
      exec, Idle, Inside, Holding, Stages, NoFall, Leave, NoRequest
<1>5. ASSUME NEW q \in Runs PROVE Holds(q)'
  BY NullAssumption
  DEF TypeOK, DiskTypeOK, WalkTypeOK, ExecTypeOK, BusyFail, Walk, Holds,
      LockOwned, disk, walk, exec, Idle, Inside, Holding, Leave, NoRequest
<1>6. LockOwned'
  BY NullAssumption
  DEF TypeOK, DiskTypeOK, WalkTypeOK, ExecTypeOK, BusyFail, Walk, Holds,
      LockOwned, disk, walk, exec, Idle, Inside, Holding, Leave, NoRequest
<1> QED
  BY <1>1, <1>2, <1>3, <1>4, <1>5, <1>6 DEF TypeOK

LEMMA PrepareNodeDirInv == ASSUME IndInv, NEW r \in Runs, PrepareNodeDir(r) PROVE IndInv'
<1> USE DEF IndInv
<1>1. DiskTypeOK'
  BY ClockAssumption, RequestAssumption, NullAssumption DEF TypeOK, DiskTypeOK,
      WalkTypeOK, ExecTypeOK, PrepareNodeDir, Stamps, Walk, Inside, Holding, Idle
<1>2. WalkTypeOK'
  BY DepthAssumption, ClockAssumption, RequestAssumption
  DEF TypeOK, DiskTypeOK, WalkTypeOK, ExecTypeOK, PrepareNodeDir, Walk, walk,
      Phase, Idle, Inside, Holding, Stamps, Stages, NoFall, NoUse
<1>3. ExecTypeOK'
  BY DepthAssumption, ClockAssumption DEF TypeOK, DiskTypeOK, WalkTypeOK,
      ExecTypeOK, PrepareNodeDir, Walk, Idle, exec, Stamps
<1>4. ASSUME NEW q \in Runs PROVE Walk(q)'
  BY DepthAssumption, RequestAssumption
  DEF TypeOK, DiskTypeOK, WalkTypeOK, ExecTypeOK, PrepareNodeDir, Walk, disk,
      walk, exec, Idle, Inside, Holding, Stages, NoFall
<1>5. ASSUME NEW q \in Runs PROVE Holds(q)'
  BY NullAssumption
  DEF TypeOK, DiskTypeOK, WalkTypeOK, ExecTypeOK, PrepareNodeDir, Walk, Holds,
      LockOwned, disk, walk, exec, Idle, Inside, Holding
<1>6. LockOwned'
  BY NullAssumption
  DEF TypeOK, DiskTypeOK, WalkTypeOK, ExecTypeOK, PrepareNodeDir, Walk, Holds,
      LockOwned, disk, walk, exec, Idle, Inside, Holding
<1> QED
  BY <1>1, <1>2, <1>3, <1>4, <1>5, <1>6 DEF TypeOK

LEMMA WriteRunningInv == ASSUME IndInv, NEW r \in Runs, WriteRunning(r) PROVE IndInv'
<1> USE DEF IndInv
<1>1. DiskTypeOK'
  BY ClockAssumption, RequestAssumption, NullAssumption DEF TypeOK, DiskTypeOK,
      WalkTypeOK, ExecTypeOK, WriteRunning, Stamps, Walk, Inside, Holding, Idle,
      Record, Manifest, Status, NoRequest
<1>2. WalkTypeOK'
  BY DepthAssumption, ClockAssumption, RequestAssumption
  DEF TypeOK, DiskTypeOK, WalkTypeOK, ExecTypeOK, WriteRunning, Walk, walk, Phase,
      Idle, Inside, Holding, Stamps, Stages, NoFall, NoUse
<1>3. ExecTypeOK'
  BY DepthAssumption, ClockAssumption DEF TypeOK, DiskTypeOK, WalkTypeOK,
      ExecTypeOK, WriteRunning, Walk, Idle, exec, Stamps
<1>4. ASSUME NEW q \in Runs PROVE Walk(q)'
  BY DepthAssumption, RequestAssumption
  DEF TypeOK, DiskTypeOK, WalkTypeOK, ExecTypeOK, WriteRunning, Walk, disk, walk,
      exec, Idle, Inside, Holding, Stages, NoFall, NoRequest
<1>5. ASSUME NEW q \in Runs PROVE Holds(q)'
  BY NullAssumption
  DEF TypeOK, DiskTypeOK, WalkTypeOK, ExecTypeOK, WriteRunning, Walk, Holds,
      LockOwned, disk, walk, exec, Idle, Inside, Holding, NoRequest
<1>6. LockOwned'
  BY NullAssumption
  DEF TypeOK, DiskTypeOK, WalkTypeOK, ExecTypeOK, WriteRunning, Walk, Holds,
      LockOwned, disk, walk, exec, Idle, Inside, Holding, NoRequest
<1> QED
  BY <1>1, <1>2, <1>3, <1>4, <1>5, <1>6 DEF TypeOK

LEMMA ReadInputInv == ASSUME IndInv, NEW r \in Runs, ReadInput(r) PROVE IndInv'
<1> USE DEF IndInv
<1>1. DiskTypeOK'
  BY DEF TypeOK, DiskTypeOK, ReadInput, disk
<1>2. WalkTypeOK'
  BY DepthAssumption, ClockAssumption, RequestAssumption
  DEF TypeOK, DiskTypeOK, WalkTypeOK, ExecTypeOK, ReadInput, Walk, walk, Phase,
      Idle, Inside, Holding, Stamps, Stages, NoFall, NoUse
<1>3. ExecTypeOK'
  <2>1. at[r] \in Stages /\ prev[r] \in Node
    BY DEF Walk, ReadInput, Idle
  <2>2. out[prev[r]] \in Stamps
    BY <2>1 DEF TypeOK, DiskTypeOK
  <2>3. read' \in [Runs -> Stamps \union {Unread}]
    BY <2>2, Resets DEF TypeOK, ExecTypeOK, ReadInput
  <2> QED
    BY <2>3 DEF TypeOK, ExecTypeOK, ReadInput
<1>4. ASSUME NEW q \in Runs PROVE Walk(q)'
  BY DepthAssumption, RequestAssumption
  DEF TypeOK, DiskTypeOK, WalkTypeOK, ExecTypeOK, ReadInput, Walk, disk, walk,
      exec, Idle, Inside, Holding, Stages, NoFall
<1>5. ASSUME NEW q \in Runs PROVE Holds(q)'
  BY NullAssumption
  DEF TypeOK, DiskTypeOK, WalkTypeOK, ExecTypeOK, ReadInput, Walk, Holds,
      LockOwned, disk, walk, exec, Idle, Inside, Holding
<1>6. LockOwned'
  BY NullAssumption
  DEF TypeOK, DiskTypeOK, WalkTypeOK, ExecTypeOK, ReadInput, Walk, Holds,
      LockOwned, disk, walk, exec, Idle, Inside, Holding
<1> QED
  BY <1>1, <1>2, <1>3, <1>4, <1>5, <1>6 DEF TypeOK

LEMMA EngineReturnsInv == ASSUME IndInv, NEW r \in Runs, EngineReturns(r) PROVE IndInv'
<1> USE DEF IndInv
<1>1. DiskTypeOK'
  BY ClockAssumption, RequestAssumption, NullAssumption DEF TypeOK, DiskTypeOK,
      WalkTypeOK, ExecTypeOK, EngineReturns, Stamps, Walk, Inside, Holding, Idle,
      NoRequest, Stages
<1>2. WalkTypeOK'
  BY DepthAssumption, ClockAssumption, RequestAssumption
  DEF TypeOK, DiskTypeOK, WalkTypeOK, ExecTypeOK, EngineReturns, Walk, walk,
      Phase, Idle, Inside, Holding, Stamps, Stages, NoFall, NoUse
<1>3. ExecTypeOK'
  BY DepthAssumption, ClockAssumption DEF TypeOK, DiskTypeOK, WalkTypeOK,
      ExecTypeOK, EngineReturns, Walk, Idle, exec, Stamps
<1>4. ASSUME NEW q \in Runs PROVE Walk(q)'
  BY DepthAssumption, RequestAssumption
  DEF TypeOK, DiskTypeOK, WalkTypeOK, ExecTypeOK, EngineReturns, Walk, disk, walk,
      exec, Idle, Inside, Holding, Stages, NoFall, NoRequest
<1>5. ASSUME NEW q \in Runs PROVE Holds(q)'
  BY NullAssumption
  DEF TypeOK, DiskTypeOK, WalkTypeOK, ExecTypeOK, EngineReturns, Walk, Holds,
      LockOwned, disk, walk, exec, Idle, Inside, Holding, NoRequest
<1>6. LockOwned'
  BY NullAssumption
  DEF TypeOK, DiskTypeOK, WalkTypeOK, ExecTypeOK, EngineReturns, Walk, Holds,
      LockOwned, disk, walk, exec, Idle, Inside, Holding, NoRequest
<1> QED
  BY <1>1, <1>2, <1>3, <1>4, <1>5, <1>6 DEF TypeOK

LEMMA EngineRaisesInv == ASSUME IndInv, NEW r \in Runs, EngineRaises(r) PROVE IndInv'
<1> USE DEF IndInv
<1>1. DiskTypeOK'
  BY DEF TypeOK, DiskTypeOK, EngineRaises, disk
<1>2. WalkTypeOK'
  BY DepthAssumption, ClockAssumption, RequestAssumption
  DEF TypeOK, DiskTypeOK, WalkTypeOK, ExecTypeOK, EngineRaises, Walk, walk, Phase,
      Idle, Inside, Holding, Stamps, Stages, NoFall, NoUse
<1>3. ExecTypeOK'
  BY Resets DEF TypeOK, ExecTypeOK, EngineRaises
<1>4. ASSUME NEW q \in Runs PROVE Walk(q)'
  BY DepthAssumption, RequestAssumption
  DEF TypeOK, DiskTypeOK, WalkTypeOK, ExecTypeOK, EngineRaises, Walk, disk, walk,
      exec, Idle, Inside, Holding, Stages, NoFall
<1>5. ASSUME NEW q \in Runs PROVE Holds(q)'
  BY NullAssumption
  DEF TypeOK, DiskTypeOK, WalkTypeOK, ExecTypeOK, EngineRaises, Walk, Holds,
      LockOwned, disk, walk, exec, Idle, Inside, Holding
<1>6. LockOwned'
  BY NullAssumption
  DEF TypeOK, DiskTypeOK, WalkTypeOK, ExecTypeOK, EngineRaises, Walk, Holds,
      LockOwned, disk, walk, exec, Idle, Inside, Holding
<1> QED
  BY <1>1, <1>2, <1>3, <1>4, <1>5, <1>6 DEF TypeOK

LEMMA WriteRecordInv == ASSUME IndInv, NEW r \in Runs, WriteRecord(r) PROVE IndInv'
<1> USE DEF IndInv
<1>1. DiskTypeOK'
  BY ClockAssumption, RequestAssumption, NullAssumption DEF TypeOK, DiskTypeOK,
      WalkTypeOK, ExecTypeOK, WriteRecord, Stamps, Walk, Inside, Holding, Idle,
      Record, Manifest, Status, NoRequest
<1>2. WalkTypeOK'
  BY DepthAssumption, ClockAssumption, RequestAssumption
  DEF TypeOK, DiskTypeOK, WalkTypeOK, ExecTypeOK, WriteRecord, Walk, walk, Phase,
      Idle, Inside, Holding, Stamps, Stages, NoFall, NoUse
<1>3. ExecTypeOK'
  BY DepthAssumption, ClockAssumption DEF TypeOK, DiskTypeOK, WalkTypeOK,
      ExecTypeOK, WriteRecord, Walk, Idle, exec, Stamps
<1>4. ASSUME NEW q \in Runs PROVE Walk(q)'
  BY DepthAssumption, RequestAssumption
  DEF TypeOK, DiskTypeOK, WalkTypeOK, ExecTypeOK, WriteRecord, Walk, disk, walk,
      exec, Idle, Inside, Holding, Stages, NoFall, NoRequest
<1>5. ASSUME NEW q \in Runs PROVE Holds(q)'
  BY NullAssumption
  DEF TypeOK, DiskTypeOK, WalkTypeOK, ExecTypeOK, WriteRecord, Walk, Holds,
      LockOwned, disk, walk, exec, Idle, Inside, Holding, NoRequest
<1>6. LockOwned'
  BY NullAssumption
  DEF TypeOK, DiskTypeOK, WalkTypeOK, ExecTypeOK, WriteRecord, Walk, Holds,
      LockOwned, disk, walk, exec, Idle, Inside, Holding, NoRequest
<1> QED
  BY <1>1, <1>2, <1>3, <1>4, <1>5, <1>6 DEF TypeOK

LEMMA UnlockOkInv == ASSUME IndInv, NEW r \in Runs, UnlockOk(r) PROVE IndInv'
<1> USE DEF IndInv
<1>1. DiskTypeOK'
  BY ClockAssumption, RequestAssumption, NullAssumption DEF TypeOK, DiskTypeOK,
      WalkTypeOK, ExecTypeOK, UnlockOk, Stamps, Walk, Inside, Holding, Idle,
      Release
<1>2. WalkTypeOK'
  <2>1. at[r] \in Stages /\ node[r] \in Node /\ made[r] \in Stamps
    BY DEF TypeOK, ExecTypeOK, Walk, UnlockOk, Idle, Inside, Holding
  <2> QED
    BY <2>1, AdvanceType DEF TypeOK, UnlockOk
<1>3. ExecTypeOK'
  BY DepthAssumption, ClockAssumption DEF TypeOK, DiskTypeOK, WalkTypeOK,
      ExecTypeOK, UnlockOk, Walk, Idle, exec, Stamps
<1>4. ASSUME NEW q \in Runs PROVE Walk(q)'
  <2>1. at[r] \in Stages /\ node[r] \in Node /\ node[r].stage = at[r]
    BY DEF Walk, UnlockOk, Idle, Inside, Holding
  <2>2. CASE q = r
    <3>1. pc'[r] = (IF at[r] = Depth THEN "ok" ELSE "resolve")
      BY DEF TypeOK, WalkTypeOK, UnlockOk, Advance
    <3>2. at'[r] = at[r] + 1 /\ prev'[r] = node[r]
      BY DEF TypeOK, WalkTypeOK, UnlockOk, Advance
    <3>3. at'[r] - 1 = at[r] /\ at'[r] > 1 /\ (at[r] # Depth => at'[r] \in Stages)
      BY <2>1, <3>2, DepthAssumption DEF Stages
    <3>4. fall'[r] = fall[r]
      BY DEF UnlockOk
    <3>5. pc'[r] # "plan" /\ pc'[r] \notin Inside /\ (pc'[r] \notin Idle => at[r] # Depth)
      BY <3>1 DEF Inside, Holding, Idle
    <3> QED
      BY <2>1, <2>2, <3>2, <3>3, <3>4, <3>5 DEF Walk
  <2>3. CASE q # r
    BY <2>3 DEF TypeOK, WalkTypeOK, ExecTypeOK, Walk, UnlockOk, Advance
  <2> QED
    BY <2>2, <2>3
<1>5. ASSUME NEW q \in Runs PROVE Holds(q)'
  BY NullAssumption
  DEF TypeOK, DiskTypeOK, WalkTypeOK, ExecTypeOK, UnlockOk, Walk, Holds,
      LockOwned, disk, walk, exec, Idle, Inside, Holding, Advance, Release
<1>6. LockOwned'
  BY NullAssumption
  DEF TypeOK, DiskTypeOK, WalkTypeOK, ExecTypeOK, UnlockOk, Walk, Holds,
      LockOwned, disk, walk, exec, Idle, Inside, Holding, Advance, Release
<1> QED
  BY <1>1, <1>2, <1>3, <1>4, <1>5, <1>6 DEF TypeOK

LEMMA UnlockFailedInv == ASSUME IndInv, NEW r \in Runs, UnlockFailed(r) PROVE IndInv'
<1> USE DEF IndInv
<1>1. DiskTypeOK'
  BY ClockAssumption, RequestAssumption, NullAssumption DEF TypeOK, DiskTypeOK,
      WalkTypeOK, ExecTypeOK, UnlockFailed, Stamps, Walk, Inside, Holding, Idle,
      Release
<1>2. WalkTypeOK'
  BY LeaveType DEF TypeOK, UnlockFailed
<1>3. ExecTypeOK'
  BY LeaveType DEF TypeOK, UnlockFailed
<1>4. ASSUME NEW q \in Runs PROVE Walk(q)'
  BY DepthAssumption, RequestAssumption
  DEF TypeOK, DiskTypeOK, WalkTypeOK, ExecTypeOK, UnlockFailed, Walk, disk, walk,
      exec, Idle, Inside, Holding, Stages, NoFall, Leave, NoRequest, Release
<1>5. ASSUME NEW q \in Runs PROVE Holds(q)'
  BY NullAssumption
  DEF TypeOK, DiskTypeOK, WalkTypeOK, ExecTypeOK, UnlockFailed, Walk, Holds,
      LockOwned, disk, walk, exec, Idle, Inside, Holding, Leave, NoRequest,
      Release
<1>6. LockOwned'
  BY NullAssumption
  DEF TypeOK, DiskTypeOK, WalkTypeOK, ExecTypeOK, UnlockFailed, Walk, Holds,
      LockOwned, disk, walk, exec, Idle, Inside, Holding, Leave, NoRequest,
      Release
<1> QED
  BY <1>1, <1>2, <1>3, <1>4, <1>5, <1>6 DEF TypeOK

LEMMA CrashInv == ASSUME IndInv, NEW r \in Runs, Crash(r) PROVE IndInv'
<1> USE DEF IndInv
<1>1. DiskTypeOK'
  <2>1. CASE pc[r] \in Holding
    <3>1. node[r] \in Node
      BY <2>1 DEF Walk, Inside
    <3>2. lock' \in [Node -> Runs \union {Free}]
      BY <2>1, <3>1 DEF TypeOK, DiskTypeOK, Crash, Release
    <3> QED
      BY <3>2 DEF TypeOK, DiskTypeOK, Crash
  <2>2. CASE pc[r] \notin Holding
    BY <2>2 DEF TypeOK, DiskTypeOK, Crash
  <2> QED
    BY <2>1, <2>2
<1>2. WalkTypeOK'
  BY LeaveType DEF TypeOK, Crash
<1>3. ExecTypeOK'
  BY LeaveType DEF TypeOK, Crash
<1>4. ASSUME NEW q \in Runs PROVE Walk(q)'
  BY DepthAssumption, RequestAssumption
  DEF TypeOK, DiskTypeOK, WalkTypeOK, ExecTypeOK, Crash, Walk, disk, walk, exec,
      Idle, Inside, Holding, Stages, NoFall, Leave, NoRequest, Release
<1>5. ASSUME NEW q \in Runs PROVE Holds(q)'
  BY NullAssumption
  DEF TypeOK, DiskTypeOK, WalkTypeOK, ExecTypeOK, Crash, Walk, Holds, LockOwned,
      disk, walk, exec, Idle, Inside, Holding, Leave, NoRequest, Release
<1>6. LockOwned'
  <2> SUFFICES ASSUME NEW n \in Node, lock'[n] # Free
               PROVE  pc'[lock'[n]] \in Holding /\ node'[lock'[n]] = n
    BY DEF LockOwned
  <2>1. lock[n] \in Runs \union {Free}
    BY DEF TypeOK, DiskTypeOK
  <2>2. lock'[n] = lock[n] /\ lock[n] # r
    <3>1. CASE pc[r] \in Holding
      <4>1. node[r] \in Node /\ lock[node[r]] = r
        BY <3>1 DEF Walk, Inside, Holds
      <4>2. lock' = [lock EXCEPT ![node[r]] = Free]
        BY <3>1, <4>1 DEF Crash, Release, TypeOK, DiskTypeOK
      <4> QED
        BY <4>1, <4>2 DEF LockOwned, TypeOK, DiskTypeOK
    <3>2. CASE pc[r] \notin Holding
      BY <3>2 DEF Crash, LockOwned
    <3> QED
      BY <3>1, <3>2
  <2>3. lock[n] \in Runs \ {r} /\ pc[lock[n]] \in Holding /\ node[lock[n]] = n
    BY <2>1, <2>2 DEF LockOwned
  <2> QED
    BY <2>2, <2>3 DEF Crash, Leave, TypeOK, WalkTypeOK, ExecTypeOK
<1> QED
  BY <1>1, <1>2, <1>3, <1>4, <1>5, <1>6 DEF TypeOK

LEMMA NextInv == IndInv /\ [Next]_vars => IndInv'
<1> SUFFICES ASSUME IndInv, [Next]_vars PROVE IndInv'
  OBVIOUS
<1>1. CASE UNCHANGED vars
  BY <1>1 DEF vars, IndInv, TypeOK, DiskTypeOK, WalkTypeOK, ExecTypeOK, Walk, Holds,
     LockOwned
<1>2. ASSUME NEW r \in Runs, Begin(r) \/ Step(r) \/ Crash(r) PROVE IndInv'
  BY <1>2, BeginInv, PlanHitInv, PlanFallbackInv, PlanBlockedInv, StartExecutorInv,
     UseFallbackInv, UseCacheInv, BlockedInv, MissInv, LockInv, LockBusyInv, BusyHitInv,
     BusyFailInv, PrepareNodeDirInv, WriteRunningInv, ReadInputInv, EngineReturnsInv,
     EngineRaisesInv, WriteRecordInv, UnlockOkInv, UnlockFailedInv, CrashInv DEF Step
<1> QED
  BY <1>1, <1>2 DEF Next

LEMMA Invariant == Spec => []IndInv
  BY InitInv, NextInv, PTL DEF Spec

\* TypeOK holds for any number of runs, stages, date sets and executions: in
\* particular the hash rule never leads a run out of its stage's directories.
THEOREM TypeCorrect == Spec => []TypeOK
<1>1. IndInv => TypeOK
  BY DEF IndInv
<1> QED
  BY <1>1, Invariant, PTL

\* The node lock does its work for any number of runs: no two of them are
\* ever inside the same node directory (Executor._execute, node_lock).
THEOREM MutualExclusion == Spec => []OneExecutor
<1>1. IndInv => OneExecutor
  BY DEF IndInv, Holds, OneExecutor
<1> QED
  BY <1>1, Invariant, PTL

\* No lock outlives the execution it was taken for.
THEOREM NoLeakedLock == Spec => []LockOwned
<1>1. IndInv => LockOwned
  BY DEF IndInv
<1> QED
  BY <1>1, Invariant, PTL

-----------------------------------------------------------------------------
\* The four actions that write into a node directory do so inside it.
LEMMA WritersHold ==
    ASSUME IndInv, [Next]_vars, NEW n \in Node, out'[n] # out[n] \/ man'[n] # man[n]
    PROVE  \E r \in Runs : lock[n] = r /\ node[r] = n /\ pc[r] \in Holding
<1>1. PICK r \in Runs : Begin(r) \/ Step(r) \/ Crash(r)
  BY DEF Next, vars
<1>2. PrepareNodeDir(r) \/ WriteRunning(r) \/ EngineReturns(r) \/ WriteRecord(r)
  BY <1>1 DEF Step, Begin, PlanHit, PlanFallback, PlanBlocked, StartExecutor, UseFallback,
     UseCache, Blocked, Miss, Lock, LockBusy, BusyHit, BusyFail, ReadInput, EngineRaises,
     UnlockOk, UnlockFailed, Crash, disk
<1>3. pc[r] \in Holding
  BY <1>2 DEF PrepareNodeDir, WriteRunning, EngineReturns, WriteRecord, Holding
<1>4. node[r] \in Node /\ lock[node[r]] = r
  BY <1>3 DEF IndInv, Walk, Holds, Inside
<1>5. node[r] = n
  BY <1>2, <1>4 DEF IndInv, TypeOK, DiskTypeOK, PrepareNodeDir, WriteRunning,
     EngineReturns, WriteRecord
<1> QED
  BY <1>3, <1>4, <1>5

\* A run that finds a directory busy, blocked or cached leaves it alone.
THEOREM HolderWrites == Spec => OnlyHolderWrites
<1>1. IndInv /\ [Next]_vars =>
        [\A n \in Node :
           out'[n] # out[n] \/ man'[n] # man[n] =>
              \E r \in Runs : lock[n] = r /\ node[r] = n /\ pc[r] \in Holding]_vars
  BY WritersHold
<1> QED
  BY <1>1, Invariant, PTL DEF Spec, OnlyHolderWrites
=============================================================================
