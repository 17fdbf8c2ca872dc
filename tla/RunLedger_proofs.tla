-------------------------- MODULE RunLedger_proofs --------------------------
(***************************************************************************)
(* Proofs that the pipeline's results are coherent, HitReadItsInput and     *)
(* ResultCoherent of RunCache, and that RunCache implements ResultLedger,   *)
(* for any number of runs, stages and date sets.                            *)
(***************************************************************************)
EXTENDS RunLedger, RunCache_proofs

-----------------------------------------------------------------------------
(* Results are coherent.                                                    *)
(*                                                                          *)
(* Every finished execution has a token of its own, so that a token that has *)
(* left its directory never comes back (Gone).  What a run has in hand was  *)
(* produced in the directory it names (InHand, FallGood), its engine has    *)
(* read that or something is wrong with it for good (ReadsInput), what it   *)
(* has made was made from what it has read (Makes), so an ok manifest tells *)
(* the truth (ManTruth), and so does a run that relies on manifests and on  *)
(* what it has made itself (Reports).                                       *)

Engine == {"engine", "record", "unlock"}

\* The token in a directory, and those in its manifest, have been given out;
\* the one in the directory was given out for it.
Tokens(n) ==
    /\ out[n] <= clock /\ man[n].out <= clock /\ man[n].in <= clock
    /\ out[n] # 0 => prov[out[n]].node = n

\* What a run takes from the stage before was produced in the directory it
\* takes it from.
InHand(r) ==
    pc[r] \notin Idle =>
        /\ have[r] <= clock
        /\ at[r] > 1 => have[r] # 0 /\ prov[have[r]].node = prev[r]

FallGood(r) ==
    \A s \in Stages : fall[r][s].tok # 0 =>
        /\ fall[r][s].tok <= clock
        /\ prov[fall[r][s].tok].node = fall[r][s].node

\* An engine has read the artifact in hand, unless that was replaced since.
ReadsInput(r) ==
    /\ pc[r] \notin Engine => read[r] = Unread
    /\ at[r] > 1 => read[r] \in {Unread, have[r]} \/ out[prev[r]] # have[r]

\* A run executes the directory it wants, and what it has made comes from
\* what its engine has read.
Makes(r) ==
    /\ pc[r] \in Inside => node[r] = Wanted(r)
    /\ pc[r] \in {"record", "unlock"} /\ made[r] # 0 =>
         /\ made[r] <= clock
         /\ prov[made[r]].node = node[r]
         /\ prov[made[r]].data = req[r].data
         /\ at[r] > 1 => read[r] # Unread /\ prov[made[r]].read = read[r]

\* An ok manifest says what its outputs were made for and from.
ManTruth(n) ==
    man[n].st = "ok" /\ man[n].out # 0 =>
        /\ man[n].data = prov[man[n].out].data
        /\ n.stage \in DataStages \ Incremental => man[n].data = n.data
        /\ n.stage > 1 /\ ~Linked(n.stage) => man[n].in = n.in
        /\ Current(man[n].in) => prov[man[n].out].read = man[n].in

\* ResultCoherent of stage s.
Report(r, s) ==
    /\ used[r][s] # 0
    /\ used[r][s] <= clock
    /\ prov[used[r][s]].node.stage = s
    /\ fall[r][s].tok = 0 =>
         /\ s \in DataStages => prov[used[r][s]].data = req[r].data
         /\ s > 1 /\ Current(used[r][s - 1]) =>
              prov[used[r][s]].read = used[r][s - 1]

\* A run's report is coherent as far as it has come.
Reports(r) ==
    pc[r] \notin {"idle", "plan"} =>
        /\ \A s \in Stages : s < at[r] => Report(r, s)
        /\ at[r] > 1 => have[r] = used[r][at[r] - 1]
        /\ pc[r] = "ok" => at[r] = Depth + 1

RunData(r) == InHand(r) /\ FallGood(r) /\ ReadsInput(r) /\ Makes(r) /\ Reports(r)

NodeData(n) == Tokens(n) /\ ManTruth(n)

DataInv ==
    /\ IndInv
    /\ \A n \in Node : NodeData(n)
    /\ \A r \in Runs : RunData(r)

-----------------------------------------------------------------------------
\* One step of one run.
Act(r) == Begin(r) \/ Step(r) \/ Crash(r)

\* The four actions that touch the disk or the clock, and the others.
LEMMA DiskActions ==
    ASSUME NEW r \in Runs, Act(r)
    PROVE  \/ PrepareNodeDir(r) \/ WriteRunning(r) \/ EngineReturns(r) \/ WriteRecord(r)
           \/ UNCHANGED <<man, out, clock, prov>>
BY DEF Act, Step, Begin, PlanHit, PlanFallback, PlanBlocked, StartExecutor, UseFallback,
   UseCache, Blocked, Miss, Lock, LockBusy, BusyHit, BusyFail, ReadInput, EngineRaises,
   UnlockOk, UnlockFailed, Crash, disk

LEMMA Numbers ==
    ASSUME TypeOK
    PROVE  /\ clock \in Nat /\ clock <= MaxClock /\ MaxClock \in Nat
           /\ Stamps \subseteq Nat /\ Stages \subseteq Nat /\ Depth \in Nat
           /\ \A t \in Stamps : t # 0 => t \in 1 .. MaxClock
           /\ \A n \in Node : out[n] \in Stamps /\ man[n] \in Manifest
           /\ \A r \in Runs : /\ at[r] \in 1 .. (Depth + 1) /\ have[r] \in Stamps
                              /\ made[r] \in Stamps /\ read[r] \in Stamps \union {Unread}
BY ClockAssumption, DepthAssumption DEF TypeOK, DiskTypeOK, WalkTypeOK, ExecTypeOK,
   Stamps, Stages

\* Inside the engine a run is alone in its directory.
LEMMA AloneInside ==
    ASSUME IndInv, NEW r \in Runs, pc[r] \in Holding
    PROVE  Alone(r)
BY DEF IndInv, Holds, Alone

\* What was made is never made again, and what was said of it stays said.
LEMMA Frozen ==
    ASSUME DataInv, NEW r \in Runs, Act(r)
    PROVE  /\ clock' \in Nat /\ clock <= clock'
           /\ \A t \in Stamps : t # 0 /\ t <= clock => prov'[t] = prov[t]
           /\ \A n \in Node : out'[n] \in {out[n], 0, clock + 1}
<1> USE DEF DataInv, IndInv
<1>1. CASE EngineReturns(r)
  <2>1. clock' = clock + 1
    BY <1>1 DEF EngineReturns
  <2>2. ASSUME NEW t \in Stamps, t # 0, t <= clock PROVE prov'[t] = prov[t]
    <3>1. t \in 1 .. MaxClock /\ t # clock + 1
      BY <2>2, Numbers
    <3> QED
      BY <1>1, <3>1 DEF EngineReturns, TypeOK, DiskTypeOK
  <2>3. \A n \in Node : out'[n] \in {out[n], 0, clock + 1}
    BY <1>1 DEF EngineReturns, TypeOK, DiskTypeOK
  <2> QED
    BY <2>1, <2>2, <2>3, Numbers
<1>2. CASE PrepareNodeDir(r)
  BY <1>2, Numbers DEF PrepareNodeDir, TypeOK, DiskTypeOK
<1>3. CASE ~EngineReturns(r) /\ ~PrepareNodeDir(r)
  <2>1. UNCHANGED <<out, clock, prov>>
    BY <1>3, DiskActions DEF WriteRunning, WriteRecord
  <2> QED
    BY <2>1, Numbers
<1> QED
  BY <1>1, <1>2, <1>3

\* A token that has left its directory does not come back.
LEMMA Gone ==
    ASSUME DataInv, NEW r \in Runs, Act(r), NEW t \in Stamps, t <= clock
    PROVE  /\ \A n \in Node : t # 0 /\ out'[n] = t => out[n] = t
           /\ Current(t)' => Current(t)
<1>1. \A n \in Node : t # 0 /\ out'[n] = t => out[n] = t
  BY Frozen, Numbers DEF DataInv, IndInv
<1>2. t # 0 => prov'[t] = prov[t]
  BY Frozen
<1> QED
  BY <1>1, <1>2 DEF Current

-----------------------------------------------------------------------------
LEMMA TokensInv ==
    ASSUME DataInv, NEW r \in Runs, Act(r), NEW n \in Node
    PROVE  Tokens(n)'
<1> USE DEF DataInv, IndInv
<1>0. /\ clock' \in Nat /\ clock <= clock' /\ Tokens(n) /\ man[n] \in Manifest
      /\ out[n] \in Stamps
  BY Frozen, Numbers DEF NodeData
<1>1. CASE EngineReturns(r) /\ node[r] = n
  <2>1. Alone(r)
    BY <1>1, AloneInside DEF EngineReturns, Holding
  <2>2. clock + 1 \in 1 .. MaxClock
    BY <1>1, Numbers DEF EngineReturns
  <2>3. out'[n] = clock + 1 /\ clock' = clock + 1 /\ prov'[clock + 1].node = n /\ man' = man
    BY <1>1, <2>1, <2>2 DEF EngineReturns, TypeOK, DiskTypeOK
  <2> QED
    BY <1>0, <2>3, Numbers DEF Tokens, Manifest
<1>2. CASE PrepareNodeDir(r) /\ node[r] = n
  <2>1. out'[n] = 0 /\ man' = man
    BY <1>2 DEF PrepareNodeDir, TypeOK, DiskTypeOK
  <2> QED
    BY <1>0, <2>1, Numbers DEF Tokens, Manifest
<1>3. CASE (WriteRunning(r) \/ WriteRecord(r)) /\ node[r] = n
  <2>1. out' = out /\ prov' = prov /\ clock' = clock
    BY <1>3 DEF WriteRunning, WriteRecord
  <2>2. have[r] <= clock
    BY <1>3 DEF RunData, InHand, WriteRunning, WriteRecord, Idle
  <2>3. man'[n].in = have[r] /\ man'[n].out \in {0, made[r]}
    BY <1>3 DEF WriteRunning, WriteRecord, Record, TypeOK, DiskTypeOK
  <2>4. man'[n].out <= clock
    <3>1. CASE WriteRunning(r)
      <4>1. man'[n].out = 0
        BY <1>3, <3>1 DEF WriteRunning, Record, TypeOK, DiskTypeOK
      <4> QED
        BY <4>1, Numbers
    <3>2. CASE WriteRecord(r)
      <4>1. made[r] # 0 => made[r] <= clock
        BY <3>2 DEF WriteRecord, RunData, Makes
      <4> QED
        BY <2>3, <4>1, Numbers
    <3> QED
      BY <1>3, <3>1, <3>2
  <2> QED
    BY <1>0, <2>1, <2>2, <2>3, <2>4 DEF Tokens
<1>4. CASE out'[n] = out[n] /\ man'[n] = man[n]
  <2>1. out[n] # 0 => prov'[out[n]] = prov[out[n]]
    BY <1>0, Frozen DEF Tokens
  <2> QED
    BY <1>0, <1>4, <2>1, Numbers DEF Tokens, Manifest
<1>5. (out'[n] = out[n] /\ man'[n] = man[n]) \/ node[r] = n
  BY DiskActions DEF TypeOK, DiskTypeOK, PrepareNodeDir, WriteRunning, EngineReturns,
     WriteRecord
<1>6. UNCHANGED <<man, out, clock, prov>> => out'[n] = out[n] /\ man'[n] = man[n]
  OBVIOUS
<1> QED
  BY <1>1, <1>2, <1>3, <1>4, <1>5, <1>6, DiskActions

\* An ok manifest is written by a run that has read what the manifest names,
\* unless that is gone; and it stays true because nothing gone comes back.
LEMMA ManTruthInv ==
    ASSUME DataInv, NEW r \in Runs, Act(r), NEW n \in Node
    PROVE  ManTruth(n)'
<1> USE DEF DataInv, IndInv
<1>0. man[n] \in Manifest /\ man[n].in \in Stamps /\ man[n].in <= clock
       /\ man[n].out \in Stamps /\ man[n].out <= clock
  BY Numbers DEF NodeData, Tokens, Manifest
<1>1. CASE man'[n] = man[n]
  <2>1. man[n].out # 0 => prov'[man[n].out] = prov[man[n].out]
    BY <1>0, Frozen
  <2>2. Current(man[n].in)' => Current(man[n].in)
    <3>1. man[n].in # 0 => prov'[man[n].in] = prov[man[n].in]
      BY <1>0, Frozen
    <3>2. \A m \in Node : man[n].in # 0 /\ out'[m] = man[n].in => out[m] = man[n].in
      BY <1>0, Gone
    <3> QED
      BY <1>1, <3>1, <3>2 DEF Current
  <2> QED
    BY <1>1, <2>1, <2>2 DEF NodeData, ManTruth, Current
<1>2. CASE WriteRecord(r) /\ node[r] = n /\ made[r] # 0
  <2>1. UNCHANGED <<out, prov, clock>>
        /\ man'[n] = [st |-> "ok", out |-> made[r], in |-> have[r],
                      data |-> req[r].data, at |-> made[r]]
    BY <1>2 DEF WriteRecord, Record, TypeOK, DiskTypeOK
  <2>2. n = Wanted(r) /\ n.stage = at[r] /\ prov[made[r]].data = req[r].data
    BY <1>2 DEF WriteRecord, RunData, Makes, Walk, Inside, Holding, Idle
  <2>3. at[r] > 1 /\ ~Linked(at[r]) => n.in = have[r]
    BY <2>2 DEF Wanted, Key
  <2>4. at[r] \in DataStages \ Incremental => n.data = req[r].data
    BY <2>2 DEF Wanted, Key
  <2>5. ASSUME Current(have[r]) PROVE prov[made[r]].read = have[r]
    <3>1. at[r] \in Stages /\ (at[r] = 1 => have[r] = 0)
      BY <1>2 DEF WriteRecord, Walk, Idle
    <3>2. at[r] > 1
      BY <2>5, <3>1, Numbers DEF Current, Stages
    <3>3. prov[have[r]].node = prev[r]
      BY <1>2, <3>2 DEF WriteRecord, RunData, InHand, Idle
    <3>4. out[prev[r]] = have[r]
      BY <2>5, <3>3 DEF Current
    <3>5. read[r] # Unread /\ prov[made[r]].read = read[r]
      BY <1>2, <3>2 DEF WriteRecord, RunData, Makes
    <3> QED
      BY <3>2, <3>4, <3>5 DEF RunData, ReadsInput
  <2> QED
    BY <2>1, <2>2, <2>3, <2>4, <2>5 DEF ManTruth, Current
<1>3. CASE WriteRunning(r) \/ (WriteRecord(r) /\ made[r] = 0)
  BY <1>1, <1>3 DEF ManTruth, WriteRunning, WriteRecord, Record, TypeOK, DiskTypeOK
<1>4. CASE WriteRecord(r) /\ node[r] # n
  BY <1>1, <1>4 DEF WriteRecord, TypeOK, DiskTypeOK
<1>5. CASE ~WriteRunning(r) /\ ~WriteRecord(r)
  BY <1>1, <1>5, DiskActions DEF PrepareNodeDir, EngineReturns
<1> QED
  BY <1>2, <1>3, <1>4, <1>5

-----------------------------------------------------------------------------
\* What a run keeps from one state to the next.
Kept(r) ==
    /\ at'[r] = at[r] /\ prev'[r] = prev[r] /\ have'[r] = have[r]
    /\ req'[r] = req[r] /\ fall'[r] = fall[r] /\ used'[r] = used[r]

InHandKept(r) == have'[r] = have[r] /\ at'[r] = at[r] /\ prev'[r] = prev[r]

LEMMA InHandFrame ==
    ASSUME DataInv, NEW r \in Runs, Act(r), NEW q \in Runs, InHandKept(q),
           pc[q] \notin Idle
    PROVE  InHand(q)'
<1> USE DEF DataInv, IndInv
<1>1. have[q] \in Stamps /\ have[q] <= clock /\ have'[q] <= clock'
  BY Numbers, Frozen DEF RunData, InHand, InHandKept
<1>2. have[q] # 0 => prov'[have[q]] = prov[have[q]]
  BY <1>1, Frozen
<1> QED
  BY <1>1, <1>2 DEF RunData, InHand, InHandKept

LEMMA FallFrame ==
    ASSUME DataInv, NEW r \in Runs, Act(r), NEW q \in Runs, fall'[q] = fall[q]
    PROVE  FallGood(q)'
<1> USE DEF DataInv, IndInv
<1> SUFFICES ASSUME NEW s \in Stages, fall[q][s].tok # 0
             PROVE  /\ fall[q][s].tok <= clock'
                    /\ prov'[fall[q][s].tok].node = fall[q][s].node
  BY DEF FallGood
<1>1. fall[q][s].tok \in Stamps /\ fall[q][s].tok <= clock
       /\ prov[fall[q][s].tok].node = fall[q][s].node
  BY DEF RunData, FallGood, TypeOK, WalkTypeOK
<1> QED
  BY <1>1, Frozen, Numbers

LEMMA ReadsFrame ==
    ASSUME DataInv, NEW r \in Runs, Act(r), NEW q \in Runs, InHandKept(q),
           read'[q] = read[q], pc[q] \notin Idle,
           pc'[q] \notin Engine => read[q] = Unread
    PROVE  ReadsInput(q)'
<1> USE DEF DataInv, IndInv
<1>1. ASSUME at[q] > 1, read[q] \notin {Unread, have[q]}
      PROVE  out'[prev[q]] # have[q]
  <2>1. out[prev[q]] # have[q] /\ have[q] # 0 /\ have[q] \in Stamps /\ have[q] <= clock
    BY <1>1, Numbers DEF RunData, ReadsInput, InHand
  <2>2. prev[q] \in Node
    BY <1>1 DEF Walk
  <2> QED
    BY <2>1, <2>2, Gone
<1> QED
  BY <1>1 DEF ReadsInput, InHandKept

LEMMA MakesFrame ==
    ASSUME DataInv, NEW r \in Runs, Act(r), NEW q \in Runs, Kept(q),
           read'[q] = read[q], made'[q] = made[q], node'[q] = node[q],
           pc'[q] \in Inside => pc[q] \in Inside,
           pc'[q] \in {"record", "unlock"} => pc[q] \in {"record", "unlock"}
    PROVE  Makes(q)'
<1> USE DEF DataInv, IndInv
<1>1. Wanted(q)' = Wanted(q)
  BY DEF Wanted, Kept
<1>2. ASSUME pc[q] \in {"record", "unlock"}, made[q] # 0
      PROVE  made[q] <= clock' /\ prov'[made[q]] = prov[made[q]]
  BY <1>2, Numbers, Frozen DEF RunData, Makes
<1> QED
  BY <1>1, <1>2 DEF RunData, Makes, Kept

\* What a run reports stays coherent, whatever happens to the disk.
LEMMA ReportFrame ==
    ASSUME DataInv, NEW r \in Runs, Act(r), NEW q \in Runs, NEW s \in Stages,
           s > 1 => used[q][s - 1] # 0 /\ used[q][s - 1] <= clock,
           Report(q, s), used'[q][s] = used[q][s],
           s > 1 => used'[q][s - 1] = used[q][s - 1],
           fall'[q] = fall[q], req'[q] = req[q]
    PROVE  Report(q, s)'
<1> USE DEF DataInv, IndInv
<1>0. s > 1 => s - 1 \in Stages
  BY Numbers DEF Stages
<1>1. used[q][s] \in Stamps /\ (s > 1 => used[q][s - 1] \in Stamps)
  BY <1>0 DEF TypeOK, WalkTypeOK
<1>2. prov'[used[q][s]] = prov[used[q][s]] /\ used[q][s] <= clock'
  BY <1>1, Frozen, Numbers DEF Report
<1>3. s > 1 => prov'[used[q][s - 1]] = prov[used[q][s - 1]]
  BY <1>1, Frozen
<1>4. \A m \in Node : s > 1 /\ out'[m] = used[q][s - 1] => out[m] = used[q][s - 1]
  BY <1>1, Gone
<1> QED
  BY <1>2, <1>3, <1>4 DEF Report, Current

LEMMA ReportsFrame ==
    ASSUME DataInv, NEW r \in Runs, Act(r), NEW q \in Runs, Kept(q),
           pc[q] \notin {"idle", "plan"}, pc'[q] = "ok" => pc[q] = "ok"
    PROVE  Reports(q)'
<1> USE DEF DataInv, IndInv
<1>1. ASSUME NEW s \in Stages, s < at[q] PROVE Report(q, s)'
  <2>1. Report(q, s)
    BY <1>1 DEF RunData, Reports
  <2>2. s > 1 => s - 1 \in Stages /\ s - 1 < at[q]
    BY <1>1, Numbers DEF Stages
  <2>3. s > 1 => Report(q, s - 1)
    BY <2>2 DEF RunData, Reports
  <2> QED
    BY <2>1, <2>3, ReportFrame DEF Kept, Report
<1> QED
  BY <1>1 DEF RunData, Reports, Kept

-----------------------------------------------------------------------------
\* A step of one run leaves the others where they are.
LEMMA Untouched ==
    ASSUME TypeOK, NEW r \in Runs, Act(r), NEW q \in Runs, q # r
    PROVE  /\ Kept(q) /\ pc'[q] = pc[q] /\ read'[q] = read[q]
           /\ made'[q] = made[q] /\ node'[q] = node[q]
<1> USE DEF TypeOK, WalkTypeOK, ExecTypeOK, Kept, disk, walk, exec
<1>1. CASE Begin(r) \/ PlanHit(r) \/ PlanFallback(r) \/ StartExecutor(r)
  BY <1>1 DEF Begin, PlanHit, PlanFallback, StartExecutor
<1>2. CASE PlanBlocked(r) \/ Blocked(r) \/ BusyFail(r) \/ UnlockFailed(r) \/ Crash(r)
  BY <1>2 DEF PlanBlocked, Blocked, BusyFail, UnlockFailed, Crash, Leave
<1>3. CASE UseFallback(r) \/ UseCache(r) \/ BusyHit(r) \/ UnlockOk(r)
  BY <1>3 DEF UseFallback, UseCache, BusyHit, UnlockOk, Advance
<1>4. CASE Miss(r) \/ Lock(r) \/ LockBusy(r) \/ PrepareNodeDir(r) \/ WriteRunning(r)
  BY <1>4 DEF Miss, Lock, LockBusy, PrepareNodeDir, WriteRunning
<1>5. CASE ReadInput(r) \/ EngineReturns(r) \/ EngineRaises(r) \/ WriteRecord(r)
  BY <1>5 DEF ReadInput, EngineReturns, EngineRaises, WriteRecord
<1> QED
  BY <1>1, <1>2, <1>3, <1>4, <1>5 DEF Act, Step

LEMMA OtherRun ==
    ASSUME DataInv, NEW r \in Runs, Act(r), NEW q \in Runs, q # r
    PROVE  RunData(q)'
<1>0. /\ Kept(q) /\ pc'[q] = pc[q] /\ read'[q] = read[q]
      /\ made'[q] = made[q] /\ node'[q] = node[q]
  BY Untouched DEF DataInv, IndInv
<1>1. InHand(q)'
  BY <1>0, InHandFrame DEF Kept, InHandKept, InHand
<1>2. FallGood(q)'
  BY <1>0, FallFrame DEF Kept
<1>3. ReadsInput(q)'
  <2>1. CASE pc[q] \in Idle
    BY <1>0, <2>1 DEF DataInv, RunData, ReadsInput, Idle, Engine
  <2>2. CASE pc[q] \notin Idle
    BY <1>0, <2>2, ReadsFrame DEF Kept, InHandKept, DataInv, RunData, ReadsInput
  <2> QED
    BY <2>1, <2>2
<1>4. Makes(q)'
  BY <1>0, MakesFrame
<1>5. Reports(q)'
  BY <1>0, ReportsFrame DEF Reports
<1> QED
  BY <1>1, <1>2, <1>3, <1>4, <1>5 DEF RunData

LEMMA LeaveData ==
    ASSUME TypeOK, NEW r \in Runs, Leave(r)
    PROVE  RunData(r)'
<1>1. /\ pc'[r] = "idle" /\ read'[r] = Unread /\ fall'[r] = NoFall
  BY DEF TypeOK, WalkTypeOK, ExecTypeOK, Leave
<1>2. InHand(r)' /\ Makes(r)' /\ Reports(r)'
  BY <1>1 DEF InHand, Makes, Reports, Idle, Inside, Holding
<1>3. FallGood(r)'
  BY <1>1 DEF FallGood, NoFall
<1>4. ReadsInput(r)'
  BY <1>1 DEF ReadsInput
<1> QED
  BY <1>2, <1>3, <1>4 DEF RunData

\* A stage is served by a token of its own directory that keeps the report
\* coherent.
LEMMA AdvanceData ==
    ASSUME DataInv, NEW r \in Runs, Act(r), NEW n \in Node, NEW t \in Stamps,
           at[r] \in Stages, pc[r] \notin Idle \union {"plan"},
           Advance(r, n, t), UNCHANGED <<req, fall>>, read'[r] = Unread,
           t # 0, t <= clock, prov[t].node = n, n.stage = at[r],
           fall[r][at[r]].tok = 0 =>
             /\ at[r] \in DataStages => prov[t].data = req[r].data
             /\ Current(have[r]) => prov[t].read = have[r]
    PROVE  RunData(r)'
<1> USE DEF DataInv, IndInv
<1>0. /\ at'[r] = at[r] + 1 /\ prev'[r] = n /\ have'[r] = t
      /\ used'[r] = [used[r] EXCEPT ![at[r]] = t]
      /\ pc'[r] = (IF at[r] = Depth THEN "ok" ELSE "resolve")
      /\ used[r] \in [Stages -> Stamps]
  BY DEF Advance, TypeOK, WalkTypeOK
<1>1. prov'[t] = prov[t] /\ t <= clock'
  BY Frozen, Numbers
<1>2. InHand(r)'
  BY <1>0, <1>1 DEF InHand
<1>3. FallGood(r)'
  BY FallFrame
<1>4. ReadsInput(r)'
  BY DEF ReadsInput
<1>5. Makes(r)'
  BY <1>0 DEF Makes, Inside, Holding
<1>6. ASSUME NEW s \in Stages, s < at'[r] PROVE Report(r, s)'
  <2>1. CASE s < at[r]
    <3>1. Report(r, s) /\ (s > 1 => s - 1 \in Stages /\ s - 1 < at[r])
      BY <2>1, Numbers DEF RunData, Reports, Idle, Stages
    <3>2. s > 1 => Report(r, s - 1)
      BY <3>1 DEF RunData, Reports, Idle
    <3>3. used'[r][s] = used[r][s] /\ (s > 1 => used'[r][s - 1] = used[r][s - 1])
      BY <1>0, <2>1, <3>1, Numbers
    <3> QED
      BY <3>1, <3>2, <3>3, ReportFrame DEF Report
  <2>2. CASE s = at[r]
    <3>1. used'[r][s] = t
      BY <1>0, <2>2
    <3>2. s > 1 => /\ used'[r][s - 1] = have[r] /\ have[r] \in Stamps
                   /\ have[r] <= clock /\ have[r] # 0
      <4>1. s > 1 => s - 1 \in Stages /\ s - 1 # s
        BY Numbers DEF Stages
      <4>2. s > 1 => have[r] = used[r][s - 1] /\ have[r] \in Stamps
                     /\ have[r] <= clock /\ have[r] # 0
        BY <2>2, Numbers DEF RunData, Reports, InHand, Idle
      <4> QED
        BY <1>0, <2>2, <4>1, <4>2
    <3>3. s > 1 => prov'[have[r]] = prov[have[r]]
                   /\ \A m \in Node : out'[m] = have[r] => out[m] = have[r]
      BY <3>2, Frozen, Gone
    <3> QED
      BY <1>1, <2>2, <3>1, <3>2, <3>3 DEF Report, Current
  <2>3. s < at[r] \/ s = at[r]
    BY <1>0, <1>6, Numbers
  <2> QED
    BY <2>1, <2>2, <2>3
<1>7. Reports(r)'
  <2>1. at'[r] > 1 /\ at'[r] - 1 = at[r] /\ have'[r] = used'[r][at[r]]
    BY <1>0, Numbers DEF Stages
  <2> QED
    BY <1>0, <1>6, <2>1, Numbers DEF Reports
<1> QED
  BY <1>2, <1>3, <1>4, <1>5, <1>7 DEF RunData

-----------------------------------------------------------------------------
\* A lookup that hits finds a result for the run's date set, made from the
\* artifact the run has in hand.
LEMMA HitData ==
    ASSUME DataInv, NEW r \in Runs, pc[r] \notin Idle, Hit(r)
    PROVE  /\ Wanted(r) \in Node /\ Wanted(r).stage = at[r]
           /\ out[Wanted(r)] \in Stamps /\ out[Wanted(r)] # 0 /\ out[Wanted(r)] <= clock
           /\ prov[out[Wanted(r)]].node = Wanted(r)
           /\ at[r] \in DataStages => prov[out[Wanted(r)]].data = req[r].data
           /\ Current(have[r]) => prov[out[Wanted(r)]].read = have[r]
<1> DEFINE n == Wanted(r)
<1>1. n \in Node /\ n.stage = at[r]
  BY WantedInNode DEF DataInv
<1>2. Tokens(n) /\ ManTruth(n) /\ out[n] \in Stamps
  BY <1>1, Numbers DEF DataInv, NodeData, IndInv
<1>3. man[n].st = "ok" /\ man[n].out # 0 /\ out[n] = man[n].out
  BY DEF Hit, Intact
<1>4. Fresh(n, req[r].data, have[r])
  BY DEF Hit
<1>5. ASSUME at[r] \in DataStages PROVE prov[out[n]].data = req[r].data
  <2>1. CASE at[r] \in Incremental
    BY <1>1, <1>2, <1>3, <1>4, <1>5, <2>1 DEF Fresh, ManTruth
  <2>2. CASE at[r] \notin Incremental
    <3>1. n.data = req[r].data
      BY <1>5, <2>2 DEF Wanted, Key
    <3> QED
      BY <1>1, <1>2, <1>3, <1>5, <2>2, <3>1 DEF ManTruth
  <2> QED
    BY <2>1, <2>2
<1>6. ASSUME Current(have[r]) PROVE prov[out[n]].read = have[r]
  <2>1. at[r] > 1
    <3>1. at[r] \in Stages /\ (at[r] = 1 => have[r] = 0)
      BY DEF DataInv, IndInv, Walk
    <3> QED
      BY <1>6, <3>1, DepthAssumption DEF Current, Stages
  <2>2. man[n].in = have[r]
    <3>1. CASE at[r] \in Incremental
      BY <1>1, <1>4, <3>1 DEF Fresh
    <3>2. CASE at[r] \notin Incremental
      <4>1. ~Linked(at[r])
        BY <3>2 DEF Linked
      <4>2. n.in = have[r]
        BY <4>1 DEF Wanted, Key
      <4> QED
        BY <1>1, <1>2, <1>3, <2>1, <4>1, <4>2 DEF ManTruth
    <3> QED
      BY <3>1, <3>2
  <2> QED
    BY <1>2, <1>3, <1>6, <2>2 DEF ManTruth
<1> QED
  BY <1>1, <1>2, <1>3, <1>5, <1>6 DEF Tokens

LEMMA BeginData ==
    ASSUME DataInv, NEW r \in Runs, Begin(r)
    PROVE  RunData(r)'
<1>1. /\ pc'[r] = "plan" /\ at'[r] = 1 /\ have'[r] = 0 /\ fall'[r] = NoFall
      /\ read'[r] = read[r] /\ clock' = clock
  BY DEF DataInv, IndInv, TypeOK, WalkTypeOK, Begin, exec, disk
<1>2. InHand(r)' /\ Makes(r)' /\ Reports(r)'
  BY <1>1, Numbers DEF DataInv, IndInv, InHand, Makes, Reports, Inside, Holding
<1>3. FallGood(r)'
  BY <1>1 DEF FallGood, NoFall
<1>4. ReadsInput(r)'
  BY <1>1 DEF DataInv, RunData, ReadsInput, Begin, Idle, Engine
<1> QED
  BY <1>2, <1>3, <1>4 DEF RunData

\* While it plans, a run takes what it has in hand from a directory.
LEMMA PlanData ==
    ASSUME DataInv, NEW r \in Runs, pc[r] = "plan", NEW n \in Node, NEW t \in Stamps,
           at[r] \in Stages, t # 0, t <= clock, prov[t].node = n, n.stage = at[r],
           at' = [at EXCEPT ![r] = @ + 1], prev' = [prev EXCEPT ![r] = n],
           have' = [have EXCEPT ![r] = t],
           fall' \in {fall, [fall EXCEPT ![r] = [@ EXCEPT ![at[r]] =
                                                   [node |-> n, tok |-> t]]]},
           UNCHANGED <<disk, exec, pc, req, used>>
    PROVE  RunData(r)'
<1> USE DEF DataInv, IndInv
<1>1. /\ at'[r] = at[r] + 1 /\ prev'[r] = n /\ have'[r] = t /\ pc'[r] = "plan"
      /\ UNCHANGED <<clock, prov, read>>
  BY DEF TypeOK, WalkTypeOK, disk, exec
<1>2. InHand(r)' /\ Makes(r)' /\ Reports(r)'
  BY <1>1 DEF InHand, Makes, Reports, Inside, Holding
<1>3. FallGood(r)'
  <2> SUFFICES ASSUME NEW s \in Stages, fall'[r][s].tok # 0
               PROVE  /\ fall'[r][s].tok <= clock
                      /\ prov[fall'[r][s].tok].node = fall'[r][s].node
    BY <1>1 DEF FallGood
  <2>1. fall[r] \in [Stages -> [node : Node \union {NoNode}, tok : Stamps]]
    BY DEF TypeOK, WalkTypeOK
  <2>2. fall'[r][s] \in {fall[r][s], [node |-> n, tok |-> t]}
    BY <2>1 DEF TypeOK, WalkTypeOK
  <2> QED
    BY <2>2 DEF RunData, FallGood
<1>4. ReadsInput(r)'
  BY <1>1 DEF RunData, ReadsInput, Engine
<1> QED
  BY <1>2, <1>3, <1>4 DEF RunData

LEMMA PlanStepData ==
    ASSUME DataInv, NEW r \in Runs, PlanHit(r) \/ PlanFallback(r)
    PROVE  RunData(r)'
<1>1. pc[r] = "plan" /\ at[r] \in Stages
  BY DEF DataInv, IndInv, Walk, PlanHit, PlanFallback, Idle
<1>2. CASE PlanHit(r)
  BY <1>1, <1>2, HitData, PlanData DEF PlanHit, Idle
<1>3. CASE PlanFallback(r)
  <2>1. PICK n \in Latest(at[r]) :
          /\ at' = [at EXCEPT ![r] = @ + 1]
          /\ prev' = [prev EXCEPT ![r] = n]
          /\ have' = [have EXCEPT ![r] = out[n]]
          /\ fall' = [fall EXCEPT
                        ![r] = [@ EXCEPT ![at[r]] = [node |-> n, tok |-> out[n]]]]
    BY <1>3 DEF PlanFallback
  <2>2. n \in Node /\ n.stage = at[r] /\ out[n] # 0
    BY DEF Latest, Intact
  <2>3. out[n] \in Stamps /\ out[n] <= clock /\ prov[out[n]].node = n
    BY <2>2, Numbers DEF DataInv, IndInv, NodeData, Tokens
  <2>4. UNCHANGED <<disk, exec, pc, req, used>>
    BY <1>3 DEF PlanFallback
  <2> QED
    BY <1>1, <2>1, <2>2, <2>3, <2>4, PlanData
<1> QED
  BY <1>2, <1>3

LEMMA StartExecutorData ==
    ASSUME DataInv, NEW r \in Runs, StartExecutor(r)
    PROVE  RunData(r)'
<1>1. /\ pc'[r] = "resolve" /\ at'[r] = 1 /\ have'[r] = 0
      /\ UNCHANGED <<clock, prov, read, fall>>
  BY DEF DataInv, IndInv, TypeOK, WalkTypeOK, StartExecutor, disk, exec
<1>2. InHand(r)' /\ Makes(r)' /\ Reports(r)'
  BY <1>1, Numbers DEF DataInv, IndInv, InHand, Makes, Reports, Inside, Holding, Stages
<1>3. FallGood(r)'
  BY <1>1 DEF DataInv, RunData, FallGood
<1>4. ReadsInput(r)'
  BY <1>1 DEF DataInv, RunData, ReadsInput, StartExecutor, Engine
<1> QED
  BY <1>2, <1>3, <1>4 DEF RunData

LEMMA AdvanceStepData ==
    ASSUME DataInv, NEW r \in Runs,
           UseFallback(r) \/ UseCache(r) \/ BusyHit(r) \/ UnlockOk(r)
    PROVE  RunData(r)'
<1> USE DEF DataInv, IndInv
<1>0. Act(r) /\ pc[r] \notin Idle \union {"plan"} /\ at[r] \in Stages
  BY DEF Act, Step, Walk, UseFallback, UseCache, BusyHit, UnlockOk, Idle
<1>1. CASE UseFallback(r)
  <2> DEFINE n == fall[r][at[r]].node
             t == fall[r][at[r]].tok
  <2>1. t # 0 /\ t \in Stamps /\ t <= clock /\ prov[t].node = n
    BY <1>0, <1>1 DEF UseFallback, FallbackAt, RunData, FallGood, TypeOK, WalkTypeOK
  <2>2. n \in Node /\ n.stage = at[r]
    BY <1>0, <2>1 DEF Walk
  <2>3. read'[r] = Unread
    BY <1>1 DEF UseFallback, exec, RunData, ReadsInput, Engine
  <2> QED
    BY <1>0, <1>1, <2>1, <2>2, <2>3, AdvanceData DEF UseFallback
<1>2. CASE UseCache(r) \/ BusyHit(r)
  <2>1. Hit(r) /\ Advance(r, Wanted(r), out[Wanted(r)]) /\ UNCHANGED <<req, fall>>
    BY <1>2 DEF UseCache, BusyHit
  <2>2. read'[r] = Unread
    BY <1>2 DEF UseCache, BusyHit, exec, RunData, ReadsInput, Engine
  <2> QED
    BY <1>0, <2>1, <2>2, HitData, AdvanceData
<1>3. CASE UnlockOk(r)
  <2>1. node[r] \in Node /\ node[r].stage = at[r]
    BY <1>3 DEF Walk, UnlockOk, Inside, Holding
  <2>2. /\ made[r] # 0 /\ made[r] \in Stamps /\ made[r] <= clock
        /\ prov[made[r]].node = node[r] /\ prov[made[r]].data = req[r].data
    BY <1>3, Numbers DEF UnlockOk, RunData, Makes
  <2>3. ASSUME Current(have[r]) PROVE prov[made[r]].read = have[r]
    <3>1. at[r] > 1
      BY <1>0, <1>3, <2>3, DepthAssumption DEF Walk, UnlockOk, Idle, Current, Stages
    <3>2. out[prev[r]] = have[r]
      BY <1>0, <2>3, <3>1 DEF RunData, InHand, Current
    <3>3. read[r] # Unread /\ prov[made[r]].read = read[r]
      BY <1>3, <3>1 DEF UnlockOk, RunData, Makes
    <3> QED
      BY <3>1, <3>2, <3>3 DEF RunData, ReadsInput
  <2>4. read'[r] = Unread
    BY <1>3 DEF UnlockOk, TypeOK, ExecTypeOK
  <2> QED
    BY <1>0, <1>3, <2>1, <2>2, <2>3, <2>4, AdvanceData DEF UnlockOk
<1> QED
  BY <1>1, <1>2, <1>3

\* Steps that change nothing but a run's phase and the disk.
LEMMA PhaseStepData ==
    ASSUME DataInv, NEW r \in Runs,
           Lock(r) \/ LockBusy(r) \/ PrepareNodeDir(r) \/ WriteRunning(r) \/ WriteRecord(r)
    PROVE  RunData(r)'
<1> USE DEF DataInv, IndInv
<1>1. /\ Act(r) /\ Kept(r) /\ read'[r] = read[r] /\ made'[r] = made[r]
      /\ node'[r] = node[r]
  BY DEF Act, Step, Kept, Lock, LockBusy, PrepareNodeDir, WriteRunning, WriteRecord,
     walk, exec
<1>2. /\ pc[r] \in Inside /\ pc[r] \notin Idle \union {"plan"}
      /\ pc'[r] \in Inside /\ pc'[r] \notin Idle \union {"plan"}
      /\ pc'[r] \in {"record", "unlock"} => pc[r] = "record"
      /\ pc'[r] \in Engine \/ pc[r] \notin Engine
  BY DEF Lock, LockBusy, PrepareNodeDir, WriteRunning, WriteRecord, Inside, Holding,
     Idle, Engine, TypeOK, WalkTypeOK
<1>3. InHand(r)'
  BY <1>1, <1>2, InHandFrame DEF Kept, InHandKept
<1>4. FallGood(r)'
  BY <1>1, FallFrame DEF Kept
<1>5. ReadsInput(r)'
  BY <1>1, <1>2, ReadsFrame DEF Kept, InHandKept, RunData, ReadsInput
<1>6. Makes(r)'
  BY <1>1, <1>2, MakesFrame
<1>7. Reports(r)'
  BY <1>1, <1>2, ReportsFrame DEF Idle
<1> QED
  BY <1>3, <1>4, <1>5, <1>6, <1>7 DEF RunData

\* Steps that change what a run executes, has read or has made, and not
\* where it is.
LEMMA ExecStepData ==
    ASSUME DataInv, NEW r \in Runs,
           Miss(r) \/ ReadInput(r) \/ EngineReturns(r) \/ EngineRaises(r)
    PROVE  RunData(r)'
<1> USE DEF DataInv, IndInv
<1>1. Act(r) /\ Kept(r) /\ Wanted(r)' = Wanted(r)
  BY DEF Act, Step, Kept, Miss, ReadInput, EngineReturns, EngineRaises, walk, Wanted
<1>2. /\ pc[r] \notin Idle \union {"plan"}
      /\ pc'[r] \notin Idle \union {"plan"}
  BY DEF Miss, ReadInput, EngineReturns, EngineRaises, Idle, TypeOK, WalkTypeOK
<1>3. InHand(r)'
  BY <1>1, <1>2, InHandFrame DEF Kept, InHandKept
<1>4. FallGood(r)'
  BY <1>1, FallFrame DEF Kept
<1>5. Reports(r)'
  BY <1>1, <1>2, ReportsFrame DEF Idle
<1>6. ReadsInput(r)' /\ Makes(r)'
  <2>1. CASE Miss(r)
    <3>1. pc'[r] = "lock" /\ node'[r] = Wanted(r) /\ read'[r] = read[r] /\ read[r] = Unread
      BY <2>1 DEF Miss, TypeOK, WalkTypeOK, ExecTypeOK, RunData, ReadsInput, Engine
    <3> QED
      BY <1>1, <3>1 DEF ReadsInput, Makes
  <2>2. CASE ReadInput(r)
    <3>1. /\ pc'[r] = "engine" /\ node'[r] = node[r] /\ out' = out /\ at[r] > 1
          /\ read'[r] = (IF read[r] \in {Unread, out[prev[r]]} THEN out[prev[r]] ELSE 0)
      BY <2>2 DEF ReadInput, TypeOK, ExecTypeOK, disk
    <3>2. ReadsInput(r)'
      BY <1>1, <3>1 DEF ReadsInput, Kept, Engine, RunData
    <3>3. Makes(r)'
      BY <1>1, <2>2, <3>1 DEF Makes, RunData, ReadInput, Inside, Holding
    <3> QED
      BY <3>2, <3>3
  <2>3. CASE EngineReturns(r)
    <3>1. /\ pc'[r] = "record" /\ node'[r] = node[r] /\ read'[r] = read[r]
          /\ made'[r] = clock + 1 /\ clock' = clock + 1
      BY <2>3 DEF EngineReturns, TypeOK, WalkTypeOK, ExecTypeOK
    <3>2. ReadsInput(r)'
      BY <1>1, <1>2, <3>1, ReadsFrame DEF Kept, InHandKept, Engine
    <3>3. prov'[clock + 1] = [node |-> node[r], data |-> req[r].data,
                              read |-> IF at[r] = 1 THEN 0 ELSE read[r]]
      <4>1. Alone(r) /\ clock + 1 \in 1 .. MaxClock
        BY <2>3, AloneInside, Numbers DEF EngineReturns, Holding
      <4> QED
        BY <2>3, <4>1 DEF EngineReturns, TypeOK, DiskTypeOK
    <3>4. node[r] = Wanted(r) /\ (at[r] > 1 => read[r] # Unread)
      BY <2>3 DEF RunData, Makes, EngineReturns, Inside, Holding
    <3>5. Makes(r)'
      BY <1>1, <3>1, <3>3, <3>4, Numbers DEF Makes, Kept
    <3> QED
      BY <3>2, <3>5
  <2>4. CASE EngineRaises(r)
    <3>1. /\ pc'[r] = "record" /\ node'[r] = node[r] /\ read'[r] = read[r]
          /\ made'[r] = 0
      BY <2>4 DEF EngineRaises, TypeOK, WalkTypeOK, ExecTypeOK
    <3>2. ReadsInput(r)'
      BY <1>1, <1>2, <3>1, ReadsFrame DEF Kept, InHandKept, Engine
    <3>3. Makes(r)'
      BY <1>1, <2>4, <3>1 DEF Makes, RunData, EngineRaises, Inside, Holding
    <3> QED
      BY <3>2, <3>3
  <2> QED
    BY <2>1, <2>2, <2>3, <2>4
<1> QED
  BY <1>3, <1>4, <1>5, <1>6 DEF RunData

LEMMA ActingRun ==
    ASSUME DataInv, NEW r \in Runs, Act(r)
    PROVE  RunData(r)'
<1>1. CASE PlanBlocked(r) \/ Blocked(r) \/ BusyFail(r) \/ UnlockFailed(r) \/ Crash(r)
  BY <1>1, LeaveData DEF DataInv, IndInv, PlanBlocked, Blocked, BusyFail, UnlockFailed,
     Crash
<1>2. CASE ~(PlanBlocked(r) \/ Blocked(r) \/ BusyFail(r) \/ UnlockFailed(r) \/ Crash(r))
  BY <1>2, BeginData, PlanStepData, StartExecutorData, AdvanceStepData, PhaseStepData,
     ExecStepData DEF Act, Step
<1> QED
  BY <1>1, <1>2

-----------------------------------------------------------------------------
LEMMA DataInit == Init => DataInv
<1> SUFFICES ASSUME Init PROVE DataInv
  OBVIOUS
<1>1. ASSUME NEW n \in Node PROVE NodeData(n)
  BY DEF Init, NodeData, Tokens, ManTruth, NoManifest
<1>2. ASSUME NEW r \in Runs PROVE RunData(r)
  BY DEF Init, RunData, InHand, FallGood, ReadsInput, Makes, Reports, Idle, Inside,
     Holding, NoFall
<1> QED
  BY <1>1, <1>2, InitInv DEF DataInv

LEMMA DataNext == DataInv /\ [Next]_vars => DataInv'
<1> SUFFICES ASSUME DataInv, [Next]_vars PROVE DataInv'
  OBVIOUS
<1>0. IndInv'
  BY NextInv DEF DataInv
<1>1. CASE UNCHANGED vars
  <2>1. \A n \in Node : NodeData(n)'
    BY <1>1 DEF vars, DataInv, NodeData, Tokens, ManTruth, Current
  <2>2. \A q \in Runs : RunData(q)'
    <3> SUFFICES ASSUME NEW q \in Runs PROVE RunData(q)'
      OBVIOUS
    <3>1. InHand(q)' /\ FallGood(q)' /\ ReadsInput(q)' /\ Makes(q)'
      BY <1>1 DEF vars, DataInv, RunData, InHand, FallGood, ReadsInput, Makes, Wanted
    <3>2. Reports(q)'
      BY <1>1 DEF vars, DataInv, RunData, Reports, Report, Current
    <3> QED
      BY <3>1, <3>2 DEF RunData
  <2> QED
    BY <1>0, <2>1, <2>2 DEF DataInv
<1>2. CASE Next
  <2>1. PICK r \in Runs : Act(r)
    BY <1>2 DEF Next, Act
  <2>2. \A n \in Node : NodeData(n)'
    BY <2>1, TokensInv, ManTruthInv DEF NodeData
  <2>3. \A q \in Runs : RunData(q)'
    BY <2>1, OtherRun, ActingRun
  <2> QED
    BY <1>0, <2>2, <2>3 DEF DataInv
<1> QED
  BY <1>1, <1>2

LEMMA DataInvariant == Spec => []DataInv
  BY DataInit, DataNext, PTL DEF Spec

\* For any number of runs, whatever dies when: an ok manifest whose outputs
\* are intact was computed from exactly the input that it names, if that is
\* still there (dag._lookup, executor._execute).
THEOREM HitsAreTrue == Spec => []HitReadItsInput
<1>1. DataInv => HitReadItsInput
  BY DEF DataInv, NodeData, ManTruth, HitReadItsInput, Intact
<1> QED
  BY <1>1, DataInvariant, PTL

\* A run that ends well reports results that belong together: each for the
\* run's date set and made from the reported result of the stage before, if
\* that is still on disk (Executor.run, dag.resolve).
THEOREM CoherentResults == Spec => []ResultCoherent
<1>1. DataInv => ResultCoherent
  <2> SUFFICES ASSUME DataInv, NEW r \in Runs, pc[r] = "ok", NEW s \in Stages
               PROVE  Report(r, s)
    BY DEF ResultCoherent, Report
  <2>1. at[r] = Depth + 1
    BY DEF DataInv, RunData, Reports
  <2>2. s < at[r]
    BY <2>1, DepthAssumption DEF Stages
  <2> QED
    BY <2>2 DEF DataInv, RunData, Reports
<1> QED
  BY <1>1, DataInvariant, PTL

-----------------------------------------------------------------------------
(* The runs implement the ledger.                                           *)
(*                                                                          *)
(* Most steps of a run are invisible.  The others map to one step of the    *)
(* ledger each: that a report is coherent is what DataInv says of the state *)
(* after it, that a lost version does not come back is the lemma Gone, and  *)
(* that an execution reads a version of the stage before is ReadKnown, which *)
(* joins the inductive invariant here.                                      *)

\* The only stages with a stand-in are those before --from.
FallEarly(r) == \A s \in Stages : fall[r][s].tok # 0 => s < req[r].start

\* A version that an engine has read was produced in its input's directory.
ReadKnown(r) ==
    read[r] \notin {Unread, 0} =>
        read[r] <= clock /\ prov[read[r]].node = prev[r]

LedgerInv ==
    /\ DataInv
    /\ \A r \in Runs : FallEarly(r) /\ ReadKnown(r)

-----------------------------------------------------------------------------
LEMMA FallEarlyInv ==
    ASSUME LedgerInv, NEW r \in Runs, Act(r), NEW q \in Runs
    PROVE  FallEarly(q)'
<1> USE DEF LedgerInv, DataInv, IndInv, TypeOK, WalkTypeOK
<1>1. CASE fall'[q] = fall[q] /\ req'[q] = req[q]
  BY <1>1 DEF FallEarly
<1>2. CASE q # r
  BY <1>1, <1>2, Untouched DEF Kept
<1>3. CASE q = r /\ (Begin(r) \/ Leave(r))
  BY <1>3 DEF FallEarly, Begin, Leave, NoFall
<1>4. CASE q = r /\ PlanFallback(r)
  <2>1. at[r] < req[r].start /\ req' = req
    BY <1>4 DEF PlanFallback
  <2>2. \A s \in Stages : s # at[r] => fall'[r][s] = fall[r][s]
    BY <1>4 DEF PlanFallback
  <2> QED
    BY <1>4, <2>1, <2>2 DEF FallEarly
<1>5. CASE q = r /\ ~Begin(r) /\ ~Leave(r) /\ ~PlanFallback(r)
  <2>1. UNCHANGED <<fall, req>>
    BY <1>5 DEF Act, Step, PlanHit, PlanBlocked, StartExecutor, UseFallback, UseCache,
       Blocked, Miss, Lock, LockBusy, BusyHit, BusyFail, PrepareNodeDir, WriteRunning,
       ReadInput, EngineReturns, EngineRaises, WriteRecord, UnlockOk, UnlockFailed,
       Crash, walk
  <2> QED
    BY <2>1, <1>1
<1> QED
  BY <1>2, <1>3, <1>4, <1>5

LEMMA ReadKnownInv ==
    ASSUME LedgerInv, NEW r \in Runs, Act(r), NEW q \in Runs
    PROVE  ReadKnown(q)'
<1> USE DEF LedgerInv, DataInv, IndInv
<1>0. /\ read[q] \in Stamps \union {Unread} /\ read'[q] \in Stamps \union {Unread}
      /\ clock \in Nat /\ clock' \in Nat /\ clock <= clock' /\ Stamps \subseteq Nat
  <2>1. IndInv'
    BY NextInv DEF Next, Act
  <2> QED
    BY <2>1, Frozen, Numbers DEF TypeOK, ExecTypeOK
<1>1. CASE read'[q] = read[q] /\ prev'[q] = prev[q]
  <2> SUFFICES ASSUME read[q] \notin {Unread, 0}
               PROVE  read[q] <= clock' /\ prov'[read[q]].node = prev[q]
    BY <1>1 DEF ReadKnown
  <2>1. read[q] \in Stamps /\ read[q] <= clock /\ prov[read[q]].node = prev[q]
    BY <1>0 DEF ReadKnown
  <2>2. prov'[read[q]] = prov[read[q]]
    BY <2>1, Frozen
  <2>3. read[q] <= clock'
    <3>1. read[q] \in Nat /\ clock \in Nat /\ clock' \in Nat /\ clock <= clock'
      BY <1>0, <2>1
    <3> HIDE DEF LedgerInv, DataInv, IndInv
    <3> QED
      BY <2>1, <3>1
  <2> QED
    BY <2>1, <2>2, <2>3
<1>2. CASE q # r
  BY <1>1, <1>2, Untouched DEF Kept
<1>3. CASE read'[q] = Unread
  BY <1>3 DEF ReadKnown
<1>4. CASE q = r /\ Begin(r)
  <2>1. read[r] = Unread /\ read'[r] = read[r]
    BY <1>4 DEF Begin, exec, RunData, ReadsInput, Engine, Idle
  <2> QED
    BY <1>3, <1>4, <2>1
<1>5. CASE q = r /\ ReadInput(r)
  <2>1. pc[r] = "engine" /\ at[r] > 1 /\ prev' = prev /\ clock' = clock /\ prov' = prov
    BY <1>5 DEF ReadInput, walk, disk
  <2>2. read'[r] \in {out[prev[r]], 0}
    BY <1>5 DEF ReadInput, TypeOK, ExecTypeOK
  <2>3. prev[r] \in Node
    BY <2>1 DEF Walk, Idle
  <2> QED
    BY <1>5, <2>1, <2>2, <2>3 DEF ReadKnown, NodeData, Tokens
<1>6. CASE q = r /\ (Leave(r) \/ UnlockOk(r))
  BY <1>3, <1>6 DEF Leave, UnlockOk, TypeOK, ExecTypeOK
<1>7. CASE q = r /\ (PlanHit(r) \/ PlanFallback(r) \/ StartExecutor(r) \/ UseFallback(r)
                     \/ UseCache(r) \/ BusyHit(r))
  <2>1. read[r] = Unread /\ read'[r] = read[r]
    BY <1>7 DEF PlanHit, PlanFallback, StartExecutor, UseFallback, UseCache, BusyHit,
       exec, RunData, ReadsInput, Engine
  <2> QED
    BY <1>3, <1>7, <2>1
<1>8. CASE q = r /\ (Miss(r) \/ Lock(r) \/ LockBusy(r) \/ PrepareNodeDir(r)
                     \/ WriteRunning(r) \/ EngineReturns(r) \/ EngineRaises(r)
                     \/ WriteRecord(r))
  BY <1>1, <1>8 DEF Miss, Lock, LockBusy, PrepareNodeDir, WriteRunning, EngineReturns,
     EngineRaises, WriteRecord, walk, exec
<1> QED
  BY <1>2, <1>4, <1>5, <1>6, <1>7, <1>8 DEF Act, Step, PlanBlocked, Blocked, BusyFail,
     UnlockFailed, Crash

LEMMA LedgerInvInit == Init => LedgerInv
<1> SUFFICES ASSUME Init PROVE LedgerInv
  OBVIOUS
<1>1. \A r \in Runs : FallEarly(r) /\ ReadKnown(r)
  BY DEF Init, FallEarly, ReadKnown, NoFall
<1> QED
  BY <1>1, DataInit DEF LedgerInv

LEMMA LedgerInvNext == LedgerInv /\ [Next]_vars => LedgerInv'
<1> SUFFICES ASSUME LedgerInv, [Next]_vars PROVE LedgerInv'
  OBVIOUS
<1>1. DataInv'
  BY DataNext DEF LedgerInv
<1>2. CASE UNCHANGED vars
  BY <1>1, <1>2 DEF vars, LedgerInv, FallEarly, ReadKnown
<1>3. CASE Next
  BY <1>1, <1>3, FallEarlyInv, ReadKnownInv DEF Next, Act, LedgerInv
<1> QED
  BY <1>2, <1>3

-----------------------------------------------------------------------------
(* What the steps are in the ledger.                                        *)

LEMMA MappedDisk ==
    ASSUME UNCHANGED <<out, prov>>
    PROVE  LedgerVersion' = LedgerVersion /\ LedgerKept' = LedgerKept
BY DEF LedgerVersion, LedgerKept, Current

\* Only the acting run's own phase shows.
LEMMA MappedRuns ==
    ASSUME TypeOK, NEW r \in Runs, NEW p,
           pc' = [pc EXCEPT ![r] = p], JobOf(p) = JobOf(pc[r]), p # "ok", pc[r] # "ok",
           req' = req, \A q \in Runs \ {r} : used'[q] = used[q]
    PROVE  /\ LedgerJob' = LedgerJob
           /\ LedgerAsked' = LedgerAsked
           /\ LedgerReport' = LedgerReport
<1>1. \A q \in Runs : JobOf(pc'[q]) = JobOf(pc[q])
  BY DEF TypeOK, WalkTypeOK
<1>2. \A q \in Runs : (IF pc'[q] = "ok" THEN used'[q] ELSE NoUse)
                      = (IF pc[q] = "ok" THEN used[q] ELSE NoUse)
  BY DEF TypeOK, WalkTypeOK
<1> QED
  BY <1>1, <1>2 DEF LedgerJob, LedgerAsked, LedgerReport

LEMMA QuietStep ==
    ASSUME TypeOK, NEW r \in Runs,
           \/ StartExecutor(r) \/ Miss(r) \/ Lock(r) \/ LockBusy(r)
           \/ WriteRunning(r) \/ EngineRaises(r) \/ WriteRecord(r)
           \/ PlanHit(r) \/ PlanFallback(r) \/ ReadInput(r)
    PROVE  UNCHANGED Ledger!ledgervars
<1>1. UNCHANGED <<out, prov, clock, req, used>>
  BY DEF StartExecutor, Miss, Lock, LockBusy, WriteRunning, EngineRaises, WriteRecord,
     PlanHit, PlanFallback, ReadInput, disk, walk
<1>2. /\ pc[r] \notin Idle
      /\ \/ pc' = pc
         \/ \E p \in Phase \ Idle : pc' = [pc EXCEPT ![r] = p]
  BY DEF StartExecutor, Miss, Lock, LockBusy, WriteRunning, EngineRaises, WriteRecord,
     PlanHit, PlanFallback, ReadInput, disk, walk, Phase, Idle, Holding
<1>3. ASSUME pc' = pc PROVE UNCHANGED <<LedgerJob, LedgerAsked, LedgerReport>>
  BY <1>1, <1>3 DEF LedgerJob, LedgerAsked, LedgerReport
<1>4. ASSUME NEW p \in Phase \ Idle, pc' = [pc EXCEPT ![r] = p]
      PROVE  UNCHANGED <<LedgerJob, LedgerAsked, LedgerReport>>
  <2>1. JobOf(p) = JobOf(pc[r]) /\ p # "ok" /\ pc[r] # "ok"
    BY <1>2, <1>4 DEF JobOf, Idle
  <2> QED
    BY <1>1, <1>4, <2>1, MappedRuns
<1> QED
  BY <1>1, <1>2, <1>3, <1>4, MappedDisk DEF Ledger!ledgervars

LEMMA LeaveStep ==
    ASSUME TypeOK, NEW r \in Runs, pc[r] \notin Idle, Leave(r),
           UNCHANGED <<out, prov, clock>>
    PROVE  Ledger!Fail(r)
<1>1. LedgerJob[r] = "working"
  BY DEF LedgerJob, JobOf, Idle
<1>2. LedgerJob' = [LedgerJob EXCEPT ![r] = "idle"]
  BY DEF LedgerJob, JobOf, Leave, TypeOK, WalkTypeOK
<1>3. LedgerAsked' = [LedgerAsked EXCEPT ![r] = Ledger!NothingAsked]
  BY DEF LedgerAsked, Ledger!NothingAsked, Leave, NoRequest, TypeOK, WalkTypeOK
<1>4. LedgerReport' = LedgerReport
  BY DEF LedgerReport, Leave, Idle, TypeOK, WalkTypeOK
<1> QED
  BY <1>1, <1>2, <1>3, <1>4, MappedDisk DEF Ledger!Fail, Ledger!ledger

LEMMA BeginStep ==
    ASSUME TypeOK, NEW r \in Runs, Begin(r)
    PROVE  Ledger!Start(r)
<1>1. UNCHANGED <<out, prov, clock>>
  BY DEF Begin, disk
<1>2. LedgerJob[r] # "working"
  BY DEF LedgerJob, JobOf, Begin, Idle
<1>3. LedgerJob' = [LedgerJob EXCEPT ![r] = "working"]
  BY DEF LedgerJob, JobOf, Begin, TypeOK, WalkTypeOK
<1>4. \E q \in Requests :
         LedgerAsked' = [LedgerAsked EXCEPT ![r] = [data |-> q.data, start |-> q.start]]
  BY DEF LedgerAsked, Begin, TypeOK, WalkTypeOK
<1>5. LedgerReport' = [LedgerReport EXCEPT ![r] = Ledger!NoReport]
  BY DEF LedgerReport, Ledger!NoReport, NoUse, Stages, Begin, TypeOK, WalkTypeOK
<1> QED
  BY <1>1, <1>2, <1>3, <1>4, <1>5, MappedDisk DEF Ledger!Start, Ledger!ledger

LEMMA PrepareStep ==
    ASSUME DataInv, NEW r \in Runs, PrepareNodeDir(r)
    PROVE  Ledger!Lose(r)
<1> USE DEF DataInv, IndInv
<1>1. /\ UNCHANGED <<prov, clock, req, used>> /\ pc[r] = "prepare"
      /\ pc' = [pc EXCEPT ![r] = "announce"]
  BY DEF PrepareNodeDir, walk
<1>2. UNCHANGED <<LedgerJob, LedgerAsked, LedgerReport>>
  <2>1. JobOf("announce") = JobOf(pc[r])
    BY <1>1 DEF JobOf
  <2> QED
    BY <1>1, <2>1, MappedRuns
<1>3. LedgerVersion' = LedgerVersion
  BY <1>1 DEF LedgerVersion
<1>4. LedgerKept' \in SUBSET LedgerKept
  <2> SUFFICES ASSUME NEW t \in 1 .. MaxClock, Current(t)' PROVE Current(t)
    BY DEF LedgerKept
  <2>1. \A n \in Node : out'[n] \in {out[n], 0}
    BY DEF PrepareNodeDir, TypeOK, DiskTypeOK
  <2> QED
    BY <1>1, <2>1 DEF Current
<1>5. LedgerJob[r] = "working"
  BY <1>1 DEF LedgerJob, JobOf
<1> QED
  BY <1>1, <1>2, <1>3, <1>4, <1>5 DEF Ledger!Lose

LEMMA ReturnStep ==
    ASSUME LedgerInv, NEW r \in Runs, EngineReturns(r)
    PROVE  Ledger!Produce(r)
<1> USE DEF LedgerInv, DataInv, IndInv
<1> DEFINE t == IF at[r] = 1 THEN 0 ELSE read[r]
           made1 == [stage |-> at[r], data |-> req[r].data, read |-> t]
<1>0. /\ UNCHANGED <<req, used>> /\ pc[r] = "engine" /\ clock < MaxClock
      /\ pc' = [pc EXCEPT ![r] = "record"] /\ clock' = clock + 1
      /\ at[r] > 1 => read[r] # Unread
  BY DEF EngineReturns, walk
<1>1. /\ at[r] \in Stages /\ node[r] \in Node /\ node[r].stage = at[r]
      /\ at[r] > 1 => prev[r] \in Node /\ prev[r].stage = at[r] - 1
  BY <1>0 DEF Walk, Idle, Inside, Holding
<1>2. UNCHANGED <<LedgerJob, LedgerAsked, LedgerReport>>
  <2>1. JobOf("record") = JobOf(pc[r])
    BY <1>0 DEF JobOf
  <2> QED
    BY <1>0, <2>1, MappedRuns
<1>3. clock \in Nat /\ MaxClock \in Nat /\ clock + 1 \in 1 .. MaxClock
  BY <1>0, Numbers
<1>4. prov' = [prov EXCEPT ![clock + 1] =
                 [node |-> node[r], data |-> req[r].data, read |-> t]]
  <2>1. Alone(r)
    BY <1>0, AloneInside DEF Holding
  <2> QED
    BY <2>1 DEF EngineReturns
<1>5. LedgerVersion' = [LedgerVersion EXCEPT ![clock + 1] = made1]
  BY <1>1, <1>3, <1>4 DEF LedgerVersion, TypeOK, DiskTypeOK
<1>6. t \in 0 .. clock /\ (t # 0 => at[r] > 1 /\ LedgerVersion[t].stage = at[r] - 1)
  <2>1. CASE at[r] = 1
    BY <1>3, <2>1
  <2>2. CASE at[r] # 1
    <3>1. at[r] > 1
      BY <1>1, <2>2 DEF Stages
    <3>2. read[r] \in Stamps
      BY <1>0, <3>1 DEF TypeOK, ExecTypeOK
    <3>3. CASE read[r] = 0
      BY <1>3, <2>2, <3>3
    <3>4. CASE read[r] # 0
      <4>1. read[r] \in 1 .. MaxClock
        BY <3>2, <3>4, Numbers
      <4>2. read[r] <= clock /\ prov[read[r]].node = prev[r]
        BY <3>2, <3>4 DEF ReadKnown, Stamps, Unread
      <4> QED
        BY <1>1, <1>3, <2>2, <3>1, <4>1, <4>2 DEF LedgerVersion
    <3> QED
      BY <3>3, <3>4
  <2> QED
    BY <2>1, <2>2
<1>7. LedgerKept' = (LedgerKept \cap LedgerKept') \union {clock + 1}
  <2>0. PICK c \in 1 .. MaxClock : c = clock + 1
    BY <1>3
  <2>1. Current(c)'
    <3>1. prov'[c].node = node[r] /\ out'[node[r]] = c /\ c # 0
      BY <1>1, <1>3, <1>4, <2>0 DEF EngineReturns, TypeOK, DiskTypeOK
    <3> QED
      BY <1>1, <3>1 DEF Current
  <2>2. ASSUME NEW k \in 1 .. MaxClock, Current(k)', k # c PROVE Current(k)
    BY <1>4, <2>0, <2>2 DEF Current, EngineReturns, TypeOK, DiskTypeOK
  <2> QED
    BY <1>3, <2>0, <2>1, <2>2 DEF LedgerKept
<1>8. LedgerJob[r] = "working" /\ LedgerAsked[r].data = req[r].data
  BY <1>0 DEF LedgerJob, LedgerAsked, JobOf
<1>9. \E s \in 1 .. Depth, k \in 0 .. clock :
         /\ k # 0 => s > 1 /\ LedgerVersion[k].stage = s - 1
         /\ LedgerVersion' = [LedgerVersion EXCEPT ![clock + 1] =
                [stage |-> s, data |-> LedgerAsked[r].data, read |-> k]]
  <2> HIDE DEF t
  <2> QED
    BY <1>1, <1>5, <1>6, <1>8 DEF Stages
<1>10. LedgerKept' \in { K \union {clock + 1} : K \in SUBSET LedgerKept }
  BY <1>7
<1> QED
  BY <1>0, <1>2, <1>8, <1>9, <1>10 DEF Ledger!Produce

LEMMA AdvanceStep ==
    ASSUME LedgerInv, LedgerInv', NEW r \in Runs, NEW n, NEW t, pc[r] \notin Idle,
           at[r] \in Stages, Advance(r, n, t), UNCHANGED <<out, prov, clock, req, fall>>
    PROVE  Ledger!Finish(r) \/ UNCHANGED Ledger!ledgervars
<1> USE DEF LedgerInv, DataInv, IndInv
<1>1. CASE at[r] # Depth
  <2>1. pc' = [pc EXCEPT ![r] = "resolve"]
    BY <1>1 DEF Advance
  <2>2. JobOf("resolve") = JobOf(pc[r]) /\ pc[r] # "ok"
    BY DEF JobOf, Idle
  <2>3. \A q \in Runs \ {r} : used'[q] = used[q]
    BY DEF Advance, TypeOK, WalkTypeOK
  <2>4. UNCHANGED <<LedgerJob, LedgerAsked, LedgerReport>>
    BY <2>1, <2>2, <2>3, MappedRuns
  <2> QED
    BY <2>4, MappedDisk DEF Ledger!ledgervars
<1>2. CASE at[r] = Depth
  <2>1. pc' = [pc EXCEPT ![r] = "ok"] /\ pc'[r] = "ok"
    BY <1>2 DEF Advance, TypeOK, WalkTypeOK
  <2>2. /\ LedgerJob[r] = "working"
        /\ LedgerJob' = [LedgerJob EXCEPT ![r] = "done"]
    BY <2>1 DEF LedgerJob, JobOf, Idle, TypeOK, WalkTypeOK
  <2>3. LedgerAsked' = LedgerAsked
    BY DEF LedgerAsked
  <2>4. LedgerReport' = [LedgerReport EXCEPT ![r] = used'[r]]
    BY <2>1 DEF LedgerReport, Advance, TypeOK, WalkTypeOK
  <2>5. ASSUME NEW s \in Stages
        PROVE  /\ used'[r][s] \in 1 .. clock
               /\ prov[used'[r][s]].node.stage = s
               /\ s >= req[r].start =>
                    /\ s \in DataStages => prov[used'[r][s]].data = req[r].data
                    /\ s > 1 /\ Current(used'[r][s - 1]) =>
                         prov[used'[r][s]].read = used'[r][s - 1]
    <3>1. at'[r] = Depth + 1
      BY <1>2 DEF Advance, TypeOK, WalkTypeOK
    <3>2. Report(r, s)'
      BY <2>1, <3>1, DepthAssumption DEF RunData, Reports, Stages
    <3>3. used'[r][s] \in 0 .. MaxClock /\ clock \in Nat /\ MaxClock \in Nat
      BY Numbers DEF TypeOK, WalkTypeOK, Stamps
    <3>4. s >= req[r].start => fall[r][s].tok = 0
      <4>1. req[r].start \in Stages
        BY RequestAssumption, DepthAssumption DEF TypeOK, WalkTypeOK, NoRequest, Stages
      <4> QED
        BY <4>1 DEF FallEarly, Stages
    <3>5. s > 1 => (Current(used'[r][s - 1]) => Current(used[r][s - 1])')
      BY DEF Current
    <3>6. /\ used'[r][s] # 0 /\ used'[r][s] <= clock
          /\ prov[used'[r][s]].node.stage = s
      BY <3>2 DEF Report
    <3>7. fall[r][s].tok = 0 =>
            /\ s \in DataStages => prov[used'[r][s]].data = req[r].data
            /\ s > 1 /\ Current(used'[r][s - 1]) =>
                 prov[used'[r][s]].read = used'[r][s - 1]
      BY <3>2, <3>5 DEF Report
    <3>8. used'[r][s] \in 1 .. clock
      <4>1. used'[r][s] \in Nat
        BY <3>3
      <4> QED
        BY <3>3, <3>6, <4>1
    <3> QED
      BY <3>4, <3>6, <3>7, <3>8
  <2>6. used'[r] \in [1 .. Depth -> 1 .. clock]
    <3>1. used'[r] \in [Stages -> Stamps]
      BY DEF TypeOK, WalkTypeOK
    <3> QED
      BY <2>5, <3>1 DEF Stages
  <2>7. Ledger!Coherent(used'[r], LedgerAsked[r])
    <3> SUFFICES ASSUME NEW s \in Stages
                 PROVE  /\ used'[r][s] \in 1 .. clock
                        /\ LedgerVersion[used'[r][s]].stage = s
                        /\ s >= LedgerAsked[r].start =>
                             /\ s \in DataStages =>
                                  LedgerVersion[used'[r][s]].data = LedgerAsked[r].data
                             /\ s > 1 /\ used'[r][s - 1] \in LedgerKept =>
                                  LedgerVersion[used'[r][s]].read = used'[r][s - 1]
      BY DEF Ledger!Coherent, Ledger!Versions, Stages
    <3>1. used'[r][s] \in 1 .. MaxClock
      BY <2>5, Numbers
    <3>2. /\ LedgerVersion[used'[r][s]].stage = prov[used'[r][s]].node.stage
          /\ LedgerVersion[used'[r][s]].data = prov[used'[r][s]].data
          /\ LedgerVersion[used'[r][s]].read = prov[used'[r][s]].read
      BY <3>1 DEF LedgerVersion
    <3>3. LedgerAsked[r].start = req[r].start /\ LedgerAsked[r].data = req[r].data
      BY DEF LedgerAsked
    <3>4. s > 1 /\ used'[r][s - 1] \in LedgerKept => Current(used'[r][s - 1])
      BY DEF LedgerKept
    <3> QED
      BY <2>5, <3>2, <3>3, <3>4
  <2> QED
    BY <2>2, <2>3, <2>4, <2>6, <2>7, MappedDisk DEF Ledger!Finish, Ledger!ledger,
       Ledger!Versions
<1> QED
  BY <1>1, <1>2

-----------------------------------------------------------------------------
LEMMA EveryStep ==
    ASSUME LedgerInv, LedgerInv', NEW r \in Runs, Act(r)
    PROVE  \/ Ledger!Start(r) \/ Ledger!Produce(r) \/ Ledger!Lose(r)
           \/ Ledger!Finish(r) \/ Ledger!Fail(r) \/ UNCHANGED Ledger!ledgervars
<1> USE DEF LedgerInv, DataInv, IndInv
<1>1. CASE Begin(r)
  BY <1>1, BeginStep
<1>2. CASE PlanBlocked(r) \/ Blocked(r) \/ BusyFail(r) \/ UnlockFailed(r) \/ Crash(r)
  <2>1. Leave(r) /\ pc[r] \notin Idle /\ UNCHANGED <<out, prov, clock>>
    BY <1>2 DEF PlanBlocked, Blocked, BusyFail, UnlockFailed, Crash, disk, Idle
  <2> QED
    BY <2>1, LeaveStep
<1>3. CASE UseFallback(r) \/ UseCache(r) \/ BusyHit(r) \/ UnlockOk(r)
  <2>1. pc[r] \notin Idle /\ UNCHANGED <<out, prov, clock, req, fall>>
    BY <1>3 DEF UseFallback, UseCache, BusyHit, UnlockOk, disk, Idle
  <2>2. PICK n, t : Advance(r, n, t)
    BY <1>3 DEF UseFallback, UseCache, BusyHit, UnlockOk
  <2>3. at[r] \in Stages
    BY <2>1 DEF Walk
  <2> QED
    BY <2>1, <2>2, <2>3, AdvanceStep
<1>4. CASE PrepareNodeDir(r) \/ EngineReturns(r)
  BY <1>4, PrepareStep, ReturnStep
<1>5. CASE \/ StartExecutor(r) \/ Miss(r) \/ Lock(r) \/ LockBusy(r)
           \/ WriteRunning(r) \/ EngineRaises(r) \/ WriteRecord(r)
           \/ PlanHit(r) \/ PlanFallback(r) \/ ReadInput(r)
  BY <1>5, QuietStep
<1> QED
  BY <1>1, <1>2, <1>3, <1>4, <1>5 DEF Act, Step

\* The runs, their directories and locks implement the ledger of versions:
\* nothing that interleaving, dying and reusing can do to the work directory
\* shows in what runs report (Executor.run, dag.resolve, cache, incremental).
THEOREM LedgerRefined == Spec => ImplementsLedger
<1>1. Init => Ledger!LedgerInit
  <2> SUFFICES ASSUME Init PROVE Ledger!LedgerInit
    OBVIOUS
  <2>1. LedgerVersion = [t \in 1 .. MaxClock |-> Ledger!NoVersion]
    BY DEF Init, LedgerVersion, NoProv, NoNode, Ledger!NoVersion
  <2>2. LedgerKept = {}
    BY DEF Init, LedgerKept, Current, NoProv
  <2>3. LedgerJob = [r \in Runs |-> "idle"]
    BY DEF Init, LedgerJob, JobOf
  <2>4. LedgerAsked = [r \in Runs |-> Ledger!NothingAsked]
    BY DEF Init, LedgerAsked, NoRequest, Ledger!NothingAsked
  <2>5. LedgerReport = [r \in Runs |-> Ledger!NoReport]
    BY DEF Init, LedgerReport, NoUse, Stages, Ledger!NoReport
  <2> QED
    BY <2>1, <2>2, <2>3, <2>4, <2>5 DEF Init, Ledger!LedgerInit
<1>2. LedgerInv /\ LedgerInv' /\ [Next]_vars => [Ledger!LedgerNext]_(Ledger!ledgervars)
  <2> SUFFICES ASSUME LedgerInv, LedgerInv', [Next]_vars
               PROVE  [Ledger!LedgerNext]_(Ledger!ledgervars)
    OBVIOUS
  <2>1. CASE UNCHANGED vars
    BY <2>1 DEF vars, Ledger!ledgervars, LedgerVersion, LedgerKept, Current, LedgerJob,
       LedgerAsked, LedgerReport
  <2>2. CASE Next
    BY <2>2, EveryStep DEF Next, Act, Ledger!LedgerNext
  <2> QED
    BY <2>1, <2>2
<1> QED
  BY <1>1, <1>2, LedgerInvInit, LedgerInvNext, PTL
     DEF Spec, ImplementsLedger, Ledger!LedgerSpec
=============================================================================
