------------------------------ MODULE RunCache ------------------------------
(***************************************************************************)
(* `wintersar run` processes sharing one work directory.                    *)
(*                                                                         *)
(* A run walks the stages 1..Depth in order.  Each stage resolves to a node *)
(* directory work/<stage>/<hash>/ that holds out/ (the engine's files), a   *)
(* manifest.json and a .lock file.  A stage is served from its manifest     *)
(* when that is `ok` and its outputs still hash to what was recorded, and   *)
(* executed under the directory's lock otherwise.  Runs interleave at every *)
(* file-system step, die at any point and are started again.                *)
(*                                                                         *)
(* Source: pipeline/{dag,executor,cache,incremental,api}.py.  The stage     *)
(* graph is reduced to a chain; every stage has its predecessor's artifact  *)
(* as its input.  Stage parameters other than the date set are equal in all *)
(* runs: different parameters mean different directories.                   *)
(***************************************************************************)
EXTENDS Integers, FiniteSets

CONSTANTS
    Runs,         \* `wintersar run` processes
    Depth,        \* number of stages in the chain
    Incremental,  \* the stages in INCREMENTAL_STAGES
    DataStages,   \* the stages that see the date set themselves
    Data,         \* date sets a run can be asked for
    Requests,     \* the command lines that runs are started with
    MaxClock,     \* bound: number of engine executions that finish
    NoData,       \* "the date set is not part of this node's hash"
    Free          \* "nobody holds the lock"

Stages == 1 .. Depth

Stamps == 0 .. MaxClock

ASSUME DepthAssumption == Depth \in Nat \ {0}
ASSUME ClockAssumption == MaxClock \in Nat
ASSUME StageAssumption == Incremental \subseteq Stages /\ DataStages \subseteq Stages
ASSUME RequestAssumption ==
    Requests \subseteq [data : Data, force : 1 .. (Depth + 1), start : Stages]
ASSUME NullAssumption == NoData \notin Data /\ Free \notin Runs

\* Producer and consumer both incremental: the input enters the consumer's
\* hash as the producer's node hash and not as its content.
Linked(s) == s > 1 /\ {s - 1, s} \subseteq Incremental

\* A content token enters the hash of stage s, directly or through producers.
ContentKeyed(s) == \E q \in 2 .. s : ~Linked(q)

\* A node directory, identified by what goes into its hash.
Node == { n \in [stage : Stages, data : Data \union {NoData}, in : Stamps] :
            /\ (n.data # NoData) => n.stage \in DataStages \ Incremental
            /\ (n.in # 0) => ContentKeyed(n.stage) }

NoNode == [stage |-> 0, data |-> NoData, in |-> 0]

Status == {"none", "running", "ok", "failed"}

\* manifest.json: status, token of the outputs, tokens of the inputs, the
\* date set among the parameters, finished_at (started_at while running).
Manifest == [st : Status, out : Stamps, in : Stamps,
             data : Data \union {NoData}, at : Stamps]

NoManifest == [st |-> "none", out |-> 0, in |-> 0, data |-> NoData, at |-> 0]

\* Not started, failed or killed; or finished with every stage served.
Idle == {"idle", "ok"}

\* Phases in which a run holds the lock of node[r].
Holding == {"prepare", "announce", "engine", "record", "unlock"}

Phase == Idle \union {"plan", "resolve", "lock", "busy"} \union Holding

NoRequest == [data |-> NoData, force |-> 1, start |-> 1]

NoFall == [s \in Stages |-> [node |-> NoNode, tok |-> 0]]

NoUse == [s \in Stages |-> 0]

NoProv == [node |-> NoNode, data |-> NoData, read |-> 0]

Unread == -1

VARIABLES
    man,    \* manifest.json of every node directory
    out,    \* content token of out/; 0 when it is absent or incomplete
    lock,   \* holder of the flock on the directory's .lock
    clock,  \* executions finished so far; a fresh token is a new mtime
    pc,     \* phase of every run
    req,    \* its command line: date set, first --force stage, --from stage
    at,     \* index of its current stage
    prev,   \* node directory that served the previous stage
    have,   \* token of the previous stage's artifact in `available`
    node,   \* directory being executed
    read,   \* what the engine has found in its input so far
    made,   \* token of the outputs just computed; 0 when the engine raised
    fall,   \* plan-time fallback records of the stages before --from
    used,   \* tokens of the artifacts the run reports
    prov    \* history: what every token was computed for and from

disk == <<man, out, lock, clock, prov>>
walk == <<req, at, prev, have, fall, used>>
exec == <<node, read, made>>
vars == <<man, out, lock, clock, pc, req, at, prev, have, node, read, made,
          fall, used, prov>>

-----------------------------------------------------------------------------
\* FAULT: every stage takes its producer's node hash for its content.
KeyOfProducers(s, d, up, t) ==
    [stage |-> s, data |-> IF s \in DataStages \ Incremental THEN d ELSE NoData,
     in |-> up.in]

\* The hash rule: an incremental stage drops the date set, and takes an
\* incremental producer's node hash instead of its content.
Key(s, d, up, t) ==
    [stage |-> s,
     data  |-> IF s \in DataStages \ Incremental THEN d ELSE NoData,
     in    |-> IF Linked(s) THEN up.in ELSE t]

Wanted(r) == Key(at[r], req[r].data, prev[r], have[r])

\* --force closes over everything downstream of the first forced stage.
Forced(r) == at[r] >= req[r].force

\* An `ok` manifest whose outputs still have the recorded hash.
Intact(n) == man[n].st = "ok" /\ man[n].out # 0 /\ out[n] = man[n].out

\* FAULT: the date set is not compared.
FreshForAnyData(n, d, t) == n.stage \in Incremental => man[n].in = t

\* Incremental stages keep the date set and the input content out of the
\* hash, so both are compared with the manifest.
Fresh(n, d, t) ==
    n.stage \in Incremental =>
        /\ man[n].in = t
        /\ n.stage \in DataStages => man[n].data = d

Hit(r) ==
    /\ ~Forced(r)
    /\ Intact(Wanted(r))
    /\ Fresh(Wanted(r), req[r].data, have[r])

\* The newest intact manifests of a stage, whatever they were computed for.
Latest(s) == { n \in Node :
    /\ n.stage = s /\ Intact(n)
    /\ \A m \in Node : m.stage = s /\ Intact(m) => man[m].at <= man[n].at }

\* Stage at[r] is served by directory n, whose outputs have token t.
Advance(r, n, t) ==
    /\ at' = [at EXCEPT ![r] = @ + 1]
    /\ prev' = [prev EXCEPT ![r] = n]
    /\ have' = [have EXCEPT ![r] = t]
    /\ used' = [used EXCEPT ![r] = [@ EXCEPT ![at[r]] = t]]
    /\ pc' = [pc EXCEPT ![r] = IF at[r] = Depth THEN "ok" ELSE "resolve"]

\* The process has failed or is gone: what remains of it is on disk.
Leave(r) ==
    /\ pc' = [pc EXCEPT ![r] = "idle"]
    /\ req' = [req EXCEPT ![r] = NoRequest]
    /\ at' = [at EXCEPT ![r] = 1]
    /\ prev' = [prev EXCEPT ![r] = NoNode]
    /\ have' = [have EXCEPT ![r] = 0]
    /\ fall' = [fall EXCEPT ![r] = NoFall]
    /\ used' = [used EXCEPT ![r] = NoUse]
    /\ node' = [node EXCEPT ![r] = NoNode]
    /\ read' = [read EXCEPT ![r] = Unread]
    /\ made' = [made EXCEPT ![r] = 0]

-----------------------------------------------------------------------------
Init ==
    /\ man = [n \in Node |-> NoManifest]
    /\ out = [n \in Node |-> 0]
    /\ lock = [n \in Node |-> Free]
    /\ clock = 0
    /\ prov = [t \in 1 .. MaxClock |-> NoProv]
    /\ pc = [r \in Runs |-> "idle"]
    /\ req = [r \in Runs |-> NoRequest]
    /\ at = [r \in Runs |-> 1]
    /\ prev = [r \in Runs |-> NoNode]
    /\ have = [r \in Runs |-> 0]
    /\ node = [r \in Runs |-> NoNode]
    /\ read = [r \in Runs |-> Unread]
    /\ made = [r \in Runs |-> 0]
    /\ fall = [r \in Runs |-> NoFall]
    /\ used = [r \in Runs |-> NoUse]

\* A user starts `wintersar run` (again).
Begin(r) ==
    /\ pc[r] \in Idle
    /\ \E q \in Requests : req' = [req EXCEPT ![r] = q]
    /\ pc' = [pc EXCEPT ![r] = "plan"]
    /\ at' = [at EXCEPT ![r] = 1]
    /\ prev' = [prev EXCEPT ![r] = NoNode]
    /\ have' = [have EXCEPT ![r] = 0]
    /\ fall' = [fall EXCEPT ![r] = NoFall]
    /\ used' = [used EXCEPT ![r] = NoUse]
    /\ UNCHANGED <<disk, exec>>

\* Dag.resolve_all, a stage before --from: a hit, else the newest result.
PlanHit(r) ==
    /\ pc[r] = "plan" /\ at[r] < req[r].start /\ Hit(r)
    /\ at' = [at EXCEPT ![r] = @ + 1]
    /\ prev' = [prev EXCEPT ![r] = Wanted(r)]
    /\ have' = [have EXCEPT ![r] = out[Wanted(r)]]
    /\ UNCHANGED <<disk, exec, pc, req, fall, used>>

PlanFallback(r) ==
    /\ pc[r] = "plan" /\ at[r] < req[r].start /\ ~Hit(r)
    /\ \E n \in Latest(at[r]) :
        /\ at' = [at EXCEPT ![r] = @ + 1]
        /\ prev' = [prev EXCEPT ![r] = n]
        /\ have' = [have EXCEPT ![r] = out[n]]
        /\ fall' = [fall EXCEPT
                      ![r] = [@ EXCEPT ![at[r]] = [node |-> n, tok |-> out[n]]]]
    /\ UNCHANGED <<disk, exec, pc, req, used>>

\* Nothing can stand in for the stage: the plan fails and nothing executes.
PlanBlocked(r) ==
    /\ pc[r] = "plan" /\ at[r] < req[r].start /\ ~Hit(r)
    /\ Latest(at[r]) = {}
    /\ Leave(r)
    /\ UNCHANGED disk

\* The executor walks the stages again from the first one.
StartExecutor(r) ==
    /\ pc[r] = "plan" /\ at[r] = req[r].start
    /\ pc' = [pc EXCEPT ![r] = "resolve"]
    /\ at' = [at EXCEPT ![r] = 1]
    /\ prev' = [prev EXCEPT ![r] = NoNode]
    /\ have' = [have EXCEPT ![r] = 0]
    /\ UNCHANGED <<disk, exec, req, fall, used>>

FallbackAt(r) == fall[r][at[r]].tok # 0

\* The record chosen at plan time is used as it is, without another look.
UseFallback(r) ==
    /\ pc[r] = "resolve" /\ FallbackAt(r)
    /\ Advance(r, fall[r][at[r]].node, fall[r][at[r]].tok)
    /\ UNCHANGED <<disk, exec, req, fall>>

UseCache(r) ==
    /\ pc[r] = "resolve" /\ ~FallbackAt(r) /\ Hit(r)
    /\ Advance(r, Wanted(r), out[Wanted(r)])
    /\ UNCHANGED <<disk, exec, req, fall>>

\* A stage before --from that was a hit when planned and is not any more.
Blocked(r) ==
    /\ pc[r] = "resolve" /\ ~FallbackAt(r) /\ ~Hit(r)
    /\ at[r] < req[r].start
    /\ Leave(r)
    /\ UNCHANGED disk

Miss(r) ==
    /\ pc[r] = "resolve" /\ ~FallbackAt(r) /\ ~Hit(r)
    /\ at[r] >= req[r].start
    /\ pc' = [pc EXCEPT ![r] = "lock"]
    /\ node' = [node EXCEPT ![r] = Wanted(r)]
    /\ UNCHANGED <<disk, walk, read, made>>

\* FAULT: the directory is taken whether it is locked or not.
LockAnyway(r) ==
    /\ pc[r] = "lock"
    /\ lock' = [lock EXCEPT ![node[r]] = r]
    /\ pc' = [pc EXCEPT ![r] = "prepare"]
    /\ UNCHANGED <<man, out, clock, prov, walk, exec>>

\* flock(LOCK_EX | LOCK_NB) succeeds.  The cache is not looked up again.
Lock(r) ==
    /\ pc[r] = "lock" /\ lock[node[r]] = Free
    /\ lock' = [lock EXCEPT ![node[r]] = r]
    /\ pc' = [pc EXCEPT ![r] = "prepare"]
    /\ UNCHANGED <<man, out, clock, prov, walk, exec>>

LockBusy(r) ==
    /\ pc[r] = "lock" /\ lock[node[r]] # Free
    /\ pc' = [pc EXCEPT ![r] = "busy"]
    /\ UNCHANGED <<disk, walk, exec>>

\* NodeBusyError: the other run may have just finished the node.
BusyHit(r) ==
    /\ pc[r] = "busy" /\ Hit(r)
    /\ Advance(r, Wanted(r), out[Wanted(r)])
    /\ node' = [node EXCEPT ![r] = NoNode]
    /\ UNCHANGED <<disk, read, made, req, fall>>

\* FAULT: the run tries again for as long as the directory is busy.
BusyRetry(r) ==
    /\ pc[r] = "busy" /\ ~Hit(r)
    /\ pc' = [pc EXCEPT ![r] = "lock"]
    /\ UNCHANGED <<disk, walk, exec>>

\* FAULT: the busy record is written over the other run's manifest.
BusyFailRecorded(r) ==
    /\ pc[r] = "busy" /\ ~Hit(r)
    /\ man' = [man EXCEPT ![node[r]] = [@ EXCEPT !.st = "failed"]]
    /\ Leave(r)
    /\ UNCHANGED <<out, lock, clock, prov>>

\* PIPELINE-013.
BusyFail(r) ==
    /\ pc[r] = "busy" /\ ~Hit(r)
    /\ Leave(r)
    /\ UNCHANGED disk

\* rmtree(out/), mkdir: the old manifest is still there.
PrepareNodeDir(r) ==
    /\ pc[r] = "prepare"
    /\ out' = [out EXCEPT ![node[r]] = 0]
    /\ pc' = [pc EXCEPT ![r] = "announce"]
    /\ UNCHANGED <<man, lock, clock, prov, walk, exec>>

\* FAULT: the input is hashed again when the manifest is written.
RecordRehashed(r, status, t, time) ==
    [st |-> status, out |-> t,
     in |-> IF at[r] > 1 THEN out[prev[r]] ELSE 0,
     data |-> req[r].data, at |-> time]

\* FAULT: the time stamp is taken too late.
RecordLate(r, status, t, time) ==
    [st |-> status, out |-> t, in |-> have[r], data |-> req[r].data, at |-> time + 1]

Record(r, status, t, time) ==
    [st |-> status, out |-> t, in |-> have[r], data |-> req[r].data, at |-> time]

WriteRunning(r) ==
    /\ pc[r] = "announce"
    /\ man' = [man EXCEPT ![node[r]] = Record(r, "running", 0, clock)]
    /\ pc' = [pc EXCEPT ![r] = "engine"]
    /\ UNCHANGED <<out, lock, clock, prov, walk, exec>>

\* The engine reads its input files, at its own pace: unless it finds the
\* same version every time, what it has read is no version at all.
ReadInput(r) ==
    /\ pc[r] = "engine" /\ at[r] > 1
    /\ read' = [read EXCEPT
                  ![r] = IF @ \in {Unread, out[prev[r]]} THEN out[prev[r]] ELSE 0]
    /\ read' # read
    /\ UNCHANGED <<disk, pc, walk, node, made>>

\* Two engines writing into one out/ leave a mixture, no node's result.
Alone(r) == \A o \in Runs \ {r} : pc[o] \in Holding => node[o] # node[r]

\* The engine returns and _hash_outputs takes the token of what it wrote.
EngineReturns(r) ==
    /\ pc[r] = "engine" /\ clock < MaxClock
    /\ at[r] > 1 => read[r] # Unread
    /\ clock' = clock + 1
    /\ out' = [out EXCEPT ![node[r]] = clock + 1]
    /\ made' = [made EXCEPT ![r] = clock + 1]
    /\ prov' = [prov EXCEPT ![clock + 1] =
                  [node |-> IF Alone(r) THEN node[r] ELSE NoNode,
                   data |-> req[r].data,
                   read |-> IF at[r] = 1 THEN 0 ELSE read[r]]]
    /\ pc' = [pc EXCEPT ![r] = "record"]
    /\ UNCHANGED <<man, lock, walk, node, read>>

EngineRaises(r) ==
    /\ pc[r] = "engine"
    /\ made' = [made EXCEPT ![r] = 0]
    /\ pc' = [pc EXCEPT ![r] = "record"]
    /\ UNCHANGED <<disk, walk, node, read>>

\* The manifest is replaced atomically, on success and on failure.
WriteRecord(r) ==
    /\ pc[r] = "record"
    /\ man' = [man EXCEPT ![node[r]] =
                 IF made[r] # 0 THEN Record(r, "ok", made[r], made[r])
                                ELSE Record(r, "failed", 0, clock)]
    /\ pc' = [pc EXCEPT ![r] = "unlock"]
    /\ UNCHANGED <<out, lock, clock, prov, walk, exec>>

Release(r) == lock' = [lock EXCEPT ![node[r]] = IF @ = r THEN Free ELSE @]

\* node_lock's finally; then the run goes on, or fails with its stage.
UnlockOk(r) ==
    /\ pc[r] = "unlock" /\ made[r] # 0
    /\ Release(r)
    /\ Advance(r, node[r], made[r])
    /\ node' = [node EXCEPT ![r] = NoNode]
    /\ read' = [read EXCEPT ![r] = Unread]
    /\ made' = [made EXCEPT ![r] = 0]
    /\ UNCHANGED <<man, out, clock, prov, req, fall>>

\* FAULT: the lock is released on success only.
UnlockFailedKept(r) ==
    /\ pc[r] = "unlock" /\ made[r] = 0
    /\ Leave(r)
    /\ UNCHANGED disk

UnlockFailed(r) ==
    /\ pc[r] = "unlock" /\ made[r] = 0
    /\ Release(r)
    /\ Leave(r)
    /\ UNCHANGED <<man, out, clock, prov>>

\* The process is killed: the kernel drops its lock, the disk stays as it is.
Crash(r) ==
    /\ pc[r] \notin Idle
    /\ IF pc[r] \in Holding THEN Release(r) ELSE UNCHANGED lock
    /\ Leave(r)
    /\ UNCHANGED <<man, out, clock, prov>>

-----------------------------------------------------------------------------
\* What a started run does by itself.
Step(r) ==
    \/ PlanHit(r) \/ PlanFallback(r) \/ PlanBlocked(r) \/ StartExecutor(r)
    \/ UseFallback(r) \/ UseCache(r) \/ Blocked(r) \/ Miss(r)
    \/ Lock(r) \/ LockBusy(r) \/ BusyHit(r) \/ BusyFail(r)
    \/ PrepareNodeDir(r) \/ WriteRunning(r)
    \/ ReadInput(r) \/ EngineReturns(r) \/ EngineRaises(r)
    \/ WriteRecord(r) \/ UnlockOk(r) \/ UnlockFailed(r)

Next == \E r \in Runs : Begin(r) \/ Step(r) \/ Crash(r)

Spec == Init /\ [][Next]_vars

FairSpec == Spec /\ \A r \in Runs : WF_vars(Step(r))

-----------------------------------------------------------------------------
\* Every variable stays in its range; in particular a run's next directory
\* always is a directory of its stage.
DiskTypeOK ==
    /\ man \in [Node -> Manifest]
    /\ out \in [Node -> Stamps]
    /\ lock \in [Node -> Runs \union {Free}]
    /\ clock \in Stamps
    /\ prov \in [1 .. MaxClock -> [node : Node \union {NoNode},
                                   data : Data \union {NoData}, read : Stamps]]

WalkTypeOK ==
    /\ pc \in [Runs -> Phase]
    /\ req \in [Runs -> Requests \union {NoRequest}]
    /\ at \in [Runs -> 1 .. (Depth + 1)]
    /\ prev \in [Runs -> Node \union {NoNode}]
    /\ have \in [Runs -> Stamps]
    /\ fall \in [Runs -> [Stages -> [node : Node \union {NoNode}, tok : Stamps]]]
    /\ used \in [Runs -> [Stages -> Stamps]]

ExecTypeOK ==
    /\ node \in [Runs -> Node \union {NoNode}]
    /\ read \in [Runs -> Stamps \union {Unread}]
    /\ made \in [Runs -> Stamps]

TypeOK == DiskTypeOK /\ WalkTypeOK /\ ExecTypeOK

\* No two runs are inside the same node directory, between taking its lock
\* and releasing it, whatever crashed before (Executor._execute, ADR-0032).
OneExecutor ==
    \A r1, r2 \in Runs :
        r1 # r2 /\ pc[r1] \in Holding /\ pc[r2] \in Holding => node[r1] # node[r2]

\* A node directory only ever changes under the hand of the run that holds
\* its lock: a run that finds it busy, blocked or cached leaves it alone.
OnlyHolderWrites ==
    [][\A n \in Node :
         out'[n] # out[n] \/ man'[n] # man[n] =>
            \E r \in Runs : lock[n] = r /\ node[r] = n /\ pc[r] \in Holding]_vars

\* The directory that a token was produced in still holds it.
Current(t) == t # 0 /\ prov[t].node \in Node /\ out[prov[t].node] = t

\* A manifest that passes the lookup was computed from exactly the input it
\* names, if that input is still there: an execution whose input was replaced
\* under its feet leaves a record that no lookup can pair with that input.
HitReadItsInput ==
    \A n \in Node :
        Intact(n) /\ Current(man[n].in) => prov[man[n].out].read = man[n].in

\* A run that reports success reports, for each stage it did not take from a
\* --from fallback, a result of that stage, for its own date set, computed
\* from the very result it reports for the stage before, if that is still on
\* disk; whatever mix of hits, executions, crashes and other runs led to it.
ResultCoherent ==
    \A r \in Runs : pc[r] = "ok" =>
        \A s \in Stages :
            LET p == prov[used[r][s]] IN
            /\ used[r][s] # 0
            /\ p.node.stage = s
            /\ fall[r][s].tok = 0 =>
                /\ s \in DataStages => p.data = req[r].data
                /\ s > 1 /\ Current(used[r][s - 1]) => p.read = used[r][s - 1]

\* A lock belongs to a live run that is inside the directory: none is leaked
\* by a failure, a crash or a busy directory, so nobody can be locked out.
LockOwned ==
    \A n \in Node : lock[n] # Free =>
        pc[lock[n]] \in Holding /\ node[lock[n]] = n

\* Every run comes to an end, whatever the other runs do: no run waits for
\* another one.
RunsEnd == \A r \in Runs : pc[r] \notin Idle ~> pc[r] \in Idle
=============================================================================
