-------------------------------- MODULE Hyp3 --------------------------------
(***************************************************************************)
(* The HyP3 engine: interferograms computed as jobs of a cloud service.     *)
(*                                                                         *)
(* One run of the engine reads its state file jobs.json, submits the pairs  *)
(* that have no usable job, in batches; polls until all jobs are complete   *)
(* or its time is up; and downloads and validates a product for each pair.  *)
(* The process may die, a call of the service may fail, and jobs go on, end *)
(* and expire, at any point.  Source: engines/hyp3.py.                      *)
(*                                                                         *)
(* A caller is the executor, which empties out/ (and with it jobs.json and  *)
(* the products) before each run and skips the stage after a successful     *)
(* one; or a program or test that runs the engine in a directory it leaves  *)
(* alone.  The service is external: modelled from how the engine uses it.   *)
(***************************************************************************)
EXTENDS Integers, FiniteSets

CONSTANTS
    Pairs,    \* the interferograms to compute, numbered as they are submitted
    Batch,    \* submit_batch_size
    Credits,  \* credits of the account; a job costs one
    Callers,  \* subset of {"executor", "engine"}
    MaxJobs,  \* bound: jobs submitted
    MaxRuns,  \* bound: runs of the engine
    MaxWaits, \* poll_timeout_s, in poll intervals
    Absent,   \* jobs.json does not exist
    Corrupt,  \* jobs.json was being written when the process died
    NoPair    \* the pair of a job that was never submitted

ASSUME BatchAssumption == Batch \in Nat \ {0}
ASSUME CreditAssumption == Credits \in Nat
ASSUME CallerAssumption == Callers \subseteq {"executor", "engine"}
ASSUME BoundAssumption == {MaxJobs, MaxRuns, MaxWaits} \subseteq Nat
ASSUME PairAssumption == Pairs \subseteq Nat /\ IsFiniteSet(Pairs) /\ NoPair \notin Pairs

Jobs == 1 .. MaxJobs

\* _ACTIVE_STATUSES is PENDING and RUNNING; nothing tells them apart.
Active == "PENDING"

PairState == [job : Jobs \union {0},
              status : {"NEW", Active, "SUCCEEDED", "FAILED", "EXPIRED"},
              dir : Jobs \union {0}]

\* What is not a state of the pairs: no file, and one that cannot be parsed.
ASSUME FileAssumption ==
    Absent # Corrupt /\ {Absent, Corrupt} \cap [Pairs -> PairState] = {}

NewPair == [job |-> 0, status |-> "NEW", dir |-> 0]

NewState == [p \in Pairs |-> NewPair]

VARIABLES
    caller,   \* who runs the engine
    result,   \* how the last run ended; what the executor's manifest says
    cloud,    \* the jobs: pair, status at the service, retention over
    credits,  \* what is left of the account
    jobs,     \* jobs.json
    folder,   \* the product folder of every job: none, part or whole
    phase,    \* what the run is doing
    mem,      \* its JobState
    todo,     \* the pairs that are still to be submitted
    sent,     \* the batch whose answer is on its way: pair -> job
    waits,    \* poll intervals waited
    left,     \* pairs that are still to be looked at for download
    bad,      \* those whose recorded product is not valid
    got,      \* products the run will return: pair -> job
    failed,   \* a FAIL finding was made
    warned,   \* pairs with an HYP3-012 finding of the last run
    runs,     \* bound: runs started
    told,     \* history: jobs that some HYP3-006 finding named
    lost      \* history: batches whose answer never arrived

service == <<cloud, credits>>
account == <<caller, runs, told, lost>>
run == <<mem, todo, sent, waits, left, bad, got, failed, warned>>
vars == <<caller, result, cloud, credits, jobs, folder, phase, mem, todo, sent,
          waits, left, bad, got, failed, warned, runs, told, lost>>

NoJob == [pair |-> NoPair, status |-> "none", expired |-> FALSE]

Known == { j \in Jobs : cloud[j] # NoJob }

\* The job can still give a product without being paid for again.
Live(j) == cloud[j].status \in {Active, "SUCCEEDED"} /\ ~cloud[j].expired

Range1(f) == { f[x] : x \in DOMAIN f }

Nothing == [p \in {} |-> 0]

\* The engine has returned, raised or died.
Leave(how) ==
    /\ result' = how
    /\ phase' = "idle"
    /\ mem' = NewState /\ todo' = {} /\ sent' = Nothing /\ waits' = 0
    /\ left' = {} /\ bad' = {} /\ failed' = FALSE

-----------------------------------------------------------------------------
Init ==
    /\ caller \in Callers
    /\ result = "none"
    /\ cloud = [j \in Jobs |-> NoJob] /\ credits = Credits
    /\ jobs = Absent
    /\ folder = [j \in Jobs |-> "none"]
    /\ phase = "idle"
    /\ mem = NewState /\ todo = {} /\ sent = Nothing /\ waits = 0
    /\ left = {} /\ bad = {} /\ got = Nothing
    /\ failed = FALSE /\ warned = {}
    /\ runs = 0 /\ told = {} /\ lost = 0

\* The executor finds the stage's result in its cache.
CacheHit ==
    /\ phase = "idle" /\ caller = "executor" /\ result \in {"ok", "cached"}
    /\ result' = "cached"
    /\ UNCHANGED <<service, jobs, folder, phase, run, account>>

\* The engine is called; by the executor in an empty out/.
Begin ==
    /\ phase = "idle" /\ runs < MaxRuns
    /\ caller = "executor" => result \notin {"ok", "cached"}
    /\ runs' = runs + 1
    /\ result' = "none"
    /\ IF caller = "executor"
       THEN jobs' = Absent /\ folder' = [j \in Jobs |-> "none"]
       ELSE UNCHANGED <<jobs, folder>>
    /\ phase' = "load"
    /\ got' = Nothing /\ warned' = {}
    /\ UNCHANGED <<service, caller, told, lost, mem, todo, sent, waits, left, bad, failed>>

\* FAULT: a job in flight is not taken up again.
ResumableSucceeded(ps) == ps.job # 0 /\ ps.status = "SUCCEEDED"

\* An existing job is polled or downloaded instead of submitted again.
Resumable(ps) == ps.job # 0 /\ ps.status \in {Active, "SUCCEEDED"}

HasProduct(ps) == ps.dir # 0 /\ folder[ps.dir] # "none"

\* JobState.load and the resume loop.
Load ==
    /\ phase = "load" /\ jobs # Corrupt
    /\ LET state == IF jobs = Absent THEN NewState ELSE jobs IN
       /\ mem' = [p \in Pairs |->
                    IF HasProduct(state[p]) THEN state[p] ELSE [state[p] EXCEPT !.dir = 0]]
       /\ todo' = { p \in Pairs : ~HasProduct(state[p]) /\ ~Resumable(state[p]) }
    /\ phase' = "credits"
    /\ UNCHANGED <<result, service, jobs, folder, account, sent, waits, left, bad, got,
                   failed, warned>>

\* jobs.json does not parse: the engine raises.
LoadCorrupt ==
    /\ phase = "load" /\ jobs = Corrupt
    /\ Leave("failed")
    /\ UNCHANGED <<service, jobs, folder, account, got, warned>>

\* _chunks: the first of the pairs that are to be submitted.
Chunk == { p \in todo : Cardinality({ q \in todo : q < p }) < Batch }

\* FAULT: only the first batch is compared with the account.
EnoughForABatch == Cardinality(Chunk) <= credits

EnoughCredits == Cardinality(todo) <= credits

CheckCredits ==
    /\ phase = "credits"
    /\ todo = {} \/ EnoughCredits
    /\ phase' = "submit"
    /\ UNCHANGED <<result, service, jobs, folder, run, account>>

\* HYP3-005: nothing is submitted.
CreditsShort ==
    /\ phase = "credits"
    /\ todo # {} /\ ~EnoughCredits
    /\ jobs' = mem
    /\ Leave("failed")
    /\ UNCHANGED <<service, folder, account, got, warned>>

\* client.submit: the service has the jobs of a batch, the engine not yet.
Submit ==
    /\ phase = "submit" /\ todo # {}
    /\ Cardinality(Known) + Cardinality(Chunk) <= MaxJobs
    /\ sent' = [p \in Chunk |-> Cardinality(Known) + Cardinality({ q \in Chunk : q <= p })]
    /\ cloud' = [j \in Jobs |->
          IF j \in Range1(sent')
          THEN [pair |-> CHOOSE p \in Chunk : sent'[p] = j, status |-> Active, expired |-> FALSE]
          ELSE cloud[j]]
    /\ credits' = credits - Cardinality(Chunk)
    /\ phase' = "record"
    /\ UNCHANGED <<result, jobs, folder, account, mem, todo, waits, left, bad, got,
                   failed, warned>>

Recorded == [p \in Pairs |->
    IF p \in DOMAIN sent
    THEN [job |-> sent[p], status |-> Active, dir |-> mem[p].dir]
    ELSE mem[p]]

\* FAULT: the state is not saved before the last batch is out.
RecordUnsaved ==
    /\ phase = "record"
    /\ mem' = Recorded
    /\ todo' = todo \ DOMAIN sent
    /\ jobs' = IF todo' = {} THEN mem' ELSE jobs
    /\ sent' = Nothing
    /\ phase' = "submit"
    /\ UNCHANGED <<result, service, folder, account, waits, left, bad, got, failed, warned>>

\* The answer arrives and the state is saved.
Record ==
    /\ phase = "record"
    /\ mem' = Recorded
    /\ jobs' = mem'
    /\ todo' = todo \ DOMAIN sent
    /\ sent' = Nothing
    /\ phase' = "submit"
    /\ UNCHANGED <<result, service, folder, account, waits, left, bad, got, failed, warned>>

SubmitDone ==
    /\ phase = "submit" /\ todo = {}
    /\ phase' = "poll" /\ waits' = 0
    /\ UNCHANGED <<result, service, jobs, folder, account, mem, todo, sent, left, bad, got,
                   failed, warned>>

Pending(state) == { p \in Pairs : state[p].job # 0 /\ state[p].status = Active }

Download == phase' = "download" /\ left' = Pairs

\* client.refresh of the pending jobs, written into the state.
Refreshed == [p \in Pairs |->
    IF p \in Pending(mem)
    THEN [mem[p] EXCEPT !.status = cloud[mem[p].job].status]
    ELSE mem[p]]

\* FAULT: the time that has passed is not counted.
PollForever ==
    /\ phase = "poll" /\ Pending(Refreshed) # {} /\ waits < MaxWaits
    /\ mem' = Refreshed /\ jobs' = mem'
    /\ UNCHANGED <<result, service, folder, account, phase, todo, sent, waits, left, bad, got,
                   failed, warned>>

\* One round of _poll with jobs still pending after it, and time left.
PollAgain ==
    /\ phase = "poll" /\ Pending(Refreshed) # {} /\ waits < MaxWaits
    /\ mem' = Refreshed /\ jobs' = mem'
    /\ waits' = waits + 1
    /\ UNCHANGED <<result, service, folder, account, phase, todo, sent, left, bad, got,
                   failed, warned>>

\* HYP3-006 names the pending jobs; what is complete is still downloaded.
PollTimeout ==
    /\ phase = "poll" /\ Pending(Refreshed) # {} /\ waits >= MaxWaits
    /\ mem' = Refreshed /\ jobs' = mem'
    /\ failed' = TRUE
    /\ told' = told \union { mem'[p].job : p \in Pending(mem') }
    /\ Download
    /\ UNCHANGED <<result, service, folder, caller, runs, lost, todo, sent, waits, bad, got,
                   warned>>

PollDone ==
    /\ phase = "poll" /\ Pending(Refreshed) = {}
    /\ mem' = Refreshed
    /\ jobs' = IF Pending(mem) = {} THEN jobs ELSE mem'
    /\ Download
    /\ UNCHANGED <<result, service, folder, account, todo, sent, waits, bad, got, failed,
                   warned>>

-----------------------------------------------------------------------------
\* The recorded product is there and valid.
Reuse(p) ==
    /\ phase = "download" /\ p \in left \ bad /\ HasProduct(mem[p])
    /\ folder[mem[p].dir] = "whole"
    /\ got' = [q \in DOMAIN got \union {p} |-> IF q = p THEN mem[p].dir ELSE got[q]]
    /\ left' = left \ {p}
    /\ UNCHANGED <<result, service, jobs, folder, account, phase, mem, todo, sent, waits,
                   bad, failed, warned>>

\* It is not: HYP3-002, and the pair is downloaded again all the same.
ReuseInvalid(p) ==
    /\ phase = "download" /\ p \in left \ bad /\ HasProduct(mem[p])
    /\ folder[mem[p].dir] # "whole"
    /\ bad' = bad \union {p}
    /\ failed' = TRUE
    /\ UNCHANGED <<result, service, jobs, folder, account, phase, mem, todo, sent, waits,
                   left, got, warned>>

\* p has no usable product yet.
Due(p) == phase = "download" /\ p \in left /\ (p \in bad \/ ~HasProduct(mem[p]))

\* HYP3-001.
JobFailed(p) ==
    /\ Due(p) /\ mem[p].status = "FAILED"
    /\ failed' = TRUE
    /\ left' = left \ {p}
    /\ UNCHANGED <<result, service, jobs, folder, account, phase, mem, todo, sent, waits,
                   bad, got, warned>>

\* Still pending when the polling timed out: passed over.
NotReady(p) ==
    /\ Due(p) /\ mem[p].status \notin {"FAILED", "SUCCEEDED"}
    /\ left' = left \ {p}
    /\ UNCHANGED <<result, service, jobs, folder, account, phase, mem, todo, sent, waits,
                   bad, got, failed, warned>>

\* HYP3-012, a warning; the state is not saved here.
Expired(p) ==
    /\ Due(p) /\ mem[p].status = "SUCCEEDED" /\ cloud[mem[p].job].expired
    /\ mem' = [mem EXCEPT ![p].job = 0, ![p].status = "EXPIRED"]
    /\ warned' = warned \union {p}
    /\ left' = left \ {p}
    /\ UNCHANGED <<result, service, jobs, folder, account, phase, todo, sent, waits, bad,
                   got, failed>>

Downloadable(p) ==
    Due(p) /\ mem[p].status = "SUCCEEDED" /\ ~cloud[mem[p].job].expired

\* The product folders below the pair's directory; find_product_dir takes the
\* first by name, whichever job it is of.
Found(p) == { j \in Known : cloud[j].pair = p /\ folder'[j] # "none" }

\* The job's zip arrives and is unpacked; w says if the service packed all of it.
Unpack(p, w) == folder' = [folder EXCEPT ![mem[p].job] = w]

DownloadValid(p) ==
    /\ Downloadable(p)
    /\ Unpack(p, "whole")
    /\ \E d \in Found(p) :
        /\ folder'[d] = "whole"
        /\ mem' = [mem EXCEPT ![p].dir = d]
        /\ got' = [q \in DOMAIN got \union {p} |-> IF q = p THEN d ELSE got[q]]
    /\ jobs' = mem'
    /\ left' = left \ {p}
    /\ UNCHANGED <<result, service, account, phase, todo, sent, waits, bad, failed, warned>>

\* HYP3-002: nothing found, or what was found lacks files.
DownloadInvalid(p) ==
    /\ Downloadable(p)
    /\ \E w \in {"none", "part", "whole"} :
        /\ Unpack(p, w)
        /\ Found(p) = {} \/ \E d \in Found(p) : folder'[d] = "part"
    /\ failed' = TRUE
    /\ left' = left \ {p}
    /\ UNCHANGED <<result, service, jobs, account, phase, mem, todo, sent, waits, bad, got,
                   warned>>

\* The loop is over: the state is saved, and the stage returns its products
\* or raises if there was any FAIL finding.
Finish ==
    /\ phase = "download" /\ left = {}
    /\ jobs' = mem
    /\ Leave(IF failed THEN "failed" ELSE "ok")
    /\ UNCHANGED <<service, folder, account, got, warned>>

\* clip_to_common_extent: HYP3-013, the products do not overlap.
FinishDisjoint ==
    /\ phase = "download" /\ left = {} /\ Cardinality(DOMAIN got) > 1
    /\ jobs' = mem
    /\ Leave("failed")
    /\ UNCHANGED <<service, folder, account, got, warned>>

-----------------------------------------------------------------------------
\* A job whose download or whose answer is under way when the run breaks off.
Torn == IF phase = "download" THEN { mem[p].job : p \in { q \in Pairs : Downloadable(q) } }
                              ELSE {}

\* A call of the service raises, or the process dies, between two writes.
BreakOff ==
    /\ phase # "idle"
    /\ Leave("failed")
    /\ \E w \in {"none", "part"} :
        \/ UNCHANGED folder
        \/ \E j \in Torn : folder' = [folder EXCEPT ![j] = IF @ = "none" THEN w ELSE "part"]
    /\ lost' = IF phase = "record" THEN lost + 1 ELSE lost
    /\ UNCHANGED <<service, jobs, caller, runs, told, got, warned>>

\* The process dies while it writes jobs.json.
DieWriting ==
    /\ phase \in {"credits", "record", "poll", "download"}
    /\ jobs' = Corrupt
    /\ Leave("failed")
    /\ UNCHANGED <<service, folder, account, got, warned>>

\* The service: a job ends; a product is not kept for ever.
JobEnds ==
    /\ \E j \in Known, s \in {"SUCCEEDED", "FAILED"} :
        cloud[j].status = Active /\ cloud' = [cloud EXCEPT ![j].status = s]
    /\ UNCHANGED <<result, credits, jobs, folder, phase, run, account>>

JobExpires ==
    /\ \E j \in Known : /\ cloud[j].status = "SUCCEEDED" /\ ~cloud[j].expired
                         /\ cloud' = [cloud EXCEPT ![j].expired = TRUE]
    /\ UNCHANGED <<result, credits, jobs, folder, phase, run, account>>

\* The user deletes a product folder, or some of its files.
UserDeletes ==
    /\ phase = "idle" /\ caller = "engine"
    /\ \E j \in Jobs, w \in {"none", "part"} :
        folder[j] = "whole" /\ folder' = [folder EXCEPT ![j] = w]
    /\ result' = "none"
    /\ UNCHANGED <<service, jobs, phase, run, account>>

\* What a started run does by itself.
Step ==
    \/ Load \/ LoadCorrupt \/ CheckCredits \/ CreditsShort
    \/ Submit \/ Record \/ SubmitDone
    \/ PollAgain \/ PollTimeout \/ PollDone
    \/ \E p \in Pairs :
          \/ Reuse(p) \/ ReuseInvalid(p) \/ JobFailed(p) \/ NotReady(p)
          \/ Expired(p) \/ DownloadValid(p) \/ DownloadInvalid(p)
    \/ Finish \/ FinishDisjoint

Next ==
    \/ Begin \/ CacheHit \/ Step
    \/ BreakOff \/ DieWriting
    \/ JobEnds \/ JobExpires \/ UserDeletes

Spec == Init /\ [][Next]_vars

FairSpec == Spec /\ WF_vars(Step)

-----------------------------------------------------------------------------
Hyp3TypeOK ==
    /\ caller \in Callers
    /\ result \in {"none", "ok", "cached", "failed"}
    /\ cloud \in [Jobs -> [pair : Pairs \union {NoPair},
                            status : {"none", Active, "SUCCEEDED", "FAILED"},
                            expired : BOOLEAN]]
    /\ credits \in 0 .. Credits
    /\ jobs \in [Pairs -> PairState] \union {Absent, Corrupt}
    /\ folder \in [Jobs -> {"none", "part", "whole"}]
    /\ phase \in {"idle", "load", "credits", "submit", "record", "poll", "download"}
    /\ mem \in [Pairs -> PairState]
    /\ todo \subseteq Pairs /\ left \subseteq Pairs /\ bad \subseteq Pairs
    /\ DOMAIN sent \subseteq todo /\ DOMAIN got \subseteq Pairs
    /\ Range1(sent) \union Range1(got) \subseteq Known
    /\ waits \in 0 .. MaxWaits
    /\ failed \in BOOLEAN /\ warned \subseteq Pairs
    /\ told \subseteq Known

Submitted(j) == cloud[j] = NoJob /\ cloud'[j] # NoJob

\* A pair is not paid for again while jobs.json names a job for it that is
\* running or whose product can still be downloaded (ADR-0020, PERF-06).
NeverPaidTwice ==
    [][\A j \in Jobs :
         Submitted(j) /\ jobs \notin {Absent, Corrupt} =>
            LET old == jobs[cloud'[j].pair].job IN old # 0 => ~Live(old)]_vars

\* Between runs jobs.json names every live job, but for one batch for each
\* answer of the service that did not arrive: "the job ids are written to
\* jobs.json at once" (ADR-0020).
JobsRemembered ==
    phase = "idle" /\ caller = "engine" /\ jobs # Corrupt =>
        LET named == IF jobs = Absent THEN {} ELSE { jobs[p].job : p \in Pairs } IN
        Cardinality({ j \in Known : Live(j) } \ named) <= Batch * lost

\* A successful stage has a complete product for every pair, except those it
\* warned about: no pair is dropped in silence, nothing half unpacked passes.
OkIsComplete ==
    phase = "idle" /\ result = "ok" =>
        \A p \in Pairs \ warned : p \in DOMAIN got /\ folder[got[p]] = "whole"
                                 /\ cloud[got[p]].pair = p

\* Whatever fails, dies, expires or times out, no job and no pair is lost.
NothingIsLost == JobsRemembered /\ OkIsComplete

\* HYP3-006's fix: "submitted job IDs are reused and polling resumes".
TimeoutResumes ==
    [][\A j \in Jobs : Submitted(j) =>
         ~ \E k \in told : cloud[k].pair = cloud'[j].pair /\ Live(k)]_vars

\* HYP3-012's fix: "Re-run the same command to resubmit that pair".
ExpiredIsResubmitted == result = "cached" => warned = {}
=============================================================================
