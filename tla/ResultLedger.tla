---------------------------- MODULE ResultLedger ----------------------------
(***************************************************************************)
(* What `wintersar run` promises of its results, without a cache: runs that *)
(* are at work, a ledger of the versions that stages have produced, and     *)
(* reports.                                                                *)
(*                                                                         *)
(* A version, once entered, never changes; it is kept until some execution  *)
(* makes room for another one, and never comes back.  A run reports one     *)
(* version per stage in a single step: versions of these stages that belong *)
(* together, whoever produced them and whenever.  RunCache, with its        *)
(* directories, manifests and locks, implements this.                       *)
(***************************************************************************)
EXTENDS Integers

CONSTANTS
    Runs,         \* `wintersar run` processes
    Depth,        \* number of stages
    DataStages,   \* stages whose result depends on the date set itself
    Data,         \* date sets
    Requests,     \* command lines
    MaxClock,     \* bound: number of versions
    NoData        \* "no date set"

VARIABLES
    version,  \* what every version is of, for and from
    count,    \* versions in the ledger
    kept,     \* versions that are still on disk
    job,      \* what every run does
    asked,    \* the command line of a run that is at work or done
    report    \* versions that a run that is done reports

ledger == <<version, count, kept>>
ledgervars == <<version, count, kept, job, asked, report>>

Versions == 1 .. count

NoVersion == [stage |-> 0, data |-> NoData, read |-> 0]
NothingAsked == [data |-> NoData, start |-> 1]
NoReport == [s \in 1 .. Depth |-> 0]

\* The versions f belong together, for this command line.  The stages before
\* --from may be stood in for by any version of theirs.  What a version that
\* is gone was computed from cannot be checked any more.
Coherent(f, q) ==
    \A s \in 1 .. Depth :
        /\ f[s] \in Versions /\ version[f[s]].stage = s
        /\ s >= q.start =>
             /\ s \in DataStages => version[f[s]].data = q.data
             /\ s > 1 /\ f[s - 1] \in kept => version[f[s]].read = f[s - 1]

LedgerInit ==
    /\ version = [t \in 1 .. MaxClock |-> NoVersion]
    /\ count = 0
    /\ kept = {}
    /\ job = [r \in Runs |-> "idle"]
    /\ asked = [r \in Runs |-> NothingAsked]
    /\ report = [r \in Runs |-> NoReport]

Start(r) ==
    /\ job[r] # "working"
    /\ job' = [job EXCEPT ![r] = "working"]
    /\ \E q \in Requests :
         asked' = [asked EXCEPT ![r] = [data |-> q.data, start |-> q.start]]
    /\ report' = [report EXCEPT ![r] = NoReport]
    /\ UNCHANGED ledger

\* A stage of a run at work produces a version, from a version of the stage
\* before or from a mixture of several (0).
Produce(r) ==
    /\ job[r] = "working"
    /\ count < MaxClock
    /\ count' = count + 1
    /\ \E s \in 1 .. Depth, t \in 0 .. count :
         /\ t # 0 => s > 1 /\ version[t].stage = s - 1
         /\ version' = [version EXCEPT ![count + 1] =
                          [stage |-> s, data |-> asked[r].data, read |-> t]]
    /\ kept' \in { K \union {count + 1} : K \in SUBSET kept }
    /\ UNCHANGED <<job, asked, report>>

\* Room is made for a version that a run at work is about to produce.
Lose(r) ==
    /\ job[r] = "working"
    /\ kept' \in SUBSET kept
    /\ UNCHANGED <<version, count, job, asked, report>>

Finish(r) ==
    /\ job[r] = "working"
    /\ \E f \in [1 .. Depth -> Versions] :
         Coherent(f, asked[r]) /\ report' = [report EXCEPT ![r] = f]
    /\ job' = [job EXCEPT ![r] = "done"]
    /\ UNCHANGED <<ledger, asked>>

\* It fails, is stopped, or dies.
Fail(r) ==
    /\ job[r] = "working"
    /\ job' = [job EXCEPT ![r] = "idle"]
    /\ asked' = [asked EXCEPT ![r] = NothingAsked]
    /\ UNCHANGED <<ledger, report>>

LedgerNext ==
    \E r \in Runs : Start(r) \/ Produce(r) \/ Lose(r) \/ Finish(r) \/ Fail(r)

LedgerSpec == LedgerInit /\ [][LedgerNext]_ledgervars
=============================================================================
