------------------------------ MODULE AuxCache ------------------------------
(***************************************************************************)
(* The shared cache of auxiliary downloads (orbits): processes that ask for *)
(* one key at the same time.                                                *)
(*                                                                         *)
(* cache/<namespace>/<hash>/ holds the files and a .complete marker;        *)
(* <hash>.lock, created exclusively, is its lock.  A process that finds no  *)
(* marker takes the lock, fetches into a directory of its own and renames   *)
(* that into place.  A lock older than twice the time-out is taken for one  *)
(* of a dead process: any waiter unlinks it, in a step after it judged its  *)
(* age, and whoever creates the file next owns it.  Processes die anywhere. *)
(*                                                                         *)
(* Source: engines/aux_cache.py.  Time is abstracted to "the lock is older  *)
(* than 2 * lock_timeout_s"; the deadline of a waiter may pass whenever it  *)
(* waits.  prune() has no caller and is left out.                           *)
(***************************************************************************)
EXTENDS Integers, FiniteSets

CONSTANTS
    Fetchers,     \* processes that call cached_fetch for the key
    NoFetcher     \* "no lock file"

ASSUME FetcherAssumption == NoFetcher \notin Fetchers

FetchStep == {"idle", "wait", "steal", "check", "fetch", "discard", "rename",
              "release"}

Answer == {"none", "entry", "offline", "timeout", "failed"}

VARIABLES
    shelf,    \* what the entry directory holds: "files", "marker"
    there,    \* the entry directory exists
    lockfile, \* [by |-> who created it, old |-> past twice the time-out]
    listed,   \* what a process has still to unlink of the old entry
    step,     \* where every process is in cached_fetch
    answer,   \* what its call came to
    stolen    \* history: the lock of a live process was unlinked

auxvars == <<shelf, there, lockfile, listed, step, answer, stolen>>

Unlocked == [by |-> NoFetcher, old |-> FALSE]

Marked == "marker" \in shelf

Whole == there /\ shelf = {"files", "marker"}

\* Between os.open(O_CREAT | O_EXCL) and the unlink in `finally`.
Inside(c) == step[c] \in {"check", "fetch", "discard", "rename", "release"}

Goes(c, to) == step' = [step EXCEPT ![c] = to]
Answers(c, a) == answer' = [answer EXCEPT ![c] = a]

\* FAULT: the lock that was judged stale is left where it is.
LockLeft(c) == IF step[c] = "steal" THEN lockfile ELSE Unlocked

LockRemoved(c) == Unlocked

\* The lock file is unlinked, whoever's it is.
Unlink(c) ==
    /\ lockfile' = LockRemoved(c)
    /\ stolen' = (stolen \/ \E d \in Fetchers \ {c} : lockfile.by = d /\ Inside(d))

-----------------------------------------------------------------------------
\* The marker alone answers a call; offline nothing else does.
Call(c) ==
    /\ step[c] = "idle"
    /\ \/ Marked /\ Answers(c, "entry") /\ UNCHANGED step
       \/ ~Marked /\ Answers(c, "offline") /\ UNCHANGED step
       \/ ~Marked /\ Answers(c, "none") /\ Goes(c, "wait")
    /\ UNCHANGED <<shelf, there, lockfile, listed, stolen>>

Acquire(c) ==
    /\ step[c] = "wait"
    /\ lockfile = Unlocked
    /\ lockfile' = [by |-> c, old |-> FALSE]
    /\ Goes(c, "check")
    /\ UNCHANGED <<shelf, there, listed, answer, stolen>>

\* The age of the lock is looked at in one step ...
Judge(c) ==
    /\ step[c] = "wait"
    /\ lockfile.old
    /\ Goes(c, "steal")
    /\ UNCHANGED <<shelf, there, lockfile, listed, answer, stolen>>

\* ... and the file of that name is unlinked in another.
Steal(c) ==
    /\ step[c] = "steal"
    /\ Unlink(c)
    /\ Goes(c, "wait")
    /\ UNCHANGED <<shelf, there, listed, answer>>

\* FAULT: a waiter that gives up removes the lock as well.
AfterTimeout == "release"

\* CacheLockTimeoutError is raised before the `try` that releases.
GivesUp == "idle"

Timeout(c) ==
    /\ step[c] = "wait"
    /\ lockfile # Unlocked /\ ~lockfile.old
    /\ Goes(c, GivesUp)
    /\ Answers(c, "timeout")
    /\ UNCHANGED <<shelf, there, lockfile, listed, stolen>>

\* Another process filled the entry while this one waited.
FilledMeanwhile == Marked

Check(c) ==
    /\ step[c] = "check"
    /\ IF FilledMeanwhile THEN Goes(c, "release") /\ Answers(c, "entry")
                          ELSE Goes(c, "fetch") /\ UNCHANGED answer
    /\ UNCHANGED <<shelf, there, lockfile, listed, stolen>>

\* The download fails or yields no file; or marker and key.json join the
\* files in the directory of its own.
Fetch(c) ==
    /\ step[c] = "fetch"
    /\ \/ Goes(c, "release") /\ Answers(c, "failed") /\ UNCHANGED listed
       \/ /\ Goes(c, IF there THEN "discard" ELSE "rename")
          /\ listed' = [listed EXCEPT ![c] = shelf]
          /\ UNCHANGED answer
    /\ UNCHANGED <<shelf, there, lockfile, stolen>>

\* shutil.rmtree(entry, ignore_errors=True): the files it listed one by one,
\* then the directory, unless something is in it again.
Discard(c) ==
    /\ step[c] = "discard"
    /\ \/ \E f \in listed[c] :
            /\ shelf' = shelf \ {f}
            /\ listed' = [listed EXCEPT ![c] = @ \ {f}]
            /\ UNCHANGED <<there, step>>
       \/ /\ listed[c] = {}
          /\ there' = (there /\ shelf # {})
          /\ Goes(c, "rename")
          /\ UNCHANGED <<shelf, listed>>
    /\ UNCHANGED <<lockfile, answer, stolen>>

\* A rename onto a directory that is not empty raises.
Publish(c) ==
    /\ step[c] = "rename"
    /\ Goes(c, "release")
    /\ IF there /\ shelf # {}
       THEN Answers(c, "failed") /\ UNCHANGED <<shelf, there>>
       ELSE /\ shelf' = {"files", "marker"}
            /\ there' = TRUE
            /\ Answers(c, "entry")
    /\ UNCHANGED <<lockfile, listed, stolen>>

ReleaseEntry(c) ==
    /\ step[c] = "release"
    /\ Unlink(c)
    /\ Goes(c, "idle")
    /\ UNCHANGED <<shelf, there, listed, answer>>

FetchWork(c) ==
    \/ Acquire(c) \/ Judge(c) \/ Steal(c) \/ Timeout(c) \/ Check(c)
    \/ Fetch(c) \/ Discard(c) \/ Publish(c) \/ ReleaseEntry(c)

\* A process dies, and is started again: its lock file stays.
FetcherDies(c) ==
    /\ step[c] # "idle"
    /\ Goes(c, "idle")
    /\ Answers(c, "none")
    /\ listed' = [listed EXCEPT ![c] = {}]
    /\ UNCHANGED <<shelf, there, lockfile, stolen>>

\* The lock has been there for more than twice the time-out.
LockAges ==
    /\ lockfile # Unlocked
    /\ lockfile' = [lockfile EXCEPT !.old = TRUE]
    /\ UNCHANGED <<shelf, there, listed, step, answer, stolen>>

-----------------------------------------------------------------------------
AuxInit ==
    /\ shelf = {}
    /\ there = FALSE
    /\ lockfile = Unlocked
    /\ listed = [c \in Fetchers |-> {}]
    /\ step = [c \in Fetchers |-> "idle"]
    /\ answer = [c \in Fetchers |-> "none"]
    /\ stolen = FALSE

AuxNext ==
    \/ \E c \in Fetchers : Call(c) \/ FetchWork(c) \/ FetcherDies(c)
    \/ LockAges

AuxSpec == AuxInit /\ [][AuxNext]_auxvars

\* A process in cached_fetch is scheduled; locks grow old; and a waiter,
\* whose deadline passes once and for all, does not poll forever.
AuxFairness ==
    /\ \A c \in Fetchers : WF_auxvars(FetchWork(c))
    /\ \A c \in Fetchers : SF_auxvars(Acquire(c) \/ Timeout(c))
    /\ WF_auxvars(LockAges)

AuxFairSpec == AuxSpec /\ AuxFairness

-----------------------------------------------------------------------------
(* Properties.                                                              *)

AuxTypeOK ==
    /\ shelf \subseteq {"files", "marker"}
    /\ there \in BOOLEAN
    /\ lockfile \in [by : Fetchers \union {NoFetcher}, old : BOOLEAN]
    /\ listed \in [Fetchers -> SUBSET {"files", "marker"}]
    /\ step \in [Fetchers -> FetchStep]
    /\ answer \in [Fetchers -> Answer]
    /\ stolen \in BOOLEAN

\* As long as no lock of a live process was taken for stale: one process at a
\* time is at the entry, a marker stands for a whole entry, and a directory
\* that is removed to make room is one without a marker, whoever died where.
OneAtTheEntry ==
    ~stolen =>
        /\ Cardinality({c \in Fetchers : Inside(c)}) <= 1
        /\ Marked => Whole
        /\ \A c \in Fetchers : step[c] = "discard" => ~Marked

\* A call ends: a dead process's lock is removed, a live one's released.
CallsEnd == \A c \in Fetchers : step[c] # "idle" ~> step[c] = "idle"
=============================================================================
