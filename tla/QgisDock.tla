------------------------------ MODULE QgisDock ------------------------------
(***************************************************************************)
(* The QGIS dock and the client it runs `wintersar` with.                   *)
(*                                                                         *)
(* A button starts a job: a worker thread that makes a client, starts the   *)
(* CLI in a process group of its own, waits for it, joins the two threads   *)
(* that read its pipes and puts the response on the queue that a timer of   *)
(* the GUI thread drains.  The CLI starts engines, which may keep its pipes *)
(* open, may ignore SIGTERM and may hang.  Cancel and the time-out signal   *)
(* the group, SIGTERM first and SIGKILL after a grace period.               *)
(*                                                                         *)
(* Source: qgis_plugin/wintersar_qgis/{dock_widget,cli_client}.py, POSIX.   *)
(* Widgets, tables and layers are left out.  A tick of the timer drains the *)
(* queue; a message is a step of its own, as the threads put messages there *)
(* while it does.  The CLI ends when it will: after its engines, by a crash *)
(* or killed by others while they go on.                                    *)
(***************************************************************************)
EXTENDS Integers, Sequences

CONSTANTS
    Commands,     \* the buttons that start a job
    MaxJobs,      \* bound: jobs started
    MaxQueue      \* bound: length of the queue at which lines pause

DockJobs == 1 .. MaxJobs

ASSUME JobAssumption == MaxJobs \in Nat \ {0} /\ MaxQueue \in Nat
ASSUME CommandAssumption ==
    Commands \subseteq {"check-install", "init", "search", "precheck", "plan",
                        "run", "diagnose", "refpoint", "validate"}

\* Jobs that go through _client_call, which remembers the client.
Tracked(c) == c \notin {"check-install", "init"}

\* The text fields a handler insists on before it starts its job.
Needs(c) ==
    CASE c \in {"search", "plan", "run", "diagnose"} -> {"config"}
      [] c = "precheck" -> {"config", "candidates"}
      [] c = "refpoint" -> {"series"}
      [] c = "validate" -> {"series", "truth"}
      [] OTHER -> {}

\* What a successful answer fills in.
Yields(c) ==
    CASE c = "init" -> {"config"} [] c = "search" -> {"candidates"} [] OTHER -> {}

ThreadState == {"none", "spawned", "client", "popen", "wait", "kill", "join",
                "report", "put", "dead"}

Response == {"none", "CLI_NOT_FOUND", "CANCELLED", "TIMEOUT", "CLI_ERROR",
             "ok", "not ok"}

Message == [kind : {"line", "done"}, job : DockJobs]

VARIABLES
    cmd,      \* the command of every job started
    thread,   \* its worker thread
    leader,   \* the CLI process: up, exited, or waited for as well
    engine,   \* engines in its group: none, or holding its pipes or not
    wantStop, \* _cancel_requested of its client
    signalled,\* cancel() returned True for it
    killer,   \* a thread that will escalate to SIGKILL
    reply,    \* its response
    started,  \* number of jobs started; the last one is self._thread
    client,   \* the job whose client is self._client; 0 for none
    queue,    \* from the threads to the GUI
    shown,    \* responses handed to their on_done, in order
    status,   \* the status line: 0, or the job it says is running
    fields,   \* text fields that are filled in
    unloaded  \* shutdown() was called

procs == <<leader, engine, killer>>
gui == <<started, client, shown, status, fields, unloaded>>
dockvars == <<cmd, thread, leader, engine, wantStop, signalled, killer, reply,
              started, client, queue, shown, status, fields, unloaded>>

-----------------------------------------------------------------------------
Alive(j) == thread[j] \notin {"none", "dead"}

\* client._proc is set.
HasProcess(j) == thread[j] \in {"wait", "kill", "join"}

Moves(j, to) == thread' = [thread EXCEPT ![j] = to]

GroupGone(j) == leader[j] # "up" /\ engine[j] = "none"

\* FAULT: SIGKILL goes to the CLI and not to its group.
KillLeader(j) ==
    /\ leader' = [leader EXCEPT ![j] = IF @ = "up" THEN "exited" ELSE @]
    /\ UNCHANGED engine

\* SIGKILL to the process group.
KillGroup(j) ==
    /\ leader' = [leader EXCEPT ![j] = IF @ = "up" THEN "exited" ELSE @]
    /\ engine' = [engine EXCEPT ![j] = "none"]

-----------------------------------------------------------------------------
(* The GUI thread.                                                          *)

\* A handler checks its fields; a second job is refused while one lives.
Click(c) ==
    /\ ~unloaded
    /\ started < MaxJobs
    /\ Needs(c) \subseteq fields
    /\ started > 0 => ~Alive(started)
    /\ started' = started + 1
    /\ cmd' = [cmd EXCEPT ![started + 1] = c]
    /\ Moves(started + 1, "spawned")
    /\ status' = started + 1
    /\ UNCHANGED <<procs, wantStop, signalled, reply, client, queue, shown,
                   fields, unloaded>>

TypeField(f) ==
    /\ ~unloaded
    /\ f \notin fields
    /\ fields' = fields \union {f}
    /\ UNCHANGED <<cmd, thread, procs, wantStop, signalled, reply, started,
                   client, queue, shown, status, unloaded>>

\* The loop of _drain_queue: a line goes to the log, a response to its on_done.
Drain ==
    LET m == Head(queue)
    IN  /\ ~unloaded
        /\ queue # <<>>
        /\ queue' = Tail(queue)
        /\ IF m.kind = "line"
           THEN UNCHANGED <<shown, status, fields>>
           ELSE /\ shown' = Append(shown, m.job)
                /\ status' = 0
                /\ fields' = IF reply[m.job] = "ok"
                             THEN fields \union Yields(cmd[m.job]) ELSE fields
        /\ UNCHANGED <<cmd, thread, procs, wantStop, signalled, reply, started,
                       client, unloaded>>

\* FAULT: only a client whose process still runs notes the request.
NotedIfUp(j) == leader[j] = "up"

\* The request is noted under the client's lock, whatever the process does.
Noted(j) == TRUE

\* client.cancel(): outside the lock the group, found through its leader
\* unless that was waited for already, gets SIGTERM, and a thread to escalate.
CancelClient ==
    IF client # 0 /\ HasProcess(client)
    THEN /\ wantStop' = [wantStop EXCEPT ![client] = Noted(client)]
         /\ IF leader[client] # "waited"
            THEN /\ signalled' = [signalled EXCEPT ![client] = TRUE]
                 /\ killer' = [killer EXCEPT ![client] = TRUE]
            ELSE UNCHANGED <<signalled, killer>>
    ELSE UNCHANGED <<wantStop, signalled, killer>>

Cancel ==
    /\ ~unloaded
    /\ CancelClient
    /\ UNCHANGED <<cmd, thread, leader, engine, reply, queue, gui>>

\* The plugin is unloaded: cancel, and the timer stops.
Shutdown ==
    /\ ~unloaded
    /\ unloaded' = TRUE
    /\ CancelClient
    /\ UNCHANGED <<cmd, thread, leader, engine, reply, started, client, queue,
                   shown, status, fields>>

-----------------------------------------------------------------------------
(* The worker thread of a job.                                              *)

MakeClient(j) ==
    /\ thread[j] = "spawned"
    /\ client' = IF Tracked(cmd[j]) THEN j ELSE client
    /\ Moves(j, "client")
    /\ UNCHANGED <<cmd, procs, wantStop, signalled, reply, started, queue,
                   shown, status, fields, unloaded>>

\* No interpreter, or Popen raises; or the CLI is there, not yet registered.
Popen(j) ==
    /\ thread[j] = "client"
    /\ \/ /\ Moves(j, "report")
          /\ reply' = [reply EXCEPT ![j] = "CLI_NOT_FOUND"]
          /\ UNCHANGED leader
       \/ /\ Moves(j, "popen")
          /\ leader' = [leader EXCEPT ![j] = "up"]
          /\ UNCHANGED reply
    /\ UNCHANGED <<cmd, engine, killer, wantStop, signalled, queue, gui>>

\* self._proc = proc; self._cancel_requested = False
Register(j) ==
    /\ thread[j] = "popen"
    /\ Moves(j, "wait")
    /\ wantStop' = [wantStop EXCEPT ![j] = FALSE]
    /\ UNCHANGED <<cmd, procs, signalled, reply, queue, gui>>

\* The reader of stderr hands a line on; it may lag behind the process.
LineRead(j) ==
    /\ HasProcess(j)
    /\ Len(queue) < MaxQueue
    /\ queue' = Append(queue, [kind |-> "line", job |-> j])
    /\ UNCHANGED <<cmd, thread, procs, wantStop, signalled, reply, gui>>

\* proc.wait() returns.
Waited(j) ==
    /\ thread[j] = "wait"
    /\ leader[j] = "exited"
    /\ leader' = [leader EXCEPT ![j] = "waited"]
    /\ Moves(j, "join")
    /\ UNCHANGED <<cmd, engine, killer, wantStop, signalled, reply, queue, gui>>

\* The time-out: SIGTERM to the group ...
TimesOut(j) ==
    /\ thread[j] = "wait"
    /\ leader[j] = "up"
    /\ Moves(j, "kill")
    /\ reply' = [reply EXCEPT ![j] = "TIMEOUT"]
    /\ UNCHANGED <<cmd, procs, wantStop, signalled, queue, gui>>

\* FAULT: the time-out kills the CLI alone.
EngineSpared(j) == engine[j]

EngineKilled(j) == "none"

\* ... and, in the same thread, SIGKILL after the grace period.
Kills(j) ==
    /\ thread[j] = "kill"
    /\ engine' = [engine EXCEPT ![j] = EngineKilled(j)]
    /\ leader' = [leader EXCEPT ![j] = "waited"]
    /\ Moves(j, "join")
    /\ UNCHANGED <<cmd, killer, wantStop, signalled, reply, queue, gui>>

\* The readers see the end of the pipes when nobody holds them any more.
PipesClosed(j) == engine[j] # "holding"

\* Cancelled first, then timed out, then what the CLI printed.
Joined(j) ==
    /\ thread[j] = "join"
    /\ PipesClosed(j)
    /\ \E r \in {"ok", "not ok", "CLI_ERROR"} :
         reply' = [reply EXCEPT ![j] = IF wantStop[j] THEN "CANCELLED"
                                       ELSE IF @ = "TIMEOUT" THEN @ ELSE r]
    /\ wantStop' = [wantStop EXCEPT ![j] = FALSE]
    /\ Moves(j, "report")
    /\ UNCHANGED <<cmd, procs, signalled, queue, gui>>

Reported(j) == <<[kind |-> "done", job |-> j]>>

Report(j) ==
    /\ thread[j] = "report"
    /\ queue' = queue \o Reported(j)
    /\ Moves(j, "put")
    /\ UNCHANGED <<cmd, procs, wantStop, signalled, reply, gui>>

ThreadEnds(j) ==
    /\ thread[j] = "put"
    /\ Moves(j, "dead")
    /\ UNCHANGED <<cmd, procs, wantStop, signalled, reply, queue, gui>>

Worker(j) ==
    \/ MakeClient(j) \/ Popen(j) \/ Register(j) \/ Waited(j) \/ TimesOut(j)
    \/ Kills(j) \/ Joined(j) \/ Report(j) \/ ThreadEnds(j)

-----------------------------------------------------------------------------
(* The processes.                                                           *)

Signals(j) == killer[j] \/ thread[j] = "kill"

EngineStarts(j) ==
    /\ leader[j] = "up" /\ engine[j] = "none" /\ ~Signals(j)
    /\ \E e \in {"holding", "quiet"} : engine' = [engine EXCEPT ![j] = e]
    /\ UNCHANGED <<cmd, thread, leader, killer, wantStop, signalled, reply,
                   queue, gui>>

EngineEnds(j) ==
    /\ engine[j] # "none"
    /\ engine' = [engine EXCEPT ![j] = "none"]
    /\ UNCHANGED <<cmd, thread, leader, killer, wantStop, signalled, reply,
                   queue, gui>>

\* The CLI returns, crashes or is killed, signalled by the client or not.  An
\* engine that is alive stays, and with it its end of the pipes.
LeaderExits(j) ==
    /\ leader[j] = "up"
    /\ leader' = [leader EXCEPT ![j] = "exited"]
    /\ UNCHANGED <<cmd, thread, engine, killer, wantStop, signalled, reply,
                   queue, gui>>

\* _escalate: the grace period is over, or the CLI is gone; whatever is left
\* of the group is killed.
Escalate(j) ==
    /\ killer[j]
    /\ killer' = [killer EXCEPT ![j] = FALSE]
    /\ KillGroup(j)
    /\ UNCHANGED <<cmd, thread, wantStop, signalled, reply, queue, gui>>

-----------------------------------------------------------------------------
DockInit ==
    /\ cmd = [j \in DockJobs |-> "none"]
    /\ thread = [j \in DockJobs |-> "none"]
    /\ leader = [j \in DockJobs |-> "none"]
    /\ engine = [j \in DockJobs |-> "none"]
    /\ wantStop = [j \in DockJobs |-> FALSE]
    /\ signalled = [j \in DockJobs |-> FALSE]
    /\ killer = [j \in DockJobs |-> FALSE]
    /\ reply = [j \in DockJobs |-> "none"]
    /\ started = 0
    /\ client = 0
    /\ queue = <<>>
    /\ shown = <<>>
    /\ status = 0
    /\ fields = {}
    /\ unloaded = FALSE

DockNext ==
    \/ \E c \in Commands : Click(c)
    \/ \E f \in UNION {Needs(c) : c \in Commands} : TypeField(f)
    \/ Drain \/ Cancel \/ Shutdown
    \/ \E j \in DockJobs : \/ Worker(j) \/ LineRead(j) \/ EngineStarts(j)
                       \/ EngineEnds(j) \/ LeaderExits(j) \/ Escalate(j)

DockSpec == DockInit /\ [][DockNext]_dockvars

\* The threads of the plugin are scheduled, its timer ticks, and time-outs
\* and grace periods pass; nothing is assumed of the CLI and its engines.
DockFairness ==
    /\ WF_dockvars(Drain)
    /\ \A j \in DockJobs : WF_dockvars(Worker(j)) /\ WF_dockvars(Escalate(j))

DockFairSpec == DockSpec /\ DockFairness

-----------------------------------------------------------------------------
(* Properties.                                                              *)

DockTypeOK ==
    /\ cmd \in [DockJobs -> Commands \union {"none"}]
    /\ thread \in [DockJobs -> ThreadState]
    /\ leader \in [DockJobs -> {"none", "up", "exited", "waited"}]
    /\ engine \in [DockJobs -> {"none", "holding", "quiet"}]
    /\ wantStop \in [DockJobs -> BOOLEAN]
    /\ signalled \in [DockJobs -> BOOLEAN]
    /\ killer \in [DockJobs -> BOOLEAN]
    /\ reply \in [DockJobs -> Response]
    /\ started \in 0 .. MaxJobs
    /\ client \in 0 .. MaxJobs
    /\ queue \in Seq(Message)
    /\ shown \in Seq(DockJobs)
    /\ status \in 0 .. MaxJobs
    /\ fields \subseteq {"config", "candidates", "series", "truth"}
    /\ unloaded \in BOOLEAN

\* A cancel that signalled the processes of a job is what the job answers,
\* whether they ended by themselves at the same moment or timed out.
CancelIsAnswered ==
    \A j \in DockJobs :
        signalled[j] /\ thread[j] \in {"report", "put", "dead"} =>
            reply[j] = "CANCELLED"

\* Every response reaches its on_done once, in the order of the jobs, after
\* the last line of its job; nothing is left when the thread is dead and the
\* queue is empty.
AnsweredInOrder ==
    /\ \A i \in DOMAIN shown : shown[i] = i
    /\ \A i \in DOMAIN queue : \A k \in DOMAIN queue :
          queue[i].kind = "done" /\ i < k => queue[k].job > queue[i].job
    /\ queue = <<>> /\ started > 0 /\ ~Alive(started) =>
          Len(shown) = started /\ status = 0

\* Every job is answered once, in its turn, with what became of it.
JobsAreAnswered == CancelIsAnswered /\ AnsweredInOrder

\* A group that was signalled is gone in the end, engines that ignore SIGTERM
\* and a CLI that exits before them included.
SignalledGroupDies == \A j \in DockJobs : signalled[j] ~> GroupGone(j)

\* The CLI ended by itself and was waited for in time, before any cancel; an
\* engine that it left behind holds its pipes, and the worker joins the threads
\* that read them, without a limit (cli_client.py:797-798).
Abandoned(j) ==
    /\ thread[j] = "join" /\ engine[j] = "holding"
    /\ ~signalled[j] /\ reply[j] # "TIMEOUT"

\* The dock does not stay in "running", whatever else hangs or dies: a CLI that
\* never ends, engines that ignore SIGTERM, with or without the pipes, and an
\* engine that outlives its CLI as long as it ends one day.  Only an engine
\* that a CLI left behind by itself and that holds its pipes for ever keeps
\* the dock there: neither the time-out nor Cancel reaches it.
JobIsShown ==
    \A j \in DockJobs :
        started = j ~> \/ status # j \/ unloaded
                       \/ []Abandoned(j)
=============================================================================
