----------------------------- MODULE DockPanels -----------------------------
(***************************************************************************)
(* The panels of the QGIS dock: what each button hands to the CLI, what the *)
(* command leaves on disk and answers, and what the handler of the answer   *)
(* makes the panels show and later buttons use.                             *)
(*                                                                         *)
(* A click settles the arguments of a job; the answer arrives later, while  *)
(* the user may have gone on typing.  The tables are filled by handlers,    *)
(* and "load", "apply" and "plot" index what the dock remembers by the row  *)
(* selected in a table.                                                     *)
(*                                                                         *)
(* Source: qgis_plugin/wintersar_qgis/{dock_widget,settings,plugin}.py, the *)
(* commands in select/cli.py, pipeline/cli.py, validate/cli.py,             *)
(* diagnose/cli.py and cli.py.  Threads and signals are in QgisDock, the    *)
(* form in ConfigForm.  Layers, colours and texts are left out.  QGIS is    *)
(* closed only when no job runs.                                            *)
(***************************************************************************)
EXTENDS CommandLine, Sequences

CONSTANTS
    NoProject,    \* an empty configuration field
    WorkdirSetting,    \* project.workdir of each file: "absolute", else a relative name
    Interpreters,      \* interpreter settings the user saves
    RankedPoints,       \* answers of refpoint: ranked points
    Sites,        \* answers of validate: compared sites
    NoPoint,
    MaxJobs,      \* bound: jobs started
    MaxTypings    \* bound: edits of the fields, restarts, map clicks

ASSUME NoProjectAssumption == NoProject \notin Projects
ASSUME WorkdirAssumption == DOMAIN WorkdirSetting = Projects
ASSUME InterpretersAssumption == Interpreters \subseteq Settings
ASSUME PanelBoundAssumption == MaxJobs \in Nat /\ MaxTypings \in Nat

Buttons == {"init", "search", "precheck", "plan", "run", "diagnose", "refpoint", "validate"}

MaybeProject == Projects \union {NoProject}

NoPath == FilePath(NoProject, "workdir", 0)

NoDockJob == [cmd |-> "idle", config |-> NoProject, path |-> NoPath, phase |-> "none",
         proc |-> Lost(0), stopped |-> "no", id |-> 0]

NothingShown == [cmd |-> "idle", config |-> NoProject, word |-> "idle", answer |-> NoPayload]

VARIABLES
    settings,     \* the interpreter the client is made for
    stored,       \* settings file: the last fields saved
    configFiles,      \* files: configuration files that exist
    searched,        \* files: candidates.json of a project
    summary,      \* files: the newest work/runs/*.json of a project
    jobs, typings,\* jobs and edits so far
    field, candField,           \* config_path, candidates_path
    opened,       \* the file config_data was read from
    dockJob,          \* the worker thread and its process
    inbox,        \* answers on their way to the GUI thread
    shown,       \* the command the status line is about, and its answer
    lastRun, artifacts,         \* last_run, the table of artifacts
    lastRefpoints, refpoints, picked, reference,
    lastSites, sites, plotted,
    layers        \* raster layers added to the project

files == <<configFiles, searched, summary>>
fields == <<field, candField, opened>>
runPanel == <<lastRun, artifacts, layers>>
refPanel == <<lastRefpoints, refpoints, picked, reference>>
sitePanel == <<lastSites, sites, plotted>>
panelvars == <<settings, stored, files, jobs, typings, fields, dockJob, inbox, shown,
               runPanel, refPanel, sitePanel>>

-----------------------------------------------------------------------------
(* Rows of the tables.                                                      *)

Row(name, raster, file) == [name |-> name, raster |-> raster, path |-> file]

\* artifact_rows: of a run's answer, and nothing of any other payload.
ArtifactRows(d) ==
    IF d.kind # "run" THEN << >>
    ELSE LET product == [d.path EXCEPT !.what = "product"]
         IN CASE d.ended = "ok" -> << Row("manifest", FALSE, product), Row("cog", TRUE, product) >>
              [] d.ended \in {"failed", "cached"} -> << Row("cog", TRUE, product) >>
              [] OTHER -> << >>

RowsOf(d, kind) == IF d.kind = kind THEN d.rows ELSE << >>

\* failed_log_dir: only an executed stage has a log.
FailedLog(d) ==
    IF d.kind = "run" /\ d.ended = "failed" THEN [d.path EXCEPT !.what = "log"] ELSE NoPath

\* resolve_workdir(path field, config_data): the setting is that of the file
\* opened, and a relative one is taken from the directory of the path field.
\* It may be no project's work directory.
Workdir(p) ==
    LET set == IF opened = NoProject THEN "./work" ELSE WorkdirSetting[opened]
    IN CASE set = "absolute" -> FilePath(opened, "workdir", 0)
         [] set # "absolute" /\ set = WorkdirSetting[p] -> FilePath(p, "workdir", 0)
         [] OTHER -> NoPath

Layer(row) == row.raster /\ Resolves(row.path)

-----------------------------------------------------------------------------
(* Clicks that start a job.                                                 *)

\* A second job is refused while the thread of one lives.
Starting(command, project, file) ==
    /\ jobs < MaxJobs
    /\ dockJob.phase = "none"
    /\ jobs' = jobs + 1
    /\ dockJob' = [NoDockJob EXCEPT !.cmd = command, !.config = project, !.path = file,
                           !.phase = "started", !.id = jobs + 1]
    /\ shown' = [cmd |-> command, config |-> project, word |-> "running", answer |-> NoPayload]
    /\ UNCHANGED <<settings, stored, files, typings, fields, inbox, runPanel, refPanel, sitePanel>>

ClickInit == \E p \in Projects : Starting("init", p, NoPath)

ClickSearch == field # NoProject /\ Starting("search", field, NoPath)

ClickPrecheck ==
    /\ field # NoProject /\ candField # NoPath
    /\ Starting("precheck", field, candField)

ClickPlan == field # NoProject /\ Starting("plan", field, NoPath)

ClickRun == field # NoProject /\ Starting("run", field, NoPath)

\* The failed stage of the last run, else the work directory.
ClickDiagnose ==
    IF FailedLog(lastRun) # NoPath THEN Starting("diagnose", NoProject, FailedLog(lastRun))
    ELSE field # NoProject /\ Starting("diagnose", NoProject, Workdir(field))

ClickRefpoint == Starting("refpoint", NoProject, NoPath)

ClickValidate == Starting("validate", NoProject, NoPath)

-----------------------------------------------------------------------------
(* The process.                                                             *)

\* The worker finds no interpreter, or one that does not start.
NotFound ==
    /\ dockJob.phase = "started"
    /\ ~Starts(settings)
    /\ inbox' = Append(inbox, [cmd |-> dockJob.cmd, config |-> dockJob.config,
                               answer |-> Failure("CLI_NOT_FOUND")])
    /\ dockJob' = NoDockJob
    /\ UNCHANGED <<settings, stored, files, jobs, typings, fields, shown, runPanel, refPanel,
                   sitePanel>>

\* The CLI of the job runs.
CliRuns(command) ==
    /\ dockJob.phase = "started" /\ dockJob.cmd = command /\ dockJob.stopped = "no"
    /\ Starts(settings)

\* It ends as `proc`, having changed the disk or not.
Ends(proc) ==
    /\ dockJob' = [dockJob EXCEPT !.phase = "exited", !.proc = proc]
    /\ UNCHANGED <<settings, stored, jobs, typings, fields, inbox, shown, runPanel, refPanel,
                   sitePanel>>

\* init --force.
CliInit ==
    /\ CliRuns("init")
    /\ Ends(Reported(TRUE, NoPayload))
    /\ configFiles' = configFiles \union {dockJob.config}
    /\ UNCHANGED <<searched, summary>>

\* Whatever was found is saved, FAIL findings or not.
CliSearch ==
    /\ CliRuns("search")
    /\ IF dockJob.config \notin configFiles THEN Ends(Refused) /\ UNCHANGED files
       ELSE LET file == FilePath(dockJob.config, "candidates", 0)
            IN \E n \in {"empty", "some"}, ok \in BOOLEAN :
                 /\ Ends(Reported(ok, [kind |-> "search", path |-> file]))
                 /\ searched' = [searched EXCEPT ![dockJob.config] = n]
                 /\ UNCHANGED <<configFiles, summary>>

\* precheck --no-fail: the candidates must be there and not empty.
CliPrecheck ==
    /\ CliRuns("precheck")
    /\ IF \/ dockJob.config \notin configFiles
          \/ ~Resolves(dockJob.path) \/ searched[dockJob.path.of] # "some"
       THEN Ends(Refused)
       ELSE \E ok \in BOOLEAN : Ends(Reported(ok, [kind |-> "stacks"]))
    /\ UNCHANGED files

CliPlan ==
    /\ CliRuns("plan")
    /\ IF dockJob.config \notin configFiles THEN Ends(Refused)
       ELSE \E ok \in BOOLEAN : Ends(Judged(ok, [kind |-> "plan"]))
    /\ UNCHANGED files

RunData(p, ended, run) == [kind |-> "run", ended |-> ended, path |-> FilePath(p, "workdir", run)]

\* A run before this session, and the last one that left a summary.
EarlierRuns(p) == {0} \union (IF summary[p].kind = "run" THEN {summary[p].path.run} ELSE {})

\* RunResult: a run that ended well or failed has artifacts, counted as its own
\* also where a stage was served from the cache.  One that a FAIL of the plan
\* kept from starting has those of its cached stages, made by an earlier run
\* ("cached"), or none ("blocked").
RunResults(p) ==
    { RunData(p, ended, dockJob.id) : ended \in {"ok", "failed", "blocked"} }
    \union { RunData(p, "cached", n) : n \in EarlierRuns(p) }

\* _write_run_summary: masked, as all that is printed.
Summarised(d) ==
    /\ summary' = [summary EXCEPT ![dockJob.config] = MaskedData(d)]
    /\ UNCHANGED <<configFiles, searched>>

\* The summary is written before the answer.
CliRun ==
    /\ CliRuns("run")
    /\ IF dockJob.config \notin configFiles THEN Ends(Refused) /\ UNCHANGED files
       ELSE \E d \in RunResults(dockJob.config) : Ends(Judged(d.ended = "ok", d)) /\ Summarised(d)

\* The path must be there: a work directory need not be, of a run that was
\* never started.
CliDiagnose ==
    /\ CliRuns("diagnose")
    /\ \/ /\ ~Resolves(dockJob.path) \/ dockJob.path.what = "workdir"
          /\ Ends(Refused)
       \/ /\ Resolves(dockJob.path) /\ dockJob.path # NoPath
          /\ \E ok \in BOOLEAN : Ends(Reported(ok, [kind |-> "logs"]))
    /\ UNCHANGED files

\* A series that cannot be read fails; no candidate is reported as not ok.
CliRefpoint ==
    /\ CliRuns("refpoint")
    /\ \/ Ends(ActionFailed)
       \/ \E ps \in RankedPoints : Ends(Reported(ps # << >>, [kind |-> "points", rows |-> ps]))
    /\ UNCHANGED files

CliValidate ==
    /\ CliRuns("validate")
    /\ \/ Ends(ActionFailed)
       \/ \E ss \in Sites, ok \in BOOLEAN :
            Ends(Reported(ok, [kind |-> "sites", rows |-> ss]))
    /\ UNCHANGED files

\* Any command: an exception nobody expected.
CliRaises == CliRuns(dockJob.cmd) /\ Ends(Unexpected) /\ UNCHANGED files

\* The user cancels, or the time is over: the process is killed before it
\* ends, a run perhaps after its summary was written; or it had just ended.
Stop(why) ==
    /\ dockJob.phase \in {"started", "exited"} /\ dockJob.stopped = "no"
    /\ Starts(settings)
    /\ why = "timeout" => dockJob.phase = "started"
    /\ dockJob' = [dockJob EXCEPT !.stopped = why, !.phase = "exited"]
    /\ \/ UNCHANGED files
       \/ /\ CliRuns("run") /\ dockJob.config \in configFiles
          /\ \E d \in RunResults(dockJob.config) : Summarised(d)
    /\ UNCHANGED <<settings, stored, jobs, typings, fields, inbox, shown, runPanel, refPanel,
                   sitePanel>>

\* The thread reads the process and is gone.
ThreadAnswers ==
    /\ dockJob.phase = "exited"
    /\ inbox' = Append(inbox, [cmd |-> dockJob.cmd, config |-> dockJob.config,
                               answer |-> Response(dockJob.proc, dockJob.stopped)])
    /\ dockJob' = NoDockJob
    /\ UNCHANGED <<settings, stored, files, jobs, typings, fields, shown, runPanel, refPanel,
                   sitePanel>>

Process ==
    \/ NotFound \/ CliInit \/ CliSearch \/ CliPrecheck \/ CliPlan \/ CliRun
    \/ CliDiagnose \/ CliRefpoint \/ CliValidate \/ CliRaises
    \/ Stop("cancelled") \/ Stop("timeout") \/ ThreadAnswers

-----------------------------------------------------------------------------
(* Answers.                                                                 *)

\* _refresh_results: what the dock remembers, else the newest summary in the
\* work directory, which it then remembers.
Refreshed(d) ==
    LET used == IF d = NoPayload /\ field # NoProject /\ Workdir(field) # NoPath
                THEN summary[Workdir(field).of] ELSE d
    IN lastRun' = used /\ artifacts' = ArtifactRows(used) /\ UNCHANGED layers

\* init: the new file becomes the project, and is read.
InitAnswered(project, a) ==
    /\ field' = IF a.ok THEN project ELSE field
    /\ opened' = IF a.ok /\ project \in configFiles THEN project ELSE opened
    /\ UNCHANGED <<candField, runPanel, refPanel, sitePanel>>

SearchAnswered(a) ==
    /\ candField' = IF a.data.kind = "search" THEN a.data.path ELSE candField
    /\ UNCHANGED <<field, opened, runPanel, refPanel, sitePanel>>

\* FAULT: the table waits for "Refresh".
RememberOnly(a) ==
    /\ lastRun' = a.data
    /\ UNCHANGED <<artifacts, layers, fields, refPanel, sitePanel>>

RunAnswered(a) == Refreshed(a.data) /\ UNCHANGED <<fields, refPanel, sitePanel>>

RefpointAnswered(a) ==
    /\ lastRefpoints' = RowsOf(a.data, "points")
    /\ refpoints' = RowsOf(a.data, "points")
    /\ UNCHANGED <<fields, runPanel, picked, reference, sitePanel>>

ValidateAnswered(a) ==
    /\ lastSites' = RowsOf(a.data, "sites")
    /\ sites' = RowsOf(a.data, "sites")
    /\ UNCHANGED <<fields, runPanel, refPanel, plotted>>

\* precheck and plan fill tables that nothing is read from.
OtherAnswered == UNCHANGED <<fields, runPanel, refPanel, sitePanel>>

\* _drain_queue: one answer.
Drain ==
    /\ inbox # << >>
    /\ LET m == Head(inbox)
       IN /\ shown' = [cmd |-> m.cmd, config |-> m.config, answer |-> m.answer.data,
                        word |-> IF m.answer.ok THEN "done" ELSE "failed"]
          /\ CASE m.cmd = "init" -> InitAnswered(m.config, m.answer)
               [] m.cmd = "search" -> SearchAnswered(m.answer)
               [] m.cmd = "run" -> RunAnswered(m.answer)
               [] m.cmd = "refpoint" -> RefpointAnswered(m.answer)
               [] m.cmd = "validate" -> ValidateAnswered(m.answer)
               [] OTHER -> OtherAnswered
    /\ inbox' = Tail(inbox)
    /\ UNCHANGED <<settings, stored, files, jobs, typings, dockJob>>

-----------------------------------------------------------------------------
(* What the user does without the CLI.                                      *)

Typing == typings < MaxTypings /\ typings' = typings + 1

Quiet == UNCHANGED <<files, jobs, dockJob, inbox, shown>>

\* The path is typed or browsed; "Open" reads the file.
TypeConfig(p) ==
    /\ Typing /\ field # p
    /\ field' = p
    /\ Quiet /\ UNCHANGED <<settings, stored, candField, opened, runPanel, refPanel, sitePanel>>

OpenConfig ==
    /\ Typing
    /\ field \in configFiles /\ opened # field
    /\ opened' = field
    /\ Quiet /\ UNCHANGED <<settings, stored, field, candField, runPanel, refPanel, sitePanel>>

TypeCandidates(p) ==
    LET file == FilePath(p, "candidates", 0)
    IN /\ Typing /\ candField # file
       /\ candField' = file
       /\ Quiet /\ UNCHANGED <<settings, stored, field, opened, runPanel, refPanel, sitePanel>>

\* _save_settings: the interpreter, and the fields for the next session.
SaveSettings ==
    /\ Typing
    /\ settings' \in Interpreters
    /\ stored' = [config |-> field, candidates |-> candField]
    /\ Quiet /\ UNCHANGED <<fields, runPanel, refPanel, sitePanel>>

NewPanels ==
    /\ lastRun' = NoPayload /\ artifacts' = << >>
    /\ lastRefpoints' = << >> /\ refpoints' = << >> /\ picked' = NoPoint /\ reference' = NoPoint
    /\ lastSites' = << >> /\ sites' = << >> /\ plotted' = << >>

\* QGIS is closed and opened: a new dock on the fields of the settings file.
Restart ==
    /\ Typing
    /\ dockJob.phase = "none" /\ inbox = << >>
    /\ field' = stored.config /\ candField' = stored.candidates
    /\ opened' = IF stored.config \in configFiles THEN stored.config ELSE NoProject
    /\ NewPanels /\ layers' = {}
    /\ shown' = NothingShown
    /\ UNCHANGED <<settings, stored, files, jobs, dockJob, inbox>>

ClickRefresh ==
    /\ Refreshed(lastRun)
    /\ Quiet /\ UNCHANGED <<settings, stored, typings, fields, refPanel, sitePanel>>

\* _load_selected: the row selected in the table, of what is remembered.
LoadSelected(r) ==
    /\ r \in DOMAIN artifacts
    /\ LET rows == ArtifactRows(lastRun)
       IN /\ r \in DOMAIN rows
          /\ Layer(rows[r])
          /\ layers' = layers \union {rows[r].path}
    /\ Quiet /\ UNCHANGED <<settings, stored, typings, fields, lastRun, artifacts, refPanel,
                               sitePanel>>

LoadAllRasters ==
    LET rows == ArtifactRows(lastRun)
    IN /\ layers' = layers \union {rows[r].path : r \in {i \in DOMAIN rows : Layer(rows[i])}}
       /\ Quiet /\ UNCHANGED <<settings, stored, typings, fields, lastRun, artifacts, refPanel,
                               sitePanel>>

\* A click on the map; nothing takes it back.
PickOnMap(pt) ==
    /\ Typing
    /\ picked' = pt
    /\ Quiet /\ UNCHANGED <<settings, stored, fields, runPanel, lastRefpoints, refpoints, reference,
                            sitePanel>>

\* _apply_refpoint: the point clicked on the map before the row selected.
ApplyRefpoint(r) ==
    /\ \/ picked # NoPoint /\ reference' = picked
       \/ /\ picked = NoPoint
          /\ r \in DOMAIN refpoints /\ r \in DOMAIN lastRefpoints
          /\ reference' = lastRefpoints[r]
    /\ Quiet /\ UNCHANGED <<settings, stored, typings, fields, runPanel, lastRefpoints, refpoints,
                            picked, sitePanel>>

\* _plot_selected_site, when the selection changes.
PlotSelected(r) ==
    /\ r \in DOMAIN sites /\ r \in DOMAIN lastSites
    /\ plotted' = << lastSites[r] >>
    /\ Quiet /\ UNCHANGED <<settings, stored, typings, fields, runPanel, refPanel, lastSites, sites>>

-----------------------------------------------------------------------------
(* The panels, top to bottom.                                               *)

EnvBox == SaveSettings

AoiPanel == ClickSearch \/ ClickPrecheck \/ \E p \in Projects : TypeCandidates(p)

ConfigPanel == ClickInit \/ OpenConfig \/ \E p \in MaybeProject : TypeConfig(p)

RunPanel == ClickPlan \/ ClickRun \/ ClickDiagnose

ResultsPanel == ClickRefresh \/ LoadAllRasters \/ \E r \in {1, 2} : LoadSelected(r)

RefpointPanel ==
    \/ ClickRefpoint
    \/ \E ps \in RankedPoints : \E i \in DOMAIN ps : PickOnMap(ps[i])
    \/ \E r \in {1, 2} : ApplyRefpoint(r)

ValidatePanel == ClickValidate \/ \E r \in {1, 2} : PlotSelected(r)

PanelsInit ==
    /\ settings \in Interpreters
    /\ stored = [config |-> NoProject, candidates |-> NoPath]
    /\ configFiles \in SUBSET Projects
    /\ searched = [p \in Projects |-> "none"]
    /\ summary = [p \in Projects |-> NoPayload]
    /\ jobs = 0 /\ typings = 0
    /\ field = NoProject /\ candField = NoPath /\ opened = NoProject
    /\ dockJob = NoDockJob /\ inbox = << >>
    /\ shown = NothingShown
    /\ lastRun = NoPayload /\ artifacts = << >> /\ layers = {}
    /\ lastRefpoints = << >> /\ refpoints = << >> /\ picked = NoPoint /\ reference = NoPoint
    /\ lastSites = << >> /\ sites = << >> /\ plotted = << >>

PanelsNext ==
    \/ EnvBox \/ AoiPanel \/ ConfigPanel \/ RunPanel \/ ResultsPanel \/ RefpointPanel
    \/ ValidatePanel \/ Process \/ Drain \/ Restart

PanelsSpec == PanelsInit /\ [][PanelsNext]_panelvars

-----------------------------------------------------------------------------
(* Properties.                                                              *)

PanelsTypeOK ==
    /\ settings \in Settings
    /\ configFiles \subseteq Projects
    /\ searched \in [Projects -> {"none", "empty", "some"}]
    /\ jobs \in 0 .. MaxJobs /\ typings \in 0 .. MaxTypings
    /\ field \in MaybeProject /\ opened \in MaybeProject
    /\ dockJob.phase \in {"none", "started", "exited"}
    /\ Len(inbox) <= MaxJobs
    /\ shown.word \in {"idle", "running", "done", "failed"}

\* "Load selected", "apply" and "plot" act on the row the user sees: a new
\* layer is a raster row of the table, a new reference point is in the table or
\* is the point shown as picked, a plotted site is in the table.  Answers of
\* other jobs, refreshes and a change of project come in between
\* (dock_widget.py:1554-1575, 1693-1707, 1799-1843).
WhatIsShownIsUsed ==
    [][/\ \A file \in layers' \ layers : \E r \in DOMAIN artifacts :
            artifacts[r].raster /\ artifacts[r].path = file
       /\ reference' \notin {reference, NoPoint} =>
            reference' = picked \/ \E r \in DOMAIN refpoints : refpoints[r] = reference'
       /\ plotted' \notin {plotted, << >>} => \E r \in DOMAIN sites : plotted' = << sites[r] >>]_panelvars

\* The status line says "done" only of a command that did its work: the file
\* of its project written, a run that reached its end; whatever was cancelled, timed out,
\* refused or failed on the way (cli_client.py:789-829, util/output.py:64-77).
DoneIsDone ==
    shown.word = "done" =>
        CASE shown.cmd = "search" -> searched[shown.answer.path.of] # "none"
          [] shown.cmd = "run" -> shown.answer.kind = "run" /\ shown.answer.ended = "ok"
          [] shown.cmd = "init" -> shown.config \in configFiles
          [] shown.cmd = "refpoint" -> refpoints # << >>
          [] OTHER -> shown.answer.kind \notin {"none", "error"}

\* The results panel lists rasters that can be loaded: they were made by the
\* last run and nothing removed them (qgis_plugin/README.md:55).
LastRunLoads == \A r \in DOMAIN artifacts : artifacts[r].raster => Layer(artifacts[r])
=============================================================================
