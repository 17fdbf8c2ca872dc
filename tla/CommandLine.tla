---------------------------- MODULE CommandLine ----------------------------
(***************************************************************************)
(* How a `wintersar --json` process answers, and what its callers make of   *)
(* it: the envelope {ok, command, data, findings} and the exit code of      *)
(* every way a command can end; the masking of what is written; how the     *)
(* plugin finds an interpreter and turns the process into a response.       *)
(*                                                                         *)
(* Source: util/{output,clihelp,masking}.py, cli.py, qgis cli_client.py.    *)
(* No state.  Findings are kept as "ok", texts and languages are left out,  *)
(* and of the masks only the one of the home directory is kept.             *)
(***************************************************************************)
EXTENDS Naturals

CONSTANTS
    Projects,     \* configuration files, each with a work directory
    Home,         \* those below the user's home directory
    Software       \* what is installed: "exe", "interpreter", "launcher", "script"

ASSUME HomeAssumption == Home \subseteq Projects
ASSUME SoftwareAssumption == Software \subseteq {"exe", "interpreter", "launcher", "script"}

-----------------------------------------------------------------------------
(* Paths and payloads.                                                      *)

PathKinds == {"workdir", "candidates", "log", "product"}

\* A path below the work directory of a project; run tells products apart.
FilePath(p, what, run) == [of |-> p, what |-> what, run |-> run, tilde |-> FALSE]

\* mask_text: the home directory is written as `~`, in every string.
MaskedPath(file) == [file EXCEPT !.tilde = @ \/ file.of \in Home]

\* Path(x): nothing reads `~` as the home directory.
Resolves(file) == ~file.tilde

\* mask_mapping of a payload, whose paths all start as this one does.
MaskedData(d) == IF "path" \in DOMAIN d THEN [d EXCEPT !.path = MaskedPath(@)] ELSE d

NoPayload == [kind |-> "none"]

ErrorData == [kind |-> "error"]    \* {"error": detail} of an unexpected exception

-----------------------------------------------------------------------------
(* The ends of a command.  `lost` is a process that wrote no envelope.      *)

NoEnvelope == [ok |-> FALSE, data |-> [kind |-> "lost"]]

\* emit_json.
Emit(ok, payload) == [ok |-> ok, data |-> MaskedData(payload)]

\* Bad input or usage: exit_with_findings, a usage error of click.
Refused == [code |-> 2, out |-> Emit(FALSE, NoPayload)]

\* An action that failed: _fail.
ActionFailed == [code |-> 1, out |-> Emit(FALSE, NoPayload)]

\* A report (search, diagnose, ...): the exit code does not depend on it.
Reported(ok, payload) == [code |-> 0, out |-> Emit(ok, payload)]

\* FAULT: ok= is forgotten.
OkForgotten(ok, payload) ==
    [code |-> IF ok THEN 0 ELSE 1, out |-> Emit(TRUE, payload)]

\* plan and run: exit code 1 unless ok.
Judged(ok, payload) == [code |-> IF ok THEN 0 ELSE 1, out |-> Emit(ok, payload)]

\* An exception nobody expected: report_unexpected.
Unexpected == [code |-> 1, out |-> Emit(FALSE, ErrorData)]

\* Killed, aborted, or an interpreter without wintersar.
Lost(code) == [code |-> code, out |-> NoEnvelope]

-----------------------------------------------------------------------------
(* The client of the plugin.                                                *)

Hints == {"none", "bad", "python", "venv", "conda", "pixi", "uv"}

Settings == [exe : BOOLEAN, hint : Hints]

\* resolve_command: python_exe, then the hint, then the script on PATH.
ResolveCommand(s) ==
    CASE s.exe -> "exe"
      [] ~s.exe /\ s.hint = "bad" -> "invalid"
      [] ~s.exe /\ \/ s.hint = "python"
                   \/ s.hint \in {"venv", "conda", "uv"} /\ "interpreter" \in Software
                   \/ s.hint \in {"conda", "pixi", "uv"} /\ "launcher" \in Software -> "hinted"
      [] OTHER -> IF "script" \in Software THEN "script" ELSE "nothing"

\* What Popen starts is there, and has wintersar.
Starts(s) ==
    /\ ResolveCommand(s) \notin {"invalid", "nothing"}
    /\ s.exe => "exe" \in Software
    /\ ~s.exe /\ s.hint = "python" => "interpreter" \in Software

Failure(id) == [ok |-> FALSE, data |-> NoPayload, error |-> id]

\* run(): a cancelled or timed-out process is not asked for its envelope.
Response(proc, stopped) ==
    CASE stopped = "cancelled" -> Failure("CANCELLED")
      [] stopped = "timeout" -> Failure("TIMEOUT")
      [] stopped = "no" /\ proc.out = NoEnvelope ->
            Failure(IF proc.code = 0 THEN "INVALID_JSON" ELSE "CLI_ERROR")
      [] OTHER -> [ok |-> proc.out.ok, data |-> proc.out.data, error |-> "none"]
=============================================================================
