------------------------------ MODULE Diagnose ------------------------------
(***************************************************************************)
(* Explaining a failure.  When a stage raises, the executor diagnoses the   *)
(* logs of that attempt against a knowledge base and records the findings,  *)
(* with a retry hint and the advice to look again with `wintersar diagnose  *)
(* LOGS [--engine E]`.  A user follows that advice, or looks at any moment, *)
(* also while the stage is run again and its logs are deleted.              *)
(*                                                                         *)
(* Source: diagnose/api.py, matcher.py, kb_loader.py, parsers/, cli.py, and *)
(* the failure path of pipeline/executor.py.  A log is the set of entries   *)
(* whose patterns occur in it, the engines it looks like, and whether the   *)
(* generic parser sees a failure; texts, excerpts and counts are left out.  *)
(***************************************************************************)
EXTENDS Naturals, FiniteSets, FiniteSetsExt

CONSTANTS
    KB,            \* entries: [id, engine, severity, hint, supersedes]
    LogNames,      \* 1 .. n, in the order of the scan
    Named,         \* the engine a log's name implies, or NoEngine
    LogTexts,      \* what an engine may write: [hits, marks, best, event]
    StageEngines,  \* engines of the node
    Raised,        \* what exceptions carry: [hint, attached]
    MaxAttempts

KBEngines == {"snaphu", "isce2", "mintpy", "hyp3", "asf"}

NoEngine == "none"
NoText == [hits |-> {}, marks |-> {}, best |-> {}, event |-> {"no log"}]
NoHint == "none"

\* Rules that are not entries.
UnknownRule == 0

Ids == { e.id : e \in KB }
EntryOf(i) == CHOOSE e \in KB : e.id = i

\* What _load_dir checks.
ASSUME KBAssumption ==
    /\ \A e, f \in KB : e.id = f.id => e = f
    /\ \A e \in KB : e.supersedes \subseteq Ids
    /\ UnknownRule \notin Ids
    /\ \A t \in LogTexts : t.hits \subseteq Ids /\ t.best \subseteq t.marks
    /\ IsFiniteSet(LogNames) /\ LogNames = 1 .. Cardinality(LogNames)

\* In the shipped diagnose/kb/*.yaml no entries supersede one another in a
\* circle; the loader would not object.
ASSUME SupersessionAssumption ==
    \A S \in SUBSET KB : S # {} => \E e \in S : \A f \in S : e.id \notin f.supersedes

\* SEVERITY_ORDER.
SeverityRank(severity) == CASE severity = "FAIL" -> 0 [] severity = "WARN" -> 1 [] OTHER -> 2

VARIABLES
    stands,     \* "idle", "running", "failed" or "ok"
    runsOn,    \* the node's engine
    attempt,   \* attempts so far
    logs,      \* logs/ of the node
    rec,       \* the failure in the manifest: findings, hint
    look       \* the user's command: engine, assume, files left, findings

diagvars == <<stands, runsOn, attempt, logs, rec, look>>

NoRecord == [found |-> {}, hint |-> NoHint, exc |-> [hint |-> NoHint, attached |-> {}]]
NoLook == [at |-> "none", engine |-> NoEngine, assume |-> FALSE, files |-> {},
           left |-> {}, found |-> {}, since |-> 0]

-----------------------------------------------------------------------------
\* detect_engine: the name if the content agrees, then the content.
DetectEngine(n, t) ==
    IF Named[n] \in t.marks \/ Cardinality(t.best) # 1 THEN Named[n]
    ELSE CHOOSE e \in t.best : TRUE

EntriesForEngine(eng) ==
    IF eng = NoEngine THEN KB ELSE { e \in KB : e.engine \in {eng, "any"} }

\* match_entries: an entry also supersedes what a superseded one does.
MatchEntries(t, entries) ==
    LET hits == { e \in entries : e.id \in t.hits }
    IN  { e \in hits : \A f \in hits : e.id \notin f.supersedes }

\* FAULT: entries of other engines are not tried.
OwnEntries(t, eng) == MatchEntries(t, EntriesForEngine(eng))

\* The engine's entries and those of none; every entry if these say nothing.
MatchesFor(t, eng) ==
    LET own == MatchEntries(t, EntriesForEngine(eng))
    IN  IF own = {} THEN MatchEntries(t, KB) ELSE own

EventsFor(t, eng) == t.event \intersect {eng, "any"} # {}

Finding(rule, n) == [rule |-> rule, scope |-> n]

\* diagnose_text, and assume_failed.
DiagnoseText(n, t, requested, assume) ==
    LET eng == IF requested # NoEngine THEN requested ELSE DetectEngine(n, t)
        matches == MatchesFor(t, eng)
    IN  IF matches # {} THEN { Finding(e.id, n) : e \in matches }
        ELSE IF EventsFor(t, eng) \/ assume THEN {Finding(UnknownRule, n)} ELSE {}

\* iter_log_files: the manifest is a run record and is not read.
LogFiles == { n \in LogNames : logs[n] # NoText }

DiagnoseLogs(requested) ==
    UNION { DiagnoseText(n, logs[n], requested, FALSE) : n \in LogFiles }

\* _check_engine and, for a name it does not know, the executor's retry.
CheckEngine(e) ==
    CASE e \in KBEngines -> e
      [] e \in {"isce2_topsstack", "compass_isce3"} -> "isce2"
      [] e = "tophu" -> "snaphu"
      [] e = "asf_search" -> "asf"
      [] OTHER -> NoEngine

\* kb_engine: the name in the advice of PIPELINE-001.
AdvisedEngine(e) ==
    CASE e \in KBEngines -> e [] e = "isce2_topsstack" -> "isce2" [] OTHER -> NoEngine

\* attach_retry_hint: of the most severe finding whose entry has one, in the
\* order of sort_findings.
RetryHint(found) ==
    LET hinted == { e \in KB : e.hint # NoHint /\ \E f \in found : f.rule = e.id }
        before(d, e) == \/ SeverityRank(d.severity) < SeverityRank(e.severity)
                        \/ d.severity = e.severity /\ d.id <= e.id
    IN  IF hinted = {} THEN NoHint
        ELSE (CHOOSE d \in hinted : \A e \in hinted : before(d, e)).hint

\* _retry_hint of the executor: the exception's, then of a finding it brings,
\* then of the logs.
RecordedHint(exc, found) ==
    IF exc.hint # NoHint THEN exc.hint
    ELSE IF exc.attached # {} THEN CHOOSE h \in exc.attached : TRUE
    ELSE RetryHint(found)

-----------------------------------------------------------------------------
\* prepare_node_dir deletes the logs of the last attempt with everything else.
Emptied == [n \in LogNames |-> NoText]

TryStage ==
    /\ stands \in {"idle", "failed"} /\ attempt < MaxAttempts
    /\ stands' = "running"
    /\ attempt' = attempt + 1
    /\ logs' = Emptied
    /\ rec' = NoRecord
    /\ UNCHANGED <<runsOn, look>>

WriteLog(n, t) ==
    /\ stands = "running" /\ logs[n] = NoText
    /\ logs' = [logs EXCEPT ![n] = t]
    /\ UNCHANGED <<stands, runsOn, attempt, rec, look>>

StageSucceeds ==
    /\ stands = "running"
    /\ stands' = "ok"
    /\ UNCHANGED <<runsOn, attempt, logs, rec, look>>

\* _on_failure; the node is still locked.
OnFailure(exc) ==
    /\ stands = "running"
    /\ stands' = "failed"
    /\ LET found == DiagnoseLogs(CheckEngine(runsOn))
       IN  rec' = [found |-> found, hint |-> RecordedHint(exc, found), exc |-> exc]
    /\ UNCHANGED <<runsOn, attempt, logs, look>>

\* `wintersar diagnose LOGS`, which takes no lock: lists the files,
LookUp(eng, assume) ==
    /\ look.at = "none"
    /\ look' = [NoLook EXCEPT !.at = "reading", !.engine = eng, !.assume = assume,
                              !.files = LogFiles, !.left = LogFiles, !.since = attempt]
    /\ UNCHANGED <<stands, runsOn, attempt, logs, rec>>

\* then reads one after another.
ReadNext ==
    /\ look.at = "reading" /\ look.left # {}
    /\ LET n == Min(look.left)
           assume == look.assume /\ Cardinality(look.files) = 1
       IN  look' = IF logs[n] = NoText
                   THEN [look EXCEPT !.at = "traceback"]    \* FileNotFoundError
                   ELSE [look EXCEPT !.left = @ \ {n},
                           !.found = @ \union DiagnoseText(n, logs[n], look.engine, assume)]
    /\ UNCHANGED <<stands, runsOn, attempt, logs, rec>>

\* A directory in which nothing was found, though the user knows it failed.
LookEnds ==
    /\ look.at = "reading" /\ look.left = {}
    /\ look' = IF look.found # {} \/ ~look.assume \/ look.files = {}
               THEN [look EXCEPT !.at = "done"]
               ELSE IF logs[Max(look.files)] = NoText
                    THEN [look EXCEPT !.at = "traceback"]
                    ELSE [look EXCEPT !.at = "done",
                                      !.found = {Finding(UnknownRule, Max(look.files))}]
    /\ UNCHANGED <<stands, runsOn, attempt, logs, rec>>

-----------------------------------------------------------------------------
DiagInit ==
    /\ stands = "idle" /\ runsOn \in StageEngines /\ attempt = 0
    /\ logs = Emptied /\ rec = NoRecord /\ look = NoLook

DiagNext ==
    \/ TryStage \/ StageSucceeds
    \/ \E n \in LogNames, t \in LogTexts : WriteLog(n, t)
    \/ \E exc \in Raised : OnFailure(exc)
    \/ \E eng \in {NoEngine, AdvisedEngine(runsOn)}, assume \in BOOLEAN : LookUp(eng, assume)
    \/ ReadNext \/ LookEnds

DiagSpec == DiagInit /\ [][DiagNext]_diagvars

-----------------------------------------------------------------------------
\* A log that somebody should hear about.
ShowsFailure(t) == t.hits # {} \/ "any" \in t.event

\* One scope never blames a cause and what that cause explains.
Consistent(found) ==
    \A f, g \in found :
        f.scope = g.scope /\ g.rule # UnknownRule => f.rule \notin EntryOf(g.rule).supersedes

\* A failure that is in a log of this attempt is in the record, and nothing of
\* another attempt is; and whoever follows the advice of the record sees what
\* it saw, with the same hint unless the exception brought one.  (For an
\* engine whose name the advice does not know, see the README.)
FailureIsExplained ==
    /\ stands = "failed" =>
        /\ \A n \in LogNames : ShowsFailure(logs[n]) => \E f \in rec.found : f.scope = n
        /\ \A f \in rec.found : logs[f.scope] # NoText
        /\ Consistent(rec.found)
    /\ look.at = "done" =>
        /\ look.assume /\ look.files # {} => look.found # {}
        /\ Consistent(look.found)
    /\ /\ look.at = "done" /\ stands = "failed" /\ look.since = attempt
       /\ look.files = LogFiles /\ ~look.assume
       /\ look.engine = AdvisedEngine(runsOn) /\ AdvisedEngine(runsOn) = CheckEngine(runsOn)
       => /\ look.found = rec.found
          /\ rec.exc.hint = NoHint /\ rec.exc.attached = {} => rec.hint = RetryHint(look.found)
=============================================================================
