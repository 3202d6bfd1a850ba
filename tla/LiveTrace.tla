----------------------------- MODULE LiveTrace ------------------------------
(***************************************************************************)
(* The GUI's live trace: a runner script (ZephyrRunner) writes a file,     *)
(* always the same one, that a timer reads again and again from its start, *)
(* while the user launches further runs or loads other traces.  Qt runs    *)
(* one event at a time.  When a script has been stopped or has ended, so   *)
(* has its tee (ZephyrRunner!JobEnded).                                    *)
(***************************************************************************)
EXTENDS Naturals, SequencesExt, FiniteSetsExt

CONSTANTS
    Text,        \* trace lines, which parseRawTraceLine accepts
    Noise,       \* whatever else the emulator prints
    CutOf,       \* how a trace line reads when its last digits are not
                 \* written yet: as another trace line
    MaxLaunch,   \* bound: runs
    MaxLines     \* bound: lines of each run

VARIABLES
    proc,        \* liveTraceProcess: [st, kind]; st is "null", "running"
                 \* or "done" (QProcess::NotRunning)
    run,         \* History: the number of the latest run
    script,      \* "off", "setup", "writing", "ok" or "failed"
    file,        \* [exists, lines]; a line is [run, text, form]
    seen,        \* liveTraceSeen
    rows,        \* the table: [text, run, line, whole, at]; all but the text
                 \* is history: which run wrote the line, which line of its
                 \* file, if it was read whole, in which run it came in
    timer,       \* liveTraceTimer is active
    suppress,    \* suppressAiRunnerExitWarning
    closed,      \* the window is
    touched,     \* History: the table was replaced since the latest launch
    swallowed,   \* History: runs that ended by themselves and unreported
    unreleased,  \* History: runs launched over one that had ended and that
                 \* no poll had let go of
    summary      \* History: [total, wrote] of the latest summary box

vars == <<proc, run, script, file, seen, rows, timer, suppress, closed,
          touched, swallowed, unreleased, summary>>
history == <<touched, swallowed, unreleased, summary>>

Null == [st |-> "null", kind |-> "none"]

(* There may be a trace from an earlier session.                            *)
Init == /\ proc = Null /\ run = 0 /\ script = "off"
        /\ \/ file = [exists |-> FALSE, lines |-> <<>>]
           \/ \E t \in Text : file = [exists |-> TRUE, lines |->
                              <<[run |-> 0, text |-> t, form |-> "whole"]>>]
        /\ seen = {} /\ rows = <<>>
        /\ timer = FALSE /\ suppress = FALSE /\ closed = FALSE
        /\ touched = FALSE /\ swallowed = {} /\ unreleased = {}
        /\ summary = [total |-> 0, wrote |-> 0]

-----------------------------------------------------------------------------
(* The readers.  Of a line being written there is a stub that does not      *)
(* parse, or all but the last digits of its value.                          *)
Parses(l) == l.text \in Text /\ l.form # "stub"
Reading(l) == IF l.form = "cut" THEN CutOf[l.text] ELSE l.text
AsRow(k) == LET l == file.lines[k]
            IN  [text |-> Reading(l), run |-> l.run, line |-> k,
                 whole |-> l.form = "whole", at |-> run]

Texts(rs) == {rs[i].text : i \in DOMAIN rs}

(* The lines that parse, and the rows of those among the first k.           *)
Counted == {k \in DOMAIN file.lines : Parses(file.lines[k])}
Entries[k \in 0..Len(file.lines)] ==
    IF k = 0 THEN <<>>
    ELSE IF k \in Counted THEN Append(Entries[k - 1], AsRow(k))
    ELSE Entries[k - 1]

(* pollLiveTrace: the lines that are new, each text once.  Mutants: the     *)
(* scan ends at a line that does not parse; texts are not remembered.       *)
Scanned[k \in 0..Len(file.lines)] ==
    IF k = 0 THEN <<>>
    ELSE IF /\ k \in Counted
            /\ Reading(file.lines[k]) \notin seen \cup Texts(Scanned[k - 1])
         THEN Append(Scanned[k - 1], AsRow(k))
    ELSE Scanned[k - 1]

NewRowsBreakMutant ==
    Scanned[Max({k \in 0..Len(file.lines) : 1..k \subseteq Counted})]
NewRowsAllMutant == Entries[Len(file.lines)]
NewRows == Scanned[Len(file.lines)]

(* Mutant: the process is looked at only when something was added.          *)
PollMutant ==
    /\ timer /\ ~closed
    /\ file.exists
    /\ rows' = rows \o NewRows
    /\ seen' = seen \cup Texts(NewRows)
    /\ IF proc.st = "done" /\ NewRows # <<>>
         THEN timer' = FALSE /\ proc' = Null
         ELSE UNCHANGED <<timer, proc>>
    /\ UNCHANGED <<run, script, file, suppress, closed, history>>

(* A file that cannot be opened: nothing happens, for ever if need be.      *)
Poll ==
    /\ timer /\ ~closed
    /\ file.exists
    /\ rows' = rows \o NewRows
    /\ seen' = seen \cup Texts(NewRows)
    /\ IF proc.st = "done" THEN timer' = FALSE /\ proc' = Null
                           ELSE UNCHANGED <<timer, proc>>
    /\ UNCHANGED <<run, script, file, suppress, closed, history>>

-----------------------------------------------------------------------------
(* Launches.  stopProcessAndDelete waits until a running process has        *)
(* ended, and its finished handler takes the flag back; of one that has     *)
(* ended the handler has been.                                              *)
SuppressAfterStop == CASE proc.st = "running" -> FALSE
                       [] proc.st = "done"    -> TRUE
                       [] OTHER               -> suppress

(* runAiPerformanceScenario ("measure") and the Enumerate button.  bash may *)
(* fail to start, which ends neither handler nor timer.                     *)
Launch(kind) ==
    /\ ~closed /\ run < MaxLaunch
    /\ run' = run + 1
    /\ \E st \in {"running", "done"} :
          /\ proc' = [st |-> st, kind |-> kind]
          /\ script' = IF st = "running" THEN "setup" ELSE "off"
    /\ unreleased' = IF proc.st = "done" THEN unreleased \cup {run + 1}
                                         ELSE unreleased
    /\ seen' = {} /\ timer' = TRUE
    /\ rows' = IF kind = "enumerate" THEN <<>> ELSE rows
    /\ suppress' = SuppressAfterStop
    /\ touched' = FALSE
    /\ UNCHANGED <<file, closed, swallowed, summary>>

(* loadCsv replaces the table, the PCI enumeration does as well; neither    *)
(* touches what the poll has seen.                                          *)
LoadOther == /\ ~closed /\ ~touched
             /\ rows' = <<>>
             /\ touched' = TRUE
             /\ UNCHANGED <<proc, run, script, file, seen, timer, suppress,
                            closed, swallowed, unreleased, summary>>

(* The window closes: process and timer go.                                 *)
closeEvent == /\ ~closed
              /\ closed' = TRUE
              /\ proc' = Null /\ script' = "off" /\ timer' = FALSE
              /\ suppress' = (suppress \/ proc.st = "done")
              /\ UNCHANGED <<run, file, seen, rows, history>>

-----------------------------------------------------------------------------
(* The script and its tee.                                                  *)
ScriptSteps ==
    UNCHANGED <<proc, run, seen, rows, timer, suppress, closed, history>>

SetupFails == /\ script = "setup" /\ script' = "failed"
              /\ UNCHANGED file /\ ScriptSteps

TeeOpens == /\ script = "setup" /\ script' = "writing"
            /\ file' = [exists |-> TRUE, lines |-> <<>>]
            /\ ScriptSteps

Forms == {"stub", "cut", "whole"}
WriteLine ==
    /\ script = "writing" /\ Len(file.lines) < MaxLines[run]
    /\ file.lines # <<>> => Last(file.lines).form = "whole"
    /\ \E t \in Text \cup {Noise}, f \in Forms :
          file' = [file EXCEPT !.lines =
                      Append(file.lines, [run |-> run, text |-> t, form |-> f])]
    /\ UNCHANGED script /\ ScriptSteps

WriteOn ==
    /\ script = "writing" /\ file.lines # <<>>
    /\ Last(file.lines).form # "whole"
    /\ file' = [file EXCEPT !.lines[Len(file.lines)].form = "whole"]
    /\ UNCHANGED script /\ ScriptSteps

ScriptEnds == /\ script = "writing" /\ script' \in {"ok", "failed"}
              /\ UNCHANGED file /\ ScriptSteps

-----------------------------------------------------------------------------
(* QProcess::finished.                                                      *)
Wrote == Cardinality({k \in Counted : file.lines[k].run = run})

(* summarizeTraceFile, and summarizeModelRows in its stead.  Mutant: the    *)
(* other way round.                                                         *)
TotalMutant == IF rows # <<>> THEN Len(rows) ELSE Cardinality(Counted)
Total == IF Counted # {} THEN Cardinality(Counted) ELSE Len(rows)

(* Mutant: the flag is not taken back.                                      *)
SuppressAfterFinishMutant == suppress
SuppressAfterFinish == FALSE

Report ==
    CASE proc.kind = "measure" /\ script = "ok" ->
            /\ summary' = [total |-> Total, wrote |-> Wrote]
            /\ UNCHANGED <<rows, touched>>
      [] proc.kind = "enumerate" /\ script = "ok" /\ rows = <<>> ->
            /\ rows' = Entries[Len(file.lines)]
            /\ touched' = TRUE
            /\ UNCHANGED summary
      [] OTHER -> UNCHANGED <<rows, touched, summary>>

Finished ==
    /\ proc.st = "running" /\ script \in {"ok", "failed"}
    /\ proc' = [proc EXCEPT !.st = "done"]
    /\ suppress' = SuppressAfterFinish
    /\ IF suppress THEN /\ swallowed' = swallowed \cup {run}
                        /\ UNCHANGED <<rows, touched, summary>>
                   ELSE /\ Report
                        /\ UNCHANGED swallowed
    /\ UNCHANGED <<run, script, file, seen, timer, closed, unreleased>>

Next == \/ \E kind \in {"measure", "enumerate"} : Launch(kind)
        \/ Poll \/ Finished \/ LoadOther \/ closeEvent
        \/ SetupFails \/ TeeOpens \/ WriteLine \/ WriteOn \/ ScriptEnds

Fairness == WF_vars(Poll) /\ WF_vars(Finished)
Spec == Init /\ [][Next]_vars /\ Fairness

-----------------------------------------------------------------------------
(* Properties                                                               *)

(* When the poll lets go of a run that has ended, the table has every line  *)
(* that the file has, unless the user has put another trace there.          *)
CaughtUp == [][
    proc.st = "done" /\ proc'.st = "null" /\ ~closed' /\ ~touched =>
        \A l \in Range(file.lines) :
            Parses(l) => \E r \in Range(rows') : r.text = Reading(l)]_vars

(* However often the file is read, what comes into the table in a run       *)
(* follows the file: the lines of a run in the order it wrote them, after   *)
(* what was left of the run before, and each text once, so that of two      *)
(* equal lines one comes in.  A line comes in a second time only when the   *)
(* first reading found it half written: then it is whole, and follows.      *)
RowsFollowFile == \A i, j \in DOMAIN rows :
    i < j /\ rows[i].at = run /\ rows[j].at = run /\ ~touched =>
        LET first == rows[i]
            later == rows[j]
        IN  /\ first.text # later.text
            /\ \/ first.run < later.run
               \/ first.run = later.run /\ first.line < later.line
               \/ /\ first.run = later.run /\ first.line = later.line
                  /\ ~first.whole /\ later.whole

(* The end of a run that ended by itself is reported.  Only a launch over a *)
(* run that had ended and had not been let go of costs a report, and one.   *)
Reported == \A n \in 1..run :
    Cardinality(swallowed \cap 1..n) <= Cardinality(unreleased \cap 1..n)

(* A run that wrote anything is summarised by what it wrote.                *)
SummaryOfRun == summary.wrote > 0 => summary.total = summary.wrote

(* A run that has ended is let go of, if there is a file.                   *)
Released == proc.st = "done" /\ file.exists ~> proc.st # "done"
=============================================================================
