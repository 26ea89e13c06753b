-------------------------------- MODULE SuiteRun --------------------------------
(***************************************************************************)
(* One TestNG run of framework/TestSuite.java.  Every row of a test suite  *)
(* sheet is a test case: a call of suiteExecution, the verdict of the      *)
(* listener db/oracle/TestCaseDBLogger.java and a call of endTestCase, all *)
(* on one of the Threads worker threads of the parallel data provider.     *)
(* The <test> tags of testng.xml run one after the other.                  *)
(*                                                                         *)
(* The workers share one TestSuite object, its static maps and the System  *)
(* properties, and none of it is locked: a step below is one access to     *)
(* such shared state together with the private work around it.             *)
(***************************************************************************)
EXTENDS Naturals, Sequences, FiniteSets

CONSTANTS
    NumTests,   \* rows of all suite sheets of the run, in order of execution
    NumSuites,  \* <test> tags, each with a suiteName of its own
    Settings    \* the testng.xml files considered, see Setting

Tests == 1..NumTests
Suites == 1..NumSuites

\* the <test> of each row: tags and rows are numbered in order of execution
Distribution == {f \in [Tests -> Suites] : \A t, u \in Tests : t < u => f[t] <= f[u]}

\* the <test> that each row belongs to, data-provider-thread-count, and
\* whether the browser parameter is IE
Setting == [suiteOf : Distribution, threads : Nat \ {0}, ie : BOOLEAN]

ASSUME SuiteRunAssumption ==
    /\ NumTests \in Nat
    /\ NumSuites \in Nat
    /\ Settings \subseteq Setting

VARIABLES
    settings,       \* the testng.xml of this run
    suiteName,      \* System property suiteName, 0 before the first <test>
    excelError,     \* System property excelError
    TClog,          \* the instance's TClog, as the row whose log it names (0: null)
    classBroken,    \* TestNG: a configuration method of the class has failed
    report,         \* TestSuite.failedTestCases and skippedTestCases: for each
                    \* suite the row that created its list object, 0 without key
    slots, count,   \* slots[t], count[t]: elementData and size of the ArrayList
                    \* that row t created
    pc,             \* pc[t]: where the worker of row t is
    cause,          \* cause[t]: what ended t's script
    browser,        \* browser[t]: t's browser
    kills,          \* taskkill processes started and not yet effective
    verdict,        \* verdict[t]: ITestResult.getStatus()
    filed,          \* filed[t]: the row whose log endTestCase filed for t
    ref, size,      \* t's local failedList/skippedList, and size() inside add
    alone           \* history: no other row updated t's map while t did

suiteVars  == <<settings, suiteName, classBroken>>
reportVars == <<report, slots, count, ref, size, alone>>
scriptVars == <<cause, browser, kills>>
vars == <<settings, suiteName, excelError, TClog, classBroken, report, slots, count, pc,
          cause, browser, kills, verdict, filed, ref, size, alone>>

SuiteOf == settings.suiteOf
Threads == settings.threads
IE      == settings.ie

Books    == {"failed", "skipped"}
Causes   == {"none", "ok", "workbook", "sheet", "step", "killed"}
Verdicts == {"none", "SUCCESS", "FAILURE", "SKIP"}
PCs == {"queued", "begun", "opening", "scripted", "running", "closing", "ended",
        "judged", "logged", "recording", "sizing", "adding", "storing", "done"}

TypeOK ==
    /\ settings \in Settings
    /\ suiteName \in Suites \cup {0}
    /\ excelError \in BOOLEAN
    /\ TClog \in Tests \cup {0}
    /\ classBroken \in BOOLEAN
    /\ report \in [Books -> [Suites -> Tests \cup {0}]]
    /\ slots \in [Tests -> Seq(Tests)]
    /\ count \in [Tests -> Nat]
    /\ pc \in [Tests -> PCs]
    /\ cause \in [Tests -> Causes]
    /\ browser \in [Tests -> {"none", "open", "killed"}]
    /\ kills \in Nat
    /\ verdict \in [Tests -> Verdicts]
    /\ filed \in [Tests -> Tests \cup {0}]
    /\ ref \in [Tests -> Tests \cup {0}]
    /\ size \in [Tests -> Nat]
    /\ alone \in [Tests -> BOOLEAN]

Init ==
    /\ settings \in Settings
    /\ suiteName = 0
    /\ excelError = FALSE
    /\ TClog = 0
    /\ classBroken = FALSE
    /\ report = [b \in Books |-> [s \in Suites |-> 0]]
    /\ slots = [t \in Tests |-> <<>>]
    /\ count = [t \in Tests |-> 0]
    /\ pc = [t \in Tests |-> "queued"]
    /\ cause = [t \in Tests |-> "none"]
    /\ browser = [t \in Tests |-> "none"]
    /\ kills = 0
    /\ verdict = [t \in Tests |-> "none"]
    /\ filed = [t \in Tests |-> 0]
    /\ ref = [t \in Tests |-> 0]
    /\ size = [t \in Tests |-> 0]
    /\ alone = [t \in Tests |-> TRUE]

Go(t, from, to) == pc[t] = from /\ pc' = [pc EXCEPT ![t] = to]

-----------------------------------------------------------------------------
(* The data provider's thread pool and the <test> tags around it.          *)

Active == {t \in Tests : pc[t] \notin {"queued", "done"}}

\* rows are handed to the pool in the order of the sheet
NextInQueue(t) == pc[t] = "queued" /\ \A u \in 1..(t - 1) : pc[u] # "queued"

\* setSuiteDetails, before the first row of a <test>, in a new instance of TestSuite
BeginSuite ==
    \E t \in Tests :
        /\ NextInQueue(t)
        /\ Active = {}
        /\ suiteName # SuiteOf[t]
        /\ suiteName' = SuiteOf[t]
        /\ excelError' = FALSE
        /\ classBroken' = FALSE
        /\ TClog' = 0
        /\ UNCHANGED <<settings, pc, verdict, filed>>
        /\ UNCHANGED reportVars /\ UNCHANGED scriptVars

\* a worker takes the next row; a class with a failed configuration method is skipped
Take(t) ==
    /\ NextInQueue(t)
    /\ suiteName = SuiteOf[t]
    /\ Cardinality(Active) < Threads
    /\ IF classBroken
       THEN Go(t, "queued", "done") /\ verdict' = [verdict EXCEPT ![t] = "SKIP"]
       ELSE Go(t, "queued", "begun") /\ UNCHANGED verdict
    /\ UNCHANGED <<excelError, TClog, filed>>
    /\ UNCHANGED suiteVars /\ UNCHANGED reportVars /\ UNCHANGED scriptVars

-----------------------------------------------------------------------------
(* suiteExecution                                                          *)

\* mutant: the field is set once, as if it were the suite's log
NameLogOnce(t) ==
    /\ Go(t, "begun", "opening")
    /\ TClog' = IF TClog = 0 THEN t ELSE TClog
    /\ UNCHANGED <<excelError, verdict, filed>>
    /\ UNCHANGED suiteVars /\ UNCHANGED reportVars /\ UNCHANGED scriptVars

NameLog(t) ==
    /\ Go(t, "begun", "opening")
    /\ TClog' = t
    /\ UNCHANGED <<excelError, verdict, filed>>
    /\ UNCHANGED suiteVars /\ UNCHANGED reportVars /\ UNCHANGED scriptVars

\* mutant: an opened workbook does not take the flag back
OpenScriptKeepsFlag(t) ==
    /\ Go(t, "opening", "scripted")
    /\ UNCHANGED <<excelError, TClog, verdict, filed>>
    /\ UNCHANGED suiteVars /\ UNCHANGED reportVars /\ UNCHANGED scriptVars

OpenScript(t) ==
    /\ Go(t, "opening", "scripted")
    /\ excelError' = FALSE
    /\ UNCHANGED <<TClog, verdict, filed>>
    /\ UNCHANGED suiteVars /\ UNCHANGED reportVars /\ UNCHANGED scriptVars

\* mutant: the catch block forgets the flag
NeverRaised(c) == excelError

\* the catch block: if(e instanceof ExcelConnectionException) raise excelError
Raised(c) == excelError \/ c = "workbook"

\* The workbook is missing (ExcelConnectionException) or has no such sheet
\* (NullPointerException).  There is no interpreter yet, so the finally block
\* throws before it starts taskkill.
OpenFails(t) ==
    /\ Go(t, "opening", "ended")
    /\ \E c \in {"workbook", "sheet"} :
          /\ cause' = [cause EXCEPT ![t] = c]
          /\ excelError' = Raised(c)
    /\ UNCHANGED <<TClog, browser, kills, verdict, filed>>
    /\ UNCHANGED suiteVars /\ UNCHANGED reportVars

StartBrowser(t) ==
    /\ Go(t, "scripted", "running")
    /\ browser' = [browser EXCEPT ![t] = "open"]
    /\ UNCHANGED <<excelError, TClog, cause, kills, verdict, filed>>
    /\ UNCHANGED suiteVars /\ UNCHANGED reportVars

BrowserFails(t) ==
    /\ Go(t, "scripted", "closing")
    /\ cause' = [cause EXCEPT ![t] = "step"]
    /\ UNCHANGED <<excelError, TClog, browser, kills, verdict, filed>>
    /\ UNCHANGED suiteVars /\ UNCHANGED reportVars

\* iterateRows returns or throws; only a keyword sheet that cannot be opened
\* throws an ExcelConnectionException
EndScript(t) ==
    /\ Go(t, "running", "closing")
    /\ \E c \in {"ok", "workbook", IF browser[t] = "killed" THEN "killed" ELSE "step"} :
          /\ cause' = [cause EXCEPT ![t] = c]
          /\ excelError' = Raised(c)
    /\ UNCHANGED <<TClog, browser, kills, verdict, filed>>
    /\ UNCHANGED suiteVars /\ UNCHANGED reportVars

\* mutant: the finally block waits for a browser to close
CloseOpenBrowser(t) ==
    /\ browser[t] # "none"
    /\ Go(t, "closing", "ended")
    /\ browser' = [browser EXCEPT ![t] = "none"]
    /\ kills' = IF IE THEN kills + 1 ELSE kills
    /\ UNCHANGED <<excelError, TClog, cause, verdict, filed>>
    /\ UNCHANGED suiteVars /\ UNCHANGED reportVars

\* the finally block: closeWindow, then taskkill, which is not waited for
CloseBrowser(t) ==
    /\ Go(t, "closing", "ended")
    /\ browser' = [browser EXCEPT ![t] = "none"]
    /\ kills' = IF IE THEN kills + 1 ELSE kills
    /\ UNCHANGED <<excelError, TClog, cause, verdict, filed>>
    /\ UNCHANGED suiteVars /\ UNCHANGED reportVars

\* closeWindow throws on a live session: the test fails and nothing is killed
CloseFails(t) ==
    /\ Go(t, "closing", "ended")
    /\ browser[t] = "open"
    /\ browser' = [browser EXCEPT ![t] = "none"]
    /\ cause' = [cause EXCEPT ![t] = IF @ = "ok" THEN "step" ELSE @]
    /\ UNCHANGED <<excelError, TClog, kills, verdict, filed>>
    /\ UNCHANGED suiteVars /\ UNCHANGED reportVars

\* taskkill /F /IM iexplore.exe takes effect: on every IE window there is
Taskkill ==
    /\ kills > 0
    /\ kills' = kills - 1
    /\ browser' = [t \in Tests |-> IF browser[t] = "open" THEN "killed" ELSE browser[t]]
    /\ UNCHANGED <<excelError, TClog, pc, cause, verdict, filed>>
    /\ UNCHANGED suiteVars /\ UNCHANGED reportVars

-----------------------------------------------------------------------------
(* The verdict: TestNG's status, then onTestFailure turns it into SKIP     *)
(* when the shared flag is up.                                             *)

StatusOf(t) ==
    IF cause[t] = "ok" THEN "SUCCESS" ELSE IF excelError THEN "SKIP" ELSE "FAILURE"

Judge(t) ==
    /\ Go(t, "ended", "judged")
    /\ verdict' = [verdict EXCEPT ![t] = StatusOf(t)]
    /\ UNCHANGED <<excelError, TClog, filed>>
    /\ UNCHANGED suiteVars /\ UNCHANGED reportVars /\ UNCHANGED scriptVars

-----------------------------------------------------------------------------
(* endTestCase                                                             *)

FileLog(t) ==
    /\ ~classBroken
    /\ Go(t, "judged", "logged")
    /\ filed' = [filed EXCEPT ![t] = TClog]
    /\ UNCHANGED <<excelError, TClog, verdict>>
    /\ UNCHANGED suiteVars /\ UNCHANGED reportVars /\ UNCHANGED scriptVars

\* TestNG does not run @AfterMethod of a class that has a failed one
AfterMethodSkipped(t) ==
    /\ classBroken
    /\ Go(t, "judged", "done")
    /\ UNCHANGED <<excelError, TClog, verdict, filed>>
    /\ UNCHANGED suiteVars /\ UNCHANGED reportVars /\ UNCHANGED scriptVars

MoveSnapshots(t) ==
    /\ Go(t, "logged", "recording")
    /\ UNCHANGED <<excelError, TClog, verdict, filed>>
    /\ UNCHANGED suiteVars /\ UNCHANGED reportVars /\ UNCHANGED scriptVars

\* moveDirectoryToDirectory throws, which ends endTestCase
MoveFails(t) ==
    /\ Go(t, "logged", "done")
    /\ classBroken' = TRUE
    /\ UNCHANGED <<settings, suiteName, excelError, TClog, verdict, filed>>
    /\ UNCHANGED reportVars /\ UNCHANGED scriptVars

BookOf(t) == IF verdict[t] = "SKIP" THEN "skipped" ELSE "failed"

ListOf(t) == report[BookOf(t)][suiteName]

\* rows between their containsKey and their put on the map that t uses
Updating(t) ==
    {u \in Tests \ {t} : pc[u] \in {"sizing", "adding", "storing"} /\ BookOf(u) = BookOf(t)}

Overlap(t) ==
    alone' = [u \in Tests |-> IF u = t THEN Updating(t) = {}
                              ELSE alone[u] /\ u \notin Updating(t)]

\* mutant: only failures are added to a list
NotFailed(t) == verdict[t] # "FAILURE"

\* a passed row adds nothing: it only sees to it that there is a list
Blank(t) == verdict[t] = "SUCCESS"

\* containsKey finds the suite's list: a passed row is done, another gets the list
FindList(t) ==
    /\ pc[t] = "recording"
    /\ ListOf(t) # 0
    /\ IF Blank(t)
       THEN Go(t, "recording", "done") /\ UNCHANGED <<ref, alone>>
       ELSE /\ Go(t, "recording", "sizing")
            /\ ref' = [ref EXCEPT ![t] = ListOf(t)]
            /\ Overlap(t)
    /\ UNCHANGED <<excelError, TClog, verdict, filed, report, slots, count, size>>
    /\ UNCHANGED suiteVars /\ UNCHANGED scriptVars

\* mutant: the blank list of a passed row is not blank
AlwaysFirst(t) == <<t>>

FirstEntries(t) == IF Blank(t) THEN <<>> ELSE <<t>>

\* containsKey finds no list: a new one, blank for a passed row
NewList(t) ==
    /\ Go(t, "recording", "storing")
    /\ ListOf(t) = 0
    /\ slots' = [slots EXCEPT ![t] = FirstEntries(t)]
    /\ count' = [count EXCEPT ![t] = Len(FirstEntries(t))]
    /\ ref' = [ref EXCEPT ![t] = t]
    /\ Overlap(t)
    /\ UNCHANGED <<excelError, TClog, verdict, filed, report, size>>
    /\ UNCHANGED suiteVars /\ UNCHANGED scriptVars

\* ArrayList.add: elementData[size++] = e reads size, then stores the entry
\* there and size + 1
ReadSize(t) ==
    /\ Go(t, "sizing", "adding")
    /\ size' = [size EXCEPT ![t] = count[ref[t]]]
    /\ UNCHANGED <<excelError, TClog, verdict, filed, report, slots, count, ref, alone>>
    /\ UNCHANGED suiteVars /\ UNCHANGED scriptVars

Stored(l, n, t) == IF n < Len(l) THEN [l EXCEPT ![n + 1] = t] ELSE Append(l, t)

AddEntry(t) ==
    /\ Go(t, "adding", "storing")
    /\ slots' = [slots EXCEPT ![ref[t]] = Stored(@, size[t], t)]
    /\ count' = [count EXCEPT ![ref[t]] = size[t] + 1]
    /\ UNCHANGED <<excelError, TClog, verdict, filed, report, ref, size, alone>>
    /\ UNCHANGED suiteVars /\ UNCHANGED scriptVars

PutList(t) ==
    /\ Go(t, "storing", "done")
    /\ report' = [report EXCEPT ![BookOf(t)][suiteName] = ref[t]]
    /\ UNCHANGED <<excelError, TClog, verdict, filed, slots, count, ref, size, alone>>
    /\ UNCHANGED suiteVars /\ UNCHANGED scriptVars

-----------------------------------------------------------------------------
Execute(t) ==
    \/ NameLog(t) \/ OpenScript(t) \/ OpenFails(t) \/ StartBrowser(t)
    \/ BrowserFails(t) \/ EndScript(t) \/ CloseBrowser(t) \/ CloseFails(t)

EndTestCase(t) ==
    \/ FileLog(t) \/ AfterMethodSkipped(t) \/ MoveSnapshots(t) \/ MoveFails(t)
    \/ FindList(t) \/ NewList(t) \/ ReadSize(t) \/ AddEntry(t) \/ PutList(t)

Work(t) == Take(t) \/ Execute(t) \/ Judge(t) \/ EndTestCase(t)

Next == BeginSuite \/ Taskkill \/ \E t \in Tests : Work(t)

Safety == Init /\ [][Next]_vars

\* the pool's threads run, TestNG goes on to the next <test>; nothing is
\* assumed of the taskkill processes
Spec == Safety /\ WF_vars(BeginSuite) /\ \A t \in Tests : WF_vars(Work(t))

-----------------------------------------------------------------------------
(* Properties                                                              *)

\* the rows a report map lists for a suite
Entries(l) == {slots[l][i] : i \in 1..count[l]}
Listed(b, s) == IF report[b][s] = 0 THEN {} ELSE Entries(report[b][s])

\* the row's endTestCase got as far as its report entry, and is over
Recorded(t) == pc[t] = "done" /\ ref[t] # 0

(***************************************************************************)
(* The maps never say anything false: a row in the failed map has FAILED,  *)
(* a row in the skipped map was SKIPped, under the suite it belongs to, so *)
(* that no passed row is ever run again from a Failed- or Skipped-         *)
(* TestSuite workbook; whatever the workers' endTestCase calls interleave. *)
(***************************************************************************)
ReportIsTrue ==
    \A s \in Suites :
        /\ \A t \in Listed("failed", s) : verdict[t] = "FAILURE" /\ SuiteOf[t] = s
        /\ \A t \in Listed("skipped", s) : verdict[t] = "SKIP" /\ SuiteOf[t] = s

(***************************************************************************)
(* A failed or skipped row is lost from its report only through an overlap *)
(* or an exception: when endTestCase had its map to itself, the row is in  *)
(* it and stays there, whatever later rows put, or endTestCase did not get *)
(* as far as the map, for which the class is broken until its <test> ends. *)
(***************************************************************************)
NothingDropped ==
    \A t \in Tests : (pc[t] = "done" /\ verdict[t] # "SUCCESS" /\ alone[t]) =>
        \/ t \in Listed(BookOf(t), SuiteOf[t])
        \/ ref[t] = 0 /\ (SuiteOf[t] = suiteName => classBroken)

(***************************************************************************)
(* The lists keep "the actual sequence of execution", as the comment in    *)
(* CustomSuiteListenerAdapter says: they do with one worker.               *)
(***************************************************************************)
ReportInOrder ==
    Threads = 1 => \A l \in Tests : \A i, j \in 1..count[l] : i < j => slots[l][i] < slots[l][j]

(***************************************************************************)
(* Whatever the workers do between each other: no row that ended otherwise *)
(* than it passed is left out of the report, and with one worker its lists *)
(* are in the order of the rows.                                           *)
(***************************************************************************)
ReportIsWhole == NothingDropped /\ ReportInOrder

(***************************************************************************)
(* The result of each suite is saved, as CustomSuiteListenerAdapter says:  *)
(* a failed row that endTestCase has recorded is in the failed list that   *)
(* the workbook is written from.                                           *)
(***************************************************************************)
FailedAreSaved ==
    \A t \in Tests : (Recorded(t) /\ verdict[t] = "FAILURE") => t \in Listed("failed", SuiteOf[t])

(***************************************************************************)
(* With one worker, endTestCase files the log of the row it is called for, *)
(* although it finds it by the field TClog, which all rows of a <test>     *)
(* share.                                                                  *)
(***************************************************************************)
OwnLogFiled == Threads = 1 => \A t \in Tests : filed[t] \in {0, t}

(***************************************************************************)
(* With one worker, a row that could not open a workbook is skipped, not   *)
(* failed, although a shared flag carries the news to the listener.        *)
(***************************************************************************)
WorkbookErrorSkips ==
    Threads = 1 => \A t \in Tests : (cause[t] = "workbook" /\ verdict[t] # "none") => verdict[t] = "SKIP"

(***************************************************************************)
(* With one worker, the flag excelError turns a row into SKIP only for a   *)
(* workbook error of the row itself, or of an earlier row of the same      *)
(* <test> after which no row got as far as opening its own script.         *)
(***************************************************************************)
SkipHasCause ==
    Threads = 1 => \A t \in Tests : (verdict[t] = "SKIP" /\ cause[t] # "none") =>
        \E u \in 1..t : /\ cause[u] = "workbook" /\ SuiteOf[u] = SuiteOf[t]
                        /\ \A v \in (u + 1)..t : cause[v] = "sheet"

(***************************************************************************)
(* A browser is killed under a test only by the taskkill of another row    *)
(* that has left its own script.                                           *)
(***************************************************************************)
KilledByAnother ==
    \A t \in Tests : browser[t] = "killed" =>
        \E u \in Tests \ {t} : pc[u] \notin
            {"queued", "begun", "opening", "scripted", "running", "closing"}

(***************************************************************************)
(* What happens to a row has a cause: a row that TestNG shows as skipped,  *)
(* and a browser that is killed under its script.                          *)
(***************************************************************************)
RowsHaveCauses == SkipHasCause /\ KilledByAnother

(***************************************************************************)
(* Every row of every suite ends: no error path leaves a worker behind or  *)
(* keeps the following <test> from starting.                               *)
(***************************************************************************)
EveryRowEnds == <>(\A t \in Tests : pc[t] = "done")

=============================================================================
