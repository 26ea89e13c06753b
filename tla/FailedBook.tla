------------------------------- MODULE FailedBook -------------------------------
(***************************************************************************)
(* The workbooks Failed-TestSuite and Skipped-TestSuite, from which a user *)
(* runs again what went wrong.  framework/TestSuite.java queues the rows   *)
(* of a suite workbook (queueData) and collects the failed and skipped     *)
(* ones (endTestCase); when all <test>s are over,                          *)
(* testng/custom/CustomSuiteListenerAdapter.java (onFinish) writes them,   *)
(* cell by cell, each cell rewriting the file (util/ExcelProcessor.java).  *)
(* The JVM may be killed at any time, a write included.                    *)
(*                                                                         *)
(* A workbook is a sequence of sheets; the rows of a sheet start below its *)
(* header.  One worker runs the rows: SuiteRun has more.                   *)
(***************************************************************************)
EXTENDS Naturals, Sequences

CONSTANTS
    Titles,       \* names of sheets
    Sources,      \* the suite workbooks to start from, each with the mode it is written for
    Cases,        \* names of test cases
    Path, Null,   \* the path of a test case's workbook; an empty cell
    Default,      \* "Sheet1", which createExcel puts into a new workbook
    Limits,       \* noOfTestCases in performance mode; 0: not in that mode
    MaxRuns,      \* bound: the first run and the reruns
    Crashes       \* the JVM may be killed

Books == {"failed", "skipped"}
Modes == {"normal", "Runall", "blank"}
Cells == Cases \cup {Path, Null, "Y", "N"}
Row == [1..3 -> Cells]
NoFile == <<>>  \* no workbook on disk, or one that cannot be read

\* what is in the column of the names: a marked row of the mode "blank" has one
NamesItsCase(m, row) ==
    IF m = "blank" THEN row[1] \in {Null, "N"} \/ row[3] \in Cases ELSE row[2] \in Cases \cup {Null}

ASSUME FailedBookAssumption ==
    /\ Sources \subseteq [mode : Modes, sheets : Seq([name : Titles, rows : Seq(Row)])]
    /\ \A s \in Sources : \A i \in DOMAIN s.sheets : \A n \in DOMAIN s.sheets[i].rows :
           NamesItsCase(s.mode, s.sheets[i].rows[n])
    /\ Default \in Titles \ Modes
    /\ Null \notin Cases \cup {Path, "Y", "N"}
    /\ Limits \subseteq Nat
    /\ MaxRuns \in Nat
    /\ Crashes \in BOOLEAN

VARIABLES
    mode,    \* what the parameter suiteName asks for: "normal" (a sheet), "Runall", "blank"
    limit,   \* noOfTestCases
    source,  \* the workbook that is run
    todo,    \* rows still to run, as <<suiteName, cells>>
    maps,    \* failedTestCases and skippedTestCases
    file,    \* the two workbooks on disk
    pc,      \* where the run is
    book,    \* the workbook that onFinish is at
    left,    \* its keys not yet written
    key,     \* the key whose sheet is written, and
    entry,   \* the place in its list
    runs,    \* runs so far
    blamed   \* history: the cases that failed or were skipped in any of them

runVars == <<mode, limit, source, runs, blamed>>
writeVars == <<left, key, entry>>
vars == <<mode, limit, source, todo, maps, file, pc, book, left, key, entry, runs,
          blamed>>

PCs == {"testing", "deleting", "creating", "sheets", "entries", "names", "dropping",
        "done", "thrown", "killed"}

-----------------------------------------------------------------------------
(* queueData                                                               *)

\* both cells are there
HasCase == {row \in Row : row[1] # Null /\ row[2] # Null}

\* mode "blank": a flag, then the two cells
IsMarked == {row \in Row : row[1] \notin {Null, "N"}}

\* a loop that adds the elements of S to a list
Kept(s, S) ==
    LET upTo[i \in 0..Len(s)] ==
            IF i = 0 THEN <<>> ELSE IF s[i] \in S THEN Append(upTo[i - 1], s[i]) ELSE upTo[i - 1]
    IN upTo[Len(s)]

\* the check of noOfTestCases, made before the parameter is read
TooFewRows(rows) == Len(rows) > Len(rows)

\* mutant: row < noOfTestCases
UptoLess(rows) == SubSeq(rows, 1, Len(rows) - 1)

\* rows 1..noOfTestCases of a sheet, those that exist
Upto(rows) == SubSeq(rows, 1, IF limit = 0 \/ limit > Len(rows) THEN Len(rows) ELSE limit)

Tagged(suite, rows) == [i \in DOMAIN rows |-> <<suite, rows[i]>>]

\* what is queued from a sheet, under the suiteName that the run has
QueueOf(sheet) ==
    CASE mode = "normal" -> Tagged(sheet.name, Kept(Upto(sheet.rows), HasCase))
      [] mode = "Runall" -> Tagged(mode, Kept(sheet.rows, HasCase))
      [] mode = "blank"  -> Tagged(mode, Kept(sheet.rows, IsMarked))

\* all sheets: a <test> for each one in mode "normal", one <test> in the others
Queue(sheets) ==
    LET upTo[i \in 0..Len(sheets)] ==
            IF i = 0 THEN <<>> ELSE upTo[i - 1] \o QueueOf(sheets[i])
    IN upTo[Len(sheets)]

\* the test case a queued row names, and whether the row has arguments at all
CaseOf(row) == IF mode = "blank" THEN row[3] ELSE row[2]
HasArguments(row) == mode = "blank" => row[2] # Null

-----------------------------------------------------------------------------
Init ==
    /\ \E s \in Sources : mode = s.mode /\ source = s.sheets
    /\ limit \in IF mode = "normal" THEN Limits ELSE {0}
    /\ todo = Queue(source)
    /\ maps = [b \in Books |-> <<>>]
    /\ file = [b \in Books |-> NoFile]
    /\ pc = "testing"
    /\ book = "failed"
    /\ left = {}
    /\ key = Null
    /\ entry = 1
    /\ runs = 1
    /\ blamed = {}

\* map.put(suite, list) after list.add(c), the list being new if need be
Added(map, suite, list) ==
    [s \in DOMAIN map \cup {suite} |->
        IF s # suite THEN map[s] ELSE IF s \in DOMAIN map THEN map[s] \o list ELSE list]

Recorded(suite, c, status) ==
    CASE status = "PASS" -> [maps EXCEPT !["failed"] = Added(@, suite, <<>>)]
      [] status = "FAIL" -> [maps EXCEPT !["failed"] = Added(@, suite, <<c>>)]
      [] status = "SKIP" -> [maps EXCEPT !["skipped"] = Added(@, suite, <<c>>)]

\* A row is run and endTestCase records it.  A row without arguments breaks the
\* class: its @AfterMethod throws and TestNG skips the others.
RunRow ==
    /\ pc = "testing"
    /\ todo # <<>>
    /\ LET suite == Head(todo)[1]
           row == Head(todo)[2]
           c == CaseOf(row)
       IN IF HasArguments(row)
          THEN /\ \E status \in {"PASS", "FAIL", "SKIP"} :
                     /\ maps' = Recorded(suite, c, status)
                     /\ blamed' = IF status = "PASS" THEN blamed ELSE blamed \cup {c}
               /\ todo' = Tail(todo)
          ELSE todo' = <<>> /\ UNCHANGED <<maps, blamed>>
    /\ UNCHANGED <<mode, limit, source, runs, file, pc, book>> /\ UNCHANGED writeVars

-----------------------------------------------------------------------------
(* onFinish                                                                *)

\* both workbooks are deleted, then both created, then filled, then cleaned
NextBook(from, to) ==
    /\ pc = from
    /\ book' = IF book = "failed" THEN "skipped" ELSE "failed"
    /\ pc' = IF book = "failed" THEN from ELSE to

StartFinish ==
    /\ pc = "testing"
    /\ todo = <<>>
    /\ pc' = "deleting"
    /\ UNCHANGED <<todo, maps, file, book>> /\ UNCHANGED runVars /\ UNCHANGED writeVars

\* mutant: a workbook of an earlier run is kept, createExcel only adds to it
KeepOld ==
    /\ NextBook("deleting", "creating")
    /\ UNCHANGED <<todo, maps, file>> /\ UNCHANGED runVars /\ UNCHANGED writeVars

DeleteOld ==
    /\ NextBook("deleting", "creating")
    /\ file' = [file EXCEPT ![book] = NoFile]
    /\ UNCHANGED <<todo, maps>> /\ UNCHANGED runVars /\ UNCHANGED writeVars

Sheet(name) == [name |-> name, rows |-> <<>>]

\* a workbook without its sheet Sheet1
Others(sheets) == Kept(sheets, {sheets[i] : i \in {j \in DOMAIN sheets : sheets[j].name # Default}})

\* createExcel: a workbook that is there keeps its other sheets
CreateBook ==
    /\ NextBook("creating", "sheets")
    /\ file' = [file EXCEPT ![book] =
                   IF @ = NoFile THEN <<Sheet(Default)>>
                   ELSE Append(Others(@), Sheet(Default))]
    /\ left' = DOMAIN maps[book']
    /\ UNCHANGED <<todo, maps, key, entry>> /\ UNCHANGED runVars

\* the next key of the map; POI refuses a sheet of a name that is there
CreateSheet ==
    /\ pc = "sheets"
    /\ \E k \in left :
          /\ key' = k
          /\ IF \E i \in DOMAIN file[book] : file[book][i].name = k
             THEN pc' = "thrown" /\ UNCHANGED file
             ELSE pc' = "entries" /\ file' = [file EXCEPT ![book] = Append(@, Sheet(k))]
    /\ entry' = 1
    /\ UNCHANGED <<todo, maps, book, left>> /\ UNCHANGED runVars

Place(b) == CHOOSE i \in DOMAIN file[b] : file[b][i].name = key

WritePath ==
    /\ pc = "entries"
    /\ entry <= Len(maps[book][key])
    /\ file' = [file EXCEPT ![book][Place(book)].rows = Append(@, <<Path, Null, Null>>)]
    /\ pc' = "names"
    /\ UNCHANGED <<todo, maps, book>> /\ UNCHANGED runVars /\ UNCHANGED writeVars

WriteName ==
    /\ pc = "names"
    /\ file' = [file EXCEPT ![book][Place(book)].rows[entry][2] = maps[book][key][entry]]
    /\ entry' = entry + 1
    /\ pc' = "entries"
    /\ UNCHANGED <<todo, maps, book, left, key>> /\ UNCHANGED runVars

EndSheet ==
    /\ pc = "entries"
    /\ entry > Len(maps[book][key])
    /\ left' = left \ {key}
    /\ pc' = "sheets"
    /\ UNCHANGED <<todo, maps, file, book, key, entry>> /\ UNCHANGED runVars

EndBook ==
    /\ left = {}
    /\ NextBook("sheets", "dropping")
    /\ left' = DOMAIN maps[book']
    /\ UNCHANGED <<todo, maps, file, key, entry>> /\ UNCHANGED runVars

\* deleteSheet("Sheet1"), if there was a key
DropDefault ==
    /\ NextBook("dropping", "done")
    /\ file' = [file EXCEPT ![book] =
                   IF DOMAIN maps[book] = {} THEN @
                   ELSE Others(@)]
    /\ UNCHANGED <<todo, maps>> /\ UNCHANGED runVars /\ UNCHANGED writeVars

-----------------------------------------------------------------------------
\* the JVM is killed; a file that is being written may be torn
Kill ==
    /\ Crashes
    /\ pc \notin {"done", "thrown", "killed"}
    /\ pc' = "killed"
    /\ \/ UNCHANGED file
       \/ /\ pc \in {"creating", "sheets", "entries", "names", "dropping"}
          /\ file' = [file EXCEPT ![book] = NoFile]
    /\ UNCHANGED <<todo, maps, book>> /\ UNCHANGED runVars /\ UNCHANGED writeVars

Over == pc \in {"done", "thrown", "killed"}

\* the user runs a workbook that onFinish wrote: with a <test> for each sheet,
\* or, if it comes from a Runall, with suiteName Runall
RunAgain ==
    /\ Over
    /\ runs < MaxRuns
    /\ mode # "blank"
    /\ limit = 0
    /\ runs' = runs + 1
    /\ \E b \in Books :
          /\ source' = file[b]
          /\ todo' = Queue(source')
    /\ maps' = [b \in Books |-> <<>>]
    /\ pc' = "testing"
    /\ book' = "failed"
    /\ left' = {} /\ key' = Null /\ entry' = 1
    /\ UNCHANGED <<mode, limit, file, blamed>>

WriteBooks ==
    \/ DeleteOld \/ CreateBook \/ CreateSheet \/ WritePath \/ WriteName
    \/ EndSheet \/ EndBook \/ DropDefault

Next == RunRow \/ StartFinish \/ WriteBooks \/ Kill \/ RunAgain

Spec == Init /\ [][Next]_vars

-----------------------------------------------------------------------------
(* Properties                                                              *)

\* the names of the cases that a sheet of a workbook would queue
Names(b, suite) ==
    LET rows == {file[b][i].rows : i \in {j \in DOMAIN file[b] : file[b][j].name = suite}}
    IN IF rows = {} THEN <<>>
       ELSE LET full == Kept(CHOOSE r \in rows : TRUE, HasCase)
            IN [i \in DOMAIN full |-> full[i][2]]

ListFor(b, suite) == IF suite \in DOMAIN maps[b] THEN maps[b][suite] ELSE <<>>

IsPrefixOf(s, t) == Len(s) <= Len(t) /\ \A i \in DOMAIN s : s[i] = t[i]

\* the rows of a queue with the suiteName s
Under(s, queue) == Kept(queue, {queue[i] : i \in {j \in DOMAIN queue : queue[j][1] = s}})

Suites == DOMAIN maps["failed"] \cup DOMAIN maps["skipped"]

TypeOK ==
    /\ mode \in Modes
    /\ limit \in Limits \cup {0}
    /\ \A i \in DOMAIN todo : todo[i][2] \in Row
    /\ \A b \in Books : \A s \in DOMAIN maps[b] : maps[b][s] \in Seq(Cases)
    /\ \A b \in Books :
           \A i \in DOMAIN file[b] : file[b][i].rows \in Seq(Row)
    /\ pc \in PCs
    /\ book \in Books
    /\ left \subseteq Suites
    /\ entry \in Nat
    /\ runs \in 1..MaxRuns

(***************************************************************************)
(* Wherever the JVM is killed inside onFinish, a workbook queues a prefix  *)
(* of what it should: no half-written row, no other run's row, no row out  *)
(* of order.                                                               *)
(***************************************************************************)
PrefixOnly ==
    pc \in {"sheets", "entries", "names", "dropping", "done"} =>
        \A b \in Books :
            \A i \in DOMAIN file[b] :
                IsPrefixOf(Names(b, file[b][i].name), ListFor(b, file[b][i].name))

(***************************************************************************)
(* "It [...] saves the result of each suite into an excel workbook": when  *)
(* onFinish is over, by its end or by an exception, the workbooks queue    *)
(* exactly the rows that failed and that were skipped, suite by suite.     *)
(***************************************************************************)
ResultsSaved ==
    pc \in {"done", "thrown"} =>
        \A b \in Books : \A s \in Suites \cup {Default} : Names(b, s) = ListFor(b, s)

(***************************************************************************)
(* Running a workbook again after a run that was not killed queues the     *)
(* rows that failed, or those that were skipped, in their order, under     *)
(* their suites, and no others: queueData reads what onFinish writes.      *)
(***************************************************************************)
RerunIsWhatFailed ==
    [][(pc = "done" /\ pc' = "testing") =>
          \E b \in Books : source' = file[b] /\ \A s \in Suites :
              LET of == Under(s, todo')
              IN /\ [i \in DOMAIN of |-> of[i][2][2]] = ListFor(b, s)
                 /\ \A i \in DOMAIN todo' : todo'[i][1] \in Suites]_vars

(***************************************************************************)
(* Whatever state a killed run left the workbooks in, a rerun queues only  *)
(* test cases that failed or were skipped in an earlier run.               *)
(***************************************************************************)
RerunInventsNothing ==
    runs > 1 => \A i \in DOMAIN todo : todo[i][2][2] \in blamed

(***************************************************************************)
(* The workbooks hold the results and nothing else, over crashes and from  *)
(* run to run: at any time a prefix of what is to be written, all of it    *)
(* after onFinish has returned, and no rerun takes a test case from them   *)
(* that had not failed.                                                    *)
(***************************************************************************)
BooksHoldResults == PrefixOnly /\ ResultsSaved /\ RerunInventsNothing

(***************************************************************************)
(* "Testsuite contains less number of row than specified in                *)
(* 'noOfTestCases' parameter" is an exception: a run in performance mode   *)
(* never starts with fewer rows than were asked for.                       *)
(***************************************************************************)
TooFewRowsThrows ==
    (pc = "testing" /\ limit # 0) =>
        \A i \in DOMAIN source : limit <= Len(source[i].rows) \/ TooFewRows(source[i].rows)

=============================================================================
