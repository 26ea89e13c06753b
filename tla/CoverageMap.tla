------------------------------ MODULE CoverageMap ------------------------------
(***************************************************************************)
(* The map from classes to the test cases that cover them: with            *)
(* runJacocoCoverage, the @AfterMethod of a test case calls                *)
(* results/ClassesVsTestCasesMapping.java, which has Ant dump the          *)
(* execution data and make a report of it, copies both next to the test    *)
(* case's results, converts the report into a workbook                     *)
(* (util/csvToxlsConverter.java) and adds the test case to the lists of    *)
(* the classes it covers.  At the end of the suite                         *)
(* testng/custom/CustomSuiteListenerAdapter.java writes the map down.      *)
(*                                                                         *)
(* The report has a header line and a line for each of the classes         *)
(* 1..NumClasses; its data is the set of classes with covered lines.  The  *)
(* converter keys the lines by their number in a HashMap: order[n] is the  *)
(* order in which the Java version in use iterates over one of n lines.    *)
(***************************************************************************)
EXTENDS Naturals, Sequences, FiniteSets

CONSTANTS
    Workers,     \* threads of the data provider
    Tests,       \* test cases
    NumClasses,  \* classes of the application
    Coverages,   \* what a test case may cover
    Orders       \* the iteration orders of the HashMaps of the Java versions

Classes == 1..NumClasses
Header == 0            \* the line "GROUP,PACKAGE,CLASS,...,LINE_COVERED,..."
Names == Classes \cup {Header}
Length == NumClasses + 1

ASSUME CoverageMapAssumption ==
    /\ NumClasses \in Nat \ {0}
    /\ Coverages \subseteq SUBSET Classes
    /\ \A o \in Orders : \A n \in 0..(2 * Length) :
          o[n] \in [1..n -> 1..n] /\ {o[n][i] : i \in 1..n} = 1..n

VARIABLES
    order,     \* iteration order of the converter's HashMap
    remote,    \* buildFilePath contains "//"
    todo,      \* test cases not begun
    failed,    \* an @AfterMethod has failed: TestNG skips what is left
    pc,        \* what each worker does next
    test,      \* the worker's test case
    covers,    \* what each test case has covered
    agent,     \* execution data of the application's agent
    exec,      \* jacoco.exec
    report,    \* report.csv
    ownExec,   \* the copies in the test cases' folders
    ownReport,
    reader,    \* csvToxlsConverter.reader: its data and the number of lines it has read
    lines,     \* each worker's lines, in the order read
    row,       \* each worker's row of the workbook
    coverage,  \* each worker's variable coverage
    seen,      \* the list that get returned: is there one?
    map,       \* class_testcase: a name's test cases, <<>> without the key
    finished,  \* the final workbook has been written
    mapping    \* its rows

vars == <<order, remote, todo, failed, pc, test, covers, agent, exec, report, ownExec, ownReport,
          reader, lines, row, coverage, seen, map, finished, mapping>>
files == <<agent, exec, report, ownExec, ownReport>>
locals == <<lines, row, coverage, seen>>
suite == <<order, remote, todo, failed, test, covers, finished, mapping>>

Init ==
    /\ order \in Orders
    /\ remote \in BOOLEAN
    /\ todo = Tests
    /\ failed = FALSE
    /\ pc = [w \in Workers |-> "idle"]
    /\ test = [w \in Workers |-> "none"]
    /\ covers = [t \in Tests |-> {}]
    /\ agent = {} /\ exec = {} /\ report = {}
    /\ ownExec = [t \in Tests |-> {}]
    /\ ownReport = [t \in Tests |-> {}]
    /\ reader = [data |-> {}, read |-> 0]
    /\ lines = [w \in Workers |-> <<>>]
    /\ row = [w \in Workers |-> 0]
    /\ coverage = [w \in Workers |-> FALSE]
    /\ seen = [w \in Workers |-> FALSE]
    /\ map = [c \in Names |-> <<>>]
    /\ finished = FALSE
    /\ mapping = {}

Goto(w, from, to) == pc[w] = from /\ pc' = [pc EXCEPT ![w] = to]

-----------------------------------------------------------------------------
(* A test case and its report                                              *)

\* the body of a test case runs the application
RunTest(w) ==
    /\ Goto(w, "idle", "dump")
    /\ ~failed
    /\ \E t \in todo, S \in Coverages :
          /\ todo' = todo \ {t}
          /\ test' = [test EXCEPT ![w] = t]
          /\ covers' = [covers EXCEPT ![t] = S]
          /\ agent' = agent \cup S
    /\ UNCHANGED <<order, remote, failed, exec, report, ownExec, ownReport, reader, locals, map, finished, mapping>>

\* executeAntTask(..., "remoteDump"): the agent's data, which it then resets
Dump(w) ==
    /\ Goto(w, "dump", IF remote THEN "copyExec" ELSE "generate")
    /\ exec' = agent
    /\ agent' = {}
    /\ UNCHANGED <<suite, report, ownExec, ownReport, reader, locals, map>>

\* executeAntTask(..., null): the default target makes report.csv
Generate(w) ==
    /\ Goto(w, "generate", IF remote THEN "copyReport" ELSE "copyExec")
    /\ report' = exec
    /\ UNCHANGED <<suite, agent, exec, ownExec, ownReport, reader, locals, map>>

\* a BuildException leaves endTestCase as a RuntimeException
AntFails(w) ==
    /\ pc[w] \in {"dump", "generate"}
    /\ pc' = [pc EXCEPT ![w] = "idle"]
    /\ failed' = TRUE
    /\ UNCHANGED <<order, remote, todo, test, covers, finished, mapping, files, reader, locals, map>>

\* copyFileToDirectory(execFile, destDir), before or after the report is made
CopyExec(w) ==
    /\ Goto(w, "copyExec", IF remote THEN "generate" ELSE "copyReport")
    /\ ownExec' = [ownExec EXCEPT ![test[w]] = exec]
    /\ UNCHANGED <<suite, agent, exec, report, ownReport, reader, locals, map>>

CopyReport(w) ==
    /\ Goto(w, "copyReport", "open")
    /\ ownReport' = [ownReport EXCEPT ![test[w]] = report]
    /\ UNCHANGED <<suite, agent, exec, report, ownExec, reader, locals, map>>

-----------------------------------------------------------------------------
(* The converter                                                           *)

Open(w) ==
    /\ Goto(w, "open", "read")
    /\ reader' = [data |-> ownReport[test[w]], read |-> 0]
    /\ lines' = [lines EXCEPT ![w] = <<>>]
    /\ UNCHANGED <<suite, files, row, coverage, seen, map>>

\* readNext() of the static reader: line n is the header or that of class n - 1
ReadLine(w) ==
    /\ pc[w] = "read" /\ reader.read < Length
    /\ lines' = [lines EXCEPT ![w] = Append(@, [name |-> reader.read, covered |-> reader.read \in reader.data])]
    /\ reader' = [reader EXCEPT !.read = @ + 1]
    /\ UNCHANGED <<suite, pc, files, row, coverage, seen, map>>

\* mutant: the loop over the rows starts below the first class
LastLineSkips(w) ==
    /\ Goto(w, "read", "row")
    /\ reader.read = Length
    /\ row' = [row EXCEPT ![w] = 2]
    /\ coverage' = [coverage EXCEPT ![w] = FALSE]
    /\ UNCHANGED <<suite, files, reader, lines, seen, map>>

\* the workbook is written and createMappingExcel starts at its row 1
LastLine(w) ==
    /\ Goto(w, "read", "row")
    /\ reader.read = Length
    /\ row' = [row EXCEPT ![w] = 1]
    /\ coverage' = [coverage EXCEPT ![w] = FALSE]
    /\ UNCHANGED <<suite, files, reader, lines, seen, map>>

\* the workbook's row r, in the order of the HashMap; row 0 is the first one
SheetRow(w, r) == lines[w][order[Len(lines[w])][r + 1]]

-----------------------------------------------------------------------------
(* The map                                                                 *)

\* the coverage of a header row is that of the row before
LookUp(w) ==
    /\ pc[w] = "row" /\ row[w] < Len(lines[w])
    /\ LET r == SheetRow(w, row[w])
           now == IF r.name = Header THEN coverage[w] ELSE r.covered
       IN /\ coverage' = [coverage EXCEPT ![w] = now]
          /\ seen' = [seen EXCEPT ![w] = now /\ map[r.name] # <<>>]
          /\ pc' = [pc EXCEPT ![w] = IF now THEN "store" ELSE "row"]
          /\ row' = [row EXCEPT ![w] = IF now THEN @ ELSE @ + 1]
    /\ UNCHANGED <<suite, files, reader, lines, map>>

\* add to the list that was there, or put a list of its own
Store(w) ==
    /\ Goto(w, "store", "row")
    /\ LET name == SheetRow(w, row[w]).name
       IN map' = [map EXCEPT ![name] = IF seen[w] THEN Append(@, test[w]) ELSE <<test[w]>>]
    /\ row' = [row EXCEPT ![w] = @ + 1]
    /\ UNCHANGED <<suite, files, reader, lines, coverage, seen>>

\* createMappingExcel returns
EndTest(w) ==
    /\ Goto(w, "row", "idle")
    /\ row[w] >= Len(lines[w])
    /\ UNCHANGED <<suite, files, reader, locals, map>>

\* where the map has a test case
Places == UNION {{c} \X DOMAIN map[c] : c \in Names}

\* writeTOExcelFromMap: the row of the first entry is created again, empty,
\* before the second one is written into it
WrittenRows(first) == {<<p[1], map[p[1]][p[2]]>> : p \in Places \ {<<first, 1>>}}

\* onFinish(suite); any key may be the first that the HashMap gives
Finish ==
    /\ \A w \in Workers : pc[w] = "idle"
    /\ failed \/ todo = {}
    /\ ~finished /\ finished' = TRUE
    /\ IF \A c \in Names : map[c] = <<>>
       THEN mapping' = {}
       ELSE \E first \in {c \in Names : map[c] # <<>>} : mapping' = WrittenRows(first)
    /\ UNCHANGED <<order, remote, todo, failed, pc, test, covers, files, reader, locals, map>>

-----------------------------------------------------------------------------
Next ==
    \/ \E w \in Workers :
          \/ RunTest(w) \/ Dump(w) \/ Generate(w) \/ AntFails(w) \/ CopyExec(w) \/ CopyReport(w)
          \/ Open(w) \/ ReadLine(w) \/ LastLine(w) \/ LookUp(w) \/ Store(w) \/ EndTest(w)
    \/ Finish

Spec == Init /\ [][Next]_vars

-----------------------------------------------------------------------------
(* Properties                                                              *)

\* A worker has converted what it reads, and the map has the keys of the report.
TypeOK ==
    /\ pc \in [Workers -> {"idle", "dump", "generate", "copyExec", "copyReport", "open", "read", "row", "store"}]
    /\ exec \subseteq Classes /\ report \subseteq Classes
    /\ reader.data \subseteq Classes /\ reader.read \in 0..Length
    /\ \A w \in Workers :
          /\ \A i \in DOMAIN lines[w] : lines[w][i].name \in Names
          /\ pc[w] = "row" => row[w] \in 1..Len(lines[w])
          /\ pc[w] = "store" => row[w] \in 1..(Len(lines[w]) - 1)
    /\ \A c \in Names : \A i \in DOMAIN map[c] : map[c][i] \in Tests

Listed(c, t) == \E i \in DOMAIN map[c] : map[c][i] = t

\* the order of Java 8, which keeps the lines as they are
HeaderFirst == order[Length][1] = 1

\* the test cases whose rows are all in the map
Mapped == {t \in Tests \ todo : ~failed /\ \A w \in Workers : pc[w] # "idle" => test[w] # t}

(***************************************************************************)
(* "Logic to write class name and corresponding test cases"                *)
(* (ClassesVsTestCasesMapping.java): between two test cases the map has a  *)
(* test case under exactly the classes that it covered.  Where the header  *)
(* does not come first, a test case may miss the class in the workbook's   *)
(* first row and be listed under the header; no other class inherits a     *)
(* coverage from its neighbour.                                            *)
(***************************************************************************)
MapIsExact ==
    \A t \in Mapped :
        /\ \A c \in Classes : c + 1 # order[Length][1] => (Listed(c, t) <=> c \in covers[t])
        /\ HeaderFirst => ~Listed(Header, t)

(***************************************************************************)
(* "creating exec file for the executed test case"                         *)
(* (ClassesVsTestCasesMapping.java): the jacoco.exec in a test case's      *)
(* folder is what that test case has executed, in either order of copying  *)
(* and reporting.                                                          *)
(***************************************************************************)
ExecIsOwn == \A t \in Mapped : ownExec[t] = covers[t]

(***************************************************************************)
(* The final workbook lists a test case only under a class that it covered *)
(* or, where it does not come first, under the header, and at most one of  *)
(* the map's entries is missing from it.                                   *)
(***************************************************************************)
WrittenIsCovered ==
    finished =>
        /\ \A p \in mapping : p[1] \in covers[p[2]] \/ (p[1] = Header /\ ~HeaderFirst)
        /\ \A c \in Names : \A i \in DOMAIN map[c] :
              <<c, map[c][i]>> \in mapping
              \/ \A d \in Names : \A j \in DOMAIN map[d] :
                    <<d, map[d][j]>> \in mapping \/ <<d, j>> = <<c, i>>

(***************************************************************************)
(* From the dump of the agent to the last workbook, what is attributed to  *)
(* a test case is what it has covered: the exec file, the map of its       *)
(* classes and the rows that are written of it.                            *)
(***************************************************************************)
CoverageIsTrue == ExecIsOwn /\ MapIsExact /\ WrittenIsCovered

(***************************************************************************)
(* "This method writes map data to an excel" (ExcelProcessor.java): every  *)
(* entry of the map is a row of the final workbook.                        *)
(***************************************************************************)
WholeMapWritten ==
    finished => \A c \in Names : \A i \in DOMAIN map[c] : <<c, map[c][i]>> \in mapping

=============================================================================
