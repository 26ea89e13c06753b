------------------------------ MODULE ExcelCompare ------------------------------
(***************************************************************************)
(* results/ExcelComparator.java: the program that compares the workbooks   *)
(* the test cases have exported with their baselines, directory by         *)
(* directory, and reports to Results.xls what agrees, what differs and     *)
(* what is missing on either side.                                         *)
(*                                                                         *)
(* A tree is tree[suite][test case][file], a workbook.  Suites are numbers *)
(* in the order of the listing.  Test cases and files are taken in any     *)
(* order, as File.listFiles leaves it open.  No test case has the name of  *)
(* a suite.  Rows are also inserted into EXCEL_RESULT_TABLE, which nothing *)
(* here reads back; that table is left out.                                *)
(***************************************************************************)
EXTENDS Integers, Sequences, FiniteSets, Bags, FiniteSetsExt

CONSTANTS
    NumSuites,
    Cases,    \* names of test cases
    Files,    \* names of workbooks
    Books,    \* workbooks: a sequence of sheets, a sheet maps row numbers to
              \* rows, a row maps column numbers to values
    Spaces,   \* those values that are strings of spaces
    Worlds    \* what there is on disk and in the database: [source, base, passed]

Suites == 1..NumSuites
None == "none"
Unreadable == <<>>  \* a file that is no workbook: there is none without a sheet

IsTree(t) ==
    /\ DOMAIN t \subseteq Suites
    /\ \A s \in DOMAIN t : DOMAIN t[s] \subseteq Cases
    /\ \A s \in DOMAIN t : \A c \in DOMAIN t[s] :
          DOMAIN t[s][c] \subseteq Files /\ \A f \in DOMAIN t[s][c] : t[s][c][f] \in Books

\* Rows of a sheet, or cells of a row, under their numbers
Numbered(f) == IsFiniteSet(DOMAIN f) /\ DOMAIN f \subseteq Nat

ASSUME ExcelCompareAssumption ==
    /\ NumSuites \in Nat
    /\ None \notin Cases \cup Files
    /\ \A w \in Worlds : IsTree(w.source) /\ IsTree(w.base) /\ w.passed \subseteq Suites \X Cases
    /\ \A b \in Books :
          /\ b \in Seq({b[i] : i \in DOMAIN b})
          /\ \A i \in DOMAIN b : Numbered(b[i]) /\ \A r \in DOMAIN b[i] : Numbered(b[i][r])

VARIABLES
    world,         \* source and baseline directories, rowContents
    pc,
    suite,         \* the suite in hand, 0 before the first
    cases,         \* its test cases still to be compared
    case,          \* the test case in hand
    dir,           \* the suite in whose baseline its directory was found
    files,         \* its workbooks still to be compared
    basecases,     \* baseline test cases still to be looked for in the source
    sourceTC, exportTCName,
    report         \* the rows of Results.xls, a bag

vars == <<world, pc, suite, cases, case, dir, files, basecases, sourceTC, exportTCName, report>>

source == world.source
base == world.base

Entry(c, f, r) == [suite |-> suite, case |-> c, file |-> f, result |-> r]
Write(c, f, r) == report' = report (+) SetToBag({Entry(c, f, r)})

Init ==
    /\ world \in Worlds
    /\ pc = "suites"
    /\ suite = 0
    /\ cases = {} /\ case = None /\ dir = 0 /\ files = {} /\ basecases = {}
    /\ sourceTC = None /\ exportTCName = None
    /\ report = EmptyBag

-----------------------------------------------------------------------------
(* Comparing two workbooks: compareSnapshots and the methods it calls      *)

CellsAgree(r1, r2, k) ==
    IF k \in DOMAIN r1 /\ k \in DOMAIN r2
    THEN r1[k] = r2[k] \/ {r1[k], r2[k]} \subseteq Spaces
    ELSE k \notin DOMAIN r1 /\ k \notin DOMAIN r2

\* getLastCellNum is the column after the last, and the loop includes it
RowsAgree(r1, r2) ==
    DOMAIN r1 = {} \/ \A k \in Min(DOMAIN r1)..(Max(DOMAIN r1) + 1) : CellsAgree(r1, r2, k)

\* mutant: i < lastRow1
RowNumbersButLast(s) == IF DOMAIN s = {} THEN {0} ELSE Min(DOMAIN s)..(Max(DOMAIN s) - 1)

\* getFirstRowNum..getLastRowNum, both 0 for a sheet without rows
RowNumbers(s) == IF DOMAIN s = {} THEN {0} ELSE Min(DOMAIN s)..Max(DOMAIN s)

SheetsAgree(s1, s2) ==
    \A i \in RowNumbers(s1) :
        IF i \in DOMAIN s1 /\ i \in DOMAIN s2 THEN RowsAgree(s1[i], s2[i])
        ELSE i \notin DOMAIN s1 /\ i \notin DOMAIN s2

\* no verdict for a file that cannot be read, or a sheet that is not there
Compared(w1, w2) ==
    IF Unreadable \in {w1, w2} \/ Len(w1) > Len(w2) THEN None
    ELSE IF \A i \in DOMAIN w1 : SheetsAgree(w1[i], w2[i]) THEN "PASS" ELSE "FAIL"

-----------------------------------------------------------------------------
(* The suites                                                              *)

Goto(place) == pc' = place

StartSuite ==
    /\ pc = "suites"
    /\ \E s \in DOMAIN source :
          /\ suite < s /\ \A u \in DOMAIN source : suite < u => s <= u
          /\ suite' = s
          /\ cases' = DOMAIN source[s]
    /\ Goto("cases")
    /\ UNCHANGED <<world, case, dir, files, basecases, sourceTC, exportTCName, report>>

EndMain ==
    /\ pc = "suites"
    /\ \A s \in DOMAIN source : s <= suite
    /\ Goto("done")
    /\ UNCHANGED <<world, suite, cases, case, dir, files, basecases, sourceTC, exportTCName, report>>

-----------------------------------------------------------------------------
(* The test cases of the source                                            *)

\* the suites with a baseline directory of the test case's name: any suite's will do
Baselines(c) == {s \in DOMAIN base : c \in DOMAIN base[s]}

\* the first one that getAllSubDirectories lists
FoundBase(c) ==
    /\ pc = "cases" /\ c \in cases /\ Baselines(c) # {}
    /\ case' = c
    /\ dir' = Min(Baselines(c))
    /\ cases' = cases \ {c}
    /\ files' = DOMAIN source[suite][c]
    /\ sourceTC' = c
    /\ IF files' = {}
       THEN /\ exportTCName' = c
            /\ Write(c, None, "*Not found in source directory")
       ELSE UNCHANGED <<exportTCName, report>>
    /\ Goto("files")
    /\ UNCHANGED <<world, suite, basecases>>

NoBase(c) ==
    /\ pc = "cases" /\ c \in cases /\ Baselines(c) = {}
    /\ cases' = cases \ {c}
    /\ Write(c, None, "Not found in Base directory")
    /\ UNCHANGED <<world, pc, suite, case, dir, files, basecases, sourceTC, exportTCName>>

\* a baseline that is missing or cannot be compared is not reported
CompareFile(f) ==
    /\ pc = "files" /\ f \in files
    /\ files' = files \ {f}
    /\ LET result == IF f \in DOMAIN base[dir][case]
                     THEN Compared(source[suite][case][f], base[dir][case][f])
                     ELSE None
       IN IF result = None THEN UNCHANGED report ELSE Write(case, f, result)
    /\ UNCHANGED <<world, pc, suite, cases, case, dir, basecases, sourceTC, exportTCName>>

EndCase ==
    /\ pc = "files" /\ files = {}
    /\ Goto("cases")
    /\ UNCHANGED <<world, suite, cases, case, dir, files, basecases, sourceTC, exportTCName, report>>

-----------------------------------------------------------------------------
(* The test cases of the baseline                                          *)

InSource(c) == c \in DOMAIN source[suite]

\* the loop over the baseline's test cases does nothing without one in the source
BeginMissing ==
    /\ pc = "cases" /\ cases = {}
    /\ basecases' = IF suite \in DOMAIN base /\ DOMAIN source[suite] # {} THEN DOMAIN base[suite] ELSE {}
    /\ Goto("missing")
    /\ UNCHANGED <<world, suite, cases, case, dir, files, sourceTC, exportTCName, report>>

\* with another number of files, each pair of different names makes a row
OtherPairs(c) ==
    LET here == DOMAIN source[suite][c]
        there == DOMAIN base[suite][c]
    IN IF Cardinality(here) = Cardinality(there) THEN EmptyBag
       ELSE [e \in {Entry(c, f, "*Not found in source directory") :
                        f \in {g \in there : here \ {g} # {}}} |-> Cardinality(here \ {e.file})]

CheckFiles(c) ==
    /\ pc = "missing" /\ c \in basecases /\ InSource(c)
    /\ basecases' = basecases \ {c}
    /\ report' = report (+) OtherPairs(c)
    /\ UNCHANGED <<world, pc, suite, cases, case, dir, files, sourceTC, exportTCName>>

\* sourceTC.equals with no test case found so far: the exception ends main
Abort(c) ==
    /\ pc = "missing" /\ c \in basecases /\ ~InSource(c)
    /\ sourceTC = None
    /\ Goto("aborted")
    /\ UNCHANGED <<world, suite, cases, case, dir, files, basecases, sourceTC, exportTCName, report>>

\* mutant: the suite's name is not compared
KnownInAny(c) == c \in {sourceTC, exportTCName} \/ \E s \in Suites : <<s, c>> \in world.passed

Known(c) == c \in {sourceTC, exportTCName} \/ <<suite, c>> \in world.passed

ReportMissing(c) ==
    /\ pc = "missing" /\ c \in basecases /\ ~InSource(c)
    /\ sourceTC # None
    /\ basecases' = basecases \ {c}
    /\ IF Known(c) THEN UNCHANGED report ELSE Write(c, None, "Not found in source directory")
    /\ UNCHANGED <<world, pc, suite, cases, case, dir, files, sourceTC, exportTCName>>

EndSuite ==
    /\ pc = "missing" /\ basecases = {}
    /\ Goto("suites")
    /\ UNCHANGED <<world, suite, cases, case, dir, files, basecases, sourceTC, exportTCName, report>>

-----------------------------------------------------------------------------
Next ==
    \/ StartSuite \/ EndMain \/ EndCase \/ BeginMissing \/ EndSuite
    \/ \E c \in Cases : FoundBase(c) \/ NoBase(c) \/ CheckFiles(c) \/ Abort(c) \/ ReportMissing(c)
    \/ \E f \in Files : CompareFile(f)

Spec == Init /\ [][Next]_vars

-----------------------------------------------------------------------------
(* Properties                                                              *)

Rows == BagToSet(report)
Verdicts == {"PASS", "FAIL"}
Missing == "Not found in source directory"
FileMissing == "*Not found in source directory"
Results == Verdicts \cup {Missing, FileMissing, "Not found in Base directory"}

TypeOK ==
    /\ pc \in {"suites", "cases", "files", "missing", "done", "aborted"}
    /\ suite \in {0} \cup DOMAIN source
    /\ cases \subseteq Cases /\ files \subseteq Files /\ basecases \subseteq Cases
    /\ {case, sourceTC, exportTCName} \subseteq Cases \cup {None}
    /\ dir \in {0} \cup DOMAIN base
    /\ Rows \subseteq [suite : Suites, case : Cases, file : Files \cup {None}, result : Results]
    /\ pc = "files" => case \in DOMAIN base[dir] /\ files \subseteq DOMAIN source[suite][case]

\* the value at a place of a workbook, in a set that is empty for none
Value(w, p) ==
    IF p[1] \in DOMAIN w /\ p[2] \in DOMAIN w[p[1]] /\ p[3] \in DOMAIN w[p[1]][p[2]]
    THEN {w[p[1]][p[2]][p[3]]} ELSE {}

Places(w) ==
    UNION {UNION {{<<i, r, k>> : k \in DOMAIN w[i][r]} : r \in DOMAIN w[i]} : i \in DOMAIN w}

SameAt(w1, w2, p) ==
    \/ Value(w1, p) = Value(w2, p)
    \/ /\ Value(w1, p) # {} /\ Value(w2, p) # {}
       /\ Value(w1, p) \cup Value(w2, p) \subseteq Spaces

Book(e) == source[e.suite][e.case][e.file]

(***************************************************************************)
(* A workbook has one verdict at most.  It is PASS only if each value in   *)
(* the workbook is the value at the same place of a baseline of its name,  *)
(* and FAIL only if it differs from one: in a value, or in an empty row.   *)
(***************************************************************************)
VerdictIsDeserved ==
    \A e \in Rows : e.result \in Verdicts =>
        /\ report[e] = 1
        /\ \A d \in Rows : (d.result \in Verdicts /\ d.suite = e.suite /\ d.case = e.case
                            /\ d.file = e.file) => d = e
        /\ \E s \in Baselines(e.case) : e.file \in DOMAIN base[s][e.case] /\
            LET w1 == Book(e)
                w2 == base[s][e.case][e.file]
            IN IF e.result = "PASS" THEN \A p \in Places(w1) : SameAt(w1, w2, p)
               ELSE \/ \E p \in Places(w1) \cup Places(w2) : ~SameAt(w1, w2, p)
                    \/ \E i \in DOMAIN w1 : DOMAIN w1[i] # DOMAIN w2[i]

(***************************************************************************)
(* When main ends normally, every exported test case is in the report,     *)
(* unless none of its workbooks could be compared with anything.           *)
(***************************************************************************)
CasesAreReported ==
    pc = "done" => \A s \in DOMAIN source : \A c \in DOMAIN source[s] :
        \/ \E e \in Rows : e.suite = s /\ e.case = c
        \/ /\ Baselines(c) # {}
           /\ LET b == base[Min(Baselines(c))][c]
              IN \A f \in DOMAIN source[s][c] :
                    f \notin DOMAIN b \/ Compared(source[s][c][f], b[f]) = None

(***************************************************************************)
(* A test case reported as missing in the source is missing there, has a   *)
(* baseline in the suite and has not passed before; it is reported once.   *)
(***************************************************************************)
MissingIsMissing ==
    \A e \in Rows : e.result = Missing =>
        /\ e.case \notin DOMAIN source[e.suite]
        /\ e.case \in DOMAIN base[e.suite]
        /\ <<e.suite, e.case>> \notin world.passed
        /\ report[e] = 1

(***************************************************************************)
(* And one that is missing is reported, although sourceTC and exportTCName *)
(* live from suite to suite: when main ends normally, it escapes only if   *)
(* it has passed before, or an earlier suite has a test case of the name.  *)
(***************************************************************************)
MissingIsReported ==
    pc = "done" => \A s \in DOMAIN source \cap DOMAIN base : \A c \in DOMAIN base[s] :
        \/ c \in DOMAIN source[s] \/ DOMAIN source[s] = {} \/ <<s, c>> \in world.passed
        \/ \E u \in DOMAIN source : u < s /\ c \in DOMAIN source[u]
        \/ \E e \in Rows : e.suite = s /\ e.case = c /\ e.result = Missing

(***************************************************************************)
(* Main gives up with suites left only if not one test case so far had a   *)
(* baseline.                                                               *)
(***************************************************************************)
AbortHasCause ==
    pc = "aborted" => \A s \in DOMAIN source : s <= suite =>
        \A c \in DOMAIN source[s] : Baselines(c) = {}

(***************************************************************************)
(* Every test case of either side is accounted for in the report:          *)
(* compared, missing in the source, missing in the baseline, or after the  *)
(* suite at which main gave up because nothing had a baseline.             *)
(***************************************************************************)
CasesAreAccounted ==
    CasesAreReported /\ MissingIsMissing /\ MissingIsReported /\ AbortHasCause

=============================================================================
