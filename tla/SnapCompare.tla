------------------------------ MODULE SnapCompare ------------------------------
(***************************************************************************)
(* results/SuiteComparison.java: the program that compares the snapshots   *)
(* of the test cases with their baselines, and reports to Results.xls and, *)
(* through ResultsDBLogger, to the database.                               *)
(*                                                                         *)
(* A suite is the sequence of the directories that getAllSubDirectories    *)
(* lists for it, the suite's own among them: each has a name and the       *)
(* sequence of its files.  Names are equal here when they are up to case.  *)
(* A file is a snapshot: its bytes, and the size of the picture in it.     *)
(***************************************************************************)
EXTENDS Integers, Sequences, FiniteSets

CONSTANTS
    Settings,       \* what is on disk, and whether db.logging is on, see below
    NoSize,         \* the size of what is no picture
    Empty           \* null, or an empty cell

(* A setting: suites, a sequence of [name, dirs]; base, the directories of   *)
(* the baselines with their files by name; failures, the names with FAILURE  *)
(* in them; logging, and sound: whether reading and writing files and the    *)
(* database never fail.                                                      *)

IsList(q) == q \in Seq({q[i] : i \in DOMAIN q})

\* What is written in the column of results
Marks == {"PASS", "FAIL", "FAIL - Resolution is mismatched", "SKIP", "Not found in Base directory"}

\* Nothing has the name of an empty cell, and no two files of a directory have
\* one name
ASSUME SnapAssumption ==
    /\ Empty \notin Marks
    /\ \A w \in Settings :
          /\ IsList(w.suites) /\ IsList(w.base) /\ w.logging \in BOOLEAN
          /\ \A s \in DOMAIN w.suites :
                LET suite == w.suites[s] IN
                /\ suite.name # Empty /\ IsList(suite.dirs)
                /\ \A d \in DOMAIN suite.dirs :
                      LET dir == suite.dirs[d] IN
                      /\ dir.name # Empty /\ IsList(dir.files)
                      /\ \A k \in DOMAIN dir.files :
                            /\ Empty \notin {dir.files[k].name, <<suite.name, dir.name, dir.files[k].name>>}
                            /\ \A l \in DOMAIN dir.files : dir.files[l].name = dir.files[k].name => l = k

VARIABLES
    setting,
    at,             \* "suites", "cases", "snaps", "done", "ended" by an error
    suiteno, dirno, \* the numbers of the suite and of its directory in hand
    snaps,          \* the files of it still to be compared
    baseTC,         \* the number of the baseline's directory
    firstRun,       \* whether the test case's name is still to be written
    snapshotName, failedPath, widthmismatch, sourceSize, baseSize,  \* static fields
    results,        \* the rows of Results.xls
    db,             \* the rows of TC_RESULT_TABLE
    unread,         \* history: the snapshots whose comparison has met an IOException
    lost            \* history: how many rows the database did not take

statics == <<snapshotName, failedPath, widthmismatch, sourceSize, baseSize>>
inhand == <<suiteno, dirno, snaps, baseTC, firstRun>>
snapvars == <<setting, at, inhand, statics, results, db, unread, lost>>

SuiteName == setting.suites[suiteno].name
Dirs == setting.suites[suiteno].dirs
TcName == Dirs[dirno].name

Row(s, c, f, r) == [suite |-> s, case |-> c, snap |-> f, result |-> r, sizes |-> Empty]
Heading(c) == Row(Empty, c, Empty, Empty)
Blank == Row(Empty, Empty, Empty, Empty)

SnapInit ==
    /\ setting \in Settings
    /\ at = "suites"
    /\ suiteno = 0 /\ dirno = 0 /\ snaps = <<>> /\ baseTC = 0 /\ firstRun = TRUE
    /\ snapshotName = Empty /\ failedPath = Empty /\ widthmismatch = FALSE
    /\ sourceSize = NoSize /\ baseSize = NoSize
    /\ results = <<>> /\ db = <<>>
    /\ unread = {} /\ lost = 0

GoOn(where) == at' = where

-----------------------------------------------------------------------------
(* updateStatus: runQuery drops what executeUpdate throws, and what close    *)
(* throws becomes an AssertionError, which main does not catch               *)

Taken(row) == (IF setting.logging THEN db' = Append(db, row) ELSE UNCHANGED db) /\ UNCHANGED lost
Dropped == lost' = lost + 1 /\ UNCHANGED db

\* The rows before the statement, the statement, and the rows after it
Log(row, before, after) ==
    \/ /\ Taken(row) \/ (setting.logging /\ ~setting.sound /\ Dropped)
       /\ results' = results \o before \o after
       /\ UNCHANGED at
    \/ /\ setting.logging /\ ~setting.sound
       /\ Dropped
       /\ results' = results \o before
       /\ GoOn("ended")

SnapEntry(snap, result) == Row(SuiteName, TcName, snap, result)

-----------------------------------------------------------------------------
(* Suites and test cases                                                   *)

NextSuite ==
    /\ at = "suites" /\ suiteno < Len(setting.suites)
    /\ suiteno' = suiteno + 1
    /\ dirno' = 0
    /\ results' = Append(results, Row(setting.suites[suiteno'].name, Empty, Empty, Empty))
    /\ GoOn("cases")
    /\ UNCHANGED <<setting, snaps, baseTC, firstRun, statics, db, unread, lost>>

EndSnaps ==
    /\ at = "suites" /\ suiteno = Len(setting.suites)
    /\ GoOn("done")
    /\ UNCHANGED <<setting, inhand, statics, results, db, unread, lost>>

EndDirs ==
    /\ at = "cases" /\ dirno = Len(Dirs)
    /\ results' = Append(results, Blank)
    /\ GoOn("suites")
    /\ UNCHANGED <<setting, inhand, statics, db, unread, lost>>

\* The directories of the baselines, of any suite, that have the name
Named(name) == {b \in DOMAIN setting.base : setting.base[b].name = name}

\* mutant: firstRun is a field that one test case leaves to the next
FoundDirStale ==
    /\ at = "cases" /\ dirno < Len(Dirs)
    /\ dirno' = dirno + 1
    /\ \E b \in Named(Dirs[dirno'].name) :
          /\ \A other \in Named(Dirs[dirno'].name) : b <= other
          /\ baseTC' = b
    /\ snaps' = Dirs[dirno'].files
    /\ GoOn("snaps")
    /\ UNCHANGED <<setting, suiteno, firstRun, statics, results, db, unread, lost>>

FoundDir ==
    /\ at = "cases" /\ dirno < Len(Dirs)
    /\ dirno' = dirno + 1
    /\ \E b \in Named(Dirs[dirno'].name) :
          /\ \A other \in Named(Dirs[dirno'].name) : b <= other
          /\ baseTC' = b
    /\ snaps' = Dirs[dirno'].files
    /\ firstRun' = TRUE
    /\ GoOn("snaps")
    /\ UNCHANGED <<setting, suiteno, statics, results, db, unread, lost>>

\* The row has the snapshot that was compared last, whosever it is
NoDir ==
    /\ at = "cases" /\ dirno < Len(Dirs)
    /\ dirno' = dirno + 1
    /\ Named(Dirs[dirno'].name) = {}
    /\ LET name == Dirs[dirno'].name IN
       IF name = "failed" THEN UNCHANGED <<at, results, db, lost>>
       ELSE Log(Row(SuiteName, name, snapshotName, "SKIP"),
                <<Row(Empty, name, Empty, "Not found in Base directory")>>, <<>>)
    /\ UNCHANGED <<setting, suiteno, snaps, baseTC, firstRun, statics, unread>>

EndDir ==
    /\ at = "snaps" /\ snaps = <<>>
    /\ GoOn("cases")
    /\ UNCHANGED <<setting, inhand, statics, results, db, unread, lost>>

-----------------------------------------------------------------------------
(* The snapshots of a test case                                            *)

Snap == Head(snaps)
BaseFiles == setting.base[baseTC].files

\* What each snapshot does, whatever comes of it
Take ==
    /\ at = "snaps" /\ snaps # <<>>
    /\ snapshotName' = Snap.name
    /\ snaps' = Tail(snaps)
    /\ UNCHANGED <<setting, suiteno, dirno, baseTC>>

Compares == Take /\ Snap.name \notin setting.failures
Unchanged == UNCHANGED <<failedPath, widthmismatch, sourceSize, baseSize>>

\* The test case's name, over its first verdict
Name == IF firstRun THEN <<Heading(TcName)>> ELSE <<>>

Equal ==
    /\ Compares
    /\ Snap.name \in DOMAIN BaseFiles /\ BaseFiles[Snap.name].bytes = Snap.bytes
    /\ Log(SnapEntry(Snap.name, "PASS"), Name, <<Row(Empty, Empty, Snap.name, "PASS")>>)
    /\ firstRun' = FALSE
    /\ Unchanged /\ UNCHANGED unread

\* Two pictures that are not the same file: IMAGENOTEQUAL
Differ ==
    /\ Snap.name \in DOMAIN BaseFiles
    /\ BaseFiles[Snap.name].bytes # Snap.bytes
    /\ NoSize \notin {Snap.size, BaseFiles[Snap.name].size}

\* getDifferenceImage begins with widthmismatch = 0
Mismatch(s, b) == s # b

Unequal ==
    /\ Compares /\ Differ
    /\ sourceSize' = Snap.size
    /\ baseSize' = BaseFiles[Snap.name].size
    /\ widthmismatch' = Mismatch(sourceSize', baseSize')
    /\ failedPath' = <<SuiteName, TcName, Snap.name>>
    /\ LET result == IF widthmismatch' THEN "FAIL - Resolution is mismatched" ELSE "FAIL"
           sizes == IF widthmismatch' THEN <<sourceSize', baseSize'>> ELSE Empty
       IN Log([SnapEntry(Snap.name, result) EXCEPT !.sizes = sizes],
              Name, <<[Row(Empty, Empty, failedPath', result) EXCEPT !.sizes = sizes]>>)
    /\ firstRun' = FALSE
    /\ UNCHANGED unread

\* The test case's name is written again for each of these
NotFound ==
    /\ Compares
    /\ Snap.name \notin DOMAIN BaseFiles
    /\ Log(SnapEntry(Snap.name, "SKIP"),
           <<Heading(TcName), Row(Empty, Empty, Snap.name, "Not found in Base directory")>>, <<>>)
    /\ Unchanged /\ UNCHANGED <<firstRun, unread>>

\* A snapshot of a step that has failed
Ignored ==
    /\ Take /\ Snap.name \in setting.failures
    /\ Unchanged /\ UNCHANGED <<at, firstRun, results, db, unread, lost>>

\* An IOException leaves compareSnapshots with -1, wherever it was
IOFails ==
    /\ Compares /\ ~setting.sound
    /\ unread' = unread \cup {<<suiteno, dirno, Snap.name>>}
    /\ \/ Unchanged
       \/ /\ Differ
          /\ sourceSize' = Snap.size
          /\ \/ UNCHANGED <<baseSize, widthmismatch>>
             \/ /\ baseSize' = BaseFiles[Snap.name].size
                /\ widthmismatch' = Mismatch(sourceSize', baseSize')
          /\ UNCHANGED failedPath
    /\ UNCHANGED <<at, firstRun, results, db, lost>>

\* ImageIO.read returns null for what is no picture: main catches the
\* NullPointerException and has nothing left to do
NoPicture ==
    /\ Compares
    /\ Snap.name \in DOMAIN BaseFiles
    /\ BaseFiles[Snap.name].bytes # Snap.bytes
    /\ NoSize \in {Snap.size, BaseFiles[Snap.name].size}
    /\ IF Snap.size = NoSize THEN UNCHANGED sourceSize ELSE sourceSize' = Snap.size
    /\ GoOn("ended")
    /\ UNCHANGED <<firstRun, failedPath, widthmismatch, baseSize, results, db, unread, lost>>

SnapNext ==
    \/ NextSuite \/ EndSnaps \/ EndDirs \/ FoundDir \/ NoDir \/ EndDir
    \/ Equal \/ Unequal \/ NotFound \/ Ignored \/ IOFails \/ NoPicture

SnapSpec == SnapInit /\ [][SnapNext]_snapvars

-----------------------------------------------------------------------------
(* Properties                                                              *)

\* The nearest heading of a column, from row i upwards
Above(i, column) ==
    LET filled == {j \in 1 .. i : column[j] # Empty} IN
    column[CHOOSE j \in filled : \A k \in filled : k <= j]

SuiteOf(i) == Above(i, [j \in DOMAIN results |-> results[j].suite])
CaseOf(i) == Above(i, [j \in DOMAIN results |-> results[j].case])

VerdictRows == {i \in DOMAIN results : results[i].result # Empty}

Differing == {"FAIL", "FAIL - Resolution is mismatched"}

\* What a row is about, as its reader finds it: from the headings above it, or
\* from the path of the picture of differences
SnapOf(i) == IF results[i].result \in Differing THEN results[i].snap[3] ELSE results[i].snap

\* The files of that suite, test case and name
SnapsNamed(i) ==
    UNION {UNION {{d.files[k] : k \in {k \in DOMAIN d.files : d.files[k].name = SnapOf(i)}} :
                      d \in {s.dirs[k] : k \in {k \in DOMAIN s.dirs : s.dirs[k].name = CaseOf(i)}}} :
              s \in {setting.suites[k] : k \in {k \in DOMAIN setting.suites : setting.suites[k].name = SuiteOf(i)}}}

\* The baseline that a test case of the name is compared with
BaselineOf(i) ==
    setting.base[CHOOSE b \in Named(CaseOf(i)) : \A other \in Named(CaseOf(i)) : b <= other].files

(***************************************************************************)
(* Every row of Results.xls is read under the names above it: a snapshot   *)
(* of that suite and test case has the verdict of the row, with the sizes  *)
(* in it, and the path of a difference is under the same names.  The names *)
(* are written once per test case, and path, sizes and kind of difference  *)
(* live in static fields, so nothing but the order of writing ties them.   *)
(***************************************************************************)
RowsAreTrue ==
    \A i \in VerdictRows :
        IF results[i].snap = Empty THEN Named(CaseOf(i)) = {}
        ELSE \E f \in SnapsNamed(i) :
            CASE results[i].result = "PASS" ->
                    SnapOf(i) \in DOMAIN BaselineOf(i) /\ BaselineOf(i)[SnapOf(i)].bytes = f.bytes
              [] results[i].result \in Differing ->
                    /\ SnapOf(i) \in DOMAIN BaselineOf(i)
                    /\ LET b == BaselineOf(i)[SnapOf(i)] IN
                       /\ b.bytes # f.bytes
                       /\ (results[i].result = "FAIL") = (b.size = f.size)
                       /\ results[i].sizes \in {Empty, <<f.size, b.size>>}
                    /\ results[i].snap = <<SuiteOf(i), CaseOf(i), f.name>>
              [] OTHER -> SnapOf(i) \notin DOMAIN BaselineOf(i)

\* The files to be compared, as <<suite, directory, file>>
Wanted ==
    {w \in UNION {UNION {{<<s, d, k>> : k \in DOMAIN setting.suites[s].dirs[d].files} :
                             d \in DOMAIN setting.suites[s].dirs} : s \in DOMAIN setting.suites} :
        LET d == setting.suites[w[1]].dirs[w[2]] IN
        /\ Named(d.name) # {}
        /\ d.files[w[3]].name \notin setting.failures
        /\ <<w[1], w[2], d.files[w[3]].name>> \notin unread}

NamesOf(w) ==
    LET s == setting.suites[w[1]] IN <<s.name, s.dirs[w[2]].name, s.dirs[w[2]].files[w[3]].name>>

(***************************************************************************)
(* When main comes to its end, every snapshot of a test case with a        *)
(* baseline has one row under its names, but for those of failed steps and *)
(* those whose comparison has met an IOException; two directories of one   *)
(* name, under Passed and under Failed, have a row each.                   *)
(***************************************************************************)
SnapsAreCompared ==
    at = "done" =>
        \A w \in Wanted :
            Cardinality({v \in Wanted : NamesOf(v) = NamesOf(w)}) =
            Cardinality({i \in VerdictRows :
                results[i].snap # Empty /\ <<SuiteOf(i), CaseOf(i), SnapOf(i)>> = NamesOf(w)})

\* The verdicts of Results.xls from the top
VerdictOf(k) ==
    CHOOSE i \in VerdictRows : Cardinality({j \in VerdictRows : j <= i}) = k

(***************************************************************************)
(* The rows of the database, which have their names in them, are those of  *)
(* Results.xls in its order, where the names are in the headings, as long  *)
(* as the database has taken every row; and none is missing in either but  *)
(* those it has not taken.  A test case without a baseline has the         *)
(* snapshot of another in the database.                                    *)
(***************************************************************************)
DbIsTheReport ==
    setting.logging =>
        /\ Len(db) + lost - Cardinality(VerdictRows) \in (IF at = "ended" THEN {0, 1} ELSE {0})
        /\ lost = 0 => \A k \in DOMAIN db :
            LET i == VerdictOf(k) IN
            /\ db[k].suite = SuiteOf(i) /\ db[k].case = CaseOf(i)
            /\ db[k].sizes = results[i].sizes
            /\ db[k].result = (IF results[i].result = "Not found in Base directory"
                               THEN "SKIP" ELSE results[i].result)
            /\ results[i].snap # Empty => db[k].snap = SnapOf(i)

\* The row inserted for a test case without a baseline (SuiteComparison.java:202)
\* names a snapshot of that test case, or none.  This does not hold.
SkipNamesOwnSnap ==
    \A k \in DOMAIN db : db[k].result = "SKIP" /\ Named(db[k].case) = {} =>
        \/ db[k].snap = Empty
        \/ \E s \in DOMAIN setting.suites : \E d \in DOMAIN setting.suites[s].dirs :
              LET here == setting.suites[s].dirs[d] IN
              here.name = db[k].case /\ \E j \in DOMAIN here.files : here.files[j].name = db[k].snap

(***************************************************************************)
(* The report is true: read from the top it says what was compared, once,  *)
(* and the database says the same.                                         *)
(***************************************************************************)
SnapReportIsTrue == RowsAreTrue /\ SnapsAreCompared /\ DbIsTheReport
=============================================================================
