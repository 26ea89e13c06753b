------------------------------- MODULE StatusLog -------------------------------
(***************************************************************************)
(* The status of the test cases in the Oracle table TESTCASE_TABLE.        *)
(* db/oracle/SuiteDBLogger.java inserts an entry 'NOT RUN' for every row   *)
(* of the suite before the first one runs; the single TestNG listener      *)
(* db/oracle/TestCaseDBLogger.java updates the entry when a row has ended, *)
(* on the worker thread of the row; both connect through DBManager.java.   *)
(*                                                                         *)
(* A step is one access to the listener's shared field, one attempt to     *)
(* connect, or one statement.  JDBC commits each statement by itself, for  *)
(* getConnection leaves auto-commit on: the LOCK TABLE of addSuiteInfo is  *)
(* released before the next statement runs and keeps nobody out, and what  *)
(* has been inserted stays.  Entries are numbered by their ID, which is    *)
(* their place in the table.                                               *)
(***************************************************************************)
EXTENDS Naturals, Sequences, FiniteSets

CONSTANTS
    NumRows,      \* rows of the suite sheet, each with a test case of its own
    Outcomes,     \* Outcomes[r]: the statuses that row r may end with
    Settings,     \* the set-ups considered, see Setting
    MaxTries,     \* attempts in getConnection (10 in the code)
    Flaky,        \* the database may go down and queries may fail
    MaxEntries    \* bound: the table's entries, other programs' included

Rows == 1..NumRows
NoRow == 0  \* null

\* data-provider-thread-count, the sessions that the database grants to this
\* program, and (a bound) how often the suite is run, in a new JVM each time
Setting == [workers : Nat \ {0}, sessions : Nat, passes : Nat \ {0}]

ASSUME StatusLogAssumption ==
    /\ NumRows \in Nat
    /\ Outcomes \in [Rows -> SUBSET {"PASS", "FAIL", "SKIP"}]
    /\ Settings \subseteq Setting
    /\ MaxTries \in Nat \ {0}
    /\ Flaky \in BOOLEAN
    /\ MaxEntries \in Nat

VARIABLES
    settings,    \* the set-up of this run
    parameters,  \* TestCaseDBLogger.parameters, as the row whose array it is
    table,       \* TESTCASE_TABLE
    up,          \* the database accepts connections
    sessions,    \* this program's open sessions
    pass,        \* which run of the suite this is
    pc,          \* pc[r]: what is being done for row r
    tries,       \* tries[r]: retryCount
    tcID,        \* tcID[r]: the row whose name updateStatus took
    about,       \* about[r]: the row whose name it passed to getRunID
    runID,       \* runID[r]: the local count
    outcome,     \* outcome[r]: the status that the listener method stands for
    entry        \* entry[r]: the ID that addSuiteInfo returned, 0 for none

dbVars  == <<settings, table, sessions>>
rowVars == <<tcID, about, runID, outcome, entry>>
vars == <<settings, parameters, table, up, sessions, pass, pc, tries, tcID, about,
          runID, outcome, entry>>

Workers     == settings.workers
MaxSessions == settings.sessions
Passes      == settings.passes

Statuses == {"NOT RUN", "PASS", "FAIL", "SKIP"}
Entry == [test : Rows, own : BOOLEAN, status : Statuses, run : Nat]

\* where getConnection is called, where a connection leads, and where an
\* exception does: addSuiteInfo and runQuery swallow it; in getRunID it leaves
\* connection null, and the NullPointerException ends the listener
Callers   == {"insert", "count", "update"}
Connected == [insert |-> "inserting", count |-> "counting", update |-> "updating"]
GivenUp   == [insert |-> "ready", count |-> "thrown", update |-> "logged"]

PCs == Callers \cup {"listed", "inserting", "inserted", "ready", "named", "reading",
                     "counting", "updating", "logged", "thrown"}

TypeOK ==
    /\ settings \in Settings
    /\ parameters \in Rows \cup {NoRow}
    /\ table \in Seq(Entry)
    /\ up \in BOOLEAN
    /\ sessions \in 0..MaxSessions
    /\ pass \in 1..Passes
    /\ pc \in [Rows -> PCs]
    /\ tries \in [Rows -> 0..(MaxTries - 1)]
    /\ tcID \in [Rows -> Rows \cup {NoRow}]
    /\ about \in [Rows -> Rows \cup {NoRow}]
    /\ runID \in [Rows -> Nat]
    /\ outcome \in [Rows -> Statuses]
    /\ entry \in [Rows -> Nat]

Init ==
    /\ settings \in Settings
    /\ parameters = NoRow
    /\ table = <<>>
    /\ up = TRUE
    /\ sessions = 0
    /\ pass = 1
    /\ pc = [r \in Rows |-> "listed"]
    /\ tries = [r \in Rows |-> 0]
    /\ tcID = [r \in Rows |-> NoRow]
    /\ about = [r \in Rows |-> NoRow]
    /\ runID = [r \in Rows |-> 0]
    /\ outcome = [r \in Rows |-> "NOT RUN"]
    /\ entry = [r \in Rows |-> 0]

Go(r, from, to) == pc[r] = from /\ pc' = [pc EXCEPT ![r] = to]

\* the entries of a test case, and those of them that this configuration made
AnyEntries(q) == {i \in DOMAIN table : table[i].test = q}
OwnEntries(q) == {i \in AnyEntries(q) : table[i].own}

\* MAX(ID), 0 for none
LastOf(ids) == IF ids = {} THEN 0 ELSE CHOOSE i \in ids : \A j \in ids : j <= i

\* the locals of r's listener call are gone when it ends
Return(r) ==
    /\ tcID' = [tcID EXCEPT ![r] = NoRow]
    /\ about' = [about EXCEPT ![r] = NoRow]
    /\ runID' = [runID EXCEPT ![r] = 0]
    /\ outcome' = [outcome EXCEPT ![r] = "NOT RUN"]
    /\ UNCHANGED entry

-----------------------------------------------------------------------------
(* DBManager.getConnection                                                 *)

Granted == up /\ sessions < MaxSessions

Connect(r) ==
    /\ pc[r] \in Callers
    /\ Granted
    /\ sessions' = sessions + 1
    /\ pc' = [pc EXCEPT ![r] = Connected[pc[r]]]
    /\ tries' = [tries EXCEPT ![r] = 0]
    /\ UNCHANGED <<settings, parameters, table, up, pass>> /\ UNCHANGED rowVars

\* mutant: the attempts are not counted
RetryUncounted(r) ==
    /\ pc[r] \in Callers
    /\ ~Granted
    /\ UNCHANGED vars

Retry(r) ==
    /\ pc[r] \in Callers
    /\ ~Granted
    /\ IF tries[r] + 1 < MaxTries
       THEN tries' = [tries EXCEPT ![r] = @ + 1] /\ UNCHANGED pc /\ UNCHANGED rowVars
       ELSE /\ tries' = [tries EXCEPT ![r] = 0]
            /\ pc' = [pc EXCEPT ![r] = GivenUp[pc[r]]]
            /\ Return(r)
    /\ UNCHANGED <<parameters, up, pass>> /\ UNCHANGED dbVars

-----------------------------------------------------------------------------
(* SuiteDBLogger.addSuiteInfo, one row after the other; DBManager.addSuiteInfo *)

InSetup(r) == pc[r] \in {"insert", "inserting", "inserted"}

ListRow(r) ==
    /\ \A q \in Rows : ~InSetup(q) /\ (q < r => pc[q] # "listed")
    /\ Go(r, "listed", "insert")
    /\ UNCHANGED <<parameters, up, pass, tries>> /\ UNCHANGED dbVars /\ UNCHANGED rowVars

NotRun(r, mine) == [test |-> r, own |-> mine, status |-> "NOT RUN", run |-> 0]

\* LOCK TABLE, which is over when it returns, and the INSERT
Insert(r) ==
    /\ Go(r, "inserting", "inserted")
    /\ table' = Append(table, NotRun(r, TRUE))
    /\ UNCHANGED <<settings, parameters, up, sessions, pass, tries>> /\ UNCHANGED rowVars

\* mutant: the highest ID of any test case
SelectAnyId(r) ==
    /\ Go(r, "inserted", "ready")
    /\ entry' = [entry EXCEPT ![r] = Len(table)]
    /\ sessions' = sessions - 1
    /\ UNCHANGED <<settings, parameters, table, up, pass, tries, tcID, about, runID, outcome>>

\* SELECT MAX(id) of the test case, in whatever run, and whoever inserted since
SelectId(r) ==
    /\ Go(r, "inserted", "ready")
    /\ entry' = [entry EXCEPT ![r] = LastOf(AnyEntries(r))]
    /\ sessions' = sessions - 1
    /\ UNCHANGED <<settings, parameters, table, up, pass, tries, tcID, about, runID, outcome>>

\* a failed statement is swallowed and the ID is -1; the rollback finds nothing
\* to take back, an entry that is in the table stays
InsertFails(r) ==
    /\ Flaky
    /\ Go(r, "inserting", "ready") \/ Go(r, "inserted", "ready")
    /\ sessions' = sessions - 1
    /\ UNCHANGED <<settings, parameters, table, up, pass, tries>> /\ UNCHANGED rowVars

-----------------------------------------------------------------------------
(* TestCaseDBLogger                                                        *)

InListener(r) == pc[r] \in {"named", "reading", "count", "counting", "update", "updating"}

Ended(r) == pc[r] \in {"logged", "thrown"}

\* mutant: the field is set only once
OnTestOnce(r) ==
    /\ \A q \in Rows : pc[q] # "listed" /\ ~InSetup(q)
    /\ Cardinality({q \in Rows : q < r /\ ~Ended(q)}) < Workers
    /\ Go(r, "ready", "named")
    /\ parameters' = IF parameters = NoRow THEN r ELSE parameters
    /\ \E s \in Outcomes[r] : outcome' = [outcome EXCEPT ![r] = s]
    /\ UNCHANGED <<up, pass, tries, tcID, about, runID, entry>> /\ UNCHANGED dbVars

\* onTestSuccess, onTestFailure or onTestSkipped: parameters = result.getParameters();
\* the pool takes the rows in their order, Workers at a time
OnTest(r) ==
    /\ \A q \in Rows : pc[q] # "listed" /\ ~InSetup(q)
    /\ Cardinality({q \in Rows : q < r /\ ~Ended(q)}) < Workers
    /\ Go(r, "ready", "named")
    /\ parameters' = r
    /\ \E s \in Outcomes[r] : outcome' = [outcome EXCEPT ![r] = s]
    /\ UNCHANGED <<up, pass, tries, tcID, about, runID, entry>> /\ UNCHANGED dbVars

\* updateStatus: String tcID = (String) parameters[1]
TakeName(r) ==
    /\ Go(r, "named", "reading")
    /\ tcID' = [tcID EXCEPT ![r] = parameters]
    /\ UNCHANGED <<parameters, up, pass, tries, about, runID, outcome, entry>> /\ UNCHANGED dbVars

\* getRunID(parameters[1].toString(), logger)
CallGetRunID(r) ==
    /\ Go(r, "reading", "count")
    /\ about' = [about EXCEPT ![r] = parameters]
    /\ UNCHANGED <<parameters, up, pass, tries, tcID, runID, outcome, entry>> /\ UNCHANGED dbVars

\* max(TC_RUN_ID) + 1 over this program's entries of a row, 0 without any
NextRun(q) ==
    LET runs == {table[i].run : i \in OwnEntries(q)}
    IN IF runs = {} THEN 0 ELSE 1 + CHOOSE n \in runs : \A m \in runs : m <= n

\* getRunID commits but never closes its connection; its SQLException leaves 0
GetRunID(r) ==
    /\ Go(r, "counting", "update")
    /\ \/ runID' = [runID EXCEPT ![r] = NextRun(about[r])]
       \/ Flaky /\ UNCHANGED runID
    /\ UNCHANGED <<parameters, up, pass, tries, tcID, about, outcome, entry>> /\ UNCHANGED dbVars

\* the UPDATE of runQuery: the entry with the highest ID of this run and test case
Update(r) ==
    /\ Go(r, "updating", "logged")
    /\ LET id == LastOf(OwnEntries(tcID[r]))
       IN table' = [i \in DOMAIN table |->
             IF i = id THEN [table[i] EXCEPT !.status = outcome[r], !.run = runID[r]]
             ELSE table[i]]
    /\ sessions' = sessions - 1
    /\ Return(r)
    /\ UNCHANGED <<settings, parameters, up, pass, tries>>

\* closed and swallowed
UpdateFails(r) ==
    /\ Flaky
    /\ Go(r, "updating", "logged")
    /\ sessions' = sessions - 1
    /\ Return(r)
    /\ UNCHANGED <<settings, parameters, table, up, pass, tries>>

-----------------------------------------------------------------------------
(* The database, the other programs that log to it, and the next run.      *)

DatabaseChanges ==
    /\ Flaky
    /\ up' = ~up
    /\ UNCHANGED <<parameters, pass, pc, tries>> /\ UNCHANGED dbVars /\ UNCHANGED rowVars

\* another CONFIGID's entry of a test case of the same name
OtherInserts ==
    /\ Len(table) < MaxEntries
    /\ \E r \in Rows : table' = Append(table, NotRun(r, FALSE))
    /\ UNCHANGED <<settings, parameters, up, sessions, pass, pc, tries>> /\ UNCHANGED rowVars

\* a new JVM runs the suite again: all but the table and the database is as in Init
RunAgain ==
    /\ pass < Passes
    /\ \A r \in Rows : Ended(r)
    /\ pass' = pass + 1
    /\ parameters' = NoRow
    /\ sessions' = 0
    /\ pc' = [r \in Rows |-> "listed"]
    /\ tcID' = [r \in Rows |-> NoRow]
    /\ about' = [r \in Rows |-> NoRow]
    /\ runID' = [r \in Rows |-> 0]
    /\ outcome' = [r \in Rows |-> "NOT RUN"]
    /\ entry' = [r \in Rows |-> 0]
    /\ UNCHANGED <<settings, table, up, tries>>

-----------------------------------------------------------------------------
Setup(r) == ListRow(r) \/ Insert(r) \/ SelectId(r) \/ InsertFails(r)

Listen(r) ==
    \/ OnTest(r) \/ TakeName(r) \/ CallGetRunID(r) \/ GetRunID(r)
    \/ Update(r) \/ UpdateFails(r)

Do(r) == Connect(r) \/ Retry(r) \/ Setup(r) \/ Listen(r)

Next == DatabaseChanges \/ OtherInserts \/ RunAgain \/ \E r \in Rows : Do(r)

\* the program's threads run; nothing is assumed of the database
Spec == Init /\ [][Next]_vars /\ \A r \in Rows : WF_vars(Do(r))

-----------------------------------------------------------------------------
(* Properties                                                              *)

(***************************************************************************)
(* A status enters the table only as the outcome of the very row whose     *)
(* test case the entry is of.  TestCaseDBLogger's comment promises it: its *)
(* methods "update the status of testcases into the database according to  *)
(* the method called".  The listener's shared field keeps it with one       *)
(* worker.                                                                 *)
(***************************************************************************)
StatusIsTheRows ==
    [][Workers = 1 => \A i \in DOMAIN table : table'[i].status # table[i].status =>
          \E r \in Rows : /\ pc[r] = "updating" /\ pc'[r] = "logged"
                          /\ table[i].test = r
                          /\ table'[i].status = outcome[r]]_vars

(***************************************************************************)
(* With one worker the runs of a test case are told apart by TC_RUN_ID: of *)
(* two of its entries with a run, the later one has the higher number,     *)
(* unless the query of getRunID failed for it and left 0.  With two, a row *)
(* may count the runs of another one's test case (see TakeName and         *)
(* CallGetRunID), and the numbers of a second run of the suite may fall.   *)
(***************************************************************************)
RunIDsGrow ==
    Workers = 1 => \A i, j \in DOMAIN table :
        (/\ i < j /\ table[i].own /\ table[j].own /\ table[i].test = table[j].test
         /\ table[i].run # 0 /\ table[j].run # 0)
            => table[i].run < table[j].run

(***************************************************************************)
(* The ID that addSuiteInfo hands out is of an entry of the row's test     *)
(* case, this run has an entry of it in the table, and none of them is     *)
(* later: whatever other programs insert between the INSERT and the SELECT *)
(* MAX(id), an ID that is not the own entry's is one inserted after it.    *)
(***************************************************************************)
IDIsLatest ==
    \A r \in Rows : entry[r] # 0 => /\ entry[r] \in DOMAIN table
                                    /\ table[entry[r]].test = r
                                    /\ OwnEntries(r) # {}
                                    /\ \A i \in OwnEntries(r) : i <= entry[r]

(***************************************************************************)
(* The ID that addSuiteInfo hands out is that of an entry it has inserted, *)
(* as the LOCK TABLE before the two statements means it to be.             *)
(***************************************************************************)
IDIsOwn == \A r \in Rows : entry[r] # 0 => entry[r] \in OwnEntries(r)

(***************************************************************************)
(* No path of addSuiteInfo and runQuery, failing ones included, keeps a    *)
(* session: those open are in use by a row, or are the one that getRunID   *)
(* left behind for it.                                                     *)
(***************************************************************************)
SessionsAccounted ==
    sessions = Cardinality({r \in Rows : pc[r] \in {"inserting", "inserted", "counting", "updating"}})
             + Cardinality({r \in Rows : pc[r] \in {"update", "updating", "logged"}})

(***************************************************************************)
(* What addSuiteInfo, getRunID and the connections of the listener keep of *)
(* the table: the ID handed out is never below the own entry's, the runs   *)
(* of a test case are numbered upwards (with one worker), and no session   *)
(* is lost but the one that getRunID leaves behind.                        *)
(***************************************************************************)
TableIsTrue == IDIsLatest /\ RunIDsGrow /\ SessionsAccounted

(***************************************************************************)
(* The listener always comes back to TestNG, with the database up, down or *)
(* out of sessions.                                                        *)
(***************************************************************************)
ListenerReturns == \A r \in Rows : InListener(r) ~> Ended(r)

(***************************************************************************)
(* The listener "simply update[s] the status of testcases": with a         *)
(* database that is always up and a query that never fails, no call of it  *)
(* ends in an exception.                                                   *)
(***************************************************************************)
EveryStatusIsLogged == \A r \in Rows : ~Flaky => pc[r] # "thrown"

=============================================================================
