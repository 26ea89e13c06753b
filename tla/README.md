# A verification of two programs: a test framework and dsniff

The repository holds two programs of its own.

* A Java framework that runs Selenium tests written in Excel workbooks: 48
  classes under `src/com/eqtechnologic`, started by TestNG, with two further
  `main` programs that compare results with baselines. Paths of Java code
  below are relative to `src/com/eqtechnologic/` of the repository.
* The C program dsniff 2.3, which lies twice, file for file the same, where
  the tests keep their data: `ExcelBase/Test6/Sheet1/Sheet1.xls/dsniff-2.3/`
  and the same path under `Excels/`. What is said here of its files is mapped
  to the first copy and holds of both.

This directory holds TLA+ modules of their core, the configurations that TLC
checks them with, and proofs that TLAPS checks.

Contents: [the framework](#the-framework) · [dsniff](#dsniff) ·
[hard behaviours](#what-is-hard-about-them) ·
[modules](#the-modules) · [runs](#the-runs) · [bounds](#bounds) ·
[fairness](#fairness) · [proofs](#the-proofs) ·
[where the code disagrees](#where-the-code-disagrees-with-what-it-says) ·
[not modelled](#what-is-not-modelled-and-assumptions) · [plan](#plan)

## The framework

`testng.xml` names one or more `<test>` tags, each with a suite sheet, a
browser, a mode and the number of data provider threads. TestNG runs the tags
one after the other. The data provider of a tag queues the rows of its sheet,
each row a test case with a workbook of its own; worker threads run them.

```
 testng.xml ──> TestSuite.queueData ──rows──> data provider's workers
                     ^                           │ suiteExecution
  Failed-/Skipped-   │                           v
  TestSuite.xls      │             Interpreter / Loop ──> keywords ──> browser
     ^               │               ^  ReplaceMacro      Window, Click, ...
     │ onFinish      │               │  COUNTTHREADS / WAITFORNUSERS
     │               │               └─ keyword sheets (recursive)
 CustomSuiteListener │                           │ result
     ^               │                           v
     └── failedTestCases, skippedTestCases <─ endTestCase ──> class coverage map
                                                 ^
               TESTCASE_TABLE <── TestCaseDBLogger (TestNG listener)
```

Two separate `main` programs compare what the tests have exported
(`results/ExcelComparator`) and photographed (`results/SuiteComparison`) with
baselines.

| component | state it keeps | operations | correct when |
|---|---|---|---|
| Execution of a test suite (`framework/TestSuite`) | `TClog` of the instance (one for each `<test>`), static `failedTestCases`, `skippedTestCases`, `parallelThreads`; System properties `suiteName`, `excelError` | setSuiteDetails, suiteExecution, endTestCase | each row has one verdict with a cause; the report maps are true and complete; every row ends |
| Queue and rerun workbooks (`TestSuite.queueData`, `testng/custom/CustomSuiteListenerAdapter`, `util/ExcelProcessor`) | two workbooks on disk, the maps | queueData in three modes, onFinish, a rerun | a rerun runs what failed and nothing else, whatever interrupted the writing |
| Interpreter (`framework/Interpreter`, `Loop`) | row counter, parameter map with `PARAM1` and `STEP_ID`, the Java stack | iterateRows, keyword sheets, loops | the steps done are those the sheet says, in order |
| Waiting for other users (`Interpreter`, `TestSuite`) | static `parallelThreads`, `wait_count` | COUNTTHREADS, WAITFORNUSERS | a gate opens late enough, and in the end |
| Macro replacement (`util/ReplaceMacro`) | static `replacedString` | replace | a result is made of the caller's own text |
| Status in the database (`db/oracle/TestCaseDBLogger`, `SuiteDBLogger`, `DBManager`) | a table; `parameters` of the listener object; connections | insert before the run, update after each row, getRunID, retries | an entry holds its own row's status; run numbers grow; calls return |
| Class coverage (`results/ClassesVsTestCasesMapping`, `util/csvToxlsConverter`, `CallAntTask`) | static map, `jacoco.exec`, `report.csv` | dump, report, convert, map, write | a test case is under the classes it covered and no others |
| Browser windows (`framework/Window`) | static `winHandleBefore`, the browser's windows | SWITCHTOWINDOW, NEWWINDOW, CLOSEWINDOW, closeWindow at the end | windows are closed and the next row is not touched |
| Comparison of exports (`results/ExcelComparator`, `DatabaseUtility`) | static `sourceTC`, `exportTCName`, `path`; the report | main: suites, test cases, files, missing test cases | every verdict is deserved, nothing is passed over silently |
| Comparison of snapshots (`results/SuiteComparison`, `ResultsDBLogger`) | static `snapshotName`, `failedPath`, `widthmismatch` and sizes; the report and the rows in the database | main: suites, directories, snapshots | each snapshot has one row, under its own names, with the verdict it deserves; the database says the same |
| Export of workbooks (`framework/Textbox`: DATA_EXPORTS, TC_EXPORTS_LOGOUT) | the user's Downloads, which all browsers share; the Excels directory | click, wait, find the latest file, move it | the workbook filed under a test case is its own, whole, and the keyword returns |
| Browser session (`framework/Driver`) | a web driver per row | local and remote start, navigation | a session belongs to one row and ends with it |
| Performance log (`performance/timeLog`, `PerfXMLResult`) | a shared date format and a list of operations | STARTTIME, ENDTIME, report | durations are right |
| Collective actions, frames, alerts, clicks (`framework/CollectiveActions`, `Frame`, `Alerts`, `Click`) | pressed keys; current frame; counters of attempts | keywords | no key stays pressed; polling ends and finds what comes in time |
| Element keywords, object repository, screenshots, JavaScript coverage, security test, HTML report, configuration, log-out script | none of their own, or files that nothing reads back | single calls | — |

The components interact by calls on one worker thread (suiteExecution →
Interpreter → keyword), by TestNG's callbacks (verdict → listener →
`endTestCase` → `onFinish`), and, between workers, by state nobody locks:
static fields, System properties, the one listener object, files with fixed
names and `taskkill`, which ends every Internet Explorer on the machine.

## dsniff

dsniff listens to a network and prints what it finds of sessions, requests,
mail and files. `libnids` calls it back for each packet and each event of a
TCP connection; what it does not decode at once libnids keeps for it.

```
             libnids ──packets, half-duplex segments, connections──┐
                                                                   v
 dsniff.services ─> trigger tables <── portmap answers <── xid_map (rpc.c)
   ^   SIGHUP          │  number -> decoder                        ^
   └── dump ───────────┤     ^ learned from magic.c                │ calls
                       v     │                                     │
   tcp_raw.c ──whole──> decode_*.c ──> record.c ──> printed, or saved in db
     ^ SIGALRM: sweep of old streams

 mailsnarf  filesnarf  msgsnarf  urlsnarf  webspy ──> remote.c ──> Netscape
```

| component | state it keeps | operations | correct when |
|---|---|---|---|
| Main loop and trigger tables (`dsniff.c`, `trigger.c`, `decode.c`) | tables from ip protocol, udp and tcp port and rpc program to decoder | load, set, learn, dump; callbacks; signals | one decoder for a number, a cause for each port learned, a dump that loads again |
| Calls of remote procedures (`rpc.c`, `decode_portmap.c`, `decode_mountd.c`, `decode_yp.c`) | the ring `xid_map` of the last 64 calls; half a record per connection | enter, find; record marking | an answer finds its call while it is among the last; every record is decoded once |
| Half-duplex reassembly (`tcp_raw.c`) | `conntab`: nodes, found by two hosts and a destination port, with their segments and times | a segment, the sweep of the alarm | what a node holds is decoded once, in order; every node leaves |
| Saved sessions (`record.c`) | the database of sessions by the hash of addresses and text | record, read again | what was heard is printed or saved, once |
| Magic numbers (`magic.c`) | the parsed file; the level of continuations | parse, match | an entry means what its line says |
| mailsnarf, filesnarf, msgsnarf | a message under way; file handles and names; clients by address | segments, closes, calls and answers | what is printed or written is what was sent, whole |
| Readers of HTTP requests (`urlsnarf.c`, `webspy.c`, `decode_http.c`) | what libnids keeps | segments | every request is reported once, and nothing else is |
| Commands for Netscape (`remote.c`) | three properties of a window that all programs share; the event queue | find, lock, command, answer, free | an answer is the own one; a call returns |
| Decoders of logins (`decode_*.c`) | strings from line to line | one session | a login that was typed is shown as it was typed |
| Decoders of binary logins, programs that send packets, buffers | none, or that of one packet | single calls | — |

`PROJECT.json` lists all 42 components of both programs with their sources and
status.

## What is hard about them

In the framework:

* **Shared state without a lock.** `@DataProvider(parallel=true)` makes every
  static field and System property above shared. An `i++`, a
  containsKey-get-put and an `ArrayList.add` all come apart between threads.
* **State that outlives its owner.** `excelError`, `TClog`,
  `winHandleBefore`, `replacedString`, `sourceTC`, `snapshotName` and
  `wait_count` carry what one row has left to the next, with a single worker too.
* **A directory as a channel.** The latest file in Downloads is whoever's it is,
  and perhaps only a part of a workbook.
* **Failure in the middle.** `endTestCase` throws and TestNG skips the class;
  Ant fails; the database goes away or drops a row without a word; the JVM is
  killed between two cells.
* **Time.** `taskkill` takes effect whenever it likes; polls share a budget;
  connections are tried ten times.
* **Long protocols.** The workbook that one run writes is the input of the
  next; the loops and the keyword sheets hand sizes and indices to each other.

In dsniff:

* **Segments are cut anywhere**, and a connection ends anywhere: each reader
  says how much libnids may discard, and what it keeps comes again.
* **Keys that are not identities.** An answer is matched by its xid alone, a
  chat by its address, a command's answer by a property all programs share, a
  half-duplex stream by its hosts and the destination port, for the source port
  does not fit into the field that takes both.
* **Fixed sizes.** The ring wraps at 64, the map of file handles has an index
  behind its end, a session of more than 2048 bytes is dropped, strings of magic end at 31.
* **Signals** sweep, dump and stop between any two packets, and the next start
  reads what the last one has written.
* **Other programs** of the same kind lock the same window, and die.

The 40 hazards in `PROJECT.json` give each of these at the line where it
bites, with the properties that would notice it going wrong. Where the code
does go wrong in a way that the properties leave out or permit, the note of
the hazard says so, and what they catch nevertheless.

## The modules

| module | models | state and actions in the code |
|---|---|---|
| `SuiteRun` | One TestNG run: tags, workers, verdicts and the report. | `report` is the two static maps from suite to list object, a list named by the row that made it; `slots[l]` and `count[l]` are the `elementData` and `size` of that ArrayList. `NameLog`, `OpenScript`, … are suiteExecution in the order of its accesses to shared state; `Judge` is TestNG's status followed by `onTestFailure`; `FileLog` … `PutList` are endTestCase, with `add` taken apart into `ReadSize` and `AddEntry`. `Taskkill` and the pool are the environment. |
| `FailedBook` | queueData, one worker's report maps, `onFinish` cell by cell, kills, reruns. | `file[b]` is a workbook on disk after each write; `WritePath`, `WriteName` are the two loops of cell updates; `Kill` is possible at every step of them; `RunAgain` feeds a workbook back in. |
| `ScriptRun` | The interpretation of one script. | `stack` is the Java stack of iterateRows and looping frames; each action handles one row of the top frame; `trace` is what was done in the browser; `Meaning` is an independent recursive reading of the sheet, the reference for `DoesWhatItSays`. |
| `UserBarrier` | COUNTTHREADS and WAITFORNUSERS. | the two static ints; `ReadCount`/`WriteCount` are one `++`, as are `ReadTick`/`WriteTick`; `PollUsers` and `PollBudget` are the two conditions of the `while`, read one after the other. |
| `MacroReplace`, `PrivateReplace` | ReplaceMacro.replace; what it promises. | the static field, and for each thread the recursion's depth and argument. `PrivateReplace` has a text per call and no shared state; `MacroReplace!Private` maps the one to the other. |
| `StatusLog` | TESTCASE_TABLE, the listener, `DBManager`. | a step is one access to the field `parameters`, one attempt to connect or one statement, for auto-commit is on; `sessions` counts what the database has granted. |
| `CoverageMap` | Coverage per test case. | a step is an Ant target, a file copy, a line read or a row stored; `order` is the iteration order of the converter's HashMap. |
| `Windows` | Window.java and the browsers' windows. | `winHandleBefore` is the static field; the pages may open and close windows at any time. |
| `ExcelCompare` | The whole comparison over two directory trees. | a step is a file, a test case or a suite; the cell loops are operators with their bounds (`RowNumbers`, `CellsAgree`); `report` is the bag of result rows. |
| `SnapCompare` | SuiteComparison with ResultsDBLogger. | a step is a suite, a directory or a snapshot with all it writes; `results` is Results.xls row by row, `db` the rows inserted; the static fields are variables. `Log` is updateStatus: the row taken, dropped, or the end of the program. |
| `Exports` | DATA_EXPORTS, TC_EXPORTS_LOGOUT and getLatestFilefromDir. | `downloads` is the shared directory with times and sizes, `excels` what was moved; a turn of the loop over the listing is `Scan` and `Wait`; browsers write a part and rename it. |
| `Trigger`, `XidMap`, `TcpRaw`, `Record` | The tables of dsniff as operators, `XidMap` also as a specification of its own. | `triggers[p]` is a table; `xid_map` the ring with its next slot; `conntab` the chains of nodes, each found by its `struct tha` with the padding of that struct; `db` the saved sessions. A pointer into an array of triggers is a place (`Pointer`), and what it points to is what stands there when it is used. |
| `Dsniff` | dsniff as a whole; extends the four. | a packet or an event of libnids is a step; so is a turn of the loops over trigger files (`LoadTrigger`: `todo`, then the lines of a dump in `reload`) and over the streams of the sweep (`Sweep`). `Hangup`, `Die`, `Alarm` are the signals, `Restart` the next start on the saved file. `paddings` of a setup is what the stack may leave in a `struct tha`. |
| `Magic` | Parsing and matching of magic numbers. | `ParseLine` is one line of the file; `Recognise` a match of data with the whole table. The reference (`TreeEnds`, `NumberIn`, `Meant`) reads the lines independently. |
| `Mailsnarf`, `HttpRequests`, `Msgsnarf`, `Logins` | The readers of client traffic. | `data` is what libnids has and has not discarded; a segment, a close and a reset are steps; a handler's loop over complete lines is one operator. |
| `Filesnarf` | NFS calls, answers and files written; extends `XidMap`. | `fh_map` with its index, `saved` the files; slot `FH_MAP_SIZE` is the one behind the array, and `spare` says whether the memory there is nobody's. |
| `RpcRecord` | Record marking on TCP. | `buf` is the half record of a direction, `arrived` what libnids keeps. |
| `Remote` | remote.c, the X server's properties and events, Netscape. | `lock`, `command`, `response` are the window's properties; `queue[c]` a program's events; places in `pc` are the calls at which a program waits or another can come between. |
| `TestCase` | `CoverageMap`, `Windows` and `Exports` side by side: what a test case leaves to the next. | `part` says which of them a behaviour is of. |
| `MC*` | The small instances. `MCExcelCompare` puts the two comparisons side by side, `MCTools` the programs beside dsniff: a variable says which of them a behaviour is of. `MCMagic` and `MCSessions` hold inputs. | constants and compositions. |
| `*Proofs` | Theorems about `UserBarrier` and `MacroReplace` (`ThreadProofs`), `SuiteRun`, `StatusLog`, `FailedBook`, `ExcelCompare` and `SnapCompare` (`CompareProofs`), `XidMap`, `Dsniff` and `Filesnarf` (`DsniffProofs`), `Remote`, and the three parts of `TestCase`. | see [the proofs](#the-proofs). |

The modules meet in named places: `SuiteRun` takes what `ScriptRun` details (how
a script ends) as a choice of its ending; `FailedBook` takes the maps that
`SuiteRun` fills with any number of workers as one worker fills them;
`Windows` details the `CloseBrowser` of `SuiteRun`; `ScriptRun` uses
ReplaceMacro as one thread sees it, which `SingleThreadRefines` justifies;
`ExcelCompare` reads the workbooks that `Exports` files. In dsniff one ring of
calls (`XidMap`) serves the portmapper's answers in `Dsniff` and the NFS
answers in `Filesnarf`, whose records `RpcRecord` takes off TCP; `webspy` reads
requests in `HttpRequests` and hands them to `Remote`.

In each module the definitions named "mutant:" in a comment before them are
slightly wrong versions of a definition of the code. They are part of no
specification; each exists to see that a property notices.

## The runs

| run | question | result |
|---|---|---|
| `SuiteRun_rows` | What does the report guarantee with unlocked maps, and what more with one worker? | `ReportIsTrue`: never a false entry. `ReportIsWhole`: a loss needs an overlap or an exception, and with one worker the order is that of execution. With one worker `OwnLogFiled`, `WorkbookErrorSkips`, and `RowsHaveCauses`: the exact blame for a SKIP, and taskkill never hits a row through its own end. `EveryRowEnds`. |
| `SuiteRun_lost` | Is every recorded failure in the failed map? | `FailedAreSaved` is **violated** with two workers. |
| `FailedBook_rerun` | Do the workbooks bring back what failed? | `BooksHoldResults`: results after a whole run, a prefix of them wherever the JVM stops, nothing invented in any later run. `RerunIsWhatFailed`. |
| `ScriptRun_rows` | Does the interpreter do what the sheet says? | `ScriptIsFollowed`: for sheets without nested loops the steps are those of the reference `Meaning`; `STEP_ID` names the row at fault. |
| `UserBarrier_gates` | Is the barrier safe and does it end, in spite of lost increments? | `GateNeedsUsers`, `SerialCountsExact`, `GateIsLeft`. |
| `MacroReplace_single` | Is the static field harmless with one thread? | Yes: `ImplementsPrivate`, a refinement. |
| `StatusLog_rows` | Which rows does a status go to, and what do failures cost? | `StatusIsTheRows` with one worker; `TableIsTrue`: run numbers grow, the id read back is that of the own entry or of a later one of another program, one session is leaked per listener call, by getRunID; `ListenerReturns`. |
| `TestCase_state` | What does a test case leave to the next? | `CoverageIsTrue`: the exec file is the own one, the map is exact with the heading first (Java 8), and otherwise (Java 7) which class is wrong; what is written is true. `NothingLeftOpen`, `PassedHandsNothingOn` of windows. `ExportIsOwn`, `ExportReturns` of exports that are alone and in time. |
| `ExcelCompare_trees` | Are the verdicts of the comparisons deserved, and what can be passed over? | Workbooks: `VerdictIsDeserved`, `CasesAreAccounted`. Snapshots: `SnapReportIsTrue`: rows read under the headings above them are true, each snapshot has one, and the database has the same but for what it dropped. |
| `Dsniff_core` | Does dsniff decode what it hears, once, and remember it? | `TablesAreTrue`, `SessionsAreKept`, `RingHoldsTheLast`, `DecodedOnce`, `StreamsInOrder`, `EveryStreamLeaves`. |
| `Dsniff_tools` | Do the tools report what was sent, however it is cut? | `MagicIsUnderstood`, `MailIsWhole`, `SavedIsRead`, `RequestsReported`, `RecordsOnce`, `MessagesAreTrue`, `LoginsAreShown`; of remote.c `AnswerIsOwn`, `NobodyForgotten`, `EveryCallReturns`. |
| `Remote_six` | Does status 6 mean that the window is gone? | `SixIsDestroyed` is **violated**. |

A run is `tlc -config <run>.cfg <module>.tla` with the module that
`PROJECT.json` names for it. A property that is a conjunction has its conjuncts
as definitions of their own, each with its comment, in the component's module.
Every module with variables defines `TypeOK` or states the types of its state
in comments; it is proved where there is a proof module, and no run spends a
property on it.

CHECK_DEADLOCK is off everywhere because these systems stop: a run ends when
its rows have ended, and dsniff when there is no more traffic within the
bound. That they do not stop earlier is what the liveness properties say.

## Bounds

| bound | value | in the code | why it is enough |
|---|---|---|---|
| rows × workers of `SuiteRun` | 3 on 2; 2+1 on 1 | any | a loss needs two rows on one map; a third sees what they leave. Two tags show what crosses from tag to tag. |
| `N`, threads, `WaitLimit` of `UserBarrier` | 3, 3, 2 | any, any, 240000 polls | 2 polls for three threads: the budget runs out with none, some or all of them waiting, and at the second gate before its first poll. |
| `MaxCalls`, `StackLimit` of `MacroReplace` | 3, 4 | —, Java's stack | three calls: before, inside and after what another leaves; the deepest finite nesting of the values needs three. |
| `MaxTries` of `StatusLog` | 2 | 10 | the database goes up and down at any attempt; the last one is different from the others, the first nine are alike. |
| sessions, passes, `MaxEntries` | 2 or 3, 2, 2 | the database's limit, any | fewer sessions than the leak takes; a second run after each state of the table. `MaxEntries` bounds other programs' inserts only. |
| `MaxRuns` of `FailedBook` | 2 | any | a rerun starts from the disk and forgets all else. |
| scripts of `ScriptRun`, `MaxDepth` | all of ≤ 3 rows of 13 kinds, all loops around 2 rows with a row behind, nested loops; 5 | any, Java's stack | two iterations of two rows show every hand-over of a size or an index; K in L in a script needs 4 frames with its loop. |
| tests, classes of `CoverageMap` | 3, 3 | any | neighbours before and after a line, and the heading in the middle. |
| `MaxWindows` | 3 | any | parent, child and a popup. |
| trees of `ExcelCompare` | 2 suites, ≤ 2 cases and 2 files, 11 shapes of workbook | any | every pair of shapes; every pair of directories of a suite; names that two suites share. |
| exports | 2 test cases, ≤ 2 exports, ≤ 2 old files, 1 or 2 threads | any | one's own earlier file, a stranger's, an empty one, and two exports at once. |
| settings of `SnapCompare` | ≤ 2 suites, shared names of test cases, four pictures | any | equal, unequal, of another size, no picture; names up to case that suites and baselines share. |
| `XIDMAPSIZE`, `FH_MAP_SIZE` | 2, 1 | 64, 128 | both rings wrap and a slot is taken again, that of the handles through the slot behind the array; the proofs are for every size. |
| trigger tables, packets, restarts | 1–5 entries, 4–8 packets or events by setup, 1 restart | 32 or 512, any, any | a table at its limit; enough packets to call, answer, use the port and dump it. |
| streams of `TcpRaw`, `Opt_snaplen`, `RawTimeout` | 4 in 3 nodes, two nodes in one chain; 3; 1 | any; 1024; 30 s | two streams in one node, a node behind an old one in its chain; a segment that came twice, late or early. In a setup of its own the padding has two values, so that one stream has two nodes. |
| `MaxChunk` and the segments of the readers | 2; mail 4, HTTP 7, chat 8 tokens | any | every cut inside and around the tokens that end a line, a head, a body and a message. |
| `Magicmax`, `VALSIZE`, `DescSize`, `Nibble`, `WordByte` | 12, 5, 3, 16, 8 | 512, 32, 50, 256, 256 | a string that just fits and one that does not; a byte of 16 values has a sign bit and digits as the real one has. |
| `MaxCalls`, `MaxWords`, `Opt_lines` | 4, 17, 4 | any, any, 6 | a call forgotten by the ring, and enough LOOKUPs to go round the ring of handles and read from a slot taken again; two whole records and a half one; a session of one more line than is shown. |
| `Remote` | 2 programs, 2 windows, bounds on calls, commands, preliminary answers and crashes by setup | any | one in the lock and one waiting; an answer under way when a program dies. |

Bounds in guards are constants or fields of a setup, named here. In the
numbers of bytes a token stands for what the code looks for as one.

## Fairness

Weak fairness of each test thread's steps (`UserBarrier`, `MacroReplace`,
`StatusLog`), of the workers and TestNG's own loop (`SuiteRun`), of the
worker's thread (`ScriptRun`), and of workers and browsers (`Exports`): these
are threads and processes that nothing blocks, as there is no lock in the
framework but that of the database, whose statements return or throw. No
fairness is assumed of `taskkill`, of other programs, of the database coming
back, of pages, or of a kill. `GateIsLeft` needs no strong fairness because
the budget is finite: with the counter lost or a thread gone, polls run out.
`ExportReturns` needs the browser's, for the loop waits for its file to grow.

In `Dsniff`, weak fairness of the loops of its one thread (`LoadTrigger`,
`StartListening`, `Sweep`), of `Restart`, of the clock and of SIGALRM; none of
packets, connections, SIGHUP or SIGINT. In `Remote`, of each program's steps
and of Netscape taking and finally answering a command; none of preliminary
answers, of a window being destroyed, of a program starting or being killed.
The other modules need none and claim no liveness.

## The proofs

`tlapm <module>.tla` checks them. They hold for every value of the constants
that satisfies the named assumption of the module (`BarrierAssumption`,
`MacroAssumption`, `SuiteRunAssumption`, `StatusLogAssumption`,
`FailedBookAssumption`, `XidMapAssumption`, `TcpRawAssumption`,
`DsniffAssumption`, `FilesAssumption`, `RemoteAssumption`,
`CoverageMapAssumption`, `ExportsAssumption`, `ExcelCompareAssumption`,
`SnapAssumption` and those of the modules they extend), which only states types,
that a segment's stream has its chain in the table, that a workbook has finitely
many rows and cells under their numbers, that the suites, directories and files
of a setting are finite lists in which no two files of one directory have one
name, that an iteration order visits each line once, that no test case has the
name given to old files, that an empty cell is no name and no result, and that a
marked row of the mode "blank" names its test case. (`Distribution` in
`SuiteRunAssumption` is the order in which testng.xml lists its tags.)

**`ThreadProofs`**, of `UserBarrier`: `TypeCorrect`, `GateSafe` (`GateNeedsUsers`),
`SerialCounting` (`SerialCountsExact`). `GateNeedsUsers` alone is not
inductive: an increment carries the value it has read. `CountBound` says that
neither the counter nor any value on its way to it exceeds the rows counted;
so a counter of N or more means N rows. `SerialInv` adds that without overlap
at most one value is on its way and equals the counter.

Of `MacroReplace`: `SingleThreadRefines`, `MacroSpec => ImplementsPrivate` when
all threads are one. `UnwindInv` holds the argument: inner calls work on what
is in the static field, so the outer ones, which read it when they return, find
the innermost text, and in it nothing is left to replace. Each step is mapped
to a step of `PrivateReplace` or to a stutter.

**`SuiteRunProofs`**: `TypeCorrect`, `ReportTrue` (`ReportIsTrue`) for any number
of workers, and for one worker `LogIsFiled` (`OwnLogFiled`) and
`WorkbookErrorIsSkipped` (`WorkbookErrorSkips`).
`ReportIsTrue` is about maps, but an entry reaches a map by way of a list
that any worker may hold in a local variable and put later. `IInv` therefore
follows the list objects: `ListsAreTrue` (every entry belongs in its list, whose
owner's verdict stands), `RefsAreTrue` (what a worker holds is a list for its
row), `MapsAreTrue` (what a map holds is a list for that map and suite),
`Current` (a row in hand is of the tag in hand) and `HasVerdict`. Steps
outside the report code are `Quiet` and keep all of it by one lemma.
`SerialInv` says that with one worker at most one row is in hand, that `TClog`
is its log and that its flag stays up until its verdict; that the pool starts
no second row needs the finiteness of the set of rows.
`ReportWhole` (`ReportIsWhole`) adds why an entry stays: `DropInv` follows a row
that had its map to itself from the read of the size to the put of its list
(`Exclusive`, `StoredAlone`), and afterwards, because every later put is of a list
that was copied from the map (`HeldForGood`); a row without an entry met an
exception, which breaks the class (`DroppedByException`).
`CausesAreTrue` (`RowsHaveCauses`) rests on `OrderInv`: one worker ends each row
before the next begins (`OneByOne`), so the flag in the System properties is
that of the last row which opened a workbook (`FlagHasCause`), and on `KillInv`:
a pending taskkill belongs to a row past its script.

**`StatusLogProofs`**: `TypeCorrect`, `TableTrue` (`TableIsTrue`) and `StatusOwn`
(`StatusIsTheRows`, an action property). Sessions are counted: `SessionsAccounted`
is inductive with the types, each step moving one row between two finite
sets. `SetupInv` says that a row which has inserted has an entry and no id yet, so
that whatever others insert before the SELECT, the id it reads is not below its
own entry's (`IDIsLatest`). `SerialInv` says of one worker that rows go through the listener in their
order (`InOrder`), so that the field, the name and the number in hand are those of
the row in hand (`IsField`, `IsName`, `IsAsked`), and that its run number is
above those of the test case in the table (`IsAbove`); that the numbers grow then
is a matter of the maximum that getRunID takes. `RunIDsGrow` was found to
fail with two workers: a row may count the runs of another one's test case, as
TLC shows, so it speaks of one.

**`FailedBookProofs`**: `WorkbooksHoldResults` (`BooksHoldResults`) and
`RerunsRunWhatFailed` (`RerunIsWhatFailed`, an action property), for any suite
workbooks in which no sheet is named Sheet1 (`SheetOneIsFree`). The hypothesis
is needed: with such a suite POI refuses the sheet and onFinish ends there, which
the table further below lists. `BooksInv` speaks of sheets, where the properties
speak of the names that a workbook would queue: a workbook of this run has the
sheets of the keys done so far, the one in hand and Sheet1 (`ShownKeys`), each with
the rows written so far (`RowsOf`), the last of them perhaps without its name. The
sheet in hand is the only one of its name, so the cells go where they should
(`PlaceIs`), and a key has no sheet before its turn, so nothing is thrown. Of what a
kill or an earlier run leaves, `FilesAreBlamed` says that every case in it had
failed; that is why a rerun invents nothing. The loops over lists are folded by
`Kept`, whose laws (`KeptAll`, `KeptNone`, `KeptConcat`, `KeptSame`) are proved by
counting the turns; with them the rows that a rerun queues under a suite are those of
its sheet (`QueueUnder`).

**`TestCaseProofs`**: `WindowsAreClosed` (`NothingLeftOpen`), `PassedIsNull`
(`PassedHandsNothingOn`, an action property), `ExportsAreOwn` (`ExportIsOwn`) and,
for one thread of the data provider, `CoverageIsAttributed` (`CoverageIsTrue`). A
step is of one part (`Parts`), so each part has an invariant of its own.
`WindowsInv`: until a keyword or a page strays, there is no handle to go back to and a
driver is in a window unless all are closed (`Unstrayed`), so that
closeWindow quits. `ExportsInv`: a browser's file is never in both directories
or filed twice, as a download that is under way has no whole file yet
(`FilesOnce`); and while nothing was disturbed (`Undisturbed`) at most one
test case is exporting (`OneExports`, `OthersSettled`), its workbook is the newest
file of the directory (`OwnIsLatest`), so that the loop keeps it once it has come to
it, whatever the listing's order (`OwnIsFound`), and all that was filed before is in
its place (`FiledIsOwn`). `CoverageInv` follows the execution data by the worker's
place from the agent to its copies (`OfTest`), the lines that are read and the
workbook's rows in the order of the HashMap (`InSheet`), and the map row by row:
what is listed was covered, and what was covered is listed as far as the
worker has come (`InMap`). That each class but the first has one row is that
the iteration order is a permutation (`NamesOfRows`). With two threads the
property is false, since the agent, the files and the reader are shared.

**`DsniffProofs`**: `SessionsKept` (`SessionsAreKept`), because
every action is one of the three steps of `OutStep` as far as sessions go: nothing
is heard, a decoder has found something, or dsniff starts again.
`StreamsDecodedOnce` (`DecodedOnce`), which is not inductive: `StreamsFit` ties the
offset, the count, whether libnids collects and how often a half was decoded:
what is collected was not decoded, and what is not collected gets no bytes.

`RingIsTrue`, of `XidMap` on its own, and `CallsAreHeld`, of the ring inside dsniff
(`RingHoldsTheLast`): the ring holds the last calls that were not answered, as many
as it has slots. With the types of the two variables it is inductive (`RingOK`):
the slot written next is that of the oldest call, and every other call is then
one step further back. Every step of dsniff is a call, an answer, a restart or
none of them to the ring (`RingStep`).

`TablesTrue` (`TablesAreTrue`) has three parts. `OneDecoder`: the conjunct
`OneDecoderPerNumber` with the limits of the tables, by `TableOK` and `ArrayOK` over
everything that sets a trigger. `PortsHaveCauses` (`LearnedHasCause`): `Caused` says
of every trigger that it was loaded or that a reply or magic taught it. A reply
finds its call at the hint or behind it, so the slot that is read holds a call that was
entered (`SlotIsCall`, on `RingOK` and `HintOK`); and the decoder it taught stays
that of the program, because a trigger that is there is never replaced
(`LookupStays`). What is heard is traced from `TriggerUdp`, `TcpData`, `SweepNode`
and the others to one of the ways to learn (`Teach`). `DumpIsReloaded`
(`DumpReloads`): the list of `-t` is loaded first, into empty tables, so it might
take the places, or with its own decoders the numbers, of what was dumped. It
does not: the tables while it is loaded are the same at every start
(`TraceIsUnique`), so they lie within what was dumped (`Based`); each line of the
dump is in the tables or still to come (`ReloadInv`), and an array that is full
before the last line would hold all that was dumped already. In that argument the
lines of a dump come in any order, which is what `reload` is in the model.

`SegmentsInOrder` (`StreamsInOrder`): in an array in order, halving it finds every
number that is there (`BSearchFinds`), so a segment that is not found has another
number than the last one, and the array with it at the end, if it is still in
order, has no number twice (`KeptOK`). `RawInv` carries that for every node in
the table through the handlers, the deletions and the ageing. A node has the
segments of all streams between two hosts to one port, as in the code, so the
theorem speaks of what a decoder is given and not of one connection
(`StreamsAreApart` is false, see below). Of qsort only that
the result is one of the orders of the segments is assumed by its definition
(`InOrder`); that there is one to choose, and a function that searches by
halves, is proved, by inserting one segment after the other (`SortsNext`) and from
the function that says which part holds the number (`SearchExists`).

`FilesAreRead`, of `Filesnarf` (`SavedIsRead`): `PacketsInv` says that whatever
filesnarf keeps comes from packets it has seen: a slot of the ring the call
(`CallIn`), for a READ also how its handle got its name, and a slot of handles the
LOOKUP and its reply (`HandleIn`). A packet seen is never unseen, so what is kept
stays justified whatever is overwritten; the steps only carry it on from one
map to the other and into the file. Where the memory behind the array is
nobody's (`spare`), that is so over any number of rounds of the ring; where it is
somebody's, up to the write behind the array, with which the behaviour ends.

**`CompareProofs`**: `TypeCorrect`, `VerdictsDeserved` (`VerdictIsDeserved`) and
`CasesAccounted` (`CasesAreAccounted`), of `ExcelCompare`. That the loops from the
first to the last number compare every value is in two lemmas about `Compared`
(`PassAgrees`, `FailDiffers`), which rest on finitely many numbers having a first
and a last. `IInv` says of each part of the report how far main has got: a row
with a verdict is of a workbook behind (`VerdictIsBehind`), so that none gets a
second; every test case behind has its row or no comparable workbook
(`BehindIsReported`), and every one of the baseline its reason
(`BehindIsAccounted`). `FromSource` and `NoneFound` say what the names that live from
suite to suite can be: test cases of suites met so far, and null only while
nothing had a baseline.
`SnapReportTrue` (`SnapReportIsTrue`), of `SnapCompare`: names stand in Results.xls
once, above the rows they are about, so the invariant speaks of reading. `Under`
says which names a reader finds above a row (`ReaderFinds`); a new row leaves them
alone for the earlier ones (`NamesAbove`), and `Headed` says that those of the suite
and test case in hand are the last ones written, which is what `firstRun` is for.
`RowsTrue` then keeps for each verdict the file and the baseline it is true of.
`CountsAgree` is the accounting: of the files behind the one in hand as many are
to have a row under some names as rows are read under them, whoever shares the
names; a verdict adds one to both (`CountsGrow`), a failed step's snapshot or an
IOException to neither, the latter because no two files of a directory have one
name. `DbAgrees` pairs the rows of the database with the verdicts by rank.

**`RemoteProofs`**: `RemoteTypes` and `AnswersAreOwn` (`AnswerIsOwn`). An
answer does not say what it answers; that it is the right one rests on the lock
alone. `WindowsAreFit` says why: a window that nobody has locked has none of the
three properties, and while its holder waits, each of them is its own
command's. A program that dies or leaves with the lock keeps all others out,
so the property survives both.
`NobodyIsForgotten` (`NobodyForgotten`): `News` says, of whoever listens, that it
has asked for the window's events and that what it waits for has not happened
or is among the events to come (`LockIsNews`, `AnswerIsNews`, `EndIsNews`); a step of
another program only adds to its queue (`Bystander`), and its own step takes
the event it acts on.

Induction is used as the least number principle (`NatMin`, from the library's
theorem on well-founded relations), which needs no operator as a parameter: a
smallest counterexample is a set's smallest element. `MaxOfImage` of
`StatusLogProofs`, the traces, the sort and the search of `DsniffProofs` and `Counting` of
`FailedBookProofs` are proved so.

Only model-checked: the liveness properties, and all of the modules
`ScriptRun`, `Magic`, `Mailsnarf`, `HttpRequests`,
`RpcRecord`, `Msgsnarf` and `Logins`. Liveness under fairness and
what a recursive definition computes for every input (`Meaning` in
`ScriptRun`) are out of the prover's reach and stay with TLC. `HttpRequests`,
`Mailsnarf`, `Msgsnarf` and `RpcRecord` declare RECURSIVE operators, the loops of
their handlers, and `Magic` uses `Bitwise`; they have no theorems for that reason.
`LoginsAreShown` of `Logins` is true of sessions as clients type them, not of any
lines: a theorem needs the grammar of each protocol as an assumption first.

## Where the code disagrees with what it says

Two runs show a violation, quoted in the findings of `PROJECT.json`:

1. `SuiteRun_lost`: with two workers a failure is lost from the failed map
   (`framework/TestSuite.java:310`).
2. `Remote_six`: a program leaves with status 6, and keeps its lock, because of an
   event whose value has been read before (`remote.c:431`, against the comment
   at `remote.c:537`). TLC's trace has one program: Netscape gives a preliminary
   and the final answer to its first command, the first of the two events reads
   and deletes the final one, and the second event finds the property empty while
   it waits for the answer to its next command. In longer behaviours the event
   is of an answer to another program, whose events it gets because it asks for
   them (519) before it has the lock.

Further statements of comments and messages that do not hold are definitions of
their modules, and no run spends its time on them. To see one, put it as the
only INVARIANT (or PROPERTY) into a copy of the run's .cfg, with the constants named:

| definition | says | constants |
|---|---|---|
| `ScriptRun!IndexIsReplaced` | loops replace {index} in locators | `Scripts <- IndexScripts` |
| `ScriptRun!BoxesPerIteration` | a box in a nested loop is typed into for every iteration | `Scripts <- NestedScripts` |
| `FailedBook!TooFewRowsThrows` | too few rows for `noOfTestCases` is an exception | as in the run |
| `FailedBook!ResultsSaved` | with a sheet named Sheet1 | `Sources <- SheetOneOnly` |
| `CoverageMap!WholeMapWritten` | the whole map is written; its first entry is not | as in the run |
| `CoverageMap!ExecIsOwn` | with two workers | `Workers = {w1, w2}` |
| `StatusLog!EveryStatusIsLogged` | no listener call throws with the database up; the leaked sessions make one throw | `NumRows = 3`, `Settings <- OnlySerial`, `Flaky = FALSE` |
| `StatusLog!IDIsOwn` | the id that addSuiteInfo reads is that of the entry it inserted; LOCK TABLE is released before, by auto-commit (`db/oracle/DBManager.java:80`, `:122`) | as in the run |
| `TcpRaw!StreamsAreApart` | a node is the "half-duplex stream associated with this segment" (`tcp_raw.c:145`); two connections of two hosts to one port share it, since line 139 keeps the destination port alone | as in `Dsniff_core` |
| `MacroReplace!ResultIsOwn` | with two threads | `Threads = {t1, t2}`, `Args <- PairArgs` |
| `UserBarrier!WarningMeansFailure` | a thread warns only if one has failed or not counted yet | as in the run, as a PROPERTY |
| `SnapCompare!SkipNamesOwnSnap` | the database's row of a test case without a baseline names one of its snapshots; it is another's (`results/SuiteComparison.java:202`) | as in the run |
| `Exports!ExportReturnsAnyway` | an export ends whatever lies in Downloads; an empty old file is waited for (`framework/Textbox.java:242`) | as in the run, named in the MC module, as a PROPERTY |
| `Exports!LastExportIsFiled` | without `setstepnumber` the last export is kept; the first one is, since renameTo does not overwrite on Windows | as in the run, named in the MC module |

The properties guarded by `Threads = 1` or `Workers = 1` fail without the
guard, among them `ReportInOrder`, although a comment promises "the actual
sequence of execution" (`testng/custom/CustomSuiteListenerAdapter.java:45`).

Met while modelling, and built into what the properties leave out:

* `ExcelComparator`: the comparison is one-sided, so more rows or sheets in the
  baseline are not noticed; files are paired all with all, so one that is there
  is reported as missing (line 294, against 260); a file without a baseline, or
  an unreadable one, is never reported; a baseline is taken from whatever suite
  has a test case of the name; `sourceTC` is null until the first baseline,
  and then line 328 ends the comparison of all suites with the message about a
  folder at line 381.
* `Window`: a row that fails away from its parent window leaves the handle
  behind, and later rows cannot go back to it (line 73, against 61).
* `magic.c:234` extends the sign of the numbers marked unsigned, against the
  comment at 230. `decode.h:37` shifts the third byte by 18. `decode_irc.c:37` tests the whole
  input for ";" where it means the line. `remote.c:123` takes the second window
  of any version. The snap length, "at most" for `dsniff.8:49`, is how
  much must be there before a stream is decoded; all that is there is then decoded.
* `tcp_raw.c`: `tha.port` is a `u_short` (line 22), so line 139 loses the source port
  and line 222 hands over source port 0; line 148 compares the padding of the
  struct, which nothing sets. `trigger.c:389` looks both triggers of a
  connection up before the first half is decoded, which may learn a trigger and
  move the array under the second pointer.
* `webspy.c:103` calls strtok on the request line, so the loop at 113 never sees a
  header: the page has no login, and its host is always looked up from the address.
* `filesnarf.c:95` lets the index reach the size of the map, and line 98 then
  writes behind it.

## What is not modelled, and assumptions

* The internals of a HashMap that two threads corrupt: maps are atomic per
  call. Values and locators are pieces, not characters.
* TestNG, Ant, Selenium and the database are modelled from how the code uses
  them and marked external in the map. TestNG skips the `@AfterMethod`s and the
  rows of a class after a failed `@AfterMethod`; a data provider takes rows in
  order; a `<test>` has an instance of its own; the Ant dump empties the
  agent's data. The Oracle driver, which is not in the repository, takes a commit
  or a rollback with auto-commit on as nothing to do, as it did up to version 11;
  a later one throws, and the rollback in `runQuery` then ends the listener.
* A poll of WAITFORNUSERS reads the static field anew: the sleep of 100 ms
  in between makes a cached value implausible, though Java would allow it.
* Every script sheet is one that ends; keywords are a step that succeeds or
  throws. Screenshots in loops read one column further and are left out of
  `DoesWhatItSays`.
* Reruns in the mode "blank" are left out of `FailedBook`: that mode reads a
  third column that the written workbooks do not have. A marked row of that
  mode has its test case in the third column (`NamesItsCase`).
* `ExcelCompare` leaves out the rows inserted into the database, whose `path`
  is a static field that may be an earlier file's, and takes the test cases
  passed before as an input (the columns that `DatabaseUtility` reads for it
  look shifted by one, which nothing in the repository decides).
* `SnapCompare`: names are equal up to case by construction; writing Results.xls
  does not fail. `Exports`: Downloads holds files and no directories; the suite's
  name is one; the two calls of lastModified in a comparison are one step;
  renameTo is that of Windows.
* dsniff: SIGALRM comes between two packets only; in the middle of a change of a
  chain (`tcp_raw.c`) the outcome is undefined. libnids, the X server,
  Netscape, users, clients and servers are external. The xid 0, which stands for
  an empty slot, is left out. Texts are what a decoder finds, not bytes, except
  in `Magic` and `RpcRecord`, whose bytes have fewer values. What filesnarf does
  after it has written somebody's memory behind `fh_maps` is not followed; URIs
  with a host of their own (`webspy.c:105`) are not modelled.
* `Logins` cuts sessions between lines; base64 is valid; POP's AUTH PLAIN has one
  answer; IRC lines with ";" and NNTP's articles are not among the inputs.
  `Msgsnarf` leaves out what IRC prints of joins, parts and quits.
* Decoders of binary logins look at one packet and keep nothing; a model would
  be the layout of their fields. The programs that send packets (`arpspoof`,
  `macof`, `tcpkill` and the like, the relays `webmitm` and `sshmitm`) keep next
  to no state. `buf.c`, `base64.c`, `asn1.c` are conversions of bytes.
* Components without state worth a model have the reason in `PROJECT.json`.
* The second copy of dsniff is half of the repository's C code. It is the same
  text; the map names the first copy only.

## Plan

Modelled so far, in this order: `UserBarrier`, `MacroReplace`, `SuiteRun`,
`StatusLog`, `FailedBook`, `ScriptRun`, `CoverageMap`, `Windows`,
`ExcelCompare`; `Trigger`, `XidMap`, `TcpRaw`, `Record` and `Dsniff`; `Remote`,
`Magic`, `Filesnarf`, `RpcRecord`, `HttpRequests`, `Mailsnarf`, `Msgsnarf`,
`Logins`; `SnapCompare` and `Exports`.

Left, most useful first:

1. Proofs: `LoginsAreShown` of `Logins`, decoder by decoder, and the part of
   `ScriptIsFollowed` (`ScriptRun`) that needs no `Meaning`.
2. `PerfLog`: STARTTIME and ENDTIME over the shared date format and twelve-hour
   times; a property that durations are what the clock says.
3. `Keys` (`CollectiveActions`), `Frames` and `Alerts`, and the ten attempts of
   `Click`: keywords with state of their own.
4. `Sessions` (`Driver`): one session per row, remote and local, composed with
   `Windows`.
5. `testMap` of `SuiteRun` and the login keyword.
