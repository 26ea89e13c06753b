-------------------------------- MODULE TestCase --------------------------------
(***************************************************************************)
(* What outlives a test case: the map of covered classes, the handle of    *)
(* the parent window, and the workbooks it has exported.  They share       *)
(* nothing; a behaviour is of one of them, while the others keep their     *)
(* initial states.                                                         *)
(***************************************************************************)
EXTENDS CoverageMap

CONSTANTS
    WindowTests, Threads, MaxWindows,   \* of Windows
    ExportTests, ExportSetups, NoFile   \* of Exports

ASSUME ExportsAssumption ==
    /\ "old" \notin ExportTests
    /\ \A s \in ExportSetups : s.old \in Seq(Nat)

VARIABLES
    part,           \* "coverage", "windows" or "exports"
    winHandleBefore, wpc, windows, opened, current, from, left, keyword, result, strayed,
    setup, epc, done, downloads, clock, excels, listing, lastModifiedFile, disturbed

windowvars == <<winHandleBefore, wpc, windows, opened, current, from, left, keyword, result, strayed>>

W == INSTANCE Windows WITH Tests <- WindowTests, pc <- wpc

exportvars == <<setup, epc, done, downloads, clock, excels, listing, lastModifiedFile, disturbed>>

E == INSTANCE Exports WITH Tests <- ExportTests, Setups <- ExportSetups, pc <- epc, files <- listing

TestCaseInit ==
    /\ part \in {"coverage", "windows", "exports"}
    /\ Init
    /\ part # "coverage" => ~remote /\ order = CHOOSE o \in Orders : TRUE
    /\ W!Init
    /\ E!Init
    /\ part # "exports" => setup = CHOOSE s \in ExportSetups : TRUE

CoverageNext == part = "coverage" /\ Next /\ UNCHANGED <<part, windowvars, exportvars>>

WindowsNext == part = "windows" /\ W!Next /\ UNCHANGED <<part, vars, exportvars>>

ExportsNext == part = "exports" /\ E!Next /\ UNCHANGED <<part, vars, windowvars>>

TestCaseNext == CoverageNext \/ WindowsNext \/ ExportsNext

\* that of Exports, in its own part
Fairness ==
    \A t \in ExportTests :
        /\ WF_exportvars(part = "exports" /\ E!Browser(t))
        /\ WF_exportvars(part = "exports" /\ E!Worker(t))

TestCaseSpec == TestCaseInit /\ [][TestCaseNext]_<<part, vars, windowvars, exportvars>> /\ Fairness

NothingLeftOpen == W!NothingLeftOpen
PassedHandsNothingOn == W!PassedHandsNothingOn
ExportIsOwn == E!ExportIsOwn
ExportReturns == E!ExportReturns
=============================================================================
