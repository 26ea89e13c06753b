----------------------------- MODULE MCExcelCompare -----------------------------
(***************************************************************************)
(* The two programs that compare what test cases leave with baselines: one *)
(* workbooks, one snapshots.  They are modelled apart and share nothing; a *)
(* behaviour is of one of them.                                            *)
(***************************************************************************)
EXTENDS ExcelCompare, SnapCompare, TLC

VARIABLE part       \* "books" or "snaps"

Sheet(v) == (0 :> (0 :> v))

\* one cell; a row, a column or a sheet more; a gap; no rows; a row without cells
One == <<Sheet("1")>>
Other == <<Sheet("2")>>
Space == <<Sheet("")>>
Spaced == <<Sheet(" ")>>
Longer == <<(0 :> (0 :> "1")) @@ (1 :> (0 :> "1"))>>
Wider == <<(0 :> ((0 :> "1") @@ (1 :> "1")))>>
Gap == <<(0 :> ((0 :> "1") @@ (2 :> "1")))>>
NoRows == <<<<>>>>
NoCells == <<(0 :> <<>>)>>
TwoSheets == <<Sheet("1"), Sheet("1")>>
AllBooks == {One, Other, Space, Spaced, Longer, Wider, Gap, NoRows, NoCells, TwoSheets, Unreadable}

\* every pair of workbooks
Pairs == {[source |-> 1 :> ("a" :> ("x" :> v)), base |-> 1 :> ("a" :> ("x" :> w)), passed |-> {}] :
            v, w \in AllBooks}

PartOf(D, R) == UNION {[d -> R] : d \in SUBSET D}

\* a test case: up to two workbooks, all alike
Folder == PartOf(Files, {One})
Suite == PartOf({"a", "b"}, Folder)

\* every pair of directories of one suite, with or without a pass of "a" before
Directories == {[source |-> 1 :> v, base |-> 1 :> w, passed |-> p] :
                  v, w \in Suite, p \in {{}, {<<1, "a">>}}}

\* two suites whose test cases may have the same name
Small == PartOf({"a", "b"}, {<<>>, "x" :> One})
TwoSuites == {[source |-> (1 :> t) @@ (2 :> u), base |-> (1 :> v) @@ (2 :> w), passed |-> p] :
                t, u, v, w \in Small, p \in {{}, {<<1, "a">>}}}

\* a third test case, in the baseline only
Third == {[source |-> 1 :> v, base |-> 1 :> (w @@ ("c" :> <<>>)), passed |-> {}] : v, w \in Small}

MCWorlds == Pairs \cup Directories \cup TwoSuites \cup Third
MCSpaces == {"", " "}

-----------------------------------------------------------------------------
(* Snapshots: their pictures, and directories of them                      *)

Pic(bytes, size) == [bytes |-> bytes, size |-> size]
Pics == {Pic(1, 1), Pic(2, 1), Pic(3, 2), Pic(4, NoSize)}
Snapshot(name, pic) == [name |-> name, bytes |-> pic.bytes, size |-> pic.size]
Dir(name, list) == [name |-> name, files |-> list]
SuiteWith(name, dirs) == [name |-> name, dirs |-> <<Dir(name, <<>>), Dir("passed", <<>>)>> \o dirs]
OnDisk(suites, baselines, sound) ==
    [suites |-> suites, base |-> baselines, failures |-> {"FAILURE"}, logging |-> TRUE, sound |-> sound]
Baseline(pics) == <<Dir("s", <<>>), Dir("a", pics)>>

\* every picture against every baseline, after another one
OnePic ==
    {OnDisk(<<SuiteWith("s", <<Dir("a", <<Snapshot("y", p), Snapshot("x", q), Snapshot("FAILURE", p)>>)>>)>>,
            Baseline(("x" :> b) @@ ("y" :> Pic(1, 1))), sound) :
        p \in Pics, q \in Pics, b \in Pics, sound \in BOOLEAN}

Lists == {<<>>, <<Snapshot("x", Pic(1, 1))>>, <<Snapshot("x", Pic(2, 1)), Snapshot("y", Pic(1, 1))>>}
Some == {<<>>, "x" :> Pic(1, 1), "y" :> Pic(3, 2)}

\* test cases with and without baselines, passed and failed, in two suites
InTwoSuites ==
    {OnDisk(<<SuiteWith("s", <<Dir("a", f), Dir("b", g), Dir("failed", <<>>), Dir("a", h)>>),
              SuiteWith("t", <<Dir("b", f)>>)>>, baselines, TRUE) :
        f, g, h \in Lists,
        baselines \in {Baseline(b) : b \in Some} \cup
                       {<<Dir("b", b), Dir("a", c), Dir("b", c)>> : b, c \in Some}}

\* files and a database that fail
Failing ==
    {OnDisk(<<SuiteWith("s", <<Dir("a", f), Dir("b", <<>>), Dir("a", f)>>)>>, Baseline(b), FALSE) :
        f \in Lists, b \in Some}

SnapSettings == OnePic \cup {[w EXCEPT !.logging = FALSE] : w \in OnePic} \cup InTwoSuites \cup Failing

-----------------------------------------------------------------------------
Off == "off"

\* No report and no row in it: the properties of SnapCompare say nothing
SnapsOff ==
    /\ setting = [logging |-> FALSE] /\ results = <<>>
    /\ at = Off /\ suiteno = Off /\ dirno = Off /\ snaps = Off
    /\ baseTC = Off /\ firstRun = Off /\ snapshotName = Off /\ failedPath = Off /\ widthmismatch = Off
    /\ sourceSize = Off /\ baseSize = Off /\ db = Off /\ unread = Off /\ lost = Off

\* The report is empty: no property of ExcelCompare says anything
BooksOff ==
    /\ world = Off /\ pc = Off /\ suite = Off /\ cases = Off /\ case = Off
    /\ dir = Off /\ files = Off /\ basecases = Off /\ sourceTC = Off /\ exportTCName = Off
    /\ report = EmptyBag

CompareInit ==
    \/ part = "books" /\ Init /\ SnapsOff
    \/ part = "snaps" /\ SnapInit /\ BooksOff

CompareNext ==
    \/ part = "books" /\ Next /\ UNCHANGED <<part, snapvars>>
    \/ part = "snaps" /\ SnapNext /\ UNCHANGED <<part, vars>>

CompareSpec == CompareInit /\ [][CompareNext]_<<part, vars, snapvars>>
=============================================================================
