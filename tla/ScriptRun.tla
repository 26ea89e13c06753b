------------------------------- MODULE ScriptRun -------------------------------
(***************************************************************************)
(* The interpretation of one test case: framework/Interpreter.java goes    *)
(* over the rows of the script sheet, framework/Loop.java over the rows    *)
(* between LOOPSTART and LOOPEND, and a custom keyword is a sheet of its   *)
(* own that a new Interpreter goes over with the caller's map.             *)
(*                                                                         *)
(* The Java call stack is the sequence "stack" of iterateRows and looping  *)
(* frames; a step handles one row of the topmost one.  What a row does in  *)
(* the browser is one entry of "trace", or the exception that ends the     *)
(* script; the keywords are alike in this and are one kind of row, except  *)
(* for those that Loop.java treats differently.                            *)
(***************************************************************************)
EXTENDS Naturals, Sequences

CONSTANTS
    Scripts,   \* the scripts to choose from, each a sequence of rows
    Keywords,  \* names of custom keywords
    SheetOf,   \* SheetOf[k]: the rows of keyword k's sheet
    Texts,     \* pieces of literal text
    MaxDepth   \* frames that fit on the Java stack

\* A cell is a sequence of pieces, separated by the delimiter that text and
\* selection boxes split their parameter at: text, the macro of a keyword's
\* first parameter, or the pattern that stands for the index of a loop.
Param1 == "${PARAM1}"
Index == "{index}"
Digit(i) == <<"0", "1", "2", "3">>[i + 1]
Pieces == Texts \cup {Param1, Index}
Cells == Seq(Pieces)

Boxes == {"textbox", "select"}
Kinds == Boxes \cup {"step", "screenshot", "loopstart", "loopend", "blank", "call"}

\* A row: its keyword, locator and parameter; the custom keyword that a "call"
\* names and the number of iterations of a "loopstart".
Row == [kind : Kinds, locator : Cells, parameter : Cells, keyword : Keywords, count : 0..3]

ASSUME ScriptRunAssumption ==
    /\ \A script \in Scripts : script \in Seq(Row)
    /\ SheetOf \in [Keywords -> Seq(Row)]
    /\ Texts \cap {Param1, Index, ""} = {}
    /\ MaxDepth \in Nat \ {0}

VARIABLES
    script,  \* the rows of the test case
    stack,   \* the frames, the topmost one last
    param,   \* map: the value of PARAM1, "" without the key
    stepId,  \* map: STEP_ID, as <<sheet, row>>
    trace,   \* what has been done in the browser
    status   \* "running", "ended" or "failed"

vars == <<script, stack, param, stepId, trace, status>>

Main == "main"
RowsOf(sheet) == IF sheet = Main THEN script ELSE SheetOf[sheet]

\* a frame of iterateRows; "start" to "boxes" are those of looping
IterateFrame(sheet) ==
    [type |-> "iterate", sheet |-> sheet, row |-> 1, start |-> 0, end |-> 0, i |-> 0, boxes |-> <<>>]

Top == stack[Len(stack)]
Below == SubSeq(stack, 1, Len(stack) - 1)
WithTop(s, f) == [s EXCEPT ![Len(s)] = f]

Init ==
    /\ script \in Scripts
    /\ stack = <<IterateFrame(Main)>>
    /\ param = ""
    /\ stepId = <<Main, 0>>
    /\ trace = <<>>
    /\ status = "running"

InLoop == Top.type = "loop"
Cell == RowsOf(Top.sheet)[Top.row]
At(kinds) ==
    /\ status = "running"
    /\ Top.row <= Len(RowsOf(Top.sheet))
    /\ Cell.kind \in kinds

-----------------------------------------------------------------------------
(* Macros and the loop index                                               *)

\* ReplaceMacro.replace with the map: an undefined macro stays as it is
Replaced(cell) ==
    [k \in DOMAIN cell |-> IF cell[k] = Param1 /\ param # "" THEN param ELSE cell[k]]

\* Loop.replaceIndex
ReplaceIndex(cell, i) == [k \in DOMAIN cell |-> IF cell[k] = Index THEN Digit(i) ELSE cell[k]]

\* processKeywordAtRowNum: parameterFromloop takes the place of the cell, the
\* locator is read from the sheet again
GivenParameter == IF InLoop THEN ReplaceIndex(Cell.parameter, Top.i) ELSE Cell.parameter
StepParameter == Replaced(GivenParameter)
StepLocator == Replaced(Cell.locator)

\* a text box's values are replaced when the loop starts, a selection's are not
SplitAtStart(row) == IF row.kind = "textbox" THEN Replaced(row.parameter) ELSE row.parameter

\* mutant: i <= str.length, so the last value is given twice
BoxParameterTwice ==
    LET given == Top.boxes[Top.row]
    IN Replaced(ReplaceIndex(CASE Top.i < Len(given)  -> <<given[Top.i + 1]>>
                               [] Top.i = Len(given)  -> <<given[Top.i]>>
                               [] OTHER               -> Cell.parameter, Top.i))

\* looping: the value of iteration i, or the whole cell when there are too few
BoxParameter ==
    LET given == Top.boxes[Top.row]
    IN Replaced(ReplaceIndex(IF Top.i < Len(given) THEN <<given[Top.i + 1]>> ELSE Cell.parameter,
                             Top.i))
BoxLocator == Replaced(ReplaceIndex(Cell.locator, Top.i))

Does(locator, parameter) ==
    trace' = Append(trace, [sheet |-> Top.sheet, row |-> Top.row,
                            locator |-> locator, parameter |-> parameter])

-----------------------------------------------------------------------------
(* One row                                                                 *)

\* the next row of the topmost frame
Advance == stack' = [stack EXCEPT ![Len(stack)].row = @ + 1]

\* map.put("STEP_ID", ...), the first thing that processKeywordAtRowNum does
Started == stepId' = <<Top.sheet, Top.row>>

DoStep ==
    /\ At({"step"})
    /\ Started
    /\ Does(StepLocator, StepParameter)
    /\ Advance
    /\ UNCHANGED <<script, param, status>>

DoBox ==
    /\ At(Boxes)
    /\ ~InLoop
    /\ Started
    /\ Does(StepLocator, StepParameter)
    /\ Advance
    /\ UNCHANGED <<script, param, status>>

\* Loop.java calls Textbox and Selection itself
DoBoxInLoop ==
    /\ At(Boxes)
    /\ InLoop
    /\ Does(BoxLocator, BoxParameter)
    /\ Advance
    /\ UNCHANGED <<script, param, stepId, status>>

\* Loop.java takes the parameter from the locator's column
DoScreenshot ==
    /\ At({"screenshot"})
    /\ IF InLoop THEN Does(<<>>, StepLocator) /\ UNCHANGED stepId
                 ELSE Does(<<>>, StepParameter) /\ Started
    /\ Advance
    /\ UNCHANGED <<script, param, status>>

\* a keyword throws: no element, no window, a failed check
RowFails ==
    /\ At({"step"} \cup Boxes)
    /\ IF InLoop /\ Cell.kind \in Boxes THEN UNCHANGED stepId ELSE Started
    /\ status' = "failed"
    /\ UNCHANGED <<script, stack, param, trace>>

\* an empty keyword cell; LOOPEND does nothing in iterateRows either
PassRow ==
    /\ At({"blank", "loopend"})
    /\ ~InLoop
    /\ Started
    /\ Advance
    /\ UNCHANGED <<script, param, trace, status>>

-----------------------------------------------------------------------------
(* Loops                                                                   *)

\* row j is the LOOPEND that the scan from row i meets, over no empty keyword
\* cell, on which it throws a NullPointerException
Closes(rows, i, j) ==
    /\ j \in (i + 1)..Len(rows) /\ rows[j].kind = "loopend"
    /\ \A k \in i..(j - 1) : rows[k].kind \notin {"loopend", "blank"}

\* iterateRows goes on behind LOOPEND; looping ignores the size
AfterLoop(f, size) ==
    [f EXCEPT !.row = IF f.type = "iterate" THEN @ + size + 1 ELSE @ + 1]

LoopFrame(end) ==
    [type |-> "loop", sheet |-> Top.sheet, row |-> Top.row + 1, start |-> Top.row, end |-> end,
     i |-> 0,
     boxes |-> [k \in {r \in Top.row..end : RowsOf(Top.sheet)[r].kind \in Boxes} |->
                    SplitAtStart(RowsOf(Top.sheet)[k])]]

EnterLoop ==
    /\ At({"loopstart"})
    /\ Started
    /\ LET rows == RowsOf(Top.sheet)
           end == CHOOSE j \in DOMAIN rows : Closes(rows, Top.row, j)
       IN IF (\E j \in DOMAIN rows : Closes(rows, Top.row, j)) /\ Len(stack) < MaxDepth
          THEN /\ stack' = IF Cell.count = 0 THEN WithTop(stack, AfterLoop(Top, end - Top.row))
                           ELSE Append(stack, LoopFrame(end))
               /\ UNCHANGED status
          ELSE status' = "failed" /\ UNCHANGED stack
    /\ UNCHANGED <<script, param, trace>>

NextIteration ==
    /\ At({"loopend"})
    /\ InLoop /\ Top.i + 1 < RowsOf(Top.sheet)[Top.start].count
    /\ stack' = WithTop(stack, [Top EXCEPT !.i = @ + 1, !.row = Top.start + 1])
    /\ UNCHANGED <<script, param, stepId, trace, status>>

\* looping returns the size of the loop
LeaveLoop ==
    /\ At({"loopend"})
    /\ InLoop /\ Top.i + 1 = RowsOf(Top.sheet)[Top.start].count
    /\ stack' = WithTop(Below, AfterLoop(Below[Len(Below)], Top.end - Top.start))
    /\ UNCHANGED <<script, param, stepId, trace, status>>

-----------------------------------------------------------------------------
(* Custom keywords                                                         *)

\* createProperties: without a parameter the map stays as it is
CreateProperties(parameter) ==
    param' = IF parameter = <<>> THEN param ELSE Replaced(parameter)[1]

\* suiteExecution again, with the keyword's sheet
CallKeyword ==
    /\ At({"call"})
    /\ Started
    /\ CreateProperties(GivenParameter)
    /\ IF Len(stack) < MaxDepth
       THEN stack' = Append(stack, IterateFrame(Cell.keyword)) /\ UNCHANGED status
       ELSE status' = "failed" /\ UNCHANGED stack
    /\ UNCHANGED <<script, trace>>

\* iterateRows returns
Return ==
    /\ status = "running"
    /\ ~InLoop
    /\ Top.row > Len(RowsOf(Top.sheet))
    /\ IF Len(stack) = 1
       THEN status' = "ended" /\ UNCHANGED stack
       ELSE stack' = [Below EXCEPT ![Len(Below)].row = @ + 1] /\ UNCHANGED status
    /\ UNCHANGED <<script, param, stepId, trace>>

-----------------------------------------------------------------------------
Next ==
    \/ DoStep \/ DoBox \/ DoBoxInLoop \/ DoScreenshot \/ RowFails \/ PassRow
    \/ EnterLoop \/ NextIteration \/ LeaveLoop
    \/ CallKeyword \/ Return

\* the worker's thread runs
Spec == Init /\ [][Next]_vars /\ WF_vars(Next)

-----------------------------------------------------------------------------
(* What a script says                                                      *)

\* f[a] \o ... \o f[b]
Concat(f, a, b) ==
    LET upTo[k \in (a - 1)..b] == IF k < a THEN <<>> ELSE upTo[k - 1] \o f[k]
    IN IF b < a THEN <<>> ELSE upTo[b]

\* Row k with parameter p, index text ix and box value v of its iteration.
Entry(sheet, k, p, ix, v) ==
    LET row == RowsOf(sheet)[k]
        Sub(cell) == [n \in DOMAIN cell |->
            IF cell[n] = Param1 /\ p # "" THEN p ELSE IF cell[n] = Index THEN ix ELSE cell[n]]
    IN [sheet |-> sheet, row |-> k, locator |-> Sub(row.locator), parameter |-> Sub(v)]

\* The entries of a sheet whose parameter is p: of each row once, of each row
\* of a loop once for every index, and a called keyword's in the place of the
\* call.  Calls are at most "depth" deep.
Meaning ==
    LET of[depth \in 0..MaxDepth, sheet \in Keywords \cup {Main}, p \in Pieces \cup {"", "0", "1", "2"}] ==
        LET rows == RowsOf(sheet)
            One(k, ix, v) ==
                CASE rows[k].kind \in {"step"} \cup Boxes -> <<Entry(sheet, k, p, ix, v)>>
                  [] rows[k].kind = "call" /\ depth > 0 ->
                         of[depth - 1, rows[k].keyword, Entry(sheet, k, p, ix, v).parameter[1]]
                  [] OTHER -> <<>>
            ValueAt(k, i) ==
                IF rows[k].kind \in Boxes /\ i < Len(rows[k].parameter)
                THEN <<rows[k].parameter[i + 1]>> ELSE rows[k].parameter
            Body(i, a, b) == Concat([k \in a..b |-> One(k, Digit(i), ValueAt(k, i))], a, b)
            from[k \in 1..(Len(rows) + 1)] ==
                IF k > Len(rows) THEN <<>>
                ELSE IF rows[k].kind # "loopstart"
                THEN One(k, Index, rows[k].parameter) \o from[k + 1]
                ELSE LET end == CHOOSE j \in DOMAIN rows : Closes(rows, k, j)
                         last == rows[k].count - 1
                     IN (IF rows[k].count = 0 THEN <<>>
                         ELSE Concat([i \in 0..last |-> Body(i, k + 1, end - 1)], 0, last))
                        \o from[end + 1]
        IN from[1]
    IN of[MaxDepth, Main, ""]

\* row k is in a loop
Inside(rows, k) == \E i, j \in DOMAIN rows : i < k /\ k < j /\ rows[i].kind = "loopstart" /\ Closes(rows, i, j)

Uses(cell, piece) == \E n \in DOMAIN cell : cell[n] = piece

\* Every loop is closed and holds no other loop; no row outside of one uses the
\* index and no step in one has it in its locator.  There are no screenshots.
Flat(rows) ==
    \A i \in DOMAIN rows :
        /\ rows[i].kind = "loopstart" =>
               \E j \in DOMAIN rows :
                   Closes(rows, i, j) /\ \A k \in (i + 1)..j : rows[k].kind # "loopstart"
        /\ Uses(rows[i].parameter, Index) => Inside(rows, i)
        /\ Uses(rows[i].locator, Index) => Inside(rows, i) /\ rows[i].kind # "step"
        /\ rows[i].kind # "screenshot"

Reads(row) == Uses(row.locator, Param1) \/ Uses(row.parameter, Param1)

\* Every call gives a parameter, and no sheet that reads its own makes a call:
\* the map has one PARAM1 for the caller and the called keyword.
OwnParameter(rows) ==
    \A i, k \in DOMAIN rows : rows[k].kind = "call" => rows[k].parameter # <<>> /\ ~Reads(rows[i])

Plain(rows) == Flat(rows) /\ OwnParameter(rows)

-----------------------------------------------------------------------------
(* Properties                                                              *)

\* Every frame is at a row of its sheet or behind the last, and one of
\* Loop.java between its LOOPSTART and LOOPEND.
TypeOK ==
    /\ Len(stack) \in 1..MaxDepth
    /\ \A n \in DOMAIN stack :
          /\ stack[n].type \in {"iterate", "loop"}
          /\ stack[n].row \in 1..(Len(RowsOf(stack[n].sheet)) + 1)
          /\ stack[n].type = "loop" => stack[n].row \in (stack[n].start + 1)..stack[n].end
    /\ param \in Pieces \cup {"", "0", "1", "2", "3"}
    /\ stepId[1] \in Keywords \cup {Main}
    /\ status \in {"running", "ended", "failed"}

(***************************************************************************)
(* A script without nested loops does what it says: iterateRows, looping   *)
(* and the sizes they hand each other visit every row once, those of a     *)
(* loop once for every index and with its value, and a keyword's rows with *)
(* the parameter of its call.                                              *)
(***************************************************************************)
DoesWhatItSays ==
    (status = "ended" /\ Plain(script) /\ \A k \in Keywords : Plain(SheetOf[k])) => trace = Meaning

(***************************************************************************)
(* When a row fails, STEP_ID, which names the screenshot of the failure,   *)
(* is that of the row, however deep in loops and keywords it is; only for  *)
(* a box in a loop it is an earlier row's.                                 *)
(***************************************************************************)
StepIdOfFailure ==
    status = "failed" =>
        \/ stepId = <<Top.sheet, Top.row>>
        \/ InLoop /\ Cell.kind \in Boxes

(***************************************************************************)
(* A script does what its sheet says up to the step that fails, and the    *)
(* failure is reported under the id of that step.                          *)
(***************************************************************************)
ScriptIsFollowed == DoesWhatItSays /\ StepIdOfFailure

(***************************************************************************)
(* "Assign loop index values to {index} pattern found in locator method    *)
(* and parameters" (Interpreter.java): nothing that a loop does in the     *)
(* browser has the pattern left in it.                                     *)
(***************************************************************************)
IndexIsReplaced ==
    \A n \in DOMAIN trace :
        Inside(RowsOf(trace[n].sheet), trace[n].row) => ~Uses(trace[n].locator, Index)

(***************************************************************************)
(* "handles them for number of times the loop iterates" (Loop.java): in    *)
(* one loop inside another a text box is typed into once for every         *)
(* iteration of the two.                                                   *)
(***************************************************************************)
BoxesPerIteration ==
    status = "ended" =>
        \A a, b, k, c, d \in DOMAIN script :
            /\ a < b /\ b < k /\ k < c /\ c < d
            /\ script[a].kind = "loopstart" /\ script[b].kind = "loopstart"
            /\ script[k].kind = "textbox"
            /\ script[c].kind = "loopend" /\ script[d].kind = "loopend"
            => Len(SelectSeq(trace, LAMBDA e : e.sheet = Main /\ e.row = k))
                   = script[a].count * script[b].count

=============================================================================
