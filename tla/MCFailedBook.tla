------------------------------ MODULE MCFailedBook ------------------------------
(* Small instances of FailedBook for TLC.                                  *)
EXTENDS FailedBook

Named(name, rows) == [name |-> name, rows |-> rows]

\* rows in both formats, with a missing name, a missing path and an empty row
TwoSheets == <<Named("A", <<<<Path, "c1", Null>>, <<Path, Null, Null>>, <<Path, "c2", Null>>>>),
               Named("B", <<<<Null, "c2", Null>>, <<Path, "c3", Null>>>>)>>
Marked == <<Named("A", <<<<"Y", Path, "c1">>, <<"N", Path, "c2">>, <<Null, Path, "c2">>,
                         <<"Y", Path, "c3">>>>)>>
NoPath == <<Named("A", <<<<"Y", Path, "c1">>, <<"Y", Null, "c2">>, <<"Y", Path, "c3">>>>)>>
SheetOne == <<Named("Sheet1", <<<<Path, "c1", Null>>>>)>>

SomeSources ==
    {[mode |-> "normal", sheets |-> TwoSheets], [mode |-> "Runall", sheets |-> TwoSheets],
     [mode |-> "blank", sheets |-> Marked], [mode |-> "blank", sheets |-> NoPath]}

SheetOneOnly == {[mode |-> "normal", sheets |-> SheetOne]}
=============================================================================
