------------------------------ MODULE MCSuiteRun ------------------------------
(* Small instances of SuiteRun for TLC.                                    *)
EXTENDS SuiteRun

\* one <test> of all rows, on n workers, on a browser other than Internet Explorer
OneSuite(n) == [suiteOf |-> [t \in Tests |-> 1], threads |-> n, ie |-> FALSE]

\* two <test> tags, the first of two rows, one worker, on Internet Explorer
TwoSuites == [suiteOf |-> [t \in Tests |-> IF t <= 2 THEN 1 ELSE 2], threads |-> 1, ie |-> TRUE]

AllSettings == {OneSuite(2), TwoSuites}
Parallel == {OneSuite(2)}
=============================================================================
