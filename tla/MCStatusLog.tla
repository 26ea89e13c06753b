------------------------------ MODULE MCStatusLog ------------------------------
(* Small instances of StatusLog for TLC. *)
EXTENDS StatusLog

\* the first row passes or fails, the others are skipped
MCOutcomes == [r \in Rows |-> IF r = 1 THEN {"PASS", "FAIL"} ELSE {"SKIP"}]

\* one worker, the suite run twice
Serial == [workers |-> 1, sessions |-> 2, passes |-> 2]

\* two workers
Parallel == [workers |-> 2, sessions |-> 3, passes |-> 1]

SerialAndParallel == {Serial, Parallel}
OnlySerial == {[Serial EXCEPT !.passes = 1]}
=============================================================================
