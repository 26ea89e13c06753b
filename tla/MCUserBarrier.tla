----------------------------- MODULE MCUserBarrier -----------------------------
(* A small instance of UserBarrier for TLC: every user counts itself and   *)
(* waits; u1 goes on to a second gate, on counters nobody has reset.       *)
EXTENDS UserBarrier

CONSTANTS u1, u2, u3

Gate == <<"COUNTTHREADS", "WAITFORNUSERS">>

Sheets == [u \in Users |-> IF u = u1 THEN Gate \o Gate ELSE Gate]
=============================================================================
