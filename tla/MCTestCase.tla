------------------------------ MODULE MCTestCase ------------------------------
EXTENDS TestCase, TLC

(* Setups for Exports *)

\* a test case with two exports, in a Downloads that is clean, has workbooks or
\* has an empty file too; two test cases with one each, one after the other or at once
Setup(first, second, threads, steps, old) ==
    [exports |-> ("t1" :> first) @@ ("t2" :> second), threads |-> threads, steps |-> steps, old |-> old]

AllSetups ==
    {Setup(2, 0, 1, steps, old) : steps \in BOOLEAN, old \in {<<>>, <<1, 1>>, <<1, 0>>}}
    \cup {Setup(1, 1, 1, FALSE, <<1>>), Setup(1, 1, 2, FALSE, <<>>)}

(* Iteration orders of a java.util.HashMap with 16 buckets and the keys "1",   *)
(* "2", ...: String.hashCode of a digit is 48 more than its value.             *)

\* Java 8, h ^ (h >>> 16): the buckets of "1".."9" are 1..9
Java8Order == [n \in 0..(2 * Length) |-> [i \in 1..n |-> i]]

\* Java 7, h ^ (h >>> 7) ^ (h >>> 4): the buckets of "1".."4" are 2, 1, 0 and 7
Java7Order ==
    [n \in 0..(2 * Length) |->
        [i \in 1..n |-> IF n > 2 /\ i <= 3 THEN 4 - i ELSE IF n = 2 THEN 3 - i ELSE i]]

JavaOrders == {Java7Order, Java8Order}

AnyThree == SUBSET (1..3)

=============================================================================
