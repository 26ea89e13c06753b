------------------------------ MODULE UserBarrier ------------------------------
(***************************************************************************)
(* The COUNTTHREADS and WAITFORNUSERS keywords of                          *)
(* framework/Interpreter.java: test threads announce themselves in the     *)
(* static int TestSuite.parallelThreads and then poll it every 100 ms, at  *)
(* most until the static int Interpreter.wait_count is used up.            *)
(*                                                                         *)
(* Both counters are plain static ints that every thread reads and writes  *)
(* without a lock, so `parallelThreads++' and `wait_count++' are a read    *)
(* and a write with other threads in between.  Neither is ever reset, so   *)
(* a later gate of the same JVM starts from what the earlier ones left.    *)
(***************************************************************************)
EXTENDS Naturals, Sequences

CONSTANTS
    Users,      \* the test threads
    Script,     \* Script[u]: the barrier keywords of u's sheet, in row order
    N,          \* the system property waitForNUsers
    WaitLimit   \* the 240000 of the source: polls all threads have together

BarrierKeyword == {"COUNTTHREADS", "WAITFORNUSERS"}

ASSUME BarrierAssumption ==
    /\ N \in Nat
    /\ WaitLimit \in Nat
    /\ Script \in [Users -> Seq(BarrierKeyword)]

VARIABLES
    parallelThreads,    \* TestSuite.parallelThreads
    wait_count,         \* Interpreter.wait_count
    row,                \* row[u]: the row u executes
    pc,                 \* pc[u]: where in that row's keyword u is
    held,               \* held[u]: the value u has read and not yet written back
    counted,            \* history: the COUNTTHREADS rows completed so far
    overlapped,         \* history: two COUNTTHREADS rows ran at the same time
    left                \* how u left its last WAITFORNUSERS, "warned" when it printed

vars == <<parallelThreads, wait_count, row, pc, held, counted, overlapped, left>>

PCs == {"row", "add", "poll", "budget", "tick", "put", "open", "spent", "failed"}

Exits == {"no", "met", "warned", "unwarned"}

TypeOK ==
    /\ parallelThreads \in Nat
    /\ wait_count \in Nat
    /\ row \in [Users -> Nat \ {0}]
    /\ pc \in [Users -> PCs]
    /\ held \in [Users -> Nat]
    /\ counted \in Nat
    /\ overlapped \in BOOLEAN
    /\ left \in [Users -> Exits]

Init ==
    /\ parallelThreads = 0
    /\ wait_count = 0
    /\ row = [u \in Users |-> 1]
    /\ pc = [u \in Users |-> "row"]
    /\ held = [u \in Users |-> 0]
    /\ counted = 0
    /\ overlapped = FALSE
    /\ left = [u \in Users |-> "no"]

At(u, keyword) ==
    /\ pc[u] = "row"
    /\ row[u] <= Len(Script[u])
    /\ Script[u][row[u]] = keyword

NextRow(u) ==
    /\ pc' = [pc EXCEPT ![u] = "row"]
    /\ row' = [row EXCEPT ![u] = @ + 1]

-----------------------------------------------------------------------------
(* COUNTTHREADS: parallelThreads++                                         *)

ReadCount(u) ==
    /\ At(u, "COUNTTHREADS")
    /\ held' = [held EXCEPT ![u] = parallelThreads]
    /\ pc' = [pc EXCEPT ![u] = "add"]
    /\ overlapped' = (overlapped \/ \E v \in Users : pc[v] = "add")
    /\ UNCHANGED <<parallelThreads, wait_count, row, counted, left>>

\* mutant: a row that counts twice
WriteCountTwice(u) ==
    /\ pc[u] = "add"
    /\ parallelThreads' = held[u] + 2
    /\ counted' = counted + 1
    /\ NextRow(u)
    /\ UNCHANGED <<wait_count, held, overlapped, left>>

WriteCount(u) ==
    /\ pc[u] = "add"
    /\ parallelThreads' = held[u] + 1
    /\ counted' = counted + 1
    /\ NextRow(u)
    /\ UNCHANGED <<wait_count, held, overlapped, left>>

-----------------------------------------------------------------------------
(* WAITFORNUSERS: while(parallelThreads < temp && wait_count<240000)       *)

EnterGate(u) ==
    /\ At(u, "WAITFORNUSERS")
    /\ pc' = [pc EXCEPT ![u] = "poll"]
    /\ UNCHANGED <<parallelThreads, wait_count, row, held, counted, overlapped, left>>

\* mutant: off by one
GateOpenEarly == parallelThreads + 1 >= N

GateOpen == parallelThreads >= N

PollUsers(u) ==
    /\ pc[u] = "poll"
    /\ pc' = [pc EXCEPT ![u] = IF GateOpen THEN "open" ELSE "budget"]
    /\ UNCHANGED <<parallelThreads, wait_count, row, held, counted, overlapped, left>>

PollBudget(u) ==
    /\ pc[u] = "budget"
    /\ pc' = [pc EXCEPT ![u] = IF wait_count < WaitLimit THEN "tick" ELSE "spent"]
    /\ UNCHANGED <<parallelThreads, wait_count, row, held, counted, overlapped, left>>

ReadTick(u) ==
    /\ pc[u] = "tick"
    /\ held' = [held EXCEPT ![u] = wait_count]
    /\ pc' = [pc EXCEPT ![u] = "put"]
    /\ UNCHANGED <<parallelThreads, wait_count, row, counted, overlapped, left>>

\* mutant: a poll that is not charged
WriteTickFree(u) ==
    /\ pc[u] = "put"
    /\ wait_count' = held[u]
    /\ pc' = [pc EXCEPT ![u] = "poll"]
    /\ UNCHANGED <<parallelThreads, row, held, counted, overlapped, left>>

\* the write of wait_count++, the 100 ms sleep and the jump back to the test
WriteTick(u) ==
    /\ pc[u] = "put"
    /\ wait_count' = held[u] + 1
    /\ pc' = [pc EXCEPT ![u] = "poll"]
    /\ UNCHANGED <<parallelThreads, row, held, counted, overlapped, left>>

\* the two reads of this condition are one step: the warning changes no state
\* if(wait_count>=240000 && parallelThreads < temp) print the warning
Warns == wait_count >= WaitLimit /\ ~GateOpen

LeaveGate(u) ==
    /\ pc[u] \in {"open", "spent"}
    /\ left' = [left EXCEPT ![u] = IF Warns THEN "warned"
                                  ELSE IF pc[u] = "open" THEN "met" ELSE "unwarned"]
    /\ NextRow(u)
    /\ UNCHANGED <<parallelThreads, wait_count, held, counted, overlapped>>

\* any other keyword of the sheet may throw, which ends the thread's script
Fail(u) ==
    /\ pc[u] = "row"
    /\ row[u] <= Len(Script[u])
    /\ pc' = [pc EXCEPT ![u] = "failed"]
    /\ UNCHANGED <<parallelThreads, wait_count, row, held, counted, overlapped, left>>

Step(u) ==
    \/ ReadCount(u) \/ WriteCount(u)
    \/ EnterGate(u) \/ PollUsers(u) \/ PollBudget(u)
    \/ ReadTick(u) \/ WriteTick(u) \/ LeaveGate(u)

Next == \E u \in Users : Step(u) \/ Fail(u)

Safety == Init /\ [][Next]_vars

\* every thread is scheduled again and every sleep returns
Fairness == \A u \in Users : WF_vars(Step(u))

Spec == Safety /\ Fairness

-----------------------------------------------------------------------------
AtGate(u) == pc[u] \in {"poll", "budget", "tick", "put", "open", "spent"}

\* the step in which u leaves the gate under the warning
WarnedNow(u) == pc[u] \in {"open", "spent"} /\ pc'[u] = "row" /\ left'[u] = "warned"

(***************************************************************************)
(* A user that finds the gate of WAITFORNUSERS open does so only after at  *)
(* least N COUNTTHREADS rows were completed: the unlocked counter errs     *)
(* towards waiting, never towards starting the load early.                 *)
(***************************************************************************)
GateNeedsUsers ==
    \A u \in Users : (pc[u] = "open" \/ left[u] = "met") => counted >= N

(***************************************************************************)
(* The shared counter is exact as long as no two COUNTTHREADS rows         *)
(* overlap: the lost update needs a second thread between the read and the *)
(* write of parallelThreads++.                                             *)
(***************************************************************************)
SerialCountsExact == ~overlapped => parallelThreads = counted

(***************************************************************************)
(* Every user leaves every WAITFORNUSERS, however many of the users it     *)
(* waits for have failed and although ticks of wait_count are lost too.    *)
(***************************************************************************)
GateIsLeft == \A u \in Users : AtGate(u) ~> ~AtGate(u)

(***************************************************************************)
(* What the warning itself says: "One or more threads failed and stopped   *)
(* execution".  It is printed because a thread failed, or at least because *)
(* one had not counted yet.                                                *)
(***************************************************************************)
WarningMeansFailure ==
    [][\A u \in Users :
         WarnedNow(u) => (counted < N \/ \E v \in Users : pc[v] = "failed")]_vars

=============================================================================
