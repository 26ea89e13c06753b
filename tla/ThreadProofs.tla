------------------------------ MODULE ThreadProofs ------------------------------
(***************************************************************************)
(* Proofs about what test threads share in static fields: the counter of   *)
(* UserBarrier, for every set of users, every script, every number N of    *)
(* users to wait for and every budget of polls; and the text of            *)
(* MacroReplace, which with one test thread implements PrivateReplace,     *)
(* whatever the texts, the macros and their values are.                    *)
(***************************************************************************)
EXTENDS UserBarrier, MacroReplace, TLAPS

-----------------------------------------------------------------------------
(* Waiting for other users                                                 *)

\* no count is ever invented: neither the counter nor a value on its way
\* back to it exceeds the rows that were completed
CountBound ==
    /\ parallelThreads <= counted
    /\ \A u \in Users : pc[u] = "add" => held[u] <= counted

\* without an overlap there is at most one value on its way back, and it is
\* the counter's
SerialInv ==
    ~overlapped =>
        /\ parallelThreads = counted
        /\ \A u \in Users : pc[u] = "add" =>
               /\ held[u] = parallelThreads
               /\ \A v \in Users : pc[v] = "add" => v = u

IInv == TypeOK /\ CountBound /\ GateNeedsUsers /\ SerialInv

(***************************************************************************)
(* The counters, rows and places of every thread keep their types.         *)
(***************************************************************************)
LEMMA TypeStep == TypeOK /\ [Next]_vars => TypeOK'
<1> SUFFICES ASSUME TypeOK, [Next]_vars
             PROVE  TypeOK'
    OBVIOUS
<1> USE DEF TypeOK, PCs, Exits, NextRow
<1>1. ASSUME NEW u \in Users, ReadCount(u)
      PROVE  TypeOK'
    BY <1>1 DEF ReadCount
<1>2. ASSUME NEW u \in Users, WriteCount(u)
      PROVE  TypeOK'
    BY <1>2 DEF WriteCount
<1>3. ASSUME NEW u \in Users, EnterGate(u)
      PROVE  TypeOK'
    BY <1>3 DEF EnterGate
<1>4. ASSUME NEW u \in Users, PollUsers(u)
      PROVE  TypeOK'
    BY <1>4 DEF PollUsers
<1>5. ASSUME NEW u \in Users, PollBudget(u)
      PROVE  TypeOK'
    BY <1>5 DEF PollBudget
<1>6. ASSUME NEW u \in Users, ReadTick(u)
      PROVE  TypeOK'
    BY <1>6 DEF ReadTick
<1>7. ASSUME NEW u \in Users, WriteTick(u)
      PROVE  TypeOK'
    BY <1>7 DEF WriteTick
<1>8. ASSUME NEW u \in Users, LeaveGate(u)
      PROVE  TypeOK'
    BY <1>8 DEF LeaveGate
<1>9. ASSUME NEW u \in Users, Fail(u)
      PROVE  TypeOK'
    BY <1>9 DEF Fail
<1>10. CASE UNCHANGED vars
    BY <1>10 DEF vars
<1> QED BY <1>1, <1>2, <1>3, <1>4, <1>5, <1>6, <1>7, <1>8, <1>9, <1>10
        DEF Next, Step

(***************************************************************************)
(* Only WriteCount disturbs the bound, and it raises both sides.           *)
(***************************************************************************)
LEMMA CountStep == TypeOK /\ CountBound /\ [Next]_vars => CountBound'
<1> SUFFICES ASSUME TypeOK, CountBound, [Next]_vars
             PROVE  CountBound'
    OBVIOUS
<1> USE DEF TypeOK, CountBound, NextRow
<1>1. ASSUME NEW u \in Users, ReadCount(u)
      PROVE  CountBound'
    BY <1>1 DEF ReadCount
<1>2. ASSUME NEW u \in Users, WriteCount(u)
      PROVE  CountBound'
  <2>1. parallelThreads' <= counted'
      BY <1>2 DEF WriteCount
  <2>2. \A v \in Users : pc'[v] = "add" => held'[v] <= counted'
      BY <1>2 DEF WriteCount
  <2> QED BY <2>1, <2>2
<1>3. ASSUME NEW u \in Users, EnterGate(u) \/ PollUsers(u) \/ PollBudget(u) \/ Fail(u)
      PROVE  CountBound'
    BY <1>3 DEF EnterGate, PollUsers, PollBudget, Fail
<1>4. ASSUME NEW u \in Users, ReadTick(u) \/ WriteTick(u) \/ LeaveGate(u)
      PROVE  CountBound'
    BY <1>4 DEF ReadTick, WriteTick, LeaveGate
<1>5. CASE UNCHANGED vars
    BY <1>5 DEF vars
<1> QED BY <1>1, <1>2, <1>3, <1>4, <1>5 DEF Next, Step

(***************************************************************************)
(* PollUsers opens the gate only on a counter of at least N, which the     *)
(* bound carries over to the rows completed; these never get fewer.        *)
(***************************************************************************)
LEMMA GateStep ==
    TypeOK /\ CountBound /\ GateNeedsUsers /\ [Next]_vars => GateNeedsUsers'
<1> SUFFICES ASSUME TypeOK, CountBound, GateNeedsUsers, [Next]_vars
             PROVE  GateNeedsUsers'
    OBVIOUS
<1> USE BarrierAssumption DEF TypeOK, GateNeedsUsers, NextRow
<1>1. ASSUME NEW u \in Users, ReadCount(u) \/ WriteCount(u)
      PROVE  GateNeedsUsers'
    BY <1>1 DEF ReadCount, WriteCount
<1>2. ASSUME NEW u \in Users, PollUsers(u)
      PROVE  GateNeedsUsers'
  <2>1. GateOpen => counted >= N
      BY DEF CountBound, GateOpen
  <2> QED BY <1>2, <2>1 DEF PollUsers
<1>3. ASSUME NEW u \in Users, LeaveGate(u)
      PROVE  GateNeedsUsers'
    BY <1>3 DEF LeaveGate
<1>4. ASSUME NEW u \in Users, EnterGate(u) \/ PollBudget(u) \/ Fail(u)
      PROVE  GateNeedsUsers'
    BY <1>4 DEF EnterGate, PollBudget, Fail
<1>5. ASSUME NEW u \in Users, ReadTick(u) \/ WriteTick(u)
      PROVE  GateNeedsUsers'
    BY <1>5 DEF ReadTick, WriteTick
<1>6. CASE UNCHANGED vars
    BY <1>6 DEF vars
<1> QED BY <1>1, <1>2, <1>3, <1>4, <1>5, <1>6 DEF Next, Step

(***************************************************************************)
(* ReadCount keeps the flag down only when no other thread is between its  *)
(* read and its write.                                                     *)
(***************************************************************************)
LEMMA SerialStep == TypeOK /\ SerialInv /\ [Next]_vars => SerialInv'
<1> SUFFICES ASSUME TypeOK, SerialInv, [Next]_vars
             PROVE  SerialInv'
    OBVIOUS
<1> USE DEF TypeOK, SerialInv, NextRow
<1>1. ASSUME NEW u \in Users, ReadCount(u)
      PROVE  SerialInv'
  <2> SUFFICES ASSUME ~overlapped'
               PROVE  /\ parallelThreads' = counted'
                      /\ \A v \in Users : pc'[v] = "add" =>
                            /\ held'[v] = parallelThreads'
                            /\ \A w \in Users : pc'[w] = "add" => w = v
      OBVIOUS
  <2>1. ~overlapped /\ \A v \in Users : pc[v] # "add"
      BY <1>1 DEF ReadCount
  <2>2. \A v \in Users : pc'[v] = "add" => v = u
      BY <1>1, <2>1 DEF ReadCount
  <2> QED BY <1>1, <2>1, <2>2 DEF ReadCount
<1>2. ASSUME NEW u \in Users, WriteCount(u)
      PROVE  SerialInv'
    BY <1>2 DEF WriteCount
<1>3. ASSUME NEW u \in Users, EnterGate(u) \/ PollUsers(u) \/ PollBudget(u) \/ Fail(u)
      PROVE  SerialInv'
    BY <1>3 DEF EnterGate, PollUsers, PollBudget, Fail
<1>4. ASSUME NEW u \in Users, ReadTick(u) \/ WriteTick(u) \/ LeaveGate(u)
      PROVE  SerialInv'
    BY <1>4 DEF ReadTick, WriteTick, LeaveGate
<1>5. CASE UNCHANGED vars
    BY <1>5 DEF vars
<1> QED BY <1>1, <1>2, <1>3, <1>4, <1>5 DEF Next, Step

LEMMA IInvHolds == Spec => []IInv
<1>1. Init => IInv
  <2>1. ASSUME Init
        PROVE  TypeOK
    <3>1. parallelThreads \in Nat /\ wait_count \in Nat /\ counted \in Nat
        BY <2>1 DEF Init
    <3>2. row \in [Users -> Nat \ {0}] /\ held \in [Users -> Nat]
        BY <2>1 DEF Init
    <3>3. pc \in [Users -> PCs] /\ left \in [Users -> Exits]
        BY <2>1 DEF Init, PCs, Exits
    <3>4. overlapped \in BOOLEAN
        BY <2>1, Zenon DEF Init
    <3> QED BY <3>1, <3>2, <3>3, <3>4 DEF TypeOK
  <2>2. Init => CountBound /\ SerialInv
      BY DEF Init, CountBound, SerialInv
  <2>3. Init => GateNeedsUsers
      BY DEF Init, GateNeedsUsers
  <2> QED BY <2>1, <2>2, <2>3 DEF IInv
<1>2. IInv /\ [Next]_vars => IInv'
    BY TypeStep, CountStep, GateStep, SerialStep DEF IInv
<1> QED BY <1>1, <1>2, PTL DEF Spec, Safety

(***************************************************************************)
(* Type correctness of the two counters and the threads' places.           *)
(***************************************************************************)
THEOREM TypeCorrect == Spec => []TypeOK
<1>1. IInv => TypeOK
    BY DEF IInv
<1> QED BY <1>1, IInvHolds, PTL

(***************************************************************************)
(* The gate of WAITFORNUSERS never opens on fewer than N completed         *)
(* COUNTTHREADS rows, in spite of the unlocked counter.                    *)
(***************************************************************************)
THEOREM GateSafe == Spec => []GateNeedsUsers
<1>1. IInv => GateNeedsUsers
    BY DEF IInv
<1> QED BY <1>1, IInvHolds, PTL

(***************************************************************************)
(* Counting one thread at a time loses nothing.                            *)
(***************************************************************************)
THEOREM SerialCounting == Spec => []SerialCountsExact
<1>1. IInv => SerialCountsExact
    BY DEF IInv, SerialInv, SerialCountsExact
<1> QED BY <1>1, IInvHolds, PTL

-----------------------------------------------------------------------------
(* Macro replacement                                                       *)

OneThread == \A t, u \in Threads : t = u

\* the functions the step lemma needs, without the contents of the texts
Shape ==
    /\ phase \in [Threads -> {"idle", "scan", "nested", "unwind", "overflow"}]
    /\ arg = [t \in Threads |-> arg[t]]
    /\ depth = [t \in Threads |-> depth[t]]
    /\ result = [t \in Threads |-> result[t]]

\* inner calls work on the text in the static field, also on the way back
UnwindInv ==
    \A t \in Threads :
        /\ (phase[t] = "unwind" \/ (phase[t] = "scan" /\ depth[t] # 0)) => replacedString = arg[t]
        /\ phase[t] = "unwind" => ~CanReplace(t, arg[t])

RInv == Shape /\ UnwindInv

LEMMA RInvStep ==
    ASSUME OneThread, RInv, [MacroNext]_macrovars
    PROVE  RInv'
<1> USE DEF OneThread, RInv, Shape, UnwindInv
<1>1. ASSUME NEW t \in Threads, Call(t)
      PROVE  RInv'
    BY <1>1 DEF Call
<1>2. ASSUME NEW t \in Threads, ReturnArg(t)
      PROVE  RInv'
  <2>1. Shape'
      BY <1>2 DEF ReturnArg
  <2>2. UnwindInv'
      BY <1>2 DEF ReturnArg
  <2> QED BY <2>1, <2>2
<1>3. ASSUME NEW t \in Threads, Substitute(t)
      PROVE  RInv'
    BY <1>3 DEF Substitute
<1>4. ASSUME NEW t \in Threads, Recurse(t)
      PROVE  RInv'
    BY <1>4 DEF Recurse
<1>5. ASSUME NEW t \in Threads, Unwind(t)
      PROVE  RInv'
    BY <1>5 DEF Unwind
<1>6. CASE UNCHANGED macrovars
    BY <1>6 DEF macrovars
<1> QED BY <1>1, <1>2, <1>3, <1>4, <1>5, <1>6 DEF MacroNext, MacroStep

(***************************************************************************)
(* Every step of the program is a step of PrivateReplace on the text that  *)
(* CallText names, or leaves it alone.                                     *)
(***************************************************************************)
LEMMA StepRefines ==
    ASSUME OneThread, RInv, [MacroNext]_macrovars
    PROVE  [Private!Next]_(Private!vars)
<1> USE DEF OneThread, RInv, Shape
<1> DEFINE T == [t \in Threads |-> CallText(t)]
           M == [t \in Threads |-> CallMode(t)]
<1>1. ASSUME NEW t \in Threads, Call(t)
      PROVE  Private!Call(t)
  <2>1. M[t] # "busy" /\ M' = [M EXCEPT ![t] = "busy"]
      BY <1>1 DEF Call, CallMode
  <2>2. \E x \in Args[t] : T' = [T EXCEPT ![t] = x]
      BY <1>1 DEF Call, CallText
  <2>3. result' = [result EXCEPT ![t] = Null]
      BY <1>1 DEF Call
  <2> QED BY <2>1, <2>2, <2>3 DEF Private!Call
<1>2. ASSUME NEW t \in Threads, ReturnArg(t), depth[t] = 0
      PROVE  Private!Return(t)
  <2>1. M[t] = "busy" /\ M' = [M EXCEPT ![t] = "idle"]
      BY <1>2 DEF ReturnArg, CallMode
  <2>2. T[t] = arg[t] /\ T' = T
      BY <1>2 DEF ReturnArg, CallText
  <2>3. ~CanReplace(t, arg[t]) /\ result' = [result EXCEPT ![t] = arg[t]]
      BY <1>2 DEF ReturnArg
  <2> QED BY <2>1, <2>2, <2>3 DEF Private!Return
<1>3. ASSUME NEW t \in Threads, ReturnArg(t), depth[t] # 0
      PROVE  UNCHANGED Private!vars
  <2>1. M' = M /\ T' = T
      BY <1>3 DEF ReturnArg, CallMode, CallText
  <2> QED BY <1>3, <2>1 DEF ReturnArg, Private!vars
<1>4. ASSUME NEW t \in Threads, Substitute(t)
      PROVE  Private!Rewrite(t)
  <2>1. M[t] = "busy" /\ M' = M
      BY <1>4 DEF Substitute, CallMode
  <2>2. T[t] = arg[t] /\ T' = [T EXCEPT ![t] = Replaced(t, arg[t])]
      BY <1>4 DEF Substitute, CallText
  <2>3. CanReplace(t, arg[t]) /\ UNCHANGED result
      BY <1>4 DEF Substitute
  <2> QED BY <2>1, <2>2, <2>3 DEF Private!Rewrite
<1>5. ASSUME NEW t \in Threads, Recurse(t), depth[t] < StackLimit
      PROVE  UNCHANGED Private!vars
  <2>1. M' = M /\ T' = T
      BY <1>5 DEF Recurse, CallMode, CallText
  <2> QED BY <1>5, <2>1 DEF Recurse, Private!vars
<1>6. ASSUME NEW t \in Threads, Recurse(t), ~(depth[t] < StackLimit)
      PROVE  Private!Overflow(t)
  <2>1. M[t] = "busy" /\ M' = [M EXCEPT ![t] = "overflow"] /\ T' = T
      BY <1>6 DEF Recurse, CallMode, CallText
  <2> QED BY <1>6, <2>1 DEF Recurse, Private!Overflow
<1>7. ASSUME NEW t \in Threads, Unwind(t)
      PROVE  Private!Return(t)
  <2>1. M[t] = "busy" /\ M' = [M EXCEPT ![t] = "idle"]
      BY <1>7 DEF Unwind, CallMode
  <2>2. T[t] = arg[t] /\ T' = T
      BY <1>7 DEF Unwind, CallText
  <2>3. ~CanReplace(t, arg[t]) /\ result' = [result EXCEPT ![t] = arg[t]]
      BY <1>7 DEF Unwind, UnwindInv
  <2> QED BY <2>1, <2>2, <2>3 DEF Private!Return
<1>8. CASE UNCHANGED macrovars
    BY <1>8 DEF macrovars, Private!vars, CallText, CallMode
<1> QED BY <1>1, <1>2, <1>3, <1>4, <1>5, <1>6, <1>7, <1>8
        DEF MacroNext, MacroStep, Private!Next

(***************************************************************************)
(* With one thread, replace works as if each call had its text to itself.  *)
(***************************************************************************)
THEOREM SingleThreadRefines ==
    ASSUME OneThread
    PROVE  MacroSpec => ImplementsPrivate
<1>1. MacroInit => RInv
    BY DEF MacroInit, RInv, Shape, UnwindInv
<1>2. RInv /\ [MacroNext]_macrovars => RInv'
    BY OneThread, RInvStep
<1>3. MacroInit => Private!Init
    BY DEF MacroInit, Private!Init, CallText, CallMode
<1>4. RInv /\ [MacroNext]_macrovars => [Private!Next]_(Private!vars)
    BY OneThread, StepRefines
<1> QED BY <1>1, <1>2, <1>3, <1>4, PTL DEF MacroSpec, ImplementsPrivate, Private!Spec

=============================================================================
