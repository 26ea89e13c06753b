-------------------------------- MODULE Trigger --------------------------------
(***************************************************************************)
(* The trigger tables of dsniff (trigger.c): four sorted arrays of fixed   *)
(* size that say which decoder gets the packets of an IP protocol, of a    *)
(* UDP or TCP port, or of an RPC program.  A negative number stands for    *)
(* the source port, that is for what a server answers.                     *)
(*                                                                         *)
(* An array and its counter are a set of triggers here: the order is that  *)
(* of the numbers, the highest first, qsort restores it after every change *)
(* and bsearch looks a number up.  A pointer into the array is a place in  *)
(* that order, and what it points at moves when a number is added.         *)
(***************************************************************************)
EXTENDS Integers, FiniteSets

CONSTANTS
    Decodes,    \* the names of decodes[] in decode.c
    Capacity,   \* Capacity[p]: the size of the array p_triggers
    NoName      \* NULL instead of a name or of a trigger

Protos == {"ip", "udp", "tcp", "rpc"}

ASSUME TriggerAssumption ==
    /\ NoName \notin Decodes
    /\ Capacity \in [Protos -> Nat]

VARIABLE triggers       \* triggers[p]: the array p_triggers

\* getdecodebyname: the name when decodes[] has it
GetDecodeByName(name) == IF name \in Decodes THEN name ELSE NoName

\* bsearch in p_triggers: the decoder of num, NoName when it has none
Lookup(table, p, num) ==
    IF \E t \in table[p] : t.num = num
    THEN (CHOOSE t \in table[p] : t.num = num).decode
    ELSE NoName

\* The place that a look-up of num points at, 0 for NULL
Pointer(table, p, num) ==
    IF \E t \in table[p] : t.num = num
    THEN Cardinality({t \in table[p] : t.num >= num})
    ELSE 0

\* What the trigger at a place decodes
Pointed(table, p, place) ==
    IF place = 0 THEN NoName
    ELSE (CHOOSE t \in table[p] : Pointer(table, p, t.num) = place).decode

\* mutant: the look-up for a trigger that is already there left out
TriggerSetAgain(table, p, num, name) ==
    IF \/ p \notin Protos
       \/ GetDecodeByName(name) = NoName
       \/ Cardinality(table[p]) = Capacity[p]
    THEN table
    ELSE [table EXCEPT ![p] = @ \cup {[num |-> num, decode |-> name]}]

\* trigger_set_ip, _udp, _tcp and _rpc, and trigger_set that picks one: a
\* trigger that is there stays, and a full table takes no other
TriggerSet(table, p, num, name) ==
    IF \/ p \notin Protos
       \/ GetDecodeByName(name) = NoName
       \/ \E t \in table[p] : t.num = num
       \/ Cardinality(table[p]) = Capacity[p]
    THEN table
    ELSE [table EXCEPT ![p] = @ \cup {[num |-> num, decode |-> name]}]

\* The services whose answers are decoded too ("XXX - hack")
AnswerServices == {"portmap", "mountd", "yppasswd"}

\* trigger_set_magic: the port learns the service that magic_match named
TriggerSetMagic(table, p, num, name) ==
    LET learned == TriggerSet(table, p, num, name) IN
    IF name = NoName THEN table
    ELSE IF name \in AnswerServices
    THEN TriggerSet(learned, p, 0 - num, name)
    ELSE learned

\* trigger_rpc: a port learns the service of the RPC program behind it
TriggerRpc(table, program, p, port) ==
    IF p \in {"udp", "tcp"}
    THEN TriggerSet(table, p, port, Lookup(table, "rpc", program))
    ELSE table

\* trigger_dump: the lines of dsniff.services, one per trigger
TriggerDump(table) ==
    UNION {{[proto |-> p, num |-> t.num, name |-> t.decode] : t \in table[p]} : p \in Protos}
=============================================================================
