-------------------------------- MODULE XidMap --------------------------------
(***************************************************************************)
(* The map of RPC transaction ids of rpc.c: a ring of the last calls that  *)
(* decode_portmap, decode_mountd and decode_ypserv have seen, in which the *)
(* reply to a call is looked up by its xid, from the slot of the last      *)
(* success on.  An answered call is cleared.                               *)
(*                                                                         *)
(* The operators take and return the map, so that one step of dsniff can   *)
(* use it together with the rest of the program; the specification below   *)
(* is the map alone, used by anyone in any order.                          *)
(***************************************************************************)
EXTENDS Integers, Sequences

CONSTANTS
    XIDMAPSIZE,     \* the number of slots, 64 in the source
    Xids,           \* transaction ids; 0 is what a cleared slot holds
    Calls,          \* what a call leaves in its slot besides the xid
    MaxEntered      \* bound: calls entered in a behaviour of XidSpec

ASSUME XidMapAssumption ==
    /\ XIDMAPSIZE \in Nat \ {0}
    /\ Xids \subseteq Nat \ {0}
    /\ MaxEntered \in Nat

VARIABLES
    xid_map,        \* [maps, next, hint]: xid_maps, xid_map_next, xid_map_hint
    entered         \* history: the calls entered so far, in order

xvars == <<xid_map, entered>>

Slots == 0 .. XIDMAPSIZE - 1

\* What memset leaves of a slot
Cleared == [xid |-> 0]

Entry == [xid : Xids, call : Calls]

EmptyMap == [maps |-> [i \in Slots |-> Cleared], next |-> 0, hint |-> 0]

\* mutant: the index is put back one slot late
AfterLate(i) == IF i + 1 >= XIDMAPSIZE THEN 1 % XIDMAPSIZE ELSE i + 1

\* ++xid_map_next, back to 0 at the end of the array
After(i) == IF i + 1 >= XIDMAPSIZE THEN 0 ELSE i + 1

\* xid_map_enter
XidMapEnter(map, xid, call) ==
    [map EXCEPT !.maps[map.next] = [xid |-> xid, call |-> call],
                !.next = After(map.next)]

\* How many slots after the hint the search meets slot i
Distance(map, i) == IF i >= map.hint THEN i - map.hint ELSE i - map.hint + XIDMAPSIZE

Holding(map, xid) == {i \in Slots : map.maps[i].xid = xid}

\* xid_map_find: the first slot from the hint on that has the xid
Found(map, xid) ==
    CHOOSE i \in Holding(map, xid) :
        \A j \in Holding(map, xid) : Distance(map, i) <= Distance(map, j)

\* A reply is looked up: the hint moves to its slot, which is cleared after it
\* has been used (memset in the decoders)
XidMapAnswer(map, xid) ==
    LET i == Found(map, xid) IN
    [map EXCEPT !.hint = i, !.maps[i] = Cleared]

XidInit ==
    /\ xid_map = EmptyMap
    /\ entered = <<>>

Enter(xid, call) ==
    /\ Len(entered) < MaxEntered
    /\ xid_map' = XidMapEnter(xid_map, xid, call)
    /\ entered' = Append(entered, [xid |-> xid, call |-> call])

AnswerXid(xid) ==
    /\ Holding(xid_map, xid) # {}
    /\ xid_map' = XidMapAnswer(xid_map, xid)
    /\ UNCHANGED entered

XidNext ==
    \/ \E xid \in Xids, call \in Calls : Enter(xid, call)
    \/ \E xid \in Xids : AnswerXid(xid)

XidSpec == XidInit /\ [][XidNext]_xvars

-----------------------------------------------------------------------------
\* The slot of the call entered d calls ago; d = 1 is the last one
SlotOf(d) ==
    IF xid_map.next >= d THEN xid_map.next - d ELSE xid_map.next - d + XIDMAPSIZE

XidTypeOK ==
    /\ xid_map \in [maps : [Slots -> Entry \cup {Cleared}], next : Slots, hint : Slots]
    /\ entered \in Seq(Entry)

\* The ring holds the last XIDMAPSIZE calls, each in the slot of its turn or
\* cleared because it was answered; a slot no call has reached is empty: no
\* call is overwritten while a later one is in a slot still to come.
RingHoldsTheLast ==
    \A d \in 1 .. XIDMAPSIZE :
        xid_map.maps[SlotOf(d)] \in
            IF d <= Len(entered) THEN {entered[Len(entered) + 1 - d], Cleared} ELSE {Cleared}
=============================================================================
