------------------------------ MODULE DsniffProofs ------------------------------
(***************************************************************************)
(* Proofs about dsniff: what it was started with, what is on the wire and  *)
(* how often it is started again may be anything.                          *)
(*                                                                         *)
(* The sessions: only a decoder that has found something, and the next     *)
(* start, touch what is saved, heard and printed, so every action is one   *)
(* of the three steps of OutStep.                                          *)
(*                                                                         *)
(* The tables: every way in which a port is learned ends in TriggerSet,    *)
(* which keeps a table well-formed; so do the operators built from it and  *)
(* the decoders, which take a table and return one.                        *)
(*                                                                         *)
(* The connections: DecodedOnce does not say why a second decoding cannot  *)
(* come.  StreamsFit does: what is collected was not decoded, and what is  *)
(* not collected gets no bytes.                                            *)
(*                                                                         *)
(* The ring of calls: the last 128 calls are in the 128 slots before the   *)
(* next one, so an older call is the only one that a new one drops.        *)
(*                                                                         *)
(* The causes: a port is in the tables for a line of a file, for what      *)
(* magic named, or for the call in the slot that the reply was found in;   *)
(* LearnInv carries them through the decoders.                             *)
(*                                                                         *)
(* The dump: the tables while the -t list is loaded are the same at every  *)
(* start (TraceIsUnique), so they are within what was dumped, and DumpInv  *)
(* keeps the lines of the dump in the tables or still to come.             *)
(*                                                                         *)
(* The half-duplex streams: in an array in order bsearch finds what is     *)
(* there, so a segment it does not find has another number than the last   *)
(* one, and an array that stays in order has no number twice.              *)
(***************************************************************************)
EXTENDS Dsniff, Filesnarf, FiniteSetTheorems, WellFoundedInduction, TLAPS

-----------------------------------------------------------------------------
(* Saved sessions                                                          *)

OutStep ==
    \/ UNCHANGED outVars
    \/ \E rec : Records(rec)
    \/ Restart

LEMMA SetupStays ==
    ASSUME Next
    PROVE  setup' = setup
<1>1. CASE LoadTrigger \/ StartListening \/ Tick \/ Alarm \/ Hangup \/ Die \/ Restart
  BY <1>1 DEF LoadTrigger, StartListening, Tick, Alarm, Hangup, Die, Restart, runVars
<1>2. ASSUME NEW p, TriggerIp(p) \/ TriggerUdp(p) \/ TriggerTcpRaw(p) PROVE setup' = setup
  BY <1>2 DEF TriggerIp, TriggerUdp, TriggerTcpRaw, runVars
<1>3. ASSUME NEW s, TcpEstablished(s) \/ (\E dir, n : TcpData(s, dir, n)) \/ TcpClosed(s) \/ TcpClosedAnswers(s)
      PROVE  setup' = setup
  BY <1>3 DEF TcpEstablished, TcpData, TcpClosed, TcpClosedAnswers, runVars
<1>4. ASSUME NEW b, SweepNext(b) \/ \E i : SweepNode(b, i) PROVE setup' = setup
  BY <1>4 DEF SweepNext, SweepNode, runVars
<1> QED BY <1>1, <1>2, <1>3, <1>4 DEF Next, Sweep

LEMMA HalfOut ==
    ASSUME NEW s, NEW name, NEW load, TriggerTcpHalf(s, name, load)
    PROVE  OutStep
  BY DEF TriggerTcpHalf, OutStep, outVars

LEMMA HandOverOut ==
    ASSUME NEW from, NEW chosen, NEW iov, HandOver(from, chosen, iov)
    PROVE  OutStep
  BY DEF HandOver, OutStep, outVars

LEMMA NextOut == Next => OutStep
<1> SUFFICES ASSUME Next PROVE OutStep
  OBVIOUS
<1>1. CASE LoadTrigger \/ StartListening \/ Tick \/ Alarm \/ Hangup \/ Die
  BY <1>1 DEF LoadTrigger, StartListening, Tick, Alarm, Hangup, Die, OutStep
<1>2. CASE Restart
  BY <1>2 DEF OutStep
<1>3. ASSUME NEW p, TriggerIp(p) PROVE OutStep
  BY <1>3 DEF TriggerIp, OutStep
<1>4. ASSUME NEW p, TriggerUdp(p) PROVE OutStep
  BY <1>4 DEF TriggerUdp, OutStep
<1>5. ASSUME NEW p, TriggerTcpRaw(p) PROVE OutStep
  BY <1>5, HandOverOut DEF TriggerTcpRaw, OutStep
<1>6. ASSUME NEW s, TcpEstablished(s) PROVE OutStep
  BY <1>6 DEF TcpEstablished, OutStep
<1>7. ASSUME NEW s, NEW dir, NEW n, TcpData(s, dir, n) PROVE OutStep
  BY <1>7, HalfOut DEF TcpData, OutStep
<1>8. ASSUME NEW s, TcpClosed(s) \/ TcpClosedAnswers(s) PROVE OutStep
  BY <1>8, HalfOut DEF TcpClosed, TcpClosedAnswers, HalfEnds, OutStep
<1>9. ASSUME NEW b, NEW i, SweepNode(b, i) PROVE OutStep
  BY <1>9, HandOverOut DEF SweepNode, OutStep
<1>10. ASSUME NEW b, SweepNext(b) PROVE OutStep
  BY <1>10 DEF SweepNext, OutStep
<1> QED BY <1>1, <1>2, <1>3, <1>4, <1>5, <1>6, <1>7, <1>8, <1>9, <1>10 DEF Next, Sweep

\* A session of which one with the same key is saved already is not saved again,
\* and what does not become part of the database has a reason
LEMMA RecordsKept ==
    ASSUME SessionsAreKept, NEW rec, Records(rec)
    PROVE  SessionsAreKept'
<1>1. CASE rec.data = NoText
  BY <1>1 DEF Records, outVars, SessionsAreKept, SavedOnce, HeardIsKept
<1>2. CASE rec.data # NoText
  <2>1. db' = RecordSave(db, rec) /\ heard' = heard \cup {rec} /\ printed \subseteq printed'
    BY <1>2 DEF Records
  <2>2. db \subseteq db' /\ db' \subseteq db \cup {rec}
    BY <2>1 DEF RecordSave, Put
  <2>3. SavedOnce'
    <3>1. CASE db' = db
      BY <3>1 DEF SessionsAreKept, SavedOnce
    <3>2. CASE db' # db
      <4>1. \A old \in db : KeyOf(old) # KeyOf(rec)
        BY <2>1, <3>2 DEF RecordSave, Put
      <4>2. \A old \in db : ~(old.src = rec.src /\ old.dst = rec.dst /\ old.name = rec.name /\ old.data = rec.data)
        BY <4>1 DEF KeyOf
      <4> QED BY <2>2, <4>2 DEF SessionsAreKept, SavedOnce
    <3> QED BY <3>1, <3>2
  <2>4. HeardIsKept'
    <3>1. \A r \in heard : \/ r \in printed'
                           \/ r.data \in TooLong
                           \/ \E kept \in db' : KeyOf(kept) = KeyOf(r)
      BY <2>1, <2>2 DEF SessionsAreKept, HeardIsKept
    <3>2. rec.data \in TooLong \/ \E kept \in db' : KeyOf(kept) = KeyOf(rec)
      BY <2>1 DEF RecordSave, Put, XdrRec
    <3> QED BY <2>1, <3>1, <3>2 DEF HeardIsKept
  <2> QED BY <2>3, <2>4 DEF SessionsAreKept
<1> QED BY <1>1, <1>2

\* However often a session is heard, by whatever decoder, and however often dsniff is
\* started again: it is saved once, and one that is neither printed nor saved did not
\* fit the buffer (record, record_save, record_init)
THEOREM SessionsKept == Spec => []SessionsAreKept
<1>1. Init => SessionsAreKept
  BY DEF Init, SessionsAreKept, SavedOnce, HeardIsKept
<1>2. SessionsAreKept /\ [Next]_vars => SessionsAreKept'
  <2> SUFFICES ASSUME SessionsAreKept, [Next]_vars PROVE SessionsAreKept'
    OBVIOUS
  <2>1. CASE UNCHANGED outVars
    BY <2>1 DEF outVars, SessionsAreKept, SavedOnce, HeardIsKept
  <2>2. ASSUME NEW rec, Records(rec) PROVE SessionsAreKept'
    BY <2>2, RecordsKept
  <2>3. CASE Restart
    BY <2>3 DEF Restart, RecordInit, SessionsAreKept, SavedOnce, HeardIsKept
  <2> QED BY <2>1, <2>2, <2>3, NextOut DEF OutStep, vars
<1> QED BY <1>1, <1>2, PTL DEF Spec

-----------------------------------------------------------------------------
(* Trigger tables                                                          *)

\* What one of the four arrays may hold: OneDecoderPerNumber needs to know also that
\* it is finite
ArrayOK(array, size) ==
    /\ IsFiniteSet(array)
    /\ \A t, u \in array : t.num = u.num => t = u
    /\ Cardinality(array) <= size

TableOK(table) ==
    /\ DOMAIN table = Protos
    /\ \A p \in Protos : ArrayOK(table[p], Capacity[p])

\* A new number in an array that is not full
LEMMA TriggerSetOK ==
    ASSUME NEW table, TableOK(table), NEW p, NEW num, NEW name
    PROVE  TableOK(TriggerSet(table, p, num, name))
<1> DEFINE new == [num |-> num, decode |-> name]
           next == TriggerSet(table, p, num, name)
<1>1. CASE next = table
  BY <1>1
<1>2. CASE next # table
  <2>1. /\ p \in Protos
        /\ \A t \in table[p] : t.num # num
        /\ Cardinality(table[p]) # Capacity[p]
        /\ next = [table EXCEPT ![p] = @ \cup {new}]
    BY <1>2 DEF TriggerSet
  <2>2. ArrayOK(table[p], Capacity[p])
    BY <2>1 DEF TableOK
  <2>3. /\ IsFiniteSet(table[p] \cup {new})
        /\ Cardinality(table[p] \cup {new}) = Cardinality(table[p]) + 1
    <3>1. new \notin table[p]
      BY <2>1
    <3> QED BY <2>2, <3>1, FS_AddElement DEF ArrayOK
  <2>4. Cardinality(table[p]) \in Nat /\ Capacity[p] \in Nat
    BY <2>1, <2>2, FS_CardinalityType, TriggerAssumption DEF ArrayOK
  <2>5. Cardinality(table[p] \cup {new}) <= Capacity[p]
    BY <2>1, <2>2, <2>3, <2>4 DEF ArrayOK
  <2>6. \A t, u \in table[p] \cup {new} : t.num = u.num => t = u
    BY <2>1, <2>2 DEF ArrayOK
  <2>7. ArrayOK(table[p] \cup {new}, Capacity[p])
    BY <2>3, <2>5, <2>6 DEF ArrayOK
  <2> HIDE DEF new, next
  <2>8. DOMAIN next = Protos
    BY <2>1 DEF TableOK
  <2>9. ASSUME NEW q \in Protos PROVE ArrayOK(next[q], Capacity[q])
    BY <2>1, <2>7 DEF TableOK
  <2>10. TableOK(next)
    BY <2>8, <2>9 DEF TableOK
  <2> QED BY <2>10 DEF next
<1> QED BY <1>1, <1>2

LEMMA TriggerSetMagicOK ==
    ASSUME NEW table, TableOK(table), NEW p, NEW num, NEW name
    PROVE  TableOK(TriggerSetMagic(table, p, num, name))
<1>1. TableOK(TriggerSet(table, p, num, name))
  BY TriggerSetOK
<1>2. TableOK(TriggerSet(TriggerSet(table, p, num, name), p, 0 - num, name))
  BY <1>1, TriggerSetOK
<1> QED BY <1>1, <1>2 DEF TriggerSetMagic

LEMMA TriggerRpcOK ==
    ASSUME NEW table, TableOK(table), NEW program, NEW p, NEW port
    PROVE  TableOK(TriggerRpc(table, program, p, port))
  BY TriggerSetOK DEF TriggerRpc

\* A decoder may only add what a portmapper has answered
LEMMA DecodeOK ==
    ASSUME NEW name, NEW table, TableOK(table), NEW load, NEW found \in Decode(name, table, load)
    PROVE  TableOK(found.triggers)
<1>1. ASSUME NEW call, NEW map, NEW calls, NEW text,
             found = Finding(TriggerRpc(TriggerRpc(table, call.program, call.proto, load.port),
                                        call.program, call.proto, 0 - load.port), map, calls, text)
      PROVE  TableOK(found.triggers)
  <2>1. TableOK(TriggerRpc(table, call.program, call.proto, load.port))
    BY TriggerRpcOK
  <2>2. TableOK(TriggerRpc(TriggerRpc(table, call.program, call.proto, load.port),
                           call.program, call.proto, 0 - load.port))
    BY <2>1, TriggerRpcOK
  <2> QED BY <1>1, <2>2 DEF Finding
<1>2. ASSUME NEW map, NEW calls, NEW text, found = Finding(table, map, calls, text)
      PROVE  TableOK(found.triggers)
  BY <1>2 DEF Finding
<1>3. CASE name = "portmap"
  BY <1>1, <1>2, <1>3 DEF Decode, DecodePortmap, Asks
<1>4. CASE name \in {"mountd", "ypserv"}
  BY <1>2, <1>4 DEF Decode, DecodeGranted, Asks
<1>5. CASE name \notin {"portmap", "mountd", "ypserv"}
  BY <1>2, <1>5 DEF Decode
<1> QED BY <1>3, <1>4, <1>5

LEMMA ChosenOK ==
    ASSUME NEW table, TableOK(table), NEW p, NEW sport, NEW dport, NEW load
    PROVE  TableOK(Chosen(table, p, sport, dport, load).triggers)
<1>1. TableOK(TriggerSetMagic(table, p, dport, MagicMatch(load)))
  BY TriggerSetMagicOK
<1> QED BY <1>1 DEF Chosen

LEMMA ChosenLateOK ==
    ASSUME TableOK(triggers), NEW dport, NEW load
    PROVE  TableOK(ChosenLate(dport, load).triggers)
<1>1. TableOK(TriggerSetMagic(triggers, "tcp", dport, MagicMatch(load)))
  BY TriggerSetMagicOK
<1> QED BY <1>1 DEF ChosenLate

\* The tables after the decoder that was chosen
LEMMA FoundOK ==
    ASSUME NEW name, NEW table, TableOK(table), NEW load, NEW found \in Decode(name, table, load), Learns(found)
    PROVE  TableOK(triggers')
  BY DecodeOK DEF Learns

LEMMA HalfOK ==
    ASSUME TableOK(triggers), NEW s, NEW name, NEW load, TriggerTcpHalf(s, name, load)
    PROVE  TableOK(triggers')
<1> DEFINE table == TriggerSetMagic(triggers, "tcp", Streams[s].dest, MagicMatch(load))
           chosen == IF name # NoName \/ MagicMatch(load) = NoName
                     THEN [name |-> name, triggers |-> triggers]
                     ELSE [name |-> Lookup(table, "tcp", Streams[s].dest), triggers |-> table]
<1>1. TableOK(chosen.triggers)
  <2>1. TableOK(table)
    BY TriggerSetMagicOK
  <2> HIDE DEF table
  <2> QED BY <2>1
<1>2. \/ triggers' = chosen.triggers
      \/ \E found \in Decode(chosen.name, chosen.triggers, load) : Learns(found)
  <2> HIDE DEF table
  <2>1. \/ triggers' = chosen.triggers
        \/ \E found \in Decode(chosen.name, chosen.triggers, load) : Learns(found)
    BY DEF TriggerTcpHalf, table
  <2> QED BY <2>1
<1> HIDE DEF chosen
<1> QED BY <1>1, <1>2, FoundOK

LEMMA HandOverOK ==
    ASSUME NEW from, NEW chosen, TableOK(chosen.triggers), NEW iov, HandOver(from, chosen, iov)
    PROVE  TableOK(triggers')
<1>1. \/ triggers' = chosen.triggers
      \/ \E found \in Decode(chosen.name, chosen.triggers, Joined(iov)) : Learns(found)
  BY DEF HandOver
<1> QED BY <1>1, FoundOK

LEMMA NextOK ==
    ASSUME TableOK(triggers), Next
    PROVE  TableOK(triggers')
<1>1. CASE StartListening \/ Tick \/ Alarm \/ Hangup \/ Die
  BY <1>1 DEF StartListening, Tick, Alarm, Hangup, Die, learnVars
<1>2. CASE LoadTrigger
  BY <1>2, TriggerSetOK DEF LoadTrigger
<1>3. CASE Restart
  <2>1. \A p \in Protos : ArrayOK({}, Capacity[p])
    BY TriggerAssumption, FS_EmptySet DEF ArrayOK
  <2> QED BY <1>3, <2>1 DEF Restart, NoTriggers, TableOK
<1>4. ASSUME NEW p, TriggerIp(p) PROVE TableOK(triggers')
  BY <1>4, FoundOK DEF TriggerIp, learnVars
<1>5. ASSUME NEW p, TriggerUdp(p) PROVE TableOK(triggers')
  <2> DEFINE chosen == Chosen(triggers, "udp", p.sport, p.dport, p.load)
  <2>1. TableOK(chosen.triggers)
    BY ChosenOK
  <2>2. \/ triggers' = triggers
        \/ triggers' = chosen.triggers
        \/ \E found \in Decode(chosen.name, chosen.triggers, p.load) : Learns(found)
    BY <1>5 DEF TriggerUdp, learnVars
  <2> HIDE DEF chosen
  <2> QED BY <2>1, <2>2, FoundOK
<1>6. ASSUME NEW p, TriggerTcpRaw(p) PROVE TableOK(triggers')
  <2> DEFINE Choice(iov) == Chosen(triggers, "tcp", p.sport, p.dport, Joined(iov))
  <2>1. \A iov : TableOK(Choice(iov).triggers)
    BY ChosenOK
  <2>2. triggers' = triggers \/ \E iov : HandOver(p, Choice(iov), iov)
    BY <1>6 DEF TriggerTcpRaw, learnVars
  <2> HIDE DEF Choice
  <2> QED BY <2>1, <2>2, HandOverOK
<1>7. ASSUME NEW s, TcpEstablished(s) PROVE TableOK(triggers')
  BY <1>7 DEF TcpEstablished, learnVars
<1>8. ASSUME NEW s, NEW dir, NEW n, TcpData(s, dir, n) PROVE TableOK(triggers')
  <2>1. triggers' = triggers \/ \E name, load : TriggerTcpHalf(s, name, load)
    BY <1>8 DEF TcpData, learnVars
  <2> QED BY <2>1, HalfOK
<1>9. ASSUME NEW s, TcpClosed(s) \/ TcpClosedAnswers(s) PROVE TableOK(triggers')
  <2>1. triggers' = triggers \/ \E name, load : TriggerTcpHalf(s, name, load)
    BY <1>9 DEF TcpClosed, TcpClosedAnswers, HalfEnds, learnVars
  <2> QED BY <2>1, HalfOK
<1>10. ASSUME NEW b, NEW i, SweepNode(b, i) PROVE TableOK(triggers')
  <2>1. \/ triggers' = triggers
        \/ \E from, dport, load, iov : HandOver(from, ChosenLate(dport, load), iov)
    BY <1>10 DEF SweepNode, learnVars
  <2>2. ASSUME NEW from, NEW dport, NEW load, NEW iov, HandOver(from, ChosenLate(dport, load), iov)
        PROVE  TableOK(triggers')
    BY <2>2, ChosenLateOK, HandOverOK
  <2> QED BY <2>1, <2>2
<1>11. ASSUME NEW b, SweepNext(b) PROVE TableOK(triggers')
  BY <1>11 DEF SweepNext, learnVars
<1> QED BY <1>1, <1>2, <1>3, <1>4, <1>5, <1>6, <1>7, <1>8, <1>9, <1>10, <1>11 DEF Next, Sweep

\* Whatever is loaded, recognised by magic or answered by a portmapper, in whatever
\* order: a number has one decoder, and no array is filled beyond its size (trigger_set)
THEOREM OneDecoder == Spec => []OneDecoderPerNumber
<1>1. Init => TableOK(triggers)
  <2>1. \A p \in Protos : ArrayOK({}, Capacity[p])
    BY TriggerAssumption, FS_EmptySet DEF ArrayOK
  <2> QED BY <2>1 DEF Init, NoTriggers, TableOK
<1>2. TableOK(triggers) /\ [Next]_vars => TableOK(triggers')
  <2> SUFFICES ASSUME TableOK(triggers), [Next]_vars PROVE TableOK(triggers')
    OBVIOUS
  <2>1. CASE UNCHANGED vars
    BY <2>1 DEF vars, learnVars
  <2> QED BY <2>1, NextOK
<1>3. TableOK(triggers) => OneDecoderPerNumber
  BY DEF TableOK, ArrayOK, OneDecoderPerNumber
<1>4. TableOK(triggers)' <=> TableOK(triggers')
  BY DEF TableOK, ArrayOK
<1> QED BY <1>1, <1>2, <1>3, <1>4, PTL DEF Spec

-----------------------------------------------------------------------------
(* The ring of RPC calls                                                   *)

\* RingHoldsTheLast about any map and any list of calls.  It is inductive with the
\* shapes of the two.  The hint is not in it: a search that starts elsewhere may
\* clear another slot that has the xid, and a slot may always be a cleared one.
SlotIn(map, d) == IF map.next >= d THEN map.next - d ELSE map.next - d + XIDMAPSIZE

Turn(calls, d) ==
    IF d <= Len(calls) THEN {calls[Len(calls) + 1 - d], Cleared} ELSE {Cleared}

RingOK(map, calls) ==
    /\ map.next \in Slots
    /\ DOMAIN map = {"maps", "next", "hint"}
    /\ DOMAIN map.maps = Slots
    /\ \E S : calls \in Seq(S)
    /\ \A d \in 1 .. XIDMAPSIZE : map.maps[SlotIn(map, d)] \in Turn(calls, d)

LEMMA EmptyRing == RingOK(EmptyMap, <<>>)
<1>1. EmptyMap.next \in Slots
  BY XidMapAssumption DEF EmptyMap, Slots
<1>2. \A d \in 1 .. XIDMAPSIZE : SlotIn(EmptyMap, d) \in Slots
  BY XidMapAssumption DEF EmptyMap, SlotIn, Slots
<1>3. \A d \in 1 .. XIDMAPSIZE : EmptyMap.maps[SlotIn(EmptyMap, d)] \in Turn(<<>>, d)
  BY <1>2, XidMapAssumption DEF EmptyMap, Turn
<1>4. <<>> \in Seq({})
  OBVIOUS
<1> QED BY <1>1, <1>3, <1>4 DEF EmptyMap, RingOK

\* The slot to be written next is that of the oldest call; every other call is
\* one step further back after it
LEMMA EnterKeepsRing ==
    ASSUME NEW map, NEW calls, RingOK(map, calls), NEW xid, NEW call
    PROVE  RingOK(XidMapEnter(map, xid, call), Append(calls, [xid |-> xid, call |-> call]))
<1> DEFINE new == [xid |-> xid, call |-> call]
           map1 == XidMapEnter(map, xid, call)
           calls1 == Append(calls, new)
<1>1. /\ map1.maps = [map.maps EXCEPT ![map.next] = new]
      /\ map1.next = After(map.next)
      /\ DOMAIN map1 = {"maps", "next", "hint"}
  BY DEF XidMapEnter, RingOK
<1>2. PICK S : calls \in Seq(S)
  BY DEF RingOK
<1>3. /\ calls1 \in Seq(S \cup {new})
      /\ Len(calls1) = Len(calls) + 1
      /\ calls1[Len(calls1)] = new
      /\ \A i \in 1 .. Len(calls) : calls1[i] = calls[i]
      /\ Len(calls) \in Nat
  <2>1. calls \in Seq(S \cup {new})
    BY <1>2
  <2> HIDE DEF new
  <2> QED BY <2>1
<1>4. map1.next \in Slots
  BY <1>1, XidMapAssumption DEF RingOK, After, Slots
<1> HIDE DEF map1, calls1, new
<1>5. ASSUME NEW d \in 1 .. XIDMAPSIZE
      PROVE  map1.maps[SlotIn(map1, d)] \in Turn(calls1, d)
  <2>1. CASE d = 1
    <3>1. SlotIn(map1, d) = map.next
      BY <1>1, <2>1, XidMapAssumption DEF RingOK, SlotIn, After, Slots
    <3>2. calls1[Len(calls1) + 1 - d] = new /\ d <= Len(calls1)
      BY <1>3, <2>1
    <3>3. map1.maps[map.next] = new
      BY <1>1 DEF RingOK
    <3> QED BY <3>1, <3>2, <3>3 DEF Turn
  <2>2. CASE d # 1
    <3>1. d - 1 \in 1 .. XIDMAPSIZE /\ d - 1 < XIDMAPSIZE
      BY <2>2, XidMapAssumption
    <3>2. SlotIn(map1, d) = SlotIn(map, d - 1)
      BY <1>1, <2>2, <3>1, XidMapAssumption DEF RingOK, SlotIn, After, Slots
    <3>3. SlotIn(map, d - 1) # map.next
      BY <3>1, XidMapAssumption DEF RingOK, SlotIn, Slots
    <3>4. d <= Len(calls1) <=> d - 1 <= Len(calls)
      BY <1>3, XidMapAssumption
    <3>5. d - 1 <= Len(calls) => calls1[Len(calls1) + 1 - d] = calls[Len(calls) + 1 - (d - 1)]
      <4> SUFFICES ASSUME d - 1 <= Len(calls)
                   PROVE  calls1[Len(calls1) + 1 - d] = calls[Len(calls) + 1 - (d - 1)]
        OBVIOUS
      <4>1. /\ Len(calls1) + 1 - d = Len(calls) + 1 - (d - 1)
            /\ Len(calls) + 1 - (d - 1) \in 1 .. Len(calls)
        BY <1>3, <3>1, XidMapAssumption
      <4> QED BY <1>3, <4>1
    <3>6. map1.maps[SlotIn(map1, d)] = map.maps[SlotIn(map, d - 1)]
      BY <1>1, <3>2, <3>3 DEF RingOK
    <3>7. map.maps[SlotIn(map, d - 1)] \in Turn(calls, d - 1)
      BY <3>1 DEF RingOK
    <3> QED BY <3>4, <3>5, <3>6, <3>7 DEF Turn
  <2> QED BY <2>1, <2>2
<1>6. DOMAIN map1.maps = Slots
  BY <1>1 DEF RingOK
<1>7. RingOK(map1, calls1)
  BY <1>1, <1>3, <1>4, <1>5, <1>6 DEF RingOK
<1> QED BY <1>7 DEF map1, calls1, new

\* A slot that is cleared holds what every slot may hold
LEMMA AnswerKeepsRing ==
    ASSUME NEW map, NEW calls, RingOK(map, calls), NEW xid
    PROVE  RingOK(XidMapAnswer(map, xid), calls)
<1> DEFINE map1 == XidMapAnswer(map, xid)
<1>1. PICK i : i = Found(map, xid)
  OBVIOUS
<1>2. /\ map1.maps = [map.maps EXCEPT ![i] = Cleared]
      /\ map1.next = map.next
      /\ DOMAIN map1 = {"maps", "next", "hint"}
  BY <1>1 DEF XidMapAnswer, RingOK
<1> HIDE DEF map1
<1>3. ASSUME NEW d \in 1 .. XIDMAPSIZE
      PROVE  map1.maps[SlotIn(map1, d)] \in Turn(calls, d)
  <2>1. SlotIn(map1, d) = SlotIn(map, d) /\ SlotIn(map, d) \in Slots
    BY <1>2, XidMapAssumption DEF RingOK, SlotIn, Slots
  <2>2. map1.maps[SlotIn(map, d)] \in {map.maps[SlotIn(map, d)], Cleared}
    BY <1>2, <2>1 DEF RingOK
  <2>3. Cleared \in Turn(calls, d) /\ map.maps[SlotIn(map, d)] \in Turn(calls, d)
    BY DEF RingOK, Turn
  <2> QED BY <2>1, <2>2, <2>3
<1>4. RingOK(map1, calls)
  BY <1>2, <1>3 DEF RingOK
<1> QED BY <1>4 DEF map1

LEMMA RingIsHeld == RingOK(xid_map, entered) => RingHoldsTheLast
  BY DEF RingOK, RingHoldsTheLast, SlotIn, SlotOf, Turn

\* Of the map alone, however calls and replies alternate and whatever xids they have:
\* the ring holds the last XIDMAPSIZE calls that were not answered (xid_map_enter)
THEOREM RingIsTrue == XidSpec => []RingHoldsTheLast
<1>1. XidInit => RingOK(xid_map, entered)
  BY EmptyRing DEF XidInit
<1>2. RingOK(xid_map, entered) /\ [XidNext]_xvars => RingOK(xid_map', entered')
  <2> SUFFICES ASSUME RingOK(xid_map, entered), [XidNext]_xvars
               PROVE  RingOK(xid_map', entered')
    OBVIOUS
  <2>1. CASE UNCHANGED xvars
    BY <2>1 DEF xvars
  <2>2. ASSUME NEW xid, NEW call, Enter(xid, call) PROVE RingOK(xid_map', entered')
    BY <2>2, EnterKeepsRing DEF Enter
  <2>3. ASSUME NEW xid, AnswerXid(xid) PROVE RingOK(xid_map', entered')
    BY <2>3, AnswerKeepsRing DEF AnswerXid
  <2> QED BY <2>1, <2>2, <2>3 DEF XidNext
<1>3. RingOK(xid_map, entered)' <=> RingOK(xid_map', entered')
  BY DEF RingOK, SlotIn, Turn
<1> QED BY <1>1, <1>2, <1>3, RingIsHeld, PTL DEF XidSpec

\* The ring after a decoder
LEMMA DecodeKeepsRing ==
    ASSUME RingOK(xid_map, entered), NEW name, NEW table, NEW load,
           NEW found \in Decode(name, table, load)
    PROVE  RingOK(found.xid_map, found.entered)
<1>1. \A text, t : Finding(t, xid_map, entered, text).xid_map = xid_map
                   /\ Finding(t, xid_map, entered, text).entered = entered
  BY DEF Finding
<1>2. \A call, t : /\ Asks(t, load, call).xid_map = XidMapEnter(xid_map, load.xid, call)
                   /\ Asks(t, load, call).entered = Append(entered, [xid |-> load.xid, call |-> call])
  BY DEF Asks, Finding
<1>3. \A text, t : Finding(t, XidMapAnswer(xid_map, load.xid), entered, text).xid_map
                        = XidMapAnswer(xid_map, load.xid)
                   /\ Finding(t, XidMapAnswer(xid_map, load.xid), entered, text).entered = entered
  BY DEF Finding
<1>4. \/ \E text, t : found = Finding(t, xid_map, entered, text)
      \/ \E call, t : found = Asks(t, load, call)
      \/ \E text, t : found = Finding(t, XidMapAnswer(xid_map, load.xid), entered, text)
  BY DEF Decode, DecodePortmap, DecodeGranted
<1> QED BY <1>1, <1>2, <1>3, <1>4, EnterKeepsRing, AnswerKeepsRing

\* What an action of dsniff does to the ring
RingStep ==
    \/ UNCHANGED <<xid_map, entered>>
    \/ \E name, table, load : \E found \in Decode(name, table, load) : Learns(found)
    \/ xid_map' = EmptyMap /\ entered' = <<>>

LEMMA NextRing == Next => RingStep
<1> SUFFICES ASSUME Next PROVE RingStep
  OBVIOUS
<1>1. CASE LoadTrigger \/ StartListening \/ Tick \/ Alarm \/ Hangup \/ Die
  BY <1>1 DEF LoadTrigger, StartListening, Tick, Alarm, Hangup, Die, learnVars, RingStep
<1>2. CASE Restart
  BY <1>2 DEF Restart, RingStep
<1>3. ASSUME NEW p, TriggerIp(p) PROVE RingStep
  BY <1>3 DEF TriggerIp, learnVars, RingStep
<1>4. ASSUME NEW p, TriggerUdp(p) PROVE RingStep
  <2> DEFINE chosen == Chosen(triggers, "udp", p.sport, p.dport, p.load)
  <2>1. \/ UNCHANGED <<xid_map, entered>>
        \/ \E found \in Decode(chosen.name, chosen.triggers, p.load) : Learns(found)
    BY <1>4 DEF TriggerUdp, learnVars
  <2> HIDE DEF chosen
  <2> QED BY <2>1 DEF RingStep
<1>5. ASSUME NEW s, NEW name, NEW load, TriggerTcpHalf(s, name, load) PROVE RingStep
  BY <1>5 DEF TriggerTcpHalf, RingStep
<1>6. ASSUME NEW from, NEW chosen, NEW iov, HandOver(from, chosen, iov) PROVE RingStep
  BY <1>6 DEF HandOver, RingStep
<1>7. ASSUME NEW p, TriggerTcpRaw(p) PROVE RingStep
  <2>1. UNCHANGED learnVars \/ \E chosen, iov : HandOver(p, chosen, iov)
    BY <1>7 DEF TriggerTcpRaw
  <2> QED BY <2>1, <1>6 DEF learnVars, RingStep
<1>8. ASSUME NEW s, TcpEstablished(s) PROVE RingStep
  BY <1>8 DEF TcpEstablished, learnVars, RingStep
<1>9. ASSUME NEW s, NEW dir, NEW n, TcpData(s, dir, n) PROVE RingStep
  BY <1>9, <1>5 DEF TcpData, learnVars, RingStep
<1>10. ASSUME NEW s, TcpClosed(s) \/ TcpClosedAnswers(s) PROVE RingStep
  BY <1>10, <1>5 DEF TcpClosed, TcpClosedAnswers, HalfEnds, learnVars, RingStep
<1>11. ASSUME NEW b, NEW i, SweepNode(b, i) PROVE RingStep
  <2>1. UNCHANGED learnVars \/ \E from, chosen, iov : HandOver(from, chosen, iov)
    BY <1>11 DEF SweepNode
  <2> QED BY <2>1, <1>6 DEF learnVars, RingStep
<1>12. ASSUME NEW b, SweepNext(b) PROVE RingStep
  BY <1>12 DEF SweepNext, learnVars, RingStep
<1> QED BY <1>1, <1>2, <1>3, <1>4, <1>7, <1>8, <1>9, <1>10, <1>11, <1>12 DEF Next, Sweep

\* In dsniff, where the decoders of three services share the ring and a reply is used by
\* whichever of them its port leads to, from one start to the next: the last XIDMAPSIZE
\* calls are in the ring or were answered (decode_portmap, decode_mountd, decode_ypserv)
THEOREM CallsAreHeld == Spec => []RingHoldsTheLast
<1>1. Init => RingOK(xid_map, entered)
  BY EmptyRing DEF Init
<1>2. RingOK(xid_map, entered) /\ [Next]_vars => RingOK(xid_map', entered')
  <2> SUFFICES ASSUME RingOK(xid_map, entered), [Next]_vars
               PROVE  RingOK(xid_map', entered')
    OBVIOUS
  <2>1. CASE UNCHANGED <<xid_map, entered>>
    BY <2>1
  <2>2. ASSUME NEW name, NEW table, NEW load, NEW found \in Decode(name, table, load), Learns(found)
        PROVE  RingOK(xid_map', entered')
    BY <2>2, DecodeKeepsRing DEF Learns
  <2>3. CASE xid_map' = EmptyMap /\ entered' = <<>>
    BY <2>3, EmptyRing
  <2>4. RingStep
    BY NextRing DEF vars, learnVars, RingStep
  <2> QED BY <2>1, <2>2, <2>3, <2>4 DEF RingStep
<1>3. RingOK(xid_map, entered)' <=> RingOK(xid_map', entered')
  BY DEF RingOK, SlotIn, Turn
<1> QED BY <1>1, <1>2, <1>3, RingIsHeld, PTL DEF Spec

-----------------------------------------------------------------------------
(* TCP connections                                                         *)

\* A half stream that waits for its first decoding, or that has had it.  One that is
\* collected was not decoded, and one that is not collected got nothing.
Waiting(half) == half.times = 0 /\ half.offset = 0 /\ (half.count > 0 => half.collect = 1)
Decoded(half) == half.times = 1 /\ half.offset = half.count /\ half.collect = 0

Directions == {"server", "client"}

HalfFits(half) ==
    /\ half \in [collect : {0, 1}, count : Nat, offset : Nat, times : Nat]
    /\ Waiting(half) \/ Decoded(half)

\* Nothing of it is left over
Finished(half) == HalfFits(half) /\ (half.count > 0 => Decoded(half))

\* The server's half is looked at first when a connection ends, then the client's
StreamFits(stream) ==
    /\ stream \in [state : {"none", "open", "closing", "closed"},
                   server : [collect : {0, 1}, count : Nat, offset : Nat, times : Nat],
                   client : [collect : {0, 1}, count : Nat, offset : Nat, times : Nat]]
    /\ HalfFits(stream.server) /\ HalfFits(stream.client)
    /\ stream.state = "none" => stream.server = Half /\ stream.client = Half
    /\ stream.state \in {"closing", "closed"} => Finished(stream.server)
    /\ stream.state = "closed" => Finished(stream.client)

StreamsFit ==
    /\ DOMAIN streams = DOMAIN Streams
    /\ \A s \in DOMAIN Streams : StreamFits(streams[s])

\* A step that is about one connection at most
LEMMA OneStream ==
    ASSUME StreamsFit, NEW s, NEW stream, s \in DOMAIN Streams => StreamFits(stream),
           streams' = [streams EXCEPT ![s] = stream]
    PROVE  StreamsFit'
  BY DEF StreamsFit

LEMMA UnseenFits == StreamFits(Unseen) /\ StreamFits([Unseen EXCEPT !.state = "closed"])
<1>1. HalfFits(Half) /\ Finished(Half)
  BY DEF Half, HalfFits, Waiting, Finished
<1>2. Half \in [collect : {0, 1}, count : Nat, offset : Nat, times : Nat]
  BY DEF Half
<1> HIDE DEF Half
<1> QED BY <1>1, <1>2 DEF StreamFits, Unseen

LEMMA TakenIs ==
    ASSUME NEW collect, NEW count, NEW offset, NEW times, NEW half,
           half = [collect |-> collect, count |-> count, offset |-> offset, times |-> times]
    PROVE  Taken(half) = [collect |-> 0, count |-> count, offset |-> count, times |-> times + 1]
<1>1. half.count = count /\ half.times = times
  OBVIOUS
<1>2. Taken(half) = [half EXCEPT !.offset = count, !.times = times + 1, !.collect = 0]
  BY <1>1 DEF Taken
<1> QED BY <1>2

LEMMA MoreIs ==
    ASSUME NEW collect, NEW count, NEW offset, NEW times, NEW n, NEW half,
           half = [collect |-> collect, count |-> count, offset |-> offset, times |-> times]
    PROVE  [half EXCEPT !.count = @ + n] = [collect |-> collect, count |-> count + n, offset |-> offset, times |-> times]
<1>1. half.count = count
  OBVIOUS
<1>2. [half EXCEPT !.count = @ + n] = [half EXCEPT !.count = count + n]
  BY <1>1
<1> QED BY <1>2

\* Bytes come only while nothing was decoded, and the decoding ends the collecting
LEMMA DataFits ==
    ASSUME StreamsFit, NEW s \in DOMAIN Streams, NEW dir \in Directions, NEW n \in Nat \ {0}, TcpData(s, dir, n)
    PROVE  StreamsFit'
<1> DEFINE half == [streams[s][dir] EXCEPT !.count = @ + n]
           next == IF half.count - half.offset >= Opt_snaplen THEN Taken(half) ELSE half
<1>1. streams[s].state = "open" /\ half.collect = 1
  BY DEF TcpData
<1>2. streams' = [streams EXCEPT ![s] = [streams[s] EXCEPT ![dir] = next]]
  BY DEF TcpData, StreamsFit
<1>3. HalfFits(streams[s][dir]) /\ streams[s][dir].collect = 1
  BY <1>1 DEF StreamsFit, StreamFits, HalfFits, Directions
<1>4. HalfFits(next)
  <2> PICK count \in Nat, offset \in Nat, times \in Nat :
            streams[s][dir] = [collect |-> 1, count |-> count, offset |-> offset, times |-> times]
    BY <1>3 DEF HalfFits
  <2>1. times = 0 /\ offset = 0
    BY <1>3 DEF HalfFits, Waiting, Decoded
  <2>2. half = [collect |-> 1, count |-> count + n, offset |-> 0, times |-> 0]
    BY <2>1, MoreIs
  <2>3. Taken(half) = [collect |-> 0, count |-> count + n, offset |-> count + n, times |-> 1]
    <3> HIDE DEF half
    <3>1. Taken(half) = [collect |-> 0, count |-> count + n, offset |-> count + n, times |-> 0 + 1]
      BY <2>2, TakenIs
    <3> QED BY <3>1
  <2>4. next \in {half, Taken(half)}
    OBVIOUS
  <2> HIDE DEF next, half
  <2>5. HalfFits(half)
    BY <2>2 DEF HalfFits, Waiting
  <2>6. HalfFits(Taken(half))
    BY <2>3 DEF HalfFits, Decoded
  <2> QED BY <2>4, <2>5, <2>6
<1> HIDE DEF next, half
<1>5. StreamFits([streams[s] EXCEPT ![dir] = next])
  BY <1>1, <1>4 DEF StreamsFit, StreamFits, HalfFits, Directions
<1> QED BY <1>2, <1>5, OneStream

\* What is unread at the end is decoded, and nothing is unread otherwise
LEMMA EndFinishes ==
    ASSUME StreamsFit, NEW s \in DOMAIN Streams, NEW dir \in Directions, NEW name,
           NEW state \in {"closing", "closed"}, HalfEnds(s, dir, name, state),
           state = "closing" => dir = "server",
           state = "closed" => dir = "client" /\ Finished(streams[s].server)
    PROVE  StreamsFit'
<1> DEFINE half == streams[s][dir]
           next == IF Unread(half) THEN Taken(half) ELSE half
<1>1. streams' = [streams EXCEPT ![s] = [streams[s] EXCEPT ![dir] = next, !.state = state]]
  BY DEF HalfEnds, StreamsFit, StreamFits, Directions
<1>2. HalfFits(half)
  BY DEF StreamsFit, StreamFits, Directions
<1> HIDE DEF half
<1>3. Finished(next)
  <2> PICK collect \in {0, 1}, count \in Nat, offset \in Nat, times \in Nat :
            half = [collect |-> collect, count |-> count, offset |-> offset, times |-> times]
    BY <1>2 DEF HalfFits
  <2>1. Taken(half) = [collect |-> 0, count |-> count, offset |-> count, times |-> times + 1]
    BY TakenIs
  <2>2. CASE Unread(half)
    <3>1. times = 0
      BY <1>2, <2>2 DEF HalfFits, Waiting, Decoded, Unread
    <3>2. Taken(half) = [collect |-> 0, count |-> count, offset |-> count, times |-> 1]
      BY <2>1, <3>1
    <3>3. Decoded(Taken(half)) /\ HalfFits(Taken(half))
      BY <3>2 DEF HalfFits, Decoded
    <3> QED BY <2>2, <3>3 DEF Finished
  <2>3. CASE ~Unread(half)
    BY <1>2, <2>3 DEF HalfFits, Finished, Waiting, Decoded, Unread
  <2> QED BY <2>2, <2>3
<1> HIDE DEF next
<1>4. StreamFits([streams[s] EXCEPT ![dir] = next, !.state = state])
  BY <1>3 DEF StreamsFit, StreamFits, HalfFits, Finished, Directions
<1> QED BY <1>1, <1>4, OneStream

LEMMA EstablishedFits ==
    ASSUME StreamsFit, NEW s \in DOMAIN Streams, TcpEstablished(s)
    PROVE  StreamsFit'
<1> DEFINE requests == IF Watched(s) THEN 1 ELSE 0
           answers == IF Answers(s) = NoName THEN 0 ELSE 1
           next == [state |-> "open",
                    server |-> [collect |-> requests, count |-> 0, offset |-> 0, times |-> 0],
                    client |-> [collect |-> answers, count |-> 0, offset |-> 0, times |-> 0]]
<1>1. requests \in {0, 1} /\ answers \in {0, 1}
  OBVIOUS
<1>2. streams' = [streams EXCEPT ![s] = [state |-> "open",
                                         server |-> [Half EXCEPT !.collect = requests],
                                         client |-> [Half EXCEPT !.collect = answers]]]
  BY DEF TcpEstablished
<1> HIDE DEF requests, answers
<1>3. /\ [Half EXCEPT !.collect = requests] = [collect |-> requests, count |-> 0, offset |-> 0, times |-> 0]
      /\ [Half EXCEPT !.collect = answers] = [collect |-> answers, count |-> 0, offset |-> 0, times |-> 0]
  BY DEF Half
<1>4. streams' = [streams EXCEPT ![s] = next]
  BY <1>2, <1>3
<1>5. StreamFits(next)
  BY <1>1 DEF StreamFits, HalfFits, Waiting
<1> HIDE DEF next
<1> QED BY <1>4, <1>5, OneStream

LEMMA RestartFits ==
    ASSUME Restart
    PROVE  StreamsFit'
<1>1. streams' = [s \in DOMAIN Streams |->
                    IF streams[s].state = "none" THEN Unseen ELSE [Unseen EXCEPT !.state = "closed"]]
  BY DEF Restart
<1>2. ASSUME NEW s \in DOMAIN Streams PROVE StreamFits(streams'[s])
  BY <1>1, UnseenFits
<1> QED BY <1>1, <1>2 DEF StreamsFit

LEMMA StreamsStep ==
    ASSUME setup \in Setups, StreamsFit, Next
    PROVE  StreamsFit'
<1>1. ASSUME UNCHANGED streams PROVE StreamsFit'
  BY <1>1 DEF StreamsFit
<1>2. CASE LoadTrigger \/ StartListening \/ Tick \/ Alarm \/ Hangup \/ Die
  BY <1>1, <1>2 DEF LoadTrigger, StartListening, Tick, Alarm, Hangup, Die, netVars
<1>3. CASE Restart
  BY <1>3, RestartFits
<1>4. ASSUME NEW p, TriggerIp(p) \/ TriggerUdp(p) \/ TriggerTcpRaw(p) PROVE StreamsFit'
  BY <1>1, <1>4 DEF TriggerIp, TriggerUdp, TriggerTcpRaw, netVars
<1>5. CASE Sweep
  BY <1>1, <1>5 DEF Sweep, SweepNode, SweepNext
<1>6. ASSUME NEW s \in setup.streams,
             \/ TcpEstablished(s)
             \/ \E dir \in Directions, n \in 1 .. MaxChunk : TcpData(s, dir, n)
             \/ TcpClosed(s)
             \/ TcpClosedAnswers(s)
      PROVE  StreamsFit'
  <2>1. s \in DOMAIN Streams
    BY DsniffAssumption
  <2>2. CASE TcpEstablished(s)
    BY <2>1, <2>2, EstablishedFits
  <2>3. ASSUME NEW dir \in Directions, NEW n \in 1 .. MaxChunk, TcpData(s, dir, n)
        PROVE  StreamsFit'
    BY <2>1, <2>3, DataFits, DsniffAssumption
  <2>4. CASE TcpClosed(s)
    BY <2>1, <2>4, EndFinishes DEF TcpClosed, Directions
  <2>5. CASE TcpClosedAnswers(s)
    <3>1. Finished(streams[s].server)
      BY <2>1, <2>5 DEF TcpClosedAnswers, StreamsFit, StreamFits
    <3> QED BY <2>1, <2>5, <3>1, EndFinishes DEF TcpClosedAnswers, Directions
  <2> QED BY <1>6, <2>2, <2>3, <2>4, <2>5
<1> QED BY <1>2, <1>3, <1>4, <1>5, <1>6 DEF Next, Directions

\* However a connection's bytes are cut and whatever else comes in between: each of its
\* two directions is decoded once, and whole when the connection ends (trigger_tcp)
THEOREM StreamsDecodedOnce == Spec => []DecodedOnce
<1> DEFINE Inv == setup \in Setups /\ StreamsFit
<1>1. Init => Inv
  <2> SUFFICES ASSUME Init PROVE Inv
    OBVIOUS
  <2>1. \A s \in DOMAIN Streams : StreamFits(streams[s])
    BY UnseenFits DEF Init
  <2> QED BY <2>1 DEF Init, StreamsFit
<1>2. Inv /\ [Next]_vars => Inv'
  <2> SUFFICES ASSUME Inv, [Next]_vars PROVE Inv'
    OBVIOUS
  <2>1. CASE UNCHANGED vars
    BY <2>1 DEF vars, netVars, runVars, StreamsFit
  <2>2. CASE Next
    <3>1. setup' = setup
      BY <2>2, SetupStays
    <3> QED BY <2>2, <3>1, StreamsStep
  <2> QED BY <2>1, <2>2
<1>3. Inv => DecodedOnce
  <2> SUFFICES ASSUME Inv, NEW s \in DOMAIN Streams, NEW dir \in Directions
               PROVE  /\ streams[s][dir].times <= 1
                      /\ (streams[s].state = "closed" /\ streams[s][dir].count > 0)
                            => streams[s][dir].times = 1 /\ streams[s][dir].offset = streams[s][dir].count
    BY DEF DecodedOnce, Directions
  <2> QED BY DEF StreamsFit, StreamFits, HalfFits, Finished, Waiting, Decoded, Directions
<1> HIDE DEF Inv
<1> QED BY <1>1, <1>2, <1>3, PTL DEF Spec

-----------------------------------------------------------------------------
(* What the tables hold                                                    *)

LEMMA NatMin ==
    ASSUME NEW S \in SUBSET Nat, S # {}
    PROVE  \E n \in S : \A m \in S : n <= m
<1> DEFINE R == {ss \in Nat \X Nat : ss[1] < ss[2]}
<1>1. IsWellFoundedOn(R, Nat)
  BY NatLessThanWellFounded DEF OpToRel
<1>2. PICK x \in S : \A y \in S : ~(<<y, x>> \in R)
  BY <1>1, WFMin
<1>3. \A y \in S : ~(y < x)
  BY <1>2
<1> QED BY <1>3

\* The search meets a slot that holds the xid, if there is one
LEMMA FoundHolds ==
    ASSUME NEW map, map.hint \in Slots, NEW xid, Holding(map, xid) # {}
    PROVE  Found(map, xid) \in Holding(map, xid)
<1> DEFINE D == {Distance(map, i) : i \in Holding(map, xid)}
<1>1. \A i \in Holding(map, xid) : Distance(map, i) \in Nat
  BY XidMapAssumption DEF Holding, Distance, Slots
<1>2. PICK n \in D : \A m \in D : n <= m
  BY <1>1, NatMin
<1>3. PICK i \in Holding(map, xid) : n = Distance(map, i)
  BY <1>2
<1>4. \A j \in Holding(map, xid) : Distance(map, i) <= Distance(map, j)
  BY <1>2, <1>3
<1> QED BY <1>4 DEF Found

\* What is in a slot under an xid that is not 0 is a call that was seen
LEMMA SlotIsCall ==
    ASSUME NEW map, NEW calls, RingOK(map, calls), NEW xid \in Xids, NEW i \in Holding(map, xid)
    PROVE  \E k \in DOMAIN calls : calls[k] = map.maps[i] /\ calls[k].xid = xid
<1> DEFINE d == IF i < map.next THEN map.next - i ELSE map.next - i + XIDMAPSIZE
<1>1. d \in 1 .. XIDMAPSIZE /\ SlotIn(map, d) = i
  <2>1. i \in 0 .. XIDMAPSIZE - 1 /\ map.next \in 0 .. XIDMAPSIZE - 1 /\ XIDMAPSIZE \in Nat
    BY XidMapAssumption DEF RingOK, Slots, Holding
  <2>2. CASE i < map.next
    BY <2>1, <2>2 DEF SlotIn
  <2>3. CASE ~(i < map.next)
    BY <2>1, <2>3 DEF SlotIn
  <2> QED BY <2>2, <2>3
<1>2. map.maps[i].xid = xid /\ map.maps[i] # Cleared
  BY XidMapAssumption DEF Holding, Cleared
<1>3. map.maps[i] \in Turn(calls, d)
  BY <1>1 DEF RingOK
<1>4. d <= Len(calls) /\ map.maps[i] = calls[Len(calls) + 1 - d]
  BY <1>2, <1>3 DEF Turn
<1>5. Len(calls) \in Nat /\ DOMAIN calls = 1 .. Len(calls)
  BY DEF RingOK
<1>6. Len(calls) + 1 - d \in DOMAIN calls
  BY <1>1, <1>4, <1>5, XidMapAssumption
<1> QED BY <1>2, <1>4, <1>6

\* The hint is a slot
HintOK(map) == map.hint \in Slots

LEMMA DecodeKeepsHint ==
    ASSUME RingOK(xid_map, entered), HintOK(xid_map), NEW name, NEW table, NEW load,
           NEW found \in Decode(name, table, load)
    PROVE  /\ HintOK(found.xid_map)
           /\ found.entered = entered \/ \E call : found.entered = Append(entered, call)
<1>1. ASSUME NEW t, NEW text, found = Finding(t, xid_map, entered, text)
      PROVE  HintOK(found.xid_map) /\ found.entered = entered
  BY <1>1 DEF Finding
<1>2. ASSUME NEW t, NEW call, found = Asks(t, load, call)
      PROVE  HintOK(found.xid_map) /\ \E c : found.entered = Append(entered, c)
  <2>1. XidMapEnter(xid_map, load.xid, call).hint = xid_map.hint
    BY DEF XidMapEnter, RingOK
  <2> QED BY <1>2, <2>1 DEF Asks, Finding, HintOK
<1>3. ASSUME NEW t, NEW text, Holding(xid_map, load.xid) # {},
             found = Finding(t, XidMapAnswer(xid_map, load.xid), entered, text)
      PROVE  HintOK(found.xid_map) /\ found.entered = entered
  <2>1. Found(xid_map, load.xid) \in Slots
    BY <1>3, FoundHolds DEF HintOK, Holding
  <2>2. XidMapAnswer(xid_map, load.xid).hint = Found(xid_map, load.xid)
    BY DEF XidMapAnswer, RingOK
  <2> QED BY <1>3, <2>1, <2>2 DEF Finding, HintOK
<1>4. \/ \E t, text : found = Finding(t, xid_map, entered, text)
      \/ \E t, call : found = Asks(t, load, call)
      \/ /\ Holding(xid_map, load.xid) # {}
         /\ \E t, text : found = Finding(t, XidMapAnswer(xid_map, load.xid), entered, text)
  BY DEF Decode, DecodePortmap, DecodeGranted
<1> QED BY <1>1, <1>2, <1>3, <1>4

\* A table that has grown
Within(table, more) == \A p \in Protos : table[p] \subseteq more[p]

\* Its elements are triggers
Named(table) ==
    \A p \in Protos : \A t \in table[p] : t = [num |-> t.num, decode |-> t.decode] /\ t.decode \in Decodes

Has(table, p, num) == \E t \in table[p] : t.num = num

\* TriggerSet adds one trigger or none, and none only when there is one, when the
\* name means nothing or when the table is full
LEMMA TriggerSetAdds ==
    ASSUME NEW table, TableOK(table), NEW p, NEW num, NEW name
    PROVE  LET next == TriggerSet(table, p, num, name) IN
           /\ Within(table, next)
           /\ \A q \in Protos : \A t \in next[q] :
                 t \in table[q] \/ (q = p /\ t = [num |-> num, decode |-> name] /\ name \in Decodes)
           /\ p \in Protos /\ name \in Decodes =>
                 Has(next, p, num) \/ (next = table /\ Cardinality(table[p]) = Capacity[p])
<1> DEFINE next == TriggerSet(table, p, num, name)
           new == [num |-> num, decode |-> name]
<1>1. CASE next = table
  <2>1. p \in Protos /\ name \in Decodes => Has(next, p, num) \/ Cardinality(table[p]) = Capacity[p]
    <3> SUFFICES ASSUME p \in Protos, name \in Decodes, Cardinality(table[p]) # Capacity[p], ~Has(table, p, num)
                 PROVE  FALSE
      BY <1>1
    <3>1. GetDecodeByName(name) # NoName /\ ~(\E t \in table[p] : t.num = num)
      BY TriggerAssumption DEF GetDecodeByName, Has
    <3>2. next = [table EXCEPT ![p] = @ \cup {new}]
      BY <3>1 DEF TriggerSet
    <3>3. new \in next[p]
      BY <3>2 DEF TableOK
    <3> QED BY <1>1, <3>1, <3>3
  <2> QED BY <1>1, <2>1 DEF Within
<1>2. CASE next # table
  <2>1. p \in Protos /\ GetDecodeByName(name) # NoName /\ next = [table EXCEPT ![p] = @ \cup {new}]
    BY <1>2 DEF TriggerSet
  <2>2. name \in Decodes
    BY <2>1 DEF GetDecodeByName
  <2>3. next[p] = table[p] \cup {new} /\ \A q \in Protos \ {p} : next[q] = table[q]
    BY <2>1 DEF TableOK
  <2> HIDE DEF next
  <2>4. Within(table, next)
    BY <2>3 DEF Within
  <2>5. Has(next, p, num)
    <3>1. new \in next[p] /\ new.num = num
      BY <2>3
    <3> QED BY <3>1 DEF Has
  <2> QED BY <2>2, <2>3, <2>4, <2>5 DEF next
<1> QED BY <1>1, <1>2

\* A number keeps its decoder while the table grows
LEMMA LookupStays ==
    ASSUME NEW table, NEW more, TableOK(more), Within(table, more), Named(table), NEW p \in Protos, NEW num,
           Lookup(table, p, num) # NoName
    PROVE  Lookup(more, p, num) = Lookup(table, p, num)
<1>1. PICK t \in table[p] : t.num = num /\ Lookup(table, p, num) = t.decode
  BY DEF Lookup
<1>2. t \in more[p] /\ \A u \in more[p] : u.num = num => u = t
  BY <1>1 DEF Within, TableOK, ArrayOK
<1> QED BY <1>1, <1>2 DEF Lookup

LEMMA HasIsKnown ==
    ASSUME NEW table, Named(table), NEW p \in Protos, NEW num, Has(table, p, num)
    PROVE  Lookup(table, p, num) # NoName
  BY TriggerAssumption DEF Has, Named, Lookup

LEMMA NamedGrows ==
    ASSUME NEW table, TableOK(table), Named(table), NEW p, NEW num, NEW name
    PROVE  Named(TriggerSet(table, p, num, name))
<1> DEFINE next == TriggerSet(table, p, num, name)
<1>1. \A q \in Protos : \A t \in next[q] :
         t \in table[q] \/ (t = [num |-> num, decode |-> name] /\ name \in Decodes)
  BY TriggerSetAdds
<1> HIDE DEF next
<1>2. Named(next)
  BY <1>1 DEF Named
<1> QED BY <1>2 DEF next

\* A table after magic: what is new has the name that magic has found
Learned(table, more, load) ==
    /\ TableOK(more) /\ Named(more) /\ Within(table, more)
    /\ \A q \in Protos : \A t \in more[q] :
          t \in table[q] \/ (t.decode = MagicMatch(load) /\ MagicMatch(load) # NoName)

LEMMA MagicLearns ==
    ASSUME NEW table, TableOK(table), Named(table), NEW p, NEW num, NEW load
    PROVE  /\ Learned(table, table, load)
           /\ Learned(table, TriggerSetMagic(table, p, num, MagicMatch(load)), load)
<1> DEFINE name == MagicMatch(load)
           once == TriggerSet(table, p, num, name)
           twice == TriggerSet(once, p, 0 - num, name)
<1>1. Learned(table, table, load)
  BY DEF Learned, Within
<1>2. TableOK(once) /\ Named(once)
  BY TriggerSetOK, NamedGrows
<1>3. /\ Within(table, once)
      /\ \A q \in Protos : \A t \in once[q] : t \in table[q] \/ (t.decode = name /\ name \in Decodes)
  BY TriggerSetAdds
<1> HIDE DEF once
<1>4. TableOK(twice) /\ Named(twice)
  BY <1>2, TriggerSetOK, NamedGrows
<1>5. /\ Within(once, twice)
      /\ \A q \in Protos : \A t \in twice[q] : t \in once[q] \/ (t.decode = name /\ name \in Decodes)
  BY <1>2, TriggerSetAdds
<1> HIDE DEF twice
<1>6. Learned(table, once, load) /\ Learned(table, twice, load)
  BY <1>2, <1>3, <1>4, <1>5, TriggerAssumption DEF Learned, Within
<1> QED BY <1>1, <1>6 DEF TriggerSetMagic, once, twice

LEMMA ChosenLearns ==
    ASSUME TableOK(triggers), Named(triggers), NEW p, NEW sport, NEW dport, NEW load
    PROVE  /\ Learned(triggers, Chosen(triggers, p, sport, dport, load).triggers, load)
           /\ Learned(triggers, ChosenLate(dport, load).triggers, load)
<1>1. Learned(triggers, triggers, load)
  BY MagicLearns
<1>2. Learned(triggers, TriggerSetMagic(triggers, p, dport, MagicMatch(load)), load)
  BY MagicLearns
<1>3. Learned(triggers, TriggerSetMagic(triggers, "tcp", dport, MagicMatch(load)), load)
  BY MagicLearns
<1>4. Chosen(triggers, p, sport, dport, load).triggers
         \in {triggers, TriggerSetMagic(triggers, p, dport, MagicMatch(load))}
  BY DEF Chosen
<1>5. ChosenLate(dport, load).triggers \in {triggers, TriggerSetMagic(triggers, "tcp", dport, MagicMatch(load))}
  BY DEF ChosenLate
<1> QED BY <1>1, <1>2, <1>3, <1>4, <1>5

LEMMA RpcTeaches ==
    ASSUME NEW table, TableOK(table), Named(table), NEW program, NEW p, NEW port
    PROVE  LET next == TriggerRpc(table, program, p, port) IN
           /\ TableOK(next) /\ Named(next) /\ Within(table, next)
           /\ \A q \in Protos : \A t \in next[q] :
                 t \in table[q] \/ (q = p /\ t.num = port /\ t.decode = Lookup(table, "rpc", program))
<1> DEFINE name == Lookup(table, "rpc", program)
           next == TriggerSet(table, p, port, name)
<1>1. TableOK(next) /\ Named(next) /\ Within(table, next)
  BY TriggerSetOK, NamedGrows, TriggerSetAdds
<1>2. \A q \in Protos : \A t \in next[q] : t \in table[q] \/ (q = p /\ t.num = port /\ t.decode = name)
  BY TriggerSetAdds
<1> HIDE DEF next
<1>3. CASE p \in {"udp", "tcp"}
  <2>1. TriggerRpc(table, program, p, port) = next
    BY <1>3 DEF TriggerRpc, next
  <2> QED BY <1>1, <1>2, <2>1
<1>4. CASE p \notin {"udp", "tcp"}
  <2>1. TriggerRpc(table, program, p, port) = table
    BY <1>4 DEF TriggerRpc
  <2> QED BY <2>1 DEF Within
<1> QED BY <1>3, <1>4

\* The two ports that a portmapper's answer teaches, of requests and of answers
LEMMA AnswerTeaches ==
    ASSUME NEW table, TableOK(table), Named(table), NEW program, NEW p, NEW port
    PROVE  LET next == TriggerRpc(TriggerRpc(table, program, p, port), program, p, 0 - port) IN
           /\ TableOK(next) /\ Named(next) /\ Within(table, next)
           /\ \A q \in Protos : \A t \in next[q] :
                 t \in table[q] \/ /\ q = p /\ t.num \in {port, 0 - port}
                                   /\ t.decode = Lookup(next, "rpc", program)
<1> DEFINE one == TriggerRpc(table, program, p, port)
           next == TriggerRpc(one, program, p, 0 - port)
<1>1. /\ TableOK(one) /\ Named(one) /\ Within(table, one)
      /\ \A q \in Protos : \A t \in one[q] :
            t \in table[q] \/ (q = p /\ t.num = port /\ t.decode = Lookup(table, "rpc", program))
  BY RpcTeaches
<1> HIDE DEF one
<1>2. /\ TableOK(next) /\ Named(next) /\ Within(one, next)
      /\ \A q \in Protos : \A t \in next[q] :
            t \in one[q] \/ (q = p /\ t.num = 0 - port /\ t.decode = Lookup(one, "rpc", program))
  BY <1>1, RpcTeaches
<1> HIDE DEF next
<1>3. Within(table, next)
  BY <1>1, <1>2 DEF Within
<1>4. ASSUME NEW q \in Protos, NEW t \in next[q], t \notin table[q]
      PROVE  q = p /\ t.num \in {port, 0 - port} /\ t.decode = Lookup(next, "rpc", program)
  <2>1. t.decode # NoName /\ "rpc" \in Protos
    BY <1>2, TriggerAssumption DEF Named, Protos
  <2>2. CASE t \in one[q]
    <3>1. q = p /\ t.num = port /\ t.decode = Lookup(table, "rpc", program)
      BY <1>1, <1>4, <2>2
    <3>2. Lookup(next, "rpc", program) = Lookup(table, "rpc", program)
      BY <1>2, <1>3, <2>1, <3>1, LookupStays
    <3> QED BY <3>1, <3>2
  <2>3. CASE t \notin one[q]
    <3>1. q = p /\ t.num = 0 - port /\ t.decode = Lookup(one, "rpc", program)
      BY <1>2, <2>3
    <3>2. Lookup(next, "rpc", program) = Lookup(one, "rpc", program)
      BY <1>1, <1>2, <2>1, <3>1, LookupStays
    <3> QED BY <3>1, <3>2
  <2> QED BY <2>2, <2>3
<1> QED BY <1>2, <1>3, <1>4 DEF next, one

\* The cause of a trigger of the protocol q that no file has named
Taught(q, t, answers, calls, table) ==
    \E r \in answers :
        \/ r.magic = t.decode
        \/ /\ t.num \in {r.port, 0 - r.port}
           /\ \E k \in DOMAIN calls :
                 /\ calls[k].xid = r.xid
                 /\ calls[k].call.prog = "portmap" =>
                       /\ calls[k].call.proto = q
                       /\ Lookup(table, "rpc", calls[k].call.program) = t.decode

\* A decoder teaches a port to whom the answer was meant: the call in the slot was seen
LEMMA DecodeTeaches ==
    ASSUME RingOK(xid_map, entered), HintOK(xid_map), NEW table, TableOK(table), Named(table),
           NEW name, NEW load, NEW found \in Decode(name, table, load)
    PROVE  /\ TableOK(found.triggers) /\ Named(found.triggers) /\ Within(table, found.triggers)
           /\ \A q \in Protos : \A t \in found.triggers[q] :
                 t \in table[q] \/ Taught(q, t, Answered(load), entered, found.triggers)
<1>1. ASSUME found.triggers = table
      PROVE  /\ TableOK(found.triggers) /\ Named(found.triggers) /\ Within(table, found.triggers)
             /\ \A q \in Protos : \A t \in found.triggers[q] :
                   t \in table[q] \/ Taught(q, t, Answered(load), entered, found.triggers)
  BY <1>1 DEF Within
<1>2. \/ found.triggers = table
      \/ /\ RpcMessage(load, "reply") /\ Holding(xid_map, load.xid) # {}
         /\ \E call \in Read("portmap", load.xid) :
               found.triggers = TriggerRpc(TriggerRpc(table, call.program, call.proto, load.port),
                                           call.program, call.proto, 0 - load.port)
  <2>1. CASE name = "portmap"
    BY <2>1 DEF Decode, DecodePortmap, Asks, Finding
  <2>2. CASE name # "portmap"
    BY <2>2 DEF Decode, DecodeGranted, Asks, Finding
  <2> QED BY <2>1, <2>2
<1>3. ASSUME RpcMessage(load, "reply"), Holding(xid_map, load.xid) # {},
             NEW call \in Read("portmap", load.xid),
             found.triggers = TriggerRpc(TriggerRpc(table, call.program, call.proto, load.port),
                                         call.program, call.proto, 0 - load.port)
      PROVE  /\ TableOK(found.triggers) /\ Named(found.triggers) /\ Within(table, found.triggers)
             /\ \A q \in Protos : \A t \in found.triggers[q] :
                   t \in table[q] \/ Taught(q, t, Answered(load), entered, found.triggers)
  <2> DEFINE i == Found(xid_map, load.xid)
             r == [xid |-> load.xid, port |-> load.port, magic |-> NoName]
  <2>1. i \in Holding(xid_map, load.xid) /\ load.xid \in Xids
    BY <1>3, FoundHolds DEF HintOK, RpcMessage
  <2>2. PICK k \in DOMAIN entered : entered[k] = xid_map.maps[i] /\ entered[k].xid = load.xid
    BY <2>1, SlotIsCall
  <2>3. entered[k].call.prog = "portmap" => call = entered[k].call
    BY <1>3, <2>2 DEF Read
  <2>4. r \in Answered(load) /\ r.xid = load.xid /\ r.port = load.port
    BY <1>3 DEF Answered
  <2> HIDE DEF r
  <2>5. /\ TableOK(found.triggers) /\ Named(found.triggers) /\ Within(table, found.triggers)
        /\ \A q \in Protos : \A t \in found.triggers[q] :
              t \in table[q] \/ /\ q = call.proto /\ t.num \in {load.port, 0 - load.port}
                                /\ t.decode = Lookup(found.triggers, "rpc", call.program)
    BY <1>3, AnswerTeaches
  <2>6. ASSUME NEW q \in Protos, NEW t \in found.triggers[q], t \notin table[q]
        PROVE  Taught(q, t, Answered(load), entered, found.triggers)
    BY <2>2, <2>3, <2>4, <2>5, <2>6 DEF Taught
  <2> QED BY <2>5, <2>6
<1> QED BY <1>1, <1>2, <1>3

\* More answers, more calls and more triggers change no cause
LEMMA TaughtStays ==
    ASSUME NEW q, NEW t, t.decode \in Decodes, NEW answers, NEW calls, NEW table, Taught(q, t, answers, calls, table),
           NEW answers1, answers \subseteq answers1,
           NEW calls1, DOMAIN calls \subseteq DOMAIN calls1, \A k \in DOMAIN calls : calls1[k] = calls[k],
           NEW table1, TableOK(table1), Named(table), Within(table, table1)
    PROVE  Taught(q, t, answers1, calls1, table1)
<1>1. \A num : Lookup(table, "rpc", num) = t.decode => Lookup(table1, "rpc", num) = t.decode
  BY LookupStays, TriggerAssumption DEF Protos
<1> QED BY <1>1 DEF Taught

\* A step that handles data: magic may name its port, a decoder may learn others
Teach(load, table, name) ==
    /\ Learned(triggers, table, load)
    /\ \/ triggers' = table /\ UNCHANGED <<xid_map, entered>>
       \/ \E found \in Decode(name, table, load) : Learns(found)
    /\ replied \cup Answered(load) \subseteq replied'
    /\ table = triggers \/ replied \cup Identified(load) \subseteq replied'

Teaching == UNCHANGED learnVars \/ \E load, table, name : Teach(load, table, name)

\* What was loaded stays while dsniff runs
Going == {"run", "close", "sweep"}

Running == pc \in Going /\ pc' \in Going /\ UNCHANGED <<setup, todo, reload, dump, starts, knew>>

LEMMA HalfTeaches ==
    ASSUME TableOK(triggers), Named(triggers), NEW s, NEW name, NEW load, TriggerTcpHalf(s, name, load)
    PROVE  Teaching
<1> DEFINE table == TriggerSetMagic(triggers, "tcp", Streams[s].dest, MagicMatch(load))
           chosen == IF name # NoName \/ MagicMatch(load) = NoName
                     THEN [name |-> name, triggers |-> triggers]
                     ELSE [name |-> Lookup(table, "tcp", Streams[s].dest), triggers |-> table]
<1>1. Learned(triggers, triggers, load) /\ Learned(triggers, table, load)
  BY MagicLearns
<1>2. chosen.triggers \in {triggers, table}
  <2> HIDE DEF table
  <2> QED OBVIOUS
<1>3. /\ replied' = replied \cup Answered(load) \cup Identified(load)
      /\ \/ triggers' = chosen.triggers /\ UNCHANGED <<xid_map, entered>>
         \/ \E found \in Decode(chosen.name, chosen.triggers, load) : Learns(found)
  <2> HIDE DEF table
  <2>1. /\ replied' = replied \cup Answered(load) \cup Identified(load)
        /\ \/ triggers' = chosen.triggers /\ UNCHANGED <<xid_map, entered>>
           \/ \E found \in Decode(chosen.name, chosen.triggers, load) : Learns(found)
    BY DEF TriggerTcpHalf, Hears, table
  <2> QED BY <2>1
<1> HIDE DEF chosen, table
<1>4. Learned(triggers, chosen.triggers, load)
  BY <1>1, <1>2
<1>5. Teach(load, chosen.triggers, chosen.name)
  BY <1>3, <1>4 DEF Teach
<1> QED BY <1>5 DEF Teaching

LEMMA HandOverTeaches ==
    ASSUME NEW from, NEW chosen, NEW iov, HandOver(from, chosen, iov), Learned(triggers, chosen.triggers, Joined(iov))
    PROVE  Teaching
<1> DEFINE load == Joined(iov)
<1>1. /\ replied' = replied \cup Answered(load) \cup Identified(load)
      /\ \/ triggers' = chosen.triggers /\ UNCHANGED <<xid_map, entered>>
         \/ \E found \in Decode(chosen.name, chosen.triggers, load) : Learns(found)
  BY DEF HandOver, Hears
<1> HIDE DEF load
<1>2. Teach(load, chosen.triggers, chosen.name)
  BY <1>1 DEF Teach, load
<1> QED BY <1>2 DEF Teaching

LEMMA NextTeaches ==
    ASSUME TableOK(triggers), Named(triggers), Next
    PROVE  LoadTrigger \/ StartListening \/ Hangup \/ Die \/ Restart \/ (Running /\ Teaching)
<1>1. ASSUME NEW p, TriggerIp(p) PROVE Running /\ Teaching
  <2>1. Running
    BY <1>1 DEF TriggerIp, Handled, Running, Going, runVars
  <2>2. UNCHANGED learnVars \/ Teach(p.load, triggers, Lookup(triggers, "ip", p.proto))
    <3>1. Learned(triggers, triggers, p.load)
      BY MagicLearns
    <3> QED BY <1>1, <3>1 DEF TriggerIp, Teach
  <2> QED BY <2>1, <2>2 DEF Teaching
<1>2. ASSUME NEW p, TriggerUdp(p) PROVE Running /\ Teaching
  <2> DEFINE chosen == Chosen(triggers, "udp", p.sport, p.dport, p.load)
  <2>1. Running
    BY <1>2 DEF TriggerUdp, Handled, Running, Going, runVars
  <2>2. Learned(triggers, chosen.triggers, p.load)
    BY ChosenLearns
  <2>3. \/ UNCHANGED learnVars
        \/ /\ replied' = replied \cup Answered(p.load) \cup Identified(p.load)
           /\ \/ triggers' = chosen.triggers /\ UNCHANGED <<xid_map, entered>>
              \/ \E found \in Decode(chosen.name, chosen.triggers, p.load) : Learns(found)
    BY <1>2 DEF TriggerUdp, Hears
  <2> HIDE DEF chosen
  <2>4. UNCHANGED learnVars \/ Teach(p.load, chosen.triggers, chosen.name)
    BY <2>2, <2>3 DEF Teach
  <2> QED BY <2>1, <2>4 DEF Teaching
<1>3. ASSUME NEW p, TriggerTcpRaw(p) PROVE Running /\ Teaching
  <2> DEFINE Choice(iov) == Chosen(triggers, "tcp", p.sport, p.dport, Joined(iov))
  <2>1. Running
    BY <1>3 DEF TriggerTcpRaw, Handled, Running, Going, runVars
  <2>2. \A iov : Learned(triggers, Choice(iov).triggers, Joined(iov))
    BY ChosenLearns
  <2>3. UNCHANGED learnVars \/ \E iov : HandOver(p, Choice(iov), iov)
    BY <1>3 DEF TriggerTcpRaw
  <2> HIDE DEF Choice
  <2> QED BY <2>1, <2>2, <2>3, HandOverTeaches DEF Teaching
<1>4. ASSUME NEW s, TcpEstablished(s) PROVE Running /\ Teaching
  BY <1>4 DEF TcpEstablished, Handled, Running, Going, runVars, Teaching
<1>5. ASSUME NEW s, NEW dir, NEW n, TcpData(s, dir, n) PROVE Running /\ Teaching
  <2>1. Running
    BY <1>5 DEF TcpData, Handled, Running, Going, runVars
  <2>2. UNCHANGED learnVars \/ \E name, load : TriggerTcpHalf(s, name, load)
    BY <1>5 DEF TcpData
  <2> QED BY <2>1, <2>2, HalfTeaches DEF Teaching
<1>6. ASSUME NEW s, TcpClosed(s) \/ TcpClosedAnswers(s) PROVE Running /\ Teaching
  <2>1. Running
    BY <1>6 DEF TcpClosed, TcpClosedAnswers, Handled, Running, Going
  <2>2. UNCHANGED learnVars \/ \E name, load : TriggerTcpHalf(s, name, load)
    BY <1>6 DEF TcpClosed, TcpClosedAnswers, HalfEnds
  <2> QED BY <2>1, <2>2, HalfTeaches DEF Teaching
<1>7. ASSUME NEW b, NEW i, SweepNode(b, i) PROVE Running /\ Teaching
  <2>1. Running
    BY <1>7 DEF SweepNode, Running, Going, runVars
  <2>2. \/ UNCHANGED learnVars
        \/ \E from, dport, iov : HandOver(from, ChosenLate(dport, Joined(iov)), iov)
    BY <1>7 DEF SweepNode
  <2>3. ASSUME NEW from, NEW dport, NEW iov, HandOver(from, ChosenLate(dport, Joined(iov)), iov) PROVE Teaching
    BY <2>3, ChosenLearns, HandOverTeaches
  <2> QED BY <2>1, <2>2, <2>3 DEF Teaching
<1>8. ASSUME NEW b, SweepNext(b) PROVE Running /\ Teaching
  BY <1>8 DEF SweepNext, Running, Going, Teaching
<1>9. CASE Tick \/ Alarm
  BY <1>9 DEF Tick, Alarm, Running, Going, runVars, Teaching
<1> QED BY <1>1, <1>2, <1>3, <1>4, <1>5, <1>6, <1>7, <1>8, <1>9 DEF Next, Sweep

\* The cause of a trigger that a file has named
Loaded(q, t) ==
    \E line \in Range(setup.list) \cup Range(setup.services) \cup dump : line.proto = q /\ line.num = t.num

Caused == \A q \in Protos : \A t \in triggers[q] : Loaded(q, t) \/ Taught(q, t, replied, entered, triggers)

LearnInv ==
    /\ TableOK(triggers) /\ Named(triggers)
    /\ RingOK(xid_map, entered) /\ HintOK(xid_map)
    /\ Caused

\* The lines still to load are those of the files
FilesInv ==
    /\ setup \in Setups
    /\ todo \in Seq(Range(setup.list) \cup Range(setup.services))
    /\ reload \subseteq dump
    /\ pc \in Going => todo = <<>> /\ reload = {}

LEMMA TeachGrows ==
    ASSUME LearnInv, Teaching
    PROVE  Within(triggers, triggers')
<1>1. CASE UNCHANGED learnVars
  BY <1>1 DEF learnVars, Within
<1>2. ASSUME NEW load, NEW table, NEW name, Teach(load, table, name)
      PROVE  Within(triggers, triggers')
  <2>1. Within(triggers, table) /\ TableOK(table) /\ Named(table)
    BY <1>2 DEF Teach, Learned
  <2>2. CASE triggers' = table
    BY <2>1, <2>2
  <2>3. ASSUME NEW found \in Decode(name, table, load), Learns(found)
        PROVE  Within(triggers, triggers')
    <3>1. Within(table, found.triggers)
      BY <2>1, DecodeTeaches DEF LearnInv
    <3> QED BY <2>1, <2>3, <3>1 DEF Within, Learns
  <2> QED BY <1>2, <2>2, <2>3 DEF Teach
<1> QED BY <1>1, <1>2 DEF Teaching

\* Every new trigger has its cause in this step, every old one keeps its own
LEMMA TeachKeepsCauses ==
    ASSUME LearnInv, Teaching, UNCHANGED <<setup, dump>>
    PROVE  LearnInv'
<1>1. CASE UNCHANGED learnVars
  <2>1. triggers' = triggers /\ xid_map' = xid_map /\ entered' = entered /\ replied' = replied
    BY <1>1 DEF learnVars
  <2>2. TableOK(triggers)' /\ Named(triggers)'
    BY <2>1 DEF LearnInv, TableOK, ArrayOK, Named
  <2>3. RingOK(xid_map, entered)' /\ HintOK(xid_map)'
    BY <2>1 DEF LearnInv, RingOK, HintOK, SlotIn, Turn
  <2>4. \A q, t : (Loaded(q, t) <=> Loaded(q, t)')
    BY DEF Loaded
  <2>5. \A q, t : (Taught(q, t, replied, entered, triggers) <=> Taught(q, t, replied, entered, triggers)')
    BY <2>1 DEF Taught, Lookup
  <2>6. Caused'
    BY <2>1, <2>4, <2>5 DEF LearnInv, Caused
  <2> QED BY <2>2, <2>3, <2>6 DEF LearnInv
<1>2. ASSUME NEW load, NEW table, NEW name, Teach(load, table, name)
      PROVE  LearnInv'
  <2>1. Within(triggers, table) /\ TableOK(table) /\ Named(table)
    BY <1>2 DEF Teach, Learned
  <2>2. /\ TableOK(triggers') /\ Named(triggers') /\ Within(table, triggers')
        /\ RingOK(xid_map', entered') /\ HintOK(xid_map')
        /\ DOMAIN entered \subseteq DOMAIN entered' /\ \A k \in DOMAIN entered : entered'[k] = entered[k]
        /\ \A q \in Protos : \A t \in triggers'[q] :
              t \in table[q] \/ Taught(q, t, Answered(load), entered, triggers')
    <3>1. CASE triggers' = table /\ UNCHANGED <<xid_map, entered>>
      BY <2>1, <3>1 DEF Within, LearnInv
    <3>2. ASSUME NEW found \in Decode(name, table, load), Learns(found)
          PROVE  /\ TableOK(triggers') /\ Named(triggers') /\ Within(table, triggers')
                 /\ RingOK(xid_map', entered') /\ HintOK(xid_map')
                 /\ DOMAIN entered \subseteq DOMAIN entered' /\ \A k \in DOMAIN entered : entered'[k] = entered[k]
                 /\ \A q \in Protos : \A t \in triggers'[q] :
                       t \in table[q] \/ Taught(q, t, Answered(load), entered, triggers')
      <4>1. /\ TableOK(found.triggers) /\ Named(found.triggers) /\ Within(table, found.triggers)
            /\ \A q \in Protos : \A t \in found.triggers[q] :
                  t \in table[q] \/ Taught(q, t, Answered(load), entered, found.triggers)
        BY <2>1, DecodeTeaches DEF LearnInv
      <4>2. RingOK(found.xid_map, found.entered) /\ HintOK(found.xid_map)
        BY DecodeKeepsRing, DecodeKeepsHint DEF LearnInv
      <4>3. DOMAIN entered \subseteq DOMAIN entered' /\ \A k \in DOMAIN entered : entered'[k] = entered[k]
        <5>1. entered' = entered \/ \E call : entered' = Append(entered, call)
          BY <3>2, DecodeKeepsHint DEF LearnInv, Learns
        <5>2. PICK S : entered \in Seq(S)
          BY DEF LearnInv, RingOK
        <5>3. ASSUME NEW call, entered' = Append(entered, call)
              PROVE  DOMAIN entered \subseteq DOMAIN entered' /\ \A k \in DOMAIN entered : entered'[k] = entered[k]
          <6>1. entered \in Seq(S \cup {call})
            BY <5>2
          <6> QED BY <5>3, <6>1
        <5> QED BY <5>1, <5>3
      <4> QED BY <3>2, <4>1, <4>2, <4>3 DEF Learns
    <3> QED BY <1>2, <3>1, <3>2 DEF Teach
  <2>3. Within(triggers, triggers')
    BY <2>1, <2>2 DEF Within
  <2>4. replied \subseteq replied' /\ Answered(load) \subseteq replied'
    BY <1>2 DEF Teach
  <2>5. ASSUME NEW q \in Protos, NEW t \in triggers'[q]
        PROVE  Loaded(q, t)' \/ Taught(q, t, replied', entered', triggers')
    <3>1. t.decode \in Decodes
      BY <2>2 DEF Named
    <3>2. CASE t \in triggers[q]
      <4>1. CASE Loaded(q, t)
        BY <4>1 DEF Loaded
      <4>2. CASE Taught(q, t, replied, entered, triggers)
        BY <2>2, <2>3, <2>4, <3>1, <4>2, TaughtStays DEF LearnInv
      <4> QED BY <3>2, <4>1, <4>2 DEF LearnInv, Caused
    <3>3. CASE t \in table[q] /\ t \notin triggers[q]
      <4>1. t.decode = MagicMatch(load) /\ MagicMatch(load) # NoName /\ table # triggers
        BY <1>2, <3>3 DEF Teach, Learned
      <4>2. [xid |-> 0, port |-> 0, magic |-> MagicMatch(load)] \in replied'
        BY <1>2, <4>1 DEF Teach, Identified
      <4> QED BY <4>1, <4>2 DEF Taught
    <3>4. CASE t \notin table[q]
      <4>1. Taught(q, t, Answered(load), entered, triggers')
        BY <2>2, <3>4
      <4>2. Within(triggers', triggers')
        BY DEF Within
      <4> QED BY <2>2, <2>4, <3>1, <4>1, <4>2, TaughtStays
    <3> QED BY <3>2, <3>3, <3>4
  <2>6. Caused'
    BY <2>5 DEF Caused, Taught, Lookup
  <2>7. TableOK(triggers)' /\ Named(triggers)' /\ RingOK(xid_map, entered)' /\ HintOK(xid_map)'
    BY <2>2 DEF TableOK, ArrayOK, Named, RingOK, HintOK, SlotIn, Turn
  <2> QED BY <2>6, <2>7 DEF LearnInv
<1> QED BY <1>1, <1>2 DEF Teaching

\* The line that LoadTrigger takes
Entry1 == IF todo # <<>> THEN Head(todo) ELSE CHOOSE line \in reload : TRUE

LEMMA LoadTakes ==
    ASSUME FilesInv, LoadTrigger
    PROVE  /\ Entry1 \in Range(setup.list) \cup Range(setup.services) \cup dump
           /\ triggers' = TriggerSet(triggers, Entry1.proto, Entry1.num, Entry1.name)
           /\ pc = "load"
           /\ UNCHANGED <<xid_map, entered, replied, setup, pc, dump, starts, knew>>
           /\ \/ todo # <<>> /\ todo' = Tail(todo) /\ reload' = reload
              \/ todo = <<>> /\ todo' = todo /\ Entry1 \in reload /\ reload' = reload \ {Entry1}
<1>1. CASE todo # <<>>
  <2>1. Head(todo) \in Range(setup.list) \cup Range(setup.services)
    BY <1>1 DEF FilesInv
  <2> QED BY <1>1, <2>1 DEF LoadTrigger, Entry1
<1>2. CASE todo = <<>>
  <2>1. Entry1 \in reload
    BY <1>2 DEF LoadTrigger, Entry1
  <2> QED BY <1>2, <2>1 DEF LoadTrigger, FilesInv, Entry1
<1> QED BY <1>1, <1>2

\* The names of the files are causes, and a dump names every trigger
LEMMA LoadKeepsCauses ==
    ASSUME LearnInv, FilesInv, LoadTrigger
    PROVE  LearnInv' /\ Within(triggers, triggers')
<1>1. /\ triggers' = TriggerSet(triggers, Entry1.proto, Entry1.num, Entry1.name)
      /\ Entry1 \in Range(setup.list) \cup Range(setup.services) \cup dump
      /\ UNCHANGED <<xid_map, entered, replied, setup, dump>>
  BY LoadTakes
<1>2. /\ TableOK(triggers') /\ Named(triggers') /\ Within(triggers, triggers')
      /\ \A q \in Protos : \A t \in triggers'[q] :
            t \in triggers[q] \/ (q = Entry1.proto /\ t = [num |-> Entry1.num, decode |-> Entry1.name])
  BY <1>1, TriggerSetOK, NamedGrows, TriggerSetAdds DEF LearnInv
<1>3. ASSUME NEW q \in Protos, NEW t \in triggers'[q]
      PROVE  Loaded(q, t)' \/ Taught(q, t, replied', entered', triggers')
  <2>1. CASE t \in triggers[q] /\ Loaded(q, t)
    BY <1>1, <2>1 DEF Loaded
  <2>2. CASE t \in triggers[q] /\ Taught(q, t, replied, entered, triggers)
    <3>1. t.decode \in Decodes
      BY <2>2 DEF LearnInv, Named
    <3> QED BY <1>1, <1>2, <2>2, <3>1, TaughtStays DEF LearnInv
  <2>3. CASE t \notin triggers[q]
    BY <1>1, <1>2, <2>3 DEF Loaded
  <2> QED BY <2>1, <2>2, <2>3 DEF LearnInv, Caused
<1>4. Caused'
  BY <1>3 DEF Caused, Taught, Lookup
<1>5. TableOK(triggers)' /\ Named(triggers)' /\ RingOK(xid_map, entered)' /\ HintOK(xid_map)'
  BY <1>1, <1>2 DEF LearnInv, TableOK, ArrayOK, Named, RingOK, HintOK, SlotIn, Turn
<1> QED BY <1>2, <1>4, <1>5 DEF LearnInv

LEMMA NothingLearned ==
    ASSUME NEW table, table = NoTriggers
    PROVE  TableOK(table) /\ Named(table)
<1>1. \A p \in Protos : ArrayOK({}, Capacity[p])
  BY TriggerAssumption, FS_EmptySet DEF ArrayOK
<1> QED BY <1>1 DEF NoTriggers, TableOK, Named

LEMMA EmptyHint == HintOK(EmptyMap)
  BY XidMapAssumption DEF HintOK, EmptyMap, Slots

LEMMA NextKeepsCauses ==
    ASSUME LearnInv, FilesInv, [Next]_vars
    PROVE  LearnInv'
<1>1. ASSUME UNCHANGED <<triggers, xid_map, entered, replied, setup, dump>> PROVE LearnInv'
  BY <1>1, TeachKeepsCauses DEF Teaching, learnVars
<1>2. CASE UNCHANGED vars
  BY <1>1, <1>2 DEF vars, learnVars, runVars
<1>3. CASE LoadTrigger
  BY <1>3, LoadKeepsCauses
<1>4. CASE StartListening \/ Die
  BY <1>1, <1>4 DEF StartListening, Die, learnVars
<1>5. CASE Hangup
  <2>1. UNCHANGED <<triggers, xid_map, entered, replied, setup>> /\ dump' = TriggerDump(triggers)
    BY <1>5 DEF Hangup, learnVars
  <2>2. ASSUME NEW q \in Protos, NEW t \in triggers[q] PROVE Loaded(q, t)'
    <3>1. [proto |-> q, num |-> t.num, name |-> t.decode] \in dump'
      BY <2>1 DEF TriggerDump
    <3> QED BY <3>1 DEF Loaded
  <2>3. Caused'
    BY <2>1, <2>2 DEF Caused
  <2>4. TableOK(triggers)' /\ Named(triggers)' /\ RingOK(xid_map, entered)' /\ HintOK(xid_map)'
    BY <2>1 DEF LearnInv, TableOK, ArrayOK, Named, RingOK, HintOK, SlotIn, Turn
  <2> QED BY <2>3, <2>4 DEF LearnInv
<1>6. CASE Restart
  <2>1. triggers' = NoTriggers /\ xid_map' = EmptyMap /\ entered' = <<>>
    BY <1>6 DEF Restart
  <2>2. TableOK(triggers') /\ Named(triggers') /\ RingOK(xid_map', entered') /\ HintOK(xid_map')
    BY <2>1, NothingLearned, EmptyRing, EmptyHint
  <2>3. Caused'
    BY <2>1 DEF Caused, NoTriggers
  <2>4. TableOK(triggers)' /\ Named(triggers)' /\ RingOK(xid_map, entered)' /\ HintOK(xid_map)'
    BY <2>2 DEF TableOK, ArrayOK, Named, RingOK, HintOK, SlotIn, Turn
  <2> QED BY <2>3, <2>4 DEF LearnInv
<1>7. CASE Running /\ Teaching
  BY <1>7, TeachKeepsCauses DEF Running
<1> QED BY <1>2, <1>3, <1>4, <1>5, <1>6, <1>7, NextTeaches DEF LearnInv

LEMMA ListIsLine ==
    ASSUME NEW S, NEW T, NEW list \in Seq(S), NEW more \in Seq(T)
    PROVE  list \o more \in Seq(S \cup T) /\ list \o <<>> \in Seq(S \cup T)
<1>1. list \in Seq(S \cup T) /\ more \in Seq(S \cup T)
  OBVIOUS
<1> QED BY <1>1

LEMMA InitFiles == Init => LearnInv /\ FilesInv
<1> SUFFICES ASSUME Init PROVE LearnInv /\ FilesInv
  OBVIOUS
<1>1. TableOK(triggers) /\ Named(triggers) /\ RingOK(xid_map, entered) /\ HintOK(xid_map)
  BY NothingLearned, EmptyRing, EmptyHint DEF Init
<1>2. Caused
  BY DEF Init, Caused, NoTriggers
<1>3. FilesInv
  <2>1. setup \in Setups /\ setup.list \in Seq(Range(setup.list)) /\ setup.services \in Seq(Range(setup.services))
    BY DsniffAssumption DEF Init
  <2>2. setup.list \o setup.services \in Seq(Range(setup.list) \cup Range(setup.services))
    BY <2>1, ListIsLine
  <2> QED BY <2>1, <2>2 DEF Init, FilesInv, Going
<1> QED BY <1>1, <1>2, <1>3 DEF LearnInv

LEMMA NextKeepsFiles ==
    ASSUME LearnInv, FilesInv, [Next]_vars
    PROVE  FilesInv'
<1>1. ASSUME UNCHANGED <<setup, todo, reload, dump>>,
             pc' \in Going => pc \in Going \/ (todo = <<>> /\ reload = {})
      PROVE  FilesInv'
  BY <1>1 DEF FilesInv
<1>2. CASE UNCHANGED vars
  BY <1>1, <1>2 DEF vars, runVars
<1>3. CASE LoadTrigger
  <2>1. UNCHANGED <<setup, dump>> /\ reload' \subseteq reload /\ pc' = "load"
    BY <1>3, LoadTakes
  <2>2. todo' = todo \/ (todo # <<>> /\ todo' = Tail(todo))
    BY <1>3, LoadTakes
  <2>3. todo' \in Seq(Range(setup.list) \cup Range(setup.services))
    BY <2>2 DEF FilesInv
  <2> QED BY <2>1, <2>3 DEF FilesInv, Going
<1>4. CASE StartListening \/ Die
  BY <1>1, <1>4 DEF StartListening, Die, Going
<1>5. CASE Hangup
  <2>1. reload = {}
    BY <1>5 DEF Hangup, FilesInv, Going
  <2> QED BY <1>5, <2>1 DEF Hangup, FilesInv
<1>6. CASE Restart
  <2>1. setup \in Setups /\ setup.list \in Seq(Range(setup.list)) /\ setup.services \in Seq(Range(setup.services))
    BY DsniffAssumption DEF FilesInv
  <2>2. /\ setup.list \o setup.services \in Seq(Range(setup.list) \cup Range(setup.services))
        /\ setup.list \o <<>> \in Seq(Range(setup.list) \cup Range(setup.services))
    BY <2>1, ListIsLine
  <2>3. /\ todo' \in {setup.list \o setup.services, setup.list \o <<>>}
        /\ reload' = dump /\ dump' = dump /\ setup' = setup /\ pc' = "load"
    BY <1>6 DEF Restart
  <2> QED BY <2>1, <2>2, <2>3 DEF FilesInv, Going
<1>7. CASE Running /\ Teaching
  BY <1>1, <1>7 DEF Running
<1> QED BY <1>2, <1>3, <1>4, <1>5, <1>6, <1>7, NextTeaches DEF LearnInv

\* In a table there is nothing that no file and no packet has taught (trigger_set_magic,
\* trigger_rpc): whatever was started with, heard, dumped and started again
THEOREM PortsHaveCauses == Spec => []LearnedHasCause
<1>1. Init => LearnInv /\ FilesInv
  BY InitFiles
<1>2. LearnInv /\ FilesInv /\ [Next]_vars => (LearnInv /\ FilesInv)'
  BY NextKeepsCauses, NextKeepsFiles
<1>3. LearnInv => LearnedHasCause
  <2> SUFFICES ASSUME LearnInv, NEW p \in {"udp", "tcp"}, NEW t \in triggers[p]
               PROVE  \/ \E line \in Range(setup.list) \cup Range(setup.services) \cup dump :
                              line.proto = p /\ line.num = t.num
                      \/ \E r \in replied :
                          \/ r.magic = t.decode
                          \/ /\ t.num \in {r.port, 0 - r.port}
                             /\ \E k \in DOMAIN entered :
                                  /\ entered[k].xid = r.xid
                                  /\ entered[k].call.prog = "portmap" =>
                                      /\ entered[k].call.proto = p
                                      /\ Lookup(triggers, "rpc", entered[k].call.program) = t.decode
    BY DEF LearnedHasCause
  <2>1. Loaded(p, t) \/ Taught(p, t, replied, entered, triggers)
    BY DEF LearnInv, Caused, Protos
  <2> QED BY <2>1 DEF Loaded, Taught
<1> QED BY <1>1, <1>2, <1>3, PTL DEF Spec

-----------------------------------------------------------------------------
(* What is known again after a restart.  The -t list comes first, into empty   *)
(* tables, at every start: so what it leaves is the same every time, and is in *)
(* the tables that were dumped.  The lines of the dump therefore never meet a  *)
(* trigger that was not dumped, and what was dumped fitted.                    *)

\* The tables f[0], f[1] .. f[k] while the first k lines of the list are loaded
IsTrace(f, k) ==
    /\ f[0] = NoTriggers
    /\ \A j \in 1 .. k : f[j] = TriggerSet(f[j - 1], setup.list[j].proto, setup.list[j].num, setup.list[j].name)

Length == Len(setup.list)

\* A table that holds all that the list leaves
Based(table) == \E f : IsTrace(f, Length) /\ Within(f[Length], table)

LEMMA TraceIsUnique ==
    ASSUME NEW k \in Nat, NEW n \in Nat, k <= n, NEW f, IsTrace(f, n), NEW g, IsTrace(g, k)
    PROVE  \A j \in 0 .. k : f[j] = g[j]
<1> DEFINE S == {j \in 0 .. k : f[j] # g[j]}
<1> SUFFICES ASSUME S # {} PROVE FALSE
  OBVIOUS
<1>0. S \subseteq Nat
  OBVIOUS
<1>1. PICK m \in S : \A j \in S : m <= j
  <2> HIDE DEF S
  <2> QED BY <1>0, NatMin
<1>2. m # 0
  BY DEF IsTrace
<1>3. m - 1 \in 0 .. k /\ m \in 1 .. k /\ m \in 1 .. n /\ ~(m <= m - 1)
  BY <1>2
<1>4. f[m - 1] = g[m - 1]
  BY <1>1, <1>3
<1> QED BY <1>1, <1>3, <1>4 DEF IsTrace

LEMMA TraceIsOK ==
    ASSUME NEW k \in Nat, NEW f, IsTrace(f, k)
    PROVE  \A j \in 0 .. k : TableOK(f[j]) /\ Named(f[j])
<1> DEFINE S == {j \in 0 .. k : ~(TableOK(f[j]) /\ Named(f[j]))}
<1> SUFFICES ASSUME S # {} PROVE FALSE
  OBVIOUS
<1>0. S \subseteq Nat
  OBVIOUS
<1>1. PICK m \in S : \A j \in S : m <= j
  <2> HIDE DEF S
  <2> QED BY <1>0, NatMin
<1>2. m # 0
  BY NothingLearned DEF IsTrace
<1>3. m - 1 \in 0 .. k /\ m \in 1 .. k /\ ~(m <= m - 1)
  BY <1>2
<1>4. TableOK(f[m - 1]) /\ Named(f[m - 1])
  BY <1>1, <1>3
<1>5. TableOK(f[m]) /\ Named(f[m])
  BY <1>3, <1>4, TriggerSetOK, NamedGrows DEF IsTrace
<1> QED BY <1>5

LEMMA TraceGrows ==
    ASSUME NEW k \in Nat, NEW f, IsTrace(f, k), NEW i \in 0 .. k
    PROVE  Within(f[i], f[k])
<1> DEFINE S == {j \in i .. k : ~Within(f[i], f[j])}
<1> SUFFICES ASSUME S # {} PROVE FALSE
  BY DEF Within
<1>0. S \subseteq Nat
  OBVIOUS
<1>1. PICK m \in S : \A j \in S : m <= j
  <2> HIDE DEF S
  <2> QED BY <1>0, NatMin
<1>2. m # i
  BY DEF Within
<1>3. m - 1 \in i .. k /\ m - 1 \in 0 .. k /\ m \in 1 .. k /\ ~(m <= m - 1)
  BY <1>2
<1>4. Within(f[i], f[m - 1])
  BY <1>1, <1>3
<1>5. Within(f[m - 1], f[m])
  <2>1. TableOK(f[m - 1])
    BY <1>3, TraceIsOK
  <2>2. f[m] = TriggerSet(f[m - 1], setup.list[m].proto, setup.list[m].num, setup.list[m].name)
    BY <1>3 DEF IsTrace
  <2> QED BY <2>1, <2>2, TriggerSetAdds
<1>6. Within(f[i], f[m])
  BY <1>4, <1>5 DEF Within
<1> QED BY <1>6

\* Whatever the list has left so far is in every table that is based on it
LEMMA TraceIsIn ==
    ASSUME Length \in Nat, NEW k \in 0 .. Length, NEW f, IsTrace(f, k), NEW table, Based(table)
    PROVE  Within(f[k], table)
<1>1. PICK g : IsTrace(g, Length) /\ Within(g[Length], table)
  BY DEF Based
<1>2. g[k] = f[k]
  BY <1>1, TraceIsUnique
<1>3. Within(g[k], g[Length])
  BY <1>1, TraceGrows
<1> QED BY <1>1, <1>2, <1>3 DEF Within

LEMMA TraceGoesOn ==
    ASSUME Length \in Nat, NEW j \in 0 .. Length - 1, NEW f, IsTrace(f, j)
    PROVE  \E g : /\ IsTrace(g, j + 1)
                  /\ g[j + 1] = TriggerSet(f[j], setup.list[j + 1].proto, setup.list[j + 1].num, setup.list[j + 1].name)
<1> DEFINE next == TriggerSet(f[j], setup.list[j + 1].proto, setup.list[j + 1].num, setup.list[j + 1].name)
           g == [i \in 0 .. j + 1 |-> IF i <= j THEN f[i] ELSE next]
<1> HIDE DEF next
<1>1. g[j + 1] = next /\ \A i \in 0 .. j : g[i] = f[i]
  OBVIOUS
<1> HIDE DEF g
<1>2. ASSUME NEW i \in 1 .. j + 1
      PROVE  g[i] = TriggerSet(g[i - 1], setup.list[i].proto, setup.list[i].num, setup.list[i].name)
  <2>1. CASE i = j + 1
    <3>1. i - 1 = j /\ g[j] = f[j]
      BY <1>1, <2>1
    <3> QED BY <1>1, <2>1, <3>1 DEF next
  <2>2. CASE i # j + 1
    <3>1. i \in 1 .. j /\ i - 1 \in 0 .. j /\ i \in 0 .. j
      BY <2>2
    <3> QED BY <1>1, <3>1 DEF IsTrace
  <2> QED BY <2>1, <2>2
<1>3. g[0] = NoTriggers
  BY <1>1 DEF IsTrace
<1>4. IsTrace(g, j + 1)
  BY <1>2, <1>3 DEF IsTrace
<1> QED BY <1>1, <1>4 DEF next

\* The list is being loaded: its first j lines are in the tables, and the others are next
Listing ==
    \E f : \E j \in 0 .. Length :
        /\ IsTrace(f, j) /\ triggers = f[j]
        /\ Len(todo) >= Length - j
        /\ dump # {} => Len(todo) = Length - j
        /\ \A i \in 1 .. Length - j : todo[i] = setup.list[j + i]

BaseInv ==
    \/ pc = "load" /\ Listing
    \/ Based(triggers) /\ (pc = "load" /\ dump # {} => todo = <<>>)

\* What was dumped
KnewInv ==
    /\ TableOK(knew) /\ Named(knew)
    /\ dump = TriggerDump(knew)
    /\ dump # {} => Based(knew)

Line(p, t) == [proto |-> p, num |-> t.num, name |-> t.decode]

\* While the dump is loaded, and after it
ReloadInv ==
    /\ pc \in Going \cup {"load", "stopped"}
    /\ pc = "load" /\ dump # {} =>
        /\ Within(triggers, knew)
        /\ \A p \in Protos : \A t \in knew[p] : Has(triggers, p, t.num) \/ Line(p, t) \in reload
    /\ pc \in Going => \A p \in Protos : \A t \in knew[p] : Has(triggers, p, t.num)

DumpInv == LearnInv /\ FilesInv /\ BaseInv /\ KnewInv /\ ReloadInv

LEMMA LengthIsNat == ASSUME FilesInv PROVE Length \in Nat /\ setup.list \in Seq(Range(setup.list))
  BY DsniffAssumption DEF FilesInv, Length

LEMMA DumpIsLines ==
    ASSUME NEW table
    PROVE  /\ \A p \in Protos : \A t \in table[p] : Line(p, t) \in TriggerDump(table)
           /\ \A line \in TriggerDump(table) : \E p \in Protos : \E t \in table[p] : line = Line(p, t)
  BY DEF TriggerDump, Line

LEMMA HasStays ==
    ASSUME NEW table, NEW more, Within(table, more), NEW p \in Protos, NEW num, Has(table, p, num)
    PROVE  Has(more, p, num)
  BY DEF Within, Has

LEMMA BasedStays ==
    ASSUME UNCHANGED setup, Based(triggers), Within(triggers, triggers')
    PROVE  Based(triggers)'
<1>1. PICK f : IsTrace(f, Length) /\ Within(f[Length], triggers)
  BY DEF Based
<1>2. IsTrace(f, Length)' /\ Length' = Length
  BY <1>1 DEF IsTrace, Length
<1>3. Within(f[Length], triggers')
  BY <1>1 DEF Within
<1> QED BY <1>2, <1>3 DEF Based, Within

\* One more line of the list
LEMMA ListingGoesOn ==
    ASSUME FilesInv, pc = "load", LoadTrigger, NEW f, NEW j \in 0 .. Length - 1, IsTrace(f, j), triggers = f[j],
           Len(todo) >= Length - j,
           dump # {} => Len(todo) = Length - j,
           \A i \in 1 .. Length - j : todo[i] = setup.list[j + i]
    PROVE  /\ Listing'
           /\ \E g : IsTrace(g, j + 1) /\ triggers' = g[j + 1]
<1>0. Length \in Nat /\ Len(todo) \in Nat
  BY LengthIsNat DEF FilesInv
<1>1. todo # <<>> /\ todo \in Seq(Range(setup.list) \cup Range(setup.services))
  BY <1>0 DEF FilesInv
<1>2. Head(todo) = setup.list[j + 1]
  <2>1. Head(todo) = todo[1]
    BY <1>1
  <2>2. 1 \in 1 .. Length - j
    BY <1>0
  <2> QED BY <2>1, <2>2
<1>3. PICK g : IsTrace(g, j + 1)
               /\ g[j + 1] = TriggerSet(f[j], setup.list[j + 1].proto, setup.list[j + 1].num, setup.list[j + 1].name)
  BY <1>0, TraceGoesOn
<1>4. /\ triggers' = TriggerSet(triggers, Head(todo).proto, Head(todo).num, Head(todo).name)
      /\ todo' = Tail(todo) /\ setup' = setup /\ dump' = dump
  BY <1>1 DEF LoadTrigger
<1>5. triggers' = g[j + 1]
  BY <1>2, <1>3, <1>4
<1>6. Len(Tail(todo)) = Len(todo) - 1
  BY <1>1
<1>7. ASSUME NEW i \in 1 .. Length - (j + 1)
      PROVE  Tail(todo)[i] = setup.list[(j + 1) + i]
  <2>1. i + 1 \in 1 .. Length - j /\ i \in 1 .. Len(Tail(todo)) /\ j + (i + 1) = (j + 1) + i
    BY <1>0, <1>6
  <2>2. Tail(todo)[i] = todo[i + 1]
    BY <1>1, <2>1
  <2> QED BY <2>1, <2>2
<1>8. Length' = Length /\ IsTrace(g, j + 1)'
  BY <1>3, <1>4 DEF Length, IsTrace
<1>9. /\ j + 1 \in 0 .. Length
      /\ Len(Tail(todo)) >= Length - (j + 1)
      /\ dump # {} => Len(Tail(todo)) = Length - (j + 1)
  BY <1>0, <1>6
<1>10. Listing'
  BY <1>4, <1>5, <1>7, <1>8, <1>9 DEF Listing
<1> QED BY <1>3, <1>5, <1>10

\* After the last line
LEMMA ListingEnds ==
    ASSUME FilesInv, NEW f, IsTrace(f, Length), triggers = f[Length], dump # {} => Len(todo) = 0
    PROVE  Based(triggers) /\ (dump # {} => todo = <<>>)
<1>1. Based(triggers)
  BY DEF Based, Within
<1>2. dump # {} => todo = <<>>
  BY DEF FilesInv
<1> QED BY <1>1, <1>2

LEMMA LoadKeepsBase ==
    ASSUME LearnInv, FilesInv, BaseInv, LoadTrigger
    PROVE  BaseInv'
<1>0. Length \in Nat /\ pc = "load" /\ pc' = pc /\ UNCHANGED <<setup, dump>>
  BY LengthIsNat DEF LoadTrigger
<1>1. ASSUME Based(triggers), dump # {} => todo = <<>>
      PROVE  BaseInv'
  <2>1. Within(triggers, triggers')
    BY LoadTakes, TriggerSetAdds DEF LearnInv
  <2>2. dump # {} => todo' = <<>>
    BY <1>1, LoadTakes
  <2> QED BY <1>0, <1>1, <2>1, <2>2, BasedStays DEF BaseInv
<1>2. ASSUME Listing
      PROVE  BaseInv'
  <2>0. PICK f : \E j \in 0 .. Length :
            /\ IsTrace(f, j) /\ triggers = f[j]
            /\ Len(todo) >= Length - j
            /\ dump # {} => Len(todo) = Length - j
            /\ \A i \in 1 .. Length - j : todo[i] = setup.list[j + i]
    BY <1>2 DEF Listing
  <2>1. PICK j \in 0 .. Length :
            /\ IsTrace(f, j) /\ triggers = f[j]
            /\ Len(todo) >= Length - j
            /\ dump # {} => Len(todo) = Length - j
            /\ \A i \in 1 .. Length - j : todo[i] = setup.list[j + i]
    BY <2>0
  <2>2. CASE j = Length
    <3>1. dump # {} => Len(todo) = 0
      BY <1>0, <2>1, <2>2
    <3>2. Based(triggers) /\ (dump # {} => todo = <<>>)
      BY <2>1, <2>2, <3>1, ListingEnds
    <3> QED BY <1>1, <3>2
  <2>3. CASE j # Length
    <3>1. j \in 0 .. Length - 1
      BY <1>0, <2>3
    <3>2. Listing'
      BY <1>0, <2>1, <3>1, ListingGoesOn
    <3> QED BY <1>0, <3>2 DEF BaseInv
  <2> QED BY <2>2, <2>3
<1> QED BY <1>0, <1>1, <1>2 DEF BaseInv

\* What is loaded first is the list
LEMMA ListComesFirst ==
    ASSUME NEW S, NEW s \in Seq(S), NEW T, NEW t \in Seq(T)
    PROVE  Len(s \o t) >= Len(s) /\ \A i \in 1 .. Len(s) : (s \o t)[i] = s[i]
<1>1. s \in Seq(S \cup T) /\ t \in Seq(S \cup T)
  OBVIOUS
<1>2. Len(s \o t) = Len(s) + Len(t)
  BY <1>1
<1>5. Len(s) \in Nat /\ Len(t) \in Nat
  BY <1>1
<1>3. ASSUME NEW i \in 1 .. Len(s)
      PROVE  (s \o t)[i] = s[i]
  BY <1>1, <1>5
<1>4. Len(s \o t) >= Len(s)
  BY <1>2, <1>5
<1> QED BY <1>3, <1>4

LEMMA ListingBegins ==
    ASSUME FilesInv, UNCHANGED <<setup, dump>>, triggers' = NoTriggers,
           todo' = setup.list \o (IF dump = {} THEN setup.services ELSE <<>>)
    PROVE  Listing'
<1> DEFINE f == [i \in {0} |-> NoTriggers]
           rest == IF dump = {} THEN setup.services ELSE <<>>
<1>1. Length \in Nat /\ setup.list \in Seq(Range(setup.list)) /\ setup.services \in Seq(Range(setup.services))
  BY LengthIsNat, DsniffAssumption DEF FilesInv
<1>2. rest \in Seq(Range(setup.services)) /\ (dump # {} => rest = <<>>)
  <2>1. CASE dump = {}
    BY <1>1, <2>1
  <2>2. CASE dump # {}
    <3>1. rest = <<>>
      BY <2>2
    <3>2. <<>> \in Seq(Range(setup.services))
      OBVIOUS
    <3> QED BY <2>2, <3>1, <3>2
  <2> QED BY <2>1, <2>2
<1>3. IsTrace(f, 0)' /\ triggers' = f[0] /\ 0 \in 0 .. Length /\ Length' = Length
  BY <1>1 DEF IsTrace, Length
<1> HIDE DEF f, rest
<1>4. Len(todo') >= Length /\ \A i \in 1 .. Length : todo'[i] = setup.list[i]
  BY <1>1, <1>2, ListComesFirst DEF Length, rest
<1>5. dump # {} => Len(todo') = Length
  <2>1. dump # {} => setup.list \o <<>> = setup.list
    BY <1>1
  <2> QED BY <1>2, <2>1 DEF Length, rest
<1>0. Length - 0 = Length
  BY <1>1
<1>6. ASSUME NEW i \in 1 .. Length - 0
      PROVE  todo'[i] = setup.list[0 + i]
  <2>1. 0 + i = i /\ i \in 1 .. Length
    BY <1>0
  <2> QED BY <1>4, <2>1
<1>7. Len(todo') >= Length - 0 /\ (dump # {} => Len(todo') = Length - 0)
  BY <1>0, <1>4, <1>5
<1> QED BY <1>3, <1>6, <1>7 DEF Listing

\* One more line of the list or of the dump
LEMMA LoadKeepsReload ==
    ASSUME LearnInv, FilesInv, BaseInv, KnewInv, ReloadInv, LoadTrigger
    PROVE  KnewInv' /\ ReloadInv'
<1>0. Length \in Nat /\ pc = "load" /\ pc' = "load" /\ UNCHANGED <<setup, dump, knew>> /\ TableOK(triggers)
  BY LengthIsNat DEF LoadTrigger, LearnInv
<1>1. KnewInv'
  <2>1. dump # {} => Based(knew)'
    BY <1>0 DEF KnewInv, Based, IsTrace, Length
  <2> QED BY <1>0, <2>1 DEF KnewInv
<1>2. Within(triggers, triggers')
  BY <1>0, LoadTakes, TriggerSetAdds
<1>3. ASSUME dump # {}
      PROVE  /\ Within(triggers', knew)
             /\ \A p \in Protos : \A t \in knew[p] : Has(triggers', p, t.num) \/ Line(p, t) \in reload'
  <2>0. /\ Within(triggers, knew) /\ Based(knew) /\ TableOK(knew) /\ Named(knew)
        /\ \A p \in Protos : \A t \in knew[p] : Has(triggers, p, t.num) \/ Line(p, t) \in reload
    BY <1>0, <1>3 DEF ReloadInv, KnewInv
  <2>1. CASE todo # <<>>
    <3>1. reload' = reload
      BY <2>1 DEF LoadTrigger
    <3>2. PICK f : \E j \in 0 .. Length :
              /\ IsTrace(f, j) /\ triggers = f[j]
              /\ Len(todo) >= Length - j
              /\ dump # {} => Len(todo) = Length - j
              /\ \A i \in 1 .. Length - j : todo[i] = setup.list[j + i]
      BY <1>0, <1>3, <2>1 DEF BaseInv, Listing
    <3>3. PICK j \in 0 .. Length :
              /\ IsTrace(f, j) /\ triggers = f[j]
              /\ Len(todo) >= Length - j
              /\ dump # {} => Len(todo) = Length - j
              /\ \A i \in 1 .. Length - j : todo[i] = setup.list[j + i]
      BY <3>2
    <3>4. Len(todo) # 0
      BY <2>1 DEF FilesInv
    <3>5. j \in 0 .. Length - 1
      BY <1>0, <1>3, <3>3, <3>4
    <3>6. PICK g : IsTrace(g, j + 1) /\ triggers' = g[j + 1]
      BY <1>0, <3>3, <3>5, ListingGoesOn
    <3>7. j + 1 \in 0 .. Length
      BY <1>0, <3>5
    <3>8. Within(triggers', knew)
      BY <1>0, <2>0, <3>6, <3>7, TraceIsIn
    <3> QED BY <1>2, <2>0, <3>1, <3>8, HasStays
  <2>2. CASE todo = <<>>
    <3>1. /\ Entry1 \in reload /\ reload' = reload \ {Entry1}
          /\ triggers' = TriggerSet(triggers, Entry1.proto, Entry1.num, Entry1.name)
      BY <2>2, LoadTakes
    <3>2. Entry1 \in TriggerDump(knew)
      BY <3>1 DEF FilesInv, KnewInv
    <3>3. PICK p \in Protos : \E t \in knew[p] : Entry1 = Line(p, t)
      BY <3>2, DumpIsLines
    <3>4. PICK t \in knew[p] : Entry1 = Line(p, t)
      BY <3>3
    <3>5. /\ Entry1.proto = p /\ Entry1.num = t.num /\ Entry1.name = t.decode
          /\ t = [num |-> t.num, decode |-> t.decode] /\ t.decode \in Decodes
      BY <2>0, <3>4 DEF Line, Named
    <3>6. /\ triggers' = TriggerSet(triggers, p, t.num, t.decode)
      BY <3>1, <3>5
    <3>7. Within(triggers', knew)
      <4>1. \A q \in Protos : \A u \in triggers'[q] :
                u \in triggers[q] \/ (q = p /\ u = [num |-> t.num, decode |-> t.decode])
        BY <1>0, <3>6, TriggerSetAdds
      <4> QED BY <2>0, <3>5, <4>1 DEF Within
    <3>8. Has(triggers', p, t.num)
      <4>1. Has(triggers', p, t.num) \/ (triggers' = triggers /\ Cardinality(triggers[p]) = Capacity[p])
        BY <1>0, <3>5, <3>6, TriggerSetAdds
      <4>2. CASE triggers' = triggers /\ Cardinality(triggers[p]) = Capacity[p]
        <5>1. /\ IsFiniteSet(knew[p]) /\ triggers[p] \subseteq knew[p]
              /\ Cardinality(knew[p]) <= Capacity[p]
          BY <2>0 DEF TableOK, ArrayOK, Within
        <5>2. Cardinality(knew[p]) \in Nat /\ Cardinality(triggers[p]) \in Nat
          BY <5>1, FS_Subset, FS_CardinalityType
        <5>3. triggers[p] = knew[p]
          <6>1. Cardinality(triggers[p]) = Cardinality(knew[p])
            BY <4>2, <5>1, <5>2, FS_Subset
          <6> QED BY <5>1, <6>1, FS_Subset
        <5> QED BY <4>2, <5>3 DEF Has
      <4> QED BY <4>1, <4>2
    <3>9. ASSUME NEW q \in Protos, NEW u \in knew[q]
          PROVE  Has(triggers', q, u.num) \/ Line(q, u) \in reload'
      <4>1. CASE Has(triggers, q, u.num)
        BY <1>2, <4>1, HasStays
      <4>2. CASE Line(q, u) \in reload /\ Line(q, u) # Entry1
        BY <3>1, <4>2
      <4>3. CASE Line(q, u) = Entry1
        <5>1. q = p /\ u.num = t.num
          BY <3>5, <4>3 DEF Line
        <5> QED BY <3>8, <5>1
      <4> QED BY <2>0, <4>1, <4>2, <4>3
    <3> QED BY <3>7, <3>9
  <2> QED BY <2>1, <2>2
<1>4. ReloadInv'
  <2>1. pc' = "load" /\ pc' \notin Going
    BY <1>0 DEF Going
  <2>2. dump' # {} => dump # {}
    BY <1>0
  <2>3. Within(triggers, knew)' <=> Within(triggers', knew)
    BY <1>0 DEF Within
  <2>4. \A p \in Protos : \A t \in knew[p] :
            Has(triggers, p, t.num)' <=> Has(triggers', p, t.num)
    BY <1>0 DEF Has
  <2> QED BY <1>0, <1>3, <2>1, <2>2, <2>3 DEF ReloadInv, Has
<1> QED BY <1>1, <1>4

LEMMA NextKeepsDump ==
    ASSUME DumpInv, [Next]_vars
    PROVE  BaseInv' /\ KnewInv' /\ ReloadInv'
<1>0. LearnInv /\ FilesInv /\ BaseInv /\ KnewInv /\ ReloadInv
  BY DEF DumpInv
<1>1. ASSUME UNCHANGED <<setup, knew, dump>>
      PROVE  KnewInv'
  BY <1>0, <1>1 DEF KnewInv, Based, IsTrace, Length
<1>2. CASE UNCHANGED vars
  <2>1. UNCHANGED <<setup, pc, todo, reload, dump, knew, triggers>>
    BY <1>2 DEF vars, learnVars, runVars
  <2>2. BaseInv'
    BY <1>0, <2>1 DEF BaseInv, Listing, Based, IsTrace, Length
  <2>3. ReloadInv'
    BY <1>0, <2>1 DEF ReloadInv
  <2> QED BY <1>1, <2>1, <2>2, <2>3
<1>3. CASE LoadTrigger
  BY <1>0, <1>3, LoadKeepsBase, LoadKeepsReload
<1>4. CASE StartListening
  <2>1. pc = "load" /\ pc' = "run" /\ todo = <<>> /\ reload = {} /\ UNCHANGED <<setup, todo, dump, knew, triggers>>
    BY <1>4 DEF StartListening, learnVars
  <2>2. Based(triggers)
    <3>1. CASE Listing
      <4>1. PICK f : \E j \in 0 .. Length :
                /\ IsTrace(f, j) /\ triggers = f[j]
                /\ Len(todo) >= Length - j
        BY <3>1 DEF Listing
      <4>2. PICK j \in 0 .. Length : IsTrace(f, j) /\ triggers = f[j] /\ Len(todo) >= Length - j
        BY <4>1
      <4>3. Len(todo) = 0 /\ Length \in Nat
        BY <1>0, <2>1, LengthIsNat
      <4>4. j = Length
        BY <4>2, <4>3
      <4> QED BY <4>2, <4>4 DEF Based, Within
    <3> QED BY <1>0, <3>1 DEF BaseInv
  <2>3. BaseInv'
    <3>1. Based(triggers)'
      BY <2>1, <2>2, BasedStays DEF Within
    <3> QED BY <2>1, <3>1 DEF BaseInv
  <2>4. ASSUME NEW p \in Protos, NEW t \in knew[p]
        PROVE  Has(triggers, p, t.num)
    <3>1. Line(p, t) \in dump
      BY <1>0, DumpIsLines DEF KnewInv
    <3> QED BY <1>0, <2>1, <3>1 DEF ReloadInv
  <2>5. ReloadInv'
    BY <2>1, <2>4 DEF ReloadInv, Going, Has
  <2> QED BY <1>1, <2>1, <2>3, <2>5
<1>5. CASE Hangup
  <2>1. /\ pc = "run" /\ pc' = "run" /\ UNCHANGED <<setup, todo, triggers>>
        /\ dump' = TriggerDump(triggers) /\ knew' = triggers
    BY <1>5 DEF Hangup, learnVars
  <2>2. Based(triggers)
    BY <1>0, <2>1 DEF BaseInv
  <2>3. Based(triggers)'
    BY <2>1, <2>2, BasedStays DEF Within
  <2>4. Based(knew)'
    BY <2>1, <2>3 DEF Based, Within
  <2>5. KnewInv'
    BY <1>0, <2>1, <2>4 DEF KnewInv, LearnInv
  <2>6. BaseInv'
    BY <2>1, <2>3 DEF BaseInv
  <2>7. ReloadInv'
    BY <2>1 DEF ReloadInv, Going, Has
  <2> QED BY <2>5, <2>6, <2>7
<1>6. CASE Die
  <2>1. pc = "run" /\ pc' = "stopped" /\ UNCHANGED <<setup, dump, knew, triggers>>
    BY <1>6 DEF Die, learnVars
  <2>2. Based(triggers)'
    BY <1>0, <2>1, BasedStays DEF BaseInv, Within
  <2>3. BaseInv'
    BY <2>1, <2>2 DEF BaseInv
  <2>4. ReloadInv'
    BY <2>1 DEF ReloadInv, Going
  <2> QED BY <1>1, <2>1, <2>3, <2>4
<1>7. CASE Restart
  <2>1. /\ pc' = "load" /\ UNCHANGED <<setup, dump, knew>> /\ triggers' = NoTriggers /\ reload' = dump
        /\ todo' = setup.list \o (IF dump = {} THEN setup.services ELSE <<>>)
    BY <1>7 DEF Restart
  <2>2. Listing'
    BY <1>0, <2>1, ListingBegins
  <2>3. BaseInv'
    BY <2>1, <2>2 DEF BaseInv
  <2>4. ASSUME NEW p \in Protos, NEW t \in knew[p]
        PROVE  Line(p, t) \in dump
    BY <1>0, DumpIsLines DEF KnewInv
  <2>5. ReloadInv'
    BY <2>1, <2>4 DEF ReloadInv, Going, Within, NoTriggers
  <2> QED BY <1>1, <2>1, <2>3, <2>5
<1>8. CASE Running /\ Teaching
  <2>1. /\ pc \in Going /\ pc' \in Going /\ pc # "load" /\ pc' # "load"
        /\ UNCHANGED <<setup, todo, reload, dump, knew>>
    BY <1>8 DEF Running, Going
  <2>2. Within(triggers, triggers')
    BY <1>0, <1>8, TeachGrows
  <2>3. BaseInv'
    <3>1. Based(triggers)'
      BY <1>0, <2>1, <2>2, BasedStays DEF BaseInv
    <3> QED BY <2>1, <3>1 DEF BaseInv
  <2>4. \A p \in Protos : \A t \in knew[p] : Has(triggers', p, t.num)
    BY <1>0, <2>1, <2>2, HasStays DEF ReloadInv
  <2>5. ReloadInv'
    BY <2>1, <2>4 DEF ReloadInv, Has
  <2> QED BY <1>1, <2>1, <2>3, <2>5
<1>9. TableOK(triggers) /\ Named(triggers)
  BY <1>0 DEF LearnInv
<1> QED BY <1>2, <1>3, <1>4, <1>5, <1>6, <1>7, <1>8, <1>9, NextTeaches

\* Before the first packet, the lines of the list are the next ones
LEMMA InitDump == Init => DumpInv
<1> SUFFICES ASSUME Init PROVE DumpInv
  OBVIOUS
<1>1. LearnInv /\ FilesInv
  BY InitFiles
<1>2. KnewInv
  <2>1. TableOK(knew) /\ Named(knew)
    BY NothingLearned DEF Init
  <2>2. dump = TriggerDump(knew)
    BY DEF Init, TriggerDump, NoTriggers
  <2> QED BY <2>1, <2>2 DEF Init, KnewInv
<1>3. BaseInv
  <2>1. Length \in Nat /\ setup.list \in Seq(Range(setup.list)) /\ setup.services \in Seq(Range(setup.services))
    BY <1>1, LengthIsNat, DsniffAssumption DEF FilesInv
  <2>2. todo = setup.list \o setup.services
    BY DEF Init
  <2>3. Len(todo) >= Length /\ \A i \in 1 .. Length : todo[i] = setup.list[i]
    BY <2>1, <2>2, ListComesFirst DEF Length
  <2>4. Listing
    <3> DEFINE f == [i \in {0} |-> NoTriggers]
    <3>1. IsTrace(f, 0) /\ triggers = f[0] /\ 0 \in 0 .. Length
      BY <2>1 DEF IsTrace, Init
    <3> HIDE DEF f
    <3>0. Length - 0 = Length
      BY <2>1
    <3>2. ASSUME NEW i \in 1 .. Length - 0
          PROVE  todo[i] = setup.list[0 + i]
      <4>1. 0 + i = i /\ i \in 1 .. Length
        BY <3>0
      <4> QED BY <2>3, <4>1
    <3>3. Len(todo) >= Length - 0 /\ dump = {}
      BY <2>3, <3>0 DEF Init
    <3> QED BY <3>1, <3>2, <3>3 DEF Listing
  <2> QED BY <2>4 DEF Init, BaseInv
<1>4. ReloadInv
  BY DEF Init, ReloadInv, Going
<1> QED BY <1>1, <1>2, <1>3, <1>4 DEF DumpInv

\* After a restart dsniff has a decoder for every number it had one for at the last
\* SIGHUP (trigger_dump, trigger_init_list, trigger_init_services): the dump holds
\* what it knew, nothing that is loaded first takes the place of a line of it, and
\* what fitted the arrays fits them again
THEOREM DumpIsReloaded == Spec => []DumpReloads
<1>1. Init => DumpInv
  BY InitDump
<1>2. DumpInv /\ [Next]_vars => DumpInv'
  BY NextKeepsCauses, NextKeepsFiles, NextKeepsDump DEF DumpInv
<1>3. DumpInv => DumpReloads
  <2> SUFFICES ASSUME DumpInv, pc \notin {"load", "stopped"}, NEW p \in Protos, NEW t \in knew[p]
               PROVE  Lookup(triggers, p, t.num) # NoName
    BY DEF DumpReloads
  <2>1. Has(triggers, p, t.num) /\ Named(triggers)
    BY DEF DumpInv, ReloadInv, LearnInv
  <2> QED BY <2>1, HasIsKnown
<1> QED BY <1>1, <1>2, <1>3, PTL DEF Spec

\* The tables of the triggers, whatever is on the wire and however often dsniff is
\* started: one decoder for a number, a cause for each port, and a dump that loads
THEOREM TablesTrue == Spec => []TablesAreTrue
<1>1. OneDecoderPerNumber /\ LearnedHasCause /\ DumpReloads => TablesAreTrue
  BY DEF TablesAreTrue
<1> QED BY <1>1, OneDecoder, PortsHaveCauses, DumpIsReloaded, PTL
-----------------------------------------------------------------------------
(* Half-duplex streams.  What qsort and bsearch return, for any segments,  *)
(* and what follows for the streams in the table and those handed over.    *)

\* Segments: a sequence of records that are numbered
SegsOK(seg) == \E S : seg \in Seq(S) /\ \A s \in S : s.seq \in Int

\* In the order of the numbers, as the invariant says it and for any two of them
Ascending(seg) == \A k \in 1 .. Len(seg) - 1 : seg[k].seq <= seg[k + 1].seq

Ordered(seg) == \A i, j \in 1 .. Len(seg) : i <= j => seg[i].seq <= seg[j].seq

LEMMA SegsFacts ==
    ASSUME NEW seg, SegsOK(seg)
    PROVE  /\ Len(seg) \in Nat
           /\ DOMAIN seg = 1 .. Len(seg)
           /\ \A i \in 1 .. Len(seg) : seg[i].seq \in Int
  BY DEF SegsOK

LEMMA AscendingPairs ==
    ASSUME NEW seg, SegsOK(seg), Ascending(seg)
    PROVE  Ordered(seg)
<1> DEFINE n == Len(seg)
<1>1. /\ n \in Nat
      /\ \A i \in 1 .. n : seg[i].seq \in Int
  BY SegsFacts
<1> SUFFICES ASSUME NEW i \in 1 .. n, NEW last \in 1 .. n, i <= last, ~(seg[i].seq <= seg[last].seq)
             PROVE  FALSE
  BY DEF Ordered
<1> DEFINE Bad == {j \in 1 .. n : i <= j /\ ~(seg[i].seq <= seg[j].seq)}
<1>2. PICK j \in Bad : \A k \in Bad : j <= k
  <2>1. Bad \subseteq Nat /\ last \in Bad
    BY <1>1
  <2> HIDE DEF Bad
  <2> QED BY <2>1, NatMin
<1>3. j # i
  BY <1>1, <1>2
<1>4. j - 1 \in 1 .. n /\ i <= j - 1 /\ j - 1 \notin Bad
  BY <1>1, <1>2, <1>3
<1>5. seg[i].seq <= seg[j - 1].seq
  BY <1>4
<1>6. seg[j - 1].seq <= seg[(j - 1) + 1].seq
  BY <1>1, <1>2, <1>4 DEF Ascending
<1>7. (j - 1) + 1 = j
  BY <1>1, <1>2
<1>8. seg[i].seq \in Int /\ seg[j].seq \in Int /\ seg[j - 1].seq \in Int
  BY <1>1, <1>2, <1>4
<1> QED BY <1>2, <1>5, <1>6, <1>7, <1>8

\* A function that searches by halves, as bsearch does; BSearch chooses one
Search(seg, q, f) ==
    f = [range \in (1 .. Len(seg) + 1) \X (1 .. Len(seg) + 1) |->
            LET lo == range[1]
                hi == range[2]
                mid == (lo + hi) \div 2
            IN  IF lo >= hi THEN FALSE
                ELSE IF seg[mid].seq = q THEN TRUE
                ELSE IF q < seg[mid].seq THEN f[<<lo, mid>>]
                ELSE f[<<mid + 1, hi>>]]

LEMMA BSearchIsSearch ==
    ASSUME NEW seg, NEW q
    PROVE  BSearch(seg, q) = (CHOOSE f : Search(seg, q, f))[<<1, Len(seg) + 1>>]
  BY DEF BSearch, Search

\* The middle of a part that is not empty is in it
LEMMA Middle ==
    ASSUME NEW lo \in Int, NEW hi \in Int, lo < hi
    PROVE  /\ (lo + hi) \div 2 \in Int
           /\ lo <= (lo + hi) \div 2
           /\ (lo + hi) \div 2 < hi
  OBVIOUS

\* q is the number of an element from lo to before hi
Between(seg, q, lo, hi) == \E i \in lo .. hi - 1 : seg[i].seq = q

LEMMA BetweenHalves ==
    ASSUME NEW seg, SegsOK(seg), NEW q \in Int,
           Ordered(seg),
           NEW lo \in 1 .. Len(seg) + 1, NEW hi \in 1 .. Len(seg) + 1, lo < hi,
           NEW mid, mid = (lo + hi) \div 2
    PROVE  /\ <<lo, mid>> \in (1 .. Len(seg) + 1) \X (1 .. Len(seg) + 1)
           /\ <<mid + 1, hi>> \in (1 .. Len(seg) + 1) \X (1 .. Len(seg) + 1)
           /\ seg[mid].seq = q => Between(seg, q, lo, hi)
           /\ q < seg[mid].seq => (Between(seg, q, lo, hi) <=> Between(seg, q, lo, mid))
           /\ seg[mid].seq # q /\ ~(q < seg[mid].seq)
                => (Between(seg, q, lo, hi) <=> Between(seg, q, mid + 1, hi))
<1>1. /\ Len(seg) \in Nat
      /\ \A i \in 1 .. Len(seg) : seg[i].seq \in Int
  BY SegsFacts
<1>2. mid \in Int /\ lo <= mid /\ mid < hi /\ mid \in 1 .. Len(seg)
  <2>1. mid \in Int /\ lo <= mid /\ mid < hi
    BY <1>1, Middle
  <2> QED BY <1>1, <2>1
<1>3. /\ <<lo, mid>> \in (1 .. Len(seg) + 1) \X (1 .. Len(seg) + 1)
      /\ <<mid + 1, hi>> \in (1 .. Len(seg) + 1) \X (1 .. Len(seg) + 1)
  BY <1>1, <1>2
<1>4. lo .. hi - 1 \subseteq 1 .. Len(seg) /\ mid \in lo .. hi - 1
  BY <1>1, <1>2
<1>5. ASSUME q < seg[mid].seq PROVE Between(seg, q, lo, hi) <=> Between(seg, q, lo, mid)
  <2>1. ASSUME NEW i \in lo .. hi - 1, seg[i].seq = q PROVE i \in lo .. mid - 1
    <3>1. i \in 1 .. Len(seg) /\ mid \in 1 .. Len(seg)
      BY <1>2, <1>4
    <3>2. ~(mid <= i)
      <4>1. mid <= i => seg[mid].seq <= seg[i].seq
        BY <3>1 DEF Ordered
      <4>2. seg[mid].seq \in Int /\ seg[i].seq \in Int
        BY <1>1, <3>1
      <4> QED BY <1>5, <2>1, <4>1, <4>2
    <3> QED BY <1>2, <3>1, <3>2
  <2>2. lo .. mid - 1 \subseteq lo .. hi - 1
    BY <1>2
  <2> QED BY <2>1, <2>2 DEF Between
<1>6. ASSUME seg[mid].seq # q, ~(q < seg[mid].seq)
      PROVE  Between(seg, q, lo, hi) <=> Between(seg, q, mid + 1, hi)
  <2>1. ASSUME NEW i \in lo .. hi - 1, seg[i].seq = q PROVE i \in mid + 1 .. hi - 1
    <3>1. i \in 1 .. Len(seg) /\ mid \in 1 .. Len(seg)
      BY <1>2, <1>4
    <3>2. ~(i <= mid)
      <4>1. i <= mid => seg[i].seq <= seg[mid].seq
        BY <3>1 DEF Ordered
      <4>2. seg[mid].seq \in Int /\ seg[i].seq \in Int
        BY <1>1, <3>1
      <4> QED BY <1>6, <2>1, <4>1, <4>2
    <3> QED BY <1>2, <3>1, <3>2
  <2>2. mid + 1 .. hi - 1 \subseteq lo .. hi - 1
    BY <1>2
  <2> QED BY <2>1, <2>2 DEF Between
<1> QED BY <1>3, <1>4, <1>5, <1>6 DEF Between

\* Whether a part of the array has the number is what the search is to return, so
\* there is a function that searches
LEMMA SearchExists ==
    ASSUME NEW seg, SegsOK(seg), NEW q \in Int,
           Ordered(seg)
    PROVE  \E f : Search(seg, q, f)
<1> DEFINE D == (1 .. Len(seg) + 1) \X (1 .. Len(seg) + 1)
           f == [range \in D |-> Between(seg, q, range[1], range[2])]
           Halving(lo, hi, mid) ==
               IF lo >= hi THEN FALSE
               ELSE IF seg[mid].seq = q THEN TRUE
               ELSE IF q < seg[mid].seq THEN f[<<lo, mid>>]
               ELSE f[<<mid + 1, hi>>]
<1>1. ASSUME NEW lo \in 1 .. Len(seg) + 1, NEW hi \in 1 .. Len(seg) + 1, NEW mid, mid = (lo + hi) \div 2
      PROVE  Between(seg, q, lo, hi) = Halving(lo, hi, mid)
  <2>1. CASE lo >= hi
    <3>1. ~Between(seg, q, lo, hi)
      BY <2>1 DEF Between
    <3> QED BY <2>1, <3>1 DEF Between
  <2>2. CASE ~(lo >= hi)
    <3>0. lo < hi
      BY <2>2, SegsFacts
    <3> HIDE DEF f, Halving
    <3>1. /\ <<lo, mid>> \in D
          /\ <<mid + 1, hi>> \in D
          /\ seg[mid].seq = q => Between(seg, q, lo, hi)
          /\ q < seg[mid].seq => (Between(seg, q, lo, hi) <=> Between(seg, q, lo, mid))
          /\ seg[mid].seq # q /\ ~(q < seg[mid].seq)
                => (Between(seg, q, lo, hi) <=> Between(seg, q, mid + 1, hi))
      BY <1>1, <3>0, BetweenHalves
    <3>2. f[<<lo, mid>>] = Between(seg, q, lo, mid) /\ f[<<mid + 1, hi>>] = Between(seg, q, mid + 1, hi)
      BY <3>1 DEF f
    <3> USE DEF Halving
    <3> HIDE DEF D
    <3>4. CASE seg[mid].seq = q
      BY <3>1, <2>2, <3>4 DEF Between
    <3>5. CASE seg[mid].seq # q /\ q < seg[mid].seq
      BY <3>1, <3>2, <2>2, <3>5 DEF Between
    <3>6. CASE seg[mid].seq # q /\ ~(q < seg[mid].seq)
      BY <3>1, <3>2, <2>2, <3>6 DEF Between
    <3> QED BY <3>4, <3>5, <3>6
  <2> QED BY <2>1, <2>2
<1>2. ASSUME NEW range \in D
      PROVE  f[range] = Halving(range[1], range[2], (range[1] + range[2]) \div 2)
  <2>1. f[range] = Between(seg, q, range[1], range[2])
    OBVIOUS
  <2>2. range[1] \in 1 .. Len(seg) + 1 /\ range[2] \in 1 .. Len(seg) + 1
    OBVIOUS
  <2> HIDE DEF f, Halving
  <2> QED BY <1>1, <2>1, <2>2
<1>3. f = [range \in D |-> Halving(range[1], range[2], (range[1] + range[2]) \div 2)]
  <2> HIDE DEF Halving
  <2>1. f = [range \in D |-> f[range]]
    OBVIOUS
  <2> HIDE DEF f
  <2> QED BY <1>2, <2>1
<1>4. Search(seg, q, f)
  <2> HIDE DEF f
  <2> QED BY <1>3 DEF Search
<1> QED BY <1>4

\* The smallest part in which the number is and is not found would have a smaller one
LEMMA SearchFinds ==
    ASSUME NEW seg, SegsOK(seg), NEW q \in Int, NEW f, Search(seg, q, f),
           Ordered(seg),
           NEW i \in 1 .. Len(seg), seg[i].seq = q
    PROVE  f[<<1, Len(seg) + 1>>]
<1> DEFINE n == Len(seg)
           Holds(w) == \A lo, hi \in 1 .. n + 1 : lo <= i /\ i < hi /\ hi - lo = w => f[<<lo, hi>>]
           Bad == {w \in Nat : ~Holds(w)}
<1>1. /\ n \in Nat
      /\ \A k \in 1 .. n : seg[k].seq \in Int
  BY SegsFacts
<1>2. ASSUME Bad # {} PROVE FALSE
  <2>1. PICK w \in Bad : \A v \in Bad : w <= v
    <3> HIDE DEF Holds
    <3>1. Bad \subseteq Nat
      OBVIOUS
    <3>2. PICK a : a \in Bad
      BY <1>2
    <3> HIDE DEF Bad
    <3> QED BY <3>1, <3>2, NatMin
  <2>2. PICK lo \in 1 .. n + 1, hi \in 1 .. n + 1 : lo <= i /\ i < hi /\ hi - lo = w /\ ~f[<<lo, hi>>]
    BY <2>1
  <2> DEFINE mid == (lo + hi) \div 2
  <2>3. mid \in Int /\ lo <= mid /\ mid < hi /\ mid \in 1 .. n
    BY <1>1, <2>2, Middle
  <2>4. f[<<lo, hi>>] = IF lo >= hi THEN FALSE
                        ELSE IF seg[mid].seq = q THEN TRUE
                        ELSE IF q < seg[mid].seq THEN f[<<lo, mid>>]
                        ELSE f[<<mid + 1, hi>>]
    <3> HIDE DEF mid
    <3>1. <<lo, hi>> \in (1 .. n + 1) \X (1 .. n + 1)
      OBVIOUS
    <3> QED BY <3>1 DEF Search, mid
  <2>5. ASSUME NEW v \in Nat, v < w PROVE Holds(v)
    <3>1. v \notin Bad
      <4> HIDE DEF Bad
      <4>1. w \in Nat
        BY <2>1 DEF Bad
      <4> QED BY <2>1, <2>5, <4>1
    <3> QED BY <3>1
  <2>6. seg[mid].seq # q /\ ~(lo >= hi)
    BY <2>2, <2>4
  <2>7. CASE q < seg[mid].seq
    <3>1. i < mid
      BY <1>1, <2>2, <2>3, <2>7 DEF Ordered
    <3>2. mid - lo \in Nat /\ mid - lo < w /\ mid \in 1 .. n + 1
      <4> HIDE DEF mid, Bad
      <4> QED BY <1>1, <2>2, <2>3
    <3>3. Holds(mid - lo)
      BY <2>5, <3>2
    <3>4. f[<<lo, mid>>]
      <4> HIDE DEF mid
      <4> QED BY <2>2, <3>1, <3>2, <3>3
    <3>5. f[<<lo, hi>>] = f[<<lo, mid>>]
      <4> HIDE DEF mid
      <4> QED BY <2>4, <2>6, <2>7
    <3> QED BY <2>2, <3>4, <3>5
  <2>8. CASE ~(q < seg[mid].seq)
    <3>1. mid + 1 <= i
      BY <1>1, <2>2, <2>3, <2>6, <2>8 DEF Ordered
    <3>2. hi - (mid + 1) \in Nat /\ hi - (mid + 1) < w /\ mid + 1 \in 1 .. n + 1
      <4> HIDE DEF mid, Bad
      <4>1. mid + 1 \in 1 .. n + 1
        BY <1>1, <2>3
      <4>2. mid + 1 < hi
        BY <2>2, <2>3, <3>1
      <4> QED BY <2>2, <2>3, <4>1, <4>2
    <3>3. Holds(hi - (mid + 1))
      BY <2>5, <3>2
    <3>4. f[<<mid + 1, hi>>]
      <4> HIDE DEF mid
      <4> QED BY <2>2, <3>1, <3>2, <3>3
    <3>5. f[<<lo, hi>>] = f[<<mid + 1, hi>>]
      <4> HIDE DEF mid
      <4> QED BY <2>4, <2>6, <2>8
    <3> QED BY <2>2, <3>4, <3>5
  <2> QED BY <2>7, <2>8
<1>3. n \in Nat /\ Holds(n)
  BY <1>1, <1>2
<1> QED BY <1>1, <1>3

\* An array in order: what is in it is found
LEMMA BSearchFinds ==
    ASSUME NEW seg, SegsOK(seg), Ascending(seg), NEW q \in Int,
           NEW i \in 1 .. Len(seg), seg[i].seq = q
    PROVE  BSearch(seg, q)
<1>1. Ordered(seg)
  BY AscendingPairs
<1>2. Search(seg, q, CHOOSE f : Search(seg, q, f))
  BY <1>1, SearchExists
<1>3. (CHOOSE f : Search(seg, q, f))[<<1, Len(seg) + 1>>]
  BY <1>1, <1>2, SearchFinds
<1> QED BY <1>3, BSearchIsSearch

\* An order of the first n segments
Sorts(p, seg, n) ==
    /\ p \in Bijection(1 .. n, 1 .. n)
    /\ \A i, j \in 1 .. n : i <= j => seg[p[i]].seq <= seg[p[j]].seq

\* The next segment goes before the first one with a higher number
LEMMA SortsNext ==
    ASSUME NEW seg, SegsOK(seg), NEW n \in Nat, n + 1 <= Len(seg), NEW p, Sorts(p, seg, n)
    PROVE  \E r : Sorts(r, seg, n + 1)
<1> DEFINE new == seg[n + 1].seq
           Above == {i \in 1 .. n : ~(seg[p[i]].seq <= new)} \cup {n + 1}
<1>1. /\ Len(seg) \in Nat
      /\ \A i \in 1 .. n + 1 : seg[i].seq \in Int
  BY SegsFacts
<1>2. PICK k \in Above : \A i \in Above : k <= i
  <2>1. Above \in SUBSET Nat /\ Above # {}
    OBVIOUS
  <2> HIDE DEF Above
  <2> QED BY <2>1, NatMin
<1>3. k \in 1 .. n + 1
  BY <1>2
<1>4. /\ p \in [1 .. n -> 1 .. n]
      /\ \A i, j \in 1 .. n : p[i] = p[j] => i = j
      /\ \A j \in 1 .. n : \E i \in 1 .. n : p[i] = j
      /\ \A i, j \in 1 .. n : i <= j => seg[p[i]].seq <= seg[p[j]].seq
  BY DEF Sorts, Bijection, Injection, Surjection, IsInjective
<1> DEFINE r == [i \in 1 .. n + 1 |-> IF i < k THEN p[i] ELSE IF i = k THEN n + 1 ELSE p[i - 1]]
<1>5. ASSUME NEW i \in 1 .. n + 1
      PROVE  /\ i < k => i \in 1 .. n /\ r[i] = p[i] /\ p[i] \in 1 .. n
             /\ i = k => r[i] = n + 1
             /\ k < i => i - 1 \in 1 .. n /\ r[i] = p[i - 1] /\ p[i - 1] \in 1 .. n
  <2>1. i < k => i \in 1 .. n
    BY <1>3
  <2>2. k < i => i - 1 \in 1 .. n
    BY <1>3
  <2>3. p[i] \in 1 .. n \/ ~(i < k)
    BY <1>4, <2>1
  <2>4. p[i - 1] \in 1 .. n \/ ~(k < i)
    BY <1>4, <2>2
  <2>5. r[i] = IF i < k THEN p[i] ELSE IF i = k THEN n + 1 ELSE p[i - 1]
    OBVIOUS
  <2>6. i \in Int /\ k \in Int
    BY <1>3
  <2> HIDE DEF r
  <2> QED BY <2>1, <2>2, <2>3, <2>4, <2>5, <2>6
<1> HIDE DEF r
<1>6. r \in [1 .. n + 1 -> 1 .. n + 1]
  <2>1. \A i \in 1 .. n + 1 : r[i] \in 1 .. n + 1
    BY <1>3, <1>5
  <2> QED BY <2>1 DEF r
<1>7. \A i, j \in 1 .. n + 1 : r[i] = r[j] => i = j
  <2> SUFFICES ASSUME NEW i \in 1 .. n + 1, NEW j \in 1 .. n + 1, r[i] = r[j], i < j PROVE FALSE
    OBVIOUS
  <2>1. CASE j < k
    BY <1>3, <1>4, <1>5, <2>1
  <2>2. CASE j = k
    BY <1>3, <1>4, <1>5, <2>2
  <2>3. CASE k < j /\ i < k
    <3>1. i = j - 1
      BY <1>3, <1>4, <1>5, <2>3
    <3> QED BY <1>3, <2>3, <3>1
  <2>4. CASE k < j /\ i = k
    BY <1>3, <1>4, <1>5, <2>4
  <2>5. CASE k < j /\ k < i
    <3>1. i - 1 = j - 1
      BY <1>3, <1>4, <1>5, <2>5
    <3> QED BY <3>1
  <2> QED BY <1>3, <2>1, <2>2, <2>3, <2>4, <2>5
<1>8. ASSUME NEW j \in 1 .. n + 1 PROVE \E i \in 1 .. n + 1 : r[i] = j
  <2>1. CASE j = n + 1
    BY <1>3, <1>5, <2>1
  <2>2. CASE j # n + 1
    <3>1. PICK i \in 1 .. n : p[i] = j
      BY <1>4, <2>2
    <3>2. i < k => r[i] = j
      BY <1>5, <3>1
    <3>3. ~(i < k) => r[i + 1] = j
      <4> SUFFICES ASSUME ~(i < k) PROVE r[i + 1] = j
        OBVIOUS
      <4>1. i + 1 \in 1 .. n + 1 /\ k < i + 1 /\ (i + 1) - 1 = i
        BY <1>3
      <4>2. r[i + 1] = p[(i + 1) - 1]
        BY <1>5, <4>1
      <4> QED BY <3>1, <4>1, <4>2
    <3> QED BY <3>2, <3>3
  <2> QED BY <2>1, <2>2
<1>9. \A i \in 1 .. n : i < k => seg[p[i]].seq <= new
  BY <1>2, <1>3
<1>10. \A i \in 1 .. n : k <= i => new <= seg[p[i]].seq
  <2> SUFFICES ASSUME NEW i \in 1 .. n, k <= i PROVE new <= seg[p[i]].seq
    OBVIOUS
  <2>1. k \in 1 .. n
    BY <1>3
  <2>2. ~(seg[p[k]].seq <= new)
    BY <1>2, <2>1
  <2>3. seg[p[k]].seq <= seg[p[i]].seq
    BY <1>4, <2>1
  <2>4. p[k] \in 1 .. n + 1 /\ p[i] \in 1 .. n + 1 /\ n + 1 \in 1 .. n + 1
    <3>1. p[k] \in 1 .. n /\ p[i] \in 1 .. n
      BY <1>4, <2>1
    <3> HIDE DEF new
    <3> QED BY <3>1
  <2>5. seg[p[k]].seq \in Int /\ seg[p[i]].seq \in Int /\ new \in Int
    BY <1>1, <2>4
  <2> HIDE DEF new
  <2> QED BY <2>2, <2>3, <2>5
<1>11. ASSUME NEW i \in 1 .. n + 1, NEW j \in 1 .. n + 1, i <= j
       PROVE  seg[r[i]].seq <= seg[r[j]].seq
  <2> HIDE DEF new
  <2>0. new \in Int /\ new = seg[n + 1].seq
    BY <1>1 DEF new
  <2>1. CASE j < k
    <3>1. i < k
      BY <1>3, <1>11, <2>1
    <3>2. /\ r[i] = p[i] /\ r[j] = p[j]
          /\ i \in 1 .. n /\ j \in 1 .. n
      BY <1>5, <2>1, <3>1
    <3> QED BY <1>4, <1>11, <3>2
  <2>2. CASE j = k /\ i < k
    <3>1. /\ r[i] = p[i] /\ r[j] = n + 1
          /\ i \in 1 .. n
      BY <1>5, <2>2
    <3> QED BY <1>9, <2>0, <2>2, <3>1
  <2>3. CASE j = k /\ i = k
    BY <1>5, <2>0, <2>3
  <2>4. CASE k < j /\ i < k
    <3>1. /\ r[i] = p[i] /\ r[j] = p[j - 1]
          /\ i \in 1 .. n /\ j - 1 \in 1 .. n /\ i <= j - 1
      BY <1>3, <1>5, <2>4
    <3> QED BY <1>4, <3>1
  <2>5. CASE k < j /\ i = k
    <3>1. /\ r[i] = n + 1 /\ r[j] = p[j - 1]
          /\ j - 1 \in 1 .. n /\ k <= j - 1
      BY <1>3, <1>5, <2>5
    <3> QED BY <1>10, <2>0, <3>1
  <2>6. CASE k < j /\ k < i
    <3>1. /\ r[i] = p[i - 1] /\ r[j] = p[j - 1]
          /\ i - 1 \in 1 .. n /\ j - 1 \in 1 .. n /\ i - 1 <= j - 1
      BY <1>3, <1>5, <1>11, <2>6
    <3> QED BY <1>4, <3>1
  <2> QED BY <1>3, <1>11, <2>1, <2>2, <2>3, <2>4, <2>5, <2>6
<1>12. Sorts(r, seg, n + 1)
  BY <1>6, <1>7, <1>8, <1>11 DEF Sorts, Bijection, Injection, Surjection, IsInjective
<1> QED BY <1>12

\* There is always an order to choose
LEMMA SortExists ==
    ASSUME NEW seg, SegsOK(seg)
    PROVE  \E p : Sorts(p, seg, Len(seg))
<1> DEFINE Bad == {n \in Nat : n <= Len(seg) /\ ~\E p : Sorts(p, seg, n)}
<1>1. Len(seg) \in Nat
  BY SegsFacts
<1>2. ASSUME Bad # {} PROVE FALSE
  <2>1. PICK n \in Bad : \A m \in Bad : n <= m
    <3>1. Bad \in SUBSET Nat
      OBVIOUS
    <3> HIDE DEF Bad
    <3> QED BY <1>2, <3>1, NatMin
  <2>2. n # 0
    <3>1. 1 .. 0 = {}
      OBVIOUS
    <3>2. <<>> \in [1 .. 0 -> 1 .. 0]
      OBVIOUS
    <3>3. Sorts(<<>>, seg, 0)
      BY <3>1, <3>2 DEF Sorts, Bijection, Injection, Surjection, IsInjective
    <3> QED BY <2>1, <3>3
  <2>3. n - 1 \in Nat /\ n - 1 < n /\ n - 1 <= Len(seg) /\ (n - 1) + 1 = n /\ n <= Len(seg)
    BY <1>1, <2>1, <2>2
  <2>4. n - 1 \notin Bad
    <3> HIDE DEF Bad
    <3>1. n \in Nat
      BY <2>3
    <3> QED BY <2>1, <2>3
  <2>5. PICK p : Sorts(p, seg, n - 1)
    BY <2>3, <2>4
  <2>6. \E r : Sorts(r, seg, (n - 1) + 1)
    BY <2>3, <2>5, SortsNext
  <2> QED BY <2>1, <2>3, <2>6
<1>3. Len(seg) \notin Bad
  BY <1>2
<1> QED BY <1>1, <1>3

\* What is handed over is in order
LEMMA InOrderAscends ==
    ASSUME NEW seg, SegsOK(seg)
    PROVE  Ascending(InOrder(seg))
<1> DEFINE Order(p) == /\ p \in Bijection(DOMAIN seg, DOMAIN seg)
                       /\ \A i, j \in DOMAIN seg : i <= j => seg[p[i]].seq <= seg[p[j]].seq
           order == CHOOSE p \in Bijection(DOMAIN seg, DOMAIN seg) :
                        \A i, j \in DOMAIN seg : i <= j => seg[p[i]].seq <= seg[p[j]].seq
<1>1. Len(seg) \in Nat /\ DOMAIN seg = 1 .. Len(seg)
  BY SegsFacts
<1>2. \E p \in Bijection(DOMAIN seg, DOMAIN seg) :
          \A i, j \in DOMAIN seg : i <= j => seg[p[i]].seq <= seg[p[j]].seq
  BY <1>1, SortExists DEF Sorts
<1>3. \A i, j \in DOMAIN seg : i <= j => seg[order[i]].seq <= seg[order[j]].seq
  BY <1>2
<1> HIDE DEF order
<1>4. InOrder(seg) = [i \in 1 .. Len(seg) |-> seg[order[i]]]
  BY <1>1 DEF InOrder, order
<1>5. Len(InOrder(seg)) = Len(seg)
  BY <1>1, <1>4
<1>6. ASSUME NEW k \in 1 .. Len(seg) - 1 PROVE InOrder(seg)[k].seq <= InOrder(seg)[k + 1].seq
  <2>1. k \in DOMAIN seg /\ k + 1 \in DOMAIN seg /\ k <= k + 1
    BY <1>1
  <2> QED BY <1>1, <1>3, <1>4, <2>1
<1> QED BY <1>5, <1>6 DEF Ascending

Rising(seg) == \A k \in 1 .. Len(seg) - 1 : seg[k].seq < seg[k + 1].seq

\* What the table holds: TwiceOnlyOutOfOrder of a stream and the shape of its segments
ConnOK(conn) ==
    /\ "seg" \in DOMAIN conn
    /\ SegsOK(conn.seg)
    /\ Ascending(conn.seg) => Rising(conn.seg)

ChainOK(chain) ==
    /\ \E S : chain \in Seq(S)
    /\ \A i \in DOMAIN chain : ConnOK(chain[i])

TabOK(tab) ==
    /\ DOMAIN tab = Buckets
    /\ \A b \in Buckets : ChainOK(tab[b])

RawInv ==
    /\ setup \in Setups
    /\ TabOK(conntab)
    /\ \A iov \in handed : Ascending(iov)

\* A segment that is not found has another number than the last one, if the search
\* was right
LEMMA KeptOK ==
    ASSUME NEW conn, ConnOK(conn), NEW s, s.seq \in Int
    PROVE  ConnOK(Kept(conn, s))
<1> DEFINE seg == conn.seg
           new == [seq |-> s.seq, len |-> s.len, load |-> s.load, sport |-> s.sport]
           longer == Append(seg, new)
<1>1. CASE BSearch(seg, s.seq)
  BY <1>1 DEF Kept
<1>2. CASE ~BSearch(seg, s.seq)
  <2>1. PICK S : seg \in Seq(S) /\ \A t \in S : t.seq \in Int
    BY DEF ConnOK, SegsOK
  <2>2. new.seq = s.seq
    OBVIOUS
  <2> HIDE DEF new, seg
  <2>3. longer \in Seq(S \cup {new}) /\ \A t \in S \cup {new} : t.seq \in Int
    BY <2>1, <2>2
  <2>4. /\ Len(seg) \in Nat
        /\ Len(longer) = Len(seg) + 1
        /\ longer[Len(seg) + 1] = new
        /\ \A k \in 1 .. Len(seg) : longer[k] = seg[k] /\ seg[k].seq \in Int
    BY <2>1
  <2>5. SegsOK(longer)
    BY <2>3 DEF SegsOK
  <2> HIDE DEF longer
  <2>6. ASSUME Ascending(longer) PROVE Rising(longer)
    <3>1. Ascending(seg)
      <4> SUFFICES ASSUME NEW k \in 1 .. Len(seg) - 1 PROVE seg[k].seq <= seg[k + 1].seq
        BY DEF Ascending
      <4>1. k \in 1 .. Len(longer) - 1 /\ k \in 1 .. Len(seg) /\ k + 1 \in 1 .. Len(seg)
        BY <2>4
      <4> QED BY <2>4, <2>6, <4>1 DEF Ascending
    <3>2. Rising(seg)
      BY <3>1 DEF ConnOK, seg
    <3>3. SegsOK(seg)
      BY DEF ConnOK, seg
    <3>4. \A i \in 1 .. Len(seg) : seg[i].seq # s.seq
      BY <1>2, <3>1, <3>3, BSearchFinds
    <3> SUFFICES ASSUME NEW k \in 1 .. Len(longer) - 1 PROVE longer[k].seq < longer[k + 1].seq
      BY DEF Rising
    <3>5. k \in 1 .. Len(seg)
      BY <2>4
    <3>6. CASE k = Len(seg)
      <4>1. longer[k].seq <= longer[k + 1].seq
        BY <2>6 DEF Ascending
      <4>2. longer[k] = seg[k] /\ longer[k + 1].seq = s.seq /\ seg[k].seq \in Int
        BY <2>2, <2>4, <3>5, <3>6
      <4> QED BY <3>4, <3>5, <4>1, <4>2
    <3>7. CASE k # Len(seg)
      <4>1. k \in 1 .. Len(seg) - 1 /\ k + 1 \in 1 .. Len(seg)
        BY <2>4, <3>5, <3>7
      <4> QED BY <2>4, <3>2, <3>5, <4>1 DEF Rising
    <3> QED BY <3>6, <3>7
  <2>7. Kept(conn, s) = [conn EXCEPT !.seg = longer]
    BY <1>2 DEF Kept, longer, new, seg
  <2>8. Kept(conn, s).seg = longer /\ "seg" \in DOMAIN Kept(conn, s)
    BY <2>7 DEF ConnOK
  <2> QED BY <2>5, <2>6, <2>8 DEF ConnOK
<1> QED BY <1>1, <1>2 DEF seg

\* What does not touch the segments
LEMMA AgeKeepsConn ==
    ASSUME NEW conn, ConnOK(conn), NEW age
    PROVE  ConnOK([conn EXCEPT !.age = age])
<1>1. [conn EXCEPT !.age = age].seg = conn.seg /\ "seg" \in DOMAIN [conn EXCEPT !.age = age]
  BY DEF ConnOK
<1> QED BY <1>1 DEF ConnOK

LEMMA ReassembleAscends ==
    ASSUME NEW conn, ConnOK(conn), NEW minlen
    PROVE  Ascending(TcpRawReassemble(conn, minlen))
<1>1. Ascending(InOrder(conn.seg))
  BY InOrderAscends DEF ConnOK
<1>2. Ascending(NoStream)
  BY DEF Ascending, NoStream
<1> QED BY <1>1, <1>2 DEF TcpRawReassemble

LEMMA ChangeKeepsChain ==
    ASSUME NEW chain, ChainOK(chain), NEW i \in DOMAIN chain, NEW conn, ConnOK(conn)
    PROVE  ChainOK([chain EXCEPT ![i] = conn])
<1> DEFINE next == [chain EXCEPT ![i] = conn]
<1>1. PICK S : chain \in Seq(S)
  BY DEF ChainOK
<1>2. next \in Seq(S \cup {conn})
  BY <1>1
<1>3. \A j \in DOMAIN next : ConnOK(next[j])
  <2> HIDE DEF ConnOK
  <2> QED BY DEF ChainOK
<1> QED BY <1>2, <1>3 DEF ChainOK

LEMMA AppendKeepsChain ==
    ASSUME NEW chain, ChainOK(chain), NEW conn, ConnOK(conn)
    PROVE  ChainOK(Append(chain, conn))
<1>1. PICK S : chain \in Seq(S)
  BY DEF ChainOK
<1>2. /\ Append(chain, conn) \in Seq(S \cup {conn})
      /\ Len(chain) \in Nat
      /\ DOMAIN chain = 1 .. Len(chain)
      /\ DOMAIN Append(chain, conn) = 1 .. Len(chain) + 1
      /\ \A j \in 1 .. Len(chain) : Append(chain, conn)[j] = chain[j]
      /\ Append(chain, conn)[Len(chain) + 1] = conn
  BY <1>1
<1>3. ASSUME NEW j \in 1 .. Len(chain) + 1 PROVE ConnOK(Append(chain, conn)[j])
  <2>1. j \in 1 .. Len(chain) \/ j = Len(chain) + 1
    BY <1>2
  <2> QED BY <1>2, <2>1 DEF ChainOK
<1> QED BY <1>2, <1>3 DEF ChainOK

LEMMA RemoveKeepsChain ==
    ASSUME NEW chain, ChainOK(chain), NEW i \in DOMAIN chain
    PROVE  ChainOK(RemoveAt(chain, i))
<1> DEFINE before == SubSeq(chain, 1, i - 1)
           behind == SubSeq(chain, i + 1, Len(chain))
<1>1. PICK S : chain \in Seq(S)
  BY DEF ChainOK
<1>2. DOMAIN chain = 1 .. Len(chain) /\ Len(chain) \in Nat /\ i \in 1 .. Len(chain)
  BY <1>1
<1>3. /\ before \in Seq(S) /\ Len(before) = i - 1
      /\ \A j \in 1 .. i - 1 : before[j] = chain[j]
  BY <1>1, <1>2
<1>4. /\ behind \in Seq(S) /\ Len(behind) = Len(chain) - i
      /\ \A j \in 1 .. Len(chain) - i : behind[j] = chain[i + j]
  BY <1>1, <1>2
<1> HIDE DEF before, behind
<1>5. /\ before \o behind \in Seq(S)
      /\ Len(before \o behind) = Len(chain) - 1
      /\ DOMAIN (before \o behind) = 1 .. Len(chain) - 1
  <2>1. before \o behind \in Seq(S) /\ Len(before \o behind) = Len(before) + Len(behind)
    <3>1. before \in Seq(S) /\ behind \in Seq(S)
      BY <1>3, <1>4
    <3> QED BY <3>1
  <2>2. Len(before \o behind) = Len(chain) - 1
    BY <1>2, <1>3, <1>4, <2>1
  <2> QED BY <2>1, <2>2
<1>6. ASSUME NEW j \in 1 .. Len(chain) - 1 PROVE ConnOK((before \o behind)[j])
  <2>1. CASE j < i
    <3>1. (before \o behind)[j] = chain[j] /\ j \in DOMAIN chain
      BY <1>2, <1>3, <1>4, <2>1
    <3> QED BY <3>1 DEF ChainOK
  <2>2. CASE ~(j < i)
    <3>1. (before \o behind)[j] = chain[j + 1] /\ j + 1 \in DOMAIN chain
      BY <1>2, <1>3, <1>4, <2>2
    <3> QED BY <3>1 DEF ChainOK
  <2> QED BY <2>1, <2>2
<1>7. RemoveAt(chain, i) = before \o behind
  BY DEF RemoveAt, before, behind
<1> QED BY <1>5, <1>6, <1>7 DEF ChainOK

LEMMA ChangeKeepsTab ==
    ASSUME NEW tab, TabOK(tab), NEW b \in Buckets, NEW chain, ChainOK(chain)
    PROVE  TabOK([tab EXCEPT ![b] = chain])
  BY DEF TabOK

LEMMA AgedOK ==
    ASSUME NEW tab, TabOK(tab)
    PROVE  TabOK(Aged(tab))
<1> SUFFICES ASSUME NEW b \in Buckets PROVE ChainOK(Aged(tab)[b])
  BY DEF TabOK, Aged
<1> DEFINE age(i) == IF tab[b][i].age > RawTimeout THEN tab[b][i].age ELSE tab[b][i].age + 1
           next == [i \in DOMAIN tab[b] |-> [tab[b][i] EXCEPT !.age = age(i)]]
<1>1. Aged(tab)[b] = next
  BY DEF Aged
<1>2. ASSUME NEW i \in DOMAIN tab[b] PROVE ConnOK(next[i])
  <2>1. ConnOK(tab[b][i])
    BY DEF TabOK, ChainOK
  <2> HIDE DEF age
  <2> QED BY <2>1, AgeKeepsConn
<1>3. \E S : next \in Seq(S)
  <2>1. PICK S : tab[b] \in Seq(S)
    BY DEF TabOK, ChainOK
  <2>2. Len(tab[b]) \in Nat /\ DOMAIN next = 1 .. Len(tab[b])
    BY <2>1
  <2> HIDE DEF next
  <2>3. next = [i \in 1 .. Len(tab[b]) |-> next[i]]
    BY <2>2 DEF next
  <2>4. next \in Seq({next[i] : i \in 1 .. Len(tab[b])})
    BY <2>2, <2>3
  <2> QED BY <2>4
<1>4. DOMAIN next = DOMAIN tab[b]
  OBVIOUS
<1> HIDE DEF next
<1> QED BY <1>1, <1>2, <1>3, <1>4 DEF ChainOK

\* Whatever a segment does to its stream
LEMMA InputOK ==
    ASSUME NEW tab, TabOK(tab), NEW s, s.seq \in Int, NEW tha, HashOf[tha.port] \in Buckets
    PROVE  TabOK(TcpRawInput(tab, s, tha).tab) /\ Ascending(TcpRawInput(tab, s, tha).iov)
<1> DEFINE b == HashOf[tha.port]
           i == PlaceOf(tab, tha)
           young == [tab EXCEPT ![b][i].age = 0]
           conn == Kept(tab[b][i], s)
           ends == TcpRawReassemble(tab[b][i], 1)
           enough == TcpRawReassemble(conn, Opt_snaplen)
           longer == [young EXCEPT ![b][i].seg = conn.seg]
           gone == TcpRawDelete(tab, b, i)
           opened == Opened(tab, tha)
<1>1. Ascending(NoStream)
  BY DEF Ascending, NoStream
<1>2. b \in Buckets /\ ChainOK(tab[b])
  BY DEF TabOK
<1>3. TabOK(opened)
  <2>1. ConnOK([tha |-> tha, age |-> 0, seg |-> <<>>])
    <3> DEFINE new == [tha |-> tha, age |-> 0, seg |-> <<>>]
    <3>1. "seg" \in DOMAIN new /\ new.seg = <<>>
      OBVIOUS
    <3>2. SegsOK(<<>>)
      <4>1. PICK S : S = {}
        OBVIOUS
      <4>2. <<>> \in Seq(S) /\ \A t \in S : t.seq \in Int
        BY <4>1
      <4> QED BY <4>2 DEF SegsOK
    <3>3. Rising(<<>>)
      BY DEF Rising
    <3> HIDE DEF new
    <3>4. ConnOK(new)
      BY <3>1, <3>2, <3>3 DEF ConnOK
    <3> QED BY <3>4 DEF new
  <2>2. ChainOK(Append(tab[b], [tha |-> tha, age |-> 0, seg |-> <<>>]))
    BY <1>2, <2>1, AppendKeepsChain
  <2> QED BY <1>2, <2>2, ChangeKeepsTab DEF Opened, TabOK
<1>4. ASSUME i # 0
      PROVE  TabOK(young) /\ TabOK(longer) /\ TabOK(gone) /\ Ascending(ends) /\ Ascending(enough)
  <2>1. i \in DOMAIN tab[b] /\ ConnOK(tab[b][i])
    <3>1. i \in DOMAIN tab[b]
      BY <1>4 DEF PlaceOf
    <3> HIDE DEF b, i
    <3> QED BY <1>2, <3>1 DEF ChainOK
  <2>2. ConnOK(conn)
    BY <2>1, KeptOK
  <2>3. Ascending(ends) /\ Ascending(enough)
    BY <2>1, <2>2, ReassembleAscends
  <2>4. TabOK(gone)
    BY <1>2, <2>1, RemoveKeepsChain, ChangeKeepsTab DEF TcpRawDelete
  <2> HIDE DEF b, i, conn
  <2> DEFINE younger == [tab[b][i] EXCEPT !.age = 0]
             fuller == [younger EXCEPT !.seg = conn.seg]
  <2>5. ConnOK(younger)
    BY <2>1, AgeKeepsConn
  <2>6. ConnOK(fuller)
    <3>1. fuller.seg = conn.seg /\ "seg" \in DOMAIN fuller
      BY <2>1 DEF ConnOK
    <3> HIDE DEF fuller
    <3> QED BY <2>2, <3>1 DEF ConnOK
  <2>7. young = [tab EXCEPT ![b] = [tab[b] EXCEPT ![i] = younger]]
    BY <1>2 DEF TabOK
  <2>8. longer = [tab EXCEPT ![b] = [tab[b] EXCEPT ![i] = fuller]]
    BY <1>2, <2>1 DEF TabOK
  <2> HIDE DEF younger, fuller, young, longer
  <2>9. TabOK(young)
    BY <1>2, <2>1, <2>5, <2>7, ChangeKeepsChain, ChangeKeepsTab
  <2>10. TabOK(longer)
    BY <1>2, <2>1, <2>6, <2>8, ChangeKeepsChain, ChangeKeepsTab
  <2> QED BY <2>3, <2>4, <2>9, <2>10
<1>5. TcpRawInput(tab, s, tha) =
        IF ~s.good THEN [tab |-> tab, iov |-> NoStream]
        ELSE IF i = 0
        THEN [tab |-> IF "SYN" \in s.flags THEN opened ELSE tab, iov |-> NoStream]
        ELSE IF s.flags \cap {"FIN", "RST"} # {}
        THEN IF ends = NoStream THEN [tab |-> young, iov |-> NoStream]
             ELSE [tab |-> gone, iov |-> ends]
        ELSE IF "ACK" \in s.flags /\ s.len > 0 /\ conn # tab[b][i]
        THEN IF enough = NoStream
             THEN [tab |-> longer, iov |-> NoStream]
             ELSE [tab |-> gone, iov |-> enough]
        ELSE [tab |-> young, iov |-> NoStream]
  BY DEF TcpRawInput
<1> HIDE DEF b, i, young, conn, ends, enough, longer, gone, opened
<1> QED BY <1>1, <1>3, <1>4, <1>5

LEMMA HandOverAscends ==
    ASSUME RawInv, NEW from, NEW chosen, NEW iov, HandOver(from, chosen, iov), Ascending(iov)
    PROVE  \A h \in handed' : Ascending(h)
  BY DEF HandOver, RawInv

LEMMA NextKeepsRaw ==
    ASSUME RawInv, Next
    PROVE  RawInv'
<1>0. setup' = setup
  BY SetupStays
<1>1. CASE UNCHANGED <<conntab, handed>>
  BY <1>0, <1>1 DEF RawInv
<1>2. ASSUME NEW p \in setup.packets, TriggerTcpRaw(p) PROVE RawInv'
  <2> DEFINE Input(padding) == TcpRawInput(conntab, p, Tha(p, padding))
             Choice(iov) == Chosen(triggers, "tcp", p.sport, p.dport, Joined(iov))
  <2>1. p.seq \in Int /\ HashOf[p.dport] \in Buckets
    BY <1>2, DsniffAssumption, TcpRawAssumption DEF RawInv, TriggerTcpRaw
  <2>2. \A padding : TabOK(Input(padding).tab) /\ Ascending(Input(padding).iov)
    <3> SUFFICES ASSUME NEW padding PROVE TabOK(Input(padding).tab) /\ Ascending(Input(padding).iov)
      OBVIOUS
    <3>1. HashOf[Tha(p, padding).port] \in Buckets
      BY <2>1 DEF Tha
    <3> QED BY <2>1, <3>1, InputOK DEF RawInv
  <2>3. \/ UNCHANGED <<conntab, handed>>
        \/ \E padding : /\ conntab' = Input(padding).tab
                         /\ \/ handed' = handed
                            \/ HandOver(p, Choice(Input(padding).iov), Input(padding).iov)
    BY <1>2 DEF TriggerTcpRaw
  <2> HIDE DEF Input, Choice
  <2>4. ASSUME NEW padding, HandOver(p, Choice(Input(padding).iov), Input(padding).iov)
        PROVE  \A h \in handed' : Ascending(h)
    BY <2>2, <2>4, HandOverAscends
  <2> QED BY <1>0, <1>1, <2>2, <2>3, <2>4 DEF RawInv
<1>3. CASE Tick
  BY <1>0, <1>3, AgedOK DEF Tick, RawInv
<1>4. ASSUME NEW b \in Buckets, NEW i \in 1 .. Len(conntab[b]), SweepNode(b, i) PROVE RawInv'
  <2> DEFINE conn == conntab[b][i]
             iov == TcpRawReassemble(conn, 1)
  <2>1. i \in DOMAIN conntab[b] /\ ChainOK(conntab[b])
    <3>1. PICK S : conntab[b] \in Seq(S)
      BY DEF RawInv, TabOK, ChainOK
    <3> QED BY <3>1 DEF RawInv, TabOK
  <2>2. ConnOK(conn)
    BY <2>1 DEF ChainOK
  <2>3. Ascending(iov)
    BY <2>2, ReassembleAscends
  <2>4. TabOK(TcpRawDelete(conntab, b, i))
    BY <2>1, RemoveKeepsChain, ChangeKeepsTab DEF RawInv, TcpRawDelete
  <2>5. \/ UNCHANGED <<conntab, handed>>
        \/ /\ conntab' = TcpRawDelete(conntab, b, i)
           /\ handed' = handed \/ \E from, chosen : HandOver(from, chosen, iov)
    BY <1>4 DEF SweepNode
  <2> HIDE DEF conn, iov
  <2>6. ASSUME NEW from, NEW chosen, HandOver(from, chosen, iov) PROVE \A h \in handed' : Ascending(h)
    BY <2>3, <2>6, HandOverAscends
  <2> QED BY <1>0, <1>1, <2>4, <2>5, <2>6 DEF RawInv
<1>5. CASE Restart
  <2>1. <<>> \in Seq({}) /\ DOMAIN <<>> = {}
    OBVIOUS
  <2>2. ChainOK(<<>>)
    BY <2>1 DEF ChainOK
  <2> QED BY <1>0, <1>5, <2>2 DEF Restart, RawInv, TabOK
<1>6. ASSUME \/ LoadTrigger \/ StartListening \/ Alarm \/ Hangup \/ Die
             \/ \E p : TriggerIp(p) \/ TriggerUdp(p)
             \/ \E s : \/ TcpEstablished(s) \/ TcpClosed(s) \/ TcpClosedAnswers(s)
                      \/ \E dir, n : TcpData(s, dir, n)
             \/ \E b : SweepNext(b)
      PROVE  UNCHANGED <<conntab, handed>>
  BY <1>6 DEF LoadTrigger, StartListening, Alarm, Hangup, Die, TriggerIp, TriggerUdp,
              TcpEstablished, TcpClosed, TcpClosedAnswers, TcpData, SweepNext, netVars
<1> QED BY <1>1, <1>2, <1>3, <1>4, <1>5, <1>6 DEF Next, Sweep

\* Whatever segments come, in whatever order, lost or twice: a number is kept twice only
\* in a node whose segments came out of order, and a decoder gets a node's segments in
\* the order of their numbers (tcp_raw_input, tcp_raw_reassemble, tcp_raw_timeout).  A
\* node is shared by the streams of the same addresses and destination port.
THEOREM SegmentsInOrder == Spec => []StreamsInOrder
<1>1. Init => RawInv
  <2>1. <<>> \in Seq({}) /\ DOMAIN <<>> = {}
    OBVIOUS
  <2>2. ChainOK(<<>>)
    BY <2>1 DEF ChainOK
  <2> QED BY <2>2 DEF Init, RawInv, TabOK
<1>2. RawInv /\ [Next]_vars => RawInv'
  <2> SUFFICES ASSUME RawInv, [Next]_vars PROVE RawInv'
    OBVIOUS
  <2>1. CASE UNCHANGED vars
    BY <2>1 DEF vars, netVars, runVars, RawInv
  <2> QED BY <2>1, NextKeepsRaw
<1>3. RawInv => StreamsInOrder
  <2> SUFFICES ASSUME RawInv PROVE TwiceOnlyOutOfOrder /\ HandedInOrder
    BY DEF StreamsInOrder
  <2>1. \A b \in Buckets : \A i \in DOMAIN conntab[b] : ConnOK(conntab[b][i])
    BY DEF RawInv, TabOK, ChainOK
  <2>2. TwiceOnlyOutOfOrder
    BY <2>1 DEF TwiceOnlyOutOfOrder, ConnOK, Ascending, Rising
  <2> QED BY <2>2 DEF RawInv, HandedInOrder, Ascending
<1> QED BY <1>1, <1>2, <1>3, PTL DEF Spec

-----------------------------------------------------------------------------
(* The files of filesnarf                                                  *)

\* In the packets S: a LOOKUP of the name and the reply with the handle
HandleIn(S, fh, name) ==
    \E a, b \in S :
        /\ a.dir = "call" /\ a.proc = "lookup" /\ a.name = name
        /\ b.dir = "reply" /\ b.xid = a.xid /\ b.fh = fh

\* In the packets S: the call of a slot, and for a READ how its handle has got
\* its name
CallIn(S, slot) ==
    /\ slot.call.proc = "lookup" =>
          \E a \in S : a.dir = "call" /\ a.proc = "lookup" /\ a.xid = slot.xid /\ a.name = slot.call.name
    /\ slot.call.proc = "read" =>
          \E c \in S : /\ c.dir = "call" /\ c.proc = "read" /\ c.xid = slot.xid
                       /\ c.offset = slot.call.offset /\ HandleIn(S, c.fh, slot.call.name)

\* A map of xids whose calls are in S, and a map of handles that are
SlotsAreIn(S, map) ==
    /\ map.hint \in Slots /\ map.next \in Slots
    /\ DOMAIN map = {"maps", "next", "hint"} /\ DOMAIN map.maps = Slots
    /\ \A i \in Slots : map.maps[i].xid \in Xids => CallIn(S, map.maps[i])

HandlesAreIn(S, map) ==
    /\ map.hint \in FhSlots /\ map.next \in FhSlots
    /\ DOMAIN map = {"maps", "next", "hint"} /\ DOMAIN map.maps = FhSlots
    /\ \A i \in FhSlots : map.maps[i] # Nothing => HandleIn(S, map.maps[i].fh, map.maps[i].name)

\* All that filesnarf keeps comes from packets it has seen
PacketsInv ==
    /\ traffic \in Traffics /\ seen \subseteq traffic
    /\ SlotsAreIn(seen, xid_map) /\ HandlesAreIn(seen, fh_map)
    /\ SavedIsRead

LEMMA MoreIsSeen ==
    ASSUME NEW S, NEW T, S \subseteq T
    PROVE  /\ \A fh, name : HandleIn(S, fh, name) => HandleIn(T, fh, name)
           /\ \A slot : CallIn(S, slot) => CallIn(T, slot)
           /\ \A map : SlotsAreIn(S, map) => SlotsAreIn(T, map)
           /\ \A map : HandlesAreIn(S, map) => HandlesAreIn(T, map)
<1>1. \A fh, name : HandleIn(S, fh, name) => HandleIn(T, fh, name)
  BY DEF HandleIn
<1>2. \A slot : CallIn(S, slot) => CallIn(T, slot)
  BY <1>1 DEF CallIn
<1>3. \A map : SlotsAreIn(S, map) => SlotsAreIn(T, map)
  BY <1>2 DEF SlotsAreIn
<1>4. \A map : HandlesAreIn(S, map) => HandlesAreIn(T, map)
  BY <1>1 DEF HandlesAreIn
<1> QED BY <1>1, <1>2, <1>3, <1>4

\* The search meets a slot that holds the file handle, if there is one
LEMMA FhFoundHolds ==
    ASSUME NEW map, map.hint \in FhSlots, NEW fh, HoldingFh(map, fh) # {}
    PROVE  FhMapFind(map, fh) \in HoldingFh(map, fh)
<1> DEFINE distance(i) == IF i >= map.hint THEN i - map.hint ELSE i - map.hint + FH_MAP_SIZE + 1
           D == {distance(i) : i \in HoldingFh(map, fh)}
<1>1. \A i \in HoldingFh(map, fh) : distance(i) \in Nat
  BY FilesAssumption DEF HoldingFh, FhSlots
<1>2. PICK n \in D : \A m \in D : n <= m
  <2> HIDE DEF distance
  <2> QED BY <1>1, NatMin
<1>3. PICK i \in HoldingFh(map, fh) : n = distance(i)
  BY <1>2
<1>4. \A j \in HoldingFh(map, fh) : distance(i) <= distance(j)
  BY <1>2, <1>3
<1> QED BY <1>4 DEF FhMapFind

\* A call whose packet is in S is entered in a slot
LEMMA EnterKeepsSeen ==
    ASSUME NEW S, NEW map, SlotsAreIn(S, map), NEW xid, NEW call, CallIn(S, [xid |-> xid, call |-> call])
    PROVE  SlotsAreIn(S, XidMapEnter(map, xid, call))
<1> DEFINE new == [xid |-> xid, call |-> call]
           map1 == XidMapEnter(map, xid, call)
<1>1. /\ map1.hint = map.hint /\ map1.next = After(map.next)
      /\ map1.maps = [map.maps EXCEPT ![map.next] = new]
      /\ DOMAIN map1 = {"maps", "next", "hint"}
  BY DEF XidMapEnter, SlotsAreIn
<1>2. After(map.next) \in Slots
  BY XidMapAssumption DEF SlotsAreIn, After, Slots
<1> HIDE DEF map1, new
<1>3. ASSUME NEW i \in Slots, map1.maps[i].xid \in Xids
      PROVE  CallIn(S, map1.maps[i])
  <2>1. CASE i = map.next
    BY <1>1, <2>1 DEF SlotsAreIn, new
  <2>2. CASE i # map.next
    BY <1>1, <1>3, <2>2 DEF SlotsAreIn
  <2> QED BY <2>1, <2>2
<1>4. SlotsAreIn(S, map1)
  BY <1>1, <1>2, <1>3 DEF SlotsAreIn
<1> QED BY <1>4 DEF map1

LEMMA AnswerKeepsSeen ==
    ASSUME NEW S, NEW map, SlotsAreIn(S, map), NEW xid, Holding(map, xid) # {}
    PROVE  SlotsAreIn(S, XidMapAnswer(map, xid))
<1> DEFINE map1 == XidMapAnswer(map, xid)
<1>1. PICK i : i = Found(map, xid) /\ i \in Slots
  BY FoundHolds DEF SlotsAreIn, Holding
<1>2. /\ map1.maps = [map.maps EXCEPT ![i] = Cleared]
      /\ map1.next = map.next /\ map1.hint = i
      /\ DOMAIN map1 = {"maps", "next", "hint"}
  BY <1>1 DEF XidMapAnswer, SlotsAreIn
<1> HIDE DEF map1
<1>3. Cleared.xid \notin Xids
  BY XidMapAssumption DEF Cleared
<1>4. \A j \in Slots : map1.maps[j] \in {map.maps[j], Cleared}
  BY <1>2 DEF SlotsAreIn
<1>5. \A j \in Slots : map1.maps[j].xid \in Xids => CallIn(S, map1.maps[j])
  BY <1>3, <1>4 DEF SlotsAreIn
<1>6. SlotsAreIn(S, map1)
  BY <1>1, <1>2, <1>5 DEF SlotsAreIn
<1> QED BY <1>6 DEF map1

LEMMA FhAddKeepsSeen ==
    ASSUME NEW S, NEW map, HandlesAreIn(S, map), NEW name, NEW fh, HandleIn(S, fh, name)
    PROVE  HandlesAreIn(S, FhMapAdd(map, name, fh))
<1> DEFINE new == [name |-> name, fh |-> fh]
           map1 == FhMapAdd(map, name, fh)
<1>1. map.next \in FhSlots
  BY DEF HandlesAreIn
<1>2. /\ map1.hint = map.hint /\ map1.next = AfterFh(map.next)
      /\ map1.maps = [map.maps EXCEPT ![map.next] = new]
      /\ DOMAIN map1 = {"maps", "next", "hint"}
  BY DEF FhMapAdd, HandlesAreIn
<1>3. AfterFh(map.next) \in FhSlots
  BY <1>1, FilesAssumption DEF AfterFh, FhSlots
<1> HIDE DEF map1, new
<1>4. ASSUME NEW i \in FhSlots, map1.maps[i] # Nothing
      PROVE  HandleIn(S, map1.maps[i].fh, map1.maps[i].name)
  <2>1. CASE i = map.next
    BY <1>2, <2>1 DEF HandlesAreIn, new
  <2>2. CASE i # map.next
    BY <1>2, <1>4, <2>2 DEF HandlesAreIn
  <2> QED BY <2>1, <2>2
<1>5. HandlesAreIn(S, map1)
  BY <1>2, <1>3, <1>4 DEF HandlesAreIn
<1> QED BY <1>5 DEF map1

LEMMA FilesStep ==
    ASSUME PacketsInv, [FilesNext]_fvars
    PROVE  PacketsInv'
<1>0. /\ traffic \in Traffics /\ seen \subseteq traffic
      /\ SlotsAreIn(seen, xid_map) /\ HandlesAreIn(seen, fh_map) /\ SavedIsRead
  BY DEF PacketsInv
<1>1. ASSUME NEW p \in traffic, Sees(p)
      PROVE  /\ traffic' \in Traffics /\ seen' \subseteq traffic' /\ p \in seen' /\ seen \subseteq seen'
             /\ SlotsAreIn(seen', xid_map) /\ HandlesAreIn(seen', fh_map)
             /\ saved' = saved => SavedIsRead'
  <2>1. traffic' = traffic /\ seen' = seen \cup {p}
    BY <1>1 DEF Sees
  <2>2. SlotsAreIn(seen', xid_map) /\ HandlesAreIn(seen', fh_map)
    BY <1>0, <2>1, MoreIsSeen
  <2>3. saved' = saved => SavedIsRead'
    BY <1>0, <2>1 DEF SavedIsRead
  <2> QED BY <1>0, <2>1, <2>2, <2>3
<1>2. ASSUME NEW p \in traffic, LookupCall(p) PROVE PacketsInv'
  <2>1. Sees(p) /\ p.dir = "call" /\ p.proc = "lookup" /\ fh_map' = fh_map /\ saved' = saved
    BY <1>2 DEF LookupCall
  <2>2. SlotsAreIn(seen', xid_map')
    <3>1. CASE xid_map' = xid_map
      BY <1>1, <2>1, <3>1
    <3>2. CASE Enters(p, p.name, 0)
      <4> DEFINE call == [vers |-> p.vers, proc |-> p.proc, name |-> p.name, offset |-> 0]
      <4>1. xid_map' = XidMapEnter(xid_map, p.xid, call)
        BY <3>2 DEF Enters
      <4>2. CallIn(seen', [xid |-> p.xid, call |-> call])
        BY <1>1, <2>1 DEF CallIn
      <4> HIDE DEF call
      <4> QED BY <1>1, <2>1, <4>1, <4>2, EnterKeepsSeen
    <3> QED BY <1>2, <3>1, <3>2 DEF LookupCall
  <2> QED BY <1>1, <2>1, <2>2 DEF PacketsInv
<1>3. ASSUME NEW p \in traffic, ReadCall(p) PROVE PacketsInv'
  <2>1. Sees(p) /\ p.dir = "call" /\ p.proc = "read" /\ saved' = saved
    BY <1>3 DEF ReadCall
  <2>2. CASE UNCHANGED <<xid_map, fh_map>>
    BY <1>1, <2>1, <2>2 DEF PacketsInv
  <2>3. CASE HoldingFh(fh_map, p.fh) # {}
    <3>1. PICK i : i = FhMapFind(fh_map, p.fh)
      OBVIOUS
    <3>2. i \in FhSlots /\ fh_map.maps[i] # Nothing /\ fh_map.maps[i].fh = p.fh
      BY <1>0, <2>3, <3>1, FhFoundHolds DEF HandlesAreIn, HoldingFh
    <3> DEFINE name == fh_map.maps[i].name
               call == [vers |-> p.vers, proc |-> p.proc, name |-> name, offset |-> p.offset]
    <3>3. /\ xid_map' = XidMapEnter(xid_map, p.xid, call)
          /\ fh_map' = [fh_map EXCEPT !.hint = i]
      BY <1>3, <2>3, <3>1 DEF ReadCall, Enters
    <3>4. HandleIn(seen', p.fh, name)
      BY <1>1, <2>1, <3>2 DEF HandlesAreIn
    <3>5. CallIn(seen', [xid |-> p.xid, call |-> call])
      <4> HIDE DEF name
      <4> QED BY <1>1, <2>1, <3>4 DEF CallIn
    <3>6. HandlesAreIn(seen', fh_map')
      BY <1>1, <2>1, <3>2, <3>3 DEF HandlesAreIn
    <3> HIDE DEF call
    <3>7. SlotsAreIn(seen', xid_map')
      BY <1>1, <2>1, <3>3, <3>5, EnterKeepsSeen
    <3> QED BY <1>1, <2>1, <3>6, <3>7 DEF PacketsInv
  <2> QED BY <1>3, <2>2, <2>3 DEF ReadCall
<1>4. ASSUME NEW p \in traffic, DecodeReply(p) PROVE PacketsInv'
  <2>1. Sees(p) /\ p.dir = "reply"
    BY <1>4 DEF DecodeReply
  <2>2. CASE UNCHANGED <<xid_map, fh_map, saved>>
    BY <1>1, <2>1, <2>2 DEF PacketsInv
  <2>3. CASE Holding(xid_map, p.xid) # {}
    <3>1. PICK i : i = Found(xid_map, p.xid)
      OBVIOUS
    <3>2. i \in Slots /\ xid_map.maps[i].xid = p.xid /\ p.xid \in Xids
      BY <1>0, <2>3, <3>1, FoundHolds, FilesAssumption DEF SlotsAreIn, Holding
    <3> DEFINE slot == xid_map.maps[i]
               call == slot.call
    <3>3. CallIn(seen', slot) /\ slot.xid = p.xid
      BY <1>1, <2>1, <3>2 DEF SlotsAreIn
    <3>4. CASE ~p.accepted
      <4>1. xid_map' = [xid_map EXCEPT !.hint = i] /\ UNCHANGED <<fh_map, saved>>
        BY <1>4, <2>3, <3>1, <3>4 DEF DecodeReply
      <4>2. SlotsAreIn(seen', xid_map')
        BY <1>1, <2>1, <3>2, <4>1 DEF SlotsAreIn
      <4> QED BY <1>1, <2>1, <4>1, <4>2 DEF PacketsInv
    <3>5. CASE p.accepted
      <4>1. /\ xid_map' = XidMapAnswer(xid_map, p.xid)
            /\ LookupReply(call, p) \/ ReadReply(call, p)
        BY <1>4, <2>3, <3>1, <3>5 DEF DecodeReply
      <4> HIDE DEF slot
      <4>2. SlotsAreIn(seen', xid_map')
        BY <1>1, <2>1, <2>3, <4>1, AnswerKeepsSeen
      <4>3. CASE LookupReply(call, p)
        <5>1. saved' = saved /\ call.proc = "lookup"
          BY <4>3 DEF LookupReply
        <5>2. HandleIn(seen', p.fh, call.name)
          BY <1>1, <2>1, <3>3, <5>1 DEF CallIn, HandleIn
        <5>3. HandlesAreIn(seen', fh_map')
          <6>1. CASE fh_map' = fh_map
            BY <1>1, <2>1, <6>1
          <6>2. CASE fh_map' = FhMapAdd(fh_map, call.name, p.fh)
            BY <1>1, <2>1, <5>2, <6>2, FhAddKeepsSeen
          <6> QED BY <4>3, <6>1, <6>2 DEF LookupReply
        <5> QED BY <1>1, <2>1, <4>2, <5>1, <5>3 DEF PacketsInv
      <4>4. CASE ReadReply(call, p)
        <5>1. fh_map' = fh_map /\ call.proc = "read"
          BY <4>4 DEF ReadReply
        <5>2. PICK c \in seen' : /\ c.dir = "call" /\ c.proc = "read" /\ c.xid = p.xid
                                 /\ c.offset = call.offset /\ HandleIn(seen', c.fh, call.name)
          BY <3>3, <5>1 DEF CallIn
        <5>3. PICK new : new = [name |-> call.name, offset |-> call.offset, data |-> p.data]
          OBVIOUS
        <5>4. saved' \subseteq saved \cup {new}
          BY <4>4, <5>3 DEF ReadReply
        <5>5. \E a, b, cc, d \in seen' :
                /\ a.dir = "call" /\ a.proc = "lookup" /\ a.name = new.name
                /\ b.dir = "reply" /\ b.xid = a.xid
                /\ cc.dir = "call" /\ cc.proc = "read" /\ cc.fh = b.fh /\ cc.offset = new.offset
                /\ d.dir = "reply" /\ d.xid = cc.xid /\ d.data = new.data
          <6>1. PICK a, b \in seen' : /\ a.dir = "call" /\ a.proc = "lookup" /\ a.name = call.name
                                      /\ b.dir = "reply" /\ b.xid = a.xid /\ b.fh = c.fh
            BY <5>2 DEF HandleIn
          <6>2. p \in seen' /\ new.name = call.name /\ new.offset = call.offset /\ new.data = p.data
            BY <1>1, <2>1, <5>3
          <6> QED BY <2>1, <5>2, <6>1, <6>2
        <5>6. SavedIsRead'
          BY <1>0, <1>1, <2>1, <5>4, <5>5 DEF SavedIsRead
        <5> QED BY <1>1, <2>1, <4>2, <5>1, <5>6 DEF PacketsInv
      <4> QED BY <4>1, <4>3, <4>4
    <3> QED BY <3>4, <3>5
  <2> QED BY <1>4, <2>2, <2>3 DEF DecodeReply
<1>5. CASE UNCHANGED fvars
  BY <1>0, <1>5 DEF PacketsInv, fvars, SavedIsRead
<1> QED BY <1>2, <1>3, <1>4, <1>5 DEF FilesNext

(***************************************************************************)
(* What filesnarf writes to a file was read from the file of that name:    *)
(* the LOOKUP, its reply, the READ and its reply were all seen, for rings  *)
(* of any size, which may wrap, and packets in any order, lost or repeated *)
(* (fh_map_add, fh_map_find; up to the write of somebody's memory behind   *)
(* the array, if it is somebody's).                                        *)
(***************************************************************************)
THEOREM FilesAreRead == FilesSpec => []SavedIsRead
<1>1. FilesInit => PacketsInv
  <2> SUFFICES ASSUME FilesInit PROVE PacketsInv
    OBVIOUS
  <2>1. xid_map = EmptyMap /\ fh_map = EmptyFhMap /\ saved = {} /\ seen = {} /\ traffic \in Traffics
    BY DEF FilesInit, XidInit
  <2>2. 0 \in Slots /\ 0 \in FhSlots /\ Cleared.xid \notin Xids
    BY XidMapAssumption, FilesAssumption DEF Slots, FhSlots, Cleared
  <2>3. SlotsAreIn(seen, xid_map)
    BY <2>1, <2>2 DEF EmptyMap, SlotsAreIn
  <2>4. HandlesAreIn(seen, fh_map)
    BY <2>1, <2>2, FilesAssumption DEF EmptyFhMap, HandlesAreIn
  <2> QED BY <2>1, <2>3, <2>4 DEF PacketsInv, SavedIsRead
<1>2. PacketsInv /\ [FilesNext]_fvars => PacketsInv'
  BY FilesStep
<1>3. PacketsInv => SavedIsRead
  BY DEF PacketsInv
<1> QED BY <1>1, <1>2, <1>3, PTL DEF FilesSpec

=============================================================================
