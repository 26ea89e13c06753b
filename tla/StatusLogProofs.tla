----------------------------- MODULE StatusLogProofs -----------------------------
(***************************************************************************)
(* Proofs about the status table: any number of rows, workers, sessions    *)
(* and runs of the suite, with a database that goes down and fails as it   *)
(* likes and other programs that insert entries.                           *)
(*                                                                         *)
(* Three invariants that build on each other.  SetupInv is about the setup *)
(* of the suite: a row that has inserted has an entry, whatever others     *)
(* insert, and no ID before that.  SessionsAccounted is                    *)
(* inductive with the types.  SerialInv is about one worker: at most one   *)
(* row is in the listener, so the shared field and the locals read from it *)
(* name the row itself, and the number it has got is above all of its      *)
(* entries'.                                                               *)
(***************************************************************************)
EXTENDS StatusLog, Integers, FiniteSetTheorems, WellFoundedInduction, TLAPS

-----------------------------------------------------------------------------
(* The last entry and the highest number                                   *)

\* The least number principle
LEMMA NatMin ==
    ASSUME NEW S \in SUBSET Nat, S # {}
    PROVE  \E n \in S : \A m \in S : n <= m
<1> DEFINE R == {ss \in Nat \X Nat : ss[1] < ss[2]}
<1>1. IsWellFoundedOn(R, Nat)
  BY NatLessThanWellFounded DEF OpToRel
<1>2. PICK x \in S : \A y \in S : ~(<<y, x>> \in R)
  BY <1>1, WFMin
<1>3. \A y \in S : ~(y < x)
  BY <1>2
<1>4. \A y \in S : x <= y
  BY <1>3
<1> QED BY <1>4

\* Of finitely many numbers one is the highest: a smallest set of places without
\* one would have it after all
LEMMA MaxOfImage ==
    ASSUME NEW n \in Nat, NEW ids \in SUBSET (1..n), ids # {},
           NEW f, \A i \in ids : f[i] \in Nat
    PROVE  \E i \in ids : \A j \in ids : f[j] <= f[i]
<1> DEFINE HasMax(T) == \E i \in T : \A j \in T : f[j] <= f[i]
           Bad == {m \in Nat : \E T \in SUBSET ids : T # {} /\ T \subseteq 1..m /\ ~HasMax(T)}
<1>1. SUFFICES ASSUME ~HasMax(ids) PROVE FALSE
  OBVIOUS
<1>2. n \in Bad
  BY <1>1
<1>3. PICK m \in Bad : \A k \in Bad : m <= k
  <2> HIDE DEF Bad
  <2>1. Bad \in SUBSET Nat
    BY DEF Bad
  <2> QED BY <1>2, <2>1, NatMin
<1>4. PICK T \in SUBSET ids : T # {} /\ T \subseteq 1..m /\ ~HasMax(T)
  BY <1>3
<1>5. m \in Nat /\ m # 0
  <2>1. m \in Nat
    BY <1>3
  <2>2. 1..0 = {}
    OBVIOUS
  <2> QED BY <1>4, <2>1, <2>2
<1>6. m - 1 \in Nat /\ m - 1 \notin Bad
  <2> HIDE DEF Bad
  <2>1. m - 1 \in Nat /\ m - 1 < m
    BY <1>5
  <2> QED BY <1>3, <1>5, <2>1
<1> DEFINE U == T \ {m}
<1>7. U \in SUBSET ids /\ U \subseteq 1..(m - 1)
  <2>1. m \in Nat /\ T \in SUBSET ids /\ T \subseteq 1..m
    BY <1>3, <1>4
  <2> HIDE DEF Bad, HasMax
  <2> QED BY <2>1
<1>8. U = {} \/ HasMax(U)
  <2> HIDE DEF HasMax, U
  <2> QED BY <1>6, <1>7
<1>9. CASE U = {}
  <2>1. T = {m} /\ f[m] \in Nat
    BY <1>4, <1>9
  <2> QED BY <1>4, <2>1
<1>10. CASE HasMax(U)
  <2>1. PICK i \in U : \A j \in U : f[j] <= f[i]
    BY <1>10
  <2>2. CASE m \in T
    <3>1. T = U \cup {m} /\ f[m] \in Nat /\ f[i] \in Nat /\ \A j \in U : f[j] \in Nat
      BY <2>2, <1>4
    <3>2. CASE f[i] <= f[m]
      <4>1. \A j \in T : f[j] <= f[m]
        BY <2>1, <3>1, <3>2
      <4> QED BY <1>4, <2>2, <4>1
    <3>3. CASE f[m] <= f[i]
      <4>1. \A j \in T : f[j] <= f[i]
        BY <2>1, <3>1, <3>3
      <4> QED BY <1>4, <4>1
    <3> QED BY <3>1, <3>2, <3>3
  <2>3. CASE m \notin T
    BY <1>4, <2>1, <2>3
  <2> QED BY <2>2, <2>3
<1> QED BY <1>8, <1>9, <1>10

LEMMA MaxOf ==
    ASSUME NEW n \in Nat, NEW ids \in SUBSET (1..n), ids # {}
    PROVE  \E i \in ids : \A j \in ids : j <= i
<1> DEFINE f == [i \in 1..n |-> i]
<1>1. \A i \in ids : f[i] = i /\ f[i] \in Nat
  OBVIOUS
<1>2. \E i \in ids : \A j \in ids : f[j] <= f[i]
  <2> HIDE DEF f
  <2> QED BY <1>1, MaxOfImage
<1> QED BY <1>1, <1>2

LEMMA LastIsLast ==
    ASSUME NEW n \in Nat, NEW ids \in SUBSET (1..n)
    PROVE  /\ LastOf(ids) \in 0..n
           /\ ids = {} => LastOf(ids) = 0
           /\ ids # {} => LastOf(ids) \in ids
           /\ \A j \in ids : j <= LastOf(ids)
<1>1. CASE ids = {}
  BY <1>1 DEF LastOf
<1>2. CASE ids # {}
  <2>1. \E i \in ids : \A j \in ids : j <= i
    BY <1>2, MaxOf
  <2>2. LastOf(ids) \in ids /\ \A j \in ids : j <= LastOf(ids)
    BY <1>2, <2>1 DEF LastOf
  <2>3. LastOf(ids) \in 1..n
    BY <2>2
  <2>4. LastOf(ids) \in 0..n
    BY <2>3
  <2> QED BY <1>2, <2>2, <2>4
<1> QED BY <1>1, <1>2

\* max(TC_RUN_ID) + 1 is above the numbers of all the entries
LEMMA NextRunIsNext ==
    ASSUME table \in Seq(Entry), NEW q
    PROVE  /\ NextRun(q) \in Nat
           /\ \A i \in OwnEntries(q) : table[i].run < NextRun(q)
<1> DEFINE runs == {table[i].run : i \in OwnEntries(q)}
           f == [i \in DOMAIN table |-> table[i].run]
<1>1. OwnEntries(q) \in SUBSET (1..Len(table)) /\ Len(table) \in Nat /\ DOMAIN table = 1..Len(table)
  BY DEF OwnEntries, AnyEntries
<1>2. \A i \in DOMAIN table : table[i].run \in Nat
  <2>1. \A i \in DOMAIN table : table[i] \in Entry
    OBVIOUS
  <2> QED BY <2>1 DEF Entry
<1>3. CASE OwnEntries(q) = {}
  <2>1. runs = {}
    BY <1>3
  <2> QED BY <1>3, <2>1 DEF NextRun
<1>4. CASE OwnEntries(q) # {}
  <2>1. \A i \in OwnEntries(q) : f[i] = table[i].run /\ f[i] \in Nat
    BY <1>1, <1>2
  <2>2. PICK i \in OwnEntries(q) : \A j \in OwnEntries(q) : f[j] <= f[i]
    <3> HIDE DEF f
    <3> QED BY <1>1, <1>4, <2>1, MaxOfImage
  <2>3. table[i].run \in runs /\ \A m \in runs : m <= table[i].run
    BY <2>1, <2>2
  <2>4. \A m \in runs : m \in Nat
    BY <2>1
  <2> DEFINE top == CHOOSE n \in runs : \A m \in runs : m <= n
  <2>5. top \in runs /\ \A m \in runs : m <= top
    <3> HIDE DEF runs
    <3> QED BY <2>3
  <2>6. NextRun(q) = 1 + top
    BY <2>3 DEF NextRun
  <2> HIDE DEF top, runs
  <2>7. \A m \in runs : m < NextRun(q)
    BY <2>4, <2>5, <2>6
  <2>8. \A j \in OwnEntries(q) : table[j].run \in runs
    BY DEF runs
  <2>9. NextRun(q) \in Nat
    BY <2>4, <2>5, <2>6
  <2> QED BY <2>7, <2>8, <2>9
<1> QED BY <1>3, <1>4

-----------------------------------------------------------------------------
(* Counting the rows that are at certain places                            *)

At(places, f) == {r \in Rows : f[r] \in places}

LEMMA AtIsFinite ==
    ASSUME NEW places, NEW f
    PROVE  IsFiniteSet(At(places, f)) /\ Cardinality(At(places, f)) \in Nat
<1>1. IsFiniteSet(Rows)
  BY StatusLogAssumption, FS_Interval DEF Rows
<1>2. At(places, f) \in SUBSET Rows
  BY DEF At
<1>3. IsFiniteSet(At(places, f))
  BY <1>1, <1>2, FS_Subset
<1> QED BY <1>3, FS_CardinalityType

\* A row goes from one place to another
LEMMA AtAfterStep ==
    ASSUME NEW places, NEW f, NEW g, NEW r \in Rows, NEW to,
           g[r] = to, \A q \in Rows : q # r => g[q] = f[q]
    PROVE  Cardinality(At(places, g)) =
               Cardinality(At(places, f)) + (IF to \in places THEN 1 ELSE 0)
                                          - (IF f[r] \in places THEN 1 ELSE 0)
<1> DEFINE rest == At(places, f) \ {r}
<1>2. IsFiniteSet(At(places, f)) /\ Cardinality(At(places, f)) \in Nat
  BY AtIsFinite
<1>3. /\ IsFiniteSet(rest)
      /\ Cardinality(rest) = Cardinality(At(places, f)) - (IF f[r] \in places THEN 1 ELSE 0)
  <2>1. r \in At(places, f) <=> f[r] \in places
    BY DEF At
  <2> QED BY <1>2, <2>1, FS_RemoveElement
<1>4. At(places, g) = IF to \in places THEN rest \cup {r} ELSE rest
  BY DEF At
<1>5. Cardinality(At(places, g)) = Cardinality(rest) + (IF to \in places THEN 1 ELSE 0)
  <2>1. r \notin rest
    OBVIOUS
  <2> HIDE DEF rest
  <2>2. CASE to \in places
    BY <1>3, <1>4, <2>1, <2>2, FS_AddElement
  <2>3. CASE to \notin places
    <3>1. Cardinality(rest) \in Nat
      BY <1>3, FS_CardinalityType
    <3> QED BY <1>4, <2>3, <3>1
  <2> QED BY <2>2, <2>3
<1> HIDE DEF rest
<1> QED BY <1>2, <1>3, <1>5

-----------------------------------------------------------------------------
(* The invariants                                                          *)

\* The rows that hold a session, and those for which getRunID has left one behind
Using == {"inserting", "inserted", "counting", "updating"}
Leaking == {"update", "updating", "logged"}

\* rows that have no ID yet
Fresh(r) == pc[r] = "listed" \/ InSetup(r)

SetupInv ==
    /\ \A r \in Rows : Fresh(r) => entry[r] = 0
    /\ \A r \in Rows : pc[r] = "inserted" => OwnEntries(r) # {}
    /\ IDIsLatest

Started(r) == InListener(r) \/ Ended(r)

\* where the locals of updateStatus have a value, in the order in which they get it
HasName  == {"reading", "count", "counting", "update", "updating"}
HasAsked == {"count", "counting", "update", "updating"}
HasRun   == {"update", "updating"}

\* what the one row in the listener has read is about itself
InOrder == \A q, r \in Rows : Started(r) /\ q < r => Ended(q)
IsField == \A r \in Rows : InListener(r) => parameters = r
IsName  == \A r \in Rows : pc[r] \in HasName => tcID[r] = r
IsAsked == \A r \in Rows : pc[r] \in HasAsked => about[r] = r
IsAbove == \A r \in Rows : runID[r] # 0 => /\ pc[r] \in HasRun
                                           /\ \A i \in OwnEntries(r) : table[i].run < runID[r]

SerialInv == Workers = 1 => InOrder /\ IsField /\ IsName /\ IsAsked /\ IsAbove

IInv == TypeOK /\ SessionsAccounted /\ SetupInv /\ SerialInv /\ RunIDsGrow

-----------------------------------------------------------------------------
(* What the steps do to the table                                          *)

\* The entry that Update(r) changes
Updated(r) == LastOf(OwnEntries(tcID[r]))

LEMMA NewEntry ==
    ASSUME NEW r \in Rows
    PROVE  /\ NotRun(r, TRUE) \in Entry /\ NotRun(r, TRUE).own /\ NotRun(r, TRUE).test = r
           /\ NotRun(r, FALSE) \in Entry /\ ~NotRun(r, FALSE).own /\ NotRun(r, FALSE).test = r
           /\ NotRun(r, TRUE).run = 0 /\ NotRun(r, FALSE).run = 0
  BY DEF NotRun, Entry, Statuses

LEMMA Appends ==
    ASSUME TypeOK, NEW e \in Entry, table' = Append(table, e)
    PROVE  /\ table' \in Seq(Entry)
           /\ Len(table) \in Nat
           /\ Len(table') = Len(table) + 1
           /\ table'[Len(table')] = e
           /\ \A i \in DOMAIN table : i \in DOMAIN table' /\ i # Len(table') /\ table'[i] = table[i]
           /\ DOMAIN table' = DOMAIN table \cup {Len(table')}
  BY DEF TypeOK

LEMMA Updates ==
    ASSUME TypeOK, NEW r \in Rows, Update(r)
    PROVE  /\ table' \in Seq(Entry)
           /\ Len(table') = Len(table)
           /\ DOMAIN table' = DOMAIN table
           /\ \A i \in DOMAIN table :
                 /\ table'[i].test = table[i].test
                 /\ table'[i].own = table[i].own
                 /\ i # Updated(r) => table'[i] = table[i]
                 /\ i = Updated(r) => table'[i].status = outcome[r] /\ table'[i].run = runID[r]
<1> DEFINE id == Updated(r)
           Changed(e) == [e EXCEPT !.status = outcome[r], !.run = runID[r]]
<1>1. table' = [i \in DOMAIN table |-> IF i = id THEN Changed(table[i]) ELSE table[i]]
  BY DEF Update, Updated
<1>2. outcome[r] \in Statuses /\ runID[r] \in Nat /\ table \in Seq(Entry)
  BY DEF TypeOK
<1> HIDE DEF id
<1>3. \A e \in Entry : /\ Changed(e) \in Entry
                       /\ Changed(e).test = e.test /\ Changed(e).own = e.own
                       /\ Changed(e).status = outcome[r] /\ Changed(e).run = runID[r]
  BY <1>2 DEF Entry
<1> HIDE DEF Changed
<1>4. \A i \in DOMAIN table : table[i] \in Entry
  BY <1>2
<1>5. DOMAIN table = 1..Len(table) /\ Len(table) \in Nat
  BY <1>2
<1>6. \A i \in 1..Len(table) : (IF i = id THEN Changed(table[i]) ELSE table[i]) \in Entry
  BY <1>3, <1>4, <1>5
<1>7. table' \in Seq(Entry) /\ Len(table') = Len(table)
  BY <1>1, <1>5, <1>6
<1> QED BY <1>1, <1>3, <1>4, <1>5, <1>7 DEF id

\* The entries of a row stay its own
LEMMA OwnAfterUpdate ==
    ASSUME TypeOK, NEW r \in Rows, Update(r), NEW q
    PROVE  OwnEntries(q)' = OwnEntries(q)
  BY Updates DEF OwnEntries, AnyEntries

LEMMA OwnAfterAppend ==
    ASSUME TypeOK, NEW e \in Entry, table' = Append(table, e), NEW q, ~e.own \/ e.test # q
    PROVE  OwnEntries(q)' = OwnEntries(q) /\ \A i \in OwnEntries(q) : table'[i] = table[i]
  BY Appends DEF OwnEntries, AnyEntries

LEMMA OwnIds ==
    ASSUME TypeOK, NEW q
    PROVE  /\ OwnEntries(q) \in SUBSET (1..Len(table)) /\ AnyEntries(q) \in SUBSET (1..Len(table))
           /\ Len(table) \in Nat
           /\ \A i \in OwnEntries(q) : i \in DOMAIN table /\ table[i].own /\ table[i].test = q
  BY DEF OwnEntries, AnyEntries, TypeOK

-----------------------------------------------------------------------------
(* Types                                                                   *)

LEMMA SettingTypes ==
    ASSUME NEW s \in Settings
    PROVE  s.sessions \in Nat /\ s.passes \in Nat \ {0} /\ s.workers \in Nat \ {0}
<1>1. s \in Setting
  BY StatusLogAssumption
<1> QED BY <1>1 DEF Setting

LEMMA TypeInit == Init => TypeOK
<1> SUFFICES ASSUME Init PROVE TypeOK
  OBVIOUS
<1>1. <<>> \in Seq(Entry)
  OBVIOUS
<1>2. sessions \in 0..settings.sessions /\ pass \in 1..settings.passes
  <2>1. settings \in Settings /\ sessions = 0 /\ pass = 1
    BY DEF Init
  <2>2. settings.sessions \in Nat /\ settings.passes \in Nat \ {0}
    BY <2>1, SettingTypes
  <2> QED BY <2>1, <2>2
<1>3. tries \in [Rows -> 0..(MaxTries - 1)]
  <2>1. 0 \in 0..(MaxTries - 1)
    BY StatusLogAssumption
  <2> QED BY <2>1 DEF Init
<1> QED BY <1>1, <1>2, <1>3 DEF Init, TypeOK, PCs, Statuses, MaxSessions, Passes

\* A session is given back by a row that holds one
LEMMA OneIsOpen ==
    ASSUME TypeOK, SessionsAccounted, NEW r \in Rows, pc[r] \in Using
    PROVE  sessions - 1 \in 0..MaxSessions
<1>1. IsFiniteSet(At(Using, pc)) /\ Cardinality(At(Using, pc)) \in Nat
  BY AtIsFinite
<1>2. Cardinality(At(Leaking, pc)) \in Nat
  BY AtIsFinite
<1>3. Cardinality(At(Using, pc)) # 0
  <2>1. r \in At(Using, pc)
    BY DEF At
  <2> QED BY <1>1, <2>1, FS_EmptySet
<1>4. sessions = Cardinality(At(Using, pc)) + Cardinality(At(Leaking, pc))
  BY DEF SessionsAccounted, At, Using, Leaking
<1>5. sessions \in 0..MaxSessions /\ MaxSessions \in Nat
  BY StatusLogAssumption DEF TypeOK, MaxSessions, Setting
<1> QED BY <1>1, <1>2, <1>3, <1>4, <1>5

LEMMA ReturnTypes ==
    ASSUME TypeOK, NEW r \in Rows, Return(r)
    PROVE  /\ tcID' \in [Rows -> Rows \cup {NoRow}]
           /\ about' \in [Rows -> Rows \cup {NoRow}]
           /\ runID' \in [Rows -> Nat]
           /\ outcome' \in [Rows -> Statuses]
           /\ entry' \in [Rows -> Nat]
  BY DEF TypeOK, Return, Statuses

LEMMA TypeStep == TypeOK /\ SessionsAccounted /\ [Next]_vars => TypeOK'
<1> SUFFICES ASSUME TypeOK, SessionsAccounted, [Next]_vars PROVE TypeOK'
  OBVIOUS
<1> USE DEF TypeOK, dbVars, rowVars, MaxSessions, Passes
<1>0. CASE UNCHANGED vars
  BY <1>0 DEF vars
<1>1. CASE DatabaseChanges
  BY <1>1 DEF DatabaseChanges
<1>2. CASE OtherInserts
  <2>1. table' \in Seq(Entry)
    BY <1>2, NewEntry, Appends DEF OtherInserts
  <2> QED BY <1>2, <2>1 DEF OtherInserts
<1>3. CASE RunAgain
  <2>0. settings.sessions \in Nat /\ settings.passes \in Nat \ {0}
    BY SettingTypes
  <2>1. pass' = pass + 1 /\ pass < settings.passes /\ sessions' = 0
    BY <1>3 DEF RunAgain
  <2>2. pass' \in 1..settings.passes /\ sessions' \in 0..settings.sessions
    BY <2>0, <2>1
  <2> QED BY <1>3, <2>1, <2>2 DEF RunAgain, PCs, Statuses
<1>4. ASSUME NEW r \in Rows, Connect(r) PROVE TypeOK'
  <2>1. sessions' \in 0..settings.sessions
    BY <1>4, SettingTypes DEF Connect, Granted
  <2>2. pc' \in [Rows -> PCs]
    BY <1>4 DEF Connect, Callers, Connected, PCs
  <2>3. tries' \in [Rows -> 0..(MaxTries - 1)]
    BY <1>4, StatusLogAssumption DEF Connect
  <2> QED BY <1>4, <2>1, <2>2, <2>3 DEF Connect
<1>5. ASSUME NEW r \in Rows, Retry(r) PROVE TypeOK'
  <2>1. tries' \in [Rows -> 0..(MaxTries - 1)]
    <3>1. MaxTries \in Nat \ {0} /\ tries[r] \in 0..(MaxTries - 1)
      BY StatusLogAssumption
    <3>2. \/ tries' = [tries EXCEPT ![r] = tries[r] + 1] /\ tries[r] + 1 < MaxTries
          \/ tries' = [tries EXCEPT ![r] = 0]
      BY <1>5 DEF Retry
    <3>3. 0 \in 0..(MaxTries - 1) /\ (tries[r] + 1 < MaxTries => tries[r] + 1 \in 0..(MaxTries - 1))
      BY <3>1
    <3> QED BY <3>2, <3>3
  <2>2. pc' \in [Rows -> PCs]
    <3>1. GivenUp[pc[r]] \in PCs
      BY <1>5 DEF Retry, Callers, GivenUp, PCs
    <3>2. pc' = pc \/ pc' = [pc EXCEPT ![r] = GivenUp[pc[r]]]
      BY <1>5 DEF Retry
    <3> HIDE DEF GivenUp
    <3> QED BY <3>1, <3>2
  <2>3. UNCHANGED rowVars \/ Return(r)
    BY <1>5 DEF Retry
  <2> QED BY <1>5, <2>1, <2>2, <2>3, ReturnTypes DEF Retry
<1>6. ASSUME NEW r \in Rows, ListRow(r) PROVE TypeOK'
  BY <1>6 DEF ListRow, Go, PCs, Callers
<1>7. ASSUME NEW r \in Rows, Insert(r) PROVE TypeOK'
  <2>1. table' \in Seq(Entry)
    BY <1>7, NewEntry, Appends DEF Insert
  <2> QED BY <1>7, <2>1 DEF Insert, Go, PCs
<1>8. ASSUME NEW r \in Rows, SelectId(r) PROVE TypeOK'
  <2>1. sessions' \in 0..settings.sessions
    BY <1>8, OneIsOpen DEF SelectId, Go, Using
  <2>2. LastOf(AnyEntries(r)) \in Nat
    BY OwnIds, LastIsLast
  <2> QED BY <1>8, <2>1, <2>2 DEF SelectId, Go, PCs
<1>9. ASSUME NEW r \in Rows, InsertFails(r) PROVE TypeOK'
  <2>1. sessions' \in 0..settings.sessions
    BY <1>9, OneIsOpen DEF InsertFails, Go, Using
  <2> QED BY <1>9, <2>1 DEF InsertFails, Go, PCs
<1>10. ASSUME NEW r \in Rows, OnTest(r) PROVE TypeOK'
  <2>1. outcome' \in [Rows -> Statuses]
    <3>1. PICK s \in Outcomes[r] : outcome' = [outcome EXCEPT ![r] = s]
      BY <1>10 DEF OnTest
    <3>2. s \in Statuses
      <4>1. Outcomes[r] \in SUBSET {"PASS", "FAIL", "SKIP"}
        BY StatusLogAssumption
      <4> QED BY <4>1 DEF Statuses
    <3> QED BY <3>1, <3>2
  <2> QED BY <1>10, <2>1 DEF OnTest, Go, PCs
<1>11. ASSUME NEW r \in Rows, TakeName(r) PROVE TypeOK'
  BY <1>11 DEF TakeName, Go, PCs
<1>12. ASSUME NEW r \in Rows, CallGetRunID(r) PROVE TypeOK'
  BY <1>12 DEF CallGetRunID, Go, PCs, Callers
<1>13. ASSUME NEW r \in Rows, GetRunID(r) PROVE TypeOK'
  <2>1. runID' \in [Rows -> Nat]
    BY <1>13, NextRunIsNext DEF GetRunID
  <2> QED BY <1>13, <2>1 DEF GetRunID, Go, PCs, Callers
<1>14. ASSUME NEW r \in Rows, Update(r) PROVE TypeOK'
  <2>1. sessions' \in 0..settings.sessions
    BY <1>14, OneIsOpen DEF Update, Go, Using
  <2>2. table' \in Seq(Entry)
    BY <1>14, Updates
  <2>3. Return(r)
    BY <1>14 DEF Update
  <2> QED BY <1>14, <2>1, <2>2, <2>3, ReturnTypes DEF Update, Go, PCs
<1>15. ASSUME NEW r \in Rows, UpdateFails(r) PROVE TypeOK'
  <2>1. sessions' \in 0..settings.sessions
    BY <1>15, OneIsOpen DEF UpdateFails, Go, Using
  <2>2. Return(r)
    BY <1>15 DEF UpdateFails
  <2> QED BY <1>15, <2>1, <2>2, ReturnTypes DEF UpdateFails, Go, PCs
<1> QED BY <1>0, <1>1, <1>2, <1>3, <1>4, <1>5, <1>6, <1>7, <1>8, <1>9, <1>10, <1>11, <1>12, <1>13,
           <1>14, <1>15 DEF Next, Do, Setup, Listen

-----------------------------------------------------------------------------
(* Sessions                                                                *)

Holds(p) == (IF p \in Using THEN 1 ELSE 0) + (IF p \in Leaking THEN 1 ELSE 0)

LEMMA SessionsMove ==
    ASSUME TypeOK, SessionsAccounted, NEW r \in Rows, NEW to, pc' = [pc EXCEPT ![r] = to],
           sessions' = sessions + Holds(to) - Holds(pc[r])
    PROVE  SessionsAccounted'
<1>1. pc \in [Rows -> PCs]
  BY DEF TypeOK
<1>2. /\ Cardinality(At(Using, pc)) \in Nat
      /\ Cardinality(At(Leaking, pc)) \in Nat
  BY AtIsFinite
<1>3. sessions = Cardinality(At(Using, pc)) + Cardinality(At(Leaking, pc))
  BY DEF SessionsAccounted, At, Using, Leaking
<1>4. pc'[r] = to /\ \A q \in Rows : q # r => pc'[q] = pc[q]
  BY <1>1
<1>5. Cardinality(At(Using, pc')) =
          Cardinality(At(Using, pc)) + (IF to \in Using THEN 1 ELSE 0) - (IF pc[r] \in Using THEN 1 ELSE 0)
  BY <1>4, AtAfterStep
<1>6. Cardinality(At(Leaking, pc')) =
          Cardinality(At(Leaking, pc)) + (IF to \in Leaking THEN 1 ELSE 0) - (IF pc[r] \in Leaking THEN 1 ELSE 0)
  BY <1>4, AtAfterStep
<1>7. sessions' = Cardinality(At(Using, pc')) + Cardinality(At(Leaking, pc'))
  BY <1>2, <1>3, <1>5, <1>6 DEF Holds
<1> QED BY <1>7 DEF SessionsAccounted, At, Using, Leaking

LEMMA SessionsStep == TypeOK /\ SessionsAccounted /\ [Next]_vars => SessionsAccounted'
<1> SUFFICES ASSUME TypeOK, SessionsAccounted, [Next]_vars PROVE SessionsAccounted'
  OBVIOUS
<1>0. ASSUME UNCHANGED <<pc, sessions>> PROVE SessionsAccounted'
  BY <1>0 DEF SessionsAccounted
<1>1. ASSUME NEW r \in Rows, NEW from, NEW to, Go(r, from, to), sessions' = sessions, Holds(from) = Holds(to)
      PROVE  SessionsAccounted'
  <2>1. sessions' = sessions + Holds(to) - Holds(pc[r])
    <3>1. pc[r] = from /\ Holds(to) \in Nat /\ sessions \in Nat
      BY <1>1 DEF Go, Holds, TypeOK
    <3> QED BY <1>1, <3>1
  <2> QED BY <1>1, <2>1, SessionsMove DEF Go
<1>2. ASSUME NEW r \in Rows, NEW from, NEW to, Go(r, from, to), sessions' = sessions - 1,
             Holds(from) = Holds(to) + 1
      PROVE  SessionsAccounted'
  <2>1. sessions' = sessions + Holds(to) - Holds(pc[r])
    <3>1. pc[r] = from /\ Holds(to) \in Nat /\ sessions \in Nat
      BY <1>2 DEF Go, Holds, TypeOK
    <3> QED BY <1>2, <3>1
  <2> QED BY <1>2, <2>1, SessionsMove DEF Go
<1> USE DEF dbVars
<1>3. CASE UNCHANGED vars \/ DatabaseChanges \/ OtherInserts
  BY <1>0, <1>3 DEF vars, DatabaseChanges, OtherInserts
<1>4. CASE RunAgain
  <2>1. \A r \in Rows : pc'[r] = "listed"
    BY <1>4 DEF RunAgain
  <2>2. At(Using, pc') = {} /\ At(Leaking, pc') = {}
    BY <2>1 DEF At, Using, Leaking
  <2>3. Cardinality({}) = 0 /\ sessions' = 0
    BY <1>4, FS_EmptySet DEF RunAgain
  <2>4. sessions' = Cardinality(At(Using, pc')) + Cardinality(At(Leaking, pc'))
    BY <2>2, <2>3
  <2> QED BY <2>4 DEF SessionsAccounted, At, Using, Leaking
<1>5. ASSUME NEW r \in Rows, Connect(r) PROVE SessionsAccounted'
  <2>1. pc[r] \in Callers /\ pc' = [pc EXCEPT ![r] = Connected[pc[r]]] /\ sessions' = sessions + 1
    BY <1>5 DEF Connect
  <2>2. Holds(Connected[pc[r]]) = Holds(pc[r]) + 1 /\ Holds(pc[r]) \in Nat /\ sessions \in Nat
    BY <2>1 DEF Holds, Using, Leaking, Connected, Callers, TypeOK
  <2>3. sessions' = sessions + Holds(Connected[pc[r]]) - Holds(pc[r])
    BY <2>1, <2>2
  <2> QED BY <2>1, <2>3, SessionsMove
<1>6. ASSUME NEW r \in Rows, Retry(r) PROVE SessionsAccounted'
  <2>1. sessions' = sessions /\ pc[r] \in Callers
    BY <1>6 DEF Retry
  <2>2. Holds(GivenUp[pc[r]]) = Holds(pc[r])
    BY <2>1 DEF Holds, Using, Leaking, GivenUp, Callers
  <2>3. pc' = pc \/ Go(r, pc[r], GivenUp[pc[r]])
    BY <1>6 DEF Retry, Go
  <2> QED BY <1>0, <1>1, <2>1, <2>2, <2>3
<1> USE DEF Holds, Using, Leaking
<1>7. ASSUME NEW r \in Rows, ListRow(r) \/ Insert(r) \/ OnTest(r) \/ TakeName(r) \/ CallGetRunID(r) \/ GetRunID(r)
      PROVE  SessionsAccounted'
  <2>1. CASE ListRow(r)
    BY <2>1, <1>1 DEF ListRow
  <2>2. CASE Insert(r)
    BY <2>2, <1>1 DEF Insert
  <2>3. CASE OnTest(r)
    BY <2>3, <1>1 DEF OnTest
  <2>4. CASE TakeName(r)
    BY <2>4, <1>1 DEF TakeName
  <2>5. CASE CallGetRunID(r)
    BY <2>5, <1>1 DEF CallGetRunID
  <2>6. CASE GetRunID(r)
    BY <2>6, <1>1 DEF GetRunID
  <2> QED BY <1>7, <2>1, <2>2, <2>3, <2>4, <2>5, <2>6
<1>8. ASSUME NEW r \in Rows, SelectId(r) \/ InsertFails(r) \/ Update(r) \/ UpdateFails(r)
      PROVE  SessionsAccounted'
  <2>1. CASE SelectId(r)
    BY <2>1, <1>2 DEF SelectId
  <2>2. CASE InsertFails(r)
    <3>1. /\ Go(r, "inserting", "ready") \/ Go(r, "inserted", "ready")
          /\ sessions' = sessions - 1
      BY <2>2 DEF InsertFails
    <3>2. CASE Go(r, "inserting", "ready")
      BY <3>1, <3>2, <1>2
    <3>3. CASE Go(r, "inserted", "ready")
      BY <3>1, <3>3, <1>2
    <3> QED BY <3>1, <3>2, <3>3
  <2>3. CASE Update(r)
    <3>1. Go(r, "updating", "logged") /\ sessions' = sessions - 1
      BY <2>3 DEF Update
    <3> QED BY <3>1, <1>2
  <2>4. CASE UpdateFails(r)
    BY <2>4, <1>2 DEF UpdateFails
  <2> QED BY <1>8, <2>1, <2>2, <2>3, <2>4
<1> QED BY <1>3, <1>4, <1>5, <1>6, <1>7, <1>8 DEF Next, Do, Setup, Listen

-----------------------------------------------------------------------------
(* The steps of a row                                                      *)

\* Where a step takes its row, and which steps change what the rows share
LEMMA DoMoves ==
    ASSUME TypeOK, NEW r \in Rows, Do(r)
    PROVE  /\ \A q \in Rows : q # r => pc'[q] = pc[q] /\ entry'[q] = entry[q]
           /\ pc'[r] # "listed"
           /\ ~Ended(r)
           /\ InSetup(r)' => InSetup(r) \/ ListRow(r)
           /\ InListener(r)' => InListener(r) \/ OnTest(r)
           /\ Ended(r)' => InListener(r)
           /\ pc'[r] = "inserted" => Insert(r)
           /\ settings' = settings
           /\ entry' = entry \/ SelectId(r)
           /\ table' = table \/ Insert(r) \/ Update(r)
           /\ parameters' = parameters \/ OnTest(r)
<1> USE DEF dbVars, rowVars, InSetup, InListener, Ended, Go
<1>1. r \in DOMAIN pc /\ DOMAIN pc = Rows /\ DOMAIN entry = Rows
  BY DEF TypeOK
<1>2. CASE Connect(r)
  <2>1. /\ pc[r] \in Callers /\ pc' = [pc EXCEPT ![r] = Connected[pc[r]]]
        /\ UNCHANGED <<settings, parameters, table, entry>>
    BY <1>2 DEF Connect
  <2>2. pc'[r] = Connected[pc[r]] /\ \A q \in Rows : q # r => pc'[q] = pc[q]
    BY <1>1, <2>1
  <2>3. \/ pc[r] = "insert" /\ pc'[r] = "inserting"
        \/ pc[r] = "count" /\ pc'[r] = "counting"
        \/ pc[r] = "update" /\ pc'[r] = "updating"
    BY <2>1, <2>2 DEF Callers, Connected
  <2> QED BY <2>1, <2>2, <2>3
<1>3. CASE Retry(r)
  <2>1. /\ pc[r] \in Callers /\ (pc' = pc \/ pc' = [pc EXCEPT ![r] = GivenUp[pc[r]]])
        /\ UNCHANGED <<settings, parameters, table, entry>>
    BY <1>3 DEF Retry, Return
  <2>2. pc'[r] \in {pc[r], GivenUp[pc[r]]} /\ \A q \in Rows : q # r => pc'[q] = pc[q]
    BY <1>1, <2>1
  <2>3. \/ pc[r] = "insert" /\ pc'[r] \in {"insert", "ready"}
        \/ pc[r] = "count" /\ pc'[r] \in {"count", "thrown"}
        \/ pc[r] = "update" /\ pc'[r] \in {"update", "logged"}
    BY <2>1, <2>2 DEF Callers, GivenUp
  <2> QED BY <2>1, <2>2, <2>3
<1>4. CASE ListRow(r)
  BY <1>1, <1>4 DEF ListRow
<1>5. CASE Insert(r)
  BY <1>1, <1>5 DEF Insert
<1>6. CASE SelectId(r)
  BY <1>1, <1>6 DEF SelectId
<1>7. CASE InsertFails(r)
  BY <1>1, <1>7 DEF InsertFails
<1>8. CASE OnTest(r)
  BY <1>1, <1>8 DEF OnTest
<1>9. CASE TakeName(r)
  BY <1>1, <1>9 DEF TakeName
<1>10. CASE CallGetRunID(r)
  BY <1>1, <1>10 DEF CallGetRunID
<1>11. CASE GetRunID(r)
  <2>1. Go(r, "counting", "update") /\ UNCHANGED <<settings, parameters, table, entry>>
    BY <1>11 DEF GetRunID
  <2> QED BY <1>1, <2>1
<1>12. CASE Update(r)
  <2>1. Go(r, "updating", "logged") /\ UNCHANGED <<settings, parameters, entry>>
    BY <1>12 DEF Update, Return
  <2> QED BY <1>1, <1>12, <2>1
<1>13. CASE UpdateFails(r)
  <2>1. Go(r, "updating", "logged") /\ UNCHANGED <<settings, parameters, table, entry>>
    BY <1>13 DEF UpdateFails, Return
  <2> QED BY <1>1, <2>1
<1> QED BY <1>2, <1>3, <1>4, <1>5, <1>6, <1>7, <1>8, <1>9, <1>10, <1>11, <1>12, <1>13 DEF Do, Setup, Listen

-----------------------------------------------------------------------------
(* The setup of the suite                                                  *)

\* The entries keep their places, their test cases and who made them
Kept == \A i \in DOMAIN table : /\ i \in DOMAIN table'
                                /\ table'[i].own = table[i].own
                                /\ table'[i].test = table[i].test

LEMMA AppendKeeps ==
    ASSUME TypeOK, NEW e \in Entry, table' = Append(table, e)
    PROVE  Kept
  BY Appends DEF Kept

\* A step that gives no test case an entry of this run, and no row an ID
LEMMA QuietSetup ==
    ASSUME TypeOK, SetupInv, Kept, entry' = entry,
           \A q \in Rows : /\ OwnEntries(q)' = OwnEntries(q)
                           /\ Fresh(q)' => Fresh(q)
                           /\ pc'[q] = "inserted" => pc[q] = "inserted"
    PROVE  SetupInv'
<1>1. IDIsLatest'
  BY DEF SetupInv, IDIsLatest, Kept
<1> QED BY <1>1 DEF SetupInv

LEMMA SetupStep == TypeOK /\ SetupInv /\ [Next]_vars => SetupInv'
<1> SUFFICES ASSUME TypeOK, SetupInv, [Next]_vars PROVE SetupInv'
  OBVIOUS
<1>1. CASE UNCHANGED vars \/ DatabaseChanges
  <2>1. UNCHANGED <<pc, table, entry>>
    BY <1>1 DEF vars, DatabaseChanges, dbVars, rowVars
  <2> QED BY <2>1, QuietSetup DEF Kept, OwnEntries, AnyEntries, Fresh, InSetup
<1>2. CASE OtherInserts
  <2>1. PICK o \in Rows : table' = Append(table, NotRun(o, FALSE))
    BY <1>2 DEF OtherInserts
  <2>2. UNCHANGED <<pc, entry>>
    BY <1>2 DEF OtherInserts, rowVars
  <2>3. NotRun(o, FALSE) \in Entry /\ ~NotRun(o, FALSE).own
    BY NewEntry
  <2>4. Kept /\ \A q \in Rows : OwnEntries(q)' = OwnEntries(q)
    BY <2>1, <2>3, AppendKeeps, OwnAfterAppend
  <2> QED BY <2>2, <2>4, QuietSetup DEF Fresh, InSetup
<1>3. CASE RunAgain
  <2>1. \A q \in Rows : pc'[q] = "listed" /\ entry'[q] = 0
    BY <1>3 DEF RunAgain
  <2> QED BY <2>1 DEF SetupInv, IDIsLatest
<1>4. ASSUME NEW r \in Rows, Insert(r) PROVE SetupInv'
  <2>1. /\ \A q \in Rows : q # r => pc'[q] = pc[q]
        /\ pc[r] = "inserting" /\ pc'[r] = "inserted"
        /\ table' = Append(table, NotRun(r, TRUE))
        /\ entry' = entry
    BY <1>4 DEF Insert, Go, TypeOK, rowVars
  <2>2. NotRun(r, TRUE) \in Entry /\ NotRun(r, TRUE).own /\ NotRun(r, TRUE).test = r
    BY NewEntry
  <2>3. Kept
    BY <2>1, <2>2, AppendKeeps
  <2>4. \A q \in Rows : q # r => OwnEntries(q)' = OwnEntries(q)
    BY <2>1, <2>2, OwnAfterAppend
  <2>5. Len(table') \in OwnEntries(r)'
    <3>1. table'[Len(table')] = NotRun(r, TRUE) /\ Len(table') \in DOMAIN table'
      BY <2>1, <2>2, Appends
    <3> QED BY <2>2, <3>1 DEF OwnEntries, AnyEntries
  <2>6. entry[r] = 0
    BY <2>1 DEF SetupInv, Fresh, InSetup
  <2>7. IDIsLatest'
    BY <2>1, <2>3, <2>4, <2>6 DEF SetupInv, IDIsLatest, Kept
  <2>8. \A q \in Rows : (Fresh(q)' => entry'[q] = 0) /\ (pc'[q] = "inserted" => (OwnEntries(q) # {})')
    BY <2>1, <2>4, <2>5, <2>6 DEF SetupInv, Fresh, InSetup
  <2> QED BY <2>7, <2>8 DEF SetupInv
<1>5. ASSUME NEW r \in Rows, SelectId(r) PROVE SetupInv'
  <2>1. /\ \A q \in Rows : q # r => pc'[q] = pc[q] /\ entry'[q] = entry[q]
        /\ pc[r] = "inserted" /\ pc'[r] = "ready"
        /\ entry'[r] = LastOf(AnyEntries(r))
        /\ table' = table
    BY <1>5 DEF SelectId, Go, TypeOK
  <2>2. \A q \in Rows : OwnEntries(q)' = OwnEntries(q)
    BY <2>1 DEF OwnEntries, AnyEntries
  <2>3. OwnEntries(r) # {} /\ OwnEntries(r) \subseteq AnyEntries(r)
    BY <2>1 DEF SetupInv, OwnEntries
  <2>4. /\ LastOf(AnyEntries(r)) \in AnyEntries(r)
        /\ \A j \in AnyEntries(r) : j <= LastOf(AnyEntries(r))
    BY <2>3, OwnIds, LastIsLast
  <2>5. entry'[r] \in DOMAIN table /\ table[entry'[r]].test = r /\ \A i \in OwnEntries(r) : i <= entry'[r]
    BY <2>1, <2>3, <2>4 DEF AnyEntries
  <2>6. IDIsLatest'
    BY <2>1, <2>2, <2>3, <2>5 DEF SetupInv, IDIsLatest
  <2>7. \A q \in Rows : (Fresh(q)' => entry'[q] = 0) /\ (pc'[q] = "inserted" => (OwnEntries(q) # {})')
    BY <2>1, <2>2 DEF SetupInv, Fresh, InSetup
  <2> QED BY <2>6, <2>7 DEF SetupInv
<1>6. ASSUME NEW r \in Rows, Do(r), ~Insert(r), ~SelectId(r) PROVE SetupInv'
  <2>1. /\ \A q \in Rows : q # r => pc'[q] = pc[q]
        /\ InSetup(r)' => InSetup(r) \/ ListRow(r)
        /\ pc'[r] # "listed" /\ pc'[r] # "inserted"
        /\ entry' = entry
        /\ table' = table \/ Update(r)
    BY <1>6, DoMoves
  <2>2. Kept /\ \A q \in Rows : OwnEntries(q)' = OwnEntries(q)
    <3>1. CASE table' = table
      BY <3>1 DEF Kept, OwnEntries, AnyEntries
    <3>2. CASE Update(r)
      <4>1. Kept
        BY <3>2, Updates DEF Kept
      <4> QED BY <3>2, <4>1, OwnAfterUpdate
    <3> QED BY <2>1, <3>1, <3>2
  <2>3. ListRow(r) => pc[r] = "listed"
    BY DEF ListRow, Go
  <2>4. \A q \in Rows : (Fresh(q)' => Fresh(q)) /\ (pc'[q] = "inserted" => pc[q] = "inserted")
    BY <2>1, <2>3 DEF Fresh, InSetup
  <2> QED BY <2>1, <2>2, <2>4, QuietSetup
<1> QED BY <1>1, <1>2, <1>3, <1>4, <1>5, <1>6 DEF Next

-----------------------------------------------------------------------------
(* One worker                                                              *)

\* Which steps set the locals; those of a call that has ended are gone
LEMMA DoLocals ==
    ASSUME TypeOK, NEW r \in Rows, Do(r)
    PROVE  /\ \A q \in Rows : q # r => tcID'[q] = tcID[q] /\ about'[q] = about[q] /\ runID'[q] = runID[q]
           /\ ~InListener(r)' => runID'[r] = 0 \/ (runID'[r] = runID[r] /\ ~InListener(r))
           /\ InListener(r)' => /\ tcID'[r] = tcID[r] \/ TakeName(r)
                                /\ about'[r] = about[r] \/ CallGetRunID(r)
                                /\ runID'[r] = runID[r] \/ GetRunID(r)
                                /\ pc[r] \in HasRun => pc'[r] \in HasRun
           /\ pc'[r] \in HasName => pc[r] \in HasName \/ TakeName(r)
           /\ pc'[r] \in HasAsked => pc[r] \in HasAsked \/ CallGetRunID(r)
<1> USE DEF dbVars, rowVars, InListener, Go, HasName, HasAsked, HasRun
<1>1. DOMAIN pc = Rows /\ DOMAIN tcID = Rows /\ DOMAIN about = Rows /\ DOMAIN runID = Rows
  BY DEF TypeOK
<1>2. CASE Connect(r)
  <2>1. /\ pc[r] \in Callers /\ pc'[r] = Connected[pc[r]]
        /\ UNCHANGED <<tcID, about, runID>>
    BY <1>1, <1>2 DEF Connect
  <2>2. \/ pc[r] = "insert" /\ pc'[r] = "inserting"
        \/ pc[r] = "count" /\ pc'[r] = "counting"
        \/ pc[r] = "update" /\ pc'[r] = "updating"
    BY <2>1 DEF Callers, Connected
  <2> QED BY <2>1, <2>2
<1>3. CASE Retry(r)
  <2>1. CASE pc' = pc /\ UNCHANGED rowVars
    BY <2>1
  <2>2. CASE pc'[r] = GivenUp[pc[r]] /\ Return(r)
    <3>1. pc[r] \in Callers
      BY <1>3 DEF Retry
    <3>2. pc'[r] \in {"ready", "thrown", "logged"}
      BY <2>2, <3>1 DEF Callers, GivenUp
    <3>3. runID'[r] = 0 /\ \A q \in Rows : q # r => tcID'[q] = tcID[q] /\ about'[q] = about[q] /\ runID'[q] = runID[q]
      BY <1>1, <2>2 DEF Return
    <3> QED BY <3>2, <3>3
  <2>3. (pc' = pc /\ UNCHANGED rowVars) \/ (pc'[r] = GivenUp[pc[r]] /\ Return(r))
    <3>1. (pc' = pc /\ UNCHANGED rowVars) \/ (pc' = [pc EXCEPT ![r] = GivenUp[pc[r]]] /\ Return(r))
      BY <1>3 DEF Retry
    <3> QED BY <1>1, <3>1
  <2> QED BY <2>1, <2>2, <2>3
<1>4. CASE Setup(r)
  <2>1. /\ pc[r] \in {"listed", "inserting", "inserted"}
        /\ pc'[r] \in {"insert", "inserted", "ready"}
        /\ UNCHANGED <<tcID, about, runID>>
    BY <1>1, <1>4 DEF Setup, ListRow, Insert, SelectId, InsertFails
  <2> QED BY <2>1
<1>5. CASE OnTest(r)
  BY <1>1, <1>5 DEF OnTest
<1>6. CASE TakeName(r)
  BY <1>1, <1>6 DEF TakeName
<1>7. CASE CallGetRunID(r)
  BY <1>1, <1>7 DEF CallGetRunID
<1>8. CASE GetRunID(r)
  <2>1. /\ pc[r] = "counting" /\ pc'[r] = "update"
        /\ UNCHANGED <<tcID, about>>
        /\ runID' = runID \/ runID' = [runID EXCEPT ![r] = NextRun(about[r])]
    BY <1>1, <1>8 DEF GetRunID
  <2> QED BY <1>1, <1>8, <2>1
<1>9. CASE Update(r) \/ UpdateFails(r)
  <2>1. Go(r, "updating", "logged") /\ Return(r)
    BY <1>9 DEF Update, UpdateFails
  <2> QED BY <1>1, <2>1 DEF Return
<1> QED BY <1>2, <1>3, <1>4, <1>5, <1>6, <1>7, <1>8, <1>9 DEF Do, Listen

LEMMA OneInListener ==
    ASSUME SerialInv, Workers = 1, NEW q \in Rows, NEW r \in Rows, InListener(r), Started(q), ~Ended(q)
    PROVE  q = r
<1>1. \A x, y \in Rows : Started(y) /\ x < y => Ended(x)
  BY DEF SerialInv, InOrder
<1>2. ~Ended(r) /\ Started(r)
  BY DEF InListener, Ended, Started
<1>3. ~(q < r) /\ ~(r < q)
  BY <1>1, <1>2
<1>4. q \in Nat /\ r \in Nat
  BY StatusLogAssumption DEF Rows
<1> QED BY <1>3, <1>4


LEMMA RowsInOrder == \A q, r \in Rows : q < r \/ r < q \/ q = r
  BY StatusLogAssumption DEF Rows

\* A row is taken when all before it have ended
LEMMA TakenInOrder ==
    ASSUME TypeOK, SerialInv, Workers = 1, NEW r \in Rows, OnTest(r)
    PROVE  /\ \A q \in Rows : q < r => Ended(q)
           /\ \A q \in Rows : ~InListener(q)
<1>1. Cardinality({q \in Rows : q < r /\ ~Ended(q)}) < 1 /\ pc[r] = "ready"
  BY DEF OnTest, Go
<1> DEFINE open == {q \in Rows : q < r /\ ~Ended(q)}
<1>2. IsFiniteSet(open)
  <2>1. IsFiniteSet(Rows)
    BY StatusLogAssumption, FS_Interval DEF Rows
  <2> QED BY <2>1, FS_Subset
<1>3. open = {}
  <2> HIDE DEF open
  <2>1. Cardinality(open) \in Nat
    BY <1>2, FS_CardinalityType
  <2>2. Cardinality(open) < 1
    BY <1>1 DEF open
  <2>3. Cardinality(open) = 0
    BY <2>1, <2>2
  <2> QED BY <1>2, <2>3, FS_EmptySet
<1>4. \A q \in Rows : q < r => Ended(q)
  BY <1>3
<1>5. \A q \in Rows : r < q => ~Started(q)
  BY <1>1 DEF SerialInv, InOrder, Ended
<1>6. ~InListener(r)
  BY <1>1 DEF InListener
<1>7. \A q \in Rows : ~InListener(q)
  BY <1>4, <1>5, <1>6, RowsInOrder DEF Started, InListener, Ended
<1> QED BY <1>4, <1>7

LEMMA SerialRow ==
    ASSUME TypeOK, SerialInv, Workers = 1, NEW r \in Rows, Do(r)
    PROVE  InOrder' /\ IsField' /\ IsName' /\ IsAsked' /\ IsAbove'
<1>0. InOrder /\ IsField /\ IsName /\ IsAsked /\ IsAbove
  BY DEF SerialInv
<1>1. /\ \A q \in Rows : q # r => pc'[q] = pc[q]
      /\ ~Ended(r)
      /\ InListener(r)' => InListener(r) \/ OnTest(r)
      /\ Ended(r)' => InListener(r)
      /\ table' = table \/ Insert(r) \/ Update(r)
      /\ parameters' = parameters \/ OnTest(r)
  BY DoMoves
<1>2. /\ \A q \in Rows : q # r => tcID'[q] = tcID[q] /\ about'[q] = about[q] /\ runID'[q] = runID[q]
      /\ ~InListener(r)' => runID'[r] = 0 \/ (runID'[r] = runID[r] /\ ~InListener(r))
      /\ InListener(r)' => /\ tcID'[r] = tcID[r] \/ TakeName(r)
                           /\ about'[r] = about[r] \/ CallGetRunID(r)
                           /\ runID'[r] = runID[r] \/ GetRunID(r)
                           /\ pc[r] \in HasRun => pc'[r] \in HasRun
      /\ pc'[r] \in HasName => pc[r] \in HasName \/ TakeName(r)
      /\ pc'[r] \in HasAsked => pc[r] \in HasAsked \/ CallGetRunID(r)
  BY DoLocals
<1>3. \A q \in Rows : q # r => /\ Ended(q)' <=> Ended(q)
                               /\ InListener(q)' <=> InListener(q)
                               /\ Started(q)' <=> Started(q)
  BY <1>1 DEF Ended, InListener, Started
<1>4. OnTest(r) => (\A q \in Rows : q < r => Ended(q)) /\ (\A q \in Rows : ~InListener(q))
  BY TakenInOrder
<1>5. InOrder'
  <2> SUFFICES ASSUME NEW q \in Rows, NEW x \in Rows, Started(x)', q < x PROVE Ended(q)'
    BY DEF InOrder
  <2>1. q \in Nat /\ x \in Nat /\ q # x
    BY StatusLogAssumption DEF Rows
  <2>2. CASE x # r
    <3>1. Ended(q)
      BY <1>0, <1>3, <2>2 DEF InOrder
    <3> QED BY <1>1, <1>3, <3>1
  <2>3. CASE x = r
    <3>1. InListener(r) \/ OnTest(r)
      BY <1>1, <2>3 DEF Started
    <3>2. Ended(q)
      BY <1>0, <1>4, <2>3, <3>1 DEF InOrder, Started
    <3> QED BY <1>3, <2>1, <2>3, <3>2
  <2> QED BY <2>2, <2>3
<1>6. IsField'
  <2>1. OnTest(r) => parameters' = r
    BY DEF OnTest
  <2> QED BY <1>0, <1>1, <1>3, <1>4, <2>1 DEF IsField
<1>7. IsName'
  <2>1. TakeName(r) => tcID'[r] = r
    <3>1. TakeName(r) => tcID'[r] = parameters /\ InListener(r)
      BY DEF TakeName, Go, InListener, TypeOK
    <3> QED BY <1>0, <3>1 DEF IsField
  <2>2. pc'[r] \in HasName => InListener(r)'
    BY DEF HasName, InListener
  <2>3. pc'[r] \in HasName => tcID'[r] = r
    BY <1>0, <1>2, <2>1, <2>2 DEF IsName
  <2> QED BY <1>0, <1>1, <1>2, <2>3 DEF IsName
<1>8. IsAsked'
  <2>1. CallGetRunID(r) => about'[r] = r
    <3>1. CallGetRunID(r) => about'[r] = parameters /\ InListener(r)
      BY DEF CallGetRunID, Go, InListener, TypeOK
    <3> QED BY <1>0, <3>1 DEF IsField
  <2>2. pc'[r] \in HasAsked => InListener(r)'
    BY DEF HasAsked, InListener
  <2>3. pc'[r] \in HasAsked => about'[r] = r
    BY <1>0, <1>2, <2>1, <2>2 DEF IsAsked
  <2> QED BY <1>0, <1>1, <1>2, <2>3 DEF IsAsked
<1>9. IsAbove'
  <2> SUFFICES ASSUME NEW x \in Rows, runID'[x] # 0
               PROVE  /\ pc'[x] \in HasRun
                      /\ \A i \in OwnEntries(x)' : table'[i].run < runID'[x]
    BY DEF IsAbove
  <2>1. CASE x # r
    <3>1. runID'[x] = runID[x] /\ pc'[x] = pc[x]
      BY <1>1, <1>2, <2>1
    <3>2. pc[x] \in HasRun /\ \A i \in OwnEntries(x) : table[i].run < runID[x]
      BY <1>0, <3>1 DEF IsAbove
    <3>3. ~Update(r)
      <4>1. SUFFICES ASSUME Update(r) PROVE FALSE
        OBVIOUS
      <4>2. InListener(r) /\ Started(x) /\ ~Ended(x)
        BY <3>2, <4>1 DEF Update, Go, InListener, Started, Ended, HasRun
      <4> QED BY <2>1, <4>2, OneInListener
    <3>4. OwnEntries(x)' = OwnEntries(x) /\ \A i \in OwnEntries(x) : table'[i] = table[i]
      <4>1. CASE table' = table
        BY <4>1 DEF OwnEntries, AnyEntries
      <4>2. CASE Insert(r)
        <5>1. table' = Append(table, NotRun(r, TRUE))
          BY <4>2 DEF Insert
        <5>2. NotRun(r, TRUE) \in Entry /\ NotRun(r, TRUE).test # x
          BY <2>1, NewEntry
        <5> QED BY <5>1, <5>2, OwnAfterAppend
      <4> QED BY <1>1, <3>3, <4>1, <4>2
    <3> QED BY <3>1, <3>2, <3>4
  <2>2. CASE x = r
    <3>1. InListener(r)'
      <4>1. SUFFICES ASSUME ~InListener(r)' PROVE FALSE
        OBVIOUS
      <4>2. runID[r] # 0 /\ ~InListener(r)
        BY <1>2, <2>2, <4>1
      <4> QED BY <1>0, <4>2 DEF IsAbove, InListener, HasRun
    <3>2. table' = table
      <4>1. ~Insert(r) /\ ~Update(r)
        BY <3>1 DEF Insert, Update, Go, InListener, TypeOK
      <4> QED BY <1>1, <4>1
    <3>3. OwnEntries(r)' = OwnEntries(r)
      BY <3>2 DEF OwnEntries, AnyEntries
    <3>4. CASE runID'[r] = runID[r]
      <4>1. pc[r] \in HasRun /\ \A i \in OwnEntries(r) : table[i].run < runID[r]
        BY <1>0, <2>2, <3>4 DEF IsAbove
      <4> QED BY <1>2, <2>2, <3>1, <3>2, <3>3, <3>4, <4>1
    <3>5. CASE GetRunID(r) /\ runID'[r] # runID[r]
      <4>1. /\ pc[r] = "counting" /\ pc'[r] = "update"
            /\ runID' = [runID EXCEPT ![r] = NextRun(about[r])]
        BY <3>5 DEF GetRunID, Go, TypeOK
      <4>2. about[r] = r
        BY <1>0, <4>1 DEF IsAsked, HasAsked
      <4>3. runID'[r] = NextRun(r)
        BY <4>1, <4>2 DEF TypeOK
      <4>4. \A i \in OwnEntries(r) : table[i].run < NextRun(r)
        BY NextRunIsNext DEF TypeOK
      <4> QED BY <2>2, <3>2, <3>3, <4>1, <4>3, <4>4 DEF HasRun
    <3> QED BY <1>2, <3>1, <3>4, <3>5
  <2> QED BY <2>1, <2>2
<1> QED BY <1>5, <1>6, <1>7, <1>8, <1>9

LEMMA SerialStep == TypeOK /\ SerialInv /\ [Next]_vars => SerialInv'
<1> SUFFICES ASSUME TypeOK, SerialInv, [Next]_vars PROVE SerialInv'
  OBVIOUS
<1>1. settings' = settings
  <2>1. ASSUME NEW r \in Rows, Do(r) PROVE settings' = settings
    BY <2>1, DoMoves
  <2> QED BY <2>1 DEF Next, vars, DatabaseChanges, OtherInserts, RunAgain, dbVars
<1>2. SUFFICES ASSUME Workers = 1 PROVE InOrder' /\ IsField' /\ IsName' /\ IsAsked' /\ IsAbove'
  BY <1>1 DEF SerialInv, Workers
<1>3. InOrder /\ IsField /\ IsName /\ IsAsked /\ IsAbove
  BY <1>2 DEF SerialInv
<1>4. ASSUME UNCHANGED <<parameters, pc, tcID, about, runID>>,
             \A q \in Rows : OwnEntries(q)' = OwnEntries(q) /\ \A i \in OwnEntries(q) : table'[i] = table[i]
      PROVE  InOrder' /\ IsField' /\ IsName' /\ IsAsked' /\ IsAbove'
  <2>1. InOrder' /\ IsField'
    BY <1>3, <1>4 DEF InOrder, IsField, Started, InListener, Ended
  <2>2. IsName' /\ IsAsked'
    BY <1>3, <1>4 DEF IsName, IsAsked
  <2>3. IsAbove'
    BY <1>3, <1>4 DEF IsAbove
  <2> QED BY <2>1, <2>2, <2>3
<1>5. CASE UNCHANGED vars \/ DatabaseChanges
  <2>1. UNCHANGED <<parameters, pc, tcID, about, runID, table>>
    BY <1>5 DEF vars, DatabaseChanges, dbVars, rowVars
  <2> QED BY <1>4, <2>1 DEF OwnEntries, AnyEntries
<1>6. CASE OtherInserts
  <2>1. PICK o \in Rows : table' = Append(table, NotRun(o, FALSE))
    BY <1>6 DEF OtherInserts
  <2>2. NotRun(o, FALSE) \in Entry /\ ~NotRun(o, FALSE).own
    BY NewEntry
  <2>3. \A q \in Rows : OwnEntries(q)' = OwnEntries(q) /\ \A i \in OwnEntries(q) : table'[i] = table[i]
    BY <2>1, <2>2, OwnAfterAppend
  <2>4. UNCHANGED <<parameters, pc, tcID, about, runID>>
    BY <1>6 DEF OtherInserts, rowVars
  <2> QED BY <1>4, <2>3, <2>4
<1>7. CASE RunAgain
  <2>1. \A r \in Rows : pc'[r] = "listed" /\ runID'[r] = 0
    BY <1>7 DEF RunAgain
  <2> QED BY <2>1 DEF InOrder, IsField, IsName, IsAsked, IsAbove, Started, InListener, Ended, HasName, HasAsked
<1>8. ASSUME NEW r \in Rows, Do(r) PROVE InOrder' /\ IsField' /\ IsName' /\ IsAsked' /\ IsAbove'
  BY <1>2, <1>8, SerialRow
<1> QED BY <1>5, <1>6, <1>7, <1>8 DEF Next

\* The row whose entry is updated is the one whose listener updates it
LEMMA UpdatesOwn ==
    ASSUME TypeOK, SerialInv, Workers = 1, NEW r \in Rows, Update(r)
    PROVE  /\ tcID[r] = r
           /\ \A i \in DOMAIN table : i = Updated(r) => /\ i \in OwnEntries(r)
                                                        /\ \A j \in OwnEntries(r) : j <= i
<1>1. tcID[r] = r
  BY DEF Update, Go, SerialInv, IsName, HasName
<1>2. OwnEntries(r) \in SUBSET (1..Len(table)) /\ Len(table) \in Nat /\ DOMAIN table = 1..Len(table)
  BY OwnIds DEF TypeOK
<1>3. /\ OwnEntries(r) = {} => Updated(r) = 0
      /\ OwnEntries(r) # {} => Updated(r) \in OwnEntries(r)
      /\ \A j \in OwnEntries(r) : j <= Updated(r)
  BY <1>1, <1>2, LastIsLast DEF Updated
<1> QED BY <1>1, <1>2, <1>3

LEMMA GrowStep == TypeOK /\ SerialInv /\ RunIDsGrow /\ [Next]_vars => RunIDsGrow'
<1> SUFFICES ASSUME TypeOK, SerialInv, RunIDsGrow, [Next]_vars PROVE RunIDsGrow'
  OBVIOUS
<1>1. settings' = settings
  <2>1. ASSUME NEW r \in Rows, Do(r) PROVE settings' = settings
    BY <2>1, DoMoves
  <2> QED BY <2>1 DEF Next, vars, DatabaseChanges, OtherInserts, RunAgain, dbVars
<1>2. CASE table' = table
  BY <1>1, <1>2 DEF RunIDsGrow, Workers
<1>3. ASSUME NEW e \in Entry, table' = Append(table, e), e.run = 0 PROVE RunIDsGrow'
  <2>1. /\ table'[Len(table')] = e
        /\ \A i \in DOMAIN table : table'[i] = table[i]
        /\ DOMAIN table' = DOMAIN table \cup {Len(table')}
    BY <1>3, Appends
  <2> QED BY <1>1, <1>3, <2>1 DEF RunIDsGrow, Workers
<1>4. ASSUME NEW r \in Rows, Update(r) PROVE RunIDsGrow'
  <2> SUFFICES ASSUME Workers = 1, NEW i \in DOMAIN table, NEW j \in DOMAIN table, i < j,
                      table[i].own, table[j].own, table[i].test = table[j].test,
                      table'[i].run # 0, table'[j].run # 0
               PROVE  table'[i].run < table'[j].run
    <3>1. \A i \in DOMAIN table : table'[i].test = table[i].test /\ table'[i].own = table[i].own
      BY <1>4, Updates
    <3>2. DOMAIN table' = DOMAIN table
      BY <1>4, Updates
    <3> QED BY <1>1, <3>1, <3>2 DEF RunIDsGrow, Workers
  <2>1. \A k \in DOMAIN table : /\ k # Updated(r) => table'[k] = table[k]
                                /\ k = Updated(r) => table'[k].run = runID[r]
    BY <1>4, Updates
  <2>2. \A k \in DOMAIN table : k = Updated(r) => k \in OwnEntries(r) /\ \A l \in OwnEntries(r) : l <= k
    BY <1>4, UpdatesOwn
  <2>3. i \in Nat /\ j \in Nat
    BY DEF TypeOK
  <2>4. i # Updated(r)
    <3>1. SUFFICES ASSUME i = Updated(r) PROVE FALSE
      OBVIOUS
    <3>2. j \in OwnEntries(r) /\ \A l \in OwnEntries(r) : l <= i
      BY <2>2, <3>1 DEF OwnEntries, AnyEntries
    <3> QED BY <2>3, <3>2
  <2>5. CASE j # Updated(r)
    BY <2>1, <2>4, <2>5 DEF RunIDsGrow
  <2>6. CASE j = Updated(r)
    <3>1. i \in OwnEntries(r)
      BY <2>2, <2>6 DEF OwnEntries, AnyEntries
    <3>2. \A l \in OwnEntries(r) : table[l].run < runID[r]
      BY <2>1, <2>6 DEF SerialInv, IsAbove
    <3> QED BY <2>1, <2>4, <2>6, <3>1, <3>2
  <2> QED BY <2>5, <2>6
<1>5. ASSUME NEW r \in Rows, Insert(r) PROVE RunIDsGrow'
  <2>1. table' = Append(table, NotRun(r, TRUE)) /\ NotRun(r, TRUE) \in Entry /\ NotRun(r, TRUE).run = 0
    BY <1>5, NewEntry DEF Insert
  <2> QED BY <1>3, <2>1
<1>6. CASE OtherInserts
  <2>1. PICK o \in Rows : table' = Append(table, NotRun(o, FALSE))
    BY <1>6 DEF OtherInserts
  <2>2. NotRun(o, FALSE) \in Entry /\ NotRun(o, FALSE).run = 0
    BY NewEntry
  <2> QED BY <1>3, <2>1, <2>2
<1>7. ASSUME NEW r \in Rows, Do(r) PROVE RunIDsGrow'
  BY <1>2, <1>4, <1>5, <1>7, DoMoves
<1>8. CASE UNCHANGED vars \/ DatabaseChanges \/ RunAgain
  BY <1>2, <1>8 DEF vars, DatabaseChanges, RunAgain, dbVars
<1> QED BY <1>6, <1>7, <1>8 DEF Next

-----------------------------------------------------------------------------
(* The theorems                                                            *)

\* At the start nothing has been inserted, connected or run
LEMMA InitInv == Init => IInv
<1> SUFFICES ASSUME Init PROVE IInv
  OBVIOUS
<1>1. TypeOK
  BY TypeInit
<1>2. \A r \in Rows : pc[r] = "listed" /\ entry[r] = 0 /\ runID[r] = 0
  BY DEF Init
<1>3. SessionsAccounted
  <2>1. At(Using, pc) = {} /\ At(Leaking, pc) = {}
    BY <1>2 DEF At, Using, Leaking
  <2>2. Cardinality({}) = 0 /\ sessions = 0
    BY FS_EmptySet DEF Init
  <2>3. sessions = Cardinality(At(Using, pc)) + Cardinality(At(Leaking, pc))
    BY <2>1, <2>2
  <2> QED BY <2>3 DEF SessionsAccounted, At, Using, Leaking
<1>4. SetupInv
  BY <1>2 DEF SetupInv, Fresh, InSetup, IDIsLatest
<1>5. SerialInv
  BY <1>2 DEF SerialInv, InOrder, IsField, IsName, IsAsked, IsAbove, Started, InListener, Ended, HasName, HasAsked
<1>6. RunIDsGrow
  <2>1. DOMAIN table = {}
    <3>1. table = <<>>
      BY DEF Init
    <3> QED BY <3>1
  <2> QED BY <2>1 DEF RunIDsGrow
<1> QED BY <1>1, <1>3, <1>4, <1>5, <1>6 DEF IInv

LEMMA IInvHolds == Spec => []IInv
<1>1. IInv /\ [Next]_vars => IInv'
  BY TypeStep, SessionsStep, SetupStep, SerialStep, GrowStep DEF IInv
<1> QED BY <1>1, InitInv, PTL DEF Spec

(***************************************************************************)
(* Every variable has its type: no session beyond those granted, no count  *)
(* of attempts beyond the ten of getConnection, only entries in the table. *)
(***************************************************************************)
THEOREM TypeCorrect == Spec => []TypeOK
  BY IInvHolds, PTL DEF IInv

(***************************************************************************)
(* What DBManager and TestCaseDBLogger keep of the table, whatever others  *)
(* insert between two statements: the ID that addSuiteInfo hands out is    *)
(* its own entry's or that of a later entry of the same test case, the     *)
(* runs of a test case are numbered upwards with one worker, and getRunID  *)
(* leaves the only session that is lost.                                   *)
(***************************************************************************)
THEOREM TableTrue == Spec => []TableIsTrue
<1>1. IInv => TableIsTrue
  BY DEF IInv, SetupInv, TableIsTrue
<1> QED BY <1>1, IInvHolds, PTL

(***************************************************************************)
(* With one worker the status that enters the table is the outcome of the  *)
(* very row whose test case the entry is of (TestCaseDBLogger.updateStatus)*)
(***************************************************************************)
THEOREM StatusOwn == Spec => StatusIsTheRows
<1> DEFINE Own == Workers = 1 => \A i \in DOMAIN table : table'[i].status # table[i].status =>
                      \E r \in Rows : /\ pc[r] = "updating" /\ pc'[r] = "logged"
                                      /\ table[i].test = r
                                      /\ table'[i].status = outcome[r]
<1>1. IInv /\ [Next]_vars => [Own]_vars
  <2> SUFFICES ASSUME IInv, [Next]_vars, Workers = 1, NEW i \in DOMAIN table, table'[i].status # table[i].status
               PROVE  \E r \in Rows : /\ pc[r] = "updating" /\ pc'[r] = "logged"
                                      /\ table[i].test = r
                                      /\ table'[i].status = outcome[r]
    OBVIOUS
  <2>1. TypeOK /\ SerialInv
    BY DEF IInv
  <2>2. ASSUME NEW e \in Entry, table' = Append(table, e) PROVE FALSE
    BY <2>1, <2>2, Appends
  <2>3. ~OtherInserts
    BY <2>2, NewEntry DEF OtherInserts
  <2>4. table' # table
    OBVIOUS
  <2>5. PICK r \in Rows : Do(r)
    BY <2>3, <2>4 DEF Next, vars, DatabaseChanges, RunAgain, dbVars
  <2>6. Update(r)
    <3>1. ~Insert(r)
      BY <2>2, NewEntry DEF Insert
    <3> QED BY <2>1, <2>4, <2>5, <3>1, DoMoves
  <2>7. pc[r] = "updating" /\ pc'[r] = "logged"
    BY <2>1, <2>6 DEF Update, Go, TypeOK
  <2>8. i = Updated(r) /\ table'[i].status = outcome[r]
    BY <2>1, <2>6, Updates
  <2>9. table[i].test = r
    BY <2>1, <2>6, <2>8, UpdatesOwn DEF OwnEntries, AnyEntries
  <2> QED BY <2>7, <2>8, <2>9
<1> QED BY <1>1, IInvHolds, PTL DEF Spec, StatusIsTheRows
=============================================================================
