---------------------------- MODULE SuiteRunProofs ----------------------------
(***************************************************************************)
(* Proofs about SuiteRun, for every number of rows, suites and workers and *)
(* every testng.xml that distributes the rows over the suites.             *)
(*                                                                         *)
(* IInv says why the report is true: a list is created for one map and one *)
(* suite by a row whose verdict stands, so it can be handed from worker to *)
(* worker and put by any of them without changing what it is a list of.    *)
(* Only the five steps of ReportCode touch the lists; all others are Quiet.*)
(*                                                                         *)
(* DropInv says why it is whole: of two rows that update one map the later *)
(* sees the other, so a row that was alone has found the list of the map,  *)
(* and whoever comes after it finds the same list, with its entry in it.   *)
(*                                                                         *)
(* SerialInv and OrderInv say what one worker adds: at most one row is in  *)
(* hand, the rows before it have ended, the static field and the System    *)
(* property are the row's own, and whoever raised the flag was the last to *)
(* open a script.                                                          *)
(***************************************************************************)
EXTENDS SuiteRun, FiniteSetTheorems, TLAPS

\* a row in hand belongs to the <test> in hand
Current == \A t \in Tests : pc[t] \notin {"queued", "done"} => SuiteOf[t] = suiteName

\* a row whose endTestCase has begun has a verdict
Judged == {"judged", "logged", "recording", "sizing", "adding", "storing"}
HasVerdict == \A t \in Tests : pc[t] \in Judged => verdict[t] # "none"

\* t will never again change where it belongs: its verdict stands
Final(t) == pc[t] \in {"storing", "done"}

\* l is a list for t: of t's map and suite
ListFor(l, t) ==
    /\ l \in Tests
    /\ Final(l)
    /\ BookOf(l) = BookOf(t)
    /\ SuiteOf[l] = SuiteOf[t]

\* t is no passed row, and belongs in the list l
EntryFor(l, t) == Final(t) /\ verdict[t] \in {"FAILURE", "SKIP"} /\ ListFor(l, t)

\* every entry of a list belongs in it
ListsAreTrue ==
    \A l \in Tests :
        /\ count[l] <= Len(slots[l])
        /\ \A i \in 1..Len(slots[l]), t \in Tests : slots[l][i] = t => EntryFor(l, t)

\* the local variable of endTestCase holds a list for its row
RefsAreTrue ==
    \A t \in Tests :
        /\ pc[t] \in {"sizing", "adding", "storing"} => ListFor(ref[t], t)
        /\ pc[t] \in {"sizing", "adding"} => verdict[t] # "SUCCESS"
        /\ pc[t] = "adding" => size[t] <= Len(slots[ref[t]])

\* the list a map holds for a suite is one of that map and suite
MapsAreTrue ==
    \A b \in Books, s \in Suites : report[b][s] # 0 =>
        /\ Final(report[b][s])
        /\ BookOf(report[b][s]) = b
        /\ SuiteOf[report[b][s]] = s

IInv == TypeOK /\ Current /\ HasVerdict /\ ListsAreTrue /\ RefsAreTrue /\ MapsAreTrue

LEMMA SettingTypes ==
    ASSUME settings \in Settings
    PROVE  /\ SuiteOf \in [Tests -> Suites] /\ Threads \in Nat /\ IE \in BOOLEAN
           /\ \A t, u \in Tests : t < u => SuiteOf[t] <= SuiteOf[u]
<1>1. settings \in Setting
    BY SuiteRunAssumption
<1>2. settings.suiteOf \in Distribution /\ settings.threads \in Nat /\ settings.ie \in BOOLEAN
    BY <1>1 DEF Setting
<1> QED BY <1>2 DEF Distribution, SuiteOf, Threads, IE

LEMMA StoredIsList ==
    ASSUME NEW l \in Seq(Tests), NEW n \in Nat, NEW t \in Tests
    PROVE  /\ Stored(l, n, t) \in Seq(Tests)
           /\ Len(l) <= Len(Stored(l, n, t))
           /\ n <= Len(l) => n + 1 <= Len(Stored(l, n, t))
           /\ \A i \in 1..Len(Stored(l, n, t)) :
                 Stored(l, n, t)[i] = t \/ (i \in 1..Len(l) /\ Stored(l, n, t)[i] = l[i])
<1>1. CASE n < Len(l)
    <2>1. n + 1 \in 1..Len(l) /\ Stored(l, n, t) = [l EXCEPT ![n + 1] = t]
        BY <1>1 DEF Stored
    <2>2. Stored(l, n, t) \in Seq(Tests) /\ Len(Stored(l, n, t)) = Len(l)
        BY <2>1
    <2> QED BY <1>1, <2>1, <2>2
<1>2. CASE ~(n < Len(l))
    <2>1. Stored(l, n, t) = Append(l, t)
        BY <1>2 DEF Stored
    <2>2. /\ Append(l, t) \in Seq(Tests)
          /\ Len(Append(l, t)) = Len(l) + 1
          /\ \A i \in 1..(Len(l) + 1) : Append(l, t)[i] = IF i <= Len(l) THEN l[i] ELSE t
        OBVIOUS
    <2> QED BY <1>2, <2>1, <2>2
<1> QED BY <1>1, <1>2

\* what stands before the new entry stays, and the entry is the last
LEMMA StoredAt ==
    ASSUME NEW l \in Seq(Tests), NEW n \in 0..Len(l), NEW t \in Tests
    PROVE  /\ Stored(l, n, t)[n + 1] = t
           /\ \A i \in 1..n : Stored(l, n, t)[i] = l[i]
<1>1. n \in Nat /\ Len(l) \in Nat
    OBVIOUS
<1>2. CASE n < Len(l)
    <2>1. n + 1 \in 1..Len(l) /\ Stored(l, n, t) = [l EXCEPT ![n + 1] = t]
        BY <1>1, <1>2 DEF Stored
    <2> QED BY <1>1, <2>1
<1>3. CASE n = Len(l)
    <2>1. Stored(l, n, t) = Append(l, t)
        BY <1>1, <1>3 DEF Stored
    <2> QED BY <1>1, <1>3, <2>1
<1> QED BY <1>1, <1>2, <1>3

LEMMA OverlapType ==
    ASSUME alone \in [Tests -> BOOLEAN], NEW t \in Tests, Overlap(t)
    PROVE  alone' \in [Tests -> BOOLEAN]
<1> DEFINE Alone(u) == IF u = t THEN Updating(t) = {} ELSE alone[u] /\ u \notin Updating(t)
<1>1. \A u \in Tests : Alone(u) \in BOOLEAN
    BY Zenon
<1>2. alone' = [u \in Tests |-> Alone(u)]
    BY Zenon DEF Overlap
<1> HIDE DEF Alone
<1> QED BY <1>1, <1>2

LEMMA ListOfType ==
    ASSUME TypeOK, NEW t \in Tests, suiteName \in Suites
    PROVE  ListOf(t) \in Tests \cup {0} /\ BookOf(t) \in Books
BY DEF TypeOK, ListOf, BookOf, Books

LEMMA TypeStep == TypeOK /\ Current /\ RefsAreTrue /\ [Next]_vars => TypeOK'
<1> SUFFICES ASSUME TypeOK, Current, RefsAreTrue, [Next]_vars
             PROVE  TypeOK'
    OBVIOUS
<1> USE DEF TypeOK, suiteVars, reportVars, scriptVars, Go, PCs, Verdicts, Causes
<1>1. SuiteOf \in [Tests -> Suites]
    BY SettingTypes
<1>2. CASE BeginSuite
    <2>1. PICK t \in Tests : suiteName' = SuiteOf[t]
        BY <1>2 DEF BeginSuite
    <2>2. suiteName' \in Suites
        BY <2>1, <1>1
    <2> QED BY <1>2, <2>2 DEF BeginSuite
<1>3. CASE Taskkill
    BY <1>3 DEF Taskkill
<1>4. ASSUME NEW t \in Tests, Take(t)
      PROVE  TypeOK'
    BY <1>4 DEF Take, NextInQueue
<1>5. ASSUME NEW t \in Tests, Execute(t)
      PROVE  TypeOK'
    <2>1. CASE NameLog(t)
        BY <2>1 DEF NameLog
    <2>2. CASE OpenScript(t)
        BY <2>2 DEF OpenScript
    <2>3. CASE OpenFails(t)
        BY <2>3 DEF OpenFails, Raised
    <2>4. CASE StartBrowser(t)
        BY <2>4 DEF StartBrowser
    <2>5. CASE BrowserFails(t)
        BY <2>5 DEF BrowserFails
    <2>6. CASE EndScript(t)
        BY <2>6 DEF EndScript, Raised
    <2>7. CASE CloseBrowser(t)
        BY <2>7 DEF CloseBrowser
    <2>8. CASE CloseFails(t)
        BY <2>8 DEF CloseFails
    <2> QED BY <1>5, <2>1, <2>2, <2>3, <2>4, <2>5, <2>6, <2>7, <2>8 DEF Execute
<1>6. ASSUME NEW t \in Tests, Judge(t)
      PROVE  TypeOK'
    BY <1>6 DEF Judge, StatusOf
<1>7. ASSUME NEW t \in Tests, EndTestCase(t)
      PROVE  TypeOK'
    <2>1. CASE FileLog(t)
        BY <2>1 DEF FileLog
    <2>2. CASE AfterMethodSkipped(t)
        BY <2>2 DEF AfterMethodSkipped
    <2>3. CASE MoveSnapshots(t)
        BY <2>3 DEF MoveSnapshots
    <2>4. CASE MoveFails(t)
        BY <2>4 DEF MoveFails
    <2>5. CASE FindList(t)
        <3>1. alone' \in [Tests -> BOOLEAN]
            BY <2>5, OverlapType DEF FindList
        <3>2. pc[t] = "recording"
            BY <2>5 DEF FindList
        <3>3. SuiteOf[t] = suiteName
            BY <3>2, Zenon DEF Current
        <3>4. suiteName \in Suites
            BY <3>3, <1>1
        <3>5. ListOf(t) \in Tests \cup {0}
            BY <3>4, ListOfType
        <3>6. ref' \in [Tests -> Tests \cup {0}] /\ pc' \in [Tests -> PCs]
            BY <2>5, <3>5 DEF FindList
        <3> QED BY <2>5, <3>1, <3>6 DEF FindList
    <2>6. CASE NewList(t)
        <3>1. alone' \in [Tests -> BOOLEAN]
            BY <2>6, OverlapType DEF NewList
        <3>2. FirstEntries(t) \in Seq(Tests) /\ Len(FirstEntries(t)) \in Nat
            BY DEF FirstEntries
        <3>3. slots' \in [Tests -> Seq(Tests)] /\ count' \in [Tests -> Nat]
            BY <2>6, <3>2 DEF NewList
        <3>4. ref' \in [Tests -> Tests \cup {0}] /\ pc' \in [Tests -> PCs]
            BY <2>6 DEF NewList
        <3> QED BY <2>6, <3>1, <3>3, <3>4 DEF NewList
    <2>7. CASE ReadSize(t)
        <3>1. ref[t] \in Tests
            BY <2>7 DEF ReadSize, RefsAreTrue, ListFor
        <3> QED BY <2>7, <3>1 DEF ReadSize
    <2>8. CASE AddEntry(t)
        <3>1. ref[t] \in Tests
            BY <2>8 DEF AddEntry, RefsAreTrue, ListFor
        <3>2. slots[ref[t]] \in Seq(Tests) /\ size[t] \in Nat
            BY <3>1
        <3>4. Stored(slots[ref[t]], size[t], t) \in Seq(Tests)
            BY <3>2, StoredIsList, Zenon
        <3>5. size[t] + 1 \in Nat
            BY <3>2
        <3>3. slots' \in [Tests -> Seq(Tests)] /\ count' \in [Tests -> Nat]
            BY <2>8, <3>4, <3>5 DEF AddEntry
        <3> QED BY <2>8, <3>3 DEF AddEntry
    <2>9. CASE PutList(t)
        BY <2>9, ListOfType DEF PutList, BookOf, Books
    <2> QED BY <1>7, <2>1, <2>2, <2>3, <2>4, <2>5, <2>6, <2>7, <2>8, <2>9 DEF EndTestCase
<1>8. CASE UNCHANGED vars
    BY <1>8 DEF vars
<1> QED BY <1>2, <1>3, <1>4, <1>5, <1>6, <1>7, <1>8 DEF Next, Work

(***************************************************************************)
(* Every step outside the report code is quiet: it leaves the lists alone  *)
(* and does not touch a verdict once TestNG has given it.                  *)
(***************************************************************************)
Quiet ==
    /\ UNCHANGED <<settings, report, slots, count, ref, size, alone>>
    /\ \A t \in Tests :
          /\ pc[t] \in {"sizing", "adding"} => pc'[t] = pc[t]
          /\ Final(t) => pc'[t] = pc[t]
          /\ pc'[t] \in {"sizing", "adding", "storing"} => pc'[t] = pc[t]
          /\ pc[t] \in Judged \/ pc[t] = "done" => verdict'[t] = verdict[t]
          /\ pc'[t] \in Judged => pc[t] \in Judged \/ verdict'[t] # "none"

ReportCode(t) == FindList(t) \/ NewList(t) \/ ReadSize(t) \/ AddEntry(t) \/ PutList(t)

LEMMA QuietSteps ==
    ASSUME TypeOK, [Next]_vars, \A t \in Tests : ~ReportCode(t)
    PROVE  Quiet
<1> USE DEF Quiet, Final, Judged, Go, suiteVars, reportVars, scriptVars
<1>0. pc \in [Tests -> PCs] /\ verdict \in [Tests -> Verdicts]
    BY DEF TypeOK
<1>1. CASE BeginSuite
    BY <1>1 DEF BeginSuite
<1>2. CASE Taskkill
    BY <1>2 DEF Taskkill
<1>3. ASSUME NEW t \in Tests, Take(t)
      PROVE  Quiet
    BY <1>0, <1>3 DEF Take, NextInQueue
<1>4. ASSUME NEW t \in Tests, Execute(t)
      PROVE  Quiet
    BY <1>0, <1>4 DEF Execute, NameLog, OpenScript, OpenFails, StartBrowser, BrowserFails,
                      EndScript, CloseBrowser, CloseFails
<1>5. ASSUME NEW t \in Tests, Judge(t)
      PROVE  Quiet
    BY <1>0, <1>5 DEF Judge, StatusOf
<1>6. ASSUME NEW t \in Tests, EndTestCase(t)
      PROVE  Quiet
    <2>1. FileLog(t) \/ AfterMethodSkipped(t) \/ MoveSnapshots(t) \/ MoveFails(t)
        BY <1>6 DEF EndTestCase, ReportCode
    <2> QED BY <1>0, <2>1 DEF FileLog, AfterMethodSkipped, MoveSnapshots, MoveFails
<1>7. CASE UNCHANGED vars
    BY <1>7 DEF vars
<1> QED BY <1>1, <1>2, <1>3, <1>4, <1>5, <1>6, <1>7 DEF Next, Work

ReportsAreTrue == HasVerdict /\ ListsAreTrue /\ RefsAreTrue /\ MapsAreTrue

LEMMA QuietKeepsReports ==
    ASSUME TypeOK, ReportsAreTrue, Quiet
    PROVE  ReportsAreTrue'
<1>1. \A t \in Tests : Final(t) => Final(t)' /\ verdict'[t] = verdict[t] /\ BookOf(t)' = BookOf(t)
    BY DEF Quiet, Final, Judged, BookOf
<1>2. SuiteOf' = SuiteOf
    BY DEF Quiet, SuiteOf
<1>3. \A l, t \in Tests : Final(t) /\ ListFor(l, t) => ListFor(l, t)'
    BY <1>1, <1>2 DEF ListFor
<1>4. HasVerdict'
    BY DEF HasVerdict, ReportsAreTrue, Quiet, Judged
<1>5. ListsAreTrue'
    <2>1. \A l, t \in Tests : EntryFor(l, t) => EntryFor(l, t)'
        BY <1>1, <1>3 DEF EntryFor
    <2>2. slots' = slots /\ count' = count
        BY DEF Quiet
    <2> QED BY <2>1, <2>2 DEF ReportsAreTrue, ListsAreTrue
<1>6. RefsAreTrue'
    <2> SUFFICES ASSUME NEW t \in Tests, pc'[t] \in {"sizing", "adding", "storing"}
                 PROVE  /\ ListFor(ref[t], t)'
                        /\ pc'[t] \in {"sizing", "adding"} => verdict'[t] # "SUCCESS"
                        /\ pc'[t] = "adding" => size[t] <= Len(slots[ref[t]])
        BY DEF RefsAreTrue, Quiet
    <2>1. pc'[t] = pc[t] /\ verdict'[t] = verdict[t]
        BY DEF Quiet, Judged
    <2>2. ListFor(ref[t], t) /\ BookOf(t)' = BookOf(t)
        BY <2>1 DEF ReportsAreTrue, RefsAreTrue, BookOf
    <2>3. ListFor(ref[t], t)'
        BY <1>1, <1>2, <2>2 DEF ListFor, Quiet
    <2> QED BY <2>1, <2>3 DEF ReportsAreTrue, RefsAreTrue
<1>7. MapsAreTrue'
    <2> SUFFICES ASSUME NEW b \in Books, NEW s \in Suites, report[b][s] # 0
                 PROVE  /\ Final(report[b][s])'
                        /\ BookOf(report[b][s])' = b
                        /\ SuiteOf[report[b][s]] = s
        BY <1>2 DEF MapsAreTrue, Quiet
    <2>1. report[b][s] \in Tests
        BY DEF TypeOK
    <2> QED BY <1>1, <2>1 DEF ReportsAreTrue, MapsAreTrue, Quiet
<1> QED BY <1>4, <1>5, <1>6, <1>7 DEF ReportsAreTrue

\* a <test> begins when no row is in hand, and a row is taken from the one that has begun
LEMMA CurrentStep ==
    ASSUME TypeOK, Current, [Next]_vars
    PROVE  Current'
<1> USE DEF Current, SuiteOf, Go, suiteVars
<1>0. pc \in [Tests -> PCs]
    BY DEF TypeOK
<1>1. CASE BeginSuite
    BY <1>1 DEF BeginSuite, Active
<1>2. CASE Taskkill
    BY <1>2 DEF Taskkill
<1>3. ASSUME NEW t \in Tests, Take(t)
      PROVE  Current'
    BY <1>0, <1>3 DEF Take, NextInQueue
<1>4. ASSUME NEW t \in Tests, Execute(t)
      PROVE  Current'
    BY <1>0, <1>4 DEF Execute, NameLog, OpenScript, OpenFails, StartBrowser, BrowserFails,
                      EndScript, CloseBrowser, CloseFails
<1>5. ASSUME NEW t \in Tests, Judge(t)
      PROVE  Current'
    BY <1>0, <1>5 DEF Judge
<1>6. ASSUME NEW t \in Tests, EndTestCase(t)
      PROVE  Current'
    BY <1>0, <1>6 DEF EndTestCase, FileLog, AfterMethodSkipped, MoveSnapshots, MoveFails,
                      FindList, NewList, ReadSize, AddEntry, PutList
<1>7. CASE UNCHANGED vars
    BY <1>7 DEF vars
<1> QED BY <1>1, <1>2, <1>3, <1>4, <1>5, <1>6, <1>7 DEF Next, Work

\* the report code itself puts only what is true into the lists and the maps
LEMMA ReportCodeKeepsReports ==
    ASSUME TypeOK, Current, ReportsAreTrue, NEW t \in Tests, ReportCode(t), TypeOK'
    PROVE  ReportsAreTrue'
<1> USE DEF ReportsAreTrue
<1>0. /\ pc \in [Tests -> PCs] /\ slots \in [Tests -> Seq(Tests)] /\ count \in [Tests -> Nat]
      /\ verdict \in [Tests -> Verdicts] /\ ref \in [Tests -> Tests \cup {0}] /\ size \in [Tests -> Nat]
      /\ report \in [Books -> [Suites -> Tests \cup {0}]]
    BY DEF TypeOK
<1>1. /\ verdict' = verdict /\ settings' = settings /\ suiteName' = suiteName
      /\ pc[t] \in {"recording", "sizing", "adding", "storing"}
      /\ \E to \in PCs : pc' = [pc EXCEPT ![t] = to]
      /\ pc'[t] \in {"sizing", "adding", "storing", "done"}
      /\ pc[t] = "storing" => pc'[t] = "done"
    BY <1>0 DEF ReportCode, FindList, NewList, ReadSize, AddEntry, PutList, Go, suiteVars, PCs
<1>2. /\ SuiteOf' = SuiteOf
      /\ \A u : BookOf(u)' = BookOf(u)
      /\ \A u \in Tests : Final(u) => Final(u)'
      /\ \A u \in Tests \ {t} : pc'[u] = pc[u]
    BY <1>0, <1>1 DEF SuiteOf, BookOf, Final, PCs
<1>3. \A l, u \in Tests : ListFor(l, u) => ListFor(l, u)'
    BY <1>2 DEF ListFor
<1>4. SuiteOf[t] = suiteName /\ verdict[t] \in {"SUCCESS", "FAILURE", "SKIP"}
    BY <1>0, <1>1 DEF Current, HasVerdict, Judged, Verdicts
<1>5. suiteName \in Suites
    BY <1>4, SettingTypes DEF TypeOK
<1>6. HasVerdict'
    BY <1>1, <1>2, <1>4 DEF HasVerdict
<1>7. BookOf(t) \in Books /\ ListOf(t) \in Tests \cup {0}
    BY <1>5, ListOfType
<1>8. slots' \in [Tests -> Seq(Tests)] /\ size' \in [Tests -> Nat]
    BY DEF TypeOK
<1>9. \A l, u \in Tests : EntryFor(l, u) => EntryFor(l, u)'
    BY <1>1, <1>2, <1>3 DEF EntryFor
<1>10. ListsAreTrue'
    <2>1. ASSUME slots' = slots, count' = count
          PROVE  ListsAreTrue'
        BY <2>1, <1>9 DEF ListsAreTrue
    <2>2. CASE NewList(t)
        <3>1. slots'[t] = FirstEntries(t) /\ count'[t] = Len(FirstEntries(t)) /\ pc'[t] = "storing"
            BY <2>2, <1>0 DEF NewList, Go
        <3>2. \A l \in Tests \ {t} : slots'[l] = slots[l] /\ count'[l] = count[l]
            BY <2>2, <1>0 DEF NewList
        <3>3. ~Blank(t) => EntryFor(t, t)'
            BY <3>1, <1>1, <1>4 DEF Blank, EntryFor, ListFor, Final
        <3>4. \A i \in 1..Len(FirstEntries(t)) : FirstEntries(t)[i] = t /\ ~Blank(t)
            BY DEF FirstEntries
        <3>5. count'[t] <= Len(slots'[t])
            BY <3>1 DEF FirstEntries
        <3>6. ASSUME NEW l \in Tests, NEW i \in 1..Len(slots'[l]), NEW u \in Tests, slots'[l][i] = u
              PROVE  EntryFor(l, u)'
            <4>1. CASE l = t
                BY <3>6, <4>1, <3>1, <3>3, <3>4
            <4>2. CASE l # t
                BY <3>6, <4>2, <3>2, <1>9 DEF ListsAreTrue
            <4> QED BY <4>1, <4>2
        <3> QED BY <3>2, <3>5, <3>6 DEF ListsAreTrue
    <2>3. CASE AddEntry(t)
        <3>1. PICK l0 \in Tests : l0 = ref[t]
            BY <2>3 DEF AddEntry, Go, RefsAreTrue, ListFor
        <3>2. pc[t] = "adding" /\ pc'[t] = "storing"
            BY <2>3, <1>0 DEF AddEntry, Go
        <3>3. ListFor(l0, t) /\ verdict[t] # "SUCCESS" /\ size[t] <= Len(slots[l0])
            BY <3>1, <3>2 DEF RefsAreTrue
        <3>4. slots[l0] \in Seq(Tests) /\ size[t] \in Nat
            BY <1>0
        <3>5. PICK new : new = Stored(slots[l0], size[t], t)
            OBVIOUS
        <3>6. /\ size[t] + 1 <= Len(new)
              /\ \A i \in 1..Len(new) : new[i] = t \/ (i \in 1..Len(slots[l0]) /\ new[i] = slots[l0][i])
            BY <3>3, <3>4, <3>5, StoredIsList
        <3>7. slots'[l0] = new /\ count'[l0] = size[t] + 1
            BY <2>3, <3>1, <3>5, <1>0 DEF AddEntry
        <3>8. \A l \in Tests \ {l0} : slots'[l] = slots[l] /\ count'[l] = count[l]
            BY <2>3, <3>1, <1>0 DEF AddEntry
        <3>9. EntryFor(l0, t)'
            <4>1. ListFor(l0, t)'
                BY <3>3, <1>3
            <4>2. Final(t)' /\ verdict'[t] \in {"FAILURE", "SKIP"}
                BY <3>2, <3>3, <1>1, <1>4 DEF Final
            <4> QED BY <4>1, <4>2 DEF EntryFor
        <3>10. ASSUME NEW l \in Tests, NEW i \in 1..Len(slots'[l]), NEW u \in Tests, slots'[l][i] = u
               PROVE  EntryFor(l, u)'
            <4>1. CASE l = l0
                BY <3>10, <4>1, <3>6, <3>7, <3>9, <1>9 DEF ListsAreTrue
            <4>2. CASE l # l0
                BY <3>10, <4>2, <3>8, <1>9 DEF ListsAreTrue
            <4> QED BY <4>1, <4>2
        <3> QED BY <3>6, <3>7, <3>8, <3>10 DEF ListsAreTrue
    <2> QED BY <2>1, <2>2, <2>3 DEF ReportCode, FindList, ReadSize, PutList
<1>11. \A l \in Tests : Final(l) => Len(slots[l]) <= Len(slots'[l])
    <2>1. \A l \in Tests : Len(slots[l]) \in Nat
        BY <1>0
    <2>2. CASE NewList(t)
        BY <2>1, <2>2, <1>0 DEF NewList, Go, Final
    <2>3. CASE AddEntry(t)
        <3>1. ref[t] \in Tests /\ slots[ref[t]] \in Seq(Tests) /\ size[t] \in Nat
            BY <2>3, <1>0 DEF AddEntry, Go, RefsAreTrue, ListFor
        <3>2. Len(slots[ref[t]]) <= Len(Stored(slots[ref[t]], size[t], t))
            BY <3>1, StoredIsList
        <3> QED BY <2>1, <2>3, <3>1, <3>2, <1>0 DEF AddEntry
    <2> QED BY <2>1, <2>2, <2>3 DEF ReportCode, FindList, ReadSize, PutList
<1>12. RefsAreTrue'
    <2>1. \A u \in Tests \ {t} : pc'[u] = pc[u] /\ ref'[u] = ref[u] /\ size'[u] = size[u]
        BY <1>0, <1>2 DEF ReportCode, FindList, NewList, ReadSize, AddEntry, PutList
    <2>2. ASSUME NEW u \in Tests \ {t}, pc'[u] \in {"sizing", "adding", "storing"}
          PROVE  /\ ListFor(ref[u], u)'
                 /\ pc'[u] \in {"sizing", "adding"} => verdict'[u] # "SUCCESS"
                 /\ pc'[u] = "adding" => size'[u] <= Len(slots'[ref'[u]])
        <3>1. ref[u] \in Tests /\ ListFor(ref[u], u) /\ Final(ref[u])
            BY <2>1, <2>2 DEF RefsAreTrue, ListFor
        <3>2. ListFor(ref[u], u)'
            BY <2>1, <3>1, <1>3 DEF ListFor, Final, BookOf
        <3>3. /\ pc'[u] \in {"sizing", "adding"} => verdict'[u] # "SUCCESS"
              /\ pc'[u] = "adding" => size'[u] <= Len(slots[ref[u]])
            BY <2>1, <2>2, <1>1 DEF RefsAreTrue
        <3>4. slots[ref[u]] \in Seq(Tests) /\ slots'[ref[u]] \in Seq(Tests) /\ size'[u] \in Nat
            BY <3>1, <1>0, <1>8
        <3> QED BY <2>1, <3>1, <3>2, <3>3, <3>4, <1>11
    <2>3. pc'[t] \in {"sizing", "adding", "storing"} => ListFor(ref[t], t)'
        <3>1. CASE FindList(t)
            <4>1. pc'[t] = "sizing" => ref'[t] = ListOf(t) /\ ListOf(t) # 0
                BY <3>1, <1>0 DEF FindList, Go
            <4>2. ListOf(t) # 0 => ListFor(ListOf(t), t)
                BY <1>4, <1>5, <1>7 DEF MapsAreTrue, ListFor, ListOf
            <4>3. ASSUME NEW l \in Tests, ref'[t] = l, ListFor(l, t)
                  PROVE  ListFor(ref[t], t)'
                BY <4>3, <1>3 DEF ListFor, Final, BookOf
            <4>4. pc'[t] \in {"sizing", "done"}
                BY <3>1, <1>0 DEF FindList, Go
            <4> QED BY <4>1, <4>2, <4>3, <4>4, <1>7
        <3>2. CASE NewList(t)
            BY <3>2, <1>0 DEF NewList, Go, ListFor, Final
        <3>3. CASE ReadSize(t) \/ AddEntry(t) \/ PutList(t)
            <4>1. ref'[t] = ref[t] /\ ref[t] \in Tests /\ ListFor(ref[t], t)
                BY <3>3 DEF ReadSize, AddEntry, PutList, Go, RefsAreTrue, ListFor
            <4> QED BY <4>1, <1>3 DEF ListFor, Final, BookOf
        <3> QED BY <3>1, <3>2, <3>3 DEF ReportCode
    <2>4. pc'[t] \in {"sizing", "adding"} => verdict'[t] # "SUCCESS"
        BY <1>0, <1>1 DEF ReportCode, FindList, NewList, ReadSize, AddEntry, PutList, Go, Blank, RefsAreTrue
    <2>5. pc'[t] = "adding" => size'[t] <= Len(slots'[ref'[t]])
        <3> SUFFICES ASSUME pc'[t] = "adding"
                     PROVE  size'[t] <= Len(slots'[ref'[t]])
            OBVIOUS
        <3>1. ReadSize(t)
            BY <1>0 DEF ReportCode, FindList, NewList, AddEntry, PutList, Go
        <3>2. ref[t] \in Tests /\ size'[t] = count[ref[t]]
            BY <3>1, <1>0 DEF ReadSize, Go, RefsAreTrue, ListFor
        <3> QED BY <3>1, <3>2 DEF ReadSize, ListsAreTrue
    <2> QED BY <2>1, <2>2, <2>3, <2>4, <2>5 DEF RefsAreTrue, ListFor, Final, BookOf
<1>13. MapsAreTrue'
    <2>1. ASSUME NEW b \in Books, NEW s \in Suites, report'[b][s] # 0
          PROVE  /\ report'[b][s] \in Tests
                 /\ Final(report'[b][s])
                 /\ BookOf(report'[b][s]) = b
                 /\ SuiteOf[report'[b][s]] = s
        <3>1. report'[b][s] \in Tests
            BY <2>1 DEF TypeOK
        <3>2. CASE report'[b][s] = report[b][s]
            BY <2>1, <3>1, <3>2 DEF MapsAreTrue
        <3>3. CASE report'[b][s] # report[b][s]
            <4>1. PutList(t)
                BY <3>3 DEF ReportCode, FindList, NewList, ReadSize, AddEntry
            <4>2. b = BookOf(t) /\ s = suiteName /\ report'[b][s] = ref[t]
                BY <3>3, <4>1, <1>0, <1>5, <1>7 DEF PutList
            <4> QED BY <4>1, <4>2, <1>4 DEF PutList, Go, RefsAreTrue, ListFor
        <3> QED BY <3>1, <3>2, <3>3
    <2> QED BY <2>1, <1>2 DEF MapsAreTrue, Final, BookOf
<1> QED BY <1>6, <1>10, <1>12, <1>13

LEMMA InitInv == Init => IInv
<1> SUFFICES ASSUME Init
             PROVE  IInv
    OBVIOUS
<1>1. alone \in [Tests -> BOOLEAN]
    BY Zenon DEF Init
<1>2. TypeOK
    <2>1. settings \in Settings /\ suiteName \in Suites \cup {0} /\ TClog \in Tests \cup {0} /\ kills \in Nat
        BY DEF Init
    <2>2. excelError \in BOOLEAN /\ classBroken \in BOOLEAN
        BY Zenon DEF Init
    <2>3. report \in [Books -> [Suites -> Tests \cup {0}]]
        BY DEF Init
    <2>4. slots \in [Tests -> Seq(Tests)] /\ count \in [Tests -> Nat] /\ size \in [Tests -> Nat]
        BY DEF Init
    <2>5. pc \in [Tests -> PCs] /\ cause \in [Tests -> Causes] /\ verdict \in [Tests -> Verdicts]
        BY DEF Init, PCs, Causes, Verdicts
    <2>6. /\ browser \in [Tests -> {"none", "open", "killed"}]
          /\ filed \in [Tests -> Tests \cup {0}] /\ ref \in [Tests -> Tests \cup {0}]
        BY DEF Init
    <2> QED BY <1>1, <2>1, <2>2, <2>3, <2>4, <2>5, <2>6 DEF TypeOK
<1>3. Current /\ HasVerdict /\ RefsAreTrue
    BY DEF Init, Current, HasVerdict, RefsAreTrue, Judged
<1>4. ListsAreTrue /\ MapsAreTrue
    BY DEF Init, ListsAreTrue, MapsAreTrue
<1> QED BY <1>2, <1>3, <1>4 DEF IInv

LEMMA StepInv == IInv /\ [Next]_vars => IInv'
<1> SUFFICES ASSUME IInv, [Next]_vars
             PROVE  IInv'
    OBVIOUS
<1>1. TypeOK /\ Current /\ ReportsAreTrue
    BY DEF IInv, ReportsAreTrue
<1>2. TypeOK'
    BY <1>1, TypeStep DEF ReportsAreTrue
<1>3. Current'
    BY <1>1, CurrentStep
<1>4. ReportsAreTrue'
    <2>1. CASE \E t \in Tests : ReportCode(t)
        BY <2>1, <1>1, <1>2, ReportCodeKeepsReports
    <2>2. CASE \A t \in Tests : ~ReportCode(t)
        BY <2>2, <1>1, QuietSteps, QuietKeepsReports
    <2> QED BY <2>1, <2>2
<1> QED BY <1>2, <1>3, <1>4 DEF IInv, ReportsAreTrue

LEMMA InvImplies == IInv => ReportIsTrue
<1> SUFFICES ASSUME IInv, NEW s \in Suites, NEW b \in Books, NEW t \in Listed(b, s)
             PROVE  verdict[t] = (IF b = "failed" THEN "FAILURE" ELSE "SKIP") /\ SuiteOf[t] = s
    BY DEF ReportIsTrue, Books
<1> USE DEF IInv
<1>1. PICK l \in Tests : l = report[b][s]
    BY DEF Listed, TypeOK
<1>2. BookOf(l) = b /\ SuiteOf[l] = s /\ t \in Entries(l)
    BY <1>1 DEF MapsAreTrue, Listed
<1>3. PICK i \in 1..count[l] : slots[l][i] = t
    BY <1>2 DEF Entries
<1>4. slots[l] \in Seq(Tests) /\ count[l] \in Nat /\ i \in 1..Len(slots[l])
    BY DEF TypeOK, ListsAreTrue
<1>5. t \in Tests
    BY <1>3, <1>4
<1>6. EntryFor(l, t)
    BY <1>3, <1>4, <1>5 DEF ListsAreTrue
<1> QED BY <1>2, <1>6 DEF EntryFor, ListFor, BookOf, Books

(***************************************************************************)
(* Every variable of a run keeps its type, whatever the workers of the     *)
(* data provider interleave: no list or local variable of endTestCase      *)
(* refers to anything but a row of the run.                                *)
(***************************************************************************)
THEOREM TypeCorrect == Spec => []TypeOK
<1>1. Init => IInv
    BY InitInv
<1>2. IInv /\ [Next]_vars => IInv'
    BY StepInv
<1>3. IInv => TypeOK
    BY DEF IInv
<1> QED BY <1>1, <1>2, <1>3, PTL DEF Spec, Safety

(***************************************************************************)
(* The failed map of endTestCase lists FAILED rows only and the skipped    *)
(* map SKIPped rows only, each under its own suite, for any number of      *)
(* rows, suites and worker threads: unlocked as it is, the report can lose *)
(* an entry, and can never hold a false one.                               *)
(***************************************************************************)
THEOREM ReportTrue == Spec => []ReportIsTrue
<1>1. Init => IInv
    BY InitInv
<1>2. IInv /\ [Next]_vars => IInv'
    BY StepInv
<1>3. IInv => ReportIsTrue
    BY InvImplies
<1> QED BY <1>1, <1>2, <1>3, PTL DEF Spec, Safety

-----------------------------------------------------------------------------
(* One worker.                                                             *)

BeforeVerdict == {"queued", "begun", "opening", "scripted", "running", "closing", "ended"}

\* at most one row is in hand
OneInHand == \A t, u \in Tests : pc[t] \notin {"queued", "done"} /\ pc[u] \notin {"queued", "done"} => t = u

\* the field TClog is that of the row in hand, from suiteExecution to endTestCase
LogIsOwn ==
    \A t \in Tests :
        /\ pc[t] \in {"opening", "scripted", "running", "closing", "ended", "judged"} => TClog = t
        /\ filed[t] \in {0, t}

\* the flag is up from the row's workbook error until its verdict
FlagIsUp ==
    \A t \in Tests :
        /\ pc[t] \in BeforeVerdict => verdict[t] = "none"
        /\ cause[t] # "none" => pc[t] \notin {"queued", "begun", "opening", "scripted", "running"}
        /\ cause[t] = "workbook" /\ pc[t] \in {"closing", "ended"} => excelError
        /\ cause[t] = "workbook" /\ verdict[t] # "none" => verdict[t] = "SKIP"

SerialInv == Threads = 1 => OneInHand /\ LogIsOwn /\ FlagIsUp

\* the pool starts a row only when none is in hand
LEMMA OneInHandStep ==
    ASSUME TypeOK, OneInHand, Threads = 1, [Next]_vars
    PROVE  OneInHand'
<1> USE DEF OneInHand, Go
<1>0. pc \in [Tests -> PCs]
    BY DEF TypeOK
<1>1. CASE BeginSuite \/ Taskkill
    BY <1>1 DEF BeginSuite, Taskkill
<1>2. ASSUME NEW t \in Tests, Take(t)
      PROVE  OneInHand'
    <2>1. Cardinality(Active) < 1
        BY <1>2 DEF Take
    <2>2. IsFiniteSet(Active)
        <3>1. IsFiniteSet(Tests)
            BY FS_Interval, SuiteRunAssumption DEF Tests
        <3> QED BY <3>1, FS_Subset DEF Active
    <2>3. Active = {}
        BY <2>1, <2>2, FS_EmptySet, FS_CardinalityType
    <2> QED BY <1>0, <1>2, <2>3 DEF Take, NextInQueue, Active
<1>3. ASSUME NEW t \in Tests, Execute(t)
      PROVE  OneInHand'
    BY <1>0, <1>3 DEF Execute, NameLog, OpenScript, OpenFails, StartBrowser, BrowserFails,
                      EndScript, CloseBrowser, CloseFails
<1>4. ASSUME NEW t \in Tests, Judge(t)
      PROVE  OneInHand'
    BY <1>0, <1>4 DEF Judge
<1>5. ASSUME NEW t \in Tests, EndTestCase(t)
      PROVE  OneInHand'
    BY <1>0, <1>5 DEF EndTestCase, FileLog, AfterMethodSkipped, MoveSnapshots, MoveFails,
                      FindList, NewList, ReadSize, AddEntry, PutList
<1>6. CASE UNCHANGED vars
    BY <1>6 DEF vars
<1> QED BY <1>1, <1>2, <1>3, <1>4, <1>5, <1>6 DEF Next, Work

\* NameLog and BeginSuite set TClog, and no other row is in hand then
LEMMA LogStep ==
    ASSUME TypeOK, OneInHand, LogIsOwn, [Next]_vars
    PROVE  LogIsOwn'
<1> USE DEF OneInHand, LogIsOwn, Go
<1>0. pc \in [Tests -> PCs] /\ filed \in [Tests -> Tests \cup {0}]
    BY DEF TypeOK
<1>1. CASE BeginSuite \/ Taskkill
    <2>1. CASE BeginSuite
        BY <1>0, <2>1 DEF BeginSuite, Active
    <2>2. CASE Taskkill
        BY <2>2 DEF Taskkill
    <2> QED BY <1>1, <2>1, <2>2
<1>2. ASSUME NEW t \in Tests, Take(t)
      PROVE  LogIsOwn'
    BY <1>0, <1>2 DEF Take
<1>3. ASSUME NEW t \in Tests, Execute(t)
      PROVE  LogIsOwn'
    <2>1. CASE NameLog(t)
        BY <1>0, <2>1 DEF NameLog
    <2>2. CASE ~NameLog(t)
        BY <1>0, <1>3, <2>2 DEF Execute, OpenScript, OpenFails, StartBrowser, BrowserFails,
                                EndScript, CloseBrowser, CloseFails
    <2> QED BY <2>1, <2>2
<1>4. ASSUME NEW t \in Tests, Judge(t)
      PROVE  LogIsOwn'
    BY <1>0, <1>4 DEF Judge
<1>5. ASSUME NEW t \in Tests, EndTestCase(t)
      PROVE  LogIsOwn'
    BY <1>0, <1>5 DEF EndTestCase, FileLog, AfterMethodSkipped, MoveSnapshots, MoveFails,
                      FindList, NewList, ReadSize, AddEntry, PutList
<1>6. CASE UNCHANGED vars
    BY <1>6 DEF vars
<1> QED BY <1>1, <1>2, <1>3, <1>4, <1>5, <1>6 DEF Next, Work

\* the flag is taken back only between two rows
LEMMA FlagStep ==
    ASSUME TypeOK, OneInHand, FlagIsUp, [Next]_vars
    PROVE  FlagIsUp'
<1> USE DEF OneInHand, FlagIsUp, BeforeVerdict, Go, scriptVars
<1>0. pc \in [Tests -> PCs] /\ cause \in [Tests -> Causes] /\ verdict \in [Tests -> Verdicts]
    BY DEF TypeOK
<1>1. CASE BeginSuite
    BY <1>0, <1>1 DEF BeginSuite, Active
<1>2. CASE Taskkill
    BY <1>2 DEF Taskkill
<1>3. ASSUME NEW t \in Tests, Take(t)
      PROVE  FlagIsUp'
    BY <1>0, <1>3 DEF Take, NextInQueue
<1>4. ASSUME NEW t \in Tests, Execute(t)
      PROVE  FlagIsUp'
    <2>1. CASE NameLog(t)
        BY <1>0, <2>1 DEF NameLog
    <2>2. CASE OpenScript(t)
        BY <1>0, <2>2 DEF OpenScript
    <2>3. CASE OpenFails(t)
        BY <1>0, <2>3 DEF OpenFails, Raised
    <2>4. CASE StartBrowser(t)
        BY <1>0, <2>4 DEF StartBrowser
    <2>5. CASE BrowserFails(t)
        BY <1>0, <2>5 DEF BrowserFails
    <2>6. CASE EndScript(t)
        BY <1>0, <2>6 DEF EndScript, Raised
    <2>7. CASE CloseBrowser(t)
        BY <1>0, <2>7 DEF CloseBrowser
    <2>8. CASE CloseFails(t)
        BY <1>0, <2>8 DEF CloseFails
    <2> QED BY <1>4, <2>1, <2>2, <2>3, <2>4, <2>5, <2>6, <2>7, <2>8 DEF Execute
<1>5. ASSUME NEW t \in Tests, Judge(t)
      PROVE  FlagIsUp'
    BY <1>0, <1>5 DEF Judge, StatusOf
<1>6. ASSUME NEW t \in Tests, EndTestCase(t)
      PROVE  FlagIsUp'
    BY <1>0, <1>6 DEF EndTestCase, FileLog, AfterMethodSkipped, MoveSnapshots, MoveFails,
                      FindList, NewList, ReadSize, AddEntry, PutList
<1>7. CASE UNCHANGED vars
    BY <1>7 DEF vars
<1> QED BY <1>1, <1>2, <1>3, <1>4, <1>5, <1>6, <1>7 DEF Next, Work

\* the testng.xml of a run is not changed
LEMMA SettingsStay ==
    ASSUME [Next]_vars
    PROVE  settings' = settings
BY DEF Next, Work, vars, suiteVars, BeginSuite, Taskkill, Take, Execute, NameLog, OpenScript,
       OpenFails, StartBrowser, BrowserFails, EndScript, CloseBrowser, CloseFails, Judge,
       EndTestCase, FileLog, AfterMethodSkipped, MoveSnapshots, MoveFails, FindList, NewList,
       ReadSize, AddEntry, PutList

LEMMA SerialInvHolds == Spec => []SerialInv
<1>1. Init => SerialInv
    BY DEF Init, SerialInv, OneInHand, LogIsOwn, FlagIsUp
<1>2. TypeOK /\ SerialInv /\ [Next]_vars => SerialInv'
    BY OneInHandStep, LogStep, FlagStep, SettingsStay DEF SerialInv, Threads
<1> QED BY <1>1, <1>2, TypeCorrect, PTL DEF Spec, Safety

(***************************************************************************)
(* With data-provider-thread-count 1, endTestCase files the log of its own *)
(* row, although it finds it by a static field: however scripts end.       *)
(***************************************************************************)
THEOREM LogIsFiled == Spec => []OwnLogFiled
<1>1. SerialInv => OwnLogFiled
    BY DEF SerialInv, LogIsOwn, OwnLogFiled
<1> QED BY <1>1, SerialInvHolds, PTL

(***************************************************************************)
(* With data-provider-thread-count 1, a row that could not open a workbook *)
(* is always SKIPped: no step of another row takes its flag back.          *)
(***************************************************************************)
THEOREM WorkbookErrorIsSkipped == Spec => []WorkbookErrorSkips
<1>1. SerialInv => WorkbookErrorSkips
    BY DEF SerialInv, FlagIsUp, WorkbookErrorSkips
<1> QED BY <1>1, SerialInvHolds, PTL

-----------------------------------------------------------------------------
(* The order of the rows                                                   *)

\* rows are taken in their order, and the <test> in hand is between those of the
\* rows that have been taken and those that have not
RowsInOrder ==
    /\ \A t, u \in Tests : t < u /\ pc[u] # "queued" => pc[t] # "queued"
    /\ \A t \in Tests : IF pc[t] = "queued" THEN suiteName <= SuiteOf[t] ELSE SuiteOf[t] <= suiteName

\* a row in hand stays in hand until it is done
LEMMA InHand ==
    ASSUME TypeOK, NEW t \in Tests, Execute(t) \/ Judge(t) \/ EndTestCase(t)
    PROVE  /\ \A u \in Tests \ {t} : pc'[u] = pc[u]
           /\ pc[t] \notin {"queued", "done"} /\ pc'[t] # "queued"
           /\ UNCHANGED <<settings, suiteName>>
<1> USE DEF Go, suiteVars
<1>0. pc \in [Tests -> PCs]
    BY DEF TypeOK
<1>1. CASE Execute(t)
    BY <1>0, <1>1 DEF Execute, NameLog, OpenScript, OpenFails, StartBrowser, BrowserFails,
                      EndScript, CloseBrowser, CloseFails
<1>2. CASE Judge(t)
    BY <1>0, <1>2 DEF Judge
<1>3. CASE EndTestCase(t)
    BY <1>0, <1>3 DEF EndTestCase, FileLog, AfterMethodSkipped, MoveSnapshots, MoveFails,
                      FindList, NewList, ReadSize, AddEntry, PutList
<1> QED BY <1>1, <1>2, <1>3

LEMMA TestsAreNumbers == \A t, u \in Tests : t \in Nat /\ (t < u \/ u < t \/ t = u)
    BY SuiteRunAssumption DEF Tests

\* the row that is taken comes after all rows that have been, before all that have not
LEMMA NextIsNext ==
    ASSUME NEW t \in Tests, NextInQueue(t), RowsInOrder
    PROVE  /\ pc[t] = "queued"
           /\ \A u \in Tests : u < t <=> pc[u] # "queued"
<1>1. t \in Nat /\ Tests \subseteq Nat /\ \A u \in Tests : u >= 1
    BY SuiteRunAssumption DEF Tests
<1>2. \A u \in Tests : u < t => u \in 1..(t - 1)
    BY <1>1
<1>3. \A u \in Tests : u < t => pc[u] # "queued"
    BY <1>2 DEF NextInQueue
<1> QED BY <1>3, TestsAreNumbers DEF NextInQueue, RowsInOrder

LEMMA RowsInOrderStep ==
    ASSUME TypeOK, RowsInOrder, [Next]_vars
    PROVE  RowsInOrder'
<1>0. /\ pc \in [Tests -> PCs]
      /\ SuiteOf \in [Tests -> Suites] /\ \A t, u \in Tests : t < u => SuiteOf[t] <= SuiteOf[u]
      /\ suiteName \in Nat /\ Suites \subseteq Nat
    BY SettingTypes, SuiteRunAssumption DEF TypeOK, Suites
<1>1. CASE BeginSuite
    <2>1. PICK t \in Tests : NextInQueue(t) /\ suiteName' = SuiteOf[t]
        BY <1>1 DEF BeginSuite
    <2>2. pc' = pc /\ SuiteOf' = SuiteOf
        BY <1>1 DEF BeginSuite, SuiteOf
    <2>3. \A u \in Tests : u < t <=> pc[u] # "queued"
        BY <2>1, NextIsNext
    <2>4. \A u \in Tests : IF pc[u] = "queued" THEN SuiteOf[t] <= SuiteOf[u] ELSE SuiteOf[u] <= SuiteOf[t]
        <3> SUFFICES ASSUME NEW u \in Tests
                     PROVE  IF pc[u] = "queued" THEN SuiteOf[t] <= SuiteOf[u] ELSE SuiteOf[u] <= SuiteOf[t]
            OBVIOUS
        <3>1. SuiteOf[t] \in Nat /\ SuiteOf[u] \in Nat
            BY <1>0
        <3> QED BY <1>0, <2>3, <3>1, TestsAreNumbers
    <2> QED BY <2>1, <2>2, <2>4 DEF RowsInOrder
<1>2. ASSUME NEW t \in Tests, Take(t) PROVE RowsInOrder'
    <2>1. NextInQueue(t) /\ suiteName = SuiteOf[t] /\ UNCHANGED <<settings, suiteName>>
        BY <1>2 DEF Take, suiteVars
    <2>2. pc'[t] # "queued" /\ \A u \in Tests \ {t} : pc'[u] = pc[u]
        BY <1>0, <1>2 DEF Take, Go
    <2>3. \A u \in Tests : u < t <=> pc[u] # "queued"
        BY <2>1, NextIsNext
    <2>4. \A u, w \in Tests : u < w /\ pc'[w] # "queued" => pc'[u] # "queued"
        BY <2>2, <2>3, TestsAreNumbers DEF RowsInOrder
    <2>5. SuiteOf' = SuiteOf
        BY <2>1 DEF SuiteOf
    <2>6. \A u \in Tests : IF pc'[u] = "queued" THEN suiteName <= SuiteOf[u] ELSE SuiteOf[u] <= suiteName
        BY <1>0, <2>1, <2>2 DEF RowsInOrder
    <2> QED BY <2>1, <2>4, <2>5, <2>6 DEF RowsInOrder
<1>3. ASSUME NEW t \in Tests, Execute(t) \/ Judge(t) \/ EndTestCase(t) PROVE RowsInOrder'
    <2>1. (\A u \in Tests : pc'[u] = "queued" <=> pc[u] = "queued") /\ suiteName' = suiteName /\ SuiteOf' = SuiteOf
        BY <1>3, InHand DEF SuiteOf
    <2> QED BY <2>1 DEF RowsInOrder
<1>4. CASE Taskkill \/ UNCHANGED vars
    <2>1. UNCHANGED <<pc, suiteName, SuiteOf>>
        BY <1>4 DEF Taskkill, vars, suiteVars, SuiteOf
    <2> QED BY <2>1 DEF RowsInOrder
<1> QED BY <1>1, <1>2, <1>3, <1>4 DEF Next, Work

-----------------------------------------------------------------------------
(* Nothing is dropped                                                      *)

Upd == {"sizing", "adding", "storing"}

\* the row's endTestCase has not got as far as the map
RefUnset == \A t \in Tests : pc[t] \notin Upd \cup {"done"} => ref[t] = 0

\* alone, at the time of the update, means that there is no other one
Exclusive == \A t \in Tests : alone[t] /\ pc[t] \in Upd => Updating(t) = {}

\* a list that has got its entry
HasEntry(l, t) == \E k \in 1..count[l] : slots[l][k] = t

StoredAlone ==
    \A t \in Tests : alone[t] /\ pc[t] = "storing" /\ verdict[t] # "SUCCESS" => HasEntry(ref[t], t)

\* the entry stays where it is: whoever is about to add another one has got this
\* list and has read a size that includes the entry
Held(t, l) ==
    /\ l \in Tests
    /\ \E k \in 1..count[l] : /\ slots[l][k] = t
                              /\ \A u \in Tests : pc[u] = "adding" /\ ref[u] = l => k <= size[u]
    /\ \A u \in Tests : pc[u] \in Upd /\ BookOf(u) = BookOf(t) /\ SuiteOf[u] = SuiteOf[t] => ref[u] = l

HeldForGood ==
    \A t \in Tests : alone[t] /\ pc[t] = "done" /\ verdict[t] # "SUCCESS" /\ ref[t] # 0 =>
        Held(t, report[BookOf(t)][SuiteOf[t]])

\* a row that was dropped by an exception, or not run at all
DroppedByException ==
    \A t \in Tests : pc[t] = "done" /\ verdict[t] # "SUCCESS" /\ ref[t] = 0 /\ SuiteOf[t] = suiteName
        => classBroken

DropInv == RefUnset /\ Exclusive /\ StoredAlone /\ HeldForGood /\ DroppedByException

\* Overlap keeps book of who was alone
LEMMA OverlapMarks ==
    ASSUME TypeOK, NEW t \in Tests, Overlap(t)
    PROVE  /\ alone'[t] => Updating(t) = {}
           /\ \A u \in Tests \ {t} : alone'[u] => alone[u] /\ u \notin Updating(t)
<1>1. alone' = [u \in Tests |-> IF u = t THEN Updating(t) = {} ELSE alone[u] /\ u \notin Updating(t)]
    BY Zenon DEF Overlap
<1>2. alone'[t] => Updating(t) = {}
    BY <1>1, Zenon
<1>3. ASSUME NEW u \in Tests \ {t}, alone'[u] PROVE alone[u] /\ u \notin Updating(t)
    BY <1>1, <1>3, Zenon
<1> QED BY <1>2, <1>3, Zenon

\* A quiet step takes no entry away and lets no row into the maps
LEMMA QuietKeepsEntries ==
    ASSUME TypeOK, ReportsAreTrue, DropInv, Quiet
    PROVE  RefUnset' /\ Exclusive' /\ StoredAlone' /\ HeldForGood'
<1>1. /\ UNCHANGED <<settings, report, slots, count, ref, size, alone>>
      /\ \A t \in Tests : /\ pc'[t] \in Upd => pc'[t] = pc[t]
                          /\ pc[t] \in Upd => pc'[t] = pc[t]
    BY DEF Quiet, Upd, Final
<1>2. \A t \in Tests : pc[t] \in Upd \cup {"done"} => pc'[t] = pc[t] /\ verdict'[t] = verdict[t] /\ BookOf(t)' = BookOf(t)
    BY DEF Quiet, Upd, Final, Judged, BookOf
<1>3. SuiteOf' = SuiteOf
    BY <1>1 DEF SuiteOf
<1>4. RefUnset'
    BY <1>1, <1>2 DEF DropInv, RefUnset
<1>5. Exclusive'
    <2> SUFFICES ASSUME NEW t \in Tests, alone'[t], pc'[t] \in Upd, NEW u \in Updating(t)' PROVE FALSE
        BY DEF Exclusive
    <2>1. u \in Tests \ {t} /\ pc'[u] \in Upd /\ BookOf(u)' = BookOf(t)'
        BY DEF Updating, Upd
    <2>2. u \in Updating(t)
        BY <1>1, <1>2, <2>1 DEF Updating, Upd
    <2> QED BY <1>1, <2>2 DEF DropInv, Exclusive
<1>6. StoredAlone'
    <2> SUFFICES ASSUME NEW t \in Tests, alone'[t], pc'[t] = "storing", verdict'[t] # "SUCCESS"
                 PROVE  HasEntry(ref[t], t)'
        BY DEF StoredAlone
    <2>1. pc[t] = "storing" /\ verdict[t] = verdict'[t]
        BY <1>1, <1>2 DEF Upd
    <2>2. HasEntry(ref[t], t)
        BY <1>1, <2>1 DEF DropInv, StoredAlone
    <2> QED BY <1>1, <2>2 DEF HasEntry
<1>7. HeldForGood'
    <2> SUFFICES ASSUME NEW t \in Tests, alone'[t], pc'[t] = "done", verdict'[t] # "SUCCESS", ref'[t] # 0
                 PROVE  Held(t, report[BookOf(t)][SuiteOf[t]])'
        BY DEF HeldForGood
    <2>1. pc[t] = "done"
        <3>1. pc[t] \in Upd \cup {"done"}
            BY <1>1 DEF DropInv, RefUnset
        <3> QED BY <1>2, <3>1 DEF Upd
    <2> DEFINE l == report[BookOf(t)][SuiteOf[t]]
    <2>2. l' = l /\ BookOf(t)' = BookOf(t) /\ Held(t, l)
        BY <1>1, <1>2, <1>3, <2>1 DEF DropInv, HeldForGood
    <2> HIDE DEF l
    <2>3. \A u \in Tests : pc'[u] \in Upd => pc'[u] = pc[u] /\ BookOf(u)' = BookOf(u)
        BY <1>1, <1>2
    <2>4. \A u \in Tests : pc'[u] = "adding" => pc[u] = "adding"
        BY <2>3 DEF Upd
    <2>5. Held(t, l)'
        <3>1. l' \in Tests
            BY <2>2 DEF Held
        <3>2. \E k \in 1..count'[l'] : /\ slots'[l'][k] = t
                                       /\ \A u \in Tests : pc'[u] = "adding" /\ ref'[u] = l' => k <= size'[u]
            BY <1>1, <2>2, <2>4 DEF Held
        <3>3. \A u \in Tests : pc'[u] \in Upd /\ BookOf(u)' = BookOf(t)' /\ SuiteOf'[u] = SuiteOf'[t] => ref'[u] = l'
            BY <1>1, <1>3, <2>2, <2>3 DEF Held
        <3> QED BY <3>1, <3>2, <3>3 DEF Held
    <2> QED BY <2>5 DEF l
<1> QED BY <1>4, <1>5, <1>6, <1>7

\* The report code keeps the entries of the rows that were alone, its own included
LEMMA ReportCodeKeepsEntries ==
    ASSUME TypeOK, Current, ReportsAreTrue, DropInv, NEW t \in Tests, ReportCode(t)
    PROVE  RefUnset' /\ Exclusive' /\ StoredAlone' /\ HeldForGood'
<1>0. /\ pc \in [Tests -> PCs] /\ slots \in [Tests -> Seq(Tests)] /\ count \in [Tests -> Nat]
      /\ verdict \in [Tests -> Verdicts] /\ ref \in [Tests -> Tests \cup {0}] /\ size \in [Tests -> Nat]
      /\ report \in [Books -> [Suites -> Tests \cup {0}]]
    BY DEF TypeOK
<1>1. /\ UNCHANGED <<verdict, settings, suiteName>>
      /\ pc[t] \in {"recording"} \cup Upd
      /\ pc'[t] \in Upd \cup {"done"}
      /\ \A u \in Tests \ {t} : pc'[u] = pc[u] /\ ref'[u] = ref[u] /\ size'[u] = size[u]
      /\ pc[t] \in Upd => ref'[t] = ref[t] /\ alone' = alone
    BY <1>0 DEF ReportCode, FindList, NewList, ReadSize, AddEntry, PutList, Go, suiteVars, Upd
<1>2. SuiteOf' = SuiteOf /\ \A u : BookOf(u)' = BookOf(u)
    BY <1>1 DEF SuiteOf, BookOf
<1>3. SuiteOf[t] = suiteName /\ suiteName \in Suites /\ BookOf(t) \in Books
    <2>1. SuiteOf[t] = suiteName
        BY <1>1 DEF Current, Upd
    <2>2. SuiteOf[t] \in Suites
        BY SettingTypes DEF TypeOK
    <2> QED BY <2>1, <2>2 DEF BookOf, Books
<1>4. /\ Exclusive /\ StoredAlone /\ HeldForGood /\ RefUnset
      /\ ListsAreTrue /\ RefsAreTrue /\ MapsAreTrue
    BY DEF DropInv, ReportsAreTrue
<1>5. \A u \in Tests : pc[u] \in Upd => /\ ref[u] \in Tests /\ Final(ref[u])
                                        /\ BookOf(ref[u]) = BookOf(u) /\ SuiteOf[ref[u]] = SuiteOf[u]
    BY <1>4 DEF RefsAreTrue, ListFor, Upd
<1>6. RefUnset'
    BY <1>1, <1>4 DEF RefUnset
<1>7. ASSUME NEW u \in Tests, alone'[u], u # t \/ pc[u] \in Upd PROVE alone[u]
    BY <1>1, <1>7, OverlapMarks DEF ReportCode, FindList, NewList, ReadSize, AddEntry, PutList
<1>8. Exclusive'
    <2>1. ASSUME alone'[t], pc'[t] \in Upd, NEW u \in Updating(t)' PROVE FALSE
        <3>1. u \in Updating(t)
            BY <1>1, <1>2, <2>1 DEF Updating
        <3>2. CASE pc[t] \in Upd
            BY <1>1, <1>4, <2>1, <3>1, <3>2 DEF Exclusive
        <3>3. CASE pc[t] = "recording"
            <4>1. Overlap(t)
                BY <1>0, <2>1, <3>3 DEF ReportCode, FindList, NewList, ReadSize, AddEntry, PutList, Go, Upd
            <4> QED BY <2>1, <3>1, <4>1, OverlapMarks
        <3> QED BY <1>1, <3>2, <3>3
    <2>2. ASSUME NEW w \in Tests \ {t}, alone'[w], pc'[w] \in Upd, NEW u \in Updating(w)' PROVE FALSE
        <3>1. alone[w] /\ pc[w] \in Upd
            BY <1>1, <1>7, <2>2
        <3>2. Updating(w) = {}
            BY <1>4, <3>1 DEF Exclusive
        <3>3. u = t
            BY <1>1, <1>2, <2>2, <3>2 DEF Updating
        <3>4. pc[t] = "recording" /\ pc'[t] \in Upd /\ BookOf(t) = BookOf(w)
            BY <1>1, <1>2, <2>2, <3>2, <3>3 DEF Updating, Upd
        <3>5. Overlap(t)
            BY <1>0, <3>4 DEF ReportCode, FindList, NewList, ReadSize, AddEntry, PutList, Go, Upd
        <3>6. w \in Updating(t)
            BY <3>1, <3>4 DEF Updating, Upd
        <3> QED BY <2>2, <3>5, <3>6, OverlapMarks
    <2> QED BY <2>1, <2>2 DEF Exclusive
<1>9. StoredAlone'
    <2>1. ASSUME alone'[t], pc'[t] = "storing", verdict[t] # "SUCCESS" PROVE HasEntry(ref[t], t)'
        <3>1. CASE NewList(t)
            <4>1. ref'[t] = t /\ slots'[t] = <<t>> /\ count'[t] = 1
                BY <1>0, <2>1, <3>1 DEF NewList, FirstEntries, Blank
            <4> QED BY <4>1 DEF HasEntry
        <3>2. CASE AddEntry(t)
            <4>1. PICK l \in Tests : l = ref[t]
                BY <1>5, <3>2 DEF AddEntry, Go, Upd
            <4>2. ref'[t] = l /\ slots'[l] = Stored(slots[l], size[t], t) /\ count'[l] = size[t] + 1
                BY <1>0, <3>2, <4>1 DEF AddEntry
            <4>3. size[t] \in 0..Len(slots[l])
                <5>1. size[t] <= Len(slots[l]) /\ size[t] \in Nat /\ Len(slots[l]) \in Nat
                    BY <1>0, <1>4, <3>2, <4>1 DEF AddEntry, Go, RefsAreTrue
                <5> QED BY <5>1
            <4>4. slots'[l][size[t] + 1] = t
                BY <1>0, <4>2, <4>3, StoredAt
            <4>5. size[t] + 1 \in 1..count'[l]
                BY <4>2, <4>3
            <4> QED BY <4>2, <4>4, <4>5 DEF HasEntry
        <3> QED BY <1>0, <2>1, <3>1, <3>2 DEF ReportCode, FindList, ReadSize, PutList, Go
    <2>2. ASSUME NEW u \in Tests \ {t}, alone'[u], pc'[u] = "storing", verdict[u] # "SUCCESS" PROVE HasEntry(ref[u], u)'
        <3>1. alone[u] /\ pc[u] = "storing" /\ ref'[u] = ref[u]
            BY <1>1, <1>7, <2>2
        <3>2. HasEntry(ref[u], u) /\ Updating(u) = {}
            BY <1>4, <2>2, <3>1 DEF StoredAlone, Exclusive, Upd
        <3>3. PICK l \in Tests : l = ref[u] /\ Final(l) /\ BookOf(l) = BookOf(u)
            BY <1>5, <3>1 DEF Upd
        <3>4. slots'[l] = slots[l] /\ count'[l] = count[l]
            <4>1. CASE NewList(t)
                <5>1. l # t
                    BY <3>3, <4>1 DEF NewList, Go, Final
                <5> QED BY <1>0, <4>1, <5>1 DEF NewList
            <4>2. CASE AddEntry(t)
                <5>1. ref[t] \in Tests /\ BookOf(ref[t]) = BookOf(t) /\ pc[t] \in Upd
                    BY <1>5, <4>2 DEF AddEntry, Go, Upd
                <5>2. BookOf(t) # BookOf(u)
                    BY <3>2, <5>1 DEF Updating, Upd
                <5>3. l # ref[t]
                    BY <3>3, <5>1, <5>2
                <5> QED BY <1>0, <4>2, <5>3 DEF AddEntry
            <4> QED BY <4>1, <4>2 DEF ReportCode, FindList, ReadSize, PutList
        <3> QED BY <3>1, <3>2, <3>3, <3>4 DEF HasEntry
    <2> QED BY <1>1, <2>1, <2>2 DEF StoredAlone
<1>10. HeldForGood'
    <2> SUFFICES ASSUME NEW u \in Tests, alone'[u], pc'[u] = "done", verdict[u] # "SUCCESS", ref'[u] # 0
                 PROVE  Held(u, report[BookOf(u)][SuiteOf[u]])'
        BY <1>1 DEF HeldForGood
    <2>1. CASE u = t
        <3>1. PutList(t)
            BY <1>0, <2>1 DEF ReportCode, FindList, NewList, ReadSize, AddEntry, Go, Blank
        <3>2. pc[t] = "storing" /\ alone[t] /\ ref'[t] = ref[t] /\ UNCHANGED <<slots, count, size, ref>>
            BY <1>7, <2>1, <3>1 DEF PutList, Go, Upd
        <3>3. PICK l \in Tests : l = ref[t] /\ BookOf(l) = BookOf(t) /\ SuiteOf[l] = SuiteOf[t]
            BY <1>5, <3>2 DEF Upd
        <3>4. report'[BookOf(t)][SuiteOf[t]] = l
            BY <1>0, <1>3, <3>1, <3>3 DEF PutList
        <3>5. HasEntry(l, t) /\ Updating(t) = {}
            BY <1>4, <2>1, <3>2, <3>3 DEF StoredAlone, Exclusive, Upd
        <3>6. \A w \in Tests : pc'[w] \in Upd => w # t /\ pc[w] \in Upd /\ BookOf(w) # BookOf(t)
            BY <1>0, <1>1, <3>1, <3>5 DEF Updating, Upd, PutList, Go
        <3>7. \A w \in Tests : pc'[w] = "adding" => ref'[w] # l
            BY <1>1, <1>5, <3>3, <3>6 DEF Upd
        <3>8. Held(t, l)'
            <4>1. \E k \in 1..count'[l] : /\ slots'[l][k] = t
                                          /\ \A w \in Tests : pc'[w] = "adding" /\ ref'[w] = l => k <= size'[w]
                BY <3>2, <3>5, <3>7 DEF HasEntry
            <4>2. \A w \in Tests : pc'[w] \in Upd /\ BookOf(w)' = BookOf(t)' /\ SuiteOf'[w] = SuiteOf'[t] => ref'[w] = l
                BY <1>2, <3>6
            <4> QED BY <4>1, <4>2 DEF Held
        <3>9. report[BookOf(u)][SuiteOf[u]]' = l
            BY <1>2, <2>1, <3>4
        <3> QED BY <2>1, <3>8, <3>9
    <2>2. CASE u # t
        <3>1. alone[u] /\ pc[u] = "done" /\ ref[u] # 0
            BY <1>1, <1>7, <2>2
        <3>2. PICK l \in Tests : l = report[BookOf(u)][SuiteOf[u]] /\ Held(u, l)
            BY <1>4, <3>1 DEF HeldForGood, Held
        <3>3. BookOf(u) \in Books /\ SuiteOf[u] \in Suites
            BY SettingTypes DEF BookOf, Books, TypeOK
        <3>4. Final(l) /\ BookOf(l) = BookOf(u) /\ SuiteOf[l] = SuiteOf[u]
            <4>1. l # 0
                BY TestsAreNumbers, SuiteRunAssumption DEF Tests
            <4> QED BY <1>4, <3>2, <3>3, <4>1 DEF MapsAreTrue
        <3>5. PICK k \in 1..count[l] : /\ slots[l][k] = u
                                       /\ \A w \in Tests : pc[w] = "adding" /\ ref[w] = l => k <= size[w]
            BY <3>2 DEF Held
        <3>6. \A w \in Tests : pc[w] \in Upd /\ BookOf(w) = BookOf(u) /\ SuiteOf[w] = SuiteOf[u] => ref[w] = l
            BY <3>2 DEF Held
        <3>7. report'[BookOf(u)][SuiteOf[u]] = l
            <4>1. CASE PutList(t)
                <5>1. pc[t] \in Upd /\ report' = [report EXCEPT ![BookOf(t)][suiteName] = ref[t]]
                    BY <4>1 DEF PutList, Go, Upd
                <5>2. CASE BookOf(t) = BookOf(u) /\ SuiteOf[t] = SuiteOf[u]
                    BY <1>0, <1>3, <3>6, <5>1, <5>2
                <5>3. CASE BookOf(t) # BookOf(u) \/ SuiteOf[t] # SuiteOf[u]
                    BY <1>0, <1>3, <3>2, <3>3, <5>1, <5>3
                <5> QED BY <5>2, <5>3
            <4> QED BY <3>2, <4>1 DEF ReportCode, FindList, NewList, ReadSize, AddEntry
        <3>8. k \in 1..count'[l] /\ slots'[l][k] = u
            <4>1. CASE NewList(t)
                <5>1. l # t
                    BY <3>4, <4>1 DEF NewList, Go, Final
                <5> QED BY <1>0, <3>5, <4>1, <5>1 DEF NewList
            <4>2. CASE AddEntry(t) /\ ref[t] # l
                BY <1>0, <3>5, <4>2 DEF AddEntry
            <4>3. CASE AddEntry(t) /\ ref[t] = l
                <5>1. k <= size[t] /\ size[t] <= Len(slots[l]) /\ size[t] \in Nat /\ Len(slots[l]) \in Nat
                    BY <1>0, <1>4, <3>5, <4>3 DEF AddEntry, Go, RefsAreTrue
                <5>2. slots'[l] = Stored(slots[l], size[t], t) /\ count'[l] = size[t] + 1
                    BY <1>0, <4>3 DEF AddEntry
                <5>3. k \in 1..size[t] /\ size[t] \in 0..Len(slots[l])
                    BY <5>1
                <5>4. Stored(slots[l], size[t], t)[k] = slots[l][k]
                    BY <1>0, <5>3, StoredAt
                <5>5. k \in 1..(size[t] + 1)
                    BY <5>3
                <5> QED BY <3>5, <5>2, <5>4, <5>5
            <4> QED BY <3>5, <4>1, <4>2, <4>3 DEF ReportCode, FindList, ReadSize, PutList
        <3>9. \A w \in Tests : pc'[w] = "adding" /\ ref'[w] = l => k <= size'[w]
            <4> SUFFICES ASSUME pc'[t] = "adding", ref'[t] = l PROVE k <= size'[t]
                BY <1>1, <3>5
            <4>1. ReadSize(t)
                BY <1>0 DEF ReportCode, FindList, NewList, AddEntry, PutList, Go
            <4>2. size'[t] = count[l] /\ count[l] \in Nat
                BY <1>0, <4>1 DEF ReadSize
            <4> QED BY <4>2
        <3>10. ASSUME NEW w \in Tests, pc'[w] \in Upd, BookOf(w) = BookOf(u), SuiteOf[w] = SuiteOf[u] PROVE ref'[w] = l
            <4>1. CASE w # t
                BY <1>1, <3>6, <3>10, <4>1
            <4>2. CASE w = t /\ pc[t] \in Upd
                BY <1>1, <3>6, <3>10, <4>2
            <4>3. CASE w = t /\ pc[t] = "recording"
                <5>1. ListOf(t) = l
                    BY <1>3, <3>2, <3>10, <4>3 DEF ListOf
                <5>2. FindList(t)
                    <6>1. l # 0
                        BY SuiteRunAssumption DEF Tests
                    <6> QED BY <4>3, <5>1, <6>1 DEF ReportCode, NewList, ReadSize, AddEntry, PutList, Go
                <5>3. ref'[t] = ListOf(t)
                    BY <1>0, <3>10, <4>3, <5>2 DEF FindList, Go, Upd
                <5> QED BY <4>3, <5>1, <5>3
            <4> QED BY <1>1, <4>1, <4>2, <4>3
        <3>11. Held(u, l)'
            BY <1>2, <3>8, <3>9, <3>10 DEF Held
        <3>12. report[BookOf(u)][SuiteOf[u]]' = l
            BY <1>2, <3>7
        <3> QED BY <3>11, <3>12
    <2> QED BY <2>1, <2>2
<1> QED BY <1>6, <1>8, <1>9, <1>10

\* Only a new <test> mends the class, and none of its rows has ended before
LEMMA DroppedStep ==
    ASSUME TypeOK, Current, RowsInOrder, ReportsAreTrue, DroppedByException, [Next]_vars
    PROVE  DroppedByException'
<1> USE DEF Go, suiteVars, reportVars
<1>0. /\ pc \in [Tests -> PCs] /\ verdict \in [Tests -> Verdicts] /\ ref \in [Tests -> Tests \cup {0}]
      /\ SuiteOf \in [Tests -> Suites] /\ Suites \subseteq Nat /\ suiteName \in Nat
    BY SettingTypes, SuiteRunAssumption DEF TypeOK, Suites
<1>1. CASE BeginSuite
    <2>1. PICK t \in Tests : NextInQueue(t) /\ suiteName' = SuiteOf[t] /\ suiteName # SuiteOf[t]
        BY <1>1 DEF BeginSuite
    <2>2. pc[t] = "queued" /\ suiteName < SuiteOf[t]
        BY <1>0, <2>1, NextIsNext DEF RowsInOrder
    <2>3. \A u \in Tests : pc[u] = "done" => SuiteOf[u] # suiteName'
        <3> SUFFICES ASSUME NEW u \in Tests, pc[u] = "done" PROVE SuiteOf[u] # suiteName'
            OBVIOUS
        <3>1. SuiteOf[u] <= suiteName /\ SuiteOf[u] \in Nat /\ SuiteOf[t] \in Nat
            BY <1>0 DEF RowsInOrder
        <3> QED BY <1>0, <2>1, <2>2, <3>1
    <2>4. pc' = pc /\ SuiteOf' = SuiteOf
        BY <1>1 DEF BeginSuite, SuiteOf
    <2> QED BY <2>3, <2>4 DEF DroppedByException
<1>2. ASSUME NEW t \in Tests, UNCHANGED <<settings, suiteName, ref>>,
             \A u \in Tests \ {t} : pc'[u] = pc[u] /\ verdict'[u] = verdict[u],
             classBroken => classBroken',
             pc'[t] = "done" /\ verdict'[t] # "SUCCESS" /\ ref[t] = 0 => classBroken'
      PROVE  DroppedByException'
    BY <1>2 DEF DroppedByException, SuiteOf
<1>3. ASSUME NEW t \in Tests, Take(t) PROVE DroppedByException'
    <2>1. /\ UNCHANGED <<settings, suiteName, ref, classBroken>>
          /\ \A u \in Tests \ {t} : pc'[u] = pc[u] /\ verdict'[u] = verdict[u]
          /\ pc'[t] = "done" => classBroken
        BY <1>0, <1>3 DEF Take
    <2> QED BY <1>2, <2>1
<1>4. ASSUME NEW t \in Tests, Execute(t) \/ Judge(t) PROVE DroppedByException'
    <2>1. /\ UNCHANGED <<settings, suiteName, ref, classBroken>>
          /\ \A u \in Tests \ {t} : verdict'[u] = verdict[u]
          /\ pc'[t] # "done"
        <3>1. CASE Execute(t)
            BY <1>0, <3>1 DEF Execute, NameLog, OpenScript, OpenFails, StartBrowser, BrowserFails,
                              EndScript, CloseBrowser, CloseFails
        <3>2. CASE Judge(t)
            BY <1>0, <3>2 DEF Judge
        <3> QED BY <1>4, <3>1, <3>2
    <2>2. \A u \in Tests \ {t} : pc'[u] = pc[u]
        BY <1>4, InHand
    <2> QED BY <1>2, <2>1, <2>2
<1>5. ASSUME NEW t \in Tests, FileLog(t) \/ AfterMethodSkipped(t) \/ MoveSnapshots(t) \/ MoveFails(t)
      PROVE  DroppedByException'
    <2>1. /\ UNCHANGED <<settings, suiteName, ref, verdict>>
          /\ classBroken => classBroken'
          /\ pc'[t] = "done" => classBroken'
        BY <1>0, <1>5 DEF FileLog, AfterMethodSkipped, MoveSnapshots, MoveFails
    <2>2. \A u \in Tests \ {t} : pc'[u] = pc[u]
        BY <1>5, InHand DEF EndTestCase
    <2> QED BY <1>2, <2>1, <2>2
<1>6. ASSUME NEW t \in Tests, ReportCode(t) PROVE DroppedByException'
    <2>1. /\ UNCHANGED <<settings, suiteName, verdict, classBroken>>
          /\ \A u \in Tests \ {t} : pc'[u] = pc[u] /\ ref'[u] = ref[u]
        BY <1>0, <1>6 DEF ReportCode, FindList, NewList, ReadSize, AddEntry, PutList
    <2>2. pc'[t] = "done" => verdict[t] = "SUCCESS" \/ ref'[t] \in Tests
        <3>1. pc[t] = "storing" => ref[t] \in Tests
            BY DEF ReportsAreTrue, RefsAreTrue, ListFor
        <3> QED BY <1>0, <1>6, <3>1 DEF ReportCode, FindList, NewList, ReadSize, AddEntry, PutList, Blank
    <2>3. 0 \notin Tests
        BY SuiteRunAssumption DEF Tests
    <2> QED BY <2>1, <2>2, <2>3 DEF DroppedByException, SuiteOf
<1>7. CASE Taskkill \/ UNCHANGED vars
    BY <1>7 DEF Taskkill, vars, DroppedByException, SuiteOf
<1> QED BY <1>1, <1>3, <1>4, <1>5, <1>6, <1>7 DEF Next, Work, EndTestCase, ReportCode

LEMMA DropStep ==
    ASSUME IInv, RowsInOrder, DropInv, [Next]_vars
    PROVE  DropInv'
<1>1. TypeOK /\ Current /\ ReportsAreTrue
    BY DEF IInv, ReportsAreTrue
<1>2. RefUnset' /\ Exclusive' /\ StoredAlone' /\ HeldForGood'
    <2>1. CASE \E t \in Tests : ReportCode(t)
        BY <1>1, <2>1, ReportCodeKeepsEntries
    <2>2. CASE \A t \in Tests : ~ReportCode(t)
        BY <1>1, <2>2, QuietSteps, QuietKeepsEntries
    <2> QED BY <2>1, <2>2
<1>3. DroppedByException'
    BY <1>1, DroppedStep DEF DropInv
<1> QED BY <1>2, <1>3 DEF DropInv

LEMMA DropInvHolds == Spec => [](IInv /\ RowsInOrder /\ DropInv)
<1>1. Init => IInv /\ RowsInOrder /\ DropInv
    <2> SUFFICES ASSUME Init PROVE IInv /\ RowsInOrder /\ DropInv
        OBVIOUS
    <2>1. IInv
        BY InitInv
    <2>2. \A t \in Tests : pc[t] = "queued" /\ ref[t] = 0
        BY DEF Init
    <2>3. RowsInOrder
        <3>1. suiteName = 0 /\ \A t \in Tests : SuiteOf[t] \in Nat
            BY <2>1, SettingTypes, SuiteRunAssumption DEF Init, IInv, TypeOK, Suites
        <3> QED BY <2>2, <3>1 DEF RowsInOrder
    <2>4. DropInv
        BY <2>2 DEF DropInv, RefUnset, Exclusive, StoredAlone, HeldForGood, DroppedByException, Upd
    <2> QED BY <2>1, <2>3, <2>4
<1>2. IInv /\ RowsInOrder /\ DropInv /\ [Next]_vars => (IInv /\ RowsInOrder /\ DropInv)'
    BY StepInv, RowsInOrderStep, DropStep DEF IInv
<1> QED BY <1>1, <1>2, PTL DEF Spec, Safety

LEMMA NothingIsDropped == IInv /\ RowsInOrder /\ DropInv => NothingDropped
<1> SUFFICES ASSUME IInv, DropInv, NEW t \in Tests, pc[t] = "done", verdict[t] # "SUCCESS", alone[t]
             PROVE  \/ t \in Listed(BookOf(t), SuiteOf[t])
                    \/ ref[t] = 0 /\ (SuiteOf[t] = suiteName => classBroken)
    BY DEF NothingDropped
<1>1. CASE ref[t] = 0
    BY <1>1 DEF DropInv, DroppedByException
<1>2. CASE ref[t] # 0
    <2> DEFINE l == report[BookOf(t)][SuiteOf[t]]
    <2>1. Held(t, l)
        BY <1>2 DEF DropInv, HeldForGood
    <2>2. l # 0
        BY <2>1, SuiteRunAssumption DEF Held, Tests
    <2>3. t \in Entries(l)
        <3> HIDE DEF l
        <3> QED BY <2>1 DEF Held, Entries
    <2> QED BY <2>2, <2>3 DEF Listed
<1> QED BY <1>1, <1>2

-----------------------------------------------------------------------------
(* One worker: the order of the lists and the cause of a SKIP              *)

\* a row is taken when those before it have ended
OneByOne == \A t, u \in Tests : t < u /\ pc[u] # "queued" => pc[t] = "done"

ListsInOrder ==
    /\ \A l \in Tests : /\ count[l] = Len(slots[l])
                        /\ \A i, j \in 1..count[l] : i < j => slots[l][i] < slots[l][j]
    /\ \A t \in Tests : pc[t] = "adding" => size[t] = count[ref[t]]

\* no row is in hand once the class is broken
BrokenEndsAll == classBroken => \A t \in Tests : pc[t] \in {"queued", "done"}

\* what may have become of a row after the one that has raised the flag
CannotLower(v) ==
    pc[v] # "queued" => /\ SuiteOf[v] = suiteName
                        /\ \/ cause[v] = "sheet"
                           \/ pc[v] \in {"begun", "opening"}
                           \/ pc[v] = "done" /\ cause[v] = "none" /\ classBroken

FlagHasCause ==
    excelError => \E u \in Tests : /\ cause[u] = "workbook" /\ SuiteOf[u] = suiteName
                                   /\ \A v \in Tests : u < v => CannotLower(v)

OrderInv == Threads = 1 => OneByOne /\ ListsInOrder /\ BrokenEndsAll /\ FlagHasCause /\ SkipHasCause

LEMMA OneByOneStep ==
    ASSUME TypeOK, RowsInOrder, OneInHand, OneByOne, Threads = 1, [Next]_vars
    PROVE  OneByOne'
<1>0. pc \in [Tests -> PCs]
    BY DEF TypeOK
<1>1. ASSUME NEW t \in Tests, Take(t) PROVE OneByOne'
    <2>1. NextInQueue(t) /\ \A u \in Tests \ {t} : pc'[u] = pc[u]
        BY <1>0, <1>1 DEF Take, Go
    <2>2. Active = {}
        <3>1. IsFiniteSet(Tests)
            BY FS_Interval, SuiteRunAssumption DEF Tests
        <3>2. IsFiniteSet(Active)
            BY <3>1, FS_Subset DEF Active
        <3>3. Cardinality(Active) < 1
            BY <1>1 DEF Take
        <3> QED BY <3>2, <3>3, FS_EmptySet, FS_CardinalityType
    <2>3. \A u \in Tests : (u < t => pc[u] = "done") /\ (t < u => pc[u] = "queued")
        BY <2>1, <2>2, NextIsNext, TestsAreNumbers DEF Active
    <2>4. pc[t] = "queued"
        BY <2>1, NextIsNext
    <2>5. ASSUME NEW u \in Tests, NEW w \in Tests, u < w, pc'[w] # "queued" PROVE pc'[u] = "done"
        <3>1. u \in Nat /\ w \in Nat /\ t \in Nat
            BY TestsAreNumbers
        <3>2. u # t
            BY <2>1, <2>3, <2>5, <3>1
        <3> QED BY <2>1, <2>3, <2>5, <3>2 DEF OneByOne
    <2> QED BY <2>5 DEF OneByOne
<1>2. ASSUME NEW t \in Tests, Execute(t) \/ Judge(t) \/ EndTestCase(t) PROVE OneByOne'
    <2>1. /\ \A u \in Tests \ {t} : pc'[u] = pc[u]
          /\ pc[t] \notin {"queued", "done"} /\ pc'[t] # "queued"
        BY <1>2, InHand
    <2> QED BY <2>1 DEF OneByOne
<1>3. CASE BeginSuite \/ Taskkill \/ UNCHANGED vars
    BY <1>3 DEF BeginSuite, Taskkill, vars, OneByOne
<1> QED BY <1>1, <1>2, <1>3 DEF Next, Work

\* the rows of a list have ended before the one that is added to it
LEMMA ListsInOrderStep ==
    ASSUME TypeOK, Current, ReportsAreTrue, OneInHand, OneByOne, ListsInOrder, [Next]_vars
    PROVE  ListsInOrder'
<1>0. /\ pc \in [Tests -> PCs] /\ slots \in [Tests -> Seq(Tests)] /\ count \in [Tests -> Nat]
      /\ ref \in [Tests -> Tests \cup {0}] /\ size \in [Tests -> Nat]
    BY DEF TypeOK
<1>1. CASE \A t \in Tests : ~ReportCode(t)
    <2>1. Quiet
        BY <1>1, QuietSteps
    <2> QED BY <2>1 DEF Quiet, ListsInOrder
<1>2. ASSUME NEW t \in Tests, ReportCode(t) PROVE ListsInOrder'
    <2>1. pc[t] \notin {"queued", "done"}
        BY <1>2, InHand DEF EndTestCase, ReportCode
    <2>2. \A u \in Tests \ {t} : pc'[u] = pc[u] /\ pc[u] # "adding"
        BY <1>2, <2>1, InHand DEF OneInHand, EndTestCase, ReportCode
    <2>3. CASE FindList(t) \/ PutList(t)
        BY <1>0, <2>2, <2>3 DEF FindList, PutList, Go, ListsInOrder
    <2>4. CASE ReadSize(t)
        BY <1>0, <2>2, <2>4 DEF ReadSize, Go, ListsInOrder
    <2>5. CASE NewList(t)
        <3>1. /\ pc'[t] # "adding"
              /\ slots'[t] = FirstEntries(t) /\ count'[t] = Len(FirstEntries(t))
              /\ \A l \in Tests \ {t} : slots'[l] = slots[l] /\ count'[l] = count[l]
            BY <1>0, <2>5 DEF NewList, Go
        <3>2. /\ count'[t] = Len(slots'[t])
              /\ \A i, j \in 1..count'[t] : i < j => slots'[t][i] < slots'[t][j]
            BY <3>1 DEF FirstEntries
        <3> QED BY <2>2, <3>1, <3>2 DEF ListsInOrder
    <2>6. CASE AddEntry(t)
        <3>1. PICK l \in Tests : l = ref[t]
            BY <2>6 DEF AddEntry, Go, ReportsAreTrue, RefsAreTrue, ListFor
        <3>2. pc[t] = "adding" /\ pc'[t] = "storing" /\ size[t] = count[l] /\ count[l] = Len(slots[l])
            BY <1>0, <2>6, <3>1 DEF AddEntry, Go, ListsInOrder
        <3>3. slots'[l] = Append(slots[l], t) /\ count'[l] = Len(slots[l]) + 1
            BY <1>0, <2>6, <3>1, <3>2 DEF AddEntry, Stored
        <3>4. \A m \in Tests \ {l} : slots'[m] = slots[m] /\ count'[m] = count[m]
            BY <1>0, <2>6, <3>1 DEF AddEntry
        <3>5. slots[l] \in Seq(Tests) /\ Len(slots[l]) \in Nat
            BY <1>0
        <3>6. ASSUME NEW i \in 1..Len(slots[l]) PROVE slots[l][i] < t
            <4>1. PICK u \in Tests : u = slots[l][i]
                BY <3>5
            <4>2. Final(u)
                BY <4>1 DEF ReportsAreTrue, ListsAreTrue, EntryFor
            <4>3. u # t /\ ~(t < u)
                BY <3>2, <4>2 DEF Final, OneByOne
            <4> QED BY <4>1, <4>3, TestsAreNumbers
        <3>7. /\ \A i \in 1..Len(slots[l]) : slots'[l][i] = slots[l][i]
              /\ slots'[l][Len(slots[l]) + 1] = t
              /\ count'[l] = Len(slots'[l])
            BY <3>3, <3>5
        <3>8. \A i, j \in 1..count[l] : i < j => slots[l][i] < slots[l][j]
            BY DEF ListsInOrder
        <3>9. ASSUME NEW i \in 1..count'[l], NEW j \in 1..count'[l], i < j
              PROVE  slots'[l][i] < slots'[l][j]
            <4>1. i \in 1..Len(slots[l])
                BY <3>3, <3>5, <3>9
            <4>2. CASE j = Len(slots[l]) + 1
                BY <3>6, <3>7, <4>1, <4>2
            <4>3. CASE j # Len(slots[l]) + 1
                <5>1. j \in 1..Len(slots[l])
                    BY <3>3, <3>5, <4>3
                <5> QED BY <3>2, <3>7, <3>8, <3>9, <4>1, <5>1
            <4> QED BY <4>2, <4>3
        <3> QED BY <2>2, <3>2, <3>4, <3>7, <3>9 DEF ListsInOrder
    <2> QED BY <1>2, <2>3, <2>4, <2>5, <2>6 DEF ReportCode
<1> QED BY <1>1, <1>2

LEMMA BrokenEndsAllStep ==
    ASSUME TypeOK, OneInHand, BrokenEndsAll, [Next]_vars
    PROVE  BrokenEndsAll'
<1> USE DEF Go, suiteVars
<1>0. pc \in [Tests -> PCs] /\ classBroken \in BOOLEAN
    BY DEF TypeOK
<1>1. CASE BeginSuite
    BY <1>1 DEF BeginSuite, BrokenEndsAll
<1>2. ASSUME NEW t \in Tests, Take(t) PROVE BrokenEndsAll'
    BY <1>0, <1>2 DEF Take, BrokenEndsAll
<1>3. ASSUME NEW t \in Tests, Execute(t) \/ Judge(t) \/ EndTestCase(t) PROVE BrokenEndsAll'
    <2>1. ~classBroken
        BY <1>3, InHand DEF BrokenEndsAll
    <2>2. classBroken' = classBroken \/ MoveFails(t)
        BY <1>3 DEF Execute, NameLog, OpenScript, OpenFails, StartBrowser, BrowserFails, EndScript,
            CloseBrowser, CloseFails, Judge, EndTestCase, FileLog, AfterMethodSkipped, MoveSnapshots,
            FindList, NewList, ReadSize, AddEntry, PutList
    <2>3. CASE MoveFails(t)
        BY <1>0, <2>3 DEF MoveFails, OneInHand, BrokenEndsAll
    <2> QED BY <2>1, <2>2, <2>3 DEF BrokenEndsAll
<1>4. CASE Taskkill \/ UNCHANGED vars
    BY <1>4 DEF Taskkill, vars, BrokenEndsAll
<1> QED BY <1>1, <1>2, <1>3, <1>4 DEF Next, Work

-----------------------------------------------------------------------------
(* One worker: the flag                                                    *)

\* while a script runs, the flag is down: its row has lowered it
LEMMA FlagIsDown ==
    ASSUME TypeOK, OneByOne, FlagIsUp, FlagHasCause, NEW t \in Tests, pc[t] \in {"scripted", "running"}
    PROVE  ~excelError
<1> SUFFICES ASSUME excelError PROVE FALSE
    OBVIOUS
<1>1. PICK u \in Tests : cause[u] = "workbook" /\ \A v \in Tests : u < v => CannotLower(v)
    BY DEF FlagHasCause
<1>2. pc[u] \notin {"queued", "begun", "opening", "scripted", "running"} /\ cause[t] = "none"
    BY <1>1 DEF FlagIsUp
<1>3. u # t /\ ~(t < u)
    BY <1>2 DEF OneByOne
<1>4. ~(u < t)
    BY <1>1, <1>2 DEF CannotLower
<1> QED BY <1>3, <1>4, TestsAreNumbers

\* a row raises the flag for itself: none has been taken after it
LEMMA FlagRaised ==
    ASSUME Current, OneByOne, NEW t \in Tests, pc[t] \notin {"queued", "done"}, cause'[t] = "workbook",
           UNCHANGED <<settings, suiteName>>, \A u \in Tests \ {t} : pc'[u] = pc[u]
    PROVE  FlagHasCause'
<1>1. \A v \in Tests : t < v => v # t /\ pc[v] = "queued"
    BY TestsAreNumbers DEF OneByOne
<1>2. \A v \in Tests : t < v => CannotLower(v)'
    BY <1>1 DEF CannotLower
<1>3. SuiteOf'[t] = suiteName'
    BY DEF Current, SuiteOf
<1> QED BY <1>2, <1>3 DEF FlagHasCause

\* a row after the one that raised the flag keeps it up until it opens its script
LEMMA FlagStays ==
    ASSUME TypeOK, FlagHasCause, NEW t \in Tests, pc[t] \notin {"queued", "done"},
           UNCHANGED <<settings, suiteName>>, \A u \in Tests \ {t} : pc'[u] = pc[u] /\ cause'[u] = cause[u],
           excelError' => excelError, classBroken => classBroken',
           cause[t] \in {"workbook", "sheet"} => cause'[t] = cause[t],
           pc[t] \in {"begun", "opening"} => pc'[t] = "opening" \/ cause'[t] = "sheet"
    PROVE  FlagHasCause'
<1> SUFFICES ASSUME excelError
             PROVE  \E u \in Tests : /\ cause'[u] = "workbook" /\ SuiteOf'[u] = suiteName'
                                     /\ \A v \in Tests : u < v => CannotLower(v)'
    BY DEF FlagHasCause
<1>1. PICK u \in Tests : /\ cause[u] = "workbook" /\ SuiteOf[u] = suiteName
                         /\ \A v \in Tests : u < v => CannotLower(v)
    BY DEF FlagHasCause
<1>2. cause'[u] = "workbook" /\ SuiteOf'[u] = suiteName'
    BY <1>1 DEF SuiteOf
<1>3. ASSUME NEW v \in Tests, u < v PROVE CannotLower(v)'
    <2>1. CannotLower(v)
        BY <1>1, <1>3
    <2>2. CASE v # t
        BY <2>1, <2>2 DEF CannotLower, SuiteOf
    <2>3. CASE v = t
        BY <2>1, <2>3 DEF CannotLower, SuiteOf
    <2> QED BY <2>2, <2>3
<1> QED BY <1>2, <1>3

LEMMA FlagHasCauseStep ==
    ASSUME TypeOK, Current, OneInHand, OneByOne, FlagIsUp, FlagHasCause, [Next]_vars
    PROVE  FlagHasCause'
<1> USE DEF Go, suiteVars, scriptVars
<1>0. pc \in [Tests -> PCs] /\ cause \in [Tests -> Causes]
    BY DEF TypeOK
<1>1. CASE BeginSuite
    BY <1>1 DEF BeginSuite, FlagHasCause
<1>2. ASSUME NEW t \in Tests, Take(t) PROVE FlagHasCause'
    <2> SUFFICES ASSUME excelError
                 PROVE  \E u \in Tests : /\ cause'[u] = "workbook" /\ SuiteOf'[u] = suiteName'
                                         /\ \A v \in Tests : u < v => CannotLower(v)'
        BY <1>2 DEF Take, FlagHasCause
    <2>1. /\ pc[t] = "queued" /\ SuiteOf[t] = suiteName
          /\ pc'[t] = "begun" \/ (pc'[t] = "done" /\ classBroken)
          /\ \A u \in Tests \ {t} : pc'[u] = pc[u]
          /\ UNCHANGED <<cause, settings, suiteName, classBroken>>
        BY <1>0, <1>2 DEF Take, NextInQueue
    <2>2. PICK u \in Tests : /\ cause[u] = "workbook" /\ SuiteOf[u] = suiteName
                             /\ \A v \in Tests : u < v => CannotLower(v)
        BY DEF FlagHasCause
    <2>3. cause[t] = "none"
        BY <2>1 DEF FlagIsUp
    <2>4. CannotLower(t)'
        BY <2>1, <2>3 DEF CannotLower, SuiteOf
    <2>5. \A v \in Tests \ {t} : CannotLower(v) => CannotLower(v)'
        BY <2>1 DEF CannotLower, SuiteOf
    <2> QED BY <2>1, <2>2, <2>4, <2>5 DEF SuiteOf
<1>3. ASSUME NEW t \in Tests, Execute(t) PROVE FlagHasCause'
    <2>0. /\ \A u \in Tests \ {t} : pc'[u] = pc[u]
          /\ pc[t] \notin {"queued", "done"}
        BY <1>3, InHand
    <2>1. CASE NameLog(t)
        BY <1>0, <2>0, <2>1, FlagStays DEF NameLog
    <2>2. CASE OpenScript(t)
        BY <2>2 DEF OpenScript, FlagHasCause
    <2>3. CASE OpenFails(t)
        <3>1. PICK c \in {"workbook", "sheet"} : cause' = [cause EXCEPT ![t] = c] /\ excelError' = Raised(c)
            BY <2>3 DEF OpenFails
        <3>2. UNCHANGED <<settings, suiteName, classBroken>> /\ pc[t] = "opening"
            BY <2>3 DEF OpenFails
        <3>3. CASE c = "workbook"
            BY <1>0, <2>0, <3>1, <3>2, <3>3, FlagRaised
        <3>4. CASE c = "sheet"
            <4>1. excelError' = excelError /\ cause[t] = "none" /\ cause'[t] = "sheet"
                BY <1>0, <3>1, <3>2, <3>4 DEF Raised, FlagIsUp, TypeOK
            <4>2. \A u \in Tests \ {t} : cause'[u] = cause[u]
                BY <1>0, <3>1
            <4> QED BY <2>0, <3>2, <4>1, <4>2, FlagStays
        <3> QED BY <3>3, <3>4
    <2>4. CASE StartBrowser(t) \/ BrowserFails(t)
        <3>1. ~excelError /\ excelError' = excelError
            BY <2>4, FlagIsDown DEF StartBrowser, BrowserFails
        <3> QED BY <3>1 DEF FlagHasCause
    <2>5. CASE EndScript(t)
        <3>1. PICK c \in {"ok", "workbook", IF browser[t] = "killed" THEN "killed" ELSE "step"} :
                  cause' = [cause EXCEPT ![t] = c] /\ excelError' = Raised(c)
            BY <2>5 DEF EndScript
        <3>2. UNCHANGED <<settings, suiteName>> /\ pc[t] = "running"
            BY <2>5 DEF EndScript
        <3>3. CASE c = "workbook"
            BY <1>0, <2>0, <3>1, <3>2, <3>3, FlagRaised
        <3>4. CASE c # "workbook"
            <4>1. ~excelError'
                BY <3>1, <3>2, <3>4, FlagIsDown DEF Raised
            <4> QED BY <4>1 DEF FlagHasCause
        <3> QED BY <3>3, <3>4
    <2>6. CASE CloseBrowser(t) \/ CloseFails(t)
        <3>1. /\ UNCHANGED <<settings, suiteName, excelError, classBroken>> /\ pc[t] = "closing"
              /\ cause[t] \in {"workbook", "sheet"} => cause'[t] = cause[t]
              /\ \A u \in Tests \ {t} : cause'[u] = cause[u]
            BY <1>0, <2>6 DEF CloseBrowser, CloseFails
        <3> QED BY <2>0, <3>1, FlagStays
    <2> QED BY <1>3, <2>1, <2>2, <2>3, <2>4, <2>5, <2>6 DEF Execute
<1>4. ASSUME NEW t \in Tests, Judge(t) \/ EndTestCase(t) PROVE FlagHasCause'
    <2>1. \A u \in Tests \ {t} : pc'[u] = pc[u]
        BY <1>4, InHand
    <2>2. /\ UNCHANGED <<settings, suiteName, excelError, cause>>
          /\ classBroken => classBroken'
          /\ pc[t] \notin {"queued", "done", "begun", "opening"}
        BY <1>4 DEF Judge, EndTestCase, FileLog, AfterMethodSkipped, MoveSnapshots, MoveFails,
                    FindList, NewList, ReadSize, AddEntry, PutList
    <2> QED BY <2>1, <2>2, FlagStays
<1>5. CASE Taskkill \/ UNCHANGED vars
    <2>1. UNCHANGED <<settings, suiteName, excelError, classBroken, pc, cause>>
        BY <1>5 DEF Taskkill, vars
    <2> QED BY <2>1 DEF FlagHasCause, CannotLower, SuiteOf
<1> QED BY <1>1, <1>2, <1>3, <1>4, <1>5 DEF Next, Work

\* what ended a script stands once the row has left it; a verdict comes from the listener or,
\* for a row that is not run, from TestNG
LEMMA CausesStand ==
    ASSUME TypeOK, [Next]_vars, NEW t \in Tests
    PROVE  /\ pc[t] \notin {"opening", "scripted", "running", "closing"} => cause'[t] = cause[t]
           /\ verdict'[t] = verdict[t] \/ Judge(t) \/ pc[t] = "queued"
<1> USE DEF Go, scriptVars
<1>0. pc \in [Tests -> PCs] /\ cause \in [Tests -> Causes] /\ verdict \in [Tests -> Verdicts]
    BY DEF TypeOK
<1>1. CASE BeginSuite \/ Taskkill \/ UNCHANGED vars
    BY <1>1 DEF BeginSuite, Taskkill, vars
<1>2. ASSUME NEW u \in Tests, Take(u) PROVE cause' = cause /\ (verdict'[t] = verdict[t] \/ pc[t] = "queued")
    BY <1>0, <1>2 DEF Take
<1>3. ASSUME NEW u \in Tests, Execute(u)
      PROVE  /\ pc[u] \in {"opening", "scripted", "running", "closing"} \/ cause' = cause
             /\ \A w \in Tests \ {u} : cause'[w] = cause[w]
             /\ verdict' = verdict
    BY <1>0, <1>3 DEF Execute, NameLog, OpenScript, OpenFails, StartBrowser, BrowserFails,
                      EndScript, CloseBrowser, CloseFails
<1>4. ASSUME NEW u \in Tests, Judge(u) PROVE cause' = cause /\ (verdict'[t] = verdict[t] \/ u = t)
    BY <1>0, <1>4 DEF Judge
<1>5. ASSUME NEW u \in Tests, EndTestCase(u) PROVE cause' = cause /\ verdict' = verdict
    BY <1>5 DEF EndTestCase, FileLog, AfterMethodSkipped, MoveSnapshots, MoveFails,
                FindList, NewList, ReadSize, AddEntry, PutList
<1> QED BY <1>1, <1>2, <1>3, <1>4, <1>5 DEF Next, Work

LEMMA SkipHasCauseStep ==
    ASSUME TypeOK, Current, OneByOne, FlagIsUp, BrokenEndsAll, FlagHasCause, Threads = 1, SkipHasCause, [Next]_vars
    PROVE  SkipHasCause'
<1>0. settings' = settings /\ SuiteOf' = SuiteOf
    BY SettingsStay DEF SuiteOf
<1> SUFFICES ASSUME NEW t \in Tests, verdict'[t] = "SKIP", cause'[t] # "none"
             PROVE  \E u \in 1..t : /\ cause'[u] = "workbook" /\ SuiteOf[u] = SuiteOf[t]
                                    /\ \A v \in (u + 1)..t : cause'[v] = "sheet"
    BY <1>0 DEF SkipHasCause
<1>1. NumTests \in Nat /\ t \in Nat /\ t \in 1..NumTests
    BY SuiteRunAssumption DEF Tests
<1>2. ASSUME NEW u \in 1..t PROVE u \in Tests /\ u \in Nat /\ (u < t \/ u = t)
    BY <1>1 DEF Tests
<1>3. CASE verdict'[t] = verdict[t]
    <2>1. pc[t] \notin BeforeVerdict
        BY <1>3 DEF FlagIsUp
    <2>2. \A v \in 1..t : pc[v] \notin BeforeVerdict
        BY <1>2, <2>1 DEF OneByOne, BeforeVerdict
    <2>3. \A v \in 1..t : cause'[v] = cause[v]
        BY <1>2, <2>2, CausesStand DEF BeforeVerdict
    <2>4. t \in 1..t
        BY <1>1
    <2>5. PICK u \in 1..t : /\ cause[u] = "workbook" /\ SuiteOf[u] = SuiteOf[t]
                            /\ \A v \in (u + 1)..t : cause[v] = "sheet"
        BY <1>3, <2>3, <2>4 DEF SkipHasCause
    <2>6. \A v \in (u + 1)..t : v \in 1..t
        BY <1>1
    <2> QED BY <2>3, <2>5, <2>6
<1>4. CASE Judge(t) /\ verdict'[t] # verdict[t]
    <2>1. pc[t] = "ended" /\ cause' = cause /\ excelError
        BY <1>4, Zenon DEF Judge, Go, scriptVars, StatusOf, TypeOK
    <2>2. PICK u \in Tests : /\ cause[u] = "workbook" /\ SuiteOf[u] = suiteName
                             /\ \A v \in Tests : u < v => CannotLower(v)
        BY <2>1 DEF FlagHasCause
    <2>3. ~(t < u)
        <3>1. pc[u] # "queued"
            BY <2>2 DEF FlagIsUp
        <3> QED BY <2>1, <3>1 DEF OneByOne
    <2>4. u \in 1..t
        BY <1>1, <2>3 DEF Tests
    <2>5. SuiteOf[u] = SuiteOf[t]
        BY <2>1, <2>2 DEF Current
    <2>6. ASSUME NEW v \in (u + 1)..t PROVE cause[v] = "sheet"
        <3>1. v \in 1..t /\ u < v
            BY <1>1, <2>4
        <3>2. v \in Tests /\ CannotLower(v)
            BY <1>2, <2>2, <3>1
        <3>3. pc[v] = "done" \/ pc[v] = "ended"
            BY <1>2, <2>1, <3>1 DEF OneByOne
        <3>4. ~classBroken
            BY <2>1 DEF BrokenEndsAll
        <3> QED BY <3>2, <3>3, <3>4 DEF CannotLower
    <2> QED BY <2>1, <2>2, <2>4, <2>5, <2>6
<1>5. CASE pc[t] = "queued"
    BY <1>5, CausesStand DEF FlagIsUp
<1> QED BY <1>3, <1>4, <1>5, CausesStand

-----------------------------------------------------------------------------
(* Killed browsers                                                         *)

Left == {"ended", "judged", "logged", "recording", "sizing", "adding", "storing", "done"}

\* a taskkill was started by a row that has left its script
KillInv ==
    /\ \A t \in Tests : browser[t] # "none" => pc[t] \in {"running", "closing"}
    /\ kills > 0 \/ (\E t \in Tests : browser[t] = "killed") => \E u \in Tests : pc[u] \in Left

LEMMA KillStep ==
    ASSUME TypeOK, KillInv, [Next]_vars
    PROVE  KillInv'
<1> USE DEF Go, Left, scriptVars
<1>0. pc \in [Tests -> PCs] /\ browser \in [Tests -> {"none", "open", "killed"}] /\ kills \in Nat
    BY DEF TypeOK
<1>1. ASSUME NEW t \in Tests, \A u \in Tests \ {t} : pc'[u] = pc[u] /\ browser'[u] = browser[u],
             pc[t] \in Left => pc'[t] \in Left,
             browser'[t] # "none" => pc'[t] \in {"running", "closing"},
             browser'[t] = "killed" => browser[t] = "killed",
             kills' = kills \/ pc'[t] \in Left
      PROVE  KillInv'
    <2>1. (\E u \in Tests : pc[u] \in Left) => \E u \in Tests : pc'[u] \in Left
        BY <1>1
    <2>2. (\E u \in Tests : browser'[u] = "killed") => \E u \in Tests : browser[u] = "killed"
        BY <1>1
    <2> QED BY <1>1, <2>1, <2>2 DEF KillInv
<1>2. CASE BeginSuite \/ UNCHANGED vars
    <2>1. UNCHANGED <<pc, browser, kills>>
        BY <1>2 DEF BeginSuite, vars
    <2> QED BY <2>1 DEF KillInv
<1>3. CASE Taskkill
    <2>1. kills > 0 /\ pc' = pc /\ \A t \in Tests : browser'[t] # "none" => browser[t] # "none"
        BY <1>0, <1>3 DEF Taskkill
    <2> QED BY <2>1 DEF KillInv
<1>4. ASSUME NEW t \in Tests, Take(t) PROVE KillInv'
    <2>1. /\ \A u \in Tests \ {t} : pc'[u] = pc[u]
          /\ pc[t] = "queued" /\ UNCHANGED <<browser, kills>>
        BY <1>0, <1>4 DEF Take, NextInQueue
    <2>2. browser[t] = "none"
        BY <2>1 DEF KillInv
    <2> QED BY <1>1, <2>1, <2>2
<1>5. ASSUME NEW t \in Tests, Execute(t) PROVE KillInv'
    <2>1. \A u \in Tests \ {t} : pc'[u] = pc[u]
        BY <1>5, InHand
    <2>2. /\ \A u \in Tests \ {t} : browser'[u] = browser[u]
          /\ pc[t] \notin Left
          /\ browser'[t] # "none" => pc'[t] \in {"running", "closing"}
          /\ browser'[t] = "killed" => browser[t] = "killed"
          /\ kills' = kills \/ pc'[t] \in Left
        BY <1>0, <1>5 DEF KillInv, Execute, NameLog, OpenScript, OpenFails, StartBrowser, BrowserFails,
                          EndScript, CloseBrowser, CloseFails
    <2> QED BY <1>1, <2>1, <2>2
<1>6. ASSUME NEW t \in Tests, Judge(t) \/ EndTestCase(t) PROVE KillInv'
    <2>1. \A u \in Tests \ {t} : pc'[u] = pc[u]
        BY <1>6, InHand
    <2>2. UNCHANGED <<browser, kills>> /\ pc[t] \in Left /\ pc'[t] \in Left
        BY <1>0, <1>6 DEF Judge, EndTestCase, FileLog, AfterMethodSkipped, MoveSnapshots, MoveFails,
                          FindList, NewList, ReadSize, AddEntry, PutList
    <2>3. browser[t] = "none"
        BY <2>2 DEF KillInv
    <2> QED BY <1>1, <2>1, <2>2, <2>3
<1> QED BY <1>2, <1>3, <1>4, <1>5, <1>6 DEF Next, Work

-----------------------------------------------------------------------------
LEMMA OrderInvHolds == Spec => [](OrderInv /\ KillInv)
<1>1. Init => OrderInv /\ KillInv
    <2> SUFFICES ASSUME Init PROVE OrderInv /\ KillInv
        OBVIOUS
    <2>1. /\ \A t \in Tests : pc[t] = "queued" /\ cause[t] = "none" /\ verdict[t] = "none" /\ browser[t] = "none"
          /\ excelError = FALSE /\ kills = 0
        BY DEF Init
    <2>2. \A l \in Tests : slots[l] = <<>> /\ count[l] = 0
        BY DEF Init
    <2>3. ListsInOrder
        BY <2>1, <2>2 DEF ListsInOrder
    <2>4. OneByOne /\ BrokenEndsAll /\ FlagHasCause /\ SkipHasCause
        BY <2>1 DEF OneByOne, BrokenEndsAll, FlagHasCause, SkipHasCause
    <2>5. KillInv
        BY <2>1 DEF KillInv
    <2> QED BY <2>3, <2>4, <2>5 DEF OrderInv
<1>2. /\ IInv /\ RowsInOrder /\ SerialInv /\ OrderInv /\ KillInv
      /\ [Next]_vars
      => (OrderInv /\ KillInv)'
    <2> SUFFICES ASSUME IInv, RowsInOrder, SerialInv, OrderInv, KillInv, [Next]_vars
                 PROVE  OrderInv' /\ KillInv'
        OBVIOUS
    <2>1. TypeOK /\ Current /\ ReportsAreTrue
        BY DEF IInv, ReportsAreTrue
    <2>2. KillInv'
        BY <2>1, KillStep
    <2>3. ASSUME Threads = 1
          PROVE  OneByOne' /\ ListsInOrder' /\ BrokenEndsAll' /\ FlagHasCause' /\ SkipHasCause'
        <3>1. /\ OneInHand /\ FlagIsUp
              /\ OneByOne /\ ListsInOrder /\ BrokenEndsAll /\ FlagHasCause /\ SkipHasCause
            BY <2>3 DEF SerialInv, OrderInv
        <3>2. OneByOne' /\ ListsInOrder' /\ BrokenEndsAll'
            BY <2>1, <2>3, <3>1, OneByOneStep, ListsInOrderStep, BrokenEndsAllStep
        <3>3. FlagHasCause' /\ SkipHasCause'
            BY <2>1, <2>3, <3>1, FlagHasCauseStep, SkipHasCauseStep
        <3> QED BY <3>2, <3>3
    <2>4. Threads' = Threads
        BY SettingsStay DEF Threads
    <2> QED BY <2>2, <2>3, <2>4 DEF OrderInv
<1> QED BY <1>1, <1>2, DropInvHolds, SerialInvHolds, PTL DEF Spec, Safety

(***************************************************************************)
(* The report maps of endTestCase lose nothing without an overlap or an    *)
(* exception: a failed or skipped row that had its map to itself is in it  *)
(* and stays there through every later put and racing add of other rows;   *)
(* and with one worker the lists are in the order of the rows.             *)
(***************************************************************************)
THEOREM ReportWhole == Spec => []ReportIsWhole
<1>1. IInv /\ RowsInOrder /\ DropInv /\ OrderInv => ReportIsWhole
    BY NothingIsDropped DEF OrderInv, ListsInOrder, ReportIsWhole, ReportInOrder
<1> QED BY <1>1, DropInvHolds, OrderInvHolds, PTL

(***************************************************************************)
(* A SKIP has its cause in a workbook that this row, or one before it in   *)
(* the same <test>, could not open (one worker); a browser is killed under *)
(* a script only by the taskkill of another row (any number of workers).   *)
(***************************************************************************)
THEOREM CausesAreTrue == Spec => []RowsHaveCauses
<1>1. KillInv => KilledByAnother
    <2> SUFFICES ASSUME KillInv, NEW t \in Tests, browser[t] = "killed"
                 PROVE  \E u \in Tests \ {t} : pc[u] \notin
                            {"queued", "begun", "opening", "scripted", "running", "closing"}
        BY DEF KilledByAnother
    <2> QED BY DEF KillInv, Left
<1>2. OrderInv => SkipHasCause
    BY DEF OrderInv, SkipHasCause
<1> QED BY <1>1, <1>2, OrderInvHolds, PTL DEF RowsHaveCauses
=============================================================================
