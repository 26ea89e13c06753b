----------------------------- MODULE TestCaseProofs -----------------------------
(***************************************************************************)
(* What holds of everything that outlives a test case, for every set of    *)
(* test cases and every bound.                                             *)
(*                                                                         *)
(* A step is of one part only.  So each part has an inductive invariant of *)
(* its own, over its own variables, which the steps of the others keep     *)
(* because they keep the variables: WindowsInv, ExportsInv and, with one   *)
(* thread of the data provider, CoverageInv.                               *)
(***************************************************************************)
EXTENDS TestCase, FiniteSetTheorems, SequenceTheorems, TLAPS

(* What a step does to each part: a step of it, or nothing *)
LEMMA Parts ==
    ASSUME [TestCaseNext]_<<part, vars, windowvars, exportvars>>
    PROVE  /\ [Next]_vars
           /\ [W!Next]_windowvars
           /\ [E!Next]_exportvars
BY DEF TestCaseNext, CoverageNext, WindowsNext, ExportsNext

-----------------------------------------------------------------------------
(* Windows                                                                 *)

WindowsType ==
    /\ winHandleBefore \in {W!None} \cup (WindowTests \X Nat)
    /\ wpc \in [WindowTests -> {"todo", "script", "switching", "back", "finally", "backFinally", "ended"}]
    /\ windows \in [WindowTests -> SUBSET Nat]
    /\ opened \in [WindowTests -> Nat]
    /\ current \in [WindowTests -> Nat]
    /\ from \in [WindowTests -> Nat]
    /\ left \in [WindowTests -> SUBSET Nat]
    /\ keyword \in [WindowTests -> {"none", "SWITCHTOWINDOW", "NEWWINDOW"}]
    /\ result \in [WindowTests -> {"none", "ok", "failed", "lost"}]
    /\ strayed \in BOOLEAN

(* Before a keyword: there is no window to go back to, no test case is on    *)
(* its way back to one, a driver is in a window unless all are closed, and   *)
(* closeWindow leaves none.                                                  *)
Unstrayed ==
    ~strayed =>
        /\ winHandleBefore = W!None
        /\ \A t \in WindowTests :
              /\ wpc[t] \in {"todo", "script", "finally", "ended"}
              /\ result[t] # "lost"
              /\ wpc[t] \in {"script", "finally"} => current[t] \in windows[t] \/ windows[t] = {}
              /\ wpc[t] = "ended" => windows[t] = {}

WindowsInv == WindowsType /\ Unstrayed

LEMMA WindowsTypeInit ==
    ASSUME W!Init
    PROVE  WindowsType
<1>1. winHandleBefore = W!None /\ strayed = FALSE
  BY DEF W!Init
<1>2. /\ wpc \in [WindowTests -> {"todo"}] /\ keyword \in [WindowTests -> {"none"}]
      /\ result \in [WindowTests -> {"none"}]
  BY DEF W!Init
<1>3. /\ windows \in [WindowTests -> {{}}] /\ left \in [WindowTests -> {{}}]
  BY DEF W!Init
<1>4. /\ opened \in [WindowTests -> {0}] /\ current \in [WindowTests -> {0}] /\ from \in [WindowTests -> {0}]
  BY DEF W!Init
<1>5. strayed \in BOOLEAN
  BY <1>1
<1>6. windows \in [WindowTests -> SUBSET Nat] /\ left \in [WindowTests -> SUBSET Nat]
  BY <1>3
<1>7. opened \in [WindowTests -> Nat] /\ current \in [WindowTests -> Nat] /\ from \in [WindowTests -> Nat]
  BY <1>4
<1>8. /\ wpc \in [WindowTests -> {"todo", "script", "switching", "back", "finally", "backFinally", "ended"}]
      /\ keyword \in [WindowTests -> {"none", "SWITCHTOWINDOW", "NEWWINDOW"}]
      /\ result \in [WindowTests -> {"none", "ok", "failed", "lost"}]
  BY <1>2
<1> QED BY <1>1, <1>5, <1>6, <1>7, <1>8 DEF WindowsType

LEMMA WindowsTypeStep ==
    ASSUME WindowsType, [W!Next]_windowvars
    PROVE  WindowsType'
<1>1. CASE UNCHANGED windowvars
  BY <1>1 DEF WindowsType, windowvars
<1>2. ASSUME NEW t \in WindowTests, W!Begin(t) PROVE WindowsType'
  BY <1>2 DEF WindowsType, W!Begin, W!Goto, W!loop
<1>3. ASSUME NEW t \in WindowTests, W!PageOpens(t) PROVE WindowsType'
  BY <1>3 DEF WindowsType, W!PageOpens, W!loop
<1>4. ASSUME NEW t \in WindowTests, W!PageCloses(t) PROVE WindowsType'
  BY <1>4 DEF WindowsType, W!PageCloses, W!loop
<1>5. ASSUME NEW t \in WindowTests, W!StepFails(t) PROVE WindowsType'
  BY <1>5 DEF WindowsType, W!StepFails, W!Goto, W!loop
<1>6. ASSUME NEW t \in WindowTests, W!SwitchToWindow(t) PROVE WindowsType'
  <2>1. winHandleBefore' \in {W!None} \cup (WindowTests \X Nat) /\ strayed' \in BOOLEAN
    BY <1>6 DEF WindowsType, W!SwitchToWindow
  <2>2. \/ windows' = [windows EXCEPT ![t] = {}] /\ W!Goto(t, "finally")
           /\ result' = [result EXCEPT ![t] = "failed"] /\ UNCHANGED W!loop
        \/ W!BeginLoop(t, "SWITCHTOWINDOW") /\ UNCHANGED <<windows, result>>
    BY <1>6 DEF W!SwitchToWindow
  <2>3. UNCHANGED <<opened, current>>
    BY <1>6 DEF W!SwitchToWindow
  <2> QED BY <2>1, <2>2, <2>3 DEF WindowsType, W!BeginLoop, W!Goto, W!loop
<1>7. ASSUME NEW t \in WindowTests, W!NewWindow(t) PROVE WindowsType'
  <2>1. winHandleBefore' \in {W!None} \cup (WindowTests \X Nat) /\ strayed' \in BOOLEAN
    BY <1>7 DEF WindowsType, W!NewWindow
  <2>2. W!BeginLoop(t, "NEWWINDOW") /\ UNCHANGED <<current, result>>
    BY <1>7 DEF W!NewWindow
  <2>3. PICK more \in 0..2 :
            /\ opened' = [opened EXCEPT ![t] = @ + more]
            /\ windows' = [windows EXCEPT ![t] = @ \cup (opened[t] + 1)..(opened[t] + more)]
    BY <1>7 DEF W!NewWindow
  <2>4. opened' \in [WindowTests -> Nat] /\ windows' \in [WindowTests -> SUBSET Nat]
    BY <2>3 DEF WindowsType
  <2> QED BY <2>1, <2>2, <2>4 DEF WindowsType, W!BeginLoop, W!Goto
<1>8. ASSUME NEW t \in WindowTests, W!LookAt(t) PROVE WindowsType'
  BY <1>8 DEF WindowsType, W!LookAt
<1>9. ASSUME NEW t \in WindowTests, W!EndLoop(t) PROVE WindowsType'
  BY <1>9 DEF WindowsType, W!EndLoop, W!Goto, W!loop
<1>10. ASSUME NEW t \in WindowTests, W!CloseReturns(t) PROVE WindowsType'
  BY <1>10 DEF WindowsType, W!CloseReturns, W!Goto, W!Returned, W!Ended, W!loop
<1>11. ASSUME NEW t \in WindowTests, W!CloseChild(t) PROVE WindowsType'
  BY <1>11 DEF WindowsType, W!CloseChild, W!Goto, W!loop
<1>12. ASSUME NEW t \in WindowTests, W!GoBack(t) PROVE WindowsType'
  BY <1>12 DEF WindowsType, W!GoBack, W!IsOwn, W!Goto, W!Returned, W!Ended, W!loop
<1>13. ASSUME NEW t \in WindowTests, W!CannotGoBack(t) PROVE WindowsType'
  BY <1>13 DEF WindowsType, W!CannotGoBack, W!Goto, W!loop
<1>14. ASSUME NEW t \in WindowTests, W!EndScript(t) PROVE WindowsType'
  BY <1>14 DEF WindowsType, W!EndScript, W!Goto, W!loop
<1> QED
  BY <1>1, <1>2, <1>3, <1>4, <1>5, <1>6, <1>7, <1>8, <1>9, <1>10, <1>11, <1>12, <1>13, <1>14 DEF W!Next

LEMMA UnstrayedInit == W!Init => Unstrayed
BY DEF W!Init, Unstrayed

(* Only a window keyword writes the variable, and it sets strayed; a page     *)
(* that closes the window of the driver does, too.                            *)
LEMMA UnstrayedStep ==
    ASSUME WindowsType, Unstrayed, [W!Next]_windowvars
    PROVE  Unstrayed'
<1> DEFINE Good ==
    /\ winHandleBefore' = W!None
    /\ \A u \in WindowTests :
          /\ wpc'[u] \in {"todo", "script", "finally", "ended"}
          /\ result'[u] # "lost"
          /\ wpc'[u] \in {"script", "finally"} => current'[u] \in windows'[u] \/ windows'[u] = {}
          /\ wpc'[u] = "ended" => windows'[u] = {}
<1> SUFFICES ASSUME ~strayed' PROVE Good
  BY DEF Unstrayed
<1>1. CASE UNCHANGED windowvars
  BY <1>1 DEF Unstrayed, windowvars
<1>2. ASSUME NEW t \in WindowTests, W!Begin(t) PROVE Good
  BY <1>2 DEF WindowsType, Unstrayed, W!Begin, W!Goto
<1>3. ASSUME NEW t \in WindowTests, W!PageOpens(t) PROVE Good
  BY <1>3 DEF WindowsType, Unstrayed, W!PageOpens
<1>4. ASSUME NEW t \in WindowTests, W!PageCloses(t) PROVE Good
  <2>1. PICK n \in windows[t] :
            windows' = [windows EXCEPT ![t] = @ \ {n}] /\ strayed' = (strayed \/ n = current[t])
    BY <1>4 DEF W!PageCloses
  <2>2. ~strayed /\ n # current[t]
    BY <2>1 DEF WindowsType
  <2>3. UNCHANGED <<winHandleBefore, wpc, current, result>>
    BY <1>4 DEF W!PageCloses
  <2> QED BY <2>1, <2>2, <2>3 DEF WindowsType, Unstrayed
<1>5. ASSUME NEW t \in WindowTests, W!StepFails(t) PROVE Good
  BY <1>5 DEF WindowsType, Unstrayed, W!StepFails, W!Goto
<1>6. ASSUME NEW t \in WindowTests, W!SwitchToWindow(t) PROVE Good
  BY <1>6 DEF W!SwitchToWindow
<1>7. ASSUME NEW t \in WindowTests, W!NewWindow(t) PROVE Good
  BY <1>7 DEF W!NewWindow
<1>8. ASSUME NEW t \in WindowTests, W!LookAt(t) \/ W!EndLoop(t) PROVE Good
  BY <1>8 DEF Unstrayed, W!LookAt, W!EndLoop
<1>9. ASSUME NEW t \in WindowTests, W!CloseReturns(t) PROVE Good
  BY <1>9 DEF WindowsType, Unstrayed, W!CloseReturns, W!Available, W!Goto, W!Returned, W!Ended
<1>10. ASSUME NEW t \in WindowTests, W!CloseChild(t) PROVE Good
  BY <1>10 DEF Unstrayed, W!CloseChild
<1>11. ASSUME NEW t \in WindowTests, W!GoBack(t) \/ W!CannotGoBack(t) PROVE Good
  BY <1>11 DEF Unstrayed, W!GoBack, W!CannotGoBack
<1>12. ASSUME NEW t \in WindowTests, W!EndScript(t) PROVE Good
  BY <1>12 DEF WindowsType, Unstrayed, W!EndScript, W!Goto
<1> QED
  BY <1>1, <1>2, <1>3, <1>4, <1>5, <1>6, <1>7, <1>8, <1>9, <1>10, <1>11, <1>12 DEF W!Next

LEMMA WindowsInvariant == TestCaseSpec => []WindowsInv
<1>1. TestCaseInit => WindowsInv
  BY WindowsTypeInit, UnstrayedInit DEF TestCaseInit, WindowsInv
<1>2. WindowsInv /\ [TestCaseNext]_<<part, vars, windowvars, exportvars>> => WindowsInv'
  BY Parts, WindowsTypeStep, UnstrayedStep DEF WindowsInv
<1> QED BY <1>1, <1>2, PTL DEF TestCaseSpec

(***************************************************************************)
(* closeWindow (framework/Window.java) in the finally block of             *)
(* suiteExecution: in a run whose test cases use no window keyword, and    *)
(* whose pages do not close the window the driver is in, every browser is  *)
(* closed and closing it is nobody's failure, whatever else its pages and  *)
(* the other workers do.                                                   *)
(***************************************************************************)
THEOREM WindowsAreClosed == TestCaseSpec => []NothingLeftOpen
<1>1. WindowsInv => NothingLeftOpen
  BY DEF WindowsInv, Unstrayed, NothingLeftOpen, W!NothingLeftOpen
<1> QED BY <1>1, WindowsInvariant, PTL

LEMMA PassedStep ==
    ASSUME WindowsType, [W!Next]_windowvars, NEW u \in WindowTests,
           wpc[u] = "backFinally", wpc'[u] = "ended", result'[u] = "ok"
    PROVE  winHandleBefore' = W!None
<1>1. CASE UNCHANGED windowvars
  BY <1>1 DEF windowvars
<1>2. PICK t \in WindowTests :
          \/ W!Begin(t) \/ W!PageOpens(t) \/ W!PageCloses(t) \/ W!StepFails(t)
          \/ W!SwitchToWindow(t) \/ W!NewWindow(t) \/ W!LookAt(t) \/ W!EndLoop(t)
          \/ W!CloseReturns(t) \/ W!CloseChild(t) \/ W!GoBack(t) \/ W!CannotGoBack(t)
          \/ W!EndScript(t)
  BY DEF W!Next, windowvars
<1>3. CASE t # u
  BY <1>2, <1>3 DEF WindowsType, W!Begin, W!PageOpens, W!PageCloses, W!StepFails, W!SwitchToWindow,
      W!NewWindow, W!BeginLoop, W!LookAt, W!EndLoop, W!CloseReturns, W!CloseChild, W!GoBack, W!CannotGoBack,
      W!EndScript, W!Goto
<1>4. CASE t = u
  <2>1. W!GoBack(u) \/ W!CannotGoBack(u)
    BY <1>2, <1>4 DEF WindowsType, W!Begin, W!PageOpens, W!PageCloses, W!StepFails, W!SwitchToWindow,
        W!NewWindow, W!LookAt, W!EndLoop, W!CloseReturns, W!CloseChild, W!EndScript
  <2>2. ~W!CannotGoBack(u)
    BY DEF WindowsType, W!CannotGoBack
  <2> QED BY <2>1, <2>2 DEF W!GoBack
<1> QED BY <1>3, <1>4

(***************************************************************************)
(* closeWindow, on its way back to the parent window: a test case that     *)
(* passes has set winHandleBefore to null, whichever test case it was that *)
(* wrote it last.                                                          *)
(***************************************************************************)
THEOREM PassedIsNull == TestCaseSpec => PassedHandsNothingOn
<1>1. ASSUME WindowsInv, [TestCaseNext]_<<part, vars, windowvars, exportvars>>
      PROVE  [\A t \in WindowTests :
                (wpc[t] = "backFinally" /\ wpc'[t] = "ended" /\ result'[t] = "ok")
                    => winHandleBefore' = W!None]_W!vars
  BY <1>1, Parts, PassedStep DEF WindowsInv
<1>2. TestCaseSpec => [][\A t \in WindowTests :
                (wpc[t] = "backFinally" /\ wpc'[t] = "ended" /\ result'[t] = "ok")
                    => winHandleBefore' = W!None]_W!vars
  BY <1>1, WindowsInvariant, PTL DEF TestCaseSpec
<1> QED BY <1>2 DEF PassedHandsNothingOn, W!PassedHandsNothingOn

-----------------------------------------------------------------------------
(* Exports                                                                 *)

(* listFiles in whatever order gives every file *)
LEMMA ListIsWhole ==
    ASSUME NEW S, IsFiniteSet(S), S # {}, NEW list \in E!SetToSeqs(S)
    PROVE  /\ list \in Seq(S) /\ list # <<>>
           /\ \A s \in S : \E i \in 1..Len(list) : list[i] = s
<1>1. E!Cardinality(S) = Cardinality(S)
  BY DEF E!Cardinality, Cardinality
<1>2. /\ Cardinality(S) \in Nat /\ Cardinality(S) # 0
  BY FS_CardinalityType, FS_EmptySet
<1> DEFINE D == 1..Cardinality(S)
<1>3. list \in [D -> S] /\ \A i, j \in D : i # j => list[i] # list[j]
  BY <1>1 DEF E!SetToSeqs
<1>4. list \in Injection(D, S)
  BY <1>3 DEF Injection, IsInjective
<1>5. IsFiniteSet(D) /\ Cardinality(D) = Cardinality(S)
  BY <1>2, FS_Interval
<1>6. list \in Surjection(D, S)
  BY <1>4, <1>5, FS_Injection
<1>7. list \in Seq(S) /\ Len(list) = Cardinality(S)
  BY <1>2, <1>3
<1>8. list # <<>>
  BY <1>2, <1>7
<1> QED BY <1>6, <1>7, <1>8 DEF Surjection

FileNames == (ExportTests \cup {"old"}) \X Nat \X {"part", "book"}

ExportsType ==
    /\ setup \in ExportSetups
    /\ epc \in [ExportTests -> {"todo", "script", "clicked", "scan", "wait", "move", "ended", "failed"}]
    /\ done \in [ExportTests -> Nat]
    /\ DOMAIN downloads \in SUBSET FileNames /\ IsFiniteSet(DOMAIN downloads)
    /\ downloads \in [DOMAIN downloads -> [time : Nat, size : Nat]]
    /\ clock \in Nat
    /\ \A f \in DOMAIN downloads : downloads[f].time <= clock
    /\ excels \in [DOMAIN excels -> FileNames]
    /\ listing \in [ExportTests -> Seq(FileNames)]
    /\ lastModifiedFile \in [ExportTests -> FileNames \cup {NoFile}]
    /\ disturbed \in BOOLEAN

LEMMA ExportsTypeInit ==
    ASSUME E!Init
    PROVE  ExportsType
<1>1. setup \in ExportSetups /\ setup.old \in Seq(Nat)
  BY ExportsAssumption DEF E!Init
<1> DEFINE Old == {<<"old", n, "book">> : n \in DOMAIN setup.old}
<1>2. downloads = [f \in Old |-> [time |-> f[2], size |-> setup.old[f[2]]]]
  BY DEF E!Init
<1>3. DOMAIN setup.old = 1..Len(setup.old) /\ Len(setup.old) \in Nat
  BY <1>1
<1>4. IsFiniteSet(DOMAIN setup.old)
  BY <1>3, FS_Interval
<1>5. IsFiniteSet(Old)
  <2> DEFINE name == [n \in DOMAIN setup.old |-> <<"old", n, "book">>]
  <2>1. name \in Surjection(DOMAIN setup.old, Old)
    BY DEF Surjection
  <2> QED BY <1>4, <2>1, FS_Surjection
<1>6. Old \subseteq FileNames
  BY <1>3 DEF FileNames
<1>7. \A f \in Old : f[2] \in 1..Len(setup.old) /\ setup.old[f[2]] \in Nat
  BY <1>1, <1>3
<1>8. DOMAIN downloads = Old
  BY <1>2
<1>9. downloads \in [DOMAIN downloads -> [time : Nat, size : Nat]]
  BY <1>2, <1>7, <1>8
<1>10. clock \in Nat /\ \A f \in DOMAIN downloads : downloads[f].time <= clock
  <2>1. clock = Len(setup.old)
    BY DEF E!Init
  <2> QED BY <2>1, <1>2, <1>3, <1>7, <1>8
<1>11. excels \in [DOMAIN excels -> FileNames]
  BY DEF E!Init
<1>12. /\ epc \in [ExportTests -> {"todo", "script", "clicked", "scan", "wait", "move", "ended", "failed"}]
       /\ done \in [ExportTests -> Nat]
  BY DEF E!Init
<1>13. listing \in [ExportTests -> Seq(FileNames)]
  BY DEF E!Init
<1>14. lastModifiedFile \in [ExportTests -> FileNames \cup {NoFile}]
  BY DEF E!Init
<1>15. disturbed \in BOOLEAN
  BY DEF E!Init
<1> QED BY <1>1, <1>5, <1>6, <1>8, <1>9, <1>10, <1>11, <1>12, <1>13, <1>14, <1>15 DEF ExportsType

(* Adding and taking away a file *)
LEMMA DirectoryWith ==
    ASSUME NEW dir, dir \in [DOMAIN dir -> [time : Nat, size : Nat]], DOMAIN dir \in SUBSET FileNames, IsFiniteSet(DOMAIN dir),
           NEW f \in FileNames, NEW x \in Nat, NEW y \in Nat
    PROVE  /\ DOMAIN E!With(dir, f, x, y) = DOMAIN dir \cup {f}
           /\ DOMAIN E!With(dir, f, x, y) \in SUBSET FileNames /\ IsFiniteSet(DOMAIN E!With(dir, f, x, y))
           /\ E!With(dir, f, x, y) \in [DOMAIN E!With(dir, f, x, y) -> [time : Nat, size : Nat]]
<1> DEFINE new == E!With(dir, f, x, y)
<1>1. DOMAIN new = DOMAIN dir \cup {f}
  BY DEF E!With
<1>2. IsFiniteSet(DOMAIN new)
  BY <1>1, FS_AddElement
<1>3. new[f] = [time |-> x, size |-> y] /\ \A g \in DOMAIN dir \ {f} : new[g] = dir[g]
  BY DEF E!With
<1>4. new = [g \in DOMAIN new |-> new[g]]
  BY DEF E!With
<1>5. new \in [DOMAIN new -> [time : Nat, size : Nat]]
  BY <1>1, <1>3, <1>4
<1> QED BY <1>1, <1>2, <1>3, <1>5

LEMMA DirectoryWithout ==
    ASSUME NEW dir, dir \in [DOMAIN dir -> [time : Nat, size : Nat]], DOMAIN dir \in SUBSET FileNames, IsFiniteSet(DOMAIN dir),
           NEW f
    PROVE  /\ DOMAIN E!Without(dir, f) = DOMAIN dir \ {f}
           /\ DOMAIN E!Without(dir, f) \in SUBSET FileNames /\ IsFiniteSet(DOMAIN E!Without(dir, f))
           /\ E!Without(dir, f) \in [DOMAIN E!Without(dir, f) -> [time : Nat, size : Nat]]
<1> DEFINE new == E!Without(dir, f)
<1>1. DOMAIN new = DOMAIN dir \ {f}
  BY DEF E!Without
<1>2. IsFiniteSet(DOMAIN new)
  BY <1>1, FS_RemoveElement
<1>3. \A g \in DOMAIN dir \ {f} : new[g] = dir[g]
  BY DEF E!Without
<1>4. new = [g \in DOMAIN new |-> new[g]]
  BY DEF E!Without
<1>5. new \in [DOMAIN new -> [time : Nat, size : Nat]]
  BY <1>1, <1>3, <1>4
<1> QED BY <1>1, <1>2, <1>3, <1>5

LEMMA NamesOfDownloads ==
    ASSUME NEW t \in ExportTests, NEW n \in Nat
    PROVE  E!Part(t, n) \in FileNames /\ E!Whole(t, n) \in FileNames
BY DEF FileNames, E!Part, E!Whole

(* The three steps of a download *)
LEMMA DownloadTypes ==
    ASSUME ExportsType, NEW t \in ExportTests, NEW n \in 1..done[t],
           E!DownloadBegins(t, n) \/ E!DownloadGrows(t, n) \/ E!DownloadEnds(t, n)
    PROVE  /\ n \in Nat
           /\ DOMAIN downloads' \in SUBSET FileNames /\ IsFiniteSet(DOMAIN downloads')
           /\ downloads' \in [DOMAIN downloads' -> [time : Nat, size : Nat]]
           /\ clock' \in Nat
           /\ \A f \in DOMAIN downloads' : downloads'[f].time <= clock'
<1>1. n \in Nat
  BY DEF ExportsType
<1> DEFINE mine == E!Part(t, n)  whole == E!Whole(t, n)
<1>2. mine \in FileNames /\ whole \in FileNames
  BY <1>1, NamesOfDownloads
<1>3. /\ DOMAIN downloads \in SUBSET FileNames /\ IsFiniteSet(DOMAIN downloads)
      /\ downloads \in [DOMAIN downloads -> [time : Nat, size : Nat]]
      /\ clock \in Nat /\ clock + 1 \in Nat
      /\ \A f \in DOMAIN downloads : downloads[f].time <= clock
  BY DEF ExportsType
<1>4. ASSUME NEW s \in {0, 1}, clock' = clock + 1, downloads' = E!With(downloads, mine, clock', s)
      PROVE  /\ DOMAIN downloads' \in SUBSET FileNames /\ IsFiniteSet(DOMAIN downloads')
             /\ downloads' \in [DOMAIN downloads' -> [time : Nat, size : Nat]]
             /\ clock' \in Nat
             /\ \A f \in DOMAIN downloads' : downloads'[f].time <= clock'
  <2> DEFINE new == E!With(downloads, mine, clock + 1, s)
  <2>1. /\ DOMAIN new = DOMAIN downloads \cup {mine}
        /\ DOMAIN new \in SUBSET FileNames /\ IsFiniteSet(DOMAIN new)
        /\ new \in [DOMAIN new -> [time : Nat, size : Nat]]
        /\ new[mine] = [time |-> clock + 1, size |-> s]
        /\ \A g \in DOMAIN downloads \ {mine} : new[g] = downloads[g]
    <3>1. s \in Nat
      OBVIOUS
    <3>2. /\ new[mine] = [time |-> clock + 1, size |-> s]
          /\ \A g \in DOMAIN downloads \ {mine} : new[g] = downloads[g]
      BY DEF E!With
    <3> QED BY <1>2, <1>3, <3>1, <3>2, DirectoryWith
  <2>2. downloads' = new
    BY <1>4
  <2> HIDE DEF new
  <2>3. \A f \in DOMAIN new : new[f].time <= clock + 1
    <3> TAKE f \in DOMAIN new
    <3>1. CASE f = mine
      BY <1>3, <2>1, <3>1
    <3>2. CASE f # mine
      <4>1. f \in DOMAIN downloads /\ new[f] = downloads[f]
        BY <2>1, <3>2
      <4>2. downloads[f].time \in Nat
        BY <1>3, <4>1
      <4> QED BY <1>3, <4>1, <4>2
    <3> QED BY <3>1, <3>2
  <2> QED BY <1>3, <1>4, <2>1, <2>2, <2>3
<1>5. CASE E!DownloadBegins(t, n)
  BY <1>1, <1>4, <1>5 DEF E!DownloadBegins
<1>6. CASE E!DownloadGrows(t, n)
  BY <1>1, <1>4, <1>6 DEF E!DownloadGrows
<1>7. CASE E!DownloadEnds(t, n)
  <2> DEFINE old == E!Without(downloads, mine)
             time == downloads[mine].time
             new == E!With(old, whole, time, 1)
  <2>1. mine \in DOMAIN downloads /\ downloads' = new /\ clock' = clock
    BY <1>7 DEF E!DownloadEnds
  <2>2. time \in Nat /\ time <= clock
    BY <1>3, <2>1
  <2>3. /\ DOMAIN old = DOMAIN downloads \ {mine}
        /\ DOMAIN old \in SUBSET FileNames /\ IsFiniteSet(DOMAIN old)
        /\ old \in [DOMAIN old -> [time : Nat, size : Nat]]
        /\ \A g \in DOMAIN downloads \ {mine} : old[g] = downloads[g]
    <3>1. \A g \in DOMAIN downloads \ {mine} : old[g] = downloads[g]
      BY DEF E!Without
    <3> QED BY <1>3, <3>1, DirectoryWithout
  <2> HIDE DEF old, time
  <2>4. /\ DOMAIN new = DOMAIN old \cup {whole}
        /\ DOMAIN new \in SUBSET FileNames /\ IsFiniteSet(DOMAIN new)
        /\ new \in [DOMAIN new -> [time : Nat, size : Nat]]
        /\ new[whole] = [time |-> time, size |-> 1]
        /\ \A g \in DOMAIN old \ {whole} : new[g] = old[g]
    <3>1. 1 \in Nat
      OBVIOUS
    <3>2. /\ new[whole] = [time |-> time, size |-> 1]
          /\ \A g \in DOMAIN old \ {whole} : new[g] = old[g]
      BY DEF E!With
    <3>3. /\ DOMAIN new = DOMAIN old \cup {whole}
          /\ DOMAIN new \in SUBSET FileNames /\ IsFiniteSet(DOMAIN new)
      <4>1. DOMAIN new = DOMAIN old \cup {whole}
        BY DEF E!With
      <4>2. IsFiniteSet(DOMAIN new)
        BY <2>3, <4>1, FS_AddElement
      <4> QED BY <1>2, <2>3, <4>1, <4>2
    <3>4. new \in [DOMAIN new -> [time : Nat, size : Nat]]
      <4>1. new = [g \in DOMAIN new |-> new[g]]
        BY DEF E!With
      <4>2. \A g \in DOMAIN new : new[g] \in [time : Nat, size : Nat]
        BY <2>2, <2>3, <3>1, <3>2, <3>3
      <4> HIDE DEF new
      <4> QED BY <4>1, <4>2
    <3> QED BY <3>2, <3>3, <3>4
  <2> HIDE DEF new
  <2>5. \A f \in DOMAIN new : new[f].time <= clock
    BY <1>3, <2>2, <2>3, <2>4
  <2> QED BY <1>1, <1>3, <2>1, <2>4, <2>5
<1> QED BY <1>5, <1>6, <1>7

LEMMA ExportsTypeStep ==
    ASSUME ExportsType, [E!Next]_exportvars
    PROVE  ExportsType'
<1>1. CASE UNCHANGED exportvars
  BY <1>1 DEF ExportsType, exportvars
<1>2. ASSUME NEW t \in ExportTests, NEW n \in 1..done[t],
             E!DownloadBegins(t, n) \/ E!DownloadGrows(t, n) \/ E!DownloadEnds(t, n)
      PROVE  ExportsType'
  <2>1. UNCHANGED <<setup, epc, done, excels, listing, lastModifiedFile, disturbed>>
    BY <1>2 DEF E!DownloadBegins, E!DownloadGrows, E!DownloadEnds, E!locals
  <2> QED BY <1>2, <2>1, DownloadTypes DEF ExportsType
<1>3. ASSUME NEW t \in ExportTests, E!Begin(t) PROVE ExportsType'
  BY <1>3 DEF ExportsType, E!Begin, E!Goto, E!locals
<1>4. ASSUME NEW t \in ExportTests, E!Click(t) PROVE ExportsType'
  <2>1. disturbed' \in BOOLEAN
    BY <1>4 DEF ExportsType, E!Click
  <2> QED BY <1>4, <2>1 DEF ExportsType, E!Click, E!Goto, E!locals
<1>5. ASSUME NEW t \in ExportTests, E!List(t) PROVE ExportsType'
  <2>1. disturbed' \in BOOLEAN /\ UNCHANGED <<setup, done, downloads, clock, excels>>
    BY <1>5 DEF ExportsType, E!List
  <2>2. CASE downloads = <<>>
    BY <1>5, <2>1, <2>2 DEF ExportsType, E!List, E!Goto, E!locals
  <2>3. CASE downloads # <<>>
    <3>1. PICK list \in E!SetToSeqs(DOMAIN downloads) :
              /\ listing' = [listing EXCEPT ![t] = Tail(list)]
              /\ lastModifiedFile' = [lastModifiedFile EXCEPT ![t] = list[1]]
              /\ E!Goto(t, "scan")
      BY <1>5, <2>3 DEF E!List
    <3>2. DOMAIN downloads # {}
      <4> SUFFICES ASSUME DOMAIN downloads = {} PROVE FALSE
        OBVIOUS
      <4>1. downloads \in [{} -> [time : Nat, size : Nat]]
        BY DEF ExportsType
      <4>2. <<>> \in [{} -> [time : Nat, size : Nat]]
        OBVIOUS
      <4>3. \A f, g \in [{} -> [time : Nat, size : Nat]] : f = g
        OBVIOUS
      <4> QED BY <2>3, <4>1, <4>2, <4>3
    <3>3. list \in Seq(DOMAIN downloads) /\ list # <<>>
      BY <3>2, ListIsWhole DEF ExportsType
    <3>4. Tail(list) \in Seq(DOMAIN downloads) /\ list[1] \in DOMAIN downloads
      BY <3>3
    <3>5. Tail(list) \in Seq(FileNames) /\ list[1] \in FileNames
      BY <3>4 DEF ExportsType
    <3> QED BY <2>1, <3>1, <3>5 DEF ExportsType, E!Goto
  <2> QED BY <2>2, <2>3
<1>6. ASSUME NEW t \in ExportTests, E!Scan(t) PROVE ExportsType'
  <2>1. UNCHANGED <<setup, done, downloads, clock, excels, disturbed>>
    BY <1>6 DEF E!Scan
  <2>2. CASE listing[t] = <<>>
    BY <1>6, <2>1, <2>2 DEF ExportsType, E!Scan, E!Goto, E!locals
  <2>3. CASE listing[t] # <<>>
    <3>1. listing[t] \in Seq(FileNames)
      BY DEF ExportsType
    <3>2. Tail(listing[t]) \in Seq(FileNames) /\ Head(listing[t]) \in FileNames
      BY <2>3, <3>1
    <3>3. E!Newer(lastModifiedFile[t], Head(listing[t])) \in FileNames \cup {NoFile}
      BY <3>2 DEF E!Newer, ExportsType
    <3>4. /\ lastModifiedFile' = [lastModifiedFile EXCEPT ![t] = E!Newer(@, Head(listing[t]))]
          /\ listing' = [listing EXCEPT ![t] = Tail(@)]
          /\ E!Goto(t, "wait")
      BY <1>6, <2>3 DEF E!Scan
    <3> QED BY <2>1, <3>2, <3>3, <3>4 DEF ExportsType, E!Goto
  <2> QED BY <2>2, <2>3
<1>7. ASSUME NEW t \in ExportTests, E!Wait(t) PROVE ExportsType'
  BY <1>7 DEF ExportsType, E!Wait, E!Goto, E!locals
<1>8. ASSUME NEW t \in ExportTests, E!Move(t) PROVE ExportsType'
  <2> DEFINE f == lastModifiedFile[t]
             old == E!Without(downloads, f)
  <2>1. /\ UNCHANGED <<setup, done, clock, listing, disturbed>>
        /\ lastModifiedFile' = [lastModifiedFile EXCEPT ![t] = NoFile]
        /\ E!Goto(t, "script")
    BY <1>8 DEF E!Move
  <2>2. CASE UNCHANGED <<excels, downloads>>
    BY <2>1, <2>2 DEF ExportsType, E!Goto
  <2>3. CASE /\ f \in DOMAIN downloads
             /\ excels' = [p \in DOMAIN excels \cup {E!Path(t)} |-> IF p = E!Path(t) THEN f ELSE excels[p]]
             /\ downloads' = old
    <3>1. /\ DOMAIN old = DOMAIN downloads \ {f}
          /\ DOMAIN old \in SUBSET FileNames /\ IsFiniteSet(DOMAIN old)
          /\ old \in [DOMAIN old -> [time : Nat, size : Nat]]
      BY DirectoryWithout DEF ExportsType
    <3>2. \A g \in DOMAIN downloads \ {f} : old[g] = downloads[g]
      BY DEF E!Without
    <3>3. f \in FileNames
      BY <2>3 DEF ExportsType
    <3>4. excels' \in [DOMAIN excels' -> FileNames]
      BY <2>3, <3>3 DEF ExportsType
    <3> HIDE DEF old, f
    <3> QED BY <2>1, <2>3, <3>1, <3>2, <3>4 DEF ExportsType, E!Goto
  <2> QED BY <1>8, <2>2, <2>3 DEF E!Move
<1>9. ASSUME NEW t \in ExportTests, E!End(t) PROVE ExportsType'
  BY <1>9 DEF ExportsType, E!End, E!Goto, E!locals
<1> QED
  BY <1>1, <1>2, <1>3, <1>4, <1>5, <1>6, <1>7, <1>8, <1>9 DEF E!Next, E!Browser, E!Worker

LEMMA NamesDiffer ==
    ASSUME NEW t, NEW n, NEW u, NEW m
    PROVE  /\ E!Part(t, n) # E!Whole(u, m)
           /\ E!Part(t, n) = E!Part(u, m) => t = u /\ n = m
           /\ E!Whole(t, n) = E!Whole(u, m) => t = u /\ n = m
BY DEF E!Part, E!Whole

(* What a step of a browser does to the directory *)
LEMMA DownloadFiles ==
    ASSUME ExportsType, NEW t \in ExportTests, NEW n \in 1..done[t],
           E!DownloadBegins(t, n) \/ E!DownloadGrows(t, n) \/ E!DownloadEnds(t, n)
    PROVE  /\ UNCHANGED <<setup, epc, done, excels, listing, lastModifiedFile, disturbed>>
           /\ \/ DOMAIN downloads' = DOMAIN downloads \cup {E!Part(t, n)} /\ ~E!Begun(t, n)
              \/ DOMAIN downloads' = DOMAIN downloads /\ E!Part(t, n) \in DOMAIN downloads
              \/ DOMAIN downloads' = (DOMAIN downloads \ {E!Part(t, n)}) \cup {E!Whole(t, n)}
                 /\ E!Part(t, n) \in DOMAIN downloads
           /\ \A g \in DOMAIN downloads' \ {E!Part(t, n), E!Whole(t, n)} : downloads'[g] = downloads[g]
<1>1. UNCHANGED <<setup, epc, done, excels, listing, lastModifiedFile, disturbed>>
  BY DEF E!DownloadBegins, E!DownloadGrows, E!DownloadEnds, E!locals
<1>2. CASE E!DownloadBegins(t, n)
  BY <1>1, <1>2 DEF E!DownloadBegins, E!With
<1>3. CASE E!DownloadGrows(t, n)
  BY <1>1, <1>3 DEF E!DownloadGrows, E!With
<1>4. CASE E!DownloadEnds(t, n)
  BY <1>1, <1>4 DEF E!DownloadEnds, E!With, E!Without
<1> QED BY <1>2, <1>3, <1>4

(* What renameTo does to the two directories *)
LEMMA MovedFile ==
    ASSUME ExportsType, NEW t \in ExportTests, E!Move(t)
    PROVE  LET f == lastModifiedFile[t] IN
           /\ epc[t] = "move"
           /\ epc' = [epc EXCEPT ![t] = "script"]
           /\ UNCHANGED <<setup, done, clock, listing, disturbed>>
           /\ \/ /\ f \in DOMAIN downloads /\ E!Path(t) \notin DOMAIN excels
                 /\ DOMAIN excels' = DOMAIN excels \cup {E!Path(t)}
                 /\ excels'[E!Path(t)] = f
                 /\ \A p \in DOMAIN excels : excels'[p] = excels[p]
                 /\ DOMAIN downloads' = DOMAIN downloads \ {f}
              \/ /\ UNCHANGED <<excels, downloads>>
                 /\ f \notin DOMAIN downloads \/ E!Path(t) \in DOMAIN excels \/ f[3] = "part"
BY DEF ExportsType, E!Move, E!Without, E!Goto

(* No file is in both directories or at two paths, and a download is one file *)
FilesOnce ==
    /\ \A p, q \in DOMAIN excels : excels[p] = excels[q] => p = q
    /\ \A p \in DOMAIN excels : excels[p] \notin DOMAIN downloads
    /\ \A t \in ExportTests, n \in Nat :
          E!Part(t, n) \in DOMAIN downloads =>
              E!Whole(t, n) \notin DOMAIN downloads /\ \A p \in DOMAIN excels : excels[p] # E!Whole(t, n)
    /\ \A t \in ExportTests, n \in Nat : n > done[t] => ~E!Begun(t, n)

LEMMA FilesOnceInit ==
    ASSUME E!Init
    PROVE  FilesOnce
<1>1. DOMAIN excels = {}
  BY DEF E!Init
<1>2. \A f \in DOMAIN downloads : f[1] = "old"
  BY DEF E!Init
<1>3. \A t \in ExportTests, n \in Nat : E!Part(t, n) \notin DOMAIN downloads /\ E!Whole(t, n) \notin DOMAIN downloads
  BY <1>2, ExportsAssumption DEF E!Part, E!Whole
<1> QED BY <1>1, <1>3 DEF FilesOnce, E!Begun

LEMMA FilesOnceStep ==
    ASSUME ExportsType, FilesOnce, [E!Next]_exportvars
    PROVE  FilesOnce'
<1>1. CASE UNCHANGED <<done, downloads, excels>>
  BY <1>1 DEF FilesOnce, E!Begun
<1>2. ASSUME NEW t \in ExportTests, NEW n \in 1..done[t],
             E!DownloadBegins(t, n) \/ E!DownloadGrows(t, n) \/ E!DownloadEnds(t, n)
      PROVE  FilesOnce'
  <2>1. /\ UNCHANGED <<done, excels>>
        /\ \/ DOMAIN downloads' = DOMAIN downloads \cup {E!Part(t, n)} /\ ~E!Begun(t, n)
           \/ DOMAIN downloads' = DOMAIN downloads /\ E!Part(t, n) \in DOMAIN downloads
           \/ DOMAIN downloads' = (DOMAIN downloads \ {E!Part(t, n)}) \cup {E!Whole(t, n)}
              /\ E!Part(t, n) \in DOMAIN downloads
    BY <1>2, DownloadFiles
  <2>2. n \in Nat /\ ~(n > done[t])
    BY DEF ExportsType
  <2>3. \A p \in DOMAIN excels' : excels'[p] \notin DOMAIN downloads'
    BY <2>1, <2>2 DEF FilesOnce, E!Begun
  <2>4. \A u \in ExportTests, m \in Nat :
          E!Part(u, m) \in DOMAIN downloads' =>
              E!Whole(u, m) \notin DOMAIN downloads' /\ \A p \in DOMAIN excels' : excels'[p] # E!Whole(u, m)
    BY <2>1, <2>2, NamesDiffer DEF FilesOnce, E!Begun
  <2>5. \A u \in ExportTests, m \in Nat : m > done'[u] => ~E!Begun(u, m)'
    BY <2>1, <2>2, NamesDiffer DEF FilesOnce, E!Begun
  <2> QED BY <2>1, <2>3, <2>4, <2>5 DEF FilesOnce
<1>3. ASSUME NEW t \in ExportTests, E!Click(t) PROVE FilesOnce'
  <2>1. UNCHANGED <<downloads, excels>> /\ \A u \in ExportTests : done'[u] >= done[u]
    BY <1>3 DEF E!Click, ExportsType, E!locals
  <2>2. \A u \in ExportTests : done[u] \in Nat /\ done'[u] \in Nat
    BY <1>3 DEF E!Click, ExportsType
  <2> QED BY <2>1, <2>2 DEF FilesOnce, E!Begun
<1>4. ASSUME NEW t \in ExportTests, E!Move(t) PROVE FilesOnce'
  <2> DEFINE f == lastModifiedFile[t]
  <2>1. CASE UNCHANGED <<done, downloads, excels>>
    BY <1>1, <2>1
  <2>2. CASE /\ f \in DOMAIN downloads /\ E!Path(t) \notin DOMAIN excels
             /\ DOMAIN excels' = DOMAIN excels \cup {E!Path(t)}
             /\ excels'[E!Path(t)] = f
             /\ \A p \in DOMAIN excels : excels'[p] = excels[p]
             /\ DOMAIN downloads' = DOMAIN downloads \ {f}
             /\ UNCHANGED done
    <3> HIDE DEF f
    <3>1. \A p, q \in DOMAIN excels' : excels'[p] = excels'[q] => p = q
      BY <2>2 DEF FilesOnce
    <3>2. \A p \in DOMAIN excels' : excels'[p] \notin DOMAIN downloads'
      BY <2>2 DEF FilesOnce
    <3>3. \A u \in ExportTests, m \in Nat :
            E!Part(u, m) \in DOMAIN downloads' =>
                E!Whole(u, m) \notin DOMAIN downloads' /\ \A p \in DOMAIN excels' : excels'[p] # E!Whole(u, m)
      BY <2>2 DEF FilesOnce
    <3>4. \A u \in ExportTests, m \in Nat : m > done'[u] => ~E!Begun(u, m)'
      BY <2>2 DEF FilesOnce, E!Begun
    <3> QED BY <3>1, <3>2, <3>3, <3>4 DEF FilesOnce
  <2> QED BY <1>4, <2>1, <2>2, MovedFile
<1> QED
  BY <1>1, <1>2, <1>3, <1>4 DEF E!Next, E!Browser, E!Worker, E!Begin, E!List, E!Scan, E!Wait, E!End, exportvars

(* The export keyword n of test case t is over *)
Over(t, n) == n \in 1..done[t] /\ (epc[t] \in E!InExport => n < done[t])

(* Its workbook is there, or filed, and will not be written again *)
Settled(t, n) ==
    /\ E!Part(t, n) \notin DOMAIN downloads
    /\ E!Whole(t, n) \in DOMAIN downloads \/ \E p \in DOMAIN excels : excels[p] = E!Whole(t, n)

PathOf(t, n) == IF setup.steps THEN <<t, n>> ELSE <<t, 0>>

Latest(f) ==
    /\ downloads[f].time > 0
    /\ \A g \in DOMAIN downloads \ {f} : downloads[g].time < downloads[f].time

Own(t) == E!Whole(t, done[t])

OneExports == \A t, u \in ExportTests : epc[t] \in E!InExport /\ epc[u] \in E!InExport => t = u

OthersSettled ==
    \A t \in ExportTests, n \in Nat : Over(t, n) => Settled(t, n) /\ PathOf(t, n) \in DOMAIN excels

OwnIsLatest ==
    \A t \in ExportTests : epc[t] \in E!InExport =>
        /\ done[t] >= 1
        /\ \A f \in {E!Part(t, done[t]), Own(t)} \cap DOMAIN downloads : Latest(f)

(* The loop over the listing has the own workbook, or has it before it *)
OwnIsFound ==
    \A t \in ExportTests : epc[t] \in {"scan", "wait", "move"} =>
        /\ Own(t) \in DOMAIN downloads
        /\ lastModifiedFile[t] = Own(t)
           \/ (epc[t] # "move" /\ \E i \in 1..Len(listing[t]) : listing[t][i] = Own(t))

FiledIsOwn ==
    \A t \in ExportTests : \A p \in DOMAIN excels : p[1] = t =>
        excels[p] = <<t, IF setup.steps THEN p[2] ELSE 1, "book">>

(* As long as nothing has disturbed an export *)
Undisturbed ==
    ~disturbed => OneExports /\ OthersSettled /\ OwnIsLatest /\ OwnIsFound /\ FiledIsOwn

LEMMA UndisturbedInit ==
    ASSUME E!Init
    PROVE  Undisturbed
<1>1. /\ \A t \in ExportTests : epc[t] = "todo" /\ done[t] = 0
      /\ DOMAIN excels = {}
  BY DEF E!Init
<1> QED
  BY <1>1 DEF Undisturbed, OneExports, OthersSettled, OwnIsLatest, OwnIsFound, FiledIsOwn, Over, E!InExport

(* Only the workbook of the one export that has been clicked for is being written *)
LEMMA OwnDownload ==
    ASSUME ExportsType, FilesOnce, Undisturbed, ~disturbed, NEW t \in ExportTests, NEW n \in 1..done[t],
           E!DownloadBegins(t, n) \/ E!DownloadGrows(t, n) \/ E!DownloadEnds(t, n)
    PROVE  epc[t] = "clicked" /\ n = done[t]
<1>1. n \in Nat
  BY DEF ExportsType
<1>2. ~E!Begun(t, n) \/ E!Part(t, n) \in DOMAIN downloads
  BY DownloadFiles
<1>3. ~Settled(t, n)
  BY <1>2 DEF Settled, E!Begun
<1>4. ~Over(t, n)
  BY <1>1, <1>3 DEF Undisturbed, OthersSettled
<1>5. epc[t] \in E!InExport /\ n = done[t]
  BY <1>1, <1>4 DEF Over, ExportsType
<1>6. epc[t] \notin {"scan", "wait", "move"}
  <2> SUFFICES ASSUME epc[t] \in {"scan", "wait", "move"} PROVE FALSE
    OBVIOUS
  <2>1. E!Whole(t, n) \in DOMAIN downloads
    BY <1>5 DEF Undisturbed, OwnIsFound, Own
  <2>2. E!Part(t, n) \notin DOMAIN downloads
    BY <1>1, <2>1 DEF FilesOnce
  <2> QED BY <1>2, <2>1, <2>2 DEF E!Begun
<1> QED BY <1>5, <1>6 DEF E!InExport

LEMMA DownloadTimes ==
    ASSUME ExportsType, NEW t \in ExportTests, NEW n \in 1..done[t],
           E!DownloadBegins(t, n) \/ E!DownloadGrows(t, n) \/ E!DownloadEnds(t, n)
    PROVE  \/ E!Part(t, n) \in DOMAIN downloads' /\ downloads'[E!Part(t, n)].time = clock + 1
           \/ E!Part(t, n) \notin DOMAIN downloads' /\ downloads'[E!Whole(t, n)].time = downloads[E!Part(t, n)].time
<1>1. CASE E!DownloadBegins(t, n) \/ E!DownloadGrows(t, n)
  BY <1>1 DEF E!DownloadBegins, E!DownloadGrows, E!With
<1>2. CASE E!DownloadEnds(t, n)
  BY <1>2, NamesDiffer DEF E!DownloadEnds, E!With, E!Without
<1> QED BY <1>1, <1>2

LEMMA UndisturbedDownload ==
    ASSUME ExportsType, FilesOnce, Undisturbed, NEW t \in ExportTests, NEW n \in 1..done[t],
           E!DownloadBegins(t, n) \/ E!DownloadGrows(t, n) \/ E!DownloadEnds(t, n)
    PROVE  Undisturbed'
<1> SUFFICES ASSUME ~disturbed'
             PROVE  (OneExports /\ OthersSettled /\ OwnIsLatest /\ OwnIsFound /\ FiledIsOwn)'
  BY DEF Undisturbed
<1> DEFINE mine == E!Part(t, n)  whole == E!Whole(t, n)
<1>1. /\ UNCHANGED <<setup, epc, done, excels, listing, lastModifiedFile, disturbed>>
      /\ \/ DOMAIN downloads' = DOMAIN downloads \cup {mine} /\ ~E!Begun(t, n)
         \/ DOMAIN downloads' = DOMAIN downloads /\ mine \in DOMAIN downloads
         \/ DOMAIN downloads' = (DOMAIN downloads \ {mine}) \cup {whole} /\ mine \in DOMAIN downloads
      /\ \A g \in DOMAIN downloads' \ {mine, whole} : downloads'[g] = downloads[g]
  BY DownloadFiles
<1>2. ~disturbed /\ n \in Nat /\ n >= 1
  BY <1>1 DEF ExportsType
<1>3. epc[t] = "clicked" /\ n = done[t]
  BY <1>2, OwnDownload
<1>4. OneExports /\ OthersSettled /\ OwnIsLatest /\ OwnIsFound /\ FiledIsOwn
  BY <1>2 DEF Undisturbed
<1>5. OneExports' /\ FiledIsOwn'
  BY <1>1, <1>4 DEF OneExports, FiledIsOwn
<1>6. OthersSettled'
  <2> SUFFICES ASSUME NEW u \in ExportTests, NEW m \in Nat, Over(u, m)' PROVE (Settled(u, m) /\ PathOf(u, m) \in DOMAIN excels)'
    BY DEF OthersSettled
  <2>1. Over(u, m)
    BY <1>1 DEF Over
  <2>2. Settled(u, m) /\ PathOf(u, m) \in DOMAIN excels
    BY <1>4, <2>1 DEF OthersSettled
  <2>3. u # t \/ m # n
    BY <1>3, <2>1 DEF Over, E!InExport, ExportsType
  <2> QED BY <1>1, <2>2, <2>3, NamesDiffer DEF Settled, PathOf
<1>7. OwnIsFound'
  <2> SUFFICES ASSUME NEW u \in ExportTests, epc[u] \in {"scan", "wait", "move"} PROVE FALSE
    BY <1>1 DEF OwnIsFound
  <2>1. u = t
    BY <1>3, <1>4 DEF OneExports, E!InExport
  <2> QED BY <1>3, <2>1
<1>8. OwnIsLatest'
  <2> SUFFICES ASSUME NEW u \in ExportTests, epc[u] \in E!InExport,
                      NEW f \in {E!Part(u, done[u]), Own(u)}, f \in DOMAIN downloads'
               PROVE  Latest(f)'
    BY <1>1, <1>4 DEF OwnIsLatest, Own
  <2>1. u = t
    BY <1>3, <1>4 DEF OneExports, E!InExport
  <2>2. f = mine \/ f = whole
    BY <1>3, <2>1 DEF Own
  <2>3. mine # whole
    BY NamesDiffer
  <2>4. whole \notin DOMAIN downloads \/ mine \notin DOMAIN downloads
    BY <1>2 DEF FilesOnce
  <2>5. clock \in Nat /\ \A g \in DOMAIN downloads : downloads[g].time \in Nat /\ downloads[g].time <= clock
    BY DEF ExportsType
  <2>6. \/ mine \in DOMAIN downloads' /\ downloads'[mine].time = clock + 1
        \/ mine \notin DOMAIN downloads' /\ downloads'[whole].time = downloads[mine].time
    BY DownloadTimes
  <2>7. CASE mine \in DOMAIN downloads'
    <3>1. downloads'[mine].time = clock + 1 /\ whole \notin DOMAIN downloads'
      BY <1>1, <2>3, <2>4, <2>6, <2>7 DEF E!Begun
    <3>2. f = mine
      BY <2>2, <3>1
    <3>3. \A g \in DOMAIN downloads' \ {mine} : g \in DOMAIN downloads /\ downloads'[g] = downloads[g]
      BY <1>1, <3>1
    <3> QED BY <2>5, <3>1, <3>2, <3>3 DEF Latest
  <2>8. CASE mine \notin DOMAIN downloads'
    <3>1. downloads'[whole].time = downloads[mine].time /\ mine \in DOMAIN downloads
      BY <1>1, <2>6, <2>8
    <3>2. f = whole
      BY <2>2, <2>8
    <3>3. Latest(mine)
      BY <1>3, <1>4, <3>1 DEF OwnIsLatest, E!InExport
    <3>4. \A g \in DOMAIN downloads' \ {whole} : g \in DOMAIN downloads \ {mine} /\ downloads'[g] = downloads[g]
      BY <1>1, <2>8
    <3> QED BY <3>1, <3>2, <3>3, <3>4 DEF Latest
  <2> QED BY <2>7, <2>8
<1> QED BY <1>5, <1>6, <1>7, <1>8

LEMMA UndisturbedClick ==
    ASSUME ExportsType, FilesOnce, Undisturbed, NEW t \in ExportTests, E!Click(t)
    PROVE  Undisturbed'
<1> SUFFICES ASSUME ~disturbed'
             PROVE  (OneExports /\ OthersSettled /\ OwnIsLatest /\ OwnIsFound /\ FiledIsOwn)'
  BY DEF Undisturbed
<1>1. /\ epc[t] = "script" /\ epc' = [epc EXCEPT ![t] = "clicked"]
      /\ done' = [done EXCEPT ![t] = @ + 1]
      /\ UNCHANGED <<setup, downloads, clock, excels, listing, lastModifiedFile>>
  BY DEF E!Click, E!Goto, E!locals
<1>2. ~disturbed /\ \A u \in ExportTests \ {t} : epc[u] \notin E!InExport
  BY DEF E!Click, ExportsType
<1>3. OneExports /\ OthersSettled /\ OwnIsLatest /\ OwnIsFound /\ FiledIsOwn
  BY <1>2 DEF Undisturbed
<1>4. epc'[t] = "clicked" /\ done'[t] = done[t] + 1 /\ done[t] \in Nat
  BY <1>1 DEF ExportsType
<1>5. \A u \in ExportTests \ {t} : epc'[u] = epc[u] /\ done'[u] = done[u]
  BY <1>1 DEF ExportsType
<1>6. OneExports'
  BY <1>2, <1>5 DEF OneExports
<1>7. FiledIsOwn'
  BY <1>1, <1>3 DEF FiledIsOwn
<1>8. OthersSettled'
  <2> SUFFICES ASSUME NEW u \in ExportTests, NEW m \in Nat, Over(u, m)' PROVE (Settled(u, m) /\ PathOf(u, m) \in DOMAIN excels)'
    BY DEF OthersSettled
  <2>1. CASE u = t
    <3>1. m \in 1..done[t]
      BY <1>4, <2>1 DEF Over, E!InExport
    <3>2. Over(u, m)
      BY <1>1, <2>1, <3>1 DEF Over, E!InExport
    <3> QED BY <1>1, <1>3, <3>2 DEF OthersSettled, Settled, PathOf
  <2>2. CASE u # t
    <3>1. Over(u, m)
      BY <1>5, <2>2 DEF Over
    <3> QED BY <1>1, <1>3, <3>1 DEF OthersSettled, Settled, PathOf
  <2> QED BY <2>1, <2>2
<1>9. OwnIsLatest'
  <2> SUFFICES ASSUME NEW u \in ExportTests, epc'[u] \in E!InExport
               PROVE  /\ done'[u] >= 1
                      /\ \A f \in {E!Part(u, done'[u]), E!Whole(u, done'[u])} : f \notin DOMAIN downloads'
    BY DEF OwnIsLatest, Own
  <2>1. u = t
    BY <1>2, <1>5
  <2>2. done'[u] \in Nat /\ done'[u] > done[u]
    BY <1>4, <2>1
  <2>3. ~E!Begun(u, done'[u])
    BY <2>2 DEF FilesOnce
  <2> QED BY <1>1, <1>4, <2>1, <2>3 DEF E!Begun
<1>10. OwnIsFound'
  BY <1>2, <1>4, <1>5 DEF OwnIsFound, E!InExport
<1> QED BY <1>6, <1>7, <1>8, <1>9, <1>10

LEMMA UndisturbedList ==
    ASSUME ExportsType, FilesOnce, Undisturbed, NEW t \in ExportTests, E!List(t)
    PROVE  Undisturbed'
<1> SUFFICES ASSUME ~disturbed'
             PROVE  (OneExports /\ OthersSettled /\ OwnIsLatest /\ OwnIsFound /\ FiledIsOwn)'
  BY DEF Undisturbed
<1>1. ~disturbed /\ Own(t) \in DOMAIN downloads
  BY DEF E!List, ExportsType, Own
<1>2. downloads # <<>>
  BY <1>1
<1>3. /\ epc[t] = "clicked" /\ epc' = [epc EXCEPT ![t] = "scan"]
      /\ UNCHANGED <<setup, done, downloads, clock, excels>>
  BY <1>2 DEF E!List, E!Goto
<1>4. PICK list \in E!SetToSeqs(DOMAIN downloads) :
          /\ listing' = [listing EXCEPT ![t] = Tail(list)]
          /\ lastModifiedFile' = [lastModifiedFile EXCEPT ![t] = list[1]]
  BY <1>2 DEF E!List
<1>5. OneExports /\ OthersSettled /\ OwnIsLatest /\ OwnIsFound /\ FiledIsOwn
  BY <1>1 DEF Undisturbed
<1>6. \A u \in ExportTests : epc'[u] \in E!InExport <=> epc[u] \in E!InExport
  BY <1>3 DEF ExportsType, E!InExport
<1>7. OneExports' /\ FiledIsOwn'
  BY <1>3, <1>5, <1>6 DEF OneExports, FiledIsOwn
<1>8. OthersSettled'
  <2>1. \A u \in ExportTests, m \in Nat : Over(u, m)' => Over(u, m)
    BY <1>3, <1>6 DEF Over
  <2> QED BY <1>3, <1>5, <2>1 DEF OthersSettled, Settled, PathOf
<1>9. OwnIsLatest'
  BY <1>3, <1>5, <1>6 DEF OwnIsLatest, Own, Latest
<1>10. OwnIsFound'
  <2> SUFFICES ASSUME NEW u \in ExportTests, epc'[u] \in {"scan", "wait", "move"}
               PROVE  /\ Own(u) \in DOMAIN downloads
                      /\ lastModifiedFile'[u] = Own(u)
                         \/ (epc'[u] # "move" /\ \E i \in 1..Len(listing'[u]) : listing'[u][i] = Own(u))
    BY <1>3 DEF OwnIsFound, Own
  <2>1. u = t
    BY <1>3, <1>5, <1>6 DEF OneExports, E!InExport
  <2>2. /\ list \in Seq(DOMAIN downloads) /\ list # <<>>
        /\ \A s \in DOMAIN downloads : \E i \in 1..Len(list) : list[i] = s
    <3>1. DOMAIN downloads # {} /\ IsFiniteSet(DOMAIN downloads)
      BY <1>1 DEF ExportsType
    <3> QED BY <3>1, ListIsWhole
  <2>3. PICK i \in 1..Len(list) : list[i] = Own(t)
    BY <1>1, <2>2
  <2>4. epc'[t] = "scan" /\ listing'[t] = Tail(list) /\ lastModifiedFile'[t] = list[1]
    BY <1>3, <1>4 DEF ExportsType
  <2>5. CASE i = 1
    BY <1>1, <2>1, <2>3, <2>4, <2>5
  <2>6. CASE i # 1
    <3>1. i - 1 \in 1..Len(Tail(list)) /\ Tail(list)[i - 1] = list[i]
      BY <2>2, <2>3, <2>6
    <3> QED BY <1>1, <2>1, <2>3, <2>4, <3>1
  <2> QED BY <2>5, <2>6
<1> QED BY <1>7, <1>8, <1>9, <1>10

(* The own workbook is the newest: the loop keeps it once it has it *)
LEMMA OwnIsKept ==
    ASSUME ExportsType, Undisturbed, ~disturbed, NEW t \in ExportTests, epc[t] = "scan", NEW g
    PROVE  E!Newer(Own(t), g) = Own(t) /\ E!Newer(g, Own(t)) = Own(t)
<1>1. Own(t) \in DOMAIN downloads /\ Latest(Own(t))
  BY DEF Undisturbed, OwnIsFound, OwnIsLatest, E!InExport
<1>2. \A f \in DOMAIN downloads : downloads[f].time \in Nat
  BY DEF ExportsType
<1>3. CASE g = Own(t)
  BY <1>3 DEF E!Newer
<1>4. CASE g # Own(t)
  <2>1. E!LastModified(g) < E!LastModified(Own(t)) /\ E!LastModified(g) \in Nat /\ E!LastModified(Own(t)) \in Nat
    BY <1>1, <1>2, <1>4 DEF E!LastModified, Latest
  <2> QED BY <2>1 DEF E!Newer
<1> QED BY <1>3, <1>4

LEMMA UndisturbedScan ==
    ASSUME ExportsType, FilesOnce, Undisturbed, NEW t \in ExportTests, E!Scan(t)
    PROVE  Undisturbed'
<1> SUFFICES ASSUME ~disturbed'
             PROVE  (OneExports /\ OthersSettled /\ OwnIsLatest /\ OwnIsFound /\ FiledIsOwn)'
  BY DEF Undisturbed
<1>1. ~disturbed /\ epc[t] = "scan" /\ UNCHANGED <<setup, done, downloads, clock, excels>>
  BY DEF E!Scan
<1>2. OneExports /\ OthersSettled /\ OwnIsLatest /\ OwnIsFound /\ FiledIsOwn
  BY <1>1 DEF Undisturbed
<1>3. epc'[t] \in {"wait", "move"} /\ \A u \in ExportTests \ {t} : epc'[u] = epc[u]
  BY DEF E!Scan, E!Goto, ExportsType
<1>4. \A u \in ExportTests : epc'[u] \in E!InExport <=> epc[u] \in E!InExport
  BY <1>1, <1>3 DEF E!InExport
<1>5. OneExports' /\ FiledIsOwn'
  BY <1>1, <1>2, <1>4 DEF OneExports, FiledIsOwn
<1>6. OthersSettled'
  <2>1. \A u \in ExportTests, m \in Nat : Over(u, m)' => Over(u, m)
    BY <1>1, <1>4 DEF Over
  <2> QED BY <1>1, <1>2, <2>1 DEF OthersSettled, Settled, PathOf
<1>7. OwnIsLatest'
  BY <1>1, <1>2, <1>4 DEF OwnIsLatest, Own, Latest
<1>8. OwnIsFound'
  <2> SUFFICES ASSUME NEW u \in ExportTests, epc'[u] \in {"scan", "wait", "move"}
               PROVE  /\ Own(u) \in DOMAIN downloads
                      /\ lastModifiedFile'[u] = Own(u)
                         \/ (epc'[u] # "move" /\ \E i \in 1..Len(listing'[u]) : listing'[u][i] = Own(u))
    BY <1>1 DEF OwnIsFound, Own
  <2>1. u = t
    BY <1>1, <1>2, <1>4 DEF OneExports, E!InExport
  <2>2. /\ Own(t) \in DOMAIN downloads
        /\ lastModifiedFile[t] = Own(t) \/ \E i \in 1..Len(listing[t]) : listing[t][i] = Own(t)
    BY <1>1, <1>2 DEF OwnIsFound
  <2>3. listing[t] \in Seq(FileNames)
    BY DEF ExportsType
  <2>4. CASE listing[t] = <<>>
    <3>1. UNCHANGED lastModifiedFile
      BY <2>4 DEF E!Scan, E!locals
    <3>2. Len(listing[t]) = 0
      BY <2>4
    <3> QED BY <2>1, <2>2, <3>1, <3>2
  <2>5. CASE listing[t] # <<>>
    <3>1. /\ lastModifiedFile'[t] = E!Newer(lastModifiedFile[t], Head(listing[t]))
          /\ listing'[t] = Tail(listing[t])
          /\ epc'[t] = "wait"
      BY <2>5 DEF E!Scan, E!Goto, ExportsType
    <3>2. CASE lastModifiedFile[t] = Own(t)
      BY <1>1, <2>1, <2>2, <3>1, <3>2, OwnIsKept
    <3>3. CASE lastModifiedFile[t] # Own(t)
      <4>1. PICK i \in 1..Len(listing[t]) : listing[t][i] = Own(t)
        BY <2>2, <3>3
      <4>2. CASE i = 1
        <5>1. Head(listing[t]) = Own(t)
          BY <2>3, <2>5, <4>1, <4>2
        <5> QED BY <1>1, <2>1, <2>2, <3>1, <5>1, OwnIsKept
      <4>3. CASE i # 1
        <5>1. i - 1 \in 1..Len(Tail(listing[t])) /\ Tail(listing[t])[i - 1] = listing[t][i]
          BY <2>3, <2>5, <4>1, <4>3
        <5> QED BY <2>1, <2>2, <3>1, <4>1, <5>1
      <4> QED BY <4>2, <4>3
    <3> QED BY <3>2, <3>3
  <2> QED BY <2>4, <2>5
<1> QED BY <1>5, <1>6, <1>7, <1>8

LEMMA UndisturbedMove ==
    ASSUME ExportsType, FilesOnce, Undisturbed, NEW t \in ExportTests, E!Move(t)
    PROVE  Undisturbed'
<1> SUFFICES ASSUME ~disturbed'
             PROVE  (OneExports /\ OthersSettled /\ OwnIsLatest /\ OwnIsFound /\ FiledIsOwn)'
  BY DEF Undisturbed
<1> DEFINE f == lastModifiedFile[t]
<1>1. /\ epc[t] = "move" /\ epc' = [epc EXCEPT ![t] = "script"]
      /\ UNCHANGED <<setup, done, clock, listing, disturbed>>
      /\ \/ /\ f \in DOMAIN downloads /\ E!Path(t) \notin DOMAIN excels
            /\ DOMAIN excels' = DOMAIN excels \cup {E!Path(t)}
            /\ excels'[E!Path(t)] = f
            /\ \A p \in DOMAIN excels : excels'[p] = excels[p]
            /\ DOMAIN downloads' = DOMAIN downloads \ {f}
         \/ /\ UNCHANGED <<excels, downloads>>
            /\ f \notin DOMAIN downloads \/ E!Path(t) \in DOMAIN excels \/ f[3] = "part"
  BY MovedFile
<1>2. OneExports /\ OthersSettled /\ OwnIsLatest /\ OwnIsFound /\ FiledIsOwn
  BY <1>1 DEF Undisturbed
<1>3. f = Own(t) /\ f \in DOMAIN downloads
  BY <1>1, <1>2 DEF OwnIsFound
<1>4. done[t] \in Nat /\ done[t] >= 1
  BY <1>1, <1>2 DEF OwnIsLatest, ExportsType, E!InExport
<1>5. E!Path(t) = PathOf(t, done[t]) /\ E!Path(t)[1] = t
  BY DEF E!Path, PathOf
<1>6. f[3] # "part"
  BY <1>3 DEF Own, E!Whole
<1>7. \A u \in ExportTests : epc'[u] \notin E!InExport
  <2>1. epc'[t] = "script" /\ \A u \in ExportTests \ {t} : epc'[u] = epc[u]
    BY <1>1 DEF ExportsType
  <2>2. \A u \in ExportTests \ {t} : epc[u] \notin E!InExport
    BY <1>1, <1>2 DEF OneExports, E!InExport
  <2> QED BY <2>1, <2>2 DEF E!InExport
<1>8. OneExports' /\ OwnIsLatest'
  BY <1>7 DEF OneExports, OwnIsLatest
<1>9. OwnIsFound'
  BY <1>7 DEF OwnIsFound, E!InExport
<1>10. DOMAIN excels \subseteq DOMAIN excels' /\ \A p \in DOMAIN excels : excels'[p] = excels[p]
  BY <1>1
<1>11. DOMAIN downloads' \subseteq DOMAIN downloads
  BY <1>1
<1>12. \A g \in DOMAIN downloads : g \in DOMAIN downloads' \/ \E p \in DOMAIN excels' : excels'[p] = g
  BY <1>1
<1>13. E!Path(t) \in DOMAIN excels'
  BY <1>1, <1>3, <1>6
<1>14. OthersSettled'
  <2> SUFFICES ASSUME NEW u \in ExportTests, NEW m \in Nat, Over(u, m)' PROVE (Settled(u, m) /\ PathOf(u, m) \in DOMAIN excels)'
    BY DEF OthersSettled
  <2> HIDE DEF f
  <2>1. CASE Over(u, m)
    <3>1. Settled(u, m) /\ PathOf(u, m) \in DOMAIN excels
      BY <1>2, <2>1 DEF OthersSettled
    <3>2. Settled(u, m)'
      BY <1>10, <1>11, <1>12, <3>1 DEF Settled
    <3>3. PathOf(u, m)' = PathOf(u, m)
      BY <1>1 DEF PathOf
    <3> QED BY <1>10, <3>1, <3>2, <3>3
  <2>2. CASE ~Over(u, m)
    <3>1. m \in 1..done[u] /\ epc[u] \in E!InExport /\ ~(m < done[u])
      BY <1>1, <2>2 DEF Over
    <3>2. u = t
      BY <1>1, <1>2, <3>1 DEF OneExports, E!InExport
    <3>3. m = done[t]
      BY <1>4, <3>1, <3>2
    <3>4. E!Part(u, m) \notin DOMAIN downloads
      BY <1>3, <3>2, <3>3 DEF FilesOnce, Own
    <3>5. E!Whole(u, m) \in DOMAIN downloads
      BY <1>3, <3>2, <3>3 DEF Own
    <3>6. Settled(u, m)'
      BY <1>11, <1>12, <3>4, <3>5 DEF Settled
    <3>7. PathOf(u, m)' = E!Path(t)
      BY <1>1, <1>5, <3>2, <3>3 DEF PathOf
    <3> QED BY <1>13, <3>6, <3>7
  <2> QED BY <2>1, <2>2
<1>15. FiledIsOwn'
  <2>1. CASE UNCHANGED excels
    BY <1>1, <1>2, <2>1 DEF FiledIsOwn
  <2>2. CASE /\ E!Path(t) \notin DOMAIN excels
             /\ DOMAIN excels' = DOMAIN excels \cup {E!Path(t)}
             /\ excels'[E!Path(t)] = f
    <3>1. done[t] = 1 \/ setup.steps
      <4> SUFFICES ASSUME done[t] # 1, ~setup.steps PROVE FALSE
        OBVIOUS
      <4>1. Over(t, 1)
        BY <1>4 DEF Over
      <4>2. PathOf(t, 1) \in DOMAIN excels
        BY <1>2, <4>1 DEF OthersSettled
      <4> QED BY <1>5, <2>2, <4>2 DEF PathOf
    <3>2. excels'[E!Path(t)] = <<t, IF setup.steps THEN E!Path(t)[2] ELSE 1, "book">>
      BY <1>3, <2>2, <3>1 DEF Own, E!Whole, E!Path
    <3> HIDE DEF f
    <3> QED BY <1>1, <1>2, <1>5, <1>10, <2>2, <3>2 DEF FiledIsOwn
  <2> QED BY <1>1, <2>1, <2>2
<1> QED BY <1>8, <1>9, <1>14, <1>15

LEMMA UndisturbedStep ==
    ASSUME ExportsType, FilesOnce, Undisturbed, [E!Next]_exportvars
    PROVE  Undisturbed'
<1>1. ASSUME UNCHANGED <<setup, done, downloads, excels, listing, lastModifiedFile, disturbed>>,
             \A u \in ExportTests :
                 epc'[u] = epc[u] \/ (epc[u] \notin E!InExport /\ epc'[u] \notin E!InExport)
                                  \/ (epc[u] = "wait" /\ epc'[u] = "scan")
      PROVE  Undisturbed'
  <2>1. \A u \in ExportTests : epc'[u] \in E!InExport <=> epc[u] \in E!InExport
    BY <1>1 DEF E!InExport
  <2>2. \A u \in ExportTests : epc'[u] \in {"scan", "wait", "move"} =>
            epc[u] \in {"scan", "wait", "move"} /\ (epc'[u] # "move" <=> epc[u] # "move")
    BY <1>1 DEF E!InExport
  <2>3. Undisturbed /\ ~disturbed => OneExports' /\ FiledIsOwn' /\ OwnIsLatest'
    BY <1>1, <2>1 DEF Undisturbed, OneExports, FiledIsOwn, OwnIsLatest, Own, Latest
  <2>4. Undisturbed /\ ~disturbed => OthersSettled'
    <3>1. \A u \in ExportTests, m \in Nat : Over(u, m)' => Over(u, m)
      BY <1>1, <2>1 DEF Over
    <3> QED BY <1>1, <3>1 DEF Undisturbed, OthersSettled, Settled, PathOf
  <2>5. Undisturbed /\ ~disturbed => OwnIsFound'
    BY <1>1, <2>2 DEF Undisturbed, OwnIsFound, Own
  <2> QED BY <1>1, <2>3, <2>4, <2>5 DEF Undisturbed
<1>2. CASE UNCHANGED exportvars
  BY <1>1, <1>2 DEF exportvars
<1>3. ASSUME NEW t \in ExportTests, E!Begin(t) \/ E!Wait(t) \/ E!End(t) PROVE Undisturbed'
  <2>1. UNCHANGED <<setup, done, downloads, excels, listing, lastModifiedFile, disturbed>>
    BY <1>3 DEF E!Begin, E!Wait, E!End, E!locals
  <2>2. \A u \in ExportTests :
            epc'[u] = epc[u] \/ (epc[u] \notin E!InExport /\ epc'[u] \notin E!InExport)
                             \/ (epc[u] = "wait" /\ epc'[u] = "scan")
    BY <1>3 DEF E!Begin, E!Wait, E!End, E!Goto, E!InExport, ExportsType
  <2> QED BY <1>1, <2>1, <2>2
<1> QED
  BY <1>2, <1>3, UndisturbedDownload, UndisturbedClick, UndisturbedList, UndisturbedScan, UndisturbedMove
  DEF E!Next, E!Browser, E!Worker

ExportsInv == ExportsType /\ FilesOnce /\ Undisturbed

LEMMA ExportsInvariant == TestCaseSpec => []ExportsInv
<1>1. TestCaseInit => ExportsInv
  BY ExportsTypeInit, FilesOnceInit, UndisturbedInit DEF TestCaseInit, ExportsInv
<1>2. ExportsInv /\ [TestCaseNext]_<<part, vars, windowvars, exportvars>> => ExportsInv'
  BY Parts, ExportsTypeStep, FilesOnceStep, UndisturbedStep DEF ExportsInv
<1> QED BY <1>1, <1>2, PTL DEF TestCaseSpec

(***************************************************************************)
(* DATA_EXPORTS and TC_EXPORTS_LOGOUT (framework/Textbox.java), with any   *)
(* test cases, workers, exports and files from before the run: what is     *)
(* filed under a test case's name is its own, whole workbook, and it is    *)
(* filed, if each export was alone and its workbook there when the         *)
(* keyword looked; a file is never filed twice.                            *)
(***************************************************************************)
THEOREM ExportsAreOwn == TestCaseSpec => []ExportIsOwn
<1>1. ASSUME ExportsInv PROVE ExportIsOwn
  <2>1. \A p, q \in DOMAIN excels : excels[p] = excels[q] => p = q
    BY <1>1 DEF ExportsInv, FilesOnce
  <2>2. ASSUME ~disturbed, NEW t \in ExportTests
        PROVE  /\ \A p \in DOMAIN excels : p[1] = t =>
                      excels[p] = <<t, IF setup.steps THEN p[2] ELSE 1, "book">>
               /\ epc[t] = "ended" => \A n \in 1 .. done[t] :
                      (IF setup.steps THEN <<t, n>> ELSE <<t, 0>>) \in DOMAIN excels
    <3>1. OthersSettled /\ FiledIsOwn
      BY <1>1, <2>2 DEF ExportsInv, Undisturbed
    <3>2. ASSUME epc[t] = "ended", NEW n \in 1 .. done[t]
          PROVE  PathOf(t, n) \in DOMAIN excels
      <4>1. n \in Nat /\ Over(t, n)
        BY <1>1, <3>2 DEF ExportsInv, ExportsType, Over, E!InExport
      <4> QED BY <3>1, <4>1 DEF OthersSettled
    <3> QED BY <3>1, <3>2 DEF FiledIsOwn, PathOf
  <2> QED BY <2>1, <2>2 DEF ExportIsOwn, E!ExportIsOwn
<1> QED BY <1>1, ExportsInvariant, PTL

-----------------------------------------------------------------------------
(* Coverage, with one worker                                               *)

WorkerPlaces == {"idle", "dump", "generate", "copyExec", "copyReport", "open", "read", "row", "store"}

CoverageType ==
    /\ order \in Orders /\ remote \in BOOLEAN /\ failed \in BOOLEAN /\ finished \in BOOLEAN
    /\ todo \in SUBSET Tests
    /\ pc \in [Workers -> WorkerPlaces]
    /\ test \in [Workers -> Tests \cup {"none"}]
    /\ covers \in [Tests -> SUBSET Classes]
    /\ agent \in SUBSET Classes /\ exec \in SUBSET Classes /\ report \in SUBSET Classes
    /\ ownExec \in [Tests -> SUBSET Classes] /\ ownReport \in [Tests -> SUBSET Classes]
    /\ reader \in [data : SUBSET Classes, read : Nat]
    /\ lines \in [Workers -> Seq([name : Nat, covered : BOOLEAN])]
    /\ row \in [Workers -> Nat]
    /\ coverage \in [Workers -> BOOLEAN] /\ seen \in [Workers -> BOOLEAN]
    /\ map \in [Names -> Seq(Tests)]

LEMMA CoverageTypeInit ==
    ASSUME Init
    PROVE  CoverageType
<1>1. /\ order \in Orders /\ remote \in BOOLEAN
      /\ todo \in SUBSET Tests
      /\ pc \in [Workers -> WorkerPlaces]
      /\ test \in [Workers -> Tests \cup {"none"}]
  BY DEF Init, WorkerPlaces
<1>2. /\ covers \in [Tests -> SUBSET Classes]
      /\ agent \in SUBSET Classes /\ exec \in SUBSET Classes /\ report \in SUBSET Classes
      /\ ownExec \in [Tests -> SUBSET Classes] /\ ownReport \in [Tests -> SUBSET Classes]
  BY DEF Init
<1>3. reader \in [data : SUBSET Classes, read : Nat]
  BY DEF Init
<1>4. lines \in [Workers -> Seq([name : Nat, covered : BOOLEAN])] /\ row \in [Workers -> Nat]
  BY DEF Init
<1>5. failed \in BOOLEAN /\ finished \in BOOLEAN
  BY DEF Init
<1>6. coverage \in [Workers -> BOOLEAN] /\ seen \in [Workers -> BOOLEAN]
  BY DEF Init
<1>7. map \in [Names -> Seq(Tests)]
  BY DEF Init
<1> QED BY <1>1, <1>2, <1>3, <1>4, <1>5, <1>6, <1>7 DEF CoverageType

(* The name in row k of the workbook; row 0 is the first one *)
NameAt(k) == order[Length][k + 1] - 1

LEMMA LengthType == Length \in Nat /\ Length >= 2 /\ Names = 0..(Length - 1) /\ Classes = 1..(Length - 1)
BY CoverageMapAssumption DEF Length, Names, Classes, Header

LEMMA NamesOfRows ==
    ASSUME CoverageType
    PROVE  /\ \A k \in 0..(Length - 1) : order[Length][k + 1] \in 1..Length /\ NameAt(k) \in Names
           /\ \A c \in Names : \E k \in 0..(Length - 1) : NameAt(k) = c
           /\ \A j, k \in 0..(Length - 1) : NameAt(j) = NameAt(k) => j = k
<1> DEFINE f == order[Length]
<1>1. Length \in 0..(2 * Length)
  BY LengthType
<1>2. order \in Orders
  BY DEF CoverageType
<1>3. f \in [1..Length -> 1..Length] /\ {f[i] : i \in 1..Length} = 1..Length
  BY <1>1, <1>2, CoverageMapAssumption
<1>4. f \in Surjection(1..Length, 1..Length)
  BY <1>3 DEF Surjection
<1>5. IsFiniteSet(1..Length)
  BY LengthType, FS_Interval
<1>6. f \in Injection(1..Length, 1..Length)
  BY <1>4, <1>5, FS_Surjection
<1>7. \A i, j \in 1..Length : f[i] = f[j] => i = j
  BY <1>3, <1>6 DEF Injection, IsInjective
<1> HIDE DEF f
<1>8. \A k \in 0..(Length - 1) : k + 1 \in 1..Length
  BY LengthType
<1>9. \A k \in 0..(Length - 1) : NameAt(k) = f[k + 1] - 1 /\ f[k + 1] \in 1..Length
  BY <1>3, <1>8 DEF NameAt, f
<1>10. \A k \in 0..(Length - 1) : order[Length][k + 1] \in 1..Length /\ NameAt(k) \in Names
  BY <1>9, LengthType DEF f
<1>11. ASSUME NEW c \in Names PROVE \E k \in 0..(Length - 1) : NameAt(k) = c
  <2>1. c + 1 \in 1..Length /\ c \in Nat
    BY LengthType
  <2>2. PICK i \in 1..Length : f[i] = c + 1
    BY <1>3, <2>1
  <2>3. i - 1 \in 0..(Length - 1) /\ (i - 1) + 1 = i
    BY LengthType
  <2>4. NameAt(i - 1) = c
    BY <1>9, <2>1, <2>2, <2>3
  <2> QED BY <2>3, <2>4
<1>12. ASSUME NEW j \in 0..(Length - 1), NEW k \in 0..(Length - 1), NameAt(j) = NameAt(k) PROVE j = k
  <2>1. f[j + 1] = f[k + 1]
    BY <1>9, <1>12, LengthType
  <2>2. j + 1 = k + 1
    BY <1>7, <1>8, <2>1
  <2> QED BY <2>2, LengthType
<1> QED BY <1>10, <1>11, <1>12

(* Where the worker is, and what it has made of the test case's coverage *)
OfTest(w) ==
    LET t == test[w]
        S == covers[test[w]]
    IN  /\ pc[w] # "idle" => t \in Tests \ todo /\ ~failed /\ ~finished
        /\ pc[w] = "idle" /\ ~failed => agent = {}
        /\ pc[w] = "dump" => agent = S
        /\ pc[w] \notin {"idle", "dump"} => agent = {} /\ exec = S
        /\ pc[w] = "copyReport" \/ (pc[w] = "copyExec" /\ ~remote) => report = S
        /\ pc[w] \in {"copyReport", "open", "read", "row", "store"} \/ (pc[w] = "generate" /\ remote)
              => ownExec[t] = S
        /\ pc[w] = "open" => ownReport[t] = S

InSheet(w) ==
    /\ pc[w] = "read" =>
          reader.data = covers[test[w]] /\ reader.read = Len(lines[w]) /\ reader.read <= Length
    /\ pc[w] \in {"row", "store"} => Len(lines[w]) = Length
    /\ pc[w] \in {"read", "row", "store"} =>
          \A i \in 1..Len(lines[w]) :
              lines[w][i].name = i - 1 /\ (lines[w][i].covered <=> i - 1 \in covers[test[w]])
    /\ pc[w] = "row" => row[w] \in 1..Length
    /\ pc[w] = "store" =>
          /\ row[w] \in 1..(Length - 1)
          /\ NameAt(row[w]) = Header \/ NameAt(row[w]) \in covers[test[w]]
          /\ seen[w] <=> map[NameAt(row[w])] # <<>>

(* What is under a key of the map *)
Past(w) == {t \in Tests \ todo : ~failed /\ (pc[w] # "idle" => test[w] # t)}

InMap(w) ==
    /\ \A c \in Names, t \in Tests : Listed(c, t) =>
          /\ t \notin todo
          /\ c \in covers[t] \/ (c = Header /\ ~HeaderFirst)
    /\ \A t \in Past(w) :
          /\ ownExec[t] = covers[t]
          /\ \A k \in 1..(Length - 1) : NameAt(k) \in covers[t] => Listed(NameAt(k), t)
    /\ pc[w] \in {"row", "store"} =>
          \A k \in 1..(row[w] - 1) : NameAt(k) \in covers[test[w]] => Listed(NameAt(k), test[w])

WhenFinished(w) ==
    finished => pc[w] = "idle" /\ (failed \/ todo = {}) /\ WrittenIsCovered

CoverageInv(w) == CoverageType /\ OfTest(w) /\ InSheet(w) /\ InMap(w) /\ WhenFinished(w)

LEMMA CoverageInit ==
    ASSUME NEW w, Workers = {w}, Init
    PROVE  CoverageInv(w)
<1>1. CoverageType
  BY CoverageTypeInit
<1>2. pc[w] = "idle" /\ agent = {} /\ ~failed /\ ~finished /\ todo = Tests /\ \A c \in Names : map[c] = <<>>
  BY DEF Init
<1>3. OfTest(w) /\ InSheet(w) /\ WhenFinished(w)
  BY <1>2 DEF OfTest, InSheet, WhenFinished
<1>4. InMap(w)
  BY <1>2 DEF InMap, Past, Listed
<1> QED BY <1>1, <1>3, <1>4 DEF CoverageInv

(* The row of the workbook that the worker is at *)
LEMMA RowOfSheet ==
    ASSUME NEW w, Workers = {w}, CoverageInv(w), pc[w] \in {"row", "store"}, row[w] < Length
    PROVE  /\ SheetRow(w, row[w]).name = NameAt(row[w])
           /\ SheetRow(w, row[w]).covered <=> NameAt(row[w]) \in covers[test[w]]
           /\ SheetRow(w, row[w]).covered \in BOOLEAN
           /\ NameAt(row[w]) \in Names /\ row[w] \in 1..(Length - 1)
<1>1. Len(lines[w]) = Length /\ row[w] \in 1..(Length - 1)
  BY LengthType DEF CoverageInv, InSheet
<1>2. row[w] \in 0..(Length - 1)
  BY <1>1, LengthType
<1> DEFINE i == order[Length][row[w] + 1]
<1>3. i \in 1..Length /\ NameAt(row[w]) \in Names /\ NameAt(row[w]) = i - 1
  BY <1>2, NamesOfRows DEF CoverageInv, NameAt
<1>4. SheetRow(w, row[w]) = lines[w][i]
  BY <1>1 DEF SheetRow
<1> HIDE DEF i
<1>5. lines[w][i].name = i - 1 /\ (lines[w][i].covered <=> i - 1 \in covers[test[w]])
  BY <1>1, <1>3 DEF CoverageInv, InSheet
<1>6. lines[w] \in Seq([name : Nat, covered : BOOLEAN])
  BY DEF CoverageInv, CoverageType
<1>7. lines[w][i] \in [name : Nat, covered : BOOLEAN]
  <2>1. i \in 1..Len(lines[w])
    BY <1>1, <1>3
  <2>2. \A S : \A s \in Seq(S) : \A j \in 1..Len(s) : s[j] \in S
    OBVIOUS
  <2> QED BY <1>6, <2>1, <2>2
<1> QED BY <1>1, <1>3, <1>4, <1>5, <1>7

(* Between two rows, and as long as the map stays *)
LEMMA InMapKept ==
    ASSUME NEW w, Workers = {w}, InMap(w), pc[w] # "idle", pc'[w] # "idle",
           UNCHANGED <<order, todo, failed, test, covers, map>>,
           \A t \in Tests : t # test[w] => ownExec'[t] = ownExec[t],
           pc'[w] \in {"row", "store"} =>
               \A k \in 1..(row'[w] - 1) : NameAt(k) \in covers[test[w]] => Listed(NameAt(k), test[w])
    PROVE  InMap(w)'
<1>1. Past(w)' = Past(w) /\ \A t \in Past(w) : t # test[w] /\ t \in Tests
  BY DEF Past
<1>2. HeaderFirst' = HeaderFirst /\ \A k : NameAt(k)' = NameAt(k)
  BY DEF HeaderFirst, NameAt
<1>3. \A c, t : Listed(c, t)' <=> Listed(c, t)
  BY DEF Listed
<1>4. \A c \in Names, t \in Tests : Listed(c, t)' => t \notin todo' /\ (c \in covers'[t] \/ (c = Header /\ ~HeaderFirst'))
  BY <1>2, <1>3 DEF InMap
<1>5. \A t \in Past(w)' :
          /\ ownExec'[t] = covers'[t]
          /\ \A k \in 1..(Length - 1) : NameAt(k)' \in covers'[t] => Listed(NameAt(k), t)'
  BY <1>1, <1>2, <1>3 DEF InMap, Listed
<1>6. pc'[w] \in {"row", "store"} =>
          \A k \in 1..(row'[w] - 1) : NameAt(k)' \in covers'[test'[w]] => Listed(NameAt(k), test[w])'
  BY <1>2 DEF Listed
<1> QED BY <1>4, <1>5, <1>6 DEF InMap, Listed, NameAt

LEMMA NotFinished ==
    ASSUME NEW w, Workers = {w}, CoverageInv(w), pc[w] # "idle"
    PROVE  test[w] \in Tests /\ test[w] \notin todo /\ ~failed /\ ~finished
BY DEF CoverageInv, OfTest

LEMMA CoverageRunTest ==
    ASSUME NEW w, Workers = {w}, CoverageInv(w), RunTest(w)
    PROVE  CoverageInv(w)'
<1>1. pc[w] = "idle" /\ pc' = [pc EXCEPT ![w] = "dump"] /\ ~failed
  BY DEF RunTest, Goto
<1>2. PICK t \in todo, S \in Coverages :
          /\ todo' = todo \ {t}
          /\ test' = [test EXCEPT ![w] = t]
          /\ covers' = [covers EXCEPT ![t] = S]
          /\ agent' = agent \cup S
  BY DEF RunTest
<1>3. UNCHANGED <<order, remote, failed, exec, report, ownExec, ownReport, reader, lines, row, coverage, seen,
                  map, finished, mapping>>
  BY DEF RunTest, locals
<1>4. CoverageType
  BY DEF CoverageInv
<1>5. S \in SUBSET Classes /\ t \in Tests
  BY <1>4, CoverageMapAssumption DEF CoverageType
<1>6. CoverageType'
  BY <1>1, <1>2, <1>3, <1>4, <1>5 DEF CoverageType, WorkerPlaces
<1>7. pc'[w] = "dump" /\ test'[w] = t /\ covers'[t] = S /\ \A u \in Tests \ {t} : covers'[u] = covers[u]
  BY <1>1, <1>2, <1>4, <1>5 DEF CoverageType
<1>8. agent = {} /\ ~finished
  BY <1>1, <1>2 DEF CoverageInv, OfTest, WhenFinished
<1>9. OfTest(w)' /\ InSheet(w)' /\ WhenFinished(w)'
  BY <1>1, <1>2, <1>3, <1>5, <1>7, <1>8 DEF OfTest, InSheet, WhenFinished
<1>10. InMap(w)'
  <2>1. \A c, u : Listed(c, u)' <=> Listed(c, u)
    BY <1>3 DEF Listed
  <2>2. HeaderFirst' = HeaderFirst /\ \A k : NameAt(k)' = NameAt(k)
    BY <1>3 DEF HeaderFirst, NameAt
  <2>3. \A u \in Past(w)' : u \in Past(w) /\ u \in Tests \ {t}
    BY <1>1, <1>2, <1>3, <1>7 DEF Past
  <2>4. InMap(w)
    BY DEF CoverageInv
  <2>5. \A c \in Names, u \in Tests : Listed(c, u)' => u \notin todo' /\ (c \in covers'[u] \/ (c = Header /\ ~HeaderFirst'))
    BY <1>2, <1>7, <2>1, <2>2, <2>4 DEF InMap
  <2>6. \A u \in Past(w)' :
          /\ ownExec'[u] = covers'[u]
          /\ \A k \in 1..(Length - 1) : NameAt(k)' \in covers'[u] => Listed(NameAt(k), u)'
    BY <1>3, <1>7, <2>1, <2>2, <2>3, <2>4 DEF InMap, Listed
  <2> QED BY <1>7, <2>5, <2>6 DEF InMap, Listed, NameAt
<1> QED BY <1>6, <1>9, <1>10 DEF CoverageInv

(* The dump, the report and the copies of both *)
LEMMA CoverageFiles ==
    ASSUME NEW w, Workers = {w}, CoverageInv(w),
           Dump(w) \/ Generate(w) \/ CopyExec(w) \/ CopyReport(w) \/ Open(w)
    PROVE  CoverageInv(w)'
<1>1. CoverageType /\ OfTest(w) /\ InMap(w)
  BY DEF CoverageInv
<1>2. pc[w] # "idle" /\ pc'[w] \in {"generate", "copyExec", "copyReport", "open", "read"}
  BY <1>1 DEF Dump, Generate, CopyExec, CopyReport, Open, Goto, CoverageType
<1>3. test[w] \in Tests /\ test[w] \notin todo /\ ~failed /\ ~finished
  BY <1>2, NotFinished
<1>4. UNCHANGED <<order, remote, todo, failed, test, covers, finished, mapping, map, row, coverage, seen>>
  BY DEF Dump, Generate, CopyExec, CopyReport, Open, suite, locals
<1>5. CoverageType' /\ OfTest(w)' /\ InSheet(w)'
  <2>1. CASE Dump(w)
    BY <1>1, <1>2, <1>3, <1>4, <2>1 DEF Dump, Goto, CoverageType, OfTest, InSheet, locals, WorkerPlaces
  <2>2. CASE Generate(w)
    BY <1>1, <1>2, <1>3, <1>4, <2>2 DEF Generate, Goto, CoverageType, OfTest, InSheet, locals, WorkerPlaces
  <2>3. CASE CopyExec(w)
    BY <1>1, <1>2, <1>3, <1>4, <2>3 DEF CopyExec, Goto, CoverageType, OfTest, InSheet, locals, WorkerPlaces
  <2>4. CASE CopyReport(w)
    BY <1>1, <1>2, <1>3, <1>4, <2>4 DEF CopyReport, Goto, CoverageType, OfTest, InSheet, locals, WorkerPlaces
  <2>5. CASE Open(w)
    <3>1. /\ pc[w] = "open" /\ pc' = [pc EXCEPT ![w] = "read"]
          /\ reader' = [data |-> ownReport[test[w]], read |-> 0]
          /\ lines' = [lines EXCEPT ![w] = <<>>]
          /\ UNCHANGED <<agent, exec, report, ownExec, ownReport>>
      BY <2>5 DEF Open, Goto, files
    <3>2. lines'[w] = <<>> /\ lines' \in [Workers -> Seq([name : Nat, covered : BOOLEAN])]
      BY <1>1, <3>1 DEF CoverageType
    <3>3. reader'.data = covers[test[w]] /\ reader'.read = 0 /\ reader' \in [data : SUBSET Classes, read : Nat]
      BY <1>1, <1>3, <3>1 DEF CoverageType, OfTest
    <3>4. CoverageType'
      BY <1>1, <1>4, <3>1, <3>2, <3>3 DEF CoverageType, WorkerPlaces
    <3>5. pc'[w] = "read"
      BY <1>1, <3>1 DEF CoverageType
    <3>6. OfTest(w)'
      BY <1>1, <1>3, <1>4, <3>1, <3>5 DEF OfTest
    <3>7. InSheet(w)'
      BY <1>4, <3>2, <3>3, <3>5, LengthType DEF InSheet
    <3> QED BY <3>4, <3>6, <3>7
  <2> QED BY <2>1, <2>2, <2>3, <2>4, <2>5
<1>6. \A t \in Tests : t # test[w] => ownExec'[t] = ownExec[t]
  BY <1>1 DEF Dump, Generate, CopyExec, CopyReport, Open, files, CoverageType
<1>7. InMap(w)'
  BY <1>1, <1>2, <1>4, <1>6, InMapKept
<1>8. WhenFinished(w)'
  BY <1>3, <1>4 DEF WhenFinished
<1> QED BY <1>5, <1>7, <1>8 DEF CoverageInv

LEMMA CoverageAntFails ==
    ASSUME NEW w, Workers = {w}, CoverageInv(w), AntFails(w)
    PROVE  CoverageInv(w)'
<1>1. /\ pc[w] \in {"dump", "generate"} /\ pc' = [pc EXCEPT ![w] = "idle"] /\ failed' = TRUE
      /\ UNCHANGED <<order, remote, todo, test, covers, finished, mapping, agent, exec, report, ownExec, ownReport,
                     reader, lines, row, coverage, seen, map>>
  BY DEF AntFails, files, locals
<1>2. CoverageType /\ InMap(w) /\ ~finished
  BY <1>1, NotFinished DEF CoverageInv
<1>3. failed' \in BOOLEAN
  BY <1>1
<1>4. CoverageType' /\ pc'[w] = "idle"
  BY <1>1, <1>2, <1>3 DEF CoverageType, WorkerPlaces
<1>5. OfTest(w)' /\ InSheet(w)' /\ WhenFinished(w)'
  BY <1>1, <1>2, <1>4 DEF OfTest, InSheet, WhenFinished
<1>6. InMap(w)'
  <2>1. Past(w)' = {}
    BY <1>1 DEF Past
  <2>2. HeaderFirst' = HeaderFirst /\ \A c, u : Listed(c, u)' <=> Listed(c, u)
    BY <1>1 DEF HeaderFirst, Listed
  <2> QED BY <1>1, <1>2, <1>4, <2>1, <2>2 DEF InMap
<1> QED BY <1>4, <1>5, <1>6 DEF CoverageInv

LEMMA CoverageReadLine ==
    ASSUME NEW w, Workers = {w}, CoverageInv(w), ReadLine(w)
    PROVE  CoverageInv(w)'
<1> DEFINE line == [name |-> reader.read, covered |-> reader.read \in reader.data]
           old == lines[w]
<1>1. /\ pc[w] = "read" /\ reader.read < Length
      /\ lines' = [lines EXCEPT ![w] = Append(@, line)]
      /\ reader' = [reader EXCEPT !.read = @ + 1]
      /\ UNCHANGED <<order, remote, todo, failed, test, covers, finished, mapping, pc, agent, exec, report,
                     ownExec, ownReport, row, coverage, seen, map>>
  BY DEF ReadLine, suite, files
<1>2. CoverageType /\ OfTest(w) /\ InSheet(w) /\ InMap(w)
  BY DEF CoverageInv
<1>3. test[w] \in Tests /\ ~finished
  BY <1>1, NotFinished
<1>4. reader.data = covers[test[w]] /\ reader.read = Len(old)
  BY <1>1, <1>2 DEF InSheet
<1>5. old \in Seq([name : Nat, covered : BOOLEAN]) /\ reader \in [data : SUBSET Classes, read : Nat]
  BY <1>2 DEF CoverageType
<1>6. line \in [name : Nat, covered : BOOLEAN] /\ line.name = Len(old)
      /\ (line.covered <=> Len(old) \in covers[test[w]])
  <2>1. reader.read \in Nat /\ (reader.read \in reader.data) \in BOOLEAN
    BY <1>5
  <2> QED BY <1>4, <2>1
<1>7. lines'[w] = Append(old, line)
  BY <1>1, <1>2 DEF CoverageType
<1> HIDE DEF line, old
<1>8. /\ Append(old, line) \in Seq([name : Nat, covered : BOOLEAN])
      /\ Len(Append(old, line)) = Len(old) + 1 /\ Len(old) \in Nat
      /\ \A i \in 1..Len(old) : Append(old, line)[i] = old[i]
      /\ Append(old, line)[Len(old) + 1] = line
  <2>1. \A S : \A s \in Seq(S), e \in S :
            /\ Append(s, e) \in Seq(S) /\ Len(Append(s, e)) = Len(s) + 1 /\ Len(s) \in Nat
            /\ \A i \in 1..Len(s) : Append(s, e)[i] = s[i]
            /\ Append(s, e)[Len(s) + 1] = e
    OBVIOUS
  <2> QED BY <1>5, <1>6, <2>1
<1>9. reader'.data = reader.data /\ reader'.read = reader.read + 1 /\ reader' \in [data : SUBSET Classes, read : Nat]
  BY <1>1, <1>5
<1>10. lines' \in [Workers -> Seq([name : Nat, covered : BOOLEAN])]
  BY <1>1, <1>2, <1>8 DEF CoverageType, old
<1>11. CoverageType'
  BY <1>1, <1>2, <1>9, <1>10 DEF CoverageType
<1>12. OfTest(w)' /\ WhenFinished(w)'
  BY <1>1, <1>2, <1>3 DEF OfTest, WhenFinished
<1>13. InSheet(w)'
  <2>1. \A i \in 1..Len(old) : old[i].name = i - 1 /\ (old[i].covered <=> i - 1 \in covers[test[w]])
    BY <1>1, <1>2 DEF InSheet, old
  <2>2. \A i \in 1..(Len(old) + 1) :
            /\ Append(old, line)[i].name = i - 1
            /\ Append(old, line)[i].covered <=> i - 1 \in covers[test[w]]
    <3> TAKE i \in 1..(Len(old) + 1)
    <3>1. CASE i \in 1..Len(old)
      BY <1>8, <2>1, <3>1
    <3>2. CASE i = Len(old) + 1
      <4>1. i - 1 = Len(old)
        BY <1>8, <3>2
      <4> QED BY <1>6, <1>8, <3>2, <4>1
    <3> QED BY <1>8, <3>1, <3>2
  <2>3. Len(lines'[w]) = reader'.read /\ reader'.read <= Length
    BY <1>1, <1>4, <1>7, <1>8, <1>9, LengthType
  <2> QED BY <1>1, <1>4, <1>7, <1>8, <1>9, <2>2, <2>3 DEF InSheet
<1>14. InMap(w)'
  BY <1>1, <1>2, InMapKept
<1> QED BY <1>11, <1>12, <1>13, <1>14 DEF CoverageInv

LEMMA CoverageLastLine ==
    ASSUME NEW w, Workers = {w}, CoverageInv(w), LastLine(w)
    PROVE  CoverageInv(w)'
<1>1. /\ pc[w] = "read" /\ pc' = [pc EXCEPT ![w] = "row"] /\ reader.read = Length
      /\ row' = [row EXCEPT ![w] = 1]
      /\ coverage' = [coverage EXCEPT ![w] = FALSE]
      /\ UNCHANGED <<order, remote, todo, failed, test, covers, finished, mapping, agent, exec, report,
                     ownExec, ownReport, reader, lines, seen, map>>
  BY DEF LastLine, Goto, suite, files
<1>2. CoverageType /\ OfTest(w) /\ InSheet(w) /\ InMap(w)
  BY DEF CoverageInv
<1>3. test[w] \in Tests /\ ~finished
  BY <1>1, NotFinished
<1>4. pc'[w] = "row" /\ row'[w] = 1
  BY <1>1, <1>2 DEF CoverageType
<1>5. coverage' \in [Workers -> BOOLEAN]
  BY <1>1, <1>2 DEF CoverageType
<1>6. CoverageType'
  BY <1>1, <1>2, <1>5 DEF CoverageType, WorkerPlaces
<1>7. OfTest(w)' /\ WhenFinished(w)'
  BY <1>1, <1>2, <1>3, <1>4 DEF OfTest, WhenFinished
<1>8. InSheet(w)'
  <2>1. /\ Len(lines[w]) = Length
        /\ \A i \in 1..Len(lines[w]) :
              lines[w][i].name = i - 1 /\ (lines[w][i].covered <=> i - 1 \in covers[test[w]])
    BY <1>1, <1>2 DEF InSheet
  <2>2. 1 \in 1..Length
    BY LengthType
  <2> QED BY <1>1, <1>4, <2>1, <2>2 DEF InSheet
<1>9. InMap(w)'
  BY <1>1, <1>2, <1>4, InMapKept
<1> QED BY <1>6, <1>7, <1>8, <1>9 DEF CoverageInv

LEMMA CoverageLookUp ==
    ASSUME NEW w, Workers = {w}, CoverageInv(w), LookUp(w)
    PROVE  CoverageInv(w)'
<1> DEFINE r == SheetRow(w, row[w])
           name == NameAt(row[w])
           now == IF r.name = Header THEN coverage[w] ELSE r.covered
<1>1. /\ pc[w] = "row" /\ row[w] < Len(lines[w])
      /\ coverage' = [coverage EXCEPT ![w] = now]
      /\ seen' = [seen EXCEPT ![w] = now /\ map[r.name] # <<>>]
      /\ pc' = [pc EXCEPT ![w] = IF now THEN "store" ELSE "row"]
      /\ row' = [row EXCEPT ![w] = IF now THEN @ ELSE @ + 1]
      /\ UNCHANGED <<order, remote, todo, failed, test, covers, finished, mapping, agent, exec, report,
                     ownExec, ownReport, reader, lines, map>>
  BY DEF LookUp, suite, files
<1>2. CoverageType /\ OfTest(w) /\ InSheet(w) /\ InMap(w)
  BY DEF CoverageInv
<1>3. test[w] \in Tests /\ ~finished
  BY <1>1, NotFinished
<1>4. Len(lines[w]) = Length
  BY <1>1, <1>2 DEF InSheet
<1>5. /\ r.name = name
      /\ r.covered <=> name \in covers[test[w]]
      /\ r.covered \in BOOLEAN
      /\ name \in Names /\ row[w] \in 1..(Length - 1)
  BY <1>1, <1>4, RowOfSheet
<1>6. now \in BOOLEAN /\ (now => name = Header \/ name \in covers[test[w]])
      /\ (~now => name = Header \/ name \notin covers[test[w]])
  <2>1. coverage[w] \in BOOLEAN
    BY <1>2 DEF CoverageType
  <2> QED BY <1>5, <2>1
<1>7. Header \notin covers[test[w]]
  BY <1>2, <1>3 DEF CoverageType, Classes, Header
<1> HIDE DEF now, name, r
<1>8. (now /\ map[r.name] # <<>>) \in BOOLEAN
  OBVIOUS
<1>9. coverage' \in [Workers -> BOOLEAN] /\ seen' \in [Workers -> BOOLEAN]
  BY <1>1, <1>2, <1>6, <1>8 DEF CoverageType
<1>10. pc' \in [Workers -> WorkerPlaces] /\ row' \in [Workers -> Nat]
  BY <1>1, <1>2 DEF CoverageType, WorkerPlaces
<1>11. CoverageType'
  BY <1>1, <1>2, <1>9, <1>10 DEF CoverageType
<1>12. NameAt(row[w])' = NameAt(row'[w])
  BY <1>1 DEF NameAt
<1>13. CASE now
  <2>1. pc'[w] = "store" /\ row'[w] = row[w] /\ (seen'[w] <=> map[name] # <<>>)
    BY <1>1, <1>2, <1>5, <1>13 DEF CoverageType
  <2>2. OfTest(w)' /\ WhenFinished(w)'
    BY <1>1, <1>2, <1>3, <2>1 DEF OfTest, WhenFinished
  <2>3. InSheet(w)'
    BY <1>1, <1>2, <1>5, <1>6, <1>12, <1>13, <2>1 DEF InSheet, name
  <2>4. \A k \in 1..(row'[w] - 1) : NameAt(k) \in covers[test[w]] => Listed(NameAt(k), test[w])
    BY <1>1, <1>2, <2>1 DEF InMap
  <2>5. InMap(w)'
    BY <1>1, <1>2, <2>1, <2>4, InMapKept
  <2> QED BY <1>11, <2>2, <2>3, <2>5 DEF CoverageInv
<1>14. CASE ~now
  <2>1. pc'[w] = "row" /\ row'[w] = row[w] + 1
    BY <1>1, <1>2, <1>14 DEF CoverageType
  <2>2. OfTest(w)' /\ WhenFinished(w)'
    BY <1>1, <1>2, <1>3, <2>1 DEF OfTest, WhenFinished
  <2>3. InSheet(w)'
    BY <1>1, <1>2, <1>5, <2>1, LengthType DEF InSheet
  <2>4. ASSUME NEW k \in 1..(row'[w] - 1), NameAt(k) \in covers[test[w]] PROVE Listed(NameAt(k), test[w])
    <3>1. k \in 1..(row[w] - 1) \/ k = row[w]
      BY <1>5, <2>1
    <3>2. k # row[w]
      BY <1>6, <1>7, <1>14, <2>4 DEF name
    <3> QED BY <1>1, <1>2, <2>4, <3>1, <3>2 DEF InMap
  <2>5. InMap(w)'
    BY <1>1, <1>2, <2>1, <2>4, InMapKept
  <2> QED BY <1>11, <2>2, <2>3, <2>5 DEF CoverageInv
<1> QED BY <1>6, <1>13, <1>14

(* A list with one more test case *)
LEMMA ListedAfter ==
    ASSUME NEW s \in Seq(Tests), NEW e \in Tests
    PROVE  \A t : (\E i \in DOMAIN Append(s, e) : Append(s, e)[i] = t) <=> (t = e \/ \E i \in DOMAIN s : s[i] = t)
<1>1. /\ Append(s, e) \in Seq(Tests) /\ Len(Append(s, e)) = Len(s) + 1 /\ Len(s) \in Nat
      /\ \A i \in 1..Len(s) : Append(s, e)[i] = s[i]
      /\ Append(s, e)[Len(s) + 1] = e
  OBVIOUS
<1>2. DOMAIN s = 1..Len(s) /\ DOMAIN Append(s, e) = 1..(Len(s) + 1)
  BY <1>1
<1>3. Len(s) + 1 \in 1..(Len(s) + 1) /\ \A i \in 1..Len(s) : i \in 1..(Len(s) + 1)
  BY <1>1
<1>4. \A i \in 1..(Len(s) + 1) : i \in 1..Len(s) \/ i = Len(s) + 1
  BY <1>1
<1> QED BY <1>1, <1>2, <1>3, <1>4

LEMMA CoverageStore ==
    ASSUME NEW w, Workers = {w}, CoverageInv(w), Store(w)
    PROVE  CoverageInv(w)'
<1> DEFINE name == NameAt(row[w])
           t == test[w]
<1>1. CoverageType /\ OfTest(w) /\ InSheet(w) /\ InMap(w)
  BY DEF CoverageInv
<1>2. pc[w] = "store" /\ pc' = [pc EXCEPT ![w] = "row"]
  BY DEF Store, Goto
<1>3. t \in Tests /\ t \notin todo /\ ~failed /\ ~finished
  BY <1>2, NotFinished
<1>4. /\ row[w] \in 1..(Length - 1)
      /\ name = Header \/ name \in covers[t]
      /\ seen[w] <=> map[name] # <<>>
  BY <1>1, <1>2 DEF InSheet
<1>5. row[w] < Length
  BY <1>4, LengthType
<1>6. SheetRow(w, row[w]).name = name /\ name \in Names
  BY <1>2, <1>5, RowOfSheet
<1>7. /\ map' = [map EXCEPT ![name] = IF seen[w] THEN Append(@, t) ELSE <<t>>]
      /\ row' = [row EXCEPT ![w] = @ + 1]
      /\ UNCHANGED <<order, remote, todo, failed, test, covers, finished, mapping, agent, exec, report,
                     ownExec, ownReport, reader, lines, coverage, seen>>
  BY <1>6 DEF Store, suite, files
<1>8. map[name] \in Seq(Tests)
  BY <1>1, <1>6 DEF CoverageType
<1> HIDE DEF name, t
<1>9. (IF seen[w] THEN Append(map[name], t) ELSE <<t>>) = Append(map[name], t)
  <2>1. CASE seen[w]
    BY <2>1
  <2>2. CASE ~seen[w]
    <3>1. map[name] = <<>>
      BY <1>4, <2>2
    <3>2. Append(<<>>, t) = <<t>>
      OBVIOUS
    <3> QED BY <2>2, <3>1, <3>2
  <2> QED BY <2>1, <2>2
<1>10. map'[name] = Append(map[name], t) /\ \A c \in Names \ {name} : map'[c] = map[c]
  BY <1>1, <1>6, <1>7, <1>9 DEF CoverageType
<1>11. Append(map[name], t) \in Seq(Tests)
  BY <1>3, <1>8
<1>12. map' \in [Names -> Seq(Tests)]
  BY <1>1, <1>7, <1>9, <1>11 DEF CoverageType
<1>13. pc'[w] = "row" /\ row'[w] = row[w] + 1
  BY <1>1, <1>2, <1>7 DEF CoverageType
<1>14. CoverageType'
  BY <1>1, <1>2, <1>7, <1>12 DEF CoverageType, WorkerPlaces
<1>15. OfTest(w)' /\ WhenFinished(w)'
  BY <1>1, <1>2, <1>3, <1>7, <1>13 DEF OfTest, WhenFinished
<1>16. InSheet(w)'
  <2>1. Len(lines[w]) = Length
    BY <1>1, <1>2 DEF InSheet
  <2>2. row[w] + 1 \in 1..Length
    BY <1>4, LengthType
  <2> QED BY <1>1, <1>2, <1>7, <1>13, <2>1, <2>2 DEF InSheet
<1>17. \A c \in Names : \A u : Listed(c, u)' <=> Listed(c, u) \/ (c = name /\ u = t)
  <2> SUFFICES ASSUME NEW c \in Names, NEW u PROVE Listed(c, u)' <=> Listed(c, u) \/ (c = name /\ u = t)
    OBVIOUS
  <2>1. CASE c = name
    <3>1. (\E i \in DOMAIN map'[name] : map'[name][i] = u) <=> (u = t \/ \E i \in DOMAIN map[name] : map[name][i] = u)
      BY <1>3, <1>8, <1>10, ListedAfter
    <3>2. Listed(c, u)' <=> \E i \in DOMAIN map'[name] : map'[name][i] = u
      BY <2>1 DEF Listed
    <3>3. Listed(c, u) <=> \E i \in DOMAIN map[name] : map[name][i] = u
      BY <2>1 DEF Listed
    <3> QED BY <2>1, <3>1, <3>2, <3>3
  <2>2. CASE c # name
    BY <1>10, <2>2 DEF Listed
  <2> QED BY <2>1, <2>2
<1>18. name = Header => ~HeaderFirst
  <2> SUFFICES ASSUME name = Header, HeaderFirst PROVE FALSE
    OBVIOUS
  <2>1. NameAt(0) = Header
    BY DEF NameAt, HeaderFirst, Header
  <2>2. 0 \in 0..(Length - 1) /\ row[w] \in 0..(Length - 1) /\ row[w] # 0
    BY <1>4, LengthType
  <2> QED BY <1>1, <2>1, <2>2, NamesOfRows DEF name
<1>19. InMap(w)'
  <2>1. HeaderFirst' = HeaderFirst /\ \A k : NameAt(k)' = NameAt(k)
    BY <1>7 DEF HeaderFirst, NameAt
  <2>2. Past(w)' = Past(w) /\ \A u \in Past(w) : u \in Tests
    BY <1>2, <1>7, <1>13 DEF Past
  <2>3. \A c \in Names, u \in Tests : Listed(c, u)' => u \notin todo' /\ (c \in covers'[u] \/ (c = Header /\ ~HeaderFirst'))
    <3> SUFFICES ASSUME NEW c \in Names, NEW u \in Tests, Listed(c, u)'
                 PROVE  u \notin todo /\ (c \in covers[u] \/ (c = Header /\ ~HeaderFirst))
      BY <1>7, <2>1
    <3>1. Listed(c, u) \/ (c = name /\ u = t)
      BY <1>17
    <3> QED BY <1>1, <1>3, <1>4, <1>18, <3>1 DEF InMap
  <2>4. \A k \in 1..(Length - 1) : NameAt(k) \in Names
    <3>1. \A k \in 1..(Length - 1) : k \in 0..(Length - 1)
      BY LengthType
    <3> QED BY <1>1, <3>1, NamesOfRows
  <2>5. \A u \in Past(w) : ownExec[u] = covers[u]
    BY <1>1 DEF InMap
  <2>6. ASSUME NEW u \in Past(w), NEW k \in 1..(Length - 1), NEW c, c = NameAt(k), c \in covers[u]
        PROVE  Listed(c, u)'
    <3>1. Listed(c, u)
      BY <1>1, <2>6 DEF InMap
    <3> QED BY <1>17, <2>4, <2>6, <3>1
  <2>7. ASSUME NEW k \in 1..row[w], NEW c, c = NameAt(k), c \in covers[t]
        PROVE  Listed(c, t)
               \/ c = name
    <3>1. CASE k = row[w]
      BY <2>7, <3>1 DEF name
    <3>2. CASE k # row[w]
      <4>1. k \in 1..(row[w] - 1)
        BY <1>4, <3>2
      <4> QED BY <1>1, <1>2, <2>7, <4>1 DEF InMap, t
    <3> QED BY <3>1, <3>2
  <2>8. \A k \in 1..row[w] : k \in 1..(Length - 1)
    BY <1>4, LengthType
  <2>9. \A u : u = t => \A k \in 1..row[w] : \A c : c = NameAt(k) /\ c \in covers[u] => Listed(c, u)'
    BY <1>17, <2>4, <2>7, <2>8
  <2>10. test' = test /\ row'[w] - 1 = row[w] /\ covers' = covers /\ ownExec' = ownExec /\ todo' = todo
    BY <1>4, <1>7, <1>13
  <2>11. \A u \in Past(w)' :
          /\ ownExec'[u] = covers'[u]
          /\ \A k \in 1..(Length - 1) : \A c : c = NameAt(k)' /\ c \in covers'[u] => Listed(c, u)'
    BY <2>1, <2>2, <2>5, <2>6, <2>10
  <2>12. \A u : u = test'[w] => \A k \in 1..(row'[w] - 1) : \A c : c = NameAt(k)' /\ c \in covers'[u] => Listed(c, u)'
    BY <2>1, <2>9, <2>10 DEF t
  <2> QED BY <2>3, <2>11, <2>12 DEF InMap, Listed
<1> QED BY <1>14, <1>15, <1>16, <1>19 DEF CoverageInv

LEMMA CoverageEndTest ==
    ASSUME NEW w, Workers = {w}, CoverageInv(w), EndTest(w)
    PROVE  CoverageInv(w)'
<1>1. /\ pc[w] = "row" /\ pc' = [pc EXCEPT ![w] = "idle"] /\ row[w] >= Len(lines[w])
      /\ UNCHANGED <<order, remote, todo, failed, test, covers, finished, mapping, agent, exec, report,
                     ownExec, ownReport, reader, lines, row, coverage, seen, map>>
  BY DEF EndTest, Goto, suite, files, locals
<1>2. CoverageType /\ OfTest(w) /\ InSheet(w) /\ InMap(w)
  BY DEF CoverageInv
<1>3. test[w] \in Tests /\ ~finished
  BY <1>1, NotFinished
<1>4. CoverageType' /\ pc'[w] = "idle"
  BY <1>1, <1>2 DEF CoverageType, WorkerPlaces
<1>5. OfTest(w)' /\ InSheet(w)' /\ WhenFinished(w)'
  BY <1>1, <1>2, <1>3, <1>4 DEF OfTest, InSheet, WhenFinished
<1>6. row[w] = Length /\ ownExec[test[w]] = covers[test[w]]
  BY <1>1, <1>2, LengthType DEF InSheet, OfTest
<1>7. InMap(w)'
  <2>1. \A c, u : Listed(c, u)' <=> Listed(c, u)
    BY <1>1 DEF Listed
  <2>2. HeaderFirst' = HeaderFirst /\ \A k : NameAt(k)' = NameAt(k)
    BY <1>1 DEF HeaderFirst, NameAt
  <2>3. \A u \in Past(w)' : u \in Past(w) \/ u = test[w]
    BY <1>1 DEF Past
  <2>4. \A k \in 1..(Length - 1) : NameAt(k) \in covers[test[w]] => Listed(NameAt(k), test[w])
    BY <1>1, <1>2, <1>6 DEF InMap
  <2>5. \A u \in Past(w)' :
          /\ ownExec'[u] = covers'[u]
          /\ \A k \in 1..(Length - 1) : NameAt(k)' \in covers'[u] => Listed(NameAt(k), u)'
    BY <1>1, <1>2, <1>6, <2>1, <2>2, <2>3, <2>4 DEF InMap, Listed
  <2>6. \A c \in Names, u \in Tests : Listed(c, u)' => u \notin todo' /\ (c \in covers'[u] \/ (c = Header /\ ~HeaderFirst'))
    BY <1>1, <1>2, <2>1, <2>2 DEF InMap
  <2> QED BY <1>4, <2>5, <2>6 DEF InMap, Listed, NameAt
<1> QED BY <1>4, <1>5, <1>7 DEF CoverageInv

LEMMA CoverageFinish ==
    ASSUME NEW w, Workers = {w}, CoverageInv(w), Finish
    PROVE  CoverageInv(w)'
<1>1. /\ pc[w] = "idle" /\ (failed \/ todo = {}) /\ finished' = TRUE
      /\ UNCHANGED <<order, remote, todo, failed, pc, test, covers, agent, exec, report, ownExec, ownReport,
                     reader, lines, row, coverage, seen, map>>
  BY DEF Finish, files, locals
<1>2. CoverageType /\ OfTest(w) /\ InSheet(w) /\ InMap(w)
  BY DEF CoverageInv
<1>3. finished' \in BOOLEAN
  BY <1>1
<1>4. CoverageType'
  BY <1>1, <1>2, <1>3 DEF CoverageType
<1>5. OfTest(w)' /\ InSheet(w)'
  BY <1>1, <1>2 DEF OfTest, InSheet, NameAt
<1>6. InMap(w)'
  <2>1. Past(w)' = Past(w)
    BY <1>1 DEF Past
  <2> QED BY <1>1, <1>2, <2>1 DEF InMap, Listed, HeaderFirst, NameAt
<1>7. WrittenIsCovered'
  <2>1. CASE \A c \in Names : map[c] = <<>>
    <3>1. mapping' = {}
      BY <2>1 DEF Finish
    <3>2. \A c \in Names : DOMAIN map[c] = {}
      BY <2>1
    <3> QED BY <1>1, <3>1, <3>2 DEF WrittenIsCovered
  <2>2. CASE ~\A c \in Names : map[c] = <<>>
    <3>1. PICK first \in {c \in Names : map[c] # <<>>} : mapping' = WrittenRows(first)
      BY <2>2 DEF Finish
    <3>2. \A c \in Names : \A i \in DOMAIN map[c] : <<c, map[c][i]>> \in mapping' \/ <<c, i>> = <<first, 1>>
      <4> SUFFICES ASSUME NEW c \in Names, NEW i \in DOMAIN map[c], <<c, i>> # <<first, 1>>
                   PROVE  <<c, map[c][i]>> \in mapping'
        OBVIOUS
      <4>1. <<c, i>> \in Places \ {<<first, 1>>}
        BY DEF Places
      <4> DEFINE p == <<c, i>>
      <4>2. <<p[1], map[p[1]][p[2]]>> \in WrittenRows(first)
        BY <4>1 DEF WrittenRows
      <4> QED BY <3>1, <4>2
    <3>3. ASSUME NEW q \in mapping'
          PROVE  q[1] \in covers[q[2]] \/ (q[1] = Header /\ ~HeaderFirst)
      <4>1. PICK p \in Places : q = <<p[1], map[p[1]][p[2]]>>
        BY <3>1, <3>3 DEF WrittenRows
      <4>2. p[1] \in Names /\ p[2] \in DOMAIN map[p[1]]
        BY DEF Places
      <4>3. map[p[1]] \in Seq(Tests)
        BY <1>2, <4>2 DEF CoverageType
      <4>4. map[p[1]][p[2]] \in Tests
        BY <4>2, <4>3
      <4>5. Listed(p[1], map[p[1]][p[2]])
        BY <4>2 DEF Listed
      <4>6. q[1] = p[1] /\ q[2] = map[p[1]][p[2]]
        BY <4>1
      <4> QED BY <1>2, <4>2, <4>4, <4>5, <4>6 DEF InMap
    <3>4. \A c \in Names : \A i \in DOMAIN map[c] :
              <<c, map[c][i]>> \in mapping'
              \/ \A d \in Names : \A j \in DOMAIN map[d] : <<d, map[d][j]>> \in mapping' \/ <<d, j>> = <<c, i>>
      BY <3>2
    <3> QED BY <1>1, <3>3, <3>4 DEF WrittenIsCovered, HeaderFirst
  <2> QED BY <2>1, <2>2
<1>8. WhenFinished(w)'
  BY <1>1, <1>7 DEF WhenFinished
<1> QED BY <1>4, <1>5, <1>6, <1>8 DEF CoverageInv

LEMMA CoverageStep ==
    ASSUME NEW w, Workers = {w}, CoverageInv(w), [Next]_vars
    PROVE  CoverageInv(w)'
<1>1. CASE UNCHANGED vars
  <2>1. CoverageType'
    BY <1>1 DEF CoverageInv, CoverageType, vars
  <2>2. OfTest(w)' /\ InSheet(w)'
    BY <1>1 DEF CoverageInv, OfTest, InSheet, NameAt, vars
  <2>3. InMap(w)'
    BY <1>1 DEF CoverageInv, InMap, Past, Listed, HeaderFirst, NameAt, vars
  <2>4. WhenFinished(w)'
    BY <1>1 DEF CoverageInv, WhenFinished, WrittenIsCovered, HeaderFirst, vars
  <2> QED BY <2>1, <2>2, <2>3, <2>4 DEF CoverageInv
<1>2. CASE Next
  <2>1. \/ RunTest(w) \/ Dump(w) \/ Generate(w) \/ AntFails(w) \/ CopyExec(w) \/ CopyReport(w)
        \/ Open(w) \/ ReadLine(w) \/ LastLine(w) \/ LookUp(w) \/ Store(w) \/ EndTest(w) \/ Finish
    BY <1>2 DEF Next
  <2> QED
    BY <2>1, CoverageRunTest, CoverageFiles, CoverageAntFails, CoverageReadLine, CoverageLastLine,
       CoverageLookUp, CoverageStore, CoverageEndTest, CoverageFinish
<1> QED BY <1>1, <1>2

LEMMA CoverageInvariant ==
    ASSUME NEW w, Workers = {w}
    PROVE  TestCaseSpec => []CoverageInv(w)
<1>1. TestCaseInit => CoverageInv(w)
  BY CoverageInit DEF TestCaseInit
<1>2. CoverageInv(w) /\ [TestCaseNext]_<<part, vars, windowvars, exportvars>> => CoverageInv(w)'
  BY Parts, CoverageStep
<1> QED BY <1>1, <1>2, PTL DEF TestCaseSpec

(***************************************************************************)
(* results/ClassesVsTestCasesMapping.java and                              *)
(* util/csvToxlsConverter.java, with one thread of the data provider and   *)
(* for every application, set of test cases and iteration order of the     *)
(* HashMap: the exec file, the map of classes and the final workbook       *)
(* attribute to a test case what it has covered, but for the class in the  *)
(* workbook's first row and the one entry that writeTOExcelFromMap loses.  *)
(***************************************************************************)
THEOREM CoverageIsAttributed ==
    ASSUME NEW w, Workers = {w}
    PROVE  TestCaseSpec => []CoverageIsTrue
<1>1. ASSUME CoverageInv(w) PROVE CoverageIsTrue
  <2>1. CoverageType /\ InMap(w) /\ Mapped \subseteq Past(w)
    BY <1>1 DEF CoverageInv, Mapped, Past
  <2>2. ExecIsOwn
    BY <2>1 DEF InMap, ExecIsOwn
  <2>3. MapIsExact
    <3> SUFFICES ASSUME NEW t \in Mapped
                 PROVE  /\ \A c \in Classes : c + 1 # order[Length][1] => (Listed(c, t) <=> c \in covers[t])
                        /\ HeaderFirst => ~Listed(Header, t)
      BY DEF MapIsExact
    <3>1. t \in Tests /\ t \in Past(w)
      BY <2>1 DEF Mapped
    <3>2. HeaderFirst => ~Listed(Header, t)
      <4>1. covers[t] \subseteq Classes /\ Header \notin Classes /\ Header \in Names
        BY <2>1, <3>1 DEF CoverageType, Classes, Header, Names
      <4> QED BY <2>1, <3>1, <4>1 DEF InMap
    <3>3. ASSUME NEW c \in Classes, c + 1 # order[Length][1]
          PROVE  Listed(c, t) <=> c \in covers[t]
      <4>1. c \in Names /\ c # Header /\ c \in Nat
        BY DEF Names, Classes, Header
      <4>2. PICK k \in 0..(Length - 1) : NameAt(k) = c
        BY <2>1, <4>1, NamesOfRows
      <4>3. k # 0
        <5> SUFFICES ASSUME k = 0 PROVE FALSE
          OBVIOUS
        <5>1. order[Length][0 + 1] \in 1..Length
          BY <2>1, <4>2, NamesOfRows
        <5>2. 0 + 1 = 1
          OBVIOUS
        <5> QED BY <3>3, <4>1, <4>2, <5>1, <5>2 DEF NameAt
      <4>4. k \in 1..(Length - 1)
        BY <4>2, <4>3, LengthType
      <4> QED BY <2>1, <3>1, <4>1, <4>2, <4>4 DEF InMap
    <3> QED BY <3>2, <3>3
  <2>4. WrittenIsCovered
    BY <1>1 DEF CoverageInv, WhenFinished, WrittenIsCovered
  <2> QED BY <2>2, <2>3, <2>4 DEF CoverageIsTrue
<1> QED BY <1>1, CoverageInvariant, PTL
=============================================================================
