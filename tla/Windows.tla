-------------------------------- MODULE Windows --------------------------------
(***************************************************************************)
(* The windows of the test cases' browsers: the keywords SWITCHTOWINDOW,   *)
(* NEWWINDOW and CLOSEWINDOW of framework/Window.java and the closeWindow  *)
(* of suiteExecution's finally block (framework/TestSuite.java).           *)
(*                                                                         *)
(* Every test case has a browser of its own, but winHandleBefore, the      *)
(* window to go back to, is one static variable of the run: the workers    *)
(* share it, and a test case finds what the one before has left in it.     *)
(*                                                                         *)
(* A handle is <<t, n>>: the n-th window that test case t's browser has    *)
(* opened.  What a page does by itself (opening and closing windows) and   *)
(* what the browser makes of CONTROL+t are the environment's choices.      *)
(***************************************************************************)
EXTENDS Naturals, FiniteSets

CONSTANTS
    Tests,      \* test cases
    Threads,    \* data-provider-thread-count
    MaxWindows  \* bound: windows that a browser opens in all

None == <<>>
Numbers == 1..MaxWindows

VARIABLES
    winHandleBefore,  \* Window.winHandleBefore, None for null
    pc,               \* where each test case is
    windows,          \* the handles of its browser, by their numbers
    opened,           \* windows opened so far
    current,          \* the window that its driver is switched to
    from,             \* the window in which its last window keyword began
    left,             \* windows that the keyword's loop has still to look at
    keyword,          \* that keyword
    result,           \* "none", "ok", "failed" by a step, "lost" by closeWindow
    strayed           \* history: a window keyword has been used, or a page has
                      \* closed the window its driver was in

vars == <<winHandleBefore, pc, windows, opened, current, from, left, keyword, result, strayed>>
loop == <<from, left, keyword>>

Init ==
    /\ winHandleBefore = None
    /\ pc = [t \in Tests |-> "todo"]
    /\ windows = [t \in Tests |-> {}]
    /\ opened = [t \in Tests |-> 0]
    /\ current = [t \in Tests |-> 0]
    /\ from = [t \in Tests |-> 0]
    /\ left = [t \in Tests |-> {}]
    /\ keyword = [t \in Tests |-> "none"]
    /\ result = [t \in Tests |-> "none"]
    /\ strayed = FALSE

\* Driver.isSessionAvailable, and what every driver command needs
Available(t) == current[t] \in windows[t]

Goto(t, place) == pc' = [pc EXCEPT ![t] = place]

-----------------------------------------------------------------------------
(* The browser                                                             *)

Begin(t) ==
    /\ pc[t] = "todo"
    /\ Cardinality({u \in Tests : pc[u] \notin {"todo", "ended"}}) < Threads
    /\ Goto(t, "script")
    /\ windows' = [windows EXCEPT ![t] = {1}]
    /\ opened' = [opened EXCEPT ![t] = 1]
    /\ current' = [current EXCEPT ![t] = 1]
    /\ UNCHANGED <<winHandleBefore, loop, result, strayed>>

\* the page opens a window
PageOpens(t) ==
    /\ pc[t] = "script" /\ windows[t] # {} /\ opened[t] < MaxWindows
    /\ opened' = [opened EXCEPT ![t] = @ + 1]
    /\ windows' = [windows EXCEPT ![t] = @ \cup {opened'[t]}]
    /\ UNCHANGED <<winHandleBefore, pc, current, loop, result, strayed>>

\* the page closes one of its windows
PageCloses(t) ==
    /\ pc[t] = "script"
    /\ \E n \in windows[t] :
          /\ windows' = [windows EXCEPT ![t] = @ \ {n}]
          /\ strayed' = (strayed \/ n = current[t])
    /\ UNCHANGED <<winHandleBefore, pc, opened, current, loop, result>>

-----------------------------------------------------------------------------
(* SWITCHTOWINDOW and NEWWINDOW                                            *)

\* a step fails: its exception ends the script
StepFails(t) ==
    /\ pc[t] = "script"
    /\ Goto(t, "finally")
    /\ result' = [result EXCEPT ![t] = "failed"]
    /\ UNCHANGED <<winHandleBefore, windows, opened, current, loop, strayed>>

\* the loop over the handles that getWindowHandles returned
BeginLoop(t, name) ==
    /\ Goto(t, "switching")
    /\ from' = [from EXCEPT ![t] = current[t]]
    /\ left' = [left EXCEPT ![t] = windows[t]]
    /\ keyword' = [keyword EXCEPT ![t] = name]

\* switchToWindow: an only window is closed
SwitchToWindow(t) ==
    /\ pc[t] = "script" /\ Available(t)
    /\ winHandleBefore' = <<t, current[t]>>
    /\ strayed' = TRUE
    /\ IF Cardinality(windows[t]) < 2
       THEN /\ windows' = [windows EXCEPT ![t] = {}]
            /\ Goto(t, "finally")
            /\ result' = [result EXCEPT ![t] = "failed"]
            /\ UNCHANGED loop
       ELSE BeginLoop(t, "SWITCHTOWINDOW") /\ UNCHANGED <<windows, result>>
    /\ UNCHANGED <<opened, current>>

\* newWindow: the handles are those from before CONTROL+t, which is sent twice
NewWindow(t) ==
    /\ pc[t] = "script" /\ Available(t)
    /\ winHandleBefore' = <<t, current[t]>>
    /\ strayed' = TRUE
    /\ BeginLoop(t, "NEWWINDOW")
    /\ \E more \in 0..2 :
          /\ opened[t] + more <= MaxWindows
          /\ opened' = [opened EXCEPT ![t] = @ + more]
          /\ windows' = [windows EXCEPT ![t] = @ \cup (opened[t] + 1)..(opened[t] + more)]
    /\ UNCHANGED <<current, result>>

\* one round of the loop, over the handles in the order of opening; it reads the
\* static variable again
LookAt(t) ==
    /\ pc[t] = "switching"
    /\ \E n \in left[t] :
          /\ \A m \in left[t] : n <= m
          /\ current' = IF <<t, n>> # winHandleBefore THEN [current EXCEPT ![t] = n] ELSE current
          /\ left' = [left EXCEPT ![t] = @ \ {n}]
    /\ UNCHANGED <<winHandleBefore, pc, windows, opened, from, keyword, result, strayed>>

EndLoop(t) ==
    /\ pc[t] = "switching" /\ left[t] = {}
    /\ Goto(t, "script")
    /\ UNCHANGED <<winHandleBefore, windows, opened, current, loop, result, strayed>>

-----------------------------------------------------------------------------
(* closeWindow                                                             *)

\* it returns to the script or ends the test case
Returned(t) == IF pc[t] \in {"script", "back"} THEN "script" ELSE "ended"

Ended(t) == IF pc[t] \in {"script", "back"} \/ result[t] # "none" THEN result[t] ELSE "ok"

\* mutant: close() instead of quit()
CloseReturnsOpen(t) ==
    /\ pc[t] \in {"script", "finally"}
    /\ ~Available(t) \/ winHandleBefore = None
    /\ windows' = [windows EXCEPT ![t] = @ \ {current[t]}]
    /\ Goto(t, Returned(t))
    /\ result' = [result EXCEPT ![t] = Ended(t)]
    /\ UNCHANGED <<winHandleBefore, opened, current, loop, strayed>>

\* a closeWindow that has no session, or that quits the browser
CloseReturns(t) ==
    /\ pc[t] \in {"script", "finally"}
    /\ ~Available(t) \/ winHandleBefore = None
    /\ windows' = [windows EXCEPT ![t] = IF Available(t) THEN {} ELSE @]
    /\ Goto(t, Returned(t))
    /\ result' = [result EXCEPT ![t] = Ended(t)]
    /\ UNCHANGED <<winHandleBefore, opened, current, loop, strayed>>

\* close() with a window to go back to
CloseChild(t) ==
    /\ pc[t] \in {"script", "finally"}
    /\ Available(t) /\ winHandleBefore # None
    /\ windows' = [windows EXCEPT ![t] = @ \ {current[t]}]
    /\ Goto(t, IF pc[t] = "script" THEN "back" ELSE "backFinally")
    /\ UNCHANGED <<winHandleBefore, opened, current, loop, result, strayed>>

IsOwn(t) == winHandleBefore # None /\ winHandleBefore[1] = t /\ winHandleBefore[2] \in windows[t]

\* mutant: the variable keeps its window
GoBackKeeping(t) ==
    /\ pc[t] \in {"back", "backFinally"}
    /\ IsOwn(t)
    /\ current' = [current EXCEPT ![t] = winHandleBefore[2]]
    /\ Goto(t, Returned(t))
    /\ result' = [result EXCEPT ![t] = Ended(t)]
    /\ UNCHANGED <<winHandleBefore, windows, opened, loop, strayed>>

\* switchTo().window(winHandleBefore), then null
GoBack(t) ==
    /\ pc[t] \in {"back", "backFinally"}
    /\ IsOwn(t)
    /\ current' = [current EXCEPT ![t] = winHandleBefore[2]]
    /\ winHandleBefore' = None
    /\ Goto(t, Returned(t))
    /\ result' = [result EXCEPT ![t] = Ended(t)]
    /\ UNCHANGED <<windows, opened, loop, strayed>>

\* the window is not one of this browser's: the exception leaves the variable
\* as it is, and in the finally block it takes the place of any other
CannotGoBack(t) ==
    /\ pc[t] \in {"back", "backFinally"}
    /\ ~IsOwn(t)
    /\ Goto(t, IF pc[t] = "back" THEN "finally" ELSE "ended")
    /\ result' = [result EXCEPT ![t] = "lost"]
    /\ UNCHANGED <<winHandleBefore, windows, opened, current, loop, strayed>>

\* iterateRows returns
EndScript(t) ==
    /\ pc[t] = "script"
    /\ Goto(t, "finally")
    /\ UNCHANGED <<winHandleBefore, windows, opened, current, loop, result, strayed>>

-----------------------------------------------------------------------------
Next ==
    \E t \in Tests :
       \/ Begin(t) \/ PageOpens(t) \/ PageCloses(t) \/ StepFails(t)
       \/ SwitchToWindow(t) \/ NewWindow(t) \/ LookAt(t) \/ EndLoop(t)
       \/ CloseReturns(t) \/ CloseChild(t) \/ GoBack(t) \/ CannotGoBack(t)
       \/ EndScript(t)

Spec == Init /\ [][Next]_vars

-----------------------------------------------------------------------------
(* Properties                                                              *)

TypeOK ==
    /\ winHandleBefore \in {None} \cup (Tests \X Numbers)
    /\ pc \in [Tests -> {"todo", "script", "switching", "back", "finally", "backFinally", "ended"}]
    /\ \A t \in Tests :
          /\ windows[t] \subseteq 1..opened[t] /\ left[t] \subseteq 1..opened[t]
          /\ opened[t] \in 0..MaxWindows
          /\ current[t] \in 0..opened[t]
          /\ result[t] \in {"none", "ok", "failed", "lost"}
          /\ pc[t] = "ended" => result[t] # "none"
    /\ strayed \in BOOLEAN

(***************************************************************************)
(* As long as no test case of the run has used a window keyword and no     *)
(* page has closed the window its driver was in, closeWindow leaves no     *)
(* window open and is no test case's failure.                              *)
(***************************************************************************)
NothingLeftOpen ==
    ~strayed => \A t \in Tests : pc[t] = "ended" => windows[t] = {} /\ result[t] # "lost"

(***************************************************************************)
(* When a test case has passed and closeWindow had a window to go back to, *)
(* the variable is null again: a test case that ends well hands no window  *)
(* on to the next.                                                         *)
(***************************************************************************)
PassedHandsNothingOn ==
    [][\A t \in Tests :
          (pc[t] = "backFinally" /\ pc'[t] = "ended" /\ result'[t] = "ok")
              => winHandleBefore' = None]_vars

=============================================================================
