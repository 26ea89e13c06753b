--------------------------------- MODULE Remote ---------------------------------
(***************************************************************************)
(* remote.c: the programs that hand commands to a running Netscape, webspy *)
(* among them, through properties of its window.  Whoever writes a command *)
(* holds the lock, a property too; the answer comes in a third one, and    *)
(* every program that has asked for the events of the window is told of    *)
(* each change, whether it is reading its events or not.                   *)
(*                                                                         *)
(* One action is one request to the X server or one event crossed from the   *)
(* queue; the server is grabbed from the look at the lock to its change.   *)
(* A request for a window that is gone ends the program (Xlib's default).  *)
(***************************************************************************)
EXTENDS Integers, Sequences, FiniteSets

CONSTANTS
    Clients,        \* the programs: webspy, netscape-remote
    Setups,         \* what to start with, and the bounds, see below
    Wanted,         \* Wanted[c]: expected_mozilla_version
    Finals,         \* the answers that end a command: 2 done, 4 and 5 failed
    Nobody          \* no property, no window, no command

ASSUME RemoteAssumption == Nobody \notin Clients

(* A setup: screen, the windows from the top, each with its version; and the *)
(* bounds: calls[c], the calls of mozilla_remote_commands by a program,      *)
(* commands, those of a call, preliminary, the answers 1xx in a behaviour,   *)
(* and crashes, the programs that are killed.                                *)

VARIABLES
    setup,          \* the setup of this behaviour
    alive,          \* the windows that are there
    lock,           \* lock[w]: who has written _MOZILLA_LOCK
    command,        \* command[w]: _MOZILLA_COMMAND
    working,        \* working[w]: what Netscape is doing, and its last answer
    response,       \* response[w]: _MOZILLA_RESPONSE, an answer to a command
    selected,       \* selected[w]: the programs that get its events
    queue,          \* queue[c]: events that have come and were not read
    pc,             \* pc[c]: where in mozilla_remote_commands it is
    window, status, \* window[c], status[c]: its local variables
    call,           \* call[c]: how many calls it has made, of how many commands, and
                    \* how many of them are done
    crossed,        \* history: the answer to a command has ended another one
    preliminary, crashes  \* history: counted for the bounds

properties == <<lock, command, working, response>>
locals == <<window, status, call>>
bounds == <<setup, preliminary, crashes>>
remotevars == <<alive, properties, selected, queue, pc, locals, crossed, bounds>>

AllWindows == UNION {{s.screen[i].win : i \in DOMAIN s.screen} : s \in Setups}

\* mozilla_remote_find_window: from the top, a window of another version is kept in
\* case nothing better comes, and the next one is crossed, whatever its version
FindWindow(c) ==
    LET screen == {i \in DOMAIN setup.screen : setup.screen[i].win \in alive}
        other == {i \in screen : setup.screen[i].version # Wanted[c]}
        tentative == {i \in other : \A j \in other : i <= j}
        result == IF screen \subseteq tentative THEN tentative ELSE screen \ tentative
    IN
    IF screen = {} THEN Nobody
    ELSE setup.screen[CHOOSE i \in result : \A j \in result : i <= j].win

RemoteInit ==
    /\ setup \in Setups
    /\ alive = {setup.screen[i].win : i \in DOMAIN setup.screen}
    /\ lock = [w \in AllWindows |-> Nobody]
    /\ command = [w \in AllWindows |-> Nobody]
    /\ working = [w \in AllWindows |-> Nobody]
    /\ response = [w \in AllWindows |-> Nobody]
    /\ selected = [w \in AllWindows |-> {}]
    /\ queue = [c \in Clients |-> <<>>]
    /\ pc = [c \in Clients |-> "idle"]
    /\ window = [c \in Clients |-> Nobody]
    /\ status = [c \in Clients |-> 0]
    /\ call = [c \in Clients |-> [made |-> 0, commands |-> 0, done |-> 0]]
    /\ crossed = FALSE
    /\ preliminary = 0
    /\ crashes = 0

Goto(c, place) == pc' = [pc EXCEPT ![c] = place]

\* The program ends, and with it its connection to the X server
Gone(c) ==
    /\ Goto(c, "gone")
    /\ selected' = [w \in AllWindows |-> selected[w] \ {c}]
    /\ queue' = [queue EXCEPT ![c] = <<>>]

\* A request for the program's window: answered, or BadWindow
Request(c, effect) ==
    IF window[c] \in alive THEN effect
    ELSE Gone(c) /\ UNCHANGED <<properties, window, status, call, crossed>>

\* The server sends an event to the programs that have selected the window's
Event(kind, w) == [kind |-> kind, win |-> w]

Told(kind, w) ==
    [c \in Clients |-> IF c \in selected[w] THEN Append(queue[c], Event(kind, w)) ELSE queue[c]]

\* mozilla_remote_commands is called, and has found a window
Begin(c, n) ==
    /\ pc[c] = "idle"
    /\ call[c].made < setup.calls[c]
    /\ call' = [call EXCEPT ![c] = [made |-> @.made + 1, commands |-> n, done |-> 0]]
    /\ status' = [status EXCEPT ![c] = 0]
    /\ window' = [window EXCEPT ![c] = FindWindow(c)]
    /\ IF FindWindow(c) = Nobody THEN Gone(c)
       ELSE Goto(c, "select") /\ UNCHANGED <<selected, queue>>
    /\ UNCHANGED <<alive, properties, crossed, bounds>>

\* XSelectInput
Select(c) ==
    /\ pc[c] = "select"
    /\ Request(c, /\ selected' = [selected EXCEPT ![window[c]] = @ \cup {c}]
                  /\ Goto(c, "try")
                  /\ UNCHANGED <<properties, queue, locals, crossed>>)
    /\ UNCHANGED <<alive, bounds>>

\* mutant: the lock is written whoever holds it
TryLockAnyway(c) ==
    /\ pc[c] = "try"
    /\ Request(c, /\ lock' = [lock EXCEPT ![window[c]] = c]
                  /\ Goto(c, "locked")
                  /\ UNCHANGED <<command, working, response, selected, queue, locals, crossed>>)
    /\ UNCHANGED <<alive, bounds>>

\* mozilla_remote_obtain_lock, while the server is grabbed
TryLock(c) ==
    /\ pc[c] = "try"
    /\ Request(c, /\ IF lock[window[c]] = Nobody
                     THEN lock' = [lock EXCEPT ![window[c]] = c] /\ Goto(c, "locked")
                     ELSE Goto(c, "refused") /\ UNCHANGED lock
                  /\ UNCHANGED <<command, working, response, selected, queue, locals, crossed>>)
    /\ UNCHANGED <<alive, bounds>>

\* mutant: XSync throws away the events that have come
SyncDiscards(c) ==
    /\ pc[c] \in {"locked", "refused"}
    /\ Goto(c, IF pc[c] = "locked" THEN "send" ELSE "wait")
    /\ queue' = [queue EXCEPT ![c] = <<>>]
    /\ UNCHANGED <<alive, properties, selected, locals, crossed, bounds>>

\* XSync after the server was let go
Sync(c) ==
    /\ pc[c] \in {"locked", "refused"}
    /\ Goto(c, IF pc[c] = "locked" THEN "send" ELSE "wait")
    /\ UNCHANGED <<alive, properties, selected, queue, locals, crossed, bounds>>

\* The next event while it waits for the lock
Wait(c) ==
    /\ pc[c] = "wait"
    /\ queue[c] # <<>>
    /\ IF Head(queue[c]) = Event("destroy", window[c]) THEN Gone(c)
       ELSE /\ queue' = [queue EXCEPT ![c] = Tail(@)]
            /\ IF Head(queue[c]) = Event("lock", window[c]) THEN Goto(c, "try") ELSE UNCHANGED pc
            /\ UNCHANGED selected
    /\ UNCHANGED <<alive, properties, locals, crossed, bounds>>

\* The command that a program is at
Mine(c) == [client |-> c, made |-> call[c].made, n |-> call[c].done + 1]

\* mozilla_remote_command writes the property
Send(c) ==
    /\ pc[c] = "send"
    /\ Request(c, /\ command' = [command EXCEPT ![window[c]] = Mine(c)]
                  /\ Goto(c, "await")
                  /\ UNCHANGED <<lock, working, response, selected, queue, locals, crossed>>)
    /\ UNCHANGED <<alive, bounds>>

\* What the answer makes of status and of the loop over the commands
Ended(c, code, after) ==
    /\ status' = [status EXCEPT ![c] = code]
    /\ call' = [call EXCEPT ![c].done = @ + 1]
    /\ Goto(c, IF code # 0 \/ after = call[c].commands THEN "finish" ELSE "send")

\* The answer is read and deleted; one that is not there is as bad as no window
ReadResponse(c) ==
    LET answer == response[window[c]] IN
    /\ response' = [response EXCEPT ![window[c]] = Nobody]
    /\ IF answer = Nobody THEN Ended(c, 6, 0) /\ UNCHANGED crossed
       ELSE IF answer.code = 1 THEN UNCHANGED <<status, call, pc, crossed>>
       ELSE /\ Ended(c, IF answer.code = 2 THEN 0 ELSE answer.code, call[c].done + 1)
            /\ crossed' = (crossed \/ answer.to # Mine(c))

\* The next event while it waits for the answer
Await(c) ==
    /\ pc[c] = "await"
    /\ queue[c] # <<>>
    /\ LET event == Head(queue[c]) IN
       IF event = Event("response", window[c]) /\ window[c] \notin alive
       THEN Gone(c) /\ UNCHANGED <<response, status, call, crossed>>
       ELSE /\ queue' = [queue EXCEPT ![c] = Tail(@)]
            /\ UNCHANGED selected
            /\ IF event = Event("response", window[c]) THEN ReadResponse(c)
               ELSE IF event = Event("destroy", window[c])
               THEN Ended(c, 6, 0) /\ UNCHANGED <<response, crossed>>
               ELSE UNCHANGED <<response, pc, status, call, crossed>>
    /\ UNCHANGED <<alive, lock, command, working, window, bounds>>

\* The end of mozilla_remote_commands: the lock is read and deleted, whosever it is,
\* unless the status says that there is no window
Finish(c) ==
    LET w == window[c] IN
    /\ pc[c] = "finish"
    /\ IF status[c] = 6 THEN Goto(c, "idle") /\ UNCHANGED <<properties, selected, queue, locals, crossed>>
       ELSE Request(c, /\ lock' = [lock EXCEPT ![w] = Nobody]
                       /\ queue' = IF lock[w] = Nobody THEN queue ELSE Told("lock", w)
                       /\ Goto(c, "idle")
                       /\ UNCHANGED <<command, working, response, selected, locals, crossed>>)
    /\ UNCHANGED <<alive, bounds>>

\* A program is killed; what it has written stays
Kill(c) ==
    /\ pc[c] # "gone"
    /\ crashes < setup.crashes
    /\ crashes' = crashes + 1
    /\ Gone(c)
    /\ UNCHANGED <<alive, properties, locals, crossed, setup, preliminary>>

\* Netscape takes the command of one of its windows
Accept(w) ==
    /\ w \in alive
    /\ command[w] # Nobody
    /\ working[w] = Nobody
    /\ working' = [working EXCEPT ![w] = command[w]]
    /\ command' = [command EXCEPT ![w] = Nobody]
    /\ UNCHANGED <<alive, lock, response, selected, queue, pc, locals, crossed, bounds>>

\* It answers, and has more to say or not
Answer(w, code) ==
    /\ w \in alive
    /\ working[w] # Nobody
    /\ response' = [response EXCEPT ![w] = [to |-> working[w], code |-> code]]
    /\ queue' = Told("response", w)
    /\ working' = [working EXCEPT ![w] = IF code = 1 THEN @ ELSE Nobody]
    /\ UNCHANGED <<alive, lock, command, selected, pc, locals, crossed, setup, crashes>>

Preliminary(w) ==
    /\ preliminary < setup.preliminary
    /\ preliminary' = preliminary + 1
    /\ Answer(w, 1)

Final(w) == (\E code \in Finals : Answer(w, code)) /\ UNCHANGED preliminary

\* The user closes a window
Destroy(w) ==
    /\ w \in alive
    /\ alive' = alive \ {w}
    /\ lock' = [lock EXCEPT ![w] = Nobody]
    /\ command' = [command EXCEPT ![w] = Nobody]
    /\ working' = [working EXCEPT ![w] = Nobody]
    /\ response' = [response EXCEPT ![w] = Nobody]
    /\ queue' = Told("destroy", w)
    /\ UNCHANGED <<selected, pc, locals, crossed, bounds>>

ClientStep(c) == Select(c) \/ TryLock(c) \/ Sync(c) \/ Wait(c) \/ Send(c) \/ Await(c) \/ Finish(c)

RemoteNext ==
    \/ \E c \in Clients :
        \/ \E n \in 1 .. setup.commands : Begin(c, n)
        \/ ClientStep(c)
        \/ Kill(c)
    \/ \E w \in AllWindows : Accept(w) \/ Preliminary(w) \/ Final(w) \/ Destroy(w)

\* The programs and Netscape go on; nobody has to call or to be killed
RemoteFairness ==
    /\ \A c \in Clients : WF_remotevars(ClientStep(c))
    /\ \A w \in AllWindows : WF_remotevars(Accept(w)) /\ WF_remotevars(Final(w))

RemoteSpec == RemoteInit /\ [][RemoteNext]_remotevars /\ RemoteFairness

-----------------------------------------------------------------------------
InLock == {"locked", "send", "await", "finish"}

\* A command is only ever ended by the answer to that command, not by one to another
\* command or program, although all of them share the property and its events and
\* read events that are older than their command.
AnswerIsOwn == ~crossed

\* Nobody waits for what has already happened: who waits for a lock that is free has
\* its deletion among the events to come, who waits for an answer has it there or
\* Netscape has still to give it, and whose window is gone will read of that.
NobodyForgotten ==
    \A c \in Clients :
        LET events == {queue[c][i] : i \in DOMAIN queue[c]}
            w == window[c]
        IN
        /\ (pc[c] \in {"refused", "wait"} /\ w \in alive /\ lock[w] = Nobody) => Event("lock", w) \in events
        /\ (pc[c] = "await" /\ w \in alive) =>
               Mine(c) \in {command[w], working[w]} \/ Event("response", w) \in events
        /\ (pc[c] \in {"refused", "wait", "await"} /\ w \notin alive) =>
               \E event \in events : event.win = w /\ event.kind # "lock"

\* Every call comes to an end, unless the lock is kept by a program that does not use
\* it: one that was killed, or one that has left with status 6.
EveryCallReturns ==
    \A c \in Clients :
        pc[c] = "try" ~> \/ pc[c] \in {"idle", "gone"}
                         \/ \E d \in Clients : lock[window[c]] = d /\ pc[d] \notin InLock

\* "When status = 6, it means the window has been destroyed" (remote.c:537).  It also
\* means that the response of an event is gone, read and deleted with an earlier one.
SixIsDestroyed == \A c \in Clients : status[c] = 6 => window[c] \notin alive
=============================================================================
