------------------------------ MODULE RemoteProofs ------------------------------
(***************************************************************************)
(* Proofs about Remote, for any number of programs, windows, commands,     *)
(* answers and crashes.                                                    *)
(*                                                                         *)
(* An answer does not say what it answers: that it is the right one rests  *)
(* on the lock alone.  IInv says why.  While a window is there, who is in  *)
(* the part of the code that needs the lock has it; a window that nobody   *)
(* has locked, or whose holder has no command out, has none of the three   *)
(* properties; and while the holder waits, each of the three is its own    *)
(* command's, and the last answer is the last of them.                     *)
(*                                                                         *)
(* Nobody waits for an event that has gone: News says that whoever waits   *)
(* for the lock or for an answer has the event still before it, or what it *)
(* waits for is still to happen.                                           *)
(***************************************************************************)
EXTENDS Remote, TLAPS

Commands == [client : Clients, made : Nat, n : Nat]

Places == {"idle", "select", "try", "refused", "wait", "gone"} \cup InLock

RemoteTypeOK ==
    /\ alive \subseteq AllWindows
    /\ lock \in [AllWindows -> Clients \cup {Nobody}]
    /\ command \in [AllWindows -> Commands \cup {Nobody}]
    /\ working \in [AllWindows -> Commands \cup {Nobody}]
    /\ response \in [AllWindows -> [to : Commands \cup {Nobody}, code : Finals \cup {1}] \cup {Nobody}]
    /\ pc \in [Clients -> Places]
    /\ status \in [Clients -> Finals \cup {0, 6}]
    /\ DOMAIN window = Clients
    /\ call \in [Clients -> [made : Nat, commands : Nat, done : Nat]]

\* c is in the part of the code that needs the lock of w
Holds(c, w) == pc[c] \in InLock /\ window[c] = w

\* There is nothing to read of w
Quiet(w) == command[w] = Nobody /\ working[w] = Nobody /\ response[w] = Nobody

\* c has no command out: it has not sent one, or its answer was read
NoneOut(c) == pc[c] \in {"locked", "send"} \/ (pc[c] = "finish" /\ status[c] # 6)

\* What is there of a command is in one place, and is c's
OnlyOf(c, w) ==
    /\ command[w] \in {Nobody, Mine(c)}
    /\ working[w] \in {Nobody, Mine(c)}
    /\ command[w] = Nobody \/ working[w] = Nobody
    /\ response[w] # Nobody =>
          /\ response[w].to = Mine(c)
          /\ response[w].code # 1 => command[w] = Nobody /\ working[w] = Nobody

\* A free window is quiet
FreeIsQuiet(w) == lock[w] = Nobody => Quiet(w)

\* A program in that part has the lock, and all that is there is its own
HolderIsAlone(c, w) ==
    Holds(c, w) =>
        /\ lock[w] = c
        /\ NoneOut(c) => Quiet(w)
        /\ pc[c] = "await" => OnlyOf(c, w)

WindowsAreFit == \A w \in alive : FreeIsQuiet(w) /\ \A c \in Clients : HolderIsAlone(c, w)

IInv == RemoteTypeOK /\ WindowsAreFit /\ AnswerIsOwn

LEMMA InitFits == RemoteInit => IInv
<1> SUFFICES ASSUME RemoteInit PROVE IInv
  OBVIOUS
<1>1. RemoteTypeOK
  <2>1. alive \subseteq AllWindows
    BY DEF RemoteInit, AllWindows
  <2> QED BY <2>1 DEF RemoteInit, RemoteTypeOK, Places
<1>2. WindowsAreFit
  BY <1>1 DEF RemoteInit, RemoteTypeOK, WindowsAreFit, FreeIsQuiet, HolderIsAlone, Quiet, Holds, InLock
<1>3. AnswerIsOwn
  BY DEF RemoteInit, AnswerIsOwn
<1> QED BY <1>1, <1>2, <1>3 DEF IInv

\* A step that leaves the properties alone, and takes nobody into the part of the
\* code that needs a lock, moves at most on in it without sending or reading
LEMMA Elsewhere ==
    ASSUME IInv, NEW d \in Clients,
           alive' = alive, UNCHANGED <<properties, crossed>>,
           RemoteTypeOK',
           \A c \in Clients \ {d} : pc'[c] = pc[c] /\ window'[c] = window[c] /\ status'[c] = status[c] /\ call'[c] = call[c],
           pc'[d] \notin InLock
    PROVE  IInv'
<1>1. ASSUME NEW w \in alive PROVE FreeIsQuiet(w)'
  BY <1>1 DEF IInv, WindowsAreFit, FreeIsQuiet, Quiet, properties
<1>2. ASSUME NEW w \in alive, NEW c \in Clients PROVE HolderIsAlone(c, w)'
  <2>1. CASE c = d
    BY <2>1 DEF HolderIsAlone, Holds
  <2>2. CASE c # d
    BY <1>2, <2>2 DEF IInv, WindowsAreFit, HolderIsAlone, Holds, NoneOut, OnlyOf, Quiet, Mine, properties
  <2> QED BY <2>1, <2>2
<1>3. AnswerIsOwn'
  BY DEF IInv, AnswerIsOwn
<1> QED BY <1>1, <1>2, <1>3 DEF IInv, WindowsAreFit

-----------------------------------------------------------------------------
(* Types                                                                   *)

LEMMA GoneTypes ==
    ASSUME RemoteTypeOK, NEW c \in Clients, Gone(c), UNCHANGED <<alive, properties, window, status, call>>
    PROVE  RemoteTypeOK'
  BY DEF RemoteTypeOK, Gone, Goto, Places, properties, Commands

LEMMA ClientTypes ==
    ASSUME RemoteTypeOK, NEW c \in Clients,
           (\E n \in 1 .. setup.commands : Begin(c, n)) \/ ClientStep(c) \/ Kill(c)
    PROVE  RemoteTypeOK'
<1>1. CASE \E n \in 1 .. setup.commands : Begin(c, n)
  <2> PICK n \in 1 .. setup.commands : Begin(c, n)
    BY <1>1
  <2>1. pc' \in [Clients -> Places]
    BY DEF Begin, Gone, Goto, Places, RemoteTypeOK
  <2>2. call' \in [Clients -> [made : Nat, commands : Nat, done : Nat]]
    BY DEF Begin, RemoteTypeOK
  <2> QED BY <2>1, <2>2 DEF Begin, RemoteTypeOK, properties, Commands
<1>2. CASE Select(c)
  BY <1>2, GoneTypes DEF Select, Request, RemoteTypeOK, Goto, Places, properties, locals, Commands
<1>3. CASE TryLock(c)
  BY <1>3, GoneTypes DEF TryLock, Request, RemoteTypeOK, Goto, Places, InLock, properties, locals, Commands
<1>4. CASE Sync(c)
  BY <1>4 DEF Sync, RemoteTypeOK, Goto, Places, InLock, properties, locals, Commands
<1>5. CASE Wait(c)
  BY <1>5, GoneTypes DEF Wait, RemoteTypeOK, Goto, Places, InLock, properties, locals, Commands
<1>6. CASE Send(c)
  <2>1. Mine(c) \in Commands
    BY DEF RemoteTypeOK, Mine, Commands
  <2> QED BY <1>6, <2>1, GoneTypes DEF Send, Request, RemoteTypeOK, Goto, Places, InLock, properties, locals
<1>7. CASE Await(c)
  <2>1. ASSUME NEW code \in Finals \cup {0, 6}, NEW after, Ended(c, code, after)
        PROVE  /\ pc' \in [Clients -> Places]
               /\ status' \in [Clients -> Finals \cup {0, 6}]
               /\ call' \in [Clients -> [made : Nat, commands : Nat, done : Nat]]
    BY <2>1 DEF Ended, Goto, RemoteTypeOK, Places, InLock
  <2>2. ASSUME window[c] \in alive, ReadResponse(c)
        PROVE  /\ pc' \in [Clients -> Places]
               /\ status' \in [Clients -> Finals \cup {0, 6}]
               /\ call' \in [Clients -> [made : Nat, commands : Nat, done : Nat]]
               /\ response' \in [AllWindows -> [to : Commands \cup {Nobody}, code : Finals \cup {1}] \cup {Nobody}]
    <3>1. response[window[c]] # Nobody => response[window[c]].code \in Finals \cup {1}
      BY <2>2 DEF RemoteTypeOK
    <3>2. response' \in [AllWindows -> [to : Commands \cup {Nobody}, code : Finals \cup {1}] \cup {Nobody}]
      BY <2>2 DEF ReadResponse, RemoteTypeOK
    <3>3. CASE response[window[c]] = Nobody
      BY <2>1, <2>2, <3>2, <3>3 DEF ReadResponse
    <3>4. CASE response[window[c]] # Nobody /\ response[window[c]].code = 1
      BY <2>2, <3>2, <3>4 DEF ReadResponse, RemoteTypeOK
    <3>5. CASE response[window[c]] # Nobody /\ response[window[c]].code # 1
      BY <2>1, <2>2, <3>1, <3>2, <3>5 DEF ReadResponse
    <3> QED BY <3>3, <3>4, <3>5
  <2> QED BY <1>7, <2>1, <2>2, GoneTypes DEF Await, RemoteTypeOK, properties
<1>8. CASE Finish(c)
  BY <1>8, GoneTypes DEF Finish, Request, RemoteTypeOK, Goto, Places, InLock, properties, locals, Commands
<1>9. CASE Kill(c)
  BY <1>9, GoneTypes DEF Kill, locals
<1> QED BY <1>1, <1>2, <1>3, <1>4, <1>5, <1>6, <1>7, <1>8, <1>9 DEF ClientStep

LEMMA WindowTypes ==
    ASSUME RemoteTypeOK, NEW w \in AllWindows, Accept(w) \/ Preliminary(w) \/ Final(w) \/ Destroy(w)
    PROVE  RemoteTypeOK'
<1>1. CASE Accept(w)
  BY <1>1 DEF Accept, RemoteTypeOK, locals
<1>2. ASSUME NEW code \in Finals \cup {1}, Answer(w, code) PROVE RemoteTypeOK'
  BY <1>2 DEF Answer, RemoteTypeOK, locals
<1>3. CASE Destroy(w)
  BY <1>3 DEF Destroy, RemoteTypeOK, locals
<1> QED BY <1>1, <1>2, <1>3 DEF Preliminary, Final

-----------------------------------------------------------------------------
(* The programs                                                            *)

LEMMA GoneFits ==
    ASSUME IInv, NEW c \in Clients, Gone(c), RemoteTypeOK',
           UNCHANGED <<alive, properties, crossed>>,
           \A d \in Clients \ {c} : window'[d] = window[d] /\ status'[d] = status[d] /\ call'[d] = call[d]
    PROVE  IInv'
<1>1. pc'[c] \notin InLock /\ \A d \in Clients \ {c} : pc'[d] = pc[d]
  BY DEF Gone, Goto, InLock, IInv, RemoteTypeOK
<1> QED BY <1>1, Elsewhere

LEMMA BeginFits ==
    ASSUME IInv, NEW c \in Clients, NEW n \in 1 .. setup.commands, Begin(c, n)
    PROVE  IInv'
<1>1. RemoteTypeOK'
  BY ClientTypes DEF IInv
<1>2. pc'[c] \notin InLock /\ \A d \in Clients \ {c} : pc'[d] = pc[d]
  BY DEF Begin, Gone, Goto, InLock, IInv, RemoteTypeOK
<1>3. \A d \in Clients \ {c} : window'[d] = window[d] /\ status'[d] = status[d] /\ call'[d] = call[d]
  BY DEF Begin, IInv, RemoteTypeOK
<1> QED BY <1>1, <1>2, <1>3, Elsewhere DEF Begin

\* A free window is quiet, so the one who locks it finds nothing of another's
LEMMA TryLockFits ==
    ASSUME IInv, NEW c \in Clients, TryLock(c)
    PROVE  IInv'
<1>1. RemoteTypeOK'
  BY ClientTypes DEF IInv, ClientStep
<1>2. CASE window[c] \notin alive
  BY <1>1, <1>2, GoneFits DEF TryLock, Request
<1>3. CASE window[c] \in alive /\ lock[window[c]] # Nobody
  <2>1. pc'[c] \notin InLock /\ \A d \in Clients \ {c} : pc'[d] = pc[d]
    BY <1>3 DEF TryLock, Request, Goto, InLock, IInv, RemoteTypeOK
  <2> QED BY <1>1, <1>3, <2>1, Elsewhere DEF TryLock, Request, locals, properties
<1>4. CASE window[c] \in alive /\ lock[window[c]] = Nobody
  <2>1. /\ lock' = [lock EXCEPT ![window[c]] = c]
        /\ pc' = [pc EXCEPT ![c] = "locked"]
        /\ UNCHANGED <<alive, command, working, response, window, status, call, crossed>>
    BY <1>4 DEF TryLock, Request, Goto, locals
  <2>2. ASSUME NEW w \in alive PROVE FreeIsQuiet(w)'
    BY <1>4, <2>1, <2>2, RemoteAssumption DEF IInv, RemoteTypeOK, WindowsAreFit, FreeIsQuiet, Quiet
  <2>3. ASSUME NEW w \in alive, NEW d \in Clients PROVE HolderIsAlone(d, w)'
    <3>1. CASE d = c
      BY <1>4, <2>1, <2>3, <3>1 DEF IInv, RemoteTypeOK, WindowsAreFit, FreeIsQuiet, Quiet, HolderIsAlone, Holds
    <3>2. CASE d # c
      <4>1. Holds(d, w)' <=> Holds(d, w)
        BY <2>1, <3>2 DEF Holds, IInv, RemoteTypeOK
      <4>2. Holds(d, w) => w # window[c]
        BY <1>4, <2>3, RemoteAssumption DEF IInv, WindowsAreFit, HolderIsAlone
      <4> QED BY <2>1, <2>3, <3>2, <4>1, <4>2
              DEF IInv, RemoteTypeOK, WindowsAreFit, HolderIsAlone, NoneOut, OnlyOf, Quiet, Mine
    <3> QED BY <3>1, <3>2
  <2> QED BY <1>1, <2>1, <2>2, <2>3 DEF IInv, WindowsAreFit, AnswerIsOwn
<1> QED BY <1>2, <1>3, <1>4

\* Steps that leave the properties alone, of one who has the lock or waits for it
LEMMA SyncFits ==
    ASSUME IInv, NEW c \in Clients, Sync(c)
    PROVE  IInv'
<1>1. RemoteTypeOK'
  BY ClientTypes DEF IInv, ClientStep
<1>2. UNCHANGED <<alive, lock, command, working, response, window, status, call, crossed>>
  BY DEF Sync, properties, locals
<1>3. CASE pc[c] = "refused"
  <2>1. pc'[c] \notin InLock /\ \A d \in Clients \ {c} : pc'[d] = pc[d]
    BY <1>3 DEF Sync, Goto, InLock, IInv, RemoteTypeOK
  <2> QED BY <1>1, <1>2, <2>1, Elsewhere DEF properties
<1>4. CASE pc[c] = "locked"
  <2>1. pc' = [pc EXCEPT ![c] = "send"]
    BY <1>4 DEF Sync, Goto
  <2>2. ASSUME NEW w \in alive, NEW d \in Clients PROVE FreeIsQuiet(w)' /\ HolderIsAlone(d, w)'
    BY <1>2, <1>4, <2>1, <2>2
       DEF IInv, RemoteTypeOK, WindowsAreFit, FreeIsQuiet, HolderIsAlone, Holds, NoneOut, OnlyOf, Quiet, Mine, InLock
  <2> QED BY <1>1, <1>2, <2>2 DEF IInv, WindowsAreFit, FreeIsQuiet, Quiet, AnswerIsOwn
<1> QED BY <1>3, <1>4 DEF Sync

LEMMA WaitFits ==
    ASSUME IInv, NEW c \in Clients, Wait(c)
    PROVE  IInv'
<1>1. RemoteTypeOK'
  BY ClientTypes DEF IInv, ClientStep
<1>2. pc'[c] \notin InLock /\ \A d \in Clients \ {c} : pc'[d] = pc[d]
  BY DEF Wait, Gone, Goto, InLock, IInv, RemoteTypeOK
<1> QED BY <1>1, <1>2, Elsewhere DEF Wait, locals

LEMMA SelectFits ==
    ASSUME IInv, NEW c \in Clients, Select(c)
    PROVE  IInv'
<1>1. RemoteTypeOK'
  BY ClientTypes DEF IInv, ClientStep
<1>2. pc'[c] \notin InLock /\ \A d \in Clients \ {c} : pc'[d] = pc[d]
  BY DEF Select, Request, Gone, Goto, InLock, IInv, RemoteTypeOK
<1> QED BY <1>1, <1>2, Elsewhere DEF Select, Request, locals

\* What one does at a window does not concern the holder of another, or of the same
LEMMA OthersAreAlone ==
    ASSUME IInv, NEW c \in Clients, NEW w \in alive, NEW d \in Clients \ {c},
           Holds(c, window[c]), window[c] \in alive,
           Holds(d, w) <=> Holds(d, w)',
           \A v \in alive \ {window[c]} :
               lock'[v] = lock[v] /\ command'[v] = command[v] /\ working'[v] = working[v] /\ response'[v] = response[v],
           pc'[d] = pc[d], status'[d] = status[d], call'[d] = call[d]
    PROVE  HolderIsAlone(d, w)'
<1>1. Holds(d, w) => w # window[c]
  BY DEF IInv, WindowsAreFit, HolderIsAlone
<1> QED BY <1>1 DEF IInv, WindowsAreFit, HolderIsAlone, NoneOut, OnlyOf, Quiet, Mine

LEMMA SendFits ==
    ASSUME IInv, NEW c \in Clients, Send(c)
    PROVE  IInv'
<1>1. RemoteTypeOK'
  BY ClientTypes DEF IInv, ClientStep
<1>2. CASE window[c] \notin alive
  BY <1>1, <1>2, GoneFits DEF Send, Request
<1>3. CASE window[c] \in alive
  <2>1. /\ command' = [command EXCEPT ![window[c]] = Mine(c)]
        /\ pc' = [pc EXCEPT ![c] = "await"]
        /\ UNCHANGED <<alive, lock, working, response, window, status, call, crossed>>
        /\ pc[c] = "send"
    BY <1>3 DEF Send, Request, Goto, locals
  <2>2. Holds(c, window[c]) /\ lock[window[c]] = c /\ Quiet(window[c])
    BY <1>3, <2>1 DEF IInv, WindowsAreFit, HolderIsAlone, Holds, NoneOut, InLock
  <2>3. ASSUME NEW w \in alive PROVE FreeIsQuiet(w)'
    BY <2>1, <2>2, <2>3, RemoteAssumption DEF IInv, RemoteTypeOK, WindowsAreFit, FreeIsQuiet, Quiet
  <2>4. ASSUME NEW w \in alive, NEW d \in Clients PROVE HolderIsAlone(d, w)'
    <3>1. CASE d = c
      BY <1>3, <2>1, <2>2, <2>4, <3>1 DEF IInv, RemoteTypeOK, HolderIsAlone, Holds, NoneOut, OnlyOf, Quiet, Mine
    <3>2. CASE d # c
      BY <1>3, <2>1, <2>2, <2>4, <3>2, OthersAreAlone DEF IInv, RemoteTypeOK, Holds
    <3> QED BY <3>1, <3>2
  <2> QED BY <1>1, <2>1, <2>3, <2>4 DEF IInv, WindowsAreFit, AnswerIsOwn
<1> QED BY <1>2, <1>3

\* The answer that is read is to the program's own command, and after the last one
\* there is nothing left of it; after an event that is not its answer's the
\* program leaves with status 6 and keeps the lock
LEMMA AwaitFits ==
    ASSUME IInv, NEW c \in Clients, Await(c)
    PROVE  IInv'
<1> DEFINE w0 == window[c]
<1>1. RemoteTypeOK'
  BY ClientTypes DEF IInv, ClientStep
<1>2. pc[c] = "await" /\ UNCHANGED <<alive, lock, command, working, window>>
  BY DEF Await
<1>3. CASE Gone(c) /\ UNCHANGED <<response, status, call, crossed>>
  BY <1>1, <1>2, <1>3, GoneFits DEF properties
<1>4. CASE UNCHANGED <<response, pc, status, call, crossed>>
  BY <1>1, <1>2, <1>4 DEF IInv, WindowsAreFit, FreeIsQuiet, HolderIsAlone, Holds, NoneOut, OnlyOf, Quiet, Mine, AnswerIsOwn
<1>5. ASSUME Ended(c, 6, 0), UNCHANGED <<response, crossed>>
      PROVE  IInv'
  <2>1. /\ pc' = [pc EXCEPT ![c] = "finish"]
        /\ status' = [status EXCEPT ![c] = 6]
        /\ \A d \in Clients \ {c} : call'[d] = call[d]
    BY <1>5 DEF Ended, Goto, IInv, RemoteTypeOK
  <2>2. ASSUME NEW w \in alive PROVE FreeIsQuiet(w)'
    BY <1>2, <1>5, <2>2 DEF IInv, WindowsAreFit, FreeIsQuiet, Quiet
  <2>3. ASSUME NEW w \in alive, NEW d \in Clients PROVE HolderIsAlone(d, w)'
    <3>1. CASE d = c
      BY <1>2, <2>1, <2>3, <3>1 DEF IInv, RemoteTypeOK, WindowsAreFit, HolderIsAlone, Holds, NoneOut, InLock
    <3>2. CASE d # c
      BY <1>2, <1>5, <2>1, <2>3, <3>2
         DEF IInv, RemoteTypeOK, WindowsAreFit, HolderIsAlone, Holds, NoneOut, OnlyOf, Quiet, Mine
    <3> QED BY <3>1, <3>2
  <2> QED BY <1>1, <1>2, <1>5, <2>2, <2>3 DEF IInv, WindowsAreFit, AnswerIsOwn
<1>6. ASSUME w0 \in alive, ReadResponse(c)
      PROVE  IInv'
  <2>1. Holds(c, w0) /\ lock[w0] = c /\ OnlyOf(c, w0)
    BY <1>2, <1>6 DEF IInv, WindowsAreFit, HolderIsAlone, Holds, InLock
  <2>2. response' = [response EXCEPT ![w0] = Nobody]
    BY <1>6 DEF ReadResponse
  <2>3. ~crossed'
    <3>1. CASE response[w0] = Nobody \/ response[w0].code = 1
      BY <1>6, <3>1 DEF ReadResponse, IInv, AnswerIsOwn
    <3>2. CASE response[w0] # Nobody /\ response[w0].code # 1
      <4>1. response[w0].to = Mine(c)
        BY <2>1, <3>2 DEF OnlyOf
      <4>2. crossed' = (crossed \/ response[w0].to # Mine(c))
        BY <1>6, <3>2 DEF ReadResponse
      <4> QED BY <4>1, <4>2, Zenon DEF IInv, AnswerIsOwn
    <3> QED BY <3>1, <3>2
  <2>4. \A d \in Clients \ {c} : pc'[d] = pc[d] /\ status'[d] = status[d] /\ call'[d] = call[d]
    BY <1>6 DEF ReadResponse, Ended, Goto, IInv, RemoteTypeOK
  <2>5. \/ pc'[c] = "finish" /\ status'[c] = 6
        \/ pc'[c] = "await" /\ call' = call
        \/ /\ pc'[c] \in {"send", "finish"}
           /\ command[w0] = Nobody /\ working[w0] = Nobody
    <3>1. CASE response[w0] = Nobody
      BY <1>6, <3>1 DEF ReadResponse, Ended, Goto, IInv, RemoteTypeOK
    <3>2. CASE response[w0] # Nobody /\ response[w0].code = 1
      BY <1>2, <1>6, <3>2 DEF ReadResponse
    <3>3. CASE response[w0] # Nobody /\ response[w0].code # 1
      <4>1. command[w0] = Nobody /\ working[w0] = Nobody
        BY <2>1, <3>3 DEF OnlyOf
      <4> QED BY <1>6, <3>3, <4>1 DEF ReadResponse, Ended, Goto, IInv, RemoteTypeOK
    <3> QED BY <3>1, <3>2, <3>3
  <2>6. ASSUME NEW w \in alive PROVE FreeIsQuiet(w)'
    BY <1>2, <2>2, <2>6 DEF IInv, RemoteTypeOK, WindowsAreFit, FreeIsQuiet, Quiet
  <2>7. ASSUME NEW w \in alive, NEW d \in Clients PROVE HolderIsAlone(d, w)'
    <3>1. CASE d = c /\ w = w0
      BY <1>1, <1>2, <1>6, <2>1, <2>2, <2>5, <3>1
         DEF IInv, RemoteTypeOK, HolderIsAlone, Holds, NoneOut, OnlyOf, Quiet, Mine
    <3>2. CASE d = c /\ w # w0
      BY <1>2, <3>2 DEF HolderIsAlone, Holds
    <3>3. CASE d # c
      <4>1. Holds(d, w) <=> Holds(d, w)'
        BY <1>2, <2>4, <3>3 DEF Holds
      <4> QED BY <1>2, <1>6, <2>1, <2>2, <2>4, <2>7, <3>3, <4>1, OthersAreAlone DEF IInv, RemoteTypeOK
    <3> QED BY <3>1, <3>2, <3>3
  <2> QED BY <1>1, <1>2, <2>3, <2>6, <2>7 DEF IInv, WindowsAreFit, AnswerIsOwn
<1> QED BY <1>3, <1>4, <1>5, <1>6 DEF Await

\* Whoever deletes the lock has it, and leaves nothing behind
LEMMA FinishFits ==
    ASSUME IInv, NEW c \in Clients, Finish(c)
    PROVE  IInv'
<1>1. RemoteTypeOK'
  BY ClientTypes DEF IInv, ClientStep
<1>2. CASE status[c] = 6
  <2>1. pc'[c] \notin InLock /\ \A d \in Clients \ {c} : pc'[d] = pc[d]
    BY <1>2 DEF Finish, Goto, InLock, IInv, RemoteTypeOK
  <2> QED BY <1>1, <1>2, <2>1, Elsewhere DEF Finish, locals
<1>3. CASE status[c] # 6 /\ window[c] \notin alive
  BY <1>1, <1>3, GoneFits DEF Finish, Request
<1>4. CASE status[c] # 6 /\ window[c] \in alive
  <2>1. /\ lock' = [lock EXCEPT ![window[c]] = Nobody]
        /\ pc' = [pc EXCEPT ![c] = "idle"]
        /\ UNCHANGED <<alive, command, working, response, window, status, call, crossed>>
        /\ pc[c] = "finish"
    BY <1>4 DEF Finish, Request, Goto, locals
  <2>2. Holds(c, window[c]) /\ Quiet(window[c])
    BY <1>4, <2>1 DEF IInv, WindowsAreFit, HolderIsAlone, Holds, NoneOut, InLock
  <2>3. ASSUME NEW w \in alive PROVE FreeIsQuiet(w)'
    BY <2>1, <2>2, <2>3 DEF IInv, RemoteTypeOK, WindowsAreFit, FreeIsQuiet, Quiet
  <2>4. ASSUME NEW w \in alive, NEW d \in Clients PROVE HolderIsAlone(d, w)'
    <3>1. CASE d = c
      BY <2>1, <3>1 DEF IInv, RemoteTypeOK, HolderIsAlone, Holds, InLock
    <3>2. CASE d # c
      BY <1>4, <2>1, <2>2, <2>4, <3>2, OthersAreAlone DEF IInv, RemoteTypeOK, Holds
    <3> QED BY <3>1, <3>2
  <2> QED BY <1>1, <2>1, <2>3, <2>4 DEF IInv, WindowsAreFit, AnswerIsOwn
<1> QED BY <1>2, <1>3, <1>4

LEMMA KillFits ==
    ASSUME IInv, NEW c \in Clients, Kill(c)
    PROVE  IInv'
<1>1. RemoteTypeOK'
  BY ClientTypes DEF IInv
<1> QED BY <1>1, GoneFits DEF Kill, locals

-----------------------------------------------------------------------------
(* Netscape                                                                *)

LEMMA WindowFits ==
    ASSUME IInv, NEW v \in AllWindows, Accept(v) \/ Preliminary(v) \/ Final(v) \/ Destroy(v)
    PROVE  IInv'
<1>1. RemoteTypeOK'
  BY WindowTypes DEF IInv
<1>2. CASE Accept(v)
  <2>1. ASSUME NEW w \in alive, NEW c \in Clients PROVE FreeIsQuiet(w)' /\ HolderIsAlone(c, w)'
    BY <1>2, <2>1 DEF Accept, IInv, RemoteTypeOK, WindowsAreFit, FreeIsQuiet, HolderIsAlone, Holds, NoneOut, OnlyOf, Quiet, Mine, locals
  <2>2. ASSUME NEW w \in alive PROVE FreeIsQuiet(w)'
    BY <1>2, <2>2 DEF Accept, IInv, RemoteTypeOK, WindowsAreFit, FreeIsQuiet, Quiet, locals
  <2> QED BY <1>1, <1>2, <2>1, <2>2 DEF Accept, IInv, WindowsAreFit, AnswerIsOwn
<1>3. ASSUME NEW code \in Finals \cup {1}, Answer(v, code) PROVE IInv'
  <2>1. ASSUME NEW w \in alive, NEW c \in Clients PROVE HolderIsAlone(c, w)'
    BY <1>3, <2>1 DEF Answer, IInv, RemoteTypeOK, WindowsAreFit, HolderIsAlone, Holds, NoneOut, OnlyOf, Quiet, Mine, locals
  <2>2. ASSUME NEW w \in alive PROVE FreeIsQuiet(w)'
    BY <1>3, <2>2 DEF Answer, IInv, RemoteTypeOK, WindowsAreFit, FreeIsQuiet, Quiet, locals
  <2> QED BY <1>1, <1>3, <2>1, <2>2 DEF Answer, IInv, WindowsAreFit, AnswerIsOwn
<1>4. CASE Destroy(v)
  <2>1. ASSUME NEW w \in alive', NEW c \in Clients PROVE HolderIsAlone(c, w)'
    BY <1>4, <2>1 DEF Destroy, IInv, RemoteTypeOK, WindowsAreFit, HolderIsAlone, Holds, NoneOut, OnlyOf, Quiet, Mine, locals
  <2>2. ASSUME NEW w \in alive' PROVE FreeIsQuiet(w)'
    BY <1>4, <2>2 DEF Destroy, IInv, RemoteTypeOK, WindowsAreFit, FreeIsQuiet, Quiet, locals
  <2> QED BY <1>1, <1>4, <2>1, <2>2 DEF Destroy, IInv, WindowsAreFit, AnswerIsOwn
<1> QED BY <1>2, <1>3, <1>4 DEF Preliminary, Final

-----------------------------------------------------------------------------
LEMMA NextFits == IInv /\ [RemoteNext]_remotevars => IInv'
<1> SUFFICES ASSUME IInv, [RemoteNext]_remotevars PROVE IInv'
  OBVIOUS
<1>1. CASE UNCHANGED remotevars
  BY <1>1 DEF remotevars, properties, locals, IInv, RemoteTypeOK, WindowsAreFit, FreeIsQuiet, HolderIsAlone,
              Holds, NoneOut, OnlyOf, Quiet, Mine, AnswerIsOwn
<1>2. ASSUME NEW c \in Clients, (\E n \in 1 .. setup.commands : Begin(c, n)) \/ ClientStep(c) \/ Kill(c)
      PROVE  IInv'
  BY <1>2, BeginFits, SelectFits, TryLockFits, SyncFits, WaitFits, SendFits, AwaitFits, FinishFits, KillFits
     DEF ClientStep
<1>3. ASSUME NEW v \in AllWindows, Accept(v) \/ Preliminary(v) \/ Final(v) \/ Destroy(v)
      PROVE  IInv'
  BY <1>3, WindowFits
<1> QED BY <1>1, <1>2, <1>3 DEF RemoteNext

\* The properties, the places of the programs and their counts keep their types,
\* whatever comes in between (remote.c)
THEOREM RemoteTypes == RemoteSpec => []RemoteTypeOK
<1>1. IInv => RemoteTypeOK
  BY DEF IInv
<1> QED BY <1>1, InitFits, NextFits, PTL DEF RemoteSpec

\* Whatever the order of requests and events, and however many programs are killed:
\* the answer that ends a command is the answer to it (mozilla_remote_command)
THEOREM AnswersAreOwn == RemoteSpec => []AnswerIsOwn
<1>1. IInv => AnswerIsOwn
  BY DEF IInv
<1> QED BY <1>1, InitFits, NextFits, PTL DEF RemoteSpec

-----------------------------------------------------------------------------
(* Nobody is forgotten.  Every program that looks at a window's lock, or waits *)
(* for its answer, has asked for its events first (Select), and what it waits  *)
(* for is among them from the moment it happens; an event is crossed from the  *)
(* queue only by the step that acts on it.  News is stronger than the property *)
(* in two points: the event of a destroyed window is its destruction, which is *)
(* never crossed without leaving the loop, where an answer may be; and while   *)
(* the last answer to be read is a preliminary one, Netscape is at the command *)
(* still, so that crossing the event of that answer loses nothing.             *)

Events == [kind : {"lock", "response", "destroy"}, win : AllWindows]

Listeners == {"try", "locked", "refused", "wait", "send", "await", "finish"}

\* The event e is among those that c has not read
Coming(c, e) == \E i \in DOMAIN queue[c] : queue[c][i] = e

QueuesTypeOK ==
    /\ selected \in [AllWindows -> SUBSET Clients]
    /\ queue \in [Clients -> Seq(Events)]

\* What c waits for, by where it is
Asked(c) == pc[c] \in Listeners => window[c] \in AllWindows /\ c \in selected[window[c]]

LockIsNews(c) ==
    pc[c] \in {"refused", "wait"} /\ window[c] \in alive /\ lock[window[c]] = Nobody =>
        Coming(c, Event("lock", window[c]))

AnswerIsNews(c) ==
    pc[c] = "await" /\ window[c] \in alive =>
        /\ Mine(c) \in {command[window[c]], working[window[c]]} \/ Coming(c, Event("response", window[c]))
        /\ response[window[c]] # Nobody /\ response[window[c]].code = 1 => working[window[c]] = Mine(c)

EndIsNews(c) ==
    pc[c] \in Listeners \ {"finish"} /\ window[c] \notin alive => Coming(c, Event("destroy", window[c]))

Informed(c) == Asked(c) /\ LockIsNews(c) /\ AnswerIsNews(c) /\ EndIsNews(c)

News == QueuesTypeOK /\ \A c \in Clients : Informed(c)

LEMMA InitInformed == RemoteInit => News
  BY DEF RemoteInit, News, QueuesTypeOK, Informed, Asked, LockIsNews, AnswerIsNews, EndIsNews, Listeners

\* What Told adds to a queue takes nothing from it, and those who asked have it
LEMMA ToldTells ==
    ASSUME QueuesTypeOK, NEW kind \in {"lock", "response", "destroy"}, NEW w \in AllWindows,
           queue' = Told(kind, w)
    PROVE  /\ queue' \in [Clients -> Seq(Events)]
           /\ \A c \in Clients, e \in Events : Coming(c, e) => Coming(c, e)'
           /\ \A c \in selected[w] : Coming(c, Event(kind, w))'
<1>1. Event(kind, w) \in Events
  BY DEF Event, Events
<1>2. ASSUME NEW c \in Clients
      PROVE  /\ queue'[c] \in Seq(Events)
             /\ \A e \in Events : Coming(c, e) => Coming(c, e)'
             /\ c \in selected[w] => Coming(c, Event(kind, w))'
  <2>1. CASE c \in selected[w]
    <3>1. queue'[c] = Append(queue[c], Event(kind, w)) /\ queue[c] \in Seq(Events)
      BY <2>1 DEF Told, QueuesTypeOK
    <3>2. /\ queue'[c] \in Seq(Events)
          /\ Len(queue'[c]) = Len(queue[c]) + 1
          /\ \A i \in 1 .. Len(queue[c]) : queue'[c][i] = queue[c][i]
          /\ queue'[c][Len(queue[c]) + 1] = Event(kind, w)
      BY <1>1, <3>1
    <3>3. DOMAIN queue[c] = 1 .. Len(queue[c]) /\ DOMAIN queue'[c] = 1 .. Len(queue'[c]) /\ Len(queue[c]) \in Nat
      BY <3>1, <3>2
    <3> QED BY <3>2, <3>3 DEF Coming
  <2>2. CASE c \notin selected[w]
    BY <2>2 DEF Told, QueuesTypeOK, Coming
  <2> QED BY <2>1, <2>2
<1> QED BY <1>2 DEF Told, QueuesTypeOK

\* Crossing the first event leaves the others
LEMMA TailKeeps ==
    ASSUME QueuesTypeOK, NEW c \in Clients, queue[c] # <<>>, queue' = [queue EXCEPT ![c] = Tail(@)]
    PROVE  /\ queue' \in [Clients -> Seq(Events)]
           /\ \A d \in Clients, e \in Events :
                 Coming(d, e) /\ (d = c => e # Head(queue[c])) => Coming(d, e)'
<1>1. queue[c] \in Seq(Events) /\ queue'[c] = Tail(queue[c])
  BY DEF QueuesTypeOK
<1>2. /\ queue'[c] \in Seq(Events)
      /\ Len(queue[c]) \in Nat /\ Len(queue[c]) # 0
      /\ Len(queue'[c]) = Len(queue[c]) - 1
      /\ \A i \in 1 .. Len(queue[c]) - 1 : queue'[c][i] = queue[c][i + 1]
      /\ Head(queue[c]) = queue[c][1]
  <2>1. Len(queue[c]) \in Nat /\ Len(queue[c]) # 0
    BY <1>1
  <2>2. Tail(queue[c]) \in Seq(Events) /\ Len(Tail(queue[c])) = Len(queue[c]) - 1
    BY <1>1, <2>1
  <2>3. \A i \in 1 .. Len(queue[c]) - 1 : Tail(queue[c])[i] = queue[c][i + 1]
    BY <1>1, <2>1
  <2>4. Head(queue[c]) = queue[c][1]
    BY <1>1
  <2>5. \A i \in 1 .. Len(queue[c]) - 1 : queue'[c][i] = queue[c][i + 1]
    BY <1>1, <2>3
  <2>6. queue'[c] \in Seq(Events) /\ Len(queue'[c]) = Len(queue[c]) - 1
    BY <1>1, <2>2
  <2> QED BY <2>1, <2>4, <2>5, <2>6
<1>3. ASSUME NEW e \in Events, Coming(c, e), e # Head(queue[c]) PROVE Coming(c, e)'
  <2>1. DOMAIN queue[c] = 1 .. Len(queue[c]) /\ DOMAIN queue'[c] = 1 .. Len(queue'[c])
    BY <1>1, <1>2
  <2>2. PICK i \in 1 .. Len(queue[c]) : queue[c][i] = e
    BY <1>3, <2>1 DEF Coming
  <2>3. i # 1 /\ i - 1 \in 1 .. Len(queue[c]) - 1 /\ (i - 1) + 1 = i
    BY <1>2, <1>3, <2>2
  <2>4. queue'[c][i - 1] = e
    BY <1>2, <2>2, <2>3
  <2> QED BY <1>2, <2>1, <2>3, <2>4 DEF Coming
<1>4. queue' \in [Clients -> Seq(Events)]
  BY <1>2 DEF QueuesTypeOK
<1>5. ASSUME NEW d \in Clients \ {c} PROVE queue'[d] = queue[d]
  BY DEF QueuesTypeOK
<1>6. ASSUME NEW d \in Clients, NEW e \in Events, Coming(d, e), d = c => e # Head(queue[c])
      PROVE  Coming(d, e)'
  <2>1. CASE d = c
    BY <1>3, <1>6, <2>1
  <2>2. CASE d # c
    BY <1>5, <1>6, <2>2 DEF Coming
  <2> QED BY <2>1, <2>2
<1> QED BY <1>4, <1>6

\* A program that does not move is as well informed after the step of another, if
\* no event is taken from it and the change of its window has told it
LEMMA Bystander ==
    ASSUME IInv, News, NEW d \in Clients,
           pc'[d] = pc[d], window'[d] = window[d], call'[d] = call[d],
           \A w \in AllWindows : d \in selected[w] => d \in selected'[w],
           \A e \in Events : Coming(d, e) => Coming(d, e)',
           alive' \subseteq alive,
           \A w \in alive \ alive' : d \in selected[w] => Coming(d, Event("destroy", w))',
           \A w \in alive' :
               /\ d \in selected[w] /\ lock'[w] = Nobody /\ lock[w] # Nobody => Coming(d, Event("lock", w))'
               /\ pc[d] = "await" /\ window[d] = w =>
                     \/ /\ command'[w] = command[w]
                        /\ working'[w] = working[w]
                        /\ response'[w] \in {response[w], Nobody}
                     \/ /\ Mine(d) \in {command'[w], working'[w]} \/ Coming(d, Event("response", w))'
                        /\ response'[w] # Nobody /\ response'[w].code = 1 => working'[w] = Mine(d)
    PROVE  Informed(d)'
<1> DEFINE w == window[d]
<1>1. Asked(d)'
  BY DEF News, Informed, Asked
<1>2. pc[d] \in Listeners =>
         w \in AllWindows /\ d \in selected[w] /\ \A kind \in {"lock", "response", "destroy"} : Event(kind, w) \in Events
  BY DEF News, Informed, Asked, Event, Events
<1>3. LockIsNews(d)'
  BY <1>2 DEF News, Informed, LockIsNews, Listeners
<1>4. AnswerIsNews(d)'
  BY <1>2 DEF News, Informed, AnswerIsNews, Listeners, Mine
<1>5. EndIsNews(d)'
  BY <1>2 DEF News, Informed, EndIsNews
<1> QED BY <1>1, <1>3, <1>4, <1>5 DEF Informed

\* The end of a program
LEMMA GoneInformed ==
    ASSUME IInv, News, NEW c \in Clients, Gone(c), UNCHANGED <<alive, properties>>,
           \A d \in Clients \ {c} : window'[d] = window[d] /\ call'[d] = call[d]
    PROVE  News'
<1>1. QueuesTypeOK'
  BY DEF News, QueuesTypeOK, Gone
<1>2. Informed(c)'
  BY DEF Gone, Goto, IInv, RemoteTypeOK, Informed, Asked, LockIsNews, AnswerIsNews, EndIsNews, Listeners
<1>3. ASSUME NEW d \in Clients \ {c} PROVE Informed(d)'
  <2>1. pc'[d] = pc[d] /\ queue'[d] = queue[d] /\ \A w \in AllWindows : d \in selected[w] => d \in selected'[w]
    BY DEF Gone, Goto, IInv, RemoteTypeOK, News, QueuesTypeOK
  <2>2. \A e \in Events : Coming(d, e) => Coming(d, e)'
    BY <2>1 DEF Coming
  <2> QED BY <2>1, <2>2, Bystander DEF properties
<1> QED BY <1>1, <1>2, <1>3 DEF News

\* A step of a program, seen from the others
LEMMA StepInforms ==
    ASSUME IInv, News, NEW c \in Clients, alive' = alive, QueuesTypeOK', Informed(c)',
           ASSUME NEW d \in Clients \ {c}
           PROVE  /\ pc'[d] = pc[d] /\ window'[d] = window[d] /\ call'[d] = call[d]
                  /\ \A w \in AllWindows : d \in selected[w] => d \in selected'[w]
                  /\ \A e \in Events : Coming(d, e) => Coming(d, e)'
                  /\ \A w \in alive :
                        /\ d \in selected[w] /\ lock'[w] = Nobody /\ lock[w] # Nobody => Coming(d, Event("lock", w))'
                        /\ pc[d] = "await" /\ window[d] = w =>
                              /\ command'[w] = command[w]
                              /\ working'[w] = working[w]
                              /\ response'[w] \in {response[w], Nobody}
    PROVE  News'
<1>1. ASSUME NEW d \in Clients \ {c} PROVE Informed(d)'
  BY Bystander
<1> QED BY <1>1 DEF News

LEMMA BeginInformed ==
    ASSUME IInv, News, NEW c \in Clients, NEW n \in 1 .. setup.commands, Begin(c, n)
    PROVE  News'
<1>1. \A d \in Clients \ {c} : window'[d] = window[d] /\ call'[d] = call[d]
  BY DEF Begin, IInv, RemoteTypeOK
<1>2. CASE FindWindow(c) = Nobody
  BY <1>1, <1>2, GoneInformed DEF Begin
<1>3. CASE FindWindow(c) # Nobody
  <2>1. pc' = [pc EXCEPT ![c] = "select"] /\ UNCHANGED <<alive, properties, selected, queue>>
    BY <1>3 DEF Begin, Goto
  <2>2. QueuesTypeOK' /\ Informed(c)'
    BY <2>1 DEF IInv, RemoteTypeOK, News, QueuesTypeOK, Informed, Asked, LockIsNews, AnswerIsNews, EndIsNews, Listeners
  <2>3. \A d \in Clients \ {c} : pc'[d] = pc[d] /\ \A e \in Events : Coming(d, e) => Coming(d, e)'
    BY <2>1 DEF IInv, RemoteTypeOK, Coming
  <2> QED BY <1>1, <2>1, <2>2, <2>3, StepInforms DEF properties
<1> QED BY <1>2, <1>3

LEMMA SelectInformed ==
    ASSUME IInv, News, NEW c \in Clients, Select(c)
    PROVE  News'
<1>1. CASE window[c] \notin alive
  BY <1>1, GoneInformed DEF Select, Request
<1>2. CASE window[c] \in alive
  <2>1. /\ pc' = [pc EXCEPT ![c] = "try"]
        /\ selected' = [selected EXCEPT ![window[c]] = @ \cup {c}]
        /\ UNCHANGED <<alive, properties, queue, window, call>>
    BY <1>2 DEF Select, Request, Goto, locals
  <2>2. window[c] \in AllWindows
    BY <1>2 DEF IInv, RemoteTypeOK
  <2>3. QueuesTypeOK'
    BY <2>1, <2>2 DEF News, QueuesTypeOK
  <2>4. Informed(c)'
    BY <1>2, <2>1, <2>2
       DEF IInv, RemoteTypeOK, News, QueuesTypeOK, Informed, Asked, LockIsNews, AnswerIsNews, EndIsNews
  <2>5. \A d \in Clients \ {c} :
           /\ pc'[d] = pc[d]
           /\ \A e \in Events : Coming(d, e) => Coming(d, e)'
           /\ \A w \in AllWindows : d \in selected[w] => d \in selected'[w]
    BY <2>1, <2>2 DEF IInv, RemoteTypeOK, News, QueuesTypeOK, Coming
  <2> QED BY <2>1, <2>3, <2>4, <2>5, StepInforms DEF properties
<1> QED BY <1>1, <1>2

\* Who is refused has found the lock taken
LEMMA TryLockInformed ==
    ASSUME IInv, News, NEW c \in Clients, TryLock(c)
    PROVE  News'
<1>1. CASE window[c] \notin alive
  BY <1>1, GoneInformed DEF TryLock, Request, locals
<1>2. CASE window[c] \in alive
  <2>1. /\ \/ /\ lock[window[c]] = Nobody
              /\ lock' = [lock EXCEPT ![window[c]] = c]
              /\ pc' = [pc EXCEPT ![c] = "locked"]
           \/ /\ lock[window[c]] # Nobody
              /\ lock' = lock
              /\ pc' = [pc EXCEPT ![c] = "refused"]
        /\ UNCHANGED <<alive, command, working, response, selected, queue, window, call>>
        /\ pc[c] = "try"
    BY <1>2 DEF TryLock, Request, Goto, locals
  <2>2. QueuesTypeOK'
    BY <2>1 DEF News, QueuesTypeOK
  <2>3. Informed(c)'
    BY <1>2, <2>1 DEF IInv, RemoteTypeOK, News, Informed, Asked, LockIsNews, AnswerIsNews, EndIsNews, Listeners
  <2>4. \A d \in Clients \ {c} : pc'[d] = pc[d] /\ \A e \in Events : Coming(d, e) => Coming(d, e)'
    BY <2>1 DEF IInv, RemoteTypeOK, Coming
  <2>5. \A w \in alive : lock'[w] = Nobody => lock[w] = Nobody
    BY <1>2, <2>1, RemoteAssumption DEF IInv, RemoteTypeOK
  <2> QED BY <2>1, <2>2, <2>3, <2>4, <2>5, StepInforms
<1> QED BY <1>1, <1>2

\* The lock that was refused may be free by now: then its deletion is news
LEMMA SyncInformed ==
    ASSUME IInv, News, NEW c \in Clients, Sync(c)
    PROVE  News'
<1>1. /\ \/ pc[c] = "locked" /\ pc' = [pc EXCEPT ![c] = "send"]
         \/ pc[c] = "refused" /\ pc' = [pc EXCEPT ![c] = "wait"]
      /\ UNCHANGED <<alive, lock, command, working, response, selected, queue, window, call>>
  <2>1. UNCHANGED <<alive, lock, command, working, response, selected, queue, window, call>>
    BY DEF Sync, properties, locals
  <2>2. CASE pc[c] = "locked"
    BY <2>1, <2>2 DEF Sync, Goto
  <2>3. CASE pc[c] = "refused"
    BY <2>1, <2>3 DEF Sync, Goto
  <2> QED BY <2>2, <2>3 DEF Sync
<1>2. QueuesTypeOK'
  BY <1>1 DEF News, QueuesTypeOK
<1>3. Informed(c)'
  BY <1>1 DEF IInv, RemoteTypeOK, News, Informed, Asked, LockIsNews, AnswerIsNews, EndIsNews, Listeners, Coming
<1>4. \A d \in Clients \ {c} : pc'[d] = pc[d] /\ \A e \in Events : Coming(d, e) => Coming(d, e)'
  BY <1>1 DEF IInv, RemoteTypeOK, Coming
<1> QED BY <1>1, <1>2, <1>3, <1>4, StepInforms

\* Any other event is crossed for nothing
LEMMA WaitInformed ==
    ASSUME IInv, News, NEW c \in Clients, Wait(c)
    PROVE  News'
<1> DEFINE w0 == window[c]
<1>1. CASE Head(queue[c]) = Event("destroy", w0)
  BY <1>1, GoneInformed DEF Wait, locals
<1>2. CASE Head(queue[c]) # Event("destroy", w0)
  <2>1. /\ pc[c] = "wait" /\ queue[c] # <<>>
        /\ queue' = [queue EXCEPT ![c] = Tail(@)]
        /\ \/ Head(queue[c]) = Event("lock", w0) /\ pc' = [pc EXCEPT ![c] = "try"]
           \/ Head(queue[c]) # Event("lock", w0) /\ pc' = pc
        /\ UNCHANGED <<alive, lock, command, working, response, selected, window, call>>
    BY <1>2 DEF Wait, Goto, properties, locals
  <2>2. /\ queue' \in [Clients -> Seq(Events)]
        /\ \A d \in Clients, e \in Events : Coming(d, e) /\ (d = c => e # Head(queue[c])) => Coming(d, e)'
    BY <2>1, TailKeeps DEF News
  <2>3. QueuesTypeOK'
    BY <2>1, <2>2 DEF News, QueuesTypeOK
  <2>4. w0 \in AllWindows /\ c \in selected[w0]
    BY <2>1 DEF News, Informed, Asked, Listeners
  <2>5. Event("lock", w0) \in Events /\ Event("destroy", w0) \in Events
    BY <2>4 DEF Event, Events
  <2>6. Informed(c)'
    BY <1>2, <2>1, <2>2, <2>4, <2>5
       DEF IInv, RemoteTypeOK, News, Informed, Asked, LockIsNews, AnswerIsNews, EndIsNews, Listeners
  <2>7. \A d \in Clients \ {c} : pc'[d] = pc[d]
    BY <2>1 DEF IInv, RemoteTypeOK
  <2> QED BY <2>1, <2>2, <2>3, <2>6, <2>7, StepInforms
<1> QED BY <1>1, <1>2

\* The command is there to be taken; nobody else has one at this window
LEMMA SendInformed ==
    ASSUME IInv, News, NEW c \in Clients, Send(c)
    PROVE  News'
<1>1. CASE window[c] \notin alive
  BY <1>1, GoneInformed DEF Send, Request, locals
<1>2. CASE window[c] \in alive
  <2>1. /\ command' = [command EXCEPT ![window[c]] = Mine(c)]
        /\ pc' = [pc EXCEPT ![c] = "await"]
        /\ UNCHANGED <<alive, lock, working, response, selected, queue, window, call>>
        /\ pc[c] = "send"
    BY <1>2 DEF Send, Request, Goto, locals
  <2>2. lock[window[c]] = c /\ Quiet(window[c]) /\ window[c] \in AllWindows
    BY <1>2, <2>1 DEF IInv, RemoteTypeOK, WindowsAreFit, HolderIsAlone, Holds, NoneOut, InLock
  <2>3. QueuesTypeOK'
    BY <2>1 DEF News, QueuesTypeOK
  <2>4. Mine(c)' = Mine(c) /\ command'[window[c]] = Mine(c) /\ pc'[c] = "await"
    BY <2>1, <2>2 DEF Mine, IInv, RemoteTypeOK
  <2>5. Informed(c)'
    BY <1>2, <2>1, <2>2, <2>4 DEF News, Informed, Asked, LockIsNews, AnswerIsNews, EndIsNews, Listeners, Quiet
  <2>6. ASSUME NEW d \in Clients \ {c}
        PROVE  /\ pc'[d] = pc[d]
               /\ \A e \in Events : Coming(d, e) => Coming(d, e)'
               /\ \A w \in alive : pc[d] = "await" /\ window[d] = w => command'[w] = command[w]
    <3>1. \A w \in alive : pc[d] = "await" /\ window[d] = w => w # window[c]
      BY <1>2, <2>2 DEF IInv, WindowsAreFit, HolderIsAlone, Holds, InLock
    <3> QED BY <2>1, <3>1 DEF IInv, RemoteTypeOK, Coming
  <2> QED BY <2>1, <2>3, <2>5, <2>6, StepInforms
<1> QED BY <1>1, <1>2

\* Leaving the loop, for the next command or for good
LEMMA EndedInforms ==
    ASSUME IInv, News, NEW c \in Clients, pc[c] = "await", pc'[c] \in {"send", "finish"},
           pc'[c] = "send" => window[c] \in alive,
           UNCHANGED <<alive, selected, window>>
    PROVE  Informed(c)'
  BY DEF News, Informed, Asked, LockIsNews, AnswerIsNews, EndIsNews, Listeners

\* An answer that was already read costs nothing; one that was not is the last, or
\* Netscape is at the command
LEMMA AwaitInformed ==
    ASSUME IInv, News, NEW c \in Clients, Await(c)
    PROVE  News'
<1> DEFINE w0 == window[c]
<1> DEFINE event == Head(queue[c])
<1>1. pc[c] = "await" /\ queue[c] # <<>> /\ UNCHANGED <<alive, lock, command, working, window>>
  BY DEF Await
<1>2. w0 \in AllWindows /\ c \in selected[w0]
  BY <1>1 DEF News, Informed, Asked, Listeners
<1>3. CASE event = Event("response", w0) /\ w0 \notin alive
  <2>1. Gone(c) /\ UNCHANGED <<response, call>>
    BY <1>3 DEF Await
  <2> QED BY <1>1, <2>1, GoneInformed DEF properties
<1>4. CASE ~(event = Event("response", w0) /\ w0 \notin alive)
  <2>1. queue' = [queue EXCEPT ![c] = Tail(@)] /\ UNCHANGED selected
    BY <1>4 DEF Await
  <2>2. /\ queue' \in [Clients -> Seq(Events)]
        /\ \A d \in Clients, e \in Events : Coming(d, e) /\ (d = c => e # event) => Coming(d, e)'
    BY <1>1, <2>1, TailKeeps DEF News
  <2>3. QueuesTypeOK'
    BY <2>1, <2>2 DEF News, QueuesTypeOK
  <2>4. /\ Event("response", w0) \in Events
        /\ Event("destroy", w0) \in Events
        /\ Event("response", w0) # Event("destroy", w0)
    BY <1>2 DEF Event, Events
  <2>5. response' = response \/ response' = [response EXCEPT ![w0] = Nobody]
    BY <1>4 DEF Await, ReadResponse
  <2>6. \A w \in alive : response'[w] \in {response[w], Nobody}
    BY <2>5 DEF IInv, RemoteTypeOK
  <2>7. \A d \in Clients \ {c} : pc'[d] = pc[d] /\ call'[d] = call[d]
    BY <1>4 DEF Await, ReadResponse, Ended, Goto, IInv, RemoteTypeOK
  <2>8. CASE event = Event("response", w0)
    <3>1. w0 \in alive /\ ReadResponse(c)
      BY <1>4, <2>8 DEF Await
    <3>2. CASE response[w0] # Nobody /\ response[w0].code = 1
      <4>1. UNCHANGED <<pc, call>> /\ working[w0] = Mine(c) /\ Mine(c)' = Mine(c)
        BY <1>1, <3>1, <3>2 DEF ReadResponse, News, Informed, AnswerIsNews, Mine
      <4>2. response'[w0] = Nobody
        BY <1>2, <3>1 DEF ReadResponse, IInv, RemoteTypeOK
      <4>3. Informed(c)'
        BY <1>1, <1>2, <2>1, <3>1, <4>1, <4>2 DEF Informed, Asked, LockIsNews, AnswerIsNews, EndIsNews
      <4> QED BY <1>1, <2>1, <2>2, <2>3, <2>6, <2>7, <4>3, StepInforms
    <3>3. CASE ~(response[w0] # Nobody /\ response[w0].code = 1)
      <4>1. pc'[c] \in {"send", "finish"}
        BY <3>1, <3>3 DEF ReadResponse, Ended, Goto, IInv, RemoteTypeOK
      <4>2. Informed(c)'
        BY <1>1, <2>1, <3>1, <4>1, EndedInforms
      <4> QED BY <1>1, <2>1, <2>2, <2>3, <2>6, <2>7, <4>2, StepInforms
    <3> QED BY <3>2, <3>3
  <2>9. CASE event = Event("destroy", w0)
    <3>1. pc'[c] = "finish"
      BY <1>4, <2>4, <2>9 DEF Await, Ended, Goto, IInv, RemoteTypeOK
    <3>2. Informed(c)'
      BY <1>1, <2>1, <3>1, EndedInforms
    <3> QED BY <1>1, <2>1, <2>2, <2>3, <2>6, <2>7, <3>2, StepInforms
  <2>10. CASE event # Event("response", w0) /\ event # Event("destroy", w0)
    <3>1. UNCHANGED <<response, pc, call>> /\ Mine(c)' = Mine(c)
      BY <1>4, <2>10 DEF Await, Mine
    <3>2. Informed(c)'
      BY <1>1, <1>2, <2>1, <2>2, <2>4, <2>10, <3>1
         DEF News, Informed, Asked, LockIsNews, AnswerIsNews, EndIsNews, Listeners
    <3> QED BY <1>1, <2>1, <2>2, <2>3, <2>6, <2>7, <3>2, StepInforms
  <2> QED BY <2>8, <2>9, <2>10
<1> QED BY <1>3, <1>4

\* Who frees the lock tells all that wait for it
LEMMA FinishInformed ==
    ASSUME IInv, News, NEW c \in Clients, Finish(c)
    PROVE  News'
<1> DEFINE w0 == window[c]
<1>1. pc[c] = "finish" /\ alive' = alive
  BY DEF Finish
<1>2. CASE status[c] = 6
  <2>1. pc' = [pc EXCEPT ![c] = "idle"] /\ UNCHANGED <<alive, lock, command, working, response, selected, queue, window, call>>
    BY <1>2 DEF Finish, Goto, properties, locals
  <2>2. QueuesTypeOK' /\ Informed(c)'
    BY <2>1 DEF IInv, RemoteTypeOK, News, QueuesTypeOK, Informed, Asked, LockIsNews, AnswerIsNews, EndIsNews, Listeners
  <2>3. \A d \in Clients \ {c} : pc'[d] = pc[d] /\ \A e \in Events : Coming(d, e) => Coming(d, e)'
    BY <2>1 DEF IInv, RemoteTypeOK, Coming
  <2> QED BY <2>1, <2>2, <2>3, StepInforms
<1>3. CASE status[c] # 6 /\ w0 \notin alive
  BY <1>3, GoneInformed DEF Finish, Request, locals
<1>4. CASE status[c] # 6 /\ w0 \in alive
  <2>1. /\ lock' = [lock EXCEPT ![w0] = Nobody]
        /\ queue' = IF lock[w0] = Nobody THEN queue ELSE Told("lock", w0)
        /\ pc' = [pc EXCEPT ![c] = "idle"]
        /\ UNCHANGED <<alive, command, working, response, selected, window, call>>
    BY <1>4 DEF Finish, Request, Goto, locals
  <2>2. w0 \in AllWindows
    BY <1>4 DEF IInv, RemoteTypeOK
  <2>3. /\ queue' \in [Clients -> Seq(Events)]
        /\ \A d \in Clients, e \in Events : Coming(d, e) => Coming(d, e)'
        /\ lock[w0] # Nobody => \A d \in selected[w0] : Coming(d, Event("lock", w0))'
    <3>1. CASE lock[w0] = Nobody
      BY <2>1, <3>1 DEF News, QueuesTypeOK, Coming
    <3>2. CASE lock[w0] # Nobody
      BY <2>1, <2>2, <3>2, ToldTells DEF News
    <3> QED BY <3>1, <3>2
  <2>4. QueuesTypeOK'
    BY <2>1, <2>3 DEF News, QueuesTypeOK
  <2>5. Informed(c)'
    BY <2>1 DEF IInv, RemoteTypeOK, Informed, Asked, LockIsNews, AnswerIsNews, EndIsNews, Listeners
  <2>6. \A d \in Clients \ {c} : pc'[d] = pc[d]
    BY <2>1 DEF IInv, RemoteTypeOK
  <2>7. \A w \in alive : lock'[w] = Nobody /\ lock[w] # Nobody => w = w0
    BY <2>1, <2>2 DEF IInv, RemoteTypeOK
  <2> QED BY <2>1, <2>3, <2>4, <2>5, <2>6, <2>7, StepInforms
<1> QED BY <1>2, <1>3, <1>4

LEMMA KillInformed ==
    ASSUME IInv, News, NEW c \in Clients, Kill(c)
    PROVE  News'
  BY GoneInformed DEF Kill, locals

\* Netscape takes a command, answers it, or the window is closed
LEMMA WindowInformed ==
    ASSUME IInv, News, NEW v \in AllWindows, Accept(v) \/ Preliminary(v) \/ Final(v) \/ Destroy(v)
    PROVE  News'
<1>1. CASE Accept(v)
  <2>1. /\ command[v] # Nobody /\ working[v] = Nobody
        /\ working' = [working EXCEPT ![v] = command[v]]
        /\ command' = [command EXCEPT ![v] = Nobody]
        /\ UNCHANGED <<alive, lock, response, selected, queue, pc, window, call>>
    BY <1>1 DEF Accept, locals
  <2>2. QueuesTypeOK'
    BY <2>1 DEF News, QueuesTypeOK
  <2>3. ASSUME NEW c \in Clients PROVE Informed(c)'
    <3>1. \A e \in Events : Coming(c, e) => Coming(c, e)'
      BY <2>1 DEF Coming
    <3>2. ASSUME NEW w \in alive, pc[c] = "await", window[c] = w
          PROVE  \/ command'[w] = command[w] /\ working'[w] = working[w] /\ response'[w] \in {response[w], Nobody}
                 \/ /\ Mine(c) \in {command'[w], working'[w]} \/ Coming(c, Event("response", w))'
                    /\ response'[w] # Nobody /\ response'[w].code = 1 => working'[w] = Mine(c)
      <4>1. CASE w # v
        BY <2>1, <4>1 DEF IInv, RemoteTypeOK
      <4>2. CASE w = v
        <5>1. command[w] = Mine(c)
          BY <2>1, <3>2, <4>2 DEF IInv, WindowsAreFit, HolderIsAlone, Holds, OnlyOf, InLock
        <5>2. working'[w] = Mine(c)
          BY <2>1, <4>2, <5>1 DEF IInv, RemoteTypeOK
        <5> QED BY <5>2
      <4> QED BY <4>1, <4>2
    <3> QED BY <2>1, <3>1, <3>2, Bystander
  <2> QED BY <2>2, <2>3 DEF News
<1>2. ASSUME NEW code \in Finals \cup {1}, Answer(v, code) PROVE News'
  <2>1. /\ working[v] # Nobody
        /\ response' = [response EXCEPT ![v] = [to |-> working[v], code |-> code]]
        /\ queue' = Told("response", v)
        /\ working' = [working EXCEPT ![v] = IF code = 1 THEN @ ELSE Nobody]
        /\ UNCHANGED <<alive, lock, command, selected, pc, window, call>>
    BY <1>2 DEF Answer, locals
  <2>2. /\ queue' \in [Clients -> Seq(Events)]
        /\ \A c \in Clients, e \in Events : Coming(c, e) => Coming(c, e)'
        /\ \A c \in selected[v] : Coming(c, Event("response", v))'
    BY <2>1, ToldTells DEF News
  <2>3. QueuesTypeOK'
    BY <2>1, <2>2 DEF News, QueuesTypeOK
  <2>4. ASSUME NEW c \in Clients PROVE Informed(c)'
    <3>1. ASSUME NEW w \in alive, pc[c] = "await", window[c] = w
          PROVE  \/ command'[w] = command[w] /\ working'[w] = working[w] /\ response'[w] \in {response[w], Nobody}
                 \/ /\ Mine(c) \in {command'[w], working'[w]} \/ Coming(c, Event("response", w))'
                    /\ response'[w] # Nobody /\ response'[w].code = 1 => working'[w] = Mine(c)
      <4>1. CASE w # v
        BY <2>1, <4>1 DEF IInv, RemoteTypeOK
      <4>2. CASE w = v
        <5>1. working[v] = Mine(c) /\ c \in selected[v]
          BY <2>1, <3>1, <4>2
             DEF IInv, WindowsAreFit, HolderIsAlone, Holds, OnlyOf, InLock, News, Informed, Asked, Listeners
        <5>2. Coming(c, Event("response", w))'
          BY <2>2, <4>2, <5>1
        <5>3. response'[w].code = 1 => working'[w] = Mine(c)
          BY <2>1, <4>2, <5>1 DEF IInv, RemoteTypeOK
        <5> QED BY <5>2, <5>3
      <4> QED BY <4>1, <4>2
    <3> QED BY <2>1, <2>2, <3>1, Bystander
  <2> QED BY <2>3, <2>4 DEF News
<1>3. CASE Destroy(v)
  <2>1. /\ alive' = alive \ {v}
        /\ queue' = Told("destroy", v)
        /\ lock' = [lock EXCEPT ![v] = Nobody]
        /\ command' = [command EXCEPT ![v] = Nobody]
        /\ working' = [working EXCEPT ![v] = Nobody]
        /\ response' = [response EXCEPT ![v] = Nobody]
        /\ UNCHANGED <<selected, pc, window, call>>
    BY <1>3 DEF Destroy, locals
  <2>2. /\ queue' \in [Clients -> Seq(Events)]
        /\ \A c \in Clients, e \in Events : Coming(c, e) => Coming(c, e)'
        /\ \A c \in selected[v] : Coming(c, Event("destroy", v))'
    BY <2>1, ToldTells DEF News
  <2>3. QueuesTypeOK'
    BY <2>1, <2>2 DEF News, QueuesTypeOK
  <2>4. \A w \in alive' : /\ lock'[w] = lock[w] /\ command'[w] = command[w]
                          /\ working'[w] = working[w] /\ response'[w] = response[w]
    BY <2>1 DEF IInv, RemoteTypeOK
  <2>5. ASSUME NEW c \in Clients PROVE Informed(c)'
    BY <2>1, <2>2, <2>4, Bystander
  <2> QED BY <2>3, <2>5 DEF News
<1> QED BY <1>1, <1>2, <1>3 DEF Preliminary, Final

LEMMA NextInforms == IInv /\ News /\ [RemoteNext]_remotevars => News'
<1> SUFFICES ASSUME IInv, News, [RemoteNext]_remotevars PROVE News'
  OBVIOUS
<1>1. CASE UNCHANGED remotevars
  BY <1>1 DEF remotevars, properties, locals, News, QueuesTypeOK, Informed, Asked, LockIsNews, AnswerIsNews, EndIsNews,
              Coming, Mine
<1>2. ASSUME NEW c \in Clients, (\E n \in 1 .. setup.commands : Begin(c, n)) \/ ClientStep(c) \/ Kill(c)
      PROVE  News'
  BY <1>2, BeginInformed, SelectInformed, TryLockInformed, SyncInformed, WaitInformed, SendInformed, AwaitInformed,
     FinishInformed, KillInformed
     DEF ClientStep
<1>3. ASSUME NEW v \in AllWindows, Accept(v) \/ Preliminary(v) \/ Final(v) \/ Destroy(v)
      PROVE  News'
  BY <1>3, WindowInformed
<1> QED BY <1>1, <1>2, <1>3 DEF RemoteNext

LEMMA NewsIsEnough == News => NobodyForgotten
<1> SUFFICES ASSUME News, NEW c \in Clients
             PROVE  LET events == {queue[c][i] : i \in DOMAIN queue[c]}
                        w == window[c]
                    IN
                    /\ (pc[c] \in {"refused", "wait"} /\ w \in alive /\ lock[w] = Nobody) => Event("lock", w) \in events
                    /\ (pc[c] = "await" /\ w \in alive) =>
                           Mine(c) \in {command[w], working[w]} \/ Event("response", w) \in events
                    /\ (pc[c] \in {"refused", "wait", "await"} /\ w \notin alive) =>
                           \E event \in events : event.win = w /\ event.kind # "lock"
  BY DEF NobodyForgotten
<1> DEFINE w == window[c]
<1> DEFINE events == {queue[c][i] : i \in DOMAIN queue[c]}
<1>1. \A e : Coming(c, e) <=> e \in events
  BY DEF Coming
<1>2. Event("destroy", w).win = w /\ Event("destroy", w).kind # "lock"
  BY DEF Event
<1>3. pc[c] \in {"refused", "wait"} /\ w \in alive /\ lock[w] = Nobody => Event("lock", w) \in events
  BY <1>1 DEF News, Informed, LockIsNews
<1>4. pc[c] = "await" /\ w \in alive => Mine(c) \in {command[w], working[w]} \/ Event("response", w) \in events
  BY <1>1 DEF News, Informed, AnswerIsNews
<1>5. pc[c] \in {"refused", "wait", "await"} /\ w \notin alive => Event("destroy", w) \in events
  BY <1>1 DEF News, Informed, EndIsNews, Listeners
<1> QED BY <1>2, <1>3, <1>4, <1>5

\* Whatever is closed, killed or answered while a program is between two requests:
\* what it waits for in mozilla_remote_obtain_lock and mozilla_remote_command is still
\* to come, or is among the events it has not read
THEOREM NobodyIsForgotten == RemoteSpec => []NobodyForgotten
<1>1. RemoteInit => IInv /\ News
  BY InitFits, InitInformed
<1>2. IInv /\ News /\ [RemoteNext]_remotevars => (IInv /\ News)'
  BY NextFits, NextInforms
<1>3. IInv /\ News => NobodyForgotten
  BY NewsIsEnough
<1> QED BY <1>1, <1>2, <1>3, PTL DEF RemoteSpec
=============================================================================
