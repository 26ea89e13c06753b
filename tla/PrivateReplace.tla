----------------------------- MODULE PrivateReplace -----------------------------
(***************************************************************************)
(* What ReplaceMacro.replace promises its callers: a call works on a text  *)
(* of its own, substitutes in it with the values its own thread sees, and  *)
(* returns when nothing is left to substitute.                             *)
(***************************************************************************)
CONSTANTS
    Threads,
    Null,
    Args,
    CanReplace(_, _),
    Replaced(_, _)

VARIABLES
    text,       \* text[t]: the text of t's call
    mode,       \* mode[t]: between calls, inside one, or out of one by overflow
    result      \* result[t]: what t's last call returned, Null inside a call

vars == <<text, mode, result>>

Init ==
    /\ text = [t \in Threads |-> Null]
    /\ mode = [t \in Threads |-> "idle"]
    /\ result = [t \in Threads |-> Null]

Call(t) ==
    /\ mode[t] # "busy"
    /\ \E x \in Args[t] : text' = [text EXCEPT ![t] = x]
    /\ mode' = [mode EXCEPT ![t] = "busy"]
    /\ result' = [result EXCEPT ![t] = Null]

Rewrite(t) ==
    /\ mode[t] = "busy"
    /\ CanReplace(t, text[t])
    /\ text' = [text EXCEPT ![t] = Replaced(t, text[t])]
    /\ UNCHANGED <<mode, result>>

Return(t) ==
    /\ mode[t] = "busy"
    /\ ~CanReplace(t, text[t])
    /\ mode' = [mode EXCEPT ![t] = "idle"]
    /\ result' = [result EXCEPT ![t] = text[t]]
    /\ UNCHANGED text

Overflow(t) ==
    /\ mode[t] = "busy"
    /\ mode' = [mode EXCEPT ![t] = "overflow"]
    /\ UNCHANGED <<text, result>>

Next == \E t \in Threads : Call(t) \/ Rewrite(t) \/ Return(t) \/ Overflow(t)

Spec == Init /\ [][Next]_vars

=============================================================================
