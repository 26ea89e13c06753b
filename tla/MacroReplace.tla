------------------------------ MODULE MacroReplace ------------------------------
(***************************************************************************)
(* util/ReplaceMacro.java: replace(arg, map) substitutes the macros        *)
(* ${name} of a cell's text, leftmost first, until none is left that has a *)
(* value.  It calls itself on each intermediate text, drops the result of  *)
(* that call and returns the static field replacedString instead, which    *)
(* all test threads share.                                                 *)
(*                                                                         *)
(* A text is a sequence of words and macro names.  A "${" that is never    *)
(* closed is a macro name that no property has.                            *)
(***************************************************************************)
EXTENDS Naturals, Sequences

CONSTANTS
    Threads,        \* test threads that process keyword rows
    Words,          \* literal pieces of text
    Names,          \* macro names, in upper case
    Null,           \* the null reference
    SystemValue,    \* SystemValue[n]: System.getProperty(n), or Null
    MapValue,       \* MapValue[t][n]: map.get(n) of thread t's test, or Null
    Args,           \* Args[t]: the texts that t's rows pass to replace
    MaxCalls,       \* bound: calls each thread makes
    StackLimit      \* bound: nested calls before the StackOverflowError

Text == Seq(Words \cup Names)

ASSUME MacroAssumption ==
    /\ Words \cap Names = {}
    /\ Null \notin Text
    /\ SystemValue \in [Names -> Text \cup {Null}]
    /\ MapValue \in [Threads -> [Names -> Text \cup {Null}]]
    /\ \A t \in Threads : Args[t] \subseteq Text
    /\ MaxCalls \in Nat
    /\ StackLimit \in Nat

(***************************************************************************)
(* One substitution.  A System property goes before the map, but an empty  *)
(* one counts as absent.                                                   *)
(***************************************************************************)
Value(t, n) ==
    IF SystemValue[n] \notin {Null, <<>>} THEN SystemValue[n] ELSE MapValue[t][n]

IsLeftmost(x, i) ==
    /\ i \in 1..Len(x)
    /\ x[i] \in Names
    /\ \A j \in 1..(i - 1) : x[j] \notin Names

\* only the leftmost macro is looked at: when it has no value, the text stays
CanReplace(t, x) == \E i \in 1..Len(x) : IsLeftmost(x, i) /\ Value(t, x[i]) # Null

Replaced(t, x) ==
    LET i == CHOOSE i \in 1..Len(x) : IsLeftmost(x, i)
    IN  SubSeq(x, 1, i - 1) \o Value(t, x[i]) \o SubSeq(x, i + 1, Len(x))

-----------------------------------------------------------------------------
VARIABLES
    replacedString, \* ReplaceMacro.replacedString
    phase,          \* phase[t]: where t is in the innermost call
    arg,            \* arg[t]: argument of t's innermost call
    given,          \* given[t]: argument of t's outermost call
    depth,          \* depth[t]: calls of replace on t's stack
    result,         \* result[t]: what the last finished call returned
    calls           \* calls[t]: calls t has begun

macrovars == <<replacedString, phase, arg, given, depth, result, calls>>

MacroTypeOK ==
    /\ replacedString \in Text \cup {Null}
    /\ phase \in [Threads -> {"idle", "scan", "nested", "unwind", "overflow"}]
    /\ arg \in [Threads -> Text \cup {Null}]
    /\ given \in [Threads -> Text \cup {Null}]
    /\ depth \in [Threads -> 0..StackLimit]
    /\ result \in [Threads -> Text \cup {Null}]
    /\ calls \in [Threads -> 0..MaxCalls]

MacroInit ==
    /\ replacedString = Null
    /\ phase = [t \in Threads |-> "idle"]
    /\ arg = [t \in Threads |-> Null]
    /\ given = [t \in Threads |-> Null]
    /\ depth = [t \in Threads |-> 0]
    /\ result = [t \in Threads |-> Null]
    /\ calls = [t \in Threads |-> 0]

Call(t) ==
    /\ phase[t] \in {"idle", "overflow"}
    /\ calls[t] < MaxCalls
    /\ \E x \in Args[t] :
          /\ arg' = [arg EXCEPT ![t] = x]
          /\ given' = [given EXCEPT ![t] = x]
    /\ phase' = [phase EXCEPT ![t] = "scan"]
    /\ depth' = [depth EXCEPT ![t] = 0]
    /\ result' = [result EXCEPT ![t] = Null]
    /\ calls' = [calls EXCEPT ![t] = @ + 1]
    /\ UNCHANGED replacedString

\* the early returns of arg itself; inner calls only unwind
ReturnArg(t) ==
    /\ phase[t] = "scan"
    /\ ~CanReplace(t, arg[t])
    /\ IF depth[t] = 0
       THEN /\ phase' = [phase EXCEPT ![t] = "idle"]
            /\ result' = [result EXCEPT ![t] = arg[t]]
       ELSE phase' = [phase EXCEPT ![t] = "unwind"] /\ UNCHANGED result
    /\ UNCHANGED <<replacedString, arg, given, depth, calls>>

\* replacedString = ... variableValue ...
Substitute(t) ==
    /\ phase[t] = "scan"
    /\ CanReplace(t, arg[t])
    /\ replacedString' = Replaced(t, arg[t])
    /\ phase' = [phase EXCEPT ![t] = "nested"]
    /\ UNCHANGED <<arg, given, depth, result, calls>>

\* replace(replacedString,map): the static field is read back as the argument
Recurse(t) ==
    /\ phase[t] = "nested"
    /\ IF depth[t] < StackLimit
       THEN /\ arg' = [arg EXCEPT ![t] = replacedString]
            /\ depth' = [depth EXCEPT ![t] = @ + 1]
            /\ phase' = [phase EXCEPT ![t] = "scan"]
       ELSE phase' = [phase EXCEPT ![t] = "overflow"] /\ UNCHANGED <<arg, depth>>
    /\ UNCHANGED <<replacedString, given, result, calls>>

\* mutant: the argument is returned instead of the replaced text
UnwindWithGiven(t) ==
    /\ phase[t] = "unwind"
    /\ phase' = [phase EXCEPT ![t] = "idle"]
    /\ result' = [result EXCEPT ![t] = given[t]]
    /\ UNCHANGED <<replacedString, arg, given, depth, calls>>

\* return replacedString, level by level; the outermost read is the result
Unwind(t) ==
    /\ phase[t] = "unwind"
    /\ phase' = [phase EXCEPT ![t] = "idle"]
    /\ result' = [result EXCEPT ![t] = replacedString]
    /\ UNCHANGED <<replacedString, arg, given, depth, calls>>

MacroStep(t) == ReturnArg(t) \/ Substitute(t) \/ Recurse(t) \/ Unwind(t)

MacroNext == \E t \in Threads : Call(t) \/ MacroStep(t)

MacroSpec == MacroInit /\ [][MacroNext]_macrovars /\ \A t \in Threads : WF_macrovars(MacroStep(t))

-----------------------------------------------------------------------------
(* What a call promises, on a text of its own: PrivateReplace.             *)

\* the text of t's call so far: in the static field once it is below the top
CallText(t) ==
    IF phase[t] \in {"nested", "overflow"} THEN replacedString ELSE arg[t]

CallMode(t) == IF phase[t] \in {"idle", "overflow"} THEN phase[t] ELSE "busy"

Private == INSTANCE PrivateReplace
           WITH text <- [t \in Threads |-> CallText(t)],
                mode <- [t \in Threads |-> CallMode(t)]

(***************************************************************************)
(* With one thread, each call rewrites its own text by its own map until   *)
(* no leftmost macro has a value, and returns that text: the dropped       *)
(* result of the inner call and the static field do no harm.               *)
(***************************************************************************)
ImplementsPrivate == Private!Spec

\* the texts that n substitutions by t's own map make of x
Rewrites(t, x) ==
    LET f[n \in Nat] ==
          IF n = 0 THEN {x}
          ELSE f[n - 1] \cup {Replaced(t, y) : y \in {z \in f[n - 1] : CanReplace(t, z)}}
    IN  f[StackLimit]

(***************************************************************************)
(* The comment of the class: replace puts in the place of a macro the      *)
(* value "that is present in the System or in the map object passed in the *)
(* arguments".  What a call returned is its own argument, rewritten.       *)
(***************************************************************************)
ResultIsOwn ==
    \A t \in Threads : (phase[t] = "idle" /\ calls[t] > 0) => result[t] \in Rewrites(t, given[t])

=============================================================================
