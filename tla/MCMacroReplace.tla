----------------------------- MODULE MCMacroReplace -----------------------------
(* Small instances of MacroReplace for TLC: SUITE is a System property,    *)
(* USER an empty one that each test's map overrides, PATH needs two more   *)
(* substitutions, SELF never ends and NONE is not set anywhere.            *)
EXTENDS MacroReplace

CONSTANTS t1, t2

MCWords == {"a", "b", "c"}
MCNames == {"SUITE", "USER", "PATH", "SELF", "NONE"}

MCSystemValue ==
    [n \in MCNames |-> CASE n = "SUITE" -> <<"c">> [] n = "USER" -> <<>> [] OTHER -> Null]

MCMapValue ==
    [t \in Threads |-> [n \in MCNames |->
        CASE n = "USER" -> IF t = t1 THEN <<"a">> ELSE <<"b">>
          [] n = "PATH" -> <<"SUITE", "USER">>
          [] n = "SELF" -> <<"SELF", "a">>
          [] n = "SUITE" -> <<"a">>
          [] OTHER -> Null]]

AllArgs ==
    [t \in Threads |-> {<<"b">>, <<"USER", "c">>, <<"PATH", "NONE", "USER">>, <<"SELF">>}]

PairArgs == [t \in Threads |-> {<<"USER">>, <<"PATH">>}]
=============================================================================
