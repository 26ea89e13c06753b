------------------------------ MODULE MCScriptRun ------------------------------
(* Small scripts for TLC. *)
EXTENDS ScriptRun

R(kind, locator, parameter, keyword, count) ==
    [kind |-> kind, locator |-> locator, parameter |-> parameter, keyword |-> keyword, count |-> count]

Step(locator, parameter) == R("step", locator, parameter, "K", 0)
Box(kind, locator, parameter) == R(kind, locator, parameter, "K", 0)
LoopStart(count) == R("loopstart", <<>>, <<>>, "K", count)
LoopEnd == R("loopend", <<>>, <<>>, "K", 0)
Blank == R("blank", <<>>, <<>>, "K", 0)
Shot == R("screenshot", <<"a">>, <<"b">>, "K", 0)
Call(keyword, parameter) == R("call", <<>>, parameter, keyword, 0)

MCKeywords == {"K", "L", "Self"}
\* K reads its parameter, also in a loop; L calls K twice; Self calls itself
MCSheetOf ==
    [k \in MCKeywords |->
        CASE k = "K"    -> <<Step(<<"a">>, <<Param1>>), LoopStart(2),
                             Box("textbox", <<Param1>>, <<Index, Param1>>), LoopEnd>>
          [] k = "L"    -> <<Call("K", <<"a">>), Call("K", <<"b">>)>>
          [] k = "Self" -> <<Step(<<"a">>, <<"b">>), Call("Self", <<"b">>)>>]

MCRows ==
    {Step(<<"a">>, <<Index>>), Box("textbox", <<Index>>, <<"a", Index>>),
     Box("select", <<"a">>, <<Param1, "b">>), LoopStart(0), LoopStart(2), LoopStart(3), LoopEnd, Blank, Shot,
     Call("K", <<Index>>), Call("L", <<"a">>), Call("K", <<>>), Call("Self", <<"b">>)}

MCScripts ==
    UNION {[1..n -> MCRows] : n \in 0..3}
    \cup {<<LoopStart(3), r, s, LoopEnd, t>> : r, s, t \in MCRows}
    \cup {<<LoopStart(2), r, LoopStart(2), s, LoopEnd, t, LoopEnd>> : r, s, t \in MCRows}

\* locators with the index
IndexScripts == {<<LoopStart(2), Step(<<Index>>, <<"a">>), LoopEnd>>}
                \cup {<<LoopStart(2), r, LoopEnd>> : r \in MCRows}

\* a loop in a loop
NestedScripts == {<<LoopStart(2), LoopStart(3), Box("textbox", <<"a">>, <<"b">>), LoopEnd, LoopEnd>>}
                 \cup {<<r, s>> : r, s \in MCRows}

=============================================================================
