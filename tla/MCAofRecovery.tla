---------------------------- MODULE MCAofRecovery ----------------------------
(* Two keys, and values of one and two characters.                         *)
EXTENDS AofRecovery, TLC

MCBytes == ("SET" :> <<"S", "E", "T">>) @@ ("GET" :> <<"G", "E", "T">>)
           @@ ("DEL" :> <<"D", "E", "L">>)
           @@ ("k" :> <<"k">>) @@ ("l" :> <<"l">>)
           @@ ("ab" :> <<"a", "b">>) @@ ("c" :> <<"c">>)
MCCommands == {<<"GET", "k">>, <<"SET", "k", "ab">>, <<"SET", "k", "c">>, <<"SET", "l", "ab">>}
MCSymbols == {"*", "$", "CR", "LF", "1", "2", "3", "G", "S", "E", "T", "k",
              "l", "a", "b", "c"}
MCJunk == [arraySize : {0, 3}, dollarSign : {"$", "*"}, stringLength : {-1, 1, 2}]

\* The commands are such as the theorem RestoresMemoryHolds speaks of.
ASSUME MCRestorable == RestorableCommands
=============================================================================
