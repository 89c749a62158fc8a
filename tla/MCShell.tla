-------------------------------- MODULE MCShell --------------------------------
(***************************************************************************)
(* Small instances of the shell for TLC: one letter key, the space bar and *)
(* a key without a character, and five commands of at most two letters.    *)
(***************************************************************************)
EXTENDS Shell

MCPrompt == <<">">>
MCAscii == [k \in {"a", "space", "esc"} |->
               CASE k = "a" -> "a" [] k = "space" -> " " [] OTHER -> NUL]
MCAsciiShift == [k \in {"a", "space", "esc"} |->
               CASE k = "a" -> "A" [] k = "space" -> " " [] OTHER -> NUL]
MCCommands == [name \in {<<"a">>, <<"A">>, <<"a", "a">>, <<"A", "A">>,
                            <<"a", "A">>} |->
                CASE name = <<"a">> -> "echo" [] name = <<"A">> -> "clear"
                  [] name = <<"a", "a">> -> "other" [] name = <<"A", "A">> -> "halt"
                  [] OTHER -> "enableints"]
MCOutputs == {<<"\n">>, <<"a", "\n">>}
=============================================================================
