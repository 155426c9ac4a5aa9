------------------------------ MODULE MCConsole ------------------------------
(***************************************************************************)
(* Console for TLC: a screen of three rows and three columns, tabs to      *)
(* every second column, four calls.  The texts fill a row and run over its *)
(* edge, end a line in the middle, and print newlines at the bottom.       *)
(***************************************************************************)
EXTENDS Console

MCGlyphs    == {"a", "b", "c", "E", "F"}
MCColours   == {White, 12}
MCTexts     == { <<"a", "b">>, <<"c", "LF">>, <<"LF", "LF">>, <<"a", "b", "c", "a">>,
                 <<"HT", "BS">>, <<"c", "CR", "BS">> }
MCPanics    == { <<"LF", "b", "LF">> }
MCPositions == { [x |-> 1, y |-> 2], [x |-> 3, y |-> 0] }
MCMessage   == <<"E", "F", "LF">>
==============================================================================
