----------------------------- MODULE MCTerminal -----------------------------
(***************************************************************************)
(* All kinds of key, up to three of them waiting: the longest two fill the *)
(* read's eight bytes and are cut by it.                                   *)
(***************************************************************************)
EXTENDS Terminal

MCUnknown ==
  {<<"lead", "cont">>,                           \* an accented letter
   <<"ESC", "bracket", "3", "tilde">>,           \* Delete
   <<"ESC", "bracket", "1", "5", "tilde">>,      \* F5
   <<"ESC", "bracket", "1", "semi", "2", "H">>}  \* Shift-Home

MCPrintable ==
  {"a", "cont", "bracket", "semi", "tilde", "1", "2", "3", "4", "5", "6", "7", "8",
   "A", "B", "C", "D", "H"}

MCMeta ==
  {CharKey("A"), CharKey("bracket"), EscapeKey, CommandKey("DEL"), CommandKey("CR"),
   ArrowKey("D", FALSE, FALSE, FALSE), OtherKey(<<"lead", "cont">>)}

MCPlain ==
  MCMeta
    \cup {CommandKey("DC1")}
    \cup { ArrowKey("A", s, FALSE, c) : s \in BOOLEAN, c \in BOOLEAN }
    \cup { ArrowKey("A", s, TRUE, FALSE) : s \in BOOLEAN }
    \cup { OtherKey(b) : b \in MCUnknown }
=============================================================================
