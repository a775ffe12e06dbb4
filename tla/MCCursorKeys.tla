---------------------------- MODULE MCCursorKeys ----------------------------
(***************************************************************************)
(* Texts of three lines of up to nine plain characters each, all texts of  *)
(* up to seven plain characters, and shorter ones with spaces and tabs, in *)
(* a text area of four columns: a line can fill a row, wrap once or twice, *)
(* and be followed by another that wraps; a row holds two tab stops, so    *)
(* that the order in which tabs and characters are counted shows.          *)
(***************************************************************************)
EXTENDS CursorKeys

MCChar == {"a", "_", "nl", "tab"}

TextsOver(S, n) == UNION { [1 .. k -> S] : k \in 0 .. n }

Line(n) == [k \in 1 .. n |-> "a"]

LineTexts  == { Line(i) \o <<"nl">> \o Line(j) \o <<"nl">> \o Line(k) :
                  i \in 0 .. 9, j \in 0 .. 9, k \in 0 .. 9 }
PlainTexts == TextsOver({"a", "nl"}, 7)
WordTexts  == TextsOver({"a", "_", "nl"}, 5)
TabTexts   == TextsOver({"a", "nl", "tab"}, 6)
AllTexts   == LineTexts \cup PlainTexts \cup WordTexts \cup TabTexts
=============================================================================
