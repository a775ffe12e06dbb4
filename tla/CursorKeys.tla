----------------------------- MODULE CursorKeys -----------------------------
(***************************************************************************)
(* A user pressing movement keys in a text that does not change: the       *)
(* cursor arithmetic of module CursorMoves against the rows and columns    *)
(* the user sees (module View).                                            *)
(***************************************************************************)
EXTENDS View

CONSTANT Texts  \* the texts to move around in

ASSUME TextsAssumption == Texts \subseteq Text

VARIABLES text, cursor

kvars == <<text, cursor>>

Init == text \in Texts /\ cursor = 0

Press(key, ctrl) ==
  /\ cursor' = ArrowTarget(key, ctrl, text, cursor)
  /\ UNCHANGED text

Next == \E key \in Arrows, ctrl \in BOOLEAN : Press(key, ctrl)

Spec == Init /\ [][Next]_kvars

-----------------------------------------------------------------------------
Row == Layout(text)[cursor].row
Col == Layout(text)[cursor].col

TabFree == \A i \in 1 .. Len(text) : text[i] # Tab

(* The position in row r, at column col or at the end of the row if it is  *)
(* shorter.                                                                *)
IsAt(c, r, col) ==
  LET at     == Layout(text)
      inRow  == { p \in 0 .. Len(text) : at[p].row = r }
      within == { p \in inRow : at[p].col <= col }
  IN  c \in within /\ \A p \in within : p <= c

(* The cursor stays between two characters of the text. *)
TypeOK == text \in Texts /\ cursor \in 0 .. Len(text)

(* Up goes to the row above, as the user sees it, at the same column or    *)
(* the end of that row: through wrapped lines, lines that exactly fill the *)
(* area, and from a line to the last row of a wrapped line above it.       *)
(* (Without tabs, and not in the first row: see the two next properties.)  *)
UpGoesOneRowUp ==
  [][Press("Up", FALSE) /\ TabFree /\ Row > 0 => IsAt(cursor', Row - 1, Col)]_kvars

(* Down goes to the row below in the same way when the line continues with *)
(* a full row (buffer_service.cpp:163, "move down one visual segment"),    *)
(* from the last line to the end of the text, and from the first row of    *)
(* any other line to the first row of the next line.  It enters the next   *)
(* line, and so skips rows, when less than a full row is left of a wrapped *)
(* one; from a later row it misses the column (DownReachesVisualColumn).   *)
DownKeepsColumn ==
  [][Press("Down", FALSE) /\ TabFree =>
       LET end      == LineEnd(text, cursor)
           firstRow == Row = Layout(text)[LineStart(text, cursor)].row
       IN  IF end - cursor >= TerEndX THEN IsAt(cursor', Row + 1, Col)
           ELSE IF end = Len(text) THEN cursor' = Len(text)
           ELSE firstRow => IsAt(cursor', Layout(text)[end + 1].row, Col)]_kvars

(* Up never goes forward, except within the first line: there the code     *)
(* takes the line for its own predecessor (buffer_service.cpp:104, where   *)
(* the comments say "Cross to previous logical line" and "so we don't      *)
(* teleport").  It then goes to the last segment of that line if the line  *)
(* wraps, or, as tabs before the cursor are counted from the wrong end     *)
(* (line 64), to a column past the one where the cursor is drawn.  With no *)
(* tab before the cursor it happens in row 0 of a line that wraps only.    *)
UpGoesForwardOnlyAtTop ==
  [][Press("Up", FALSE) /\ cursor' > cursor =>
       LET wraps == \E p \in 0 .. LineEnd(text, 0) : Layout(text)[p].row > 0
       IN  /\ LineStart(text, cursor) = 0
           /\ wraps \/ get_col_on_line(text, cursor) > Col
           /\ (\A i \in 1 .. cursor : text[i] # Tab) => wraps /\ Row = 0]_kvars

(* Down never goes back, whatever the text.                                *)
DownNeverGoesBack == [][Press("Down", FALSE) => cursor' >= cursor]_kvars

(* Where a row is followed by a full row of the same line, Down and then   *)
(* Up is the identity: the two segment moves undo each other.              *)
DownThenUpReturns ==
  TabFree /\ LineEnd(text, cursor) - cursor >= TerEndX
    => CursorUp(text, CursorDown(text, cursor)) = cursor

(* The column the movement keys compute is the one drawn, as long as no    *)
(* tab stands before the cursor on its line: the code counts backwards     *)
(* from the cursor and meets tabs at the wrong column (buffer_service.cpp  *)
(* :64).                                                                   *)
ColumnIsDrawnWithoutTabs ==
  (\A i \in LineStart(text, cursor) + 1 .. cursor : text[i] # Tab)
    => get_col_on_line(text, cursor) % TerEndX = Col

(* Word moves undo each other: going right and then left from the start of *)
(* a word comes back to it, over newlines and tabs too.                    *)
WordRightThenLeftReturns ==
  /\ cursor < Len(text)
  /\ text[cursor + 1] # Space
  /\ cursor = 0 \/ text[cursor] = Space
  => WordLeft(text, WordRight(text, cursor)) = cursor

-----------------------------------------------------------------------------
(* buffer_service.cpp:183, "Move right to the target visual column": where *)
(* the line entered has a character at the column the cursor is drawn at,  *)
(* Down goes to that column.  The code goes as far into the next line as   *)
(* the cursor was into its own: not to the visual column, which Up takes   *)
(* modulo the width of the area (line 86).                                 *)
DownReachesVisualColumn ==
  [][Press("Down", FALSE) /\ TabFree =>
       LET end   == LineEnd(text, cursor)
           below == end + 1
       IN  /\ end - cursor < TerEndX
           /\ end < Len(text)
           /\ \E p \in below .. LineEnd(text, below) : Layout(text)[p].col = Col
           => Layout(text)[cursor'].col = Col]_kvars
=============================================================================
