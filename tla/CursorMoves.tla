----------------------------- MODULE CursorMoves -----------------------------
(***************************************************************************)
(* The cursor arithmetic of src/src/buffer_service.cpp, on the text a      *)
(* buffer holds rather than on its storage: a text t is a sequence of      *)
(* characters and a cursor c is the number of characters to its left, so   *)
(* that t[c] is the character before the cursor (data[gap_start - 1] in    *)
(* the code) and t[c + 1] the one after it (data[gap_end]).  Each loop of  *)
(* the code that steps the cursor until a condition holds is written as    *)
(* the first position where that condition holds.                          *)
(*                                                                         *)
(* TerEndX is ViewService::TER_END_X (60 in the code) and TabStop the 8 of *)
(* the tab arithmetic; both are parameters so that TLC can use small ones. *)
(***************************************************************************)
EXTENDS Integers, Sequences, FiniteSetsExt

CONSTANTS
  Char,     \* the characters of a text
  Newline,  \* '\n'
  Space,    \* ' '
  Tab,      \* '\t'
  TerEndX,  \* columns of the text area
  TabStop   \* distance between tab stops

ASSUME CursorAssumption ==
  /\ {Newline, Space, Tab} \subseteq Char
  /\ TerEndX \in Nat \ {0}
  /\ TabStop \in Nat \ {0}

Text == Seq(Char)

(* The beginning and the end of the line position c is on. *)
LineStart(t, c) == Max({0} \cup { p \in 1 .. c : t[p] = Newline })

LineEnd(t, c) == Min({Len(t)} \cup { p \in c .. Len(t) - 1 : t[p + 1] = Newline })

(***************************************************************************)
(* Columns.                                                                *)
(***************************************************************************)
(* The column after character ch drawn at column col. *)
AdvanceColumn(col, ch) ==
  IF ch = Tab THEN (col \div TabStop + 1) * TabStop ELSE col + 1

(* Column reached after each prefix of the n characters ch(1) .. ch(n). *)
ColumnsAfter(n, ch(_)) ==
  LET col[k \in 0 .. n] ==
        IF k = 0 THEN 0 ELSE AdvanceColumn(col[k - 1], ch(k))
  IN  col

(* Mutant of get_col_on_line: the newline before the line is counted too.  *)
get_col_from_newline(t, c) ==
  LET n == c - LineStart(t, IF c > 0 THEN c - 1 ELSE 0)
      Backwards(k) == t[c - k + 1]
  IN  ColumnsAfter(n, Backwards)[n]

(* get_col_on_line walks BACKWARDS from the cursor to the start of the     *)
(* line, so it advances over the characters nearest to the cursor first.   *)
get_col_on_line(t, c) ==
  LET n == c - LineStart(t, c)
      Backwards(k) == t[c - k + 1]
  IN  ColumnsAfter(n, Backwards)[n]

(***************************************************************************)
(* Where each movement key puts the cursor.                                *)
(***************************************************************************)
CursorLeft(t, c) == IF c = 0 THEN c ELSE c - 1

(* Mutant of CursorRight: the test for the end of the text is missing.     *)
CursorRightUnguarded(t, c) == c + 1

CursorRight(t, c) == IF c = Len(t) THEN c ELSE c + 1

(* Mutant of WordLeft: a newline ends a word too.                          *)
WordLeftToBlank(t, c) ==
  IF c = 0 THEN c
  ELSE Max({0} \cup { p \in 1 .. c - 1 : t[p] \in {Space, Newline} })

(* Only a space ends a word; a newline or a tab does not. *)
WordLeft(t, c) ==
  IF c = 0 THEN c ELSE Max({0} \cup { p \in 1 .. c - 1 : t[p] = Space })

WordRight(t, c) ==
  IF c = Len(t) THEN c
  ELSE Min({Len(t)} \cup { p \in c + 1 .. Len(t) - 1 : t[p + 1] = Space })

(* From position s walk right to column target of the line, but not past   *)
(* the end of the line and not over a tab that would overshoot.            *)
WalkToColumn(t, s, target) ==
  LET n       == LineEnd(t, s) - s
      FromS(k) == t[s + k]
      col     == ColumnsAfter(n, FromS)
      Stop(k) == \/ col[k] >= target
                 \/ t[s + k + 1] = Tab /\ AdvanceColumn(col[k], Tab) > target
  IN  s + Min({n} \cup { k \in 0 .. n - 1 : Stop(k) })

(* Mutant of CursorUp: the row above is taken to be the first one of the   *)
(* previous line, as if lines did not wrap.                                *)
CursorUpToFirstRow(t, c) ==
  LET col   == get_col_on_line(t, c)
      start == LineStart(t, c)
      above == LineStart(t, IF start > 0 THEN start - 1 ELSE 0)
  IN  IF c = 0 THEN c
      ELSE IF col >= TerEndX
      THEN IF c - TerEndX > start THEN c - TerEndX ELSE start
      ELSE WalkToColumn(t, above, col)

(* Mutant of CursorUp: column TerEndX is taken to be on the first row.     *)
CursorUpOffByOne(t, c) ==
  LET col   == get_col_on_line(t, c)
      start == LineStart(t, c)
      above == LineStart(t, IF start > 0 THEN start - 1 ELSE 0)
      n     == LineEnd(t, above) - above
      FromAbove(k) == t[above + k]
      width == ColumnsAfter(n, FromAbove)[n]
      lastSegment == (width \div TerEndX) * TerEndX
      target == lastSegment + (col % TerEndX)
  IN  IF c = 0 THEN c
      ELSE IF col > TerEndX
      THEN IF c - TerEndX > start THEN c - TerEndX ELSE start
      ELSE WalkToColumn(t, above, IF target > width THEN width ELSE target)

(* Mutant of CursorUp: the last segment is counted one too far, which is   *)
(* seen on lines that do not wrap.                                         *)
CursorUpRoundingUp(t, c) ==
  LET col   == get_col_on_line(t, c)
      start == LineStart(t, c)
      above == LineStart(t, IF start > 0 THEN start - 1 ELSE 0)
      n     == LineEnd(t, above) - above
      FromAbove(k) == t[above + k]
      width == ColumnsAfter(n, FromAbove)[n]
      lastSegment == ((width + TerEndX - 1) \div TerEndX) * TerEndX
      target == lastSegment + (col % TerEndX)
  IN  IF c = 0 THEN c
      ELSE IF col >= TerEndX
      THEN IF c - TerEndX > start THEN c - TerEndX ELSE start
      ELSE WalkToColumn(t, above, IF target > width THEN width ELSE target)

CursorUp(t, c) ==
  LET col   == get_col_on_line(t, c)
      start == LineStart(t, c)
      above == LineStart(t, IF start > 0 THEN start - 1 ELSE 0)
      n     == LineEnd(t, above) - above
      FromAbove(k) == t[above + k]
      width == ColumnsAfter(n, FromAbove)[n]
      lastSegment == (width \div TerEndX) * TerEndX
      target == lastSegment + (col % TerEndX)
  IN  IF c = 0 THEN c
      ELSE IF col >= TerEndX
      THEN IF c - TerEndX > start THEN c - TerEndX ELSE start
      ELSE WalkToColumn(t, above, IF target > width THEN width ELSE target)

(* Mutant of CursorDown: the walk along the next line may leave it.        *)
CursorDownPastLine(t, c) ==
  LET col == get_col_on_line(t, c)
      end == LineEnd(t, c)
  IN  IF end - c >= TerEndX THEN c + TerEndX
      ELSE IF end + 1 + col >= Len(t) THEN Len(t)
      ELSE end + 1 + col

(* Mutant of CursorDown: on the last line the cursor goes to its start, as *)
(* Up does on the first.                                                   *)
CursorDownToStart(t, c) ==
  LET col  == get_col_on_line(t, c)
      end  == LineEnd(t, c)
      next == end + 1
      room == LineEnd(t, next) - next
  IN  IF end - c >= TerEndX THEN c + TerEndX
      ELSE IF end = Len(t) THEN LineStart(t, c)
      ELSE next + Min({room} \cup { k \in 0 .. room : k >= col })

(* Down counts characters, not columns, on the line it reaches. *)
CursorDown(t, c) ==
  LET col  == get_col_on_line(t, c)
      end  == LineEnd(t, c)
      next == end + 1
      room == LineEnd(t, next) - next
  IN  IF end - c >= TerEndX THEN c + TerEndX
      ELSE IF end = Len(t) THEN end
      ELSE next + Min({room} \cup { k \in 0 .. room : k >= col })

Arrows == {"Up", "Down", "Left", "Right"}

(* Ctrl turns Left and Right into word moves and is ignored on Up and Down. *)
ArrowTarget(key, ctrl, t, c) ==
  CASE key = "Up"    -> CursorUp(t, c)
    [] key = "Down"  -> CursorDown(t, c)
    [] key = "Left"  -> IF ctrl THEN WordLeft(t, c) ELSE CursorLeft(t, c)
    [] key = "Right" -> IF ctrl THEN WordRight(t, c) ELSE CursorRight(t, c)

(* Where the cursor turns round on its way: Up to another line walks left  *)
(* to the start of that line and then right.  Other keys go one way.       *)
TurnsAt(key, t, c) ==
  LET start == LineStart(t, c)
  IN  IF key = "Up" /\ c > 0 /\ get_col_on_line(t, c) < TerEndX
      THEN LineStart(t, IF start > 0 THEN start - 1 ELSE 0)
      ELSE c
=============================================================================
