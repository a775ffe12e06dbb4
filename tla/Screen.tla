------------------------------- MODULE Screen -------------------------------
(***************************************************************************)
(* What ViewService::print_buffer (src/src/view_service.cpp) puts on the   *)
(* terminal for a gap buffer and a selection: it walks the vector, skips   *)
(* the gap, and sends the characters of the rows shown, padding and line   *)
(* breaks included.  The terminal's own cursor is followed through what is *)
(* sent, so that a character is where the terminal puts it and not where   *)
(* print_buffer believes it to be.                                         *)
(*                                                                         *)
(* Boxes, the log window and the change-file modal are drawn over this     *)
(* with absolute positions and are left out; the debug view of the gap is  *)
(* never on.  The terminal is taken to be large enough for the text area   *)
(* (README.md, "Restrictions").                                            *)
(***************************************************************************)
EXTENDS GapBuffer, View

CONSTANTS
  TerEndY,  \* rows of the text area (20 in the code)
  TopPad,   \* empty rows above it
  LeftPad   \* empty columns to its left

ASSUME ScreenAssumption ==
  /\ TerEndY \in Nat \ {0}
  /\ TopPad \in Nat
  /\ LeftPad \in Nat

Place(r, c) == [row |-> r, col |-> c]

(* Mutant of start_row: the text does not scroll.                          *)
start_row_fixed(b) == 0

(* The first row shown: once the cursor is in the lower half of the area   *)
(* the text scrolls under it.                                              *)
start_row(b) ==
  LET cursor_row_abs == Layout(serialize_buffer(b))[b.gap_start].row
  IN  IF cursor_row_abs >= TerEndY \div 2 THEN cursor_row_abs - (TerEndY \div 2) ELSE 0

(* What the loop carries along: the row and column it counts, whether the  *)
(* left padding is due, where the terminal's cursor is, where the loop saw *)
(* the editor's cursor, and the characters drawn so far.                   *)
Blank ==
  [at |-> Place(0, 0), needs_left_pad |-> TRUE, terminal |-> Place(TopPad, 0),
   cursor |-> Place(0, 0), cells |-> {}]

(* The terminal's cursor after a character (tab stops are the terminal's). *)
Echo(p, ch) ==
  IF ch = Newline THEN Place(p.row + 1, 0)
  ELSE IF ch = Tab THEN Place(p.row, (p.col \div TabStop + 1) * TabStop)
  ELSE Place(p.row, p.col + 1)

InGap(b, i) == b.gap_start <= i /\ i < b.gap_end

(* Mutant of logical_index: the gap is not taken off.                      *)
logical_index_in_vector(b, i) == i

(* The position in the text of index i of the vector, outside the gap. *)
logical_index(b, i) == IF i < b.gap_start THEN i ELSE i - GapLen(b)

(* Highlighted: between the two ends of the selection. *)
IsHighlighted(hl, p) ==
  /\ hl.active
  /\ \/ hl.start <= p /\ p < hl.end
     \/ hl.end <= p /\ p < hl.start

(* CURSOR TRACKING: index i of the vector is where the gap starts.         *)
TrackCursor(b, i, s) ==
  IF i = b.gap_start
  THEN [s EXCEPT !.cursor = Place(s.at.row - start_row(b), s.at.col)] ELSE s

Visible(b, row) == start_row(b) <= row /\ row < start_row(b) + TerEndY

(* Mutant of PadDue: not after a line wrapped by force.                    *)
PadDueAfterNewline(ch, wrap) == ch = Newline

(* The next character shown starts a row of the area. *)
PadDue(ch, wrap) == ch = Newline \/ wrap

(* One character: drawn if its row is shown, then counted, then the line   *)
(* is wrapped by force if it has reached the edge of the area.             *)
DrawCharacter(b, hl, i, s) ==
  LET ch   == b.data[i + 1]
      seen == Visible(b, s.at.row)
      put  == IF s.needs_left_pad
              THEN Place(s.terminal.row, s.terminal.col + LeftPad) ELSE s.terminal
      col  == IF ch = Newline THEN 0
              ELSE IF ch = Tab THEN s.at.col + (TabStop - (s.at.col % TabStop))
              ELSE s.at.col + 1
      wrap == col >= TerEndX /\ ch # Newline
  IN  [s EXCEPT
         !.at = IF ch = Newline \/ wrap THEN Place(@.row + 1, 0) ELSE Place(@.row, col),
         !.needs_left_pad = IF seen THEN PadDue(ch, wrap) ELSE @,
         !.terminal = IF ~ seen THEN @
                      ELSE IF wrap THEN Place(put.row + 1, 0) ELSE Echo(put, ch),
         !.cells = IF ~ seen THEN @
                   ELSE @ \cup {[char |-> ch, at |-> put,
                                 lit |-> IsHighlighted(hl, logical_index(b, i))]}]

(* Mutant of print_buffer: the gap is skipped before the cursor is looked  *)
(* for.                                                                    *)
print_buffer_skipping_first(b, hl) ==
  LET frame[n \in 0 .. Len(b.data)] ==
        IF n = 0 THEN Blank
        ELSE IF InGap(b, n - 1) THEN frame[n - 1]
        ELSE DrawCharacter(b, hl, n - 1, TrackCursor(b, n - 1, frame[n - 1]))
  IN  frame[Len(b.data)]

(* The loop over the vector.  It breaks off below the last row shown,      *)
(* where nothing more is visible and the cursor has been seen; that it     *)
(* does makes no difference to the frame.                                  *)
print_buffer(b, hl) ==
  LET frame[n \in 0 .. Len(b.data)] ==
        IF n = 0 THEN Blank
        ELSE LET i == n - 1
                 tracked == TrackCursor(b, i, frame[i])
             IN  IF InGap(b, i) THEN tracked ELSE DrawCharacter(b, hl, i, tracked)
  IN  frame[Len(b.data)]

(* Where the terminal's cursor is left, when no modal is open. *)
CursorShown(b, hl) ==
  LET found == print_buffer(b, hl).cursor
  IN  Place(TopPad + found.row, LeftPad + found.col)
=============================================================================
