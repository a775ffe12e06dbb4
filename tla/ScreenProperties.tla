-------------------------- MODULE ScreenProperties --------------------------
(***************************************************************************)
(* What the user should see of the editor: module Screen applied to the    *)
(* buffer and the selection of module Editor after every key, as           *)
(* Editor::run does.                                                       *)
(***************************************************************************)
EXTENDS EditorProperties, Screen

Shown == print_buffer(gap_buffer, highligter)

(* Where the layout has position p of the text, on the terminal. *)
LaidOut(p) ==
  LET at == Layout(text)[p]
  IN  Place(TopPad + at.row - start_row(gap_buffer), LeftPad + at.col)

(* A tab sent to the terminal goes to the terminal's next tab stop, which  *)
(* is that of the text area only if the area itself starts at one.         *)
TabsAligned == LeftPad % TabStop = 0 \/ \A i \in 1 .. Len(text) : text[i] # Tab

(* Scrolling keeps the cursor inside the text area, however far down the   *)
(* text and through however many wrapped lines it moves.                   *)
CursorOnScreen ==
  LET at == CursorShown(gap_buffer, highligter)
  IN  /\ at.row \in TopPad .. TopPad + TerEndY - 1
      /\ at.col \in LeftPad .. LeftPad + TerEndX - 1

(* The positions of the text in the rows shown. *)
InSight == { p \in 0 .. Len(text) - 1 : Visible(gap_buffer, Layout(text)[p].row) }

(* The cursor is shown over the character it stands before, the one the    *)
(* next typed character pushes away.                                       *)
CursorOverNextCharacter ==
  TabsAligned /\ cursor < Len(text) =>
    LET at == CursorShown(gap_buffer, highligter)
    IN  /\ at = LaidOut(cursor)
        /\ \E cell \in Shown.cells : cell.char = text[cursor + 1] /\ cell.at = at

(* The rows shown hold exactly the characters the layout puts there, each  *)
(* at its place: no padding missing after a scroll, a newline or a wrap.   *)
TextInPlace ==
  TabsAligned =>
    { <<cell.char, cell.at>> : cell \in Shown.cells } =
    { <<text[p + 1], LaidOut(p)>> : p \in InSight }

(* What is highlighted is what Copy is meant to take: the places of the    *)
(* characters between the two ends of the selection, wherever the gap lies *)
(* in the vector (view_service.cpp:153 takes it off the index).            *)
HighlightIsSelection ==
  TabsAligned =>
    { cell.at : cell \in { c \in Shown.cells : c.lit } } =
    { LaidOut(p) : p \in { q \in InSight : /\ highligter.active
                                          /\ Selected.from <= q /\ q < Selected.to } }

-----------------------------------------------------------------------------
(* view_service.cpp:92, "With the absolute position of cursor we can       *)
(* scroll without losing cursor": the cursor is shown where the layout     *)
(* puts it.  It is not when an empty gap ends the vector, which is how     *)
(* every text received by a client leaves a cursor at its end.             *)
CursorNotLost ==
  ~ modal.active => CursorShown(gap_buffer, highligter) = LaidOut(cursor)
=============================================================================
