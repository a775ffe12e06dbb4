-------------------------------- MODULE View --------------------------------
(***************************************************************************)
(* Where ViewService::print_buffer (src/src/view_service.cpp) draws the    *)
(* characters of a text: rows of TerEndX columns, a long line wrapping     *)
(* onto the next rows.  Drawing itself (escape sequences, padding, boxes)  *)
(* is not modelled.                                                        *)
(***************************************************************************)
EXTENDS CursorMoves

(* The row and column of the position after the first k characters of t.   *)
Layout(t) ==
  LET Wrap(row, col) == IF col >= TerEndX THEN [row |-> row + 1, col |-> 0]
                        ELSE [row |-> row, col |-> col]
      at[k \in 0 .. Len(t)] ==
        IF k = 0 THEN [row |-> 0, col |-> 0]
        ELSE LET was == at[k - 1]
             IN  IF t[k] = Newline THEN [row |-> was.row + 1, col |-> 0]
                 ELSE IF t[k] = Tab
                 THEN Wrap(was.row, was.col + (TabStop - (was.col % TabStop)))
                 ELSE Wrap(was.row, was.col + 1)
  IN  at
=============================================================================
