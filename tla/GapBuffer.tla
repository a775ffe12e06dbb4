------------------------------ MODULE GapBuffer ------------------------------
(***************************************************************************)
(* The gap buffer of src/include/models.hpp and the operations on it in    *)
(* src/src/buffer_service.cpp, src/src/file_io.cpp and                     *)
(* src/src/editor.cpp.  The storage is modelled cell by cell, the cells of *)
(* the gap included: the code never clears them, and the copy command      *)
(* reads them.                                                             *)
(*                                                                         *)
(* A vector index i of the code is position i + 1 of the sequence data, so *)
(* the text before the cursor is data[1 .. gap_start] and the text after   *)
(* it data[gap_end + 1 .. Len(data)].                                      *)
(***************************************************************************)
EXTENDS CursorMoves

CONSTANTS
  Return,   \* '\r'
  Nul,      \* '\0', what vector::resize puts in new cells
  GapSize   \* 1024 in the code: the gap of a new buffer, and each growth

ASSUME GapAssumption ==
  /\ {Return, Nul} \subseteq Char
  /\ GapSize \in Nat \ {0}

Buffer == { b \in [data : Seq(Char), gap_start : Nat, gap_end : Nat] :
              b.gap_start <= b.gap_end /\ b.gap_end <= Len(b.data) }

GapLen(b)  == b.gap_end - b.gap_start
TextLen(b) == Len(b.data) - GapLen(b)

(* The text a buffer stands for: everything outside the gap. *)
serialize_buffer(b) ==
  [i \in 1 .. TextLen(b) |->
     IF i <= b.gap_start THEN b.data[i] ELSE b.data[i + GapLen(b)]]

(***************************************************************************)
(* Construction.                                                           *)
(***************************************************************************)
create_gap_buffer ==
  [data |-> [i \in 1 .. GapSize |-> Nul], gap_start |-> 0, gap_end |-> GapSize]

(* Mutant of BufferOfFile: the gap is placed after the text.               *)
BufferOfFileAtEnd(t) ==
  [data |-> [i \in 1 .. GapSize + Len(t) |-> IF i <= Len(t) THEN t[i] ELSE Nul],
   gap_start |-> Len(t),
   gap_end   |-> GapSize + Len(t)]

(* The buffer load_file builds from the bytes t of a file. *)
BufferOfFile(t) ==
  [data |-> [i \in 1 .. GapSize + Len(t) |->
               IF i <= GapSize THEN Nul ELSE t[i - GapSize]],
   gap_start |-> 0,
   gap_end   |-> GapSize]

(* Mutant of BufferOfMessage: the cursor is not clamped.                   *)
BufferOfMessageUnclamped(t, cursor) ==
  [data |-> t, gap_start |-> cursor, gap_end |-> cursor]

(* The buffer poll_network makes of a received text: no gap at all, and    *)
(* the cursor clamped to the new length.                                   *)
BufferOfMessage(t, cursor) ==
  LET c == IF cursor > Len(t) THEN Len(t) ELSE cursor
  IN  [data |-> t, gap_start |-> c, gap_end |-> c]

(***************************************************************************)
(* Moving the gap.                                                         *)
(***************************************************************************)
move_cursor_left(b) ==
  IF b.gap_start = 0 THEN b
  ELSE [data      |-> [b.data EXCEPT ![b.gap_end] = b.data[b.gap_start]],
        gap_start |-> b.gap_start - 1,
        gap_end   |-> b.gap_end - 1]

move_cursor_right(b) ==
  IF b.gap_end = Len(b.data) THEN b
  ELSE [data      |-> [b.data EXCEPT ![b.gap_start + 1] = b.data[b.gap_end + 1]],
        gap_start |-> b.gap_start + 1,
        gap_end   |-> b.gap_end + 1]

(* Where the gap is after as many single steps as take the cursor to p.    *)
(* Cells the gap leaves keep their old contents: a step copies a character *)
(* across the gap and does not erase the original.                         *)
MoveTo(b, p) ==
  [data |-> [i \in 1 .. Len(b.data) |->
               IF b.gap_start < i /\ i <= p
               THEN b.data[i + GapLen(b)]
               ELSE IF p + GapLen(b) < i /\ i <= b.gap_end
               THEN b.data[i - GapLen(b)]
               ELSE b.data[i]],
   gap_start |-> p,
   gap_end   |-> p + GapLen(b)]

(***************************************************************************)
(* Editing.                                                                *)
(***************************************************************************)

(* Mutant of grow_gap: the vector grows but its tail is not moved.         *)
grow_gap_in_place(b, amount) ==
  [data |-> [i \in 1 .. Len(b.data) + amount |->
               IF i <= Len(b.data) THEN b.data[i] ELSE Nul],
   gap_start |-> b.gap_start,
   gap_end   |-> b.gap_end + amount]

(* grow_gap: the tail moves to the end of the enlarged vector; the cells   *)
(* it leaves keep stale bytes, only those past the old end are zero.       *)
grow_gap(b, amount) ==
  [data |-> [i \in 1 .. Len(b.data) + amount |->
               IF i > b.gap_end + amount THEN b.data[i - amount]
               ELSE IF i <= Len(b.data) THEN b.data[i]
               ELSE Nul],
   gap_start |-> b.gap_start,
   gap_end   |-> b.gap_end + amount]

insert_char(b, c) ==
  LET room == IF b.gap_start = b.gap_end THEN grow_gap(b, GapSize) ELSE b
  IN  [room EXCEPT !.data[b.gap_start + 1] = IF c = Return THEN Newline ELSE c,
                   !.gap_start = b.gap_start + 1]

(* Mutant of erase_char: the test for the start of the text is missing.    *)
erase_char_unguarded(b) == [b EXCEPT !.gap_start = b.gap_start - 1]

(* Mutant of erase_char: the character is removed from the vector.         *)
erase_char_shrinking(b) ==
  IF b.gap_start > 0
  THEN [data |-> SubSeq(b.data, 1, b.gap_start - 1)
                   \o SubSeq(b.data, b.gap_start + 1, Len(b.data)),
        gap_start |-> b.gap_start - 1,
        gap_end   |-> b.gap_end - 1]
  ELSE b

(* The Backspace key: one cell joins the gap, its content stays there. *)
erase_char(b) ==
  IF b.gap_start > 0 THEN [b EXCEPT !.gap_start = b.gap_start - 1] ELSE b

(* The paste loop: every character of s but '\r', one insert_char each. *)
insert_text(b, s) ==
  LET ins[n \in 0 .. Len(s)] ==
        IF n = 0 THEN b
        ELSE IF s[n] = Return THEN ins[n - 1]
        ELSE insert_char(ins[n - 1], s[n])
  IN  ins[Len(s)]

(* Mutant of CopyCells: the end of the selection is included.              *)
CopyCellsInclusive(b, start, end) == SubSeq(b.data, start + 1, end + 1)

(* The copy loop: cells start .. end - 1 of the vector (0-based), read as  *)
(* they lie in storage.                                                    *)
CopyCells(b, start, end) == SubSeq(b.data, start + 1, end)
=============================================================================
