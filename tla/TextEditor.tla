----------------------------- MODULE TextEditor -----------------------------
(***************************************************************************)
(* What the editor promises its user, with no gap buffer, no files and no  *)
(* selection: a text, a cursor between two of its characters, and what     *)
(* each mode may do to them.  README.md, "Modes": offline edits and        *)
(* changes file, host edits, a client only moves around the text it is     *)
(* sent.  Module Editor is shown to implement this specification.          *)
(***************************************************************************)
EXTENDS Integers, Sequences

CONSTANT Char

VARIABLES mode, text, cursor

tvars == <<mode, text, cursor>>

CanEdit == mode \in {"Offline", "Host"}

Init ==
  /\ mode \in {"Offline", "Host", "Client"}
  /\ text \in Seq(Char)
  /\ cursor = 0

(* The cursor goes somewhere in the text. *)
Move ==
  /\ cursor' \in 0 .. Len(text)
  /\ UNCHANGED <<mode, text>>

(* Some characters appear at the cursor, which ends up after them; what    *)
(* was on either side of the cursor is intact.                             *)
InsertAtCursor ==
  /\ CanEdit
  /\ text' \in Seq(Char)
  /\ Len(text') >= Len(text)
  /\ LET n == Len(text') - Len(text)
     IN  /\ cursor' = cursor + n
         /\ \A i \in 1 .. Len(text) :
              IF i <= cursor THEN text'[i] = text[i] ELSE text'[i + n] = text[i]
  /\ UNCHANGED mode

(* The character before the cursor disappears. *)
DeleteBeforeCursor ==
  /\ CanEdit
  /\ cursor > 0
  /\ text' = [i \in 1 .. Len(text) - 1 |->
                IF i < cursor THEN text[i] ELSE text[i + 1]]
  /\ cursor' = cursor - 1
  /\ UNCHANGED mode

(* Another file is opened, with the cursor at its start. *)
OpenFile ==
  /\ mode = "Offline"
  /\ text' \in Seq(Char)
  /\ cursor' = 0
  /\ UNCHANGED mode

(* The host's text replaces the client's; the cursor keeps its position if *)
(* the new text is long enough and goes to its end if not.                 *)
ReceiveText ==
  /\ mode = "Client"
  /\ text' \in Seq(Char)
  /\ cursor' = IF cursor > Len(text') THEN Len(text') ELSE cursor
  /\ UNCHANGED mode

Next ==
  \/ Move
  \/ InsertAtCursor
  \/ DeleteBeforeCursor
  \/ OpenFile
  \/ ReceiveText

Spec == Init /\ [][Next]_tvars
=============================================================================
