-------------------------- MODULE EditorProperties --------------------------
(***************************************************************************)
(* What should be true of module Editor.                                   *)
(***************************************************************************)
EXTENDS Editor

(* Types of all variables; in particular gap_buffer is a Buffer: its gap   *)
(* is well placed, so that no operation of buffer_service.cpp indexes the  *)
(* vector outside its bounds.                                              *)
TypeOK ==
  /\ mode_ \in Modes
  /\ path \in Path
  /\ gap_buffer \in Buffer
  /\ highligter \in [active : BOOLEAN, start : Nat, end : Nat]
  /\ modal \in [active : BOOLEAN, confirmed : BOOLEAN, path : Path]
  /\ running_ \in BOOLEAN
  /\ disk \in [Path -> Text \cup {Absent}]
  /\ clipboard \in Text
  /\ posted \in Text \cup {None}

(* The copy loop of input_handler.cpp indexes the vector with positions    *)
(* saved when the selection was made.  Edits, gap growth and file changes  *)
(* in between must not leave them past the end of the vector.              *)
CopyStaysInBuffer ==
  mode_ # "Client" /\ highligter.active =>
    /\ highligter.start <= Len(gap_buffer.data)
    /\ highligter.end <= Len(gap_buffer.data)

(* The selection the user sees: print_buffer highlights the characters of  *)
(* the text (not of the vector) between the two saved positions.           *)
Selected ==
  LET from == IF highligter.start <= highligter.end
              THEN highligter.start ELSE highligter.end
      to   == IF highligter.start <= highligter.end
              THEN highligter.end ELSE highligter.start
  IN  [from |-> from, to |-> IF to > Len(text) THEN Len(text) ELSE to]

CopyTakesEffect == Copy /\ mode_ # "Client" /\ highligter.active

(* A selection that lies before the cursor is copied exactly as shown,     *)
(* whatever was typed, erased or moved since it was made.                  *)
CopyBeforeCursorIsExact ==
  [][CopyTakesEffect /\ Selected.to <= cursor /\ highligter.start <= cursor
       /\ highligter.end <= cursor
     => clipboard' = SubSeq(text, Selected.from + 1, Selected.to)]_vars

(* main.cpp:12, "Ctrl+C  Copy selected text": what is copied is what is    *)
(* shown selected.  The code reads the cells of the gap when the selection *)
(* reaches past the cursor.                                                *)
CopyIsSelectedText ==
  [][CopyTakesEffect
     => clipboard' = SubSeq(text, Selected.from + 1, Selected.to)]_vars

(* A host's last posted snapshot is its current text: no key changes the   *)
(* text without a broadcast after the change (process_input, editor.cpp).  *)
HostPostsCurrentText ==
  mode_ = "Host" /\ posted # None => posted = text

(* main.cpp:11, "Save and quit": once Quit was handled the file holds the  *)
(* text, when its path can be written.                                     *)
QuitSavesWritable ==
  ~ running_ /\ mode_ # "Client" /\ path \in Writable => disk[path] = text

(* The change-file modal is open only offline, and never over a selection: *)
(* the file it opens may be shorter than the positions a selection saved.  *)
ModalExcludesSelection == modal.active => mode_ = "Offline" /\ ~ highligter.active

(* A client edits no file: main starts it on the empty path and nothing    *)
(* gives it another, so that the save its Quit makes finds no file to      *)
(* write.  README.md:18 wants it so ("No editing, saving, or file          *)
(* changing"), README.md:13 does not ("like saving file").                 *)
ClientHasNoPath == mode_ = "Client" => path = NoPath

(* Changing file does not lose the text being left: the old file holds it  *)
(* afterwards (unless it cannot be written, or opening the same file again *)
(* truncates it because it can be written but not read).                   *)
ChangeFileKeepsText ==
  [][ModalConfirm /\ path \in Writable \cap Readable => disk'[path] = text]_vars

(* Only the file being left is written, with the text being left, and only *)
(* the file being opened may become empty, and only if it cannot be read.  *)
(* The path a key saves to and the path it opens are read at two times     *)
(* (editor.cpp:101): a mix-up would write the text into the wrong file.    *)
OnlyOpenFilesChange ==
  [][\A p \in Path : disk'[p] # disk[p] =>
       \/ p = path /\ disk'[p] = text
       \/ p = path' /\ ~ CanRead(disk, p) /\ disk'[p] = << >>]_vars

(* TextEditor, of the text and the cursor the gap buffer stands for.       *)
Abstract == INSTANCE TextEditor WITH mode <- mode_

(* The editor implements TextEditor: moving, typing, erasing and pasting,  *)
(* in any order and with any gap, lose or reorder no other character.      *)
ImplementsTextEditor == Abstract!Spec

(* What the proofs carry along: the state invariants above, together.      *)
EditorInvariant ==
  /\ TypeOK
  /\ CopyStaysInBuffer
  /\ ModalExcludesSelection
  /\ ClientHasNoPath
  /\ HostPostsCurrentText
  /\ QuitSavesWritable
=============================================================================
