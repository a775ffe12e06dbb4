-------------------------------- MODULE Editor --------------------------------
(***************************************************************************)
(* The Editor singleton of src/src/editor.cpp as its main loop drives it:  *)
(* one thread that polls the network (client mode), takes one key event    *)
(* and runs process_input on it.  An action is one whole call of           *)
(* process_input for one kind of key, or one poll_network that finds data. *)
(* The three input handlers of src/src/input_handler.cpp are the           *)
(* conditions on mode_ in the actions.                                     *)
(*                                                                         *)
(* The file system is a function from paths to contents.  Whether a path   *)
(* can be opened is fixed (Readable, Writable); the empty path NoPath can  *)
(* never be opened.                                                        *)
(***************************************************************************)
EXTENDS GapBuffer

CONSTANTS
  StartModes,  \* the modes main may start the editor in
  Path,        \* file names, NoPath among them
  NoPath,      \* the empty string
  Readable,    \* the paths an ifstream can open once the file exists
  Writable,    \* the paths an ofstream can open
  Absent,      \* content of a file that does not exist
  None,        \* nothing broadcast yet
  Disks,       \* the file systems the editor may be started on
  Typed,       \* the characters the Char key event carries
  Clips,       \* the texts the OS clipboard may hold when pasting
  Messages,    \* the texts a client may be sent
  MaxLen       \* bound on the length of an edited text

Modes == {"Offline", "Host", "Client"}

ASSUME EditorAssumption ==
  /\ StartModes \subseteq Modes
  /\ NoPath \in Path
  /\ Readable \subseteq Path \ {NoPath}
  /\ Writable \subseteq Path \ {NoPath}
  /\ Absent \notin Text
  /\ None \notin Text
  /\ Disks \subseteq [Path -> Text \cup {Absent}]
  /\ Typed \subseteq Char
  /\ Clips \subseteq Text
  /\ Messages \subseteq Text
  /\ MaxLen \in Nat

VARIABLES
  mode_,         \* Offline, Host or Client
  path,          \* the file being edited
  gap_buffer,    \* its text
  highligter,    \* the selection (the code's spelling)
  modal,         \* changefileModal: active, confirmed, path
  running_,      \* FALSE once Quit was handled
  disk,          \* the file system
  clipboard,     \* what this editor last put on the OS clipboard
  posted         \* the snapshot the host last posted for broadcast

vars == <<mode_, path, gap_buffer, highligter, modal, running_, disk,
          clipboard, posted>>

text   == serialize_buffer(gap_buffer)
cursor == gap_buffer.gap_start

NoHighlight == [active |-> FALSE, start |-> 0, end |-> 0]

(***************************************************************************)
(* Files.                                                                  *)
(***************************************************************************)
CanRead(d, p) == p \in Readable /\ d[p] # Absent

(* load_file: a file that cannot be opened for reading gives an empty      *)
(* buffer, and an ofstream opened on its path creates or truncates it.     *)
LoadedBuffer(d, p) == IF CanRead(d, p) THEN BufferOfFile(d[p]) ELSE create_gap_buffer

(* Mutant of DiskAfterLoad: the file is opened for writing in any case.    *)
DiskAfterTruncatingLoad(d, p) == IF p \in Writable THEN [d EXCEPT ![p] = << >>] ELSE d

DiskAfterLoad(d, p) ==
  IF ~ CanRead(d, p) /\ p \in Writable THEN [d EXCEPT ![p] = << >>] ELSE d

(* Mutant of DiskAfterSave: only the text before the gap is written.       *)
DiskAfterHalfSave(d, b, p) ==
  IF p \in Writable THEN [d EXCEPT ![p] = SubSeq(b.data, 1, b.gap_start)] ELSE d

(* save_file: nothing happens, and nothing is reported, when the path      *)
(* cannot be opened.                                                       *)
DiskAfterSave(d, b, p) ==
  IF p \in Writable THEN [d EXCEPT ![p] = serialize_buffer(b)] ELSE d

(***************************************************************************)
(* Initial states: main has called init and, in host or client mode,       *)
(* start_host or start_client.  A client is started on the empty path.     *)
(***************************************************************************)
Init ==
  /\ mode_ \in StartModes
  /\ path \in IF mode_ = "Client" THEN {NoPath} ELSE Path \ {NoPath}
  /\ \E d \in Disks : /\ gap_buffer = LoadedBuffer(d, path)
                      /\ disk = DiskAfterLoad(d, path)
  /\ highligter = NoHighlight
  /\ modal = [active |-> FALSE, confirmed |-> FALSE, path |-> NoPath]
  /\ running_ = TRUE
  /\ clipboard = << >>
  /\ posted = None

(***************************************************************************)
(* process_input, around the handler.                                      *)
(***************************************************************************)
(* A key reaches the handler when the change-file modal is not open. *)
KeyToHandler == running_ /\ ~ modal.active

(* Mutant of KeepsSelection: opening the modal leaves the selection.       *)
KeepsSelectionInModal == {"Char", "Backspace", "Copy", "Paste", "ChangeFile"}

(* Keys other than these four end a selection unless shift is held. *)
KeepsSelection == {"Char", "Backspace", "Copy", "Paste"}

HighlightBefore(key, shift) ==
  IF shift
  THEN IF highligter.active THEN highligter
       ELSE [active |-> TRUE, start |-> cursor, end |-> cursor]
  ELSE IF key \in KeepsSelection THEN highligter ELSE NoHighlight

(* Mutant of Broadcast: the snapshot is taken before the key is handled.   *)
BroadcastBefore ==
  posted' = IF mode_ = "Host" THEN serialize_buffer(gap_buffer) ELSE posted

(* The host broadcasts a snapshot after every key its handler is given. *)
Broadcast ==
  posted' = IF mode_ = "Host" THEN serialize_buffer(gap_buffer') ELSE posted

(***************************************************************************)
(* The keys.                                                               *)
(***************************************************************************)
Arrow(key, shift, ctrl) ==
  /\ KeyToHandler
  /\ gap_buffer' = MoveTo(MoveTo(gap_buffer, TurnsAt(key, text, cursor)),
                          ArrowTarget(key, ctrl, text, cursor))
  /\ highligter' = IF shift
                   THEN [HighlightBefore(key, shift) EXCEPT !.end = gap_buffer'.gap_start]
                   ELSE HighlightBefore(key, shift)
  /\ Broadcast
  /\ UNCHANGED <<mode_, path, modal, running_, disk, clipboard>>

(* Char and Enter: a client's handler ignores them, but Enter ends its     *)
(* selection all the same.                                                 *)
Insert(key, c) ==
  /\ KeyToHandler
  /\ IF mode_ = "Client" THEN UNCHANGED gap_buffer
     ELSE /\ TextLen(gap_buffer) < MaxLen
          /\ gap_buffer' = insert_char(gap_buffer, c)
  /\ highligter' = HighlightBefore(key, FALSE)
  /\ Broadcast
  /\ UNCHANGED <<mode_, path, modal, running_, disk, clipboard>>

Backspace ==
  /\ KeyToHandler
  /\ gap_buffer' = IF mode_ = "Client" THEN gap_buffer ELSE erase_char(gap_buffer)
  /\ Broadcast
  /\ UNCHANGED <<mode_, path, highligter, modal, running_, disk, clipboard>>

Copy ==
  /\ KeyToHandler
  /\ clipboard' =
       IF mode_ # "Client" /\ highligter.active
       THEN IF highligter.start <= highligter.end
            THEN CopyCells(gap_buffer, highligter.start, highligter.end)
            ELSE CopyCells(gap_buffer, highligter.end, highligter.start)
       ELSE clipboard
  /\ UNCHANGED gap_buffer
  /\ Broadcast
  /\ UNCHANGED <<mode_, path, highligter, modal, running_, disk>>

(* Other programs share the OS clipboard: any text may be on it. *)
Paste(s) ==
  /\ KeyToHandler
  /\ IF mode_ = "Client" THEN UNCHANGED <<gap_buffer, highligter>>
     ELSE /\ TextLen(gap_buffer) + Len(s) <= MaxLen
          /\ gap_buffer' = insert_text(gap_buffer, s)
          /\ highligter' = NoHighlight
  /\ Broadcast
  /\ UNCHANGED <<mode_, path, modal, running_, disk, clipboard>>

ChangeFile ==
  /\ KeyToHandler
  /\ modal' = IF mode_ = "Offline"
              THEN [active |-> TRUE, confirmed |-> FALSE, path |-> NoPath]
              ELSE modal
  /\ highligter' = HighlightBefore("ChangeFile", FALSE)
  /\ UNCHANGED gap_buffer
  /\ Broadcast
  /\ UNCHANGED <<mode_, path, running_, disk, clipboard>>

Quit ==
  /\ KeyToHandler
  /\ disk' = DiskAfterSave(disk, gap_buffer, path)
  /\ running_' = FALSE
  /\ highligter' = HighlightBefore("Quit", FALSE)
  /\ UNCHANGED gap_buffer
  /\ Broadcast
  /\ UNCHANGED <<mode_, path, modal, clipboard>>

(* Escape, Save (Ctrl+S) and AqLock: no handler does anything for them. *)
OtherKey ==
  /\ KeyToHandler
  /\ highligter' = HighlightBefore("Escape", FALSE)
  /\ UNCHANGED gap_buffer
  /\ Broadcast
  /\ UNCHANGED <<mode_, path, modal, running_, disk, clipboard>>

(***************************************************************************)
(* The change-file modal takes every key while it is open; keys it has no  *)
(* case for (Quit among them) change nothing.                              *)
(***************************************************************************)
ModalKey == running_ /\ modal.active

(* Char makes the typed path some non-empty one, Backspace shortens it. *)
ModalEdit ==
  /\ ModalKey
  /\ \E p \in Path : /\ p = NoPath => modal.path # NoPath
                     /\ modal' = [modal EXCEPT !.path = p]
  /\ UNCHANGED <<mode_, path, gap_buffer, highligter, running_, disk,
                 clipboard, posted>>

(* Mutant of ModalConfirm: the path changes before the text is saved.      *)
ModalConfirmSavesToNewPath ==
  /\ ModalKey
  /\ path' = modal.path
  /\ LET saved == DiskAfterSave(disk, gap_buffer, modal.path)
     IN  /\ gap_buffer' = LoadedBuffer(saved, modal.path)
         /\ disk' = DiskAfterLoad(saved, modal.path)
  /\ modal' = [modal EXCEPT !.active = FALSE, !.confirmed = TRUE]
  /\ UNCHANGED <<mode_, highligter, running_, clipboard, posted>>

(* Enter: save the old file, then init with the new path. *)
ModalConfirm ==
  /\ ModalKey
  /\ path' = modal.path
  /\ LET saved == DiskAfterSave(disk, gap_buffer, path)
     IN  /\ gap_buffer' = LoadedBuffer(saved, modal.path)
         /\ disk' = DiskAfterLoad(saved, modal.path)
  /\ modal' = [modal EXCEPT !.active = FALSE, !.confirmed = TRUE]
  /\ UNCHANGED <<mode_, highligter, running_, clipboard, posted>>

ModalCancel ==
  /\ ModalKey
  /\ modal' = [modal EXCEPT !.active = FALSE, !.confirmed = FALSE]
  /\ UNCHANGED <<mode_, path, gap_buffer, highligter, running_, disk,
                 clipboard, posted>>

(***************************************************************************)
(* poll_network: the selection is left as it was, even when the new text   *)
(* is shorter.                                                             *)
(***************************************************************************)
PollNetwork(t) ==
  /\ running_ /\ mode_ = "Client"
  /\ gap_buffer' = BufferOfMessage(t, cursor)
  /\ UNCHANGED <<mode_, path, highligter, modal, running_, disk, clipboard,
                 posted>>

Next ==
  \/ \E key \in Arrows, shift, ctrl \in BOOLEAN : Arrow(key, shift, ctrl)
  \/ \E c \in Typed : Insert("Char", c)
  \/ Insert("Enter", Newline)
  \/ Backspace
  \/ Copy
  \/ \E s \in Clips : Paste(s)
  \/ ChangeFile
  \/ Quit
  \/ OtherKey
  \/ ModalEdit
  \/ ModalConfirm
  \/ ModalCancel
  \/ \E t \in Messages : PollNetwork(t)

Spec == Init /\ [][Next]_vars
=============================================================================
