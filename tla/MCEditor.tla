------------------------------ MODULE MCEditor ------------------------------
(***************************************************************************)
(* Small instances of module Editor.  Gaps of one cell make the buffer     *)
(* grow again and again, a text area of three columns makes lines wrap.    *)
(***************************************************************************)
EXTENDS ScreenProperties

MCChar == {"a", "b", "_", "nl", "cr", "nul", "tab"}

(* "f" exists, "g" does not, "h" can be written but not read. *)
MCPath1 == {"", "f"}
MCDisks1 == { [p \in MCPath1 |-> IF p = "f" THEN <<"a", "nl">> ELSE Absent] }

MCPath == {"", "f", "g", "h"}
MCDisks == { [p \in MCPath |-> IF p = "f" THEN t
                               ELSE IF p = "h" THEN <<"b">> ELSE Absent] :
               t \in { << >>, <<"nl">> } }

MCClips    == { <<"b", "cr", "nl">> }
MCMessages == { << >>, <<"a">>, <<"b", "nl", "b">>,
                <<"a", "_", "b", "a", "a", "nl", "b">>, <<"nl", "tab", "b", "nl", "a">> }

(* No action reads clipboard: states that differ in it alone have the same *)
(* successors, and are explored once.                                      *)
UpToClipboard == <<mode_, path, gap_buffer, highligter, modal, running_, disk,
                   posted>>
=============================================================================
