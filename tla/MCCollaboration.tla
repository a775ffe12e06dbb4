--------------------------- MODULE MCCollaboration ---------------------------
(***************************************************************************)
(* A small instance of module Collaboration: a text of three characters    *)
(* on two lines, two keys on the host, any number on the client.           *)
(***************************************************************************)
EXTENDS Collaboration

MCChar == {"a", "b", "_", "nl", "cr", "nul", "tab"}
MCPath == {"", "f"}
MCFile == <<"a", "nl", "b">>
MCClips == { <<"a">> }
MCSize == [v \in Version |-> 1]

(* The selections and the clipboards change nothing else: states that      *)
(* differ in them alone are explored once.                                 *)
UpToSelections == <<nvars, texts, host_path, host_buffer, host_running, host_disk,
                    viewer_path, viewer_buffer, viewer_running, viewer_disk>>
=============================================================================
