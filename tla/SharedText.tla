----------------------------- MODULE SharedText -----------------------------
(***************************************************************************)
(* What a host and a client promise together: the host's text goes through *)
(* a history, one text per key; the client shows nothing or one of them,   *)
(* goes forward in the history only, and does nothing to it but move its   *)
(* own cursor, which stays where it is when a new text has room for it.    *)
(***************************************************************************)
EXTENDS Integers, Sequences

CONSTANT Char

VARIABLES
  history,  \* the host's texts, from the first key on
  seen,     \* how far the client has got, 0 before the first text
  shown,    \* the text the client shows
  cursor    \* ... and its cursor

hvars == <<history, seen, shown, cursor>>

Init == history = << >> /\ seen = 0 /\ shown = << >> /\ cursor = 0

HostKey ==
  /\ Len(history') = Len(history) + 1
  /\ SubSeq(history', 1, Len(history)) = history
  /\ history'[Len(history')] \in Seq(Char)
  /\ UNCHANGED <<seen, shown, cursor>>

MoveCursor ==
  /\ cursor' \in 0 .. Len(shown)
  /\ UNCHANGED <<history, seen, shown>>

Refresh ==
  /\ seen' \in seen .. Len(history) /\ seen' > 0
  /\ shown' = history[seen']
  /\ cursor' = IF cursor > Len(shown') THEN Len(shown') ELSE cursor
  /\ UNCHANGED history

Next == HostKey \/ MoveCursor \/ Refresh

Spec == Init /\ [][Next]_hvars
=============================================================================
