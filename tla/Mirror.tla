------------------------------- MODULE Mirror -------------------------------
(***************************************************************************)
(* What the network promises: the host's text goes through versions, and   *)
(* each client shows one of them, never one older than it already showed.  *)
(* A client whose connection is broken may show anything from then on; the *)
(* others do not notice.                                                   *)
(***************************************************************************)
EXTENDS Integers

CONSTANT Client

VARIABLES version, shown, broken

mvars == <<version, shown, broken>>

Init == version = 0 /\ shown = [c \in Client |-> 0] /\ broken = {}

Edit == version' = version + 1 /\ UNCHANGED <<shown, broken>>

Refresh(c) ==
  /\ c \notin broken
  /\ \E v \in shown[c] .. version : shown' = [shown EXCEPT ![c] = v]
  /\ UNCHANGED <<version, broken>>

Break == /\ broken \subseteq broken' /\ broken' \subseteq Client
         /\ UNCHANGED <<version, shown>>

ShowAnything(c) ==
  /\ c \in broken
  /\ shown' = [shown EXCEPT ![c] = shown'[c]]
  /\ UNCHANGED <<version, broken>>

Next == Edit \/ Break \/ \E c \in Client : Refresh(c) \/ ShowAnything(c)

Spec == Init /\ [][Next]_mvars
=============================================================================
