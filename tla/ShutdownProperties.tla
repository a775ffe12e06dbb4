------------------------- MODULE ShutdownProperties -------------------------
(***************************************************************************)
(* What should be true of module Shutdown.                                 *)
(***************************************************************************)
EXTENDS Shutdown

(* Types of the variables; no session that did not come from a connection  *)
(* is ever in sessions_, and none is there twice.                          *)
TypeOK ==
  /\ main \in {"typing", "writing", "posting", "closeAcceptor", "closing",
               "stopping", "joining", "destroying", "exited"}
  /\ closing \in Nat /\ closeTo \in Nat
  /\ file \in Seq(Block)
  /\ {failed, stopped, undefined} \subseteq BOOLEAN
  /\ posts \in 0 .. MaxPosts
  /\ net \in {"idle", "broadcasting", "push", "useSocket", "accept", "closeSocket",
              "gone"}
  /\ acceptor_ \in {"Listening", "Open", "Closed"}
  /\ sessions_ \in Seq(connected) /\ IsInjective(sessions_)
  /\ open \subseteq connected /\ gone \subseteq connected /\ connected \subseteq Client

(* However stop and the accept handler overlap, at most one session is     *)
(* left open in sessions_ when the Editor is destroyed: one the acceptor   *)
(* had already accepted when stop closed it.                               *)
AtMostOneOutlives == main = "destroying" => Cardinality(Outliving) <= 1

=============================================================================
