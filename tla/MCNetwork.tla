------------------------------ MODULE MCNetwork ------------------------------
(***************************************************************************)
(* Small instances of module Network: the frame of the first text is       *)
(* larger than what one write moves and than a connection holds, the       *)
(* second text is empty.                                                   *)
(***************************************************************************)
EXTENDS NetworkProperties

MCSize == [v \in Version |-> IF v = 2 THEN 0 ELSE IF v = 0 THEN 1 ELSE 2]
=============================================================================
