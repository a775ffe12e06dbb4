----------------------------- MODULE MCShutdown -----------------------------
(***************************************************************************)
(* A small instance of module Shutdown: the file shrinks from three blocks *)
(* to two, and shares its first one.                                       *)
(***************************************************************************)
EXTENDS ShutdownProperties

MCBlock   == {"a", "b", "c", "d"}
MCOldText == <<"a", "b", "c">>
MCNewText == <<"a", "d">>
=============================================================================
