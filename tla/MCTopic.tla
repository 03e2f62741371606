------------------------------ MODULE MCTopic ------------------------------
(***************************************************************************)
(* A small instance of Topic for TLC: three channels, so that the removal  *)
(* of a subscriber may move another one.                                   *)
(***************************************************************************)
EXTENDS Topic
=============================================================================
