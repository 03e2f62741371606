----------------------------- MODULE MCRegistry -----------------------------
(***************************************************************************)
(* Small instances of Registry for TLC.  The configurations give every     *)
(* constant a value of its own.  None declares a symmetry: two check       *)
(* liveness, and RegistryRestart has one node and one observer.            *)
(***************************************************************************)
EXTENDS Registry
=============================================================================
