---------------------- MODULE MCIntegrationSupervisor ----------------------
(***************************************************************************)
(* A small instance of IntegrationSupervisor for TLC.                      *)
(***************************************************************************)
EXTENDS IntegrationSupervisor, TLC

\* Supervisors, commands and event IDs are interchangeable.
Symmetry ==
  Permutations(Supervisors) \cup Permutations(Commands)
  \cup Permutations(EventIDs) \cup Permutations(Streams)
=============================================================================
