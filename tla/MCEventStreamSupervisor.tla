---------------------- MODULE MCEventStreamSupervisor ----------------------
(***************************************************************************)
(* A small instance of EventStreamSupervisor for TLC: one exchange has a   *)
(* stream of its own, the others append to the same stream.                *)
(***************************************************************************)
EXTENDS EventStreamSupervisor

CONSTANTS x1, k1, k2

MCStreamID == [x \in Exchanges |-> IF x = x1 THEN k1 ELSE k2]
=============================================================================
