------------------------ MODULE MCEventStreamWorker ------------------------
(***************************************************************************)
(* A small instance of EventStreamWorker for TLC.  Batch b2 has two events,*)
(* so that a hint may point into the middle of a record.                   *)
(***************************************************************************)
EXTENDS EventStreamWorker

CONSTANT b2

MCSize == [b \in Batches |-> IF b = b2 THEN 2 ELSE 1]
=============================================================================
