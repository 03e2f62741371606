--------------------------- MODULE MCPartitioner ---------------------------
(***************************************************************************)
(* A small instance of Partitioner and its ordered set for TLC.  Nodes 1   *)
(* and 3 have equal hashes, the hash of node 2 is zero, and the zero value *)
(* of an ID has the highest.                                               *)
(***************************************************************************)
EXTENDS Partitioner

MCHash == [m \in Members \cup {Zero} |-> IF m = Zero THEN 3 ELSE m % 2]
=============================================================================
