--------------------------- MODULE MCTaskPipeline ---------------------------
(* The instance of TaskPipeline that TLC checks: two rows that share or do *)
(* not share their expert.  No symmetry: the order in which several tasks enter the queue at once   *)
(* is a fixed one.                                                         *)
EXTENDS TaskPipeline
=============================================================================
