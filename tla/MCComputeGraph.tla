--------------------------- MODULE MCComputeGraph ---------------------------
(* The instances of ComputeGraph that TLC checks.  No symmetry: the thread *)
(* numbers pick the slices and who computes an aborted single-task node.   *)
EXTENDS ComputeGraph
=============================================================================
