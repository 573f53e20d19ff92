--------------------------- MODULE MCSpinBarrier ---------------------------
(* The instance of SpinBarrier that TLC checks: four threads. *)
EXTENDS SpinBarrier
=============================================================================
