------------------------------ MODULE MCLmHead ------------------------------
(* The instance of LmHead that TLC checks.                                 *)
EXTENDS LmHead
=============================================================================
