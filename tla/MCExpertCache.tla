--------------------------- MODULE MCExpertCache ---------------------------
(***************************************************************************)
(* The instances of ExpertCache that TLC checks.  In the runs that look    *)
(* for a violation a layer may demand any matrices, which are              *)
(* interchangeable.  In the others two layers compete for the cache: one   *)
(* fills it, and the other takes one buffer from it.                       *)
(***************************************************************************)
EXTENDS ExpertCache, TLC

AnySelection == SUBSET Matrices
Symmetry == Permutations(Matrices)
=============================================================================
