------------------------------ MODULE BagSums ------------------------------
(***************************************************************************)
(* The threads of a MoE layer add up their shares of the output in buffers *)
(* of their own; one thread then adds up the buffers.                      *)
(***************************************************************************)
EXTENDS Bags, Functions

\* What all the buffers hold together.
SumOfBuffers(buf) == FoldFunction(LAMBDA b, sum : b (+) sum, EmptyBag, buf)
=============================================================================
