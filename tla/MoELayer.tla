------------------------------ MODULE MoELayer ------------------------------
(***************************************************************************)
(* What one mixture-of-experts layer promises the graph, however it is     *)
(* computed: every row of its output is the sum, over the experts its      *)
(* router selects for the row, of the expert's result weighted with that   *)
(* row's score for that expert.  An expert's result is itself a sum over   *)
(* blocks of its hidden neurons.  An output is the bag of its summands: a  *)
(* summand names the row, the expert, the block, and whose score weights   *)
(* it.                                                                     *)
(***************************************************************************)
EXTENDS Integers, Sequences, FiniteSets, Bags

CONSTANTS
    Rows,      \* the rows (tokens) of a batch
    Experts,   \* the experts of a layer
    NUsed,     \* n_used_experts: how many experts the router selects per row
    Blocks     \* the blocks an expert's hidden neurons are computed in

\* What the router selects for a row: NUsed distinct experts.
Selections ==
    {s \in [1..NUsed -> Experts] : \A i, j \in 1..NUsed : s[i] = s[j] => i = j}

Routings == [Rows -> Selections]

\* The summand of block b of expert e in the output of row r.
Summand(r, e, b) ==
    [row |-> r, expert |-> e, block |-> b, score |-> <<r, e>>]

\* The output of a layer with routing ids.
WeightedSum(ids) ==
    SetToBag({Summand(r, ids[r][j], b) : r \in Rows, j \in 1..NUsed, b \in Blocks})

VARIABLES
    expert_ids,   \* the routing of the current layer
    computing,    \* is the layer being computed?
    output        \* what has been written to the layer's output

vars == <<expert_ids, computing, output>>

Init ==
    /\ expert_ids \in Routings
    /\ computing = FALSE
    /\ output = EmptyBag

Start(ids) ==
    /\ ~computing
    /\ expert_ids' = ids
    /\ computing' = TRUE
    /\ output' = EmptyBag

\* The output is written once, complete.
Compute ==
    /\ computing
    /\ output = EmptyBag
    /\ output' = WeightedSum(expert_ids)
    /\ UNCHANGED <<expert_ids, computing>>

\* The node of the graph ends, with the output in place.
Finish ==
    /\ computing
    /\ output = WeightedSum(expert_ids)
    /\ computing' = FALSE
    /\ UNCHANGED <<expert_ids, output>>

Next == Compute \/ Finish \/ \E ids \in Routings : Start(ids)

Spec == Init /\ [][Next]_vars
=============================================================================
