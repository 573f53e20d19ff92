---------------------------- MODULE ComputeGraph ----------------------------
(***************************************************************************)
(* How the root engine computes a graph on the CPU: the threads of         *)
(* ggml_graph_compute (ggml.c) work through the nodes in order.  The last  *)
(* thread to finish a node prepares the next one, and computes alone what  *)
(* one task can do, while the others spin on node_n.  The work buffer and  *)
(* the counter aic are one for all nodes.  A callback of the caller can    *)
(* abort the graph.  The tensors hold one token; what a node has computed  *)
(* is the set of parts of its output that are there: rows, slices of       *)
(* threads, or, for a sum, the threads whose share has entered it.         *)
(***************************************************************************)
EXTENDS Integers, FiniteSets

CONSTANTS
    NThreads,  \* cplan->n_threads; one thread alone has nobody to meet
    NNodes,    \* cgraph->n_nodes
    NRows,     \* rows of the sparse matrix, nr0
    NChunks    \* chunks per thread the rows are cut into, 8 in the code

GraphAssumption ==
    /\ NThreads \in Nat \ {0, 1} /\ NNodes \in Nat
    /\ NRows \in Nat \ {0} /\ NChunks \in Nat \ {0}

ASSUME GraphAssumptionHolds == GraphAssumption

Threads == 0..(NThreads - 1)
Nodes   == 0..(NNodes - 1)
Rows    == 0..(NRows - 1)

\* The kinds of nodes: computed by one task; by a static slice per thread;
\* the same with a quantised input; rows drawn from aic; a sum of the
\* threads' shares.
Ops == {"single", "slices", "mul_mat", "mul_mat_sparse", "axpy"}

Quantizing == {"mul_mat", "mul_mat_sparse", "axpy"}

NoNode == -1  \* the work buffer has not been written
Junk   == -1  \* what is in the memory of an output before it is written

VARIABLES
    graph,     \* the operation of every node
    aborting,  \* does abort_callback return true?
    n_active,  \* state->shared->n_active
    node_n,    \* state->shared->node_n
    aic,       \* state->shared->aic
    work_data, \* the node whose quantised input is in cplan->work_data
    content,   \* the parts of its output every node has
    pc,        \* where each thread is in ggml_graph_compute_thread
    at,        \* its local variable node_n
    ir0,       \* its local variable: the first row it has drawn
    res        \* the parts of the sum it has loaded

sharedVars == <<n_active, node_n>>
dataVars   == <<aic, work_data, content>>
localVars  == <<ir0, res>>
vars == <<graph, aborting, sharedVars, dataVars, pc, at, localVars>>

\* ggml_get_n_tasks.
NTasks(op) == IF op = "single" THEN 1 ELSE NThreads

\* The rows a thread draws at once, all threads sharing the rows.
dr0 == (NRows + NChunks * NThreads - 1) \div (NChunks * NThreads)

\* The parts of a node's output.
Parts(op) == IF op = "mul_mat_sparse" THEN Rows ELSE 0..(NTasks(op) - 1)

TypeOK ==
    /\ graph \in [Nodes -> Ops]
    /\ aborting \in BOOLEAN
    /\ n_active \in 0..NThreads
    /\ node_n \in -1..(NNodes + NThreads)
    /\ aic \in 0..(NRows - 1 + (IF aborting THEN 2 ELSE 1) * NThreads * dr0)
    /\ work_data \in Nodes \cup {NoNode}
    /\ \A n \in Nodes : content[n] \subseteq Parts(graph[n]) \cup {Junk}
    /\ pc \in [Threads -> {"top", "arrive", "serve", "activate", "publish", "spin",
                           "compute", "draw", "rows", "store", "end", "aborted"}]
    /\ at \in [Threads -> -1..(NNodes + NThreads)]
    /\ ir0 \in [Threads -> Rows]
    /\ \A t \in Threads : res[t] \subseteq Threads \cup {Junk}

\* ggml_graph_compute.
Init ==
    /\ graph \in [Nodes -> Ops] /\ aborting = FALSE
    /\ n_active = NThreads /\ node_n = -1
    /\ aic = 0 /\ work_data = NoNode /\ content = [n \in Nodes |-> {Junk}]
    /\ pc = [t \in Threads |-> "top"] /\ at = [t \in Threads |-> -1]
    /\ ir0 = [t \in Threads |-> 0] /\ res = [t \in Threads |-> {}]

Goto(t, label) == pc' = [pc EXCEPT ![t] = label]

-----------------------------------------------------------------------------
\* The caller makes abort_callback return true, for good.
Abort ==
    /\ ~aborting
    /\ aborting' = TRUE
    /\ UNCHANGED <<graph, sharedVars, dataVars, pc, at, localVars>>

\* Mutant: the thread leaves without moving node_n.
CheckAbortQuietly(t) ==
    /\ pc[t] = "top"
    /\ Goto(t, IF aborting THEN "aborted" ELSE "arrive")
    /\ UNCHANGED <<graph, aborting, sharedVars, dataVars, at, localVars>>

\* A thread asks whether to abort; if so it moves node_n, for those that
\* spin on it, and returns.
CheckAbort(t) ==
    /\ pc[t] = "top"
    /\ \/ aborting /\ node_n' = node_n + 1 /\ Goto(t, "aborted")
       \/ ~aborting /\ Goto(t, "arrive") /\ UNCHANGED node_n
    /\ UNCHANGED <<graph, aborting, n_active, dataVars, at, localVars>>

\* A thread has finished its node; the last one to do so serves the next.
Arrive(t) ==
    /\ pc[t] = "arrive"
    /\ n_active' = n_active - 1
    /\ Goto(t, IF n_active = 1 THEN "serve" ELSE "spin")
    /\ UNCHANGED <<graph, aborting, node_n, dataVars, at, localVars>>

\* Mutant: the counter and the sum keep what they held.
InitNodeQuantizeOnly(n, c) ==
    /\ work_data' = IF graph[n] \in Quantizing THEN n ELSE work_data
    /\ content' = [content EXCEPT ![n] = c]
    /\ UNCHANGED aic

\* The INIT pass of node n leaves c in its output: the input is quantised
\* into the work buffer, the counter restarts, the output of a sum is
\* cleared.
InitNode(n, c) ==
    /\ work_data' = IF graph[n] \in Quantizing THEN n ELSE work_data
    /\ aic' = IF graph[n] \in {"mul_mat_sparse", "axpy"} THEN 0 ELSE aic
    /\ content' = [content EXCEPT ![n] = IF graph[n] = "axpy" THEN {} ELSE c]

\* The last thread moves to the next node: one that a single task computes
\* is computed at once, and the loop goes on unless the caller aborts.
Serve(t) ==
    /\ pc[t] = "serve"
    /\ at' = [at EXCEPT ![t] = @ + 1]
    /\ LET n == at[t] + 1 IN
       \/ /\ n >= NNodes
          /\ Goto(t, "activate") /\ UNCHANGED dataVars
       \/ /\ n < NNodes /\ NTasks(graph[n]) = 1
          /\ InitNode(n, content[n] \cup Parts(graph[n]))
          /\ Goto(t, IF aborting THEN "activate" ELSE "serve")
       \/ /\ n < NNodes /\ NTasks(graph[n]) # 1
          /\ InitNode(n, content[n])
          /\ Goto(t, "activate")
    /\ UNCHANGED <<graph, aborting, sharedVars, localVars>>

\* Mutant: the serving thread does not count itself.
ActivateOthers(t) ==
    /\ pc[t] = "activate"
    /\ n_active' = NThreads - 1
    /\ Goto(t, "publish")
    /\ UNCHANGED <<graph, aborting, node_n, dataVars, at, localVars>>

\* The two stores that release the others.
Activate(t) ==
    /\ pc[t] = "activate"
    /\ n_active' = NThreads
    /\ Goto(t, "publish")
    /\ UNCHANGED <<graph, aborting, node_n, dataVars, at, localVars>>

\* What a thread does with node n, which may be past the end.
Enter(t, n) ==
    Goto(t, IF n >= NNodes THEN "end"
            ELSE IF t >= NTasks(graph[n]) THEN "top"
            ELSE IF graph[n] = "mul_mat_sparse" THEN "draw" ELSE "compute")

Publish(t) ==
    /\ pc[t] = "publish"
    /\ node_n' = at[t]
    /\ Enter(t, at[t])
    /\ UNCHANGED <<graph, aborting, n_active, dataVars, at, localVars>>

\* A thread that spins sees that node_n has moved.
SeeNode(t) ==
    /\ pc[t] = "spin"
    /\ node_n # at[t]
    /\ at' = [at EXCEPT ![t] = node_n]
    /\ Enter(t, node_n)
    /\ UNCHANGED <<graph, aborting, sharedVars, dataVars, localVars>>

\* A thread computes its slice of the output.
ComputeSlice(t) ==
    /\ pc[t] = "compute" /\ graph[at[t]] # "axpy"
    /\ content' = [content EXCEPT ![at[t]] = @ \cup {t}]
    /\ Goto(t, "top")
    /\ UNCHANGED <<graph, aborting, sharedVars, aic, work_data, at, localVars>>

\* Mutant: a chunk that would be cut off is not computed.
DrawWholeChunks(t) ==
    /\ pc[t] = "draw"
    /\ aic' = aic + dr0
    /\ \/ aic + dr0 <= NRows /\ ir0' = [ir0 EXCEPT ![t] = aic] /\ Goto(t, "rows")
       \/ aic + dr0 > NRows /\ Goto(t, "top") /\ UNCHANGED ir0
    /\ UNCHANGED <<graph, aborting, sharedVars, work_data, content, at, res>>

\* mul_mat_sparse: the fetch_add that draws rows, or finds that none is left.
DrawRows(t) ==
    /\ pc[t] = "draw"
    /\ aic' = aic + dr0
    /\ \/ aic < NRows /\ ir0' = [ir0 EXCEPT ![t] = aic] /\ Goto(t, "rows")
       \/ aic >= NRows /\ Goto(t, "top") /\ UNCHANGED ir0
    /\ UNCHANGED <<graph, aborting, sharedVars, work_data, content, at, res>>

RowsFrom(first) == {r \in Rows : first <= r /\ r < first + dr0}

\* mul_mat_sparse: the rows of one chunk, the last one cut off at nr0.
ComputeRows(t) ==
    /\ pc[t] = "rows"
    /\ content' = [content EXCEPT ![at[t]] = @ \cup RowsFrom(ir0[t])]
    /\ Goto(t, IF ir0[t] + dr0 >= NRows THEN "top" ELSE "draw")
    /\ UNCHANGED <<graph, aborting, sharedVars, aic, work_data, at, localVars>>

\* axpy: a thread sums up its slice of the rows in vec and loads the sum
\* res of all threads.  There is no lock.
LoadSum(t) ==
    /\ pc[t] = "compute" /\ graph[at[t]] = "axpy"
    /\ res' = [res EXCEPT ![t] = content[at[t]]]
    /\ Goto(t, "store")
    /\ UNCHANGED <<graph, aborting, sharedVars, dataVars, at, ir0>>

\* axpy: it stores what it loaded with its own share added.
StoreSum(t) ==
    /\ pc[t] = "store"
    /\ content' = [content EXCEPT ![at[t]] = res[t] \cup {t}]
    /\ Goto(t, "top")
    /\ UNCHANGED <<graph, aborting, sharedVars, aic, work_data, at, localVars>>

Thread(t) ==
    \/ CheckAbort(t) \/ Arrive(t) \/ Serve(t) \/ Activate(t) \/ Publish(t)
    \/ SeeNode(t) \/ ComputeSlice(t) \/ DrawRows(t) \/ ComputeRows(t)
    \/ LoadSum(t) \/ StoreSum(t)

Next == Abort \/ \E t \in Threads : Thread(t)

Spec == Init /\ [][Next]_vars

\* Every thread keeps running; nobody has to abort.
Fairness == \A t \in Threads : WF_vars(Thread(t))

FairSpec == Spec /\ Fairness

-----------------------------------------------------------------------------
(* Properties.                                                             *)

\* "all other threads are finished and spinning" (ggml.c:16875): the thread
\* that prepares the next node, and overwrites the work buffer, the counter
\* and outputs, is alone, with or without an abort.
ServesAlone ==
    \A t \in Threads :
        pc[t] \in {"serve", "activate", "publish"} =>
            \A u \in Threads \ {t} : pc[u] = "spin"

Working(t) == pc[t] \in {"compute", "draw", "rows", "store"}

\* Node n has its output; for a sum, it has been cleared and nobody is
\* adding to it.
Settled(n) ==
    IF graph[n] = "axpy"
    THEN Junk \notin content[n] /\ \A u \in Threads : ~(Working(u) /\ at[u] = n)
    ELSE Parts(graph[n]) \subseteq content[n]

\* A thread that works on a node finds the outputs of all nodes before it
\* and, where it needs it, the node's own input in the work buffer; a thread
\* that ends leaves no node behind.  Only an aborted graph, whose results
\* are dropped, may differ.
InputsReady ==
    ~aborting =>
        \A t \in Threads : Working(t) \/ pc[t] = "end" =>
            /\ \A n \in Nodes : n < at[t] => Settled(n)
            /\ Working(t) /\ graph[at[t]] \in Quantizing => work_data = at[t]

\* ggml_graph_compute returns: every thread ends, also when the caller
\* aborts while some of them spin.
GraphEnds == <>(\A t \in Threads : pc[t] \in {"end", "aborted"})

\* A thread of axpy that has "stored the result in res" (ggml.c:14447) has
\* its share in the sum, and nobody who shares the sum takes it out again.
SharesKept ==
    ~aborting =>
        \A t \in Threads, n \in Nodes :
            at[t] = n /\ graph[n] = "axpy" /\ pc[t] \in {"top", "arrive"} =>
                t \in content[n]
=============================================================================
