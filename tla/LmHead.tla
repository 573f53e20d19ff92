------------------------------- MODULE LmHead -------------------------------
(***************************************************************************)
(* The output layer for one token with a profiler                          *)
(* (powerinfer_host_lmhead_q4_0_f32): the threads quantise the input, run  *)
(* the two layers of the profiler, which says for every row of the         *)
(* vocabulary whether it is worth computing, and compute those rows.  Four *)
(* stages; each reads all that the stage before has written, and only the  *)
(* HostBarrier stands between them.  The last three share out their parts  *)
(* with atomic counters that live in the work buffer and hold whatever was *)
(* there until thread 0 constructs them.                                   *)
(***************************************************************************)
EXTENDS HostBarrier

CONSTANTS
    NGroups,    \* groups of 128 inputs
    NBlocks,    \* num_hidden_block
    NWords,     \* num_group: mask words of the profiler's output
    WordRows,   \* GROUP_NUM_ROW: the rows a mask word stands for
    ChunkSize   \* chunk_size

LmHeadAssumption ==
    /\ NGroups \in Nat /\ NBlocks \in Nat /\ NWords \in Nat \ {0}
    /\ WordRows \in Nat \ {0} /\ ChunkSize \in Nat \ {0}

ASSUME LmHeadAssumptionHolds == LmHeadAssumption

\* Division that rounds up.
Ceil(a, b) == (a + b - 1) \div b

nr0     == NWords * WordRows
nchunk0 == Ceil(nr0, ChunkSize)
dr0     == Ceil(nr0, nchunk0)

VARIABLES
    computing,  \* is the node being computed?
    pc,         \* where each thread is
    stage,      \* the stage each thread is in, 0..3
    counter,    \* atomic_counter_ptr[0..2], for the stages 1..3
    taken,      \* the part each thread has drawn last
    done        \* the parts of every stage that this node has written

headVars == <<computing, pc, stage, counter, taken, done>>
vars == <<headVars, barrierVars>>

\* The parts of a stage: quantised groups, blocks of the middle buffer,
\* mask words, and rows of the output.
Parts == [s \in 0..3 |-> CASE s = 0 -> 0..(NGroups - 1)
                           [] s = 1 -> 0..(NBlocks - 1)
                           [] s = 2 -> 0..(NWords - 1)
                           [] s = 3 -> 0..(nr0 - 1)]

\* How many draws a stage has, and the parts that a draw k stands for.
Draws == [s \in 1..3 |-> CASE s = 1 -> NBlocks [] s = 2 -> NWords [] s = 3 -> nchunk0]

Drawn(s, k) ==
    IF s = 3 THEN {r \in Parts[3] : dr0 * k <= r /\ r < dr0 * k + dr0} ELSE {k}

TypeOK ==
    /\ computing \in BOOLEAN
    /\ pc \in [Threads -> {"idle", "quantize", "wait", "draw", "compute", "end"}]
    /\ stage \in [Threads -> 0..3]
    /\ counter \in [1..3 -> Nat]
    /\ taken \in [Threads -> Nat]
    /\ done \in [0..3 -> SUBSET Nat]
    /\ nth \in 1..MaxThreads /\ expected \in 1..Parties
    /\ phase \in 0..(Phases - 1)
    /\ token \in [Threads -> 0..(Phases - 1)]
    /\ inside \in SUBSET Threads
    /\ waits \in [Threads -> Nat]

Init ==
    /\ computing = FALSE
    /\ pc = [t \in Threads |-> "idle"] /\ stage = [t \in Threads |-> 0]
    /\ counter = [s \in 1..3 |-> 0] /\ taken = [t \in Threads |-> 0]
    /\ done = [s \in 0..3 |-> {}]
    /\ NewBarrier

-----------------------------------------------------------------------------
\* A graph for n threads reaches its LM head; the counters hold what is in
\* the work buffer.
StartNode(n) ==
    /\ ~computing
    /\ computing' = TRUE
    /\ pc' = [t \in Threads |-> IF t < n THEN "quantize" ELSE "idle"]
    /\ stage' = [t \in Threads |-> 0]
    /\ done' = [s \in 0..3 |-> {}]
    /\ NewGraph(n)
    /\ UNCHANGED <<counter, taken>>

\* Stage 0: every nth-th group of the input; thread 0 constructs the
\* counters; all meet.
Quantize(t) ==
    /\ pc[t] = "quantize"
    /\ done' = [done EXCEPT ![0] = @ \cup {g \in Parts[0] : g % nth = t}]
    /\ counter' = IF t = 0 THEN [s \in 1..3 |-> 0] ELSE counter
    /\ Arrive(t)
    /\ pc' = [pc EXCEPT ![t] = "wait"]
    /\ UNCHANGED <<computing, stage, taken>>

\* The barrier opens: the next stage begins.
NextStage(t) ==
    /\ pc[t] = "wait"
    /\ Return(t)
    /\ stage' = [stage EXCEPT ![t] = @ + 1]
    /\ pc' = [pc EXCEPT ![t] = "draw"]
    /\ UNCHANGED <<computing, counter, taken, done>>

\* Mutant: the threads do not meet between the profiler and the head.
DrawNoBarrier(t) ==
    LET s == stage[t] IN
    /\ pc[t] = "draw"
    /\ counter' = [counter EXCEPT ![s] = @ + 1]
    /\ \/ /\ counter[s] < Draws[s]
          /\ taken' = [taken EXCEPT ![t] = counter[s]]
          /\ pc' = [pc EXCEPT ![t] = "compute"]
          /\ UNCHANGED <<stage, barrierVars>>
       \/ /\ counter[s] >= Draws[s] /\ s = 1
          /\ pc' = [pc EXCEPT ![t] = "wait"]
          /\ Arrive(t)
          /\ UNCHANGED <<stage, taken>>
       \/ /\ counter[s] >= Draws[s] /\ s # 1
          /\ pc' = [pc EXCEPT ![t] = IF s = 2 THEN "draw" ELSE "end"]
          /\ stage' = [stage EXCEPT ![t] = IF s = 2 THEN 3 ELSE s]
          /\ UNCHANGED <<taken, barrierVars>>
    /\ UNCHANGED <<computing, done>>

\* counter++ draws the next part, or finds that none is left; then all meet,
\* except after the last stage.
Draw(t) ==
    LET s == stage[t] IN
    /\ pc[t] = "draw"
    /\ counter' = [counter EXCEPT ![s] = @ + 1]
    /\ \/ /\ counter[s] < Draws[s]
          /\ taken' = [taken EXCEPT ![t] = counter[s]]
          /\ pc' = [pc EXCEPT ![t] = "compute"]
          /\ UNCHANGED barrierVars
       \/ /\ counter[s] >= Draws[s] /\ s < 3
          /\ pc' = [pc EXCEPT ![t] = "wait"]
          /\ Arrive(t)
          /\ UNCHANGED taken
       \/ /\ counter[s] >= Draws[s] /\ s = 3
          /\ pc' = [pc EXCEPT ![t] = "end"]
          /\ UNCHANGED <<taken, barrierVars>>
    /\ UNCHANGED <<computing, stage, done>>

\* Reads what the stage before has written and writes the drawn parts.  A row
\* whose mask bit is not set is written too, as zero.
Compute(t) ==
    /\ pc[t] = "compute"
    /\ done' = [done EXCEPT ![stage[t]] = @ \cup Drawn(stage[t], taken[t])]
    /\ pc' = [pc EXCEPT ![t] = "draw"]
    /\ UNCHANGED <<computing, stage, counter, taken, barrierVars>>

\* ggml's barrier at the end of the node.
EndNode ==
    /\ computing
    /\ \A t \in Active : pc[t] = "end"
    /\ computing' = FALSE
    /\ UNCHANGED <<pc, stage, counter, taken, done, barrierVars>>

Thread(t) == Quantize(t) \/ NextStage(t) \/ Draw(t) \/ Compute(t)

Next ==
    \/ EndNode \/ \E n \in 1..MaxThreads : StartNode(n)
    \/ \E t \in Threads : Thread(t)

Spec == Init /\ [][Next]_vars

\* Every thread of the pool keeps running.
Fairness == WF_vars(EndNode) /\ \A t \in Threads : WF_vars(Thread(t))

FairSpec == Spec /\ Fairness

-----------------------------------------------------------------------------
(* Properties.                                                             *)

\* A thread computes with what the earlier stages have written only when they
\* have written all of it, whoever drew which part; and when the node ends
\* every row of the output has been written.
StagesInOrder ==
    /\ \A t \in Threads : pc[t] = "compute" =>
         \A s \in 0..(stage[t] - 1) : done[s] = Parts[s]
    /\ computing /\ (\A t \in Active : pc[t] = "end") => done[3] = Parts[3]

\* The barrier of 256 parties is a barrier of the nth threads: whoever returns
\* from a wait returns after every thread of the graph has begun as many.
ReturnsTogether ==
    [][\A t \in Threads : t \in inside \ inside' =>
         \A u \in Active : waits[u] >= waits[t]]_vars

\* The node ends, whatever the graphs before it have left in the barrier.
HeadEnds == computing ~> ~computing
=============================================================================
