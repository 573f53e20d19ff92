---------------------------- MODULE TaskPipeline ----------------------------
(***************************************************************************)
(* One MoE layer as a graph of tasks over the compute threads:             *)
(* moe_sparse_pipeline/pipeline.cpp and task.cpp on top of az::Task,       *)
(* az::TaskQueue and az::Pipeline.  Thread Main builds the tasks, at a     *)
(* node of the graph of its own; the IO worker releases tasks whose matrix *)
(* arrives; then, in forward, every thread takes tasks from the queue      *)
(* until none is unfinished.                                               *)
(*                                                                         *)
(* A task is enqueued by whoever takes its count n_prev_tasks to zero: its *)
(* count is one for each predecessor, one until it is scheduled, and one   *)
(* while it waits for its matrix.  The cache appears here as it looks to   *)
(* the tasks: ExpertCache shows that a demanded matrix arrives and stays.  *)
(***************************************************************************)
EXTENDS Integers, Sequences, FiniteSets, Bags, SequencesExt, BagSums

CONSTANTS
    Threads,   \* the compute threads, one worker each
    Main,      \* thread 0
    Rows,      \* the rows of the batch
    Experts,   \* the experts of a layer
    NUsed,     \* n_used_experts
    NLayers,   \* the layers of one graph
    NoTask     \* nullptr where a task is expected

PipelineAssumption ==
    /\ IsFiniteSet(Threads) /\ Main \in Threads
    /\ IsFiniteSet(Rows) /\ Rows # {} /\ IsFiniteSet(Experts)
    /\ NUsed \in 1..Cardinality(Experts)
    /\ NLayers \in Nat \ {0}

ASSUME PipelineAssumptionHolds == PipelineAssumption

VARIABLES
    node,               \* the graph node: "idle", "build" or "forward"
    layer,              \* how many layers of the graph have begun
    layer_data,         \* does layers[layer_id] exist?
    expert_ids,         \* LayerData::expert_ids
    examined,           \* matrices build_tasks has visited
    loading,            \* demanded matrices that are on their way
    pending,            \* Matrix::pending_tasks
    n_prev_tasks,       \* Task::n_prev_tasks
    task_queue,         \* SimpleTaskQueue::queue
    n_unfinished_tasks, \* BaseTaskQueue::n_unfinished_tasks
    pc,                 \* where each thread is in forward
    task,               \* the task each thread runs
    to_notify,          \* those of its next_tasks on_finish has still to tell
    waits, inside,      \* global_spin_barrier
    ready,              \* input_quant_buf and expert_scores are this layer's
    ran,                \* tasks whose run has returned, so that their out is set
    local_out,          \* local_out_bufs
    output              \* LayerData::output

buildVars == <<node, layer, layer_data, expert_ids, examined>>
cacheVars == <<loading, pending>>
queueVars == <<n_prev_tasks, task_queue, n_unfinished_tasks>>
runVars   == <<pc, task, to_notify>>
syncVars  == <<waits, inside>>
dataVars  == <<ready, ran, local_out, output>>
vars == <<buildVars, cacheVars, queueVars, runVars, syncVars, dataVars>>

Sync == INSTANCE Barrier
\* A task computes its expert in one block.
MoE  == INSTANCE MoELayer WITH computing <- node # "idle", Blocks <- {0}

-----------------------------------------------------------------------------
(* The task graph of a layer.                                              *)

Kinds == <<"up", "gate", "down">>   \* in the order of MatrixType

Preprocess == [kind |-> "preprocess"]
Reduce     == [kind |-> "reduce"]
Forwards(k) == [kind : {k}, row : Rows, index : 1..NUsed]
ForwardTasks == UNION {Forwards(k) : k \in {"up", "gate", "down"}}
Tasks == ForwardTasks \cup {Preprocess, Reduce}

ASSUME NoTaskAssumption == NoTask \notin Tasks

\* The expert a forward task computes, and the matrix it reads.
ExpertOf(x) == expert_ids[x.row][x.index]
MatrixOf(x) == <<ExpertOf(x), x.kind>>
Matrices == Experts \X {"up", "gate", "down"}

\* The tasks that read a matrix, one for each row that selects its expert.
TasksOf(m) == {x \in ForwardTasks : MatrixOf(x) = m}

\* Task::next_tasks, as build_tasks links them.
NextTasks(x) ==
    CASE x.kind = "preprocess" -> Forwards("gate")
      [] x.kind = "gate"       -> {[x EXCEPT !.kind = "up"]}
      [] x.kind = "up"         -> {[x EXCEPT !.kind = "down"]}
      [] x.kind = "down"       -> {Reduce}
      [] x.kind = "reduce"     -> {}

PrevTasks(x) == {y \in Tasks : x \in NextTasks(y)}

\* Mutant: forgets the one for the task's own schedule.
LinkedCountsNoSchedule == [x \in Tasks |-> Cardinality(PrevTasks(x))]

\* The counts once build_tasks has linked everything: one for each
\* predecessor and one that waits for schedule.
LinkedCounts == [x \in Tasks |-> 1 + Cardinality(PrevTasks(x))]

TypeOK ==
    /\ node \in {"idle", "build", "forward"}
    /\ layer \in 0..NLayers
    /\ layer_data \in BOOLEAN
    /\ expert_ids \in MoE!Routings
    /\ examined \in SUBSET Matrices
    /\ loading \in SUBSET examined
    /\ pending \in [Matrices -> SUBSET ForwardTasks]
    /\ n_prev_tasks \in [Tasks -> Nat]
    /\ task_queue \in Seq(Tasks)
    /\ n_unfinished_tasks \in Nat
    /\ pc \in [Threads -> {"node", "arrive", "enter", "run", "task", "notify",
                           "leave", "reset", "done"}]
    /\ task \in [Threads -> Tasks \cup {NoTask}]
    /\ to_notify \in [Threads -> SUBSET Tasks]
    /\ waits \in [Threads -> 0..(2 * NLayers)]
    /\ inside \in SUBSET Threads
    /\ ready \in BOOLEAN
    /\ ran \in SUBSET Tasks
    /\ \A t \in Threads : IsABag(local_out[t])
    /\ IsABag(output)

Init ==
    /\ node = "idle" /\ layer = 0 /\ layer_data = FALSE
    /\ expert_ids \in MoE!Routings
    /\ examined = {} /\ loading = {}
    /\ pending = [m \in Matrices |-> {}]
    /\ n_prev_tasks = [x \in Tasks |-> 0]
    /\ task_queue = <<>> /\ n_unfinished_tasks = 0
    /\ pc = [t \in Threads |-> "node"]
    /\ task = [t \in Threads |-> NoTask]
    /\ to_notify = [t \in Threads |-> {}]
    /\ Sync!Init
    /\ ready = FALSE /\ ran = {}
    /\ local_out = [t \in Threads |-> EmptyBag] /\ output = EmptyBag

-----------------------------------------------------------------------------
(* az::Task and az::TaskQueue.                                             *)

\* Mutant: compares the new value where the old one is meant.
PrevTaskFinishedEarly(T) ==
    /\ n_prev_tasks' = [x \in Tasks |->
                          IF x \in T THEN n_prev_tasks[x] - 1 ELSE n_prev_tasks[x]]
    /\ task_queue' = task_queue \o SetToSeq({x \in T : n_prev_tasks[x] = 2})

\* on_prev_task_finished on the tasks T: whoever takes a count to zero
\* enqueues the task.
PrevTaskFinished(T) ==
    /\ n_prev_tasks' = [x \in Tasks |->
                          IF x \in T THEN n_prev_tasks[x] - 1 ELSE n_prev_tasks[x]]
    /\ task_queue' = task_queue \o SetToSeq({x \in T : n_prev_tasks[x] = 1})

\* Mutant: counts a task when it is launched, not when it is scheduled.
ScheduleCountsLaunched(T) ==
    /\ n_unfinished_tasks' =
         n_unfinished_tasks + Cardinality({x \in T : n_prev_tasks[x] = 1})
    /\ PrevTaskFinished(T)

\* TaskQueue::schedule on the tasks T.
Schedule(T) ==
    /\ n_unfinished_tasks' = n_unfinished_tasks + Cardinality(T)
    /\ PrevTaskFinished(T)

-----------------------------------------------------------------------------
(* Thread Main at the nodes of the graph, all others between two nodes.    *)

\* llama_context sets up a pipeline and the barrier for the next graph.
StartGraph ==
    /\ node = "idle" /\ layer = NLayers
    /\ layer' = 0
    /\ Sync!Restart
    /\ local_out' = [t \in Threads |-> EmptyBag]
    /\ UNCHANGED <<node, layer_data, expert_ids, examined, cacheVars, queueVars,
                   runVars, ready, ran, output>>

\* build_tasks up to its loop over the experts, and the links it makes
\* there: before forward schedules the preprocess task no task can run, so
\* that all are linked here makes no difference.
StartLayer(ids) ==
    /\ node = "idle" /\ layer < NLayers
    /\ node' = "build" /\ layer' = layer + 1
    /\ layer_data' = TRUE
    /\ expert_ids' = ids /\ examined' = {}
    /\ n_prev_tasks' = LinkedCounts
    /\ ready' = FALSE /\ ran' = {} /\ output' = EmptyBag
    /\ UNCHANGED <<cacheVars, task_queue, n_unfinished_tasks, runVars, syncVars,
                   local_out>>

\* How many rows select expert e.
ActivationCount(e) ==
    Cardinality({rj \in Rows \X (1..NUsed) : expert_ids[rj[1]][rj[2]] = e})

\* The next matrix build_tasks visits: experts by descending activation
\* count, the matrices of one expert in the order of MatrixType.
Unexamined(e) == {i \in 1..3 : <<e, Kinds[i]>> \notin examined}

IsNext(e, i) ==
    /\ ActivationCount(e) > 0
    /\ i \in Unexamined(e)
    /\ \A j \in Unexamined(e) : i <= j
    /\ \A f \in Experts :
         f # e /\ Unexamined(f) # {} =>
             /\ ActivationCount(f) <= ActivationCount(e)
             /\ Cardinality(Unexamined(f)) \in {3, 0}

\* Mutant: registers the tasks with the matrix but does not count it.
ExamineLoadingUncounted(e, i) ==
    /\ node = "build" /\ IsNext(e, i)
    /\ LET m == <<e, Kinds[i]>> IN
         /\ examined' = examined \cup {m}
         /\ loading' = loading \cup {m}
         /\ pending' = [pending EXCEPT ![m] = TasksOf(m)]
         /\ Schedule(TasksOf(m))
    /\ UNCHANGED <<node, layer, layer_data, expert_ids, runVars, syncVars, dataVars>>

\* build_tasks on a matrix that is present.
ExaminePresent(e, i) ==
    /\ node = "build" /\ IsNext(e, i)
    /\ LET m == <<e, Kinds[i]>> IN
         /\ examined' = examined \cup {m}
         /\ Schedule(TasksOf(m))
    /\ UNCHANGED <<node, layer, layer_data, expert_ids, cacheVars, runVars,
                   syncVars, dataVars>>

\* build_tasks on a matrix that is loading or is fetched now: its tasks are
\* scheduled, and wait for it as for a predecessor.  The matrix mutex keeps
\* the IO worker out until all of this is done.
ExamineLoading(e, i) ==
    /\ node = "build" /\ IsNext(e, i)
    /\ LET m == <<e, Kinds[i]>> IN
         /\ examined' = examined \cup {m}
         /\ loading' = loading \cup {m}
         /\ pending' = [pending EXCEPT ![m] = TasksOf(m)]
         /\ n_prev_tasks' = n_prev_tasks   \* add_prev_count, then schedule
         /\ n_unfinished_tasks' = n_unfinished_tasks + Cardinality(TasksOf(m))
    /\ UNCHANGED <<node, layer, layer_data, expert_ids, task_queue, runVars,
                   syncVars, dataVars>>

\* build_tasks ends; the forward node may begin.
EndBuild ==
    /\ node = "build"
    /\ \A e \in Experts : ActivationCount(e) > 0 => Unexamined(e) = {}
    /\ Schedule({Reduce})
    /\ node' = "forward"
    /\ UNCHANGED <<layer, layer_data, expert_ids, examined, cacheVars, runVars,
                   syncVars, dataVars>>

-----------------------------------------------------------------------------
(* The IO worker.                                                          *)

\* The read callback finds a matrix loaded; it goes on under the matrix
\* mutex.
Arrive(m) ==
    /\ m \in loading
    /\ loading' = loading \ {m}
    /\ UNCHANGED <<buildVars, pending, queueVars, runVars, syncVars, dataVars>>

\* It tells the tasks that wait for the matrix, one after the other.
Release(m, x) ==
    /\ m \notin loading
    /\ x \in pending[m]
    /\ PrevTaskFinished({x})
    /\ pending' = [pending EXCEPT ![m] = @ \ {x}]
    /\ UNCHANGED <<buildVars, loading, n_unfinished_tasks, runVars, syncVars,
                   dataVars>>

-----------------------------------------------------------------------------
(* The compute threads in forward.                                         *)

\* Mutant: forgets to schedule the preprocess task.
SchedulePreprocessNever ==
    /\ node = "forward" /\ pc[Main] = "node"
    /\ pc' = [pc EXCEPT ![Main] = "arrive"]
    /\ UNCHANGED <<buildVars, cacheVars, queueVars, task, to_notify, syncVars,
                   dataVars>>

\* Thread 0 schedules the preprocess task before it meets the others.
SchedulePreprocess ==
    /\ node = "forward" /\ pc[Main] = "node"
    /\ Schedule({Preprocess})
    /\ pc' = [pc EXCEPT ![Main] = "arrive"]
    /\ UNCHANGED <<buildVars, cacheVars, task, to_notify, syncVars, dataVars>>

\* Every thread arrives at the barrier before run, leaves it.
EnterRun(t) ==
    /\ node = "forward"
    /\ pc[t] = (IF t = Main THEN "arrive" ELSE "node")
    /\ Sync!Enter(t)
    /\ pc' = [pc EXCEPT ![t] = "enter"]
    /\ UNCHANGED <<buildVars, cacheVars, queueVars, task, to_notify, dataVars>>

BeginRun(t) ==
    /\ pc[t] = "enter"
    /\ Sync!Leave(t)
    /\ pc' = [pc EXCEPT ![t] = "run"]
    /\ UNCHANGED <<buildVars, cacheVars, queueVars, task, to_notify, dataVars>>

\* Pipeline::run finds unfinished tasks, its worker a task in the queue.
Pop(t) ==
    /\ pc[t] = "run"
    /\ n_unfinished_tasks > 0
    /\ task_queue # <<>>
    /\ task' = [task EXCEPT ![t] = Head(task_queue)]
    /\ task_queue' = Tail(task_queue)
    /\ pc' = [pc EXCEPT ![t] = "task"]
    /\ UNCHANGED <<buildVars, cacheVars, n_prev_tasks, n_unfinished_tasks,
                   to_notify, syncVars, dataVars>>

\* PreprocessTask::run: clears every local buffer, quantises the input,
\* gathers the scores.
RunPreprocess(t) ==
    /\ task[t] = Preprocess
    /\ local_out' = [s \in Threads |-> EmptyBag]
    /\ ready' = TRUE
    /\ UNCHANGED output

\* GateForwardTask::run and UpForwardTask::run.
RunGateUp(t) ==
    /\ task[t] \in Forwards("gate") \cup Forwards("up")
    /\ UNCHANGED <<ready, local_out, output>>

\* DownForwardTask::run: adds its share to the buffer of its own thread,
\* weighted with the score of batch_id and expert_index.
RunDown(t) ==
    /\ task[t] \in Forwards("down")
    /\ LET x == task[t]
           score == <<x.row, expert_ids[x.row][x.index]>>
       IN  local_out' = [local_out EXCEPT ![t] =
             @ (+) SetToBag({[row |-> x.row, expert |-> ExpertOf(x),
                              block |-> 0, score |-> score]})]
    /\ UNCHANGED <<ready, output>>

\* Mutant: takes the buffer of its own thread for the sum.
RunReduceOwn(t) ==
    /\ task[t] = Reduce
    /\ output' = local_out[t]
    /\ UNCHANGED <<ready, local_out>>

\* ReduceOutputTask::run: the sum of the buffers of all threads.
RunReduce(t) ==
    /\ task[t] = Reduce
    /\ output' = SumOfBuffers(local_out)
    /\ UNCHANGED <<ready, local_out>>

RunTask(t) ==
    /\ pc[t] = "task"
    /\ RunPreprocess(t) \/ RunGateUp(t) \/ RunDown(t) \/ RunReduce(t)
    /\ ran' = ran \cup {task[t]}
    /\ pc' = [pc EXCEPT ![t] = "notify"]
    /\ to_notify' = [to_notify EXCEPT ![t] = NextTasks(task[t])]
    /\ UNCHANGED <<buildVars, cacheVars, queueVars, task, syncVars>>

\* on_finish tells the next tasks one after the other ...
Notify(t, x) ==
    /\ pc[t] = "notify"
    /\ x \in to_notify[t]
    /\ PrevTaskFinished({x})
    /\ to_notify' = [to_notify EXCEPT ![t] = @ \ {x}]
    /\ UNCHANGED <<buildVars, cacheVars, n_unfinished_tasks, pc, task, syncVars,
                   dataVars>>

\* ... and then counts its own task as finished.
Finish(t) ==
    /\ pc[t] = "notify"
    /\ to_notify[t] = {}
    /\ n_unfinished_tasks' = n_unfinished_tasks - 1
    /\ task' = [task EXCEPT ![t] = NoTask]
    /\ pc' = [pc EXCEPT ![t] = "run"]
    /\ UNCHANGED <<buildVars, cacheVars, n_prev_tasks, task_queue, to_notify,
                   syncVars, dataVars>>

\* Pipeline::run finds no unfinished task; the thread arrives at the
\* barrier after it.
EndRun(t) ==
    /\ pc[t] = "run"
    /\ n_unfinished_tasks = 0
    /\ Sync!Enter(t)
    /\ pc' = [pc EXCEPT ![t] = "leave"]
    /\ UNCHANGED <<buildVars, cacheVars, queueVars, task, to_notify, dataVars>>

EndForward(t) ==
    /\ pc[t] = "leave"
    /\ Sync!Leave(t)
    /\ pc' = [pc EXCEPT ![t] = IF t = Main THEN "reset" ELSE "done"]
    /\ UNCHANGED <<buildVars, cacheVars, queueVars, task, to_notify, dataVars>>

\* Thread 0 drops the layer's data, its tasks with it.
ResetLayer ==
    /\ pc[Main] = "reset"
    /\ layer_data' = FALSE
    /\ pc' = [pc EXCEPT ![Main] = "done"]
    /\ UNCHANGED <<node, layer, expert_ids, examined, cacheVars, queueVars,
                   task, to_notify, syncVars, dataVars>>

\* ggml's own barrier between two nodes of the graph.
EndNode ==
    /\ \A t \in Threads : pc[t] = "done"
    /\ pc' = [t \in Threads |-> "node"]
    /\ node' = "idle"
    /\ UNCHANGED <<layer, layer_data, expert_ids, examined, cacheVars,
                   queueVars, task, to_notify, syncVars, dataVars>>

-----------------------------------------------------------------------------
Build == EndBuild \/ \E e \in Experts, i \in 1..3 :
                        ExaminePresent(e, i) \/ ExamineLoading(e, i)

IO == \E m \in Matrices : Arrive(m) \/ \E x \in pending[m] : Release(m, x)

Thread(t) ==
    \/ EnterRun(t) \/ BeginRun(t) \/ Pop(t) \/ RunTask(t) \/ Finish(t)
    \/ \E x \in to_notify[t] : Notify(t, x)
    \/ EndRun(t) \/ EndForward(t)
    \/ t = Main /\ (SchedulePreprocess \/ ResetLayer)

Next ==
    \/ StartGraph \/ Build \/ IO \/ EndNode
    \/ \E ids \in MoE!Routings : StartLayer(ids)
    \/ \E t \in Threads : Thread(t)

Spec == Init /\ [][Next]_vars

\* What a layer consists of, once it has begun.
Progress == Build \/ IO \/ EndNode \/ \E t \in Threads : Thread(t)

\* Some thread that can go on does, or the disk answers a read.  No more is
\* needed: a thread that finds the queue empty does not step, and every step
\* of a layer brings its end nearer.
Fairness == WF_vars(Progress)

FairSpec == Spec /\ Fairness

-----------------------------------------------------------------------------
(* Properties.                                                             *)

\* Tasks that build_tasks or forward has scheduled in this layer.
Scheduled ==
    {x \in ForwardTasks : MatrixOf(x) \in examined}
      \cup (IF node = "forward" THEN {Reduce} ELSE {})
      \cup (IF node = "forward" /\ pc[Main] # "node" THEN {Preprocess} ELSE {})

\* Has y told x that it is finished?
Told(y, x) ==
    /\ y \in ran
    /\ \A t \in Threads : task[t] = y => x \notin to_notify[t]

Running == {t \in Threads : pc[t] = "task"}

\* The counts are what their comment in task.hpp makes them: every task's
\* count is the number of predecessors that have not told it, plus one until
\* it is scheduled, plus one while it waits for its matrix - whatever order
\* the IO worker and the compute threads take them down in.  And the counter
\* that ends run is the number of scheduled tasks that have not finished.
CountsExact ==
    layer_data =>
        /\ \A x \in Tasks :
             n_prev_tasks[x] =
                 Cardinality({y \in PrevTasks(x) : ~Told(y, x)})
                   + (IF x \in Scheduled THEN 0 ELSE 1)
                   + (IF \E m \in Matrices : x \in pending[m] THEN 1 ELSE 0)
        /\ n_unfinished_tasks =
             Cardinality(Scheduled \ {x \in ran : \A t \in Threads : task[t] # x})

\* The queue holds, once each, exactly the tasks whose count is zero and
\* that no thread has taken; a task is taken once.
QueueExact ==
    layer_data =>
        /\ IsInjective(task_queue)
        /\ Range(task_queue) =
             {x \in Tasks : n_prev_tasks[x] = 0}
               \ (ran \cup {task[t] : t \in Threads})
        /\ \A t \in Running : /\ task[t] \notin ran
                              /\ \A s \in Running \ {t} : task[s] # task[t]

\* What a task reads is there when it runs: the layer's data, the quantised
\* input and the scores of this layer, its matrix, the results of the gate
\* and up task of its row; and the reduce task runs alone, after every down
\* task.
InputsReady ==
    \A t \in Running :
        LET x == task[t] IN
        /\ layer_data
        /\ x \in ForwardTasks =>
             /\ ready
             /\ MatrixOf(x) \in examined \ loading
        /\ x.kind \in {"up", "down"} => [x EXCEPT !.kind = "gate"] \in ran
        /\ x.kind = "down" => [x EXCEPT !.kind = "up"] \in ran
        /\ x = Reduce => Running = {t} /\ Forwards("down") \subseteq ran

\* The task graph computes the layer: when the forward node ends, the output
\* is the weighted sum over the selected experts of every row, each summand
\* exactly once and with its own score, and nothing of the layer before.
ComputesLayer == MoE!Spec

\* Every layer ends: no task waits for ever, and no thread misses the end.
LayerEnds == (node = "build") ~> (node = "idle")
=============================================================================
