---------------------------- MODULE ExpertCache ----------------------------
(***************************************************************************)
(* The expert cache of moe_sparse_pipeline: matrices of MoE experts that   *)
(* live on disk, at most Capacity of them in memory buffers, an LRU list   *)
(* that picks the buffer to reuse, a bounded queue from the client thread  *)
(* (compute thread 0) to the IO worker thread, and the io_uring the worker *)
(* reads through.  The client runs the layers of the graph one after the   *)
(* other: prefetch, build_tasks, forward.                                  *)
(*                                                                         *)
(* Everything that matters is in what these three parties (client, IO      *)
(* worker, kernel) may do between two steps of one another.  A step is a   *)
(* stretch of code that no other party can observe half done: the part of  *)
(* a function under one matrix mutex, up to a call that can block.         *)
(***************************************************************************)
EXTENDS Integers, Sequences, FiniteSets, LRU

CONSTANTS
    Matrices,     \* the matrices of every layer and expert
    NoMatrix,     \* nullptr where a Matrix* is expected
    ExitSignal,   \* io_worker_exit_signal
    Capacity,     \* max_n_cached_matrices
    QueueDepth,   \* io_queue_depth: of io_queue and of the io_uring
    WorkingSet,   \* most matrices one layer demands: 3 * batch * n_used_experts
    Selections,   \* the sets of matrices the router of a layer can demand
    MaxPrefetch,  \* max_n_prefetch of a prefetch node of the graph
    Speculative   \* may a prefetch name matrices its layer then does not use?

\* config.hpp refuses a MAX_N_CACHED below io_queue_depth (512); a layer
\* demands at most 3 * 8 * n_used_experts matrices, 192 of them for the
\* models the graph builders know.
CacheAssumption ==
    /\ IsFiniteSet(Matrices)
    /\ NoMatrix \notin Matrices /\ ExitSignal \notin Matrices
    /\ NoMatrix # ExitSignal
    /\ Capacity \in Nat /\ QueueDepth \in Nat
    /\ WorkingSet \in Nat /\ MaxPrefetch \in Nat
    /\ 1 <= WorkingSet /\ WorkingSet <= QueueDepth /\ QueueDepth <= Capacity
    /\ Speculative \in BOOLEAN

ASSUME CacheAssumptionHolds == CacheAssumption

NOT_PRESENT == "not_present"
LOADING     == "loading"
PRESENT     == "present"

NullBuffer == 0
Buffers    == 1..Capacity

VARIABLES
    status,        \* Matrix::status
    data,          \* Matrix::data, a buffer or NullBuffer
    pending,       \* matrices whose pending_tasks is not empty
    lru,           \* ExpertCache::lru
    io_queue,      \* ExpertCache::io_queue
    io_pc,         \* where io_worker_main is
    io_matrix,     \* its local variable matrix
    req_data_buf,  \* IOUring::req_data_buf, the user_data of each slot
    req_pos,       \* IOUring::req_data_buf_pos modulo the number of slots
    ring,          \* reads in the io_uring: prepared, submitted or completed
    content,       \* the matrix whose bytes a buffer holds, if any
    client_pc,     \* where the client thread is in the graph
    wanted,        \* the matrices the current layer's routing selects
    targets,       \* those a running prefetch has still to visit
    n_prefetched,  \* local variable of Pipeline::prefetch
    todo,          \* those build_tasks has still to visit
    fetching,      \* the matrix whose fetch is blocked in io_queue.push
    touched        \* history: fetched or promoted since the layer began

cacheVars  == <<status, data, pending, lru, io_queue>>
workerVars == <<io_pc, io_matrix, req_data_buf, req_pos, ring, content>>
clientVars == <<client_pc, wanted, targets, n_prefetched, todo, fetching,
                touched>>
vars == <<cacheVars, workerVars, clientVars>>

Slots == 0..(QueueDepth - 1)

Request == [slot : Slots, buf : Buffers, matrix : Matrices,
            at : {"prepared", "submitted", "completed"}]

TypeOK ==
    /\ status \in [Matrices -> {NOT_PRESENT, LOADING, PRESENT}]
    /\ data \in [Matrices -> Buffers \cup {NullBuffer}]
    /\ pending \in SUBSET Matrices
    /\ lru \in Seq(Matrices) /\ Len(lru) <= Capacity
    /\ io_queue \in Seq(Matrices \cup {ExitSignal})
    /\ Len(io_queue) <= QueueDepth
    /\ io_pc \in {"pop", "enqueue", "submit", "wait", "reap", "exited"}
    /\ io_matrix \in Matrices \cup {NoMatrix}
    /\ req_data_buf \in [Slots -> Matrices \cup {NoMatrix}]
    /\ req_pos \in Slots
    /\ ring \in SUBSET Request
    /\ content \in [Buffers -> Matrices \cup {NoMatrix}]
    /\ client_pc \in {"idle", "prefetch", "build", "lookahead", "forward",
                      "join", "destroyed"}
    /\ wanted \in SUBSET Matrices /\ targets \in SUBSET Matrices
    /\ todo \in SUBSET Matrices /\ touched \in SUBSET Matrices
    /\ n_prefetched \in 0..MaxPrefetch
    /\ fetching \in Matrices \cup {NoMatrix}

Init ==
    /\ status = [m \in Matrices |-> NOT_PRESENT]
    /\ data = [m \in Matrices |-> NullBuffer]
    /\ pending = {} /\ lru = <<>> /\ io_queue = <<>>
    /\ io_pc = "pop" /\ io_matrix = NoMatrix
    /\ req_data_buf = [s \in Slots |-> NoMatrix] /\ req_pos = 0
    /\ ring = {} /\ content = [b \in Buffers |-> NoMatrix]
    /\ client_pc = "idle" /\ wanted = {} /\ targets = {} /\ todo = {}
    /\ n_prefetched = 0 /\ fetching = NoMatrix /\ touched = {}

-----------------------------------------------------------------------------
(* The client thread.                                                      *)

\* Mutant: allocates one buffer too many.
AllocateBufferOffByOne(m) ==
    /\ Len(lru) <= Capacity
    /\ data' = [data EXCEPT ![m] = Len(lru) + 1]
    /\ status' = [status EXCEPT ![m] = LOADING]
    /\ lru' = Add(lru, m)

\* Mutant: the victim keeps its pointer to the buffer it lost.
AllocateBufferShared(m) ==
    /\ status' = [status EXCEPT ![m] = LOADING]
    /\ IF Len(lru) < Capacity
       THEN data' = [data EXCEPT ![m] = Len(lru) + 1] /\ lru' = Add(lru, m)
       ELSE /\ data' = [data EXCEPT ![m] = data[Oldest(lru)]]
            /\ lru' = Add(Evict(lru), m)

\* allocate_buffer: a new buffer while there are fewer than Capacity, else
\* the buffer of the least recently used matrix, whatever its status.
AllocateBuffer(m) ==
    \/ /\ Len(lru) < Capacity
       /\ data' = [data EXCEPT ![m] = Len(lru) + 1]
       /\ status' = [status EXCEPT ![m] = LOADING]
       /\ lru' = Add(lru, m)
    \/ /\ Len(lru) >= Capacity
       /\ LET victim == Oldest(lru) IN
            /\ data' = [data EXCEPT ![m] = data[victim],
                                    ![victim] = NullBuffer]
            /\ status' = [status EXCEPT ![m] = LOADING,
                                        ![victim] = NOT_PRESENT]
            /\ lru' = Add(Evict(lru), m)

\* Mutant: fetches a matrix without a look at its status.
AsyncFetchUnchecked(m) ==
    /\ status' = [status EXCEPT ![m] = LOADING]
    /\ IF data[m] = NullBuffer THEN AllocateBuffer(m) ELSE UNCHANGED <<data, lru>>
    /\ fetching' = m
    /\ touched' = touched \cup {m}
    /\ UNCHANGED <<pending, io_queue, workerVars>>

\* async_fetch up to io_queue.push, which may block: from here on the client
\* holds the mutex of m until Push.
AsyncFetch(m) ==
    /\ status[m] = NOT_PRESENT
    /\ AllocateBuffer(m)
    /\ fetching' = m
    /\ touched' = touched \cup {m}
    /\ UNCHANGED <<pending, io_queue, workerVars>>

\* The rest of async_fetch once io_queue has room, and what prefetch and
\* build_tasks do with m before they release its mutex: lru_promote (m is
\* the most recent node already), and for build_tasks the registration of
\* the tasks that wait for m.
Push ==
    /\ fetching # NoMatrix
    /\ Len(io_queue) < QueueDepth
    /\ io_queue' = Append(io_queue, fetching)
    /\ lru' = Promote(lru, fetching)
    /\ pending' = IF client_pc = "build" THEN pending \cup {fetching} ELSE pending
    /\ fetching' = NoMatrix
    /\ UNCHANGED <<status, data, workerVars, client_pc, wanted, targets,
                   n_prefetched, todo, touched>>

\* The graph reaches a MoE layer whose router selects the matrices w.  The
\* prefetch node before it names p: the selected matrices, or, where the
\* graph prefetches from a prediction or for tokens it drops, any matrices.
StartLayer(w, p) ==
    /\ client_pc = "idle"
    /\ w \in Selections
    /\ w # {} /\ Cardinality(w) <= WorkingSet
    /\ Speculative \/ p = w
    /\ wanted' = w /\ todo' = w /\ targets' = p
    /\ n_prefetched' = 0
    /\ touched' = {}
    /\ client_pc' = "prefetch"
    /\ UNCHANGED <<cacheVars, workerVars, fetching>>

Prefetching == client_pc \in {"prefetch", "lookahead"} /\ fetching = NoMatrix

\* One turn of the innermost loop of Pipeline::prefetch on a matrix that has
\* to be fetched.
PrefetchAbsent(m) ==
    /\ Prefetching
    /\ m \in targets /\ n_prefetched < MaxPrefetch
    /\ AsyncFetch(m)
    /\ targets' = targets \ {m}
    /\ n_prefetched' = n_prefetched + 1
    /\ UNCHANGED <<client_pc, wanted, todo>>

\* The same on a matrix that is loading or present: nothing, no promotion.
PrefetchCached(m) ==
    /\ Prefetching
    /\ m \in targets /\ n_prefetched < MaxPrefetch
    /\ status[m] # NOT_PRESENT
    /\ targets' = targets \ {m}
    /\ UNCHANGED <<cacheVars, workerVars, client_pc, wanted, n_prefetched,
                   todo, fetching, touched>>

EndPrefetch ==
    /\ Prefetching
    /\ targets = {} \/ n_prefetched >= MaxPrefetch
    /\ targets' = {}
    /\ client_pc' = IF client_pc = "prefetch" THEN "build" ELSE "forward"
    /\ UNCHANGED <<cacheVars, workerVars, wanted, n_prefetched, todo,
                   fetching, touched>>

\* build_tasks on a matrix that is neither present nor loading.
BuildAbsent(m) ==
    /\ client_pc = "build" /\ fetching = NoMatrix
    /\ m \in todo
    /\ AsyncFetch(m)
    /\ todo' = todo \ {m}
    /\ UNCHANGED <<client_pc, wanted, targets, n_prefetched>>

\* Mutant: takes a matrix that is still loading for a present one.
BuildCachedNoWait(m) ==
    /\ client_pc = "build" /\ fetching = NoMatrix
    /\ m \in todo
    /\ status[m] # NOT_PRESENT
    /\ lru' = Promote(lru, m)
    /\ todo' = todo \ {m}
    /\ touched' = touched \cup {m}
    /\ UNCHANGED <<status, data, pending, io_queue, workerVars, client_pc,
                   wanted, targets, n_prefetched, fetching>>

\* build_tasks on a matrix in the cache: its tasks wait for it if it is
\* still loading; either way it becomes the most recently used one.
BuildCached(m) ==
    /\ client_pc = "build" /\ fetching = NoMatrix
    /\ m \in todo
    /\ status[m] # NOT_PRESENT
    /\ pending' = IF status[m] = PRESENT THEN pending ELSE pending \cup {m}
    /\ lru' = Promote(lru, m)
    /\ todo' = todo \ {m}
    /\ touched' = touched \cup {m}
    /\ UNCHANGED <<status, data, io_queue, workerVars, client_pc, wanted,
                   targets, n_prefetched, fetching>>

\* build_tasks returns.  The qwen3moe graph then prefetches the predicted
\* matrices p of the next layer before it runs this one.
EndBuild(p) ==
    /\ client_pc = "build" /\ fetching = NoMatrix
    /\ todo = {}
    /\ Speculative \/ p = {}
    /\ targets' = p /\ n_prefetched' = 0
    /\ client_pc' = "lookahead"
    /\ UNCHANGED <<cacheVars, workerVars, wanted, todo, fetching, touched>>

\* Mutant: forward returns while demanded matrices are still on their way.
EndForwardEarly ==
    /\ client_pc = "forward"
    /\ client_pc' = "idle"
    /\ wanted' = {} /\ touched' = {}
    /\ UNCHANGED <<cacheVars, workerVars, targets, n_prefetched, todo,
                   fetching>>

\* Pipeline::forward returns when every task has run, so not before every
\* demanded matrix has arrived.
EndForward ==
    /\ client_pc = "forward"
    /\ pending \cap wanted = {}
    /\ client_pc' = "idle"
    /\ wanted' = {} /\ touched' = {}
    /\ UNCHANGED <<cacheVars, workerVars, targets, n_prefetched, todo,
                   fetching>>

\* ~ExpertCache: tell the IO worker to exit and join it, then free every
\* buffer of the LRU list.
DestroyPush ==
    /\ client_pc = "idle"
    /\ Len(io_queue) < QueueDepth
    /\ io_queue' = Append(io_queue, ExitSignal)
    /\ client_pc' = "join"
    /\ UNCHANGED <<status, data, pending, lru, workerVars, wanted, targets,
                   n_prefetched, todo, fetching, touched>>

DestroyFree ==
    /\ client_pc = "join"
    /\ io_pc = "exited"
    /\ lru' = <<>>
    /\ data' = [m \in Matrices |-> NullBuffer]
    /\ client_pc' = "destroyed"
    /\ UNCHANGED <<status, pending, io_queue, workerVars, wanted, targets,
                   n_prefetched, todo, fetching, touched>>

-----------------------------------------------------------------------------
(* The IO worker thread.                                                   *)

n_inflight == Cardinality(ring)

\* Mutant: always blocks on an empty queue, also with reads not submitted.
IoPopAlwaysWaits ==
    /\ io_pc = "pop" /\ io_queue # <<>>
    /\ io_queue' = Tail(io_queue)
    /\ IF Head(io_queue) = ExitSignal
       THEN io_pc' = "exited" /\ io_matrix' = NoMatrix
       ELSE io_pc' = "enqueue" /\ io_matrix' = Head(io_queue)
    /\ UNCHANGED <<status, data, pending, lru, req_data_buf, req_pos, ring,
                   content, clientVars>>

\* Mutant: does not know the exit signal.
IoPopNoExit ==
    /\ io_pc = "pop"
    /\ IF io_queue # <<>>
       THEN /\ io_queue' = Tail(io_queue)
            /\ IF Head(io_queue) = ExitSignal
               THEN UNCHANGED <<io_pc, io_matrix>>
               ELSE io_pc' = "enqueue" /\ io_matrix' = Head(io_queue)
       ELSE /\ Cardinality(ring) > 0
            /\ io_pc' = "submit"
            /\ UNCHANGED <<io_queue, io_matrix>>
    /\ UNCHANGED <<status, data, pending, lru, req_data_buf, req_pos, ring,
                   content, clientVars>>

\* io_queue.pop(n_inflight <= 0): blocks only when no read is in flight.
IoPop ==
    /\ io_pc = "pop"
    /\ IF io_queue # <<>>
       THEN /\ io_queue' = Tail(io_queue)
            /\ IF Head(io_queue) = ExitSignal
               THEN io_pc' = "exited" /\ io_matrix' = NoMatrix
               ELSE io_pc' = "enqueue" /\ io_matrix' = Head(io_queue)
       ELSE /\ n_inflight > 0
            /\ io_pc' = "submit"
            /\ UNCHANGED <<io_queue, io_matrix>>
    /\ UNCHANGED <<status, data, pending, lru, req_data_buf, req_pos, ring,
                   content, clientVars>>

\* What the two assertions before a read demand; where one fails the program
\* aborts, and so does the model: no step follows.
HasBuffer == data[io_matrix] # NullBuffer
HasRoom   == n_inflight < QueueDepth

\* Mutant: the next request takes the same slot.
IoEnqueueReadSameSlot ==
    /\ io_pc = "enqueue"
    /\ HasBuffer /\ HasRoom
    /\ req_data_buf' = [req_data_buf EXCEPT ![req_pos] = io_matrix]
    /\ ring' = ring \cup {[slot |-> req_pos, buf |-> data[io_matrix],
                           matrix |-> io_matrix, at |-> "prepared"]}
    /\ io_matrix' = NoMatrix
    /\ io_pc' = "reap"
    /\ UNCHANGED <<cacheVars, req_pos, content, clientVars>>

\* enqueue_read: the matrix's buffer is read without its mutex; the request
\* takes the next slot of req_data_buf, in use or not.
IoEnqueueRead ==
    /\ io_pc = "enqueue"
    /\ HasBuffer /\ HasRoom
    /\ req_data_buf' = [req_data_buf EXCEPT ![req_pos] = io_matrix]
    /\ req_pos' = (req_pos + 1) % QueueDepth
    /\ ring' = ring \cup {[slot |-> req_pos, buf |-> data[io_matrix],
                           matrix |-> io_matrix, at |-> "prepared"]}
    /\ io_matrix' = NoMatrix
    /\ io_pc' = "reap"
    /\ UNCHANGED <<cacheVars, content, clientVars>>

\* submit_and_wait(1): the kernel takes every prepared read, and from now on
\* may write to its buffer.
IoSubmit ==
    /\ io_pc = "submit"
    /\ ring' = {[r EXCEPT !.at = IF @ = "prepared" THEN "submitted" ELSE @]
                  : r \in ring}
    /\ content' = [b \in Buffers |->
                     IF \E r \in ring : r.at = "prepared" /\ r.buf = b
                     THEN NoMatrix ELSE content[b]]
    /\ io_pc' = "wait"
    /\ UNCHANGED <<cacheVars, io_matrix, req_data_buf, req_pos, clientVars>>

\* The wait ends with a completion, or with -EINTR and no completion.
IoWait ==
    /\ io_pc = "wait"
    /\ io_pc' = "reap"
    /\ UNCHANGED <<cacheVars, io_matrix, req_data_buf, req_pos, ring, content,
                   clientVars>>

\* Mutant: runs the callback and forgets --n_inflight.
ReapNoDecrement(r) ==
    /\ io_pc = "reap"
    /\ r \in ring /\ r.at = "completed"
    /\ LET m == req_data_buf[r.slot] IN
         /\ m # fetching
         /\ status' = [status EXCEPT ![m] = PRESENT]
         /\ pending' = pending \ {m}
    /\ ring' = (ring \ {r}) \cup {[r EXCEPT !.at = "seen"]}
    /\ UNCHANGED <<data, lru, io_queue, io_pc, io_matrix, req_data_buf,
                   req_pos, content, clientVars>>

\* reap on one completion: the callback and user_data of the request's slot,
\* as they are now, under the mutex of the matrix they name.
Reap(r) ==
    /\ io_pc = "reap"
    /\ r \in ring /\ r.at = "completed"
    /\ LET m == req_data_buf[r.slot] IN
         /\ m # fetching
         /\ status' = [status EXCEPT ![m] = PRESENT]
         /\ pending' = pending \ {m}
    /\ ring' = ring \ {r}
    /\ UNCHANGED <<data, lru, io_queue, io_pc, io_matrix, req_data_buf,
                   req_pos, content, clientVars>>

EndReap ==
    /\ io_pc = "reap"
    /\ \A r \in ring : r.at # "completed"
    /\ io_pc' = "pop"
    /\ UNCHANGED <<cacheVars, io_matrix, req_data_buf, req_pos, ring, content,
                   clientVars>>

\* The kernel finishes a read; reads overtake one another freely.
Complete(r) ==
    /\ r \in ring /\ r.at = "submitted"
    /\ content' = [content EXCEPT ![r.buf] = r.matrix]
    /\ ring' = (ring \ {r}) \cup {[r EXCEPT !.at = "completed"]}
    /\ UNCHANGED <<cacheVars, io_pc, io_matrix, req_data_buf, req_pos,
                   clientVars>>

-----------------------------------------------------------------------------
Worker == IoPop \/ IoEnqueueRead \/ IoSubmit \/ IoWait \/ EndReap
            \/ \E r \in ring : Reap(r)
Kernel == \E r \in ring : Complete(r)

\* The client inside a layer: it goes on until the layer is done.
ClientStep ==
    \/ Push \/ EndPrefetch \/ EndForward
    \/ \E m \in Matrices : \/ PrefetchAbsent(m) \/ PrefetchCached(m)
                           \/ BuildAbsent(m) \/ BuildCached(m)
    \/ \E p \in SUBSET Matrices : EndBuild(p)

Destroy == DestroyPush \/ DestroyFree

Finished == client_pc = "destroyed" /\ UNCHANGED vars

Next ==
    \/ Worker \/ Kernel \/ ClientStep \/ Destroy \/ Finished
    \/ \E w, p \in SUBSET Matrices : StartLayer(w, p)

Spec == Init /\ [][Next]_vars

\* The scheduler runs every thread that can run, and the disk answers every
\* read.
Fairness ==
    /\ WF_vars(ClientStep) /\ WF_vars(DestroyFree) /\ WF_vars(Worker)
    /\ \A m \in Matrices :
         WF_vars(\E r \in ring : r.matrix = m /\ Complete(r))

FairSpec == Spec /\ Fairness
-----------------------------------------------------------------------------
(* Properties.                                                             *)

\* Every buffer belongs to one matrix, and the LRU list holds exactly the
\* matrices that have a buffer, each once: allocate_buffer never leaks a
\* buffer, hands one to two matrices, or loses a node.
BufferOwnership ==
    /\ Cardinality(Members(lru)) = Len(lru)
    /\ Members(lru) = {m \in Matrices : data[m] # NullBuffer}
    /\ \A m, n \in Matrices : data[m] # NullBuffer /\ data[m] = data[n] => m = n

\* How many times the load of m is under way: blocked in push, queued, in
\* the worker's hand, or in the io_uring.
LoadsUnderWay(m) ==
    Cardinality({x \in {1} : fetching = m})
      + Cardinality({i \in 1..Len(io_queue) : io_queue[i] = m})
      + Cardinality({x \in {1} : io_matrix = m})
      + Cardinality({r \in ring : r.matrix = m})

\* A matrix is LOADING exactly while one load of it is under way: none is
\* lost on the way through queue, worker and ring, and none is started twice.
LoadTracked ==
    \A m \in Matrices : LoadsUnderWay(m) = IF status[m] = LOADING THEN 1 ELSE 0

\* iou.hpp, on reap: "Examine all completed IO requests and invoke
\* corresponding callbacks".  The slot of every request in the ring still
\* names the matrix of that request.
SlotNamesRequest == \A r \in ring : req_data_buf[r.slot] = r.matrix

\* POWERINFER_ASSERT(matrix->data) in the IO worker: a matrix taken from the
\* queue still has its buffer when its read is prepared.
QueuedHasBuffer == io_pc = "enqueue" => HasBuffer

\* POWERINFER_ASSERT(n_inflight < queue_depth) in enqueue_read, although the
\* worker submits nothing while its queue keeps delivering.
RingHasRoom == io_pc = "enqueue" => HasRoom

\* A demanded matrix whose tasks are no longer held back has its own bytes
\* in its own buffer, from that moment to the end of the layer: nothing
\* evicts it and no other read lands in its buffer.
ReleasedIsLoaded ==
    \A m \in wanted \ (todo \cup pending \cup {fetching}) :
        client_pc \in {"build", "lookahead", "forward"} =>
            /\ status[m] = PRESENT
            /\ data[m] # NullBuffer
            /\ content[data[m]] = m

\* The kernel writes to the buffer its matrix owns at that time, and to none
\* that the destructor has freed.
ReadTargetsOwner ==
    /\ client_pc # "destroyed" => \A r \in ring : data[r.matrix] = r.buf
    /\ client_pc = "destroyed" => \A r \in ring : r.at # "submitted"

EvictsIdle ==
    \A m \in Matrices :
        data[m] # NullBuffer /\ data'[m] = NullBuffer
            => status[m] = PRESENT /\ m \notin touched

\* A matrix loses its buffer only when it is loaded and the current layer
\* has not used it.
EvictOnlyIdle == [][EvictsIdle]_vars

\* The invariant that all of the above follow from as long as no prefetch is
\* speculative, in four parts.  Each buffer has one owner, and the LRU list
\* holds the owners.
Owners ==
    /\ Distinct(lru)
    /\ \A m \in Matrices : data[m] # NullBuffer <=> m \in Members(lru)
    /\ \A m \in Matrices : data[m] <= Len(lru)
    /\ \A m, n \in Matrices : data[m] # NullBuffer /\ data[m] = data[n] => m = n
    /\ client_pc # "destroyed" =>
         \A m \in Matrices : status[m] = NOT_PRESENT <=> data[m] = NullBuffer

Queued(m) == \E i \in 1..Len(io_queue) : io_queue[i] = m
InRing(m) == \E r \in ring : r.matrix = m

\* A load is in one of the four stations on its way, and nowhere twice.
Loads ==
    /\ \A m \in Matrices :
         status[m] = LOADING <=>
             fetching = m \/ Queued(m) \/ io_matrix = m \/ InRing(m)
    /\ \A m \in Matrices :
         /\ fetching = m => ~Queued(m) /\ io_matrix # m /\ ~InRing(m)
         /\ Queued(m) => io_matrix # m /\ ~InRing(m)
         /\ io_matrix = m => ~InRing(m)
    /\ \A i, j \in 1..Len(io_queue) :
         io_queue[i] = io_queue[j] /\ io_queue[i] \in Matrices => i = j
    /\ \A r, s \in ring : r.matrix = s.matrix => r = s
    /\ io_matrix # NoMatrix => io_pc = "enqueue"

\* What the layer has touched is all that is loading, all of it is demanded,
\* and it stands first in the LRU list, out of reach of an eviction.  What
\* build_tasks has visited is touched, and held back while it is loading.
LayerInv ==
    /\ targets \subseteq wanted /\ todo \subseteq wanted
    /\ touched \subseteq wanted /\ Cardinality(wanted) <= WorkingSet
    /\ touched \subseteq Members(lru) /\ Leads(lru, touched)
    /\ \A m \in Matrices : status[m] = LOADING => m \in touched
    /\ fetching # NoMatrix => client_pc \in {"prefetch", "build"}
    /\ client_pc \in {"idle", "join", "destroyed"} => touched = {}
    /\ client_pc = "prefetch" => todo = wanted
    /\ client_pc \in {"lookahead", "forward"} => targets = {} /\ todo = {}
    /\ client_pc \in {"build", "lookahead", "forward"} =>
         /\ wanted \ todo \subseteq touched
         /\ \A m \in Matrices :
              status[m] = LOADING => m \in todo \cup pending \cup {fetching}

\* How many requests took a slot after the one in slot s, and the matrices
\* that may still need a slot in this layer.
Age(s) == (req_pos - 1 - s) % QueueDepth
Ahead  == (wanted \ touched)
            \cup {m \in Matrices : status[m] = LOADING /\ ~InRing(m)}

\* Every request reads into the buffer of its matrix and has its slot to
\* itself: a slot comes round again only after more requests than a layer
\* has matrices.
Requests ==
    /\ \A r \in ring :
         /\ data[r.matrix] = r.buf
         /\ req_data_buf[r.slot] = r.matrix
         /\ r.at = "completed" => content[r.buf] = r.matrix
         /\ Age(r.slot) + 1 + Cardinality(Ahead) <= Cardinality(wanted)
    /\ client_pc # "destroyed" =>
         \A m \in Matrices : status[m] = PRESENT => content[data[m]] = m

ExactInv == Owners /\ Loads /\ LayerInv /\ Requests

\* A layer that starts its prefetch ends its forward: no lost load, no
\* client blocked on a full queue for ever, no demanded matrix that never
\* arrives.
LayerCompletes == (client_pc = "prefetch") ~> (client_pc = "idle")

\* ~ExpertCache returns: the exit signal reaches the worker.
DestroyCompletes == (client_pc = "join") ~> (client_pc = "destroyed")
=============================================================================
