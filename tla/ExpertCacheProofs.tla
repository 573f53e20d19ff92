------------------------- MODULE ExpertCacheProofs -------------------------
(***************************************************************************)
(* Proofs about the expert cache, for every set of matrices and every      *)
(* capacity, queue depth and working set that CacheAssumption admits.      *)
(*                                                                         *)
(* The types hold whatever the prefetches name (first part).  The safety   *)
(* properties hold as long as no prefetch is speculative (second part):    *)
(* none of them is inductive alone, so ExactInv is proved, and the others  *)
(* follow from it.  Its core is two counting arguments, both from the      *)
(* working set of a layer being smaller than the cache and the queue:      *)
(*   - what the layer has touched leads the LRU list and is less than the  *)
(*     list, so that the victim of a fetch is loaded and idle (VictimIdle);*)
(*   - a request that is still in the io_uring has seen fewer later ones   *)
(*     than the layer has matrices, so that its slot has not come round    *)
(*     (EnqueueStep, with the age of the slot as the measure).             *)
(***************************************************************************)
EXTENDS ExpertCache, SequenceTheorems, FunctionTheorems, FiniteSetTheorems, TLAPS

-----------------------------------------------------------------------------
(* What the operations of the recency list return, for lists of any length *)
(* over any set of nodes.                                                  *)

\* LRU::add: the node stands first, every other node one place further down.
LEMMA AddPlaces ==
    ASSUME NEW S, NEW list \in Seq(S), NEW node \in S
    PROVE  /\ Add(list, node) \in Seq(S)
           /\ Len(Add(list, node)) = Len(list) + 1
           /\ Add(list, node)[1] = node
           /\ \A i \in 2..Len(list) + 1 : Add(list, node)[i] = list[i - 1]
<1>1. <<node>> \in Seq(S) /\ Len(<<node>>) = 1 /\ <<node>>[1] = node
  OBVIOUS
<1>2. Len(list) \in Nat
  BY LenProperties
<1> QED
  BY <1>1, <1>2, ConcatProperties DEF Add

\* LRU::add of a new node adds just that node, in front of those that lead.
LEMMA AddNode ==
    ASSUME NEW S, NEW list \in Seq(S), NEW node \in S, Distinct(list),
           node \notin Members(list)
    PROVE  /\ Distinct(Add(list, node))
           /\ Members(Add(list, node)) = Members(list) \cup {node}
           /\ \A T : Leads(list, T) => Leads(Add(list, node), T \cup {node})
<1> DEFINE new == Add(list, node)
<1>1. /\ Len(list) \in Nat /\ Len(new) = Len(list) + 1 /\ new[1] = node
      /\ \A i \in 2..Len(list) + 1 : i - 1 \in 1..Len(list) /\ new[i] = list[i - 1]
  BY AddPlaces, LenProperties
<1>2. \A i \in 1..Len(list) : list[i] \in Members(list) /\ list[i] # node
  BY DEF Members
<1> HIDE DEF new
<1>3. Distinct(new)
  <2> SUFFICES ASSUME NEW i \in 1..Len(new), NEW j \in 1..Len(new),
                      new[i] = new[j]
               PROVE  i = j
    BY DEF Distinct
  <2>1. CASE i = 1 \/ j = 1
    BY <1>1, <1>2, <2>1
  <2>2. CASE i # 1 /\ j # 1
    BY <1>1, <2>2 DEF Distinct
  <2> QED
    BY <2>1, <2>2
<1>4. Members(new) = Members(list) \cup {node}
  <2>1. ASSUME NEW x \in Members(new) PROVE x \in Members(list) \cup {node}
    <3>1. PICK i \in 1..Len(new) : new[i] = x
      BY <2>1 DEF Members
    <3>2. CASE i = 1
      BY <1>1, <3>1, <3>2
    <3>3. CASE i # 1
      BY <1>1, <1>2, <3>1, <3>3
    <3> QED
      BY <3>2, <3>3
  <2>2. ASSUME NEW x \in Members(list) PROVE x \in Members(new)
    <3>1. PICK i \in 1..Len(list) : list[i] = x
      BY DEF Members
    <3>2. i + 1 \in 1..Len(new) /\ new[i + 1] = x
      BY <1>1, <3>1
    <3> QED
      BY <3>2 DEF Members
  <2>3. node \in Members(new)
    BY <1>1 DEF Members
  <2> QED
    BY <2>1, <2>2, <2>3
<1>5. ASSUME NEW T, Leads(list, T) PROVE Leads(new, T \cup {node})
  BY <1>1, <1>2, <1>5 DEF Leads
<1> QED
  BY <1>3, <1>4, <1>5 DEF new

\* LRU::evict: the list without its last node.
LEMMA EvictPlaces ==
    ASSUME NEW S, NEW list \in Seq(S), Len(list) >= 1
    PROVE  /\ Oldest(list) \in S
           /\ Evict(list) \in Seq(S)
           /\ Len(Evict(list)) = Len(list) - 1
           /\ \A i \in 1..Len(list) - 1 : Evict(list)[i] = list[i]
<1>1. Len(list) \in Nat /\ \A i \in 1..Len(list) : list[i] \in S
  BY LenProperties, ElementOfSeq
<1>2. /\ SubSeq(list, 1, Len(list) - 1) \in Seq(S)
      /\ Len(SubSeq(list, 1, Len(list) - 1)) = Len(list) - 1
      /\ \A i \in 1..Len(list) - 1 : SubSeq(list, 1, Len(list) - 1)[i] = list[i]
  <2>1. /\ 1 \in Int /\ Len(list) - 1 \in Int
        /\ \A i \in 1..Len(list) - 1 : list[i] \in S
    BY <1>1
  <2>2. \A i \in 1..((Len(list) - 1) - 1) + 1 :
            SubSeq(list, 1, Len(list) - 1)[i] = list[1 + i - 1]
    BY <2>1, SubSeqProperties
  <2>3. \A i \in 1..Len(list) - 1 : 1 + i - 1 = i
    BY <1>1
  <2>4. ((Len(list) - 1) - 1) + 1 = Len(list) - 1
    BY <1>1
  <2>5. \A i \in 1..Len(list) - 1 : SubSeq(list, 1, Len(list) - 1)[i] = list[i]
    BY <2>2, <2>3, <2>4
  <2>6. SubSeq(list, 1, Len(list) - 1) \in Seq(S)
    BY <2>1, SubSeqProperties
  <2>7. Len(SubSeq(list, 1, Len(list) - 1)) =
          IF 1 <= Len(list) - 1 THEN (Len(list) - 1) - 1 + 1 ELSE 0
    BY <2>1, SubSeqProperties
  <2>8. Len(SubSeq(list, 1, Len(list) - 1)) = Len(list) - 1
    <3> DEFINE k == Len(SubSeq(list, 1, Len(list) - 1))
               n == Len(list)
    <3>1. k = (IF 1 <= n - 1 THEN (n - 1) - 1 + 1 ELSE 0) /\ n \in Nat /\ n >= 1
      BY <1>1, <2>7
    <3> HIDE DEF k, n
    <3>2. k = n - 1
      BY <3>1
    <3> QED
      BY <3>2 DEF k, n
  <2> QED
    BY <2>5, <2>6, <2>8
<1>3. list[Len(list)] \in S
  BY <1>1
<1> QED
  BY <1>2, <1>3 DEF Oldest, Evict

\* LRU::evict takes just the oldest node out.
LEMMA EvictNode ==
    ASSUME NEW S, NEW list \in Seq(S), Len(list) >= 1, Distinct(list)
    PROVE  /\ Oldest(list) \in Members(list)
           /\ Distinct(Evict(list))
           /\ Members(Evict(list)) = Members(list) \ {Oldest(list)}
           /\ \A T : Leads(list, T) => Leads(Evict(list), T)
<1> DEFINE new == Evict(list)
<1>1. /\ Len(list) \in Nat /\ Len(new) = Len(list) - 1
      /\ \A i \in 1..Len(list) - 1 : new[i] = list[i]
      /\ Oldest(list) = list[Len(list)]
  BY EvictPlaces, LenProperties DEF Oldest
<1> HIDE DEF new
<1>2. Oldest(list) \in Members(list)
  BY <1>1 DEF Members
<1>3. Distinct(new)
  BY <1>1 DEF Distinct
<1>4. Members(new) = Members(list) \ {Oldest(list)}
  <2>1. ASSUME NEW x \in Members(new) PROVE x \in Members(list) /\ x # Oldest(list)
    <3>1. PICK i \in 1..Len(new) : new[i] = x
      BY DEF Members
    <3>2. i \in 1..Len(list) /\ list[i] = x /\ i # Len(list)
      BY <1>1, <3>1
    <3> QED
      BY <1>1, <3>2 DEF Members, Distinct
  <2>2. ASSUME NEW x \in Members(list), x # Oldest(list) PROVE x \in Members(new)
    <3>1. PICK i \in 1..Len(list) : list[i] = x
      BY DEF Members
    <3>2. i \in 1..Len(new) /\ new[i] = x
      BY <1>1, <2>2, <3>1
    <3> QED
      BY <3>2 DEF Members
  <2> QED
    BY <2>1, <2>2
<1>5. ASSUME NEW T, Leads(list, T) PROVE Leads(new, T)
  BY <1>1, <1>5 DEF Leads
<1> QED
  BY <1>2, <1>3, <1>4, <1>5 DEF new

\* LRU::promote: a list of the same length over the same set.
LEMMA PromoteType ==
    ASSUME NEW S, NEW list \in Seq(S), NEW node \in S
    PROVE  /\ Promote(list, node) \in Seq(S)
           /\ Len(Promote(list, node)) = Len(list)
<1> DEFINE F == [i \in 1..Len(list) |-> IF i = 1 THEN node
                     ELSE IF i <= Position(list, node) THEN list[i - 1]
                     ELSE list[i]]
<1>1. Len(list) \in Nat /\ \A i \in 1..Len(list) : list[i] \in S
  BY LenProperties, ElementOfSeq
<1>2. \A i \in 1..Len(list) : F[i] \in S
  BY <1>1
<1>3. F \in Seq(S) /\ Len(F) = Len(list)
  BY <1>1, <1>2
<1> QED
  BY <1>3 DEF Promote

\* LRU::promote reorders the nodes: it neither loses nor doubles one, and the
\* promoted node joins those that lead.
LEMMA PromoteNode ==
    ASSUME NEW S, NEW list \in Seq(S), NEW node \in Members(list), Distinct(list)
    PROVE  /\ Distinct(Promote(list, node))
           /\ Members(Promote(list, node)) = Members(list)
           /\ Promote(list, node)[1] = node
           /\ \A T : Leads(list, T) => Leads(Promote(list, node), T \cup {node})
<1> DEFINE p == Position(list, node)
           new == Promote(list, node)
<1>1. Len(list) \in Nat /\ \A i \in 1..Len(list) : list[i] \in S
  BY LenProperties, ElementOfSeq
<1>2. \E i \in 1..Len(list) : list[i] = node
  BY DEF Members
<1>3. p \in 1..Len(list) /\ list[p] = node
  BY <1>2 DEF Position
<1>4. node \in S
  BY <1>1, <1>2
<1>5. /\ Len(new) = Len(list)
      /\ \A i \in 1..Len(list) : new[i] = IF i = 1 THEN node
                                          ELSE IF i <= p THEN list[i - 1]
                                          ELSE list[i]
  BY <1>4, PromoteType DEF Promote
<1> HIDE DEF new, p
<1>6. \A i \in 2..Len(list) : new[i] # node
  BY <1>1, <1>3, <1>5 DEF Distinct
<1>7. Distinct(new)
  <2> SUFFICES ASSUME NEW i \in 1..Len(list), NEW j \in 1..Len(list),
                      new[i] = new[j], i < j
               PROVE  FALSE
    BY <1>1, <1>5 DEF Distinct
  <2> QED
    BY <1>1, <1>3, <1>5, <1>6 DEF Distinct
<1>8. Members(new) = Members(list)
  <2>1. ASSUME NEW x \in Members(new) PROVE x \in Members(list)
    <3>1. PICK i \in 1..Len(list) : new[i] = x
      BY <1>5, <2>1 DEF Members
    <3>2. \E j \in 1..Len(list) : x = list[j]
      BY <1>1, <1>3, <1>5, <3>1
    <3> QED
      BY <3>2 DEF Members
  <2>2. ASSUME NEW x \in Members(list) PROVE x \in Members(new)
    <3>1. PICK i \in 1..Len(list) : list[i] = x
      BY DEF Members
    <3>2. CASE i < p
      <4>1. i + 1 \in 1..Len(new) /\ new[i + 1] = x
        BY <1>1, <1>3, <1>5, <3>1, <3>2
      <4> QED
        BY <4>1 DEF Members
    <3>3. CASE i = p
      BY <1>1, <1>3, <1>5, <3>1, <3>3 DEF Members
    <3>4. CASE i > p
      <4>1. i \in 1..Len(new) /\ new[i] = x
        BY <1>1, <1>3, <1>5, <3>1, <3>4
      <4> QED
        BY <4>1 DEF Members
    <3> QED
      BY <1>1, <1>3, <3>2, <3>3, <3>4
  <2> QED
    BY <2>1, <2>2
<1>9. ASSUME NEW T, Leads(list, T) PROVE Leads(new, T \cup {node})
  <2> SUFFICES ASSUME NEW i \in 2..Len(list), NEW j \in 2..Len(list),
                      i <= j, new[j] \in T
               PROVE  new[i] \in T
    BY <1>1, <1>3, <1>5, <1>6 DEF Leads
  <2> QED
    BY <1>1, <1>3, <1>5, <1>9 DEF Leads
<1>10. new[1] = node
  BY <1>1, <1>3, <1>5
<1> QED
  BY <1>7, <1>8, <1>9, <1>10 DEF new

\* A list without repetitions has as many members as places.
LEMMA DistinctCount ==
    ASSUME NEW S, NEW list \in Seq(S), Distinct(list)
    PROVE  IsFiniteSet(Members(list)) /\ Cardinality(Members(list)) = Len(list)
<1>1. Len(list) \in Nat /\ list \in [1..Len(list) -> S]
  BY LenProperties
<1>2. list \in [1..Len(list) -> Members(list)]
  BY <1>1 DEF Members
<1>3. list \in Bijection(1..Len(list), Members(list))
  <2>1. \A i, j \in 1..Len(list) : list[i] = list[j] => i = j
    BY DEF Distinct
  <2>2. list \in Injection(1..Len(list), Members(list))
    BY <1>2, <2>1, Fun_IsInj
  <2>3. \A x \in Members(list) : \E i \in 1..Len(list) : list[i] = x
    BY DEF Members
  <2> QED
    BY <1>2, <2>2, <2>3 DEF Bijection, Surjection
<1>4. IsFiniteSet(1..Len(list)) /\ Cardinality(1..Len(list)) = Len(list)
  BY <1>1, FS_Interval
<1> QED
  BY <1>3, <1>4, FS_Bijection DEF ExistsBijection

-----------------------------------------------------------------------------
(* The types.                                                              *)

\* The worker has a matrix in hand when it is about to prepare a read.
InHand == io_pc = "enqueue" => io_matrix \in Matrices

TypeInv == TypeOK /\ InHand

\* What the assumptions on the constants say of their types.
LEMMA Constants ==
    /\ Capacity \in Nat \ {0} /\ QueueDepth \in Nat \ {0}
    /\ WorkingSet \in Nat \ {0} /\ MaxPrefetch \in Nat
    /\ NoMatrix \notin Matrices /\ ExitSignal \notin Matrices
    /\ IsFiniteSet(Matrices)
  BY CacheAssumptionHolds DEF CacheAssumption

\* allocate_buffer keeps the types of the cache.
LEMMA AllocateType ==
    ASSUME TypeOK, NEW m \in Matrices, AllocateBuffer(m)
    PROVE  /\ status' \in [Matrices -> {NOT_PRESENT, LOADING, PRESENT}]
           /\ data' \in [Matrices -> Buffers \cup {NullBuffer}]
           /\ lru' \in Seq(Matrices) /\ Len(lru') <= Capacity
<1>1. /\ lru \in Seq(Matrices) /\ Len(lru) \in Nat /\ Len(lru) <= Capacity
      /\ Capacity \in Nat \ {0}
  BY Constants, LenProperties DEF TypeOK
<1>2. CASE Len(lru) < Capacity
  <2>1. /\ data' = [data EXCEPT ![m] = Len(lru) + 1]
        /\ status' = [status EXCEPT ![m] = LOADING]
        /\ lru' = Add(lru, m)
    BY <1>1, <1>2 DEF AllocateBuffer
  <2>2. Len(lru) + 1 \in Buffers
    BY <1>1, <1>2 DEF Buffers
  <2>3. lru' \in Seq(Matrices) /\ Len(lru') = Len(lru) + 1
    BY <1>1, <2>1, AddPlaces
  <2> QED
    BY <1>1, <1>2, <2>1, <2>2, <2>3 DEF TypeOK
<1>3. CASE Len(lru) >= Capacity
  <2>1. /\ data' = [data EXCEPT ![m] = data[Oldest(lru)],
                                ![Oldest(lru)] = NullBuffer]
        /\ status' = [status EXCEPT ![m] = LOADING,
                                    ![Oldest(lru)] = NOT_PRESENT]
        /\ lru' = Add(Evict(lru), m)
    BY <1>1, <1>3 DEF AllocateBuffer
  <2>2. /\ Oldest(lru) \in Matrices /\ Evict(lru) \in Seq(Matrices)
        /\ Len(Evict(lru)) = Len(lru) - 1
    BY <1>1, <1>3, EvictPlaces
  <2>3. lru' \in Seq(Matrices) /\ Len(lru') = (Len(lru) - 1) + 1
    BY <2>1, <2>2, AddPlaces
  <2>4. lru' \in Seq(Matrices) /\ Len(lru') <= Capacity
    BY <1>1, <2>3
  <2>5. data' \in [Matrices -> Buffers \cup {NullBuffer}]
    BY <2>1, <2>2 DEF TypeOK
  <2>6. status' \in [Matrices -> {NOT_PRESENT, LOADING, PRESENT}]
    BY <2>1, <2>2 DEF TypeOK
  <2> QED
    BY <2>4, <2>5, <2>6
<1> QED
  BY <1>1, <1>2, <1>3

\* So does async_fetch, and it touches a matrix.
LEMMA AsyncFetchType ==
    ASSUME TypeInv, NEW m \in Matrices, AsyncFetch(m)
    PROVE  /\ status' \in [Matrices -> {NOT_PRESENT, LOADING, PRESENT}]
           /\ data' \in [Matrices -> Buffers \cup {NullBuffer}]
           /\ lru' \in Seq(Matrices) /\ Len(lru') <= Capacity
           /\ fetching' \in Matrices \cup {NoMatrix}
           /\ touched' \in SUBSET Matrices
           /\ UNCHANGED <<pending, io_queue, workerVars>>
  BY AllocateType DEF AsyncFetch, TypeInv, TypeOK

\* The empty cache has the types.
LEMMA InitType == Init => TypeInv
  BY Constants, EmptySeq
  DEF Init, TypeInv, TypeOK, InHand, Slots, Buffers, NullBuffer, NOT_PRESENT

\* io_queue.push and the promotion after it.
LEMMA PushType == ASSUME TypeInv, Push PROVE TypeInv'
<1>1. lru' \in Seq(Matrices) /\ Len(lru') = Len(lru)
  BY PromoteType DEF Push, TypeInv, TypeOK
<1>2. /\ io_queue' \in Seq(Matrices \cup {ExitSignal})
      /\ Len(io_queue') = Len(io_queue) + 1
  BY DEF Push, TypeInv, TypeOK
<1>3. Len(io_queue') <= QueueDepth
  BY <1>2, Constants, LenProperties DEF Push, TypeInv, TypeOK
<1>4. pending' \in SUBSET Matrices
  BY DEF Push, TypeInv, TypeOK
<1> QED
  BY <1>1, <1>2, <1>3, <1>4 DEF Push, TypeInv, TypeOK, InHand, workerVars

\* The router selects matrices, whatever the prefetch node names.
LEMMA StartLayerType ==
    ASSUME TypeInv, NEW w \in SUBSET Matrices, NEW p \in SUBSET Matrices,
           StartLayer(w, p)
    PROVE  TypeInv'
  BY Constants DEF StartLayer, TypeInv, TypeOK, InHand, cacheVars, workerVars

\* prefetch fetches a matrix.
LEMMA PrefetchAbsentType ==
    ASSUME TypeInv, NEW m \in Matrices, PrefetchAbsent(m) PROVE TypeInv'
  BY AsyncFetchType, Constants
  DEF PrefetchAbsent, TypeInv, TypeOK, InHand, workerVars

\* build_tasks fetches a matrix.
LEMMA BuildAbsentType ==
    ASSUME TypeInv, NEW m \in Matrices, BuildAbsent(m) PROVE TypeInv'
  BY AsyncFetchType
  DEF BuildAbsent, TypeInv, TypeOK, InHand, workerVars

\* build_tasks promotes a matrix of the cache.
LEMMA BuildCachedType ==
    ASSUME TypeInv, NEW m \in Matrices, BuildCached(m) PROVE TypeInv'
  BY PromoteType
  DEF BuildCached, TypeInv, TypeOK, InHand, workerVars

\* The steps of the client that leave the cache alone.
LEMMA ClientType ==
    ASSUME TypeInv,
           \/ \E m \in Matrices : PrefetchCached(m)
           \/ EndPrefetch \/ EndForward
           \/ \E p \in SUBSET Matrices : EndBuild(p)
    PROVE  TypeInv'
  BY Constants DEF PrefetchCached, EndPrefetch, EndForward, EndBuild, TypeInv,
     TypeOK, InHand, cacheVars, workerVars

\* The destructor.
LEMMA DestroyType ==
    ASSUME TypeInv, DestroyPush \/ DestroyFree PROVE TypeInv'
<1>1. CASE DestroyPush
  <2>1. /\ io_queue' \in Seq(Matrices \cup {ExitSignal})
        /\ Len(io_queue') = Len(io_queue) + 1
    BY <1>1 DEF DestroyPush, TypeInv, TypeOK
  <2>2. Len(io_queue') <= QueueDepth
    BY <1>1, <2>1, Constants, LenProperties DEF DestroyPush, TypeInv, TypeOK
  <2> QED
    BY <1>1, <2>1, <2>2 DEF DestroyPush, TypeInv, TypeOK, InHand, workerVars
<1>2. CASE DestroyFree
  BY <1>2, Constants, EmptySeq
  DEF DestroyFree, TypeInv, TypeOK, InHand, workerVars
<1> QED
  BY <1>1, <1>2

\* The worker's next load is a matrix, never the exit signal.
LEMMA IoPopType == ASSUME TypeInv, IoPop PROVE TypeInv'
<1>1. CASE io_queue # <<>>
  <2>1. /\ Head(io_queue) \in Matrices \cup {ExitSignal}
        /\ Tail(io_queue) \in Seq(Matrices \cup {ExitSignal})
        /\ Len(Tail(io_queue)) = Len(io_queue) - 1
    BY <1>1, HeadTailProperties DEF TypeInv, TypeOK
  <2>2. Len(Tail(io_queue)) <= QueueDepth
    BY <2>1, Constants, LenProperties DEF TypeInv, TypeOK
  <2> QED
    BY <1>1, <2>1, <2>2 DEF IoPop, TypeInv, TypeOK, InHand, clientVars
<1>2. CASE io_queue = <<>>
  BY <1>2 DEF IoPop, TypeInv, TypeOK, InHand, clientVars
<1> QED
  BY <1>1, <1>2

\* The read of the matrix in hand goes to a buffer of the cache.
LEMMA IoEnqueueReadType == ASSUME TypeInv, IoEnqueueRead PROVE TypeInv'
<1>1. io_matrix \in Matrices
  BY DEF IoEnqueueRead, TypeInv, InHand
<1>2. data[io_matrix] \in Buffers
  BY <1>1 DEF IoEnqueueRead, HasBuffer, TypeInv, TypeOK
<1>3. req_pos \in Slots /\ (req_pos + 1) % QueueDepth \in Slots
  BY Constants DEF TypeInv, TypeOK, Slots
<1>4. [slot |-> req_pos, buf |-> data[io_matrix], matrix |-> io_matrix,
       at |-> "prepared"] \in Request
  BY <1>1, <1>2, <1>3 DEF Request
<1>5. req_data_buf' \in [Slots -> Matrices \cup {NoMatrix}]
  BY <1>1, <1>3 DEF IoEnqueueRead, TypeInv, TypeOK
<1> QED
  BY <1>3, <1>4, <1>5
  DEF IoEnqueueRead, TypeInv, TypeOK, InHand, cacheVars, clientVars

\* submit_and_wait passes requests on.
LEMMA IoSubmitType == ASSUME TypeInv, IoSubmit PROVE TypeInv'
<1>1. ASSUME NEW r \in Request
      PROVE  [r EXCEPT !.at = IF @ = "prepared" THEN "submitted" ELSE @] \in Request
  BY DEF Request
<1>2. ring' \in SUBSET Request
  BY <1>1 DEF IoSubmit, TypeInv, TypeOK
<1>3. content' \in [Buffers -> Matrices \cup {NoMatrix}]
  BY DEF IoSubmit, TypeInv, TypeOK
<1> QED
  BY <1>2, <1>3 DEF IoSubmit, TypeInv, TypeOK, InHand, cacheVars, clientVars

\* A completion leaves the ring.
LEMMA ReapType == ASSUME TypeInv, NEW r \in ring, Reap(r) PROVE TypeInv'
  BY DEF Reap, TypeInv, TypeOK, InHand, clientVars

\* The kernel finishes a request.
LEMMA CompleteType == ASSUME TypeInv, NEW r \in ring, Complete(r) PROVE TypeInv'
<1>1. r \in Request
  BY DEF TypeInv, TypeOK
<1>2. [r EXCEPT !.at = "completed"] \in Request /\ r.matrix \in Matrices
  BY <1>1 DEF Request
<1> QED
  BY <1>2 DEF Complete, TypeInv, TypeOK, InHand, cacheVars, clientVars

\* The worker between its wait and its next look at the queue.
LEMMA WaitType == ASSUME TypeInv, IoWait \/ EndReap PROVE TypeInv'
  BY DEF IoWait, EndReap, TypeInv, TypeOK, InHand, cacheVars, clientVars

\* Nothing changes.
LEMMA StutterType == ASSUME TypeInv, UNCHANGED vars PROVE TypeInv'
  BY DEF vars, TypeInv, TypeOK, InHand, cacheVars, workerVars, clientVars

\* TypeInv is inductive.
LEMMA NextType == TypeInv /\ [Next]_vars => TypeInv'
<1> SUFFICES ASSUME TypeInv, [Next]_vars PROVE TypeInv'
  OBVIOUS
<1>1. CASE Worker
  BY <1>1, IoPopType, IoEnqueueReadType, IoSubmitType, WaitType, ReapType
  DEF Worker
<1>2. CASE Kernel
  BY <1>2, CompleteType DEF Kernel
<1>3. CASE ClientStep
  BY <1>3, PushType, PrefetchAbsentType, BuildAbsentType, BuildCachedType,
     ClientType DEF ClientStep
<1>4. CASE Destroy
  BY <1>4, DestroyType DEF Destroy
<1>5. ASSUME NEW w \in SUBSET Matrices, NEW p \in SUBSET Matrices,
             StartLayer(w, p)
      PROVE  TypeInv'
  BY <1>5, StartLayerType
<1>6. CASE UNCHANGED vars
  BY <1>6, StutterType
<1> QED
  BY <1>1, <1>2, <1>3, <1>4, <1>5, <1>6 DEF Next, Finished

\* Whatever prefetches name, every variable of cache, worker and client keeps
\* its type.
THEOREM TypeCorrect == Spec => []TypeOK
<1>1. TypeInv => TypeOK
  BY DEF TypeInv
<1> QED
  BY InitType, NextType, <1>1, PTL DEF Spec
-----------------------------------------------------------------------------
(* Prefetches that name only what their layer uses.                        *)

\* The inductive invariant.
Exact == TypeInv /\ ExactInv /\ Speculative = FALSE

\* The cardinality facts of the layer's working set.
LEMMA Working ==
    ASSUME Exact
    PROVE  /\ IsFiniteSet(wanted) /\ IsFiniteSet(touched) /\ IsFiniteSet(Ahead)
           /\ Cardinality(wanted) \in Nat /\ Cardinality(Ahead) \in Nat
           /\ Cardinality(wanted) <= WorkingSet
           /\ Ahead \subseteq wanted
<1>1. wanted \subseteq Matrices /\ touched \subseteq Matrices
  BY DEF Exact, TypeInv, TypeOK
<1>2. Ahead \subseteq wanted
  BY DEF Exact, ExactInv, LayerInv, Ahead
<1> QED
  BY <1>1, <1>2, Constants, FS_Subset, FS_CardinalityType
  DEF Exact, ExactInv, LayerInv

\* allocate_buffer takes a free buffer or that of a matrix v that is present
\* and that the layer has not touched: the touched matrices stand before it
\* and are fewer than the cache has buffers.
LEMMA VictimIdle ==
    ASSUME Exact, NEW m \in wanted, m \notin touched,
           Len(lru) >= Capacity, client_pc # "destroyed"
    PROVE  /\ Oldest(lru) \in Matrices /\ Oldest(lru) \notin touched
           /\ status[Oldest(lru)] = PRESENT
<1>1. /\ lru \in Seq(Matrices) /\ Len(lru) \in Nat /\ Len(lru) >= 1
      /\ Capacity \in Nat /\ WorkingSet \in Nat /\ WorkingSet <= Capacity
  BY Constants, LenProperties, CacheAssumptionHolds
  DEF CacheAssumption, Exact, TypeInv, TypeOK
<1>2. /\ Distinct(lru) /\ Leads(lru, touched) /\ touched \subseteq wanted
      /\ Cardinality(wanted) <= WorkingSet
  BY DEF Exact, ExactInv, Owners, LayerInv
<1>3. Oldest(lru) \in Matrices /\ Oldest(lru) \in Members(lru)
  BY <1>1, <1>2, EvictPlaces, EvictNode
<1>4. ASSUME Oldest(lru) \in touched PROVE FALSE
  <2>1. Members(lru) \subseteq touched
    BY <1>1, <1>2, <1>4 DEF Leads, Members, Oldest
  <2>2. IsFiniteSet(Members(lru)) /\ Cardinality(Members(lru)) = Len(lru)
    BY <1>1, <1>2, DistinctCount
  <2>3. Members(lru) \subseteq wanted \ {m}
    BY <2>1, <1>2
  <2>4. /\ IsFiniteSet(wanted \ {m})
        /\ Cardinality(wanted \ {m}) = Cardinality(wanted) - 1
        /\ Cardinality(wanted) \in Nat
    BY Working, FS_RemoveElement
  <2>5. Cardinality(Members(lru)) <= Cardinality(wanted \ {m})
    BY <2>3, <2>4, FS_Subset
  <2> QED
    BY <1>1, <1>2, <2>2, <2>4, <2>5
<1>5. status[Oldest(lru)] = PRESENT
  BY <1>3, <1>4 DEF Exact, ExactInv, Owners, LayerInv, TypeInv, TypeOK
<1> QED
  BY <1>3, <1>4, <1>5

\* What allocate_buffer does for a wanted matrix m: m loads, into a buffer b
\* that no other matrix has afterwards, and at most one matrix v, idle, loses
\* its buffer.
Allocated(m, v, b) ==
    /\ v \in Matrices \cup {NoMatrix} /\ b \in Buffers /\ v # m
    /\ v \in Matrices => status[v] = PRESENT /\ v \notin touched
    /\ \A n \in Matrices :
         /\ status'[n] = IF n = m THEN LOADING
                         ELSE IF n = v THEN NOT_PRESENT ELSE status[n]
         /\ data'[n] = IF n = m THEN b
                       ELSE IF n = v THEN NullBuffer ELSE data[n]
         /\ n # m /\ n # v => data[n] # b
    /\ Members(lru') = (Members(lru) \ {v}) \cup {m}
    /\ Distinct(lru') /\ Leads(lru', touched \cup {m})
    /\ b <= Len(lru') /\ Len(lru) <= Len(lru')

\* allocate_buffer on a wanted matrix does what Allocated says.
LEMMA AllocateEffect ==
    ASSUME Exact, NEW m \in wanted, status[m] = NOT_PRESENT,
           client_pc # "destroyed", AllocateBuffer(m)
    PROVE  \E v, b : Allocated(m, v, b)
<1>1. /\ lru \in Seq(Matrices) /\ Len(lru) \in Nat /\ Len(lru) <= Capacity
      /\ Capacity \in Nat \ {0} /\ m \in Matrices
      /\ status \in [Matrices -> {NOT_PRESENT, LOADING, PRESENT}]
      /\ data \in [Matrices -> Buffers \cup {NullBuffer}]
  BY Constants, LenProperties DEF Exact, TypeInv, TypeOK
<1>2. /\ Distinct(lru) /\ Leads(lru, touched)
      /\ touched \subseteq Members(lru)
      /\ \A n \in Matrices : data[n] # NullBuffer <=> n \in Members(lru)
      /\ \A n \in Matrices : data[n] <= Len(lru)
      /\ \A n, k \in Matrices : data[n] # NullBuffer /\ data[n] = data[k] => n = k
      /\ \A n \in Matrices : status[n] = NOT_PRESENT <=> data[n] = NullBuffer
  BY DEF Exact, ExactInv, Owners, LayerInv
<1>3. data[m] = NullBuffer /\ m \notin Members(lru) /\ m \notin touched
  BY <1>1, <1>2
<1>4. CASE Len(lru) < Capacity
  <2>1. /\ data' = [data EXCEPT ![m] = Len(lru) + 1]
        /\ status' = [status EXCEPT ![m] = LOADING]
        /\ lru' = Add(lru, m)
    BY <1>1, <1>4 DEF AllocateBuffer
  <2>2. /\ Len(lru') = Len(lru) + 1 /\ Distinct(lru')
        /\ Members(lru') = Members(lru) \cup {m}
        /\ Leads(lru', touched \cup {m})
    <3>1. Len(Add(lru, m)) = Len(lru) + 1
      BY <1>1, AddPlaces
    <3>2. /\ Distinct(Add(lru, m))
          /\ Members(Add(lru, m)) = Members(lru) \cup {m}
          /\ \A T : Leads(lru, T) => Leads(Add(lru, m), T \cup {m})
      BY <1>1, <1>2, <1>3, AddNode
    <3> QED
      BY <1>2, <2>1, <3>1, <3>2
  <2>3. Len(lru) + 1 \in Buffers
    BY <1>1, <1>4 DEF Buffers
  <2>4. NoMatrix \notin Matrices /\ Members(lru) \subseteq Matrices
    BY <1>1, Constants, ElementOfSeq DEF Members
  <2>5. /\ Members(lru') = (Members(lru) \ {NoMatrix}) \cup {m}
        /\ NoMatrix # m
    BY <1>1, <2>2, <2>4
  <2>6. \A n \in Matrices :
          /\ status'[n] = IF n = m THEN LOADING
                          ELSE IF n = NoMatrix THEN NOT_PRESENT ELSE status[n]
          /\ data'[n] = IF n = m THEN Len(lru) + 1
                        ELSE IF n = NoMatrix THEN NullBuffer ELSE data[n]
    BY <1>1, <2>1, <2>4
  <2>7. \A n \in Matrices : data[n] # Len(lru) + 1
    BY <1>1, <1>2 DEF Buffers, NullBuffer
  <2>8. Len(lru) + 1 <= Len(lru') /\ Len(lru) <= Len(lru')
    BY <1>1, <2>2
  <2> QED
    BY <2>2, <2>3, <2>4, <2>5, <2>6, <2>7, <2>8
    DEF Allocated
<1>5. CASE Len(lru) >= Capacity
  <2> DEFINE v == Oldest(lru)
  <2>1. /\ data' = [data EXCEPT ![m] = data[v], ![v] = NullBuffer]
        /\ status' = [status EXCEPT ![m] = LOADING, ![v] = NOT_PRESENT]
        /\ lru' = Add(Evict(lru), m)
    BY <1>1, <1>5 DEF AllocateBuffer
  <2>2. v \in Matrices /\ v \notin touched /\ status[v] = PRESENT
    BY <1>3, <1>5, VictimIdle
  <2>3. /\ v \in Members(lru) /\ Distinct(Evict(lru))
        /\ Evict(lru) \in Seq(Matrices) /\ Len(Evict(lru)) = Len(lru) - 1
        /\ Members(Evict(lru)) = Members(lru) \ {v}
        /\ Leads(Evict(lru), touched)
    BY <1>1, <1>2, <1>5, EvictPlaces, EvictNode
  <2>4. /\ Len(lru') = (Len(lru) - 1) + 1 /\ Distinct(lru')
        /\ Members(lru') = (Members(lru) \ {v}) \cup {m}
        /\ Leads(lru', touched \cup {m})
    <3> DEFINE rest == Evict(lru)
    <3>1. rest \in Seq(Matrices) /\ Distinct(rest) /\ m \notin Members(rest)
      BY <1>3, <2>3
    <3> HIDE DEF rest
    <3>2. Len(Add(rest, m)) = Len(rest) + 1
      BY <1>1, <3>1, AddPlaces
    <3>3. /\ Distinct(Add(rest, m))
          /\ Members(Add(rest, m)) = Members(rest) \cup {m}
          /\ \A T : Leads(rest, T) => Leads(Add(rest, m), T \cup {m})
      BY <1>1, <3>1, AddNode
    <3> QED
      BY <2>1, <2>3, <3>2, <3>3 DEF rest
  <2>5. v # m
    BY <1>3, <2>3
  <2>6. data[v] \in Buffers /\ data[v] <= Len(lru)
    BY <1>1, <1>2, <2>2, <2>3
  <2> HIDE DEF v
  <2>7. \A n \in Matrices :
          /\ status'[n] = IF n = m THEN LOADING
                          ELSE IF n = v THEN NOT_PRESENT ELSE status[n]
          /\ data'[n] = IF n = m THEN data[v]
                        ELSE IF n = v THEN NullBuffer ELSE data[n]
    BY <1>1, <2>1, <2>2, <2>5
  <2>8. \A n \in Matrices : n # v => data[n] # data[v]
    BY <1>2, <2>2, <2>3
  <2>9. Len(lru') = Len(lru)
    BY <1>1, <2>4
  <2>10. data[v] <= Len(lru') /\ Len(lru) <= Len(lru')
    BY <1>1, <2>6, <2>9
  <2> QED
    BY <2>2, <2>4, <2>5, <2>6, <2>7, <2>8, <2>10 DEF Allocated
<1> QED
  BY <1>1, <1>4, <1>5

\* The bound on the age of a slot survives when fewer matrices are ahead.
LEMMA FewerAhead ==
    ASSUME NEW a \in Int, NEW c \in Nat, NEW d \in Nat, NEW w \in Nat,
           a + 1 + c <= w, d <= c
    PROVE  a + 1 + d <= w
  OBVIOUS

\* prefetch or build_tasks fetches m.
LEMMA FetchStep ==
    ASSUME Exact, NEW m \in wanted, AsyncFetch(m), fetching = NoMatrix,
           client_pc \in {"prefetch", "build"},
           UNCHANGED <<client_pc, wanted>>, targets' \subseteq targets,
           todo' = IF client_pc = "build" THEN todo \ {m} ELSE todo
    PROVE  ExactInv'
<1>1. /\ status[m] = NOT_PRESENT /\ AllocateBuffer(m) /\ fetching' = m
      /\ touched' = touched \cup {m} /\ m \in Matrices
      /\ UNCHANGED <<pending, io_queue, io_pc, io_matrix, req_data_buf, req_pos,
                     ring, content>>
  BY DEF AsyncFetch, workerVars, Exact, TypeInv, TypeOK
<1>2. PICK v, b : Allocated(m, v, b)
  BY <1>1, AllocateEffect
<1>3. NOT_PRESENT # LOADING /\ NOT_PRESENT # PRESENT /\ LOADING # PRESENT
  BY DEF NOT_PRESENT, LOADING, PRESENT
<1>4. m \notin touched /\ status[m] # LOADING
  BY <1>1, <1>3 DEF Exact, ExactInv, Owners, LayerInv
<1>5. \A n \in Matrices : n # m => (status'[n] = LOADING <=> status[n] = LOADING)
  BY <1>2, <1>3 DEF Allocated
<1>6. \A n \in Matrices : status[n] = LOADING => data'[n] = data[n]
  BY <1>2, <1>3, <1>4 DEF Allocated
<1>7. Owners'
  <2>1. Distinct(lru')
    BY <1>2 DEF Allocated
  <2>2. \A n \in Matrices : data'[n] # NullBuffer <=> n \in Members(lru')
    BY <1>2 DEF Allocated, Exact, ExactInv, Owners, Buffers, NullBuffer
  <2>3. \A n \in Matrices : data'[n] <= Len(lru')
    <3>1. /\ \A n \in Matrices : data[n] <= Len(lru) /\ data[n] \in Nat
          /\ Len(lru) \in Nat /\ Len(lru') \in Nat
      BY <1>1, AllocateType, LenProperties, Constants
      DEF Exact, ExactInv, Owners, TypeInv, TypeOK, Buffers, NullBuffer
    <3>2. 0 <= Len(lru')
      BY <3>1
    <3> QED
      BY <1>2, <3>1, <3>2 DEF Allocated, NullBuffer
  <2>4. \A n, k \in Matrices :
          data'[n] # NullBuffer /\ data'[n] = data'[k] => n = k
    BY <1>2 DEF Allocated, Exact, ExactInv, Owners
  <2>5. \A n \in Matrices : status'[n] = NOT_PRESENT <=> data'[n] = NullBuffer
    BY <1>2, <1>3 DEF Allocated, Exact, ExactInv, Owners, Buffers, NullBuffer
  <2> QED
    BY <2>1, <2>2, <2>3, <2>4, <2>5 DEF Owners
<1>8. Loads'
  <2>1. ~Queued(m) /\ io_matrix # m /\ ~InRing(m)
    BY <1>1, <1>4 DEF Exact, ExactInv, Loads
  <2>2. \A n : Queued(n)' = Queued(n) /\ InRing(n)' = InRing(n)
    BY <1>1 DEF Queued, InRing
  <2>3. status'[m] = LOADING
    BY <1>1, <1>2 DEF Allocated
  <2>4. NoMatrix \notin Matrices
    BY Constants
  <2>5. /\ \A n \in Matrices :
             status'[n] = LOADING <=>
               fetching' = n \/ Queued(n) \/ io_matrix = n \/ InRing(n)
        /\ \A n \in Matrices : 
             fetching' = n => ~Queued(n) /\ io_matrix # n /\ ~InRing(n)
    BY <1>1, <1>5, <2>1, <2>3, <2>4 DEF Exact, ExactInv, Loads
  <2> QED
    BY <1>1, <2>2, <2>5 DEF Exact, ExactInv, Loads
<1>9. LayerInv'
  <2>1. touched' \subseteq Members(lru') /\ Leads(lru', touched')
    <3>1. touched \subseteq Members(lru) /\ touched \subseteq Matrices
      BY DEF Exact, ExactInv, LayerInv, TypeInv, TypeOK
    <3>2. /\ Members(lru') = (Members(lru) \ {v}) \cup {m}
          /\ v \in Matrices => v \notin touched
          /\ Leads(lru', touched \cup {m})
      BY <1>2 DEF Allocated
    <3>3. touched' \subseteq Members(lru')
      BY <1>1, <3>1, <3>2
    <3> QED
      BY <1>1, <3>2, <3>3
  <2>2. \A n \in Matrices : status'[n] = LOADING => n \in touched'
    BY <1>1, <1>5 DEF Exact, ExactInv, LayerInv
  <2>3. client_pc = "build" =>
          /\ wanted' \ todo' \subseteq touched'
          /\ \A n \in Matrices :
               status'[n] = LOADING => n \in todo' \cup pending' \cup {fetching'}
    BY <1>1, <1>5, Constants DEF Exact, ExactInv, LayerInv
  <2> QED
    BY <1>1, <2>1, <2>2, <2>3 DEF Exact, ExactInv, LayerInv
<1>10. Requests'
  <2>1. Ahead' = Ahead
    <3>1. \A n : InRing(n)' = InRing(n)
      BY <1>1 DEF InRing
    <3>2. status'[m] = LOADING /\ ~InRing(m)
      BY <1>1, <1>2, <1>4 DEF Allocated, Exact, ExactInv, Loads
    <3> QED
      BY <1>1, <1>4, <1>5, <3>1, <3>2 DEF Ahead
  <2>2. \A r \in ring : r.matrix \in Matrices /\ status[r.matrix] = LOADING
    BY DEF Exact, ExactInv, Loads, InRing, TypeInv, TypeOK, Request
  <2>3. \A r \in ring' :
          /\ data'[r.matrix] = r.buf
          /\ req_data_buf'[r.slot] = r.matrix
          /\ r.at = "completed" => content'[r.buf] = r.matrix
          /\ Age(r.slot)' + 1 + Cardinality(Ahead') <= Cardinality(wanted')
    BY <1>1, <1>6, <2>1, <2>2 DEF Exact, ExactInv, Requests, Age
  <2>4. \A n \in Matrices : status'[n] = PRESENT => content'[data'[n]] = n
    BY <1>1, <1>2, <1>3 DEF Allocated, Exact, ExactInv, Requests
  <2> QED
    BY <2>3, <2>4 DEF Requests
<1> QED
  BY <1>7, <1>8, <1>9, <1>10 DEF ExactInv

\* The matrix whose fetch was blocked goes into the queue.
LEMMA PushStep == ASSUME Exact, Push PROVE ExactInv'
<1>1. /\ fetching # NoMatrix /\ io_queue' = Append(io_queue, fetching)
      /\ lru' = Promote(lru, fetching) /\ fetching' = NoMatrix
      /\ pending' = IF client_pc = "build" THEN pending \cup {fetching} ELSE pending
      /\ UNCHANGED <<status, data, workerVars, client_pc, wanted, targets,
                     todo, touched>>
  BY DEF Push
<1>2. /\ fetching \in Matrices /\ NoMatrix \notin Matrices
      /\ io_queue \in Seq(Matrices \cup {ExitSignal}) /\ Len(io_queue) \in Nat
      /\ lru \in Seq(Matrices) /\ client_pc \in {"prefetch", "build"}
  BY <1>1, Constants, LenProperties DEF Exact, ExactInv, LayerInv, TypeInv, TypeOK
<1>3. /\ status[fetching] = LOADING /\ fetching \in touched
      /\ fetching \in Members(lru) /\ Distinct(lru)
  BY <1>1, <1>2 DEF Exact, ExactInv, Loads, LayerInv, Owners
<1>4. /\ Distinct(lru') /\ Members(lru') = Members(lru) /\ Len(lru') = Len(lru)
      /\ Leads(lru', touched)
  <2>1. touched \cup {fetching} = touched /\ Leads(lru, touched)
    BY <1>3 DEF Exact, ExactInv, LayerInv
  <2>2. /\ Distinct(Promote(lru, fetching))
        /\ Members(Promote(lru, fetching)) = Members(lru)
        /\ \A T : Leads(lru, T) => Leads(Promote(lru, fetching), T \cup {fetching})
    BY <1>2, <1>3, PromoteNode
  <2>3. Len(Promote(lru, fetching)) = Len(lru)
    BY <1>2, PromoteType
  <2>4. Leads(Promote(lru, fetching), touched \cup {fetching})
    BY <2>1, <2>2
  <2> QED
    BY <1>1, <2>1, <2>2, <2>3, <2>4
<1>5. Owners'
  BY <1>1, <1>4 DEF Exact, ExactInv, Owners
<1>6. /\ Len(io_queue') = Len(io_queue) + 1 /\ io_queue'[Len(io_queue) + 1] = fetching
      /\ \A i \in 1..Len(io_queue) : io_queue'[i] = io_queue[i]
  BY <1>1, <1>2
<1>7. \A n \in Matrices : Queued(n)' <=> Queued(n) \/ n = fetching
  BY <1>2, <1>6 DEF Queued
<1>8. \A n : InRing(n)' = InRing(n)
  BY <1>1 DEF InRing, workerVars
<1>9. Loads'
  <2>1. ~Queued(fetching) /\ io_matrix # fetching /\ ~InRing(fetching)
    BY <1>2 DEF Exact, ExactInv, Loads
  <2>2. \A i \in 1..Len(io_queue) : io_queue[i] # fetching
    BY <2>1 DEF Queued
  <2>3. \A i, j \in 1..Len(io_queue') :
          io_queue'[i] = io_queue'[j] /\ io_queue'[i] \in Matrices => i = j
    <3> SUFFICES ASSUME NEW i \in 1..Len(io_queue'), NEW j \in 1..Len(io_queue'),
                        io_queue'[i] = io_queue'[j], io_queue'[i] \in Matrices
                 PROVE  i = j
      OBVIOUS
    <3>1. CASE i \in 1..Len(io_queue) /\ j \in 1..Len(io_queue)
      BY <1>6, <3>1 DEF Exact, ExactInv, Loads
    <3>2. CASE i = Len(io_queue) + 1 \/ j = Len(io_queue) + 1
      BY <1>2, <1>6, <2>2, <3>2
    <3> QED
      BY <1>2, <1>6, <3>1, <3>2
  <2>4. \A n \in Matrices :
          status'[n] = LOADING <=>
            fetching' = n \/ Queued(n)' \/ io_matrix' = n \/ InRing(n)'
    BY <1>1, <1>2, <1>3, <1>7, <1>8 DEF Exact, ExactInv, Loads, workerVars
  <2>5. \A n \in Matrices :
          /\ fetching' = n => ~Queued(n)' /\ io_matrix' # n /\ ~InRing(n)'
          /\ Queued(n)' => io_matrix' # n /\ ~InRing(n)'
          /\ io_matrix' = n => ~InRing(n)'
    BY <1>1, <1>2, <1>7, <1>8, <2>1 DEF Exact, ExactInv, Loads, workerVars
  <2> QED
    BY <1>1, <2>3, <2>4, <2>5 DEF Exact, ExactInv, Loads, workerVars
<1>10. LayerInv'
  BY <1>1, <1>2, <1>4 DEF Exact, ExactInv, LayerInv
<1>11. Requests'
  <2>1. Ahead' = Ahead
    BY <1>1, <1>8 DEF Ahead
  <2> QED
    BY <1>1, <2>1 DEF Exact, ExactInv, Requests, Age, workerVars
<1> QED
  BY <1>5, <1>9, <1>10, <1>11 DEF ExactInv

\* build_tasks finds m in the cache.
LEMMA BuildCachedStep ==
    ASSUME Exact, NEW m \in Matrices, BuildCached(m) PROVE ExactInv'
<1>1. /\ client_pc = "build" /\ m \in todo /\ m \in wanted
      /\ status[m] # NOT_PRESENT /\ fetching = NoMatrix
      /\ pending' = IF status[m] = PRESENT THEN pending ELSE pending \cup {m}
      /\ lru' = Promote(lru, m) /\ todo' = todo \ {m}
      /\ touched' = touched \cup {m}
      /\ UNCHANGED <<status, data, io_queue, workerVars, client_pc, wanted,
                     targets, fetching>>
  BY DEF BuildCached, Exact, ExactInv, LayerInv
<1>2. /\ lru \in Seq(Matrices) /\ m \in Members(lru) /\ Distinct(lru)
      /\ Leads(lru, touched) /\ NoMatrix \notin Matrices
      /\ touched \subseteq Members(lru)
  BY <1>1, Constants DEF Exact, ExactInv, Owners, LayerInv, TypeInv, TypeOK
<1>3. /\ Distinct(lru') /\ Members(lru') = Members(lru) /\ Len(lru') = Len(lru)
      /\ Leads(lru', touched')
  <2>1. /\ Distinct(Promote(lru, m))
        /\ Members(Promote(lru, m)) = Members(lru)
        /\ \A T : Leads(lru, T) => Leads(Promote(lru, m), T \cup {m})
    BY <1>2, PromoteNode
  <2>2. Len(Promote(lru, m)) = Len(lru)
    BY <1>2, PromoteType
  <2>3. Leads(Promote(lru, m), touched \cup {m})
    BY <1>2, <2>1
  <2> QED
    BY <1>1, <2>1, <2>2, <2>3
<1>4. Owners'
  BY <1>1, <1>3 DEF Exact, ExactInv, Owners
<1>5. \A n : Queued(n)' = Queued(n) /\ InRing(n)' = InRing(n)
  BY <1>1 DEF Queued, InRing, workerVars
<1>6. Loads'
  BY <1>1, <1>5 DEF Exact, ExactInv, Loads, workerVars
<1>7. LayerInv'
  <2>1. touched' \subseteq Members(lru') /\ touched' \subseteq wanted'
    BY <1>1, <1>2, <1>3 DEF Exact, ExactInv, LayerInv
  <2>2. \A n \in Matrices :
          status'[n] = LOADING =>
            n \in touched' /\ n \in todo' \cup pending' \cup {fetching'}
    BY <1>1 DEF Exact, ExactInv, LayerInv, LOADING, PRESENT
  <2>3. wanted' \ todo' \subseteq touched'
    BY <1>1 DEF Exact, ExactInv, LayerInv
  <2> QED
    BY <1>1, <1>3, <2>1, <2>2, <2>3 DEF Exact, ExactInv, LayerInv
<1>8. Requests'
  <2>1. Ahead' \subseteq Ahead
    BY <1>1, <1>5 DEF Ahead
  <2>2. Cardinality(Ahead') <= Cardinality(Ahead) /\ Cardinality(Ahead') \in Nat
    BY <2>1, Working, FS_Subset, FS_CardinalityType
  <2>3. \A r \in ring : Age(r.slot) \in Int
    BY Constants DEF Age, Exact, TypeInv, TypeOK, Slots, Request
  <2>4. \A r \in ring : Age(r.slot) + 1 + Cardinality(Ahead') <= Cardinality(wanted)
    <3> TAKE r \in ring
    <3>1. Age(r.slot) + 1 + Cardinality(Ahead) <= Cardinality(wanted)
      BY DEF Exact, ExactInv, Requests
    <3> QED
      BY <2>2, <2>3, <3>1, Working, FewerAhead
  <2> QED
    BY <1>1, <2>4 DEF Exact, ExactInv, Requests, Age, workerVars
<1> QED
  BY <1>4, <1>6, <1>7, <1>8 DEF ExactInv

\* With nothing loading, no load is at any station.
LEMMA NothingLoading ==
    ASSUME Exact, \A m \in Matrices : status[m] # LOADING
    PROVE  ring = {} /\ fetching = NoMatrix /\ io_matrix = NoMatrix
  BY DEF Exact, ExactInv, Loads, InRing, TypeInv, TypeOK, Request

\* Between two layers nothing is loading.
LEMMA IdleLoadsNothing ==
    ASSUME Exact, client_pc \in {"idle", "join", "destroyed"}
    PROVE  \A m \in Matrices : status[m] # LOADING
  BY DEF Exact, ExactInv, LayerInv

\* A layer begins.
LEMMA StartLayerStep ==
    ASSUME Exact, NEW w \in SUBSET Matrices, NEW p \in SUBSET Matrices,
           StartLayer(w, p)
    PROVE  ExactInv'
<1>1. /\ client_pc = "idle" /\ client_pc' = "prefetch"
      /\ Cardinality(w) <= WorkingSet /\ p = w
      /\ wanted' = w /\ todo' = w /\ targets' = w /\ touched' = {}
      /\ UNCHANGED <<cacheVars, workerVars, fetching>>
  BY DEF StartLayer, Exact
<1>2. /\ \A m \in Matrices : status[m] # LOADING
      /\ ring = {} /\ fetching = NoMatrix
  BY <1>1, IdleLoadsNothing, NothingLoading
<1>3. Owners' /\ Loads'
  BY <1>1 DEF Exact, ExactInv, Owners, Loads, Queued, InRing, cacheVars,
     workerVars
<1>4. LayerInv'
  BY <1>1, <1>2 DEF LayerInv, Leads, cacheVars
<1>5. Requests'
  BY <1>1, <1>2 DEF Exact, ExactInv, Requests, cacheVars, workerVars
<1> QED
  BY <1>3, <1>4, <1>5 DEF ExactInv

\* The steps of the client that leave cache, worker and wanted alone.
LEMMA ClientStayStep ==
    ASSUME Exact,
           \/ \E m \in Matrices : PrefetchCached(m)
           \/ EndPrefetch
           \/ \E p \in SUBSET Matrices : EndBuild(p)
    PROVE  ExactInv'
<1>1. UNCHANGED <<cacheVars, workerVars, wanted, todo, fetching, touched>>
  BY DEF PrefetchCached, EndPrefetch, EndBuild
<1>2. client_pc # "destroyed" /\ client_pc' # "destroyed"
  BY DEF PrefetchCached, EndPrefetch, EndBuild, Prefetching
<1>3. Owners' /\ Loads'
  BY <1>1, <1>2 DEF Exact, ExactInv, Owners, Loads, Queued, InRing, cacheVars,
     workerVars
<1>4. Requests'
  BY <1>1, <1>2 DEF Exact, ExactInv, Requests, Age, Ahead, InRing, cacheVars,
     workerVars
<1>5. LayerInv'
  <2>1. ASSUME NEW m \in Matrices, PrefetchCached(m) PROVE LayerInv'
    BY <1>1, <2>1 DEF PrefetchCached, Prefetching, Exact, ExactInv, LayerInv,
       cacheVars
  <2>2. CASE EndPrefetch
    BY <1>1, <2>2 DEF EndPrefetch, Prefetching, Exact, ExactInv, LayerInv,
       cacheVars
  <2>3. ASSUME NEW p \in SUBSET Matrices, EndBuild(p) PROVE LayerInv'
    BY <1>1, <2>3 DEF EndBuild, Exact, ExactInv, LayerInv, cacheVars
  <2> QED
    BY <2>1, <2>2, <2>3
<1> QED
  BY <1>3, <1>4, <1>5 DEF ExactInv

\* The layer ends: everything it has loaded has arrived.
LEMMA EndForwardStep == ASSUME Exact, EndForward PROVE ExactInv'
<1>1. /\ client_pc = "forward" /\ client_pc' = "idle"
      /\ wanted' = {} /\ touched' = {} /\ pending \cap wanted = {}
      /\ UNCHANGED <<cacheVars, workerVars, targets, todo, fetching>>
  BY DEF EndForward
<1>2. targets = {} /\ todo = {} /\ fetching = NoMatrix /\ NoMatrix \notin Matrices
  BY <1>1, Constants DEF Exact, ExactInv, LayerInv
<1>3. \A m \in Matrices : status[m] # LOADING
  BY <1>1, <1>2 DEF Exact, ExactInv, LayerInv
<1>4. ring = {}
  BY <1>3, NothingLoading
<1>5. Owners' /\ Loads'
  BY <1>1 DEF Exact, ExactInv, Owners, Loads, Queued, InRing, cacheVars,
     workerVars
<1>6. LayerInv'
  <2>1. Cardinality({}) = 0 /\ 0 <= WorkingSet
    BY FS_EmptySet, Constants
  <2> QED
    BY <1>1, <1>2, <1>3, <2>1 DEF LayerInv, Leads, cacheVars
<1>7. Requests'
  BY <1>1, <1>4 DEF Exact, ExactInv, Requests, cacheVars, workerVars
<1> QED
  BY <1>5, <1>6, <1>7 DEF ExactInv

\* The destructor asks the worker to exit.
LEMMA DestroyPushStep == ASSUME Exact, DestroyPush PROVE ExactInv'
<1>1. /\ client_pc = "idle" /\ client_pc' = "join"
      /\ io_queue' = Append(io_queue, ExitSignal)
      /\ UNCHANGED <<status, data, pending, lru, workerVars, wanted, targets,
                     todo, fetching, touched>>
  BY DEF DestroyPush
<1>2. /\ io_queue \in Seq(Matrices \cup {ExitSignal}) /\ Len(io_queue) \in Nat
      /\ ExitSignal \notin Matrices
  BY Constants, LenProperties DEF Exact, TypeInv, TypeOK
<1>3. /\ Len(io_queue') = Len(io_queue) + 1
      /\ io_queue'[Len(io_queue) + 1] = ExitSignal
      /\ \A i \in 1..Len(io_queue) : io_queue'[i] = io_queue[i]
  BY <1>1, <1>2
<1>4. \A n \in Matrices : Queued(n)' <=> Queued(n)
  BY <1>2, <1>3 DEF Queued
<1>5. \A n : InRing(n)' = InRing(n)
  BY <1>1 DEF InRing, workerVars
<1>6. Owners'
  BY <1>1 DEF Exact, ExactInv, Owners
<1>7. Loads'
  <2>1. \A i, j \in 1..Len(io_queue') :
          io_queue'[i] = io_queue'[j] /\ io_queue'[i] \in Matrices => i = j
    BY <1>2, <1>3 DEF Exact, ExactInv, Loads
  <2> QED
    BY <1>1, <1>4, <1>5, <2>1 DEF Exact, ExactInv, Loads, workerVars
<1>8. LayerInv'
  BY <1>1 DEF Exact, ExactInv, LayerInv
<1>9. Requests'
  BY <1>1, <1>5 DEF Exact, ExactInv, Requests, Age, Ahead, workerVars
<1> QED
  BY <1>6, <1>7, <1>8, <1>9 DEF ExactInv

\* The destructor frees every buffer.
LEMMA DestroyFreeStep == ASSUME Exact, DestroyFree PROVE ExactInv'
<1>1. /\ client_pc = "join" /\ client_pc' = "destroyed"
      /\ lru' = <<>> /\ data' = [m \in Matrices |-> NullBuffer]
      /\ UNCHANGED <<status, pending, io_queue, workerVars, wanted, targets,
                     todo, fetching, touched>>
  BY DEF DestroyFree
<1>2. /\ \A m \in Matrices : status[m] # LOADING
      /\ ring = {} /\ touched = {}
  BY <1>1, IdleLoadsNothing, NothingLoading DEF Exact, ExactInv, LayerInv
<1>3. Len(lru') = 0 /\ Members(lru') = {}
  BY <1>1 DEF Members
<1>4. Owners'
  BY <1>1, <1>3 DEF Owners, Distinct, NullBuffer
<1>5. Loads'
  BY <1>1 DEF Exact, ExactInv, Loads, Queued, InRing, workerVars
<1>6. LayerInv'
  BY <1>1, <1>2, <1>3 DEF Exact, ExactInv, LayerInv, Leads
<1>7. Requests'
  BY <1>1, <1>2 DEF Requests, workerVars
<1> QED
  BY <1>4, <1>5, <1>6, <1>7 DEF ExactInv

\* The worker takes the next load, or the exit signal, or submits.
LEMMA IoPopStep == ASSUME Exact, IoPop PROVE ExactInv'
<1>1. /\ io_pc = "pop" /\ io_matrix = NoMatrix
      /\ UNCHANGED <<status, data, pending, lru, req_data_buf, req_pos, ring,
                     content, clientVars>>
  BY DEF IoPop, Exact, ExactInv, Loads
<1>2. \A n : InRing(n)' = InRing(n)
  BY <1>1 DEF InRing
<1>3. Owners' /\ LayerInv' /\ Requests'
  BY <1>1, <1>2 DEF Exact, ExactInv, Owners, LayerInv, Requests, Age, Ahead,
     clientVars
<1>4. Loads'
  <2>1. CASE io_queue = <<>>
    BY <1>1, <1>2, <2>1 DEF IoPop, Exact, ExactInv, Loads, Queued, clientVars
  <2>2. CASE io_queue # <<>>
    <3> DEFINE first == Head(io_queue)
    <3>1. /\ io_queue' = Tail(io_queue)
          /\ io_matrix' = IF first = ExitSignal THEN NoMatrix ELSE first
          /\ first # ExitSignal => io_pc' = "enqueue"
      BY <2>2 DEF IoPop
    <3>2. /\ io_queue \in Seq(Matrices \cup {ExitSignal})
          /\ Len(io_queue) \in Nat /\ Len(io_queue) >= 1
          /\ NoMatrix \notin Matrices /\ ExitSignal \notin Matrices
          /\ NoMatrix # ExitSignal
      BY <2>2, Constants, LenProperties, EmptySeq, CacheAssumptionHolds
      DEF CacheAssumption, Exact, TypeInv, TypeOK
    <3>3. /\ first = io_queue[1] /\ Len(io_queue') = Len(io_queue) - 1
          /\ \A i \in 1..Len(io_queue') : io_queue'[i] = io_queue[i + 1]
      BY <2>2, <3>1, <3>2, HeadTailProperties
    <3> HIDE DEF first
    <3>4. \A n \in Matrices : Queued(n)' => Queued(n)
      BY <3>2, <3>3 DEF Queued
    <3>5. \A n \in Matrices : Queued(n) => Queued(n)' \/ n = first
      <4> SUFFICES ASSUME NEW n \in Matrices, Queued(n), n # first
                   PROVE  Queued(n)'
        OBVIOUS
      <4>1. PICK i \in 1..Len(io_queue) : io_queue[i] = n
        BY DEF Queued
      <4>2. i - 1 \in 1..Len(io_queue') /\ io_queue'[i - 1] = n
        BY <3>2, <3>3, <4>1
      <4> QED
        BY <4>2 DEF Queued
    <3>6. \A n \in Matrices : n = first => Queued(n) /\ ~Queued(n)'
      <4>1. \A i, j \in 1..Len(io_queue) :
              io_queue[i] = io_queue[j] /\ io_queue[i] \in Matrices => i = j
        BY DEF Exact, ExactInv, Loads
      <4>2. \A i \in 1..Len(io_queue') :
              first \in Matrices => io_queue'[i] # first
        BY <3>2, <3>3, <4>1
      <4>3. 1 \in 1..Len(io_queue) /\ io_queue[1] = first
        BY <3>2, <3>3
      <4>4. Queued(first)
        BY <4>3 DEF Queued
      <4>5. \A n \in Matrices : n = first => ~Queued(n)'
        BY <4>2 DEF Queued
      <4> QED
        BY <4>4, <4>5
    <3>7. first \in Matrices \cup {ExitSignal}
      BY <3>2, <3>3
    <3>8. \A i, j \in 1..Len(io_queue') :
            io_queue'[i] = io_queue'[j] /\ io_queue'[i] \in Matrices => i = j
      <4> SUFFICES ASSUME NEW i \in 1..Len(io_queue'), NEW j \in 1..Len(io_queue'),
                          io_queue'[i] = io_queue'[j], io_queue'[i] \in Matrices
                   PROVE  i = j
        OBVIOUS
      <4>1. i + 1 \in 1..Len(io_queue) /\ j + 1 \in 1..Len(io_queue)
        BY <3>2, <3>3
      <4>2. i + 1 = j + 1
        BY <3>3, <4>1 DEF Exact, ExactInv, Loads
      <4> QED
        BY <3>2, <3>3, <4>2
    <3>9. \A n \in Matrices :
            status'[n] = LOADING <=>
              fetching' = n \/ Queued(n)' \/ io_matrix' = n \/ InRing(n)'
      BY <1>1, <1>2, <3>1, <3>2, <3>4, <3>5, <3>6, <3>7
      DEF Exact, ExactInv, Loads, clientVars
    <3>10. \A n \in Matrices :
             /\ fetching' = n => ~Queued(n)' /\ io_matrix' # n /\ ~InRing(n)'
             /\ Queued(n)' => io_matrix' # n /\ ~InRing(n)'
             /\ io_matrix' = n => ~InRing(n)'
      <4> TAKE n \in Matrices
      <4>1. io_matrix' = n => n = first /\ Queued(n) /\ ~Queued(n)'
        BY <3>1, <3>2, <3>6
      <4>2. /\ fetching = n => ~Queued(n) /\ ~InRing(n)
            /\ Queued(n) => ~InRing(n)
        BY DEF Exact, ExactInv, Loads
      <4> QED
        BY <1>1, <1>2, <3>4, <4>1, <4>2 DEF clientVars
    <3> QED
      BY <1>1, <3>1, <3>8, <3>9, <3>10 DEF Exact, ExactInv, Loads
  <2> QED
    BY <2>1, <2>2
<1> QED
  BY <1>3, <1>4 DEF ExactInv

\* A request that takes a slot makes every other one older by one; the slot
\* it takes is free.
LEMMA AgeGrows ==
    ASSUME NEW q \in Nat \ {0}, NEW pos \in 0..(q - 1), NEW s \in 0..(q - 1),
           ((pos - 1 - s) % q) + 1 < q
    PROVE  /\ s # pos
           /\ (((pos + 1) % q) - 1 - s) % q = ((pos - 1 - s) % q) + 1
  OBVIOUS

\* The request that has just taken its slot has age zero.
LEMMA AgeOfNew ==
    ASSUME NEW q \in Nat \ {0}, NEW pos \in 0..(q - 1)
    PROVE  (((pos + 1) % q) - 1 - pos) % q = 0
  OBVIOUS

\* The worker prepares a read of the matrix in its hand.
LEMMA EnqueueStep == ASSUME Exact, IoEnqueueRead PROVE ExactInv'
<1> DEFINE new == [slot |-> req_pos, buf |-> data[io_matrix],
                   matrix |-> io_matrix, at |-> "prepared"]
<1>1. /\ io_pc' = "reap" /\ io_matrix' = NoMatrix /\ ring' = ring \cup {new}
      /\ req_data_buf' = [req_data_buf EXCEPT ![req_pos] = io_matrix]
      /\ req_pos' = (req_pos + 1) % QueueDepth
      /\ UNCHANGED <<cacheVars, content, clientVars>>
  BY DEF IoEnqueueRead
<1>2. /\ io_matrix \in Matrices /\ NoMatrix \notin Matrices
      /\ QueueDepth \in Nat \ {0} /\ req_pos \in 0..(QueueDepth - 1)
      /\ WorkingSet \in Nat /\ WorkingSet <= QueueDepth
      /\ req_data_buf \in [Slots -> Matrices \cup {NoMatrix}]
      /\ \A r \in ring : r.slot \in 0..(QueueDepth - 1) /\ r.matrix \in Matrices
  BY Constants, CacheAssumptionHolds
  DEF CacheAssumption, IoEnqueueRead, Exact, TypeInv, InHand, TypeOK, Slots,
      Request
<1>3. /\ new.matrix = io_matrix /\ new.slot = req_pos /\ new.at = "prepared"
      /\ new.buf = data[io_matrix]
  OBVIOUS
<1> HIDE DEF new
<1>4. /\ status[io_matrix] = LOADING /\ ~InRing(io_matrix) /\ ~Queued(io_matrix)
      /\ fetching # io_matrix
  BY <1>2 DEF Exact, ExactInv, Loads
<1>5. \A n : InRing(n)' <=> InRing(n) \/ n = io_matrix
  BY <1>1, <1>3 DEF InRing
<1>6. \A n : Queued(n)' <=> Queued(n)
  BY <1>1 DEF Queued, cacheVars
<1>7. Owners' /\ LayerInv'
  BY <1>1 DEF Exact, ExactInv, Owners, LayerInv, cacheVars, clientVars
<1>8. Loads'
  <2>1. \A r, s \in ring' : r.matrix = s.matrix => r = s
    BY <1>1, <1>3, <1>4 DEF Exact, ExactInv, Loads, InRing
  <2>2. \A n \in Matrices :
          status'[n] = LOADING <=>
            fetching' = n \/ Queued(n)' \/ io_matrix' = n \/ InRing(n)'
    BY <1>1, <1>2, <1>5, <1>6 DEF Exact, ExactInv, Loads, cacheVars, clientVars
  <2>3. \A n \in Matrices :
          /\ fetching' = n => ~Queued(n)' /\ io_matrix' # n /\ ~InRing(n)'
          /\ Queued(n)' => io_matrix' # n /\ ~InRing(n)'
          /\ io_matrix' = n => ~InRing(n)'
    BY <1>1, <1>2, <1>4, <1>5, <1>6
    DEF Exact, ExactInv, Loads, cacheVars, clientVars
  <2> QED
    BY <1>1, <2>1, <2>2, <2>3 DEF Exact, ExactInv, Loads, cacheVars
<1>9. Requests'
  <2>1. io_matrix \in Ahead /\ Ahead' = Ahead \ {io_matrix}
    <3>1. io_matrix \in touched
      BY <1>2, <1>4 DEF Exact, ExactInv, LayerInv
    <3> QED
      BY <1>1, <1>2, <1>4, <1>5, <3>1 DEF Ahead, cacheVars, clientVars
  <2>2. /\ Cardinality(Ahead') = Cardinality(Ahead) - 1
        /\ Cardinality(Ahead') \in Nat /\ Cardinality(Ahead) \in Nat
        /\ Cardinality(wanted) \in Nat
        /\ Cardinality(Ahead) <= Cardinality(wanted)
        /\ Cardinality(wanted) <= WorkingSet
    BY <2>1, Working, FS_RemoveElement, FS_Subset, FS_CardinalityType
  <2>3. ASSUME NEW r \in ring
        PROVE  /\ r.slot # req_pos
               /\ Age(r.slot)' + 1 + Cardinality(Ahead') <= Cardinality(wanted)
    <3>1. Age(r.slot) + 1 + Cardinality(Ahead) <= Cardinality(wanted)
      BY DEF Exact, ExactInv, Requests
    <3>2. Age(r.slot) \in Nat
      BY <1>2 DEF Age
    <3>3. Age(r.slot) + 1 < QueueDepth
      <4> DEFINE a == Age(r.slot)
                 c == Cardinality(Ahead)
                 d == Cardinality(Ahead')
                 w == Cardinality(wanted)
      <4>1. /\ a + 1 + c <= w /\ a \in Nat /\ c \in Nat /\ d \in Nat /\ w \in Nat
            /\ d = c - 1 /\ w <= WorkingSet
        BY <2>2, <3>1, <3>2
      <4> HIDE DEF a, c, d, w
      <4>2. a + 1 < QueueDepth
        BY <1>2, <4>1
      <4> QED
        BY <4>2 DEF a
    <3>4. r.slot # req_pos /\ Age(r.slot)' = Age(r.slot) + 1
      BY <1>1, <1>2, <3>3, AgeGrows DEF Age
    <3>5. (Age(r.slot) + 1) + 1 + Cardinality(Ahead') <= Cardinality(wanted)
      BY <2>2, <3>1, <3>2
    <3> QED
      BY <3>4, <3>5
  <2>4. ASSUME NEW r, r = new
        PROVE  Age(r.slot)' + 1 + Cardinality(Ahead') <= Cardinality(wanted)
    <3>1. Age(r.slot)' = 0
      BY <1>1, <1>2, <1>3, <2>4, AgeOfNew DEF Age
    <3> QED
      BY <2>2, <3>1
  <2>5. ASSUME NEW r \in ring'
        PROVE  /\ data'[r.matrix] = r.buf
               /\ req_data_buf'[r.slot] = r.matrix
               /\ r.at = "completed" => content'[r.buf] = r.matrix
               /\ Age(r.slot)' + 1 + Cardinality(Ahead') <= Cardinality(wanted')
    <3>1. wanted' = wanted /\ data' = data /\ content' = content
      BY <1>1 DEF cacheVars, clientVars
    <3>2. CASE r = new
      <4>1. /\ r.matrix = io_matrix /\ r.slot = req_pos /\ r.at = "prepared"
            /\ r.buf = data[io_matrix]
        BY <1>3, <3>2
      <4>2. req_data_buf'[req_pos] = io_matrix
        BY <1>1, <1>2 DEF Slots
      <4> QED
        BY <2>4, <3>1, <3>2, <4>1, <4>2
    <3>3. CASE r \in ring
      BY <1>1, <1>2, <2>3, <3>1, <3>3 DEF Exact, ExactInv, Requests, Slots
    <3> QED
      BY <1>1, <3>2, <3>3
  <2> QED
    BY <1>1, <2>5 DEF Exact, ExactInv, Requests, cacheVars, clientVars
<1> QED
  BY <1>7, <1>8, <1>9 DEF ExactInv

\* A matrix in the ring is loading, into the buffer that is its own.
LEMMA InRingLoads ==
    ASSUME Exact, NEW r \in ring
    PROVE  /\ r.matrix \in Matrices /\ status[r.matrix] = LOADING
           /\ r.buf \in Buffers /\ data[r.matrix] = r.buf
           /\ r.slot \in Slots /\ req_data_buf[r.slot] = r.matrix
           /\ \A m \in Matrices : data[m] = r.buf => m = r.matrix
  BY DEF Exact, ExactInv, Owners, Loads, Requests, InRing, TypeInv, TypeOK,
     Request, Buffers, NullBuffer

\* The prepared reads go to the kernel.
LEMMA SubmitStep == ASSUME Exact, IoSubmit PROVE ExactInv'
<1>1. /\ io_pc = "submit" /\ io_matrix = NoMatrix
      /\ UNCHANGED <<cacheVars, io_matrix, req_data_buf, req_pos, clientVars>>
  BY DEF IoSubmit, Exact, ExactInv, Loads
<1>2. ASSUME NEW r \in ring
      PROVE  \E s \in ring' : s.matrix = r.matrix
  <2>1. r \in Request
    BY DEF Exact, TypeInv, TypeOK
  <2>2. [r EXCEPT !.at = IF @ = "prepared" THEN "submitted" ELSE @] \in ring'
    BY DEF IoSubmit
  <2>3. [r EXCEPT !.at = IF @ = "prepared" THEN "submitted" ELSE @].matrix = r.matrix
    BY <2>1 DEF Request
  <2> QED
    BY <2>2, <2>3
<1>3. ASSUME NEW s \in ring'
      PROVE  \E r \in ring :
               /\ s = [r EXCEPT !.at = IF @ = "prepared" THEN "submitted" ELSE @]
               /\ s.matrix = r.matrix /\ s.slot = r.slot /\ s.buf = r.buf
               /\ s.at = "completed" => r.at = "completed"
  <2>1. PICK r \in ring :
          s = [r EXCEPT !.at = IF @ = "prepared" THEN "submitted" ELSE @]
    BY DEF IoSubmit
  <2>2. r \in Request
    BY DEF Exact, TypeInv, TypeOK
  <2>3. /\ s.matrix = r.matrix /\ s.slot = r.slot /\ s.buf = r.buf
        /\ s.at = IF r.at = "prepared" THEN "submitted" ELSE r.at
    BY <2>1, <2>2 DEF Request
  <2> QED
    BY <2>1, <2>3
<1>4. \A n : InRing(n)' <=> InRing(n)
  BY <1>2, <1>3 DEF InRing
<1>5. \A n : Queued(n)' <=> Queued(n)
  BY <1>1 DEF Queued, cacheVars
<1>6. Owners' /\ LayerInv'
  BY <1>1 DEF Exact, ExactInv, Owners, LayerInv, cacheVars, clientVars
<1>7. Loads'
  <2>1. \A r, s \in ring' : r.matrix = s.matrix => r = s
    BY <1>3 DEF Exact, ExactInv, Loads
  <2> QED
    BY <1>1, <1>4, <1>5, <2>1 DEF Exact, ExactInv, Loads, cacheVars, clientVars
<1>8. Requests'
  <2>1. Ahead' = Ahead
    BY <1>1, <1>4 DEF Ahead, cacheVars, clientVars
  <2>2. \A b \in Buffers :
          content'[b] = IF \E r \in ring : r.at = "prepared" /\ r.buf = b
                        THEN NoMatrix ELSE content[b]
    BY DEF IoSubmit
  <2>3. ASSUME NEW s \in ring'
        PROVE  /\ data'[s.matrix] = s.buf
               /\ req_data_buf'[s.slot] = s.matrix
               /\ s.at = "completed" => content'[s.buf] = s.matrix
               /\ Age(s.slot)' + 1 + Cardinality(Ahead') <= Cardinality(wanted')
    <3>1. PICK r \in ring :
             /\ s.matrix = r.matrix /\ s.slot = r.slot /\ s.buf = r.buf
             /\ s.at = "completed" => r.at = "completed"
      BY <1>3
    <3>2. /\ data[r.matrix] = r.buf /\ req_data_buf[r.slot] = r.matrix
          /\ r.at = "completed" => content[r.buf] = r.matrix
          /\ Age(r.slot) + 1 + Cardinality(Ahead) <= Cardinality(wanted)
      BY DEF Exact, ExactInv, Requests
    <3>3. r.at = "completed" => content'[r.buf] = content[r.buf]
      <4>1. \A q \in ring : q.buf = r.buf => q = r
        <5> SUFFICES ASSUME NEW q \in ring, q.buf = r.buf PROVE q = r
          OBVIOUS
        <5>1. q.matrix = r.matrix
          BY InRingLoads
        <5> QED
          BY <5>1 DEF Exact, ExactInv, Loads
      <4> QED
        BY <2>2, <4>1, InRingLoads
    <3>4. Age(s.slot)' = Age(r.slot) /\ wanted' = wanted /\ data' = data
      BY <1>1, <3>1 DEF Age, cacheVars, clientVars
    <3> QED
      BY <1>1, <2>1, <3>1, <3>2, <3>3, <3>4
  <2>4. ASSUME client_pc # "destroyed", NEW m \in Matrices, status[m] = PRESENT
        PROVE  content'[data[m]] = m
    <3>1. content[data[m]] = m /\ data[m] \in Buffers
      BY <2>4 DEF Exact, ExactInv, Requests, Owners, TypeInv, TypeOK,
         NOT_PRESENT, PRESENT
    <3>2. \A r \in ring : r.buf # data[m]
      BY <2>4, InRingLoads DEF PRESENT, LOADING
    <3> QED
      BY <2>2, <3>1, <3>2
  <2> QED
    BY <1>1, <2>3, <2>4 DEF Requests, cacheVars, clientVars
<1> QED
  BY <1>6, <1>7, <1>8 DEF ExactInv

\* The worker between its wait and its next look at the queue.
LEMMA WaitStep == ASSUME Exact, IoWait \/ EndReap PROVE ExactInv'
<1>1. /\ io_matrix = NoMatrix
      /\ UNCHANGED <<cacheVars, io_matrix, req_data_buf, req_pos, ring, content,
                     clientVars>>
  BY DEF IoWait, EndReap, Exact, ExactInv, Loads
<1> QED
  BY <1>1 DEF Exact, ExactInv, Owners, Loads, LayerInv, Requests, Queued,
     InRing, Age, Ahead, cacheVars, clientVars

\* A completion: the matrix of the request becomes present.
LEMMA ReapStep == ASSUME Exact, NEW r \in ring, Reap(r) PROVE ExactInv'
<1> DEFINE m == r.matrix
<1>1. /\ m \in Matrices /\ status[m] = LOADING /\ m \in touched
      /\ r.at = "completed" /\ content[data[m]] = m
      /\ status' = [status EXCEPT ![m] = PRESENT] /\ pending' = pending \ {m}
      /\ ring' = ring \ {r}
      /\ UNCHANGED <<data, lru, io_queue, io_pc, io_matrix, req_data_buf,
                     req_pos, content, clientVars>>
  <2>1. m \in Matrices /\ status[m] = LOADING /\ req_data_buf[r.slot] = m
        /\ data[m] = r.buf
    BY InRingLoads
  <2>2. m \in touched
    BY <2>1 DEF Exact, ExactInv, LayerInv
  <2>3. r.at = "completed" /\ content[r.buf] = m
    BY DEF Reap, Exact, ExactInv, Requests
  <2> QED
    BY <2>1, <2>2, <2>3 DEF Reap
<1>2. /\ NOT_PRESENT # LOADING /\ NOT_PRESENT # PRESENT /\ LOADING # PRESENT
      /\ status \in [Matrices -> {NOT_PRESENT, LOADING, PRESENT}]
  BY DEF NOT_PRESENT, LOADING, PRESENT, Exact, TypeInv, TypeOK
<1>3. /\ \A n : InRing(n)' <=> InRing(n) /\ n # m
      /\ \A n : Queued(n)' <=> Queued(n)
  <2>1. \A s \in ring : s.matrix = m => s = r
    BY DEF Exact, ExactInv, Loads
  <2> QED
    BY <1>1, <2>1 DEF InRing, Queued
<1>4. \A n \in Matrices : status'[n] = IF n = m THEN PRESENT ELSE status[n]
  BY <1>1, <1>2
<1>5. Owners'
  BY <1>1, <1>2, <1>4 DEF Exact, ExactInv, Owners, clientVars
<1>6. Loads'
  <2>1. fetching # m /\ ~Queued(m) /\ io_matrix # m
    BY <1>1 DEF Exact, ExactInv, Loads, InRing
  <2>2. \A n \in Matrices :
          status'[n] = LOADING <=>
            fetching' = n \/ Queued(n)' \/ io_matrix' = n \/ InRing(n)'
    BY <1>1, <1>2, <1>3, <1>4, <2>1 DEF Exact, ExactInv, Loads, clientVars
  <2>3. \A n \in Matrices :
          /\ fetching' = n => ~Queued(n)' /\ io_matrix' # n /\ ~InRing(n)'
          /\ Queued(n)' => io_matrix' # n /\ ~InRing(n)'
          /\ io_matrix' = n => ~InRing(n)'
    BY <1>1, <1>3 DEF Exact, ExactInv, Loads, clientVars
  <2> QED
    BY <1>1, <2>2, <2>3 DEF Exact, ExactInv, Loads
<1>7. LayerInv'
  <2>1. \A n \in Matrices : status'[n] = LOADING => status[n] = LOADING /\ n # m
    BY <1>2, <1>4
  <2> QED
    BY <1>1, <2>1 DEF Exact, ExactInv, LayerInv, clientVars
<1>8. Requests'
  <2>1. Ahead' = Ahead
    <3>1. m \notin Ahead
      BY <1>1 DEF Ahead, InRing
    <3>2. wanted' = wanted /\ touched' = touched
      BY <1>1 DEF clientVars
    <3>3. \A n \in Matrices :
            n # m => (status'[n] = LOADING /\ ~InRing(n)'
                        <=> status[n] = LOADING /\ ~InRing(n))
      BY <1>3, <1>4
    <3>4. \A n \in Matrices : status'[n] = LOADING => n # m
      BY <1>2, <1>4
    <3> QED
      BY <1>1, <3>1, <3>2, <3>3, <3>4 DEF Ahead
  <2>2. \A n \in Matrices :
          client_pc' # "destroyed" /\ status'[n] = PRESENT => content'[data'[n]] = n
    BY <1>1, <1>4 DEF Exact, ExactInv, Requests, clientVars
  <2> QED
    BY <1>1, <2>1, <2>2 DEF Exact, ExactInv, Requests, Age, clientVars
<1> QED
  BY <1>5, <1>6, <1>7, <1>8 DEF ExactInv

\* The kernel has read the matrix into its buffer.
LEMMA CompleteStep == ASSUME Exact, NEW r \in ring, Complete(r) PROVE ExactInv'
<1>1. /\ content' = [content EXCEPT ![r.buf] = r.matrix]
      /\ ring' = (ring \ {r}) \cup {[r EXCEPT !.at = "completed"]}
      /\ UNCHANGED <<cacheVars, io_pc, io_matrix, req_data_buf, req_pos,
                     clientVars>>
  BY DEF Complete
<1>2. /\ r \in Request /\ content \in [Buffers -> Matrices \cup {NoMatrix}]
      /\ ring \subseteq Request
  BY DEF Exact, TypeInv, TypeOK
<1>3. PICK q : q = [r EXCEPT !.at = "completed"]
  OBVIOUS
<1>4. q.matrix = r.matrix /\ q.slot = r.slot /\ q.buf = r.buf
  BY <1>2, <1>3 DEF Request
<1>5. ring' = (ring \ {r}) \cup {q}
  BY <1>1, <1>3
<1>6. \A n : InRing(n)' <=> InRing(n)
  BY <1>4, <1>5 DEF InRing
<1>7. \A n : Queued(n)' <=> Queued(n)
  BY <1>1 DEF Queued, cacheVars
<1>8. Owners' /\ LayerInv'
  BY <1>1 DEF Exact, ExactInv, Owners, LayerInv, cacheVars, clientVars
<1>9. Loads'
  <2>1. \A s, u \in ring' : s.matrix = u.matrix => s = u
    BY <1>4, <1>5 DEF Exact, ExactInv, Loads
  <2> QED
    BY <1>1, <1>6, <1>7, <2>1 DEF Exact, ExactInv, Loads, cacheVars, clientVars
<1>10. Requests'
  <2>1. Ahead' = Ahead
    BY <1>1, <1>6 DEF Ahead, cacheVars, clientVars
  <2>2. \A n \in Matrices : n # r.matrix => data[n] # r.buf
    BY InRingLoads
  <2>3. content'[r.buf] = r.matrix /\ \A b : b # r.buf => content'[b] = content[b]
    BY <1>1, <1>2, InRingLoads
  <2>4. ASSUME NEW s \in ring'
        PROVE  /\ data'[s.matrix] = s.buf
               /\ req_data_buf'[s.slot] = s.matrix
               /\ s.at = "completed" => content'[s.buf] = s.matrix
               /\ Age(s.slot)' + 1 + Cardinality(Ahead') <= Cardinality(wanted')
    <3>1. /\ data' = data /\ req_data_buf' = req_data_buf /\ wanted' = wanted
          /\ \A x : Age(x)' = Age(x)
      BY <1>1 DEF Age, cacheVars, clientVars
    <3>2. CASE s = q
      BY <1>4, <2>1, <2>3, <3>1, <3>2 DEF Exact, ExactInv, Requests
    <3>3. CASE s \in ring \ {r}
      <4>1. s.matrix # r.matrix
        BY <3>3 DEF Exact, ExactInv, Loads
      <4>2. s.buf # r.buf
        BY <2>2, <3>3, <4>1, InRingLoads
      <4> QED
        BY <2>1, <2>3, <3>1, <3>3, <4>2 DEF Exact, ExactInv, Requests
    <3> QED
      BY <1>5, <3>2, <3>3
  <2>5. ASSUME client_pc # "destroyed", NEW n \in Matrices, status[n] = PRESENT
        PROVE  content'[data[n]] = n
    <3>1. n # r.matrix
      BY <2>5, InRingLoads DEF PRESENT, LOADING
    <3> QED
      BY <2>2, <2>3, <2>5, <3>1 DEF Exact, ExactInv, Requests
  <2> QED
    BY <1>1, <2>4, <2>5 DEF Requests, cacheVars, clientVars
<1> QED
  BY <1>8, <1>9, <1>10 DEF ExactInv

\* The empty cache is consistent.
LEMMA InitExact == ASSUME Speculative = FALSE, Init PROVE Exact
<1>1. /\ Len(lru) = 0 /\ Members(lru) = {} /\ Len(io_queue) = 0
  BY DEF Init, Members
<1>2. Cardinality({}) = 0 /\ 0 <= WorkingSet
  BY FS_EmptySet, Constants
<1>3. Owners
  BY <1>1 DEF Init, Owners, Distinct, NullBuffer
<1>4. Loads
  BY <1>1, Constants DEF Init, Loads, Queued, InRing, NOT_PRESENT, LOADING
<1>5. LayerInv
  BY <1>1, <1>2 DEF Init, LayerInv, Leads, NOT_PRESENT, LOADING
<1>6. Requests
  BY DEF Init, Requests, NOT_PRESENT, PRESENT
<1> QED
  BY <1>3, <1>4, <1>5, <1>6, InitType DEF Exact, ExactInv

\* prefetch fetches a matrix: one its layer wants.
LEMMA PrefetchAbsentStep ==
    ASSUME Exact, NEW m \in Matrices, PrefetchAbsent(m) PROVE ExactInv'
<1>1. /\ AsyncFetch(m) /\ m \in targets /\ targets \subseteq wanted
      /\ fetching = NoMatrix /\ client_pc = "prefetch"
      /\ targets' = targets \ {m} /\ UNCHANGED <<client_pc, wanted, todo>>
  BY DEF PrefetchAbsent, Prefetching, Exact, ExactInv, LayerInv
<1> QED
  BY <1>1, FetchStep

\* build_tasks fetches a matrix of the layer.
LEMMA BuildAbsentStep ==
    ASSUME Exact, NEW m \in Matrices, BuildAbsent(m) PROVE ExactInv'
<1>1. /\ AsyncFetch(m) /\ m \in todo /\ todo \subseteq wanted
      /\ fetching = NoMatrix /\ client_pc = "build" /\ todo' = todo \ {m}
      /\ UNCHANGED <<client_pc, wanted, targets>>
  BY DEF BuildAbsent, Exact, ExactInv, LayerInv
<1> QED
  BY <1>1, FetchStep

\* ExactInv is inductive, together with the types.
LEMMA NextExact == Exact /\ [Next]_vars => Exact'
<1> SUFFICES ASSUME Exact, [Next]_vars PROVE ExactInv'
  BY NextType DEF Exact
<1>1. CASE Worker
  BY <1>1, IoPopStep, EnqueueStep, SubmitStep, WaitStep, ReapStep DEF Worker
<1>2. CASE Kernel
  BY <1>2, CompleteStep DEF Kernel
<1>3. CASE ClientStep
  BY <1>3, PushStep, PrefetchAbsentStep, BuildAbsentStep, BuildCachedStep,
     ClientStayStep, EndForwardStep DEF ClientStep
<1>4. CASE Destroy
  BY <1>4, DestroyPushStep, DestroyFreeStep DEF Destroy
<1>5. ASSUME NEW w \in SUBSET Matrices, NEW p \in SUBSET Matrices,
             StartLayer(w, p)
      PROVE  ExactInv'
  BY <1>5, StartLayerStep
<1>6. CASE UNCHANGED vars
  BY <1>6 DEF Exact, ExactInv, Owners, Loads, LayerInv, Requests, Queued,
     InRing, Age, Ahead, vars, cacheVars, workerVars, clientVars
<1> QED
  BY <1>1, <1>2, <1>3, <1>4, <1>5, <1>6 DEF Next, Finished

\* The invariant of exact prefetches: owners, loads, the working set of the
\* layer and the requests in the io_uring stay consistent in every state.
THEOREM ExactCache == ASSUME Speculative = FALSE PROVE Spec => []ExactInv
<1>1. Init => Exact
  BY InitExact
<1>2. Exact => ExactInv
  BY DEF Exact
<1> QED
  BY <1>1, <1>2, NextExact, PTL DEF Spec

\* The owners of ExactInv make up BufferOwnership.
LEMMA ExactOwnership == Exact => BufferOwnership
<1> SUFFICES ASSUME Exact PROVE BufferOwnership
  OBVIOUS
<1>1. lru \in Seq(Matrices) /\ Distinct(lru)
  BY DEF Exact, ExactInv, Owners, TypeInv, TypeOK
<1>2. Cardinality(Members(lru)) = Len(lru)
  BY <1>1, DistinctCount
<1>3. Members(lru) \subseteq Matrices
  BY <1>1, ElementOfSeq DEF Members
<1> QED
  BY <1>2, <1>3 DEF BufferOwnership, Exact, ExactInv, Owners

\* No buffer is leaked, shared or lost by the LRU list.
THEOREM OwnershipHolds ==
    ASSUME Speculative = FALSE PROVE Spec => []BufferOwnership
<1>1. Init => Exact
  BY InitExact
<1> QED
  BY <1>1, NextExact, ExactOwnership, PTL DEF Spec

\* What ExactInv says of released matrices and of requests under way.
LEMMA ExactReleased ==
    Exact => /\ ReleasedIsLoaded /\ ReadTargetsOwner /\ SlotNamesRequest
             /\ QueuedHasBuffer
<1> SUFFICES ASSUME Exact
             PROVE  /\ ReleasedIsLoaded /\ ReadTargetsOwner /\ SlotNamesRequest
                    /\ QueuedHasBuffer
  OBVIOUS
<1>1. ReleasedIsLoaded
  <2> SUFFICES ASSUME NEW m \in wanted \ (todo \cup pending \cup {fetching}),
                      client_pc \in {"build", "lookahead", "forward"}
               PROVE  /\ status[m] = PRESENT /\ data[m] # NullBuffer
                      /\ content[data[m]] = m
    BY DEF ReleasedIsLoaded
  <2>1. m \in Matrices /\ m \in touched /\ m \in Members(lru)
    BY DEF Exact, ExactInv, LayerInv, TypeInv, TypeOK
  <2>2. data[m] # NullBuffer /\ status[m] # NOT_PRESENT /\ status[m] # LOADING
    BY <2>1 DEF Exact, ExactInv, LayerInv, Owners
  <2>3. status[m] = PRESENT
    BY <2>1, <2>2 DEF Exact, TypeInv, TypeOK
  <2> QED
    BY <2>1, <2>2, <2>3 DEF Exact, ExactInv, Requests
<1>2. SlotNamesRequest
  BY InRingLoads DEF SlotNamesRequest
<1>3. ReadTargetsOwner
  <2>1. client_pc # "destroyed" => \A r \in ring : data[r.matrix] = r.buf
    BY InRingLoads
  <2>2. client_pc = "destroyed" => \A r \in ring : r.at # "submitted"
    BY IdleLoadsNothing, NothingLoading
  <2> QED BY <2>1, <2>2 DEF ReadTargetsOwner
<1>4. QueuedHasBuffer
  BY DEF QueuedHasBuffer, HasBuffer, Exact, ExactInv, Loads, Owners, LayerInv,
     TypeInv, InHand
<1> QED
  BY <1>1, <1>2, <1>3, <1>4

\* A demanded matrix whose tasks may run has its own bytes in its own buffer
\* until the layer ends.
THEOREM ReleasedHolds ==
    ASSUME Speculative = FALSE PROVE Spec => []ReleasedIsLoaded
<1>1. Init => Exact
  BY InitExact
<1> QED
  BY <1>1, NextExact, ExactReleased, PTL DEF Spec

\* Every read goes to the buffer its matrix owns, and none to a freed one.
THEOREM ReadsHold ==
    ASSUME Speculative = FALSE PROVE Spec => []ReadTargetsOwner
<1>1. Init => Exact
  BY InitExact
<1> QED
  BY <1>1, NextExact, ExactReleased, PTL DEF Spec

\* Each completion is credited to the matrix that was read.
THEOREM SlotsHold ==
    ASSUME Speculative = FALSE PROVE Spec => []SlotNamesRequest
<1>1. Init => Exact
  BY InitExact
<1> QED
  BY <1>1, NextExact, ExactReleased, PTL DEF Spec

\* The worker's assertion on the buffer of the matrix it takes cannot fail.
THEOREM QueuedHolds ==
    ASSUME Speculative = FALSE PROVE Spec => []QueuedHasBuffer
<1>1. Init => Exact
  BY InitExact
<1> QED
  BY <1>1, NextExact, ExactReleased, PTL DEF Spec

\* The requests in the ring are of distinct matrices of the layer, and the
\* one in the worker's hand is not among them.
LEMMA ExactRoom == Exact => RingHasRoom
<1> SUFFICES ASSUME Exact, io_pc = "enqueue"
             PROVE  Cardinality(ring) < QueueDepth
  BY DEF RingHasRoom, HasRoom, n_inflight
<1>1. io_matrix \in wanted /\ ~InRing(io_matrix)
  BY DEF Exact, ExactInv, Loads, LayerInv, TypeInv, InHand
<1>2. \A r \in ring : r.matrix \in wanted \ {io_matrix}
  BY <1>1, InRingLoads DEF InRing, Exact, ExactInv, LayerInv
<1> DEFINE rest == wanted \ {io_matrix}
           f == [r \in ring |-> r.matrix]
<1>3. f \in Injection(ring, rest)
  <2>1. f \in [ring -> rest]
    BY <1>2
  <2>2. \A r, s \in ring : f[r] = f[s] => r = s
    BY DEF Exact, ExactInv, Loads
  <2> HIDE DEF f, rest
  <2> QED
    BY <2>1, <2>2, Fun_IsInj
<1>4. IsFiniteSet(rest) /\ Cardinality(rest) = Cardinality(wanted) - 1
  BY <1>1, Working, FS_RemoveElement
<1> HIDE DEF f, rest
<1>5. IsFiniteSet(ring) /\ Cardinality(ring) <= Cardinality(rest)
  BY <1>3, <1>4, FS_Injection
<1>6. /\ Cardinality(ring) \in Nat /\ Cardinality(wanted) \in Nat
      /\ Cardinality(wanted) <= WorkingSet /\ WorkingSet <= QueueDepth
      /\ WorkingSet \in Nat /\ QueueDepth \in Nat
  BY <1>5, Working, FS_CardinalityType, CacheAssumptionHolds DEF CacheAssumption
<1> QED
  BY <1>4, <1>5, <1>6

\* The io_uring never holds more requests than it has slots.
THEOREM RoomHolds == ASSUME Speculative = FALSE PROVE Spec => []RingHasRoom
<1>1. Init => Exact
  BY InitExact
<1> QED
  BY <1>1, NextExact, ExactRoom, PTL DEF Spec
\* With exact prefetches each of the four stations holds at most one load of m.
LEMMA ExactTracked == Exact => LoadTracked
<1> SUFFICES ASSUME Exact, NEW m \in Matrices
             PROVE  LoadsUnderWay(m) = IF status[m] = LOADING THEN 1 ELSE 0
  BY DEF LoadTracked
<1> DEFINE F == {x \in {1} : fetching = m}
           Q == {i \in 1..Len(io_queue) : io_queue[i] = m}
           W == {x \in {1} : io_matrix = m}
           R == {r \in ring : r.matrix = m}
<1>1. \A S : Cardinality({}) = 0 /\ Cardinality({S}) = 1
  BY FS_EmptySet, FS_Singleton
<1>2. /\ fetching = m => F = {1}
      /\ fetching # m => F = {}
      /\ io_matrix = m => W = {1}
      /\ io_matrix # m => W = {}
  OBVIOUS
<1>3. /\ Queued(m) => \E i : Q = {i}
      /\ ~Queued(m) => Q = {}
  <2>1. \A i, j \in Q : i = j
    BY DEF Exact, ExactInv, Loads
  <2>2. ASSUME NEW i \in Q PROVE Q = {i}
    BY <2>1
  <2>3. Queued(m) => Q # {}
    BY DEF Queued
  <2>4. ~Queued(m) => Q = {}
    BY DEF Queued
  <2> HIDE DEF Q
  <2> QED
    BY <2>2, <2>3, <2>4
<1>4. /\ InRing(m) => \E r : R = {r}
      /\ ~InRing(m) => R = {}
  <2>1. \A r, s \in R : r = s
    BY DEF Exact, ExactInv, Loads
  <2>2. ASSUME NEW r \in R PROVE R = {r}
    BY <2>1
  <2>3. InRing(m) => R # {}
    BY DEF InRing
  <2>4. ~InRing(m) => R = {}
    BY DEF InRing
  <2> HIDE DEF R
  <2> QED
    BY <2>2, <2>3, <2>4
<1>5. LoadsUnderWay(m)
        = Cardinality(F) + Cardinality(Q) + Cardinality(W) + Cardinality(R)
  BY DEF LoadsUnderWay
<1> HIDE DEF F, Q, W, R
<1>6. /\ Cardinality(F) = IF fetching = m THEN 1 ELSE 0
      /\ Cardinality(Q) = IF Queued(m) THEN 1 ELSE 0
      /\ Cardinality(W) = IF io_matrix = m THEN 1 ELSE 0
      /\ Cardinality(R) = IF InRing(m) THEN 1 ELSE 0
  BY <1>1, <1>2, <1>3, <1>4
<1>7. /\ status[m] = LOADING <=>
             fetching = m \/ Queued(m) \/ io_matrix = m \/ InRing(m)
      /\ fetching = m => ~Queued(m) /\ io_matrix # m /\ ~InRing(m)
      /\ Queued(m) => io_matrix # m /\ ~InRing(m)
      /\ io_matrix = m => ~InRing(m)
  BY DEF Exact, ExactInv, Loads
<1> QED
  BY <1>5, <1>6, <1>7

\* A matrix is loading exactly while one load of it is under way.
THEOREM TrackedHolds == ASSUME Speculative = FALSE PROVE Spec => []LoadTracked
<1>1. Init => Exact
  BY InitExact
<1> QED
  BY <1>1, NextExact, ExactTracked, PTL DEF Spec

\* A fetch takes the buffer of an idle matrix only.
LEMMA FetchEvicts ==
    ASSUME Exact, NEW m \in wanted, AsyncFetch(m), client_pc # "destroyed",
           NEW n \in Matrices, data[n] # NullBuffer, data'[n] = NullBuffer
    PROVE  status[n] = PRESENT /\ n \notin touched
<1>1. PICK v, b : Allocated(m, v, b)
  BY AllocateEffect DEF AsyncFetch
<1>2. b # NullBuffer
  BY <1>1 DEF Allocated, Buffers, NullBuffer
<1> QED
  BY <1>1, <1>2 DEF Allocated

\* Only a fetch and the destructor take a buffer from a matrix.
LEMMA StepEvicts ==
    ASSUME Exact, Next,
           NEW n \in Matrices, data[n] # NullBuffer, data'[n] = NullBuffer
    PROVE  status[n] = PRESENT /\ n \notin touched
<1>1. ASSUME data' = data PROVE FALSE
  BY <1>1
<1>2. CASE Worker
  BY <1>1, <1>2
  DEF Worker, IoPop, IoEnqueueRead, IoSubmit, IoWait, EndReap, Reap, cacheVars
<1>3. CASE Kernel
  BY <1>1, <1>3 DEF Kernel, Complete, cacheVars
<1>4. CASE ClientStep
  <2>1. CASE Push \/ EndPrefetch \/ EndForward
    BY <1>1, <2>1 DEF Push, EndPrefetch, EndForward, cacheVars
  <2>2. ASSUME NEW m \in Matrices, PrefetchCached(m) \/ BuildCached(m)
        PROVE  FALSE
    BY <1>1, <2>2 DEF PrefetchCached, BuildCached, cacheVars
  <2>3. ASSUME NEW m \in Matrices, PrefetchAbsent(m)
        PROVE  status[n] = PRESENT /\ n \notin touched
    <3>1. AsyncFetch(m) /\ m \in wanted /\ client_pc # "destroyed"
      BY <2>3 DEF PrefetchAbsent, Prefetching, Exact, ExactInv, LayerInv
    <3> QED
      BY <3>1, FetchEvicts
  <2>4. ASSUME NEW m \in Matrices, BuildAbsent(m)
        PROVE  status[n] = PRESENT /\ n \notin touched
    <3>1. AsyncFetch(m) /\ m \in wanted /\ client_pc # "destroyed"
      BY <2>4 DEF BuildAbsent, Exact, ExactInv, LayerInv
    <3> QED
      BY <3>1, FetchEvicts
  <2>5. ASSUME NEW p \in SUBSET Matrices, EndBuild(p) PROVE FALSE
    BY <1>1, <2>5 DEF EndBuild, cacheVars
  <2> QED
    BY <1>4, <2>1, <2>2, <2>3, <2>4, <2>5 DEF ClientStep
<1>5. CASE DestroyPush
  BY <1>1, <1>5 DEF DestroyPush
<1>6. CASE DestroyFree
  <2>1. client_pc = "join"
    BY <1>6 DEF DestroyFree
  <2> QED
    BY <2>1 DEF Exact, ExactInv, LayerInv, Owners, TypeInv, TypeOK
<1>7. ASSUME NEW w \in SUBSET Matrices, NEW p \in SUBSET Matrices,
             StartLayer(w, p)
      PROVE  FALSE
  BY <1>1, <1>7 DEF StartLayer, cacheVars
<1>8. CASE Finished
  BY <1>1, <1>8 DEF Finished, vars, cacheVars
<1> QED
  BY <1>2, <1>3, <1>4, <1>5, <1>6, <1>7, <1>8 DEF Next, Destroy

\* No step takes its buffer from a matrix that is loading or that the layer
\* under way has used.
THEOREM EvictionHolds == ASSUME Speculative = FALSE PROVE Spec => EvictOnlyIdle
<1>1. Init => Exact
  BY InitExact
<1>2. Exact /\ [Next]_vars => [EvictsIdle]_vars
  BY StepEvicts DEF EvictsIdle
<1> QED
  BY <1>1, <1>2, NextExact, PTL DEF Spec, EvictOnlyIdle
=============================================================================
