--------------------------- MODULE LmHeadProofs ---------------------------
(***************************************************************************)
(* The LM head, for any number of threads up to the parties of the         *)
(* barrier, any number of parts and any sequence of graphs.  The inductive *)
(* invariant has two halves.  Meeting: the arrivals that the std::barrier  *)
(* still expects are those of the threads that have not begun their next   *)
(* wait, where thread 0 stands in for the parties that do not exist.       *)
(* Sharing: every part whose number a counter has passed is written or is  *)
(* being computed.  The first brings all threads to the end of a stage,    *)
(* the second says that there is then nothing left to write in it.         *)
(***************************************************************************)
EXTENDS LmHead, FiniteSetTheorems, TLAPS

\* The threads that have begun wait d + 1 of the graph.
Arrived(d) == {t \in Active : waits[t] = d + 1}

\* What the barrier expects once the threads A have arrived.
Missing(A) == IF 0 \in A THEN nth - Cardinality(A) ELSE Parties - Cardinality(A)

\* d waits are over for everyone; the next one has begun for Arrived(d).
Meeting(d) ==
    /\ \A t \in Active : waits[t] = d \/ waits[t] = d + 1
    /\ \A t \in Active : waits[t] = d + 1 => t \in inside /\ token[t] = phase
    /\ \A t \in Active : t \in inside /\ waits[t] = d => token[t] # phase
    /\ expected = Missing(Arrived(d))

\* Where a thread is in the node, in terms of its waits.
Place ==
    /\ \A t \in Threads : t \in inside <=> pc[t] = "wait"
    /\ \A t \in Threads : pc[t] # "idle" => t \in Active
    /\ \A t \in Active :
         /\ pc[t] \in {"idle", "quantize"} => stage[t] = 0 /\ waits[t] = 0
         /\ pc[t] = "wait" => stage[t] < 3 /\ waits[t] = stage[t] + 1
         /\ pc[t] \in {"draw", "compute"} => stage[t] > 0 /\ waits[t] = stage[t]
         /\ pc[t] = "end" => stage[t] = 3 /\ waits[t] = 3
    /\ computing => \A t \in Active : pc[t] # "idle"
    /\ ~computing => \/ \A t \in Active : pc[t] = "idle"
                     \/ \A t \in Active : pc[t] = "end"

\* Has the thread found that stage s has nothing left to draw?
Passed(t, s) == waits[t] > s \/ pc[t] = "end"

Sharing ==
    /\ \A s \in 0..3 : done[s] \subseteq Parts[s]
    /\ \A t \in Active : waits[t] >= 1 => {g \in Parts[0] : g % nth = t} \subseteq done[0]
    /\ \A t \in Active : pc[t] = "compute" => taken[t] < Draws[stage[t]]
    /\ pc[0] # "quantize" =>
         \A s \in 1..3 : \A k \in Nat : k < counter[s] /\ k < Draws[s] =>
            \/ Drawn(s, k) \subseteq done[s]
            \/ \E t \in Active : pc[t] = "compute" /\ stage[t] = s /\ taken[t] = k
    /\ \A t \in Active, s \in 1..3 : Passed(t, s) => counter[s] >= Draws[s]

IInv ==
    /\ TypeOK
    /\ Place
    /\ \E d \in Nat : Meeting(d)
    /\ Sharing

-----------------------------------------------------------------------------
(* Arithmetic of the chunks.                                               *)

LEMMA DivisionFacts ==
    ASSUME NEW a \in Nat, NEW b \in Nat \ {0}
    PROVE  /\ a \div b \in Nat
           /\ b * (a \div b) <= a
           /\ a < b * (a \div b) + b
  OBVIOUS

LEMMA CeilFacts ==
    ASSUME NEW a \in Nat \ {0}, NEW b \in Nat \ {0}
    PROVE  Ceil(a, b) \in Nat \ {0} /\ a <= b * Ceil(a, b)
<1>1. a + b - 1 \in Nat
  OBVIOUS
<1>2. /\ (a + b - 1) \div b \in Nat
      /\ a + b - 1 < b * ((a + b - 1) \div b) + b
  BY <1>1, DivisionFacts
<1>3. (a + b - 1) \div b # 0
  BY <1>2
<1> QED
  BY <1>2, <1>3 DEF Ceil

LEMMA ProductGrows ==
    ASSUME NEW b \in Nat, NEW m \in Nat, NEW n \in Nat, m <= n
    PROVE  b * m <= b * n
  OBVIOUS

LEMMA ChunkFacts ==
    /\ nr0 \in Nat \ {0} /\ nchunk0 \in Nat \ {0} /\ dr0 \in Nat \ {0}
    /\ nr0 <= nchunk0 * dr0
<1>1. nr0 \in Nat \ {0}
  BY LmHeadAssumptionHolds DEF LmHeadAssumption, nr0
<1>2. nchunk0 \in Nat \ {0}
  BY <1>1, CeilFacts, LmHeadAssumptionHolds DEF LmHeadAssumption, nchunk0
<1>3. dr0 \in Nat \ {0} /\ nr0 <= nchunk0 * dr0
  BY <1>1, <1>2, CeilFacts DEF dr0
<1> QED
  BY <1>1, <1>2, <1>3

\* Every row is in a chunk that is drawn.
LEMMA RowsCovered ==
    ASSUME NEW r \in Nat, r < nr0
    PROVE  \E k \in Nat : k < nchunk0 /\ dr0 * k <= r /\ r < dr0 * k + dr0
<1> DEFINE k == r \div dr0
<1>1. k \in Nat /\ dr0 * k <= r /\ r < dr0 * k + dr0
  BY ChunkFacts, DivisionFacts
<1>2. k < nchunk0
  <2> HIDE DEF k
  <2> SUFFICES ASSUME nchunk0 <= k PROVE FALSE
    BY <1>1, ChunkFacts
  <2>1. dr0 * nchunk0 <= dr0 * k
    BY ProductGrows, ChunkFacts, <1>1
  <2>2. dr0 * nchunk0 = nchunk0 * dr0
    BY ChunkFacts
  <2>3. dr0 * nchunk0 \in Nat /\ dr0 * k \in Nat
    BY ChunkFacts, <1>1
  <2> QED
    BY <2>1, <2>2, <2>3, <1>1, ChunkFacts
<1> QED
  BY <1>1, <1>2

\* The parts and the draws of the stages.
LEMMA PartsFacts ==
    /\ Parts[0] = 0..(NGroups - 1) /\ Parts[1] = 0..(NBlocks - 1)
    /\ Parts[2] = 0..(NWords - 1) /\ Parts[3] = 0..(nr0 - 1)
    /\ Draws[1] = NBlocks /\ Draws[2] = NWords /\ Draws[3] = nchunk0
    /\ \A s \in 0..3 : Parts[s] \subseteq Nat
    /\ \A s \in 1..3 : Draws[s] \in Nat
  BY ChunkFacts, LmHeadAssumptionHolds DEF Parts, Draws, LmHeadAssumption

\* Every part is drawn, and nothing else is.
LEMMA PartsDrawn ==
    ASSUME NEW s \in 1..3
    PROVE  /\ \A p \in Parts[s] : \E k \in Nat : k < Draws[s] /\ p \in Drawn(s, k)
           /\ \A k \in Nat : k < Draws[s] => Drawn(s, k) \subseteq Parts[s]
<1>1. CASE s = 1 \/ s = 2
  BY <1>1, PartsFacts, LmHeadAssumptionHolds DEF Drawn, LmHeadAssumption
<1>2. CASE s = 3
  <2>1. ASSUME NEW p \in Parts[3]
        PROVE  \E k \in Nat : k < Draws[3] /\ p \in Drawn(3, k)
    <3>1. p \in Nat /\ p < nr0
      BY PartsFacts, ChunkFacts
    <3>2. PICK k \in Nat : k < nchunk0 /\ dr0 * k <= p /\ p < dr0 * k + dr0
      BY <3>1, RowsCovered
    <3> QED
      BY <3>2, PartsFacts DEF Drawn
  <2>2. \A k \in Nat : Drawn(3, k) \subseteq Parts[3]
    BY DEF Drawn
  <2> QED
    BY <1>2, <2>1, <2>2
<1> QED
  BY <1>1, <1>2

-----------------------------------------------------------------------------
(* The barrier.                                                            *)

\* The threads of a graph and those that have arrived are finite sets.
LEMMA ArrivedFacts ==
    ASSUME TypeOK, NEW d \in Nat
    PROVE  /\ nth \in Nat \ {0} /\ nth <= Parties /\ Parties \in Nat
           /\ 0 \in Active /\ Active \subseteq Threads
           /\ IsFiniteSet(Active) /\ Cardinality(Active) = nth
           /\ Arrived(d) \subseteq Active /\ IsFiniteSet(Arrived(d))
           /\ Cardinality(Arrived(d)) \in Nat /\ Cardinality(Arrived(d)) <= nth
<1>1. /\ nth \in Nat \ {0} /\ nth <= Parties /\ Parties \in Nat
      /\ 0 \in Active /\ Active \subseteq Threads
  BY HostAssumptionHolds DEF TypeOK, HostAssumption, Active, Threads
<1>2. IsFiniteSet(Active) /\ Cardinality(Active) = nth
  BY <1>1, FS_Interval DEF Active
<1>3. Arrived(d) \in SUBSET Active
  BY DEF Arrived
<1>4. IsFiniteSet(Arrived(d)) /\ Cardinality(Arrived(d)) <= nth
  BY <1>2, <1>3, FS_Subset
<1> QED
  BY <1>1, <1>2, <1>3, <1>4, FS_CardinalityType

\* A thread arrives for at least one party and at most as many as are
\* expected, and it completes the phase exactly when it is the last.
LEMMA ArrivalFits ==
    ASSUME TypeOK, NEW d \in Nat, Meeting(d), NEW t \in Active, t \notin Arrived(d)
    PROVE  /\ barrier_count(t) \in 1..expected
           /\ barrier_count(t) = expected => Arrived(d) \cup {t} = Active
           /\ barrier_count(t) # expected =>
                expected - barrier_count(t) = Missing(Arrived(d) \cup {t})
<1> DEFINE A == Arrived(d)
           B == A \cup {t}
<1>1. /\ nth \in Nat \ {0} /\ nth <= Parties /\ Parties \in Nat /\ 0 \in Active
      /\ IsFiniteSet(Active) /\ Cardinality(Active) = nth
      /\ A \subseteq Active /\ IsFiniteSet(A) /\ Cardinality(A) \in Nat
  BY ArrivedFacts
<1>2. expected = Missing(A)
  BY DEF Meeting
<1>3. IsFiniteSet(B) /\ Cardinality(B) = Cardinality(A) + 1 /\ B \in SUBSET Active
  BY <1>1, FS_AddElement
<1>4. Cardinality(B) <= nth /\ (Cardinality(B) = nth => B = Active)
  BY <1>1, <1>3, FS_Subset
<1>5. 0 \notin B => Cardinality(B) + 1 <= nth
  <2> SUFFICES ASSUME 0 \notin B PROVE Cardinality(B) + 1 <= nth
    OBVIOUS
  <2>1. IsFiniteSet(B \cup {0}) /\ Cardinality(B \cup {0}) = Cardinality(B) + 1
    BY <1>3, FS_AddElement
  <2>2. B \cup {0} \in SUBSET Active
    BY <1>1, <1>3
  <2> QED
    BY <1>1, <2>1, <2>2, FS_Subset
<1> HIDE DEF A
<1>6. CASE t = 0
  <2>1. 0 \notin A /\ 0 \in B
    BY <1>6 DEF A
  <2>2. barrier_count(t) = Parties - nth + 1 /\ expected = Parties - Cardinality(A)
    BY <1>2, <1>6, <2>1 DEF barrier_count, Missing
  <2>3. Missing(B) = nth - Cardinality(B)
    BY <2>1 DEF Missing
  <2> QED
    BY <1>1, <1>3, <1>4, <2>2, <2>3 DEF A
<1>7. CASE t # 0
  <2>1. barrier_count(t) = 1 /\ (0 \in A <=> 0 \in B)
    BY <1>7 DEF barrier_count
  <2>2. CASE 0 \in A
    <3>1. expected = nth - Cardinality(A) /\ Missing(B) = nth - Cardinality(B)
      BY <1>2, <2>1, <2>2 DEF Missing
    <3> QED
      BY <1>1, <1>3, <1>4, <2>1, <3>1 DEF A
  <2>3. CASE 0 \notin A
    <3>1. expected = Parties - Cardinality(A) /\ Missing(B) = Parties - Cardinality(B)
      BY <1>2, <2>1, <2>3 DEF Missing
    <3> QED
      BY <1>1, <1>3, <1>5, <2>1, <2>3, <3>1 DEF A
  <2> QED
    BY <2>2, <2>3
<1> QED
  BY <1>6, <1>7

\* Arriving keeps the meeting, in this phase or the next.
LEMMA ArriveStep ==
    ASSUME TypeOK, NEW d \in Nat, Meeting(d), NEW t \in Active, Arrive(t)
    PROVE  /\ \E e \in Nat : Meeting(e)'
           /\ expected' \in 1..Parties /\ phase' \in 0..(Phases - 1)
<1>1. t \in Threads /\ waits[t] = d /\ t \notin Arrived(d)
  BY ArrivedFacts DEF Meeting, Arrive, Arrived
<1>2. /\ barrier_count(t) \in 1..expected
      /\ barrier_count(t) = expected => Arrived(d) \cup {t} = Active
      /\ barrier_count(t) # expected =>
           expected - barrier_count(t) = Missing(Arrived(d) \cup {t})
  BY <1>1, ArrivalFits
<1>3. /\ nth' = nth /\ Active' = Active
      /\ waits' = [waits EXCEPT ![t] = d + 1]
      /\ token' = [token EXCEPT ![t] = phase]
      /\ inside' = inside \cup {t}
  BY <1>1 DEF Arrive, Active
<1>4. /\ waits \in [Threads -> Nat] /\ token \in [Threads -> 0..(Phases - 1)]
      /\ Active \subseteq Threads /\ expected \in 1..Parties
      /\ phase \in 0..(Phases - 1) /\ Parties \in Nat
      /\ Phases \in Nat /\ Phases >= 2
  BY ArrivedFacts, HostAssumptionHolds DEF TypeOK, HostAssumption
<1>5. CASE barrier_count(t) = expected
  <2>1. expected' = Parties /\ phase' = (phase + 1) % Phases
    BY <1>5 DEF Arrive
  <2>2. phase' \in 0..(Phases - 1) /\ phase' # phase
    BY <1>4, <2>1
  <2>3. \A u \in Active : waits'[u] = d + 1 /\ token'[u] = phase
    BY <1>2, <1>3, <1>4, <1>5 DEF Arrived, Meeting
  <2>4. Arrived(d + 1)' = {}
    BY <1>3, <2>3 DEF Arrived
  <2>5. Cardinality(Arrived(d + 1)') = 0 /\ 0 \notin Arrived(d + 1)'
    BY <2>4, FS_EmptySet
  <2>6. expected' = Missing(Arrived(d + 1))'
    BY <1>4, <2>1, <2>5 DEF Missing
  <2>7. Meeting(d + 1)'
    BY <1>3, <2>2, <2>3, <2>6 DEF Meeting
  <2> QED
    BY <1>4, <2>1, <2>2, <2>7
<1>6. CASE barrier_count(t) # expected
  <2>1. expected' = expected - barrier_count(t) /\ phase' = phase
    BY <1>6 DEF Arrive
  <2>2. Arrived(d)' = Arrived(d) \cup {t}
    BY <1>3, <1>4 DEF Arrived
  <2>3. expected' = Missing(Arrived(d))'
    BY <1>2, <1>3, <1>6, <2>1, <2>2 DEF Missing
  <2>4. \A u \in Active' : waits'[u] = d \/ waits'[u] = d + 1
    BY <1>3, <1>4 DEF Meeting
  <2>5. \A u \in Active' : waits'[u] = d + 1 => u \in inside' /\ token'[u] = phase'
    BY <1>3, <1>4, <2>1 DEF Meeting
  <2>6. \A u \in Active' : u \in inside' /\ waits'[u] = d => token'[u] # phase'
    BY <1>3, <1>4, <2>1 DEF Meeting
  <2>7. Meeting(d)'
    BY <2>3, <2>4, <2>5, <2>6 DEF Meeting
  <2> QED
    BY <1>2, <1>4, <1>6, <2>1, <2>7
<1> QED
  BY <1>5, <1>6

\* Returning keeps the meeting, and happens only when the wait is over.
LEMMA ReturnStep ==
    ASSUME TypeOK, NEW d \in Nat, Meeting(d), NEW t \in Active, Return(t)
    PROVE  Meeting(d)' /\ waits[t] = d /\ \A u \in Active : waits[u] >= d
<1>1. waits[t] = d
  BY DEF Meeting, Return
<1>2. \A u \in Active : waits[u] >= d
  BY DEF Meeting
<1>3. Arrived(d)' = Arrived(d) /\ expected' = Missing(Arrived(d))'
  BY DEF Return, Meeting, Arrived, Missing, Active
<1>4. Meeting(d)'
  BY <1>1, <1>3 DEF Meeting, Return, Active
<1> QED
  BY <1>1, <1>2, <1>4

\* What does not touch the barrier keeps the meeting.
LEMMA MeetingStutters ==
    ASSUME NEW d, Meeting(d), UNCHANGED barrierVars
    PROVE  Meeting(d)'
  BY DEF Meeting, Arrived, Missing, Active, barrierVars

-----------------------------------------------------------------------------
(* What the stages have written.                                           *)

\* Once every thread has begun its first wait the input is quantised.
LEMMA InputDone ==
    ASSUME TypeOK, Sharing, \A t \in Active : waits[t] >= 1
    PROVE  done[0] = Parts[0]
<1>1. nth \in Nat \ {0}
  BY HostAssumptionHolds DEF TypeOK, HostAssumption
<1>2. ASSUME NEW g \in Parts[0] PROVE g \in done[0]
  <2>1. g \in Nat
    BY PartsFacts
  <2>2. g % nth \in Active
    BY <1>1, <2>1 DEF Active
  <2>3. {h \in Parts[0] : h % nth = g % nth} \subseteq done[0]
    BY <2>2 DEF Sharing
  <2> QED
    BY <2>3
<1>3. done[0] \subseteq Parts[0]
  BY DEF Sharing
<1> QED
  BY <1>2, <1>3

\* Once every thread has passed a stage all its parts are written.
LEMMA StageDone ==
    ASSUME TypeOK, Place, Sharing, NEW s \in 1..3, \A t \in Active : Passed(t, s)
    PROVE  done[s] = Parts[s]
<1>1. 0 \in Active /\ Active \subseteq Threads
  BY HostAssumptionHolds DEF TypeOK, HostAssumption, Active, Threads
<1>2. pc[0] # "quantize"
  BY <1>1 DEF Passed, Place, TypeOK
<1>3. \A t \in Active : ~(pc[t] = "compute" /\ stage[t] = s)
  BY <1>1 DEF Passed, Place, TypeOK
<1>4. counter[s] >= Draws[s]
  BY <1>1 DEF Sharing
<1>5. ASSUME NEW p \in Parts[s] PROVE p \in done[s]
  <2>1. PICK k \in Nat : k < Draws[s] /\ p \in Drawn(s, k)
    BY PartsDrawn
  <2>2. k < counter[s]
    BY <1>4, <2>1, PartsFacts DEF TypeOK
  <2>3. Drawn(s, k) \subseteq done[s]
    BY <1>2, <1>3, <2>1, <2>2 DEF Sharing
  <2> QED
    BY <2>1, <2>3
<1>6. done[s] \subseteq Parts[s]
  BY DEF Sharing
<1> QED
  BY <1>5, <1>6

\* Before thread 0 has quantised nobody has passed the first wait.
LEMMA NobodyAhead ==
    ASSUME TypeOK, Place, NEW d \in Nat, Meeting(d), pc[0] = "quantize"
    PROVE  \A t \in Active : /\ pc[t] \notin {"draw", "compute", "end"}
                             /\ waits[t] <= 1
                             /\ \A s \in 1..3 : ~Passed(t, s)
<1>1. 0 \in Active /\ Active \subseteq Threads
  BY HostAssumptionHolds DEF TypeOK, HostAssumption, Active, Threads
<1>2. d = 0
  BY <1>1 DEF Place, Meeting
<1>3. ASSUME NEW t \in Active
      PROVE  /\ pc[t] \notin {"draw", "compute", "end"}
             /\ waits[t] <= 1
             /\ \A s \in 1..3 : ~Passed(t, s)
  <2>0. (waits[t] = d \/ waits[t] = d + 1) /\ (waits[t] = d + 1 => t \in inside)
    BY DEF Meeting
  <2>1. waits[t] = 0 \/ (waits[t] = 1 /\ t \in inside)
    BY <1>2, <2>0
  <2>2. t \in Threads /\ stage[t] \in 0..3
    BY <1>1 DEF TypeOK
  <2>3. pc[t] \notin {"draw", "compute", "end"}
    BY <2>1, <2>2 DEF Place
  <2> QED
    BY <2>1, <2>3 DEF Passed
<1> QED
  BY <1>3

-----------------------------------------------------------------------------
(* The steps.                                                              *)

LEMMA InitIInv == Init => IInv
<1> SUFFICES ASSUME Init PROVE IInv
  OBVIOUS
<1>1. /\ nth \in 1..MaxThreads /\ MaxThreads \in Nat \ {0} /\ Parties \in Nat
      /\ Phases \in Nat /\ Phases >= 2 /\ MaxThreads <= Parties
  BY HostAssumptionHolds DEF HostAssumption, Init, NewBarrier
<1>2. Active \subseteq Threads
  BY <1>1 DEF Active, Threads
<1>3. TypeOK
  <2>1. /\ computing \in BOOLEAN
        /\ pc \in [Threads -> {"idle", "quantize", "wait", "draw", "compute", "end"}]
    BY DEF Init
  <2>5. /\ stage \in [Threads -> 0..3] /\ counter \in [1..3 -> Nat]
        /\ taken \in [Threads -> Nat]
    BY DEF Init
  <2>2. done \in [0..3 -> SUBSET Nat]
    BY DEF Init
  <2>3. expected \in 1..Parties /\ phase \in 0..(Phases - 1)
    BY <1>1 DEF Init, NewBarrier
  <2>4. /\ token \in [Threads -> 0..(Phases - 1)] /\ waits \in [Threads -> Nat]
        /\ inside \in SUBSET Threads
    BY <1>1 DEF Init, NewBarrier
  <2> QED
    BY <1>1, <2>1, <2>2, <2>3, <2>4, <2>5 DEF TypeOK
<1>4. Place
  BY <1>2 DEF Init, NewBarrier, Place
<1>5. Meeting(0)
  <2>1. Arrived(0) = {}
    BY <1>2 DEF Arrived, Init, NewBarrier
  <2>2. Cardinality(Arrived(0)) = 0 /\ 0 \notin Arrived(0)
    BY <2>1, FS_EmptySet
  <2>3. expected = Missing(Arrived(0))
    BY <1>1, <2>2 DEF Missing, Init, NewBarrier
  <2> QED
    BY <1>2, <2>3 DEF Meeting, Init, NewBarrier
<1>6. Sharing
  <2>1. \A t \in Active : waits[t] = 0 /\ pc[t] = "idle"
    BY <1>2 DEF Init, NewBarrier
  <2>2. \A s \in 0..3 : done[s] = {}
    BY DEF Init
  <2>3. \A s \in 1..3 : counter[s] = 0
    BY DEF Init
  <2> QED
    BY <2>1, <2>2, <2>3 DEF Sharing, Passed
<1> QED
  BY <1>3, <1>4, <1>5, <1>6 DEF IInv

\* A new graph starts when the barrier is at rest: it expects all its parties.
LEMMA StartNodeStep ==
    ASSUME IInv, NEW n \in 1..MaxThreads, StartNode(n)
    PROVE  IInv'
<1>1. PICK d \in Nat : Meeting(d)
  BY DEF IInv
<1>2. /\ MaxThreads \in Nat \ {0} /\ Parties \in Nat /\ Phases \in Nat
      /\ n \in Nat \ {0} /\ TypeOK /\ Place
  BY HostAssumptionHolds DEF HostAssumption, IInv
<1>3. /\ Active \subseteq Threads /\ 0 \in Active
      /\ Active' = 0..(n - 1) /\ Active' \subseteq Threads /\ 0 \in Active'
  BY <1>2 DEF Active, Threads, StartNode, NewGraph, TypeOK
<1>4. inside = {}
  BY <1>2, <1>3 DEF Place, StartNode, TypeOK
<1>5. expected = Parties
  <2>1. Arrived(d) = {}
    BY <1>1, <1>4 DEF Arrived, Meeting
  <2>2. Cardinality(Arrived(d)) = 0 /\ 0 \notin Arrived(d)
    BY <2>1, FS_EmptySet
  <2> QED
    BY <1>1, <1>2, <2>2 DEF Meeting, Missing
<1>6. TypeOK'
  BY <1>2 DEF TypeOK, StartNode, NewGraph
<1>7. Place'
  BY <1>2, <1>3, <1>4 DEF Place, StartNode, NewGraph, Threads
<1>8. Meeting(0)'
  <2>1. \A t \in Active' : waits'[t] = 0
    BY <1>3 DEF StartNode, NewGraph
  <2>2. Arrived(0)' = {}
    BY <2>1 DEF Arrived
  <2>3. Cardinality(Arrived(0)') = 0 /\ 0 \notin Arrived(0)'
    BY <2>2, FS_EmptySet
  <2>4. expected' = Missing(Arrived(0))'
    BY <1>2, <1>5, <2>3 DEF Missing, StartNode, NewGraph
  <2> QED
    BY <1>4, <2>1, <2>4 DEF Meeting, StartNode, NewGraph
<1>9. Sharing'
  <2>1. \A t \in Active' : waits'[t] = 0 /\ pc'[t] = "quantize"
    BY <1>2, <1>3 DEF StartNode, NewGraph
  <2>2. \A s \in 0..3 : done'[s] = {}
    BY DEF StartNode
  <2> QED
    BY <1>3, <2>1, <2>2 DEF Sharing, Passed
<1> QED
  BY <1>6, <1>7, <1>8, <1>9 DEF IInv

LEMMA EndNodeStep ==
    ASSUME IInv, EndNode
    PROVE  IInv'
<1>1. PICK d \in Nat : Meeting(d)
  BY DEF IInv
<1>2. Meeting(d)'
  BY <1>1, MeetingStutters DEF EndNode
<1>3. TypeOK' /\ Sharing'
  BY DEF IInv, TypeOK, Sharing, Passed, Active, EndNode, barrierVars
<1>4. Place'
  BY DEF IInv, Place, Active, EndNode, barrierVars
<1> QED
  BY <1>2, <1>3, <1>4 DEF IInv

\* A thread that takes a step is one of the graph's.
LEMMA Stepping ==
    ASSUME IInv, NEW t \in Threads, pc[t] # "idle"
    PROVE  /\ TypeOK /\ Place /\ Sharing /\ t \in Active /\ 0 \in Active
           /\ Active \subseteq Threads /\ nth \in Nat \ {0}
           /\ Parties \in Nat /\ Phases \in Nat \ {0}
<1>1. /\ MaxThreads \in Nat \ {0} /\ Parties \in Nat
      /\ Phases \in Nat \ {0} /\ nth \in 1..MaxThreads
  BY HostAssumptionHolds DEF IInv, TypeOK, HostAssumption
<1>2. 0 \in Active /\ Active \subseteq Threads /\ nth \in Nat \ {0}
  BY <1>1 DEF Active, Threads
<1>3. t \in Active
  BY DEF IInv, Place
<1> QED
  BY <1>1, <1>2, <1>3 DEF IInv

LEMMA QuantizeStep ==
    ASSUME IInv, NEW t \in Threads, Quantize(t)
    PROVE  IInv'
<1>1. pc[t] = "quantize" /\ pc[t] # "idle"
  BY DEF Quantize
<1>2. /\ TypeOK /\ Place /\ Sharing /\ t \in Active /\ 0 \in Active
      /\ Active \subseteq Threads /\ nth \in Nat \ {0}
      /\ Parties \in Nat /\ Phases \in Nat \ {0}
  BY <1>1, Stepping
<1>3. PICK d \in Nat : Meeting(d)
  BY DEF IInv
<1>4. /\ \E e \in Nat : Meeting(e)'
      /\ expected' \in 1..Parties /\ phase' \in 0..(Phases - 1)
  BY <1>2, <1>3, ArriveStep DEF Quantize
<1>5. /\ Active' = Active /\ nth' = nth /\ computing' = computing /\ stage' = stage
      /\ waits' = [waits EXCEPT ![t] = @ + 1] /\ inside' = inside \cup {t}
      /\ token' = [token EXCEPT ![t] = phase]
      /\ pc' = [pc EXCEPT ![t] = "wait"] /\ taken' = taken
      /\ done' = [done EXCEPT ![0] = @ \cup {g \in Parts[0] : g % nth = t}]
      /\ counter' = IF t = 0 THEN [s \in 1..3 |-> 0] ELSE counter
  BY DEF Quantize, Arrive, Active
<1>6. done' \in [0..3 -> SUBSET Nat] /\ counter' \in [1..3 -> Nat]
  <2>1. {g \in Parts[0] : g % nth = t} \in SUBSET Nat
    BY PartsFacts
  <2>2. done \in [0..3 -> SUBSET Nat] /\ counter \in [1..3 -> Nat]
    BY <1>2 DEF TypeOK
  <2>3. done' \in [0..3 -> SUBSET Nat]
    BY <1>5, <2>1, <2>2
  <2>4. counter' \in [1..3 -> Nat]
    BY <1>5, <2>2
  <2> QED
    BY <2>3, <2>4
<1>7. TypeOK'
  BY <1>2, <1>4, <1>5, <1>6 DEF TypeOK
<1>8. Place'
  BY <1>1, <1>2, <1>5 DEF Place, TypeOK
<1>9. Sharing'
  <2>1. waits[t] = 0 /\ waits'[t] = 1 /\ stage[t] = 0
    BY <1>1, <1>2, <1>5 DEF Place, TypeOK
  <2>2. \A s \in 0..3 : done'[s] \subseteq Parts[s] /\ done[s] \subseteq done'[s]
    BY <1>2, <1>5 DEF Sharing, TypeOK
  <2>3. \A u \in Active' : waits'[u] >= 1 => {g \in Parts[0] : g % nth' = u} \subseteq done'[0]
    <3> TAKE u \in Active'
    <3>1. CASE u = t
      BY <1>2, <1>5, <3>1 DEF TypeOK
    <3>2. CASE u # t
      <4>1. waits'[u] = waits[u]
        BY <1>2, <1>5, <3>2 DEF TypeOK
      <4>2. waits[u] >= 1 => {g \in Parts[0] : g % nth = u} \subseteq done[0]
        BY <1>2, <1>5 DEF Sharing
      <4> QED
        BY <1>5, <2>2, <4>1, <4>2
    <3> QED
      BY <3>1, <3>2
  <2>4. \A u \in Active' : pc'[u] = "compute" => taken'[u] < Draws[stage'[u]]
    BY <1>2, <1>5 DEF Sharing, TypeOK
  <2>5. CASE t = 0
    <3>1. \A s \in 1..3 : counter'[s] = 0
      BY <1>5, <2>5
    <3>2. \A u \in Active : \A s \in 1..3 : ~Passed(u, s)
      BY <1>1, <1>2, <1>3, <2>5, NobodyAhead
    <3>3. \A u \in Active', s \in 1..3 : ~Passed(u, s)'
      BY <1>2, <1>5, <2>1, <3>2 DEF Passed, TypeOK
    <3>4. \A s \in 1..3 : \A k \in Nat : ~(k < counter'[s])
      BY <3>1
    <3> QED
      BY <2>2, <2>3, <2>4, <3>3, <3>4 DEF Sharing
  <2>6. CASE t # 0
    <3>1. counter' = counter /\ pc'[0] = pc[0]
      BY <1>2, <1>5, <2>6 DEF TypeOK
    <3>2. \A u \in Active', s \in 1..3 : Passed(u, s)' => Passed(u, s)
      BY <1>2, <1>5, <2>1 DEF Passed, TypeOK
    <3>3. \A u \in Active', s \in 1..3 : Passed(u, s)' => counter'[s] >= Draws[s]
      BY <1>2, <1>5, <3>1, <3>2 DEF Sharing
    <3>4. \A u \in Active : pc[u] = "compute" => pc'[u] = "compute"
      BY <1>1, <1>2, <1>5 DEF TypeOK
    <3>5. ASSUME pc'[0] # "quantize", NEW s \in 1..3, NEW k \in Nat,
                 k < counter'[s], k < Draws[s]
          PROVE  \/ Drawn(s, k) \subseteq done'[s]
                 \/ \E u \in Active' : pc'[u] = "compute" /\ stage'[u] = s /\ taken'[u] = k
      <4>1. \/ Drawn(s, k) \subseteq done[s]
            \/ \E u \in Active : pc[u] = "compute" /\ stage[u] = s /\ taken[u] = k
        BY <1>2, <3>1, <3>5 DEF Sharing
      <4> QED
        BY <1>5, <2>2, <3>4, <4>1
    <3> QED
      BY <2>2, <2>3, <2>4, <3>3, <3>5 DEF Sharing
  <2> QED
    BY <2>5, <2>6
<1> QED
  BY <1>4, <1>7, <1>8, <1>9 DEF IInv

LEMMA NextStageStep ==
    ASSUME IInv, NEW t \in Threads, NextStage(t)
    PROVE  IInv'
<1>1. pc[t] = "wait" /\ pc[t] # "idle"
  BY DEF NextStage
<1>2. /\ TypeOK /\ Place /\ Sharing /\ t \in Active /\ 0 \in Active
      /\ Active \subseteq Threads
  BY <1>1, Stepping
<1>3. PICK d \in Nat : Meeting(d)
  BY DEF IInv
<1>4. Meeting(d)'
  BY <1>2, <1>3, ReturnStep DEF NextStage
<1>5. /\ Active' = Active /\ nth' = nth /\ computing' = computing
      /\ stage' = [stage EXCEPT ![t] = @ + 1]
      /\ waits' = waits /\ inside' = inside \ {t} /\ token' = token
      /\ expected' = expected /\ phase' = phase
      /\ pc' = [pc EXCEPT ![t] = "draw"] /\ taken' = taken
      /\ done' = done /\ counter' = counter
  BY DEF NextStage, Return, Active
<1>6. stage[t] \in 0..2 /\ waits[t] = stage[t] + 1
  BY <1>1, <1>2 DEF Place, TypeOK
<1>7. TypeOK'
  BY <1>2, <1>5, <1>6 DEF TypeOK
<1>8. Place'
  BY <1>1, <1>2, <1>5, <1>6 DEF Place, TypeOK
<1>9. Sharing'
  <2>1. \A u \in Threads : pc'[u] = "compute" => u # t /\ pc[u] = "compute"
    BY <1>2, <1>5 DEF TypeOK
  <2>2. \A u \in Threads : pc[u] = "compute" => u # t /\ pc'[u] = "compute"
    BY <1>1, <1>2, <1>5 DEF TypeOK
  <2>3. \A u \in Threads : u # t => stage'[u] = stage[u]
    BY <1>2, <1>5 DEF TypeOK
  <2>4. pc'[0] # "quantize" => pc[0] # "quantize"
    BY <1>1, <1>2, <1>5 DEF TypeOK
  <2>5. \A u \in Active, s \in 1..3 : Passed(u, s)' => Passed(u, s)
    BY <1>2, <1>5 DEF Passed, TypeOK
  <2> QED
    BY <1>2, <1>5, <2>1, <2>2, <2>3, <2>4, <2>5 DEF Sharing
<1> QED
  BY <1>4, <1>7, <1>8, <1>9 DEF IInv

\* A draw hands out the next number or finds that the stage is over.
LEMMA DrawStep ==
    ASSUME IInv, NEW t \in Threads, Draw(t)
    PROVE  IInv'
<1> DEFINE s == stage[t]
<1>1. pc[t] = "draw" /\ pc[t] # "idle"
  BY DEF Draw
<1>2. /\ TypeOK /\ Place /\ Sharing /\ t \in Active /\ 0 \in Active
      /\ Active \subseteq Threads
  BY <1>1, Stepping
<1>3. PICK d \in Nat : Meeting(d)
  BY DEF IInv
<1>4. s \in 1..3 /\ waits[t] = s /\ t \notin inside
  BY <1>1, <1>2 DEF Place, TypeOK
<1>5. /\ computing' = computing /\ stage' = stage /\ done' = done /\ nth' = nth
      /\ Active' = Active /\ counter' = [counter EXCEPT ![s] = @ + 1]
  BY DEF Draw, Arrive, Active, barrierVars
<1>6. pc[0] # "quantize"
  BY <1>1, <1>2, <1>3, NobodyAhead
<1>7. /\ \A r \in 1..3 : counter'[r] \in Nat /\ counter[r] <= counter'[r]
      /\ counter'[s] = counter[s] + 1 /\ counter[s] \in Nat /\ Draws[s] \in Nat
      /\ \A r \in 1..3 : r # s => counter'[r] = counter[r]
      /\ counter' \in [1..3 -> Nat]
  <2>1. counter \in [1..3 -> Nat]
    BY <1>2 DEF TypeOK
  <2> HIDE DEF s
  <2> QED
    BY <1>4, <1>5, <2>1, PartsFacts
<1>8. CASE counter[s] < Draws[s]
  <2>1. /\ taken' = [taken EXCEPT ![t] = counter[s]]
        /\ pc' = [pc EXCEPT ![t] = "compute"] /\ UNCHANGED barrierVars
    BY <1>7, <1>8 DEF Draw
  <2>2. TypeOK'
    BY <1>2, <1>5, <1>7, <2>1 DEF TypeOK, barrierVars
  <2>3. Place'
    BY <1>1, <1>2, <1>4, <1>5, <2>1 DEF Place, TypeOK, barrierVars
  <2>4. Meeting(d)'
    BY <1>3, <2>1, MeetingStutters
  <2>5. Sharing'
    <3>1. \A u \in Active, r \in 1..3 : Passed(u, r)' => Passed(u, r)
      BY <1>2, <2>1 DEF Passed, TypeOK, barrierVars
    <3>2. \A u \in Active', r \in 1..3 : Passed(u, r)' => counter'[r] >= Draws[r]
      <4> TAKE u \in Active', r \in 1..3
      <4>1. Passed(u, r) => counter[r] >= Draws[r]
        BY <1>2, <1>5 DEF Sharing
      <4>2. counter[r] \in Nat /\ counter'[r] \in Nat /\ Draws[r] \in Nat
        BY <1>2, <1>7, PartsFacts DEF TypeOK
      <4> QED
        BY <1>5, <1>7, <3>1, <4>1, <4>2
    <3>3. ASSUME NEW r \in 1..3, NEW k \in Nat, k < counter'[r], k < Draws[r]
          PROVE  \/ Drawn(r, k) \subseteq done'[r]
                 \/ \E u \in Active' : pc'[u] = "compute" /\ stage'[u] = r /\ taken'[u] = k
      <4>1. CASE k < counter[r]
        <5>1. \/ Drawn(r, k) \subseteq done[r]
              \/ \E u \in Active : pc[u] = "compute" /\ stage[u] = r /\ taken[u] = k
          BY <1>2, <1>6, <3>3, <4>1 DEF Sharing
        <5>2. \A u \in Active : pc[u] = "compute" =>
                pc'[u] = "compute" /\ stage'[u] = stage[u] /\ taken'[u] = taken[u]
          BY <1>1, <1>2, <1>5, <2>1 DEF TypeOK
        <5> QED
          BY <1>5, <5>1, <5>2
      <4>2. CASE ~(k < counter[r])
        <5>1. r = s /\ k = counter[s]
          BY <1>2, <1>7, <3>3, <4>2 DEF TypeOK
        <5>2. pc'[t] = "compute" /\ stage'[t] = s /\ taken'[t] = counter[s]
          BY <1>2, <1>5, <2>1 DEF TypeOK
        <5> QED
          BY <1>2, <1>5, <5>1, <5>2
      <4> QED
        BY <4>1, <4>2
    <3>4. \A u \in Active' : pc'[u] = "compute" => taken'[u] < Draws[stage'[u]]
      BY <1>2, <1>5, <1>8, <2>1 DEF Sharing, TypeOK
    <3>5. /\ \A r \in 0..3 : done'[r] \subseteq Parts[r]
          /\ \A u \in Active' : waits'[u] >= 1 => {g \in Parts[0] : g % nth' = u} \subseteq done'[0]
      BY <1>2, <1>5, <2>1 DEF Sharing, barrierVars
    <3> QED
      BY <3>2, <3>3, <3>4, <3>5 DEF Sharing
  <2> QED
    BY <2>2, <2>3, <2>4, <2>5 DEF IInv
<1>9. CASE counter[s] >= Draws[s]
  <2>1. \/ s < 3 /\ pc' = [pc EXCEPT ![t] = "wait"] /\ Arrive(t) /\ taken' = taken
        \/ s = 3 /\ pc' = [pc EXCEPT ![t] = "end"] /\ taken' = taken /\ UNCHANGED barrierVars
    BY <1>7, <1>9 DEF Draw
  <2>2. \/ /\ s < 3 /\ pc' = [pc EXCEPT ![t] = "wait"]
           /\ waits' = [waits EXCEPT ![t] = @ + 1] /\ inside' = inside \cup {t}
           /\ token' = [token EXCEPT ![t] = phase]
        \/ /\ s = 3 /\ pc' = [pc EXCEPT ![t] = "end"]
           /\ waits' = waits /\ inside' = inside /\ token' = token
    BY <2>1 DEF Arrive, barrierVars
  <2>3. /\ \E e \in Nat : Meeting(e)'
        /\ expected' \in 1..Parties /\ phase' \in 0..(Phases - 1)
    <3>1. CASE Arrive(t)
      BY <1>2, <1>3, <3>1, ArriveStep
    <3>2. CASE UNCHANGED barrierVars
      BY <1>2, <1>3, <3>2, MeetingStutters DEF TypeOK, barrierVars
    <3> QED
      BY <2>1, <3>1, <3>2
  <2>4. taken' = taken
    BY <2>1
  <2>5. TypeOK'
    BY <1>2, <1>5, <1>7, <2>2, <2>3, <2>4 DEF TypeOK
  <2>6. Place'
    BY <1>1, <1>2, <1>4, <1>5, <2>2 DEF Place, TypeOK
  <2>7. Sharing'
    <3>1. \A u \in Active, r \in 1..3 : Passed(u, r)' => Passed(u, r) \/ r = s
      BY <1>2, <1>4, <2>2 DEF Passed, TypeOK
    <3>2. \A u \in Active', r \in 1..3 : Passed(u, r)' => counter'[r] >= Draws[r]
      <4> TAKE u \in Active', r \in 1..3
      <4>1. Passed(u, r) => counter[r] >= Draws[r]
        BY <1>2, <1>5 DEF Sharing
      <4>2. counter[r] \in Nat /\ counter'[r] \in Nat /\ Draws[r] \in Nat
        BY <1>2, <1>7, PartsFacts DEF TypeOK
      <4> QED
        BY <1>5, <1>7, <1>9, <3>1, <4>1, <4>2
    <3>3. \A u \in Active : pc'[u] = "compute" <=> pc[u] = "compute"
      BY <1>1, <1>2, <2>2 DEF TypeOK
    <3>4. ASSUME NEW r \in 1..3, NEW k \in Nat, k < counter'[r], k < Draws[r]
          PROVE  \/ Drawn(r, k) \subseteq done'[r]
                 \/ \E u \in Active' : pc'[u] = "compute" /\ stage'[u] = r /\ taken'[u] = k
      <4>0. counter[r] \in Nat /\ Draws[r] \in Nat
        BY <1>2, PartsFacts DEF TypeOK
      <4>1. k < counter[r]
        <5>1. CASE r = s
          BY <1>7, <1>9, <3>4, <4>0, <5>1
        <5>2. CASE r # s
          BY <1>7, <3>4, <5>2
        <5> QED
          BY <5>1, <5>2
      <4>2. \/ Drawn(r, k) \subseteq done[r]
            \/ \E u \in Active : pc[u] = "compute" /\ stage[u] = r /\ taken[u] = k
        BY <1>2, <1>6, <3>4, <4>1 DEF Sharing
      <4> QED
        BY <1>5, <2>4, <3>3, <4>2
    <3>5. \A u \in Active' : pc'[u] = "compute" => taken'[u] < Draws[stage'[u]]
      BY <1>2, <1>5, <2>4, <3>3 DEF Sharing
    <3>6. ASSUME NEW u \in Active', waits'[u] >= 1
          PROVE  {g \in Parts[0] : g % nth' = u} \subseteq done'[0]
      <4>1. waits[u] >= 1
        BY <1>2, <1>4, <1>5, <2>2, <3>6 DEF TypeOK
      <4> QED
        BY <1>2, <1>5, <4>1 DEF Sharing
    <3>7. \A r \in 0..3 : done'[r] \subseteq Parts[r]
      BY <1>2, <1>5 DEF Sharing
    <3> QED
      BY <3>2, <3>4, <3>5, <3>6, <3>7 DEF Sharing
  <2> QED
    BY <2>3, <2>5, <2>6, <2>7 DEF IInv
<1> QED
  BY <1>7, <1>8, <1>9

LEMMA ComputeStep ==
    ASSUME IInv, NEW t \in Threads, Compute(t)
    PROVE  IInv'
<1> DEFINE s == stage[t]
           k0 == taken[t]
<1>1. pc[t] = "compute" /\ pc[t] # "idle"
  BY DEF Compute
<1>2. /\ TypeOK /\ Place /\ Sharing /\ t \in Active /\ 0 \in Active
      /\ Active \subseteq Threads
  BY <1>1, Stepping
<1>3. PICK d \in Nat : Meeting(d)
  BY DEF IInv
<1>4. s \in 1..3 /\ k0 \in Nat /\ k0 < Draws[s]
  BY <1>1, <1>2 DEF Place, Sharing, TypeOK
<1>5. /\ UNCHANGED <<computing, stage, counter, taken, barrierVars>>
      /\ Active' = Active /\ nth' = nth /\ waits' = waits
      /\ pc' = [pc EXCEPT ![t] = "draw"]
      /\ done' = [done EXCEPT ![s] = @ \cup Drawn(s, k0)]
  BY DEF Compute, Active, barrierVars
<1>6. Drawn(s, k0) \subseteq Parts[s] /\ Parts[s] \subseteq Nat
  BY <1>4, PartsDrawn, PartsFacts
<1>7. done' \in [0..3 -> SUBSET Nat]
  <2>1. done \in [0..3 -> SUBSET Nat]
    BY <1>2 DEF TypeOK
  <2> HIDE DEF s, k0
  <2> QED
    BY <1>4, <1>5, <1>6, <2>1
<1>8. TypeOK'
  BY <1>2, <1>5, <1>7 DEF TypeOK, barrierVars
<1>9. Place'
  BY <1>1, <1>2, <1>5 DEF Place, TypeOK, barrierVars
<1>10. Meeting(d)'
  BY <1>3, <1>5, MeetingStutters
<1>11. Sharing'
  <2>1. /\ \A r \in 0..3 : done[r] \subseteq done'[r]
        /\ Drawn(s, k0) \subseteq done'[s]
        /\ \A r \in 0..3 : done'[r] \subseteq Parts[r]
    <3>1. done \in [0..3 -> SUBSET Nat] /\ \A r \in 0..3 : done[r] \subseteq Parts[r]
      BY <1>2 DEF TypeOK, Sharing
    <3> HIDE DEF s, k0
    <3> QED
      BY <1>4, <1>5, <1>6, <3>1
  <2>2. \A u \in Active', r \in 1..3 : Passed(u, r)' => counter'[r] >= Draws[r]
    <3>1. \A u \in Active, r \in 1..3 : Passed(u, r)' => Passed(u, r)
      BY <1>2, <1>5 DEF Passed, TypeOK
    <3> QED
      BY <1>2, <1>5, <3>1 DEF Sharing
  <2>3. \A u \in Active' : pc'[u] = "compute" => taken'[u] < Draws[stage'[u]]
    <3>1. \A u \in Active : pc'[u] = "compute" => pc[u] = "compute"
      BY <1>2, <1>5 DEF TypeOK
    <3> QED
      BY <1>2, <1>5, <3>1 DEF Sharing
  <2>4. \A u \in Active' : waits'[u] >= 1 =>
          {g \in Parts[0] : g % nth' = u} \subseteq done'[0]
    BY <1>2, <1>5, <2>1 DEF Sharing
  <2>5. ASSUME pc'[0] # "quantize", NEW r \in 1..3, NEW k \in Nat,
               k < counter'[r], k < Draws[r]
        PROVE  \/ Drawn(r, k) \subseteq done'[r]
               \/ \E u \in Active' : pc'[u] = "compute" /\ stage'[u] = r /\ taken'[u] = k
    <3>1. pc[0] # "quantize"
      BY <1>1, <1>2, <1>5, <2>5 DEF TypeOK
    <3>2. \/ Drawn(r, k) \subseteq done[r]
          \/ \E u \in Active : pc[u] = "compute" /\ stage[u] = r /\ taken[u] = k
      BY <1>2, <1>5, <2>5, <3>1 DEF Sharing
    <3>3. CASE Drawn(r, k) \subseteq done[r]
      BY <2>1, <3>3
    <3>4. CASE r = s /\ k = k0
      BY <2>1, <3>4
    <3>5. ASSUME NEW u \in Active, pc[u] = "compute", stage[u] = r, taken[u] = k,
                 ~(r = s /\ k = k0)
          PROVE  pc'[u] = "compute" /\ stage'[u] = r /\ taken'[u] = k
      BY <1>2, <1>5, <3>5 DEF TypeOK
    <3> QED
      BY <1>5, <3>2, <3>3, <3>4, <3>5
  <2> QED
    BY <2>1, <2>2, <2>3, <2>4, <2>5 DEF Sharing
<1> QED
  BY <1>8, <1>9, <1>10, <1>11 DEF IInv

LEMMA StutterStep == IInv /\ UNCHANGED vars => IInv'
<1> SUFFICES ASSUME IInv, UNCHANGED vars PROVE IInv'
  OBVIOUS
<1>1. UNCHANGED headVars /\ UNCHANGED barrierVars
  BY DEF vars
<1>2. PICK d \in Nat : Meeting(d)
  BY DEF IInv
<1>3. Meeting(d)'
  BY <1>1, <1>2, MeetingStutters
<1>4. TypeOK' /\ Place'
  BY <1>1 DEF IInv, TypeOK, Place, Active, headVars, barrierVars
<1>5. Sharing'
  BY <1>1 DEF IInv, Sharing, Passed, Active, headVars, barrierVars
<1> QED
  BY <1>3, <1>4, <1>5 DEF IInv

LEMMA NextIInv == IInv /\ [Next]_vars => IInv'
<1> SUFFICES ASSUME IInv, [Next]_vars PROVE IInv'
  OBVIOUS
<1>1. ASSUME NEW t \in Threads, Thread(t) PROVE IInv'
  BY <1>1, QuantizeStep, NextStageStep, DrawStep, ComputeStep DEF Thread
<1> QED
  BY <1>1, StartNodeStep, EndNodeStep, StutterStep DEF Next

LEMMA Invariance == Spec => []IInv
<1> QED
  BY InitIInv, NextIInv, PTL DEF Spec

-----------------------------------------------------------------------------
(* What the invariant says of the LM head.                                 *)

\* The variables keep their types; in particular the barrier always expects
\* between one and all of its parties.
THEOREM TypeCorrect == Spec => []TypeOK
<1>1. IInv => TypeOK
  BY DEF IInv
<1> QED
  BY <1>1, Invariance, PTL

\* A thread that computes has all it reads in place: the threads are at most
\* one wait apart, so all of them have passed the stages before its own.
LEMMA ReadsComplete ==
    ASSUME IInv, NEW t \in Threads, pc[t] = "compute", NEW r \in 0..(stage[t] - 1)
    PROVE  done[r] = Parts[r]
<1>1. pc[t] # "idle"
  OBVIOUS
<1>2. /\ TypeOK /\ Place /\ Sharing /\ t \in Active /\ Active \subseteq Threads
  BY <1>1, Stepping
<1>3. PICK d \in Nat : Meeting(d)
  BY DEF IInv
<1>4. stage[t] \in 1..3 /\ waits[t] = stage[t] /\ t \notin inside
  BY <1>2 DEF Place, TypeOK
<1>5. waits[t] = d
  BY <1>2, <1>3, <1>4 DEF Meeting
<1>6. \A u \in Active : waits[u] \in Nat /\ waits[u] >= stage[t]
  BY <1>2, <1>3, <1>4, <1>5 DEF Meeting, TypeOK
<1>7. CASE r = 0
  BY <1>2, <1>4, <1>6, <1>7, InputDone
<1>8. CASE r # 0
  <2>1. r \in 1..3
    BY <1>4, <1>8
  <2>2. \A u \in Active : Passed(u, r)
    BY <1>4, <1>6 DEF Passed
  <2> QED
    BY <1>2, <2>1, <2>2, StageDone
<1> QED
  BY <1>7, <1>8

\* No stage reads what another is still writing, and every row of the output
\* is written, for any number of threads, parts and graphs.
THEOREM StagesStayInOrder == Spec => []StagesInOrder
<1>1. ASSUME IInv PROVE StagesInOrder
  <2>1. \A t \in Threads : pc[t] = "compute" =>
          \A r \in 0..(stage[t] - 1) : done[r] = Parts[r]
    BY <1>1, ReadsComplete
  <2>2. ASSUME computing, \A t \in Active : pc[t] = "end" PROVE done[3] = Parts[3]
    <3>1. \A t \in Active : Passed(t, 3)
      BY <2>2 DEF Passed
    <3> QED
      BY <1>1, <3>1, StageDone DEF IInv
  <2> QED
    BY <2>1, <2>2 DEF StagesInOrder
<1> QED
  BY <1>1, Invariance, PTL

\* The barrier of 256 parties holds the nth threads of every graph together.
THEOREM ThreadsReturnTogether == Spec => ReturnsTogether
<1>1. ASSUME IInv, [Next]_vars
      PROVE  [\A t \in Threads : t \in inside \ inside' =>
                \A u \in Active : waits[u] >= waits[t]]_vars
  <2> SUFFICES ASSUME NEW t \in Threads, t \in inside, t \notin inside',
                      NEW u \in Active
               PROVE  waits[u] >= waits[t]
    OBVIOUS
  <2>1. NextStage(t)
    BY <1>1 DEF Next, EndNode, StartNode, NewGraph, Thread, Quantize, NextStage, Draw,
                Compute, Arrive, Return, vars, headVars, barrierVars
  <2>2. Return(t) /\ pc[t] # "idle"
    BY <2>1 DEF NextStage
  <2>3. PICK d \in Nat : Meeting(d)
    BY <1>1 DEF IInv
  <2> QED
    BY <1>1, <2>2, <2>3, Stepping, ReturnStep
<1> QED
  BY <1>1, Invariance, PTL DEF Spec, ReturnsTogether
=============================================================================
