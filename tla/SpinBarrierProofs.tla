------------------------- MODULE SpinBarrierProofs -------------------------
(***************************************************************************)
(* az::SpinBarrier is a barrier, for every finite set of threads: the      *)
(* counter that is never reset implements the abstract Barrier.  The       *)
(* inductive invariant is TypeOK with GenerationInv; two lemmas do its     *)
(* arithmetic, and the only action with work to do is Enter, which either  *)
(* adds one thread to those that have arrived or completes a generation.   *)
(***************************************************************************)
EXTENDS SpinBarrier, FiniteSetTheorems, TLAPS

IInv == TypeOK /\ GenerationInv

\* Division recovers the generation from a counter inside it.
LEMMA GenerationOf ==
    ASSUME NEW c \in Nat, NEW n \in Nat \ {0}, NEW g \in Nat, NEW r \in Nat,
           r < n, c = g * n + r
    PROVE  c \div n = g
  OBVIOUS

\* A generation is a natural number.
LEMMA GenerationNat ==
    ASSUME NEW c \in Nat, NEW n \in Nat \ {0}
    PROVE  c \div n \in Nat
  OBVIOUS

\* There is at least one thread.
LEMMA WidthPositive == Cardinality(Threads) \in Nat \ {0}
  BY SpinAssumptionHolds, FS_CardinalityType, FS_EmptySet DEF SpinAssumption

\* Before the first wait every thread is in generation zero.
LEMMA InitIInv == Init => IInv
<1> SUFFICES ASSUME Init PROVE IInv
  OBVIOUS
<1>1. TypeOK
  BY WidthPositive DEF Init, TypeOK
<1>2. Generation = 0
  BY WidthPositive, GenerationOf DEF Init, Generation
<1>3. Arrived = {}
  BY <1>2 DEF Init, Arrived
<1>4. Cardinality(Arrived) = 0
  BY <1>3, FS_EmptySet
<1>5. GenerationInv
  BY <1>2, <1>4, WidthPositive DEF Init, GenerationInv
<1> QED
  BY <1>1, <1>5 DEF IInv

\* One arrival: the generation goes on, or this was its last thread.
LEMMA EnterStep ==
    ASSUME IInv, NEW t \in Threads, Enter(t)
    PROVE  IInv'
<1> DEFINE N == Cardinality(Threads)
           G == Generation
           A == Arrived
<1>0. /\ N \in Nat \ {0} /\ G \in Nat /\ width = N
      /\ count \in Nat /\ count = G * N + Cardinality(A)
      /\ IsFiniteSet(A) /\ Cardinality(A) \in Nat /\ Cardinality(A) < N
      /\ A \subseteq Threads
  <2>1. N \in Nat \ {0} /\ width = N /\ count \in Nat
    BY WidthPositive DEF IInv, TypeOK, GenerationInv
  <2>2. G \in Nat
    BY <2>1, GenerationNat DEF Generation
  <2>3. A \subseteq Threads
    BY DEF Arrived
  <2>4. IsFiniteSet(A)
    BY <2>3, SpinAssumptionHolds, FS_Subset DEF SpinAssumption
  <2> QED
    BY <2>1, <2>2, <2>3, <2>4, FS_CardinalityType DEF IInv, GenerationInv
<1>1. TypeOK'
  BY <1>0 DEF IInv, TypeOK, Enter, Generation
<1>2. t \notin inside /\ waits[t] = G /\ t \notin A
  BY <1>0 DEF IInv, GenerationInv, Enter, Arrived
<1>3. /\ waits' = [waits EXCEPT ![t] = G + 1]
      /\ target' = [target EXCEPT ![t] = (G + 1) * N]
      /\ inside' = inside \cup {t} /\ width' = N /\ count' = count + 1
  BY <1>0, <1>2 DEF Enter, Generation
<1>4. IsFiniteSet(A \cup {t}) /\ Cardinality(A \cup {t}) = Cardinality(A) + 1
  BY <1>0, <1>2, FS_AddElement
<1>5. CASE Cardinality(A) + 1 < N
  <2>1. Generation' = G
    <3>1. count' = G * N + (Cardinality(A) + 1)
      BY <1>0, <1>3
    <3>2. count' \in Nat /\ Cardinality(A) + 1 \in Nat
      BY <1>0, <1>3
    <3>3. count' \div N = G
      BY <1>0, <1>5, <3>1, <3>2, GenerationOf
    <3> QED
      BY <1>3, <3>3 DEF Generation
  <2>2. Arrived' = A \cup {t}
    BY <1>0, <1>2, <1>3, <2>1 DEF Arrived, IInv, TypeOK
  <2>3. count' = Generation' * width' + Cardinality(Arrived')
    BY <1>0, <1>3, <1>4, <2>1, <2>2
  <2>4. ASSUME NEW s \in Threads
        PROVE  /\ waits'[s] \in {Generation', Generation' + 1}
               /\ s \notin inside' => waits'[s] = Generation'
               /\ s \in inside' => target'[s] = waits'[s] * width'
    BY <1>0, <1>3, <2>1 DEF IInv, TypeOK, GenerationInv
  <2> QED
    BY <1>0, <1>1, <1>3, <1>4, <1>5, <2>2, <2>3, <2>4 DEF IInv, GenerationInv
<1>6. CASE Cardinality(A) + 1 = N
  <2>1. A \cup {t} = Threads
    BY <1>0, <1>4, <1>6, SpinAssumptionHolds, FS_Subset DEF SpinAssumption
  <2>2. Generation' = G + 1
    <3>1. count' = (G + 1) * N + 0
      BY <1>0, <1>3, <1>6
    <3>2. count' \in Nat /\ G + 1 \in Nat /\ 0 < N
      BY <1>0, <1>3
    <3>3. count' \div N = G + 1
      BY <1>0, <3>1, <3>2, GenerationOf
    <3> QED
      BY <1>3, <3>3 DEF Generation
  <2>3. \A s \in Threads : waits'[s] = G + 1
    BY <1>0, <1>3, <2>1 DEF Arrived, IInv, TypeOK
  <2>4. Arrived' = {}
    BY <1>0, <2>2, <2>3 DEF Arrived
  <2>5. Cardinality(Arrived') = 0
    BY <2>4, FS_EmptySet
  <2>6. count' = Generation' * width' + Cardinality(Arrived')
    BY <1>0, <1>3, <1>6, <2>2, <2>5
  <2>7. ASSUME NEW s \in Threads
        PROVE  /\ waits'[s] \in {Generation', Generation' + 1}
               /\ s \notin inside' => waits'[s] = Generation'
               /\ s \in inside' => target'[s] = waits'[s] * width'
    <3>1. waits'[s] = Generation'
      BY <2>2, <2>3
    <3>2. s \in inside' => target'[s] = waits'[s] * width'
      <4>1. CASE s = t
        BY <1>3, <2>3, <4>1 DEF IInv, TypeOK
      <4>2. CASE s # t
        BY <1>3, <4>2 DEF IInv, TypeOK, GenerationInv
      <4> QED BY <4>1, <4>2
    <3> QED BY <3>1, <3>2
  <2> QED
    BY <1>0, <1>1, <1>3, <2>5, <2>6, <2>7 DEF IInv, GenerationInv
<1> QED
  BY <1>0, <1>5, <1>6

\* A thread whose target is reached has completed its generation.
LEMMA LeaverIsDone ==
    ASSUME IInv, NEW t \in Threads, t \in inside, count >= target[t]
    PROVE  waits[t] = Generation
<1>1. /\ width \in Nat \ {0} /\ count \in Nat /\ Generation \in Nat
      /\ Cardinality(Arrived) < width
      /\ count = Generation * width + Cardinality(Arrived)
  BY GenerationNat DEF IInv, TypeOK, GenerationInv, Generation
<1>2. Cardinality(Arrived) \in Nat
  BY SpinAssumptionHolds, FS_Subset, FS_CardinalityType
  DEF SpinAssumption, Arrived
<1>3. CASE waits[t] = Generation + 1
  <2>1. count >= (Generation + 1) * width
    BY <1>3 DEF IInv, GenerationInv
  <2>2. (Generation + 1) * width = Generation * width + width
    BY <1>1
  <2> QED
    BY <1>1, <1>2, <2>1, <2>2
<1> QED
  BY <1>3 DEF IInv, GenerationInv

\* A thread sees its target reached and goes on.
LEMMA LeaveStep ==
    ASSUME IInv, NEW t \in Threads, Leave(t)
    PROVE  IInv'
<1>1. waits[t] = Generation
  BY LeaverIsDone DEF Leave
<1>2. Generation' = Generation /\ Arrived' = Arrived
  BY DEF Leave, Generation, Arrived
<1> QED
  BY <1>1, <1>2 DEF IInv, TypeOK, GenerationInv, Leave

\* The next graph begins with a counter of zero.
LEMMA RestartStep ==
    ASSUME IInv, Restart
    PROVE  IInv'
<1>1. TypeOK'
  BY WidthPositive DEF IInv, TypeOK, Restart
<1>2. Generation' = 0
  BY WidthPositive, GenerationOf DEF Restart, Generation
<1>3. Arrived' = {}
  BY <1>2 DEF Restart, Arrived
<1>4. Cardinality(Arrived') = 0
  BY <1>3, FS_EmptySet
<1> QED
  BY <1>1, <1>2, <1>4, WidthPositive DEF IInv, GenerationInv, Restart

\* IInv is inductive.
LEMMA NextIInv == IInv /\ [Next]_vars => IInv'
<1> SUFFICES ASSUME IInv, [Next]_vars PROVE IInv'
  OBVIOUS
<1>1. ASSUME NEW t \in Threads, Enter(t) PROVE IInv'
  BY <1>1, EnterStep
<1>2. ASSUME NEW t \in Threads, Leave(t) PROVE IInv'
  BY <1>2, LeaveStep
<1>3. CASE Restart
  BY <1>3, RestartStep
<1>4. CASE UNCHANGED vars
  BY <1>4 DEF vars, IInv, TypeOK, GenerationInv, Generation, Arrived
<1> QED
  BY <1>1, <1>2, <1>3, <1>4 DEF Next

\* Width, counter, targets and history keep their types.
THEOREM TypeCorrect == Spec => []TypeOK
<1>1. IInv => TypeOK
  BY DEF IInv
<1> QED
  BY InitIInv, NextIInv, <1>1, PTL DEF Spec

\* In every state of every pool the counter tells the generation, and every
\* thread is in it or has already arrived in the next.
THEOREM Generations == Spec => []GenerationInv
<1>1. IInv => GenerationInv
  BY DEF IInv
<1> QED
  BY InitIInv, NextIInv, <1>1, PTL DEF Spec

\* The spin barrier implements the abstract barrier: a thread leaves its
\* k-th wait only after every thread has entered its k-th wait.
THEOREM SpinBarrierIsBarrier == Spec => BarrierSpec
<1>1. Init => Abstract!Init
  BY DEF Init, Abstract!Init
<1>2. IInv /\ [Next]_vars => [Abstract!Next]_<<waits, inside>>
  <2> SUFFICES ASSUME IInv, [Next]_vars
               PROVE  [Abstract!Next]_<<waits, inside>>
    OBVIOUS
  <2>1. ASSUME NEW t \in Threads, Enter(t) PROVE Abstract!Next
    BY <2>1 DEF Enter, Abstract!Next, Abstract!Enter
  <2>2. ASSUME NEW t \in Threads, Leave(t) PROVE Abstract!Next
    <3>1. waits[t] = Generation
      BY <2>2, LeaverIsDone DEF Leave
    <3>2. Generation \in Nat
      BY GenerationNat DEF IInv, TypeOK, Generation
    <3>3. \A s \in Threads : waits[s] >= waits[t]
      BY <3>1, <3>2 DEF IInv, GenerationInv
    <3> QED
      BY <2>2, <3>3 DEF Leave, Abstract!Next, Abstract!Leave
  <2>3. CASE Restart
    BY <2>3 DEF Restart, Abstract!Next, Abstract!Restart
  <2>4. CASE UNCHANGED vars
    BY <2>4 DEF vars
  <2> QED
    BY <2>1, <2>2, <2>3, <2>4 DEF Next
<1> QED
  BY InitIInv, NextIInv, <1>1, <1>2, PTL
  DEF Spec, BarrierSpec, Abstract!Spec, Abstract!vars
=============================================================================
