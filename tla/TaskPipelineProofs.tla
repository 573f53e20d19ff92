------------------------- MODULE TaskPipelineProofs -------------------------
(***************************************************************************)
(* Theorems about TaskPipeline, for every number of threads, rows, experts *)
(* and layers.  The invariant behind them has seven parts.  StageInv: a    *)
(* thread's place in forward determines how often it has waited, so that   *)
(* one that is through the first barrier knows that thread 0 has scheduled *)
(* the preprocess task.  HoldInv: threads hold different tasks, and the    *)
(* count of a task that is held or has run is zero.  LayerInv: the counts  *)
(* are what is owed, the queue is what they say, the total is what is left *)
(* to do, and between two layers all is empty.  MatrixInv: a task waits    *)
(* for its own matrix only.  EndInv: a thread that leaves run leaves no    *)
(* task behind, which needs that nothing is scheduled any more by then.    *)
(* DataInv: the buffers hold the shares of disjoint sets of down tasks,    *)
(* together of those that have run, since the preprocess task cleared      *)
(* them.  TypeInv is the type invariant.                                   *)
(***************************************************************************)
EXTENDS TaskPipeline, SequenceTheorems, FiniteSetTheorems, WellFoundedInduction, TLAPS

-----------------------------------------------------------------------------
(* Buffers that hold disjoint sets of summands, each summand once, add up  *)
(* to the union of the sets, in whatever order they are added.             *)

\* One of the threads s, the one whose buffer is added last.
Chosen(s) == CHOOSE x \in s : TRUE

\* g holds the sum of the buffers of every set s of threads, by recursion.
AddsUp(g, buf) ==
    g = [s \in SUBSET (DOMAIN buf) |->
           IF s = {} THEN EmptyBag ELSE buf[Chosen(s)] (+) g[s \ {Chosen(s)}]]

\* The reduction computes it.
LEMMA SumIsRecursive == \A buf : SumOfBuffers(buf) = (CHOOSE g : AddsUp(g, buf))[DOMAIN buf]
BY DEF SumOfBuffers, FoldFunction, FoldFunctionOnSet, MapThenFoldSet, AddsUp, Chosen

\* Sets of summands without a common member.
Apart(parts) ==
    \A t, u \in DOMAIN parts : t # u => parts[t] \cap parts[u] = {}

\* The union of the sets of the threads s.
Joined(parts, s) == UNION {parts[t] : t \in s}

\* The chosen thread is one of them.
LEMMA ChosenIn == \A s : s # {} => Chosen(s) \in s
BY DEF Chosen

\* Two bags without a common member that hold each summand once.
LEMMA SumOfTwo ==
  ASSUME NEW A, NEW B, A \cap B = {}
  PROVE  SetToBag(A) (+) SetToBag(B) = SetToBag(A \cup B)
<1>1. \A x \in A \cup B : ~(x \in A /\ x \in B)
  OBVIOUS
<1> QED BY <1>1 DEF SetToBag, (+)

\* Bags stay bags.
LEMMA BagFacts ==
  /\ IsABag(EmptyBag)
  /\ \A S : IsABag(SetToBag(S))
  /\ \A A, B : IsABag(A) /\ IsABag(B) => IsABag(A (+) B)
<1>1. \A S : IsABag(SetToBag(S))
  BY DEF IsABag, SetToBag
<1>2. ASSUME NEW A, NEW B, IsABag(A), IsABag(B) PROVE IsABag(A (+) B)
  <2>1. /\ \A x \in DOMAIN A : A[x] \in Nat /\ A[x] > 0
        /\ \A x \in DOMAIN B : B[x] \in Nat /\ B[x] > 0
    BY <1>2 DEF IsABag
  <2> DEFINE C == [x \in DOMAIN A \cup DOMAIN B |->
                     (IF x \in DOMAIN A THEN A[x] ELSE 0) + (IF x \in DOMAIN B THEN B[x] ELSE 0)]
  <2>2. DOMAIN C = DOMAIN A \cup DOMAIN B
    OBVIOUS
  <2>3. \A x \in DOMAIN C : C[x] \in {n \in Nat : n > 0}
    BY <2>1
  <2>4. IsABag(C)
    BY <2>2, <2>3 DEF IsABag
  <2> QED BY <2>4 DEF (+)
<1> QED BY <1>1, <1>2 DEF EmptyBag

\* Adding to an empty buffer.
LEMMA EmptySum == \A S : EmptyBag (+) SetToBag(S) = SetToBag(S)
<1> TAKE S
<1>1. {} \cap S = {} /\ {} \cup S = S
  OBVIOUS
<1>2. SetToBag({}) (+) SetToBag(S) = SetToBag({} \cup S)
  BY <1>1, SumOfTwo
<1> QED BY <1>1, <1>2 DEF EmptyBag

\* The union of the sets is a sum by recursion ...
LEMMA JoinedAddsUp ==
  ASSUME NEW parts, NEW buf, Apart(parts), buf = [t \in DOMAIN parts |-> SetToBag(parts[t])]
  PROVE  AddsUp([s \in SUBSET (DOMAIN buf) |-> SetToBag(Joined(parts, s))], buf)
<1> DEFINE T == DOMAIN parts
           g == [s \in SUBSET T |-> SetToBag(Joined(parts, s))]
<1>1. DOMAIN buf = T
  OBVIOUS
<1>2. ASSUME NEW s \in SUBSET T
      PROVE  g[s] = IF s = {} THEN EmptyBag ELSE buf[Chosen(s)] (+) g[s \ {Chosen(s)}]
  <2>1. CASE s = {}
    <3>1. Joined(parts, s) = {}
      BY <2>1 DEF Joined
    <3> QED BY <2>1, <3>1 DEF EmptyBag
  <2>2. CASE s # {}
    <3>1. Chosen(s) \in s /\ Chosen(s) \in T
      BY <2>2, ChosenIn
    <3>2. parts[Chosen(s)] \cap Joined(parts, s \ {Chosen(s)}) = {}
      BY <3>1 DEF Joined, Apart
    <3>3. parts[Chosen(s)] \cup Joined(parts, s \ {Chosen(s)}) = Joined(parts, s)
      BY <3>1 DEF Joined
    <3>4. buf[Chosen(s)] = SetToBag(parts[Chosen(s)])
      BY <3>1
    <3>5. g[s \ {Chosen(s)}] = SetToBag(Joined(parts, s \ {Chosen(s)}))
      OBVIOUS
    <3>6. g[s] = SetToBag(Joined(parts, s))
      OBVIOUS
    <3>7. SetToBag(parts[Chosen(s)]) (+) SetToBag(Joined(parts, s \ {Chosen(s)}))
            = SetToBag(Joined(parts, s))
      BY <3>2, <3>3, SumOfTwo
    <3> HIDE DEF g
    <3> QED BY <2>2, <3>4, <3>5, <3>6, <3>7
  <2> QED BY <2>1, <2>2
<1>3. g = [s \in SUBSET T |->
             IF s = {} THEN EmptyBag ELSE buf[Chosen(s)] (+) g[s \ {Chosen(s)}]]
  <2> DEFINE h == [s \in SUBSET T |->
             IF s = {} THEN EmptyBag ELSE buf[Chosen(s)] (+) g[s \ {Chosen(s)}]]
  <2>1. \A s \in SUBSET T : g[s] = h[s]
    BY <1>2
  <2>2. DOMAIN g = SUBSET T /\ DOMAIN h = SUBSET T
    OBVIOUS
  <2>3. g = [s \in SUBSET T |-> g[s]] /\ h = [s \in SUBSET T |-> h[s]]
    OBVIOUS
  <2> HIDE DEF g, h
  <2>4. g = h
    BY <2>1, <2>3
  <2> QED BY <2>4 DEF h
<1> QED BY <1>1, <1>3 DEF AddsUp

\* ... and there is no other, since there are finitely many threads.
LEMMA AddsUpOnce ==
  ASSUME NEW buf, IsFiniteSet(DOMAIN buf), NEW g, NEW h, AddsUp(g, buf), AddsUp(h, buf)
  PROVE  g = h
<1> DEFINE T == DOMAIN buf
           Differ == {s \in SUBSET T : g[s] # h[s]}
<1>1. IsWellFoundedOn(StrictSubsetOrdering(T), SUBSET T)
  BY FS_StrictSubsetOrderingWellFounded, FS_FiniteSubsetsOfFinite
<1>2. Differ = {}
  <2> SUFFICES ASSUME Differ # {} PROVE FALSE
    OBVIOUS
  <2>1. PICK s \in Differ : \A r \in Differ : ~(<<r, s>> \in StrictSubsetOrdering(T))
    <3>1. Differ \subseteq SUBSET T
      OBVIOUS
    <3> HIDE DEF Differ
    <3> QED BY <1>1, <3>1, WFMin
  <2>2. s # {}
    BY <2>1 DEF AddsUp
  <2> DEFINE r == s \ {Chosen(s)}
  <2>3. r \in SUBSET T /\ r \subseteq s /\ r # s
    BY <2>1, <2>2, ChosenIn
  <2>4. <<r, s>> \in StrictSubsetOrdering(T)
    BY <2>1, <2>3 DEF StrictSubsetOrdering
  <2>5. g[r] = h[r]
    BY <2>1, <2>3, <2>4
  <2>6. g[s] = buf[Chosen(s)] (+) g[r] /\ h[s] = buf[Chosen(s)] (+) h[r]
    BY <2>1, <2>2 DEF AddsUp
  <2> QED BY <2>1, <2>5, <2>6
<1>3. g = [s \in SUBSET T |-> g[s]] /\ h = [s \in SUBSET T |-> h[s]]
  BY DEF AddsUp
<1>4. \A s \in SUBSET T : g[s] = h[s]
  BY <1>2
<1> HIDE DEF T
<1> QED BY <1>3, <1>4

\* Buffers that hold disjoint sets of summands, each summand once, add up to
\* the union of the sets, whichever of them is added first.
LEMMA SumOfParts ==
  ASSUME NEW parts, IsFiniteSet(DOMAIN parts), Apart(parts), NEW buf,
         buf = [t \in DOMAIN parts |-> SetToBag(parts[t])]
  PROVE  SumOfBuffers(buf) = SetToBag(UNION {parts[t] : t \in DOMAIN parts})
<1> DEFINE h == [s \in SUBSET (DOMAIN buf) |-> SetToBag(Joined(parts, s))]
<1>1. DOMAIN buf = DOMAIN parts
  OBVIOUS
<1>2. AddsUp(h, buf)
  BY JoinedAddsUp
<1>3. h[DOMAIN buf] = SetToBag(Joined(parts, DOMAIN parts))
  BY <1>1
<1> HIDE DEF h
<1>4. AddsUp((CHOOSE g : AddsUp(g, buf)), buf)
  BY <1>2
<1>5. (CHOOSE g : AddsUp(g, buf)) = h
  BY <1>1, <1>2, <1>4, AddsUpOnce
<1> QED BY <1>3, <1>5, SumIsRecursive DEF Joined

-----------------------------------------------------------------------------
(* Queues: a set becomes a sequence of its elements, which is appended.    *)

LEMMA SetToSeqFacts ==
  ASSUME NEW S, IsFiniteSet(S)
  PROVE  /\ SetToSeq(S) \in Seq(S) /\ IsInjective(SetToSeq(S))
         /\ Range(SetToSeq(S)) = S
<1> DEFINE n == Cardinality(S)
<1>1. n \in Nat /\ ExistsBijection(1..n, S)
  BY FS_CardinalityType
<1>2. PICK g \in [1..n -> S] : IsInjective(g)
  BY <1>1 DEF ExistsBijection, Bijection, Injection, IsInjective
<1>3. SetToSeq(S) \in [1..n -> S] /\ IsInjective(SetToSeq(S))
  BY <1>2 DEF SetToSeq
<1>4. IsFiniteSet(1..n) /\ Cardinality(1..n) = Cardinality(S)
  BY <1>1, FS_Interval
<1>5. SetToSeq(S) \in Injection(1..n, S)
  BY <1>3 DEF Injection
<1>6. SetToSeq(S) \in Surjection(1..n, S)
  BY <1>4, <1>5, FS_Injection
<1>7. Range(SetToSeq(S)) = S
  BY <1>3, <1>6 DEF Surjection, Range
<1> QED BY <1>1, <1>3, <1>7

LEMMA AppendFacts ==
  ASSUME NEW X, NEW s \in Seq(X), NEW r \in Seq(X), IsInjective(s), IsInjective(r),
         Range(s) \cap Range(r) = {}
  PROVE  s \o r \in Seq(X) /\ IsInjective(s \o r) /\ Range(s \o r) = Range(s) \cup Range(r)
<1> DEFINE q == s \o r
<1>1. /\ q \in Seq(X) /\ Len(q) = Len(s) + Len(r) /\ Len(s) \in Nat /\ Len(r) \in Nat
      /\ \A i \in 1..Len(s) : q[i] = s[i]
      /\ \A i \in (Len(s) + 1)..(Len(s) + Len(r)) : q[i] = r[i - Len(s)]
  OBVIOUS
<1>2. DOMAIN s = 1..Len(s) /\ DOMAIN r = 1..Len(r) /\ DOMAIN q = 1..Len(q)
  BY <1>1
<1>3. /\ \A i \in 1..Len(s) : s[i] \in Range(s)
      /\ \A i \in 1..Len(r) : r[i] \in Range(r)
  BY <1>2 DEF Range
<1> HIDE DEF q
<1>4. ASSUME NEW i \in 1..Len(q), NEW j \in 1..Len(q), q[i] = q[j] PROVE i = j
  <2>1. CASE i <= Len(s) /\ j <= Len(s)
    <3>1. i \in 1..Len(s) /\ j \in 1..Len(s)
      BY <1>1, <2>1
    <3>2. s[i] = s[j]
      BY <1>1, <1>4, <3>1
    <3> QED BY <1>2, <3>1, <3>2 DEF IsInjective
  <2>2. CASE i > Len(s) /\ j > Len(s)
    <3>1. i - Len(s) \in 1..Len(r) /\ j - Len(s) \in 1..Len(r)
      BY <1>1, <2>2
    <3>2. r[i - Len(s)] = r[j - Len(s)]
      <4>1. /\ i \in (Len(s) + 1)..(Len(s) + Len(r)) /\ j \in (Len(s) + 1)..(Len(s) + Len(r))
        BY <1>1, <2>2
      <4>2. q[i] = r[i - Len(s)] /\ q[j] = r[j - Len(s)]
        BY <1>1, <4>1
      <4> QED BY <1>4, <4>2
    <3>3. i - Len(s) = j - Len(s)
      BY <1>2, <3>1, <3>2 DEF IsInjective
    <3> QED BY <1>1, <3>3
  <2>3. ASSUME NEW k \in 1..Len(q), NEW l \in 1..Len(q), k <= Len(s), l > Len(s) PROVE q[k] # q[l]
    <3>1. q[k] \in Range(s)
      BY <1>1, <1>3, <2>3
    <3>2. l - Len(s) \in 1..Len(r) /\ q[l] = r[l - Len(s)]
      BY <1>1, <2>3
    <3> QED BY <1>3, <3>1, <3>2
  <2> QED BY <1>1, <1>4, <2>1, <2>2, <2>3
<1>5. Range(q) = Range(s) \cup Range(r)
  <2>1. Range(q) \subseteq Range(s) \cup Range(r)
    <3> SUFFICES ASSUME NEW i \in 1..Len(q) PROVE q[i] \in Range(s) \cup Range(r)
      BY <1>2 DEF Range
    <3>1. CASE i <= Len(s)
      BY <1>1, <1>3, <3>1
    <3>2. CASE i > Len(s)
      <4>1. i - Len(s) \in 1..Len(r) /\ q[i] = r[i - Len(s)]
        BY <1>1, <3>2
      <4> QED BY <1>3, <4>1
    <3> QED BY <1>1, <3>1, <3>2
  <2>2. ASSUME NEW i \in 1..Len(s) PROVE s[i] \in Range(q)
    <3>1. i \in 1..Len(q) /\ q[i] = s[i]
      BY <1>1
    <3> QED BY <1>2, <3>1 DEF Range
  <2>3. ASSUME NEW i \in 1..Len(r) PROVE r[i] \in Range(q)
    <3>1. i + Len(s) \in 1..Len(q) /\ q[i + Len(s)] = r[(i + Len(s)) - Len(s)]
      BY <1>1
    <3>2. (i + Len(s)) - Len(s) = i
      BY <1>1
    <3> QED BY <1>2, <3>1, <3>2 DEF Range
  <2> QED BY <1>2, <2>1, <2>2, <2>3 DEF Range
<1> QED BY <1>1, <1>2, <1>4, <1>5 DEF IsInjective, q

LEMMA TailFacts ==
  ASSUME NEW X, NEW s \in Seq(X), IsInjective(s), s # <<>>
  PROVE  /\ Tail(s) \in Seq(X) /\ IsInjective(Tail(s)) /\ Head(s) \in Range(s)
         /\ Range(Tail(s)) = Range(s) \ {Head(s)}
<1> DEFINE q == Tail(s)
<1>1. /\ q \in Seq(X) /\ Len(q) = Len(s) - 1 /\ Len(s) \in Nat /\ Len(s) > 0
      /\ \A i \in 1..Len(q) : q[i] = s[i + 1]
      /\ Head(s) = s[1]
  OBVIOUS
<1>2. DOMAIN s = 1..Len(s) /\ DOMAIN q = 1..Len(q)
  BY <1>1
<1> HIDE DEF q
<1>3. \A i, j \in 1..Len(s) : s[i] = s[j] => i = j
  BY <1>2 DEF IsInjective
<1>4. \A i, j \in 1..Len(q) : q[i] = q[j] => i = j
  <2> SUFFICES ASSUME NEW i \in 1..Len(q), NEW j \in 1..Len(q), q[i] = q[j] PROVE i = j
    OBVIOUS
  <2>1. i + 1 \in 1..Len(s) /\ j + 1 \in 1..Len(s) /\ s[i + 1] = s[j + 1]
    BY <1>1
  <2>2. i + 1 = j + 1
    BY <1>3, <2>1
  <2> QED BY <2>2
<1>5. ASSUME NEW i \in 1..Len(q) PROVE q[i] \in Range(s) /\ q[i] # Head(s)
  <2>1. i + 1 \in 1..Len(s) /\ q[i] = s[i + 1] /\ i + 1 # 1 /\ 1 \in 1..Len(s)
    BY <1>1
  <2> QED BY <1>1, <1>2, <1>3, <2>1 DEF Range
<1>6. ASSUME NEW i \in 1..Len(s), s[i] # Head(s) PROVE s[i] \in Range(q)
  <2>1. i - 1 \in 1..Len(q) /\ q[i - 1] = s[(i - 1) + 1] /\ (i - 1) + 1 = i
    BY <1>1, <1>6
  <2> QED BY <1>2, <2>1 DEF Range
<1>7. 1 \in 1..Len(s)
  BY <1>1
<1> QED BY <1>1, <1>2, <1>4, <1>5, <1>6, <1>7 DEF IsInjective, Range, q

-----------------------------------------------------------------------------
(* The task graph.                                                         *)

LEMMA Constants ==
  /\ IsFiniteSet(Threads) /\ Main \in Threads
  /\ IsFiniteSet(Rows) /\ Rows # {} /\ IsFiniteSet(Experts)
  /\ NUsed \in Nat \ {0} /\ NLayers \in Nat \ {0} /\ NoTask \notin Tasks
<1>1. /\ IsFiniteSet(Threads) /\ Main \in Threads
      /\ IsFiniteSet(Rows) /\ Rows # {} /\ IsFiniteSet(Experts)
      /\ NUsed \in 1..Cardinality(Experts) /\ NLayers \in Nat \ {0}
  BY PipelineAssumptionHolds DEF PipelineAssumption
<1>2. NUsed \in Nat \ {0}
  BY <1>1, FS_CardinalityType
<1> QED BY <1>1, <1>2, NoTaskAssumption

FwdKinds == {"up", "gate", "down"}

\* The task of kind k for the same row and index.
As(x, k) == [x EXCEPT !.kind = k]

LEMMA ForwardFacts ==
  /\ \A k : \A x \in Forwards(k) : x.kind = k /\ x.row \in Rows /\ x.index \in 1..NUsed
  /\ \A k : \A x, y \in Forwards(k) : x.row = y.row /\ x.index = y.index => x = y
  /\ ForwardTasks = Forwards("up") \cup Forwards("gate") \cup Forwards("down")
  /\ \A k, l : \A x \in Forwards(k) :
       /\ As(x, l) \in Forwards(l)
       /\ As(x, l).row = x.row
       /\ As(x, l).index = x.index
<1>1. ForwardTasks = Forwards("up") \cup Forwards("gate") \cup Forwards("down")
  BY DEF ForwardTasks
<1>2. \A k : \A x, y \in Forwards(k) : x.row = y.row /\ x.index = y.index => x = y
  BY DEF Forwards
<1> QED BY <1>1, <1>2 DEF Forwards, As

LEMMA TaskFacts ==
  /\ Preprocess.kind = "preprocess" /\ Reduce.kind = "reduce"
  /\ Preprocess \in Tasks /\ Reduce \in Tasks /\ ForwardTasks \subseteq Tasks
  /\ Preprocess \notin ForwardTasks /\ Reduce \notin ForwardTasks /\ Preprocess # Reduce
  /\ \A x \in Tasks : x.kind \in FwdKinds => x \in Forwards(x.kind)
  /\ \A x \in Tasks : x.kind = "preprocess" => x = Preprocess
  /\ \A x \in Tasks : x.kind = "reduce" => x = Reduce
  /\ \A x \in Tasks : x.kind \in {"preprocess", "gate", "up", "down", "reduce"}
<1>1. Preprocess.kind = "preprocess" /\ Reduce.kind = "reduce"
  BY DEF Preprocess, Reduce
<1> QED BY <1>1, ForwardFacts DEF Tasks, FwdKinds

LEMMA NextFacts ==
  /\ NextTasks(Preprocess) = Forwards("gate") /\ NextTasks(Reduce) = {}
  /\ \A x \in Forwards("gate") : NextTasks(x) = {As(x, "up")}
  /\ \A x \in Forwards("up") : NextTasks(x) = {As(x, "down")}
  /\ \A x \in Forwards("down") : NextTasks(x) = {Reduce}
<1>1. /\ \A x \in Forwards("gate") : x.kind = "gate"
      /\ \A x \in Forwards("up") : x.kind = "up"
      /\ \A x \in Forwards("down") : x.kind = "down"
  BY ForwardFacts
<1>2. Preprocess.kind = "preprocess" /\ Reduce.kind = "reduce"
  BY TaskFacts
<1>3. \A x : NextTasks(x) =
        CASE x.kind = "preprocess" -> Forwards("gate")
          [] x.kind = "gate"       -> {As(x, "up")}
          [] x.kind = "up"         -> {As(x, "down")}
          [] x.kind = "down"       -> {Reduce}
          [] x.kind = "reduce"     -> {}
  BY DEF NextTasks, As
<1> QED BY <1>1, <1>2, <1>3

LEMMA NextInTasks == \A x \in Tasks : NextTasks(x) \subseteq Tasks /\ x \notin NextTasks(x)
<1> SUFFICES ASSUME NEW x \in Tasks PROVE NextTasks(x) \subseteq Tasks /\ x \notin NextTasks(x)
  OBVIOUS
<1>1. Forwards("up") \subseteq Tasks /\ Forwards("gate") \subseteq Tasks /\ Forwards("down") \subseteq Tasks
  BY ForwardFacts, TaskFacts
<1>2. CASE x = Preprocess
  BY <1>1, <1>2, NextFacts, TaskFacts, ForwardFacts
<1>3. CASE x = Reduce
  BY <1>3, NextFacts
<1>4. CASE x \in Forwards("gate")
  <2>1. As(x, "up") \in Forwards("up")
    BY <1>4, ForwardFacts
  <2>2. x.kind = "gate" /\ As(x, "up").kind = "up"
    BY <1>4, <2>1, ForwardFacts
  <2> QED BY <1>1, <1>4, <2>1, <2>2, NextFacts
<1>5. CASE x \in Forwards("up")
  <2>1. As(x, "down") \in Forwards("down")
    BY <1>5, ForwardFacts
  <2>2. x.kind = "up" /\ As(x, "down").kind = "down"
    BY <1>5, <2>1, ForwardFacts
  <2> QED BY <1>1, <1>5, <2>1, <2>2, NextFacts
<1>6. CASE x \in Forwards("down")
  BY <1>6, NextFacts, TaskFacts, ForwardFacts
<1>7. \/ x = Preprocess \/ x = Reduce \/ x \in Forwards("gate") \/ x \in Forwards("up")
      \/ x \in Forwards("down")
  BY ForwardFacts DEF Tasks
<1> QED BY <1>2, <1>3, <1>4, <1>5, <1>6, <1>7

\* The predecessors that decide when a task may run.
LEMMA PrevFacts ==
  /\ \A x \in Forwards("gate") : Preprocess \in PrevTasks(x)
  /\ \A x \in Forwards("up") : As(x, "gate") \in PrevTasks(x)
  /\ \A x \in Forwards("down") : As(x, "up") \in PrevTasks(x)
  /\ Forwards("down") \subseteq PrevTasks(Reduce)
<1>1. Forwards("up") \subseteq Tasks /\ Forwards("gate") \subseteq Tasks /\ Forwards("down") \subseteq Tasks
  BY ForwardFacts, TaskFacts
<1>2. ASSUME NEW x \in Forwards("up") PROVE As(x, "gate") \in PrevTasks(x)
  <2> DEFINE y == As(x, "gate")
  <2>1. y \in Forwards("gate") /\ As(y, "up") \in Forwards("up")
    BY ForwardFacts
  <2>2. As(y, "up").row = x.row /\ As(y, "up").index = x.index
    BY <2>1, ForwardFacts
  <2> HIDE DEF y
  <2>3. As(y, "up") = x
    BY <2>1, <2>2, ForwardFacts
  <2> QED BY <1>1, <2>1, <2>3, NextFacts DEF PrevTasks, y
<1>3. ASSUME NEW x \in Forwards("down") PROVE As(x, "up") \in PrevTasks(x)
  <2> DEFINE y == As(x, "up")
  <2>1. y \in Forwards("up") /\ As(y, "down") \in Forwards("down")
    BY ForwardFacts
  <2>2. As(y, "down").row = x.row /\ As(y, "down").index = x.index
    BY <2>1, ForwardFacts
  <2> HIDE DEF y
  <2>3. As(y, "down") = x
    BY <2>1, <2>2, ForwardFacts
  <2> QED BY <1>1, <2>1, <2>3, NextFacts DEF PrevTasks, y
<1>4. \A x \in Forwards("gate") : Preprocess \in PrevTasks(x)
  BY NextFacts, TaskFacts DEF PrevTasks
<1>5. Forwards("down") \subseteq PrevTasks(Reduce)
  BY <1>1, NextFacts DEF PrevTasks
<1> QED BY <1>2, <1>3, <1>4, <1>5

LEMMA FiniteTasks == IsFiniteSet(Tasks)
<1>1. ASSUME NEW k PROVE IsFiniteSet(Forwards(k))
  <2> DEFINE D == Rows \X (1..NUsed)
             f == [p \in D |-> [kind |-> k, row |-> p[1], index |-> p[2]]]
  <2>1. IsFiniteSet(D)
    <3>1. IsFiniteSet(1..NUsed)
      BY Constants, FS_Interval
    <3> QED BY <3>1, Constants, FS_Product
  <2>2. f \in Surjection(D, Forwards(k))
    <3>1. f \in [D -> Forwards(k)]
      BY DEF Forwards
    <3>2. ASSUME NEW x \in Forwards(k) PROVE \E p \in D : f[p] = x
      <4>1. x = [kind |-> k, row |-> x.row, index |-> x.index] /\ <<x.row, x.index>> \in D
        BY DEF Forwards
      <4> QED BY <4>1
    <3> HIDE DEF f, D
    <3> QED BY <3>1, <3>2 DEF Surjection
  <2> HIDE DEF f, D
  <2> QED BY <2>1, <2>2, FS_Surjection
<1>2. IsFiniteSet(Forwards("up") \cup Forwards("gate") \cup Forwards("down"))
  BY <1>1, FS_Union
<1>3. IsFiniteSet({Preprocess, Reduce})
  <2>1. IsFiniteSet({Preprocess}) /\ {Preprocess} \cup {Reduce} = {Preprocess, Reduce}
    BY FS_Singleton
  <2> QED BY <2>1, FS_AddElement
<1>4. Tasks = (Forwards("up") \cup Forwards("gate") \cup Forwards("down")) \cup {Preprocess, Reduce}
  BY ForwardFacts DEF Tasks
<1> QED BY <1>2, <1>3, <1>4, FS_Union

\* A set of tasks is finite and can be counted.
LEMMA CountTasks ==
  ASSUME NEW S, S \subseteq Tasks
  PROVE  /\ IsFiniteSet(S) /\ Cardinality(S) \in Nat
         /\ Cardinality(S) = 0 <=> S = {}
         /\ \A x : Cardinality(S \ {x}) = IF x \in S THEN Cardinality(S) - 1 ELSE Cardinality(S)
<1>1. IsFiniteSet(S)
  BY FiniteTasks, FS_Subset
<1> QED BY <1>1, FS_CardinalityType, FS_EmptySet, FS_RemoveElement

-----------------------------------------------------------------------------
(* The invariant.                                                          *)

Labels == {"node", "arrive", "enter", "run", "task", "notify", "leave", "reset", "done"}

TypeInv ==
    /\ node \in {"idle", "build", "forward"}
    /\ layer \in 0..NLayers
    /\ layer_data \in BOOLEAN
    /\ expert_ids \in MoE!Routings
    /\ examined \in SUBSET Matrices
    /\ loading \in SUBSET examined
    /\ pending \in [Matrices -> SUBSET ForwardTasks]
    /\ n_prev_tasks \in [Tasks -> Nat]
    /\ task_queue \in Seq(Tasks)
    /\ n_unfinished_tasks \in Nat
    /\ pc \in [Threads -> Labels]
    /\ task \in [Threads -> Tasks \cup {NoTask}]
    /\ to_notify \in [Threads -> SUBSET Tasks]
    /\ waits \in [Threads -> Nat]
    /\ inside \in SUBSET Threads
    /\ ready \in BOOLEAN
    /\ ran \in SUBSET Tasks
    /\ local_out = [t \in Threads |-> local_out[t]]
    /\ \A t \in Threads : IsABag(local_out[t])
    /\ IsABag(output)

\* Where a thread is in the layer, in terms of its waits.
Placed(t) ==
    /\ pc[t] \in {"node", "arrive"} => waits[t] = 2 * layer - 2
    /\ pc[t] \in {"enter", "run", "task", "notify"} => waits[t] = 2 * layer - 1
    /\ pc[t] \in {"leave", "reset", "done"} => waits[t] = 2 * layer
    /\ t \in inside <=> pc[t] \in {"enter", "leave"}
    /\ pc[t] \in {"arrive", "reset"} => t = Main

\* A thread is ahead of another by one wait at most, which it is inside of.
Together ==
    \A t, u \in Threads : waits[t] > waits[u] => waits[t] = waits[u] + 1 /\ t \in inside

StageInv ==
    /\ node # "forward" => \A t \in Threads : pc[t] = "node"
    /\ node # "idle" => layer # 0 /\ Together /\ \A t \in Threads : Placed(t)
    /\ node = "idle" => inside = {} /\ \A t \in Threads : waits[t] = 2 * layer
    /\ layer_data <=> node # "idle" /\ pc[Main] # "done"

\* A task waits for a matrix only if the matrix is its own, and while the
\* matrix is on its way all its tasks do.
MatrixInv ==
    /\ \A m \in Matrices : pending[m] \subseteq TasksOf(m)
    /\ \A m \in Matrices : m \notin examined => pending[m] = {}
    /\ \A m \in loading : pending[m] = TasksOf(m)
    /\ \A m \in examined : TasksOf(m) # {}
    /\ node = "forward" => \A x \in ForwardTasks : MatrixOf(x) \in examined

\* The threads hold tasks of their own, whose count is zero.
HoldInv ==
    /\ \A t \in Threads :
         /\ task[t] \in Tasks <=> pc[t] \in {"task", "notify"}
         /\ pc[t] = "task" => task[t] \notin ran
         /\ pc[t] = "notify" => task[t] \in ran /\ to_notify[t] \subseteq NextTasks(task[t])
         /\ pc[t] # "notify" => to_notify[t] = {}
         /\ task[t] \in Tasks => node = "forward" /\ n_prev_tasks[task[t]] = 0
    /\ \A t, u \in Threads : t # u /\ task[t] \in Tasks => task[u] # task[t]
    /\ node # "idle" => \A x \in ran : n_prev_tasks[x] = 0

\* What the count of a task should be.
Untold(x)  == {y \in PrevTasks(x) : ~Told(y, x)}
Waiting(x) == \E m \in Matrices : x \in pending[m]
Owed(x) ==
    Cardinality(Untold(x)) + (IF x \in Scheduled THEN 0 ELSE 1) + (IF Waiting(x) THEN 1 ELSE 0)

Held == {task[t] : t \in Threads}

CountInv == \A x \in Tasks : n_prev_tasks[x] = Owed(x)

QueueInv ==
    /\ IsInjective(task_queue)
    /\ Range(task_queue) = {x \in Tasks : n_prev_tasks[x] = 0} \ (ran \cup Held)

Finished == {x \in ran : \A t \in Threads : task[t] # x}

TotalInv == n_unfinished_tasks = Cardinality(Scheduled \ Finished)

LayerInv ==
    /\ node # "idle" => CountInv /\ QueueInv /\ TotalInv
    /\ node = "idle" => /\ \A m \in Matrices : pending[m] = {}
                        /\ task_queue = <<>> /\ n_unfinished_tasks = 0

\* Once a thread finds no unfinished task, every task is done.
EndInv ==
    \A t \in Threads : pc[t] \in {"leave", "reset", "done"} =>
        Tasks \subseteq ran /\ \A u \in Threads : task[u] = NoTask

Share(x) == MoE!Summand(x.row, ExpertOf(x), 0)
SharesOf(X) == {Share(x) : x \in X}

\* Thread t has added the shares of the down tasks own[t] to its buffer.
OwnInv(own) ==
    /\ \A t \in Threads : local_out[t] = SetToBag(SharesOf(own[t]))
    /\ \A t, u \in Threads : t # u => own[t] \cap own[u] = {}
    /\ \A x \in Forwards("down") : x \in ran <=> \E t \in Threads : x \in own[t]

DataInv ==
    node # "idle" =>
        /\ Preprocess \in ran =>
             ready /\ \E own \in [Threads -> SUBSET Forwards("down")] : OwnInv(own)
        /\ output = IF Reduce \in ran THEN MoE!WeightedSum(expert_ids) ELSE EmptyBag

IInv ==
    TypeInv /\ StageInv /\ MatrixInv /\ HoldInv /\ LayerInv /\ EndInv /\ DataInv

-----------------------------------------------------------------------------
(* The stages of a layer and the barrier.                                  *)

LEMMA EnterTogether ==
  ASSUME TypeInv, Together, NEW t \in Threads, Sync!Enter(t)
  PROVE  /\ Together' /\ t \notin inside /\ t \in inside' /\ waits'[t] = waits[t] + 1
         /\ waits' \in [Threads -> Nat] /\ inside' \subseteq Threads
         /\ \A u \in Threads \ {t} : waits'[u] = waits[u] /\ (u \in inside' <=> u \in inside)
<1>1. /\ waits \in [Threads -> Nat] /\ inside \subseteq Threads /\ t \notin inside
      /\ inside' = inside \cup {t} /\ waits' = [waits EXCEPT ![t] = waits[t] + 1]
  BY DEF TypeInv, Sync!Enter
<1>2. /\ waits'[t] = waits[t] + 1 /\ waits' \in [Threads -> Nat]
      /\ \A u \in Threads \ {t} : waits'[u] = waits[u] /\ (u \in inside' <=> u \in inside)
  BY <1>1
<1>3. \A u \in Threads : waits[u] \in Nat
  BY <1>1
<1>4. \A u, v \in Threads : waits'[u] > waits'[v] => waits'[u] = waits'[v] + 1 /\ u \in inside'
  BY <1>1, <1>2, <1>3 DEF Together
<1> QED BY <1>1, <1>2, <1>4 DEF Together

LEMMA LeaveTogether ==
  ASSUME TypeInv, Together, NEW t \in Threads, Sync!Leave(t)
  PROVE  /\ Together' /\ t \in inside /\ t \notin inside' /\ waits' = waits
         /\ inside' \subseteq Threads
         /\ \A u \in Threads : waits[u] >= waits[t]
         /\ \A u \in Threads \ {t} : u \in inside' <=> u \in inside
<1>1. /\ waits \in [Threads -> Nat] /\ inside \subseteq Threads /\ t \in inside
      /\ inside' = inside \ {t} /\ waits' = waits /\ \A u \in Threads : waits[u] >= waits[t]
  BY DEF TypeInv, Sync!Leave
<1>2. \A u \in Threads : waits[u] \in Nat
  BY <1>1
<1>3. \A u, v \in Threads : waits'[u] > waits'[v] => waits'[u] = waits'[v] + 1 /\ u \in inside'
  BY <1>1, <1>2 DEF Together
<1> QED BY <1>1, <1>3 DEF Together

\* A thread that is through the first barrier knows that thread 0 has
\* scheduled the preprocess task, and that nobody has begun the next layer.
LEMMA WhileRunning ==
  ASSUME TypeInv, StageInv, NEW t \in Threads,
         pc[t] \in {"run", "task", "notify", "leave", "reset", "done"}
  PROVE  node = "forward" /\ pc[Main] \notin {"node", "arrive"}
<1>1. /\ node = "forward" /\ Placed(t) /\ Placed(Main) /\ Together
      /\ waits[t] \in Nat /\ waits[Main] \in Nat /\ layer \in Nat /\ Main \in Threads
  BY Constants DEF StageInv, TypeInv
<1>2. CASE pc[t] \in {"run", "task", "notify"}
  <2>1. waits[t] = 2 * layer - 1 /\ t \notin inside
    BY <1>1, <1>2 DEF Placed
  <2>2. ~(waits[t] > waits[Main])
    BY <1>1, <2>1 DEF Together
  <2> QED BY <1>1, <2>1, <2>2 DEF Placed
<1>3. CASE pc[t] \in {"leave", "reset", "done"}
  <2>1. waits[t] = 2 * layer
    BY <1>1, <1>3 DEF Placed
  <2>2. waits[Main] > waits[t] - 2
    BY <1>1 DEF Together
  <2> QED BY <1>1, <2>1, <2>2 DEF Placed
<1> QED BY <1>2, <1>3

LEMMA PlacedStays ==
  ASSUME NEW u \in Threads, Placed(u), pc'[u] = pc[u], layer' = layer,
         waits'[u] = waits[u], u \in inside' <=> u \in inside
  PROVE  Placed(u)'
BY DEF Placed

\* A step of one thread keeps StageInv if it keeps the thread at a place.
LEMMA StepStageInv ==
  ASSUME TypeInv, StageInv, node = "forward", node' = node, layer' = layer,
         NEW t \in Threads, NEW label, pc' = [pc EXCEPT ![t] = label],
         \A u \in Threads \ {t} : waits'[u] = waits[u] /\ (u \in inside' <=> u \in inside),
         Placed(t)', Together', pc[t] # "done",
         IF t = Main /\ label = "done" THEN layer_data' = FALSE ELSE layer_data' = layer_data
  PROVE  StageInv'
<1>1. pc'[t] = label /\ \A u \in Threads \ {t} : pc'[u] = pc[u]
  BY DEF TypeInv
<1>2. \A u \in Threads : Placed(u)'
  BY <1>1, PlacedStays DEF StageInv
<1>3. layer_data' <=> node' # "idle" /\ pc'[Main] # "done"
  BY <1>1, Constants DEF StageInv, TypeInv
<1> QED BY <1>2, <1>3 DEF StageInv

LEMMA NextStageInv ==
  ASSUME TypeInv, StageInv, [Next]_vars
  PROVE  StageInv'
<1>1. /\ pc \in [Threads -> Labels] /\ waits \in [Threads -> Nat] /\ inside \subseteq Threads
      /\ layer \in 0..NLayers /\ NLayers \in Nat /\ Main \in Threads
  BY Constants DEF TypeInv
<1>2. ASSUME node' = node, layer' = layer, layer_data' = layer_data, pc' = pc, waits' = waits,
             inside' = inside
      PROVE  StageInv'
  <2>1. \A t \in Threads : Placed(t)' <=> Placed(t)
    BY <1>2 DEF Placed
  <2>2. Together' <=> Together
    BY <1>2 DEF Together
  <2> QED BY <1>2, <2>1, <2>2 DEF StageInv
<1>3. CASE UNCHANGED vars
  BY <1>2, <1>3 DEF vars, buildVars, runVars, syncVars
<1>4. CASE StartGraph
  <2>1. /\ node = "idle" /\ node' = node /\ layer' = 0 /\ layer_data' = layer_data /\ pc' = pc
        /\ inside' = inside /\ \A t \in Threads : waits'[t] = 0
    BY <1>4 DEF StartGraph, runVars, Sync!Restart
  <2> QED BY <1>1, <2>1 DEF StageInv
<1>5. ASSUME NEW ids \in MoE!Routings, StartLayer(ids) PROVE StageInv'
  <2>1. /\ node = "idle" /\ node' = "build" /\ layer' = layer + 1 /\ layer_data' = TRUE
        /\ pc' = pc /\ waits' = waits /\ inside' = inside
    BY <1>5 DEF StartLayer, runVars, syncVars
  <2>2. inside = {} /\ \A t \in Threads : waits[t] = 2 * layer /\ pc[t] = "node"
    BY <2>1 DEF StageInv
  <2>3. \A t \in Threads : Placed(t)'
    BY <1>1, <2>1, <2>2 DEF Placed
  <2>4. Together'
    BY <1>1, <2>1, <2>2 DEF Together
  <2> QED BY <1>1, <2>1, <2>2, <2>3, <2>4 DEF StageInv
<1>6. CASE EndBuild
  <2>1. /\ node = "build" /\ node' = "forward" /\ layer' = layer /\ layer_data' = layer_data
        /\ pc' = pc /\ waits' = waits /\ inside' = inside
    BY <1>6 DEF EndBuild, runVars, syncVars
  <2>2. \A t \in Threads : Placed(t)'
    BY <2>1 DEF Placed, StageInv
  <2>3. Together'
    BY <2>1 DEF Together, StageInv
  <2> QED BY <2>1, <2>2, <2>3 DEF StageInv
<1>7. CASE IO \/ \E e \in Experts, i \in 1..3 : ExaminePresent(e, i) \/ ExamineLoading(e, i)
  BY <1>2, <1>7 DEF IO, Arrive, Release, ExaminePresent, ExamineLoading, buildVars, runVars,
                    syncVars
<1>8. CASE EndNode
  <2>1. /\ node' = "idle" /\ layer' = layer /\ layer_data' = layer_data /\ waits' = waits
        /\ inside' = inside /\ \A t \in Threads : pc[t] = "done" /\ pc'[t] = "node"
    BY <1>8 DEF EndNode, syncVars
  <2>2. node = "forward"
    BY <1>1, <2>1 DEF StageInv
  <2>3. \A t \in Threads : waits[t] = 2 * layer /\ t \notin inside
    BY <2>1, <2>2 DEF StageInv, Placed
  <2>4. inside = {}
    BY <1>1, <2>3
  <2> QED BY <1>1, <2>1, <2>3, <2>4 DEF StageInv
<1>9. ASSUME NEW t \in Threads, Thread(t) PROVE StageInv'
  <2>1. node = "forward" /\ node' = node /\ layer' = layer
    BY <1>1, <1>9 DEF Thread, EnterRun, BeginRun, Pop, RunTask, Finish, Notify, EndRun, EndForward,
                SchedulePreprocess, ResetLayer, buildVars, StageInv
  <2>2. Placed(t) /\ Together /\ waits[t] \in Nat /\ layer \in Nat
    BY <1>1, <2>1 DEF StageInv
  <2>3. CASE EnterRun(t) \/ EndRun(t)
    <3>1. PICK label \in {"enter", "leave"} :
            /\ pc' = [pc EXCEPT ![t] = label] /\ Sync!Enter(t) /\ layer_data' = layer_data
            /\ IF label = "enter" THEN pc[t] \in {"arrive", "node"} ELSE pc[t] = "run"
      BY <2>3 DEF EnterRun, EndRun, buildVars
    <3>2. /\ Together' /\ t \in inside' /\ waits'[t] = waits[t] + 1
          /\ \A u \in Threads \ {t} : waits'[u] = waits[u] /\ (u \in inside' <=> u \in inside)
      BY <2>2, <3>1, EnterTogether
    <3>3. Placed(t)'
      BY <1>1, <2>1, <2>2, <3>1, <3>2 DEF Placed
    <3> QED BY <2>1, <3>1, <3>2, <3>3, StepStageInv
  <2>4. CASE BeginRun(t) \/ EndForward(t)
    <3>1. PICK label \in {"run", "reset", "done"} :
            /\ pc' = [pc EXCEPT ![t] = label] /\ Sync!Leave(t) /\ layer_data' = layer_data
            /\ pc[t] = IF label = "run" THEN "enter" ELSE "leave"
            /\ label = "reset" => t = Main
            /\ label = "done" => t # Main
      BY <2>4 DEF BeginRun, EndForward, buildVars
    <3>2. /\ Together' /\ t \notin inside' /\ waits' = waits
          /\ \A u \in Threads \ {t} : u \in inside' <=> u \in inside
      BY <2>2, <3>1, LeaveTogether
    <3>3. Placed(t)'
      BY <1>1, <2>1, <2>2, <3>1, <3>2 DEF Placed
    <3> QED BY <2>1, <3>1, <3>2, <3>3, StepStageInv
  <2>5. CASE Pop(t) \/ RunTask(t) \/ Finish(t) \/ (t = Main /\ (SchedulePreprocess \/ ResetLayer))
    <3>1. PICK label \in {"task", "notify", "run", "arrive", "done"} :
            /\ pc' = [pc EXCEPT ![t] = label] /\ waits' = waits /\ inside' = inside
            /\ IF label = "done" THEN t = Main /\ pc[t] = "reset" /\ layer_data' = FALSE
               ELSE layer_data' = layer_data
            /\ label = "arrive" => t = Main /\ pc[t] = "node"
            /\ label \notin {"done", "arrive"} => pc[t] \in {"run", "task", "notify"}
      BY <2>5 DEF Pop, RunTask, Finish, SchedulePreprocess, ResetLayer, buildVars, syncVars
    <3>2. Together'
      BY <2>2, <3>1 DEF Together
    <3>3. Placed(t)'
      BY <1>1, <2>1, <2>2, <3>1 DEF Placed
    <3> QED BY <2>1, <3>1, <3>2, <3>3, StepStageInv
  <2>6. CASE \E x \in to_notify[t] : Notify(t, x)
    BY <1>2, <2>6 DEF Notify, buildVars, syncVars
  <2> QED BY <1>9, <2>3, <2>4, <2>5, <2>6 DEF Thread
<1> QED BY <1>3, <1>4, <1>5, <1>6, <1>7, <1>8, <1>9 DEF Next, Build

-----------------------------------------------------------------------------
(* The counts, the queue and the number of unfinished tasks.               *)

CountTypes ==
    /\ n_prev_tasks \in [Tasks -> Nat]
    /\ task_queue \in Seq(Tasks)
    /\ n_unfinished_tasks \in Nat

\* What a step within a layer does with them; a count that is zero stays zero.
CountsKept ==
    /\ LayerInv' /\ CountTypes'
    /\ \A x \in Tasks : n_prev_tasks[x] = 0 => n_prev_tasks'[x] = 0

LEMMA OwedFacts ==
  ASSUME NEW x
  PROVE  /\ Untold(x) \subseteq Tasks /\ Cardinality(Untold(x)) \in Nat /\ Owed(x) \in Nat
         /\ Owed(x) = 0 => x \in Scheduled /\ ~Waiting(x) /\ \A y \in PrevTasks(x) : Told(y, x)
<1>1. Untold(x) \subseteq Tasks
  BY DEF Untold, PrevTasks
<1>2. Cardinality(Untold(x)) \in Nat /\ (Cardinality(Untold(x)) = 0 <=> Untold(x) = {})
  BY <1>1, CountTasks
<1>3. Untold(x) = {} => \A y \in PrevTasks(x) : Told(y, x)
  BY DEF Untold
<1> QED BY <1>1, <1>2, <1>3 DEF Owed

LEMMA OwedStays ==
  ASSUME NEW x, Untold(x)' = Untold(x), (x \in Scheduled)' <=> x \in Scheduled,
         Waiting(x)' <=> Waiting(x)
  PROVE  Owed(x)' = Owed(x)
BY DEF Owed

\* As long as the threads hold what they hold, who has told whom does not change.
LEMMA UntoldStays ==
  ASSUME ran' = ran, task' = task, to_notify' = to_notify
  PROVE  /\ \A x : Untold(x)' = Untold(x)
         /\ Held' = Held /\ Finished' = Finished
BY DEF Untold, Told, Held, Finished

\* on_prev_task_finished on tasks that have a count left.
LEMMA TellFacts ==
  ASSUME CountTypes, CountInv, QueueInv,
         \A x \in ran : n_prev_tasks[x] = 0,
         \A t \in Threads : task[t] \in Tasks => n_prev_tasks[task[t]] = 0,
         NEW T \in SUBSET Tasks, PrevTaskFinished(T), ran' = ran, Held' = Held,
         \A x \in T : Owed(x)' = Owed(x) - 1 /\ Owed(x) # 0,
         \A x \in Tasks \ T : Owed(x)' = Owed(x)
  PROVE  /\ CountInv' /\ QueueInv'
         /\ n_prev_tasks' \in [Tasks -> Nat] /\ task_queue' \in Seq(Tasks)
         /\ \A x \in Tasks : n_prev_tasks[x] = 0 => n_prev_tasks'[x] = 0
         /\ \A x \in T : n_prev_tasks[x] # 0
<1> DEFINE new == {x \in T : n_prev_tasks[x] = 1}
<1>1. /\ n_prev_tasks \in [Tasks -> Nat] /\ task_queue \in Seq(Tasks)
      /\ n_prev_tasks' = [x \in Tasks |->
                            IF x \in T THEN n_prev_tasks[x] - 1 ELSE n_prev_tasks[x]]
      /\ task_queue' = task_queue \o SetToSeq(new)
  BY DEF CountTypes, PrevTaskFinished
<1>2. \A x \in Tasks : n_prev_tasks[x] = Owed(x) /\ n_prev_tasks[x] \in Nat
  BY <1>1 DEF CountInv
<1>3. \A x \in T : n_prev_tasks[x] # 0 /\ n_prev_tasks[x] - 1 \in Nat
  BY <1>2
<1>4. n_prev_tasks' \in [Tasks -> Nat]
  BY <1>1, <1>2, <1>3
<1>5. \A x \in Tasks : n_prev_tasks'[x] = Owed(x)'
  BY <1>1, <1>2
<1>6. CountInv'
  BY <1>5 DEF CountInv
<1>7. /\ SetToSeq(new) \in Seq(new) /\ IsInjective(SetToSeq(new)) /\ Range(SetToSeq(new)) = new
  <2>1. IsFiniteSet(new)
    BY CountTasks
  <2> HIDE DEF new
  <2> QED BY <2>1, SetToSeqFacts
<1>8. SetToSeq(new) \in Seq(Tasks)
  <2>1. new \subseteq Tasks
    OBVIOUS
  <2> HIDE DEF new
  <2> QED BY <1>7, <2>1
<1>9. Range(task_queue) \cap new = {}
  BY DEF QueueInv
<1>10. /\ task_queue' \in Seq(Tasks) /\ IsInjective(task_queue')
       /\ Range(task_queue') = Range(task_queue) \cup new
  <2> HIDE DEF new
  <2>1. IsInjective(task_queue)
    BY DEF QueueInv
  <2> QED BY <1>1, <1>7, <1>8, <1>9, <2>1, AppendFacts
<1>11. \A x \in new : x \in Tasks /\ x \notin ran /\ x \notin Held
  <2>1. \A x \in new : x \in Tasks /\ n_prev_tasks[x] # 0
    BY <1>3
  <2> HIDE DEF new
  <2> QED BY <2>1 DEF Held
<1>12. \A x \in Tasks : n_prev_tasks'[x] = 0 <=> n_prev_tasks[x] = 0 \/ x \in new
  <2> SUFFICES ASSUME NEW x \in Tasks
               PROVE  n_prev_tasks'[x] = 0 <=> n_prev_tasks[x] = 0 \/ x \in new
    OBVIOUS
  <2>1. CASE x \in T
    BY <1>1, <1>2, <1>3, <2>1
  <2>2. CASE x \notin T
    BY <1>1, <2>2
  <2> QED BY <2>1, <2>2
<1> HIDE DEF new
<1>13. Range(task_queue') = {x \in Tasks : n_prev_tasks'[x] = 0} \ (ran \cup Held)
  BY <1>10, <1>11, <1>12 DEF QueueInv
<1>14. QueueInv'
  BY <1>10, <1>13 DEF QueueInv
<1> QED BY <1>3, <1>4, <1>6, <1>10, <1>12, <1>14

\* The tasks that are scheduled are counted as unfinished.
LEMMA ScheduleTotal ==
  ASSUME TotalInv, Scheduled \subseteq Tasks,
         NEW T \in SUBSET Tasks, T \cap Scheduled = {}, Scheduled' = Scheduled \cup T,
         T \cap Finished = {}, Finished' = Finished,
         n_unfinished_tasks' = n_unfinished_tasks + Cardinality(T)
  PROVE  TotalInv'
<1>1. PICK A : A = Scheduled \ Finished
  OBVIOUS
<1>2. A \subseteq Tasks /\ A \cap T = {} /\ Scheduled' \ Finished' = A \cup T
  BY <1>1
<1>3. IsFiniteSet(A) /\ IsFiniteSet(T) /\ Cardinality(A) \in Nat /\ Cardinality(T) \in Nat
  BY <1>2, CountTasks
<1>4. Cardinality(A \cup T) = Cardinality(A) + Cardinality(T) - Cardinality(A \cap T)
  BY <1>3, FS_Union
<1>5. Cardinality(A \cap T) = 0
  BY <1>2, FS_EmptySet
<1>6. n_unfinished_tasks = Cardinality(A)
  BY <1>1 DEF TotalInv
<1>7. Cardinality(A \cup T) = Cardinality(A) + Cardinality(T)
  BY <1>3, <1>4, <1>5
<1>8. Cardinality(Scheduled' \ Finished') = Cardinality(A \cup T)
  BY <1>2
<1>9. n_unfinished_tasks' = Cardinality(Scheduled' \ Finished')
  BY <1>6, <1>7, <1>8
<1> QED BY <1>9 DEF TotalInv

\* TaskQueue::schedule on tasks that are not scheduled yet.
LEMMA ScheduleFacts ==
  ASSUME CountTypes, CountInv, QueueInv, TotalInv, HoldInv, node # "idle", node' # "idle",
         ran \subseteq Tasks,
         NEW T \in SUBSET Tasks, T \cap Scheduled = {}, Scheduled' = Scheduled \cup T,
         Scheduled \subseteq Tasks,
         Schedule(T), ran' = ran, task' = task, to_notify' = to_notify,
         \A x : Waiting(x)' <=> Waiting(x)
  PROVE  CountsKept
<1>1. PrevTaskFinished(T) /\ n_unfinished_tasks' = n_unfinished_tasks + Cardinality(T)
  BY DEF Schedule
<1>2. /\ \A x : Untold(x)' = Untold(x)
      /\ Held' = Held /\ Finished' = Finished
  BY UntoldStays
<1>3. \A x \in T : Owed(x)' = Owed(x) - 1 /\ Owed(x) # 0
  <2> SUFFICES ASSUME NEW x \in T PROVE Owed(x)' = Owed(x) - 1 /\ Owed(x) # 0
    OBVIOUS
  <2>1. x \notin Scheduled /\ (x \in Scheduled)'
    OBVIOUS
  <2>2. PICK n \in Nat : n = Cardinality(Untold(x))
    BY OwedFacts
  <2>3. Cardinality(Untold(x))' = n
    BY <1>2, <2>2
  <2> QED BY <2>1, <2>2, <2>3 DEF Owed
<1>4. \A x \in Tasks \ T : Owed(x)' = Owed(x)
  BY <1>2, OwedStays
<1>5. /\ CountInv' /\ QueueInv'
      /\ n_prev_tasks' \in [Tasks -> Nat] /\ task_queue' \in Seq(Tasks)
      /\ \A x \in Tasks : n_prev_tasks[x] = 0 => n_prev_tasks'[x] = 0
      /\ \A x \in T : n_prev_tasks[x] # 0
  BY <1>1, <1>2, <1>3, <1>4, TellFacts DEF HoldInv
<1>6. T \cap Finished = {}
  BY <1>5 DEF Finished, HoldInv
<1>7. TotalInv'
  BY <1>1, <1>2, <1>6, ScheduleTotal
<1>8. n_unfinished_tasks' \in Nat
  BY <1>1, CountTasks DEF CountTypes
<1> QED BY <1>5, <1>7, <1>8 DEF CountsKept, LayerInv, CountTypes

LEMMA MatrixFacts ==
  ASSUME TypeInv
  PROVE  /\ \A x \in ForwardTasks : MatrixOf(x) \in Matrices
         /\ \A m : TasksOf(m) \subseteq ForwardTasks
         /\ Scheduled \subseteq Tasks
<1>1. \A x \in ForwardTasks : x.row \in Rows /\ x.index \in 1..NUsed /\ x.kind \in FwdKinds
  BY ForwardFacts DEF FwdKinds
<1>2. \A r \in Rows : \A j \in 1..NUsed : expert_ids[r][j] \in Experts
  BY DEF TypeInv, MoE!Routings, MoE!Selections
<1>3. \A x \in ForwardTasks : MatrixOf(x) \in Matrices
  BY <1>1, <1>2 DEF MatrixOf, ExpertOf, Matrices, FwdKinds
<1>4. \A m : TasksOf(m) \subseteq ForwardTasks
  BY DEF TasksOf
<1>5. Scheduled \subseteq Tasks
  BY TaskFacts DEF Scheduled
<1> QED BY <1>3, <1>4, <1>5

\* As long as the routing does not change, neither do the matrices of the tasks.
LEMMA RoutingStays ==
  ASSUME expert_ids' = expert_ids
  PROVE  /\ \A x : MatrixOf(x)' = MatrixOf(x)
         /\ \A m : TasksOf(m)' = TasksOf(m)
         /\ \A X : SharesOf(X)' = SharesOf(X)
<1>1. \A x : ExpertOf(x)' = ExpertOf(x)
  BY DEF ExpertOf
<1>2. \A x : MatrixOf(x)' = MatrixOf(x)
  BY <1>1 DEF MatrixOf
<1>3. \A x : Share(x)' = Share(x)
  BY <1>1 DEF Share, MoE!Summand
<1> QED BY <1>2, <1>3 DEF TasksOf, SharesOf

\* The matrix build_tasks visits next.
LEMMA ExamineFacts ==
  ASSUME TypeInv, NEW e \in Experts, NEW i \in 1..3, IsNext(e, i)
  PROVE  /\ <<e, Kinds[i]>> \in Matrices \ examined
         /\ TasksOf(<<e, Kinds[i]>>) # {}
<1>1. Kinds[i] \in FwdKinds
  BY DEF Kinds, FwdKinds
<1>2. <<e, Kinds[i]>> \in Matrices \ examined
  BY <1>1 DEF Matrices, FwdKinds, IsNext, Unexamined
<1>3. PICK rj \in Rows \X (1..NUsed) : expert_ids[rj[1]][rj[2]] = e
  <2> SUFFICES ASSUME \A rj \in Rows \X (1..NUsed) : expert_ids[rj[1]][rj[2]] # e PROVE FALSE
    OBVIOUS
  <2>1. {rj \in Rows \X (1..NUsed) : expert_ids[rj[1]][rj[2]] = e} = {}
    OBVIOUS
  <2>2. ActivationCount(e) = 0
    BY <2>1, FS_EmptySet DEF ActivationCount
  <2> QED BY <2>2 DEF IsNext
<1> DEFINE x == [kind |-> Kinds[i], row |-> rj[1], index |-> rj[2]]
<1>4. x \in Forwards(Kinds[i])
  BY <1>3 DEF Forwards
<1>5. x \in ForwardTasks
  BY <1>1, <1>4, ForwardFacts DEF FwdKinds
<1>6. MatrixOf(x) = <<e, Kinds[i]>>
  BY <1>3 DEF MatrixOf, ExpertOf
<1> QED BY <1>2, <1>5, <1>6 DEF TasksOf

\* build_tasks keeps the counts.
LEMMA BuildCounts ==
  ASSUME TypeInv, StageInv, MatrixInv, HoldInv, LayerInv, Build
  PROVE  CountsKept
<1>1. node = "build" /\ node' \in {"build", "forward"}
  BY DEF Build, EndBuild, ExaminePresent, ExamineLoading
<1>2. /\ CountTypes /\ CountInv /\ QueueInv /\ TotalInv /\ ran \subseteq Tasks
      /\ Scheduled \subseteq Tasks /\ pc[Main] = "node"
  BY <1>1, MatrixFacts, Constants DEF TypeInv, LayerInv, CountTypes, StageInv
<1>3. ASSUME NEW e \in Experts, NEW i \in 1..3, ExaminePresent(e, i) \/ ExamineLoading(e, i)
      PROVE  CountsKept
  <2>1. PICK m \in Matrices : m = <<e, Kinds[i]>> /\ m \notin examined
    BY <1>3, ExamineFacts DEF ExaminePresent, ExamineLoading
  <2>2. PICK T \in SUBSET Tasks : T = TasksOf(m)
    BY MatrixFacts, TaskFacts
  <2>3. /\ examined' = examined \cup {m} /\ node' = node /\ expert_ids' = expert_ids /\ pc' = pc
        /\ ran' = ran /\ task' = task /\ to_notify' = to_notify
        /\ n_unfinished_tasks' = n_unfinished_tasks + Cardinality(T)
    BY <1>3, <2>1, <2>2 DEF ExaminePresent, ExamineLoading, Schedule, runVars, dataVars
  <2>4. T \cap Scheduled = {} /\ Scheduled' = Scheduled \cup T
    <3>1. T = {x \in ForwardTasks : MatrixOf(x) = m}
      BY <2>2 DEF TasksOf
    <3>2. {x \in ForwardTasks : MatrixOf(x)' \in examined'}
            = {x \in ForwardTasks : MatrixOf(x) \in examined} \cup T
      BY <2>3, <3>1, RoutingStays
    <3>3. /\ Scheduled = {x \in ForwardTasks : MatrixOf(x) \in examined}
          /\ Scheduled' = {x \in ForwardTasks : MatrixOf(x)' \in examined'}
      BY <1>1, <2>3 DEF Scheduled, ForwardTasks, Forwards
    <3> QED BY <2>1, <3>1, <3>2, <3>3
  <2>5. CASE ExaminePresent(e, i)
    <3>1. Schedule(T) /\ pending' = pending
      BY <2>1, <2>2, <2>5 DEF ExaminePresent, cacheVars
    <3>2. \A x : Waiting(x)' <=> Waiting(x)
      BY <3>1 DEF Waiting, Matrices
    <3> QED BY <1>1, <1>2, <2>3, <2>4, <3>1, <3>2, ScheduleFacts
  <2>6. CASE ExamineLoading(e, i)
    <3>1. /\ n_prev_tasks' = n_prev_tasks /\ task_queue' = task_queue
          /\ pending' = [pending EXCEPT ![m] = T]
      BY <2>1, <2>2, <2>6 DEF ExamineLoading
    <3>2. \A x \in T : ~Waiting(x) /\ Waiting(x)'
      <4>1. \A x \in T : \A k \in Matrices : x \in pending[k] => k = m
        BY <2>2 DEF MatrixInv, TasksOf
      <4>2. pending[m] = {} /\ pending'[m] = T
        BY <2>1, <3>1 DEF MatrixInv, TypeInv
      <4> QED BY <2>1, <4>1, <4>2 DEF Waiting, Matrices
    <3>3. \A x : x \notin T => (Waiting(x)' <=> Waiting(x))
      <4>1. pending[m] = {} /\ pending'[m] = T /\ \A k \in Matrices \ {m} : pending'[k] = pending[k]
        BY <2>1, <3>1 DEF MatrixInv, TypeInv
      <4> QED BY <2>1, <4>1 DEF Waiting, Matrices
    <3>4. /\ \A x : Untold(x)' = Untold(x)
          /\ Held' = Held /\ Finished' = Finished
      BY <2>3, UntoldStays
    <3>5. ASSUME NEW x \in Tasks PROVE Owed(x)' = Owed(x)
      <4>1. CASE x \in T
        <5>1. x \notin Scheduled /\ (x \in Scheduled)'
          BY <2>4, <4>1
        <5>2. PICK n \in Nat : n = Cardinality(Untold(x))
          BY OwedFacts
        <5>3. Cardinality(Untold(x))' = n
          BY <3>4, <5>2
        <5> QED BY <3>2, <4>1, <5>1, <5>2, <5>3 DEF Owed
      <4>2. CASE x \notin T
        BY <2>4, <3>3, <3>4, <4>2, OwedStays
      <4> QED BY <4>1, <4>2
    <3>6. CountInv'
      BY <1>2, <3>1, <3>5 DEF CountInv
    <3>7. QueueInv'
      BY <1>2, <2>3, <3>1, <3>4 DEF QueueInv
    <3>8. T \cap Finished = {}
      <4>1. \A x \in T : n_prev_tasks[x] # 0
        BY <1>2, <2>4, OwedFacts DEF CountInv
      <4> QED BY <1>1, <4>1 DEF Finished, HoldInv
    <3>9. TotalInv'
      <4>1. /\ TotalInv /\ Scheduled \subseteq Tasks /\ Finished' = Finished
            /\ n_unfinished_tasks' = n_unfinished_tasks + Cardinality(T)
        BY <1>2, <2>3, <3>4
      <4> QED BY <2>4, <3>8, <4>1, ScheduleTotal
    <3>10. CountTypes'
      BY <1>2, <2>3, <3>1, CountTasks DEF CountTypes
    <3> QED BY <1>1, <2>3, <3>1, <3>6, <3>7, <3>9, <3>10 DEF CountsKept, LayerInv
  <2> QED BY <1>3, <2>5, <2>6
<1>4. CASE EndBuild
  <2>1. /\ Schedule({Reduce}) /\ node' = "forward" /\ expert_ids' = expert_ids
        /\ examined' = examined /\ pending' = pending /\ pc' = pc
        /\ ran' = ran /\ task' = task /\ to_notify' = to_notify
    BY <1>4 DEF EndBuild, cacheVars, runVars, dataVars
  <2>2. \A x : MatrixOf(x)' = MatrixOf(x)
    BY <2>1, RoutingStays
  <2>3. {Reduce} \cap Scheduled = {} /\ Scheduled' = Scheduled \cup {Reduce}
    BY <1>1, <1>2, <2>1, <2>2, TaskFacts DEF Scheduled
  <2>4. \A x : Waiting(x)' <=> Waiting(x)
    BY <2>1 DEF Waiting
  <2>5. {Reduce} \in SUBSET Tasks
    BY TaskFacts
  <2> QED BY <1>1, <1>2, <2>1, <2>3, <2>4, <2>5, ScheduleFacts
<1> QED BY <1>3, <1>4 DEF Build

LEMMA ScheduledStays ==
  ASSUME node' = node, examined' = examined, expert_ids' = expert_ids,
         pc'[Main] = "node" <=> pc[Main] = "node"
  PROVE  Scheduled' = Scheduled
BY RoutingStays DEF Scheduled

\* The IO worker releases a task.
LEMMA ReleaseCounts ==
  ASSUME TypeInv, MatrixInv, HoldInv, LayerInv, NEW m \in Matrices, NEW x \in pending[m],
         Release(m, x)
  PROVE  CountsKept
<1>1. /\ node # "idle" /\ node' = node /\ PrevTaskFinished({x}) /\ x \in Tasks
      /\ pending' = [pending EXCEPT ![m] = pending[m] \ {x}]
      /\ n_unfinished_tasks' = n_unfinished_tasks
      /\ examined' = examined /\ expert_ids' = expert_ids /\ pc' = pc
      /\ ran' = ran /\ task' = task /\ to_notify' = to_notify
  BY TaskFacts DEF Release, LayerInv, buildVars, runVars, dataVars, TypeInv
<1>2. CountTypes /\ CountInv /\ QueueInv /\ TotalInv
  BY <1>1 DEF TypeInv, LayerInv, CountTypes
<1>3. /\ \A z : Untold(z)' = Untold(z)
      /\ Held' = Held /\ Finished' = Finished
  BY <1>1, UntoldStays
<1>4. Scheduled' = Scheduled
  BY <1>1, ScheduledStays
<1>5. Waiting(x) /\ ~Waiting(x)'
  <2>1. \A k \in Matrices : x \in pending[k] => k = m
    BY DEF MatrixInv, TasksOf
  <2>2. pending'[m] = pending[m] \ {x} /\ \A k \in Matrices \ {m} : pending'[k] = pending[k]
    BY <1>1 DEF TypeInv
  <2> QED BY <2>1, <2>2 DEF Waiting, Matrices
<1>6. \A z : z # x => (Waiting(z)' <=> Waiting(z))
  <2>1. pending'[m] = pending[m] \ {x} /\ \A k \in Matrices \ {m} : pending'[k] = pending[k]
    BY <1>1 DEF TypeInv
  <2> QED BY <2>1 DEF Waiting, Matrices
<1>7. \A z \in {x} : Owed(z)' = Owed(z) - 1 /\ Owed(z) # 0
  <2>1. PICK n \in Nat : n = Cardinality(Untold(x))
    BY OwedFacts
  <2>2. Cardinality(Untold(x))' = n
    BY <1>3, <2>1
  <2>3. (x \in Scheduled)' <=> x \in Scheduled
    BY <1>4
  <2>4. Owed(x)' = Owed(x) - 1 /\ Owed(x) # 0
    BY <1>5, <2>1, <2>2, <2>3 DEF Owed
  <2> QED BY <2>4
<1>8. \A z \in Tasks \ {x} : Owed(z)' = Owed(z)
  BY <1>3, <1>4, <1>6, OwedStays
<1>9. {x} \in SUBSET Tasks
  BY <1>1
<1>10. /\ CountInv' /\ QueueInv'
       /\ n_prev_tasks' \in [Tasks -> Nat] /\ task_queue' \in Seq(Tasks)
       /\ \A z \in Tasks : n_prev_tasks[z] = 0 => n_prev_tasks'[z] = 0
  BY <1>1, <1>2, <1>3, <1>7, <1>8, <1>9, TellFacts DEF HoldInv
<1> QED BY <1>1, <1>2, <1>3, <1>4, <1>10 DEF CountsKept, LayerInv, TotalInv, CountTypes

\* A thread tells one of the next tasks.
LEMMA NotifyCounts ==
  ASSUME TypeInv, HoldInv, LayerInv, NEW t \in Threads, NEW x \in to_notify[t], Notify(t, x)
  PROVE  CountsKept
<1>1. /\ pc[t] = "notify" /\ PrevTaskFinished({x})
      /\ to_notify' = [to_notify EXCEPT ![t] = to_notify[t] \ {x}]
      /\ n_unfinished_tasks' = n_unfinished_tasks /\ node' = node /\ pending' = pending
      /\ examined' = examined /\ expert_ids' = expert_ids /\ pc' = pc
      /\ ran' = ran /\ task' = task
  BY DEF Notify, buildVars, cacheVars, dataVars
<1>2. /\ task[t] \in Tasks /\ task[t] \in ran /\ x \in NextTasks(task[t]) /\ node = "forward"
      /\ \A u \in Threads \ {t} : task[u] # task[t]
  BY <1>1 DEF HoldInv
<1>3. CountTypes /\ CountInv /\ QueueInv /\ TotalInv /\ x \in Tasks
  BY <1>2, NextInTasks DEF TypeInv, LayerInv, CountTypes
<1>4. Held' = Held /\ Finished' = Finished
  BY <1>1 DEF Held, Finished
<1>5. Scheduled' = Scheduled
  BY <1>1, ScheduledStays
<1>6. \A z : Waiting(z)' <=> Waiting(z)
  BY <1>1 DEF Waiting
<1>7. /\ to_notify'[t] = to_notify[t] \ {x}
      /\ \A u \in Threads \ {t} : to_notify'[u] = to_notify[u]
  BY <1>1 DEF TypeInv
<1>8. \A z : z # x => Untold(z)' = Untold(z)
  BY <1>1, <1>7 DEF Untold, Told
<1>9. PICK y : y = task[t]
  OBVIOUS
<1>10. Untold(x)' = Untold(x) \ {y} /\ y \in Untold(x)
  <2>1. ~Told(y, x) /\ Told(y, x)'
    BY <1>1, <1>2, <1>7, <1>9 DEF Told
  <2>2. \A z : z # y => (Told(z, x)' <=> Told(z, x))
    BY <1>1, <1>7, <1>9 DEF Told
  <2>3. y \in PrevTasks(x)
    BY <1>2, <1>9 DEF PrevTasks
  <2> QED BY <2>1, <2>2, <2>3 DEF Untold
<1>11. \A z \in {x} : Owed(z)' = Owed(z) - 1 /\ Owed(z) # 0
  <2>1. PICK A \in SUBSET Tasks : A = Untold(x)
    BY OwedFacts
  <2>2. Cardinality(A \ {y}) = Cardinality(A) - 1 /\ Cardinality(A) \in Nat /\ Cardinality(A) # 0
    BY <1>10, <2>1, CountTasks
  <2>3. Cardinality(Untold(x)) = Cardinality(A) /\ Cardinality(Untold(x))' = Cardinality(A \ {y})
    BY <1>10, <2>1
  <2>4. (x \in Scheduled)' <=> x \in Scheduled
    BY <1>5
  <2>5. Owed(x)' = Owed(x) - 1 /\ Owed(x) # 0
    BY <1>6, <2>2, <2>3, <2>4 DEF Owed
  <2> QED BY <2>5
<1>12. \A z \in Tasks \ {x} : Owed(z)' = Owed(z)
  BY <1>5, <1>6, <1>8, OwedStays
<1>13. {x} \in SUBSET Tasks
  BY <1>3
<1>14. /\ CountInv' /\ QueueInv'
       /\ n_prev_tasks' \in [Tasks -> Nat] /\ task_queue' \in Seq(Tasks)
       /\ \A z \in Tasks : n_prev_tasks[z] = 0 => n_prev_tasks'[z] = 0
  BY <1>1, <1>2, <1>3, <1>4, <1>11, <1>12, <1>13, TellFacts DEF HoldInv
<1> QED BY <1>1, <1>2, <1>3, <1>4, <1>5, <1>14 DEF CountsKept, LayerInv, TotalInv, CountTypes

\* A step that leaves counts and queue alone and does not change what is owed.
LEMMA StillCounts ==
  ASSUME TypeInv, LayerInv, node # "idle", node' = node,
         n_prev_tasks' = n_prev_tasks, task_queue' = task_queue,
         \A x \in Tasks : Owed(x)' = Owed(x),
         ran' \cup (Held' \cap Tasks) = ran \cup (Held \cap Tasks),
         n_unfinished_tasks' \in Nat, TotalInv'
  PROVE  CountsKept
<1>1. CountTypes /\ CountInv /\ QueueInv
  BY DEF TypeInv, LayerInv, CountTypes
<1>2. CountInv'
  BY <1>1 DEF CountInv
<1>3. QueueInv'
  BY <1>1 DEF QueueInv
<1> QED BY <1>1, <1>2, <1>3 DEF CountsKept, LayerInv, CountTypes

\* A thread takes a task from the queue.
LEMMA PopCounts ==
  ASSUME TypeInv, HoldInv, LayerInv, NEW t \in Threads, Pop(t)
  PROVE  CountsKept /\ task'[t] \in Tasks \ (ran \cup Held) /\ n_prev_tasks[task'[t]] = 0
<1>1. /\ pc[t] = "run" /\ pc' = [pc EXCEPT ![t] = "task"] /\ task_queue # <<>>
      /\ task' = [task EXCEPT ![t] = Head(task_queue)] /\ task_queue' = Tail(task_queue)
      /\ n_prev_tasks' = n_prev_tasks /\ n_unfinished_tasks' = n_unfinished_tasks
      /\ node' = node /\ pending' = pending /\ to_notify' = to_notify
      /\ examined' = examined /\ expert_ids' = expert_ids /\ ran' = ran
  BY DEF Pop, buildVars, cacheVars, dataVars
<1>2. node # "idle"
  BY <1>1 DEF LayerInv
<1>3. CountTypes /\ CountInv /\ QueueInv /\ TotalInv
  BY <1>2 DEF TypeInv, LayerInv, CountTypes
<1>4. PICK y : y = Head(task_queue)
  OBVIOUS
<1>5. /\ task_queue' \in Seq(Tasks) /\ IsInjective(task_queue') /\ y \in Range(task_queue)
      /\ Range(task_queue') = Range(task_queue) \ {y}
  <2>1. task_queue \in Seq(Tasks) /\ IsInjective(task_queue)
    BY <1>3 DEF CountTypes, QueueInv
  <2> QED BY <1>1, <1>4, <2>1, TailFacts
<1>6. y \in Tasks /\ n_prev_tasks[y] = 0 /\ y \notin ran /\ y \notin Held
  BY <1>3, <1>5 DEF QueueInv
<1>7. /\ task'[t] = y /\ \A u \in Threads \ {t} : task'[u] = task[u]
      /\ task[t] \notin Tasks
  BY <1>1, <1>4 DEF TypeInv, HoldInv
<1>8. \A x : x \in Held' /\ x \in Tasks <=> x = y \/ (x \in Held /\ x \in Tasks)
  BY <1>6, <1>7 DEF Held
<1>9. Finished' = Finished
  <2>1. \A x \in ran : x # y /\ x \in Tasks
    BY <1>6 DEF TypeInv
  <2> QED BY <1>1, <1>7, <2>1 DEF Finished
<1>10. \A x : Untold(x)' = Untold(x)
  <2>1. ASSUME NEW x, NEW z \in Tasks PROVE Told(z, x)' <=> Told(z, x)
    <3>1. z \in ran => z # y /\ z # task[t]
      BY <1>6, <1>7, <2>1
    <3> QED BY <1>1, <1>7, <3>1 DEF Told
  <2> QED BY <2>1 DEF Untold, PrevTasks
<1>11. pc'[Main] = "node" <=> pc[Main] = "node"
  BY <1>1, Constants DEF TypeInv
<1>12. Scheduled' = Scheduled
  BY <1>1, <1>11, ScheduledStays
<1>13. \A x : Waiting(x)' <=> Waiting(x)
  BY <1>1 DEF Waiting
<1>14. \A x \in Tasks : Owed(x)' = Owed(x)
  BY <1>10, <1>12, <1>13, OwedStays
<1>15. CountInv'
  BY <1>1, <1>3, <1>14 DEF CountInv
<1>16. QueueInv'
  <2>1. {x \in Tasks : n_prev_tasks'[x] = 0} \ (ran' \cup Held')
          = ({x \in Tasks : n_prev_tasks[x] = 0} \ (ran \cup Held)) \ {y}
    BY <1>1, <1>8
  <2> QED BY <1>3, <1>5, <2>1 DEF QueueInv
<1>17. TotalInv'
  BY <1>1, <1>3, <1>9, <1>12 DEF TotalInv
<1>18. CountTypes'
  BY <1>1, <1>3, <1>5 DEF CountTypes
<1> QED BY <1>1, <1>2, <1>6, <1>7, <1>15, <1>16, <1>17, <1>18 DEF CountsKept, LayerInv

\* A thread runs its task.
LEMMA RunCounts ==
  ASSUME TypeInv, HoldInv, LayerInv, NEW t \in Threads, RunTask(t)
  PROVE  CountsKept
<1>1. /\ pc[t] = "task" /\ pc' = [pc EXCEPT ![t] = "notify"] /\ ran' = ran \cup {task[t]}
      /\ to_notify' = [to_notify EXCEPT ![t] = NextTasks(task[t])] /\ task' = task
      /\ n_prev_tasks' = n_prev_tasks /\ n_unfinished_tasks' = n_unfinished_tasks
      /\ task_queue' = task_queue /\ node' = node /\ pending' = pending
      /\ examined' = examined /\ expert_ids' = expert_ids
  BY DEF RunTask, buildVars, cacheVars, queueVars
<1>2. /\ task[t] \in Tasks /\ task[t] \notin ran /\ node # "idle"
      /\ \A u \in Threads \ {t} : task[u] # task[t]
  BY <1>1 DEF HoldInv
<1>3. /\ to_notify'[t] = NextTasks(task[t])
      /\ \A u \in Threads \ {t} : to_notify'[u] = to_notify[u]
  BY <1>1 DEF TypeInv
<1>4. Held' = Held /\ Finished' = Finished /\ task[t] \in Held
  BY <1>1, <1>2 DEF Held, Finished
<1>5. \A x : Untold(x)' = Untold(x)
  <2>1. ASSUME NEW x, NEW z, z \in PrevTasks(x) PROVE Told(z, x)' <=> Told(z, x)
    <3>1. CASE z = task[t]
      <4>1. x \in NextTasks(task[t])
        BY <2>1, <3>1 DEF PrevTasks
      <4> QED BY <1>1, <1>2, <1>3, <3>1, <4>1 DEF Told
    <3>2. CASE z # task[t]
      BY <1>1, <1>3, <3>2 DEF Told
    <3> QED BY <3>1, <3>2
  <2> QED BY <2>1 DEF Untold
<1>6. pc'[Main] = "node" <=> pc[Main] = "node"
  BY <1>1, Constants DEF TypeInv
<1>7. Scheduled' = Scheduled
  BY <1>1, <1>6, ScheduledStays
<1>8. \A x : Waiting(x)' <=> Waiting(x)
  BY <1>1 DEF Waiting
<1>9. \A x \in Tasks : Owed(x)' = Owed(x)
  BY <1>5, <1>7, <1>8, OwedStays
<1>10. ran' \cup (Held' \cap Tasks) = ran \cup (Held \cap Tasks)
  BY <1>1, <1>2, <1>4
<1>11. TotalInv' /\ n_unfinished_tasks' \in Nat
  BY <1>1, <1>2, <1>4, <1>7 DEF TotalInv, LayerInv, TypeInv
<1> QED BY <1>1, <1>2, <1>9, <1>10, <1>11, StillCounts

\* A thread counts its task as finished.
LEMMA FinishCounts ==
  ASSUME TypeInv, HoldInv, LayerInv, NEW t \in Threads, Finish(t)
  PROVE  CountsKept
<1>1. /\ pc[t] = "notify" /\ to_notify[t] = {} /\ pc' = [pc EXCEPT ![t] = "run"]
      /\ n_unfinished_tasks' = n_unfinished_tasks - 1 /\ task' = [task EXCEPT ![t] = NoTask]
      /\ to_notify' = to_notify /\ n_prev_tasks' = n_prev_tasks /\ task_queue' = task_queue
      /\ node' = node /\ pending' = pending /\ ran' = ran
      /\ examined' = examined /\ expert_ids' = expert_ids
  BY DEF Finish, buildVars, cacheVars, dataVars
<1>2. PICK y : y = task[t]
  OBVIOUS
<1>3. /\ y \in Tasks /\ y \in ran /\ n_prev_tasks[y] = 0 /\ node # "idle"
      /\ \A u \in Threads \ {t} : task[u] # y
  BY <1>1, <1>2 DEF HoldInv
<1>4. task'[t] = NoTask /\ \A u \in Threads \ {t} : task'[u] = task[u]
  BY <1>1 DEF TypeInv
<1>5. NoTask \notin Tasks /\ ran \subseteq Tasks
  BY Constants DEF TypeInv
<1>6. \A x : Untold(x)' = Untold(x)
  <2>1. ASSUME NEW x, NEW z \in Tasks PROVE Told(z, x)' <=> Told(z, x)
    BY <1>1, <1>2, <1>3, <1>4, <1>5, <2>1 DEF Told
  <2> QED BY <2>1 DEF Untold, PrevTasks
<1>7. pc'[Main] = "node" <=> pc[Main] = "node"
  BY <1>1, Constants DEF TypeInv
<1>8. Scheduled' = Scheduled
  BY <1>1, <1>7, ScheduledStays
<1>9. \A x : Waiting(x)' <=> Waiting(x)
  BY <1>1 DEF Waiting
<1>10. \A x \in Tasks : Owed(x)' = Owed(x)
  BY <1>6, <1>8, <1>9, OwedStays
<1>11. ran' \cup (Held' \cap Tasks) = ran \cup (Held \cap Tasks)
  <2>1. \A x \in Tasks : x \in Held' <=> x \in Held /\ x # y
    BY <1>2, <1>3, <1>4, <1>5 DEF Held
  <2> QED BY <1>1, <1>3, <2>1
<1>12. y \in Scheduled
  <2>1. Owed(y) = 0
    BY <1>3 DEF LayerInv, CountInv
  <2> QED BY <2>1, OwedFacts
<1>13. Finished' = Finished \cup {y} /\ y \notin Finished
  BY <1>1, <1>2, <1>3, <1>4, <1>5 DEF Finished
<1>14. TotalInv' /\ n_unfinished_tasks' \in Nat
  <2>1. PICK A : A = Scheduled \ Finished
    OBVIOUS
  <2>2. A \subseteq Tasks /\ y \in A /\ Scheduled' \ Finished' = A \ {y}
    BY <1>8, <1>12, <1>13, <2>1, MatrixFacts
  <2>3. /\ Cardinality(A \ {y}) = Cardinality(A) - 1 /\ Cardinality(A) \in Nat
        /\ Cardinality(A \ {y}) \in Nat
    BY <2>2, CountTasks
  <2>4. n_unfinished_tasks = Cardinality(A)
    BY <1>3, <2>1 DEF LayerInv, TotalInv
  <2>5. n_unfinished_tasks' = Cardinality(Scheduled' \ Finished')
    BY <1>1, <2>2, <2>3, <2>4
  <2> QED BY <2>2, <2>3, <2>5 DEF TotalInv
<1> QED BY <1>1, <1>3, <1>10, <1>11, <1>14, StillCounts

\* Thread 0 schedules the preprocess task.
LEMMA ScheduleCounts ==
  ASSUME TypeInv, HoldInv, LayerInv, SchedulePreprocess
  PROVE  CountsKept
<1>1. /\ node = "forward" /\ node' = node /\ pc[Main] = "node" /\ Schedule({Preprocess})
      /\ pc' = [pc EXCEPT ![Main] = "arrive"] /\ pending' = pending
      /\ examined' = examined /\ expert_ids' = expert_ids
      /\ ran' = ran /\ task' = task /\ to_notify' = to_notify
  BY DEF SchedulePreprocess, buildVars, cacheVars, dataVars
<1>2. /\ CountTypes /\ CountInv /\ QueueInv /\ TotalInv /\ ran \subseteq Tasks
      /\ Scheduled \subseteq Tasks
  BY <1>1, MatrixFacts DEF TypeInv, LayerInv, CountTypes
<1>3. pc'[Main] = "arrive"
  BY <1>1, Constants DEF TypeInv
<1>4. \A x : MatrixOf(x)' = MatrixOf(x)
  BY <1>1, RoutingStays
<1>5. {Preprocess} \cap Scheduled = {} /\ Scheduled' = Scheduled \cup {Preprocess}
  BY <1>1, <1>3, <1>4, TaskFacts DEF Scheduled
<1>6. \A x : Waiting(x)' <=> Waiting(x)
  BY <1>1 DEF Waiting
<1>7. {Preprocess} \in SUBSET Tasks
  BY TaskFacts
<1> QED BY <1>1, <1>2, <1>5, <1>6, <1>7, ScheduleFacts

\* A step that changes none of what the counts are about.
LEMMA QuietCounts ==
  ASSUME TypeInv, LayerInv, node' = node, n_prev_tasks' = n_prev_tasks,
         task_queue' = task_queue, n_unfinished_tasks' = n_unfinished_tasks,
         pending' = pending, examined' = examined, expert_ids' = expert_ids,
         ran' = ran, task' = task, to_notify' = to_notify,
         pc'[Main] = "node" <=> pc[Main] = "node"
  PROVE  CountsKept
<1>1. /\ \A x : Untold(x)' = Untold(x)
      /\ Held' = Held /\ Finished' = Finished
  BY UntoldStays
<1>2. Scheduled' = Scheduled
  BY ScheduledStays
<1>3. \A x : Waiting(x)' <=> Waiting(x)
  BY DEF Waiting
<1>4. \A x \in Tasks : Owed(x)' = Owed(x)
  BY <1>1, <1>2, <1>3, OwedStays
<1>5. CountTypes'
  BY DEF CountTypes, TypeInv
<1>6. CASE node # "idle"
  <2>1. CountInv /\ QueueInv /\ TotalInv
    BY <1>6 DEF LayerInv
  <2>2. CountInv'
    BY <1>4, <2>1 DEF CountInv
  <2>3. QueueInv'
    BY <1>1, <2>1 DEF QueueInv
  <2>4. TotalInv'
    BY <1>1, <1>2, <2>1 DEF TotalInv
  <2> QED BY <1>5, <1>6, <2>2, <2>3, <2>4 DEF CountsKept, LayerInv
<1>7. CASE node = "idle"
  BY <1>5, <1>7 DEF CountsKept, LayerInv
<1> QED BY <1>6, <1>7

\* build_tasks links the tasks of a new layer.
LEMMA StartCounts ==
  ASSUME TypeInv, StageInv, HoldInv, LayerInv, NEW ids, StartLayer(ids)
  PROVE  LayerInv' /\ CountTypes'
<1>1. /\ node = "idle" /\ node' = "build" /\ n_prev_tasks' = LinkedCounts /\ ran' = {}
      /\ examined' = {} /\ pending' = pending /\ task' = task /\ to_notify' = to_notify
      /\ task_queue' = task_queue /\ n_unfinished_tasks' = n_unfinished_tasks
  BY DEF StartLayer, cacheVars, runVars
<1>2. /\ task_queue = <<>> /\ n_unfinished_tasks = 0 /\ \A m \in Matrices : pending[m] = {}
  BY <1>1 DEF LayerInv
<1>3. ASSUME NEW x \in Tasks
      PROVE  LinkedCounts[x] = Owed(x)' /\ LinkedCounts[x] \in Nat /\ LinkedCounts[x] # 0
  <2>1. PICK A \in SUBSET Tasks : A = PrevTasks(x)
    BY DEF PrevTasks
  <2>2. Cardinality(A) \in Nat
    BY CountTasks
  <2>3. LinkedCounts[x] = 1 + Cardinality(A)
    BY <2>1 DEF LinkedCounts
  <2>4. Untold(x)' = A
    BY <1>1, <2>1 DEF Untold, Told
  <2>5. ~(x \in Scheduled)'
    BY <1>1 DEF Scheduled
  <2>6. ~Waiting(x)'
    BY <1>1, <1>2 DEF Waiting, Matrices
  <2>7. Owed(x)' = Cardinality(A) + 1 + 0
    BY <2>4, <2>5, <2>6 DEF Owed
  <2> QED BY <2>2, <2>3, <2>7
<1>4. n_prev_tasks' \in [Tasks -> Nat]
  <2>1. n_prev_tasks' = [x \in Tasks |-> LinkedCounts[x]]
    BY <1>1 DEF LinkedCounts
  <2> QED BY <1>3, <2>1
<1>5. CountInv'
  BY <1>1, <1>3 DEF CountInv
<1>6. QueueInv'
  <2>1. {x \in Tasks : n_prev_tasks'[x] = 0} = {}
    BY <1>1, <1>3
  <2>2. IsInjective(task_queue') /\ Range(task_queue') = {}
    BY <1>1, <1>2 DEF IsInjective, Range
  <2> QED BY <2>1, <2>2 DEF QueueInv
<1>7. TotalInv'
  <2>1. Scheduled' = {}
    BY <1>1 DEF Scheduled
  <2>2. Cardinality(Scheduled' \ Finished') = 0
    BY <2>1, FS_EmptySet
  <2> QED BY <1>1, <1>2, <2>2 DEF TotalInv
<1>8. task_queue' \in Seq(Tasks) /\ n_unfinished_tasks' \in Nat
  BY <1>1 DEF TypeInv
<1> QED BY <1>1, <1>4, <1>5, <1>6, <1>7, <1>8 DEF LayerInv, CountTypes

\* When every task is done nothing is left over for the next layer.
LEMMA DoneFacts ==
  ASSUME TypeInv, HoldInv, LayerInv, node # "idle", Tasks \subseteq ran,
         \A t \in Threads : task[t] = NoTask
  PROVE  /\ \A m \in Matrices : pending[m] = {}
         /\ task_queue = <<>> /\ n_unfinished_tasks = 0
<1>1. CountInv /\ QueueInv /\ TotalInv
  BY DEF LayerInv
<1>2. \A x \in Tasks : ~Waiting(x)
  <2>1. \A x \in Tasks : Owed(x) = 0
    BY <1>1 DEF HoldInv, CountInv
  <2> QED BY <2>1, OwedFacts
<1>3. \A m \in Matrices : pending[m] = {}
  BY <1>2, TaskFacts DEF TypeInv, Waiting
<1>4. task_queue = <<>>
  <2>1. Range(task_queue) = {} /\ task_queue \in Seq(Tasks)
    BY <1>1 DEF QueueInv, TypeInv
  <2>2. task_queue # <<>> => task_queue[1] \in Range(task_queue)
    BY <2>1 DEF Range
  <2> QED BY <2>1, <2>2
<1>5. n_unfinished_tasks = 0
  <2>1. Finished = ran
    BY Constants DEF Finished, TypeInv
  <2>2. Scheduled \ Finished = {}
    BY <2>1, MatrixFacts
  <2> QED BY <1>1, <2>2, FS_EmptySet DEF TotalInv
<1> QED BY <1>3, <1>4, <1>5

ZeroStays == node # "idle" => \A x \in Tasks : n_prev_tasks[x] = 0 => n_prev_tasks'[x] = 0

LEMMA NextLayerInv ==
  ASSUME TypeInv, StageInv, MatrixInv, HoldInv, LayerInv, EndInv, [Next]_vars
  PROVE  LayerInv' /\ CountTypes' /\ ZeroStays
<1>1. CountsKept => LayerInv' /\ CountTypes' /\ ZeroStays
  BY DEF CountsKept, ZeroStays
<1>2. CASE UNCHANGED vars
  BY <1>1, <1>2, QuietCounts DEF vars, buildVars, cacheVars, queueVars, runVars, dataVars
<1>3. CASE StartGraph
  BY <1>1, <1>3, QuietCounts DEF StartGraph, cacheVars, queueVars, runVars
<1>4. ASSUME NEW ids \in MoE!Routings, StartLayer(ids) PROVE LayerInv' /\ CountTypes' /\ ZeroStays
  BY <1>4, StartCounts DEF StartLayer, ZeroStays
<1>5. CASE Build
  BY <1>1, <1>5, BuildCounts
<1>6. CASE IO
  <2>1. ASSUME NEW m \in Matrices, Arrive(m) PROVE CountsKept
    BY <2>1, QuietCounts DEF Arrive, buildVars, queueVars, runVars, dataVars
  <2> QED BY <1>1, <1>6, <2>1, ReleaseCounts DEF IO
<1>7. CASE EndNode
  <2>1. /\ node' = "idle" /\ pending' = pending
        /\ n_prev_tasks' = n_prev_tasks /\ task_queue' = task_queue
        /\ n_unfinished_tasks' = n_unfinished_tasks
        /\ \A t \in Threads : pc[t] = "done"
    BY <1>7 DEF EndNode, cacheVars, queueVars
  <2>2. pc[Main] = "done" /\ node # "idle"
    BY <2>1, Constants DEF StageInv
  <2>3. Tasks \subseteq ran /\ \A t \in Threads : task[t] = NoTask
    BY <2>2, Constants DEF EndInv
  <2>4. /\ \A m \in Matrices : pending[m] = {}
        /\ task_queue = <<>> /\ n_unfinished_tasks = 0
    BY <2>2, <2>3, DoneFacts
  <2>5. LayerInv'
    BY <2>1, <2>4 DEF LayerInv, Matrices
  <2> QED BY <2>1, <2>5 DEF CountTypes, TypeInv, ZeroStays
<1>8. ASSUME NEW t \in Threads, Thread(t) PROVE CountsKept
  <2>1. CASE Pop(t)
    BY <2>1, PopCounts
  <2>2. CASE RunTask(t)
    BY <2>2, RunCounts
  <2>3. CASE Finish(t)
    BY <2>3, FinishCounts
  <2>4. CASE \E x \in to_notify[t] : Notify(t, x)
    BY <2>4, NotifyCounts
  <2>5. CASE SchedulePreprocess
    BY <2>5, ScheduleCounts
  <2>6. CASE \/ EnterRun(t) \/ BeginRun(t) \/ EndRun(t) \/ EndForward(t)
             \/ t = Main /\ ResetLayer
    <3>1. PICK label \in Labels :
            /\ pc' = [pc EXCEPT ![t] = label] /\ label # "node"
            /\ pc[t] = "node" => t # Main
      BY <2>6 DEF EnterRun, BeginRun, EndRun, EndForward, ResetLayer, Labels
    <3>2. pc'[Main] = "node" <=> pc[Main] = "node"
      BY <3>1, Constants DEF TypeInv
    <3> QED BY <2>6, <3>2, QuietCounts
            DEF EnterRun, BeginRun, EndRun, EndForward, ResetLayer, buildVars, cacheVars,
                queueVars, dataVars
  <2> QED BY <1>8, <2>1, <2>2, <2>3, <2>4, <2>5, <2>6 DEF Thread
<1> QED BY <1>1, <1>2, <1>3, <1>4, <1>5, <1>6, <1>7, <1>8 DEF Next

-----------------------------------------------------------------------------
(* The matrices, the tasks the threads hold, and the end of a layer.       *)

LEMMA MatrixStays ==
  ASSUME MatrixInv, node' = "forward" => node = "forward", examined' = examined,
         loading' = loading, pending' = pending, expert_ids' = expert_ids
  PROVE  MatrixInv'
BY RoutingStays DEF MatrixInv, Matrices

\* When build_tasks ends it has visited the matrices of all tasks.
LEMMA BuildEnds ==
  ASSUME TypeInv, EndBuild, NEW x \in ForwardTasks
  PROVE  MatrixOf(x) \in examined
<1> DEFINE e == ExpertOf(x)
           S == {rj \in Rows \X (1..NUsed) : expert_ids[rj[1]][rj[2]] = e}
<1>1. x.row \in Rows /\ x.index \in 1..NUsed /\ x.kind \in FwdKinds
  BY ForwardFacts DEF FwdKinds
<1>2. <<x.row, x.index>> \in S
  BY <1>1 DEF ExpertOf
<1>3. IsFiniteSet(S)
  <2>1. IsFiniteSet(1..NUsed)
    BY Constants, FS_Interval
  <2>2. IsFiniteSet(Rows \X (1..NUsed))
    BY <2>1, Constants, FS_Product
  <2> QED BY <2>2, FS_Subset
<1>4. Cardinality(S) \in Nat /\ Cardinality(S) # 0
  BY <1>2, <1>3, FS_CardinalityType, FS_EmptySet
<1>5. ActivationCount(e) > 0
  BY <1>4 DEF ActivationCount
<1>6. e \in Experts
  <2>1. MatrixOf(x) \in Matrices
    BY MatrixFacts
  <2> QED BY <2>1 DEF MatrixOf, Matrices
<1> HIDE DEF e, S
<1>7. Unexamined(e) = {}
  BY <1>5, <1>6 DEF EndBuild
<1>8. <<e, Kinds[1]>> \in examined /\ <<e, Kinds[2]>> \in examined /\ <<e, Kinds[3]>> \in examined
  BY <1>7 DEF Unexamined
<1>9. x.kind = Kinds[1] \/ x.kind = Kinds[2] \/ x.kind = Kinds[3]
  BY <1>1 DEF Kinds, FwdKinds
<1> QED BY <1>8, <1>9 DEF MatrixOf, e

\* Between two layers no matrix is on its way.
LEMMA NothingLoading ==
  ASSUME TypeInv, MatrixInv, LayerInv, node = "idle"
  PROVE  loading = {}
<1> SUFFICES ASSUME NEW m \in loading PROVE FALSE
  OBVIOUS
<1>1. m \in examined /\ m \in Matrices
  BY DEF TypeInv
<1> QED BY <1>1 DEF MatrixInv, LayerInv

LEMMA NextMatrixInv ==
  ASSUME TypeInv, StageInv, MatrixInv, LayerInv, [Next]_vars
  PROVE  /\ MatrixInv'
         /\ examined' \subseteq Matrices /\ loading' \subseteq examined'
         /\ pending' \in [Matrices -> SUBSET ForwardTasks]
<1> DEFINE Typed == /\ examined' \subseteq Matrices /\ loading' \subseteq examined'
                    /\ pending' \in [Matrices -> SUBSET ForwardTasks]
<1>1. /\ examined \subseteq Matrices /\ loading \subseteq examined
      /\ pending \in [Matrices -> SUBSET ForwardTasks]
  BY DEF TypeInv
<1>2. ASSUME examined' = examined, loading' = loading, pending' = pending,
             expert_ids' = expert_ids, node' = "forward" => node = "forward"
      PROVE  MatrixInv' /\ Typed
  BY <1>1, <1>2, MatrixStays
<1>3. CASE UNCHANGED vars \/ StartGraph \/ EndNode
  BY <1>2, <1>3 DEF vars, buildVars, cacheVars, StartGraph, EndNode
<1>4. ASSUME NEW t \in Threads, Thread(t) PROVE MatrixInv' /\ Typed
  BY <1>2, <1>4 DEF Thread, EnterRun, BeginRun, Pop, RunTask, Finish, Notify, EndRun, EndForward,
                    SchedulePreprocess, ResetLayer, buildVars, cacheVars
<1>5. ASSUME NEW ids \in MoE!Routings, StartLayer(ids) PROVE MatrixInv' /\ Typed
  <2>1. /\ node = "idle" /\ node' = "build" /\ examined' = {} /\ loading' = loading
        /\ pending' = pending
    BY <1>5 DEF StartLayer, cacheVars
  <2>2. loading = {} /\ \A m \in Matrices : pending[m] = {}
    BY <2>1, NothingLoading DEF LayerInv
  <2>3. MatrixInv'
    BY <2>1, <2>2 DEF MatrixInv, Matrices
  <2> QED BY <1>1, <2>1, <2>2, <2>3
<1>6. ASSUME NEW e \in Experts, NEW i \in 1..3, ExaminePresent(e, i) \/ ExamineLoading(e, i)
      PROVE  MatrixInv' /\ Typed
  <2>1. PICK m \in Matrices : m = <<e, Kinds[i]>> /\ m \notin examined /\ TasksOf(m) # {}
    BY <1>6, ExamineFacts DEF ExaminePresent, ExamineLoading
  <2>2. /\ examined' = examined \cup {m} /\ node = "build" /\ node' = node
        /\ expert_ids' = expert_ids
        /\ \/ loading' = loading /\ pending' = pending
           \/ loading' = loading \cup {m} /\ pending' = [pending EXCEPT ![m] = TasksOf(m)]
    BY <1>6, <2>1 DEF ExaminePresent, ExamineLoading, cacheVars
  <2>3. \A k : TasksOf(k)' = TasksOf(k)
    BY <2>2, RoutingStays
  <2>4. pending[m] = {} /\ m \notin loading /\ TasksOf(m) \subseteq ForwardTasks
    BY <1>1, <2>1, MatrixFacts DEF MatrixInv
  <2>5. Typed
    BY <1>1, <2>2, <2>4
  <2>6. \A k \in Matrices \ {m} : pending'[k] = pending[k]
    BY <1>1, <2>2
  <2>7. /\ m \in loading' => pending'[m] = TasksOf(m)
        /\ pending'[m] \subseteq TasksOf(m)
    BY <1>1, <2>2, <2>4
  <2>8. \A k \in Matrices : pending'[k] \subseteq TasksOf(k)'
    BY <2>3, <2>6, <2>7 DEF MatrixInv
  <2>9. \A k \in Matrices : k \notin examined' => pending'[k] = {}
    BY <2>2, <2>6 DEF MatrixInv
  <2>10. \A k \in loading' : pending'[k] = TasksOf(k)'
    BY <1>1, <2>2, <2>3, <2>6, <2>7 DEF MatrixInv
  <2>11. \A k \in examined' : TasksOf(k)' # {}
    BY <2>1, <2>2, <2>3 DEF MatrixInv
  <2> QED BY <2>2, <2>5, <2>8, <2>9, <2>10, <2>11 DEF MatrixInv, Matrices
<1>7. CASE EndBuild
  <2>1. /\ examined' = examined /\ loading' = loading /\ pending' = pending
        /\ expert_ids' = expert_ids
    BY <1>7 DEF EndBuild, cacheVars
  <2>2. \A x \in ForwardTasks : MatrixOf(x) \in examined
    BY <1>7, BuildEnds
  <2>3. MatrixInv'
    BY <2>1, <2>2, RoutingStays DEF MatrixInv, Matrices, ForwardTasks, Forwards
  <2> QED BY <1>1, <2>1, <2>3
<1>8. ASSUME NEW m \in Matrices, Arrive(m) PROVE MatrixInv' /\ Typed
  <2>1. /\ loading' = loading \ {m} /\ examined' = examined /\ pending' = pending
        /\ expert_ids' = expert_ids /\ node' = node
    BY <1>8 DEF Arrive, buildVars
  <2>2. MatrixInv'
    BY <2>1, RoutingStays DEF MatrixInv, Matrices
  <2> QED BY <1>1, <2>1, <2>2
<1>9. ASSUME NEW m \in Matrices, NEW x \in pending[m], Release(m, x) PROVE MatrixInv' /\ Typed
  <2>1. /\ m \notin loading /\ loading' = loading /\ examined' = examined
        /\ pending' = [pending EXCEPT ![m] = pending[m] \ {x}]
        /\ expert_ids' = expert_ids /\ node' = node
    BY <1>9 DEF Release, buildVars
  <2>2. /\ pending'[m] \subseteq pending[m]
        /\ \A k \in Matrices \ {m} : pending'[k] = pending[k]
    BY <1>1, <2>1
  <2>3. pending' \in [Matrices -> SUBSET ForwardTasks]
    BY <1>1, <2>1
  <2>4. \A k \in Matrices : pending'[k] \subseteq TasksOf(k)
    BY <2>2 DEF MatrixInv
  <2>5. \A k \in Matrices : k \notin examined => pending'[k] = {}
    BY <2>2 DEF MatrixInv
  <2>6. \A k \in loading : pending'[k] = TasksOf(k)
    BY <1>1, <2>1, <2>2 DEF MatrixInv
  <2>7. MatrixInv'
    BY <2>1, <2>4, <2>5, <2>6, RoutingStays DEF MatrixInv, Matrices, ForwardTasks, Forwards
  <2> QED BY <1>1, <2>1, <2>3, <2>7
<1> QED BY <1>3, <1>4, <1>5, <1>6, <1>7, <1>8, <1>9 DEF Next, Build, IO

\* A step in which no thread takes, runs or finishes a task.
LEMMA HoldStays ==
  ASSUME TypeInv, HoldInv, ZeroStays, task' = task, to_notify' = to_notify, ran' = ran,
         node' = node \/ (node = "build" /\ node' = "forward"),
         \A t \in Threads :
           pc'[t] = pc[t] \/ (pc[t] \notin {"task", "notify"} /\ pc'[t] \notin {"task", "notify"})
  PROVE  HoldInv'
<1>1. ran \subseteq Tasks
  BY DEF TypeInv
<1>2. ASSUME NEW t \in Threads
      PROVE  /\ task'[t] \in Tasks <=> pc'[t] \in {"task", "notify"}
             /\ pc'[t] = "task" => task'[t] \notin ran'
             /\ pc'[t] = "notify" => task'[t] \in ran' /\ to_notify'[t] \subseteq NextTasks(task'[t])
             /\ pc'[t] # "notify" => to_notify'[t] = {}
             /\ task'[t] \in Tasks => node' = "forward" /\ n_prev_tasks'[task'[t]] = 0
  <2>1. \/ pc'[t] = pc[t]
        \/ pc[t] \notin {"task", "notify"} /\ pc'[t] \notin {"task", "notify"}
    OBVIOUS
  <2>2. task[t] \in Tasks => node' = "forward" /\ n_prev_tasks'[task[t]] = 0
    BY DEF HoldInv, ZeroStays
  <2> QED BY <2>1, <2>2 DEF HoldInv
<1>3. \A t, u \in Threads : t # u /\ task'[t] \in Tasks => task'[u] # task'[t]
  BY DEF HoldInv
<1>4. node' # "idle" => \A x \in ran' : n_prev_tasks'[x] = 0
  BY <1>1 DEF HoldInv, ZeroStays
<1> QED BY <1>2, <1>3, <1>4 DEF HoldInv

\* A step of one thread that changes what it holds.
LEMMA HoldStep ==
  ASSUME TypeInv, HoldInv, ZeroStays, node = "forward", node' = node, NEW t \in Threads,
         \A u \in Threads \ {t} :
           task'[u] = task[u] /\ to_notify'[u] = to_notify[u] /\ pc'[u] = pc[u],
         ran \subseteq ran', ran' \subseteq ran \cup {task[t]},
         \A x \in ran' : x \in Tasks /\ n_prev_tasks[x] = 0,
         task'[t] \in Tasks <=> pc'[t] \in {"task", "notify"},
         pc'[t] = "task" => task'[t] \notin ran',
         pc'[t] = "notify" => task'[t] \in ran' /\ to_notify'[t] \subseteq NextTasks(task'[t]),
         pc'[t] # "notify" => to_notify'[t] = {},
         task'[t] \in Tasks => n_prev_tasks[task'[t]] = 0,
         \A u \in Threads \ {t} : task'[t] \in Tasks => task[u] # task'[t]
  PROVE  HoldInv'
<1>1. \A x \in Tasks : n_prev_tasks[x] = 0 => n_prev_tasks'[x] = 0
  BY DEF ZeroStays
<1>2. ASSUME NEW u \in Threads
      PROVE  /\ task'[u] \in Tasks <=> pc'[u] \in {"task", "notify"}
             /\ pc'[u] = "task" => task'[u] \notin ran'
             /\ pc'[u] = "notify" => task'[u] \in ran' /\ to_notify'[u] \subseteq NextTasks(task'[u])
             /\ pc'[u] # "notify" => to_notify'[u] = {}
             /\ task'[u] \in Tasks => node' = "forward" /\ n_prev_tasks'[task'[u]] = 0
  <2>1. CASE u = t
    BY <1>1, <2>1
  <2>2. CASE u # t
    <3>1. task'[u] = task[u] /\ to_notify'[u] = to_notify[u] /\ pc'[u] = pc[u]
      BY <2>2
    <3>2. pc[u] = "task" => task[u] \in Tasks /\ task[u] \notin ran /\ task[u] # task[t]
      BY <2>2 DEF HoldInv
    <3>3. task[u] \in Tasks => n_prev_tasks'[task[u]] = 0
      BY <1>1 DEF HoldInv
    <3> QED BY <3>1, <3>2, <3>3 DEF HoldInv
  <2> QED BY <2>1, <2>2
<1>3. ASSUME NEW u \in Threads, NEW v \in Threads, u # v, task'[u] \in Tasks
      PROVE  task'[v] # task'[u]
  <2>1. CASE u = t
    BY <1>3, <2>1
  <2>2. CASE v = t
    BY <1>3, <2>2
  <2>3. CASE u # t /\ v # t
    BY <1>3, <2>3 DEF HoldInv
  <2> QED BY <2>1, <2>2, <2>3
<1>4. \A x \in ran' : n_prev_tasks'[x] = 0
  BY <1>1
<1> QED BY <1>2, <1>3, <1>4 DEF HoldInv

LEMMA NextHoldInv ==
  ASSUME TypeInv, StageInv, HoldInv, LayerInv, EndInv, ZeroStays, [Next]_vars
  PROVE  HoldInv'
<1>1. /\ pc \in [Threads -> Labels] /\ task \in [Threads -> Tasks \cup {NoTask}]
      /\ to_notify \in [Threads -> SUBSET Tasks] /\ ran \subseteq Tasks /\ NoTask \notin Tasks
  BY Constants DEF TypeInv
<1>2. CASE UNCHANGED vars \/ StartGraph \/ Build \/ IO
  BY <1>2, HoldStays DEF vars, buildVars, runVars, dataVars, StartGraph, Build, EndBuild,
                         ExaminePresent, ExamineLoading, IO, Arrive, Release
<1>3. ASSUME NEW ids \in MoE!Routings, StartLayer(ids) PROVE HoldInv'
  <2>1. /\ node = "idle" /\ ran' = {} /\ pc' = pc /\ task' = task /\ to_notify' = to_notify
    BY <1>3 DEF StartLayer, runVars
  <2>2. \A t \in Threads : pc[t] = "node"
    BY <2>1 DEF StageInv
  <2> QED BY <2>1, <2>2 DEF HoldInv
<1>4. CASE EndNode
  <2>1. /\ node' = "idle" /\ task' = task /\ to_notify' = to_notify
        /\ \A t \in Threads : pc[t] = "done" /\ pc'[t] = "node"
    BY <1>4 DEF EndNode
  <2> QED BY <2>1 DEF HoldInv
<1>5. ASSUME NEW t \in Threads, Thread(t) PROVE HoldInv'
  <2>1. CASE \/ EnterRun(t) \/ BeginRun(t) \/ EndRun(t) \/ EndForward(t)
             \/ t = Main /\ (SchedulePreprocess \/ ResetLayer)
    <3>1. PICK label \in Labels :
            /\ pc' = [pc EXCEPT ![t] = label] /\ label \notin {"task", "notify"}
            /\ pc[t] \notin {"task", "notify"}
      BY <2>1 DEF EnterRun, BeginRun, EndRun, EndForward, SchedulePreprocess, ResetLayer, Labels
    <3>2. \A u \in Threads :
            \/ pc'[u] = pc[u]
            \/ pc[u] \notin {"task", "notify"} /\ pc'[u] \notin {"task", "notify"}
      BY <1>1, <3>1
    <3>3. task' = task /\ to_notify' = to_notify /\ ran' = ran /\ node' = node
      BY <2>1 DEF EnterRun, BeginRun, EndRun, EndForward, SchedulePreprocess, ResetLayer,
                  buildVars, dataVars
    <3> QED BY <3>2, <3>3, HoldStays
  <2>2. CASE Pop(t)
    <3>1. PICK y \in Tasks : y = task'[t] /\ y \notin ran /\ y \notin Held /\ n_prev_tasks[y] = 0
      BY <2>2, PopCounts
    <3>2. /\ pc[t] = "run" /\ pc' = [pc EXCEPT ![t] = "task"]
          /\ task' = [task EXCEPT ![t] = Head(task_queue)]
          /\ to_notify' = to_notify /\ ran' = ran /\ node' = node
      BY <2>2 DEF Pop, buildVars, dataVars
    <3>3. /\ pc'[t] = "task"
          /\ \A u \in Threads \ {t} :
               task'[u] = task[u] /\ to_notify'[u] = to_notify[u] /\ pc'[u] = pc[u]
      BY <1>1, <3>2
    <3>4. node = "forward" /\ to_notify'[t] = {}
      BY <3>2, WhileRunning DEF HoldInv
    <3>5. \A x \in ran' : x \in Tasks /\ n_prev_tasks[x] = 0
      BY <1>1, <3>2, <3>4 DEF HoldInv
    <3>6. \A u \in Threads \ {t} : task[u] # task'[t]
      BY <3>1 DEF Held
    <3>7. /\ task'[t] \in Tasks <=> pc'[t] \in {"task", "notify"}
          /\ pc'[t] = "task" => task'[t] \notin ran'
          /\ pc'[t] = "notify" => task'[t] \in ran' /\ to_notify'[t] \subseteq NextTasks(task'[t])
          /\ pc'[t] # "notify" => to_notify'[t] = {}
          /\ task'[t] \in Tasks => n_prev_tasks[task'[t]] = 0
      BY <3>1, <3>2, <3>3, <3>4
    <3>8. ran \subseteq ran' /\ ran' \subseteq ran \cup {task[t]} /\ node' = node
      BY <3>2
    <3> QED BY <3>3, <3>4, <3>5, <3>6, <3>7, <3>8, HoldStep
  <2>3. CASE RunTask(t)
    <3>1. /\ pc[t] = "task" /\ pc' = [pc EXCEPT ![t] = "notify"] /\ task' = task
          /\ to_notify' = [to_notify EXCEPT ![t] = NextTasks(task[t])]
          /\ ran' = ran \cup {task[t]} /\ node' = node
      BY <2>3 DEF RunTask, buildVars
    <3>2. /\ task[t] \in Tasks /\ node = "forward" /\ n_prev_tasks[task[t]] = 0
          /\ \A u \in Threads \ {t} : task[u] # task[t]
      BY <3>1 DEF HoldInv
    <3>3. /\ pc'[t] = "notify" /\ to_notify'[t] = NextTasks(task[t])
          /\ \A u \in Threads \ {t} :
               task'[u] = task[u] /\ to_notify'[u] = to_notify[u] /\ pc'[u] = pc[u]
      BY <1>1, <3>1
    <3>4. \A x \in ran' : x \in Tasks /\ n_prev_tasks[x] = 0
      BY <1>1, <3>1, <3>2 DEF HoldInv
    <3>5. /\ task'[t] \in Tasks <=> pc'[t] \in {"task", "notify"}
          /\ pc'[t] = "task" => task'[t] \notin ran'
          /\ pc'[t] = "notify" => task'[t] \in ran' /\ to_notify'[t] \subseteq NextTasks(task'[t])
          /\ pc'[t] # "notify" => to_notify'[t] = {}
          /\ task'[t] \in Tasks => n_prev_tasks[task'[t]] = 0
          /\ \A u \in Threads \ {t} : task'[t] \in Tasks => task[u] # task'[t]
      BY <3>1, <3>2, <3>3
    <3>6. ran \subseteq ran' /\ ran' \subseteq ran \cup {task[t]} /\ node' = node
      BY <3>1
    <3> QED BY <3>2, <3>3, <3>4, <3>5, <3>6, HoldStep
  <2>4. ASSUME NEW x \in to_notify[t], Notify(t, x) PROVE HoldInv'
    <3>1. /\ pc[t] = "notify" /\ pc' = pc /\ task' = task
          /\ to_notify' = [to_notify EXCEPT ![t] = to_notify[t] \ {x}]
          /\ ran' = ran /\ node' = node
      BY <2>4 DEF Notify, buildVars, dataVars
    <3>2. /\ task[t] \in Tasks /\ node = "forward" /\ n_prev_tasks[task[t]] = 0
          /\ task[t] \in ran /\ to_notify[t] \subseteq NextTasks(task[t])
          /\ \A u \in Threads \ {t} : task[u] # task[t]
      BY <3>1 DEF HoldInv
    <3>3. /\ to_notify'[t] \subseteq NextTasks(task[t])
          /\ \A u \in Threads \ {t} :
               task'[u] = task[u] /\ to_notify'[u] = to_notify[u] /\ pc'[u] = pc[u]
      BY <1>1, <3>1, <3>2
    <3>4. \A z \in ran' : z \in Tasks /\ n_prev_tasks[z] = 0
      BY <1>1, <3>1, <3>2 DEF HoldInv
    <3>5. /\ task'[t] \in Tasks <=> pc'[t] \in {"task", "notify"}
          /\ pc'[t] = "task" => task'[t] \notin ran'
          /\ pc'[t] = "notify" => task'[t] \in ran' /\ to_notify'[t] \subseteq NextTasks(task'[t])
          /\ pc'[t] # "notify" => to_notify'[t] = {}
          /\ task'[t] \in Tasks => n_prev_tasks[task'[t]] = 0
          /\ \A u \in Threads \ {t} : task'[t] \in Tasks => task[u] # task'[t]
      BY <3>1, <3>2, <3>3
    <3>6. ran \subseteq ran' /\ ran' \subseteq ran \cup {task[t]} /\ node' = node
      BY <3>1
    <3> QED BY <3>2, <3>3, <3>4, <3>5, <3>6, HoldStep
  <2>5. CASE Finish(t)
    <3>1. /\ pc[t] = "notify" /\ pc' = [pc EXCEPT ![t] = "run"] /\ to_notify[t] = {}
          /\ task' = [task EXCEPT ![t] = NoTask] /\ to_notify' = to_notify
          /\ ran' = ran /\ node' = node
      BY <2>5 DEF Finish, buildVars, dataVars
    <3>2. node = "forward"
      BY <3>1 DEF HoldInv
    <3>3. /\ pc'[t] = "run" /\ task'[t] = NoTask
          /\ \A u \in Threads \ {t} :
               task'[u] = task[u] /\ to_notify'[u] = to_notify[u] /\ pc'[u] = pc[u]
      BY <1>1, <3>1
    <3>4. \A z \in ran' : z \in Tasks /\ n_prev_tasks[z] = 0
      BY <1>1, <3>1, <3>2 DEF HoldInv
    <3>5. /\ task'[t] \in Tasks <=> pc'[t] \in {"task", "notify"}
          /\ pc'[t] = "task" => task'[t] \notin ran'
          /\ pc'[t] = "notify" => task'[t] \in ran' /\ to_notify'[t] \subseteq NextTasks(task'[t])
          /\ pc'[t] # "notify" => to_notify'[t] = {}
          /\ task'[t] \in Tasks => n_prev_tasks[task'[t]] = 0
          /\ \A u \in Threads \ {t} : task'[t] \in Tasks => task[u] # task'[t]
      BY <1>1, <3>1, <3>3
    <3>6. ran \subseteq ran' /\ ran' \subseteq ran \cup {task[t]} /\ node' = node
      BY <3>1
    <3> QED BY <3>2, <3>3, <3>4, <3>5, <3>6, HoldStep
  <2> QED BY <1>5, <2>1, <2>2, <2>3, <2>4, <2>5 DEF Thread
<1> QED BY <1>2, <1>3, <1>4, <1>5 DEF Next

\* A thread that finds no unfinished task in forward: every task is done.
LEMMA AllDone ==
  ASSUME TypeInv, StageInv, MatrixInv, LayerInv, NEW t \in Threads, pc[t] = "run",
         n_unfinished_tasks = 0
  PROVE  Tasks \subseteq ran /\ \A u \in Threads : task[u] = NoTask
<1>1. node = "forward" /\ pc[Main] # "node"
  BY WhileRunning
<1>2. Tasks \subseteq Scheduled
  BY <1>1 DEF Scheduled, MatrixInv, Tasks
<1>3. Scheduled \ Finished = {}
  <2>1. PICK A \in SUBSET Tasks : A = Scheduled \ Finished
    BY MatrixFacts
  <2>2. Cardinality(A) = 0
    BY <1>1, <2>1 DEF LayerInv, TotalInv
  <2> QED BY <2>1, <2>2, CountTasks
<1>4. Tasks \subseteq Finished
  BY <1>2, <1>3
<1> QED BY <1>4 DEF Finished, TypeInv

LEMMA NextEndInv ==
  ASSUME TypeInv, StageInv, MatrixInv, HoldInv, LayerInv, EndInv, [Next]_vars
  PROVE  EndInv'
<1> DEFINE Ended == {"leave", "reset", "done"}
<1>1. SUFFICES ASSUME NEW t \in Threads, pc'[t] \in Ended
               PROVE  Tasks \subseteq ran' /\ \A u \in Threads : task'[u] = NoTask
  BY DEF EndInv
<1>2. pc \in [Threads -> Labels]
  BY DEF TypeInv
<1>3. CASE pc[t] \in Ended
  <2>1. Tasks \subseteq ran /\ \A u \in Threads : task[u] = NoTask /\ pc[u] \notin {"task", "notify"}
    BY <1>3, Constants DEF EndInv, HoldInv
  <2>2. node = "forward" /\ task_queue = <<>>
    BY <1>3, <2>1, WhileRunning, DoneFacts
  <2>3. ran' = ran /\ task' = task
    <3>1. CASE UNCHANGED vars \/ StartGraph \/ Build \/ IO \/ EndNode
      BY <3>1 DEF vars, runVars, dataVars, StartGraph, Build, EndBuild,
                  ExaminePresent, ExamineLoading, IO, Arrive, Release, EndNode
    <3>2. ASSUME NEW ids \in MoE!Routings, StartLayer(ids) PROVE FALSE
      BY <2>2, <3>2 DEF StartLayer
    <3>3. ASSUME NEW u \in Threads, Thread(u) PROVE ran' = ran /\ task' = task
      <4>1. pc[u] \notin {"task", "notify"}
        BY <2>1
      <4> QED BY <2>2, <3>3, <4>1
              DEF Thread, EnterRun, BeginRun, Pop, RunTask, Finish, Notify, EndRun, EndForward,
                  SchedulePreprocess, ResetLayer, dataVars
    <3> QED BY <3>1, <3>2, <3>3 DEF Next
  <2> QED BY <2>1, <2>3
<1>4. CASE pc[t] \notin Ended
  <2>1. PICK u \in Threads : Thread(u)
    BY <1>1, <1>2, <1>4
       DEF Next, vars, runVars, StartGraph, Build, EndBuild, StartLayer,
           ExaminePresent, ExamineLoading, IO, Arrive, Release, EndNode
  <2>2. EndRun(u) /\ u = t
    BY <1>1, <1>2, <1>4, <2>1
       DEF Thread, EnterRun, BeginRun, Pop, RunTask, Finish, Notify, EndRun, EndForward,
           SchedulePreprocess, ResetLayer
  <2>3. pc[t] = "run" /\ n_unfinished_tasks = 0 /\ ran' = ran /\ task' = task
    BY <2>2 DEF EndRun, dataVars
  <2> QED BY <2>3, AllDone
<1> QED BY <1>3, <1>4

-----------------------------------------------------------------------------
(* The shares and the output.                                              *)

\* A task whose count is zero has its predecessors behind it.
LEMMA PrevDone ==
  ASSUME TypeInv, HoldInv, LayerInv, node # "idle",
         NEW x \in Tasks, x \in ran \/ \E t \in Threads : task[t] = x
  PROVE  /\ x \in Scheduled /\ ~Waiting(x)
         /\ \A y \in PrevTasks(x) : Told(y, x) /\ y \in ran
<1>1. n_prev_tasks[x] = 0
  BY DEF HoldInv
<1>2. Owed(x) = 0
  BY <1>1 DEF LayerInv, CountInv
<1> QED BY <1>2, OwedFacts DEF Told

\* Before a forward task runs, the tasks of its expert before it have run.
LEMMA RunOrder ==
  ASSUME TypeInv, HoldInv, LayerInv, node # "idle",
         NEW x \in Tasks, x \in ran \/ \E t \in Threads : task[t] = x
  PROVE  /\ x \in Forwards("gate") => Preprocess \in ran
         /\ x \in Forwards("up") => As(x, "gate") \in ran /\ Preprocess \in ran
         /\ x \in Forwards("down") =>
              /\ As(x, "up") \in ran /\ As(As(x, "up"), "gate") \in ran
              /\ Preprocess \in ran
         /\ x = Reduce => Forwards("down") \subseteq ran /\ Preprocess \in ran
<1>1. \A z \in Tasks : z \in ran \/ (\E t \in Threads : task[t] = z) =>
                         PrevTasks(z) \subseteq ran
  BY PrevDone
<1>2. Forwards("up") \subseteq Tasks /\ Forwards("gate") \subseteq Tasks /\ Forwards("down") \subseteq Tasks
  BY ForwardFacts, TaskFacts
<1>3. \A z \in Forwards("gate") : z \in ran \/ (\E t \in Threads : task[t] = z) =>
                                    Preprocess \in ran
  BY <1>1, <1>2, PrevFacts
<1>4. \A z \in Forwards("up") : z \in ran \/ (\E t \in Threads : task[t] = z) =>
                                  As(z, "gate") \in ran /\ Preprocess \in ran
  BY <1>1, <1>2, <1>3, PrevFacts, ForwardFacts
<1>5. \A z \in Forwards("down") : z \in ran \/ (\E t \in Threads : task[t] = z) =>
                                    /\ As(z, "up") \in ran /\ As(As(z, "up"), "gate") \in ran
                                    /\ Preprocess \in ran
  BY <1>1, <1>2, <1>4, PrevFacts, ForwardFacts
<1>6. x = Reduce => Forwards("down") \subseteq ran
  BY <1>1, PrevFacts
<1>7. PICK z : z \in Forwards("down")
  <2>1. PICK r : r \in Rows
    BY Constants
  <2>2. [kind |-> "down", row |-> r, index |-> 1] \in Forwards("down")
    BY <2>1, Constants DEF Forwards
  <2> QED BY <2>2
<1> QED BY <1>3, <1>4, <1>5, <1>6, <1>7

\* Two down tasks add different summands.
LEMMA SharesDiffer ==
  ASSUME TypeInv, NEW x \in Forwards("down"), NEW y \in Forwards("down"), Share(x) = Share(y)
  PROVE  x = y
<1>1. /\ x.row \in Rows /\ x.index \in 1..NUsed /\ y.row \in Rows /\ y.index \in 1..NUsed
  BY ForwardFacts
<1>2. x.row = y.row /\ ExpertOf(x) = ExpertOf(y)
  BY DEF Share, MoE!Summand
<1>3. \A r \in Rows : \A i, j \in 1..NUsed : expert_ids[r][i] = expert_ids[r][j] => i = j
  BY DEF TypeInv, MoE!Routings, MoE!Selections
<1>4. x.index = y.index
  BY <1>1, <1>2, <1>3 DEF ExpertOf
<1> QED BY <1>2, <1>4, ForwardFacts

\* The shares of all down tasks are the weighted sum.
LEMMA AllShares == SetToBag(SharesOf(Forwards("down"))) = MoE!WeightedSum(expert_ids)
<1> DEFINE W == {MoE!Summand(r, expert_ids[r][j], b) : r \in Rows, j \in 1..NUsed, b \in {0}}
           S == SharesOf(Forwards("down"))
<1>1. \A x : Share(x) = MoE!Summand(x.row, expert_ids[x.row][x.index], 0)
  BY DEF Share, ExpertOf
<1>2. S \subseteq W
  BY <1>1, ForwardFacts DEF SharesOf
<1>3. ASSUME NEW r \in Rows, NEW j \in 1..NUsed
      PROVE  MoE!Summand(r, expert_ids[r][j], 0) \in S
  <2>1. PICK x \in Forwards("down") : x.row = r /\ x.index = j
    <3>1. [kind |-> "down", row |-> r, index |-> j] \in Forwards("down")
      BY DEF Forwards
    <3> QED BY <3>1
  <2> QED BY <1>1, <2>1 DEF SharesOf
<1>4. W \subseteq S
  BY <1>3
<1>5. MoE!WeightedSum(expert_ids) = SetToBag(W)
  BY DEF MoE!WeightedSum, MoE!SetToBag, SetToBag
<1> HIDE DEF W, S
<1>6. S = W
  BY <1>2, <1>4
<1> QED BY <1>5, <1>6 DEF S

LEMMA DataStays ==
  ASSUME DataInv, node' # "idle" => node # "idle", expert_ids' = expert_ids, ready' = ready,
         ran' = ran, local_out' = local_out, output' = output
  PROVE  DataInv'
<1>1. \A own : OwnInv(own)' <=> OwnInv(own)
  BY RoutingStays DEF OwnInv, Forwards
<1> QED BY <1>1 DEF DataInv, MoE!WeightedSum, MoE!Summand

\* A down task adds its share to the buffer of its thread.
LEMMA RunDownOwn ==
  ASSUME TypeInv, HoldInv, LayerInv, NEW t \in Threads, RunTask(t), RunDown(t),
         NEW own \in [Threads -> SUBSET Forwards("down")], OwnInv(own)
  PROVE  \E new \in [Threads -> SUBSET Forwards("down")] : OwnInv(new)'
<1>1. PICK x \in Forwards("down") : x = task[t]
  BY DEF RunDown
<1>2. /\ pc[t] = "task" /\ ran' = ran \cup {x} /\ expert_ids' = expert_ids
      /\ local_out' = [local_out EXCEPT ![t] = local_out[t] (+) SetToBag({Share(x)})]
  BY <1>1 DEF RunTask, RunDown, buildVars, Share, MoE!Summand, ExpertOf
<1>3. x \notin ran
  BY <1>1, <1>2 DEF HoldInv
<1>4. PICK new \in [Threads -> SUBSET Forwards("down")] :
        new[t] = own[t] \cup {x} /\ \A u \in Threads \ {t} : new[u] = own[u]
  <2> DEFINE n == [own EXCEPT ![t] = own[t] \cup {x}]
  <2>1. /\ n \in [Threads -> SUBSET Forwards("down")]
        /\ n[t] = own[t] \cup {x} /\ \A u \in Threads \ {t} : n[u] = own[u]
    OBVIOUS
  <2> QED BY <2>1
<1>5. \A u \in Threads : x \notin own[u]
  BY <1>3 DEF OwnInv
<1>6. /\ local_out'[t] = local_out[t] (+) SetToBag({Share(x)})
      /\ \A u \in Threads \ {t} : local_out'[u] = local_out[u]
  BY <1>2 DEF TypeInv
<1>7. local_out'[t] = SetToBag(SharesOf(new[t]))
  <2>1. Share(x) \notin SharesOf(own[t])
    BY <1>5, SharesDiffer DEF SharesOf
  <2>2. SharesOf(new[t]) = SharesOf(own[t]) \cup {Share(x)}
    BY <1>4 DEF SharesOf
  <2>3. SharesOf(own[t]) \cap {Share(x)} = {}
    BY <2>1
  <2>4. local_out[t] = SetToBag(SharesOf(own[t]))
    BY DEF OwnInv
  <2> QED BY <1>6, <2>2, <2>3, <2>4, SumOfTwo
<1>8. \A u \in Threads : local_out'[u] = SetToBag(SharesOf(new[u])')
  <2>1. \A X : SharesOf(X)' = SharesOf(X)
    BY <1>2, RoutingStays
  <2>2. \A u \in Threads : local_out'[u] = SetToBag(SharesOf(new[u]))
    BY <1>4, <1>6, <1>7 DEF OwnInv
  <2> QED BY <2>1, <2>2
<1>9. \A u, v \in Threads : u # v => new[u] \cap new[v] = {}
  <2>1. \A u, v \in Threads : u # v => own[u] \cap own[v] = {}
    BY DEF OwnInv
  <2> QED BY <1>4, <1>5, <2>1
<1>10. \A z \in Forwards("down") : z \in ran' <=> \E u \in Threads : z \in new[u]
  <2>1. \A z \in Forwards("down") : z \in ran <=> \E u \in Threads : z \in own[u]
    BY DEF OwnInv
  <2> QED BY <1>2, <1>4, <2>1
<1>11. OwnInv(new)'
  BY <1>8, <1>9, <1>10 DEF OwnInv, Forwards
<1> QED BY <1>11

\* The reduce task adds up all buffers.
LEMMA RunReduceOutput ==
  ASSUME TypeInv, HoldInv, LayerInv, DataInv, NEW t \in Threads, RunTask(t), RunReduce(t)
  PROVE  output' = MoE!WeightedSum(expert_ids)
<1>1. /\ pc[t] = "task" /\ task[t] = Reduce /\ output' = SumOfBuffers(local_out)
  BY DEF RunTask, RunReduce
<1>2. node # "idle" /\ Reduce \in Tasks
  BY <1>1, TaskFacts DEF HoldInv
<1>3. Forwards("down") \subseteq ran /\ Preprocess \in ran
  BY <1>1, <1>2, RunOrder
<1>4. PICK own \in [Threads -> SUBSET Forwards("down")] : OwnInv(own)
  BY <1>2, <1>3 DEF DataInv
<1> DEFINE parts == [u \in Threads |-> SharesOf(own[u])]
<1>5. DOMAIN parts = Threads /\ IsFiniteSet(DOMAIN parts)
  BY Constants
<1>6. Apart(parts)
  <2> SUFFICES ASSUME NEW u \in Threads, NEW v \in Threads, u # v,
                      NEW x \in own[u], NEW y \in own[v], Share(x) = Share(y)
               PROVE  FALSE
    BY DEF Apart, SharesOf
  <2>1. x = y
    BY SharesDiffer
  <2> QED BY <1>4, <2>1 DEF OwnInv
<1>7. local_out = [u \in DOMAIN parts |-> SetToBag(parts[u])]
  BY <1>4 DEF OwnInv, TypeInv
<1>8. UNION {parts[u] : u \in DOMAIN parts} = SharesOf(Forwards("down"))
  <2>1. \A x \in Forwards("down") : \E u \in Threads : x \in own[u]
    BY <1>3, <1>4 DEF OwnInv
  <2>2. \A u \in Threads : own[u] \subseteq Forwards("down")
    BY <1>4
  <2> QED BY <2>1, <2>2 DEF SharesOf
<1> HIDE DEF parts
<1>9. SumOfBuffers(local_out) = SetToBag(UNION {parts[u] : u \in DOMAIN parts})
  BY <1>5, <1>6, <1>7, SumOfParts
<1> QED BY <1>1, <1>8, <1>9, AllShares

LEMMA NextDataInv ==
  ASSUME TypeInv, HoldInv, LayerInv, DataInv, [Next]_vars
  PROVE  DataInv'
<1>1. CASE UNCHANGED vars \/ StartGraph \/ Build \/ IO \/ EndNode
  <2>1. CASE StartGraph
    BY <2>1 DEF StartGraph, DataInv
  <2>2. CASE EndNode
    BY <2>2 DEF EndNode, DataInv
  <2>3. CASE UNCHANGED vars \/ Build \/ IO
    BY <2>3, DataStays DEF vars, buildVars, dataVars, Build, EndBuild, ExaminePresent,
                           ExamineLoading, IO, Arrive, Release
  <2> QED BY <1>1, <2>1, <2>2, <2>3
<1>2. ASSUME NEW ids \in MoE!Routings, StartLayer(ids) PROVE DataInv'
  BY <1>2 DEF StartLayer, DataInv
<1>3. ASSUME NEW t \in Threads, Thread(t) PROVE DataInv'
  <2>1. CASE ~RunTask(t)
    BY <1>3, <2>1, DataStays
       DEF Thread, EnterRun, BeginRun, Pop, Finish, Notify, EndRun, EndForward,
           SchedulePreprocess, ResetLayer, buildVars, dataVars
  <2>2. CASE RunTask(t)
    <3>1. /\ pc[t] = "task" /\ ran' = ran \cup {task[t]} /\ expert_ids' = expert_ids
          /\ node' = node
      BY <2>2 DEF RunTask, buildVars
    <3>2. /\ task[t] \in Tasks /\ task[t] \notin ran /\ node # "idle"
      BY <3>1 DEF HoldInv
    <3>3. MoE!WeightedSum(expert_ids)' = MoE!WeightedSum(expert_ids)
      BY <3>1 DEF MoE!WeightedSum, MoE!Summand
    <3>4. CASE RunPreprocess(t)
      <4>1. /\ task[t] = Preprocess /\ ready' /\ local_out' = [s \in Threads |-> EmptyBag]
            /\ output' = output
        BY <3>4 DEF RunPreprocess
      <4>2. \A x \in Forwards("down") : x \notin ran'
        <5>1. \A x \in Forwards("down") : x \in Tasks /\ x # Preprocess
          BY ForwardFacts, TaskFacts
        <5>2. \A x \in Forwards("down") : x \notin ran
          BY <3>2, <4>1, <5>1, RunOrder
        <5> QED BY <3>1, <4>1, <5>1, <5>2
      <4>3. PICK own \in [Threads -> SUBSET Forwards("down")] : \A u \in Threads : own[u] = {}
        <5>1. [u \in Threads |-> {}] \in [Threads -> SUBSET Forwards("down")]
          OBVIOUS
        <5> QED BY <5>1
      <4>4. \A u \in Threads : local_out'[u] = SetToBag(SharesOf(own[u])')
        <5>1. \A u \in Threads : SharesOf(own[u])' = {}
          BY <4>3 DEF SharesOf
        <5> QED BY <4>1, <5>1 DEF EmptyBag
      <4>5. OwnInv(own)'
        BY <4>2, <4>3, <4>4 DEF OwnInv, Forwards
      <4>6. Reduce \in ran' <=> Reduce \in ran
        BY <3>1, <4>1, TaskFacts
      <4> QED BY <3>1, <3>2, <3>3, <4>1, <4>5, <4>6 DEF DataInv, Forwards
    <3>5. CASE RunGateUp(t)
      <4>1. /\ task[t] \in Forwards("gate") \cup Forwards("up")
            /\ ready' = ready /\ local_out' = local_out /\ output' = output
        BY <3>5 DEF RunGateUp
      <4>2. /\ task[t] # Reduce /\ task[t] # Preprocess /\ task[t] \notin Forwards("down")
        BY <4>1, ForwardFacts, TaskFacts
      <4>3. \A own : OwnInv(own)' <=> OwnInv(own)
        BY <3>1, <4>1, <4>2, RoutingStays DEF OwnInv, Forwards
      <4> QED BY <3>1, <3>2, <3>3, <4>1, <4>2, <4>3 DEF DataInv, Forwards
    <3>6. CASE RunDown(t)
      <4>1. /\ task[t] \in Forwards("down") /\ ready' = ready /\ output' = output
        BY <3>6 DEF RunDown
      <4>2. /\ task[t] # Reduce /\ Preprocess \in ran
        BY <3>2, <4>1, RunOrder, ForwardFacts, TaskFacts
      <4>3. PICK own \in [Threads -> SUBSET Forwards("down")] : OwnInv(own)
        BY <3>2, <4>2 DEF DataInv
      <4>4. PICK new \in [Threads -> SUBSET Forwards("down")] : OwnInv(new)'
        BY <2>2, <3>6, <4>3, RunDownOwn
      <4> QED BY <3>1, <3>2, <3>3, <4>1, <4>2, <4>4 DEF DataInv, Forwards
    <3>7. CASE RunReduce(t)
      <4>1. /\ task[t] = Reduce /\ ready' = ready /\ local_out' = local_out
        BY <3>7 DEF RunReduce
      <4>2. output' = MoE!WeightedSum(expert_ids)
        BY <2>2, <3>7, RunReduceOutput
      <4>3. Reduce # Preprocess /\ Reduce \notin Forwards("down")
        BY ForwardFacts, TaskFacts
      <4>4. \A own : OwnInv(own)' <=> OwnInv(own)
        BY <3>1, <4>1, <4>3, RoutingStays DEF OwnInv, Forwards
      <4> QED BY <3>1, <3>2, <3>3, <4>1, <4>2, <4>3, <4>4 DEF DataInv, Forwards
    <3> QED BY <2>2, <3>4, <3>5, <3>6, <3>7 DEF RunTask
  <2> QED BY <2>1, <2>2
<1> QED BY <1>1, <1>2, <1>3 DEF Next

-----------------------------------------------------------------------------
(* The types, and the invariant as a whole.                                *)

LEMMA WeightedBag == \A ids : IsABag(MoE!WeightedSum(ids))
<1> TAKE ids
<1> DEFINE W == {MoE!Summand(r, ids[r][j], b) : r \in Rows, j \in 1..NUsed, b \in {0}}
<1>1. MoE!WeightedSum(ids) = SetToBag(W)
  BY DEF MoE!WeightedSum, MoE!SetToBag, SetToBag
<1> HIDE DEF W
<1> QED BY <1>1, BagFacts

LEMMA NextTypeInv ==
  ASSUME TypeInv, StageInv, MatrixInv, HoldInv, LayerInv, EndInv, DataInv, [Next]_vars
  PROVE  TypeInv'
<1>1. /\ node' \in {"idle", "build", "forward"} /\ layer' \in 0..NLayers
      /\ layer_data' \in BOOLEAN /\ expert_ids' \in MoE!Routings
  <2>1. /\ node \in {"idle", "build", "forward"} /\ layer \in 0..NLayers
        /\ layer_data \in BOOLEAN /\ expert_ids \in MoE!Routings /\ NLayers \in Nat
    BY Constants DEF TypeInv
  <2>2. ASSUME NEW t \in Threads, Thread(t)
        PROVE  /\ node' = node /\ layer' = layer /\ expert_ids' = expert_ids
               /\ layer_data' = layer_data \/ layer_data' = FALSE
    BY <2>2 DEF Thread, EnterRun, BeginRun, Pop, RunTask, Finish, Notify, EndRun, EndForward,
                SchedulePreprocess, ResetLayer, buildVars
  <2>3. ASSUME NEW ids \in MoE!Routings, StartLayer(ids)
        PROVE  /\ node' = "build" /\ layer' \in 0..NLayers /\ expert_ids' \in MoE!Routings
               /\ layer_data' = TRUE
    BY <2>1, <2>3 DEF StartLayer
  <2>4. CASE UNCHANGED vars \/ Build \/ IO \/ EndNode
    <3>1. /\ node' = node \/ node' = "forward" \/ node' = "idle"
          /\ layer' = layer /\ layer_data' = layer_data /\ expert_ids' = expert_ids
      BY <2>4 DEF vars, buildVars, Build, EndBuild, ExaminePresent, ExamineLoading, IO,
                  Arrive, Release, EndNode
    <3> QED BY <2>1, <3>1
  <2>5. CASE StartGraph
    BY <2>1, <2>5 DEF StartGraph
  <2> QED BY <2>1, <2>2, <2>3, <2>4, <2>5 DEF Next
<1>2. /\ examined' \in SUBSET Matrices /\ loading' \in SUBSET examined'
      /\ pending' \in [Matrices -> SUBSET ForwardTasks]
  BY NextMatrixInv
<1>3. CountTypes'
  BY NextLayerInv
<1>4. /\ pc' \in [Threads -> Labels] /\ task' \in [Threads -> Tasks \cup {NoTask}]
      /\ to_notify' \in [Threads -> SUBSET Tasks] /\ ran' \in SUBSET Tasks
  <2>1. /\ pc \in [Threads -> Labels] /\ task \in [Threads -> Tasks \cup {NoTask}]
        /\ to_notify \in [Threads -> SUBSET Tasks] /\ ran \in SUBSET Tasks
    BY DEF TypeInv
  <2>2. ASSUME NEW t \in Threads, Thread(t)
        PROVE  /\ pc' \in [Threads -> Labels] /\ task' \in [Threads -> Tasks \cup {NoTask}]
               /\ to_notify' \in [Threads -> SUBSET Tasks] /\ ran' \in SUBSET Tasks
    <3>1. CASE \/ EnterRun(t) \/ BeginRun(t) \/ EndRun(t) \/ EndForward(t)
               \/ t = Main /\ (SchedulePreprocess \/ ResetLayer)
      <4>1. PICK label \in Labels : pc' = [pc EXCEPT ![t] = label]
        BY <3>1 DEF EnterRun, BeginRun, EndRun, EndForward, SchedulePreprocess, ResetLayer, Labels
      <4>2. task' = task /\ to_notify' = to_notify /\ ran' = ran
        BY <3>1 DEF EnterRun, BeginRun, EndRun, EndForward, SchedulePreprocess, ResetLayer, dataVars
      <4> QED BY <2>1, <4>1, <4>2
    <3>2. CASE Pop(t)
      <4>1. PICK y \in Tasks : y = task'[t]
        BY <3>2, PopCounts
      <4>2. /\ pc' = [pc EXCEPT ![t] = "task"] /\ task' = [task EXCEPT ![t] = Head(task_queue)]
            /\ to_notify' = to_notify /\ ran' = ran
        BY <3>2 DEF Pop, dataVars
      <4>3. task' = [task EXCEPT ![t] = y]
        BY <2>1, <4>1, <4>2
      <4> QED BY <2>1, <4>1, <4>2, <4>3 DEF Labels
    <3>3. CASE RunTask(t)
      <4>1. /\ pc[t] = "task" /\ pc' = [pc EXCEPT ![t] = "notify"] /\ task' = task
            /\ to_notify' = [to_notify EXCEPT ![t] = NextTasks(task[t])]
            /\ ran' = ran \cup {task[t]}
        BY <3>3 DEF RunTask
      <4>2. task[t] \in Tasks /\ NextTasks(task[t]) \subseteq Tasks
        BY <4>1, NextInTasks DEF HoldInv
      <4> QED BY <2>1, <4>1, <4>2 DEF Labels
    <3>4. ASSUME NEW x \in to_notify[t], Notify(t, x)
          PROVE  /\ pc' = pc /\ task' = task /\ ran' = ran
                 /\ to_notify' \in [Threads -> SUBSET Tasks]
      BY <2>1, <3>4 DEF Notify, dataVars
    <3>5. CASE Finish(t)
      <4>1. /\ pc' = [pc EXCEPT ![t] = "run"] /\ task' = [task EXCEPT ![t] = NoTask]
            /\ to_notify' = to_notify /\ ran' = ran
        BY <3>5 DEF Finish, dataVars
      <4> QED BY <2>1, <4>1 DEF Labels
    <3> QED BY <2>1, <2>2, <3>1, <3>2, <3>3, <3>4, <3>5 DEF Thread
  <2>3. ASSUME NEW ids \in MoE!Routings, StartLayer(ids)
        PROVE  pc' = pc /\ task' = task /\ to_notify' = to_notify /\ ran' = {}
    BY <2>3 DEF StartLayer, runVars
  <2>4. CASE EndNode
    <3>1. /\ pc' = [t \in Threads |-> "node"] /\ task' = task /\ to_notify' = to_notify
          /\ ran' = ran
      BY <2>4 DEF EndNode, dataVars
    <3> QED BY <2>1, <3>1 DEF Labels
  <2>5. CASE UNCHANGED vars \/ StartGraph \/ Build \/ IO
    BY <2>1, <2>5 DEF vars, runVars, dataVars, StartGraph, Build, EndBuild, ExaminePresent,
                      ExamineLoading, IO, Arrive, Release
  <2> QED BY <2>1, <2>2, <2>3, <2>4, <2>5 DEF Next
<1>5. waits' \in [Threads -> Nat] /\ inside' \in SUBSET Threads
  <2>1. waits \in [Threads -> Nat] /\ inside \in SUBSET Threads
    BY DEF TypeInv
  <2>2. ASSUME NEW t \in Threads, Sync!Enter(t) \/ Sync!Leave(t)
        PROVE  waits' \in [Threads -> Nat] /\ inside' \in SUBSET Threads
    BY <2>1, <2>2 DEF Sync!Enter, Sync!Leave
  <2>3. ASSUME NEW t \in Threads, Thread(t)
        PROVE  waits' \in [Threads -> Nat] /\ inside' \in SUBSET Threads
    <3>1. CASE EnterRun(t) \/ EndRun(t) \/ BeginRun(t) \/ EndForward(t)
      BY <2>2, <3>1 DEF EnterRun, EndRun, BeginRun, EndForward
    <3>2. CASE ~(EnterRun(t) \/ EndRun(t) \/ BeginRun(t) \/ EndForward(t))
      BY <2>1, <2>3, <3>2 DEF Thread, Pop, RunTask, Finish, Notify, SchedulePreprocess,
                              ResetLayer, syncVars
    <3> QED BY <3>1, <3>2
  <2>4. CASE StartGraph
    BY <2>1, <2>4 DEF StartGraph, Sync!Restart
  <2>5. ASSUME NEW ids \in MoE!Routings, StartLayer(ids)
        PROVE  waits' = waits /\ inside' = inside
    BY <2>5 DEF StartLayer, syncVars
  <2>6. CASE UNCHANGED vars \/ Build \/ IO \/ EndNode
    BY <2>1, <2>6 DEF vars, syncVars, Build, EndBuild, ExaminePresent,
                      ExamineLoading, IO, Arrive, Release, EndNode
  <2> QED BY <2>1, <2>3, <2>4, <2>5, <2>6 DEF Next
<1> DEFINE Buffers(f) == f = [t \in Threads |-> f[t]] /\ \A t \in Threads : IsABag(f[t])
<1>6. ready' \in BOOLEAN /\ Buffers(local_out')
  <2>1. ready \in BOOLEAN /\ Buffers(local_out)
    BY DEF TypeInv
  <2>2. ASSUME local_out' = [t \in Threads |-> EmptyBag] PROVE Buffers(local_out')
    BY <2>2, BagFacts
  <2>3. ASSUME NEW t \in Threads, RunTask(t) PROVE ready' \in BOOLEAN /\ Buffers(local_out')
    <3>1. CASE RunPreprocess(t)
      BY <2>2, <3>1 DEF RunPreprocess
    <3>2. CASE RunDown(t)
      <4>1. PICK S : local_out' = [local_out EXCEPT ![t] = local_out[t] (+) SetToBag(S)]
        BY <3>2 DEF RunDown
      <4>2. IsABag(local_out[t] (+) SetToBag(S))
        BY <2>1, BagFacts
      <4>3. PICK b : b = local_out[t] (+) SetToBag(S)
        OBVIOUS
      <4>4. Buffers(local_out')
        BY <2>1, <4>1, <4>2, <4>3
      <4> QED BY <2>1, <3>2, <4>4 DEF RunDown
    <3>3. CASE RunGateUp(t) \/ RunReduce(t)
      BY <2>1, <3>3 DEF RunGateUp, RunReduce
    <3> QED BY <2>3, <3>1, <3>2, <3>3 DEF RunTask
  <2>4. CASE StartGraph
    BY <2>1, <2>2, <2>4 DEF StartGraph
  <2>5. ASSUME NEW ids \in MoE!Routings, StartLayer(ids)
        PROVE  ready' \in BOOLEAN /\ local_out' = local_out
    BY <2>5 DEF StartLayer
  <2>6. CASE UNCHANGED vars \/ Build \/ IO \/ EndNode
    BY <2>1, <2>6 DEF vars, dataVars, Build, EndBuild, ExaminePresent, ExamineLoading, IO,
                      Arrive, Release, EndNode
  <2>7. ASSUME NEW t \in Threads, Thread(t), ~RunTask(t)
        PROVE  ready' = ready /\ local_out' = local_out
    BY <2>7 DEF Thread, EnterRun, BeginRun, Pop, Finish, Notify, EndRun, EndForward,
                SchedulePreprocess, ResetLayer, dataVars
  <2> QED BY <2>1, <2>3, <2>4, <2>5, <2>6, <2>7 DEF Next
<1>7. IsABag(output')
  <2>1. CASE node' # "idle"
    <3>1. \/ output' = MoE!WeightedSum(expert_ids)'
          \/ output' = EmptyBag
      BY <2>1, NextDataInv DEF DataInv
    <3>2. IsABag(MoE!WeightedSum(expert_ids)')
      BY WeightedBag
    <3> QED BY <3>1, <3>2, BagFacts
  <2>2. CASE node' = "idle"
    <3>1. CASE node = "idle"
      <4>1. \A t \in Threads : ~Thread(t)
        BY <2>2, <3>1, WhileRunning
           DEF Thread, EnterRun, BeginRun, Pop, RunTask, Finish, Notify, EndRun, EndForward,
               SchedulePreprocess, ResetLayer, StageInv
      <4>2. output' = output
        BY <2>2, <3>1, <4>1 DEF Next, vars, dataVars, StartGraph, StartLayer, Build, EndBuild,
             ExaminePresent, ExamineLoading, IO, Arrive, Release, EndNode
      <4> QED BY <4>2 DEF TypeInv
    <3>2. CASE node # "idle"
      <4>1. EndNode
        BY <2>2, <3>2 DEF Next, vars, buildVars, StartGraph, StartLayer, Build, EndBuild,
             ExaminePresent, ExamineLoading, IO, Arrive, Release, Thread, EnterRun, BeginRun, Pop,
             RunTask, Finish, Notify, EndRun, EndForward, SchedulePreprocess, ResetLayer
      <4> QED BY <4>1 DEF EndNode, dataVars, TypeInv
    <3> QED BY <3>1, <3>2
  <2> QED BY <2>1, <2>2
<1> QED BY <1>1, <1>2, <1>3, <1>4, <1>5, <1>6, <1>7 DEF TypeInv, CountTypes, Matrices

LEMMA InitIInv == Init => IInv
<1> SUFFICES ASSUME Init PROVE IInv
  OBVIOUS
<1>1. /\ node = "idle" /\ layer = 0 /\ layer_data = FALSE /\ expert_ids \in MoE!Routings
      /\ examined = {} /\ loading = {} /\ pending = [m \in Matrices |-> {}]
      /\ n_prev_tasks = [x \in Tasks |-> 0] /\ task_queue = <<>> /\ n_unfinished_tasks = 0
      /\ pc = [t \in Threads |-> "node"] /\ task = [t \in Threads |-> NoTask]
      /\ to_notify = [t \in Threads |-> {}]
      /\ waits = [t \in Threads |-> 0] /\ inside = {} /\ ready = FALSE /\ ran = {}
      /\ local_out = [t \in Threads |-> EmptyBag] /\ output = EmptyBag
  BY DEF Init, Sync!Init
<1>2. TypeInv
  <2>1. /\ pending \in [Matrices -> SUBSET ForwardTasks] /\ n_prev_tasks \in [Tasks -> Nat]
        /\ pc \in [Threads -> Labels] /\ task \in [Threads -> Tasks \cup {NoTask}]
        /\ to_notify \in [Threads -> SUBSET Tasks] /\ waits \in [Threads -> Nat]
    BY <1>1 DEF Labels
  <2>2. /\ node \in {"idle", "build", "forward"} /\ layer_data \in BOOLEAN
        /\ n_unfinished_tasks \in Nat
    BY <1>1
  <2>3. layer \in 0..NLayers
    <3>1. NLayers \in Nat /\ layer = 0
      BY <1>1, Constants
    <3> QED BY <3>1
  <2>4. /\ examined \in SUBSET Matrices /\ loading \in SUBSET examined
        /\ inside \in SUBSET Threads /\ ready \in BOOLEAN /\ ran \in SUBSET Tasks
    BY <1>1
  <2>5. task_queue \in Seq(Tasks)
    BY <1>1
  <2>6. /\ local_out = [t \in Threads |-> local_out[t]]
        /\ \A t \in Threads : IsABag(local_out[t])
        /\ IsABag(output)
    BY <1>1, BagFacts
  <2> QED BY <1>1, <2>1, <2>2, <2>3, <2>4, <2>5, <2>6 DEF TypeInv
<1>3. StageInv
  BY <1>1, Constants DEF StageInv
<1>4. MatrixInv
  BY <1>1 DEF MatrixInv
<1>5. HoldInv
  BY <1>1, Constants DEF HoldInv
<1>6. LayerInv
  BY <1>1 DEF LayerInv
<1>7. EndInv
  BY <1>1 DEF EndInv
<1>8. DataInv
  BY <1>1 DEF DataInv
<1> QED BY <1>2, <1>3, <1>4, <1>5, <1>6, <1>7, <1>8 DEF IInv

LEMMA NextIInv == IInv /\ [Next]_vars => IInv'
<1> SUFFICES ASSUME IInv, [Next]_vars PROVE IInv'
  OBVIOUS
<1>1. TypeInv /\ StageInv /\ MatrixInv /\ HoldInv /\ LayerInv /\ EndInv /\ DataInv
  BY DEF IInv
<1>2. LayerInv' /\ ZeroStays
  BY <1>1, NextLayerInv
<1>3. TypeInv'
  BY <1>1, NextTypeInv
<1>4. StageInv'
  BY <1>1, NextStageInv
<1>5. MatrixInv'
  BY <1>1, NextMatrixInv
<1>6. HoldInv'
  BY <1>1, <1>2, NextHoldInv
<1>7. EndInv'
  BY <1>1, NextEndInv
<1>8. DataInv'
  BY <1>1, NextDataInv
<1> QED BY <1>2, <1>3, <1>4, <1>5, <1>6, <1>7, <1>8 DEF IInv

\* The invariant holds from the first layer on, whatever the routing, the
\* disk and the scheduler do.
THEOREM Invariant == Spec => []IInv
<1>1. Init => IInv
  BY InitIInv
<1>2. IInv /\ [Next]_vars => IInv'
  BY NextIInv
<1> QED BY <1>1, <1>2, PTL DEF Spec

-----------------------------------------------------------------------------
(* What the invariant says of the layer.                                   *)

LEMMA WaitsBounded ==
  ASSUME TypeInv, StageInv, NEW t \in Threads
  PROVE  waits[t] \in 0..(2 * NLayers)
<1>1. /\ layer \in 0..NLayers /\ NLayers \in Nat /\ waits[t] \in Nat /\ pc[t] \in Labels
  BY Constants DEF TypeInv
<1>2. waits[t] <= 2 * layer
  <2>1. CASE node = "idle"
    BY <1>1, <2>1 DEF StageInv
  <2>2. CASE node # "idle"
    <3>1. Placed(t) /\ layer # 0
      BY <2>2 DEF StageInv
    <3> QED BY <1>1, <3>1 DEF Placed, Labels
  <2> QED BY <2>1, <2>2
<1> QED BY <1>1, <1>2

\* Every variable of the pipeline keeps its type, however many threads, rows,
\* experts and layers there are; a thread waits at most twice in a layer.
THEOREM TypeCorrect == Spec => []TypeOK
<1>1. IInv => TypeOK
  <2> SUFFICES ASSUME TypeInv, StageInv PROVE TypeOK
    BY DEF IInv
  <2>1. waits \in [Threads -> 0..(2 * NLayers)]
    <3>1. waits \in [Threads -> Nat]
      BY DEF TypeInv
    <3> QED BY <3>1, WaitsBounded
  <2> QED BY <2>1 DEF TypeInv, TypeOK, Labels
<1> QED BY <1>1, Invariant, PTL

\* The counts of the tasks are exact, in whatever order the IO worker and the
\* compute threads take them down in, and so is the number of unfinished tasks.
THEOREM CountsExactHolds == Spec => []CountsExact
<1>1. IInv => CountsExact
  <2> SUFFICES ASSUME IInv, layer_data PROVE CountsExact
    BY DEF CountsExact
  <2>1. CountInv /\ TotalInv
    BY DEF IInv, StageInv, LayerInv
  <2> QED BY <2>1 DEF CountsExact, CountInv, TotalInv, Owed, Untold, Waiting, Finished
<1> QED BY <1>1, Invariant, PTL

\* The queue holds each task that may run, once, until one thread takes it; no
\* task is run twice, or by two threads.
THEOREM QueueExactHolds == Spec => []QueueExact
<1>1. IInv => QueueExact
  <2> SUFFICES ASSUME IInv, layer_data PROVE QueueExact
    BY DEF QueueExact
  <2>1. QueueInv /\ HoldInv
    BY DEF IInv, StageInv, LayerInv
  <2>2. ASSUME NEW t \in Running
        PROVE  task[t] \notin ran /\ \A s \in Running \ {t} : task[s] # task[t]
    BY <2>1, <2>2 DEF Running, HoldInv
  <2> QED BY <2>1, <2>2 DEF QueueExact, QueueInv, Held
<1> QED BY <1>1, Invariant, PTL

\* When the reduce task runs, all others have.
LEMMA ReduceLast ==
  ASSUME TypeInv, HoldInv, LayerInv, NEW t \in Threads, pc[t] = "task", task[t] = Reduce
  PROVE  Tasks \ {Reduce} \subseteq ran
<1>1. node # "idle" /\ Reduce \in Tasks
  BY TaskFacts DEF HoldInv
<1>2. Forwards("down") \subseteq ran /\ Preprocess \in ran
  BY <1>1, RunOrder
<1>3. ASSUME NEW x \in Forwards("up") PROVE x \in ran
  <2> DEFINE z == As(x, "down")
  <2>1. z \in Forwards("down") /\ z \in Tasks /\ z.row = x.row /\ z.index = x.index
    BY ForwardFacts, TaskFacts
  <2>2. As(z, "up") \in ran
    BY <1>1, <1>2, <2>1, RunOrder
  <2> HIDE DEF z
  <2>3. As(z, "up") = x
    BY <2>1, ForwardFacts
  <2> QED BY <2>2, <2>3
<1>4. ASSUME NEW x \in Forwards("gate") PROVE x \in ran
  <2> DEFINE z == As(x, "up")
  <2>1. z \in Forwards("up") /\ z \in Tasks /\ z.row = x.row /\ z.index = x.index
    BY ForwardFacts, TaskFacts
  <2>2. As(z, "gate") \in ran
    BY <1>1, <1>3, <2>1, RunOrder
  <2> HIDE DEF z
  <2>3. As(z, "gate") = x
    BY <2>1, ForwardFacts
  <2> QED BY <2>2, <2>3
<1> QED BY <1>2, <1>3, <1>4, ForwardFacts DEF Tasks

\* A task finds everything it reads: the layer's data, the input and the
\* scores of this layer, its matrix, and the results of the tasks before it.
THEOREM InputsReadyHolds == Spec => []InputsReady
<1>1. IInv => InputsReady
  <2> SUFFICES ASSUME IInv, NEW t \in Threads, pc[t] = "task", NEW x, x = task[t]
               PROVE  /\ layer_data
                      /\ x \in ForwardTasks => ready /\ MatrixOf(x) \in examined \ loading
                      /\ x.kind \in {"up", "down"} => [x EXCEPT !.kind = "gate"] \in ran
                      /\ x.kind = "down" => [x EXCEPT !.kind = "up"] \in ran
                      /\ x = Reduce => Running = {t} /\ Forwards("down") \subseteq ran
    BY DEF InputsReady, Running
  <2>1. TypeInv /\ StageInv /\ MatrixInv /\ HoldInv /\ LayerInv /\ EndInv /\ DataInv
    BY DEF IInv
  <2>2. x \in Tasks /\ node = "forward" /\ NoTask \notin Tasks
    BY <2>1, Constants DEF HoldInv
  <2>3. layer_data
    <3>1. pc[Main] # "done"
      BY <2>1, <2>2, Constants DEF EndInv
    <3> QED BY <2>1, <2>2, <3>1 DEF StageInv
  <2>4. x \in ForwardTasks => ready
    <3>1. x \in ForwardTasks => Preprocess \in ran
      BY <2>1, <2>2, RunOrder, ForwardFacts
    <3> QED BY <2>1, <2>2, <3>1 DEF DataInv
  <2>5. x \in ForwardTasks => MatrixOf(x) \in examined \ loading
    <3> SUFFICES ASSUME x \in ForwardTasks PROVE MatrixOf(x) \in examined \ loading
      OBVIOUS
    <3>1. MatrixOf(x) \in examined /\ MatrixOf(x) \in Matrices
      BY <2>1, <2>2, MatrixFacts DEF MatrixInv
    <3>2. ~Waiting(x)
      BY <2>1, <2>2, PrevDone
    <3>3. x \in TasksOf(MatrixOf(x))
      BY DEF TasksOf
    <3> QED BY <2>1, <3>1, <3>2, <3>3 DEF MatrixInv, Waiting
  <2>6. x.kind = "up" => As(x, "gate") \in ran
    BY <2>1, <2>2, RunOrder, TaskFacts DEF FwdKinds
  <2>7. x.kind = "down" => As(x, "up") \in ran /\ As(x, "gate") \in ran
    <3> SUFFICES ASSUME x.kind = "down" PROVE As(x, "up") \in ran /\ As(x, "gate") \in ran
      OBVIOUS
    <3>1. x \in Forwards("down")
      BY <2>2, TaskFacts DEF FwdKinds
    <3> DEFINE z == As(x, "up")
    <3>2. z \in ran /\ As(z, "gate") \in ran
      BY <2>1, <2>2, <3>1, RunOrder
    <3>3. z \in Forwards("up") /\ z.row = x.row /\ z.index = x.index
      BY <3>1, ForwardFacts
    <3> HIDE DEF z
    <3>4. As(z, "gate") = As(x, "gate")
      BY <3>1, <3>3, ForwardFacts
    <3> QED BY <3>2, <3>4 DEF z
  <2>8. x = Reduce => Running = {t} /\ Forwards("down") \subseteq ran
    <3> SUFFICES ASSUME x = Reduce PROVE Running = {t} /\ Forwards("down") \subseteq ran
      OBVIOUS
    <3>1. Tasks \ {Reduce} \subseteq ran
      BY <2>1, ReduceLast
    <3>2. \A u \in Running : u = t
      BY <2>1, <3>1 DEF Running, HoldInv
    <3>3. Forwards("down") \subseteq Tasks /\ Reduce \notin Forwards("down")
      BY ForwardFacts, TaskFacts
    <3> QED BY <3>1, <3>2, <3>3 DEF Running
  <2> QED BY <2>3, <2>4, <2>5, <2>6, <2>7, <2>8 DEF As
<1> QED BY <1>1, Invariant, PTL

\* Every step of the threads and of the IO worker is a step of the abstract
\* layer or changes nothing it sees.
LEMMA StepRefines ==
  ASSUME IInv, [Next]_vars
  PROVE  [MoE!Next]_(MoE!vars)
<1>1. TypeInv /\ StageInv /\ HoldInv /\ LayerInv /\ EndInv /\ DataInv
  BY DEF IInv
<1>2. ASSUME expert_ids' = expert_ids, output' = output, (node' # "idle") <=> (node # "idle")
      PROVE  UNCHANGED MoE!vars
  BY <1>2 DEF MoE!vars
<1>3. CASE UNCHANGED vars \/ StartGraph \/ Build \/ IO
  BY <1>2, <1>3 DEF vars, buildVars, dataVars, StartGraph, Build, EndBuild, ExaminePresent,
                    ExamineLoading, IO, Arrive, Release
<1>4. ASSUME NEW ids \in MoE!Routings, StartLayer(ids) PROVE MoE!Next
  <2>1. MoE!Start(ids)
    BY <1>4 DEF StartLayer, MoE!Start, MoE!EmptyBag, MoE!SetToBag, EmptyBag, SetToBag
  <2> QED BY <2>1 DEF MoE!Next
<1>5. CASE EndNode
  <2>1. /\ node' = "idle" /\ expert_ids' = expert_ids /\ output' = output
        /\ \A t \in Threads : pc[t] = "done"
    BY <1>5 DEF EndNode, dataVars
  <2>2. pc[Main] = "done" /\ node # "idle"
    BY <1>1, <2>1, Constants DEF StageInv
  <2>3. Reduce \in ran
    BY <1>1, <2>2, Constants, TaskFacts DEF EndInv
  <2>4. output = MoE!WeightedSum(expert_ids)
    BY <1>1, <2>2, <2>3 DEF DataInv
  <2>5. MoE!Finish
    BY <2>1, <2>2, <2>4 DEF MoE!Finish
  <2> QED BY <2>5 DEF MoE!Next
<1>6. ASSUME NEW t \in Threads, Thread(t) PROVE [MoE!Next]_(MoE!vars)
  <2>1. CASE RunTask(t) /\ RunReduce(t)
    <3>1. pc[t] = "task" /\ task[t] = Reduce /\ expert_ids' = expert_ids /\ node' = node
      BY <2>1 DEF RunTask, RunReduce, buildVars
    <3>2. Reduce \notin ran /\ node # "idle"
      BY <1>1, <3>1, TaskFacts DEF HoldInv
    <3>3. output = EmptyBag
      BY <1>1, <3>2 DEF DataInv
    <3>4. output' = MoE!WeightedSum(expert_ids)
      BY <1>1, <2>1, RunReduceOutput
    <3>5. MoE!Compute
      BY <3>1, <3>2, <3>3, <3>4 DEF MoE!Compute, MoE!EmptyBag, MoE!SetToBag, EmptyBag, SetToBag
    <3> QED BY <3>5 DEF MoE!Next
  <2>2. CASE RunTask(t) /\ ~RunReduce(t)
    BY <1>2, <2>2 DEF RunTask, RunPreprocess, RunGateUp, RunDown, buildVars
  <2>3. CASE ~RunTask(t)
    BY <1>2, <1>6, <2>3
       DEF Thread, EnterRun, BeginRun, Pop, Finish, Notify, EndRun, EndForward,
           SchedulePreprocess, ResetLayer, buildVars, dataVars
  <2> QED BY <2>1, <2>2, <2>3
<1> QED BY <1>3, <1>4, <1>5, <1>6 DEF Next

\* The task graph computes the layer as MoELayer promises: the output is
\* written once, complete, and stands when the node of the graph ends.
THEOREM ComputesLayerHolds == Spec => ComputesLayer
<1>1. Init => MoE!Init
  BY DEF Init, MoE!Init, MoE!EmptyBag, MoE!SetToBag, EmptyBag, SetToBag
<1>2. IInv /\ [Next]_vars => [MoE!Next]_(MoE!vars)
  BY StepRefines
<1> QED BY <1>1, <1>2, Invariant, PTL DEF Spec, ComputesLayer, MoE!Spec
=============================================================================
