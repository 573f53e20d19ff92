------------------------ MODULE FusedSparseMoEProofs ------------------------
(***************************************************************************)
(* Theorems about FusedSparseMoE, for every number of threads, rows,       *)
(* experts and neurons and every chunk size.  Three invariants carry them. *)
(* PlaceInv: a thread's place in forward determines how often it has       *)
(* waited, and the barrier keeps the waits within one of each other, so a  *)
(* thread that draws, or reduces, knows where all the others are.          *)
(* ShareInv: what each thread has computed of the current expert is a set  *)
(* of neurons of its own; the sets are disjoint, and the counter tells     *)
(* which neurons are in one of them, so the buffers add up to the whole    *)
(* expert when thread 0 reads them, and the output is the sum of the       *)
(* places done.  TypeInv is the type invariant.                            *)
(***************************************************************************)
EXTENDS FusedSparseMoE, FiniteSetTheorems, WellFoundedInduction, TLAPS

-----------------------------------------------------------------------------
(* Buffers that hold disjoint sets of summands, each summand once, add up  *)
(* to the union of the sets, in whatever order they are added.             *)

\* One of the threads s, the one whose buffer is added last.
Chosen(s) == CHOOSE x \in s : TRUE

\* g holds the sum of the buffers of every set s of threads, by recursion.
AddsUp(g, buf) ==
    g = [s \in SUBSET (DOMAIN buf) |->
           IF s = {} THEN EmptyBag ELSE buf[Chosen(s)] (+) g[s \ {Chosen(s)}]]

\* The reduction computes it.
LEMMA SumIsRecursive == \A buf : SumOfBuffers(buf) = (CHOOSE g : AddsUp(g, buf))[DOMAIN buf]
BY DEF SumOfBuffers, FoldFunction, FoldFunctionOnSet, MapThenFoldSet, AddsUp, Chosen

\* Sets of summands without a common member.
Apart(parts) ==
    \A t, u \in DOMAIN parts : t # u => parts[t] \cap parts[u] = {}

\* The union of the sets of the threads s.
Joined(parts, s) == UNION {parts[t] : t \in s}

\* The chosen thread is one of them.
LEMMA ChosenIn == \A s : s # {} => Chosen(s) \in s
BY DEF Chosen

\* Two bags without a common member that hold each summand once.
LEMMA SumOfTwo ==
  ASSUME NEW A, NEW B, A \cap B = {}
  PROVE  SetToBag(A) (+) SetToBag(B) = SetToBag(A \cup B)
<1>1. \A x \in A \cup B : ~(x \in A /\ x \in B)
  OBVIOUS
<1> QED BY <1>1 DEF SetToBag, (+)

\* Bags stay bags.
LEMMA BagFacts ==
  /\ IsABag(EmptyBag)
  /\ \A S : IsABag(SetToBag(S))
  /\ \A A, B : IsABag(A) /\ IsABag(B) => IsABag(A (+) B)
<1>1. \A S : IsABag(SetToBag(S))
  BY DEF IsABag, SetToBag
<1>2. ASSUME NEW A, NEW B, IsABag(A), IsABag(B) PROVE IsABag(A (+) B)
  <2>1. /\ \A x \in DOMAIN A : A[x] \in Nat /\ A[x] > 0
        /\ \A x \in DOMAIN B : B[x] \in Nat /\ B[x] > 0
    BY <1>2 DEF IsABag
  <2> DEFINE C == [x \in DOMAIN A \cup DOMAIN B |->
                     (IF x \in DOMAIN A THEN A[x] ELSE 0) + (IF x \in DOMAIN B THEN B[x] ELSE 0)]
  <2>2. DOMAIN C = DOMAIN A \cup DOMAIN B
    OBVIOUS
  <2>3. \A x \in DOMAIN C : C[x] \in {n \in Nat : n > 0}
    BY <2>1
  <2>4. IsABag(C)
    BY <2>2, <2>3 DEF IsABag
  <2> QED BY <2>4 DEF (+)
<1> QED BY <1>1, <1>2 DEF EmptyBag

\* Adding to an empty buffer.
LEMMA EmptySum == \A S : EmptyBag (+) SetToBag(S) = SetToBag(S)
<1> TAKE S
<1>1. {} \cap S = {} /\ {} \cup S = S
  OBVIOUS
<1>2. SetToBag({}) (+) SetToBag(S) = SetToBag({} \cup S)
  BY <1>1, SumOfTwo
<1> QED BY <1>1, <1>2 DEF EmptyBag

\* The union of the sets is a sum by recursion ...
LEMMA JoinedAddsUp ==
  ASSUME NEW parts, NEW buf, Apart(parts), buf = [t \in DOMAIN parts |-> SetToBag(parts[t])]
  PROVE  AddsUp([s \in SUBSET (DOMAIN buf) |-> SetToBag(Joined(parts, s))], buf)
<1> DEFINE T == DOMAIN parts
           g == [s \in SUBSET T |-> SetToBag(Joined(parts, s))]
<1>1. DOMAIN buf = T
  OBVIOUS
<1>2. ASSUME NEW s \in SUBSET T
      PROVE  g[s] = IF s = {} THEN EmptyBag ELSE buf[Chosen(s)] (+) g[s \ {Chosen(s)}]
  <2>1. CASE s = {}
    <3>1. Joined(parts, s) = {}
      BY <2>1 DEF Joined
    <3> QED BY <2>1, <3>1 DEF EmptyBag
  <2>2. CASE s # {}
    <3>1. Chosen(s) \in s /\ Chosen(s) \in T
      BY <2>2, ChosenIn
    <3>2. parts[Chosen(s)] \cap Joined(parts, s \ {Chosen(s)}) = {}
      BY <3>1 DEF Joined, Apart
    <3>3. parts[Chosen(s)] \cup Joined(parts, s \ {Chosen(s)}) = Joined(parts, s)
      BY <3>1 DEF Joined
    <3>4. buf[Chosen(s)] = SetToBag(parts[Chosen(s)])
      BY <3>1
    <3>5. g[s \ {Chosen(s)}] = SetToBag(Joined(parts, s \ {Chosen(s)}))
      OBVIOUS
    <3>6. g[s] = SetToBag(Joined(parts, s))
      OBVIOUS
    <3>7. SetToBag(parts[Chosen(s)]) (+) SetToBag(Joined(parts, s \ {Chosen(s)}))
            = SetToBag(Joined(parts, s))
      BY <3>2, <3>3, SumOfTwo
    <3> HIDE DEF g
    <3> QED BY <2>2, <3>4, <3>5, <3>6, <3>7
  <2> QED BY <2>1, <2>2
<1>3. g = [s \in SUBSET T |->
             IF s = {} THEN EmptyBag ELSE buf[Chosen(s)] (+) g[s \ {Chosen(s)}]]
  <2> DEFINE h == [s \in SUBSET T |->
             IF s = {} THEN EmptyBag ELSE buf[Chosen(s)] (+) g[s \ {Chosen(s)}]]
  <2>1. \A s \in SUBSET T : g[s] = h[s]
    BY <1>2
  <2>2. DOMAIN g = SUBSET T /\ DOMAIN h = SUBSET T
    OBVIOUS
  <2>3. g = [s \in SUBSET T |-> g[s]] /\ h = [s \in SUBSET T |-> h[s]]
    OBVIOUS
  <2> HIDE DEF g, h
  <2>4. g = h
    BY <2>1, <2>3
  <2> QED BY <2>4 DEF h
<1> QED BY <1>1, <1>3 DEF AddsUp

\* ... and there is no other, since there are finitely many threads.
LEMMA AddsUpOnce ==
  ASSUME NEW buf, IsFiniteSet(DOMAIN buf), NEW g, NEW h, AddsUp(g, buf), AddsUp(h, buf)
  PROVE  g = h
<1> DEFINE T == DOMAIN buf
           Differ == {s \in SUBSET T : g[s] # h[s]}
<1>1. IsWellFoundedOn(StrictSubsetOrdering(T), SUBSET T)
  BY FS_StrictSubsetOrderingWellFounded, FS_FiniteSubsetsOfFinite
<1>2. Differ = {}
  <2> SUFFICES ASSUME Differ # {} PROVE FALSE
    OBVIOUS
  <2>1. PICK s \in Differ : \A r \in Differ : ~(<<r, s>> \in StrictSubsetOrdering(T))
    <3>1. Differ \subseteq SUBSET T
      OBVIOUS
    <3> HIDE DEF Differ
    <3> QED BY <1>1, <3>1, WFMin
  <2>2. s # {}
    BY <2>1 DEF AddsUp
  <2> DEFINE r == s \ {Chosen(s)}
  <2>3. r \in SUBSET T /\ r \subseteq s /\ r # s
    BY <2>1, <2>2, ChosenIn
  <2>4. <<r, s>> \in StrictSubsetOrdering(T)
    BY <2>1, <2>3 DEF StrictSubsetOrdering
  <2>5. g[r] = h[r]
    BY <2>1, <2>3, <2>4
  <2>6. g[s] = buf[Chosen(s)] (+) g[r] /\ h[s] = buf[Chosen(s)] (+) h[r]
    BY <2>1, <2>2 DEF AddsUp
  <2> QED BY <2>1, <2>5, <2>6
<1>3. g = [s \in SUBSET T |-> g[s]] /\ h = [s \in SUBSET T |-> h[s]]
  BY DEF AddsUp
<1>4. \A s \in SUBSET T : g[s] = h[s]
  BY <1>2
<1> HIDE DEF T
<1> QED BY <1>3, <1>4

\* Buffers that hold disjoint sets of summands, each summand once, add up to
\* the union of the sets, whichever of them is added first.
THEOREM SumOfParts ==
  ASSUME NEW parts, IsFiniteSet(DOMAIN parts), Apart(parts), NEW buf,
         buf = [t \in DOMAIN parts |-> SetToBag(parts[t])]
  PROVE  SumOfBuffers(buf) = SetToBag(UNION {parts[t] : t \in DOMAIN parts})
<1> DEFINE h == [s \in SUBSET (DOMAIN buf) |-> SetToBag(Joined(parts, s))]
<1>1. DOMAIN buf = DOMAIN parts
  OBVIOUS
<1>2. AddsUp(h, buf)
  BY JoinedAddsUp
<1>3. h[DOMAIN buf] = SetToBag(Joined(parts, DOMAIN parts))
  BY <1>1
<1> HIDE DEF h
<1>4. AddsUp((CHOOSE g : AddsUp(g, buf)), buf)
  BY <1>2
<1>5. (CHOOSE g : AddsUp(g, buf)) = h
  BY <1>1, <1>2, <1>4, AddsUpOnce
<1> QED BY <1>3, <1>5, SumIsRecursive DEF Joined

-----------------------------------------------------------------------------
(* The places of the two loops, as rows and indices.                       *)

LEMMA Constants ==
  /\ IsFiniteSet(Threads) /\ Main \in Threads
  /\ BatchSize \in Nat \ {0} /\ NUsed \in Nat \ {0}
  /\ HiddenDim \in Nat \ {0} /\ ChunkSize \in Nat \ {0}
  /\ Pairs \in Nat \ {0}
<1>1. /\ IsFiniteSet(Threads) /\ Main \in Threads
      /\ BatchSize \in Nat \ {0} /\ IsFiniteSet(Experts)
      /\ NUsed \in 1..Cardinality(Experts)
      /\ HiddenDim \in Nat \ {0} /\ ChunkSize \in Nat \ {0}
  BY MoEAssumptionHolds DEF MoEAssumption
<1>2. NUsed \in Nat \ {0}
  BY <1>1, FS_CardinalityType
<1>3. \A a, b \in Nat \ {0} : a * b \in Nat \ {0}
  OBVIOUS
<1> QED BY <1>1, <1>2, <1>3 DEF Pairs

LEMMA DivisionFacts ==
  ASSUME NEW a \in Nat, NEW b \in Nat \ {0}
  PROVE  /\ a \div b \in Nat /\ a % b \in Nat /\ a % b < b
         /\ a = b * (a \div b) + (a % b)
  OBVIOUS

LEMMA ProductGrows ==
  ASSUME NEW b \in Nat, NEW m \in Nat, NEW n \in Nat, m <= n
  PROVE  b * m <= b * n
  OBVIOUS

\* Quotient and remainder are unique.
LEMMA DivisionOnce ==
  ASSUME NEW b \in Nat \ {0}, NEW q \in Nat, NEW s \in Nat, s < b
  PROVE  (b * q + s) \div b = q /\ (b * q + s) % b = s
<1> DEFINE a == b * q + s
<1>1. a \in Nat /\ b * q \in Nat
  OBVIOUS
<1> HIDE DEF a
<1> DEFINE p == a \div b
<1>2. p \in Nat /\ a % b \in Nat /\ a % b < b /\ a = b * p + (a % b)
  BY <1>1, DivisionFacts
<1> HIDE DEF p
<1>3. b * p \in Nat /\ b * (p + 1) = b * p + b /\ b * (q + 1) = b * q + b
  BY <1>2
<1>4. ~(p > q)
  <2> SUFFICES ASSUME p > q PROVE FALSE
    OBVIOUS
  <2>1. b * (q + 1) <= b * p
    BY <1>2, ProductGrows
  <2> QED BY <1>1, <1>2, <1>3, <2>1 DEF a
<1>5. ~(p < q)
  <2> SUFFICES ASSUME p < q PROVE FALSE
    OBVIOUS
  <2>1. b * (p + 1) <= b * q
    BY <1>2, ProductGrows
  <2> QED BY <1>1, <1>2, <1>3, <2>1 DEF a
<1>6. p = q
  BY <1>2, <1>4, <1>5
<1>7. a % b = s
  BY <1>1, <1>2, <1>6 DEF a
<1> QED BY <1>6, <1>7 DEF a, p

\* Every place of the loops is a row and an index, and there are no others.
LEMMA PlaceFacts ==
  ASSUME NEW k \in 0..(Pairs - 1)
  PROVE  /\ RowAt(k) \in Rows /\ IndexAt(k) \in 1..NUsed
         /\ k = NUsed * (RowAt(k) - 1) + (IndexAt(k) - 1)
         /\ k % NUsed \in Nat
<1>1. k \in Nat /\ k < BatchSize * NUsed
  BY Constants DEF Pairs
<1> DEFINE q == k \div NUsed
<1>2. q \in Nat /\ k % NUsed \in Nat /\ k % NUsed < NUsed /\ k = NUsed * q + (k % NUsed)
  BY <1>1, Constants, DivisionFacts
<1>3. RowAt(k) = q + 1 /\ IndexAt(k) = (k % NUsed) + 1
  BY DEF RowAt, IndexAt
<1> HIDE DEF q
<1>4. q < BatchSize
  <2> SUFFICES ASSUME BatchSize <= q PROVE FALSE
    BY <1>2, Constants
  <2>1. NUsed * BatchSize <= NUsed * q
    BY <1>2, Constants, ProductGrows
  <2>2. NUsed * BatchSize = BatchSize * NUsed /\ NUsed * BatchSize \in Nat /\ NUsed * q \in Nat
    BY <1>2, Constants
  <2> QED BY <1>1, <1>2, <2>1, <2>2
<1> QED BY <1>2, <1>3, <1>4, Constants DEF Rows

LEMMA PlaceExists ==
  ASSUME NEW r \in Rows, NEW j \in 1..NUsed
  PROVE  \E k \in 0..(Pairs - 1) : RowAt(k) = r /\ IndexAt(k) = j
<1> DEFINE k == NUsed * (r - 1) + (j - 1)
<1>1. r - 1 \in Nat /\ j - 1 \in Nat /\ j - 1 < NUsed /\ r <= BatchSize /\ r \in Nat
  BY Constants DEF Rows
<1>2. k \div NUsed = r - 1 /\ k % NUsed = j - 1
  BY <1>1, Constants, DivisionOnce
<1>3. NUsed * r <= NUsed * BatchSize
  BY <1>1, Constants, ProductGrows
<1>4. /\ NUsed * (r - 1) = NUsed * r - NUsed /\ NUsed * BatchSize = Pairs
      /\ NUsed * r \in Nat /\ NUsed * (r - 1) \in Nat /\ Pairs \in Nat
  BY <1>1, Constants DEF Pairs
<1>5. k \in 0..(Pairs - 1)
  BY <1>1, <1>3, <1>4, Constants
<1>6. RowAt(k) = r /\ IndexAt(k) = j
  BY <1>1, <1>2 DEF RowAt, IndexAt
<1> QED BY <1>5, <1>6

\* Where a row begins, all places before it are of rows before it.
LEMMA RowBegins ==
  ASSUME NEW k \in 0..(Pairs - 1), NEW i \in 0..(Pairs - 1), i < k, IndexAt(k) = 1
  PROVE  RowAt(i) # RowAt(k)
<1>1. RowAt(k) \in Nat /\ k = NUsed * (RowAt(k) - 1) + (IndexAt(k) - 1)
  BY PlaceFacts, Constants DEF Rows
<1>2. IndexAt(i) \in 1..NUsed /\ i = NUsed * (RowAt(i) - 1) + (IndexAt(i) - 1)
  BY PlaceFacts
<1>3. SUFFICES ASSUME RowAt(i) = RowAt(k) PROVE FALSE
  OBVIOUS
<1> DEFINE first == NUsed * (RowAt(k) - 1)
<1>4. first \in Int
  BY <1>1, Constants
<1>5. k = first + (IndexAt(k) - 1) /\ i = first + (IndexAt(i) - 1)
  BY <1>1, <1>2, <1>3
<1> HIDE DEF first
<1> QED BY <1>2, <1>4, <1>5, Constants

-----------------------------------------------------------------------------
(* The invariant.                                                          *)

Labels == {"node", "begin", "enter", "chunks", "compute", "flush", "meet", "reduce",
           "leave", "end"}

TypeInv ==
    /\ computing \in BOOLEAN
    /\ selected_experts \in Routings
    /\ current_neuron \in Nat
    /\ local_buf = [t \in Threads |-> local_buf[t]]
    /\ queued = [t \in Threads |-> queued[t]]
    /\ \A t \in Threads : IsABag(local_buf[t]) /\ IsABag(queued[t])
    /\ IsABag(output)
    /\ pc \in [Threads -> Labels]
    /\ pair \in [Threads -> 0..Pairs]
    /\ beg \in [Threads -> Neurons]
    /\ waits \in [Threads -> 0..(3 * Pairs)]
    /\ inside \in SUBSET Threads

\* Where a thread is in the node, in terms of its waits.
Placed(t) ==
    /\ pc[t] \in {"node", "begin", "end"} => waits[t] = 3 * pair[t]
    /\ pc[t] \in {"enter", "chunks", "compute", "flush"} => waits[t] = 3 * pair[t] + 1
    /\ pc[t] \in {"meet", "reduce"} => waits[t] = 3 * pair[t] + 2
    /\ pc[t] = "leave" => waits[t] = 3 * pair[t] + 3
    /\ t \in inside <=> pc[t] \in {"enter", "meet", "leave"}
    /\ pc[t] = "end" <=> pair[t] = Pairs
    /\ pc[t] = "node" => t = Main /\ pair[t] = 0

\* A thread is ahead of another by one wait at most, which it is inside of.
Together ==
    \A t, u \in Threads : waits[t] > waits[u] => waits[t] = waits[u] + 1 /\ t \in inside

PlaceInv ==
    /\ ~computing => \A t \in Threads : pc[t] = "node"
    /\ computing => (\A t \in Threads : Placed(t)) /\ Together
    /\ quantized \in BOOLEAN
    /\ computing /\ pc[Main] # "node" => quantized

\* The summands of neurons N of the expert at place k.
Part(k, n) == [row |-> RowAt(k), expert |-> ExpertAt(k), block |-> n]
PartsOf(k, N) == {Part(k, n) : n \in N}

\* Thread t has computed the neurons own[t] of the expert it is at.
HoldInv(own) ==
    /\ own \in [Threads -> SUBSET Neurons]
    /\ \A t \in Threads :
         /\ pc[t] \in {"node", "begin", "enter", "end"} => own[t] = {}
         /\ pc[t] \in {"enter", "chunks", "compute", "flush"} => local_buf[t] = EmptyBag
         /\ queued[t] = IF pc[t] \in {"chunks", "compute", "flush"}
                        THEN SetToBag(PartsOf(pair[t], own[t])) ELSE EmptyBag
         /\ pc[t] \in {"meet", "reduce", "leave"} =>
              local_buf[t] = SetToBag(PartsOf(pair[t], own[t]))

\* The neurons a thread has drawn and not yet computed.
Chunk(t) ==
    IF pc[t] = "compute" THEN {n \in Neurons : beg[t] <= n /\ n < beg[t] + ChunkSize} ELSE {}

\* No neuron is drawn twice; from when thread 0 has reset the counter until it has
\* added up the buffers, those before the counter are drawn.
DrawInv(own) ==
    /\ \A t \in Threads : own[t] \cap Chunk(t) = {}
    /\ \A t, u \in Threads : t # u => (own[t] \cup Chunk(t)) \cap (own[u] \cup Chunk(u)) = {}
    /\ pc[Main] \in {"enter", "chunks", "compute", "flush", "meet", "reduce"} =>
         \A n \in Neurons :
           n < current_neuron <=>
             \E t \in Threads : pair[t] = pair[Main] /\ n \in own[t] \cup Chunk(t)
    /\ pc[Main] \in {"flush", "meet", "reduce"} => current_neuron >= HiddenDim

\* The summands of the places before k, as they are in the output.
WeightedPart(k, n) ==
    [row |-> RowAt(k), expert |-> ExpertAt(k), block |-> n, score |-> ScoreAt(k % NUsed)]
Reduced(K) == {WeightedPart(k, n) : k \in 0..(K - 1), n \in Neurons}

\* How many pairs thread 0 has added to the output.
NReduced == IF pc[Main] = "leave" THEN pair[Main] + 1 ELSE pair[Main]

ShareInv ==
    /\ computing => /\ \E own \in [Threads -> SUBSET Neurons] : HoldInv(own) /\ DrawInv(own)
                    /\ output = SetToBag(Reduced(NReduced))
    /\ ~computing => \A t \in Threads : queued[t] = EmptyBag

IInv == TypeInv /\ PlaceInv /\ ShareInv

-----------------------------------------------------------------------------
(* The barrier.                                                            *)

LEMMA EnterTogether ==
  ASSUME TypeInv, Together, NEW t \in Threads, Sync!Enter(t)
  PROVE  /\ Together' /\ t \notin inside /\ t \in inside' /\ waits'[t] = waits[t] + 1
         /\ waits' \in [Threads -> Nat] /\ inside' \subseteq Threads
         /\ \A u \in Threads \ {t} : waits'[u] = waits[u] /\ (u \in inside' <=> u \in inside)
<1>1. /\ waits \in [Threads -> Nat] /\ inside \subseteq Threads /\ t \notin inside
      /\ inside' = inside \cup {t} /\ waits' = [waits EXCEPT ![t] = waits[t] + 1]
  BY Constants DEF TypeInv, Sync!Enter
<1>2. /\ waits'[t] = waits[t] + 1 /\ waits' \in [Threads -> Nat]
      /\ \A u \in Threads \ {t} : waits'[u] = waits[u] /\ (u \in inside' <=> u \in inside)
  BY <1>1
<1>3. \A u \in Threads : waits[u] \in Nat
  BY <1>1
<1>4. \A u, v \in Threads : waits'[u] > waits'[v] => waits'[u] = waits'[v] + 1 /\ u \in inside'
  BY <1>1, <1>2, <1>3 DEF Together
<1> QED BY <1>1, <1>2, <1>4 DEF Together

LEMMA LeaveTogether ==
  ASSUME TypeInv, Together, NEW t \in Threads, Sync!Leave(t)
  PROVE  /\ Together' /\ t \in inside /\ t \notin inside' /\ waits' = waits
         /\ inside' \subseteq Threads
         /\ \A u \in Threads : waits[u] >= waits[t]
         /\ \A u \in Threads \ {t} : u \in inside' <=> u \in inside
<1>1. /\ waits \in [Threads -> Nat] /\ inside \subseteq Threads /\ t \in inside
      /\ inside' = inside \ {t} /\ waits' = waits /\ \A u \in Threads : waits[u] >= waits[t]
  BY Constants DEF TypeInv, Sync!Leave
<1>2. \A u \in Threads : waits[u] \in Nat
  BY <1>1
<1>3. \A u, v \in Threads : waits'[u] > waits'[v] => waits'[u] = waits'[v] + 1 /\ u \in inside'
  BY <1>1, <1>2 DEF Together
<1> QED BY <1>1, <1>3 DEF Together

\* What a thread outside the barrier knows of the others.
LEMMA Outside ==
  ASSUME TypeInv, PlaceInv, computing, NEW t \in Threads, t \notin inside, NEW u \in Threads
  PROVE  waits[u] = waits[t] \/ (waits[u] = waits[t] + 1 /\ u \in inside)
<1>1. waits[t] \in Int /\ waits[u] \in Int
  BY Constants DEF TypeInv
<1> QED BY <1>1 DEF PlaceInv, Together

LEMMA WhileDrawing ==
  ASSUME TypeInv, PlaceInv, computing, NEW t \in Threads, pc[t] \in {"chunks", "compute", "flush"},
         NEW u \in Threads
  PROVE  pair[u] = pair[t] /\ pc[u] \in {"enter", "chunks", "compute", "flush", "meet"}
<1>1. /\ Placed(t) /\ Placed(u) /\ pair[t] \in Int /\ pair[u] \in Int
      /\ waits[t] \in Int /\ waits[u] \in Int /\ pc[u] \in Labels
  BY Constants DEF PlaceInv, TypeInv
<1>2. waits[u] = waits[t] \/ (waits[u] = waits[t] + 1 /\ u \in inside)
  BY <1>1, Outside DEF Placed
<1> QED BY <1>1, <1>2 DEF Placed, Labels

LEMMA WhileReducing ==
  ASSUME TypeInv, PlaceInv, computing, NEW t \in Threads, pc[t] = "reduce", NEW u \in Threads
  PROVE  pair[u] = pair[t] /\ pc[u] \in {"meet", "reduce", "leave"}
<1>1. /\ Placed(t) /\ Placed(u) /\ pair[t] \in Int /\ pair[u] \in Int
      /\ waits[t] \in Int /\ waits[u] \in Int /\ pc[u] \in Labels
  BY Constants DEF PlaceInv, TypeInv
<1>2. waits[u] = waits[t] \/ (waits[u] = waits[t] + 1 /\ u \in inside)
  BY <1>1, Outside DEF Placed
<1> QED BY <1>1, <1>2 DEF Placed, Labels

LEMMA WhileBeginning ==
  ASSUME TypeInv, PlaceInv, computing, NEW t \in Threads, pc[t] = "begin", NEW u \in Threads,
         pair[u] = pair[t]
  PROVE  pc[u] \in {"node", "begin", "enter"}
<1>1. /\ Placed(t) /\ Placed(u) /\ pair[t] \in Int /\ pair[u] \in Int
      /\ waits[t] \in Int /\ waits[u] \in Int /\ pc[u] \in Labels
  BY Constants DEF PlaceInv, TypeInv
<1>2. waits[u] = waits[t] \/ (waits[u] = waits[t] + 1 /\ u \in inside)
  BY <1>1, Outside DEF Placed
<1> QED BY <1>1, <1>2 DEF Placed, Labels

\* The other threads stay where they are.
LEMMA PlacedStays ==
  ASSUME NEW u \in Threads, Placed(u), pc'[u] = pc[u], pair'[u] = pair[u],
         waits'[u] = waits[u], u \in inside' <=> u \in inside
  PROVE  Placed(u)'
BY DEF Placed

\* A step of one thread keeps PlaceInv if it keeps the thread at a place.
LEMMA StepPlaceInv ==
  ASSUME TypeInv, PlaceInv, computing, computing' = computing, NEW t \in Threads,
         NEW label, pc' = [pc EXCEPT ![t] = label],
         \A u \in Threads \ {t} : /\ pair'[u] = pair[u] /\ waits'[u] = waits[u]
                                  /\ u \in inside' <=> u \in inside,
         Placed(t)', Together',
         quantized' = quantized \/ quantized' = TRUE,
         pc[t] = "node" => quantized'
  PROVE  PlaceInv'
<1>1. \A u \in Threads \ {t} : pc'[u] = pc[u]
  BY DEF TypeInv
<1>2. \A u \in Threads : Placed(u)'
  BY <1>1, PlacedStays DEF PlaceInv
<1>3. quantized' \in BOOLEAN /\ (pc'[Main] # "node" => quantized')
  BY <1>1, Constants DEF PlaceInv, TypeInv
<1> QED BY <1>2, <1>3 DEF PlaceInv

LEMMA NextPlaceInv == TypeInv /\ PlaceInv /\ [Next]_vars => PlaceInv'
<1> SUFFICES ASSUME TypeInv, PlaceInv, [Next]_vars PROVE PlaceInv'
  OBVIOUS
<1>1. /\ pc \in [Threads -> Labels] /\ pair \in [Threads -> 0..Pairs] /\ Pairs \in Nat \ {0}
      /\ waits \in [Threads -> 0..(3 * Pairs)] /\ Main \in Threads
  BY Constants DEF TypeInv
<1>2. CASE UNCHANGED vars
  <2>1. \A t \in Threads : Placed(t)' <=> Placed(t)
    BY <1>2 DEF vars, syncVars, runVars, Placed
  <2> QED BY <1>2, <2>1 DEF vars, nodeVars, dataVars, syncVars, runVars, PlaceInv, Together
<1>3. CASE EndNode
  BY <1>3 DEF EndNode, dataVars, PlaceInv
<1>4. ASSUME NEW ids \in Routings, StartNode(ids) PROVE PlaceInv'
  <2>1. /\ computing' = TRUE /\ quantized' = FALSE
        /\ \A t \in Threads : /\ pc'[t] = IF t = Main THEN "node" ELSE "begin"
                              /\ pair'[t] = 0 /\ waits'[t] = 0 /\ t \notin inside'
    BY <1>4 DEF StartNode, Sync!Restart
  <2>2. \A t \in Threads : Placed(t)'
    BY <1>1, <2>1 DEF Placed
  <2>3. Together'
    BY <2>1 DEF Together
  <2>4. pc'[Main] = "node" /\ quantized' \in BOOLEAN
    BY <1>1, <2>1
  <2> QED BY <2>1, <2>2, <2>3, <2>4 DEF PlaceInv
<1>5. ASSUME NEW t \in Threads, Thread(t) PROVE PlaceInv'
  <2>1. computing /\ computing' = computing
    BY <1>5 DEF Thread, Begin, BeginChunks, DrawChunk, ComputeChunk, Flush, EndChunks,
                ReduceOutput, NextPair, Quantize, PlaceInv, nodeVars
  <2>2. Placed(t) /\ Together /\ pair[t] \in Int /\ waits[t] \in Int
    BY <1>1, <2>1 DEF PlaceInv
  <2>3. CASE Begin(t) \/ Flush(t) \/ ReduceOutput(t)
    <3>1. PICK label \in {"enter", "meet", "leave"} :
            /\ pc' = [pc EXCEPT ![t] = label] /\ pair' = pair /\ quantized' = quantized
            /\ Sync!Enter(t)
            /\ pc[t] = IF label = "enter" THEN "begin"
                       ELSE IF label = "meet" THEN "flush" ELSE "reduce"
      BY <2>3 DEF Begin, Flush, ReduceOutput
    <3>2. /\ Together' /\ t \in inside' /\ waits'[t] = waits[t] + 1
          /\ \A u \in Threads \ {t} : waits'[u] = waits[u] /\ (u \in inside' <=> u \in inside)
      BY <2>2, <3>1, EnterTogether
    <3>3. Placed(t)'
      BY <1>1, <2>2, <3>1, <3>2 DEF Placed
    <3> QED BY <2>1, <3>1, <3>2, <3>3, StepPlaceInv
  <2>4. CASE BeginChunks(t) \/ EndChunks(t)
    <3>1. PICK label \in {"chunks", "reduce"} :
            /\ pc' = [pc EXCEPT ![t] = label] /\ pair' = pair /\ quantized' = quantized
            /\ Sync!Leave(t)
            /\ pc[t] = IF label = "chunks" THEN "enter" ELSE "meet"
      BY <2>4 DEF BeginChunks, EndChunks, dataVars
    <3>2. /\ Together' /\ t \notin inside' /\ waits' = waits
          /\ \A u \in Threads \ {t} : u \in inside' <=> u \in inside
      BY <2>2, <3>1, LeaveTogether
    <3>3. Placed(t)'
      BY <1>1, <2>2, <3>1, <3>2 DEF Placed
    <3> QED BY <2>1, <3>1, <3>2, <3>3, StepPlaceInv
  <2>5. CASE NextPair(t)
    <3>1. PICK label \in {"begin", "end"} :
            /\ pc' = [pc EXCEPT ![t] = label] /\ pair' = [pair EXCEPT ![t] = pair[t] + 1]
            /\ label = "end" <=> pair[t] + 1 = Pairs
            /\ quantized' = quantized /\ Sync!Leave(t) /\ pc[t] = "leave"
      BY <2>5 DEF NextPair, dataVars
    <3>2. /\ Together' /\ t \notin inside' /\ waits' = waits
          /\ \A u \in Threads \ {t} : u \in inside' <=> u \in inside
      BY <2>2, <3>1, LeaveTogether
    <3>3. Placed(t)'
      BY <1>1, <2>2, <3>1, <3>2 DEF Placed
    <3>4. \A u \in Threads \ {t} : pair'[u] = pair[u]
      BY <1>1, <3>1
    <3> QED BY <2>1, <3>1, <3>2, <3>3, <3>4, StepPlaceInv
  <2>6. CASE DrawChunk(t) \/ ComputeChunk(t) \/ (t = Main /\ Quantize)
    <3>1. PICK label \in {"compute", "flush", "chunks", "begin"} :
            /\ pc' = [pc EXCEPT ![t] = label] /\ pair' = pair /\ waits' = waits /\ inside' = inside
            /\ quantized' = quantized \/ quantized' = TRUE
            /\ IF pc[t] = "node" THEN label = "begin" /\ quantized'
               ELSE label # "begin" /\ pc[t] \in {"chunks", "compute"}
      BY <2>6 DEF DrawChunk, ComputeChunk, Quantize, dataVars, syncVars
    <3>2. Together'
      BY <2>2, <3>1 DEF Together
    <3>3. Placed(t)'
      BY <1>1, <2>2, <3>1 DEF Placed
    <3> QED BY <2>1, <3>1, <3>2, <3>3, StepPlaceInv
  <2> QED BY <1>5, <2>3, <2>4, <2>5, <2>6 DEF Thread
<1> QED BY <1>2, <1>3, <1>4, <1>5 DEF Next

-----------------------------------------------------------------------------
(* What the buffers and the output hold.                                   *)

\* The parts of different neurons, or with a weight of different places, differ.
LEMMA PartsDiffer ==
  ASSUME NEW k, NEW A, NEW B, A \cap B = {}
  PROVE  /\ PartsOf(k, A) \cap PartsOf(k, B) = {}
         /\ PartsOf(k, A) \cup PartsOf(k, B) = PartsOf(k, A \cup B)
         /\ PartsOf(k, {}) = {}
<1>1. \A m, n : Part(k, m) = Part(k, n) => m = n
  BY DEF Part
<1> QED BY <1>1 DEF PartsOf

\* Routings give a row NUsed distinct experts.
LEMMA RoutingFacts ==
  ASSUME TypeInv, NEW r \in Rows
  PROVE  /\ \A j \in 1..NUsed : selected_experts[r][j] \in Experts
         /\ \A i, j \in 1..NUsed : selected_experts[r][i] = selected_experts[r][j] => i = j
         /\ DOMAIN selected_experts[r] = 1..NUsed
  BY DEF TypeInv, Routings, MoE!Selections

LEMMA WeightedPartsDiffer ==
  ASSUME TypeInv, NEW k \in 0..(Pairs - 1), NEW i \in 0..(Pairs - 1), NEW m, NEW n,
         WeightedPart(k, m) = WeightedPart(i, n)
  PROVE  k = i /\ m = n
<1>1. RowAt(k) = RowAt(i) /\ ExpertAt(k) = ExpertAt(i) /\ m = n
  <2> DEFINE x == WeightedPart(k, m)
             y == WeightedPart(i, n)
  <2>1. x.row = RowAt(k) /\ x.expert = ExpertAt(k) /\ x.block = m
    BY DEF WeightedPart
  <2>2. y.row = RowAt(i) /\ y.expert = ExpertAt(i) /\ y.block = n
    BY DEF WeightedPart
  <2> QED BY <2>1, <2>2
<1>2. RowAt(k) \in Rows /\ IndexAt(k) \in 1..NUsed /\ k = NUsed * (RowAt(k) - 1) + (IndexAt(k) - 1)
  BY PlaceFacts
<1>3. RowAt(i) \in Rows /\ IndexAt(i) \in 1..NUsed /\ i = NUsed * (RowAt(i) - 1) + (IndexAt(i) - 1)
  BY PlaceFacts
<1>4. selected_experts[RowAt(k)][IndexAt(k)] = selected_experts[RowAt(k)][IndexAt(i)]
  BY <1>1 DEF ExpertAt
<1>5. IndexAt(k) = IndexAt(i)
  BY <1>2, <1>3, <1>4, RoutingFacts
<1> QED BY <1>1, <1>2, <1>3, <1>5

\* The weighted sum of all parts of a place.
LEMMA WeightedSumOfPlace ==
  ASSUME NEW k, NEW s, NEW N
  PROVE  Weighted(SetToBag(PartsOf(k, N)), s)
           = SetToBag({[row |-> RowAt(k), expert |-> ExpertAt(k), block |-> n, score |-> s] : n \in N})
<1> DEFINE bag == SetToBag(PartsOf(k, N))
           Weigh(x) == [row |-> x.row, expert |-> x.expert, block |-> x.block, score |-> s]
           W == {[row |-> RowAt(k), expert |-> ExpertAt(k), block |-> n, score |-> s] : n \in N}
<1>1. DOMAIN bag = PartsOf(k, N) /\ \A x \in PartsOf(k, N) : bag[x] = 1
  BY DEF SetToBag
<1>2. {Weigh(x) : x \in PartsOf(k, N)} = W
  <2>1. \A n : Weigh(Part(k, n))
                 = [row |-> RowAt(k), expert |-> ExpertAt(k), block |-> n, score |-> s]
    BY DEF Part
  <2> HIDE DEF Weigh
  <2> QED BY <2>1 DEF PartsOf
<1>3. \A y \in W : [row |-> y.row, expert |-> y.expert, block |-> y.block] \in PartsOf(k, N)
  BY DEF PartsOf, Part
<1>4. Weighted(bag, s) = [y \in {Weigh(x) : x \in DOMAIN bag} |->
                            bag[[row |-> y.row, expert |-> y.expert, block |-> y.block]]]
  BY DEF Weighted, BagToSet
<1> HIDE DEF bag, Weigh, W
<1>5. Weighted(bag, s) = [y \in W |-> bag[[row |-> y.row, expert |-> y.expert, block |-> y.block]]]
  BY <1>1, <1>2, <1>4
<1>6. \A y \in W : bag[[row |-> y.row, expert |-> y.expert, block |-> y.block]] = 1
  BY <1>1, <1>3
<1>7. Weighted(bag, s) = [y \in W |-> 1]
  BY <1>5, <1>6
<1> QED BY <1>7 DEF SetToBag, bag, W

\* The summands that place k adds to the output are new, and the first
\* expert of a row overwrites nothing.
LEMMA AddPlace ==
  ASSUME TypeInv, NEW k \in 0..(Pairs - 1), output = SetToBag(Reduced(k)),
         NEW sums, sums = SetToBag({WeightedPart(k, n) : n \in Neurons}), AddToRow(k, sums)
  PROVE  output' = SetToBag(Reduced(k + 1))
<1> DEFINE Old == {x \in Reduced(k) : IndexAt(k) # 1 \/ x.row # RowAt(k)}
           New == {WeightedPart(k, n) : n \in Neurons}
<1>1. \A i \in 0..(k - 1) : i \in 0..(Pairs - 1) /\ i < k
  BY Constants
<1>2. \A i, n : WeightedPart(i, n).row = RowAt(i)
  BY DEF WeightedPart
<1>3. Old = Reduced(k)
  <2>1. ASSUME NEW x \in Reduced(k), IndexAt(k) = 1 PROVE x.row # RowAt(k)
    <3>1. PICK i \in 0..(k - 1), n \in Neurons : x = WeightedPart(i, n)
      BY DEF Reduced
    <3> QED BY <1>1, <1>2, <2>1, <3>1, RowBegins
  <2> QED BY <2>1
<1>4. New \cap Reduced(k) = {}
  <2>1. SUFFICES ASSUME NEW n \in Neurons, NEW i \in 0..(k - 1), NEW m \in Neurons,
                        WeightedPart(k, n) = WeightedPart(i, m)
                 PROVE  FALSE
    BY DEF Reduced
  <2> QED BY <1>1, <2>1, WeightedPartsDiffer
<1>5. New \cup Reduced(k) = Reduced(k + 1)
  <2>1. 0..k = (0..(k - 1)) \cup {k}
    OBVIOUS
  <2>2. (k + 1) - 1 = k
    OBVIOUS
  <2> QED BY <2>1, <2>2 DEF Reduced
<1>6. [x \in Old |-> output[x]] = SetToBag(Reduced(k))
  BY <1>3 DEF SetToBag
<1>7. DOMAIN output = Reduced(k)
  BY DEF SetToBag
<1>8. output' = sums (+) [x \in Old |-> output[x]]
  BY <1>7 DEF AddToRow, BagToSet
<1> HIDE DEF Old, New
<1>9. output' = SetToBag(New) (+) SetToBag(Reduced(k))
  BY <1>6, <1>8 DEF New
<1>10. SetToBag(New) (+) SetToBag(Reduced(k)) = SetToBag(New \cup Reduced(k))
  BY <1>4, SumOfTwo
<1> QED BY <1>5, <1>9, <1>10

\* When thread 0 reads the buffers, they hold the whole expert.
LEMMA SumsOfPlace ==
  ASSUME TypeInv, PlaceInv, computing, pc[Main] = "reduce",
         NEW own, HoldInv(own), DrawInv(own)
  PROVE  Sums = SetToBag(PartsOf(pair[Main], Neurons))
<1> DEFINE k == pair[Main]
           parts == [t \in Threads |-> PartsOf(k, own[t])]
<1>1. \A t \in Threads : pair[t] = k /\ pc[t] \in {"meet", "reduce", "leave"}
  BY Constants, WhileReducing
<1>2. \A t \in Threads : local_buf[t] = SetToBag(parts[t]) /\ Chunk(t) = {}
  BY <1>1 DEF HoldInv, Chunk
<1>3. DOMAIN parts = Threads /\ local_buf = [t \in DOMAIN parts |-> SetToBag(parts[t])]
  <2>1. local_buf = [t \in Threads |-> local_buf[t]]
    BY DEF TypeInv
  <2>2. \A t \in Threads : local_buf[t] = SetToBag(parts[t])
    BY <1>2
  <2>3. DOMAIN parts = Threads
    OBVIOUS
  <2> HIDE DEF parts
  <2> QED BY <2>1, <2>2, <2>3
<1>4. Apart(parts)
  <2>1. SUFFICES ASSUME NEW t \in Threads, NEW u \in Threads, t # u
                 PROVE  PartsOf(k, own[t]) \cap PartsOf(k, own[u]) = {}
    BY DEF Apart
  <2>2. own[t] \cap own[u] = {}
    BY <2>1 DEF DrawInv
  <2> QED BY <2>2, PartsDiffer
<1>5. \A n \in Neurons : \E t \in Threads : n \in own[t]
  <2> SUFFICES ASSUME NEW n \in Neurons PROVE \E t \in Threads : n \in own[t]
    OBVIOUS
  <2>1. current_neuron >= HiddenDim /\ current_neuron \in Nat /\ HiddenDim \in Nat
    BY Constants DEF DrawInv, TypeInv
  <2>2. n < current_neuron
    BY <2>1 DEF Neurons
  <2>3. PICK t \in Threads : n \in own[t] \cup Chunk(t)
    BY <2>2 DEF DrawInv
  <2> QED BY <1>2, <2>3
<1>6. UNION {parts[t] : t \in DOMAIN parts} = PartsOf(k, Neurons)
  <2>1. \A t \in Threads : own[t] \subseteq Neurons
    BY DEF HoldInv
  <2> QED BY <1>5, <2>1 DEF PartsOf
<1> HIDE DEF parts
<1>7. IsFiniteSet(DOMAIN parts)
  BY <1>3, Constants
<1>8. SumOfBuffers(local_buf) = SetToBag(UNION {parts[t] : t \in DOMAIN parts})
  BY <1>3, <1>4, <1>7, SumOfParts
<1> QED BY <1>6, <1>8 DEF Sums

\* Thread 0 adds one pair to the output.
LEMMA ReduceShareInv ==
  ASSUME TypeInv, PlaceInv, ShareInv, computing, ReduceOutput(Main)
  PROVE  output' = SetToBag(Reduced(pair[Main] + 1))
<1>1. pc[Main] = "reduce" /\ AddToRow(pair[Main], Weighted(Sums, ScoreAt(pair[Main] % NUsed)))
  BY DEF ReduceOutput
<1>2. PICK own \in [Threads -> SUBSET Neurons] : HoldInv(own) /\ DrawInv(own)
  BY DEF ShareInv
<1>3. Sums = SetToBag(PartsOf(pair[Main], Neurons))
  BY <1>1, <1>2, SumsOfPlace
<1>4. Weighted(Sums, ScoreAt(pair[Main] % NUsed))
        = SetToBag({WeightedPart(pair[Main], n) : n \in Neurons})
  BY <1>3, WeightedSumOfPlace DEF WeightedPart
<1>5. output = SetToBag(Reduced(pair[Main]))
  BY <1>1 DEF ShareInv, NReduced
<1>6. pair[Main] \in 0..(Pairs - 1)
  BY <1>1, Constants DEF PlaceInv, Placed, TypeInv
<1> QED BY <1>1, <1>4, <1>5, <1>6, AddPlace

\* The summands that are meant do not change while the routing does not.
LEMMA RoutingStays ==
  ASSUME selected_experts' = selected_experts
  PROVE  /\ \A K : Reduced(K)' = Reduced(K)
         /\ \A k, N : PartsOf(k, N)' = PartsOf(k, N)
<1>1. \A k, n : WeightedPart(k, n)' = WeightedPart(k, n) /\ Part(k, n)' = Part(k, n)
  BY DEF WeightedPart, Part, ScoreAt, ExpertAt, RowAt, IndexAt
<1> QED BY <1>1 DEF Reduced, PartsOf, Neurons

\* A step of a thread keeps ShareInv if the shares of the threads, as they
\* are afterwards, keep their invariants, and the output is what it should be.
LEMMA StepShareInv ==
  ASSUME computing, computing' = computing, selected_experts' = selected_experts,
         NEW own \in [Threads -> SUBSET Neurons], HoldInv(own)', DrawInv(own)',
         NEW K, NReduced' = K, output' = SetToBag(Reduced(K))
  PROVE  ShareInv'
<1>1. Reduced(K)' = Reduced(K)
  BY RoutingStays
<1>2. output' = SetToBag(Reduced(NReduced))'
  BY <1>1 DEF SetToBag
<1>3. HoldInv(own)' /\ DrawInv(own)'
  OBVIOUS
<1> QED BY <1>2, <1>3 DEF ShareInv

\* A thread takes a step, the others hold what they held.
LEMMA StepHoldInv ==
  ASSUME TypeInv, NEW old, HoldInv(old), NEW t \in Threads, NEW label \in Labels,
         NEW own \in [Threads -> SUBSET Neurons],
         pc' = [pc EXCEPT ![t] = label], selected_experts' = selected_experts,
         \A u \in Threads \ {t} : /\ queued'[u] = queued[u] /\ local_buf'[u] = local_buf[u]
                                  /\ pair'[u] = pair[u] /\ own[u] = old[u],
         label \in {"node", "begin", "enter", "end"} => own[t] = {},
         label \in {"enter", "chunks", "compute", "flush"} => local_buf'[t] = EmptyBag,
         queued'[t] = IF label \in {"chunks", "compute", "flush"}
                      THEN SetToBag(PartsOf(pair'[t], own[t])) ELSE EmptyBag,
         label \in {"meet", "reduce", "leave"} =>
           local_buf'[t] = SetToBag(PartsOf(pair'[t], own[t]))
  PROVE  HoldInv(own)'
<1>1. pc'[t] = label /\ \A u \in Threads \ {t} : pc'[u] = pc[u]
  BY DEF TypeInv
<1>2. \A u \in Threads : PartsOf(pair[u], own[u])' = PartsOf(pair'[u], own[u])
  BY RoutingStays
<1> DEFINE H(u) ==
         /\ pc'[u] \in {"node", "begin", "enter", "end"} => own[u] = {}
         /\ pc'[u] \in {"enter", "chunks", "compute", "flush"} => local_buf'[u] = EmptyBag
         /\ queued'[u] = IF pc'[u] \in {"chunks", "compute", "flush"}
                         THEN SetToBag(PartsOf(pair'[u], own[u])) ELSE EmptyBag
         /\ pc'[u] \in {"meet", "reduce", "leave"} =>
              local_buf'[u] = SetToBag(PartsOf(pair'[u], own[u]))
<1>3. H(t)
  BY <1>1
<1>4. \A u \in Threads \ {t} : H(u)
  BY <1>1 DEF HoldInv
<1>5. \A u \in Threads : H(u)
  BY <1>3, <1>4
<1> HIDE DEF H
<1> QED BY <1>2, <1>5 DEF HoldInv, H, SetToBag, EmptyBag

\* A step of a thread that does not touch what has been drawn.
LEMMA QuietDrawInv ==
  ASSUME TypeInv, NEW own, DrawInv(own), NEW t \in Threads,
         NEW label \in Labels \ {"compute"},
         pc[t] # "compute", pc' = [pc EXCEPT ![t] = label], pair' = pair, beg' = beg,
         current_neuron' = current_neuron,
         t = Main /\ label \in {"enter", "chunks", "flush", "meet", "reduce"} =>
           pc[t] \in {"enter", "chunks", "compute", "flush", "meet", "reduce"},
         t = Main /\ label \in {"flush", "meet", "reduce"} => pc[t] \in {"flush", "meet", "reduce"}
  PROVE  DrawInv(own)'
<1>1. pc'[t] = label /\ \A u \in Threads \ {t} : pc'[u] = pc[u]
  BY DEF TypeInv
<1>2. \A u \in Threads : Chunk(u)' = Chunk(u)
  BY <1>1 DEF Chunk, Neurons
<1>3. Main \in Threads
  BY Constants
<1>4. /\ \A u \in Threads : own[u] \cap Chunk(u)' = {}
      /\ \A u, v \in Threads : u # v => (own[u] \cup Chunk(u)') \cap (own[v] \cup Chunk(v)') = {}
  BY <1>2 DEF DrawInv
<1>5. pc'[Main] \in {"enter", "chunks", "compute", "flush", "meet", "reduce"} =>
         \A n \in Neurons :
           n < current_neuron' <=>
             \E u \in Threads : pair'[u] = pair'[Main] /\ n \in own[u] \cup Chunk(u)'
  <2>1. pc'[Main] \in {"enter", "chunks", "compute", "flush", "meet", "reduce"} =>
          pc[Main] \in {"enter", "chunks", "compute", "flush", "meet", "reduce"}
    BY <1>1, <1>3
  <2> QED BY <1>2, <2>1 DEF DrawInv
<1>6. pc'[Main] \in {"flush", "meet", "reduce"} => current_neuron' >= HiddenDim
  BY <1>1, <1>3 DEF DrawInv
<1> QED BY <1>4, <1>5, <1>6 DEF DrawInv, Neurons

\* The fetch_add on the counter.
LEMMA DrawChunkDrawInv ==
  ASSUME TypeInv, PlaceInv, computing, NEW own, HoldInv(own), DrawInv(own),
         NEW t \in Threads, DrawChunk(t)
  PROVE  DrawInv(own)'
<1>1. /\ pc \in [Threads -> Labels] /\ Main \in Threads /\ current_neuron \in Nat
      /\ ChunkSize \in Nat \ {0} /\ HiddenDim \in Nat /\ beg \in [Threads -> Neurons]
      /\ \A n \in Neurons : n \in Nat /\ n < HiddenDim
  BY Constants DEF TypeInv, Neurons
<1>2. PICK label \in {"compute", "flush"} :
        /\ pc[t] = "chunks" /\ pc' = [pc EXCEPT ![t] = label] /\ pair' = pair
        /\ current_neuron' = current_neuron + ChunkSize
        /\ \/ label = "compute" /\ current_neuron < HiddenDim
              /\ beg' = [beg EXCEPT ![t] = current_neuron]
           \/ label = "flush" /\ current_neuron >= HiddenDim /\ beg' = beg
  BY DEF DrawChunk
<1>3. pc'[t] = label /\ \A u \in Threads \ {t} : pc'[u] = pc[u] /\ beg'[u] = beg[u]
  BY <1>1, <1>2
<1>4. \A u \in Threads : /\ pair[u] = pair[Main]
                         /\ pc[Main] \in {"enter", "chunks", "compute", "flush", "meet"}
  <2>1. \A u \in Threads : pair[u] = pair[t] /\ pc[u] \in {"enter", "chunks", "compute", "flush", "meet"}
    BY <1>2, WhileDrawing
  <2> QED BY <1>1, <2>1
<1> DEFINE drawn == {n \in Neurons : current_neuron <= n /\ n < current_neuron + ChunkSize}
<1>5. Chunk(t) = {} /\ \A u \in Threads \ {t} : Chunk(u)' = Chunk(u)
  BY <1>2, <1>3 DEF Chunk, Neurons
<1>6. Chunk(t)' = drawn
  <2>1. CASE label = "compute"
    <3>1. beg'[t] = current_neuron /\ pc'[t] = "compute"
      BY <1>1, <1>2, <1>3, <2>1
    <3> QED BY <3>1 DEF Chunk, Neurons
  <2>2. CASE label = "flush"
    <3>1. drawn = {}
      BY <1>1, <1>2, <2>2
    <3> QED BY <1>3, <2>2, <3>1 DEF Chunk
  <2> QED BY <2>1, <2>2
<1>7. \A n \in Neurons : n < current_neuron <=> \E u \in Threads : n \in own[u] \cup Chunk(u)
  BY <1>4 DEF DrawInv
<1>8. \A u \in Threads : (own[u] \cup Chunk(u)) \cap drawn = {}
  BY <1>1, <1>7
<1>9. \A n \in Neurons : n < current_neuron' <=> n < current_neuron \/ n \in drawn
  BY <1>1, <1>2
<1> HIDE DEF drawn
<1>10. \A u \in Threads : own[u] \cap Chunk(u)' = {}
  BY <1>5, <1>6, <1>8 DEF DrawInv
<1>11. \A u, v \in Threads : u # v => (own[u] \cup Chunk(u)') \cap (own[v] \cup Chunk(v)') = {}
  BY <1>5, <1>6, <1>8 DEF DrawInv
<1>12. \A n \in Neurons :
         n < current_neuron' <=> \E u \in Threads : pair'[u] = pair'[Main] /\ n \in own[u] \cup Chunk(u)'
  <2>1. \A n \in Neurons : (\E u \in Threads : n \in own[u] \cup Chunk(u)')
                             <=> (\E u \in Threads : n \in own[u] \cup Chunk(u)) \/ n \in drawn
    BY <1>5, <1>6
  <2> QED BY <1>2, <1>4, <1>7, <1>9, <2>1
<1>13. pc'[Main] \in {"flush", "meet", "reduce"} => current_neuron' >= HiddenDim
  BY <1>1, <1>2, <1>3 DEF DrawInv
<1> QED BY <1>10, <1>11, <1>12, <1>13 DEF DrawInv, Neurons

\* Every step keeps ShareInv.
LEMMA NextShareInv ==
  ASSUME TypeInv, PlaceInv, ShareInv, [Next]_vars
  PROVE  ShareInv'
<1>1. /\ pc \in [Threads -> Labels] /\ pair \in [Threads -> 0..Pairs] /\ Pairs \in Nat \ {0}
      /\ beg \in [Threads -> Neurons] /\ current_neuron \in Nat
      /\ Main \in Threads /\ HiddenDim \in Nat
      /\ \A n \in Neurons : n \in Nat
      /\ local_buf = [u \in Threads |-> local_buf[u]]
      /\ queued = [u \in Threads |-> queued[u]]
  BY Constants DEF TypeInv, Neurons
<1>2. CASE UNCHANGED vars
  <2>1. computing' = computing /\ selected_experts' = selected_experts
    BY <1>2 DEF vars, nodeVars
  <2>2. ASSUME NEW own \in [Threads -> SUBSET Neurons], HoldInv(own), DrawInv(own)
        PROVE  HoldInv(own)' /\ DrawInv(own)'
    <3>1. HoldInv(own)'
      BY <1>2, <2>1, <2>2, RoutingStays DEF vars, dataVars, runVars, HoldInv, SetToBag, EmptyBag
    <3>2. DrawInv(own)'
      BY <1>2, <2>2 DEF vars, dataVars, runVars, DrawInv, Chunk
    <3> QED BY <3>1, <3>2
  <2>3. (NReduced' = NReduced) /\ output' = output
    BY <1>2 DEF vars, dataVars, runVars, NReduced
  <2>4. ASSUME computing PROVE ShareInv'
    <3>1. PICK own \in [Threads -> SUBSET Neurons] : HoldInv(own) /\ DrawInv(own)
      BY <2>4 DEF ShareInv
    <3>2. PICK K : K = NReduced
      OBVIOUS
    <3>3. output' = SetToBag(Reduced(K))
      BY <2>3, <2>4, <3>2 DEF ShareInv
    <3>4. NReduced' = K
      BY <2>3, <3>2
    <3> QED BY <2>1, <2>2, <2>4, <3>1, <3>3, <3>4, StepShareInv
  <2>5. queued' = queued
    BY <1>2 DEF vars, runVars
  <2> QED BY <2>1, <2>4, <2>5 DEF ShareInv
<1>3. CASE EndNode
  <2>1. computing /\ computing' = FALSE /\ queued' = queued /\ \A t \in Threads : pc[t] = "end"
    BY <1>3 DEF EndNode
  <2>2. PICK own \in [Threads -> SUBSET Neurons] : HoldInv(own)
    BY <2>1 DEF ShareInv
  <2>3. \A t \in Threads : queued[t] = EmptyBag
    BY <2>1, <2>2 DEF HoldInv
  <2> QED BY <2>1, <2>3 DEF ShareInv, EmptyBag
<1>4. ASSUME NEW ids \in Routings, StartNode(ids) PROVE ShareInv'
  <2>1. /\ output' = EmptyBag /\ local_buf' = local_buf /\ queued' = queued
        /\ \A t \in Threads : /\ pc'[t] = IF t = Main THEN "node" ELSE "begin"
                              /\ pair'[t] = 0
    BY <1>4 DEF StartNode
  <2>2. \A t \in Threads : queued'[t] = EmptyBag
    BY <1>4, <2>1 DEF StartNode, ShareInv
  <2> DEFINE own == [t \in Threads |-> {}]
  <2>3. own \in [Threads -> SUBSET Neurons]
    OBVIOUS
  <2>4. HoldInv(own)'
    BY <2>1, <2>2, <2>3 DEF HoldInv, Neurons, EmptyBag
  <2>5. \A t \in Threads : Chunk(t)' = {}
    BY <2>1 DEF Chunk
  <2>6. DrawInv(own)'
    BY <1>1, <2>1, <2>5 DEF DrawInv
  <2>7. NReduced' = 0 /\ 0..(0 - 1) = {}
    BY <1>1, <2>1 DEF NReduced
  <2>8. Reduced(NReduced)' = {}
    BY <2>7 DEF Reduced
  <2>9. output' = SetToBag(Reduced(NReduced))'
    BY <2>1, <2>8 DEF SetToBag, EmptyBag
  <2>10. computing'
    BY <1>4 DEF StartNode
  <2> HIDE DEF own
  <2> QED BY <2>3, <2>4, <2>6, <2>9, <2>10 DEF ShareInv
<1>5. ASSUME NEW t \in Threads, Thread(t) PROVE ShareInv'
  <2>1. computing /\ computing' = computing /\ selected_experts' = selected_experts
    BY <1>5 DEF Thread, Begin, BeginChunks, DrawChunk, ComputeChunk, Flush, EndChunks,
                ReduceOutput, NextPair, Quantize, PlaceInv, nodeVars
  <2>2. PICK own \in [Threads -> SUBSET Neurons] : HoldInv(own) /\ DrawInv(own)
    BY <2>1 DEF ShareInv
  <2>3. \E new \in [Threads -> SUBSET Neurons] : HoldInv(new)' /\ DrawInv(new)'
    <3>1. CASE t = Main /\ Quantize
      <4>1. /\ pc[t] = "node" /\ pc' = [pc EXCEPT ![t] = "begin"] /\ pair' = pair /\ beg' = beg
            /\ current_neuron' = current_neuron /\ queued' = queued /\ local_buf' = local_buf
        BY <3>1 DEF Quantize
      <4>2. own[t] = {} /\ queued[t] = EmptyBag
        BY <2>2, <4>1 DEF HoldInv
      <4>3. HoldInv(own)'
        BY <2>1, <2>2, <4>1, <4>2, StepHoldInv DEF Labels
      <4>4. DrawInv(own)'
        BY <2>2, <4>1, QuietDrawInv DEF Labels
      <4> QED BY <4>3, <4>4
    <3>2. CASE Begin(t)
      <4>1. /\ pc[t] = "begin" /\ pc' = [pc EXCEPT ![t] = "enter"] /\ pair' = pair /\ beg' = beg
            /\ current_neuron' = IF t = Main THEN 0 ELSE current_neuron
            /\ queued' = queued /\ local_buf' = [local_buf EXCEPT ![t] = EmptyBag]
        BY <3>2 DEF Begin
      <4>2. own[t] = {} /\ queued[t] = EmptyBag
        BY <2>2, <4>1 DEF HoldInv
      <4>3. local_buf'[t] = EmptyBag /\ \A u \in Threads \ {t} : local_buf'[u] = local_buf[u]
        BY <1>1, <4>1
      <4>4. HoldInv(own)'
        BY <2>1, <2>2, <4>1, <4>2, <4>3, StepHoldInv DEF Labels
      <4>5. CASE t # Main
        <5>1. DrawInv(own)'
          BY <2>2, <4>1, <4>5, QuietDrawInv DEF Labels
        <5> QED BY <4>4, <5>1
      <4>6. CASE t = Main
        <5>1. pc'[t] = "enter" /\ \A u \in Threads \ {t} : pc'[u] = pc[u]
          BY <1>1, <4>1
        <5>2. \A u \in Threads : Chunk(u)' = Chunk(u)
          BY <4>1, <5>1 DEF Chunk, Neurons
        <5>3. \A u \in Threads : pair[u] = pair[t] => own[u] = {} /\ Chunk(u) = {}
          <6>1. \A u \in Threads : pair[u] = pair[t] => pc[u] \in {"node", "begin", "enter"}
            BY <2>1, <4>1, WhileBeginning
          <6> QED BY <2>2, <6>1 DEF HoldInv, Chunk
        <5>4. \A n \in Neurons : ~(n < current_neuron')
          BY <1>1, <4>1, <4>6
        <5>5. DrawInv(own)'
          BY <2>2, <4>1, <4>6, <5>1, <5>2, <5>3, <5>4 DEF DrawInv, Neurons
        <5> QED BY <4>4, <5>5
      <4> QED BY <4>5, <4>6
    <3>3. CASE BeginChunks(t)
      <4>1. /\ pc[t] = "enter" /\ pc' = [pc EXCEPT ![t] = "chunks"] /\ pair' = pair /\ beg' = beg
            /\ current_neuron' = current_neuron /\ queued' = queued /\ local_buf' = local_buf
        BY <3>3 DEF BeginChunks, dataVars
      <4>2. own[t] = {} /\ queued[t] = EmptyBag /\ local_buf[t] = EmptyBag
        BY <2>2, <4>1 DEF HoldInv
      <4>3. SetToBag(PartsOf(pair'[t], own[t])) = EmptyBag
        BY <4>2, PartsDiffer DEF EmptyBag
      <4>4. HoldInv(own)'
        BY <2>1, <2>2, <4>1, <4>2, <4>3, StepHoldInv DEF Labels
      <4>5. DrawInv(own)'
        BY <2>2, <4>1, QuietDrawInv DEF Labels
      <4> QED BY <4>4, <4>5
    <3>4. CASE DrawChunk(t)
      <4>1. PICK label \in {"compute", "flush"} :
              /\ pc[t] = "chunks" /\ pc' = [pc EXCEPT ![t] = label] /\ pair' = pair
              /\ queued' = queued /\ local_buf' = local_buf
        BY <3>4 DEF DrawChunk
      <4>2. local_buf[t] = EmptyBag /\ queued[t] = SetToBag(PartsOf(pair[t], own[t]))
        BY <2>2, <4>1 DEF HoldInv
      <4>3. HoldInv(own)'
        BY <2>1, <2>2, <4>1, <4>2, StepHoldInv DEF Labels
      <4>4. DrawInv(own)'
        BY <2>1, <2>2, <3>4, DrawChunkDrawInv
      <4> QED BY <4>3, <4>4
    <3>5. CASE ComputeChunk(t)
      <4>1. /\ pc[t] = "compute" /\ pc' = [pc EXCEPT ![t] = "chunks"] /\ pair' = pair /\ beg' = beg
            /\ current_neuron' = current_neuron /\ local_buf' = local_buf
            /\ queued' = [queued EXCEPT ![t] = queued[t] (+) SetToBag(PartsOf(pair[t], Chunk(t)))]
        <5>1. pc[t] = "compute"
          BY <3>5 DEF ComputeChunk
        <5>2. PartsOf(pair[t], Chunk(t))
                = {[row |-> RowAt(pair[t]), expert |-> ExpertAt(pair[t]), block |-> n]
                     : n \in {n \in Neurons : beg[t] <= n /\ n < beg[t] + ChunkSize}}
          BY <5>1 DEF PartsOf, Part, Chunk
        <5> QED BY <3>5, <5>2 DEF ComputeChunk, dataVars
      <4> DEFINE new == [own EXCEPT ![t] = own[t] \cup Chunk(t)]
      <4>2. Chunk(t) \subseteq Neurons /\ own[t] \cap Chunk(t) = {}
        BY <2>2 DEF DrawInv, Chunk
      <4>3. /\ new \in [Threads -> SUBSET Neurons] /\ new[t] = own[t] \cup Chunk(t)
            /\ \A u \in Threads \ {t} : new[u] = own[u]
        BY <2>2, <4>2
      <4> HIDE DEF new
      <4>4. local_buf[t] = EmptyBag /\ queued[t] = SetToBag(PartsOf(pair[t], own[t]))
        BY <2>2, <4>1 DEF HoldInv
      <4>5. SetToBag(PartsOf(pair[t], own[t])) (+) SetToBag(PartsOf(pair[t], Chunk(t)))
              = SetToBag(PartsOf(pair[t], new[t]))
        <5>1. /\ PartsOf(pair[t], own[t]) \cap PartsOf(pair[t], Chunk(t)) = {}
              /\ PartsOf(pair[t], own[t]) \cup PartsOf(pair[t], Chunk(t)) = PartsOf(pair[t], new[t])
          <6>1. PICK A, B : A = own[t] /\ B = Chunk(t)
            OBVIOUS
          <6>2. A \cap B = {} /\ A \cup B = new[t]
            BY <4>2, <4>3, <6>1
          <6> QED BY <6>1, <6>2, PartsDiffer
        <5> QED BY <5>1, SumOfTwo
      <4>6. /\ queued'[t] = SetToBag(PartsOf(pair'[t], new[t]))
            /\ \A u \in Threads \ {t} : queued'[u] = queued[u]
        BY <1>1, <4>1, <4>4, <4>5
      <4>7. PICK m \in [Threads -> SUBSET Neurons] : m = new
        BY <4>3
      <4>8. HoldInv(m)'
        BY <2>1, <2>2, <4>1, <4>3, <4>4, <4>6, <4>7, StepHoldInv DEF Labels
      <4>9. pc'[t] = "chunks" /\ \A u \in Threads \ {t} : pc'[u] = pc[u]
        BY <1>1, <4>1
      <4>10. Chunk(t)' = {} /\ \A u \in Threads \ {t} : Chunk(u)' = Chunk(u)
        BY <4>1, <4>9 DEF Chunk, Neurons
      <4>11. \A u \in Threads : m[u] \cup Chunk(u)' = own[u] \cup Chunk(u)
        BY <4>3, <4>7, <4>10
      <4>12. \A u \in Threads : m[u] \cap Chunk(u)' = {}
        BY <2>2, <4>3, <4>7, <4>10 DEF DrawInv
      <4>13. pc'[Main] \in {"enter", "chunks", "compute", "flush", "meet", "reduce"} =>
               pc[Main] \in {"enter", "chunks", "compute", "flush", "meet", "reduce"}
        BY <1>1, <4>1, <4>9
      <4>14. pc'[Main] \in {"flush", "meet", "reduce"} => pc[Main] \in {"flush", "meet", "reduce"}
        BY <1>1, <4>9
      <4>15. DrawInv(m)'
        BY <2>2, <4>1, <4>11, <4>12, <4>13, <4>14 DEF DrawInv, Neurons
      <4> QED BY <4>8, <4>15
    <3>6. CASE Flush(t)
      <4>1. /\ pc[t] = "flush" /\ pc' = [pc EXCEPT ![t] = "meet"] /\ pair' = pair /\ beg' = beg
            /\ current_neuron' = current_neuron
            /\ local_buf' = [local_buf EXCEPT ![t] = local_buf[t] (+) queued[t]]
            /\ queued' = [queued EXCEPT ![t] = EmptyBag]
        BY <3>6 DEF Flush
      <4>2. local_buf[t] = EmptyBag /\ queued[t] = SetToBag(PartsOf(pair[t], own[t]))
        BY <2>2, <4>1 DEF HoldInv
      <4>3. local_buf[t] (+) queued[t] = SetToBag(PartsOf(pair[t], own[t]))
        BY <4>2, EmptySum
      <4>4. /\ local_buf'[t] = SetToBag(PartsOf(pair'[t], own[t])) /\ queued'[t] = EmptyBag
            /\ \A u \in Threads \ {t} : local_buf'[u] = local_buf[u] /\ queued'[u] = queued[u]
        BY <1>1, <4>1, <4>3
      <4>5. HoldInv(own)'
        BY <2>1, <2>2, <4>1, <4>4, StepHoldInv DEF Labels
      <4>6. DrawInv(own)'
        BY <2>2, <4>1, QuietDrawInv DEF Labels
      <4> QED BY <4>5, <4>6
    <3>7. CASE EndChunks(t) \/ ReduceOutput(t)
      <4>1. PICK label \in {"reduce", "leave"} :
              /\ pc' = [pc EXCEPT ![t] = label] /\ pair' = pair /\ beg' = beg
              /\ pc[t] = IF label = "reduce" THEN "meet" ELSE "reduce"
              /\ current_neuron' = current_neuron /\ queued' = queued /\ local_buf' = local_buf
        BY <3>7 DEF EndChunks, ReduceOutput, dataVars
      <4>2. local_buf[t] = SetToBag(PartsOf(pair[t], own[t])) /\ queued[t] = EmptyBag
        BY <2>2, <4>1 DEF HoldInv
      <4>3. HoldInv(own)'
        BY <2>1, <2>2, <4>1, <4>2, StepHoldInv DEF Labels
      <4>4. DrawInv(own)'
        BY <2>2, <4>1, QuietDrawInv DEF Labels
      <4> QED BY <4>3, <4>4
    <3>8. CASE NextPair(t)
      <4>1. PICK label \in {"begin", "end"} :
              /\ pc[t] = "leave" /\ pc' = [pc EXCEPT ![t] = label]
              /\ pair' = [pair EXCEPT ![t] = pair[t] + 1] /\ beg' = beg
              /\ current_neuron' = current_neuron /\ queued' = queued /\ local_buf' = local_buf
              /\ Sync!Leave(t)
        BY <3>8 DEF NextPair, dataVars
      <4>2. queued[t] = EmptyBag
        BY <2>2, <4>1 DEF HoldInv
      <4>3. PICK m \in [Threads -> SUBSET Neurons] : m = [own EXCEPT ![t] = {}]
        BY <2>2
      <4>4. m[t] = {} /\ \A u \in Threads \ {t} : m[u] = own[u]
        BY <2>2, <4>3
      <4>5. \A u \in Threads \ {t} : pair'[u] = pair[u]
        BY <1>1, <4>1
      <4>6. HoldInv(m)'
        BY <2>1, <2>2, <4>1, <4>2, <4>4, <4>5, StepHoldInv DEF Labels
      <4>7. pc'[t] = label /\ \A u \in Threads \ {t} : pc'[u] = pc[u]
        BY <1>1, <4>1
      <4>8. Chunk(t) = {} /\ Chunk(t)' = {} /\ \A u \in Threads \ {t} : Chunk(u)' = Chunk(u)
        BY <4>1, <4>7 DEF Chunk, Neurons
      <4>9. \A u \in Threads : m[u] \cap Chunk(u)' = {}
        BY <2>2, <4>4, <4>8 DEF DrawInv
      <4>10. \A u, v \in Threads : u # v => (m[u] \cup Chunk(u)') \cap (m[v] \cup Chunk(v)') = {}
        BY <2>2, <4>4, <4>8 DEF DrawInv
      <4>11. ASSUME pc'[Main] \in {"enter", "chunks", "compute", "flush", "meet", "reduce"}
             PROVE  /\ t # Main /\ pc[Main] = pc'[Main] /\ pair'[Main] = pair[Main]
                    /\ pair[t] # pair[Main]
        <5>1. t # Main
          BY <4>7, <4>11
        <5>2. waits[Main] >= waits[t] /\ Placed(t) /\ Placed(Main)
          BY <1>1, <2>1, <4>1 DEF Sync!Leave, PlaceInv
        <5>3. waits[t] = 3 * pair[t] + 3 /\ waits[Main] < 3 * pair[Main] + 3
          BY <1>1, <4>1, <4>7, <4>11, <5>1, <5>2 DEF Placed
        <5>4. pair[t] \in Int /\ pair[Main] \in Int /\ waits[t] \in Int /\ waits[Main] \in Int
          BY <1>1, Constants DEF TypeInv
        <5>5. pair[t] # pair[Main]
          BY <5>2, <5>3, <5>4
        <5>6. pc[Main] = pc'[Main] /\ pair'[Main] = pair[Main]
          BY <1>1, <4>5, <4>7, <5>1
        <5> QED BY <5>1, <5>5, <5>6
      <4>12. ASSUME pc'[Main] \in {"enter", "chunks", "compute", "flush", "meet", "reduce"},
                    NEW n \in Neurons
             PROVE  n < current_neuron' <=>
                      \E u \in Threads : pair'[u] = pair'[Main] /\ n \in m[u] \cup Chunk(u)'
        <5>1. n < current_neuron <=>
                \E u \in Threads : pair[u] = pair[Main] /\ n \in own[u] \cup Chunk(u)
          BY <2>2, <4>11, <4>12 DEF DrawInv
        <5>2. \A u \in Threads \ {t} : pair'[u] = pair[u] /\ m[u] \cup Chunk(u)' = own[u] \cup Chunk(u)
          BY <4>4, <4>5, <4>8
        <5>3. m[t] \cup Chunk(t)' = {} /\ pair[t] # pair[Main]
          BY <4>4, <4>8, <4>11, <4>12
        <5> QED BY <4>1, <4>11, <4>12, <5>1, <5>2, <5>3
      <4>13. pc'[Main] \in {"flush", "meet", "reduce"} => current_neuron' >= HiddenDim
        BY <2>2, <4>1, <4>11 DEF DrawInv
      <4>14. DrawInv(m)'
        BY <4>9, <4>10, <4>12, <4>13 DEF DrawInv, Neurons
      <4> QED BY <4>6, <4>14
    <3> QED BY <1>5, <3>1, <3>2, <3>3, <3>4, <3>5, <3>6, <3>7, <3>8 DEF Thread
  <2>4. \E K : NReduced' = K /\ output' = SetToBag(Reduced(K))
    <3>1. output = SetToBag(Reduced(NReduced))
      BY <2>1 DEF ShareInv
    <3>2. CASE t = Main /\ ReduceOutput(t)
      <4>1. output' = SetToBag(Reduced(pair[Main] + 1))
        BY <2>1, <3>2, ReduceShareInv
      <4>2. pc'[Main] = "leave" /\ pair' = pair
        BY <1>1, <3>2 DEF ReduceOutput
      <4> QED BY <4>1, <4>2 DEF NReduced
    <3>3. CASE ~(t = Main /\ ReduceOutput(t))
      <4>1. output' = output
        BY <1>5, <3>3 DEF Thread, Begin, BeginChunks, DrawChunk, ComputeChunk, Flush, EndChunks,
                          ReduceOutput, NextPair, Quantize, dataVars
      <4>2. NReduced' = NReduced
        <5>1. CASE t # Main
          <6>1. pc'[Main] = pc[Main] /\ pair'[Main] = pair[Main]
            BY <1>1, <1>5, <5>1 DEF Thread, Begin, BeginChunks, DrawChunk, ComputeChunk, Flush,
                 EndChunks, ReduceOutput, NextPair, Quantize
          <6> QED BY <6>1 DEF NReduced
        <5>2. CASE t = Main /\ NextPair(t)
          <6>1. pc[Main] = "leave" /\ pc'[Main] \in {"begin", "end"} /\ pair'[Main] = pair[Main] + 1
            BY <1>1, <5>2 DEF NextPair
          <6> QED BY <6>1 DEF NReduced
        <5>3. CASE t = Main /\ ~NextPair(t)
          <6>1. pc[Main] # "leave" /\ pc'[Main] # "leave" /\ pair' = pair
            BY <1>1, <1>5, <3>3, <5>3 DEF Thread, Begin, BeginChunks, DrawChunk, ComputeChunk,
                 Flush, EndChunks, ReduceOutput, Quantize
          <6> QED BY <6>1 DEF NReduced
        <5> QED BY <5>1, <5>2, <5>3
      <4> QED BY <3>1, <4>1, <4>2
    <3> QED BY <3>2, <3>3
  <2> QED BY <2>1, <2>3, <2>4, StepShareInv
<1> QED BY <1>2, <1>3, <1>4, <1>5 DEF Next

-----------------------------------------------------------------------------
(* The invariant is inductive.                                             *)

LEMMA InitIInv == Init => IInv
<1> SUFFICES ASSUME Init PROVE IInv
  OBVIOUS
<1>1. /\ computing = FALSE /\ selected_experts \in Routings
      /\ quantized = FALSE /\ current_neuron = 0
      /\ local_buf = [t \in Threads |-> EmptyBag] /\ output = EmptyBag
      /\ pc = [t \in Threads |-> "node"] /\ pair = [t \in Threads |-> 0]
      /\ beg = [t \in Threads |-> 0] /\ queued = [t \in Threads |-> EmptyBag]
      /\ waits = [t \in Threads |-> 0] /\ inside = {}
  BY DEF Init, Sync!Init
<1>2. 0 \in Neurons /\ 0 \in 0..Pairs /\ 0 \in 0..(3 * Pairs)
  BY Constants DEF Neurons
<1>3. TypeInv
  BY <1>1, <1>2, BagFacts DEF TypeInv, Labels
<1> QED BY <1>1, <1>3 DEF IInv, PlaceInv, ShareInv

LEMMA NextTypeInv ==
  ASSUME TypeInv, PlaceInv, ShareInv, [Next]_vars
  PROVE  TypeInv'
<1>1. /\ pc \in [Threads -> Labels] /\ pair \in [Threads -> 0..Pairs] /\ Pairs \in Nat \ {0}
      /\ beg \in [Threads -> Neurons] /\ current_neuron \in Nat
      /\ waits \in [Threads -> 0..(3 * Pairs)] /\ inside \in SUBSET Threads
      /\ computing \in BOOLEAN /\ selected_experts \in Routings /\ IsABag(output)
      /\ local_buf = [u \in Threads |-> local_buf[u]]
      /\ queued = [u \in Threads |-> queued[u]]
      /\ \A u \in Threads : IsABag(local_buf[u]) /\ IsABag(queued[u])
      /\ Main \in Threads /\ HiddenDim \in Nat /\ ChunkSize \in Nat
  BY Constants DEF TypeInv
<1>2. CASE UNCHANGED vars
  BY <1>2 DEF vars, nodeVars, dataVars, runVars, syncVars, TypeInv, IsABag, Routings,
              MoE!Selections
<1>3. CASE EndNode
  BY <1>1, <1>3 DEF EndNode, dataVars, syncVars, TypeInv, Labels, IsABag, Routings, MoE!Selections
<1>4. ASSUME NEW ids \in Routings, StartNode(ids) PROVE TypeInv'
  <2>1. /\ computing' = TRUE /\ selected_experts' = ids /\ output' = EmptyBag
        /\ pc' = [t \in Threads |-> IF t = Main THEN "node" ELSE "begin"]
        /\ pair' = [t \in Threads |-> 0] /\ waits' = [t \in Threads |-> 0] /\ inside' = inside
        /\ current_neuron' = current_neuron /\ local_buf' = local_buf /\ beg' = beg
        /\ queued' = queued
    BY <1>4 DEF StartNode, Sync!Restart
  <2>2. IsABag(output')
    BY <2>1, BagFacts
  <2> QED BY <1>1, <1>4, <2>1, <2>2 DEF TypeInv, Labels, IsABag, Routings, MoE!Selections
<1>5. ASSUME NEW t \in Threads, Thread(t) PROVE TypeInv'
  <2>1. computing /\ computing' = computing /\ selected_experts' = selected_experts
    BY <1>5 DEF Thread, Begin, BeginChunks, DrawChunk, ComputeChunk, Flush, EndChunks,
                ReduceOutput, NextPair, Quantize, PlaceInv, nodeVars
  <2>2. PlaceInv'
    BY <1>5, NextPlaceInv DEF Next
  <2>3. pc' \in [Threads -> Labels]
    BY <1>1, <1>5 DEF Thread, Begin, BeginChunks, DrawChunk, ComputeChunk, Flush, EndChunks,
                      ReduceOutput, NextPair, Quantize, Labels
  <2>4. pair' \in [Threads -> 0..Pairs]
    <3>1. CASE NextPair(t)
      <4>1. pc[t] = "leave" /\ pair' = [pair EXCEPT ![t] = pair[t] + 1]
        BY <3>1 DEF NextPair
      <4>2. pair[t] # Pairs
        BY <2>1, <4>1 DEF PlaceInv, Placed
      <4>3. pair[t] + 1 \in 0..Pairs
        BY <1>1, <4>2
      <4> QED BY <1>1, <4>1, <4>3
    <3>2. CASE ~NextPair(t)
      BY <1>1, <1>5, <3>2 DEF Thread, Begin, BeginChunks, DrawChunk, ComputeChunk, Flush,
                              EndChunks, ReduceOutput, Quantize
    <3> QED BY <3>1, <3>2
  <2>5. beg' \in [Threads -> Neurons] /\ current_neuron' \in Nat
    BY <1>1, <1>5 DEF Thread, Begin, BeginChunks, DrawChunk, ComputeChunk, Flush, EndChunks,
                      ReduceOutput, NextPair, Quantize, Neurons, dataVars
  <2>6. waits' \in [Threads -> Nat] /\ inside' \in SUBSET Threads
    <3>1. waits \in [Threads -> Nat] /\ Together
      BY <1>1, <2>1 DEF PlaceInv
    <3>2. Sync!Enter(t) \/ Sync!Leave(t) \/ UNCHANGED syncVars
      BY <1>5 DEF Thread, Begin, BeginChunks, DrawChunk, ComputeChunk, Flush, EndChunks,
                  ReduceOutput, NextPair, Quantize
    <3> QED BY <1>1, <3>1, <3>2, EnterTogether, LeaveTogether DEF syncVars
  <2>7. waits' \in [Threads -> 0..(3 * Pairs)]
    <3>1. ASSUME NEW u \in Threads PROVE waits'[u] \in 0..(3 * Pairs)
      <4>1. Placed(u)' /\ pc'[u] \in Labels /\ pair'[u] \in 0..Pairs /\ waits'[u] \in Nat
        BY <2>1, <2>2, <2>3, <2>4, <2>6 DEF PlaceInv
      <4>2. pair'[u] = Pairs => waits'[u] = 3 * Pairs
        BY <1>1, <4>1 DEF Placed
      <4>3. waits'[u] <= 3 * pair'[u] + 3
        BY <4>1 DEF Placed, Labels
      <4> QED BY <1>1, <4>1, <4>2, <4>3
    <3> QED BY <2>6, <3>1
  <2>8. /\ local_buf' = [u \in Threads |-> local_buf'[u]] /\ queued' = [u \in Threads |-> queued'[u]]
        /\ \A u \in Threads : IsABag(local_buf'[u]) /\ IsABag(queued'[u])
    <3>1. CASE Begin(t)
      <4>1. local_buf' = [local_buf EXCEPT ![t] = EmptyBag] /\ queued' = queued
        BY <3>1 DEF Begin
      <4> QED BY <1>1, <4>1, BagFacts
    <3>2. CASE ComputeChunk(t)
      <4>1. /\ local_buf' = local_buf
            /\ \E S : queued' = [queued EXCEPT ![t] = queued[t] (+) SetToBag(S)]
        BY <3>2 DEF ComputeChunk, dataVars
      <4>2. PICK S : queued' = [queued EXCEPT ![t] = queued[t] (+) SetToBag(S)]
        BY <4>1
      <4>3. IsABag(queued[t] (+) SetToBag(S))
        BY <1>1, BagFacts
      <4> QED BY <1>1, <4>1, <4>2, <4>3
    <3>3. CASE Flush(t)
      <4>1. /\ local_buf' = [local_buf EXCEPT ![t] = local_buf[t] (+) queued[t]]
            /\ queued' = [queued EXCEPT ![t] = EmptyBag]
        BY <3>3 DEF Flush
      <4>2. IsABag(local_buf[t] (+) queued[t]) /\ IsABag(EmptyBag)
        BY <1>1, BagFacts
      <4> QED BY <1>1, <4>1, <4>2
    <3>4. CASE ~(Begin(t) \/ ComputeChunk(t) \/ Flush(t))
      <4>1. local_buf' = local_buf /\ queued' = queued
        BY <1>5, <3>4 DEF Thread, BeginChunks, DrawChunk, EndChunks, ReduceOutput, NextPair,
                          Quantize, dataVars
      <4> QED BY <1>1, <4>1
    <3> QED BY <3>1, <3>2, <3>3, <3>4
  <2>9. IsABag(output')
    <3>1. CASE t = Main /\ ReduceOutput(t)
      <4>1. output' = SetToBag(Reduced(pair[Main] + 1))
        BY <2>1, <3>1, ReduceShareInv
      <4> QED BY <4>1, BagFacts
    <3>2. CASE ~(t = Main /\ ReduceOutput(t))
      <4>1. output' = output
        BY <1>5, <3>2 DEF Thread, Begin, BeginChunks, DrawChunk, ComputeChunk, Flush, EndChunks,
                          ReduceOutput, NextPair, Quantize, dataVars
      <4> QED BY <1>1, <4>1
    <3> QED BY <3>1, <3>2
  <2>10. computing' \in BOOLEAN /\ selected_experts' \in Routings
    BY <1>1, <2>1
  <2> QED BY <2>3, <2>4, <2>5, <2>6, <2>7, <2>8, <2>9, <2>10
          DEF TypeInv, IsABag, Routings, MoE!Selections, Neurons
<1> QED BY <1>2, <1>3, <1>4, <1>5 DEF Next

LEMMA NextIInv == IInv /\ [Next]_vars => IInv'
BY NextTypeInv, NextPlaceInv, NextShareInv DEF IInv

\* The invariant holds at every moment.
THEOREM Invariant == Spec => []IInv
<1>1. Init => IInv
  BY InitIInv
<1>2. IInv /\ [Next]_vars => IInv'
  BY NextIInv
<1> QED BY <1>1, <1>2, PTL DEF Spec

-----------------------------------------------------------------------------
(* What the invariant says of the layer.                                   *)

\* Every variable of forward keeps its type, however many threads compute
\* however large a batch.
THEOREM TypeCorrect == Spec => []TypeOK
<1>1. IInv => TypeOK
  BY DEF IInv, TypeInv, PlaceInv, TypeOK, Labels, Neurons
<1> QED BY <1>1, Invariant, PTL

\* The barriers keep the phases of a pair apart, and the one that is
\* commented out after quantize_row_q8_0 is not needed, whatever the number of threads,
\* experts and chunks.
THEOREM PhasesApartHolds == Spec => []PhasesApart
<1>1. IInv => PhasesApart
  <2> SUFFICES ASSUME IInv PROVE PhasesApart
    OBVIOUS
  <2>1. TypeInv /\ PlaceInv /\ ShareInv /\ Main \in Threads
    BY Constants DEF IInv
  <2>2. ASSUME NEW t \in Threads, pc[t] = "compute" PROVE quantized
    <3>1. computing
      BY <2>1, <2>2 DEF PlaceInv
    <3>2. pc[Main] # "node"
      BY <2>1, <2>2, <3>1, WhileDrawing
    <3> QED BY <2>1, <3>1, <3>2 DEF PlaceInv
  <2>3. ASSUME pc[Main] = "reduce", NEW t \in Threads
        PROVE  pair[t] = pair[Main] /\ pc[t] \in {"meet", "reduce", "leave"} /\ queued[t] = EmptyBag
    <3>1. computing
      BY <2>1, <2>3 DEF PlaceInv
    <3>2. pair[t] = pair[Main] /\ pc[t] \in {"meet", "reduce", "leave"}
      BY <2>1, <2>3, <3>1, WhileReducing
    <3>3. queued[t] = EmptyBag
      BY <2>1, <3>1, <3>2 DEF ShareInv, HoldInv
    <3> QED BY <3>2, <3>3
  <2> QED BY <2>2, <2>3 DEF PhasesApart
<1> QED BY <1>1, Invariant, PTL

\* At the end the output holds the summands of all places.
LEMMA AllReduced ==
  ASSUME IInv, \A t \in Threads : pc[t] = "end"
  PROVE  computing /\ output = SetToBag(Reduced(Pairs)) /\ \A t \in Threads : pair[t] = Pairs
<1>1. TypeInv /\ PlaceInv /\ ShareInv /\ Main \in Threads
  BY Constants DEF IInv
<1>2. computing
  BY <1>1 DEF PlaceInv
<1>3. \A t \in Threads : pair[t] = Pairs
  BY <1>1, <1>2 DEF PlaceInv, Placed
<1>4. NReduced = Pairs
  BY <1>1, <1>3 DEF NReduced
<1> QED BY <1>1, <1>2, <1>3, <1>4 DEF ShareInv

\* Every selected expert has one place.
LEMMA OnePlace ==
  ASSUME TypeInv, NEW r \in Rows, NEW j \in 1..NUsed
  PROVE  \E k \in 0..(Pairs - 1) :
           /\ RowAt(k) = r /\ IndexAt(k) = j /\ ExpertAt(k) = selected_experts[r][j]
           /\ \A i \in 0..(Pairs - 1) :
                RowAt(i) = r /\ ExpertAt(i) = selected_experts[r][j] => i = k
<1>1. PICK k \in 0..(Pairs - 1) : RowAt(k) = r /\ IndexAt(k) = j
  BY PlaceExists
<1>2. ExpertAt(k) = selected_experts[r][j]
  BY <1>1 DEF ExpertAt
<1>3. ASSUME NEW i \in 0..(Pairs - 1), RowAt(i) = r, ExpertAt(i) = selected_experts[r][j]
      PROVE  i = k
  <2>1. /\ IndexAt(i) \in 1..NUsed /\ i = NUsed * (r - 1) + (IndexAt(i) - 1)
        /\ k = NUsed * (r - 1) + (j - 1)
    BY <1>1, <1>3, PlaceFacts
  <2>2. selected_experts[r][IndexAt(i)] = selected_experts[r][j]
    BY <1>3 DEF ExpertAt
  <2>3. IndexAt(i) = j
    BY <2>1, <2>2, RoutingFacts
  <2> QED BY <2>1, <2>3
<1> QED BY <1>1, <1>2, <1>3

\* When the node ends, every row holds every neuron of every selected expert
\* exactly once, whichever thread drew which chunk.
THEOREM SummandsExactHolds == Spec => []SummandsExact
<1>1. IInv => SummandsExact
  <2> SUFFICES ASSUME IInv, \A t \in Threads : pc[t] = "end"
               PROVE  /\ \A x \in BagToSet(output) : output[x] = 1
                      /\ \A r \in Rows, e \in Experts, n \in Neurons :
                           Cardinality({x \in BagToSet(output) :
                                          x.row = r /\ x.expert = e /\ x.block = n})
                             = IF e \in Range(selected_experts[r]) THEN 1 ELSE 0
    BY DEF SummandsExact
  <2>1. TypeInv /\ output = SetToBag(Reduced(Pairs))
    BY AllReduced DEF IInv
  <2>2. BagToSet(output) = Reduced(Pairs) /\ \A x \in Reduced(Pairs) : output[x] = 1
    BY <2>1 DEF BagToSet, SetToBag
  <2>3. ASSUME NEW r \in Rows, NEW e \in Experts, NEW n \in Neurons
        PROVE  Cardinality({x \in Reduced(Pairs) : x.row = r /\ x.expert = e /\ x.block = n})
                 = IF e \in Range(selected_experts[r]) THEN 1 ELSE 0
    <3> DEFINE S == {x \in Reduced(Pairs) : x.row = r /\ x.expert = e /\ x.block = n}
    <3>1. \A i, m : /\ WeightedPart(i, m).row = RowAt(i) /\ WeightedPart(i, m).expert = ExpertAt(i)
                    /\ WeightedPart(i, m).block = m
      BY DEF WeightedPart
    <3>2. Range(selected_experts[r]) = {selected_experts[r][j] : j \in 1..NUsed}
      BY <2>1, RoutingFacts DEF Range
    <3>3. CASE e \in Range(selected_experts[r])
      <4>1. PICK j \in 1..NUsed : e = selected_experts[r][j]
        BY <3>2, <3>3
      <4>2. PICK k \in 0..(Pairs - 1) :
              /\ RowAt(k) = r /\ ExpertAt(k) = e
              /\ \A i \in 0..(Pairs - 1) : RowAt(i) = r /\ ExpertAt(i) = e => i = k
        BY <2>1, <4>1, OnePlace
      <4>3. S = {WeightedPart(k, n)}
        <5>1. WeightedPart(k, n) \in S
          BY <3>1, <4>2 DEF Reduced
        <5>2. ASSUME NEW x \in S PROVE x = WeightedPart(k, n)
          <6>1. PICK i \in 0..(Pairs - 1), m \in Neurons : x = WeightedPart(i, m)
            BY DEF Reduced
          <6> QED BY <3>1, <4>2, <6>1
        <5> HIDE DEF S
        <5> QED BY <5>1, <5>2
      <4> QED BY <3>3, <4>3, FS_Singleton
    <3>4. CASE e \notin Range(selected_experts[r])
      <4>1. S = {}
        <5> SUFFICES ASSUME NEW x \in S PROVE FALSE
          OBVIOUS
        <5>1. PICK i \in 0..(Pairs - 1), m \in Neurons : x = WeightedPart(i, m)
          BY DEF Reduced
        <5>2. RowAt(i) = r /\ ExpertAt(i) = e /\ IndexAt(i) \in 1..NUsed
          BY <3>1, <5>1, PlaceFacts
        <5>3. e = selected_experts[r][IndexAt(i)]
          BY <5>2 DEF ExpertAt
        <5> QED BY <3>2, <3>4, <5>2, <5>3
      <4> QED BY <3>4, <4>1, FS_EmptySet
    <3> QED BY <3>3, <3>4
  <2> QED BY <2>2, <2>3
<1> QED BY <1>1, Invariant, PTL

-----------------------------------------------------------------------------
(* The layer is computed as the graph is promised.                         *)

\* The first row of a complete output is what MoELayer writes at once; in the first
\* row the score is read where it is.
LEMMA FirstRow ==
  ASSUME TypeInv, output = SetToBag(Reduced(Pairs))
  PROVE  RowOf(1, output) = MoE!WeightedSum([r \in {1} |-> selected_experts[r]])
<1> DEFINE ids == [r \in {1} |-> selected_experts[r]]
           Mine == {x \in Reduced(Pairs) : x.row = 1}
           Theirs == {MoE!Summand(r, ids[r][j], b) : r \in {1}, j \in 1..NUsed, b \in Neurons}
<1>1. 1 \in Rows /\ NUsed \in Nat \ {0}
  BY Constants DEF Rows
<1>2. ASSUME NEW k \in 0..(Pairs - 1), RowAt(k) = 1, NEW n
      PROVE  WeightedPart(k, n) = MoE!Summand(1, selected_experts[1][IndexAt(k)], n)
  <2>1. k = IndexAt(k) - 1 /\ IndexAt(k) \in 1..NUsed
    <3>1. k = NUsed * (RowAt(k) - 1) + (IndexAt(k) - 1) /\ IndexAt(k) \in 1..NUsed
      BY PlaceFacts
    <3>2. NUsed * (1 - 1) = 0
      BY <1>1
    <3> QED BY <1>1, <1>2, <3>1, <3>2
  <2>2. k \in Nat /\ k < NUsed /\ NUsed * 0 + k = k
    BY <1>1, <2>1
  <2>3. k % NUsed = k
    <3>1. (NUsed * 0 + k) % NUsed = k
      BY <1>1, <2>2, DivisionOnce
    <3> QED BY <2>2, <3>1
  <2>4. ExpertAt(k) = selected_experts[1][IndexAt(k)]
    BY <1>2 DEF ExpertAt
  <2>5. ScoreAt(k % NUsed) = <<1, selected_experts[1][IndexAt(k)]>>
    BY <1>2, <2>3, <2>4 DEF ScoreAt
  <2> QED BY <1>2, <2>4, <2>5 DEF WeightedPart, MoE!Summand
<1>3. Mine \subseteq Theirs
  <2> SUFFICES ASSUME NEW x \in Mine PROVE x \in Theirs
    OBVIOUS
  <2>1. PICK k \in 0..(Pairs - 1), n \in Neurons : x = WeightedPart(k, n)
    BY DEF Reduced
  <2>2. RowAt(k) = 1
    BY <2>1 DEF WeightedPart
  <2>3. x = MoE!Summand(1, ids[1][IndexAt(k)], n) /\ IndexAt(k) \in 1..NUsed
    BY <1>2, <2>1, <2>2, PlaceFacts
  <2> QED BY <2>3
<1>4. Theirs \subseteq Mine
  <2> SUFFICES ASSUME NEW j \in 1..NUsed, NEW n \in Neurons
               PROVE  MoE!Summand(1, selected_experts[1][j], n) \in Mine
    OBVIOUS
  <2>1. PICK k \in 0..(Pairs - 1) : RowAt(k) = 1 /\ IndexAt(k) = j
    BY <1>1, PlaceExists
  <2>2. WeightedPart(k, n) = MoE!Summand(1, selected_experts[1][j], n)
    BY <1>2, <2>1
  <2>3. WeightedPart(k, n).row = 1 /\ WeightedPart(k, n) \in Reduced(Pairs)
    BY <2>1 DEF WeightedPart, Reduced
  <2> QED BY <2>2, <2>3
<1>5. RowOf(1, output) = SetToBag(Mine)
  <2>1. DOMAIN output = Reduced(Pairs) /\ \A x \in Reduced(Pairs) : output[x] = 1
    BY DEF SetToBag
  <2>2. RowOf(1, output) = [x \in Mine |-> output[x]]
    BY <2>1 DEF RowOf, BagToSet
  <2> QED BY <2>1, <2>2 DEF SetToBag
<1>6. MoE!WeightedSum(ids) = SetToBag(Theirs)
  BY DEF MoE!WeightedSum, MoE!SetToBag, SetToBag
<1> HIDE DEF Mine, Theirs
<1>7. Mine = Theirs
  BY <1>3, <1>4
<1> QED BY <1>5, <1>6, <1>7

\* Every step of forward is a step of MoELayer or changes nothing it sees.
LEMMA StepRefines ==
  ASSUME IInv, [Next]_vars
  PROVE  [MoE!Next]_(MoE!vars)
<1> DEFINE seen == [r \in {1} |-> selected_experts[r]]
           done == \A t \in Threads : pair[t] = Pairs
           out == IF done THEN RowOf(1, output) ELSE EmptyBag
<1>1. /\ TypeInv /\ PlaceInv /\ ShareInv
      /\ pc \in [Threads -> Labels] /\ pair \in [Threads -> 0..Pairs] /\ Pairs \in Nat \ {0}
      /\ Main \in Threads /\ computing \in BOOLEAN
  BY Constants DEF IInv, TypeInv
<1>2. MoE!vars = <<seen, computing, out>>
  BY DEF MoE!vars
<1>3. CASE UNCHANGED vars
  <2>1. seen' = seen /\ computing' = computing /\ out' = out
    BY <1>3 DEF vars, nodeVars, dataVars, runVars, RowOf
  <2> QED BY <2>1 DEF MoE!vars
<1>4. CASE EndNode
  <2>1. /\ computing /\ computing' = FALSE /\ selected_experts' = selected_experts
        /\ output' = output /\ pair' = pair /\ \A t \in Threads : pc[t] = "end"
    BY <1>4 DEF EndNode, dataVars
  <2>2. done /\ output = SetToBag(Reduced(Pairs))
    BY <2>1, AllReduced
  <2>3. out = MoE!WeightedSum(seen)
    BY <1>1, <2>2, FirstRow
  <2>4. seen' = seen /\ out' = out
    BY <2>1 DEF RowOf
  <2>5. MoE!Finish
    BY <2>1, <2>3, <2>4 DEF MoE!Finish
  <2> QED BY <2>5 DEF MoE!Next
<1>5. ASSUME NEW ids \in Routings, StartNode(ids) PROVE MoE!Next
  <2>1. /\ ~computing /\ computing' = TRUE /\ selected_experts' = ids
        /\ \A t \in Threads : pair'[t] = 0
    BY <1>5 DEF StartNode
  <2>2. out' = EmptyBag
    BY <1>1, <2>1 DEF EmptyBag, SetToBag
  <2> DEFINE first == [r \in {1} |-> ids[r]]
  <2>3. first \in MoE!Routings
    <3>1. 1 \in Rows
      BY Constants DEF Rows
    <3>2. ids[1] \in MoE!Selections
      BY <3>1 DEF Routings
    <3> QED BY <3>2 DEF MoE!Routings
  <2>4. seen' = first
    BY <2>1
  <2>5. MoE!Start(first)
    BY <2>1, <2>2, <2>4 DEF MoE!Start, MoE!EmptyBag, MoE!SetToBag, EmptyBag, SetToBag
  <2> HIDE DEF first
  <2> QED BY <2>3, <2>5 DEF MoE!Next
<1>6. ASSUME NEW t \in Threads, Thread(t) PROVE MoE!Next \/ UNCHANGED MoE!vars
  <2>1. computing /\ computing' = computing /\ selected_experts' = selected_experts
    BY <1>1, <1>6 DEF Thread, Begin, BeginChunks, DrawChunk, ComputeChunk, Flush, EndChunks,
                ReduceOutput, NextPair, Quantize, PlaceInv, nodeVars
  <2>2. pc[t] # "end"
    BY <1>6 DEF Thread, Begin, BeginChunks, DrawChunk, ComputeChunk, Flush, EndChunks,
                ReduceOutput, NextPair, Quantize
  <2>3. ~done
    BY <1>1, <2>1, <2>2 DEF PlaceInv, Placed
  <2>4. seen' = seen
    BY <2>1
  <2>5. CASE ~done'
    <3>1. out = EmptyBag /\ out' = EmptyBag
      BY <2>3, <2>5 DEF EmptyBag, SetToBag
    <3> QED BY <2>1, <2>4, <3>1 DEF MoE!vars
  <2>6. CASE done'
    <3>1. TypeInv' /\ PlaceInv' /\ ShareInv'
      BY <1>1, <1>6, NextTypeInv, NextPlaceInv, NextShareInv DEF Next
    <3>2. pc'[t] = "end" /\ pc'[Main] = "end" /\ pair'[Main] = Pairs
      BY <1>1, <2>1, <2>6, <3>1 DEF PlaceInv, Placed
    <3>3. NextPair(t)
      <4>1. t = Main /\ Quantize => pc'[t] = "begin"
        BY <1>1 DEF Quantize
      <4>2. DrawChunk(t) => pc'[t] \in {"compute", "flush"}
        BY <1>1 DEF DrawChunk
      <4> QED BY <1>1, <1>6, <3>2, <4>1, <4>2 DEF Thread, Begin, BeginChunks, ComputeChunk, Flush,
              EndChunks, ReduceOutput
    <3>4. output' = output
      BY <3>3 DEF NextPair, dataVars
    <3>5. NReduced' = Pairs
      BY <3>2 DEF NReduced
    <3>6. output' = SetToBag(Reduced(NReduced))'
      BY <2>1, <3>1 DEF ShareInv
    <3>7. Reduced(NReduced)' = Reduced(Pairs)
      <4>1. PICK K : K = Pairs
        OBVIOUS
      <4>2. Reduced(NReduced)' = Reduced(K)'
        BY <3>5, <4>1 DEF Reduced, WeightedPart, ScoreAt, ExpertAt, RowAt, IndexAt
      <4> QED BY <2>1, <4>1, <4>2, RoutingStays
    <3>8. output = SetToBag(Reduced(Pairs))
      BY <3>4, <3>6, <3>7 DEF SetToBag
    <3>9. RowOf(1, output) = MoE!WeightedSum(seen)
      BY <1>1, <3>8, FirstRow
    <3>10. out' = RowOf(1, output)
      BY <2>6, <3>4 DEF RowOf
    <3>11. out = EmptyBag
      BY <2>3
    <3>12. MoE!Compute
      BY <2>1, <2>4, <3>9, <3>10, <3>11 DEF MoE!Compute, MoE!EmptyBag, MoE!SetToBag, EmptyBag, SetToBag
    <3> QED BY <3>12 DEF MoE!Next
  <2> QED BY <2>5, <2>6
<1> QED BY <1>3, <1>4, <1>5, <1>6 DEF Next

\* The first row of a batch, and so all of a batch of one row, is
\* computed as the layer promises: each step of the threads is a step of the
\* abstract layer or a stutter.
THEOREM ComputesLayerHolds == Spec => ComputesLayer
<1>1. Init => MoE!Init
  <2> SUFFICES ASSUME Init PROVE MoE!Init
    OBVIOUS
  <2>1. /\ selected_experts \in Routings /\ computing = FALSE /\ Main \in Threads /\ 1 \in Rows
        /\ Pairs \in Nat \ {0} /\ pair = [t \in Threads |-> 0]
    BY Constants DEF Init, Rows
  <2>2. [r \in {1} |-> selected_experts[r]] \in MoE!Routings
    BY <2>1 DEF Routings, MoE!Routings
  <2>3. ~(\A t \in Threads : pair[t] = Pairs)
    BY <2>1
  <2> QED BY <2>1, <2>2, <2>3 DEF MoE!Init, MoE!EmptyBag, MoE!SetToBag, EmptyBag, SetToBag
<1>2. IInv /\ [Next]_vars => [MoE!Next]_(MoE!vars)
  BY StepRefines
<1> QED BY <1>1, <1>2, Invariant, PTL DEF Spec, ComputesLayer, MoE!Spec
=============================================================================
