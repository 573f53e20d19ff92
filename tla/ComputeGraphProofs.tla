------------------------- MODULE ComputeGraphProofs -------------------------
(***************************************************************************)
(* ServesAlone, TypeOK and InputsReady hold for any number of threads,     *)
(* nodes and rows, whenever the caller aborts.  None is inductive.         *)
(*   IInv     what n_active counts.  As long as no thread has aborted, the *)
(*            threads that have not finished the current node; a thread    *)
(*            that aborts does not count down, so from then on n_active    *)
(*            stays above the number of threads that still will, and       *)
(*            nobody serves any more.                                      *)
(*   PlaceInv where the threads are in the graph and in the code.          *)
(*   StoreInv what the buffers hold.                                       *)
(*   DrawInv  how far aic has gone past the last row: every thread takes   *)
(*            it there once per node, and a thread that will not look at   *)
(*            the caller's abort before it draws, once more.               *)
(*   DataInv  what the nodes behind have computed, and what the current    *)
(*            one still lacks and who will add it.                         *)
(***************************************************************************)
EXTENDS ComputeGraph, FiniteSetTheorems, TLAPS

Labels == {"top", "arrive", "serve", "activate", "publish", "spin",
           "compute", "draw", "rows", "store", "end", "aborted"}

Serving(t) == pc[t] \in {"serve", "activate", "publish"}

\* The threads that have not finished the current node.
Owing == {t \in Threads : ~(pc[t] = "spin" /\ at[t] = node_n)}

Arriving == {t \in Threads : pc[t] = "arrive"}

SomeAborted == \E t \in Threads : pc[t] = "aborted"

TypeInv ==
    /\ aborting \in BOOLEAN
    /\ n_active \in Int
    /\ node_n \in Int
    /\ pc \in [Threads -> Labels]
    /\ at \in [Threads -> Int]

\* While a thread serves, the others spin on the current node.
ServerInv ==
    \A t \in Threads : Serving(t) =>
        /\ \A u \in Threads \ {t} : pc[u] = "spin" /\ at[u] = node_n
        /\ n_active = IF pc[t] = "publish" THEN NThreads ELSE 0
        /\ IF pc[t] = "serve" THEN at[t] >= node_n ELSE at[t] > node_n

\* While nobody serves or has aborted, n_active counts the threads that
\* have not finished the current node.
CountInv ==
    (\A t \in Threads : ~Serving(t)) /\ ~SomeAborted =>
        /\ n_active = Cardinality(Owing)
        /\ \A t \in Threads : pc[t] # "spin" => at[t] = node_n

\* When a thread has aborted, n_active never comes down to one thread.
AbortInv == SomeAborted => aborting /\ n_active > Cardinality(Arriving)

IInv == TypeInv /\ ServerInv /\ CountInv /\ AbortInv

-----------------------------------------------------------------------------
\* There are finitely many threads, NThreads of them.
LEMMA ThreadsFinite == GraphAssumption => IsFiniteSet(Threads) /\ Cardinality(Threads) = NThreads
<1>1. SUFFICES ASSUME GraphAssumption
      PROVE  IsFiniteSet(Threads) /\ Cardinality(Threads) = NThreads
  OBVIOUS
<1>2. 0 \in Int /\ NThreads - 1 \in Int /\ NThreads - 1 - 0 + 1 = NThreads /\ ~(0 > NThreads - 1)
  BY <1>1 DEF GraphAssumption
<1> QED BY <1>2, FS_Interval DEF Threads

\* Sets of threads are finite.
LEMMA CountsFinite == GraphAssumption => IsFiniteSet(Owing) /\ IsFiniteSet(Arriving)
<1>1. Owing \subseteq Threads /\ Arriving \subseteq Threads
  BY DEF Owing, Arriving
<1> QED BY <1>1, ThreadsFinite, FS_Subset

\* Taking one element out of a finite set lowers its size by one.
LEMMA OneLess ==
  ASSUME NEW S, IsFiniteSet(S), NEW x \in S
  PROVE  /\ IsFiniteSet(S \ {x}) /\ Cardinality(S) \in Nat /\ Cardinality(S \ {x}) \in Nat
         /\ Cardinality(S \ {x}) = Cardinality(S) - 1
BY FS_RemoveElement, FS_CardinalityType

\* The first states satisfy the invariant: nobody has finished a node.
LEMMA InitIInv == GraphAssumption /\ Init => IInv
<1> SUFFICES ASSUME GraphAssumption, Init PROVE IInv
  OBVIOUS
<1>1. TypeInv
  <2>1. aborting \in BOOLEAN
    BY DEF Init
  <2>2. n_active \in Int
    BY DEF Init, GraphAssumption
  <2>3. node_n \in Int
    BY DEF Init
  <2>4. pc \in [Threads -> Labels]
    BY DEF Init, Labels
  <2>5. -1 \in Int
    OBVIOUS
  <2>6. at \in [Threads -> Int]
    BY <2>5 DEF Init
  <2> QED BY <2>1, <2>2, <2>3, <2>4, <2>6 DEF TypeInv
<1>2. \A t \in Threads : pc[t] = "top" /\ at[t] = -1 /\ node_n = -1
  BY DEF Init
<1>3. Owing = Threads
  BY <1>2 DEF Owing
<1>4. n_active = Cardinality(Owing)
  BY <1>3, ThreadsFinite DEF Init
<1> QED BY <1>1, <1>2, <1>4 DEF IInv, ServerInv, CountInv, AbortInv, Serving, SomeAborted

\* A thread that works, or leaves the graph, changes nothing the
\* invariant counts.
LEMMA WorkIInv ==
  ASSUME IInv, NEW t \in Threads,
         NEW label \in {"top", "arrive", "compute", "draw", "rows", "store", "end"},
         pc[t] \in {"top", "compute", "draw", "rows", "store"},
         label = "arrive" => ~aborting,
         pc' = [pc EXCEPT ![t] = label],
         UNCHANGED <<aborting, n_active, node_n, at>>
  PROVE  IInv'
<1>1. pc \in [Threads -> Labels] /\ at \in [Threads -> Int]
  BY DEF IInv, TypeInv
<1>2. pc'[t] = label /\ \A u \in Threads : u # t => pc'[u] = pc[u]
  BY <1>1
<1>3. TypeInv'
  BY <1>1 DEF IInv, TypeInv, Labels
<1>4. \A u \in Threads : ~Serving(u)
  <2>1. SUFFICES ASSUME NEW u \in Threads, Serving(u) PROVE FALSE
    OBVIOUS
  <2>2. u # t
    BY <2>1 DEF Serving
  <2>3. pc[t] = "spin"
    BY <2>1, <2>2 DEF IInv, ServerInv
  <2> QED BY <2>3
<1>5. \A u \in Threads : ~Serving(u)'
  BY <1>2, <1>4 DEF Serving
<1>6. ServerInv'
  BY <1>5 DEF ServerInv
<1>7. SomeAborted' <=> SomeAborted
  BY <1>2 DEF SomeAborted
<1>8. Owing' = Owing
  BY <1>2 DEF Owing
<1>9. CountInv'
  <2>1. SUFFICES ASSUME ~SomeAborted
        PROVE  n_active' = Cardinality(Owing') /\ \A u \in Threads : pc'[u] # "spin" => at'[u] = node_n'
    BY <1>7 DEF CountInv
  <2>2. n_active = Cardinality(Owing) /\ \A u \in Threads : pc[u] # "spin" => at[u] = node_n
    BY <2>1, <1>4 DEF IInv, CountInv
  <2> QED BY <2>2, <1>2, <1>8
<1>10. AbortInv'
  <2>1. SUFFICES ASSUME SomeAborted
        PROVE  aborting' /\ n_active' > Cardinality(Arriving')
    BY <1>7 DEF AbortInv
  <2>2. aborting /\ n_active > Cardinality(Arriving)
    BY <2>1 DEF IInv, AbortInv
  <2>3. Arriving' = Arriving
    BY <2>2, <1>2 DEF Arriving
  <2> QED BY <2>2, <2>3
<1> QED BY <1>3, <1>6, <1>9, <1>10 DEF IInv

\* The caller aborts.
LEMMA AbortIInv == IInv /\ Abort => IInv'
BY DEF IInv, Abort, TypeInv, ServerInv, CountInv, AbortInv, Serving, Owing, Arriving,
       SomeAborted, sharedVars

\* A thread that aborts had not counted down.
LEMMA CheckAbortIInv ==
  ASSUME GraphAssumption, IInv, NEW t \in Threads, CheckAbort(t)
  PROVE  IInv'
<1>1. CASE ~aborting
  BY <1>1, WorkIInv DEF CheckAbort, Goto, IInv, TypeInv
<1>2. CASE aborting
  <2>1. /\ pc[t] = "top" /\ aborting /\ aborting' = aborting
        /\ pc' = [pc EXCEPT ![t] = "aborted"]
        /\ node_n' = node_n + 1 /\ n_active' = n_active /\ at' = at
    BY <1>2 DEF CheckAbort, Goto
  <2>2. pc \in [Threads -> Labels] /\ at \in [Threads -> Int] /\ node_n \in Int /\ n_active \in Int
    BY DEF IInv, TypeInv
  <2>3. pc'[t] = "aborted" /\ \A u \in Threads : u # t => pc'[u] = pc[u]
    BY <2>1, <2>2
  <2>4. TypeInv'
    BY <2>1, <2>2 DEF IInv, TypeInv, Labels
  <2>5. \A u \in Threads : ~Serving(u)
    <3>1. SUFFICES ASSUME NEW u \in Threads, Serving(u) PROVE FALSE
      OBVIOUS
    <3>2. u # t
      BY <3>1, <2>1 DEF Serving
    <3>3. pc[t] = "spin"
      BY <3>1, <3>2 DEF IInv, ServerInv
    <3> QED BY <3>3, <2>1
  <2>6. \A u \in Threads : ~Serving(u)'
    BY <2>3, <2>5 DEF Serving
  <2>7. SomeAborted'
    BY <2>3 DEF SomeAborted
  <2>8. Arriving' = Arriving
    BY <2>1, <2>3 DEF Arriving
  <2>9. n_active > Cardinality(Arriving)
    <3>1. CASE SomeAborted
      BY <3>1 DEF IInv, AbortInv
    <3>2. CASE ~SomeAborted
      <4>1. n_active = Cardinality(Owing)
        BY <3>2, <2>5 DEF IInv, CountInv
      <4>2. t \in Owing /\ Arriving \subseteq Owing \ {t}
        BY <2>1 DEF Owing, Arriving
      <4>3. Cardinality(Arriving) <= Cardinality(Owing \ {t}) /\ Cardinality(Arriving) \in Nat
        BY <4>2, OneLess, CountsFinite, FS_Subset, FS_CardinalityType
      <4>4. Cardinality(Owing \ {t}) = Cardinality(Owing) - 1 /\ Cardinality(Owing) \in Nat
        BY <4>2, OneLess, CountsFinite
      <4> QED BY <4>1, <4>3, <4>4
    <3> QED BY <3>1, <3>2
  <2> QED BY <2>1, <2>4, <2>6, <2>7, <2>8, <2>9 DEF IInv, ServerInv, CountInv, AbortInv
<1> QED BY <1>1, <1>2 DEF IInv, TypeInv

\* The thread that counts down to zero finds all others spinning.
LEMMA ArriveIInv ==
  ASSUME GraphAssumption, IInv, NEW t \in Threads, Arrive(t)
  PROVE  IInv'
<1>1. /\ pc[t] = "arrive" /\ n_active' = n_active - 1
      /\ pc' = [pc EXCEPT ![t] = IF n_active = 1 THEN "serve" ELSE "spin"]
      /\ aborting' = aborting /\ node_n' = node_n /\ at' = at
  BY DEF Arrive, Goto
<1>2. pc \in [Threads -> Labels] /\ at \in [Threads -> Int] /\ node_n \in Int /\ n_active \in Int
  BY DEF IInv, TypeInv
<1>3. /\ pc'[t] = IF n_active = 1 THEN "serve" ELSE "spin"
      /\ \A u \in Threads : u # t => pc'[u] = pc[u]
  BY <1>1, <1>2
<1>4. TypeInv'
  BY <1>1, <1>2 DEF IInv, TypeInv, Labels
<1>5. \A u \in Threads : ~Serving(u)
  <2>1. SUFFICES ASSUME NEW u \in Threads, Serving(u) PROVE FALSE
    OBVIOUS
  <2>2. u # t
    BY <2>1, <1>1 DEF Serving
  <2>3. pc[t] = "spin"
    BY <2>1, <2>2 DEF IInv, ServerInv
  <2> QED BY <2>3, <1>1
<1>6. SomeAborted' <=> SomeAborted
  BY <1>1, <1>3 DEF SomeAborted
<1>7. CASE SomeAborted
  <2>1. aborting /\ n_active > Cardinality(Arriving)
    BY <1>7 DEF IInv, AbortInv
  <2>2. t \in Arriving
    BY <1>1 DEF Arriving
  <2>3. /\ Cardinality(Arriving) \in Nat /\ Cardinality(Arriving \ {t}) \in Nat
        /\ Cardinality(Arriving \ {t}) = Cardinality(Arriving) - 1
    BY <2>2, OneLess, CountsFinite
  <2>4. n_active # 1
    BY <2>1, <2>3, <1>2
  <2>5. Arriving' = Arriving \ {t}
    BY <1>3, <2>4 DEF Arriving
  <2>6. n_active' > Cardinality(Arriving')
    BY <1>1, <1>2, <2>1, <2>3, <2>5
  <2>7. \A u \in Threads : ~Serving(u)'
    BY <1>3, <1>5, <2>4 DEF Serving
  <2> QED BY <1>1, <1>4, <1>6, <1>7, <2>1, <2>6, <2>7 DEF IInv, ServerInv, CountInv, AbortInv
<1>8. CASE ~SomeAborted
  <2>1. n_active = Cardinality(Owing) /\ \A u \in Threads : pc[u] # "spin" => at[u] = node_n
    BY <1>5, <1>8 DEF IInv, CountInv
  <2>2. t \in Owing
    BY <1>1 DEF Owing
  <2>3. /\ IsFiniteSet(Owing \ {t}) /\ Cardinality(Owing) \in Nat
        /\ Cardinality(Owing \ {t}) = Cardinality(Owing) - 1
    BY <2>2, OneLess, CountsFinite
  <2>4. at[t] = node_n
    BY <2>1, <1>1
  <2>5. CASE n_active = 1
    <3>1. Cardinality(Owing \ {t}) = 0
      BY <2>1, <2>3, <2>5
    <3>2. Owing \ {t} = {}
      BY <3>1, <2>3, FS_EmptySet
    <3>3. \A u \in Threads \ {t} : pc[u] = "spin" /\ at[u] = node_n
      BY <3>2 DEF Owing
    <3>4. \A u \in Threads \ {t} : pc'[u] = "spin" /\ at'[u] = node_n'
      BY <3>3, <1>1, <1>3
    <3>5. pc'[t] = "serve" /\ n_active' = 0 /\ at'[t] >= node_n'
      BY <2>4, <2>5, <1>1, <1>2, <1>3
    <3>6. ServerInv'
      BY <3>4, <3>5 DEF ServerInv, Serving
    <3>7. Serving(t)'
      BY <3>5 DEF Serving
    <3> QED BY <1>4, <1>6, <1>8, <3>6, <3>7 DEF IInv, CountInv, AbortInv
  <2>6. CASE n_active # 1
    <3>1. \A u \in Threads : ~Serving(u)'
      BY <1>3, <1>5, <2>6 DEF Serving
    <3>2. Owing' = Owing \ {t}
      BY <1>1, <1>3, <2>4, <2>6 DEF Owing
    <3>3. n_active' = Cardinality(Owing')
      BY <3>2, <2>1, <2>3, <1>1
    <3>4. \A u \in Threads : pc'[u] # "spin" => at'[u] = node_n'
      BY <1>1, <1>3, <2>1
    <3> QED BY <1>4, <1>6, <1>8, <3>1, <3>3, <3>4 DEF IInv, ServerInv, CountInv, AbortInv
  <2> QED BY <2>5, <2>6
<1> QED BY <1>7, <1>8

\* A step of the serving thread leaves the others spinning.
LEMMA ServerIInv ==
  ASSUME IInv, NEW t \in Threads, Serving(t),
         NEW label \in {"serve", "activate", "publish"}, NEW n \in Int,
         pc' = [pc EXCEPT ![t] = label], at' = [at EXCEPT ![t] = n],
         UNCHANGED <<aborting, node_n>>, n_active' \in Int,
         n_active' = IF label = "publish" THEN NThreads ELSE 0,
         IF label = "serve" THEN n >= node_n ELSE n > node_n
  PROVE  IInv'
<1>1. pc \in [Threads -> Labels] /\ at \in [Threads -> Int]
  BY DEF IInv, TypeInv
<1>2. /\ pc'[t] = label /\ at'[t] = n
      /\ \A u \in Threads : u # t => pc'[u] = pc[u] /\ at'[u] = at[u]
  BY <1>1
<1>3. TypeInv'
  BY <1>1 DEF IInv, TypeInv, Labels
<1>4. \A u \in Threads \ {t} : pc[u] = "spin" /\ at[u] = node_n
  BY DEF IInv, ServerInv
<1>5. \A u \in Threads \ {t} : pc'[u] = "spin" /\ at'[u] = node_n'
  BY <1>2, <1>4
<1>6. ServerInv'
  BY <1>2, <1>5 DEF ServerInv, Serving
<1>7. Serving(t)' /\ ~SomeAborted'
  BY <1>2, <1>5 DEF Serving, SomeAborted
<1> QED BY <1>3, <1>6, <1>7 DEF IInv, CountInv, AbortInv

\* It moves to the next node.
LEMMA ServeIInv ==
  ASSUME IInv, NEW t \in Threads, Serve(t)
  PROVE  IInv'
<1>1. PICK label \in {"serve", "activate"} : pc' = [pc EXCEPT ![t] = label]
  BY DEF Serve, Goto
<1>2. /\ pc[t] = "serve" /\ Serving(t) /\ at' = [at EXCEPT ![t] = at[t] + 1]
      /\ aborting' = aborting /\ node_n' = node_n /\ n_active' = n_active
  BY DEF Serve, Serving, sharedVars
<1>3. n_active = 0 /\ at[t] >= node_n /\ at[t] \in Int /\ node_n \in Int
  BY <1>2 DEF IInv, ServerInv, TypeInv
<1>4. at[t] + 1 \in Int /\ at[t] + 1 > node_n /\ at[t] + 1 >= node_n
  BY <1>3
<1>5. n_active' = IF label = "publish" THEN NThreads ELSE 0
  BY <1>2, <1>3
<1>6. IF label = "serve" THEN at[t] + 1 >= node_n ELSE at[t] + 1 > node_n
  BY <1>4
<1>7. n_active' \in Int /\ label \in {"serve", "activate", "publish"}
  BY <1>2, <1>3
<1> HIDE DEF IInv, Serving
<1> QED BY <1>1, <1>2, <1>4, <1>5, <1>6, <1>7, ServerIInv, Zenon

\* It refills n_active.
LEMMA ActivateIInv ==
  ASSUME GraphAssumption, IInv, NEW t \in Threads, Activate(t)
  PROVE  IInv'
<1>1. /\ pc[t] = "activate" /\ Serving(t) /\ pc' = [pc EXCEPT ![t] = "publish"]
      /\ aborting' = aborting /\ node_n' = node_n /\ at' = at /\ n_active' = NThreads
  BY DEF Activate, Goto, Serving
<1>2. at[t] > node_n /\ at \in [Threads -> Int]
  BY <1>1 DEF IInv, ServerInv, TypeInv
<1>3. at' = [at EXCEPT ![t] = at[t]] /\ at[t] \in Int
  BY <1>1, <1>2
<1>4. n_active' \in Int
  BY <1>1 DEF GraphAssumption
<1>5. "publish" # "serve"
  OBVIOUS
<1> QED BY <1>1, <1>2, <1>3, <1>4, <1>5, ServerIInv, Zenon

\* Enter takes a thread to a label at which it works, or ends.
LEMMA EnterLabel ==
  ASSUME NEW t \in Threads, NEW n, Enter(t, n)
  PROVE  \E label \in {"top", "compute", "draw", "end"} : pc' = [pc EXCEPT ![t] = label]
BY DEF Enter, Goto

\* Moving node_n puts every thread in debt of the new node.
LEMMA PublishIInv ==
  ASSUME GraphAssumption, IInv, NEW t \in Threads, Publish(t)
  PROVE  IInv'
<1>1. /\ pc[t] = "publish" /\ Serving(t) /\ node_n' = at[t]
      /\ aborting' = aborting /\ at' = at /\ n_active' = n_active
  BY DEF Publish, Serving
<1>2. PICK label \in {"top", "compute", "draw", "end"} : pc' = [pc EXCEPT ![t] = label]
  BY EnterLabel DEF Publish
<1>3. pc \in [Threads -> Labels] /\ at \in [Threads -> Int] /\ node_n \in Int
  BY DEF IInv, TypeInv
<1>4. pc'[t] = label /\ \A u \in Threads : u # t => pc'[u] = pc[u]
  BY <1>2, <1>3
<1>5. TypeInv'
  BY <1>1, <1>2, <1>3 DEF IInv, TypeInv, Labels
<1>6. /\ \A u \in Threads \ {t} : pc[u] = "spin" /\ at[u] = node_n
      /\ n_active = NThreads /\ at[t] > node_n
  BY <1>1 DEF IInv, ServerInv
<1>7. \A u \in Threads : ~Serving(u)' /\ pc'[u] # "aborted"
  BY <1>4, <1>6 DEF Serving
<1>8. Owing' = Threads
  <2>1. \A u \in Threads : ~(pc'[u] = "spin" /\ at'[u] = node_n')
    BY <1>1, <1>3, <1>4, <1>6
  <2> QED BY <2>1 DEF Owing, Threads
<1>9. n_active' = Cardinality(Owing')
  BY <1>1, <1>6, <1>8, ThreadsFinite
<1>10. \A u \in Threads : pc'[u] # "spin" => at'[u] = node_n'
  BY <1>1, <1>4, <1>6
<1> QED BY <1>5, <1>7, <1>9, <1>10 DEF IInv, ServerInv, CountInv, AbortInv, SomeAborted

\* A thread that spins sees the node it already owes.
LEMMA SeeNodeIInv ==
  ASSUME IInv, NEW t \in Threads, SeeNode(t)
  PROVE  IInv'
<1>1. /\ pc[t] = "spin" /\ node_n # at[t] /\ at' = [at EXCEPT ![t] = node_n]
      /\ aborting' = aborting /\ node_n' = node_n /\ n_active' = n_active
  BY DEF SeeNode, sharedVars
<1>2. PICK label \in {"top", "compute", "draw", "end"} : pc' = [pc EXCEPT ![t] = label]
  BY EnterLabel DEF SeeNode
<1>3. pc \in [Threads -> Labels] /\ at \in [Threads -> Int] /\ node_n \in Int
  BY DEF IInv, TypeInv
<1>4. /\ pc'[t] = label /\ at'[t] = node_n
      /\ \A u \in Threads : u # t => pc'[u] = pc[u] /\ at'[u] = at[u]
  BY <1>1, <1>2, <1>3
<1>5. TypeInv'
  BY <1>1, <1>2, <1>3 DEF IInv, TypeInv, Labels
<1>6. \A u \in Threads : ~Serving(u)
  <2>1. SUFFICES ASSUME NEW u \in Threads, Serving(u) PROVE FALSE
    OBVIOUS
  <2>2. u # t
    BY <2>1, <1>1 DEF Serving
  <2>3. at[t] = node_n
    BY <2>1, <2>2 DEF IInv, ServerInv
  <2> QED BY <2>3, <1>1
<1>7. \A u \in Threads : ~Serving(u)'
  BY <1>4, <1>6 DEF Serving
<1>8. SomeAborted' <=> SomeAborted
  BY <1>1, <1>4 DEF SomeAborted
<1>9. Owing' = Owing /\ Arriving' = Arriving
  BY <1>1, <1>4 DEF Owing, Arriving
<1>10. CountInv'
  <2>1. SUFFICES ASSUME ~SomeAborted
        PROVE  n_active' = Cardinality(Owing') /\ \A u \in Threads : pc'[u] # "spin" => at'[u] = node_n'
    BY <1>8 DEF CountInv
  <2>2. n_active = Cardinality(Owing) /\ \A u \in Threads : pc[u] # "spin" => at[u] = node_n
    BY <2>1, <1>6 DEF IInv, CountInv
  <2> QED BY <2>2, <1>1, <1>4, <1>9
<1>11. AbortInv'
  BY <1>1, <1>8, <1>9 DEF IInv, AbortInv
<1> QED BY <1>5, <1>7, <1>10, <1>11 DEF IInv, ServerInv

\* Every step keeps the invariant.
LEMMA NextIInv == GraphAssumption /\ IInv /\ [Next]_vars => IInv'
<1> SUFFICES ASSUME GraphAssumption, IInv, [Next]_vars PROVE IInv'
  OBVIOUS
<1>1. CASE UNCHANGED vars
  BY <1>1 DEF vars, sharedVars, IInv, TypeInv, ServerInv, CountInv, AbortInv, Serving,
              Owing, Arriving, SomeAborted
<1>2. CASE Abort
  BY <1>2, AbortIInv
<1>3. ASSUME NEW t \in Threads, Thread(t) PROVE IInv'
  <2>1. CASE CheckAbort(t)   BY <2>1, CheckAbortIInv
  <2>2. CASE Arrive(t)       BY <2>2, ArriveIInv
  <2>3. CASE Serve(t)        BY <2>3, ServeIInv
  <2>4. CASE Activate(t)     BY <2>4, ActivateIInv
  <2>5. CASE Publish(t)      BY <2>5, PublishIInv
  <2>6. CASE SeeNode(t)      BY <2>6, SeeNodeIInv
  <2>7. CASE ComputeSlice(t) BY <2>7, WorkIInv DEF ComputeSlice, Goto, sharedVars
  <2>8. CASE DrawRows(t)
    <3>1. \E label \in {"top", "rows"} : pc' = [pc EXCEPT ![t] = label]
      BY <2>8 DEF DrawRows, Goto
    <3> QED BY <2>8, <3>1, WorkIInv DEF DrawRows, sharedVars
  <2>9. CASE ComputeRows(t)
    <3>1. \E label \in {"top", "draw"} : pc' = [pc EXCEPT ![t] = label]
      BY <2>9 DEF ComputeRows, Goto
    <3> QED BY <2>9, <3>1, WorkIInv DEF ComputeRows, sharedVars
  <2>10. CASE LoadSum(t)     BY <2>10, WorkIInv DEF LoadSum, Goto, sharedVars
  <2>11. CASE StoreSum(t)    BY <2>11, WorkIInv DEF StoreSum, Goto, sharedVars
  <2> QED BY <1>3, <2>1, <2>2, <2>3, <2>4, <2>5, <2>6, <2>7, <2>8, <2>9, <2>10, <2>11
          DEF Thread
<1> QED BY <1>1, <1>2, <1>3 DEF Next

-----------------------------------------------------------------------------
(* Where the threads are in the graph.                                     *)

Aborted == {t \in Threads : pc[t] = "aborted"}

\* Which nodes a thread can be at, and where in the code for which kind of
\* node.
Placed(t) ==
    /\ pc[t] \in {"top", "arrive", "serve", "spin", "aborted"} =>
         at[t] \in -1..(NNodes - 1)
    /\ pc[t] \in {"activate", "publish"} => at[t] \in 0..NNodes
    /\ Working(t) => at[t] \in Nodes /\ t < NTasks(graph[at[t]])
    /\ pc[t] = "compute" => graph[at[t]] # "mul_mat_sparse"
    /\ pc[t] \in {"draw", "rows"} => graph[at[t]] = "mul_mat_sparse"
    /\ pc[t] = "store" => graph[at[t]] = "axpy"
    /\ pc[t] = "end" => at[t] >= NNodes
    /\ ~Serving(t) => at[t] <= node_n

\* node_n moves past the nodes only by threads that abort, once each.
PlaceInv ==
    /\ graph \in [Nodes -> Ops]
    /\ n_active <= NThreads
    /\ -1 <= node_n /\ node_n <= NNodes + Cardinality(Aborted)
    /\ \A t \in Threads : Placed(t)

LEMMA InitPlaceInv == GraphAssumption /\ Init => PlaceInv
<1> SUFFICES ASSUME GraphAssumption, Init PROVE PlaceInv
  OBVIOUS
<1>1. Aborted = {}
  BY DEF Init, Aborted
<1>2. NNodes \in Nat /\ NThreads \in Nat
  BY DEF GraphAssumption
<1>3. \A t \in Threads : pc[t] = "top" /\ at[t] = -1 /\ node_n = -1
  BY DEF Init
<1>4. \A t \in Threads : Placed(t)
  BY <1>2, <1>3 DEF Placed, Working, Serving
<1> QED BY <1>1, <1>2, <1>4, FS_EmptySet DEF Init, PlaceInv

\* A thread stays where it is while others move and node_n grows.
LEMMA PlacedStays ==
  ASSUME NEW u \in Threads, Placed(u), node_n \in Int, node_n' \in Int, at[u] \in Int,
         node_n' >= node_n, graph' = graph, pc'[u] = pc[u], at'[u] = at[u]
  PROVE  Placed(u)'
BY DEF Placed, Working, Serving

\* A step of a thread that does not abort keeps PlaceInv if it keeps the
\* thread at a place.
LEMMA StepPlaceInv ==
  ASSUME GraphAssumption, IInv, IInv', PlaceInv, NEW t \in Threads, Placed(t)',
         NEW label \in Labels \ {"aborted"}, pc[t] # "aborted", pc' = [pc EXCEPT ![t] = label],
         NEW n \in Int, at' = [at EXCEPT ![t] = n], graph' = graph,
         n_active' <= NThreads,
         node_n' >= node_n, node_n' <= NNodes \/ node_n' = node_n
  PROVE  PlaceInv'
<1>1. /\ pc \in [Threads -> Labels] /\ at \in [Threads -> Int]
      /\ node_n \in Int /\ node_n' \in Int /\ NNodes \in Nat
  BY DEF IInv, TypeInv, GraphAssumption
<1>2. \A u \in Threads \ {t} : pc'[u] = pc[u] /\ at'[u] = at[u]
  BY <1>1
<1>3. pc'[t] # "aborted"
  BY <1>1
<1>4. Aborted' = Aborted
  BY <1>2, <1>3 DEF Aborted
<1>5. \A u \in Threads \ {t} : Placed(u)'
  BY <1>1, <1>2, PlacedStays DEF PlaceInv
<1>6. IsFiniteSet(Aborted) /\ Cardinality(Aborted) \in Nat
  BY ThreadsFinite, FS_Subset, FS_CardinalityType DEF Aborted
<1>7. -1 <= node_n' /\ node_n' <= NNodes + Cardinality(Aborted)
  BY <1>1, <1>6 DEF PlaceInv
<1> QED BY <1>4, <1>5, <1>7 DEF PlaceInv

\* Where Enter takes a thread.
LEMMA EnterPlaced ==
  ASSUME GraphAssumption, NEW t \in Threads, pc \in [Threads -> Labels], at' \in [Threads -> Int],
         graph \in [Nodes -> Ops], graph' = graph, Enter(t, at'[t]), at'[t] \in Nat,
         node_n' \in Int, at'[t] <= node_n'
  PROVE  \E label \in {"top", "compute", "draw", "end"} :
           pc' = [pc EXCEPT ![t] = label] /\ Placed(t)'
<1>1. NNodes \in Nat /\ NThreads \in Nat /\ t \in Int /\ 0 <= t
  BY DEF GraphAssumption, Threads
<1>2. CASE at'[t] >= NNodes
  <2>1. pc' = [pc EXCEPT ![t] = "end"]
    BY <1>2 DEF Enter, Goto
  <2>2. pc'[t] = "end"
    BY <2>1
  <2> QED BY <2>1, <2>2, <1>2 DEF Placed, Working, Serving
<1>3. CASE ~(at'[t] >= NNodes)
  <2>1. at'[t] \in Nodes
    BY <1>1, <1>3 DEF Nodes
  <2>2. graph'[at'[t]] \in Ops /\ graph[at'[t]] = graph'[at'[t]]
    BY <2>1
  <2>3. CASE t >= NTasks(graph[at'[t]])
    <3>1. pc' = [pc EXCEPT ![t] = "top"]
      BY <1>3, <2>3 DEF Enter, Goto
    <3>2. pc'[t] = "top"
      BY <3>1
    <3> QED BY <3>1, <3>2, <1>1, <1>3 DEF Placed, Working, Serving
  <2>4. CASE ~(t >= NTasks(graph[at'[t]]))
    <3>1. NTasks(graph'[at'[t]]) \in Int
      BY <1>1 DEF NTasks
    <3>2. t < NTasks(graph'[at'[t]])
      BY <3>1, <2>2, <2>4, <1>1
    <3>3. CASE graph[at'[t]] = "mul_mat_sparse"
      <4>1. pc' = [pc EXCEPT ![t] = "draw"]
        BY <1>3, <2>4, <3>3 DEF Enter, Goto
      <4>2. pc'[t] = "draw"
        BY <4>1
      <4> QED BY <4>1, <4>2, <2>1, <2>2, <3>2, <3>3 DEF Placed, Working, Serving
    <3>4. CASE graph[at'[t]] # "mul_mat_sparse"
      <4>1. pc' = [pc EXCEPT ![t] = "compute"]
        BY <1>3, <2>4, <3>4 DEF Enter, Goto
      <4>2. pc'[t] = "compute"
        BY <4>1
      <4> QED BY <4>1, <4>2, <2>1, <2>2, <3>2, <3>4 DEF Placed, Working, Serving
    <3> QED BY <3>3, <3>4
  <2> QED BY <2>3, <2>4
<1> QED BY <1>2, <1>3

\* A thread that works stays at its node.
LEMMA WorkPlaceInv ==
  ASSUME GraphAssumption, IInv, IInv', PlaceInv, NEW t \in Threads,
         NEW label \in {"top", "arrive", "draw", "rows", "store"},
         pc[t] \in {"top", "compute", "draw", "rows", "store"},
         label \in {"draw", "rows"} => pc[t] \in {"draw", "rows"},
         label = "store" => pc[t] = "compute" /\ graph[at[t]] = "axpy",
         pc' = [pc EXCEPT ![t] = label],
         UNCHANGED <<graph, n_active, node_n, at>>
  PROVE  PlaceInv'
<1>1. /\ pc \in [Threads -> Labels] /\ at \in [Threads -> Int] /\ node_n \in Int
      /\ NNodes \in Nat
  BY DEF IInv, TypeInv, GraphAssumption
<1>2. pc'[t] = label /\ at' = [at EXCEPT ![t] = at[t]] /\ at[t] \in Int
  BY <1>1
<1>3. Placed(t)
  BY DEF PlaceInv
<1>4. at[t] \in -1..(NNodes - 1)
  BY <1>1, <1>3 DEF Placed, Working, Nodes
<1>5. Placed(t)'
  BY <1>2, <1>3, <1>4 DEF Placed, Working, Serving
<1>6. label \in Labels \ {"aborted"} /\ n_active' <= NThreads /\ node_n' >= node_n
  BY <1>1 DEF Labels, PlaceInv
<1> QED BY <1>2, <1>5, <1>6, StepPlaceInv

\* Every step keeps PlaceInv.
LEMMA NextPlaceInv == GraphAssumption /\ IInv /\ IInv' /\ PlaceInv /\ [Next]_vars => PlaceInv'
<1> SUFFICES ASSUME GraphAssumption, IInv, IInv', PlaceInv, [Next]_vars PROVE PlaceInv'
  OBVIOUS
<1>1. /\ pc \in [Threads -> Labels] /\ at \in [Threads -> Int] /\ n_active \in Int
      /\ node_n \in Int /\ NNodes \in Nat /\ NThreads \in Nat /\ graph \in [Nodes -> Ops]
  BY DEF IInv, TypeInv, GraphAssumption, PlaceInv
<1>2. CASE UNCHANGED vars \/ Abort
  <2>1. UNCHANGED <<graph, n_active, node_n, pc, at>>
    BY <1>2 DEF Abort, vars, sharedVars
  <2>2. Aborted' = Aborted
    BY <2>1 DEF Aborted
  <2>3. \A u \in Threads : Placed(u)'
    BY <2>1, <1>1, PlacedStays DEF PlaceInv
  <2> QED BY <2>1, <2>2, <2>3 DEF PlaceInv
<1>3. ASSUME NEW t \in Threads, Thread(t) PROVE PlaceInv'
  <2>1. Placed(t) /\ at' \in [Threads -> Int] /\ node_n' \in Int /\ n_active <= NThreads
    BY DEF PlaceInv, IInv, TypeInv
  <2>2. CASE CheckAbort(t)
    <3>1. CASE aborting
      <4>1. /\ pc[t] = "top" /\ pc' = [pc EXCEPT ![t] = "aborted"] /\ node_n' = node_n + 1
            /\ graph' = graph /\ at' = at /\ n_active' = n_active
        BY <2>2, <3>1 DEF CheckAbort, Goto
      <4>2. pc'[t] = "aborted" /\ \A u \in Threads \ {t} : pc'[u] = pc[u]
        BY <4>1, <1>1
      <4>3. Placed(t)'
        BY <4>1, <4>2, <2>1, <1>1 DEF Placed, Working, Serving
      <4>4. \A u \in Threads \ {t} : Placed(u)'
        BY <4>1, <4>2, <1>1, PlacedStays DEF PlaceInv
      <4>5. Aborted' = Aborted \cup {t} /\ t \notin Aborted
        BY <4>1, <4>2 DEF Aborted
      <4>6. IsFiniteSet(Aborted) /\ Cardinality(Aborted) \in Nat
        BY ThreadsFinite, FS_Subset, FS_CardinalityType DEF Aborted
      <4>7. Cardinality(Aborted') = Cardinality(Aborted) + 1
        BY <4>5, <4>6, FS_AddElement
      <4> QED BY <4>1, <4>3, <4>4, <4>6, <4>7, <1>1 DEF PlaceInv
    <3>2. CASE ~aborting
      BY <2>2, <3>2, WorkPlaceInv DEF CheckAbort, Goto
    <3> QED BY <3>1, <3>2 DEF IInv, TypeInv
  <2>3. CASE Arrive(t)
    <3>1. PICK label \in {"serve", "spin"} : pc' = [pc EXCEPT ![t] = label]
      BY <2>3 DEF Arrive, Goto
    <3>2. /\ pc[t] = "arrive" /\ n_active' = n_active - 1 /\ graph' = graph
          /\ node_n' = node_n /\ at' = [at EXCEPT ![t] = at[t]] /\ at[t] \in Int
      BY <2>3, <1>1 DEF Arrive
    <3>3. pc'[t] = label /\ at'[t] = at[t]
      BY <3>1, <3>2, <1>1
    <3>4. Placed(t)'
      BY <3>2, <3>3, <2>1 DEF Placed, Working, Serving
    <3>5. label \in Labels \ {"aborted"} /\ n_active' <= NThreads /\ node_n' >= node_n
      BY <3>2, <2>1, <1>1 DEF Labels
    <3> QED BY <3>1, <3>2, <3>4, <3>5, StepPlaceInv
  <2>4. CASE Serve(t)
    <3>1. /\ pc[t] = "serve" /\ at' = [at EXCEPT ![t] = at[t] + 1] /\ at[t] + 1 \in Int
          /\ graph' = graph /\ n_active' = n_active /\ node_n' = node_n
      BY <2>4, <1>1 DEF Serve, sharedVars
    <3>2. PICK label \in {"serve", "activate"} :
            pc' = [pc EXCEPT ![t] = label] /\ (label = "serve" => at[t] + 1 < NNodes)
      BY <2>4 DEF Serve, Goto
    <3>3. pc'[t] = label /\ at'[t] = at[t] + 1 /\ at[t] \in -1..(NNodes - 1)
      BY <3>1, <3>2, <2>1, <1>1 DEF Placed
    <3>4. Placed(t)'
      BY <3>2, <3>3, <1>1 DEF Placed, Working, Serving
    <3>5. label \in Labels \ {"aborted"} /\ n_active' <= NThreads /\ node_n' >= node_n
      BY <3>1, <2>1, <1>1 DEF Labels
    <3> QED BY <3>1, <3>2, <3>4, <3>5, StepPlaceInv
  <2>5. CASE Activate(t)
    <3>1. /\ pc[t] = "activate" /\ pc' = [pc EXCEPT ![t] = "publish"] /\ n_active' = NThreads
          /\ graph' = graph /\ node_n' = node_n /\ at' = [at EXCEPT ![t] = at[t]] /\ at[t] \in Int
      BY <2>5, <1>1 DEF Activate, Goto
    <3>2. pc'[t] = "publish" /\ at'[t] = at[t]
      BY <3>1, <1>1
    <3>3. Placed(t)'
      BY <3>1, <3>2, <2>1 DEF Placed, Working, Serving
    <3>4. "publish" \in Labels \ {"aborted"} /\ n_active' <= NThreads /\ node_n' >= node_n
      BY <3>1, <1>1 DEF Labels
    <3> QED BY <3>1, <3>3, <3>4, StepPlaceInv
  <2>6. CASE Publish(t)
    <3>1. /\ pc[t] = "publish" /\ node_n' = at[t] /\ Enter(t, at'[t])
          /\ graph' = graph /\ n_active' = n_active /\ at' = [at EXCEPT ![t] = at[t]]
          /\ at'[t] = at[t] /\ at[t] \in Int
      BY <2>6, <1>1 DEF Publish
    <3>2. at[t] \in 0..NNodes /\ at[t] > node_n
      BY <3>1, <2>1 DEF Placed, IInv, ServerInv, Serving
    <3>3. PICK label \in {"top", "compute", "draw", "end"} :
            pc' = [pc EXCEPT ![t] = label] /\ Placed(t)'
      BY <3>1, <3>2, <2>1, <1>1, EnterPlaced
    <3>4. label \in Labels \ {"aborted"} /\ n_active' <= NThreads /\ node_n' >= node_n /\ node_n' <= NNodes
      BY <3>1, <3>2, <2>1, <1>1 DEF Labels
    <3> QED BY <3>1, <3>3, <3>4, StepPlaceInv
  <2>7. CASE SeeNode(t)
    <3>1. /\ pc[t] = "spin" /\ node_n' = node_n /\ Enter(t, at'[t]) /\ node_n # at[t]
          /\ graph' = graph /\ n_active' = n_active /\ at' = [at EXCEPT ![t] = node_n]
          /\ at'[t] = node_n
      BY <2>7, <1>1 DEF SeeNode, sharedVars
    <3>2. at[t] >= -1 /\ at[t] <= node_n
      BY <3>1, <2>1 DEF Placed, Serving
    <3>3. node_n \in Nat
      BY <3>1, <3>2, <1>1
    <3>4. PICK label \in {"top", "compute", "draw", "end"} :
            pc' = [pc EXCEPT ![t] = label] /\ Placed(t)'
      BY <3>1, <3>3, <2>1, <1>1, EnterPlaced
    <3>5. label \in Labels \ {"aborted"} /\ n_active' <= NThreads /\ node_n' >= node_n
      BY <3>1, <2>1, <1>1 DEF Labels
    <3> QED BY <3>1, <3>4, <3>5, <1>1, StepPlaceInv
  <2>8. CASE ComputeSlice(t)
    BY <2>8, WorkPlaceInv DEF ComputeSlice, Goto, sharedVars
  <2>9. CASE DrawRows(t)
    <3>1. \E label \in {"top", "rows"} : pc' = [pc EXCEPT ![t] = label]
      BY <2>9 DEF DrawRows, Goto
    <3> QED BY <2>9, <3>1, WorkPlaceInv DEF DrawRows, sharedVars
  <2>10. CASE ComputeRows(t)
    <3>1. \E label \in {"top", "draw"} : pc' = [pc EXCEPT ![t] = label]
      BY <2>10 DEF ComputeRows, Goto
    <3> QED BY <2>10, <3>1, WorkPlaceInv DEF ComputeRows, sharedVars
  <2>11. CASE LoadSum(t)
    BY <2>11, WorkPlaceInv DEF LoadSum, Goto, sharedVars
  <2>12. CASE StoreSum(t)
    BY <2>12, WorkPlaceInv DEF StoreSum, Goto, sharedVars
  <2> QED BY <1>3, <2>2, <2>3, <2>4, <2>5, <2>6, <2>7, <2>8, <2>9, <2>10, <2>11, <2>12
          DEF Thread
<1> QED BY <1>2, <1>3 DEF Next

-----------------------------------------------------------------------------
(* What the buffers and the locals of the threads hold.                    *)

StoreInv ==
    /\ aic \in Nat
    /\ work_data \in Nodes \cup {NoNode}
    /\ content \in [Nodes -> SUBSET (Int \cup {Junk})]
    /\ \A n \in Nodes : content[n] \subseteq Parts(graph[n]) \cup {Junk}
    /\ ir0 \in [Threads -> Rows]
    /\ res \in [Threads -> SUBSET (Threads \cup {Junk})]

\* A chunk is not empty and a number of rows.
LEMMA ChunkIsNat == GraphAssumption => dr0 \in Nat
<1> SUFFICES ASSUME GraphAssumption PROVE dr0 \in Nat
  OBVIOUS
<1> DEFINE m == NChunks * NThreads
<1>1. m \in Nat \ {0}
  BY DEF GraphAssumption
<1>2. NRows + m - 1 \in Nat
  BY <1>1 DEF GraphAssumption
<1>3. \A x \in Nat, y \in Nat \ {0} : x \div y \in Nat
  OBVIOUS
<1> HIDE DEF m
<1>4. (NRows + m - 1) \div m \in Nat
  BY <1>1, <1>2, <1>3
<1> QED BY <1>4 DEF dr0, m

\* What a node leaves in its output when it is prepared, and what a thread
\* adds to it, are parts of it.
LEMMA ContentStays ==
  ASSUME StoreInv, NEW n \in Nodes, NEW c, c \subseteq Parts(graph[n]) \cup {Junk},
         c \subseteq Int, content' = [content EXCEPT ![n] = c], graph' = graph
  PROVE  /\ content' \in [Nodes -> SUBSET (Int \cup {Junk})]
         /\ \A k \in Nodes : content'[k] \subseteq Parts(graph'[k]) \cup {Junk}
<1>1. content \in [Nodes -> SUBSET (Int \cup {Junk})]
  BY DEF StoreInv
<1>2. content'[n] = c /\ \A k \in Nodes \ {n} : content'[k] = content[k]
  BY <1>1
<1>3. content' \in [Nodes -> SUBSET (Int \cup {Junk})]
  BY <1>1
<1>4. \A k \in Nodes : Parts(graph'[k]) = Parts(graph[k])
  BY DEF Parts, NTasks
<1>5. \A k \in Nodes : content[k] \subseteq Parts(graph[k]) \cup {Junk}
  BY DEF StoreInv
<1>6. ASSUME NEW k \in Nodes PROVE content'[k] \subseteq Parts(graph'[k]) \cup {Junk}
  BY <1>2, <1>4, <1>5, <1>6
<1> QED BY <1>3, <1>6

LEMMA InitStoreInv == GraphAssumption /\ Init => StoreInv
<1> SUFFICES ASSUME GraphAssumption, Init PROVE StoreInv
  OBVIOUS
<1>1. 0 \in Rows
  BY DEF GraphAssumption, Rows
<1> QED BY <1>1 DEF Init, StoreInv

\* The INIT pass of a node, after which the caller may have computed it.
LEMMA InitNodeStoreInv ==
  ASSUME GraphAssumption, StoreInv, NEW n \in Nodes, NEW c,
         c \subseteq Parts(graph[n]) \cup {Junk},
         InitNode(n, c), graph' = graph
  PROVE  /\ aic' \in Nat
         /\ work_data' \in Nodes \cup {NoNode}
         /\ content' \in [Nodes -> SUBSET (Int \cup {Junk})]
         /\ \A k \in Nodes : content'[k] \subseteq Parts(graph'[k]) \cup {Junk}
<1>1. work_data' \in Nodes \cup {NoNode}
  BY DEF InitNode, StoreInv
<1>2. Parts(graph[n]) \subseteq Int /\ c \subseteq Int
  BY DEF Parts, NTasks, Rows, Junk, GraphAssumption
<1> DEFINE d == IF graph[n] = "axpy" THEN {} ELSE c
<1>3. d \subseteq Int /\ d \subseteq Parts(graph[n]) \cup {Junk}
  BY <1>2
<1>4. content' = [content EXCEPT ![n] = d]
  BY DEF InitNode
<1>5. aic' \in Nat
  BY DEF InitNode, StoreInv
<1> HIDE DEF d
<1> QED BY <1>1, <1>3, <1>4, <1>5, ContentStays

\* Every step keeps StoreInv.
LEMMA NextStoreInv == GraphAssumption /\ IInv /\ PlaceInv /\ StoreInv /\ [Next]_vars => StoreInv'
<1> SUFFICES ASSUME GraphAssumption, IInv, PlaceInv, StoreInv, [Next]_vars PROVE StoreInv'
  OBVIOUS
<1> DEFINE Kept == UNCHANGED <<graph, aic, work_data, content, ir0, res>>
<1>1. ASSUME Kept PROVE StoreInv'
  BY <1>1 DEF StoreInv, Parts, NTasks
<1>2. CASE UNCHANGED vars \/ Abort
  BY <1>1, <1>2 DEF Abort, vars, dataVars, localVars
<1>3. ASSUME NEW t \in Threads, Thread(t) PROVE StoreInv'
  <2>1. /\ Placed(t) /\ t \in Int /\ 0 <= t /\ dr0 \in Nat /\ NThreads \in Nat
        /\ pc \in [Threads -> Labels]
    BY ChunkIsNat DEF PlaceInv, Threads, GraphAssumption, IInv, TypeInv
  <2>2. CASE CheckAbort(t) \/ Arrive(t) \/ Activate(t) \/ Publish(t) \/ SeeNode(t)
    BY <1>1, <2>2 DEF CheckAbort, Arrive, Activate, Publish, SeeNode, dataVars, localVars
  <2>3. CASE Serve(t)
    <3>1. graph' = graph /\ ir0' = ir0 /\ res' = res
      BY <2>3 DEF Serve, localVars
    <3>2. CASE UNCHANGED dataVars
      BY <1>1, <3>1, <3>2 DEF dataVars
    <3>3. CASE ~UNCHANGED dataVars
      <4> DEFINE n == at[t] + 1
      <4>1. n < NNodes /\ (InitNode(n, content[n] \cup Parts(graph[n])) \/ InitNode(n, content[n]))
        BY <2>3, <3>3 DEF Serve
      <4>2. at[t] \in -1..(NNodes - 1)
        BY <2>1, <2>3 DEF Serve, Placed
      <4>3. n \in Nodes
        BY <4>1, <4>2 DEF Nodes, GraphAssumption
      <4> HIDE DEF n
      <4>4. content[n] \subseteq Parts(graph[n]) \cup {Junk}
        BY <4>3 DEF StoreInv
      <4>5. content[n] \cup Parts(graph[n]) \subseteq Parts(graph[n]) \cup {Junk}
        BY <4>4
      <4> QED BY <3>1, <4>1, <4>3, <4>4, <4>5, InitNodeStoreInv DEF StoreInv
    <3> QED BY <3>2, <3>3
  <2>4. CASE ComputeSlice(t)
    <3>1. /\ pc[t] = "compute" /\ content' = [content EXCEPT ![at[t]] = content[at[t]] \cup {t}]
          /\ graph' = graph /\ aic' = aic /\ work_data' = work_data /\ ir0' = ir0 /\ res' = res
      BY <2>4 DEF ComputeSlice, localVars
    <3>2. at[t] \in Nodes /\ t \in Parts(graph[at[t]])
      BY <3>1, <2>1 DEF Placed, Working, Parts, NTasks
    <3>3. /\ content[at[t]] \cup {t} \subseteq Int
          /\ content[at[t]] \cup {t} \subseteq Parts(graph[at[t]]) \cup {Junk}
      BY <3>2, <2>1 DEF StoreInv, Junk
    <3> QED BY <3>1, <3>2, <3>3, ContentStays DEF StoreInv
  <2>5. CASE DrawRows(t)
    <3>1. /\ aic' = aic + dr0
          /\ ir0' = ir0 \/ (aic < NRows /\ ir0' = [ir0 EXCEPT ![t] = aic])
          /\ graph' = graph /\ work_data' = work_data /\ content' = content /\ res' = res
      BY <2>5 DEF DrawRows
    <3>2. aic < NRows => aic \in Rows
      BY DEF StoreInv, Rows, GraphAssumption
    <3>3. ir0' \in [Threads -> Rows] /\ aic' \in Nat
      BY <3>1, <3>2, <2>1 DEF StoreInv
    <3>4. \A n \in Nodes : Parts(graph'[n]) = Parts(graph[n]) /\ content'[n] = content[n]
      BY <3>1 DEF Parts, NTasks
    <3> QED BY <3>1, <3>3, <3>4 DEF StoreInv
  <2>6. CASE ComputeRows(t)
    <3>1. /\ pc[t] = "rows"
          /\ content' = [content EXCEPT ![at[t]] = content[at[t]] \cup RowsFrom(ir0[t])]
          /\ graph' = graph /\ aic' = aic /\ work_data' = work_data /\ ir0' = ir0 /\ res' = res
      BY <2>6 DEF ComputeRows, localVars
    <3>2. at[t] \in Nodes /\ Parts(graph[at[t]]) = Rows
      BY <3>1, <2>1 DEF Placed, Working, Parts
    <3>3. RowsFrom(ir0[t]) \subseteq Rows /\ Rows \subseteq Int
      BY DEF RowsFrom, Rows, GraphAssumption
    <3>4. content[at[t]] \subseteq Rows \cup {Junk} /\ Junk \in Int
      BY <3>2 DEF StoreInv, Junk
    <3>5. content[at[t]] \cup RowsFrom(ir0[t]) \subseteq Parts(graph[at[t]]) \cup {Junk}
      BY <3>2, <3>3, <3>4
    <3>6. content[at[t]] \cup RowsFrom(ir0[t]) \subseteq Int
      BY <3>3, <3>4
    <3> QED BY <3>1, <3>2, <3>5, <3>6, ContentStays DEF StoreInv
  <2>7. CASE LoadSum(t)
    <3>1. /\ pc[t] = "compute" /\ graph[at[t]] = "axpy" /\ res' = [res EXCEPT ![t] = content[at[t]]]
          /\ UNCHANGED <<graph, aic, work_data, content, ir0>>
      BY <2>7 DEF LoadSum, dataVars
    <3>2. at[t] \in Nodes /\ Parts(graph[at[t]]) = Threads
      BY <3>1, <2>1 DEF Placed, Working, Parts, NTasks, Threads
    <3>3. content[at[t]] \subseteq Threads \cup {Junk}
      BY <3>2 DEF StoreInv
    <3> QED BY <3>1, <3>3 DEF StoreInv, Parts, NTasks
  <2>8. CASE StoreSum(t)
    <3>1. /\ pc[t] = "store" /\ content' = [content EXCEPT ![at[t]] = res[t] \cup {t}]
          /\ graph' = graph /\ aic' = aic /\ work_data' = work_data /\ ir0' = ir0 /\ res' = res
      BY <2>8 DEF StoreSum, localVars
    <3>2. at[t] \in Nodes /\ Parts(graph[at[t]]) = Threads
      BY <3>1, <2>1 DEF Placed, Working, Parts, NTasks, Threads
    <3>3. res[t] \cup {t} \subseteq Int /\ res[t] \cup {t} \subseteq Parts(graph[at[t]]) \cup {Junk}
      BY <3>2 DEF StoreInv, Junk, Threads
    <3> QED BY <3>1, <3>2, <3>3, ContentStays DEF StoreInv
  <2> QED BY <1>3, <2>2, <2>3, <2>4, <2>5, <2>6, <2>7, <2>8 DEF Thread
<1> QED BY <1>2, <1>3 DEF Next

-----------------------------------------------------------------------------
(* The counter aic, from which the threads draw rows.                      *)

Bound(k) == NRows - 1 + k * dr0

\* The threads that may draw again, unless a thread aborts: at the current
\* node ...
CanDraw == {t \in Threads :
              \/ pc[t] = "draw"
              \/ pc[t] = "rows" /\ ir0[t] + dr0 < NRows
              \/ /\ pc[t] = "spin" /\ at[t] # node_n
                 /\ node_n \in Nodes /\ graph[node_n] = "mul_mat_sparse"}

\* ... and, once the caller aborts, at any node: whoever comes to the top
\* of the loop does not draw any more.
MayDraw == {t \in Threads :
              \/ pc[t] \in {"arrive", "serve", "activate", "publish", "spin", "draw"}
              \/ pc[t] = "rows" /\ ir0[t] + dr0 < NRows}

\* How often the counter may have been taken past the last row.
Past == IF aborting THEN 2 * NThreads - Cardinality(MayDraw)
        ELSE NThreads - Cardinality(CanDraw)

DrawInv ==
    /\ \A t \in Threads : pc[t] = "rows" => ir0[t] + dr0 <= aic
    /\ aic <= Bound(Past)

LEMMA BoundGrows ==
  ASSUME GraphAssumption, NEW j \in Int, NEW k \in Int, j <= k
  PROVE  /\ Bound(j) \in Int /\ Bound(k) \in Int
         /\ Bound(j) <= Bound(k) /\ Bound(j + 1) = Bound(j) + dr0
         /\ Bound(0) = NRows - 1
<1>1. dr0 \in Nat /\ NRows \in Nat
  BY ChunkIsNat DEF GraphAssumption
<1>2. ASSUME NEW d \in Nat PROVE j * d <= k * d /\ (j + 1) * d = j * d + d /\ j * d \in Int /\ k * d \in Int
  <2>1. (k - j) * d >= 0
    <3>1. \A x, y \in Nat : x * y >= 0
      OBVIOUS
    <3>2. k - j \in Nat
      OBVIOUS
    <3> QED BY <3>1, <3>2
  <2>2. (k - j) * d = k * d - j * d
    OBVIOUS
  <2> QED BY <2>1, <2>2
<1> QED BY <1>1, <1>2 DEF Bound

\* A set of threads is finite, and has at most NThreads members.
LEMMA ThreadSets ==
  ASSUME GraphAssumption, NEW S, S \subseteq Threads
  PROVE  IsFiniteSet(S) /\ Cardinality(S) \in 0..NThreads
<1>1. IsFiniteSet(S) /\ Cardinality(S) <= NThreads
  BY ThreadsFinite, FS_Subset
<1> QED BY <1>1, FS_CardinalityType DEF GraphAssumption

\* The counts of the threads that may still draw, before and after a step.
LEMMA DrawCounts ==
  ASSUME GraphAssumption
  PROVE  /\ IsFiniteSet(CanDraw) /\ IsFiniteSet(MayDraw)
         /\ Cardinality(CanDraw) \in 0..NThreads /\ Cardinality(MayDraw) \in 0..NThreads
         /\ Cardinality(CanDraw') \in 0..NThreads /\ Cardinality(MayDraw') \in 0..NThreads
         /\ Past \in Nat /\ Past' \in Nat
<1>1. CanDraw \subseteq Threads /\ MayDraw \subseteq Threads
  BY DEF CanDraw, MayDraw
<1>2. CanDraw' \subseteq Threads /\ MayDraw' \subseteq Threads
  BY DEF CanDraw, MayDraw
<1>3. NThreads \in Nat
  BY DEF GraphAssumption
<1>4. /\ IsFiniteSet(CanDraw) /\ Cardinality(CanDraw) \in 0..NThreads
      /\ IsFiniteSet(MayDraw) /\ Cardinality(MayDraw) \in 0..NThreads
  BY <1>1, ThreadSets
<1>5. Cardinality(CanDraw') \in 0..NThreads /\ Cardinality(MayDraw') \in 0..NThreads
  BY <1>2, ThreadSets
<1>6. Past \in Nat
  BY <1>3, <1>4 DEF Past
<1>7. Past' \in Nat
  BY <1>3, <1>5 DEF Past
<1> QED BY <1>4, <1>5, <1>6, <1>7

\* A step after which the counter is where it was, or before the end of
\* the rows, and nobody may draw who might not before.
LEMMA DrawsKept ==
  ASSUME GraphAssumption, StoreInv, StoreInv', DrawInv, aborting \in BOOLEAN, aborting' = aborting,
         \/ aic' <= NRows - 1
         \/ aic' = aic /\ IF aborting THEN MayDraw' \subseteq MayDraw ELSE CanDraw' \subseteq CanDraw
  PROVE  aic' <= Bound(Past')
<1>1. Past \in Nat /\ Past' \in Nat /\ NThreads \in Nat /\ aic \in Nat /\ aic' \in Nat
  BY DrawCounts DEF GraphAssumption, StoreInv
<1>2. CASE aic' <= NRows - 1
  <2>1. Bound(0) <= Bound(Past') /\ Bound(0) = NRows - 1 /\ Bound(Past') \in Int
    BY <1>1, BoundGrows
  <2> QED BY <1>1, <1>2, <2>1 DEF GraphAssumption
<1>3. CASE aic' = aic /\ IF aborting THEN MayDraw' \subseteq MayDraw ELSE CanDraw' \subseteq CanDraw
  <2>1. Past <= Past'
    <3>1. aborting => Cardinality(MayDraw') <= Cardinality(MayDraw)
      BY <1>3, DrawCounts, FS_Subset
    <3>2. ~aborting => Cardinality(CanDraw') <= Cardinality(CanDraw)
      BY <1>3, DrawCounts, FS_Subset
    <3>3. /\ Cardinality(CanDraw) \in 0..NThreads /\ Cardinality(CanDraw') \in 0..NThreads
          /\ Cardinality(MayDraw) \in 0..NThreads /\ Cardinality(MayDraw') \in 0..NThreads
      BY DrawCounts
    <3> QED BY <3>1, <3>2, <3>3, <1>1 DEF Past
  <2>2. Bound(Past) <= Bound(Past') /\ Bound(Past) \in Int /\ Bound(Past') \in Int
    BY <2>1, <1>1, BoundGrows
  <2> QED BY <2>2, <1>1, <1>3 DEF DrawInv
<1> QED BY <1>2, <1>3

\* A thread draws for the last time.
LEMMA LastDraw ==
  ASSUME GraphAssumption, StoreInv, StoreInv', DrawInv, aborting \in BOOLEAN, aborting' = aborting,
         aic' = aic + dr0, NEW t,
         aborting => t \in MayDraw /\ MayDraw' = MayDraw \ {t},
         ~aborting => t \in CanDraw /\ CanDraw' = CanDraw \ {t}
  PROVE  aic' <= Bound(Past')
<1>1. Past \in Nat /\ Past' \in Nat /\ NThreads \in Nat /\ aic \in Nat /\ dr0 \in Nat
  BY DrawCounts, ChunkIsNat DEF GraphAssumption, StoreInv
<1>2. Past' = Past + 1
  <2>1. aborting => Cardinality(MayDraw') = Cardinality(MayDraw) - 1
    BY DrawCounts, OneLess
  <2>2. ~aborting => Cardinality(CanDraw') = Cardinality(CanDraw) - 1
    BY DrawCounts, OneLess
  <2>3. Cardinality(CanDraw) \in 0..NThreads /\ Cardinality(MayDraw) \in 0..NThreads
    BY DrawCounts
  <2> QED BY <2>1, <2>2, <2>3, <1>1 DEF Past
<1>3. Bound(Past') = Bound(Past) + dr0 /\ Bound(Past) \in Int
  BY <1>1, <1>2, BoundGrows
<1> QED BY <1>1, <1>3 DEF DrawInv

-----------------------------------------------------------------------------
(* What the nodes have computed, as long as the caller does not abort.     *)

Done(n) ==
    IF graph[n] = "axpy" THEN Junk \notin content[n]
    ELSE Parts(graph[n]) \subseteq content[n]

\* A thread has done its share of the current node.
Finished(t) == pc[t] \in {"top", "arrive"} \/ (pc[t] = "spin" /\ at[t] = node_n)

\* The INIT pass of node n has been made, and no node of one task is left
\* to the threads.
Prepared(n) ==
    /\ graph[n] # "single"
    /\ graph[n] \in Quantizing => work_data = n
    /\ graph[n] = "axpy" => Junk \notin content[n]

\* What is still missing in the current node will come from a thread that
\* has not finished.
Underway(n) ==
    /\ Prepared(n)
    /\ graph[n] = "axpy" => \A t \in Threads : pc[t] = "store" => Junk \notin res[t]
    /\ graph[n] \in {"slices", "mul_mat"} =>
         \A t \in Threads : Finished(t) => t \in content[n]
    /\ graph[n] = "mul_mat_sparse" =>
         /\ \A t \in Threads : Finished(t) => aic >= NRows
         /\ \A r \in Rows : r < aic =>
              \/ r \in content[n]
              \/ \E t \in Threads : pc[t] = "rows" /\ r \in RowsFrom(ir0[t])

\* What the thread that serves has behind it and before it.
Served(t) ==
    /\ pc[t] = "serve" => \A n \in Nodes : n <= at[t] => Done(n)
    /\ pc[t] \in {"activate", "publish"} =>
         /\ \A n \in Nodes : n < at[t] => Done(n)
         /\ at[t] \in Nodes => /\ Prepared(at[t])
                               /\ graph[at[t]] = "mul_mat_sparse" => aic = 0

Current ==
    /\ \A n \in Nodes : n < node_n => Done(n)
    /\ node_n \in Nodes => Underway(node_n)

DataInv ==
    ~aborting =>
        /\ \A t \in Threads : Served(t)
        /\ (\A t \in Threads : ~Serving(t)) => Current

LEMMA InitDataInv == GraphAssumption /\ Init => DrawInv /\ DataInv
<1> SUFFICES ASSUME GraphAssumption, Init PROVE DrawInv /\ DataInv
  OBVIOUS
<1>1. /\ \A t \in Threads : pc[t] = "top" /\ at[t] = -1
      /\ node_n = -1 /\ aic = 0 /\ ~aborting
  BY DEF Init
<1>2. CanDraw = {}
  BY <1>1 DEF CanDraw
<1>3. NThreads \in Nat /\ NRows \in Nat \ {0} /\ Past = NThreads
  BY <1>1, <1>2, FS_EmptySet DEF Past, GraphAssumption
<1>4. Bound(0) <= Bound(NThreads) /\ Bound(0) = NRows - 1 /\ Bound(NThreads) \in Int
  BY <1>3, BoundGrows
<1>5. DrawInv
  BY <1>1, <1>3, <1>4 DEF DrawInv
<1>6. \A n \in Nodes : n \in Nat
  BY DEF Nodes, GraphAssumption
<1> QED BY <1>1, <1>5, <1>6 DEF DataInv, Served, Current

\* A thread that neither serves nor spins is at the current node, and
\* nobody serves.
LEMMA AtCurrent ==
  ASSUME IInv, NEW t \in Threads, ~Serving(t), pc[t] # "spin"
  PROVE  (\A u \in Threads : ~Serving(u)) /\ (~aborting => at[t] = node_n)
<1>1. \A u \in Threads : ~Serving(u)
  <2>1. SUFFICES ASSUME NEW u \in Threads, Serving(u) PROVE FALSE
    OBVIOUS
  <2>2. u # t
    BY <2>1
  <2> QED BY <2>1, <2>2 DEF IInv, ServerInv
<1>2. ~aborting => ~SomeAborted
  BY DEF IInv, AbortInv
<1> QED BY <1>1, <1>2 DEF IInv, CountInv

\* Nobody serves where a thread spins on an old node.
LEMMA SpinningOnOld ==
  ASSUME IInv, NEW t \in Threads, pc[t] = "spin", at[t] # node_n
  PROVE  \A u \in Threads : ~Serving(u)
<1>1. SUFFICES ASSUME NEW u \in Threads, Serving(u) PROVE FALSE
  OBVIOUS
<1>2. u # t
  BY <1>1 DEF Serving
<1> QED BY <1>1, <1>2 DEF IInv, ServerInv

\* Where Enter takes a thread at node n.
LEMMA EnterDraws ==
  ASSUME GraphAssumption, NEW t \in Threads, NEW n \in Nat, Enter(t, n),
         graph \in [Nodes -> Ops]
  PROVE  \E label \in {"top", "compute", "draw", "end"} :
           /\ pc' = [pc EXCEPT ![t] = label]
           /\ label = "draw" => n \in Nodes /\ graph[n] = "mul_mat_sparse"
           /\ label = "compute" => n \in Nodes /\ graph[n] # "mul_mat_sparse"
           /\ n \in Nodes /\ graph[n] # "single" => label \in {"compute", "draw"}
<1>1. NNodes \in Nat /\ NThreads \in Nat /\ t \in Int /\ t < NThreads
  BY DEF GraphAssumption, Threads
<1>2. CASE n >= NNodes
  <2>1. n \notin Nodes
    BY <1>1, <1>2 DEF Nodes
  <2> QED BY <1>2, <2>1 DEF Enter, Goto
<1>3. CASE ~(n >= NNodes)
  <2>1. n \in Nodes
    BY <1>1, <1>3 DEF Nodes
  <2>2. graph[n] # "single" => ~(t >= NTasks(graph[n]))
    BY <1>1 DEF NTasks
  <2> QED BY <1>3, <2>1, <2>2 DEF Enter, Goto
<1> QED BY <1>2, <1>3

\* A step that leaves the counter, the nodes and the drawing threads alone.
LEMMA QuietDrawInv ==
  ASSUME GraphAssumption, StoreInv, StoreInv', DrawInv, NEW t \in Threads,
         pc \in [Threads -> Labels], aborting \in BOOLEAN,
         NEW label \in Labels \ {"draw", "rows"},
         pc' = [pc EXCEPT ![t] = label],
         UNCHANGED <<graph, aborting, aic, ir0>>,
         \A u \in Threads \ {t} : at'[u] = at[u],
         IF aborting
         THEN label \in {"arrive", "serve", "activate", "publish", "spin"} => t \in MayDraw
         ELSE node_n' = node_n /\ (label = "spin" => at'[t] = node_n)
  PROVE  DrawInv'
<1>1. pc'[t] = label /\ \A u \in Threads \ {t} : pc'[u] = pc[u]
  OBVIOUS
<1>2. \A u \in Threads : pc'[u] = "rows" => pc[u] = "rows"
  BY <1>1
<1>3. \A u \in Threads : pc'[u] = "rows" => ir0'[u] + dr0 <= aic'
  BY <1>2 DEF DrawInv
<1>4. aborting => MayDraw' \subseteq MayDraw
  BY <1>1 DEF MayDraw
<1>5. ~aborting => CanDraw' \subseteq CanDraw
  BY <1>1 DEF CanDraw
<1>6. aic' <= Bound(Past')
  BY <1>4, <1>5, DrawsKept
<1> QED BY <1>3, <1>6 DEF DrawInv

\* Every step keeps DrawInv.
LEMMA NextDrawInv ==
  ASSUME GraphAssumption, IInv, PlaceInv, StoreInv, StoreInv', DrawInv, DataInv, [Next]_vars
  PROVE  DrawInv'
<1>1. /\ pc \in [Threads -> Labels] /\ at \in [Threads -> Int] /\ aborting \in BOOLEAN
      /\ node_n \in Int /\ NThreads \in Nat /\ graph \in [Nodes -> Ops]
      /\ aic \in Nat /\ dr0 \in Nat /\ NRows \in Nat \ {0} /\ ir0 \in [Threads -> Rows]
  BY ChunkIsNat DEF IInv, TypeInv, GraphAssumption, PlaceInv, StoreInv
<1>2. CASE UNCHANGED vars
  <2>1. MayDraw' = MayDraw /\ CanDraw' = CanDraw
    BY <1>2 DEF vars, sharedVars, dataVars, localVars, MayDraw, CanDraw
  <2> QED BY <1>2, <2>1 DEF vars, sharedVars, dataVars, localVars, DrawInv, Past
<1>3. CASE Abort
  <2>1. ~aborting /\ aborting' = TRUE /\ UNCHANGED <<aic, pc, ir0>>
    BY <1>3 DEF Abort, dataVars, localVars
  <2>2. Past' \in Nat /\ Past \in Nat /\ Past <= Past'
    BY <2>1, <1>1, DrawCounts DEF Past
  <2>3. Bound(Past) <= Bound(Past') /\ Bound(Past) \in Int /\ Bound(Past') \in Int
    BY <2>2, BoundGrows
  <2> QED BY <2>1, <2>3, <1>1 DEF DrawInv
<1>4. ASSUME NEW t \in Threads, Thread(t) PROVE DrawInv'
  <2>1. Placed(t) /\ (~aborting => Served(t))
    BY DEF PlaceInv, DataInv
  <2>2. CASE CheckAbort(t)
    <3>1. PICK label \in {"aborted", "arrive"} :
            /\ pc' = [pc EXCEPT ![t] = label]
            /\ IF aborting THEN label = "aborted" ELSE label = "arrive" /\ node_n' = node_n
      BY <2>2 DEF CheckAbort, Goto
    <3>2. label \in Labels \ {"draw", "rows"} /\ UNCHANGED <<graph, aborting, aic, ir0, at>>
      BY <2>2 DEF CheckAbort, dataVars, localVars, Labels
    <3> QED BY <3>1, <3>2, <1>1, QuietDrawInv
  <2>3. CASE Arrive(t)
    <3>1. PICK label \in {"serve", "spin"} : pc' = [pc EXCEPT ![t] = label]
      BY <2>3 DEF Arrive, Goto
    <3>2. /\ pc[t] = "arrive" /\ label \in Labels \ {"draw", "rows"} /\ node_n' = node_n
          /\ UNCHANGED <<graph, aborting, aic, ir0, at>>
      BY <2>3 DEF Arrive, dataVars, localVars, Labels
    <3>3. ~aborting => at[t] = node_n
      BY <3>2, AtCurrent DEF Serving
    <3>4. t \in MayDraw
      BY <3>2 DEF MayDraw
    <3> QED BY <3>1, <3>2, <3>3, <3>4, <1>1, QuietDrawInv
  <2>4. CASE Serve(t)
    <3>1. PICK label \in {"serve", "activate"} : pc' = [pc EXCEPT ![t] = label]
      BY <2>4 DEF Serve, Goto
    <3>2. /\ pc[t] = "serve" /\ label \in Labels \ {"draw", "rows"} /\ node_n' = node_n
          /\ graph' = graph /\ aborting' = aborting /\ ir0' = ir0
          /\ at' = [at EXCEPT ![t] = at[t] + 1]
          /\ aic' = aic \/ aic' = 0
      BY <2>4 DEF Serve, sharedVars, dataVars, localVars, Labels, InitNode
    <3>3. CASE aic' = aic
      <4>1. \A u \in Threads \ {t} : at'[u] = at[u]
        BY <3>2, <1>1
      <4>2. t \in MayDraw
        BY <3>2 DEF MayDraw
      <4> QED BY <3>1, <3>2, <3>3, <4>1, <4>2, <1>1, QuietDrawInv
    <3>4. CASE aic' = 0
      <4>1. \A u \in Threads \ {t} : pc[u] = "spin"
        BY <3>2 DEF IInv, ServerInv, Serving
      <4>2. \A u \in Threads : pc'[u] # "rows"
        BY <3>1, <4>1, <1>1
      <4>3. aic' <= Bound(Past')
        BY <3>2, <3>4, <1>1, DrawsKept
      <4> QED BY <4>2, <4>3 DEF DrawInv
    <3> QED BY <3>2, <3>3, <3>4
  <2>5. CASE Activate(t)
    <3>1. /\ pc[t] = "activate" /\ pc' = [pc EXCEPT ![t] = "publish"] /\ node_n' = node_n
          /\ UNCHANGED <<graph, aborting, aic, ir0, at>>
      BY <2>5 DEF Activate, Goto, dataVars, localVars
    <3>2. t \in MayDraw /\ "publish" \in Labels \ {"draw", "rows"}
      BY <3>1 DEF MayDraw, Labels
    <3> QED BY <3>1, <3>2, <1>1, QuietDrawInv
  <2>6. CASE Publish(t)
    <3>1. /\ pc[t] = "publish" /\ node_n' = at[t] /\ Enter(t, at[t])
          /\ UNCHANGED <<graph, aborting, aic, ir0, at>>
      BY <2>6 DEF Publish, dataVars, localVars
    <3>2. at[t] \in Nat
      BY <3>1, <2>1 DEF Placed
    <3>3. PICK label \in {"top", "compute", "draw", "end"} :
            /\ pc' = [pc EXCEPT ![t] = label]
            /\ label = "draw" => at[t] \in Nodes /\ graph[at[t]] = "mul_mat_sparse"
      BY <3>1, <3>2, <1>1, EnterDraws
    <3>4. pc'[t] = label /\ \A u \in Threads \ {t} : pc'[u] = pc[u]
      BY <3>3, <1>1
    <3>5. \A u \in Threads \ {t} : pc[u] = "spin"
      BY <3>1 DEF IInv, ServerInv, Serving
    <3>6. \A u \in Threads : pc'[u] # "rows"
      BY <3>4, <3>5
    <3>7. CASE aborting
      <4>1. MayDraw = Threads /\ MayDraw' \subseteq Threads
        BY <3>1, <3>5 DEF MayDraw
      <4>2. aic' <= Bound(Past')
        BY <3>1, <3>7, <4>1, DrawsKept
      <4> QED BY <3>6, <4>2 DEF DrawInv
    <3>8. CASE ~aborting
      <4>1. CASE at[t] \in Nodes /\ graph[at[t]] = "mul_mat_sparse"
        <5>1. aic = 0
          BY <2>1, <3>1, <3>8, <4>1 DEF Served
        <5>2. aic' <= Bound(Past')
          BY <3>1, <5>1, <1>1, DrawsKept
        <5> QED BY <3>6, <5>2 DEF DrawInv
      <4>2. CASE ~(at[t] \in Nodes /\ graph[at[t]] = "mul_mat_sparse")
        <5>1. label # "draw"
          BY <3>3, <4>2
        <5>2. CanDraw' = {}
          BY <3>1, <3>4, <3>5, <4>2, <5>1 DEF CanDraw
        <5>3. CanDraw' \subseteq CanDraw
          BY <5>2
        <5>4. aic' <= Bound(Past')
          BY <1>1, <3>1, <3>8, <5>3, DrawsKept
        <5> QED BY <3>6, <5>4 DEF DrawInv
      <4> QED BY <4>1, <4>2
    <3> QED BY <3>7, <3>8
  <2>7. CASE SeeNode(t)
    <3>1. /\ pc[t] = "spin" /\ node_n' = node_n /\ Enter(t, node_n) /\ node_n # at[t]
          /\ at' = [at EXCEPT ![t] = node_n]
          /\ UNCHANGED <<graph, aborting, aic, ir0>>
      BY <2>7 DEF SeeNode, sharedVars, dataVars, localVars
    <3>2. node_n \in Nat
      BY <3>1, <2>1, <1>1 DEF Placed, Serving
    <3>3. PICK label \in {"top", "compute", "draw", "end"} :
            /\ pc' = [pc EXCEPT ![t] = label]
            /\ label = "draw" => node_n \in Nodes /\ graph[node_n] = "mul_mat_sparse"
      BY <3>1, <3>2, <1>1, EnterDraws
    <3>4. /\ pc'[t] = label /\ at'[t] = node_n
          /\ \A u \in Threads \ {t} : pc'[u] = pc[u] /\ at'[u] = at[u]
      BY <3>1, <3>3, <1>1
    <3>5. \A u \in Threads : pc'[u] = "rows" => pc[u] = "rows"
      BY <3>4
    <3>6. MayDraw' \subseteq MayDraw
      BY <3>1, <3>4 DEF MayDraw
    <3>7. CanDraw' \subseteq CanDraw
      <4>1. SUFFICES ASSUME NEW u \in CanDraw' PROVE u \in CanDraw
        OBVIOUS
      <4>2. CASE u = t
        BY <4>1, <4>2, <3>1, <3>3, <3>4 DEF CanDraw
      <4>3. CASE u # t
        BY <4>1, <4>3, <3>1, <3>4 DEF CanDraw
      <4> QED BY <4>2, <4>3
    <3>8. aic' <= Bound(Past')
      BY <3>1, <3>6, <3>7, <1>1, DrawsKept
    <3> QED BY <3>1, <3>5, <3>8 DEF DrawInv
  <2>8. CASE ComputeSlice(t) \/ StoreSum(t) \/ LoadSum(t)
    <3>1. PICK label \in {"top", "store"} : pc' = [pc EXCEPT ![t] = label]
      BY <2>8 DEF ComputeSlice, StoreSum, LoadSum, Goto
    <3>2. /\ node_n' = node_n /\ label \in Labels \ {"draw", "rows"}
          /\ UNCHANGED <<graph, aborting, aic, ir0, at>>
      BY <2>8 DEF ComputeSlice, StoreSum, LoadSum, sharedVars, dataVars, localVars, Labels
    <3> QED BY <3>1, <3>2, <1>1, QuietDrawInv
  <2>9. CASE DrawRows(t)
    <3>1. /\ pc[t] = "draw" /\ aic' = aic + dr0 /\ node_n' = node_n
          /\ UNCHANGED <<graph, aborting, at>>
      BY <2>9 DEF DrawRows, sharedVars
    <3>2. CASE aic < NRows
      <4>1. pc' = [pc EXCEPT ![t] = "rows"] /\ ir0' = [ir0 EXCEPT ![t] = aic]
        BY <2>9, <3>2, <1>1 DEF DrawRows, Goto
      <4>2. /\ pc'[t] = "rows" /\ ir0'[t] = aic
            /\ \A u \in Threads \ {t} : pc'[u] = pc[u] /\ ir0'[u] = ir0[u]
        BY <4>1, <1>1
      <4>3. ASSUME NEW u \in Threads, pc'[u] = "rows" PROVE ir0'[u] + dr0 <= aic'
        <5>1. CASE u = t
          BY <5>1, <4>2, <3>1, <1>1
        <5>2. CASE u # t
          <6>1. ir0[u] + dr0 <= aic /\ ir0[u] \in Int
            BY <5>2, <4>2, <4>3, <1>1 DEF DrawInv, Rows
          <6> QED BY <6>1, <5>2, <4>2, <3>1, <1>1
        <5> QED BY <5>1, <5>2
      <4>4. CASE aic + dr0 < NRows
        <5>1. aic' <= NRows - 1
          BY <4>4, <3>1, <1>1
        <5>2. aic' <= Bound(Past')
          BY <5>1, <3>1, <1>1, DrawsKept
        <5> QED BY <4>3, <5>2 DEF DrawInv
      <4>5. CASE ~(aic + dr0 < NRows)
        <5>1. MayDraw' = MayDraw \ {t} /\ t \in MayDraw
          BY <3>1, <4>2, <4>5 DEF MayDraw
        <5>2. CanDraw' = CanDraw \ {t} /\ t \in CanDraw
          BY <3>1, <4>2, <4>5 DEF CanDraw
        <5>3. aic' <= Bound(Past')
          BY <5>1, <5>2, <3>1, <1>1, LastDraw
        <5> QED BY <4>3, <5>3 DEF DrawInv
      <4> QED BY <4>4, <4>5
    <3>3. CASE aic >= NRows
      <4>1. pc' = [pc EXCEPT ![t] = "top"] /\ ir0' = ir0
        BY <2>9, <3>3, <1>1 DEF DrawRows, Goto
      <4>2. pc'[t] = "top" /\ \A u \in Threads \ {t} : pc'[u] = pc[u]
        BY <4>1, <1>1
      <4>3. ASSUME NEW u \in Threads, pc'[u] = "rows" PROVE ir0'[u] + dr0 <= aic'
        <5>1. ir0[u] + dr0 <= aic /\ ir0[u] \in Int
          BY <4>2, <4>3, <1>1 DEF DrawInv, Rows
        <5> QED BY <5>1, <4>1, <3>1, <1>1
      <4>4. MayDraw' = MayDraw \ {t} /\ t \in MayDraw
        BY <3>1, <4>1, <4>2 DEF MayDraw
      <4>5. CanDraw' = CanDraw \ {t} /\ t \in CanDraw
        BY <3>1, <4>1, <4>2 DEF CanDraw
      <4>6. aic' <= Bound(Past')
        BY <4>4, <4>5, <3>1, <1>1, LastDraw
      <4> QED BY <4>3, <4>6 DEF DrawInv
    <3> QED BY <3>2, <3>3, <1>1
  <2>10. CASE ComputeRows(t)
    <3>1. /\ pc[t] = "rows" /\ node_n' = node_n /\ UNCHANGED <<graph, aborting, aic, ir0, at>>
          /\ pc' = [pc EXCEPT ![t] = IF ir0[t] + dr0 >= NRows THEN "top" ELSE "draw"]
      BY <2>10 DEF ComputeRows, Goto, sharedVars, localVars
    <3>2. /\ pc'[t] = IF ir0[t] + dr0 >= NRows THEN "top" ELSE "draw"
          /\ \A u \in Threads \ {t} : pc'[u] = pc[u]
      BY <3>1, <1>1
    <3>3. \A u \in Threads : pc'[u] = "rows" => ir0'[u] + dr0 <= aic'
      BY <3>1, <3>2 DEF DrawInv
    <3>4. ir0[t] \in Int
      BY <1>1 DEF Rows
    <3>5. MayDraw' = MayDraw
      BY <3>1, <3>2, <3>4, <1>1 DEF MayDraw
    <3>6. CanDraw' = CanDraw
      BY <3>1, <3>2, <3>4, <1>1 DEF CanDraw
    <3>7. aic' <= Bound(Past')
      BY <3>1, <3>5, <3>6, <1>1, DrawsKept
    <3> QED BY <3>3, <3>7 DEF DrawInv
  <2> QED BY <1>4, <2>2, <2>3, <2>4, <2>5, <2>6, <2>7, <2>8, <2>9, <2>10 DEF Thread
<1> QED BY <1>2, <1>3, <1>4 DEF Next

-----------------------------------------------------------------------------
\* A node whose output only grows stays done.
LEMMA DoneStays ==
  ASSUME NEW n \in Nodes, Done(n), graph' = graph, content[n] \subseteq content'[n],
         Junk \notin content[n] => Junk \notin content'[n]
  PROVE  Done(n)'
BY DEF Done, Parts, NTasks

\* A step of a thread after which nobody serves, and which changes no
\* output but that of the current node.
LEMMA WorkDataInv ==
  ASSUME IInv, DataInv, Current, NEW t \in Threads, NEW label \in Labels,
         pc' = [pc EXCEPT ![t] = label],
         label \notin {"serve", "activate", "publish"},
         \A u \in Threads : ~Serving(u),
         graph' = graph, node_n' = node_n,
         \A n \in Nodes : n < node_n => content'[n] = content[n],
         node_n \in Nodes => Underway(node_n)'
  PROVE  DataInv'
<1>1. pc \in [Threads -> Labels]
  BY DEF IInv, TypeInv
<1>2. \A u \in Threads : ~Serving(u)'
  BY <1>1 DEF Serving
<1>3. \A u \in Threads : Served(u)'
  BY <1>2 DEF Serving, Served
<1>4. \A n \in Nodes : n < node_n => Done(n)'
  BY DoneStays DEF Current
<1>5. Current'
  BY <1>4 DEF Current
<1> QED BY <1>3, <1>5 DEF DataInv

\* A step that leaves the data alone and by which no thread finishes, comes
\* to store a sum or leaves its rows.
LEMMA QuietUnderway ==
  ASSUME NEW n \in Nodes, Underway(n), graph' = graph, work_data' = work_data,
         content' = content, aic' = aic, ir0' = ir0, res' = res,
         \A u \in Threads : /\ Finished(u)' => Finished(u)
                            /\ pc'[u] = "store" => pc[u] = "store"
                            /\ pc[u] = "rows" => pc'[u] = "rows"
  PROVE  Underway(n)'
<1>1. Prepared(n)'
  BY DEF Underway, Prepared
<1>2. graph[n] = "axpy" => \A u \in Threads : pc'[u] = "store" => Junk \notin res'[u]
  BY DEF Underway
<1>3. graph[n] \in {"slices", "mul_mat"} => \A u \in Threads : Finished(u)' => u \in content'[n]
  BY DEF Underway
<1>4. graph[n] = "mul_mat_sparse" =>
        /\ \A u \in Threads : Finished(u)' => aic' >= NRows
        /\ \A r \in Rows : r < aic' =>
             \/ r \in content'[n]
             \/ \E u \in Threads : pc'[u] = "rows" /\ r \in RowsFrom(ir0'[u])
  BY DEF Underway
<1>5. \A u \in Threads : RowsFrom(ir0[u])' = RowsFrom(ir0'[u])
  BY DEF RowsFrom, Rows, dr0
<1> QED BY <1>1, <1>2, <1>3, <1>4, <1>5 DEF Underway

\* When every thread has finished the current node, it is done.
LEMMA AllFinished ==
  ASSUME GraphAssumption, PlaceInv, StoreInv, node_n \in Nodes, Underway(node_n),
         \A u \in Threads : Finished(u), Threads # {}
  PROVE  Done(node_n)
<1>1. graph[node_n] \in Ops \ {"single"}
  BY DEF Underway, Prepared, PlaceInv
<1>2. CASE graph[node_n] = "axpy"
  BY <1>2 DEF Underway, Prepared, Done
<1>3. CASE graph[node_n] \in {"slices", "mul_mat"}
  BY <1>3 DEF Underway, Done, Parts, NTasks, Threads
<1>4. CASE graph[node_n] = "mul_mat_sparse"
  <2>1. aic >= NRows
    BY <1>4 DEF Underway
  <2>2. \A u \in Threads : pc[u] # "rows"
    BY DEF Finished
  <2>3. \A r \in Rows : r < aic => r \in content[node_n]
    BY <1>4, <2>2 DEF Underway
  <2>4. aic \in Int /\ NRows \in Int /\ \A r \in Rows : r \in Int /\ r < NRows
    BY DEF Rows, GraphAssumption, StoreInv
  <2> QED BY <1>4, <2>1, <2>3, <2>4 DEF Done, Parts
<1> QED BY <1>1, <1>2, <1>3, <1>4 DEF Ops

\* The INIT pass leaves the nodes before it done, and prepares its own.
LEMMA InitNodeDone ==
  ASSUME StoreInv, NEW n \in Nodes, NEW c, InitNode(n, c), graph' = graph,
         \A k \in Nodes : k < n => Done(k)
  PROVE  /\ \A k \in Nodes : k < n => Done(k)'
         /\ graph[n] # "single" => Prepared(n)'
         /\ graph[n] = "mul_mat_sparse" => aic' = 0
         /\ graph[n] = "single" /\ Parts(graph[n]) \subseteq c => Done(n)'
<1>1. content \in [Nodes -> SUBSET (Int \cup {Junk})]
  BY DEF StoreInv
<1>2. content'[n] = IF graph[n] = "axpy" THEN {} ELSE c
  BY <1>1 DEF InitNode
<1>3. \A k \in Nodes : k # n => content'[k] = content[k]
  BY <1>1 DEF InitNode
<1>4. ASSUME NEW k \in Nodes, k < n PROVE Done(k)'
  <2>1. k # n
    BY <1>4 DEF Nodes
  <2> QED BY <1>3, <1>4, <2>1, DoneStays
<1>5. graph[n] # "single" => Prepared(n)'
  BY <1>2 DEF Prepared, InitNode
<1>6. graph[n] = "single" /\ Parts(graph[n]) \subseteq c => Done(n)'
  BY <1>2 DEF Done, Parts, NTasks
<1> QED BY <1>4, <1>5, <1>6 DEF InitNode

\* The steps of the thread that serves.
LEMMA ServerDataInv ==
  ASSUME GraphAssumption, IInv, PlaceInv, StoreInv, DataInv, NEW t \in Threads,
         ~aborting, Serve(t) \/ Activate(t)
  PROVE  DataInv'
<1>1. /\ pc \in [Threads -> Labels] /\ at \in [Threads -> Int]
      /\ graph \in [Nodes -> Ops] /\ NNodes \in Nat /\ NThreads \in Nat \ {0, 1}
      /\ \A n \in Nodes : n \in Int
  BY DEF IInv, TypeInv, PlaceInv, GraphAssumption, Nodes
<1>2. Served(t) /\ Placed(t) /\ Serving(t)
  BY DEF DataInv, PlaceInv, Serve, Activate, Serving
<1>3. \A u \in Threads \ {t} : pc[u] = "spin"
  BY <1>2 DEF IInv, ServerInv
<1>4. PICK label \in {"serve", "activate", "publish"} : pc' = [pc EXCEPT ![t] = label]
  BY DEF Serve, Activate, Goto
<1>5. pc'[t] = label /\ \A u \in Threads \ {t} : pc'[u] = "spin"
  BY <1>1, <1>3, <1>4
<1>6. Serving(t)' /\ \A u \in Threads \ {t} : Served(u)'
  BY <1>5 DEF Serving, Served
<1>7. Served(t)' => DataInv'
  BY <1>6 DEF DataInv
<1>8. CASE Activate(t)
  <2>0. PICK n \in Int : n = at[t]
    BY <1>1
  <2>1. /\ pc[t] = "activate" /\ pc'[t] = "publish" /\ at'[t] = n
        /\ graph' = graph /\ aic' = aic /\ work_data' = work_data /\ content' = content
    BY <1>1, <1>8, <2>0 DEF Activate, Goto, dataVars
  <2>2. \A k \in Nodes : Done(k) => Done(k)'
    BY <2>1, DoneStays
  <2>3. Prepared(n) => Prepared(n)'
    BY <2>1 DEF Prepared
  <2>4. Served(t)'
    BY <1>2, <2>0, <2>1, <2>2, <2>3 DEF Served
  <2> QED BY <1>7, <2>4
<1>9. CASE Serve(t)
  <2>0. PICK n \in Int : n = at[t] + 1
    BY <1>1
  <2>1. /\ pc[t] = "serve" /\ at'[t] = n /\ graph' = graph
        /\ at[t] \in -1..(NNodes - 1)
    BY <1>1, <1>2, <1>9, <2>0 DEF Serve, Placed
  <2>2. \A k \in Nodes : k < n => Done(k)
    BY <1>1, <1>2, <2>0, <2>1 DEF Served
  <2>3. CASE n >= NNodes
    <3>1. pc'[t] = "activate" /\ UNCHANGED dataVars
      BY <1>1, <1>9, <2>0, <2>3 DEF Serve, Goto
    <3>2. \A k \in Nodes : Done(k) => Done(k)'
      BY <2>1, <3>1, DoneStays DEF dataVars
    <3>3. n \notin Nodes
      BY <1>1, <2>3 DEF Nodes
    <3>4. Served(t)'
      BY <2>1, <2>2, <3>1, <3>2, <3>3 DEF Served
    <3> QED BY <1>7, <3>4
  <2>4. CASE ~(n >= NNodes)
    <3>1. n \in Nodes
      BY <1>1, <2>0, <2>1, <2>4 DEF Nodes
    <3>2. NTasks(graph[n]) = 1 <=> graph[n] = "single"
      BY <1>1 DEF NTasks
    <3>3. CASE graph[n] = "single"
      <4>1. InitNode(n, content[n] \cup Parts(graph[n])) /\ pc'[t] = "serve"
        BY <1>1, <1>9, <2>0, <2>4, <3>2, <3>3 DEF Serve, Goto
      <4>2. Done(n)' /\ \A k \in Nodes : k < n => Done(k)'
        BY <2>1, <2>2, <3>1, <3>3, <4>1, InitNodeDone
      <4>3. \A k \in Nodes : k <= n => k < n \/ k = n
        BY <1>1, <2>1
      <4>4. \A k \in Nodes : k <= at'[t] => Done(k)'
        BY <2>1, <4>2, <4>3
      <4>5. Served(t)'
        BY <4>1, <4>4 DEF Served
      <4> QED BY <1>7, <4>5
    <3>4. CASE graph[n] # "single"
      <4>1. InitNode(n, content[n]) /\ pc'[t] = "activate"
        BY <1>1, <1>9, <2>0, <2>4, <3>2, <3>4 DEF Serve, Goto
      <4>2. /\ \A k \in Nodes : k < n => Done(k)'
            /\ Prepared(n)' /\ (graph[n] = "mul_mat_sparse" => aic' = 0)
        BY <2>1, <2>2, <3>1, <3>4, <4>1, InitNodeDone
      <4>3. Served(t)'
        BY <2>1, <4>1, <4>2 DEF Served
      <4> QED BY <1>7, <4>3
    <3> QED BY <3>3, <3>4
  <2> QED BY <2>3, <2>4
<1> QED BY <1>8, <1>9

\* Every step keeps DataInv.
LEMMA NextDataInv ==
  ASSUME GraphAssumption, IInv, IInv', PlaceInv, StoreInv, DrawInv, DataInv, [Next]_vars
  PROVE  DataInv'
<1>1. /\ pc \in [Threads -> Labels] /\ at \in [Threads -> Int] /\ aborting \in BOOLEAN
      /\ node_n \in Int /\ NNodes \in Nat /\ NThreads \in Nat \ {0, 1}
      /\ graph \in [Nodes -> Ops]
  BY DEF IInv, TypeInv, GraphAssumption, PlaceInv
<1>0. /\ aic \in Nat /\ dr0 \in Nat /\ NRows \in Nat \ {0} /\ ir0 \in [Threads -> Rows]
      /\ content \in [Nodes -> SUBSET (Int \cup {Junk})]
      /\ res \in [Threads -> SUBSET (Threads \cup {Junk})]
      /\ \A n \in Nodes : n \in Int
      /\ \A u \in Threads : u # Junk
      /\ \A r \in Rows : r \in Nat /\ r < NRows
  BY ChunkIsNat DEF GraphAssumption, StoreInv, Nodes, Rows, Threads, Junk
<1>2. CASE UNCHANGED vars
  <2>1. \A n \in Nodes : Done(n)' <=> Done(n)
    BY <1>2 DEF vars, sharedVars, dataVars, localVars, Done
  <2>2. \A t \in Threads : (Served(t)' <=> Served(t)) /\ (Serving(t)' <=> Serving(t))
    BY <1>2, <2>1 DEF vars, sharedVars, dataVars, localVars, Served, Serving, Prepared
  <2>3. Current' <=> Current
    BY <1>2, <2>1 DEF vars, sharedVars, dataVars, localVars, Current, Underway, Prepared, Finished
  <2> QED BY <1>2, <2>2, <2>3 DEF vars, DataInv
<1>3. CASE Abort
  BY <1>3 DEF Abort, DataInv
<1>4. ASSUME NEW t \in Threads, Thread(t) PROVE DataInv'
  <2>1. aborting' = aborting /\ graph' = graph
    BY <1>4 DEF Thread, CheckAbort, Arrive, Serve, Activate, Publish, SeeNode, ComputeSlice,
                DrawRows, ComputeRows, LoadSum, StoreSum
  <2>2. SUFFICES ASSUME ~aborting PROVE DataInv'
    BY <2>1 DEF DataInv
  <2>3. Placed(t) /\ Served(t)
    BY <2>2 DEF PlaceInv, DataInv
  <2>4. ASSUME ~Serving(t), pc[t] # "spin"
        PROVE  /\ \A u \in Threads : ~Serving(u)
               /\ Current /\ at[t] = node_n
               /\ node_n \in Nodes => Underway(node_n)
    BY <2>2, <2>4, AtCurrent DEF DataInv, Current
  <2>5. CASE CheckAbort(t)
    <3>1. /\ pc[t] = "top" /\ pc' = [pc EXCEPT ![t] = "arrive"] /\ node_n' = node_n
          /\ UNCHANGED <<aic, work_data, content, at, ir0, res>>
      BY <2>2, <2>5 DEF CheckAbort, Goto, dataVars, localVars
    <3>2. \A u \in Threads : /\ Finished(u)' => Finished(u)
                             /\ pc'[u] = "store" => pc[u] = "store"
                             /\ pc[u] = "rows" => pc'[u] = "rows"
      BY <3>1, <1>1 DEF Finished
    <3>3. node_n \in Nodes => Underway(node_n)'
      BY <2>1, <2>4, <3>1, <3>2, QuietUnderway DEF Serving
    <3> QED BY <1>1, <2>1, <2>4, <3>1, <3>3, WorkDataInv DEF Serving, Labels
  <2>6. CASE Arrive(t)
    <3>1. PICK label \in {"serve", "spin"} :
            /\ pc[t] = "arrive" /\ pc' = [pc EXCEPT ![t] = label] /\ node_n' = node_n
            /\ UNCHANGED <<aic, work_data, content, at, ir0, res>>
      BY <2>6 DEF Arrive, Goto, dataVars, localVars
    <3>2. CASE label = "spin"
      <4>1. \A u \in Threads : /\ Finished(u)' => Finished(u)
                               /\ pc'[u] = "store" => pc[u] = "store"
                               /\ pc[u] = "rows" => pc'[u] = "rows"
        BY <3>1, <3>2, <1>1 DEF Finished
      <4>2. node_n \in Nodes => Underway(node_n)'
        BY <2>1, <2>4, <3>1, <4>1, QuietUnderway DEF Serving
      <4> QED BY <1>1, <2>1, <2>4, <3>1, <3>2, <4>2, WorkDataInv DEF Serving, Labels
    <3>3. CASE label = "serve"
      <4>1. pc'[t] = "serve" /\ \A u \in Threads \ {t} : pc'[u] = pc[u]
        BY <3>1, <3>3, <1>1
      <4>2. \A u \in Threads \ {t} : pc'[u] = "spin" /\ at'[u] = node_n'
        BY <4>1 DEF IInv, ServerInv, Serving
      <4>3. \A u \in Threads : Finished(u)
        BY <3>1, <4>1, <4>2 DEF Finished
      <4>4. at[t] = node_n /\ \A n \in Nodes : n < node_n => Done(n)
        BY <2>4, <3>1 DEF Serving, Current
      <4>5. node_n \in Nodes => Done(node_n)
        BY <2>4, <3>1, <4>3, AllFinished DEF Serving
      <4>6. \A n \in Nodes : n <= at[t] => Done(n)
        BY <4>4, <4>5, <1>0, <1>1
      <4>7. \A n \in Nodes : n <= at'[t] => Done(n)'
        BY <2>1, <3>1, <4>6, DoneStays
      <4>8. Served(t)' /\ Serving(t)' /\ \A u \in Threads \ {t} : Served(u)'
        BY <4>1, <4>2, <4>7 DEF Served, Serving
      <4> QED BY <4>8 DEF DataInv
    <3> QED BY <3>2, <3>3
  <2>7. CASE Serve(t) \/ Activate(t)
    BY <2>2, <2>7, ServerDataInv
  <2>8. CASE Publish(t)
    <3>0. PICK n \in Int : n = at[t]
      BY <1>1
    <3>1. /\ pc[t] = "publish" /\ node_n' = n /\ Enter(t, n)
          /\ UNCHANGED <<aic, work_data, content, at, ir0, res>>
      BY <2>8, <3>0 DEF Publish, dataVars, localVars
    <3>2. n \in Nat /\ n > node_n
      BY <3>0, <3>1, <2>3 DEF Placed, IInv, ServerInv, Serving
    <3>3. PICK label \in {"top", "compute", "draw", "end"} :
            /\ pc' = [pc EXCEPT ![t] = label]
            /\ n \in Nodes /\ graph[n] # "single" => label \in {"compute", "draw"}
      BY <3>1, <3>2, <1>1, EnterDraws
    <3>4. pc'[t] = label /\ \A u \in Threads \ {t} : pc'[u] = pc[u]
      BY <3>3, <1>1
    <3>5. \A u \in Threads \ {t} : pc'[u] = "spin" /\ at'[u] = node_n
      BY <3>1, <3>4 DEF IInv, ServerInv, Serving
    <3>6. \A u \in Threads : ~Serving(u)' /\ Served(u)'
      BY <3>4, <3>5 DEF Serving, Served
    <3>7. \A k \in Nodes : k < n => Done(k)'
      BY <2>1, <2>3, <3>0, <3>1, DoneStays DEF Served
    <3>8. ASSUME n \in Nodes PROVE Underway(n)'
      <4>1. Prepared(n) /\ (graph[n] = "mul_mat_sparse" => aic = 0)
        BY <2>3, <3>0, <3>1, <3>8 DEF Served
      <4>2. Prepared(n)'
        BY <2>1, <3>1, <4>1 DEF Prepared
      <4>3. label \in {"compute", "draw"}
        BY <3>3, <3>8, <4>1 DEF Prepared
      <4>4. \A u \in Threads : pc'[u] # "store" /\ ~Finished(u)'
        BY <3>1, <3>2, <3>4, <3>5, <4>3, <1>1 DEF Finished
      <4>5. graph[n] = "mul_mat_sparse" => \A r \in Rows : ~(r < aic')
        BY <4>1, <3>1, <1>0
      <4> QED BY <2>1, <4>2, <4>4, <4>5 DEF Underway
    <3> QED BY <3>1, <3>6, <3>7, <3>8 DEF DataInv, Current
  <2>9. CASE SeeNode(t)
    <3>0. PICK n \in Int : n = node_n
      BY <1>1
    <3>1. /\ pc[t] = "spin" /\ at[t] # n /\ node_n' = n /\ Enter(t, n)
          /\ at' = [at EXCEPT ![t] = n]
          /\ UNCHANGED <<aic, work_data, content, ir0, res>>
      BY <2>9, <3>0 DEF SeeNode, sharedVars, dataVars, localVars
    <3>2. (\A u \in Threads : ~Serving(u)) /\ Current
      BY <2>2, <3>0, <3>1, SpinningOnOld DEF DataInv
    <3>3. n \in Nat
      BY <3>0, <3>1, <2>3 DEF Placed, Serving
    <3>4. PICK label \in {"top", "compute", "draw", "end"} :
            /\ pc' = [pc EXCEPT ![t] = label]
            /\ n \in Nodes /\ graph[n] # "single" => label \in {"compute", "draw"}
      BY <3>1, <3>3, <1>1, EnterDraws
    <3>5. ASSUME n \in Nodes PROVE Underway(n)'
      <4>1. Underway(n)
        BY <3>0, <3>2, <3>5 DEF Current
      <4>2. label \in {"compute", "draw"}
        BY <3>4, <3>5, <4>1 DEF Underway, Prepared
      <4>3. \A u \in Threads : /\ Finished(u)' => Finished(u)
                               /\ pc'[u] = "store" => pc[u] = "store"
                               /\ pc[u] = "rows" => pc'[u] = "rows"
        BY <3>0, <3>1, <3>4, <4>2, <1>1 DEF Finished
      <4> QED BY <2>1, <3>1, <3>5, <4>1, <4>3, QuietUnderway
    <3>6. node_n \in Nodes => Underway(node_n)'
      BY <3>0, <3>1, <3>5
    <3> QED BY <2>1, <3>0, <3>1, <3>2, <3>4, <3>6, WorkDataInv DEF Labels
  <2>10. CASE ComputeSlice(t)
    <3>0. PICK n \in Nodes : n = at[t]
      BY <2>3, <2>10 DEF ComputeSlice, Placed, Working
    <3>1. /\ pc[t] = "compute" /\ graph[n] \notin {"axpy", "mul_mat_sparse"}
          /\ pc' = [pc EXCEPT ![t] = "top"]
          /\ content' = [content EXCEPT ![n] = content[n] \cup {t}]
          /\ UNCHANGED <<node_n, aic, work_data, at, ir0, res>>
      BY <2>3, <2>10, <3>0 DEF ComputeSlice, Goto, sharedVars, localVars, Placed
    <3>2. (\A u \in Threads : ~Serving(u)) /\ Current /\ n = node_n /\ Underway(n)
      BY <2>4, <3>0, <3>1 DEF Serving
    <3>3. content'[n] = content[n] \cup {t} /\ \A k \in Nodes : k # n => content'[k] = content[k]
      BY <3>1, <1>0
    <3>4. Prepared(n)'
      BY <2>1, <3>1, <3>2 DEF Underway, Prepared
    <3>5. \A u \in Threads \ {t} : Finished(u)' => Finished(u)
      BY <3>1, <1>1 DEF Finished
    <3>6. graph[n] \in {"slices", "mul_mat"}
      BY <3>1, <3>2, <1>1 DEF Underway, Prepared, Ops
    <3>7. \A u \in Threads : Finished(u)' => u \in content'[n]
      BY <3>2, <3>3, <3>5, <3>6 DEF Underway
    <3>8. Underway(n)'
      BY <2>1, <3>1, <3>4, <3>7 DEF Underway
    <3>9. \A k \in Nodes : k < node_n => content'[k] = content[k]
      BY <3>2, <3>3, <1>0
    <3> QED BY <2>1, <3>1, <3>2, <3>8, <3>9, WorkDataInv DEF Labels
  <2>11. CASE DrawRows(t)
    <3>0. PICK n \in Nodes : n = at[t]
      BY <2>3, <2>11 DEF DrawRows, Placed, Working
    <3>1. /\ pc[t] = "draw" /\ graph[n] = "mul_mat_sparse" /\ aic' = aic + dr0
          /\ UNCHANGED <<node_n, work_data, content, at, res>>
          /\ \/ aic < NRows /\ ir0' = [ir0 EXCEPT ![t] = aic] /\ pc' = [pc EXCEPT ![t] = "rows"]
             \/ aic >= NRows /\ ir0' = ir0 /\ pc' = [pc EXCEPT ![t] = "top"]
      BY <2>3, <2>11, <3>0 DEF DrawRows, Goto, sharedVars, Placed
    <3>2. (\A u \in Threads : ~Serving(u)) /\ Current /\ n = node_n /\ Underway(n)
      BY <2>4, <3>0, <3>1 DEF Serving
    <3>3. Prepared(n)'
      BY <2>1, <3>1, <3>2 DEF Underway, Prepared
    <3>4. \A u \in Threads \ {t} : /\ pc'[u] = pc[u] /\ ir0'[u] = ir0[u]
                                   /\ Finished(u)' => Finished(u)
      BY <3>1, <1>0, <1>1 DEF Finished
    <3>5. \A u \in Threads : Finished(u)' => aic' >= NRows
      <4>1. Finished(t)' => aic >= NRows
        BY <3>1, <1>1 DEF Finished
      <4>2. \A u \in Threads \ {t} : Finished(u)' => aic >= NRows
        BY <3>1, <3>2, <3>4 DEF Underway
      <4> QED BY <4>1, <4>2, <3>1, <1>0
    <3>6. ASSUME NEW r \in Rows, r < aic', r \notin content[n]
          PROVE  \E u \in Threads : pc'[u] = "rows" /\ r \in RowsFrom(ir0'[u])
      <4>1. CASE r < aic
        <5>1. PICK u \in Threads : pc[u] = "rows" /\ r \in RowsFrom(ir0[u])
          BY <3>1, <3>2, <3>6, <4>1 DEF Underway
        <5> QED BY <3>1, <3>4, <5>1
      <4>2. CASE ~(r < aic)
        <5>1. aic < NRows /\ aic <= r /\ r < aic + dr0
          BY <3>1, <3>6, <4>2, <1>0
        <5>2. pc'[t] = "rows" /\ ir0'[t] = aic
          BY <3>1, <5>1, <1>0, <1>1
        <5> QED BY <5>1, <5>2 DEF RowsFrom
      <4> QED BY <4>1, <4>2
    <3>7. \A u \in Threads : RowsFrom(ir0[u])' = RowsFrom(ir0'[u])
      BY DEF RowsFrom, Rows, dr0
    <3>8. Underway(n)'
      BY <2>1, <3>1, <3>3, <3>5, <3>6, <3>7 DEF Underway
    <3> QED BY <2>1, <3>1, <3>2, <3>8, WorkDataInv DEF Labels
  <2>12. CASE ComputeRows(t)
    <3>0. PICK n \in Nodes : n = at[t]
      BY <2>3, <2>12 DEF ComputeRows, Placed, Working
    <3>1. PICK label \in {"top", "draw"} :
            /\ pc[t] = "rows" /\ graph[n] = "mul_mat_sparse" /\ pc' = [pc EXCEPT ![t] = label]
            /\ label = "top" => ir0[t] + dr0 >= NRows
            /\ content' = [content EXCEPT ![n] = content[n] \cup RowsFrom(ir0[t])]
            /\ UNCHANGED <<node_n, aic, work_data, at, ir0, res>>
      BY <2>3, <2>12, <3>0 DEF ComputeRows, Goto, sharedVars, localVars, Placed
    <3>2. (\A u \in Threads : ~Serving(u)) /\ Current /\ n = node_n /\ Underway(n)
      BY <2>4, <3>0, <3>1 DEF Serving
    <3>3. /\ content'[n] = content[n] \cup RowsFrom(ir0[t])
          /\ \A k \in Nodes : k # n => content'[k] = content[k]
      BY <3>1, <1>0
    <3>4. Prepared(n)'
      BY <2>1, <3>1, <3>2 DEF Underway, Prepared
    <3>5. \A u \in Threads \ {t} : pc'[u] = pc[u] /\ (Finished(u)' => Finished(u))
      BY <3>1, <1>1 DEF Finished
    <3>6. \A u \in Threads : Finished(u)' => aic' >= NRows
      <4>1. ir0[t] + dr0 <= aic /\ ir0[t] \in Nat
        BY <3>1, <1>0 DEF DrawInv
      <4>2. Finished(t)' => label = "top"
        BY <3>1, <1>1 DEF Finished
      <4>3. Finished(t)' => aic >= NRows
        BY <3>1, <4>1, <4>2, <1>0
      <4>4. \A u \in Threads \ {t} : Finished(u)' => aic >= NRows
        BY <3>1, <3>2, <3>5 DEF Underway
      <4> QED BY <3>1, <4>3, <4>4
    <3>7. ASSUME NEW r \in Rows, r < aic', r \notin content'[n]
          PROVE  \E u \in Threads : pc'[u] = "rows" /\ r \in RowsFrom(ir0'[u])
      <4>1. PICK u \in Threads : pc[u] = "rows" /\ r \in RowsFrom(ir0[u])
        BY <3>1, <3>2, <3>3, <3>7 DEF Underway
      <4>2. u # t
        BY <3>3, <3>7, <4>1
      <4> QED BY <3>1, <3>5, <4>1, <4>2
    <3>8. \A u \in Threads : RowsFrom(ir0[u])' = RowsFrom(ir0'[u])
      BY DEF RowsFrom, Rows, dr0
    <3>9. Underway(n)'
      BY <2>1, <3>1, <3>4, <3>6, <3>7, <3>8 DEF Underway
    <3>10. \A k \in Nodes : k < node_n => content'[k] = content[k]
      BY <3>2, <3>3, <1>0
    <3> QED BY <2>1, <3>1, <3>2, <3>9, <3>10, WorkDataInv DEF Labels
  <2>13. CASE LoadSum(t)
    <3>0. PICK n \in Nodes : n = at[t]
      BY <2>3, <2>13 DEF LoadSum, Placed, Working
    <3>1. /\ pc[t] = "compute" /\ graph[n] = "axpy" /\ pc' = [pc EXCEPT ![t] = "store"]
          /\ res' = [res EXCEPT ![t] = content[n]]
          /\ UNCHANGED <<node_n, aic, work_data, content, at, ir0>>
      BY <2>13, <3>0 DEF LoadSum, Goto, sharedVars, dataVars
    <3>2. (\A u \in Threads : ~Serving(u)) /\ Current /\ n = node_n /\ Underway(n)
      BY <2>4, <3>0, <3>1 DEF Serving
    <3>3. Prepared(n)'
      BY <2>1, <3>1, <3>2 DEF Underway, Prepared
    <3>4. \A u \in Threads : pc'[u] = "store" => Junk \notin res'[u]
      BY <3>1, <3>2, <1>0, <1>1 DEF Underway, Prepared
    <3>5. Underway(n)'
      BY <2>1, <3>1, <3>3, <3>4 DEF Underway
    <3> QED BY <2>1, <3>1, <3>2, <3>5, WorkDataInv DEF Labels
  <2>14. CASE StoreSum(t)
    <3>0. PICK n \in Nodes : n = at[t]
      BY <2>3, <2>14 DEF StoreSum, Placed, Working
    <3>1. /\ pc[t] = "store" /\ graph[n] = "axpy" /\ pc' = [pc EXCEPT ![t] = "top"]
          /\ content' = [content EXCEPT ![n] = res[t] \cup {t}]
          /\ UNCHANGED <<node_n, aic, work_data, at, ir0, res>>
      BY <2>3, <2>14, <3>0 DEF StoreSum, Goto, sharedVars, localVars, Placed
    <3>2. (\A u \in Threads : ~Serving(u)) /\ Current /\ n = node_n /\ Underway(n)
      BY <2>4, <3>0, <3>1 DEF Serving
    <3>3. content'[n] = res[t] \cup {t} /\ \A k \in Nodes : k # n => content'[k] = content[k]
      BY <3>1, <1>0
    <3>4. Junk \notin content'[n]
      BY <3>1, <3>2, <3>3, <1>0 DEF Underway
    <3>5. Prepared(n)'
      BY <2>1, <3>1, <3>2, <3>4 DEF Underway, Prepared
    <3>6. \A u \in Threads : pc'[u] = "store" => Junk \notin res'[u]
      BY <3>1, <3>2, <1>1 DEF Underway
    <3>7. Underway(n)'
      BY <2>1, <3>1, <3>5, <3>6 DEF Underway
    <3>8. \A k \in Nodes : k < node_n => content'[k] = content[k]
      BY <3>2, <3>3, <1>0
    <3> QED BY <2>1, <3>1, <3>2, <3>7, <3>8, WorkDataInv DEF Labels
  <2> QED BY <1>4, <2>5, <2>6, <2>7, <2>8, <2>9, <2>10, <2>11, <2>12, <2>13, <2>14 DEF Thread
<1> QED BY <1>2, <1>3, <1>4 DEF Next

-----------------------------------------------------------------------------
(* The theorems.                                                           *)

WholeInv == IInv /\ PlaceInv /\ StoreInv /\ DrawInv /\ DataInv

LEMMA InitWholeInv == Init => WholeInv
BY GraphAssumptionHolds, InitIInv, InitPlaceInv, InitStoreInv, InitDataInv DEF WholeInv

LEMMA NextWholeInv == WholeInv /\ [Next]_vars => WholeInv'
<1> SUFFICES ASSUME WholeInv, [Next]_vars PROVE WholeInv'
  OBVIOUS
<1>1. IInv /\ PlaceInv /\ StoreInv /\ DrawInv /\ DataInv
  BY DEF WholeInv
<1>2. IInv'
  BY <1>1, NextIInv, GraphAssumptionHolds
<1>3. PlaceInv' /\ StoreInv'
  BY <1>1, <1>2, NextPlaceInv, NextStoreInv, GraphAssumptionHolds
<1>4. DrawInv' /\ DataInv'
  BY <1>1, <1>2, <1>3, NextDrawInv, NextDataInv, GraphAssumptionHolds
<1> QED BY <1>2, <1>3, <1>4 DEF WholeInv

LEMMA WholeInvHolds == Spec => []WholeInv
BY InitWholeInv, NextWholeInv, PTL DEF Spec

\* For any number of threads, nodes and rows: a thread that prepares a node
\* in ggml_graph_compute_thread is alone, whenever the caller aborts.
THEOREM ServesAloneHolds == Spec => []ServesAlone
<1>1. WholeInv => ServesAlone
  BY DEF WholeInv, IInv, ServerInv, ServesAlone, Serving
<1> QED BY <1>1, WholeInvHolds, PTL

\* For any number of threads, nodes and rows the variables of the executor
\* stay in their ranges: n_active never goes below 0 nor above the number
\* of threads, node_n runs past the end by at most one per thread that
\* aborts, and aic past the last row by at most a chunk per thread, twice
\* that when the caller aborts.
THEOREM TypeCorrect == Spec => []TypeOK
<1>1. ASSUME WholeInv PROVE TypeOK
  <2>1. IInv /\ PlaceInv /\ StoreInv /\ DrawInv
    BY <1>1 DEF WholeInv
  <2>2. NThreads \in Nat /\ NNodes \in Nat /\ NRows \in Nat \ {0} /\ dr0 \in Nat
    BY ChunkIsNat, GraphAssumptionHolds DEF GraphAssumption
  <2>3. Cardinality(Aborted) \in 0..NThreads /\ Cardinality(Owing) \in 0..NThreads
        /\ Cardinality(Arriving) \in 0..NThreads
    BY ThreadSets, GraphAssumptionHolds DEF Aborted, Owing, Arriving
  <2>4. node_n \in -1..(NNodes + NThreads)
    BY <2>1, <2>2, <2>3 DEF IInv, TypeInv, PlaceInv
  <2>5. n_active \in 0..NThreads
    <3>1. n_active \in Int /\ n_active <= NThreads
      BY <2>1 DEF IInv, TypeInv, PlaceInv
    <3>2. CASE \E t \in Threads : Serving(t)
      BY <2>1, <2>2, <3>2 DEF IInv, ServerInv
    <3>3. CASE (\A t \in Threads : ~Serving(t)) /\ ~SomeAborted
      BY <2>1, <2>3, <3>3 DEF IInv, CountInv
    <3>4. CASE SomeAborted
      BY <2>1, <2>3, <3>1, <3>4 DEF IInv, AbortInv
    <3> QED BY <2>2, <3>1, <3>2, <3>3, <3>4
  <2>6. aic \in 0..(NRows - 1 + (IF aborting THEN 2 ELSE 1) * NThreads * dr0)
    <3> DEFINE k == (IF aborting THEN 2 ELSE 1) * NThreads
    <3>1. Past \in Nat /\ Past <= k /\ k \in Nat
      BY <2>2, DrawCounts, GraphAssumptionHolds DEF Past
    <3> HIDE DEF k
    <3>2. Bound(Past) <= Bound(k) /\ Bound(Past) \in Int /\ Bound(k) \in Int
      BY <3>1, BoundGrows, GraphAssumptionHolds
    <3>3. aic \in Nat /\ aic <= Bound(k)
      BY <2>1, <3>2 DEF DrawInv, StoreInv
    <3>4. aic \in 0..(NRows - 1 + k * dr0)
      BY <2>2, <3>2, <3>3 DEF Bound
    <3> QED BY <3>4 DEF k
  <2>7. at \in [Threads -> -1..(NNodes + NThreads)]
    <3>1. at \in [Threads -> Int] /\ pc \in [Threads -> Labels]
      BY <2>1 DEF IInv, TypeInv
    <3>2. ASSUME NEW t \in Threads PROVE at[t] \in -1..(NNodes + NThreads)
      <4>1. Placed(t) /\ at[t] \in Int
        BY <2>1, <3>1 DEF PlaceInv
      <4>2. CASE pc[t] \in {"top", "arrive", "serve", "spin", "aborted", "activate", "publish"}
        BY <2>2, <4>1, <4>2 DEF Placed
      <4>3. CASE Working(t)
        BY <2>2, <4>1, <4>3 DEF Placed, Nodes
      <4>4. CASE pc[t] = "end"
        BY <2>2, <2>4, <4>1, <4>4 DEF Placed, Serving
      <4> QED BY <3>1, <4>2, <4>3, <4>4 DEF Labels, Working
    <3> QED BY <3>1, <3>2
  <2>8. \A t \in Threads : res[t] \subseteq Threads \cup {Junk}
    BY <2>1 DEF StoreInv
  <2> QED BY <2>1, <2>4, <2>5, <2>6, <2>7, <2>8
          DEF TypeOK, IInv, TypeInv, PlaceInv, StoreInv, Labels
<1> QED BY <1>1, WholeInvHolds, PTL

\* For any number of threads, nodes, rows and chunks, unless the caller
\* aborts: a thread that works on a node finds every node before it
\* computed and its own input in the work buffer, and no thread ends before
\* every node is computed, although all share one counter and one buffer.
THEOREM InputsReadyHolds == Spec => []InputsReady
<1>1. ASSUME WholeInv PROVE InputsReady
  <2>1. IInv /\ PlaceInv /\ DataInv
    BY <1>1 DEF WholeInv
  <2>2. SUFFICES ASSUME ~aborting, NEW t \in Threads, Working(t) \/ pc[t] = "end"
                 PROVE  /\ \A n \in Nodes : n < at[t] => Settled(n)
                        /\ Working(t) /\ graph[at[t]] \in Quantizing => work_data = at[t]
    BY DEF InputsReady
  <2>3. (\A u \in Threads : ~Serving(u)) /\ at[t] = node_n
    BY <2>1, <2>2, AtCurrent DEF Working, Serving
  <2>4. Current
    BY <2>1, <2>2, <2>3 DEF DataInv
  <2>5. \A u \in Threads : Working(u) => at[u] = node_n
    BY <2>1, <2>2, AtCurrent DEF Working, Serving
  <2>6. ASSUME NEW n \in Nodes, n < at[t] PROVE Settled(n)
    <3>1. Done(n)
      BY <2>3, <2>4, <2>6 DEF Current
    <3>2. n # node_n
      BY <2>3, <2>6 DEF Nodes
    <3> QED BY <2>5, <3>1, <3>2 DEF Done, Settled
  <2>7. Working(t) /\ graph[at[t]] \in Quantizing => work_data = at[t]
    <3>1. Working(t) => node_n \in Nodes
      BY <2>1, <2>3 DEF PlaceInv, Placed
    <3> QED BY <2>3, <2>4, <3>1 DEF Current, Underway, Prepared
  <2> QED BY <2>6, <2>7
<1> QED BY <1>1, WholeInvHolds, PTL
=============================================================================
