---------------------------- MODULE SpinBarrier ----------------------------
(***************************************************************************)
(* az::SpinBarrier (libaz/az/core/spin_barrier.cpp): one atomic counter    *)
(* that is never reset between generations.  A thread that draws the       *)
(* number c spins until the counter reaches the next multiple of the width *)
(* above c.  The context sets the barrier up before each graph it runs,    *)
(* with the number of threads of that graph.                               *)
(***************************************************************************)
EXTENDS Integers, FiniteSets

CONSTANTS
    Threads,    \* the compute threads of the graph
    MaxWaits    \* bound: how often a thread waits in one graph

SpinAssumption ==
    /\ IsFiniteSet(Threads) /\ Threads # {}
    /\ MaxWaits \in Nat

ASSUME SpinAssumptionHolds == SpinAssumption

VARIABLES
    width,    \* SpinBarrier::width
    count,    \* SpinBarrier::count
    target,   \* local variable of each thread's call of wait
    inside,   \* the threads inside wait
    waits     \* history: how many waits each thread has entered

vars == <<width, count, target, inside, waits>>

TypeOK ==
    /\ width \in Nat \ {0} /\ count \in Nat
    /\ target \in [Threads -> Nat]
    /\ inside \in SUBSET Threads
    /\ waits \in [Threads -> Nat]

Init ==
    /\ width = Cardinality(Threads)
    /\ count = 0
    /\ target = [t \in Threads |-> 0]
    /\ inside = {}
    /\ waits = [t \in Threads |-> 0]

\* Mutant: the end of the generation before the one the thread has entered.
EnterOldGeneration(t) ==
    /\ t \notin inside /\ waits[t] < MaxWaits
    /\ count' = count + 1
    /\ target' = [target EXCEPT ![t] = (count \div width) * width]
    /\ inside' = inside \cup {t}
    /\ waits' = [waits EXCEPT ![t] = @ + 1]
    /\ UNCHANGED width

\* Mutant: waits for as many arrivals as there are threads after its own.
EnterFromOwn(t) ==
    /\ t \notin inside /\ waits[t] < MaxWaits
    /\ count' = count + 1
    /\ target' = [target EXCEPT ![t] = count + width]
    /\ inside' = inside \cup {t}
    /\ waits' = [waits EXCEPT ![t] = @ + 1]
    /\ UNCHANGED width

\* wait, up to its loop: the fetch_add is the only shared access.
Enter(t) ==
    /\ t \notin inside /\ waits[t] < MaxWaits
    /\ count' = count + 1
    /\ target' = [target EXCEPT ![t] = (count \div width + 1) * width]
    /\ inside' = inside \cup {t}
    /\ waits' = [waits EXCEPT ![t] = @ + 1]
    /\ UNCHANGED width

\* The load that ends the loop of wait.
Leave(t) ==
    /\ t \in inside
    /\ count >= target[t]
    /\ inside' = inside \ {t}
    /\ UNCHANGED <<width, count, target, waits>>

\* Mutant: a thread count of zero reaches init.
RestartNoWidth ==
    /\ inside = {}
    /\ \A s, t \in Threads : waits[s] = waits[t]
    /\ width' = 0
    /\ count' = 0
    /\ waits' = [t \in Threads |-> 0]
    /\ UNCHANGED <<target, inside>>

\* init before the next graph, once every thread has finished this one.
Restart ==
    /\ inside = {}
    /\ \A s, t \in Threads : waits[s] = waits[t]
    /\ width' = Cardinality(Threads)
    /\ count' = 0
    /\ waits' = [t \in Threads |-> 0]
    /\ UNCHANGED <<target, inside>>

Next == Restart \/ \E t \in Threads : Enter(t) \/ Leave(t)

Spec == Init /\ [][Next]_vars

\* Every thread of the pool keeps running: it enters the waits of its graph
\* and evaluates the loop condition again and again.
Fairness == \A t \in Threads : WF_vars(Enter(t)) /\ WF_vars(Leave(t))

FairSpec == Spec /\ Fairness

-----------------------------------------------------------------------------
(* Properties.                                                             *)

\* The spin barrier is a barrier: whatever the interleaving of arrivals,
\* late leavers and threads that are already in the next wait.
Abstract == INSTANCE Barrier
BarrierSpec == Abstract!Spec

\* A thread inside wait leaves it: a late reader of the counter is not
\* trapped by the arrivals of the next generation.
WaitEnds == \A t \in Threads : t \in inside ~> t \notin inside

\* What makes it work: in generation g = count \div width every thread has
\* entered g or g + 1 waits, count % width threads g + 1; a thread that is
\* out has left the g-th; one that is inside spins for the end of its own.
Generation == count \div width
Arrived    == {t \in Threads : waits[t] = Generation + 1}

GenerationInv ==
    /\ width = Cardinality(Threads)
    /\ count = Generation * width + Cardinality(Arrived)
    /\ Cardinality(Arrived) < width
    /\ \A t \in Threads :
         /\ waits[t] \in {Generation, Generation + 1}
         /\ t \notin inside => waits[t] = Generation
         /\ t \in inside => target[t] = waits[t] * width
=============================================================================
