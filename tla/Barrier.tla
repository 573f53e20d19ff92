------------------------------ MODULE Barrier ------------------------------
(***************************************************************************)
(* What a reusable barrier promises the threads of a compute pool: a       *)
(* thread leaves its k-th wait only after every thread has entered its     *)
(* k-th wait.  SpinBarrier (az::SpinBarrier) is shown to implement this    *)
(* module; of the std::barrier that the LM head's graphs share LmHead      *)
(* shows that same promise as an invariant, ReturnsTogether.               *)
(***************************************************************************)
EXTENDS Naturals

CONSTANT Threads

VARIABLES
    waits,   \* how many waits each thread has entered since the last start
    inside   \* the threads inside a wait

vars == <<waits, inside>>

Init ==
    /\ waits = [t \in Threads |-> 0]
    /\ inside = {}

Enter(t) ==
    /\ t \notin inside
    /\ inside' = inside \cup {t}
    /\ waits' = [waits EXCEPT ![t] = @ + 1]

Leave(t) ==
    /\ t \in inside
    /\ \A s \in Threads : waits[s] >= waits[t]
    /\ inside' = inside \ {t}
    /\ UNCHANGED waits

\* The barrier is set up anew while no thread uses it.
Restart ==
    /\ inside = {}
    /\ waits' = [t \in Threads |-> 0]
    /\ UNCHANGED inside

Next == Restart \/ \E t \in Threads : Enter(t) \/ Leave(t)

Spec == Init /\ [][Next]_vars
=============================================================================
