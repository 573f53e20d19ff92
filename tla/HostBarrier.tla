---------------------------- MODULE HostBarrier ----------------------------
(***************************************************************************)
(* hack_global_barrier (interface_host.cpp): one std::barrier of 256       *)
(* parties for the life of the process, although a graph is computed by    *)
(* nth threads and nth may differ from graph to graph.  Thread 0 arrives   *)
(* for the parties that do not exist.  Neither expected nor phase is set   *)
(* anew between graphs.                                                    *)
(***************************************************************************)
EXTENDS Integers

CONSTANTS
    MaxThreads,  \* the largest number of compute threads
    Parties,     \* what the barrier is constructed with: 256
    Phases       \* how many phases in a row an arrival token tells apart

HostAssumption ==
    /\ MaxThreads \in Nat \ {0} /\ Parties \in Nat /\ Phases \in Nat
    /\ MaxThreads <= Parties /\ Phases >= 2

ASSUME HostAssumptionHolds == HostAssumption

Threads == 0..(MaxThreads - 1)

VARIABLES
    nth,       \* how many threads compute the current graph
    expected,  \* the arrivals that are still missing in the current phase
    phase,     \* the current phase
    token,     \* the phase each thread has arrived in
    inside,    \* the threads in arrive_and_wait
    waits      \* history: how many waits each thread has begun in this graph

barrierVars == <<nth, expected, phase, token, inside, waits>>

Active == 0..(nth - 1)

\* Mutant: thread 0 does not count itself.
barrier_countOfOthers(t) == IF t = 0 THEN Parties - nth ELSE 1

\* Mutant: thread 0 counts a party too many.
barrier_countTooMany(t) == IF t = 0 THEN Parties - nth + 2 ELSE 1

\* For how many parties a thread arrives.
barrier_count(t) == IF t = 0 THEN Parties - nth + 1 ELSE 1

\* The process starts.
NewBarrier ==
    /\ nth \in 1..MaxThreads
    /\ expected = Parties /\ phase = 0
    /\ token = [t \in Threads |-> 0]
    /\ inside = {}
    /\ waits = [t \in Threads |-> 0]

\* A graph for n threads starts; the barrier is left as it is.
NewGraph(n) ==
    /\ nth' = n
    /\ waits' = [t \in Threads |-> 0]
    /\ UNCHANGED <<expected, phase, token, inside>>

\* Mutant: the last arrival does not set the count up for the next phase.
ArriveOnce(t) ==
    /\ t \notin inside
    /\ inside' = inside \cup {t}
    /\ token' = [token EXCEPT ![t] = phase]
    /\ waits' = [waits EXCEPT ![t] = @ + 1]
    /\ expected' = expected - barrier_count(t)
    /\ phase' = IF expected' = 0 THEN (phase + 1) % Phases ELSE phase
    /\ UNCHANGED nth

\* arrive(barrier_count): takes a token of the phase; the last arrival ends
\* the phase and sets the count up for the next.
Arrive(t) ==
    /\ t \notin inside
    /\ inside' = inside \cup {t}
    /\ token' = [token EXCEPT ![t] = phase]
    /\ waits' = [waits EXCEPT ![t] = @ + 1]
    /\ \/ /\ barrier_count(t) = expected
          /\ expected' = Parties /\ phase' = (phase + 1) % Phases
       \/ /\ barrier_count(t) # expected
          /\ expected' = expected - barrier_count(t)
          /\ UNCHANGED phase
    /\ UNCHANGED nth

\* wait(token) returns once the phase of the token is over.
Return(t) ==
    /\ t \in inside
    /\ token[t] # phase
    /\ inside' = inside \ {t}
    /\ UNCHANGED <<nth, expected, phase, token, waits>>
=============================================================================
