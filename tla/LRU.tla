-------------------------------- MODULE LRU --------------------------------
(***************************************************************************)
(* The recency list of libaz/az/core/lru.cpp, seen from outside: a         *)
(* sequence of distinct nodes, the most recently used one first.  The      *)
(* circular doubly linked list behind it (list.hpp) is not visible here.   *)
(***************************************************************************)
EXTENDS Integers, Sequences

\* LRU::add with at_head = true: the node becomes the most recent one.
Add(list, node) == <<node>> \o list

\* LRU::evict: the node before the list head, the least recent one, leaves.
Oldest(list) == list[Len(list)]
Evict(list)  == SubSeq(list, 1, Len(list) - 1)

\* Where a node of the list stands.
Position(list, node) == CHOOSE i \in 1..Len(list) : list[i] = node

\* Mutant of Promote: the node stays where it is.
NoPromote(list, node) == list

\* LRU::promote: detach the node and link it at the head; the nodes that
\* stood before it move one place down, the others stay.
Promote(list, node) ==
    LET p == Position(list, node)
    IN  [i \in 1..Len(list) |-> IF i = 1 THEN node
                                ELSE IF i <= p THEN list[i - 1]
                                ELSE list[i]]

Members(list) == {list[i] : i \in 1..Len(list)}

\* No node stands in the list twice.
Distinct(list) == \A i, j \in 1..Len(list) : list[i] = list[j] => i = j

\* The nodes of T, and no others, stand first.
Leads(list, T) ==
    \A i, j \in 1..Len(list) : i <= j /\ list[j] \in T => list[i] \in T
=============================================================================
