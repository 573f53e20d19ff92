----------------------------- MODULE MCGraphAlloc -----------------------------
(***************************************************************************)
(* The instance of GraphAlloc that TLC checks.                             *)
(***************************************************************************)
EXTENDS GraphAlloc

MCStarts ==
    { [leafs |-> <<Leaf("input", 3), Leaf("input", 1), Leaf("input", 1)>>, nodes |-> 3, unread |-> 1],
      [leafs |-> <<Leaf("weight", 3), Leaf("input", 3)>>, nodes |-> 3, unread |-> 0],
      [leafs |-> <<Leaf("input", 3)>>, nodes |-> 4, unread |-> 0] }
=============================================================================
