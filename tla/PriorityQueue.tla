--------------------------- MODULE PriorityQueue ---------------------------
(***************************************************************************)
(* What the heaps of the scheduler package promise: a set of nodes whose    *)
(* least node, by sort index and then by id, is the one that leaves.        *)
(***************************************************************************)
EXTENDS Integers

CONSTANT Node

VARIABLES elements, popped

(***************************************************************************)
(* compare (scheduler.development.js): by sortIndex, ties by id.            *)
(***************************************************************************)
Precedes(a, b) == a.sort < b.sort \/ (a.sort = b.sort /\ a.id < b.id)

Least(S) == CHOOSE a \in S : \A b \in S \ {a} : Precedes(a, b)

Init ==
  /\ elements = {}
  /\ popped = {}

Insert(node) ==
  /\ node \notin elements
  /\ elements' = elements \cup {node}
  /\ popped' = {}

Remove ==
  /\ elements # {}
  /\ elements' = elements \ {Least(elements)}
  /\ popped' = {Least(elements)}

Next == Remove \/ \E node \in Node : Insert(node)

Spec == Init /\ [][Next]_<<elements, popped>>
=============================================================================
