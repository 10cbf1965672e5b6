------------------------------ MODULE MinHeap ------------------------------
(***************************************************************************)
(* The array heap of the scheduler package on its own: every sequence of    *)
(* push and pop (SchedulerQueues) over nodes with unique ids, as the tasks  *)
(* of a queue have, and the priority queue it implements.                   *)
(***************************************************************************)
EXTENDS SchedulerQueues

CONSTANT Node   \* the nodes that may be pushed

ASSUME NodeAssumption == Node \subseteq [sort : Int, id : Nat]

VARIABLES
  array,    \* the heap
  popped    \* the node that the last step took out, if any

heapVars == <<array, popped>>

InHeap == {array[i] : i \in DOMAIN array}

HeapInit == array = <<>> /\ popped = {}

PushNode(node) ==
  /\ \A other \in InHeap : other.id # node.id
  /\ array' = Push(array, node)
  /\ popped' = {}

PopNode ==
  /\ array # <<>>
  /\ array' = Pop(array)
  /\ popped' = {Peek(array)}

HeapNext == PopNode \/ \E node \in Node : PushNode(node)

HeapSpec == HeapInit /\ [][HeapNext]_heapVars
-----------------------------------------------------------------------------
Queue == INSTANCE PriorityQueue WITH elements <- InHeap

(***************************************************************************)
(* No node is lost or duplicated, and the node popped is always the least:  *)
(* the array heap implements the priority queue, also for equal sort        *)
(* indices (push and pop of scheduler.development.js).                      *)
(***************************************************************************)
HeapIsPriorityQueue == Queue!Spec
=============================================================================
