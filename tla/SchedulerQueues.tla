-------------------------- MODULE SchedulerQueues --------------------------
(***************************************************************************)
(* Task objects and the two queues of the scheduler package, shared by the  *)
(* browser scheduler (TaskScheduler) and the mock one (MockScheduler).      *)
(*                                                                         *)
(* q is a record [tasks, taskQueue, timerQueue].  tasks[id] is the task     *)
(* object; its callback is a Boolean, FALSE once it was taken or cancelled. *)
(* The queues are array heaps of nodes [sort, id] (push, peek, pop and      *)
(* compare).  Index 1 is heap[0]; the parent of i is i \div 2.  A node      *)
(* keeps the sort index it was pushed with.                                 *)
(***************************************************************************)
EXTENDS Integers, Sequences

CONSTANT Timeout   \* expiration delay by priority level; -1, 250, 5000, ... in the code

ASSUME TimeoutAssumption ==
  /\ DOMAIN Timeout = 1..5
  /\ \A p \in DOMAIN Timeout : Timeout[p] \in Nat \cup {-1}

Compare(a, b) == a.sort < b.sort \/ (a.sort = b.sort /\ a.id < b.id)

(***************************************************************************)
(* push: the node climbs from the new last place past every parent it       *)
(* precedes, each of which moves down one place.                            *)
(***************************************************************************)
Push(heap, node) ==
  LET n == Len(heap) + 1
      climb[i \in 1..n] ==
        IF i > 1 /\ Compare(node, heap[i \div 2])
        THEN [climb[i \div 2] EXCEPT ![i] = heap[i \div 2]]
        ELSE [Append(heap, node) EXCEPT ![i] = node]
  IN  climb[n]

Peek(heap) == heap[1]

(***************************************************************************)
(* pop: the last node sinks from the root, swapping with its lesser child   *)
(* as long as that child precedes it.                                       *)
(***************************************************************************)
\* Seeded fault: the sinking node only looks at its left child.
LeftChild(heap, last, i, n) ==
  IF 2 * i <= n /\ Compare(heap[2 * i], last) THEN 2 * i ELSE 0

SinkTarget(heap, last, i, n) ==
  LET left == 2 * i
      right == 2 * i + 1
  IN  IF left > n THEN 0
      ELSE IF Compare(heap[left], last)
      THEN IF right <= n /\ Compare(heap[right], heap[left]) THEN right ELSE left
      ELSE IF right <= n /\ Compare(heap[right], last) THEN right ELSE 0

Pop(heap) ==
  LET n    == Len(heap) - 1
      last == heap[n + 1]
      rest == SubSeq(heap, 1, n)
      sink[i \in 1..n] ==
        LET child == SinkTarget(rest, last, i, n)
        IN  IF child = 0 THEN [rest EXCEPT ![i] = last]
            ELSE [sink[child] EXCEPT ![i] = rest[child]]
  IN  IF n = 0 THEN <<>> ELSE sink[1]

-----------------------------------------------------------------------------
NormalPriority == 3

NoQueues == [tasks |-> <<>>, taskQueue |-> <<>>, timerQueue |-> <<>>]

Entry(sort, id) == [sort |-> sort, id |-> id]

(***************************************************************************)
(* The task object of unstable_scheduleCallback and the queue it goes to.   *)
(* A positive delay makes it a timer, sorted by its start.                  *)
(***************************************************************************)
NewTask(priority, start) ==
  [priority |-> priority, start |-> start, expiration |-> start + Timeout[priority],
   callback |-> TRUE]

Enqueued(q, task, now) ==
  LET id == Len(q.tasks) + 1
  IN  IF task.start > now
      THEN [q EXCEPT !.tasks = Append(@, task), !.timerQueue = Push(@, Entry(task.start, id))]
      ELSE [q EXCEPT !.tasks = Append(@, task), !.taskQueue = Push(@, Entry(task.expiration, id))]

(***************************************************************************)
(* One round of advanceTimers: a cancelled timer is dropped, a due one      *)
(* becomes a task.                                                          *)
(***************************************************************************)
\* Seeded fault: a timer is due only after its start time.
DueLate(timer, time) == timer.start < time

Due(timer, time) == timer.start <= time

AdvanceTimer(q, time) ==
  LET first == Peek(q.timerQueue)
      timer == q.tasks[first.id]
  IN  IF q.timerQueue = <<>> THEN q
      ELSE IF ~ timer.callback THEN [q EXCEPT !.timerQueue = Pop(@)]
      ELSE IF Due(timer, time)
      THEN [q EXCEPT !.timerQueue = Pop(@),
                     !.taskQueue = Push(@, Entry(timer.expiration, first.id))]
      ELSE q

AdvanceTimers(q, time) ==
  LET round[n \in 0..Len(q.timerQueue)] ==
        IF n = 0 THEN q ELSE AdvanceTimer(round[n - 1], time)
  IN  round[Len(q.timerQueue)]

(***************************************************************************)
(* unstable_cancelCallback leaves the task where it is.                     *)
(***************************************************************************)
Cancelled(q, id) == [q EXCEPT !.tasks[id].callback = FALSE]

(***************************************************************************)
(* The task a callback was taken from leaves the queue only if it is still  *)
(* its head.                                                                *)
(***************************************************************************)
PopFinished(q, id) ==
  IF q.taskQueue # <<>> /\ Peek(q.taskQueue).id = id THEN [q EXCEPT !.taskQueue = Pop(@)] ELSE q
=============================================================================
