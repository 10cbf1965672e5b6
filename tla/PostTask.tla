------------------------------- MODULE PostTask -------------------------------
(***************************************************************************)
(* The scheduler/unstable_post_task entry point of the scheduler package.  *)
(* A callback is handed to the browser's task scheduler together with the  *)
(* abort signal of a controller of its own; a callback that returns a      *)
(* function is continued with scheduler.yield or, where the browser lacks  *)
(* it, with scheduler.postTask.  The current priority is a global of the   *)
(* module that every entry point saves and restores.  With diagnostics on, *)
(* each task keeps a log of its runs, continuations and cancellation,      *)
(* which the private act gate of the react package checks.                 *)
(*                                                                         *)
(* Browser tasks run one at a time, on an empty stack.  Code that calls    *)
(* the module runs inside a task or at top level, and may call any entry   *)
(* point at any moment.                                                    *)
(***************************************************************************)
EXTENDS Integers, Sequences, FiniteSets

CONSTANTS
    Nodes,            \* the callbacks handed to unstable_scheduleCallback
    Priorities,       \* the priority levels in use, of 1..5
    Delays,           \* the delays in use
    HasYield,         \* the browser provides scheduler.yield
    ShimKeys,         \* its scheduler and signals have the own keys of the shim, no other
    SliceLength,      \* length of a slice, the 5 ms of runTask
    MaxRuns,          \* bound: runs of one callback, continuations included
    MaxDepth,         \* bound: nested calls of the priority entry points
    MaxCancels,       \* bound: calls of unstable_cancelCallback per callback
    AcceptedDelay     \* the one delay the act gate accepts, 17 ms

NormalPriority == 3

ASSUME PostTaskAssumption ==
    /\ Priorities \subseteq 1..5
    /\ Delays \subseteq Nat
    /\ HasYield \in BOOLEAN /\ ShimKeys \in BOOLEAN
    /\ SliceLength \in Nat \ {0}
    /\ MaxRuns \in Nat /\ MaxDepth \in Nat /\ MaxCancels \in Nat
    /\ AcceptedDelay \in Nat \ {0}

None == -1

VARIABLES
    current,   \* currentPriorityLevel_DEPRECATED
    left,      \* time left of the slice: deadline minus the current time
    stack,     \* the calls in progress, the innermost last
    wrapped,   \* the priorities captured by unstable_wrapCallback
    task,      \* per node: its arguments and its abort signal
    posted,    \* the runs waiting in the browser's scheduler: node and signal
    record,    \* per node: the diagnostics of the task
    trace,     \* history, per node: its logged steps, in order
    ending     \* history, per node: how its last run ended (in Results, or
               \* "throw"), "open" before that

vars == <<current, left, stack, wrapped, task, posted, record, trace, ending>>

-----------------------------------------------------------------------------
(* The diagnostics of a task.  Every entry claims the next event index. *)

NewRecord ==
    [events |-> 1,           \* the schedule itself took index 0
     runs |-> <<>>, continuations |-> <<>>,
     cancellation |-> <<>>, route |-> <<>>]

NoRecord == [NewRecord EXCEPT !.events = 0]

RecordCallbackRun(r, priority, atDeadline, aborted) ==
    [r EXCEPT !.events = @ + 1,
              !.runs = Append(@,
                  [event |-> r.events, priority |-> priority,
                   atDeadline |-> atDeadline, aborted |-> aborted,
                   status |-> "running", returned |-> "none", runsAtReturn |-> None,
                   fallbacksAtReturn |-> None, fallback |-> None])]

\* The type of what the callback returned: a function or, in Results, anything else.
Results == {"undefined", "value"}

RecordCallbackResult(r, type) ==
    LET last == Len(r.runs)
    IN  [r EXCEPT !.runs[last] =
            [@ EXCEPT !.runsAtReturn = last,
                      !.fallbacksAtReturn = Len(r.continuations),
                      !.returned = type,
                      !.status = IF type = "function" THEN "returned" ELSE "completed"]]

\* The handoff to the act queue: only a delayed task has one.
ActRootWorkHandoff(status, delayed) == IF delayed THEN <<status>> ELSE <<>>

\* The execution record of a route; it never says that the callback ran.
RootContinuationExecution(status, index) ==
    [status |-> status, index |-> index, executed |-> FALSE]

\* The route of the newest continuation.
ExecutionRoute(index, status, delayed) ==
    [index |-> index, status |-> status,
     handoff |-> ActRootWorkHandoff(status, delayed),
     execution |-> RootContinuationExecution(status, index)]

RecordContinuationFallback(r, yields, aborted, delayed) ==
    LET index == Len(r.continuations)
        source == Len(r.runs) - 1
    IN  [r EXCEPT
            !.events = @ + 1,
            !.runs[source + 1] = [@ EXCEPT !.status = "scheduled",
                                           !.fallback = index],
            !.continuations = Append(@,
                [event |-> r.events, source |-> source,
                 runsAtSchedule |-> Len(r.runs), yields |-> yields,
                 aborted |-> aborted, abort |-> <<>>]),
            !.route = <<ExecutionRoute(index, "pending", delayed)>>]

\* Seeded fault: a cancellation leaves the route as it was.
RecordAbortOrderingNoRoute(r, ordering, delayed) ==
    IF r.continuations = <<>> THEN r
    ELSE [r EXCEPT !.continuations[Len(r.continuations)].abort = <<ordering>>]

\* A cancellation is noted at the newest continuation, and at the route if it
\* belongs to that continuation.
RecordAbortOrdering(r, ordering, delayed) ==
    IF r.continuations = <<>> THEN r
    ELSE LET last == Len(r.continuations)
             noted == [r EXCEPT !.continuations[last].abort = <<ordering>>]
         IN  IF r.route = <<>> \/ r.route[1].index # last - 1 THEN noted
             ELSE [noted EXCEPT !.route =
                     <<ExecutionRoute(last - 1, "aborted", delayed)>>]

\* Start and completion of a cancellation around the abort of the controller.
RecordCancellation(r, before, delayed) ==
    LET ordering == [request |-> r.events, completion |-> r.events + 1,
                     runs |-> Len(r.runs), fallbacks |-> Len(r.continuations),
                     before |-> before, after |-> TRUE]
    IN  RecordAbortOrdering(
            [r EXCEPT !.events = @ + 2, !.cancellation = <<ordering>>],
            ordering, delayed)

-----------------------------------------------------------------------------
(* The module's entry points. *)

NoTask == [priority |-> None, postTaskPriority |-> "none", delay |-> 0,
           aborted |-> FALSE]

PostTaskPriority(level) ==
    IF level \in {1, 2} THEN "user-blocking"
    ELSE IF level = 5 THEN "background" ELSE "user-visible"

Scheduled == {n \in Nodes : task[n] # NoTask}
Delayed(n) == task[n].delay > 0
Cancels(n) == Len(SelectSeq(trace[n], LAMBDA e : e = "cancel"))

Note(n, what) == trace' = [trace EXCEPT ![n] = Append(@, what)] /\ UNCHANGED ending
End(n, how) == ending' = [ending EXCEPT ![n] = how] /\ UNCHANGED trace

Init ==
    /\ current = NormalPriority
    /\ left = 0
    /\ stack = <<>>
    /\ wrapped = {}
    /\ task = [n \in Nodes |-> NoTask]
    /\ posted = {}
    /\ record = [n \in Nodes |-> NoRecord]
    /\ trace = [n \in Nodes |-> <<>>]
    /\ ending = [n \in Nodes |-> "open"]

ScheduleCallback(n, level, delay) ==
    /\ n \notin Scheduled
    /\ task' = [task EXCEPT ![n] =
                  [priority |-> level,
                   postTaskPriority |-> PostTaskPriority(level),
                   delay |-> delay, aborted |-> FALSE]]
    /\ record' = [record EXCEPT ![n] = NewRecord]
    /\ posted' = posted \cup {[node |-> n, signalled |-> TRUE]}
    /\ Note(n, "schedule")
    /\ UNCHANGED <<current, left, stack, wrapped>>

\* The controller is aborted between the start and the completion of the log
\* entry; the browser rejects the waiting run later (RejectAborted).
CancelCallback(n) ==
    /\ n \in Scheduled
    /\ Cancels(n) < MaxCancels
    /\ task' = [task EXCEPT ![n].aborted = TRUE]
    /\ record' = [record EXCEPT ![n] =
                    RecordCancellation(@, task[n].aborted, Delayed(n))]
    /\ trace' = [trace EXCEPT ![n] = @ \o <<"cancel", "aborted">>]
    /\ UNCHANGED <<current, left, stack, wrapped, posted, ending>>

\* The runs of a node the browser may still start, and those it rejects: it
\* looks at the signal a run was posted with.
Ready(n) == {p \in posted : p.node = n /\ ~(p.signalled /\ task[n].aborted)}
Rejected(n) == {p \in posted : p.node = n} \ Ready(n)

\* handleAbortError swallows the rejection of an aborted run.
RejectAborted(n) ==
    /\ Rejected(n) # {}
    /\ posted' = posted \ Rejected(n)
    /\ UNCHANGED <<current, left, stack, wrapped, task, record, trace, ending>>

\* The first half of runTask, up to the call of the callback.
StartTask(n) ==
    /\ stack = <<>>
    /\ \E p \in Ready(n) : posted' = posted \ {p}
    /\ left' = SliceLength
    /\ current' = task[n].priority
    /\ record' = [record EXCEPT ![n] =
                    RecordCallbackRun(@, task[n].priority, left' = 0,
                                      task[n].aborted)]
    /\ stack' = <<[node |-> <<n>>, saved |-> NormalPriority,
                   given |-> task[n].priority]>>
    /\ Note(n, "run")
    /\ UNCHANGED <<wrapped, task>>

\* Seeded fault: the continuation is posted without the signal of the task.
PostContinuationNoSignal(n) ==
    posted' = posted \cup {[node |-> n, signalled |-> FALSE]}

\* scheduler.yield or scheduler.postTask, with the signal of the task.
PostContinuation(n) ==
    posted' = posted \cup {[node |-> n, signalled |-> TRUE]}

Running(n) == stack # <<>> /\ stack[Len(stack)].node = <<n>>

\* The finally clauses: runTask restores the normal priority, the others the
\* priority they found.
RestorePriority(frame) == current' = frame.saved

\* The callback returns a function, and the rest of runTask continues it.
ReturnContinuation(n) ==
    /\ Running(n)
    /\ Len(record[n].runs) < MaxRuns
    /\ record' = [record EXCEPT ![n] =
                    RecordContinuationFallback(
                        RecordCallbackResult(@, "function"),
                        HasYield, task[n].aborted, Delayed(n))]
    /\ PostContinuation(n)
    /\ RestorePriority(stack[1])
    /\ stack' = <<>>
    /\ Note(n, "continue")
    /\ UNCHANGED <<left, wrapped, task>>

\* The callback returns anything else.
ReturnResult(n, type) ==
    /\ Running(n)
    /\ record' = [record EXCEPT ![n] = RecordCallbackResult(@, type)]
    /\ RestorePriority(stack[1])
    /\ stack' = <<>>
    /\ End(n, type)
    /\ UNCHANGED <<left, wrapped, task, posted>>

\* The callback throws.  The error is thrown again from a timeout; the task
\* is over and its run never gets a result.
Throw(n) ==
    /\ Running(n)
    /\ RestorePriority(stack[1])
    /\ stack' = <<>>
    /\ End(n, "throw")
    /\ UNCHANGED <<left, wrapped, task, posted, record>>

\* Seeded fault: a nested call captures the normal priority.
EnterNormal(level) ==
    /\ Len(stack) < MaxDepth
    /\ stack' = Append(stack, [node |-> <<>>, saved |-> NormalPriority,
                               given |-> level])
    /\ current' = level
    /\ UNCHANGED <<left, wrapped, task, posted, record, trace, ending>>

\* A call that runs a callback at a level and restores the one it found.
Enter(level) ==
    /\ Len(stack) < MaxDepth
    /\ stack' = Append(stack, [node |-> <<>>, saved |-> current,
                               given |-> level])
    /\ current' = level
    /\ UNCHANGED <<left, wrapped, task, posted, record, trace, ending>>

RunWithPriority(level) == Enter(level)

RunNext == Enter(IF current \in {1, 2, 3} THEN NormalPriority ELSE current)

WrapCallback ==
    /\ wrapped' = wrapped \cup {current}
    /\ UNCHANGED <<current, left, stack, task, posted, record, trace, ending>>

CallWrapped(level) == level \in wrapped /\ Enter(level)

\* The callback of such a call returns or throws.
Leave ==
    /\ stack # <<>> /\ stack[Len(stack)].node = <<>>
    /\ RestorePriority(stack[Len(stack)])
    /\ stack' = SubSeq(stack, 1, Len(stack) - 1)
    /\ UNCHANGED <<left, wrapped, task, posted, record, trace, ending>>

\* Time passes.  unstable_shouldYield answers left = 0.
Tick ==
    /\ left > 0
    /\ left' = left - 1
    /\ UNCHANGED <<current, stack, wrapped, task, posted, record, trace, ending>>

Next ==
    \/ \E n \in Nodes, p \in Priorities, d \in Delays : ScheduleCallback(n, p, d)
    \/ \E n \in Nodes : \/ CancelCallback(n) \/ RejectAborted(n) \/ StartTask(n)
                        \/ ReturnContinuation(n) \/ Throw(n)
                        \/ \E type \in Results : ReturnResult(n, type)
    \/ \E p \in Priorities : RunWithPriority(p) \/ CallWrapped(p)
    \/ RunNext \/ WrapCallback \/ Leave \/ Tick

Spec == Init /\ [][Next]_vars

-----------------------------------------------------------------------------
(***************************************************************************)
(* The check the private act gate of the react package makes of the        *)
(* diagnostics of a callback before it takes them as evidence of root work *)
(* (validateSchedulerPostTaskYieldActRootHandoffDiagnostics).  The gate    *)
(* reads a frozen snapshot only: it cannot ask the scheduler what happened *)
(* since.                                                                  *)
(***************************************************************************)

LowPriority == 4

\* validateSchedulerPostTaskYieldCallbackRuns, with the check of the count.
CallbackRunsAccepted(runs) ==
    /\ ShimKeys
    /\ Len(runs) = 2
    /\ \A i \in 1..2 :
         runs[i].priority = LowPriority /\ ~runs[i].atDeadline /\ ~runs[i].aborted
    /\ runs[1].event = 1 /\ runs[2].event = 3
    /\ runs[1].status = "scheduled" /\ runs[2].status = "completed"
    /\ runs[1].returned = "function" /\ runs[2].returned = "undefined"
    /\ runs[1].runsAtReturn = 1 /\ runs[2].runsAtReturn = 2
    /\ runs[1].fallbacksAtReturn = 0 /\ runs[2].fallbacksAtReturn = 1
    /\ runs[1].fallback = 0 /\ runs[2].fallback = None

ContinuationAccepted(continuation) ==
    /\ continuation.yields
    /\ continuation.source = 0
    /\ continuation.runsAtSchedule = 1

HandoffAccepted(handoff) == handoff = <<"pending">>

ExecutionAccepted(execution) ==
    execution.status = "pending" /\ execution.index = 0 /\ ~execution.executed

RouteAccepted(route) ==
    /\ route # <<>>
    /\ route[1].status = "pending" /\ route[1].index = 0
    /\ HandoffAccepted(route[1].handoff)
    /\ ExecutionAccepted(route[1].execution)

\* The environment, the priority mapping and the delay of the schedule.
ScheduleAccepted(t) ==
    /\ HasYield /\ ShimKeys
    /\ t.priority = LowPriority /\ t.postTaskPriority = "user-visible"
    /\ t.delay = AcceptedDelay

GateAccepts(n) ==
    /\ n \in Scheduled
    /\ ScheduleAccepted(task[n])
    /\ CallbackRunsAccepted(record[n].runs)
    /\ Len(record[n].continuations) = 1
    /\ ContinuationAccepted(record[n].continuations[1])
    /\ RouteAccepted(record[n].route)

-----------------------------------------------------------------------------
(* Properties. *)

\* Code sees the priority of the innermost call around it: the level of its
\* task, or the level it asked for, and the normal one outside of all calls.
\* Returns, errors, continuations and calls of wrapped callbacks in any
\* nesting put back what they found.
PriorityFollowsStack ==
    current = IF stack = <<>> THEN NormalPriority ELSE stack[Len(stack)].given

\* unstable_cancelCallback is final: no run of a cancelled callback starts,
\* whether its first run or a continuation was waiting, and a callback that
\* cancels itself is not continued.
CancelledNeverRuns ==
    [][\A n \in Nodes : task[n].aborted
            => Len(record'[n].runs) = Len(record[n].runs)]_vars

\* The log tells the real order of events.  The event index of a run, of a
\* continuation and of both ends of the last cancellation is the position of
\* the step that made it among the logged steps of the task; a continuation
\* names the run that returned it.
LogTellsTheOrder ==
    \A n \in Scheduled :
        LET r == record[n]
        IN  /\ r.events = Len(trace[n])
            /\ \A i \in 1..Len(r.runs) : trace[n][r.runs[i].event + 1] = "run"
            /\ \A i \in 1..Len(r.continuations) :
                 LET c == r.continuations[i]
                 IN  /\ trace[n][c.event + 1] = "continue"
                     /\ r.runs[c.source + 1].fallback = i - 1
                     /\ r.runs[c.source + 1].event < c.event
                     /\ c.source + 2 <= Len(r.runs)
                          => c.event < r.runs[c.source + 2].event
            /\ r.cancellation # <<>> =>
                 /\ trace[n][r.cancellation[1].request + 1] = "cancel"
                 /\ trace[n][r.cancellation[1].completion + 1] = "aborted"

\* The gate accepts exactly the low priority callbacks with the delay it
\* knows that ran, were continued by scheduler.yield, ran once more and
\* returned nothing, and were never cancelled: not while waiting, not by
\* themselves, and not after they were done.
GateAcceptsExactly ==
    \A n \in Nodes :
        GateAccepts(n) <=>
            /\ HasYield /\ ShimKeys
            /\ n \in Scheduled
            /\ task[n].priority = LowPriority /\ task[n].delay = AcceptedDelay
            /\ trace[n] = <<"schedule", "run", "continue", "run">>
            /\ ending[n] = "undefined"

Ended(n) == task[n].aborted \/ ending[n] # "open"

\* Every scheduled callback comes to an end: it is cancelled, completes or
\* throws, and no run of it is left waiting.
TasksEnd ==
    \A n \in Nodes :
        n \in Scheduled ~>
            /\ \A p \in posted : p.node # n
            /\ ~Running(n)
            /\ Ended(n)
=============================================================================
