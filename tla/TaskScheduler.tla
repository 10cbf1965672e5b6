--------------------------- MODULE TaskScheduler ---------------------------
(***************************************************************************)
(* The scheduler package in a browser or in Node                            *)
(* (packages/scheduler/cjs/scheduler.development.js).                       *)
(*                                                                         *)
(* JavaScript runs one host task at a time.  phase says which part of       *)
(* performWorkUntilDeadline is running: "idle" (none), "loop" (the head of  *)
(* the work loop) or "callback" (a user callback, which may itself call     *)
(* the scheduler).  Real time passes at any moment.                         *)
(***************************************************************************)
EXTENDS SchedulerQueues, FiniteSets

CONSTANTS
  Priorities,      \* priority levels used
  Delays,          \* the delay option; 0 for none
  FrameInterval,
  MaxTasks,        \* bound on scheduled tasks
  MaxTime,         \* bound on the clock
  MaxContinuations,\* bound on continuations and errors of callbacks
  MaxNesting       \* bound on nested runWithPriority / next

ASSUME TaskSchedulerAssumption ==
  /\ Priorities \subseteq 1..5
  /\ Delays \subseteq Nat
  /\ {FrameInterval, MaxTasks, MaxTime, MaxContinuations, MaxNesting} \subseteq Nat

VARIABLES
  q,                        \* task objects, taskQueue, timerQueue
  now,                      \* performance.now()
  phase,
  currentTask,              \* id of currentTask, 0 for null
  loopTime,                 \* currentTime of the work loop
  startTime,
  needsPaint,
  currentPriorityLevel,
  saved,                    \* priority levels to restore, innermost first
  isHostCallbackScheduled,
  isHostTimeoutScheduled,
  isMessageLoopRunning,
  messages,                 \* external: posted performWorkUntilDeadline messages
  timeouts,                 \* external: armed setTimeout timers, [id, at]
  taskTimeoutID,
  continued,                \* number of continuations and errors so far
  runs                      \* history: how often the callback of a task was called

vars == <<q, now, phase, currentTask, loopTime, startTime, needsPaint, currentPriorityLevel,
          saved, isHostCallbackScheduled, isHostTimeoutScheduled, isMessageLoopRunning,
          messages, timeouts, taskTimeoutID, continued, runs>>

clockVars == <<now, startTime, needsPaint>>
loopVars == <<phase, currentTask, loopTime>>
priorityVars == <<currentPriorityLevel, saved>>
hostVars == <<isHostCallbackScheduled, isHostTimeoutScheduled, isMessageLoopRunning, messages,
              timeouts, taskTimeoutID>>

isPerformingWork == phase # "idle"

Init ==
  /\ q = NoQueues
  /\ now = 0
  /\ phase = "idle"
  /\ currentTask = 0
  /\ loopTime = 0
  /\ startTime = -1
  /\ needsPaint = FALSE
  /\ currentPriorityLevel = NormalPriority
  /\ saved = <<>>
  /\ isHostCallbackScheduled = FALSE
  /\ isHostTimeoutScheduled = FALSE
  /\ isMessageLoopRunning = FALSE
  /\ messages = 0
  /\ timeouts = {}
  /\ taskTimeoutID = 0
  /\ continued = 0
  /\ runs = <<>>

(***************************************************************************)
(* requestHostTimeout arms a timer relative to the present, which may be    *)
(* later than the time the caller computed with.  Ids are not reused while  *)
(* a timer is armed.                                                        *)
(***************************************************************************)
FreshTimeoutID(armed) == CHOOSE id \in 1..(Cardinality(armed) + 1) : \A t \in armed : t.id # id

RequestHostTimeout(armed, ms) ==
  LET id == FreshTimeoutID(armed)
  IN  /\ taskTimeoutID' = id
      /\ timeouts' = armed \cup {[id |-> id, at |-> now + ms]}

ClearTimeout(id) == {t \in timeouts : t.id # id}

KeepTimeouts == UNCHANGED <<timeouts, taskTimeoutID>>

(***************************************************************************)
(* unstable_scheduleCallback, from the host or from within a callback.      *)
(***************************************************************************)
CanCallScheduler == phase \in {"idle", "callback"}

RequestHostCallback ==
  IF isHostCallbackScheduled \/ isPerformingWork
  THEN UNCHANGED <<isHostCallbackScheduled, isMessageLoopRunning, messages>>
  ELSE /\ isHostCallbackScheduled' = TRUE
       /\ isMessageLoopRunning' = TRUE
       /\ messages' = IF isMessageLoopRunning THEN messages ELSE messages + 1

ArmFirstTimer(queues, ms) ==
  IF queues.taskQueue = <<>> /\ Peek(queues.timerQueue).id = Len(queues.tasks)
  THEN /\ isHostTimeoutScheduled' = TRUE
       /\ RequestHostTimeout(IF isHostTimeoutScheduled THEN ClearTimeout(taskTimeoutID)
                             ELSE timeouts, ms)
  ELSE KeepTimeouts /\ UNCHANGED isHostTimeoutScheduled

ScheduleCallback(priority, delay) ==
  /\ CanCallScheduler
  /\ Len(q.tasks) < MaxTasks
  /\ now + delay <= MaxTime
  /\ q' = Enqueued(q, NewTask(priority, now + delay), now)
  /\ runs' = Append(runs, 0)
  /\ IF delay > 0
     THEN /\ ArmFirstTimer(q', delay)
          /\ UNCHANGED <<isHostCallbackScheduled, isMessageLoopRunning, messages>>
     ELSE /\ RequestHostCallback
          /\ KeepTimeouts
          /\ UNCHANGED isHostTimeoutScheduled
  /\ UNCHANGED <<clockVars, loopVars, priorityVars, continued>>

CancelCallback(id) ==
  /\ CanCallScheduler
  /\ q' = Cancelled(q, id)
  /\ UNCHANGED <<clockVars, loopVars, priorityVars, hostVars, continued, runs>>

RequestPaint ==
  /\ CanCallScheduler
  /\ needsPaint' = TRUE
  /\ UNCHANGED <<q, now, startTime, loopVars, priorityVars, hostVars, continued, runs>>

(***************************************************************************)
(* unstable_runWithPriority and unstable_next, as the call and the return   *)
(* of the event handler.  (A wrapped callback is runWithPriority with the   *)
(* level of the moment it was wrapped.)                                     *)
(***************************************************************************)
EnterPriority(level) ==
  /\ CanCallScheduler
  /\ Len(saved) < MaxNesting
  /\ saved' = <<currentPriorityLevel>> \o saved
  /\ currentPriorityLevel' = level
  /\ UNCHANGED <<q, clockVars, loopVars, hostVars, continued, runs>>

NextPriority == IF currentPriorityLevel \in 1..3 THEN NormalPriority ELSE currentPriorityLevel

(***************************************************************************)
(* The level that performWorkUntilDeadline saved is the last one of saved   *)
(* while it runs; handlers return before it does.                           *)
(***************************************************************************)
ExitPriority ==
  /\ CanCallScheduler
  /\ Len(saved) > (IF isPerformingWork THEN 1 ELSE 0)
  /\ currentPriorityLevel' = Head(saved)
  /\ saved' = Tail(saved)
  /\ UNCHANGED <<q, clockVars, loopVars, hostVars, continued, runs>>

-----------------------------------------------------------------------------
(***************************************************************************)
(* performWorkUntilDeadline up to the first iteration of the loop.  The     *)
(* host runs a message only when no handler is active.                      *)
(***************************************************************************)
PerformWorkUntilDeadline ==
  /\ phase = "idle" /\ saved = <<>>
  /\ messages > 0
  /\ needsPaint' = FALSE
  /\ IF isMessageLoopRunning
     THEN /\ startTime' = now
          /\ loopTime' = now
          /\ isHostCallbackScheduled' = FALSE
          /\ isHostTimeoutScheduled' = FALSE
          /\ IF isHostTimeoutScheduled
             THEN timeouts' = ClearTimeout(taskTimeoutID) /\ taskTimeoutID' = 0
             ELSE KeepTimeouts
          /\ saved' = <<currentPriorityLevel>>
          /\ q' = AdvanceTimers(q, now)
          /\ phase' = "loop"
     ELSE UNCHANGED <<q, phase, loopTime, startTime, saved, isHostCallbackScheduled,
                      isHostTimeoutScheduled, timeouts, taskTimeoutID>>
  /\ messages' = messages - 1
  /\ UNCHANGED <<now, currentTask, currentPriorityLevel, isMessageLoopRunning, continued, runs>>

ShouldYieldToHost == needsPaint \/ now - startTime >= FrameInterval

Leave(hasMoreWork) ==
  /\ phase' = "idle"
  /\ currentTask' = 0
  /\ currentPriorityLevel' = saved[Len(saved)]
  /\ saved' = <<>>
  /\ IF hasMoreWork THEN messages' = messages + 1 /\ UNCHANGED isMessageLoopRunning
     ELSE isMessageLoopRunning' = FALSE /\ UNCHANGED messages

(***************************************************************************)
(* The head of the work loop: leave, drop a cancelled task or call the      *)
(* callback of the most urgent one.                                         *)
(***************************************************************************)
\* Seeded fault: delayed tasks are forgotten when the queue is empty.
DrainedForgetsTimers ==
  /\ phase = "loop" /\ q.taskQueue = <<>>
  /\ Leave(FALSE)
  /\ KeepTimeouts
  /\ UNCHANGED <<q, clockVars, loopTime, isHostCallbackScheduled, isHostTimeoutScheduled,
                 continued, runs>>

Drained ==
  /\ phase = "loop" /\ q.taskQueue = <<>>
  /\ Leave(FALSE)
  /\ IF q.timerQueue = <<>> THEN KeepTimeouts
     ELSE RequestHostTimeout(timeouts, q.tasks[Peek(q.timerQueue).id].start - loopTime)
  /\ UNCHANGED <<q, clockVars, loopTime, isHostCallbackScheduled, isHostTimeoutScheduled,
                 continued, runs>>

Head1 == Peek(q.taskQueue).id

Yields == q.tasks[Head1].expiration > loopTime /\ ShouldYieldToHost

Yield ==
  /\ phase = "loop" /\ q.taskQueue # <<>>
  /\ Yields
  /\ Leave(TRUE)
  /\ UNCHANGED <<q, clockVars, loopTime, isHostCallbackScheduled, isHostTimeoutScheduled,
                 timeouts, taskTimeoutID, continued, runs>>

DropCancelled ==
  /\ phase = "loop" /\ q.taskQueue # <<>>
  /\ ~ Yields
  /\ ~ q.tasks[Head1].callback
  /\ q' = [q EXCEPT !.taskQueue = Pop(@)]
  /\ UNCHANGED <<clockVars, loopVars, priorityVars, hostVars, continued, runs>>

CallCallback ==
  /\ phase = "loop" /\ q.taskQueue # <<>>
  /\ ~ Yields
  /\ q.tasks[Head1].callback
  /\ phase' = "callback"
  /\ currentTask' = Head1
  /\ currentPriorityLevel' = q.tasks[Head1].priority
  /\ q' = Cancelled(q, Head1)
  /\ runs' = [runs EXCEPT ![Head1] = @ + 1]
  /\ UNCHANGED <<clockVars, loopTime, saved, hostVars, continued>>

(***************************************************************************)
(* The callback returns; its handlers have returned before.                 *)
(***************************************************************************)
CallbackDone ==
  /\ phase = "callback" /\ Len(saved) = 1
  /\ phase' = "loop"
  /\ loopTime' = now
  /\ q' = AdvanceTimers(PopFinished(q, currentTask), now)
  /\ UNCHANGED <<clockVars, currentTask, priorityVars, hostVars, continued, runs>>

(***************************************************************************)
(* A continuation makes the loop leave at once, with more work.             *)
(***************************************************************************)
CallbackContinues ==
  /\ phase = "callback" /\ Len(saved) = 1
  /\ continued < MaxContinuations
  /\ continued' = continued + 1
  /\ q' = AdvanceTimers([q EXCEPT !.tasks[currentTask].callback = TRUE], now)
  /\ loopTime' = now
  /\ Leave(TRUE)
  /\ UNCHANGED <<clockVars, isHostCallbackScheduled, isHostTimeoutScheduled, timeouts,
                 taskTimeoutID, runs>>

(***************************************************************************)
(* An error unwinds all handlers; hasMoreWork is still its initial value.   *)
(***************************************************************************)
\* Seeded fault: an error ends the message loop.
CallbackThrowsAndStops ==
  /\ phase = "callback"
  /\ continued < MaxContinuations
  /\ continued' = continued + 1
  /\ Leave(FALSE)
  /\ UNCHANGED <<q, clockVars, loopTime, isHostCallbackScheduled, isHostTimeoutScheduled,
                 timeouts, taskTimeoutID, runs>>

CallbackThrows ==
  /\ phase = "callback"
  /\ continued < MaxContinuations
  /\ continued' = continued + 1
  /\ Leave(TRUE)
  /\ UNCHANGED <<q, clockVars, loopTime, isHostCallbackScheduled, isHostTimeoutScheduled,
                 timeouts, taskTimeoutID, runs>>

-----------------------------------------------------------------------------
(***************************************************************************)
(* handleTimeout, run by the host when the timer is due.  Timers beyond the *)
(* bound of the clock are due at its end.                                   *)
(***************************************************************************)
HandleTimeout(timer) ==
  LET armed == timeouts \ {timer}
  IN  /\ phase = "idle" /\ saved = <<>>
      /\ timer.at <= now \/ now = MaxTime
      /\ isHostTimeoutScheduled' = FALSE
      /\ q' = AdvanceTimers(q, now)
      /\ IF isHostCallbackScheduled
         THEN /\ timeouts' = armed
              /\ UNCHANGED <<taskTimeoutID, isHostCallbackScheduled, isMessageLoopRunning, messages>>
         ELSE IF q'.taskQueue # <<>>
         THEN /\ timeouts' = armed
              /\ RequestHostCallback
              /\ UNCHANGED taskTimeoutID
         ELSE /\ IF q'.timerQueue = <<>> THEN timeouts' = armed /\ UNCHANGED taskTimeoutID
                 ELSE RequestHostTimeout(armed, q'.tasks[Peek(q'.timerQueue).id].start - now)
              /\ UNCHANGED <<isHostCallbackScheduled, isMessageLoopRunning, messages>>
      /\ UNCHANGED <<clockVars, loopVars, priorityVars, continued, runs>>

Tick ==
  /\ now < MaxTime
  /\ now' = now + 1
  /\ UNCHANGED <<q, startTime, needsPaint, loopVars, priorityVars, hostVars, continued, runs>>

CallScheduler ==
  \/ \E priority \in Priorities, delay \in Delays : ScheduleCallback(priority, delay)
  \/ \E id \in DOMAIN q.tasks : CancelCallback(id)
  \/ RequestPaint
  \/ \E level \in Priorities \cup {NextPriority} : EnterPriority(level)

WorkLoop == Drained \/ Yield \/ DropCancelled \/ CallCallback

Return == CallbackDone \/ CallbackContinues \/ CallbackThrows

Timers == \E timer \in timeouts : HandleTimeout(timer)

Next == CallScheduler \/ ExitPriority \/ PerformWorkUntilDeadline \/ WorkLoop \/ Return \/ Timers \/ Tick

Spec == Init /\ [][Next]_vars
-----------------------------------------------------------------------------
QueuedIds(queue) == {queue[i].id : i \in DOMAIN queue}

(***************************************************************************)
(* Between host tasks, exactly the running loop has one message posted:     *)
(* tasks never wait without a message, and no second message doubles the    *)
(* loop, whatever callbacks, errors and timeouts did.                       *)
(***************************************************************************)
OneMessagePerLoop ==
  /\ messages = IF isMessageLoopRunning /\ ~ isPerformingWork THEN 1 ELSE 0
  /\ q.taskQueue # <<>> => isMessageLoopRunning

(***************************************************************************)
(* A delayed task has something that will look at it: the work loop, or an  *)
(* armed timeout.  isHostTimeoutScheduled is not it: the loop arms a        *)
(* timeout without setting the flag, and a late timeout clears it.          *)
(***************************************************************************)
TimersAreArmed ==
  q.timerQueue # <<>> => isMessageLoopRunning \/ timeouts # {}

(***************************************************************************)
(* Whatever callbacks, errors, timeouts and cancellations did, work never   *)
(* waits for nothing: the running loop has exactly one message posted, and  *)
(* a delayed task has the loop or an armed timeout that will look at it.    *)
(***************************************************************************)
LoopIsArmed == OneMessagePerLoop /\ TimersAreArmed

(***************************************************************************)
(* A callback that starts is the most urgent live one by expiration time    *)
(* and age, delayed tasks included that were due when the loop last looked. *)
(***************************************************************************)
MostUrgentFirst ==
  [][phase = "loop" /\ phase' = "callback" =>
       \A id \in DOMAIN q.tasks :
         q.tasks[id].callback /\ q.tasks[id].start <= loopTime /\ id # currentTask' =>
           Compare(Entry(q.tasks[currentTask'].expiration, currentTask'),
                   Entry(q.tasks[id].expiration, id))]_vars

(***************************************************************************)
(* A task that expired is not put off by a paint or by the frame budget.    *)
(***************************************************************************)
ExpiredTasksDoNotYield ==
  [][phase = "loop" /\ phase' = "idle" /\ q.taskQueue # <<>> =>
       \A i \in DOMAIN q.taskQueue : q.tasks[q.taskQueue[i].id].expiration > loopTime]_vars

(***************************************************************************)
(* A callback that starts is the most urgent live one by expiration time    *)
(* and age, and a task that expired is not put off by a paint or by the     *)
(* frame budget (workLoop).                                                 *)
(***************************************************************************)
UrgentWorkIsNotDelayed == MostUrgentFirst /\ ExpiredTasksDoNotYield

(***************************************************************************)
(* The priority level is back to normal whenever the host is back in        *)
(* control, errors in nested handlers included.                             *)
(***************************************************************************)
PriorityIsRestored ==
  ~ isPerformingWork /\ saved = <<>> => currentPriorityLevel = NormalPriority

(***************************************************************************)
(* Every task is called or cancelled in the end.                            *)
(***************************************************************************)
EveryTaskIsServed ==
  \A id \in 1..MaxTasks :
    id \in DOMAIN q.tasks ~> id \in DOMAIN q.tasks /\ ~ q.tasks[id].callback
=============================================================================
