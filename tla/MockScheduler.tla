--------------------------- MODULE MockScheduler ---------------------------
(***************************************************************************)
(* The mock scheduler that tests drive by hand                              *)
(* (packages/scheduler/cjs/scheduler-unstable_mock.development.js).         *)
(*                                                                         *)
(* Time is virtual and work runs only inside a flush.  mode is the flush    *)
(* helper that is running ("none" when isFlushing is false); phase is the   *)
(* part of the work loop, as in TaskScheduler.  The log of yielded values   *)
(* is its length, 0 for null.  The priority context is that of              *)
(* TaskScheduler and is left out.                                           *)
(***************************************************************************)
EXTENDS SchedulerQueues, FiniteSets

CONSTANTS
  Priorities, Delays,
  Steps,                \* arguments of unstable_advanceTime
  Counts,               \* arguments of unstable_flushNumberOfYields
  MayReset,             \* the test calls reset
  CallbackMayAdvance,   \* callbacks call unstable_advanceTime
  MaxTasks, MaxTime, MaxContinuations, MaxLog

MockSchedulerAssumption ==
  /\ Priorities \subseteq 1..5
  /\ Delays \cup Steps \cup Counts \subseteq Nat
  /\ {MayReset, CallbackMayAdvance} \subseteq BOOLEAN
  /\ {MaxTasks, MaxTime, MaxContinuations, MaxLog} \subseteq Nat

VARIABLES
  q,
  now,                      \* currentMockTime
  mode, phase,
  currentTask, loopTime,
  scheduledCallback,        \* scheduledCallback # null
  isHostCallbackScheduled,
  isHostTimeoutScheduled,
  timeoutTime,              \* -1 when scheduledTimeout is null
  log,                      \* number of yielded values
  expectedNumberOfYields,   \* -1 for no limit
  didStop, needsPaint, shouldYieldForPaint, disableYieldValue,
  continued                 \* number of continuations and errors so far

vars == <<q, now, mode, phase, currentTask, loopTime, scheduledCallback, isHostCallbackScheduled,
          isHostTimeoutScheduled, timeoutTime, log, expectedNumberOfYields, didStop, needsPaint,
          shouldYieldForPaint, disableYieldValue, continued>>

loopVars == <<mode, phase, currentTask, loopTime>>
hostVars == <<scheduledCallback, isHostCallbackScheduled, isHostTimeoutScheduled, timeoutTime>>
stopVars == <<expectedNumberOfYields, didStop, shouldYieldForPaint>>

isFlushing == mode # "none"
isPerformingWork == phase # "idle"

Init ==
  /\ q = NoQueues
  /\ now = 0
  /\ mode = "none" /\ phase = "idle"
  /\ currentTask = 0 /\ loopTime = 0
  /\ scheduledCallback = FALSE
  /\ isHostCallbackScheduled = FALSE
  /\ isHostTimeoutScheduled = FALSE
  /\ timeoutTime = -1
  /\ log = 0
  /\ expectedNumberOfYields = -1
  /\ didStop = FALSE /\ needsPaint = FALSE
  /\ shouldYieldForPaint = FALSE /\ disableYieldValue = FALSE
  /\ continued = 0

CanCall == phase \in {"idle", "callback"}

-----------------------------------------------------------------------------
(***************************************************************************)
(* Calls of a test, or of a callback.                                       *)
(***************************************************************************)
ArmFirstTimer(queues, delay) ==
  IF queues.taskQueue = <<>> /\ Peek(queues.timerQueue).id = Len(queues.tasks)
  THEN isHostTimeoutScheduled' = TRUE /\ timeoutTime' = now + delay
  ELSE UNCHANGED <<isHostTimeoutScheduled, timeoutTime>>

RequestHostCallback ==
  IF isHostCallbackScheduled \/ isPerformingWork
  THEN UNCHANGED <<isHostCallbackScheduled, scheduledCallback>>
  ELSE isHostCallbackScheduled' = TRUE /\ scheduledCallback' = TRUE

ScheduleCallback(priority, delay) ==
  /\ CanCall
  /\ Len(q.tasks) < MaxTasks
  /\ q' = Enqueued(q, NewTask(priority, now + delay), now)
  /\ IF delay > 0
     THEN ArmFirstTimer(q', delay) /\ UNCHANGED <<isHostCallbackScheduled, scheduledCallback>>
     ELSE RequestHostCallback /\ UNCHANGED <<isHostTimeoutScheduled, timeoutTime>>
  /\ UNCHANGED <<now, loopVars, log, stopVars, needsPaint, disableYieldValue, continued>>

CancelCallback(id) ==
  /\ CanCall
  /\ q' = Cancelled(q, id)
  /\ UNCHANGED <<now, loopVars, hostVars, log, stopVars, needsPaint, disableYieldValue, continued>>

RequestPaint ==
  /\ CanCall
  /\ needsPaint' = TRUE
  /\ UNCHANGED <<q, now, loopVars, hostVars, log, stopVars, disableYieldValue, continued>>

Log ==
  /\ CanCall
  /\ ~ disableYieldValue
  /\ log < MaxLog
  /\ log' = log + 1
  /\ UNCHANGED <<q, now, loopVars, hostVars, stopVars, needsPaint, disableYieldValue, continued>>

ClearLog ==
  /\ CanCall
  /\ log' = 0
  /\ UNCHANGED <<q, now, loopVars, hostVars, stopVars, needsPaint, disableYieldValue, continued>>

SetDisableYieldValue(value) ==
  /\ CanCall
  /\ disableYieldValue' = value
  /\ UNCHANGED <<q, now, loopVars, hostVars, log, stopVars, needsPaint, continued>>

(***************************************************************************)
(* unstable_advanceTime runs handleTimeout when the timeout is due, and     *)
(* then forgets the timeout: also one that handleTimeout has just           *)
(* requested for the next timer.                                            *)
(***************************************************************************)
HandleTimeout(time) ==
  /\ isHostTimeoutScheduled' = FALSE
  /\ timeoutTime' = -1
  /\ q' = AdvanceTimers(q, time)
  /\ IF ~ isHostCallbackScheduled /\ q'.taskQueue # <<>>
     THEN isHostCallbackScheduled' = TRUE /\ scheduledCallback' = TRUE
     ELSE UNCHANGED <<isHostCallbackScheduled, scheduledCallback>>

AdvanceTime(ms) ==
  /\ phase = "idle" \/ (phase = "callback" /\ CallbackMayAdvance)
  /\ ~ disableYieldValue
  /\ now + ms <= MaxTime
  /\ now' = now + ms
  /\ IF timeoutTime # -1 /\ timeoutTime <= now' THEN HandleTimeout(now')
     ELSE UNCHANGED <<q, hostVars>>
  /\ UNCHANGED <<loopVars, log, stopVars, needsPaint, disableYieldValue, continued>>

(***************************************************************************)
(* reset forgets the time, the log and the handles, and keeps the queues    *)
(* and the two flags.                                                       *)
(***************************************************************************)
Reset ==
  /\ MayReset
  /\ ~ isFlushing
  /\ now' = 0
  /\ scheduledCallback' = FALSE
  /\ timeoutTime' = -1
  /\ log' = 0
  /\ expectedNumberOfYields' = -1
  /\ didStop' = FALSE
  /\ needsPaint' = FALSE
  /\ UNCHANGED <<q, loopVars, isHostCallbackScheduled, isHostTimeoutScheduled,
                 shouldYieldForPaint, disableYieldValue, continued>>

-----------------------------------------------------------------------------
(***************************************************************************)
(* flushWork up to the first iteration of the loop.                         *)
(***************************************************************************)
FlushWork(queues) ==
  /\ isHostCallbackScheduled' = FALSE
  /\ isHostTimeoutScheduled' = FALSE
  /\ timeoutTime' = IF isHostTimeoutScheduled THEN -1 ELSE timeoutTime
  /\ phase' = "loop"
  /\ currentTask' = 0
  /\ loopTime' = now
  /\ q' = AdvanceTimers(queues, now)

Flush(helper) ==
  /\ phase = "idle" /\ ~ isFlushing
  /\ scheduledCallback
  /\ mode' = helper
  /\ FlushWork(q)
  /\ UNCHANGED <<now, scheduledCallback, log, didStop, disableYieldValue, continued>>

FlushAllWithoutAsserting ==
  /\ Flush("all")
  /\ UNCHANGED <<expectedNumberOfYields, shouldYieldForPaint, needsPaint>>

FlushExpired ==
  /\ Flush("expired")
  /\ UNCHANGED <<expectedNumberOfYields, shouldYieldForPaint, needsPaint>>

FlushNumberOfYields(count) ==
  /\ Flush("yields")
  /\ expectedNumberOfYields' = count
  /\ UNCHANGED <<shouldYieldForPaint, needsPaint>>

FlushUntilNextPaint ==
  /\ Flush("paint")
  /\ shouldYieldForPaint' = TRUE
  /\ needsPaint' = FALSE
  /\ UNCHANGED expectedNumberOfYields

(***************************************************************************)
(* The finally block of the helper that is running.                         *)
(***************************************************************************)
ResetStopCondition ==
  /\ mode' = "none"
  /\ expectedNumberOfYields' = IF mode = "yields" THEN -1 ELSE expectedNumberOfYields
  /\ shouldYieldForPaint' = IF mode = "paint" THEN FALSE ELSE shouldYieldForPaint
  /\ didStop' = IF mode \in {"yields", "paint"} THEN FALSE ELSE didStop

LeaveLoop == phase' = "idle" /\ currentTask' = 0 /\ ResetStopCondition

ShouldYieldToHost ==
  \/ expectedNumberOfYields = 0 /\ log = 0
  \/ expectedNumberOfYields # -1 /\ log > 0 /\ log >= expectedNumberOfYields
  \/ shouldYieldForPaint /\ needsPaint

(***************************************************************************)
(* unstable_shouldYield, asked by a callback, also notes that it stopped.   *)
(***************************************************************************)
ShouldYield ==
  /\ phase = "callback"
  /\ ShouldYieldToHost
  /\ didStop' = TRUE
  /\ UNCHANGED <<q, now, loopVars, hostVars, log, expectedNumberOfYields, shouldYieldForPaint,
                 needsPaint, disableYieldValue, continued>>

Head1 == Peek(q.taskQueue).id

Stops ==
  /\ q.tasks[Head1].expiration > loopTime
  /\ mode = "expired" \/ ShouldYieldToHost

Drained ==
  /\ phase = "loop" /\ q.taskQueue = <<>>
  /\ scheduledCallback' = FALSE
  /\ timeoutTime' = IF q.timerQueue = <<>> THEN timeoutTime
                    ELSE now + q.tasks[Peek(q.timerQueue).id].start - loopTime
  /\ LeaveLoop
  /\ UNCHANGED <<q, now, loopTime, isHostCallbackScheduled, isHostTimeoutScheduled, log,
                 needsPaint, disableYieldValue, continued>>

Stop ==
  /\ phase = "loop" /\ q.taskQueue # <<>>
  /\ Stops
  /\ LeaveLoop
  /\ UNCHANGED <<q, now, loopTime, hostVars, log, needsPaint, disableYieldValue, continued>>

DropCancelled ==
  /\ phase = "loop" /\ q.taskQueue # <<>>
  /\ ~ Stops
  /\ ~ q.tasks[Head1].callback
  /\ q' = [q EXCEPT !.taskQueue = Pop(@)]
  /\ UNCHANGED <<now, loopVars, hostVars, log, stopVars, needsPaint, disableYieldValue, continued>>

CallCallback ==
  /\ phase = "loop" /\ q.taskQueue # <<>>
  /\ ~ Stops
  /\ q.tasks[Head1].callback
  /\ phase' = "callback"
  /\ currentTask' = Head1
  /\ q' = Cancelled(q, Head1)
  /\ UNCHANGED <<now, mode, loopTime, hostVars, log, stopVars, needsPaint, disableYieldValue,
                 continued>>

\* Seeded fault: timers that became due while the callback ran are not looked at.
CallbackDoneOnly ==
  /\ phase = "callback"
  /\ phase' = "loop"
  /\ loopTime' = now
  /\ q' = PopFinished(q, currentTask)
  /\ UNCHANGED <<now, mode, currentTask, hostVars, log, stopVars, needsPaint, disableYieldValue,
                 continued>>

CallbackDone ==
  /\ phase = "callback"
  /\ phase' = "loop"
  /\ loopTime' = now
  /\ q' = AdvanceTimers(PopFinished(q, currentTask), now)
  /\ UNCHANGED <<now, mode, currentTask, hostVars, log, stopVars, needsPaint, disableYieldValue,
                 continued>>

(***************************************************************************)
(* A continuation stays in the loop, except in flushUntilNextPaint: there   *)
(* it asks for a paint, and the helper ends or calls flushWork again.       *)
(***************************************************************************)
CallbackContinues ==
  LET queues == AdvanceTimers([q EXCEPT !.tasks[currentTask].callback = TRUE], now)
  IN  /\ phase = "callback"
      /\ continued < MaxContinuations
      /\ continued' = continued + 1
      /\ IF ~ shouldYieldForPaint
         THEN /\ phase' = "loop"
              /\ loopTime' = now
              /\ q' = queues
              /\ UNCHANGED <<mode, currentTask, hostVars, stopVars, needsPaint>>
         ELSE IF didStop
         THEN /\ needsPaint' = TRUE
              /\ q' = queues
              /\ LeaveLoop
              /\ UNCHANGED <<loopTime, hostVars>>
         ELSE /\ needsPaint' = TRUE
              /\ FlushWork(queues)
              /\ UNCHANGED <<mode, scheduledCallback, stopVars>>
      /\ UNCHANGED <<now, log, disableYieldValue>>

CallbackThrows ==
  /\ phase = "callback"
  /\ continued < MaxContinuations
  /\ continued' = continued + 1
  /\ LeaveLoop
  /\ UNCHANGED <<q, now, loopTime, hostVars, log, needsPaint, disableYieldValue>>

-----------------------------------------------------------------------------
Calls ==
  \/ \E priority \in Priorities, delay \in Delays : ScheduleCallback(priority, delay)
  \/ \E id \in DOMAIN q.tasks : CancelCallback(id)
  \/ RequestPaint \/ Log \/ ClearLog \/ Reset
  \/ \E value \in BOOLEAN : SetDisableYieldValue(value)
  \/ \E ms \in Steps : AdvanceTime(ms)

Flushes ==
  \/ FlushAllWithoutAsserting \/ FlushExpired \/ FlushUntilNextPaint
  \/ \E count \in Counts : FlushNumberOfYields(count)

WorkLoop == Drained \/ Stop \/ DropCancelled \/ CallCallback

Callback == ShouldYield \/ CallbackDone \/ CallbackContinues \/ CallbackThrows

Next == Calls \/ Flushes \/ WorkLoop \/ Callback

Spec == Init /\ [][Next]_vars

QueuedIds(queue) == {queue[i].id : i \in DOMAIN queue}

(***************************************************************************)
(* No stop condition of one flush reaches the next, whichever way the flush *)
(* ended (the finally blocks of the flush helpers).                         *)
(***************************************************************************)
FlushModeDoesNotLeak ==
  ~ isFlushing => expectedNumberOfYields = -1 /\ ~ didStop /\ ~ shouldYieldForPaint

(***************************************************************************)
(* A flush that reports no more work has run or dropped everything that is  *)
(* due, delayed tasks included that became due while it ran.                *)
(***************************************************************************)
DrainedMeansNothingDue ==
  [][isFlushing /\ ~ isFlushing' /\ ~ scheduledCallback' =>
       \A id \in DOMAIN q.tasks : q.tasks[id].callback => q.tasks[id].start > now]_vars

(***************************************************************************)
(* A callback that starts is the most urgent one that is due.               *)
(***************************************************************************)
MostUrgentFirst ==
  [][phase = "loop" /\ phase' = "callback" =>
       \A id \in DOMAIN q.tasks :
         q.tasks[id].callback /\ q.tasks[id].start <= loopTime /\ id # currentTask' =>
           Compare(Entry(q.tasks[currentTask'].expiration, currentTask'),
                   Entry(q.tasks[id].expiration, id))]_vars

=============================================================================
