------------------------------- MODULE MC_Live -------------------------------
(***************************************************************************)
(* What must eventually happen, in the four components that promise it: the *)
(* post-task scheduler, the browser scheduler, the HostRoot and the root    *)
(* scheduler.  They share no state here, so a behaviour is one of any of    *)
(* them; part says which, and every fairness condition is one of its part.  *)
(***************************************************************************)
EXTENDS PostTask

VARIABLES
  q, now, phase, currentTask, loopTime, startTime, needsPaint, currentPriorityLevel, saved,
  isHostCallbackScheduled, isHostTimeoutScheduled, isMessageLoopRunning, messages, timeouts,
  taskTimeoutID, continued, runs,
  lanes, currentFiber, fibers, queues, work, records, staged, created, enqueued, shown, fired,
  commits,
  roots, first, last, didScheduleMicrotask, mightHaveSyncWork, requests, microtask, nextNode,
  loop, updates,
  part

taskVars == <<q, now, phase, currentTask, loopTime, startTime, needsPaint, currentPriorityLevel,
              saved, isHostCallbackScheduled, isHostTimeoutScheduled, isMessageLoopRunning,
              messages, timeouts, taskTimeoutID, continued, runs>>
hostVars == <<lanes, currentFiber, fibers, queues, work, records, staged, created, enqueued,
              shown, fired, commits>>
rootVars == <<roots, first, last, didScheduleMicrotask, mightHaveSyncWork, requests, microtask,
              nextNode, loop, updates>>

-----------------------------------------------------------------------------
\* Two tasks, immediate or normal, delayed or not.
Tasks == INSTANCE TaskScheduler
           WITH Timeout <- <<-1, 1, 1, 1, 1>>, Priorities <- {1, 3}, Delays <- {0, 1},
                FrameInterval <- 1, MaxTasks <- 2, MaxTime <- 1, MaxContinuations <- 1,
                MaxNesting <- 0

\* A sync lane, the default lane and two transitions of different groups.
Host == INSTANCE HostRoot
          WITH Lane <- {1, 5, 8, 18, 30}, DefaultTransitionIndicator <- FALSE,
               RetryLaneExpiration <- FALSE, SyncExpirationMs <- 1,
               TransitionExpirationMs <- 1, RetryExpirationMs <- 1,
               UpdateInputs <- {1, 5, 8, 18}, StageInputs <- {5}, CallbackIds <- {1, 3, 4},
               MaxUpdates <- 3, MaxRenders <- 3, current <- currentFiber

\* Two roots with default updates.
Scheduler == INSTANCE RootScheduler
               WITH Lane <- {1, 5, 8, 18, 30}, DefaultTransitionIndicator <- FALSE,
                    RetryLaneExpiration <- FALSE, SyncExpirationMs <- 1,
                    TransitionExpirationMs <- 1, RetryExpirationMs <- 1,
                    Root <- {"r1", "r2"}, NoRoot <- "none", ScheduledInputs <- {5},
                    MaxScheduled <- 4

LiveInit ==
  /\ Init /\ Tasks!Init /\ Host!Init /\ Scheduler!SchedulerInit
  /\ part \in {"post task", "tasks", "host root", "root scheduler"}

PostTaskNext == part = "post task" /\ Next /\ UNCHANGED <<part, taskVars, hostVars, rootVars>>
TasksNext == part = "tasks" /\ Tasks!Next /\ UNCHANGED <<part, vars, hostVars, rootVars>>
HostNext ==
  part = "host root" /\ Host!UninterruptedNext /\ UNCHANGED <<part, vars, taskVars, rootVars>>
SchedulerNext ==
  part = "root scheduler" /\ Scheduler!DrivenNext /\ UNCHANGED <<part, vars, taskVars, hostVars>>

(***************************************************************************)
(* The browser runs or rejects what was posted, and every call returns.  A  *)
(* waiting run is disabled while another task is on the stack, hence the    *)
(* strong fairness: the browser does not pass over a task for ever.         *)
(***************************************************************************)
Returns(n) ==
  ReturnContinuation(n) \/ Throw(n) \/ \E type \in Results : ReturnResult(n, type)

PostTaskFairness ==
  /\ WF_vars(part = "post task" /\ Leave)
  /\ \A n \in Nodes :
       /\ SF_vars(part = "post task" /\ StartTask(n))
       /\ WF_vars(part = "post task" /\ RejectAborted(n))
       /\ WF_vars(part = "post task" /\ Returns(n))

(***************************************************************************)
(* Callbacks and handlers return, posted messages and due timers are run,   *)
(* and time passes.                                                         *)
(***************************************************************************)
TasksFairness ==
  /\ WF_taskVars(part = "tasks" /\ Tasks!ExitPriority)
  /\ WF_taskVars(part = "tasks" /\ Tasks!WorkLoop)
  /\ WF_taskVars(part = "tasks" /\ Tasks!Return)
  /\ SF_taskVars(part = "tasks" /\ Tasks!PerformWorkUntilDeadline)
  /\ SF_taskVars(part = "tasks" /\ Tasks!Timers)
  /\ WF_taskVars(part = "tasks" /\ Tasks!Tick)

(***************************************************************************)
(* The sync flush renders pending lanes and commits what it rendered.       *)
(***************************************************************************)
HostFairness ==
  /\ WF_hostVars(part = "host root" /\ Host!Render /\ work = Host!NoWork)
  /\ WF_hostVars(part = "host root" /\ Host!Commit)

(***************************************************************************)
(* The host's queues are first-in first-out: a requested microtask, a       *)
(* callback and a commit handoff are not overtaken forever, although each   *)
(* is disabled while a walk of the root list runs.                          *)
(***************************************************************************)
SchedulerFairness ==
  /\ WF_rootVars(part = "root scheduler" /\ Scheduler!Walk)
  /\ SF_rootVars(part = "root scheduler" /\ Scheduler!StartMicrotask(TRUE))
  /\ SF_rootVars(part = "root scheduler" /\ Scheduler!RunCallback)
  /\ SF_rootVars(part = "root scheduler" /\ Scheduler!CommitRendered)

LiveSpec ==
  /\ LiveInit
  /\ [][PostTaskNext \/ TasksNext \/ HostNext \/ SchedulerNext]_<<vars, taskVars, hostVars, rootVars, part>>
  /\ PostTaskFairness /\ TasksFairness /\ HostFairness /\ SchedulerFairness

-----------------------------------------------------------------------------
\* Every task of the browser scheduler is called or cancelled in the end, also one that was
\* delayed, whatever paints, yields, continuations and errors come between (workLoop,
\* handleTimeout and performWorkUntilDeadline of scheduler.development.js); and so is every
\* task of the post-task scheduler, whose continuations go back to the end of postTask.
EveryTaskIsServed == Tasks!EveryTaskIsServed /\ TasksEnd

\* Every drained update of the HostRoot is on screen in the end, also one that renders of
\* other lanes skipped (render_host_root_for_lanes, commit_finished_host_root).
EveryUpdateIsShown == Host!EveryUpdateIsShown

\* Default updates of two roots by a host that commits each render before the next update
\* and runs the root schedule only when asked to (DrivenNext): every root with pending lanes
\* is committed, no order of its updates, microtasks, flushes and callbacks leaves one
\* waiting (root_scheduler.rs).  An update that overtakes a render, or a sync flush of a root
\* with other lanes, can leave one waiting and is not part of this specification.
RootsSettle == Scheduler!RootsSettle
=============================================================================
