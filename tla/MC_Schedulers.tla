---------------------------- MODULE MC_Schedulers ----------------------------
(***************************************************************************)
(* The scheduler package: its heap, the browser scheduler, the mock         *)
(* scheduler and the post-task scheduler with the gate that reads its log.  *)
(* They are different entry points and share no state, so a behaviour is    *)
(* one of either; part says which.                                          *)
(*                                                                          *)
(* Immediate tasks have expired when they are scheduled, the other levels   *)
(* expire after 1 and 2 units.                                              *)
(***************************************************************************)
EXTENDS TaskScheduler, MinHeap

SmallTimeouts == <<-1, 1, 2, 2, 2>>

SmallNodes == [sort : 0 .. 2, id : 1 .. 5]

CONSTANTS
  Steps, Counts, MayReset, CallbackMayAdvance, MaxMockTasks, MaxLog,
  PostNodes, PostPriorities, PostDelays, HasYield, ShimKeys, SliceLength, MaxRuns, MaxDepth,
  MaxCancels, AcceptedDelay

VARIABLES
  mockQueues, mockNow, mode, mockPhase, mockTask, mockLoopTime, scheduledCallback,
  mockCallbackScheduled, mockTimeoutScheduled, timeoutTime, log, expectedNumberOfYields,
  didStop, mockNeedsPaint, shouldYieldForPaint, disableYieldValue, mockContinued,
  postPriority, sliceLeft, postStack, wrapped, postTask, posted, postRecord, postTrace,
  postEnding,
  part

mockVars == <<mockQueues, mockNow, mode, mockPhase, mockTask, mockLoopTime, scheduledCallback,
              mockCallbackScheduled, mockTimeoutScheduled, timeoutTime, log,
              expectedNumberOfYields, didStop, mockNeedsPaint, shouldYieldForPaint,
              disableYieldValue, mockContinued>>
postVars == <<postPriority, sliceLeft, postStack, wrapped, postTask, posted, postRecord, postTrace,
              postEnding>>

-----------------------------------------------------------------------------
Mock == INSTANCE MockScheduler
          WITH MaxTasks <- MaxMockTasks,
               q <- mockQueues, now <- mockNow, phase <- mockPhase, currentTask <- mockTask,
               loopTime <- mockLoopTime, isHostCallbackScheduled <- mockCallbackScheduled,
               isHostTimeoutScheduled <- mockTimeoutScheduled, needsPaint <- mockNeedsPaint,
               continued <- mockContinued

Post == INSTANCE PostTask
          WITH Nodes <- PostNodes, Priorities <- PostPriorities, Delays <- PostDelays,
               current <- postPriority, left <- sliceLeft, stack <- postStack,
               task <- postTask, record <- postRecord, trace <- postTrace,
               ending <- postEnding

ASSUME MockInstance == Mock!MockSchedulerAssumption
ASSUME PostInstance ==
  /\ PostPriorities \subseteq 1..5 /\ PostDelays \subseteq Nat
  /\ HasYield \in BOOLEAN /\ ShimKeys \in BOOLEAN /\ SliceLength \in Nat \ {0}
  /\ {MaxRuns, MaxDepth, MaxCancels} \subseteq Nat
  /\ AcceptedDelay \in Nat \ {0}

SchedulersInit ==
  /\ HeapInit /\ Init /\ Mock!Init /\ Post!Init
  /\ part \in {"heap", "browser", "mock", "post task"}

ArrayNext == part = "heap" /\ HeapNext /\ UNCHANGED <<part, vars, mockVars, postVars>>
BrowserNext == part = "browser" /\ Next /\ UNCHANGED <<part, heapVars, mockVars, postVars>>
MockNext == part = "mock" /\ Mock!Next /\ UNCHANGED <<part, heapVars, vars, postVars>>
PostNext == part = "post task" /\ Post!Next /\ UNCHANGED <<part, heapVars, vars, mockVars>>

SchedulersSpec ==
  /\ SchedulersInit
  /\ [][ArrayNext \/ BrowserNext \/ MockNext \/ PostNext]_<<heapVars, vars, mockVars, postVars, part>>

-----------------------------------------------------------------------------
\* What a call sets for the code it runs is taken back however the call ends.  The stop
\* condition of one flush helper of the mock scheduler never reaches the next, also after an
\* error or a stop; the current priority is the one of the innermost call around the code
\* that reads it, and the normal one when the host is in control, whatever returns, errors,
\* continuations and wrapped callbacks were nested (scheduler-unstable_mock,
\* scheduler.development.js, scheduler-unstable_post_task).
NothingLeaksFromCalls ==
  Mock!FlushModeDoesNotLeak /\ PriorityIsRestored /\ Post!PriorityFollowsStack

\* When a flush of the mock scheduler reports that no work is left, none is due, whatever the
\* callbacks scheduled, cancelled or let expire (workLoop and the flush helpers of
\* scheduler-unstable_mock.development.js).
DrainedMeansNothingDue == Mock!DrainedMeansNothingDue

\* The log of a post-task callback tells the real order of its runs, continuations and
\* cancellations, and the act gate accepts it exactly when the callback was continued,
\* returned nothing from its second run and was never cancelled
\* (validateSchedulerPostTaskYieldActRootHandoffDiagnostics).
LogIsTrue == Post!LogTellsTheOrder /\ Post!GateAcceptsExactly

\* A cancelled post-task callback never runs again, whether it was cancelled before it
\* started, while it ran or between two runs (unstable_cancelCallback).
CancelledNeverRuns == Post!CancelledNeverRuns

=============================================================================
