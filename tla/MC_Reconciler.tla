---------------------------- MODULE MC_Reconciler ----------------------------
(***************************************************************************)
(* The reconciler above the lanes: one HostRoot from update to commit, the  *)
(* scheduler of several roots, and the queue of a state hook.  Each         *)
(* abstracts from the others, so a behaviour is one of any; part says which.*)
(***************************************************************************)
EXTENDS HostRoot, RootScheduler

VARIABLES
  store, pending, lastRendered, currentHook, workHook, rendering, remaining, hookRenders,
  dispatched, known, reached, reverted,
  part

hookVars == <<store, pending, lastRendered, currentHook, workHook, rendering, remaining,
              hookRenders, dispatched, known, reached, reverted>>

\* Sync, default and transition updates in every order: three of three roots, four of two.
TwoRoots == INSTANCE RootScheduler WITH MaxScheduled <- 4, Root <- {"r1", "r2"}

\* Sync, default and transition updates of one hook, optimistic ones until the transition.
Hook == INSTANCE HookStateQueue
          WITH HookLanes <- {1, 5, 8}, RevertLanes <- {8}, MaxDispatches <- 3,
               MaxHookRenders <- 3

ASSUME Instances == TwoRoots!RootSchedulerAssumption /\ Hook!HookQueueConstants

ReconcilerInit ==
  /\ Init /\ SchedulerInit /\ Hook!Init
  /\ part \in {"host root", "three roots", "two roots", "hook"}

HostRootNext == part = "host root" /\ Next /\ UNCHANGED <<part, schedulerVars, hookVars>>
ThreeRootsNext == part = "three roots" /\ SchedulerNext /\ UNCHANGED <<part, vars, hookVars>>
TwoRootsNext == part = "two roots" /\ TwoRoots!SchedulerNext /\ UNCHANGED <<part, vars, hookVars>>
HookNext == part = "hook" /\ Hook!Next /\ UNCHANGED <<part, vars, schedulerVars>>

ReconcilerSpec ==
  /\ ReconcilerInit
  /\ [][HostRootNext \/ ThreeRootsNext \/ TwoRootsNext \/ HookNext]_<<vars, schedulerVars, hookVars, part>>

-----------------------------------------------------------------------------
\* A render of a state hook shows the updates whose lane was rendered and that were not
\* taken back, in the order of their dispatch, whatever was skipped and rebased before, and
\* reports the lanes of those that wait (process_update_queue of hook_state_queue.rs).
HookShowsWhatWasReached == Hook!HookShowsWhatWasReached
=============================================================================
