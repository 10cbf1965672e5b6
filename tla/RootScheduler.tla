--------------------------- MODULE RootScheduler ---------------------------
(***************************************************************************)
(* The scheduler of all roots (root_scheduler.rs, sync_flush.rs,            *)
(* scheduler_bridge.rs): an intrusive list of roots with work, the          *)
(* microtask that gives each of them a callback or leaves it to a sync      *)
(* flush, the callbacks, and the two sync flushes.  Act scopes are not      *)
(* entered.                                                                 *)
(*                                                                         *)
(* Of a root it keeps what the scheduler reads: its lanes, the render in    *)
(* progress and the callback.  The update queue is left to HostRoot, whose  *)
(* PendingLanesAreQueued makes the lanes a render leaves the pending lanes  *)
(* that it did not render.                                                  *)
(*                                                                         *)
(* The three functions that walk the list are loops, one step per root;     *)
(* the store is borrowed until they return, so nothing else happens.        *)
(***************************************************************************)
EXTENDS RootLaneState, Sequences

CONSTANTS
  Root,
  NoRoot,
  ScheduledInputs, \* lanes an update may have
  MaxScheduled     \* bound on the updates

(***************************************************************************)
(* No update has the lane of a hydration or the lane that only a render     *)
(* spawns: request_update_lane returns the lane of an event, a transition   *)
(* or a retry.                                                              *)
(***************************************************************************)
RootSchedulerAssumption ==
  /\ IsFiniteSet(Root)
  /\ NoRoot \notin Root
  /\ ScheduledInputs \subseteq Lane \ {SyncHydrationLane, DeferredLane}
  /\ MaxScheduled \in Nat

ASSUME RootSchedulerConstants == RootSchedulerAssumption

VARIABLES
  roots,       \* per root: lanes, render in progress, callback, list link
  first, last, \* first_scheduled_root and last_scheduled_root
  didScheduleMicrotask,
  mightHaveSyncWork,
  requests,    \* external: the callbacks the host scheduler will still run
  microtask,   \* external: the host will still run a root schedule microtask
  nextNode,    \* next_callback_handle
  loop,        \* the list walk in progress
  updates      \* number of updates so far

schedulerVars == <<roots, first, last, didScheduleMicrotask, mightHaveSyncWork, requests,
                   microtask, nextNode, loop, updates>>

NoNode == 0
Idle == [kind |-> "idle", cursor |-> NoRoot, previous |-> NoRoot, didWork |-> FALSE]

NewRoot ==
  [lanes |-> NewRootLaneState, work |-> {}, remaining |-> {}, wipLanes |-> {},
   node |-> NoNode, priority |-> NoLane, next |-> NoRoot]

SchedulerInit ==
  /\ roots = [r \in Root |-> NewRoot]
  /\ first = NoRoot
  /\ last = NoRoot
  /\ didScheduleMicrotask = FALSE
  /\ mightHaveSyncWork = FALSE
  /\ requests = {}
  /\ microtask = FALSE
  /\ nextNode = 1
  /\ loop = Idle
  /\ updates = 0

-----------------------------------------------------------------------------
(***************************************************************************)
(* A render of one root and the commit of its record.  An update in between *)
(* marks the work-in-progress fiber, and the commit is refused unless the   *)
(* marks were there already (validate_finished_host_root).                  *)
(***************************************************************************)
Rendered(root, renderLanes) ==
  LET remaining == root.lanes.pending \ renderLanes
  IN  [root EXCEPT !.work = renderLanes, !.remaining = remaining, !.wipLanes = remaining]

CanCommit(root) == root.work # {} /\ root.wipLanes = root.remaining

Committed(root) ==
  [root EXCEPT
     !.lanes = MarkFinished(@, root.work, root.remaining, NoLane, {}, {}),
     !.work = {}, !.remaining = {}, !.wipLanes = {},
     !.node = NoNode, !.priority = NoLane]

(***************************************************************************)
(* update_container for the lanes: a transition is entangled with the other *)
(* pending transitions of the root, which share its queue.                  *)
(***************************************************************************)
Updated(root, lane) ==
  LET marked == MarkUpdated(root.lanes, lane)
  IN  [root EXCEPT
         !.lanes = IF lane \in TransitionLanes
                   THEN MarkEntangled(marked, marked.pending \cap TransitionLanes)
                   ELSE marked,
         !.wipLanes = IF root.work = {} THEN @ ELSE @ \cup {lane}]

RootSyncLanes(root) ==
  EntangledLanesFor(root.lanes, HighestPriorityLanes(root.lanes.pending))
    \cap {SyncHydrationLane, SyncLane}

PriorityLanes(root) == GetNextLanes(root.lanes, root.work, FALSE)
NextLanes(root) == SelectedNextLanes(root.lanes, root.work, FALSE)

-----------------------------------------------------------------------------
(***************************************************************************)
(* ensure_root_schedule_entry.  A root is on the list iff it is the last    *)
(* one or has a successor.                                                  *)
(***************************************************************************)
\* Seeded fault: the last root of the list is not recognised.
HasSuccessor(r) == roots[r].next # NoRoot

AlreadyScheduled(r) == last = r \/ roots[r].next # NoRoot

AppendScheduledRoot(table, r) ==
  IF last = NoRoot THEN table ELSE [table EXCEPT ![last].next = r]

(***************************************************************************)
(* ensure_schedule_microtask_is_scheduled outside act.                      *)
(***************************************************************************)
EnsureScheduleMicrotask ==
  /\ didScheduleMicrotask' = TRUE
  /\ microtask' = (microtask \/ ~ didScheduleMicrotask)

\* Seeded fault: nothing is announced for a root that is on the list already.
EnsureOnlyNewEntry(table, r) ==
  IF AlreadyScheduled(r)
  THEN /\ roots' = table
       /\ UNCHANGED <<first, last, mightHaveSyncWork, didScheduleMicrotask, microtask>>
  ELSE /\ roots' = AppendScheduledRoot(table, r)
       /\ first' = IF last = NoRoot THEN r ELSE first
       /\ last' = r
       /\ mightHaveSyncWork' = TRUE
       /\ EnsureScheduleMicrotask

EnsureRootScheduleEntry(table, r) ==
  /\ IF AlreadyScheduled(r)
     THEN roots' = table /\ UNCHANGED <<first, last>>
     ELSE /\ roots' = AppendScheduledRoot(table, r)
          /\ first' = IF last = NoRoot THEN r ELSE first
          /\ last' = r
  /\ mightHaveSyncWork' = TRUE
  /\ EnsureScheduleMicrotask

(***************************************************************************)
(* A client's update: update_container, then ensure_root_is_scheduled with  *)
(* the record it returned.                                                  *)
(***************************************************************************)
ScheduleUpdate(r, lane) ==
  /\ loop = Idle
  /\ updates < MaxScheduled
  /\ updates' = updates + 1
  /\ EnsureRootScheduleEntry([roots EXCEPT ![r] = Updated(@, lane)], r)
  /\ UNCHANGED <<requests, nextNode, loop>>

-----------------------------------------------------------------------------
(***************************************************************************)
(* schedule_task_for_root_during_microtask: what happens to the root and to *)
(* the callbacks of the host scheduler.                                     *)
(***************************************************************************)
Canceled(node) == {q \in requests : q.node # node}

\* Seeded fault: a callback of any priority is reused.
HasCallback(root, priority) == root.node # NoNode

CanReuseCallback(root, priority) == root.node # NoNode /\ root.priority = priority

ScheduleTask(r) ==
  LET root     == roots[r]
      top      == HighestPriorityLane(PriorityLanes(root))
      isSync   == /\ IncludesSyncLane(PriorityLanes(root))
                  /\ ~ CheckIfRootIsPrerendering(root.lanes, PriorityLanes(root))
      set(node, priority) == [root EXCEPT !.node = node, !.priority = priority]
  IN  IF NextLanes(root) = {}
        THEN [root |-> set(NoNode, NoLane), requests |-> Canceled(root.node), node |-> nextNode]
      ELSE IF isSync
        THEN [root |-> set(NoNode, SyncLane), requests |-> Canceled(root.node), node |-> nextNode]
      ELSE IF CanReuseCallback(root, top)
        THEN [root |-> root, requests |-> requests, node |-> nextNode]
      ELSE [root |-> set(nextNode, top),
            requests |-> Canceled(root.node) \cup {[node |-> nextNode, root |-> r]},
            node |-> nextNode + 1]

(***************************************************************************)
(* process_root_schedule_in_microtask.  The host runs it for a requested    *)
(* microtask; a client may also call it at any time.                        *)
(***************************************************************************)
StartMicrotask(requested) ==
  /\ loop = Idle
  /\ requested => microtask
  /\ microtask' = (microtask /\ ~ requested)
  /\ didScheduleMicrotask' = FALSE
  /\ mightHaveSyncWork' = FALSE
  /\ loop' = IF first = NoRoot THEN Idle
             ELSE [Idle EXCEPT !.kind = "microtask", !.cursor = first]
  /\ UNCHANGED <<roots, first, last, requests, nextNode, updates>>

Advance(next, previous, didWork) ==
  loop' = [loop EXCEPT !.cursor = next, !.previous = previous, !.didWork = didWork]

(***************************************************************************)
(* Unlinking a root without work.                                           *)
(***************************************************************************)
\* Seeded fault: the end of the list is not moved back.
UnlinkKeepingLast(r, previous, root) ==
  LET table == [roots EXCEPT ![r] = [root EXCEPT !.next = NoRoot]]
  IN  /\ roots' = IF previous = NoRoot THEN table
                  ELSE [table EXCEPT ![previous].next = roots[r].next]
      /\ first' = IF previous = NoRoot THEN roots[r].next ELSE first
      /\ last' = last

Unlink(r, previous, root) ==
  LET next  == roots[r].next
      table == [roots EXCEPT ![r] = [root EXCEPT !.next = NoRoot]]
  IN  /\ roots' = IF previous = NoRoot THEN table
                  ELSE [table EXCEPT ![previous].next = next]
      /\ first' = IF previous = NoRoot THEN next ELSE first
      /\ last' = IF next = NoRoot THEN previous ELSE last

\* Seeded fault: a root is taken off the list once its work is in progress.
WorkOrRender(root) == IF root.work # {} THEN {} ELSE NextLanes(root)

ListedLanes(root) == NextLanes(root)

MicrotaskStep ==
  LET r     == loop.cursor
      task  == ScheduleTask(r)
      lanes == ListedLanes(roots[r])
  IN  /\ loop.kind = "microtask" /\ r # NoRoot
      /\ requests' = task.requests
      /\ nextNode' = task.node
      /\ IF lanes = {}
         THEN /\ Unlink(r, loop.previous, task.root)
              /\ Advance(roots[r].next, loop.previous, FALSE)
              /\ UNCHANGED mightHaveSyncWork
         ELSE /\ roots' = [roots EXCEPT ![r] = task.root]
              /\ mightHaveSyncWork' = (mightHaveSyncWork \/ IncludesSyncLane(lanes))
              /\ Advance(roots[r].next, r, FALSE)
              /\ UNCHANGED <<first, last>>
      /\ UNCHANGED <<didScheduleMicrotask, microtask, updates>>

MicrotaskEnd ==
  /\ loop.kind = "microtask" /\ loop.cursor = NoRoot
  /\ loop' = Idle
  /\ UNCHANGED <<roots, first, last, didScheduleMicrotask, mightHaveSyncWork, requests,
                 microtask, nextNode, updates>>

-----------------------------------------------------------------------------
(***************************************************************************)
(* execute_scheduled_root_callback: the host scheduler runs a callback that *)
(* was not cancelled.  It is ignored if the root has moved on to another.   *)
(***************************************************************************)
IsStale(request) == roots[request.root].node # request.node

ExecuteCallback(request) ==
  LET r     == request.root
      lanes == NextLanes(roots[r])
  IN  /\ loop = Idle
      /\ requests' = requests \ {request}
      /\ roots' = IF IsStale(request) THEN roots
                  ELSE IF lanes = {}
                  THEN [roots EXCEPT ![r].node = NoNode, ![r].priority = NoLane]
                  ELSE [roots EXCEPT ![r] = Rendered(@, lanes)]
      /\ UNCHANGED <<first, last, didScheduleMicrotask, mightHaveSyncWork, microtask,
                     nextNode, loop, updates>>

CommitRoot(r) ==
  /\ loop = Idle
  /\ CanCommit(roots[r])
  /\ roots' = [roots EXCEPT ![r] = Committed(@)]
  /\ UNCHANGED <<first, last, didScheduleMicrotask, mightHaveSyncWork, requests, microtask,
                 nextNode, loop, updates>>

-----------------------------------------------------------------------------
(***************************************************************************)
(* The sync flushes: flush_sync_work_on_all_roots renders ("render"),       *)
(* flush_sync_commit_work_on_all_roots renders and commits until no root    *)
(* has sync work ("commit").  Both do nothing unless the flag is set.       *)
(***************************************************************************)
StartFlush(kind) ==
  /\ loop = Idle
  /\ mightHaveSyncWork
  /\ loop' = [Idle EXCEPT !.kind = kind, !.cursor = first]
  /\ UNCHANGED <<roots, first, last, didScheduleMicrotask, mightHaveSyncWork, requests,
                 microtask, nextNode, updates>>

FlushStep ==
  LET r        == loop.cursor
      lanes    == RootSyncLanes(roots[r])
      rendered == Rendered(roots[r], lanes)
  IN  /\ loop.kind \in {"render", "commit"} /\ r # NoRoot
      /\ roots' = IF lanes = {} THEN roots
                  ELSE [roots EXCEPT ![r] = IF loop.kind = "render" THEN rendered
                                            ELSE Committed(rendered)]
      /\ Advance(roots[r].next, NoRoot, loop.didWork \/ lanes # {})
      /\ UNCHANGED <<first, last, didScheduleMicrotask, mightHaveSyncWork, requests,
                     microtask, nextNode, updates>>

(***************************************************************************)
(* scheduled_roots: the list as the walk from its first root.               *)
(***************************************************************************)
WalkFrom(table, start) ==
  LET walk[n \in 0..Cardinality(Root)] ==
        IF n = 0 THEN IF start = NoRoot THEN <<>> ELSE <<start>>
        ELSE LET seen == walk[n - 1]
                 next == IF seen = <<>> THEN NoRoot ELSE table[seen[Len(seen)]].next
             IN  IF next = NoRoot THEN seen ELSE Append(seen, next)
  IN  walk[Cardinality(Root)]

ScheduledRoots == WalkFrom(roots, first)

Listed == LET order == ScheduledRoots IN {order[i] : i \in DOMAIN order}

RecomputeMightHavePendingSyncWork == \E r \in Listed : RootSyncLanes(roots[r]) # {}

FlushEnd ==
  /\ loop.kind \in {"render", "commit"} /\ loop.cursor = NoRoot
  /\ IF loop.kind = "commit" /\ loop.didWork
     THEN /\ loop' = [Idle EXCEPT !.kind = "commit", !.cursor = first]
          /\ UNCHANGED mightHaveSyncWork
     ELSE /\ loop' = Idle
          /\ mightHaveSyncWork' = IF loop.kind = "commit"
                                  THEN RecomputeMightHavePendingSyncWork
                                  ELSE mightHaveSyncWork
  /\ UNCHANGED <<roots, first, last, didScheduleMicrotask, requests, microtask, nextNode, updates>>

-----------------------------------------------------------------------------
Walk == MicrotaskStep \/ MicrotaskEnd \/ FlushStep \/ FlushEnd

RunCallback == \E request \in requests : ExecuteCallback(request)

CommitRendered == \E r \in Root : CommitRoot(r)

SchedulerNext ==
  \/ \E r \in Root, lane \in ScheduledInputs : ScheduleUpdate(r, lane)
  \/ RunCallback
  \/ CommitRendered
  \/ \E kind \in {"render", "commit"} : StartFlush(kind)
  \/ \E requested \in BOOLEAN : StartMicrotask(requested)
  \/ Walk

SchedulerSpec == SchedulerInit /\ [][SchedulerNext]_schedulerVars

(***************************************************************************)
(* A host that commits a rendered root before it updates any, and runs the  *)
(* root schedule only when it was asked to.                                 *)
(***************************************************************************)
DrivenNext ==
  \/ /\ \A r \in Root : roots[r].work = {}
     /\ \E r \in Root, lane \in ScheduledInputs : ScheduleUpdate(r, lane)
  \/ RunCallback
  \/ CommitRendered
  \/ \E kind \in {"render", "commit"} : StartFlush(kind)
  \/ StartMicrotask(TRUE)
  \/ Walk
-----------------------------------------------------------------------------
List == INSTANCE ScheduledRootList WITH order <- ScheduledRoots

(***************************************************************************)
(* The links of the list, threaded through the roots and edited in the      *)
(* middle of a walk, always form a duplicate-free list to which roots are   *)
(* appended and from which single roots are dropped, whatever the order of  *)
(* updates, microtasks and flushes.                                         *)
(***************************************************************************)
ListIsFifo == List!Spec

(***************************************************************************)
(* A root with pending lanes is on the list: the microtask never drops a    *)
(* root that still has work.                                                *)
(***************************************************************************)
PendingRootsAreListed == {r \in Root : roots[r].lanes.pending # {}} \subseteq Listed

(***************************************************************************)
(* A flush that trusts might_have_pending_sync_work misses no sync work.    *)
(* (The microtask clears the flag and sets it again during its walk.)       *)
(***************************************************************************)
SyncWorkIsFlagged ==
  loop.kind # "microtask" /\ (\E r \in Listed : RootSyncLanes(roots[r]) # {})
    => mightHaveSyncWork

(***************************************************************************)
(* A root with a callback node and no render in progress has a callback     *)
(* that the host scheduler will run, and only one that will find its node.  *)
(***************************************************************************)
CallbackIsLive ==
  \A r \in Root : roots[r].node # NoNode /\ roots[r].work = {} =>
    [node |-> roots[r].node, root |-> r] \in requests

HasPriorityOfWork(r) == roots[r].priority = HighestPriorityLane(PriorityLanes(roots[r]))

Served(r) ==
  \/ /\ roots[r].priority = SyncLane
     /\ RootSyncLanes(roots[r]) # {}
     /\ mightHaveSyncWork
  \/ /\ HasPriorityOfWork(r)
     /\ [node |-> roots[r].node, root |-> r] \in requests \/ CanCommit(roots[r])

(***************************************************************************)
(* The exception: the callback of the root has run, an update overtook its  *)
(* render, and the update is no more urgent than the callback was.  The     *)
(* commit is refused and the node of the spent callback reused: the root    *)
(* waits until an update of another priority arrives.                       *)
(***************************************************************************)
Overtaken(r) ==
  /\ HasPriorityOfWork(r)
  /\ roots[r].work # {} /\ ~ CanCommit(roots[r])

(***************************************************************************)
(* When the microtask has walked the list, every root on it whose render    *)
(* was not overtaken by an update will be worked on at the priority of its  *)
(* most urgent lanes: by a sync flush that is not skipped, by a callback,   *)
(* or by the commit of its render, which will be accepted.                  *)
(***************************************************************************)
MicrotaskServesEveryRoot ==
  loop.kind = "microtask" /\ loop.cursor = NoRoot =>
    \A r \in Listed : Served(r) \/ Overtaken(r)

(***************************************************************************)
(* The callbacks the roots count on are live, and after the microtask every *)
(* root with work has a callback, a flush or a commit ahead of it, unless   *)
(* its render was overtaken by an update no more urgent than its callback.  *)
(***************************************************************************)
RootsAreServed == CallbackIsLive /\ MicrotaskServesEveryRoot

(***************************************************************************)
(* With the host of DrivenNext, which commits every render before the next  *)
(* update and runs the root schedule only when asked to, and updates of one *)
(* lane, every root with pending lanes is committed: no order of updates,   *)
(* microtasks, flushes and callbacks of several roots leaves one waiting.   *)
(* It is false of SchedulerNext, where an update may overtake a render, and *)
(* of updates of sync and other lanes, where a flush forgets the others.    *)
(***************************************************************************)
RootsSettle == \A r \in Root : roots[r].lanes.pending # {} ~> roots[r].lanes.pending = {}
=============================================================================
