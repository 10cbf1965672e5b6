----------------------------- MODULE HostRoot -----------------------------
(***************************************************************************)
(* One HostRoot from update to commit: update_container and the concurrent  *)
(* staging area (root_updates.rs, concurrent_updates.rs), the render phase  *)
(* (root_work_loop/render_phase.rs) and the commit of its result            *)
(* (root_commit.rs).  The four are separate public calls, so anything may   *)
(* happen between a render and the commit of its record.                    *)
(*                                                                         *)
(* The two HostRoot fibers are 1 and 2.  A queue handle is an index of      *)
(* queues; every render inserts one memoized state, whose handle is the     *)
(* handle of the queue it was computed with.  A HostRoot without children   *)
(* has no child lanes.                                                      *)
(***************************************************************************)
EXTENDS RootLaneState, UpdateQueue

CONSTANTS
  UpdateInputs,   \* lanes update_container may be given
  StageInputs,    \* lanes of updates staged without draining
  CallbackIds,    \* the updates that carry a callback, by order of creation
  MaxUpdates,     \* bound on the updates created
  MaxRenders      \* bound on the renders

ASSUME HostRootAssumption ==
  /\ UpdateInputs \subseteq Lane
  /\ StageInputs \subseteq Lane \ TransitionLanes
  /\ CallbackIds \subseteq Nat
  /\ MaxUpdates \in Nat
  /\ MaxRenders \in Nat

VARIABLES
  lanes,      \* root.lanes()
  current,    \* root.current(): fiber 1 or 2
  fibers,     \* lanes, queue and memoized state handle of the two HostRoot fibers
  queues,     \* UpdateQueueStore: the queues by handle
  work,       \* scheduling().work_in_progress and its render lanes
  records,    \* the HostRootRenderPhaseRecords handed to the caller
  staged,     \* ConcurrentUpdates: the staged tuples
  created,    \* number of updates created
  enqueued,   \* history: the drained updates, in order
  shown,      \* history: memoized state of the current fiber
  fired,      \* history: callbacks handed out by commits
  commits     \* history: the queue handles of the committed renders

vars == <<lanes, current, fibers, queues, work, records, staged, created,
          enqueued, shown, fired, commits>>

Fiber == {1, 2}
Other(fiber) == 3 - fiber
NoWork == [fiber |-> 0, lanes |-> {}]

CurrentQueue == queues[fibers[current].queue]

Init ==
  /\ lanes = NewRootLaneState
  /\ current = 1
  /\ fibers = [f \in Fiber |-> [lanes |-> {}, queue |-> 1, state |-> 1]]
  /\ queues = <<EmptyQueue>>
  /\ work = NoWork
  /\ records = <<>>
  /\ staged = <<>>
  /\ created = 0
  /\ enqueued = <<>>
  /\ shown = <<>>
  /\ fired = <<>>
  /\ commits = <<>>

(***************************************************************************)
(* enqueue_concurrent_host_root_update: marks the fiber and its alternate,  *)
(* then stages the tuple.  (Marking an alternate that no render has created *)
(* yet is without effect: the render overwrites its lanes.)                 *)
(***************************************************************************)
MarkSourceFiberLanes(marked) ==
  [f \in Fiber |-> [fibers[f] EXCEPT !.lanes = @ \cup marked]]

StagedWith(update) ==
  Append(staged, [update |-> update, fiber |-> current, queue |-> fibers[current].queue])

(***************************************************************************)
(* validate_staged_concurrent_updates_for_drain: a tuple is refused once    *)
(* its fiber is not current or was given another queue by a render.         *)
(***************************************************************************)
Drainable(entry) ==
  /\ entry.queue = fibers[entry.fiber].queue
  /\ entry.fiber = current

(***************************************************************************)
(* finish_queueing_concurrent_updates: all tuples or none.  Draining marks   *)
(* the fibers again: a render may have overwritten the first marks.         *)
(***************************************************************************)
UpdatesOf(entries) == [i \in DOMAIN entries |-> entries[i].update]

Drained(entries) ==
  [queues EXCEPT ![fibers[current].queue] = AppendPendingUpdates(@, UpdatesOf(entries))]

DrainedLanes(entries) == MarkAllUpdated(lanes, LanesOf(UpdatesOf(entries)))

\* Seeded fault: draining relies on the marks left by staging.
DrainUnmarked(entries) ==
  /\ \A i \in DOMAIN staged : Drainable(staged[i])
  /\ fibers' = fibers
  /\ enqueued' = enqueued \o Ids(UpdatesOf(entries))
  /\ staged' = <<>>

Drain(entries) ==
  /\ \A i \in DOMAIN staged : Drainable(staged[i])
  /\ fibers' = MarkSourceFiberLanes(LanesOf(UpdatesOf(entries)))
  /\ enqueued' = enqueued \o Ids(UpdatesOf(entries))
  /\ staged' = <<>>

FinishQueueingConcurrentUpdates ==
  /\ staged # <<>>
  /\ Drain(staged)
  /\ lanes' = DrainedLanes(staged)
  /\ queues' = Drained(staged)
  /\ UNCHANGED <<current, work, records, created, shown, fired, commits>>

StageUpdate(lane) ==
  /\ created < MaxUpdates
  /\ created' = created + 1
  /\ fibers' = MarkSourceFiberLanes({lane})
  /\ staged' = StagedWith(NewUpdate(created', lane, created' \in CallbackIds))
  /\ UNCHANGED <<lanes, current, queues, work, records, enqueued, shown, fired, commits>>

(***************************************************************************)
(* update_container_impl: stage, drain at once, entangle a transition with  *)
(* the other transitions of the queue.                                      *)
(***************************************************************************)
UpdateContainer(lane) ==
  LET id        == created + 1
      entries   == StagedWith(NewUpdate(id, lane, id \in CallbackIds))
      marked    == DrainedLanes(entries)
      appended  == Drained(entries)
      handle    == fibers[current].queue
      entangled == EntangleTransitionUpdate(appended[handle], marked.pending, lane)
  IN  /\ created < MaxUpdates
      /\ created' = id
      /\ Drain(entries)
      /\ IF lane \in TransitionLanes
         THEN /\ lanes' = MarkEntangled(marked, entangled)
              /\ queues' = [appended EXCEPT ![handle].lanes = entangled]
         ELSE /\ lanes' = marked
              /\ queues' = appended
      /\ UNCHANGED <<current, work, records, shown, fired, commits>>

(***************************************************************************)
(* A tuple that cannot be drained fails the call after its own tuple was    *)
(* staged and its lane marked on the fibers.                                *)
(***************************************************************************)
UpdateContainerFails(lane) ==
  /\ \E i \in DOMAIN staged : ~ Drainable(staged[i])
  /\ StageUpdate(lane)

(***************************************************************************)
(* render_host_root_for_lanes.  The work-in-progress fiber is cloned from   *)
(* the current one, gets a clone of its queue and the lanes that remain;    *)
(* pending updates are moved to the base of both queues.                    *)
(***************************************************************************)
RenderHostRootForLanes(renderLanes) ==
  LET wip    == Other(current)
      moved  == TransferPendingToBaseQueue(CurrentQueue)
      result == ProcessHostRootUpdateQueue(CloneHostRootUpdateQueue(moved), renderLanes)
      handle == Len(queues) + 1
  IN  /\ Len(records) < MaxRenders
      /\ queues' = Append([queues EXCEPT ![fibers[current].queue] = moved], result.queue)
      /\ fibers' = [fibers EXCEPT ![wip] = [lanes |-> result.remaining,
                                            queue |-> handle, state |-> handle]]
      /\ work' = [fiber |-> wip, lanes |-> renderLanes]
      /\ records' = Append(records,
           [current |-> current, finished |-> wip, lanes |-> renderLanes,
            remaining |-> result.remaining, currentQueue |-> fibers[current].queue,
            queue |-> handle, memoized |-> result.memoized])
      /\ UNCHANGED <<lanes, current, staged, created, enqueued, shown, fired, commits>>

(***************************************************************************)
(* The lanes the scheduler renders: those of a scheduled task, or the sync  *)
(* ones of a flush (sync_flush_lanes_for_root).                             *)
(***************************************************************************)
SyncFlushLanes(s) ==
  EntangledLanesFor(s, HighestPriorityLanes(s.pending)) \cap {SyncHydrationLane, SyncLane}

RenderChoices ==
  {SelectedNextLanes(lanes, work.lanes, FALSE), SyncFlushLanes(lanes)} \ {{}}

(***************************************************************************)
(* validate_finished_host_root.                                             *)
(***************************************************************************)
\* Seeded fault: the handles of the record are not compared with the fibers'.
FinishedWithoutHandles(record) ==
  /\ record.current = current
  /\ record.finished # current
  /\ work = [fiber |-> record.finished, lanes |-> record.lanes]
  /\ fibers[record.finished].lanes = record.remaining
  /\ record.lanes # {}

FinishedHostRoot(record) ==
  /\ record.lanes # {}
  /\ record.current = current
  /\ record.finished # current
  /\ work = [fiber |-> record.finished, lanes |-> record.lanes]
  /\ fibers[record.finished].state = record.queue
  /\ fibers[record.current].queue = record.currentQueue
  /\ fibers[record.finished].queue = record.queue
  /\ fibers[record.finished].lanes = record.remaining

(***************************************************************************)
(* commit_finished_host_root.  A record that fails the validation leaves    *)
(* everything as it is.                                                     *)
(***************************************************************************)
CommitFinishedHostRoot(record) ==
  LET callbacks == TakeRootUpdateCallbackRecords(queues[record.queue])
  IN  /\ FinishedHostRoot(record)
      /\ lanes' = MarkFinished(lanes, record.lanes, record.remaining, NoLane, {}, {})
      /\ current' = record.finished
      /\ work' = NoWork
      /\ fired' = fired \o callbacks.taken
      /\ queues' = [queues EXCEPT ![record.queue] = callbacks.queue]
      /\ shown' = record.memoized
      /\ commits' = Append(commits, record.queue)
      /\ UNCHANGED <<fibers, records, staged, created, enqueued>>

Update ==
  \/ \E lane \in UpdateInputs : UpdateContainer(lane) \/ UpdateContainerFails(lane)
  \/ \E lane \in StageInputs : StageUpdate(lane)

Render == \E renderLanes \in RenderChoices : RenderHostRootForLanes(renderLanes)

Commit == \E i \in DOMAIN records : CommitFinishedHostRoot(records[i])

Next == Update \/ FinishQueueingConcurrentUpdates \/ Render \/ Commit

Spec == Init /\ [][Next]_vars

(***************************************************************************)
(* The root as sync_flush.rs drives it: a finished render is committed      *)
(* before the caller gets the store back, so no update comes between.       *)
(***************************************************************************)
UninterruptedNext ==
  \/ work = NoWork /\ (Update \/ FinishQueueingConcurrentUpdates \/ Render)
  \/ Commit
-----------------------------------------------------------------------------
(***************************************************************************)
(* The lanes the root has pending are those of the updates in the current   *)
(* queue: no update waits without a lane that will render it, and no lane   *)
(* is rendered for nothing.                                                 *)
(***************************************************************************)
PendingLanesAreQueued == lanes.pending = LanesOf(QueuedUpdates(CurrentQueue))

(***************************************************************************)
(* The callbacks handed out so far are those of the updates on screen, each *)
(* once, however often an update was skipped, rebased or rendered in vain.  *)
(***************************************************************************)
CallbacksMatchShownState ==
  /\ IsInjective(fired)
  /\ Range(fired) = Range(shown) \cap CallbackIds

InInsertionOrder(updates) ==
  \A i, j \in DOMAIN updates : i < j => updates[i] < updates[j]

(***************************************************************************)
(* A commit never takes an update off the screen again, and what it shows   *)
(* is in insertion order: an update applied past a skipped one is applied   *)
(* again, in its place, by the render of the skipped one.                   *)
(***************************************************************************)
ShownIsNeverUndone ==
  [][Range(shown) \subseteq Range(shown') /\ InInsertionOrder(shown')]_vars

(***************************************************************************)
(* A render record is committed at most once and never after a later one,   *)
(* also when the two fibers and the lanes are the same again.               *)
(***************************************************************************)
CommitsAreFresh ==
  \A i, j \in DOMAIN commits : i < j => commits[i] < commits[j]

(***************************************************************************)
(* A commit that would pass its validation has rendered or skipped a lane   *)
(* of every update of the current queue: an update that arrives after the   *)
(* render on a lane of its own makes the commit fail, also when it was      *)
(* staged before the render and drained after it.                           *)
(***************************************************************************)
CommitRejectsFreshLanes ==
  \A i \in DOMAIN records : FinishedHostRoot(records[i]) =>
    LanesOf(CurrentQueue.pending) \subseteq records[i].remaining

(***************************************************************************)
(* A render record is committed at most once and never after a later one,   *)
(* and only when no update arrived after it on a lane it knows nothing of   *)
(* (commit_finished_host_root).                                             *)
(***************************************************************************)
CommitsAreCurrent == CommitsAreFresh /\ CommitRejectsFreshLanes

(***************************************************************************)
(* Transitions with updates in the same queue are rendered together: they   *)
(* stay entangled through renders, rejected commits and partial commits.    *)
(***************************************************************************)
QueuedTransitionsEntangled ==
  LET queued == LanesOf(QueuedUpdates(CurrentQueue)) \cap TransitionLanes
  IN  \A l \in queued : queued \subseteq EntangledLanesFor(lanes, {l})

(***************************************************************************)
(* No update is lost: the base state, the base queue and the pending ring   *)
(* of the current queue are all drained updates in insertion order          *)
(* (update_queue.rs: "updates in insertion order, with a shared circular    *)
(* pending ring and a linear base queue").                                  *)
(***************************************************************************)
QueueHoldsEveryUpdate == History(CurrentQueue) = enqueued

(***************************************************************************)
(* Between renders every staged update can be drained (concurrent_updates:  *)
(* staged updates are drained "after the current render boundary").         *)
(***************************************************************************)
StagedUpdatesDrain ==
  work = NoWork => \A i \in DOMAIN staged : Drainable(staged[i])

(***************************************************************************)
(* Every drained update is on screen in the end.                            *)
(***************************************************************************)
EveryUpdateIsShown ==
  \A id \in 1..MaxUpdates : id \in Range(enqueued) ~> id \in Range(shown)
=============================================================================
