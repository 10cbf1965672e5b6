---------------------------- MODULE UpdateQueue ----------------------------
(***************************************************************************)
(* The update queue of a HostRoot fiber                                     *)
(* (crates/fast-react-reconciler/src/update_queue.rs).                      *)
(*                                                                         *)
(* The linear base list and the circular pending ring are sequences in      *)
(* insertion order.  A HostRootState is the sequence of the updates that    *)
(* produced it, the finest state apply_root_update can tell apart.          *)
(***************************************************************************)
EXTENDS Lanes, SequencesExt, FiniteSetsExt

NewUpdate(id, lane, callback) == [id |-> id, lanes |-> {lane}, callback |-> callback]

EmptyQueue ==
  [baseState |-> <<>>, base |-> <<>>, pending |-> <<>>, lanes |-> {}, callbacks |-> <<>>]

Ids(updates) == [i \in DOMAIN updates |-> updates[i].id]

LanesOf(updates) == UNION {updates[i].lanes : i \in DOMAIN updates}

(***************************************************************************)
(* The updates of a queue, oldest first, applied ones included.             *)
(***************************************************************************)
History(q) == q.baseState \o Ids(q.base) \o Ids(q.pending)

QueuedUpdates(q) == q.base \o q.pending

CloneHostRootUpdateQueue(q) == [q EXCEPT !.callbacks = <<>>]

(***************************************************************************)
(* take_root_update_callback_records: the callbacks of the queue are handed *)
(* out and forgotten.                                                       *)
(***************************************************************************)
TakeRootUpdateCallbackRecords(q) == [taken |-> q.callbacks, queue |-> [q EXCEPT !.callbacks = <<>>]]

\* One append_pending_update after the other.
AppendPendingUpdates(q, updates) == [q EXCEPT !.pending = @ \o updates]

(***************************************************************************)
(* entangle_transition_update: which lanes the queue's transitions share.   *)
(***************************************************************************)
\* Seeded fault: the queue only remembers its latest transition.
LatestTransitionOnly(q, rootPending, lane) == {lane}

EntangleTransitionUpdate(q, rootPending, lane) == (q.lanes \cap rootPending) \cup {lane}

TransferPendingToBaseQueue(q) == [q EXCEPT !.base = @ \o q.pending, !.pending = <<>>]

\* One apply_root_update after the other.
ApplyRootUpdates(state, updates) == state \o Ids(updates)

Skipped(update, renderLanes) == ~ (update.lanes \subseteq renderLanes)

FirstSkipped(updates, renderLanes) ==
  LET skipped == {i \in DOMAIN updates : Skipped(updates[i], renderLanes)}
  IN  IF skipped = {} THEN Len(updates) + 1 ELSE Min(skipped)

(***************************************************************************)
(* From the first skipped update on, everything stays in the base queue;    *)
(* an applied update is then kept without lane and callback, so that it is  *)
(* applied again by every later render and its callback is not.             *)
(***************************************************************************)
\* Seeded fault: an applied update that is kept for rebasing keeps its callback.
RebaseWithCallback(update, renderLanes) ==
  IF Skipped(update, renderLanes) THEN update ELSE [update EXCEPT !.lanes = {}]

\* Seeded fault: an applied update that is kept for rebasing keeps its lane.
RebaseWithLane(update, renderLanes) ==
  IF Skipped(update, renderLanes) THEN update ELSE [update EXCEPT !.callback = FALSE]

Rebase(update, renderLanes) ==
  IF Skipped(update, renderLanes) THEN update
  ELSE [update EXCEPT !.lanes = {}, !.callback = FALSE]

\* Seeded fault: only the skipped updates stay in the base queue.
SkippedOnly(updates, renderLanes) ==
  SelectSeq(updates, LAMBDA u : Skipped(u, renderLanes))

RebasedQueue(updates, renderLanes) ==
  LET first == FirstSkipped(updates, renderLanes)
  IN  [i \in 1..(Len(updates) + 1 - first) |-> Rebase(updates[first + i - 1], renderLanes)]

(***************************************************************************)
(* The loop over the base queue: the updates at the given places, in order. *)
(***************************************************************************)
UpdatesAt(updates, places) ==
  LET taken[n \in 0..Len(updates)] ==
        IF n = 0 THEN <<>>
        ELSE IF n \in places THEN Append(taken[n - 1], updates[n]) ELSE taken[n - 1]
  IN  taken[Len(updates)]

(***************************************************************************)
(* process_host_root_update_queue, after the pending ring was transferred:  *)
(* the queue it leaves, the memoized state and the remaining lanes.         *)
(***************************************************************************)
ProcessHostRootUpdateQueue(q, renderLanes) ==
  LET updates == q.base
      skipped == {i \in DOMAIN updates : Skipped(updates[i], renderLanes)}
      applied == DOMAIN updates \ skipped
      called  == {i \in applied : updates[i].callback}
      before  == SubSeq(updates, 1, FirstSkipped(updates, renderLanes) - 1)
      kept    == RebasedQueue(updates, renderLanes)
  IN  [queue     |-> [q EXCEPT
                        !.baseState = ApplyRootUpdates(@, before),
                        !.base = kept,
                        !.lanes = IF kept = <<>> THEN {} ELSE @,
                        !.callbacks = @ \o Ids(UpdatesAt(updates, called))],
       memoized  |-> ApplyRootUpdates(q.baseState, UpdatesAt(updates, applied)),
       remaining |-> UNION {updates[i].lanes : i \in skipped}]
=============================================================================
