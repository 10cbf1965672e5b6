--------------------------- MODULE HookStateQueue ---------------------------
(***************************************************************************)
(* The update queue of a state hook                                         *)
(* (crates/fast-react-core/src/hook_state_queue.rs), as a function          *)
(* component drives it: dispatches, renders of a copy of the current hook,  *)
(* commits.                                                                 *)
(*                                                                         *)
(* Unlike UpdateQueue this is the level of the links: pending updates and   *)
(* base updates are circular lists threaded through one store, known by     *)
(* their last element.  A state is the sequence of the updates that         *)
(* produced it.                                                             *)
(*                                                                         *)
(* A render is committed before the next one: the merged pending updates    *)
(* are in the hook of the work in progress only.                            *)
(***************************************************************************)
EXTENDS Integers, SequencesExt, FiniteSetsExt

CONSTANTS
  HookLanes,       \* the lanes of updates and renders
  RevertLanes,     \* the lanes at which an optimistic update is taken back
  MaxDispatches,
  MaxHookRenders

HookQueueConstants ==
  RevertLanes \subseteq HookLanes /\ MaxDispatches \in Nat /\ MaxHookRenders \in Nat

VARIABLES
  store,           \* the updates, clones included; an id is an index
  pending,         \* the last update of the pending ring, or None
  lastRendered,    \* last_rendered_state
  currentHook,     \* the committed HookStateSlot
  workHook,        \* the slot of the work in progress
  rendering,       \* is there a work in progress?
  remaining,       \* the remaining lanes of the latest render
  hookRenders,     \* number of renders
  \* history: what was dispatched, how much of it the latest render knew, which updates had
  \* their lane rendered, and which were taken back
  dispatched, known, reached, reverted

hookVars == <<store, pending, lastRendered, currentHook, workHook, rendering, remaining,
              hookRenders, dispatched, known, reached, reverted>>

None == 0

NewSlot == [memoized |-> <<>>, baseState |-> <<>>, baseQueue |-> None]

Init ==
  /\ store = <<>> /\ pending = None /\ lastRendered = <<>>
  /\ currentHook = NewSlot /\ workHook = NewSlot /\ rendering = FALSE
  /\ remaining = {} /\ hookRenders = 0
  /\ dispatched = <<>> /\ known = 0 /\ reached = {} /\ reverted = {}

-----------------------------------------------------------------------------
(***************************************************************************)
(* collect_ring_ids: from the successor of the tail to the tail.            *)
(***************************************************************************)
Ring(updates, tail) ==
  IF tail = None THEN <<>>
  ELSE LET walk[i \in 1 .. Len(updates)] ==
             updates[IF i = 1 THEN tail ELSE walk[i - 1]].next
           length == Min({i \in DOMAIN walk : walk[i] = tail})
       IN  SubSeq(walk, 1, length)

(***************************************************************************)
(* append_pending_update: the newest update is the tail and points at the   *)
(* oldest.                                                                  *)
(***************************************************************************)
AppendPendingUpdate(updates, tail, id) ==
  IF tail = None THEN [updates EXCEPT ![id].next = id]
  ELSE [updates EXCEPT ![id].next = updates[tail].next, ![tail].next = id]

(***************************************************************************)
(* merge_pending_into_base_queue: the two rings exchange their first        *)
(* elements, which makes them one; its tail is the newest pending update.   *)
(***************************************************************************)
\* Seeded fault: the tail of the base ring remains the tail of the merged one.
MergeKeepsBaseTail(updates, baseTail, tail) ==
  CASE tail = None     -> [store |-> updates, tail |-> baseTail]
    [] baseTail = None -> [store |-> updates, tail |-> tail]
    [] OTHER           -> [store |-> [updates EXCEPT ![baseTail].next = updates[tail].next,
                                                     ![tail].next = updates[baseTail].next],
                           tail  |-> baseTail]

MergePendingIntoBaseQueue(updates, baseTail, tail) ==
  CASE tail = None     -> [store |-> updates, tail |-> baseTail]
    [] baseTail = None -> [store |-> updates, tail |-> tail]
    [] OTHER           -> [store |-> [updates EXCEPT ![baseTail].next = updates[tail].next,
                                                     ![tail].next = updates[baseTail].next],
                           tail  |-> tail]

(***************************************************************************)
(* reduce_hook_update: an eager state replaces the call of the reducer.     *)
(***************************************************************************)
ReduceHookUpdate(state, update, allowEager) ==
  IF allowEager /\ update.eager # {} THEN CHOOSE s \in update.eager : TRUE
  ELSE Append(state, update.id)

(***************************************************************************)
(* append_to_new_base_queue with the base state in front of the first       *)
(* update that is kept.                                                     *)
(***************************************************************************)
Keep(acc, update) ==
  [acc EXCEPT !.kept = Append(@, update),
              !.baseState = IF acc.kept = <<>> THEN acc.state ELSE @]

(***************************************************************************)
(* The loop of process_update_queue: skip, apply, take back, or apply until *)
(* the revert lane is rendered.  Behind a kept update everything is kept;   *)
(* an applied update is then kept without a lane.                           *)
(***************************************************************************)
ProcessUpdate(acc, update, renderLanes) ==
  CASE ~ (update.lanes \subseteq renderLanes) ->
         [Keep(acc, update) EXCEPT !.remaining = @ \union update.lanes]
    [] update.lanes \subseteq renderLanes /\ update.revert = {} ->
         [(IF acc.kept = <<>> THEN acc ELSE Keep(acc, [update EXCEPT !.lanes = {}]))
            EXCEPT !.state = ReduceHookUpdate(@, update, TRUE)]
    [] update.lanes \subseteq renderLanes /\ update.revert # {}
         /\ update.revert \subseteq renderLanes -> acc
    [] OTHER ->
         [Keep(acc, [update EXCEPT !.lanes = {}])
            EXCEPT !.state = ReduceHookUpdate(@, update, FALSE),
                   !.remaining = @ \union update.revert]

\* The clones that are kept, inserted behind the updates and closed to a ring.
Cloned(updates, kept) ==
  updates \o [i \in DOMAIN kept |->
                [kept[i] EXCEPT !.next = Len(updates) + (i % Len(kept)) + 1]]

(***************************************************************************)
(* process_update_queue on a slot.                                          *)
(***************************************************************************)
ProcessUpdateQueue(updates, slot, tail, renderLanes) ==
  LET merged == MergePendingIntoBaseQueue(updates, slot.baseQueue, tail)
      ring   == Ring(merged.store, merged.tail)
      start  == [state |-> slot.baseState, kept |-> <<>>, baseState |-> slot.baseState,
                 remaining |-> {}]
      result == FoldLeft(LAMBDA acc, id : ProcessUpdate(acc, merged.store[id], renderLanes),
                         start, ring)
      stored == Cloned(merged.store, result.kept)
  IN  [store     |-> stored,
       slot      |-> [memoized  |-> result.state,
                      baseState |-> IF result.kept = <<>> THEN result.state ELSE result.baseState,
                      baseQueue |-> IF result.kept = <<>> THEN None ELSE Len(stored)],
       empty     |-> ring = <<>>,
       remaining |-> result.remaining]

-----------------------------------------------------------------------------
(***************************************************************************)
(* The caller computes an eager state only when nothing is queued; the code *)
(* checks that it was computed from the state rendered last.                *)
(***************************************************************************)
NothingQueued == pending = None /\ remaining = {}

(***************************************************************************)
(* dispatch_state_update.                                                   *)
(***************************************************************************)
DispatchStateUpdate(lane, revert, eager) ==
  /\ Len(dispatched) < MaxDispatches
  /\ eager => NothingQueued
  /\ LET id     == Len(dispatched) + 1
         update == [id |-> id, lanes |-> {lane}, revert |-> revert, next |-> None,
                    eager |-> IF eager THEN {Append(lastRendered, id)} ELSE {}]
     IN  /\ store' = AppendPendingUpdate(Append(store, update), pending, Len(store) + 1)
         /\ pending' = Len(store) + 1
  /\ dispatched' = Append(dispatched, [lane |-> lane, revert |-> revert])
  /\ UNCHANGED <<lastRendered, currentHook, workHook, rendering, remaining, hookRenders, known,
                 reached, reverted>>

(***************************************************************************)
(* update_state_hook_with_queued_updates: the current hook is copied to the *)
(* list of the work in progress, and its queue is processed there.          *)
(***************************************************************************)
UpdateStateHook(renderLanes) ==
  /\ ~ rendering
  /\ hookRenders < MaxHookRenders
  /\ LET result == ProcessUpdateQueue(store, currentHook, pending, renderLanes)
     IN  /\ store' = result.store
         /\ workHook' = result.slot
         /\ remaining' = result.remaining
         /\ lastRendered' = IF result.empty THEN lastRendered ELSE result.slot.memoized
  /\ pending' = None
  /\ rendering' = TRUE
  /\ hookRenders' = hookRenders + 1
  /\ known' = Len(dispatched)
  /\ reached' = reached \union {i \in DOMAIN dispatched : dispatched[i].lane \in renderLanes}
  /\ reverted' = reverted \union
                   {i \in reached' : /\ dispatched[i].revert # {}
                                     /\ dispatched[i].revert \subseteq renderLanes}
  /\ UNCHANGED <<currentHook, dispatched>>

(***************************************************************************)
(* commit_effect_queue_for_render_state: the list of the work in progress   *)
(* becomes the current one.                                                 *)
(***************************************************************************)
CommitHookList ==
  /\ rendering
  /\ currentHook' = workHook
  /\ rendering' = FALSE
  /\ UNCHANGED <<store, pending, lastRendered, workHook, remaining, hookRenders, dispatched,
                 known, reached, reverted>>

Next ==
  \/ \E lane \in HookLanes, revert \in {{}} \union {{l} : l \in RevertLanes}, eager \in BOOLEAN :
       DispatchStateUpdate(lane, revert, eager)
  \/ \E renderLanes \in SUBSET HookLanes : UpdateStateHook(renderLanes)
  \/ CommitHookList

Spec == Init /\ [][Next]_hookVars

-----------------------------------------------------------------------------
(***************************************************************************)
(* Whatever renders skipped, rebased and took back, a render shows exactly  *)
(* the updates whose lane was ever rendered and that were not taken back,   *)
(* in the order of their dispatch, eager states included; and the lanes it  *)
(* reports as remaining are those of the updates that still wait to be      *)
(* shown or taken back (process_update_queue).                              *)
(***************************************************************************)
HookShowsWhatWasReached ==
  LET there == (1 .. known) \ reverted
  IN  /\ workHook.memoized =
           SelectSeq([i \in 1 .. known |-> i], LAMBDA i : i \in reached \ reverted)
      /\ remaining = {dispatched[i].lane : i \in there \ reached}
                       \union UNION {dispatched[i].revert : i \in there \cap reached}
=============================================================================
