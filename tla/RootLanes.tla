----------------------------- MODULE RootLanes -----------------------------
(***************************************************************************)
(* The lane bookkeeping of one root driven the way a reconciler drives it:  *)
(* updates arrive, a render picks lanes, suspends or finishes, thenables    *)
(* ping, a timer looks for starved lanes, transitions get entangled.        *)
(* Every step is one call of a RootLaneState method                         *)
(* (crates/fast-react-core/src/root_lanes.rs).                              *)
(***************************************************************************)
EXTENDS RootLaneState

CONSTANTS
  UpdateInputs,     \* lanes an update may have
  EntangleInputs,   \* transition lanes that share an update queue
  SpawnInputs,      \* deferred lanes a render may spawn
  AuxInputs,        \* lanes forced to expire, to sync, hidden, unrecoverable
  MaxTime,          \* bound on the clock
  MaxHidden         \* bound on a hidden update counter

ASSUME InputAssumption ==
  /\ UpdateInputs \subseteq Lane
  /\ EntangleInputs \subseteq Lane
  /\ SpawnInputs \subseteq Lane
  /\ AuxInputs \subseteq Lane
  /\ MaxTime \in Nat
  /\ MaxHidden \in Nat

VARIABLES
  root,        \* the RootLaneState
  wip,         \* lanes of the render in progress, {} for none
  now,         \* current_time of the calls
  readySince,  \* history: since when a pending lane could have been worked on
  ties,        \* history: pairs of lanes entangled while both stayed pending
  attempted    \* history: lanes that suspended after a full attempt, not woken since

vars == <<root, wip, now, readySince, ties, attempted>>

(***************************************************************************)
(* The type invariant: the lane sets of the root hold its lanes, a time is  *)
(* none or a natural number, and a count of hidden updates, a usize, never  *)
(* goes below 0 however updates are hidden, revealed and finished.          *)
(***************************************************************************)
TypeOK ==
  /\ root \in RootLaneStates
  /\ wip \subseteq Lane
  /\ now \in Nat
  /\ readySince \in [Lane -> Nat \cup {NoTimestamp}]
  /\ ties \subseteq Lane \X Lane
  /\ attempted \subseteq Lane

Init ==
  /\ root = NewRootLaneState
  /\ wip = {}
  /\ now = 0
  /\ readySince = [l \in Lane |-> NoTimestamp]
  /\ ties = {}
  /\ attempted = {}

(***************************************************************************)
(* The history of a step to root': lanes that stop being pending have no    *)
(* start, lanes that become pending or are in restarted start now.          *)
(***************************************************************************)
Restart(restarted) ==
  readySince' = [l \in Lane |-> IF l \notin root'.pending THEN NoTimestamp
                                ELSE IF l \notin root.pending \/ l \in restarted THEN now
                                ELSE readySince[l]]

Update(lane) ==
  /\ root' = MarkUpdated(root, lane)
  /\ Restart({})
  /\ attempted' = IF lane = IdleLane THEN attempted ELSE {}
  /\ UNCHANGED <<wip, now, ties>>

(***************************************************************************)
(* The scheduler asks for lanes and starts, or restarts, a render.          *)
(***************************************************************************)
Render(rootHasPendingCommit) ==
  /\ SelectedNextLanes(root, wip, rootHasPendingCommit) \notin {{}, wip}
  /\ wip' = SelectedNextLanes(root, wip, rootHasPendingCommit)
  /\ UNCHANGED <<root, now, readySince, ties, attempted>>

Suspend(spawned, didAttemptEntireTree) ==
  /\ wip # {}
  /\ root' = MarkSuspended(root, wip, spawned, didAttemptEntireTree)
  /\ wip' = {}
  /\ Restart(wip)
  /\ attempted' = (IF didAttemptEntireTree THEN attempted \cup wip ELSE attempted) \ {spawned}
  /\ UNCHANGED <<now, ties>>

Finish(remaining, spawned, suspendedRetry) ==
  /\ wip # {}
  /\ root' = MarkFinished(root, wip, remaining, spawned, {}, suspendedRetry)
  /\ wip' = {}
  /\ Restart(root.pending \ remaining)
  /\ ties' = {p \in ties : p[1] \in root.pending \cap remaining
                        /\ p[2] \in root.pending \cap remaining}
  /\ attempted' = {}
  /\ UNCHANGED now

Ping(lane) ==
  /\ lane \in root.suspended
  /\ root' = MarkPinged(root, {lane})
  /\ attempted' = attempted \ {lane}
  /\ UNCHANGED <<wip, now, readySince, ties>>

Entangle(lanes) ==
  /\ lanes \subseteq root.pending
  /\ root' = MarkEntangled(root, lanes)
  /\ ties' = ties \cup (lanes \X lanes)
  /\ UNCHANGED <<wip, now, readySince, attempted>>

UpgradeToSync(lane) ==
  /\ lane \in root.pending
  /\ root' = UpgradePendingLanesToSync(root, {lane})
  /\ Restart({})
  /\ UNCHANGED <<wip, now, ties, attempted>>

CheckStarved ==
  /\ root' = MarkStarvedLanesAsExpired(root, now)
  /\ UNCHANGED <<wip, now, readySince, ties, attempted>>

ForceExpired(lane) ==
  /\ lane \in root.pending
  /\ root' = MarkExpired(root, {lane})
  /\ UNCHANGED <<wip, now, readySince, ties, attempted>>

DisableErrorRecovery(lane) ==
  /\ lane \in root.pending
  /\ root' = MarkErrorRecoveryDisabled(root, {lane})
  /\ UNCHANGED <<wip, now, readySince, ties, attempted>>

HideUpdate(lane) ==
  /\ root.hiddenUpdateCounts[lane] < MaxHidden
  /\ root' = MarkHiddenUpdate(root, lane)
  /\ UNCHANGED <<wip, now, readySince, ties, attempted>>

RevealUpdates(lane) ==
  /\ root' = ClearHiddenUpdates(root, {lane})
  /\ UNCHANGED <<wip, now, readySince, ties, attempted>>

Tick ==
  /\ now < MaxTime
  /\ now' = now + 1
  /\ UNCHANGED <<root, wip, readySince, ties, attempted>>

Next ==
  \/ \E lane \in UpdateInputs : Update(lane)
  \/ \E pendingCommit \in BOOLEAN : Render(pendingCommit)
  \/ \E spawned \in SpawnInputs \cup {NoLane}, entire \in BOOLEAN : Suspend(spawned, entire)
  \/ \E remaining \in SUBSET root.pending, spawned \in SpawnInputs \cup {NoLane},
        retry \in SUBSET (UpdateInputs \cap RetryLanes) : Finish(remaining, spawned, retry)
  \/ \E lane \in Lane : Ping(lane)
  \/ \E lanes \in SUBSET EntangleInputs : Entangle(lanes)
  \/ \E lane \in AuxInputs : \/ UpgradeToSync(lane) \/ ForceExpired(lane)
                             \/ DisableErrorRecovery(lane)
                             \/ HideUpdate(lane) \/ RevealUpdates(lane)
  \/ CheckStarved
  \/ Tick

Spec == Init /\ [][Next]_vars

-----------------------------------------------------------------------------
(***************************************************************************)
(* The clock of a lane never starts early: it runs only while the lane is   *)
(* pending, and from no earlier than the last time the lane became pending  *)
(* or suspended.  A clock that survives mark_finished or mark_suspended     *)
(* would expire the next update on that lane at once.                       *)
(***************************************************************************)
StarvationClock ==
  \A l \in Lane : root.expirationTimes[l] # NoTimestamp =>
    /\ l \in root.pending
    /\ root.expirationTimes[l] >= readySince[l] + ExpirationMs(l)

(***************************************************************************)
(* A lane is only flagged as expired, unrecoverable or entangled while it   *)
(* has pending work, so the flags of finished work cannot leak into the     *)
(* next update that is given the same lane (mark_finished).                 *)
(***************************************************************************)
FlagsArePending ==
  root.expired \cup root.errorRecoveryDisabled \cup root.entangled \subseteq root.pending

(***************************************************************************)
(* Two lanes entangled by mark_entangled that both stayed pending are       *)
(* rendered together whichever of them is picked (entangled_lanes_for).     *)
(***************************************************************************)
EntangledRenderTogether ==
  \A p \in ties : p[2] \in EntangledLanesFor(root, {p[1]})

(***************************************************************************)
(* Work that suspended after the whole tree was attempted is not picked     *)
(* again until it is pinged or an update arrives (get_next_lanes).          *)
(***************************************************************************)
NoHotRetry ==
  \A pendingCommit \in BOOLEAN :
    GetNextLanes(root, {}, pendingCommit) \cap attempted = {}

(***************************************************************************)
(* Lanes a sync flush would take are never invisible to the concurrent      *)
(* scheduler: get_next_lanes then has work too, pinged work included.       *)
(***************************************************************************)
FlushAgreesWithSelection ==
  GetNextLanesToFlushSync(root, {}) # {} =>
    \A pendingCommit \in BOOLEAN : GetNextLanes(root, {}, pendingCommit) # {}

(***************************************************************************)
(* The lanes get_next_lanes selects are worth a render, and it sees all the *)
(* work that a sync flush sees.                                             *)
(***************************************************************************)
SelectionIsSound == NoHotRetry /\ FlushAgreesWithSelection
=============================================================================
