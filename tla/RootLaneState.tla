--------------------------- MODULE RootLaneState ---------------------------
(***************************************************************************)
(* The RootLaneState of one root (crates/fast-react-core/src/root_lanes.rs) *)
(* as a record, and every method of it as an operator on that record.       *)
(* RootLanes.tla drives it on its own; the reconciler modules embed it.     *)
(***************************************************************************)
EXTENDS Lanes

CONSTANTS
  Lane,                         \* the lanes of the instance, bit indices
  DefaultTransitionIndicator,   \* RootLaneFeatureFlags
  RetryLaneExpiration,
  SyncExpirationMs,             \* 250, 5000 and 5000 in the code
  TransitionExpirationMs,
  RetryExpirationMs

ASSUME LaneAssumption ==
  /\ Lane \subseteq AllLanes
  /\ {SyncLane, DeferredLane} \subseteq Lane

ASSUME FeatureAssumption ==
  /\ DefaultTransitionIndicator \in BOOLEAN
  /\ RetryLaneExpiration \in BOOLEAN

ASSUME ExpirationAssumption ==
  /\ SyncExpirationMs \in Nat \ {0}
  /\ TransitionExpirationMs \in Nat \ {0}
  /\ RetryExpirationMs \in Nat \ {0}

NoTimestamp == -1

RootLaneStates ==
  [pending : SUBSET Lane, suspended : SUBSET Lane, pinged : SUBSET Lane,
   warm : SUBSET Lane, expired : SUBSET Lane, indicator : SUBSET Lane,
   errorRecoveryDisabled : SUBSET Lane, entangled : SUBSET Lane,
   expirationTimes : [Lane -> Nat \cup {NoTimestamp}],
   entanglements : [Lane -> SUBSET Lane],
   hiddenUpdateCounts : [Lane -> Nat]]

NewRootLaneState ==
  [pending |-> {}, suspended |-> {}, pinged |-> {}, warm |-> {}, expired |-> {},
   indicator |-> {}, errorRecoveryDisabled |-> {}, entangled |-> {},
   expirationTimes |-> [l \in Lane |-> NoTimestamp],
   entanglements |-> [l \in Lane |-> {}],
   hiddenUpdateCounts |-> [l \in Lane |-> 0]]

(***************************************************************************)
(* mark_spawned_deferred_lane: a no-op for Lane::NO.                        *)
(***************************************************************************)
SpawnLane(s, spawned, entangled) ==
  [s EXCEPT
     !.pending = @ \cup {spawned},
     !.suspended = @ \ {spawned},
     !.entangled = @ \cup {spawned},
     !.entanglements[spawned] = @ \cup {DeferredLane} \cup (entangled \cap UpdateLanes)]

MarkSpawnedDeferredLane(s, spawned, entangled) ==
  IF spawned = NoLane THEN s ELSE SpawnLane(s, spawned, entangled)

(***************************************************************************)
(* mark_updated: any update but an idle one makes suspended work worth      *)
(* another attempt.  MarkAllUpdated is mark_updated for each of the lanes,  *)
(* in any order.                                                            *)
(***************************************************************************)
MarkAllUpdated(s, lanes) ==
  LET blocked(S) == IF lanes \subseteq {IdleLane} THEN S ELSE {}
  IN  [s EXCEPT
         !.pending = @ \cup lanes,
         !.indicator = IF DefaultTransitionIndicator
                       THEN @ \cup (lanes \cap TransitionLanes) ELSE @,
         !.suspended = blocked(@),
         !.pinged = blocked(@),
         !.warm = blocked(@)]

MarkUpdated(s, lane) == MarkAllUpdated(s, {lane})

MarkSuspended(s, lanes, spawned, didAttemptEntireTree) ==
  MarkSpawnedDeferredLane(
    [s EXCEPT
       !.suspended = @ \cup lanes,
       !.pinged = @ \ lanes,
       !.warm = IF didAttemptEntireTree THEN @ \cup lanes ELSE @,
       !.expirationTimes = [l \in Lane |-> IF l \in lanes THEN NoTimestamp ELSE @[l]]],
    spawned, lanes)

MarkPinged(s, lanes) ==
  [s EXCEPT !.pinged = @ \cup (s.suspended \cap lanes),
            !.warm = @ \ lanes]

(***************************************************************************)
(* mark_finished(RootFinishedLanes): first the per-lane slots of the lanes  *)
(* that are no longer pending, then the root-wide sets.                     *)
(***************************************************************************)
\* Seeded fault: the clock of a finished lane keeps running.
ForgetAllButClock(s, gone) ==
  [s EXCEPT
     !.entanglements = [l \in Lane |-> IF l \in gone THEN {} ELSE @[l]],
     !.hiddenUpdateCounts = [l \in Lane |-> IF l \in gone THEN 0 ELSE @[l]]]

ForgetLaneSlots(s, gone) ==
  [s EXCEPT
     !.entanglements = [l \in Lane |-> IF l \in gone THEN {} ELSE @[l]],
     !.expirationTimes = [l \in Lane |-> IF l \in gone THEN NoTimestamp ELSE @[l]],
     !.hiddenUpdateCounts = [l \in Lane |-> IF l \in gone THEN 0 ELSE @[l]]]

\* Seeded fault: the expired flag of a finished lane is kept.
KeepExpired(s, remaining) ==
  [s EXCEPT
     !.pending = remaining, !.suspended = {}, !.pinged = {}, !.warm = {},
     !.entangled = @ \cap remaining,
     !.errorRecoveryDisabled = @ \cap remaining]

\* Seeded fault: a commit clears the lanes it did not render, too.
ClearPending(s, remaining) ==
  [s EXCEPT !.pending = {}, !.suspended = {}, !.pinged = {}, !.warm = {},
            !.expired = {}, !.entangled = {}, !.errorRecoveryDisabled = {}]

KeepRemaining(s, remaining) ==
  [s EXCEPT
     !.pending = remaining, !.suspended = {}, !.pinged = {}, !.warm = {},
     !.indicator = IF DefaultTransitionIndicator THEN @ \cap remaining ELSE @,
     !.expired = @ \cap remaining,
     !.entangled = @ \cap remaining,
     !.errorRecoveryDisabled = @ \cap remaining]

(***************************************************************************)
(* Retry lanes that this very commit suspended stay suspended, unless the   *)
(* commit also contained updates.                                           *)
(***************************************************************************)
MarkFinished(s, finished, remaining, spawned, updated, suspendedRetry) ==
  LET done  == ForgetLaneSlots(KeepRemaining(s, remaining), s.pending \ remaining)
      kept  == MarkSpawnedDeferredLane(done, spawned, {})
      fresh == suspendedRetry \ (s.pending \ finished)
  IN  IF updated = {} THEN [kept EXCEPT !.suspended = @ \cup fresh] ELSE kept

(***************************************************************************)
(* mark_entangled: the given lanes with each other, and with every lane     *)
(* that is already entangled with one of them.                              *)
(***************************************************************************)
\* Seeded fault: the set of entangled lanes is read before the merge.
EntangleKnownLanes(s, lanes) ==
  [s EXCEPT
     !.entangled = @ \cup lanes,
     !.entanglements =
       [l \in Lane |-> IF l \in s.entangled THEN @[l] \cup lanes ELSE @[l]]]

MarkEntangled(s, lanes) ==
  LET all == s.entangled \cup lanes
  IN  [s EXCEPT
         !.entangled = all,
         !.entanglements =
           [l \in Lane |-> IF l \in all /\ (l \in lanes \/ @[l] \cap lanes # {})
                           THEN @[l] \cup lanes ELSE @[l]]]

UpgradePendingLanesToSync(s, lanes) ==
  [s EXCEPT !.pending = @ \cup {SyncLane},
            !.entangled = @ \cup {SyncLane},
            !.entanglements[SyncLane] = @ \cup lanes]

(***************************************************************************)
(* compute_expiration_time.  SyncExpirationMs for the input lanes and       *)
(* gestures, TransitionExpirationMs for default and transition lanes.       *)
(***************************************************************************)
ExpirationMs(lane) ==
  IF lane \in {0, 1, 2, 3, 6} THEN SyncExpirationMs
  ELSE IF lane \in {4, 5, 7} \cup TransitionLanes THEN TransitionExpirationMs
  ELSE RetryExpirationMs

Expires(lane) ==
  lane \in (0..7) \cup TransitionLanes \cup (IF RetryLaneExpiration THEN RetryLanes ELSE {})

ComputeExpirationTime(lane, time) ==
  IF Expires(lane) THEN time + ExpirationMs(lane) ELSE NoTimestamp

(***************************************************************************)
(* mark_starved_lanes_as_expired: starts the clock of a lane that can be    *)
(* worked on, and expires a lane whose clock has run out.                   *)
(***************************************************************************)
MarkStarvedLanesAsExpired(s, time) ==
  LET check == IF RetryLaneExpiration THEN s.pending ELSE s.pending \ RetryLanes
      start == {l \in check : /\ s.expirationTimes[l] = NoTimestamp
                              /\ l \notin s.suspended \/ l \in s.pinged}
      over  == {l \in check : /\ s.expirationTimes[l] # NoTimestamp
                              /\ s.expirationTimes[l] <= time}
  IN  [s EXCEPT
         !.expirationTimes = [l \in Lane |-> IF l \in start
                                             THEN ComputeExpirationTime(l, time) ELSE @[l]],
         !.expired = @ \cup over]

MarkExpired(s, lanes) == [s EXCEPT !.expired = @ \cup lanes]

MarkErrorRecoveryDisabled(s, lanes) == [s EXCEPT !.errorRecoveryDisabled = @ \cup lanes]

MarkHiddenUpdate(s, lane) == [s EXCEPT !.hiddenUpdateCounts[lane] = @ + 1]

\* Seeded fault: the count of a revealed lane is taken down by one, below 0.
CountHiddenUpdatesDown(s, lanes) ==
  [s EXCEPT !.hiddenUpdateCounts = [l \in Lane |-> IF l \in lanes THEN @[l] - 1 ELSE @[l]]]

ClearHiddenUpdates(s, lanes) ==
  [s EXCEPT !.hiddenUpdateCounts = [l \in Lane |-> IF l \in lanes THEN 0 ELSE @[l]]]

\* Seeded fault: lanes that were already warmed are prewarmed again.
PrewarmAll(s, pool, rootHasPendingCommit) ==
  IF rootHasPendingCommit THEN {} ELSE pool

LanesToPrewarm(s, pool, rootHasPendingCommit) ==
  IF rootHasPendingCommit THEN {} ELSE pool \ s.warm

(***************************************************************************)
(* get_next_lanes.  First choice, in order: unblocked work, pinged work,    *)
(* and (unless a commit is pending) work worth prewarming; idle work only   *)
(* when no other work is pending.  The idle case looks at all pinged lanes. *)
(***************************************************************************)
NextLanesBeforeWip(s, rootHasPendingCommit) ==
  LET nonIdle  == s.pending \cap NonIdleLanes
      pool     == IF nonIdle # {} THEN nonIdle ELSE s.pending
      pinged   == IF nonIdle # {} THEN nonIdle \cap s.pinged ELSE s.pinged
      unblocked == pool \ s.suspended
  IN  IF s.pending = {} THEN {}
      ELSE IF unblocked # {} THEN HighestPriorityLanes(unblocked)
      ELSE IF pinged # {} THEN HighestPriorityLanes(pinged)
      ELSE HighestPriorityLanes(LanesToPrewarm(s, pool, rootHasPendingCommit))

(***************************************************************************)
(* Work in progress is kept unless the new work is strictly more urgent;    *)
(* a default update never interrupts a transition.                          *)
(***************************************************************************)
GetNextLanes(s, wip, rootHasPendingCommit) ==
  LET next     == NextLanesBeforeWip(s, rootHasPendingCommit)
      nextLane == HighestPriorityLane(next)
      wipLane  == HighestPriorityLane(wip)
      keepWip  == /\ wip # {} /\ wip # next /\ wip \cap s.suspended = {}
                  /\ \/ nextLane >= wipLane
                     \/ nextLane = DefaultLane /\ wipLane \in TransitionLanes
  IN  IF next = {} THEN {} ELSE IF keepWip THEN wip ELSE next

(***************************************************************************)
(* entangled_lanes_for: one level of entanglements, not their closure.      *)
(* (Merging the DEFAULT lane of a set into the set is the identity.)        *)
(***************************************************************************)
EntangledLanesFor(s, lanes) ==
  lanes \cup UNION {s.entanglements[l] : l \in lanes \cap s.entangled}

(***************************************************************************)
(* select_lanes_from_root_state / scheduling_snapshot.                      *)
(***************************************************************************)
SelectedNextLanes(s, wip, rootHasPendingCommit) ==
  LET priority == GetNextLanes(s, wip, rootHasPendingCommit)
  IN  IF priority = {} THEN {} ELSE EntangledLanesFor(s, priority)

Unblocked(s) == s.pending \ (s.suspended \ s.pinged)

GetNextLanesToFlushSync(s, extra) ==
  LET matching == Unblocked(s) \cap LanesOfEqualOrHigherPriority(SyncUpdateLanes \cup extra)
      hydration == matching \cap HydrationLanes
  IN  IF hydration # {} THEN hydration \cup {SyncHydrationLane}
      ELSE IF matching # {} THEN matching \cup {SyncLane}
      ELSE {}

CheckIfRootIsPrerendering(s, renderLanes) == Unblocked(s) \cap renderLanes = {}
=============================================================================
