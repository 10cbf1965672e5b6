------------------------ MODULE RootLaneStateProofs ------------------------
(***************************************************************************)
(* Lemmas about the methods of RootLaneState, for every set of lanes: what  *)
(* they return has the shape of a RootLaneState, and what they do to its    *)
(* fields.  The proofs about the modules that embed a RootLaneState rest    *)
(* on them.                                                                 *)
(***************************************************************************)
EXTENDS RootLaneState, WellFoundedInduction, TLAPS

(***************************************************************************)
(* The methods of RootLaneState keep its shape.                             *)
(***************************************************************************)
LEMMA NewTyped == NewRootLaneState \in RootLaneStates
  BY DEF NewRootLaneState, RootLaneStates, NoTimestamp

\* mark_spawned_deferred_lane keeps the shape, Lane::NO included.
LEMMA SpawnTyped ==
  ASSUME NEW s \in RootLaneStates, NEW spawned \in Lane \cup {NoLane}, NEW e \in SUBSET Lane
  PROVE  MarkSpawnedDeferredLane(s, spawned, e) \in RootLaneStates
<1>1. CASE spawned = NoLane
  BY <1>1 DEF MarkSpawnedDeferredLane
<1>2. CASE spawned # NoLane
  <2> DEFINE ties == s.entanglements[spawned] \cup {DeferredLane} \cup (e \cap UpdateLanes)
  <2>1. spawned \in Lane /\ s.entanglements \in [Lane -> SUBSET Lane]
    BY <1>2 DEF RootLaneStates
  <2>2. ties \in SUBSET Lane
    BY <2>1, LaneAssumption
  <2> HIDE DEF ties
  <2>3. [s.entanglements EXCEPT ![spawned] = ties] \in [Lane -> SUBSET Lane]
    BY <2>1, <2>2
  <2>4. [s EXCEPT !.pending = @ \cup {spawned}, !.suspended = @ \ {spawned},
                  !.entangled = @ \cup {spawned},
                  !.entanglements = [s.entanglements EXCEPT ![spawned] = ties]]
          \in RootLaneStates
    BY <2>1, <2>3 DEF RootLaneStates
  <2> QED BY <2>4, <1>2 DEF MarkSpawnedDeferredLane, SpawnLane, ties
<1> QED BY <1>1, <1>2

\* mark_updated keeps the shape.
LEMMA UpdatedTyped ==
  ASSUME NEW s \in RootLaneStates, NEW lane \in Lane
  PROVE  MarkUpdated(s, lane) \in RootLaneStates
<1> DEFINE blocked(S) == IF {lane} \subseteq {IdleLane} THEN S ELSE {}
           indicator == IF DefaultTransitionIndicator
                        THEN s.indicator \cup ({lane} \cap TransitionLanes) ELSE s.indicator
<1>1. /\ s.pending \cup {lane} \in SUBSET Lane /\ indicator \in SUBSET Lane
      /\ blocked(s.suspended) \in SUBSET Lane /\ blocked(s.pinged) \in SUBSET Lane
      /\ blocked(s.warm) \in SUBSET Lane
  BY DEF RootLaneStates
<1>2. MarkUpdated(s, lane) =
        [s EXCEPT !.pending = @ \cup {lane}, !.indicator = indicator,
                  !.suspended = blocked(@), !.pinged = blocked(@), !.warm = blocked(@)]
  BY DEF MarkUpdated, MarkAllUpdated
<1> HIDE DEF blocked, indicator
<1> QED BY <1>1, <1>2 DEF RootLaneStates

\* mark_suspended keeps the shape.
LEMMA SuspendedTyped ==
  ASSUME NEW s \in RootLaneStates, NEW lanes \in SUBSET Lane,
         NEW spawned \in Lane \cup {NoLane}, NEW entire \in BOOLEAN
  PROVE  MarkSuspended(s, lanes, spawned, entire) \in RootLaneStates
<1> DEFINE t == [s EXCEPT
       !.suspended = @ \cup lanes,
       !.pinged = @ \ lanes,
       !.warm = IF entire THEN @ \cup lanes ELSE @,
       !.expirationTimes = [l \in Lane |-> IF l \in lanes THEN NoTimestamp ELSE @[l]]]
<1>1. t \in RootLaneStates
  BY DEF RootLaneStates
<1>2. MarkSpawnedDeferredLane(t, spawned, lanes) \in RootLaneStates
  BY <1>1, SpawnTyped
<1> QED BY <1>2 DEF MarkSuspended

\* mark_pinged keeps the shape.
LEMMA PingedTyped ==
  ASSUME NEW s \in RootLaneStates, NEW lanes \in SUBSET Lane
  PROVE  MarkPinged(s, lanes) \in RootLaneStates
  BY DEF MarkPinged, RootLaneStates

\* mark_finished keeps the shape.
LEMMA FinishedTyped ==
  ASSUME NEW s \in RootLaneStates, NEW f \in SUBSET Lane, NEW remaining \in SUBSET Lane,
         NEW spawned \in Lane \cup {NoLane}, NEW u \in SUBSET Lane, NEW retry \in SUBSET Lane
  PROVE  MarkFinished(s, f, remaining, spawned, u, retry) \in RootLaneStates
<1> DEFINE kr == KeepRemaining(s, remaining)
           done == ForgetLaneSlots(kr, s.pending \ remaining)
           kept == MarkSpawnedDeferredLane(done, spawned, {})
<1>1. kr \in RootLaneStates
  BY FeatureAssumption DEF KeepRemaining, RootLaneStates
<1>2. done \in RootLaneStates
  BY <1>1 DEF ForgetLaneSlots, RootLaneStates
<1>3. kept \in RootLaneStates
  <2> HIDE DEF done
  <2> QED BY <1>2, SpawnTyped
<1>4. [kept EXCEPT !.suspended = @ \cup (retry \ (s.pending \ f))] \in RootLaneStates
  <2> HIDE DEF kept
  <2> QED BY <1>3 DEF RootLaneStates
<1> QED BY <1>3, <1>4 DEF MarkFinished

\* mark_entangled keeps the shape.
LEMMA EntangledTyped ==
  ASSUME NEW s \in RootLaneStates, NEW lanes \in SUBSET Lane
  PROVE  MarkEntangled(s, lanes) \in RootLaneStates
  BY DEF MarkEntangled, RootLaneStates

\* upgrade_pending_lanes_to_sync keeps the shape.
LEMMA UpgradedTyped ==
  ASSUME NEW s \in RootLaneStates, NEW lanes \in SUBSET Lane
  PROVE  UpgradePendingLanesToSync(s, lanes) \in RootLaneStates
  BY LaneAssumption DEF UpgradePendingLanesToSync, RootLaneStates

\* compute_expiration_time returns a time or no timestamp.
LEMMA ExpirationTimeTyped ==
  ASSUME NEW lane \in Lane, NEW time \in Nat
  PROVE  ComputeExpirationTime(lane, time) \in Nat \cup {NoTimestamp}
  BY ExpirationAssumption DEF ComputeExpirationTime, ExpirationMs, NoTimestamp

\* mark_starved_lanes_as_expired keeps the shape.
LEMMA StarvedTyped ==
  ASSUME NEW s \in RootLaneStates, NEW time \in Nat
  PROVE  MarkStarvedLanesAsExpired(s, time) \in RootLaneStates
  BY ExpirationTimeTyped, FeatureAssumption DEF MarkStarvedLanesAsExpired, RootLaneStates

\* The one-field setters keep the shape.
LEMMA SetterTyped ==
  ASSUME NEW s \in RootLaneStates, NEW lane \in Lane
  PROVE  /\ MarkExpired(s, {lane}) \in RootLaneStates
         /\ MarkErrorRecoveryDisabled(s, {lane}) \in RootLaneStates
         /\ MarkHiddenUpdate(s, lane) \in RootLaneStates
         /\ ClearHiddenUpdates(s, {lane}) \in RootLaneStates
<1>1. MarkExpired(s, {lane}) \in RootLaneStates
  BY DEF MarkExpired, RootLaneStates
<1>2. MarkErrorRecoveryDisabled(s, {lane}) \in RootLaneStates
  BY DEF MarkErrorRecoveryDisabled, RootLaneStates
<1>3. MarkHiddenUpdate(s, lane) \in RootLaneStates
  BY SMTT(30) DEF MarkHiddenUpdate, RootLaneStates
<1>4. ClearHiddenUpdates(s, {lane}) \in RootLaneStates
  BY DEF ClearHiddenUpdates, RootLaneStates
<1> QED BY <1>1, <1>2, <1>3, <1>4

(***************************************************************************)
(* The lanes a render is given are lanes of the root.                       *)
(***************************************************************************)
LEMMA HighestPriorityLaneIsMinimum ==
  ASSUME NEW S \in SUBSET Lane, S # {}
  PROVE  /\ HighestPriorityLane(S) \in S
         /\ \A m \in S : HighestPriorityLane(S) <= m
<1>1. S \subseteq Nat
  BY LaneAssumption DEF AllLanes
<1>2. PICK l \in S : \A m \in S : ~ (<<m, l>> \in OpToRel(<, Nat))
  BY <1>1, WFMin, NatLessThanWellFounded
<1>3. \A m \in S : ~ (m < l)
  BY <1>1, <1>2, Zenon DEF OpToRel
<1>4. \A m \in S : l <= m
  BY <1>1, <1>3
<1> QED BY <1>4 DEF HighestPriorityLane

\* highest_priority_lanes selects from the lanes it is given.
LEMMA HighestPriorityLanesSubset ==
  ASSUME NEW S \in SUBSET Lane
  PROVE  HighestPriorityLanes(S) \subseteq S
<1>1. CASE S = {}
  BY <1>1 DEF HighestPriorityLanes, HighestPriorityLane, NoLane, SyncUpdateLanes,
     TransitionUpdateLanes, TransitionDeferredLanes, RetryLanes
<1>2. CASE S # {}
  BY <1>2, HighestPriorityLaneIsMinimum DEF HighestPriorityLanes
<1> QED BY <1>1, <1>2

\* highest_priority_lanes selects something unless all there is is the deferred lane.
LEMMA HighestPriorityLanesNonempty ==
  ASSUME NEW S \in SUBSET Lane, S # {}, DeferredLane \notin S
  PROVE  HighestPriorityLanes(S) # {}
<1>1. HighestPriorityLane(S) \in S
  BY HighestPriorityLaneIsMinimum
<1>2. HighestPriorityLane(S) # NoLane
  BY <1>1, LaneAssumption DEF AllLanes, NoLane
<1> QED BY <1>1, <1>2 DEF HighestPriorityLanes

\* The lanes of a render are lanes of the root (select_lanes_from_root_state).
LEMMA SelectedTyped ==
  ASSUME NEW s \in RootLaneStates, NEW w \in SUBSET Lane, NEW c \in BOOLEAN
  PROVE  SelectedNextLanes(s, w, c) \subseteq Lane
<1> USE DEF RootLaneStates
<1>1. LanesToPrewarm(s, s.pending, c) \subseteq Lane
  BY DEF LanesToPrewarm
<1>2. LanesToPrewarm(s, s.pending \cap NonIdleLanes, c) \subseteq Lane
  BY DEF LanesToPrewarm
<1>3. NextLanesBeforeWip(s, c) \subseteq Lane
  <2>1. HighestPriorityLanes((s.pending \cap NonIdleLanes) \ s.suspended) \subseteq Lane
    BY HighestPriorityLanesSubset
  <2>2. HighestPriorityLanes(s.pending \ s.suspended) \subseteq Lane
    BY HighestPriorityLanesSubset
  <2>3. HighestPriorityLanes((s.pending \cap NonIdleLanes) \cap s.pinged) \subseteq Lane
    BY HighestPriorityLanesSubset
  <2>4. HighestPriorityLanes(s.pinged) \subseteq Lane
    BY HighestPriorityLanesSubset
  <2>5. HighestPriorityLanes(LanesToPrewarm(s, s.pending, c)) \subseteq Lane
    BY <1>1, HighestPriorityLanesSubset
  <2>6. HighestPriorityLanes(LanesToPrewarm(s, s.pending \cap NonIdleLanes, c)) \subseteq Lane
    <3> DEFINE prewarm == LanesToPrewarm(s, s.pending \cap NonIdleLanes, c)
    <3> HIDE DEF prewarm
    <3>1. prewarm \in SUBSET Lane
      BY <1>2 DEF prewarm
    <3>2. HighestPriorityLanes(prewarm) \subseteq prewarm
      BY <3>1, HighestPriorityLanesSubset
    <3> QED BY <3>1, <3>2 DEF prewarm
  <2>7. CASE s.pending \cap NonIdleLanes = {}
    BY <2>2, <2>4, <2>5, <2>7 DEF NextLanesBeforeWip
  <2>8. CASE s.pending \cap NonIdleLanes # {}
    BY <2>1, <2>3, <2>6, <2>8 DEF NextLanesBeforeWip
  <2> QED BY <2>7, <2>8
<1>4. GetNextLanes(s, w, c) \subseteq Lane
  BY <1>3 DEF GetNextLanes
<1> QED BY <1>4 DEF SelectedNextLanes, EntangledLanesFor

-----------------------------------------------------------------------------
(***************************************************************************)
(* What the methods that compose others do to the fields the invariants     *)
(* are about.                                                               *)
(***************************************************************************)
LEMMA SpawnEffect ==
  ASSUME NEW s \in RootLaneStates, NEW spawned \in Lane \cup {NoLane}, NEW e \in SUBSET Lane
  PROVE  LET t == MarkSpawnedDeferredLane(s, spawned, e)
         IN  /\ t.pending = s.pending \cup ({spawned} \cap Lane)
             /\ t.entangled = s.entangled \cup ({spawned} \cap Lane)
             /\ \A l \in Lane : s.entanglements[l] \subseteq t.entanglements[l]
             /\ t.expirationTimes = s.expirationTimes
             /\ t.expired = s.expired
             /\ t.errorRecoveryDisabled = s.errorRecoveryDisabled
<1>1. CASE spawned = NoLane
  BY <1>1, LaneAssumption DEF MarkSpawnedDeferredLane, AllLanes, NoLane
<1>2. CASE spawned # NoLane
  BY <1>2 DEF MarkSpawnedDeferredLane, SpawnLane, RootLaneStates
<1> QED BY <1>1, <1>2

SuspendKeeps(s, t, lanes, spawned) ==
  /\ t.pending = s.pending \cup ({spawned} \cap Lane)
  /\ t.entangled = s.entangled \cup ({spawned} \cap Lane)
  /\ \A l \in Lane : s.entanglements[l] \subseteq t.entanglements[l]
  /\ \A l \in Lane : t.expirationTimes[l] = IF l \in lanes THEN NoTimestamp
                                            ELSE s.expirationTimes[l]
  /\ t.expired = s.expired
  /\ t.errorRecoveryDisabled = s.errorRecoveryDisabled

\* mark_suspended stops the clocks of the suspended lanes and drops no flag.
LEMMA SuspendedEffect ==
  ASSUME NEW s \in RootLaneStates, NEW lanes \in SUBSET Lane,
         NEW spawned \in Lane \cup {NoLane}, NEW entire \in BOOLEAN
  PROVE  SuspendKeeps(s, MarkSuspended(s, lanes, spawned, entire), lanes, spawned)
<1> DEFINE b == [s EXCEPT
       !.suspended = @ \cup lanes,
       !.pinged = @ \ lanes,
       !.warm = IF entire THEN @ \cup lanes ELSE @,
       !.expirationTimes = [l \in Lane |-> IF l \in lanes THEN NoTimestamp ELSE @[l]]]
<1>1. b \in RootLaneStates
  BY DEF RootLaneStates
<1>2. /\ b.pending = s.pending /\ b.entangled = s.entangled
      /\ b.entanglements = s.entanglements /\ b.expired = s.expired
      /\ b.errorRecoveryDisabled = s.errorRecoveryDisabled
      /\ \A l \in Lane : b.expirationTimes[l] = IF l \in lanes THEN NoTimestamp
                                                ELSE s.expirationTimes[l]
  BY DEF RootLaneStates
<1>3. MarkSuspended(s, lanes, spawned, entire) = MarkSpawnedDeferredLane(b, spawned, lanes)
  BY DEF MarkSuspended
<1> HIDE DEF b
<1> QED BY <1>1, <1>2, <1>3, SpawnEffect DEF SuspendKeeps

FinishKeeps(s, t, remaining, spawned) ==
  /\ t.pending = remaining \cup ({spawned} \cap Lane)
  /\ t.entangled = (s.entangled \cap remaining) \cup ({spawned} \cap Lane)
  /\ \A l \in remaining : s.entanglements[l] \subseteq t.entanglements[l]
  /\ \A l \in Lane : t.expirationTimes[l] =
       IF l \in s.pending \ remaining THEN NoTimestamp ELSE s.expirationTimes[l]
  /\ t.expired = s.expired \cap remaining
  /\ t.errorRecoveryDisabled = s.errorRecoveryDisabled \cap remaining

\* mark_finished keeps flags and entanglements of the remaining lanes only.
LEMMA FinishedEffect ==
  ASSUME NEW s \in RootLaneStates, NEW f \in SUBSET Lane, NEW remaining \in SUBSET s.pending,
         NEW spawned \in Lane \cup {NoLane}, NEW u \in SUBSET Lane, NEW retry \in SUBSET Lane
  PROVE  FinishKeeps(s, MarkFinished(s, f, remaining, spawned, u, retry), remaining, spawned)
<1> DEFINE kr == KeepRemaining(s, remaining)
           done == ForgetLaneSlots(kr, s.pending \ remaining)
           kept == MarkSpawnedDeferredLane(done, spawned, {})
<1>1. /\ kr \in RootLaneStates
      /\ kr.pending = remaining /\ kr.entangled = s.entangled \cap remaining
      /\ kr.entanglements = s.entanglements /\ kr.expirationTimes = s.expirationTimes
      /\ kr.expired = s.expired \cap remaining
      /\ kr.errorRecoveryDisabled = s.errorRecoveryDisabled \cap remaining
  BY FeatureAssumption DEF KeepRemaining, RootLaneStates
<1>2. /\ done \in RootLaneStates
      /\ done.pending = remaining /\ done.entangled = s.entangled \cap remaining
      /\ \A l \in remaining : done.entanglements[l] = s.entanglements[l]
      /\ \A l \in Lane : done.expirationTimes[l] =
           IF l \in s.pending \ remaining THEN NoTimestamp ELSE s.expirationTimes[l]
      /\ done.expired = s.expired \cap remaining
      /\ done.errorRecoveryDisabled = s.errorRecoveryDisabled \cap remaining
  <2> HIDE DEF kr
  <2> QED BY <1>1 DEF ForgetLaneSlots, RootLaneStates
<1>3. remaining \subseteq Lane
  BY DEF RootLaneStates
<1>4. /\ kept \in RootLaneStates
      /\ kept.pending = remaining \cup ({spawned} \cap Lane)
      /\ kept.entangled = (s.entangled \cap remaining) \cup ({spawned} \cap Lane)
      /\ \A l \in remaining : s.entanglements[l] \subseteq kept.entanglements[l]
      /\ \A l \in Lane : kept.expirationTimes[l] =
           IF l \in s.pending \ remaining THEN NoTimestamp ELSE s.expirationTimes[l]
      /\ kept.expired = s.expired \cap remaining
      /\ kept.errorRecoveryDisabled = s.errorRecoveryDisabled \cap remaining
  <2> HIDE DEF done
  <2> QED BY <1>2, <1>3, SpawnEffect, SpawnTyped
<1>5. \/ MarkFinished(s, f, remaining, spawned, u, retry) = kept
      \/ MarkFinished(s, f, remaining, spawned, u, retry)
           = [kept EXCEPT !.suspended = @ \cup (retry \ (s.pending \ f))]
  BY DEF MarkFinished
<1> HIDE DEF kept
<1> QED BY <1>4, <1>5 DEF RootLaneStates, FinishKeeps

\* mark_starved_lanes_as_expired expires pending lanes and starts clocks at the time given.
LEMMA StarvedEffect ==
  ASSUME NEW s \in RootLaneStates, NEW time \in Nat
  PROVE  LET t == MarkStarvedLanesAsExpired(s, time)
         IN  /\ t.pending = s.pending
             /\ t.entangled = s.entangled /\ t.entanglements = s.entanglements
             /\ t.errorRecoveryDisabled = s.errorRecoveryDisabled
             /\ t.expired \subseteq s.expired \cup s.pending
             /\ \A l \in Lane : \/ t.expirationTimes[l] = s.expirationTimes[l]
                                \/ /\ l \in s.pending
                                   /\ t.expirationTimes[l] = ComputeExpirationTime(l, time)
  BY FeatureAssumption DEF MarkStarvedLanesAsExpired, RootLaneStates

\* mark_entangled ties the given lanes to each other and unties none.
LEMMA EntangledEffect ==
  ASSUME NEW s \in RootLaneStates, NEW lanes \in SUBSET Lane
  PROVE  LET t == MarkEntangled(s, lanes)
         IN  /\ t.pending = s.pending /\ t.expired = s.expired
             /\ t.expirationTimes = s.expirationTimes
             /\ t.errorRecoveryDisabled = s.errorRecoveryDisabled
             /\ t.entangled = s.entangled \cup lanes
             /\ \A l \in Lane : s.entanglements[l] \subseteq t.entanglements[l]
             /\ \A l \in lanes : lanes \subseteq t.entanglements[l]
  BY DEF MarkEntangled, RootLaneStates

\* upgrade_pending_lanes_to_sync only adds the sync lane and its entanglements.
LEMMA UpgradedEffect ==
  ASSUME NEW s \in RootLaneStates, NEW lanes \in SUBSET Lane
  PROVE  LET t == UpgradePendingLanesToSync(s, lanes)
         IN  /\ t.pending = s.pending \cup {SyncLane} /\ t.expired = s.expired
             /\ t.expirationTimes = s.expirationTimes
             /\ t.errorRecoveryDisabled = s.errorRecoveryDisabled
             /\ t.entangled = s.entangled \cup {SyncLane}
             /\ \A l \in Lane : s.entanglements[l] \subseteq t.entanglements[l]
  BY LaneAssumption DEF UpgradePendingLanesToSync, RootLaneStates

\* mark_updated adds the lane and leaves flags, clocks and entanglements alone.
LEMMA UpdatedEffect ==
  ASSUME NEW s \in RootLaneStates, NEW lane \in Lane
  PROVE  LET t == MarkUpdated(s, lane)
         IN  /\ t.pending = s.pending \cup {lane} /\ t.expired = s.expired
             /\ t.expirationTimes = s.expirationTimes
             /\ t.errorRecoveryDisabled = s.errorRecoveryDisabled
             /\ t.entangled = s.entangled /\ t.entanglements = s.entanglements
  BY DEF MarkUpdated, MarkAllUpdated, RootLaneStates

\* mark_updated for several lanes, on the fields a queue of updates is about.
LEMMA AllUpdatedEffect ==
  ASSUME NEW s \in RootLaneStates, NEW lanes \in SUBSET Lane
  PROVE  LET t == MarkAllUpdated(s, lanes)
         IN  /\ t \in RootLaneStates
             /\ t.pending = s.pending \cup lanes
             /\ t.entangled = s.entangled /\ t.entanglements = s.entanglements
<1>1. MarkAllUpdated(s, lanes) \in RootLaneStates
  BY FeatureAssumption DEF MarkAllUpdated, RootLaneStates
<1>2. /\ MarkAllUpdated(s, lanes).pending = s.pending \cup lanes
      /\ MarkAllUpdated(s, lanes).entangled = s.entangled
      /\ MarkAllUpdated(s, lanes).entanglements = s.entanglements
  BY DEF MarkAllUpdated, RootLaneStates
<1> QED BY <1>1, <1>2

SetterKeeps(s, t) ==
  /\ t.pending = s.pending
  /\ t.expirationTimes = s.expirationTimes
  /\ t.entangled = s.entangled /\ t.entanglements = s.entanglements

\* The one-field setters leave pending lanes, clocks and entanglements alone.
LEMMA SetterEffect ==
  ASSUME NEW s \in RootLaneStates, NEW lane \in Lane
  PROVE  /\ SetterKeeps(s, MarkPinged(s, {lane}))
         /\ SetterKeeps(s, MarkExpired(s, {lane}))
         /\ SetterKeeps(s, MarkErrorRecoveryDisabled(s, {lane}))
         /\ SetterKeeps(s, MarkHiddenUpdate(s, lane))
         /\ SetterKeeps(s, ClearHiddenUpdates(s, {lane}))
  BY DEF MarkPinged, MarkExpired, MarkErrorRecoveryDisabled, MarkHiddenUpdate,
         ClearHiddenUpdates, RootLaneStates, SetterKeeps
=============================================================================
