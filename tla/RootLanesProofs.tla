-------------------------- MODULE RootLanesProofs --------------------------
(***************************************************************************)
(* Proofs about RootLanes, for every set of lanes and every input set.      *)
(***************************************************************************)
EXTENDS RootLanes, RootLaneStateProofs

(***************************************************************************)
(* Every state RootLanes reaches is well typed: no method of RootLaneState  *)
(* lets Lane::NO, or a lane outside the root's lanes, into a lane set.      *)
(***************************************************************************)
THEOREM TypeCorrect == Spec => []TypeOK
<1>1. Init => TypeOK
  BY NewTyped DEF Init, TypeOK, NoTimestamp
<1>2. TypeOK /\ [Next]_vars => TypeOK'
  <2> SUFFICES ASSUME TypeOK, [Next]_vars PROVE TypeOK'
    OBVIOUS
  <2> USE InputAssumption DEF TypeOK
  <2>0. ASSUME NEW S, Restart(S) PROVE readySince' \in [Lane -> Nat \cup {NoTimestamp}]
    BY <2>0 DEF Restart
  <2>1. ASSUME NEW lane \in UpdateInputs, Update(lane) PROVE TypeOK'
    BY <2>1, <2>0, UpdatedTyped DEF Update
  <2>2. ASSUME NEW c \in BOOLEAN, Render(c) PROVE TypeOK'
    BY <2>2, SelectedTyped DEF Render
  <2>3. ASSUME NEW spawned \in SpawnInputs \cup {NoLane}, NEW e \in BOOLEAN, Suspend(spawned, e)
        PROVE  TypeOK'
    BY <2>3, <2>0, SuspendedTyped DEF Suspend
  <2>4. ASSUME NEW remaining \in SUBSET root.pending, NEW spawned \in SpawnInputs \cup {NoLane},
               NEW retry \in SUBSET (UpdateInputs \cap RetryLanes),
               Finish(remaining, spawned, retry)
        PROVE  TypeOK'
    <3>1. remaining \in SUBSET Lane /\ retry \in SUBSET Lane
      BY DEF RootLaneStates
    <3>2. root' \in RootLaneStates
      BY <2>4, <3>1, FinishedTyped DEF Finish
    <3> QED BY <2>4, <2>0, <3>2 DEF Finish
  <2>5. ASSUME NEW lane \in Lane, Ping(lane) PROVE TypeOK'
    BY <2>5, PingedTyped DEF Ping
  <2>6. ASSUME NEW lanes \in SUBSET EntangleInputs, Entangle(lanes) PROVE TypeOK'
    BY <2>6, EntangledTyped DEF Entangle
  <2>7. ASSUME NEW lane \in AuxInputs, UpgradeToSync(lane) PROVE TypeOK'
    BY <2>7, <2>0, UpgradedTyped DEF UpgradeToSync
  <2>8. ASSUME NEW lane \in AuxInputs,
               \/ ForceExpired(lane) \/ DisableErrorRecovery(lane)
               \/ HideUpdate(lane) \/ RevealUpdates(lane)
        PROVE  TypeOK'
    BY <2>8, SetterTyped DEF ForceExpired, DisableErrorRecovery, HideUpdate, RevealUpdates
  <2>9. CASE CheckStarved
    BY <2>9, StarvedTyped DEF CheckStarved
  <2>10. CASE Tick
    BY <2>10 DEF Tick
  <2>11. CASE UNCHANGED vars
    BY <2>11 DEF vars
  <2> QED BY <2>1, <2>2, <2>3, <2>4, <2>5, <2>6, <2>7, <2>8, <2>9, <2>10, <2>11 DEF Next
<1> QED BY <1>1, <1>2, PTL DEF Spec

-----------------------------------------------------------------------------
(***************************************************************************)
(* The same for the steps of RootLanes that several theorems look at.       *)
(***************************************************************************)
LEMMA SuspendStep ==
  ASSUME TypeOK, NEW spawned \in SpawnInputs \cup {NoLane}, NEW e \in BOOLEAN,
         Suspend(spawned, e)
  PROVE  SuspendKeeps(root, root', wip, spawned)
<1>1. root \in RootLaneStates /\ wip \in SUBSET Lane /\ spawned \in Lane \cup {NoLane}
  BY InputAssumption DEF TypeOK
<1>2. SuspendKeeps(root, MarkSuspended(root, wip, spawned, e), wip, spawned)
  BY <1>1, SuspendedEffect
<1> QED BY <1>2 DEF Suspend

\* A Finish step, in the terms of FinishedEffect.
LEMMA FinishStep ==
  ASSUME TypeOK, NEW remaining \in SUBSET root.pending, NEW spawned \in SpawnInputs \cup {NoLane},
         NEW retry \in SUBSET (UpdateInputs \cap RetryLanes), Finish(remaining, spawned, retry)
  PROVE  FinishKeeps(root, root', remaining, spawned)
<1>1. /\ root \in RootLaneStates /\ wip \in SUBSET Lane /\ spawned \in Lane \cup {NoLane}
      /\ retry \in SUBSET Lane /\ {} \in SUBSET Lane
  BY InputAssumption DEF TypeOK
<1>2. FinishKeeps(root, MarkFinished(root, wip, remaining, spawned, {}, retry), remaining, spawned)
  BY <1>1, FinishedEffect
<1> QED BY <1>2 DEF Finish

\* The setter steps, in the terms of SetterEffect.
LEMMA SetterStep ==
  ASSUME TypeOK, NEW lane \in Lane,
         \/ Ping(lane) \/ ForceExpired(lane) \/ DisableErrorRecovery(lane)
         \/ HideUpdate(lane) \/ RevealUpdates(lane)
  PROVE  SetterKeeps(root, root') /\ UNCHANGED <<wip, now, readySince, ties>>
<1>1. root \in RootLaneStates
  BY DEF TypeOK
<1> QED BY <1>1, SetterEffect
        DEF Ping, ForceExpired, DisableErrorRecovery, HideUpdate, RevealUpdates

-----------------------------------------------------------------------------
(***************************************************************************)
(* The flags of finished work never leak into the next update of a lane:    *)
(* mark_finished keeps the expired, unrecoverable and entangled flags of    *)
(* the remaining lanes only, and every other method sets them on pending    *)
(* lanes.  With the types the invariant is inductive.                       *)
(***************************************************************************)
THEOREM FlagsCorrect == Spec => []FlagsArePending
<1>1. Init => FlagsArePending
  BY DEF Init, FlagsArePending, NewRootLaneState
<1>2. TypeOK /\ FlagsArePending /\ [Next]_vars => FlagsArePending'
  <2> SUFFICES ASSUME TypeOK, FlagsArePending, [Next]_vars PROVE FlagsArePending'
    OBVIOUS
  <2>0. root \in RootLaneStates /\ wip \in SUBSET Lane /\ now \in Nat
    BY DEF TypeOK
  <2> USE <2>0, InputAssumption DEF FlagsArePending
  <2>1. ASSUME NEW lane \in UpdateInputs, Update(lane) PROVE FlagsArePending'
    BY <2>1, UpdatedEffect DEF Update
  <2>2. ASSUME NEW c \in BOOLEAN, Render(c) PROVE FlagsArePending'
    BY <2>2 DEF Render
  <2>3. ASSUME NEW spawned \in SpawnInputs \cup {NoLane}, NEW e \in BOOLEAN, Suspend(spawned, e)
        PROVE  FlagsArePending'
    BY <2>3, SuspendStep DEF SuspendKeeps
  <2>4. ASSUME NEW remaining \in SUBSET root.pending, NEW spawned \in SpawnInputs \cup {NoLane},
               NEW retry \in SUBSET (UpdateInputs \cap RetryLanes),
               Finish(remaining, spawned, retry)
        PROVE  FlagsArePending'
    <3>1. FinishKeeps(root, root', remaining, spawned)
      BY <2>4, FinishStep
    <3> QED BY <3>1 DEF FinishKeeps
  <2>5. ASSUME NEW lane \in Lane, Ping(lane) PROVE FlagsArePending'
    BY <2>5 DEF Ping, MarkPinged, RootLaneStates
  <2>6. ASSUME NEW lanes \in SUBSET EntangleInputs, Entangle(lanes) PROVE FlagsArePending'
    BY <2>6, EntangledEffect DEF Entangle
  <2>7. ASSUME NEW lane \in AuxInputs, UpgradeToSync(lane) PROVE FlagsArePending'
    BY <2>7, UpgradedEffect DEF UpgradeToSync
  <2>8. ASSUME NEW lane \in AuxInputs,
               \/ ForceExpired(lane) \/ DisableErrorRecovery(lane)
               \/ HideUpdate(lane) \/ RevealUpdates(lane)
        PROVE  FlagsArePending'
    BY <2>8 DEF ForceExpired, DisableErrorRecovery, HideUpdate, RevealUpdates, RootLaneStates,
                MarkExpired, MarkErrorRecoveryDisabled, MarkHiddenUpdate, ClearHiddenUpdates
  <2>9. CASE CheckStarved
    BY <2>9, StarvedEffect DEF CheckStarved
  <2>10. CASE Tick
    BY <2>10 DEF Tick
  <2>11. CASE UNCHANGED vars
    BY <2>11 DEF vars
  <2> QED BY <2>1, <2>2, <2>3, <2>4, <2>5, <2>6, <2>7, <2>8, <2>9, <2>10, <2>11 DEF Next
<1> QED BY <1>1, <1>2, TypeCorrect, PTL DEF Spec

(***************************************************************************)
(* Lanes entangled while pending are rendered together for as long as both  *)
(* stay pending: no method of RootLaneState forgets an entanglement of a    *)
(* pending lane (mark_finished, mark_entangled, entangled_lanes_for).       *)
(***************************************************************************)
THEOREM EntanglementCorrect == Spec => []EntangledRenderTogether
<1> DEFINE Tied(p) == p[1] = p[2] \/ (p[1] \in root.entangled /\ p[2] \in root.entanglements[p[1]])
<1>0. TypeOK => (EntangledRenderTogether <=> \A p \in ties : Tied(p))
  BY DEF EntangledRenderTogether, EntangledLanesFor, TypeOK
<1>1. Init => EntangledRenderTogether
  BY DEF Init, EntangledRenderTogether
<1>2. TypeOK /\ TypeOK' /\ EntangledRenderTogether /\ [Next]_vars => EntangledRenderTogether'
  <2> SUFFICES ASSUME TypeOK, TypeOK', \A p \in ties : Tied(p), [Next]_vars
               PROVE  \A p \in ties' : Tied(p)'
    BY <1>0 DEF EntangledRenderTogether, EntangledLanesFor, TypeOK
  <2>0. /\ root \in RootLaneStates /\ wip \in SUBSET Lane /\ now \in Nat
        /\ \A p \in ties : p[1] \in Lane /\ p[2] \in Lane
    BY DEF TypeOK
  <2> USE <2>0, InputAssumption
  <2>grow. ASSUME ties' \subseteq ties, root.entangled \subseteq root'.entangled,
                  \A l \in Lane : root.entanglements[l] \subseteq root'.entanglements[l]
           PROVE  \A p \in ties' : Tied(p)'
    BY <2>grow
  <2>1. ASSUME NEW lane \in UpdateInputs, Update(lane) PROVE \A p \in ties' : Tied(p)'
    BY <2>1, <2>grow, UpdatedEffect DEF Update
  <2>2. ASSUME NEW c \in BOOLEAN, Render(c) PROVE \A p \in ties' : Tied(p)'
    BY <2>2 DEF Render
  <2>3. ASSUME NEW spawned \in SpawnInputs \cup {NoLane}, NEW e \in BOOLEAN, Suspend(spawned, e)
        PROVE  \A p \in ties' : Tied(p)'
    BY <2>3, <2>grow, SuspendStep DEF Suspend, SuspendKeeps
  <2>4. ASSUME NEW remaining \in SUBSET root.pending, NEW spawned \in SpawnInputs \cup {NoLane},
               NEW retry \in SUBSET (UpdateInputs \cap RetryLanes),
               Finish(remaining, spawned, retry)
        PROVE  \A p \in ties' : Tied(p)'
    <3>1. \A p \in ties' : p \in ties /\ p[1] \in remaining
      BY <2>4 DEF Finish
    <3>2. FinishKeeps(root, root', remaining, spawned)
      BY <2>4, FinishStep
    <3> QED BY <3>1, <3>2 DEF FinishKeeps
  <2>5. ASSUME NEW lane \in Lane, Ping(lane) PROVE \A p \in ties' : Tied(p)'
    BY <2>5, <2>grow, SetterStep DEF SetterKeeps
  <2>6. ASSUME NEW lanes \in SUBSET EntangleInputs, Entangle(lanes)
        PROVE  \A p \in ties' : Tied(p)'
    <3>1. /\ root' = MarkEntangled(root, lanes)
          /\ ties' = ties \cup (lanes \X lanes)
          /\ lanes \in SUBSET Lane
      BY <2>6 DEF Entangle
    <3>2. ASSUME NEW p \in ties PROVE Tied(p)'
      BY <3>1, EntangledEffect
    <3>3. ASSUME NEW p \in lanes \X lanes PROVE Tied(p)'
      BY <3>1, EntangledEffect
    <3> QED BY <3>1, <3>2, <3>3
  <2>7. ASSUME NEW lane \in AuxInputs, UpgradeToSync(lane) PROVE \A p \in ties' : Tied(p)'
    BY <2>7, <2>grow, UpgradedEffect DEF UpgradeToSync
  <2>8. ASSUME NEW lane \in AuxInputs,
               \/ ForceExpired(lane) \/ DisableErrorRecovery(lane)
               \/ HideUpdate(lane) \/ RevealUpdates(lane)
        PROVE  \A p \in ties' : Tied(p)'
    BY <2>8, <2>grow, SetterStep DEF SetterKeeps
  <2>9. CASE CheckStarved
    BY <2>9, <2>grow, StarvedEffect DEF CheckStarved
  <2>10. CASE Tick
    BY <2>10 DEF Tick
  <2>11. CASE UNCHANGED vars
    BY <2>11 DEF vars
  <2> QED BY <2>1, <2>2, <2>3, <2>4, <2>5, <2>6, <2>7, <2>8, <2>9, <2>10, <2>11 DEF Next
<1> QED BY <1>1, <1>2, TypeCorrect, PTL DEF Spec

(***************************************************************************)
(* The clock of a lane never starts early.  The inductive invariant adds    *)
(* that no lane became ready in the future.                                 *)
(***************************************************************************)
ClockInv == StarvationClock /\ \A l \in Lane : readySince[l] <= now

\* The expiration delays are natural numbers.
LEMMA ExpirationMsNat == \A l \in Lane : ExpirationMs(l) \in Nat
  BY ExpirationAssumption DEF ExpirationMs

(***************************************************************************)
(* A step that neither starts a clock nor lets a ticking lane restart or    *)
(* stop being pending keeps the invariant.                                  *)
(***************************************************************************)
LEMMA ClockKept ==
  ASSUME TypeOK, ClockInv, NEW restarted,
         Restart(restarted), now' = now,
         \A l \in Lane : \/ root'.expirationTimes[l] = NoTimestamp
                         \/ /\ root'.expirationTimes[l] = root.expirationTimes[l]
                            /\ l \notin restarted
                            /\ l \in root.pending => l \in root'.pending
  PROVE  ClockInv'
<1>1. \A l \in Lane : readySince'[l] <= now'
  BY DEF TypeOK, ClockInv, Restart, NoTimestamp
<1>2. ASSUME NEW l \in Lane, root'.expirationTimes[l] # NoTimestamp
      PROVE  /\ l \in root'.pending
             /\ root'.expirationTimes[l] >= readySince'[l] + ExpirationMs(l)
  <2>1. /\ l \in root.pending /\ l \in root'.pending /\ l \notin restarted
        /\ root'.expirationTimes[l] = root.expirationTimes[l]
        /\ root.expirationTimes[l] >= readySince[l] + ExpirationMs(l)
    BY <1>2 DEF ClockInv, StarvationClock
  <2>2. readySince'[l] = readySince[l]
    BY <2>1 DEF Restart
  <2> QED BY <2>1, <2>2
<1> QED BY <1>1, <1>2 DEF ClockInv, StarvationClock

(***************************************************************************)
(* mark_starved_lanes_as_expired never expires a lane before it has been    *)
(* ready for its whole expiration time, because mark_finished and           *)
(* mark_suspended stop the clocks of the lanes they are about.              *)
(***************************************************************************)
THEOREM ClockCorrect == Spec => []StarvationClock
<1>1. Init => ClockInv
  BY DEF Init, ClockInv, StarvationClock, NewRootLaneState, NoTimestamp
<1>2. TypeOK /\ ClockInv /\ [Next]_vars => ClockInv'
  <2> SUFFICES ASSUME TypeOK, ClockInv, [Next]_vars PROVE ClockInv'
    OBVIOUS
  <2>0. root \in RootLaneStates /\ wip \in SUBSET Lane /\ now \in Nat
    BY DEF TypeOK
  <2>same. ASSUME root'.pending = root.pending, root'.expirationTimes = root.expirationTimes,
                  readySince' = readySince, now' = now
           PROVE  ClockInv'
    BY <2>same DEF ClockInv, StarvationClock
  <2> USE <2>0, InputAssumption
  <2>1. ASSUME NEW lane \in UpdateInputs, Update(lane) PROVE ClockInv'
    BY <2>1, UpdatedEffect, ClockKept DEF Update
  <2>2. ASSUME NEW c \in BOOLEAN, Render(c) PROVE ClockInv'
    BY <2>2, <2>same DEF Render
  <2>3. ASSUME NEW spawned \in SpawnInputs \cup {NoLane}, NEW e \in BOOLEAN, Suspend(spawned, e)
        PROVE  ClockInv'
    <3>1. Restart(wip) /\ now' = now
      BY <2>3 DEF Suspend
    <3>2. /\ root.pending \subseteq root'.pending
          /\ \A l \in Lane : root'.expirationTimes[l] = IF l \in wip THEN NoTimestamp
                                                        ELSE root.expirationTimes[l]
      BY <2>3, SuspendStep DEF SuspendKeeps
    <3> QED BY <3>1, <3>2, ClockKept
  <2>4. ASSUME NEW remaining \in SUBSET root.pending, NEW spawned \in SpawnInputs \cup {NoLane},
               NEW retry \in SUBSET (UpdateInputs \cap RetryLanes),
               Finish(remaining, spawned, retry)
        PROVE  ClockInv'
    <3>1. Restart(root.pending \ remaining) /\ now' = now
      BY <2>4 DEF Finish
    <3>2. FinishKeeps(root, root', remaining, spawned)
      BY <2>4, FinishStep
    <3> QED BY <3>1, <3>2, ClockKept DEF FinishKeeps
  <2>5. ASSUME NEW lane \in Lane, Ping(lane) PROVE ClockInv'
    BY <2>5, <2>same, SetterStep DEF SetterKeeps
  <2>6. ASSUME NEW lanes \in SUBSET EntangleInputs, Entangle(lanes) PROVE ClockInv'
    BY <2>6, <2>same, EntangledEffect DEF Entangle
  <2>7. ASSUME NEW lane \in AuxInputs, UpgradeToSync(lane) PROVE ClockInv'
    BY <2>7, UpgradedEffect, ClockKept DEF UpgradeToSync
  <2>8. ASSUME NEW lane \in AuxInputs,
               \/ ForceExpired(lane) \/ DisableErrorRecovery(lane)
               \/ HideUpdate(lane) \/ RevealUpdates(lane)
        PROVE  ClockInv'
    BY <2>8, <2>same, SetterStep DEF SetterKeeps
  <2>9. CASE CheckStarved
    <3>1. /\ root' = MarkStarvedLanesAsExpired(root, now)
          /\ readySince' = readySince /\ now' = now
      BY <2>9 DEF CheckStarved
    <3>2. ASSUME NEW l \in Lane, root'.expirationTimes[l] # NoTimestamp
          PROVE  /\ l \in root'.pending
                 /\ root'.expirationTimes[l] >= readySince'[l] + ExpirationMs(l)
      <4>1. CASE root'.expirationTimes[l] = root.expirationTimes[l]
        BY <3>1, <3>2, <4>1, StarvedEffect DEF ClockInv, StarvationClock
      <4>2. CASE l \in root.pending /\ root'.expirationTimes[l] = ComputeExpirationTime(l, now)
        <5>1. root'.expirationTimes[l] = now + ExpirationMs(l)
          BY <3>2, <4>2 DEF ComputeExpirationTime
        <5>2. /\ readySince[l] <= now /\ ExpirationMs(l) \in Nat
              /\ readySince[l] \in Nat \cup {NoTimestamp}
          BY ExpirationMsNat DEF ClockInv, TypeOK
        <5>3. root'.pending = root.pending
          BY <3>1, StarvedEffect
        <5> QED BY <3>1, <4>2, <5>1, <5>2, <5>3 DEF NoTimestamp
      <4> QED BY <3>1, <4>1, <4>2, StarvedEffect
    <3> QED BY <3>1, <3>2 DEF ClockInv, StarvationClock
  <2>10. CASE Tick
    <3>1. /\ root' = root /\ readySince' = readySince /\ now' = now + 1
      BY <2>10 DEF Tick
    <3>2. \A l \in Lane : readySince[l] \in Nat \cup {NoTimestamp}
      BY DEF TypeOK
    <3> QED BY <3>1, <3>2 DEF ClockInv, StarvationClock, NoTimestamp
  <2>11. CASE UNCHANGED vars
    BY <2>11, <2>same DEF vars
  <2> QED BY <2>1, <2>2, <2>3, <2>4, <2>5, <2>6, <2>7, <2>8, <2>9, <2>10, <2>11 DEF Next
<1>3. ClockInv => StarvationClock
  BY DEF ClockInv
<1> QED BY <1>1, <1>2, <1>3, TypeCorrect, PTL DEF Spec

-----------------------------------------------------------------------------
(***************************************************************************)
(* What get_next_lanes selects when no render is in progress.               *)
(***************************************************************************)
LEMMA NextIsBeforeWip ==
  ASSUME NEW s, NEW c \in BOOLEAN
  PROVE  GetNextLanes(s, {}, c) = NextLanesBeforeWip(s, c)
  BY DEF GetNextLanes

\* A lane that is suspended, not pinged and warm already is not selected.
LEMMA BlockedIsNotSelected ==
  ASSUME NEW s \in RootLaneStates, NEW c \in BOOLEAN,
         NEW l \in s.suspended \cap s.warm, l \notin s.pinged
  PROVE  l \notin NextLanesBeforeWip(s, c)
<1> DEFINE pool == IF s.pending \cap NonIdleLanes # {} THEN s.pending \cap NonIdleLanes
                   ELSE s.pending
           pinged == IF s.pending \cap NonIdleLanes # {}
                     THEN (s.pending \cap NonIdleLanes) \cap s.pinged ELSE s.pinged
           unblocked == pool \ s.suspended
           prewarm == LanesToPrewarm(s, pool, c)
<1>1. /\ unblocked \in SUBSET Lane /\ pinged \in SUBSET Lane /\ prewarm \in SUBSET Lane
      /\ l \notin unblocked /\ l \notin pinged /\ l \notin prewarm
  BY DEF RootLaneStates, LanesToPrewarm
<1>2. NextLanesBeforeWip(s, c) \in {{}, HighestPriorityLanes(unblocked),
                                    HighestPriorityLanes(pinged), HighestPriorityLanes(prewarm)}
  BY DEF NextLanesBeforeWip
<1> HIDE DEF unblocked, pinged, prewarm
<1> QED BY <1>1, <1>2, HighestPriorityLanesSubset

\* Sync work that is not blocked is selected, or something more urgent is.
LEMMA UnblockedIsSelected ==
  ASSUME NEW s \in RootLaneStates, NEW c \in BOOLEAN, NEW l \in Unblocked(s), l <= DefaultLane
  PROVE  NextLanesBeforeWip(s, c) # {}
<1> DEFINE nonIdle == s.pending \cap NonIdleLanes
<1>1. /\ nonIdle \in SUBSET Lane /\ l \in nonIdle /\ DeferredLane \notin nonIdle
      /\ l \notin s.suspended \/ l \in s.pinged
  BY LaneAssumption DEF RootLaneStates, Unblocked, NonIdleLanes, DefaultLane, DeferredLane, AllLanes
<1>2. nonIdle \ s.suspended # {} => HighestPriorityLanes(nonIdle \ s.suspended) # {}
  BY <1>1, HighestPriorityLanesNonempty
<1>3. nonIdle \cap s.pinged # {} => HighestPriorityLanes(nonIdle \cap s.pinged) # {}
  BY <1>1, HighestPriorityLanesNonempty
<1>4. s.pending # {} /\ nonIdle # {}
  BY <1>1
<1>5. NextLanesBeforeWip(s, c) = IF nonIdle \ s.suspended # {}
                                 THEN HighestPriorityLanes(nonIdle \ s.suspended)
                                 ELSE IF nonIdle \cap s.pinged # {}
                                 THEN HighestPriorityLanes(nonIdle \cap s.pinged)
                                 ELSE HighestPriorityLanes(LanesToPrewarm(s, nonIdle, c))
  BY <1>4 DEF NextLanesBeforeWip
<1> HIDE DEF nonIdle
<1> QED BY <1>1, <1>2, <1>3, <1>5

(***************************************************************************)
(* The lanes attempted to the end are suspended, warm and not pinged: the   *)
(* strengthening that makes NoHotRetry inductive.                           *)
(***************************************************************************)
AttemptedIsBlocked == attempted \subseteq (root.suspended \cap root.warm) \ root.pinged

\* mark_suspended, mark_pinged and mark_updated keep it.
LEMMA AttemptedStep ==
  ASSUME TypeOK, AttemptedIsBlocked, [Next]_vars
  PROVE  AttemptedIsBlocked'
<1>0. root \in RootLaneStates /\ wip \in SUBSET Lane
  BY DEF TypeOK
<1> USE <1>0, InputAssumption DEF AttemptedIsBlocked
<1>1. ASSUME NEW lane \in UpdateInputs, Update(lane) PROVE AttemptedIsBlocked'
  BY <1>1 DEF Update, MarkUpdated, MarkAllUpdated, RootLaneStates
<1>2. ASSUME NEW c \in BOOLEAN, Render(c) PROVE AttemptedIsBlocked'
  BY <1>2 DEF Render
<1>3. ASSUME NEW spawned \in SpawnInputs \cup {NoLane}, NEW e \in BOOLEAN, Suspend(spawned, e)
      PROVE  AttemptedIsBlocked'
  <2> DEFINE b == [root EXCEPT
         !.suspended = @ \cup wip,
         !.pinged = @ \ wip,
         !.warm = IF e THEN @ \cup wip ELSE @,
         !.expirationTimes = [l \in Lane |-> IF l \in wip THEN NoTimestamp ELSE @[l]]]
  <2>1. /\ b.suspended = root.suspended \cup wip /\ b.pinged = root.pinged \ wip
        /\ b.warm = IF e THEN root.warm \cup wip ELSE root.warm
        /\ b \in RootLaneStates
    BY DEF RootLaneStates
  <2>2. root' = MarkSpawnedDeferredLane(b, spawned, wip)
    BY <1>3 DEF Suspend, MarkSuspended
  <2> HIDE DEF b
  <2>3. /\ root'.suspended \in {b.suspended, b.suspended \ {spawned}}
        /\ root'.pinged = b.pinged /\ root'.warm = b.warm
    BY <2>1, <2>2 DEF MarkSpawnedDeferredLane, SpawnLane, RootLaneStates
  <2>4. attempted' = (IF e THEN attempted \cup wip ELSE attempted) \ {spawned}
    BY <1>3 DEF Suspend
  <2> QED BY <2>1, <2>3, <2>4
<1>4. ASSUME NEW remaining, NEW spawned, NEW retry, Finish(remaining, spawned, retry)
      PROVE  AttemptedIsBlocked'
  BY <1>4 DEF Finish
<1>5. ASSUME NEW lane \in Lane, Ping(lane) PROVE AttemptedIsBlocked'
  BY <1>5 DEF Ping, MarkPinged, RootLaneStates
<1>6. ASSUME NEW lanes \in SUBSET EntangleInputs, Entangle(lanes) PROVE AttemptedIsBlocked'
  BY <1>6 DEF Entangle, MarkEntangled, RootLaneStates
<1>7. ASSUME NEW lane \in AuxInputs, UpgradeToSync(lane) PROVE AttemptedIsBlocked'
  BY <1>7 DEF UpgradeToSync, UpgradePendingLanesToSync, RootLaneStates
<1>8. ASSUME NEW lane \in AuxInputs,
             \/ ForceExpired(lane) \/ DisableErrorRecovery(lane)
             \/ HideUpdate(lane) \/ RevealUpdates(lane)
      PROVE  AttemptedIsBlocked'
  BY <1>8 DEF ForceExpired, DisableErrorRecovery, HideUpdate, RevealUpdates, RootLaneStates,
              MarkExpired, MarkErrorRecoveryDisabled, MarkHiddenUpdate, ClearHiddenUpdates
<1>9. CASE CheckStarved
  BY <1>9 DEF CheckStarved, MarkStarvedLanesAsExpired, RootLaneStates
<1>10. CASE Tick \/ UNCHANGED vars
  BY <1>10 DEF Tick, vars
<1> QED BY <1>1, <1>2, <1>3, <1>4, <1>5, <1>6, <1>7, <1>8, <1>9, <1>10 DEF Next

(***************************************************************************)
(* Work that suspended after a full attempt is not selected again before a  *)
(* ping or an update, and whatever a sync flush would take get_next_lanes   *)
(* sees too.                                                                *)
(***************************************************************************)
THEOREM SelectionCorrect == Spec => []SelectionIsSound
<1>1. Init => AttemptedIsBlocked
  BY DEF Init, AttemptedIsBlocked
<1>2. TypeOK /\ AttemptedIsBlocked /\ [Next]_vars => AttemptedIsBlocked'
  BY AttemptedStep
<1>3. TypeOK /\ AttemptedIsBlocked => SelectionIsSound
  <2> SUFFICES ASSUME TypeOK, AttemptedIsBlocked, NEW c \in BOOLEAN
               PROVE  /\ NextLanesBeforeWip(root, c) \cap attempted = {}
                      /\ GetNextLanesToFlushSync(root, {}) # {} => NextLanesBeforeWip(root, c) # {}
    BY NextIsBeforeWip DEF SelectionIsSound, NoHotRetry, FlushAgreesWithSelection
  <2>1. root \in RootLaneStates
    BY DEF TypeOK
  <2>2. NextLanesBeforeWip(root, c) \cap attempted = {}
    BY <2>1, BlockedIsNotSelected DEF AttemptedIsBlocked
  <2>3. ASSUME GetNextLanesToFlushSync(root, {}) # {} PROVE NextLanesBeforeWip(root, c) # {}
    <3>1. PICK l \in Unblocked(root) : l \in LanesOfEqualOrHigherPriority(SyncUpdateLanes)
      BY <2>3 DEF GetNextLanesToFlushSync
    <3>2. l <= DefaultLane
      BY <3>1 DEF LanesOfEqualOrHigherPriority, SyncUpdateLanes, SyncLane, InputContinuousLane,
                  DefaultLane, AllLanes
    <3> QED BY <2>1, <3>1, <3>2, UnblockedIsSelected
  <2> QED BY <2>2, <2>3
<1> QED BY <1>1, <1>2, <1>3, TypeCorrect, PTL DEF Spec
=============================================================================
