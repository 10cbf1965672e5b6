------------------------------- MODULE Lanes -------------------------------
(***************************************************************************)
(* Lane sets of fast-react-core (crates/fast-react-core/src/lane.rs).       *)
(*                                                                         *)
(* The Rust type Lanes is a 31-bit bitset in which a LOWER bit has a        *)
(* HIGHER priority.  A Lane is modelled by the index of its bit and Lanes   *)
(* by a set of indices, so merge is \cup, remove is \ and intersect is      *)
(* \cap; the priority order is < on the indices.                            *)
(***************************************************************************)
EXTENDS Integers, FiniteSets

(***************************************************************************)
(* Lane::NO as an optional argument or result.                             *)
(***************************************************************************)
NoLane == -1

AllLanes == 0..30

SyncHydrationLane        == 0
SyncLane                 == 1
InputContinuousLane      == 3
DefaultLane              == 5
IdleLane                 == 28
OffscreenLane            == 29
DeferredLane             == 30

SyncUpdateLanes          == {SyncLane, InputContinuousLane, DefaultLane}
TransitionUpdateLanes    == 8..17
TransitionDeferredLanes  == 18..21
TransitionLanes          == TransitionUpdateLanes \cup TransitionDeferredLanes
RetryLanes               == 22..25
NonIdleLanes             == 0..26
UpdateLanes              == SyncUpdateLanes \cup TransitionUpdateLanes
HydrationLanes           == {0, 2, 4, 7, 26, 27}

(***************************************************************************)
(* Lanes::highest_priority_lane: the lowest set bit, Lane::NO for none.     *)
(***************************************************************************)
HighestPriorityLane(S) ==
    IF S = {} THEN NoLane ELSE CHOOSE l \in S : \A m \in S : l <= m

LanesOfEqualOrHigherPriority(S) ==
    {l \in AllLanes : \E m \in S : l <= m}

IncludesSyncLane(S) == S \cap {SyncHydrationLane, SyncLane} # {}

(***************************************************************************)
(* highest_priority_lanes (root_lanes.rs): the group of the most urgent     *)
(* lane.  The sync update lanes form one group that precedes everything     *)
(* else; transitions, deferred transitions and retries are groups; a lone   *)
(* DEFERRED lane is never work of its own.                                  *)
(***************************************************************************)
HighestPriorityLanes(S) ==
    LET top == HighestPriorityLane(S)
    IN  IF S \cap SyncUpdateLanes # {} THEN S \cap SyncUpdateLanes
        ELSE IF top \in TransitionUpdateLanes THEN S \cap TransitionUpdateLanes
        ELSE IF top \in TransitionDeferredLanes THEN S \cap TransitionDeferredLanes
        ELSE IF top \in RetryLanes THEN S \cap RetryLanes
        ELSE {top} \ {NoLane, DeferredLane}
=============================================================================
