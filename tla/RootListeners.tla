---------------------------- MODULE RootListeners ----------------------------
(***************************************************************************)
(* The native listeners of React DOM roots                                  *)
(* (packages/react-dom/src/events/root-listeners.js, listener-registry.js). *)
(*                                                                          *)
(* A root listens to every event on its container and to selectionchange on *)
(* the document of the container. The document is shared by all roots in    *)
(* it: a set of keys kept on every target tells which listeners are already *)
(* there, and a second root installs none of those. A reversible            *)
(* registration remembers the listeners it installed and how it found its   *)
(* targets, and its revert puts that back. A currentness gate later decides *)
(* whether an event may still be delivered on behalf of a registration.     *)
(***************************************************************************)
EXTENDS Naturals, Sequences, FiniteSets, SequencesExt

CONSTANTS
  ListenerContainers,   \* the root and portal containers
  PortalContainers,  \* the containers listened to for good, without a record
  Document,     \* the document that owns them (it may itself be a container)
  RootKeys,     \* the listener set keys of a container, in the order of installation
  Inspectable,  \* whether a target lets its listeners be counted (a fake DOM does)
  MaxRegistrations  \* bound on the registrations of a behaviour

SelectionChange == "selectionchange__bubble"
Targets == ListenerContainers \cup {Document}
Keys == ToSet(RootKeys) \cup {SelectionChange}

\* The events are a set, and no portal is rendered into a document.
ASSUME ListenerConstants ==
  /\ RootKeys \in Seq(ToSet(RootKeys))
  /\ \A i, j \in DOMAIN RootKeys : RootKeys[i] = RootKeys[j] => i = j
  /\ Len(RootKeys) > 1
  /\ SelectionChange \notin ToSet(RootKeys)
  /\ PortalContainers \subseteq ListenerContainers
  /\ Document \notin PortalContainers
  /\ Inspectable \in BOOLEAN
  /\ MaxRegistrations \in Nat

VARIABLES
  targets,  \* target -> its listening marker, listener set and native listeners
  regs,     \* the registration records, in the order of their creation
  gated     \* the registrations a currentness gate record was made for

listenerVars == <<targets, regs, gated>>

NoListeners == [listening |-> FALSE, hasSet |-> FALSE, keys |-> {}, listeners |-> {}]

\* The owner of listeners that no record can revert.
Permanent == 0

ListenersInit == targets = [t \in Targets |-> NoListeners] /\ regs = <<>> /\ gated = {}

----------------------------------------------------------------------------
(* Installing and removing listeners.                                       *)

TargetsOf(c) == {c, Document}

\* What registerSupportedRootListeners asks for, in its order.
Plan(c) ==
  [i \in 1 .. Len(RootKeys) + 1 |->
     IF i <= Len(RootKeys) THEN <<c, RootKeys[i]>> ELSE <<Document, SelectionChange>>]
PlanEnd == Len(RootKeys) + 2

\* listenToNativeEventRecord installs a listener only when the key is not in the set: the
\* steps of the plan that call addEventListener.
Missing(c) == {i \in DOMAIN Plan(c) : Plan(c)[i][2] \notin targets[Plan(c)[i][1]].keys}

\* What is installed when step n of the plan is reached.
InstalledBefore(c, n) == {Plan(c)[i] : i \in {j \in Missing(c) : j < n}}

\* The targets reached with step n: a target that is reached gets its listener set, and its
\* marker before its first listener.
Reached(c, n) == IF n <= Len(RootKeys) THEN {c} ELSE TargetsOf(c)

KeysOn(installed, t) == {p[2] : p \in {q \in installed : q[1] = t}}

Install(owner, c, n) ==
  LET new(t) == KeysOn(InstalledBefore(c, n), t) IN
  [t \in Targets |->
     [listening |-> targets[t].listening \/ t \in Reached(c, n),
      hasSet    |-> targets[t].hasSet \/ t \in Reached(c, n),
      keys      |-> targets[t].keys \cup new(t),
      listeners |-> targets[t].listeners \cup (new(t) \X {owner})]]

Snapshot(t) == [hasSet |-> targets[t].hasSet, listening |-> targets[t].listening]

\* describeListenerTargetSnapshot
Describe(d, t) ==
  [count     |-> IF Inspectable THEN Cardinality(d[t].listeners) ELSE 0,
   size      |-> Cardinality(d[t].keys),
   listening |-> d[t].listening]

\* cleanupInstalledRootListeners: the listeners and keys of a registration go, the marker
\* becomes what it was, and a set that was not there before goes when it is empty.
CleanupInstalled(d, owner, installed, before, c) ==
  [t \in Targets |->
     LET keys == d[t].keys \ KeysOn(installed, t) IN
     IF t \notin TargetsOf(c) THEN d[t]
     ELSE [listening |-> before[t].listening,
           hasSet    |-> d[t].hasSet /\ (before[t].hasSet \/ keys # {}),
           keys      |-> keys,
           listeners |-> {l \in d[t].listeners : ~ (l[2] = owner /\ <<t, l[1]>> \in installed)}]]

----------------------------------------------------------------------------
(* The operations.                                                          *)

Before(c) == [t \in TargetsOf(c) |-> Snapshot(t)]
NextOwner == Len(regs) + 1

\* registerRootListenersForPrivateRoot
Register(c) ==
  LET d == Install(NextOwner, c, PlanEnd) IN
  /\ Len(regs) < MaxRegistrations
  /\ targets' = d
  /\ regs' = Append(regs,
       [container |-> c, installed |-> InstalledBefore(c, PlanEnd), before |-> Before(c),
        after |-> [t \in TargetsOf(c) |-> Describe(d, t)], active |-> TRUE])
  /\ UNCHANGED gated

\* addEventListener throws in step n: what was installed is reverted.
RegisterFails(c, n) ==
  /\ Len(regs) < MaxRegistrations
  /\ n \in Missing(c)
  /\ targets' = CleanupInstalled(Install(NextOwner, c, n), NextOwner,
                                 InstalledBefore(c, n), Before(c), c)
  /\ UNCHANGED <<regs, gated>>

\* listenToAllSupportedEvents and listenToPortalContainerEvents: nothing is recorded, and
\* nothing is reverted when addEventListener throws in step n.
ListenToAllSupportedEvents(c, n) ==
  /\ n \in Missing(c) \cup {PlanEnd}
  /\ targets' = Install(Permanent, c, n)
  /\ UNCHANGED <<regs, gated>>

\* revertRootListenersForPrivateRoot; a second revert returns the first one's record.
RevertRootListeners(r) ==
  /\ regs[r].active
  /\ targets' = CleanupInstalled(targets, r, regs[r].installed, regs[r].before, regs[r].container)
  /\ regs' = [regs EXCEPT ![r].active = FALSE]
  /\ UNCHANGED gated

\* Mutant: only the container of the registration is compared.
TargetCurrentSkipsDocument(r, t) ==
  regs[r].active /\ (t = Document \/ Describe(targets, t) = regs[r].after[t])

\* createRootListenerCurrentnessTargetRow and ...ListenerRow
TargetCurrent(r, t) ==
  regs[r].active /\ Describe(targets, t) = regs[r].after[t]
ListenerCurrent(r, p) ==
  /\ regs[r].active
  /\ p[2] \in targets[p[1]].keys
  /\ Inspectable => <<p[2], r>> \in targets[p[1]].listeners
StateCurrent(r) ==
  /\ \A t \in TargetsOf(regs[r].container) : TargetCurrent(r, t)
  /\ \A p \in regs[r].installed : ListenerCurrent(r, p)

\* createPrivateRootListenerCurrentnessGateRecord
CreateCurrentnessGate(r) ==
  /\ r \notin gated
  /\ regs[r].active
  /\ StateCurrent(r)
  /\ gated' = gated \cup {r}
  /\ UNCHANGED <<targets, regs>>

\* validatePrivateRootListenerCurrentnessGateForEvent
GateAccepts(r, key) ==
  /\ r \in gated
  /\ regs[r].active
  /\ StateCurrent(r)
  /\ <<regs[r].container, key>> \in regs[r].installed

ListenersNext ==
  \/ \E c \in ListenerContainers :
       \/ Register(c)
       \/ \E n \in DOMAIN Plan(c) : RegisterFails(c, n)
  \/ \E c \in PortalContainers, n \in 1 .. PlanEnd : ListenToAllSupportedEvents(c, n)
  \/ \E r \in 1 .. Len(regs) : RevertRootListeners(r) \/ CreateCurrentnessGate(r)

ListenersSpec == ListenersInit /\ [][ListenersNext]_listenerVars

----------------------------------------------------------------------------
(* Properties.                                                              *)

\* The listener set by which later registrations skip an event names exactly the events a
\* listener is installed for, and each of them has one listener: no event is lost to a
\* stale key and none is delivered twice.
KeysAreListeners ==
  \A t \in Targets :
    /\ targets[t].keys = {l[1] : l \in targets[t].listeners}
    /\ Cardinality(targets[t].listeners) = Cardinality(targets[t].keys)
    /\ targets[t].keys # {} => targets[t].hasSet

\* A registration that fails half way leaves every target as it found it.
FailedRegistrationRestores ==
  [][targets' # targets /\ regs' = regs =>
       \A c \in ListenerContainers, n \in 1 .. PlanEnd : ~ RegisterFails(c, n)]_listenerVars

\* What an active registration installed stays installed whatever other registrations of
\* the same document are made or reverted, its container stays marked, and so does the
\* document while the registration owns the selectionchange listener. (The marker of a
\* document that is itself a container may go with another root's registration.)
InstalledStaysCurrent ==
  \A r \in 1 .. Len(regs) : regs[r].active =>
    \A p \in regs[r].installed :
      /\ p[2] \in targets[p[1]].keys /\ <<p[2], r>> \in targets[p[1]].listeners
      /\ p[1] # Document \/ p[2] = SelectionChange => targets[p[1]].listening

\* An event is delivered for a registration only while its container listens to the event
\* and its document to selectionchange, also when another root installed that listener and
\* has been reverted since.
GateNeverStale ==
  \A r \in 1 .. Len(regs), key \in Keys : GateAccepts(r, key) =>
    /\ <<key, r>> \in targets[regs[r].container].listeners
    /\ SelectionChange \in targets[Document].keys
    /\ targets[Document].listening

\* What a registration installed stays installed until it is reverted, whatever others of its
\* document are reverted, and the set by which later registrations skip an event names
\* exactly the listeners there are.  An event is delivered for a registration only while its
\* container listens to the event and its document to selectionchange, also when another
\* root installed that listener and has been reverted since (root-listeners.js).
ListenersAreCurrent == InstalledStaysCurrent /\ KeysAreListeners /\ GateNeverStale

=============================================================================
