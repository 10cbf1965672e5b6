----------------------------- MODULE BridgeState -----------------------------
(***************************************************************************)
(* The records of the React DOM root bridge and what each bridge call does  *)
(* to them (packages/react-dom/src/client/root-bridge.js, root-markers.js). *)
(*                                                                          *)
(* Every call appends or looks up a record: a request in the log of the     *)
(* bridge, the side effects of createRoot on its container, the admission   *)
(* of a render under such side effects, and the host output mounted for an  *)
(* admission. The calls are functions from a bridge to a bridge, so that a  *)
(* facade call which makes several of them, or undoes some after a failure, *)
(* is their composition. JavaScript runs one call at a time; a call that    *)
(* throws is one whose guard is false.                                      *)
(***************************************************************************)
EXTENDS Naturals, Sequences, FiniteSets

CONSTANT Containers   \* the DOM containers

\* No root, no record.
None == 0

EmptyBridge ==
  [roots      |-> <<>>,   \* root handles
   log        |-> <<>>,   \* create, render and unmount requests in request order
   marker     |-> [c \in Containers |-> None],   \* the root a container is marked with
   effects    |-> <<>>,   \* applied createRoot side effects
   admissions |-> <<>>,   \* admitted create/render paths
   outputs    |-> <<>>,   \* initial host output handoffs
   children   |-> [c \in Containers |-> {}],     \* the outputs shown in a container
   applied    |-> {},     \* <<render, output>> of the applied output updates
   cleaned    |-> {}]     \* the unmount requests whose output was cleaned up

Roots(b) == 1 .. Len(b.roots)
Effects(b) == 1 .. Len(b.effects)
Admissions(b) == 1 .. Len(b.admissions)
Outputs(b) == 1 .. Len(b.outputs)
Requests(b) == 1 .. Len(b.log)

RootOfAdmission(b, a) == b.log[b.admissions[a].render].root
RootOfOutput(b, o) == RootOfAdmission(b, b.outputs[o].admission)
ContainerOf(b, r) == b.roots[r].container

----------------------------------------------------------------------------
(* Requests.                                                                *)

\* createClientRootRecordWithBridge: a container may get several root handles.
CreateClientRoot(b, c) ==
  [b EXCEPT
     !.roots = Append(@, [container |-> c, status |-> "created", renderCount |-> 0,
                          latest |-> Len(b.log) + 1, version |-> 1,
                          admission |-> None, update |-> None]),
     !.log = Append(@, [root |-> Len(b.roots) + 1, op |-> "create", before |-> "none",
                        count |-> 0, noOp |-> FALSE])]

\* assertRootHandleCanRender
CanRender(b, r) == b.roots[r].status # "unmounted"

\* createRootUpdateRecordWithBridge: the request becomes the latest of its root.
Request(b, r, op, status, count, noOp) ==
  [b EXCEPT
     !.roots[r] = [@ EXCEPT !.status = status, !.renderCount = count,
                            !.latest = Len(b.log) + 1,
                            !.version = b.roots[r].version + 1],
     !.log = Append(@, [root |-> r, op |-> op, before |-> b.roots[r].status,
                        count |-> count, noOp |-> noOp])]

RenderContainer(b, r) ==
  Request(b, r, "render", "rendered", b.roots[r].renderCount + 1, FALSE)

UnmountContainer(b, r) ==
  Request(b, r, "unmount", "unmounted", b.roots[r].renderCount, ~ CanRender(b, r))

----------------------------------------------------------------------------
(* Side effects of createRoot: the root marker and the native listeners.    *)

\* The side effects applied last for a root, if they are still active.
ActiveEffects(b, r) ==
  {e \in Effects(b) : b.effects[e].root = r /\ b.effects[e].active}

\* markContainerAsRootWithRevertRecord refuses a container that is marked.
CanMark(b, c) == b.marker[c] = None
MarkContainer(b, c, r) == [b EXCEPT !.marker[c] = r]

\* revertContainerRootMarkerMutation: the marker was absent before it was applied.
UnmarkContainer(b, c) == [b EXCEPT !.marker[c] = None]

\* applyPrivateCreateRootSideEffectsWithBridge, whatever the status of the root is. Active
\* side effects are returned as they are.
CanApplyEffects(b, r) == ActiveEffects(b, r) # {} \/ CanMark(b, ContainerOf(b, r))

ApplyEffects(b, r) ==
  IF ActiveEffects(b, r) # {} THEN b
  ELSE [MarkContainer(b, ContainerOf(b, r), r) EXCEPT
          !.effects = Append(@, [root |-> r, active |-> TRUE])]

\* The listeners could not be installed: the marker is taken back.
ApplyEffectsFails(b, r) ==
  UnmarkContainer(MarkContainer(b, ContainerOf(b, r), r), ContainerOf(b, r))

\* revertPrivateCreateRootSideEffectsWithBridge; reverted side effects stay reverted.
RevertEffects(b, e) ==
  IF ~ b.effects[e].active THEN b
  ELSE [UnmarkContainer(b, ContainerOf(b, b.effects[e].root)) EXCEPT
          !.effects[e].active = FALSE]

\* validateCreateRenderSideEffectRecord. (While the side effects are active the listening
\* markers are there: InstalledStaysCurrent of RootListeners.)
EffectsValid(b, e) ==
  /\ b.effects[e].active
  /\ b.marker[ContainerOf(b, b.effects[e].root)] = b.effects[e].root

----------------------------------------------------------------------------
(* Admission of a render.                                                   *)

\* The admission made last for a render request.
LatestAdmission(b, q) ==
  LET of == {a \in Admissions(b) : b.admissions[a].render = q} IN
  IF of = {} THEN None ELSE CHOOSE a \in of : \A other \in of : other <= a

CanAdmit(b, e, q) ==
  /\ EffectsValid(b, e)
  /\ b.log[q].op = "render"
  /\ b.log[q].root = b.effects[e].root

Admitted(b, e, q) ==
  LatestAdmission(b, q) # None /\ b.admissions[LatestAdmission(b, q)].effect = e

\* admitPrivateCreateRenderPathWithBridge: a known admission is returned without becoming
\* the current one of its root handle again.
Admit(b, e, q) ==
  IF Admitted(b, e, q) THEN b
  ELSE [b EXCEPT !.admissions = Append(@, [render |-> q, effect |-> e]),
                 !.roots[b.effects[e].root].admission = Len(b.admissions) + 1]

----------------------------------------------------------------------------
(* Host output.                                                             *)

\* The output made last for an admission.
LatestOutput(b, a) ==
  LET of == {o \in Outputs(b) : b.outputs[o].admission = a} IN
  IF of = {} THEN None ELSE CHOOSE o \in of : \A other \in of : other <= o

HasActiveOutput(b, a) == LatestOutput(b, a) # None /\ b.outputs[LatestOutput(b, a)].active

\* validateInitialHostOutputAdmissionRecord
AdmissionCanShow(b, a) ==
  /\ b.roots[RootOfAdmission(b, a)].status # "unmounted"
  /\ EffectsValid(b, b.admissions[a].effect)

\* assertInitialHostOutputContainerCanReceiveRootChild
ContainerIsEmpty(b, a) == b.children[ContainerOf(b, RootOfAdmission(b, a))] = {}

CanShow(b, a) == AdmissionCanShow(b, a) /\ (HasActiveOutput(b, a) \/ ContainerIsEmpty(b, a))

\* applyPrivateInitialRenderHostOutputWithBridge: active output is returned as it is.
Show(b, a) ==
  IF HasActiveOutput(b, a) THEN b
  ELSE [b EXCEPT
          !.outputs = Append(@, [admission |-> a, active |-> TRUE, mounted |-> TRUE,
                                 content |-> b.admissions[a].render]),
          !.children[ContainerOf(b, RootOfAdmission(b, a))] = @ \cup {Len(b.outputs) + 1}]

\* Mutant: the handoff stays active.
CleanupKeepsActive(b, o) ==
  IF ~ b.outputs[o].active THEN b
  ELSE [b EXCEPT !.children[ContainerOf(b, RootOfOutput(b, o))] = @ \ {o},
                 !.outputs[o].mounted = FALSE]

\* cleanupPrivateInitialRenderHostOutputWithBridge: the nodes that are still children of
\* the container go, and their host instances are detached.
CleanupOutput(b, o) ==
  IF ~ b.outputs[o].active THEN b
  ELSE [b EXCEPT !.children[ContainerOf(b, RootOfOutput(b, o))] = @ \ {o},
                 !.outputs[o] = [@ EXCEPT !.active = FALSE, !.mounted = FALSE]]

\* validateHostOutputUpdateRequestRecord: only the latest render request updates.
UpdateCurrent(b, q) ==
  LET root == b.roots[b.log[q].root] IN
  /\ b.log[q].op = "render"
  /\ b.log[q].before = "rendered"
  /\ root.admission # None
  /\ root.status = "rendered"
  /\ b.log[q].count = root.renderCount

IsApplied(b, q) == \E p \in b.applied : p[1] = q

CanUpdate(b, q, o) ==
  /\ UpdateCurrent(b, q)
  /\ IsApplied(b, q) \/ (b.outputs[o].mounted /\ RootOfOutput(b, o) = b.log[q].root)

\* applyPrivateRootHostOutputUpdateWithBridge; a request is applied once.
UpdateOutput(b, q, o) ==
  IF IsApplied(b, q) THEN [b EXCEPT !.roots[b.log[q].root].update = q]
  ELSE [b EXCEPT !.outputs[o].content = q, !.applied = @ \cup {<<q, o>>},
                 !.roots[b.log[q].root].update = q]

----------------------------------------------------------------------------
(* Cleanup after an unmount request.                                        *)

\* isUnmountHostOutputCleanupRenderCurrent: the admitted render was the last one, or the
\* last one updated the output shown for the admission.
UnmountRenderCurrent(b, a, u) ==
  LET q    == b.admissions[a].render
      last == b.roots[b.log[u].root].update IN
  \/ b.log[q].count = b.log[u].count
  \/ /\ last # None
     /\ HasActiveOutput(b, a)
     /\ <<last, LatestOutput(b, a)>> \in b.applied
     /\ b.log[last].count = b.log[u].count
     /\ q < last /\ last < u

\* validateUnmountHostOutputCleanupRecords; a cleanup that was done is returned.
CanCleanupUnmount(b, a, u) ==
  /\ u \notin b.cleaned
  /\ b.log[u].op = "unmount" /\ ~ b.log[u].noOp /\ b.log[u].before = "rendered"
  /\ EffectsValid(b, b.admissions[a].effect)
  /\ b.log[u].root = RootOfAdmission(b, a)
  /\ b.roots[b.log[u].root].admission = a
  /\ b.roots[b.log[u].root].status = "unmounted"
  /\ b.admissions[a].render < u
  /\ UnmountRenderCurrent(b, a, u)

\* clearContainerForRootUnmount and detachHostInstanceSubtree: whatever the container
\* shows goes. The handoffs of the outputs keep their active flag.
ClearContainer(b, c) ==
  [b EXCEPT !.children[c] = {},
            !.outputs = [o \in Outputs(b) |->
               [b.outputs[o] EXCEPT
                  !.mounted = b.outputs[o].mounted /\ o \notin b.children[c]]]]

\* cleanupPrivateRootUnmountHostOutputWithBridge
CleanupUnmount(b, a, u) ==
  [RevertEffects(ClearContainer(b, ContainerOf(b, b.log[u].root)), b.admissions[a].effect)
     EXCEPT !.cleaned = @ \cup {u}]

----------------------------------------------------------------------------
=============================================================================
