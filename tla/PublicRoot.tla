----------------------------- MODULE PublicRoot ------------------------------
(***************************************************************************)
(* The public createRoot of react-dom/client: root.render and root.unmount  *)
(* over the facade roots of the root bridge                                 *)
(* (packages/react-dom/client.js, packages/react-dom/src/client/            *)
(* root-bridge.js).                                                         *)
(*                                                                          *)
(* A call is one action, since nothing runs between the steps of a call; a  *)
(* call that throws keeps what it had done when it threw. Elements are a    *)
(* div with text or a div with one span with text, and a value stands for   *)
(* everything else an element says. The public API can make a call throw    *)
(* by its arguments only; Faults adds the calls in which the DOM throws:    *)
(* when listeners are installed, elements shown or updated, the container   *)
(* is cleared, or listeners are taken back. One operation of the DOM throws *)
(* in a call, without effect, so what the call does to clean up succeeds.   *)
(***************************************************************************)
EXTENDS BridgeState

CONSTANTS
  Shapes,       \* subset of {"text", "nested"}: the shapes of the rendered elements
  Values,       \* the contents of the rendered elements
  Faults,       \* subset of {"listen", "show", "update", "unmount", "revert"}: where the
                \* DOM may throw
  MaxRoots,     \* bound on the roots
  MaxRequests   \* bound on the requests

ASSUME PublicRootConstants ==
  /\ Shapes \subseteq {"text", "nested"}
  /\ Faults \subseteq {"listen", "show", "update", "unmount", "revert"}
  /\ MaxRoots \in Nat /\ MaxRequests \in Nat

Elements == [shape : Shapes, value : Values]
NoElement == [shape |-> "none", value |-> 0]

VARIABLES
  bridge,     \* the records of the bridge
  elements,   \* the element of each request
  public,     \* hostOutputMounted and unmounted of each public root
  tracked,    \* minimalPublicRootContainers
  result      \* how the last call ended

vars == <<bridge, elements, public, tracked, result>>

Init ==
  /\ bridge = EmptyBridge
  /\ elements = <<>>
  /\ public = <<>>
  /\ tracked = {}
  /\ result = "returned"

----------------------------------------------------------------------------
(* The facade root of the bridge.                                           *)

\* getActivePrivateRootPublicFacadeHostOutputRender
ActiveOutput(b, r) ==
  LET active == {o \in Outputs(b) : RootOfOutput(b, o) = r /\ b.outputs[o].active} IN
  IF active = {} THEN None ELSE CHOOSE o \in active : \A other \in active : o <= other

\* The side effects, the admission and the request made last.
NewEffect(b) == Len(b.effects)
NewAdmission(b) == Len(b.admissions)
NewRequest(b) == Len(b.log)

\* renderPrivateRootPublicFacadeHostOutputFromPayload: the side effects of createRoot are
\* applied for the time of the render only.
RenderAdmitted(b, r) ==
  LET rendered == RenderContainer(ApplyEffects(b, r), r) IN
  Admit(rendered, NewEffect(rendered), NewRequest(rendered))

InitialRender(b, r) ==
  LET shown == Show(RenderAdmitted(b, r), NewAdmission(RenderAdmitted(b, r))) IN
  RevertEffects(shown, NewEffect(shown))

InitialRenderReturns(b, r) ==
  /\ CanApplyEffects(b, r)
  /\ CanShow(RenderAdmitted(b, r), NewAdmission(RenderAdmitted(b, r)))

\* Mutant: a failed render leaves the side effects applied.
InitialRenderFailsKeepsEffects(b, r) == RenderAdmitted(b, r)

\* cleanupPublicFacadeHostOutputRenderAfterFailure: the output of the render was taken back
\* by the bridge, the side effects are reverted; the request stays.
InitialRenderFails(b, r) == RevertEffects(RenderAdmitted(b, r), NewEffect(RenderAdmitted(b, r)))

\* The listeners of a render could not be taken back at first: its output is cleaned up.
InitialRenderRevertFails(b, r) ==
  LET shown == Show(RenderAdmitted(b, r), NewAdmission(RenderAdmitted(b, r))) IN
  RevertEffects(CleanupOutput(shown, Len(shown.outputs)), NewEffect(shown))

\* clearPrivateRootPublicFacadeActiveHostOutputFromPayload
ClearOutput(b, r, o) ==
  LET cleared == CleanupOutput(b, o) IN
  IF b.roots[r].admission = b.outputs[o].admission
  THEN [cleared EXCEPT !.roots[r].admission = None]
  ELSE cleared

\* updatePrivateRootPublicFacadeHostOutputFromPayload: the request of an update that throws
\* stays the latest of its root.
TextUpdate(b, r, o) == UpdateOutput(RenderContainer(b, r), NewRequest(b) + 1, o)
TextUpdateFails(b, r) == RenderContainer(b, r)

\* updatePrivateRootPublicFacadeNestedActiveHostOutputFromPayload publishes no update record.
NestedUpdate(b, r, o) == [RenderContainer(b, r) EXCEPT !.outputs[o].content = NewRequest(b) + 1]

\* rollbackPrivateRootPublicFacadeRenderRecordAfterFailure: the request is removed and the
\* root is again what its previous request made of it.
RollbackRender(b, r) ==
  LET q        == b.roots[r].latest
      removed  == [b EXCEPT !.log[q].op = "removed"]
      of(ops)  == {p \in 1 .. q - 1 : removed.log[p].root = r /\ removed.log[p].op \in ops}
      last(s)  == CHOOSE p \in s : \A other \in s : other <= p
      previous == last(of({"create", "render", "unmount"}))
      renders  == of({"render"}) IN
  [removed EXCEPT
     !.roots[r] = [@ EXCEPT !.status = b.log[q].before,
                            !.latest = previous,
                            !.renderCount = IF renders = {} THEN 0
                                            ELSE b.log[last(renders)].count,
                            !.version = b.roots[r].version - 1]]

\* The DOM was rolled back by the update (HostOutput), the request is here.
NestedUpdateFails(b, r) == RollbackRender(RenderContainer(b, r), r)

\* unmountPrivateRootPublicFacadeActiveHostOutputFromPayload: the side effects are applied
\* again, and the render request that updated the output last is admitted.
UnmountAdmitted(b, r, o) ==
  LET applied == ApplyEffects(UnmountContainer(b, r), r) IN
  Admit(applied, NewEffect(applied), b.outputs[o].content)

\* A root that is unmounted already gets a no-op request, which no lifecycle boundary
\* accepts when output is still active.
UnmountReturns(b, r) ==
  LET o        == ActiveOutput(b, r)
      admitted == UnmountAdmitted(b, r, o) IN
  o # None =>
    /\ CanRender(b, r)
    /\ CanApplyEffects(b, r)
    /\ CanCleanupUnmount(admitted, NewAdmission(admitted), NewRequest(admitted))

\* cleanupUnmountHostOutput and clearPrivateRootPublicFacadeUnmountMetadata
UnmountOutput(b, r) ==
  LET o        == ActiveOutput(b, r)
      admitted == [UnmountAdmitted(b, r, o) EXCEPT !.outputs[o].active = FALSE] IN
  IF o = None THEN UnmountContainer(b, r)
  ELSE [CleanupUnmount(admitted, NewAdmission(admitted), NewRequest(admitted)) EXCEPT
          !.roots[r].admission = None]

\* The unmount request stays when the cleanup throws.
UnmountFails(b, r) ==
  LET admitted == UnmountAdmitted(b, r, ActiveOutput(b, r)) IN
  IF ~ CanRender(b, r) \/ ~ CanApplyEffects(b, r) THEN UnmountContainer(b, r)
  ELSE RevertEffects(admitted, NewEffect(admitted))

\* cleanupPrivateRootUnmountHostOutputWithBridge has cleared the container when it cannot take
\* the listeners back; the facade reverts the side effects, and the output stays active.
UnmountRevertFails(b, r) ==
  LET admitted == UnmountAdmitted(b, r, ActiveOutput(b, r)) IN
  RevertEffects(ClearContainer(admitted, ContainerOf(b, r)), NewEffect(admitted))

----------------------------------------------------------------------------
(* The calls.                                                               *)

\* A request of the call keeps its element.
Remember(b, element) ==
  elements' = [q \in Requests(b) |-> IF q \in DOMAIN elements THEN elements[q] ELSE element]

Call(b, element, outcome) ==
  /\ bridge' = b
  /\ Remember(b, element)
  /\ result' = outcome

Live == {r \in Roots(bridge) : ~ public[r].unmounted}

\* assertCreateRootContainerAvailable
ContainerAvailable(c) == c \notin tracked /\ bridge.marker[c] = None

createRoot(c) ==
  /\ Len(bridge.roots) < MaxRoots /\ Len(bridge.log) < MaxRequests
  /\ ContainerAvailable(c)
  /\ Call(CreateClientRoot(bridge, c), NoElement, "returned")
  /\ public' = Append(public, [mounted |-> FALSE, unmounted |-> FALSE])
  /\ tracked' = tracked \cup {c}

\* root.render(element) of a root that shows nothing.
renderInitial(r, element) ==
  /\ Len(bridge.log) < MaxRequests
  /\ CanRender(bridge, r) /\ ActiveOutput(bridge, r) = None
  /\ \/ /\ InitialRenderReturns(bridge, r)
        /\ Call(InitialRender(bridge, r), element, "returned")
        /\ public' = [public EXCEPT ![r].mounted = TRUE]
     \/ /\ "show" \in Faults \/ (CanApplyEffects(bridge, r) /\ ~ InitialRenderReturns(bridge, r))
        /\ Call(InitialRenderFails(bridge, r), element, "threw")
        /\ UNCHANGED public
     \/ /\ "revert" \in Faults /\ InitialRenderReturns(bridge, r)
        /\ Call(InitialRenderRevertFails(bridge, r), element, "threw")
        /\ UNCHANGED public
  /\ UNCHANGED tracked

\* The listeners of the root cannot be installed.
renderInitialListenFails(r) ==
  /\ "listen" \in Faults
  /\ CanRender(bridge, r) /\ ActiveOutput(bridge, r) = None
  /\ Call(ApplyEffectsFails(bridge, r), NoElement, "threw")
  /\ UNCHANGED <<public, tracked>>

ShownElement(o) == elements[bridge.outputs[o].content]

\* root.render(element) of a root that shows a div with text. An update that changes
\* nothing has no mutating row and throws.
renderText(r, element) ==
  LET o == ActiveOutput(bridge, r) IN
  /\ Len(bridge.log) < MaxRequests
  /\ CanRender(bridge, r) /\ o # None
  /\ ShownElement(o).shape = "text" /\ element.shape = "text"
  /\ \/ /\ element # ShownElement(o)
        /\ Call(TextUpdate(bridge, r, o), element, "returned")
        /\ public' = [public EXCEPT ![r].mounted = TRUE]
     \/ /\ element = ShownElement(o) \/ "update" \in Faults
        /\ Call(TextUpdateFails(bridge, r), element, "threw")
        /\ UNCHANGED public
  /\ UNCHANGED tracked

\* root.render(element) of a root that shows a div with a span.
renderNested(r, element) ==
  LET o == ActiveOutput(bridge, r) IN
  /\ Len(bridge.log) < MaxRequests
  /\ CanRender(bridge, r) /\ o # None
  /\ ShownElement(o).shape = "nested" /\ element.shape = "nested"
  /\ \/ /\ Call(NestedUpdate(bridge, r, o), element, "returned")
        /\ public' = [public EXCEPT ![r].mounted = TRUE]
     \/ /\ "update" \in Faults
        /\ Call(NestedUpdateFails(bridge, r), element, "threw")
        /\ UNCHANGED public
  /\ UNCHANGED tracked

\* root.render(element) with an element of another shape, and any render of a root that
\* the bridge has retired, throws before anything is recorded.
renderRefused(r, element) ==
  /\ \/ ~ CanRender(bridge, r)
     \/ /\ ActiveOutput(bridge, r) # None
        /\ ShownElement(ActiveOutput(bridge, r)).shape # element.shape
  /\ Call(bridge, NoElement, "threw")
  /\ UNCHANGED <<public, tracked>>

\* root.render(null)
renderNull(r) ==
  /\ public[r].mounted
  /\ \/ /\ CanRender(bridge, r)
        /\ Call(ClearOutput(bridge, r, ActiveOutput(bridge, r)), NoElement, "returned")
        /\ public' = [public EXCEPT ![r].mounted = FALSE]
     \/ /\ ~ CanRender(bridge, r)
        /\ Call(bridge, NoElement, "threw")
        /\ UNCHANGED public
  /\ UNCHANGED tracked

unmount(r) ==
  /\ Len(bridge.log) < MaxRequests
  /\ \/ /\ UnmountReturns(bridge, r)
        /\ Call(UnmountOutput(bridge, r), NoElement, "returned")
        /\ public' = [public EXCEPT ![r] = [mounted |-> FALSE, unmounted |-> TRUE]]
        /\ tracked' = tracked \ {ContainerOf(bridge, r)}
     \/ /\ \/ ~ UnmountReturns(bridge, r)
           \/ "unmount" \in Faults /\ ActiveOutput(bridge, r) # None
        /\ Call(UnmountFails(bridge, r), NoElement, "threw")
        /\ UNCHANGED <<public, tracked>>
     \/ /\ "revert" \in Faults
        /\ UnmountReturns(bridge, r) /\ ActiveOutput(bridge, r) # None
        /\ Call(UnmountRevertFails(bridge, r), NoElement, "threw")
        /\ UNCHANGED <<public, tracked>>

Next ==
  \/ \E c \in Containers : createRoot(c)
  \/ \E r \in Live :
       \/ renderInitialListenFails(r) \/ renderNull(r) \/ unmount(r)
       \/ \E element \in Elements :
            \/ renderInitial(r, element) \/ renderText(r, element)
            \/ renderNested(r, element) \/ renderRefused(r, element)

Spec == Init /\ [][Next]_vars

----------------------------------------------------------------------------
(* Properties.                                                              *)

\* A container is tracked exactly while one root that was not unmounted owns it, whatever
\* calls threw: no container is owned twice or refused without an owner.
TrackingMatchesRoots ==
  \A c \in Containers :
    LET owners == {r \in Live : ContainerOf(bridge, r) = c} IN
    Cardinality(owners) <= 1 /\ (c \in tracked <=> owners # {})

\* Between two calls no container is marked and no listeners are installed: every call,
\* also one that throws half way, takes its createRoot side effects back.
NoEffectsBetweenCalls ==
  /\ \A c \in Containers : bridge.marker[c] = None
  /\ \A e \in Effects(bridge) : ~ bridge.effects[e].active

\* The public root, the facade and the DOM agree on whether a root shows output. Only a root
\* that an unmount has retired may keep output that it does not show any more.
MountedAgrees ==
  /\ \A r \in Roots(bridge) :
       /\ public[r].mounted <=> ActiveOutput(bridge, r) # None
       /\ public[r].unmounted => ~ CanRender(bridge, r)
  /\ \A o \in Outputs(bridge) :
       /\ bridge.outputs[o].mounted => bridge.outputs[o].active
       /\ bridge.outputs[o].active =>
            bridge.outputs[o].mounted \/ ~ CanRender(bridge, RootOfOutput(bridge, o))
       /\ bridge.outputs[o].mounted <=>
            o \in bridge.children[ContainerOf(bridge, RootOfOutput(bridge, o))]

\* An element that is shown belongs to a root that still owns its container, so a second
\* root of the container never finds or clears the output of the first.
ShownOutputIsOwned ==
  \A c \in Containers : \A o \in bridge.children[c] :
    RootOfOutput(bridge, o) \in Live /\ c \in tracked

\* Whatever calls threw, the public roots, the facade and the DOM agree on what is shown; a
\* container is tracked exactly while one live root owns it, and only the elements of this
\* root are shown in it; and no call leaves a marker or a listener behind (client.js).
PublicRootsAgree ==
  MountedAgrees /\ TrackingMatchesRoots /\ ShownOutputIsOwned /\ NoEffectsBetweenCalls

\* The container of a root that this call has retired, all of whose output is gone.
ClearedByUnmount(c) ==
  /\ bridge'.children[c] = {}
  /\ \E r \in Live : /\ ContainerOf(bridge, r) = c /\ ActiveOutput(bridge, r) # None
                     /\ CanRender(bridge, r) /\ ~ CanRender(bridge', r)

\* A call that throws leaves the DOM as it was. The one exception is an unmount that throws
\* when it takes the listeners back: it has emptied the container of its root by then.
FailedCallKeepsDom ==
  [][result' = "threw" =>
       /\ \A c \in Containers :
            \/ bridge'.children[c] = bridge.children[c]
            \/ "revert" \in Faults /\ ClearedByUnmount(c)
       /\ \A o \in Outputs(bridge) : bridge'.outputs[o].content = bridge.outputs[o].content]_vars

\* root.unmount() of a root that was not unmounted would return: whatever renders were
\* accepted or threw before, the container can be cleared and given to another root.
UnmountAlwaysReturns == \A r \in Live : UnmountReturns(bridge, r)

=============================================================================
