----------------------------- MODULE RootBridge ------------------------------
(***************************************************************************)
(* The private React DOM root bridge (createPrivateRootBridgeShell of       *)
(* packages/react-dom/src/client/root-bridge.js): its calls in any order,   *)
(* on records of any age, by several roots that may share a container.      *)
(***************************************************************************)
EXTENDS BridgeState

CONSTANTS
  MaxHandles,        \* bound on the root handles of a behaviour
  MaxShellRequests,  \* bound on the requests
  MaxEffects,        \* bound on the side effect records
  MaxAdmissions,     \* bound on the admissions
  MaxOutputs         \* bound on the initial host outputs

ASSUME BridgeBounds ==
  {MaxHandles, MaxShellRequests, MaxEffects, MaxAdmissions, MaxOutputs} \subseteq Nat

VARIABLE shell   \* the records of the bridge

ShellInit == shell = EmptyBridge

createClientRoot(c) ==
  /\ Len(shell.roots) < MaxHandles /\ Len(shell.log) < MaxShellRequests
  /\ shell' = CreateClientRoot(shell, c)

renderContainer(r) ==
  /\ Len(shell.log) < MaxShellRequests
  /\ CanRender(shell, r)
  /\ shell' = RenderContainer(shell, r)

unmountContainer(r) ==
  /\ Len(shell.log) < MaxShellRequests
  /\ shell' = UnmountContainer(shell, r)

applyCreateRootSideEffects(r) ==
  /\ Len(shell.effects) < MaxEffects
  /\ CanApplyEffects(shell, r)
  /\ shell' = ApplyEffects(shell, r)

\* The listeners of the root cannot be installed.
applyCreateRootSideEffectsFails(r) ==
  /\ ActiveEffects(shell, r) = {} /\ CanMark(shell, ContainerOf(shell, r))
  /\ shell' = ApplyEffectsFails(shell, r)

revertCreateRootSideEffects(e) ==
  shell' = RevertEffects(shell, e)

admitCreateRenderPath(e, q) ==
  /\ Len(shell.admissions) < MaxAdmissions
  /\ CanAdmit(shell, e, q)
  /\ shell' = Admit(shell, e, q)

applyInitialRenderHostOutput(a) ==
  /\ Len(shell.outputs) < MaxOutputs
  /\ CanShow(shell, a)
  /\ shell' = Show(shell, a)

cleanupInitialRenderHostOutput(o) ==
  shell' = CleanupOutput(shell, o)

applyHostOutputUpdate(q, o) ==
  /\ CanUpdate(shell, q, o)
  /\ shell' = UpdateOutput(shell, q, o)

cleanupUnmountHostOutput(a, u) ==
  /\ CanCleanupUnmount(shell, a, u)
  /\ shell' = CleanupUnmount(shell, a, u)

ShellNext ==
  \/ \E c \in Containers : createClientRoot(c)
  \/ \E r \in Roots(shell) :
       \/ renderContainer(r) \/ unmountContainer(r)
       \/ applyCreateRootSideEffects(r) \/ applyCreateRootSideEffectsFails(r)
  \/ \E e \in Effects(shell) :
       \/ revertCreateRootSideEffects(e)
       \/ \E q \in Requests(shell) : admitCreateRenderPath(e, q)
  \/ \E a \in Admissions(shell) :
       \/ applyInitialRenderHostOutput(a)
       \/ \E u \in Requests(shell) : cleanupUnmountHostOutput(a, u)
  \/ \E o \in Outputs(shell) :
       \/ cleanupInitialRenderHostOutput(o)
       \/ \E q \in Requests(shell) : applyHostOutputUpdate(q, o)

ShellSpec == ShellInit /\ [][ShellNext]_shell

----------------------------------------------------------------------------
(* Properties.                                                              *)

\* A container is marked with a root exactly while side effects of that root are active on
\* it, and never for two roots at once: neither a failed installation, a second revert nor
\* a cleanup leaves a marker behind or takes the marker of another root.
MarkersMatchEffects ==
  \A c \in Containers :
    LET active == {e \in Effects(shell) :
                     shell.effects[e].active /\ ContainerOf(shell, shell.effects[e].root) = c} IN
    /\ Cardinality(active) <= 1
    /\ {shell.effects[e].root : e \in active} = {shell.marker[c]} \ {None}

\* A node is in its container exactly while its host instance is attached: no call leaves a
\* detached node on the page or an instance that keeps a removed node alive.
InstancesMatchChildren ==
  \A o \in Outputs(shell) :
    shell.outputs[o].mounted <=>
      o \in shell.children[ContainerOf(shell, RootOfOutput(shell, o))]

\* Output that would be returned as already applied is really shown: nobody, not the
\* cleanup of another root of the container either, can have removed it since.
ReturnedOutputIsShown ==
  \A a \in Admissions(shell) :
    AdmissionCanShow(shell, a) /\ HasActiveOutput(shell, a) =>
      shell.outputs[LatestOutput(shell, a)].mounted

\* The content of mounted output never goes back to an older render request.
ContentNeverGoesBack ==
  [][\A o \in Outputs(shell) : shell'.outputs[o].content >= shell.outputs[o].content]_shell

\* Once the output of an unmounted root was cleaned up the root shows nothing again, even
\* though its side effects may be applied and its old renders admitted again.
CleanedRootStaysEmpty ==
  \A u \in shell.cleaned, o \in Outputs(shell) :
    RootOfOutput(shell, o) = shell.log[u].root => ~ shell.outputs[o].mounted

\* Output that the bridge would return as already applied is really shown: nobody, not the
\* cleanup of another root of the container either, can have removed it since.  A container
\* is marked exactly while side effects of one root are active on it, a node is in it exactly
\* while its host instance is attached, and a cleaned up root shows nothing again
\* (renderInitialHostOutput, the side effects and the cleanups of root-bridge.js).
BridgeMatchesDom ==
  /\ ReturnedOutputIsShown /\ CleanedRootStaysEmpty
  /\ MarkersMatchEffects /\ InstancesMatchChildren

=============================================================================
