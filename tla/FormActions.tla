---------------------------- MODULE FormActions ----------------------------
(***************************************************************************)
(* Form actions of react-dom                                               *)
(* (src/packages/react-dom/src/shared/form-actions.js), to where a root    *)
(* takes their result (src/packages/react-dom/src/resource-form-gates.js). *)
(* Submitting a form whose action is a function is broken into records     *)
(* that the caller makes one by one: the data blocker of the submit event, *)
(* its dispatch, the reset of the form that precedes the action, the       *)
(* preflight of the action, the run of its asynchronous callback, and then *)
(* either the reset that follows a fulfilled callback or the error         *)
(* preflight of a rejected one.  A root takes such a reset together with a *)
(* resource record; both are bound to a boundary, which stands for one     *)
(* render request.                                                         *)
(*                                                                         *)
(* The callback is awaited, so that everything else happens while it runs: *)
(* another reset of the same dispatch, another run of the same preflight,  *)
(* a render or an unmount of the root.  A call that is refused throws      *)
(* before it takes a sequence number and changes nothing.                  *)
(*                                                                         *)
(* Records are numbered in the order of their creation.  The id that one   *)
(* record is known to another by is the prefix of its gate and the         *)
(* sequence number within the gate; gates of a kind have the same prefix   *)
(* unless their options name another.  One gate makes all data blockers.   *)
(***************************************************************************)
EXTENDS Naturals, Sequences, FiniteSets

CONSTANTS
    DispatchGates, ResetGates,
    Prefix,         \* [DispatchGates \union ResetGates -> the prefix of its ids]
    Roots,
    BlockerKinds,   \* the kinds of submit events the callers make blockers of
    MaxOf           \* bound on the records of each class

VARIABLES
    blockers,     \* data blockers: what kind of submit event each is made of
    dispatches,   \* submit dispatches: gate, sequence in the gate and blocker
    currentness,  \* per dispatch: next and latest reset generation, latest reset
    resets,       \* submit resets: gate, dispatch and generation
    preflights,   \* action preflights: dispatch and reset
    runs,         \* callback runs: preflight and outcome
    fulfilled,    \* resets after a fulfilled run: run, reset and boundary
    rejected,     \* error preflights: the rejected run
    requests,     \* per root, its render and unmount requests
    boundaries,   \* lifecycle boundaries: root and number of the request
    resources,    \* resource records: boundary
    taken,        \* what a root took: boundary, resource and fulfilled reset
    consumed      \* the runs, resources and fulfilled resets that are used up

forms == <<blockers, dispatches, currentness, resets, preflights, runs>>
roots == <<requests, boundaries, resources, taken>>
vars == <<forms, fulfilled, rejected, roots, consumed>>

Classes == {"blocker", "dispatch", "preflight", "run", "fulfilled", "request",
            "boundary", "resource"}

\* A submit event whose action is a function or not, and the reset intent that
\* comes with it: of the completion of the action or another one.
SubmitKinds == {"function", "navigation"} \X {"action-completion", "other"}

ASSUME FormActionsAssumption ==
    /\ DispatchGates \intersect ResetGates = {}
    /\ DispatchGates \union ResetGates = DOMAIN Prefix
    /\ BlockerKinds \subseteq SubmitKinds
    /\ MaxOf \in [Classes -> Nat]

\* No boundary.
None == 0

-----------------------------------------------------------------------------
(***************************************************************************)
(* What records know of each other                                         *)
(***************************************************************************)
DispatchId(d) == <<Prefix[dispatches[d].gate], dispatches[d].sequence>>

\* A reset gate admits one reset only, so that its sequence number is 1.
ResetId(r) == <<Prefix[resets[r].gate], 1>>

IsFunctionAction(d) == blockers[dispatches[d].blocker][1] = "function"
ResetsOnCompletion(d) == blockers[dispatches[d].blocker][2] = "action-completion"

NewCurrentness == [next |-> 1, latest |-> 0, record |-> 0]

\* The currentness of dispatch d after its reset r.
AfterReset(d, r) ==
    [next |-> currentness[d].next + 1, latest |-> currentness[d].next, record |-> r]

IsCurrentReset(r) ==
    LET state == currentness[resets[r].dispatch]
    IN  state.record = r /\ state.latest = resets[r].generation

\* What is asked of the sources of a submit reset and of an action preflight.
CanReset(d) == IsFunctionAction(d) /\ ResetsOnCompletion(d)
CanPreflight(d) == IsFunctionAction(d)
CanPreflightWith(d, r) ==
    DispatchId(resets[r].dispatch) = DispatchId(d) /\ IsCurrentReset(r)

\* The reset that run c's preflight was made with, and its dispatch.
RunReset(c) == preflights[runs[c].preflight].reset
RunDispatch(c) == preflights[runs[c].preflight].dispatch

\* Reset r is the one run c started from, as far as ids tell.
MatchesRun(c, r) ==
    /\ ResetId(r) = ResetId(RunReset(c))
    /\ DispatchId(resets[r].dispatch) = DispatchId(RunDispatch(c))
    /\ dispatches[resets[r].dispatch].blocker = dispatches[RunDispatch(c)].blocker

\* Boundary b stands for the latest request of its root, a render.
IsActiveBoundary(b) ==
    LET log == requests[boundaries[b].root]
    IN  boundaries[b].request = Len(log) /\ log[Len(log)] = "render"

\* Mutant: the generation of the reset is not looked at again.
IsKnownFulfilled(f) == f \in DOMAIN fulfilled

IsCurrentFulfilled(f) == IsCurrentReset(fulfilled[f].reset)

\* The root binding of a fulfilled reset may be left out, that of a resource not.
BindsToRoot(boundary) == boundary # None => IsActiveBoundary(boundary)

\* The two records a root takes are bound to the boundary they come with.
ResourceIsBoundTo(resource, boundary) == resources[resource] = boundary
FulfilledIsBoundTo(f, boundary) == fulfilled[f].boundary = boundary

-----------------------------------------------------------------------------
Init ==
    /\ blockers = <<>> /\ dispatches = <<>> /\ currentness = <<>>
    /\ resets = <<>> /\ preflights = <<>> /\ runs = <<>>
    /\ fulfilled = <<>> /\ rejected = <<>>
    /\ requests = [root \in Roots |-> <<>>]
    /\ boundaries = <<>> /\ resources = <<>> /\ taken = <<>>
    /\ consumed = [fulfilledRuns |-> {}, rejectedRuns |-> {},
                   resources |-> {}, resets |-> {}]

(***************************************************************************)
(* The submit                                                              *)
(***************************************************************************)
RecordBlocker(kind) ==
    /\ Len(blockers) < MaxOf["blocker"]
    /\ blockers' = Append(blockers, kind)
    /\ UNCHANGED <<dispatches, currentness, resets, preflights, runs,
                   fulfilled, rejected, roots, consumed>>

RecordDispatch(gate, blocker) ==
    /\ Len(dispatches) < MaxOf["dispatch"]
    /\ dispatches' = Append(dispatches,
           [gate |-> gate, blocker |-> blocker,
            sequence |-> 1 + Cardinality({d \in DOMAIN dispatches :
                                             dispatches[d].gate = gate})])
    /\ currentness' = Append(currentness, NewCurrentness)
    /\ UNCHANGED <<blockers, resets, preflights, runs,
                   fulfilled, rejected, roots, consumed>>

RecordReset(gate, d) ==
    /\ \A r \in DOMAIN resets : resets[r].gate # gate
    /\ CanReset(d)
    /\ resets' = Append(resets, [gate |-> gate, dispatch |-> d,
                                 generation |-> currentness[d].next])
    /\ currentness' = [currentness EXCEPT ![d] = AfterReset(d, Len(resets) + 1)]
    /\ UNCHANGED <<blockers, dispatches, preflights, runs,
                   fulfilled, rejected, roots, consumed>>

RecordPreflight(d, r) ==
    /\ Len(preflights) < MaxOf["preflight"]
    /\ CanPreflight(d)
    /\ CanPreflightWith(d, r)
    /\ preflights' = Append(preflights, [dispatch |-> d, reset |-> r])
    /\ UNCHANGED <<blockers, dispatches, currentness, resets, runs,
                   fulfilled, rejected, roots, consumed>>

\* The callback is called, and awaited.  A preflight may be run again.
StartCallback(p) ==
    /\ Len(runs) < MaxOf["run"]
    /\ runs' = Append(runs, [preflight |-> p, outcome |-> "pending"])
    /\ UNCHANGED <<blockers, dispatches, currentness, resets, preflights,
                   fulfilled, rejected, roots, consumed>>

\* How a callback ends: its thenable is fulfilled or rejected; or it threw, or
\* returned what is no thenable or cannot be asked for its then.
Outcomes == {"fulfilled", "rejected", "failed"}

\* The awaited callback ends and the record of its run is made.
SettleCallback(c, outcome) ==
    /\ runs[c].outcome = "pending"
    /\ runs' = [runs EXCEPT ![c].outcome = outcome]
    /\ UNCHANGED <<blockers, dispatches, currentness, resets, preflights,
                   fulfilled, rejected, roots, consumed>>

WasFulfilled(c) == runs[c].outcome = "fulfilled"
WasRejected(c) == runs[c].outcome = "rejected"

IsUnusedRun(c) == c \notin consumed.fulfilledRuns

\* The form is reset after the run; the boundary may be left out.
RecordFulfilledReset(c, r, boundary) ==
    /\ Len(fulfilled) < MaxOf["fulfilled"]
    /\ WasFulfilled(c)
    /\ MatchesRun(c, r)
    /\ IsCurrentReset(r)
    /\ BindsToRoot(boundary)
    /\ IsUnusedRun(c)
    /\ consumed' = [consumed EXCEPT !.fulfilledRuns = @ \union {c}]
    /\ fulfilled' = Append(fulfilled, [run |-> c, reset |-> r, boundary |-> boundary])
    /\ UNCHANGED <<forms, rejected, roots>>

RecordRejectedError(c) ==
    /\ WasRejected(c)
    /\ c \notin consumed.rejectedRuns
    /\ consumed' = [consumed EXCEPT !.rejectedRuns = @ \union {c}]
    /\ rejected' = Append(rejected, c)
    /\ UNCHANGED <<forms, fulfilled, roots>>

(***************************************************************************)
(* The root                                                                *)
(***************************************************************************)
Unmounted(root) == \E i \in DOMAIN requests[root] : requests[root][i] = "unmount"

\* A render or an unmount request of a root that is not unmounted.
RequestRoot(root, operation) ==
    /\ Len(requests[root]) < MaxOf["request"]
    /\ ~Unmounted(root)
    /\ requests' = [requests EXCEPT ![root] = Append(@, operation)]
    /\ UNCHANGED <<forms, fulfilled, rejected, boundaries, resources, taken, consumed>>

\* A boundary for the latest request of the root: a render, or the unmount of a
\* rendered root.  Only those of renders are of use to the records below.
CreateBoundary(root) ==
    /\ Len(boundaries) < MaxOf["boundary"]
    /\ \E i \in DOMAIN requests[root] : requests[root][i] = "render"
    /\ boundaries' = Append(boundaries, [root |-> root, request |-> Len(requests[root])])
    /\ UNCHANGED <<forms, fulfilled, rejected, requests, resources, taken, consumed>>

RecordResource(boundary) ==
    /\ Len(resources) < MaxOf["resource"]
    /\ IsActiveBoundary(boundary)
    /\ resources' = Append(resources, boundary)
    /\ UNCHANGED <<forms, fulfilled, rejected, requests, boundaries, taken, consumed>>

\* The root takes a resource and a fulfilled reset bound to the same boundary.
TakeRootExecution(boundary, resource, f) ==
    /\ IsActiveBoundary(boundary)
    /\ ResourceIsBoundTo(resource, boundary)
    /\ IsCurrentFulfilled(f)
    /\ FulfilledIsBoundTo(f, boundary)
    /\ resource \notin consumed.resources
    /\ f \notin consumed.resets
    /\ taken' = Append(taken, [boundary |-> boundary, resource |-> resource,
                               fulfilled |-> f])
    /\ consumed' = [consumed EXCEPT !.resources = @ \union {resource},
                                    !.resets = @ \union {f}]
    /\ UNCHANGED <<forms, fulfilled, rejected, requests, boundaries, resources>>

Next ==
    \/ \E kind \in BlockerKinds : RecordBlocker(kind)
    \/ \E gate \in DispatchGates, blocker \in DOMAIN blockers :
          RecordDispatch(gate, blocker)
    \/ \E gate \in ResetGates, d \in DOMAIN dispatches : RecordReset(gate, d)
    \/ \E d \in DOMAIN dispatches, r \in DOMAIN resets : RecordPreflight(d, r)
    \/ \E p \in DOMAIN preflights : StartCallback(p)
    \/ \E c \in DOMAIN runs, outcome \in Outcomes : SettleCallback(c, outcome)
    \/ \E c \in DOMAIN runs, r \in DOMAIN resets,
          boundary \in {None} \union DOMAIN boundaries :
          RecordFulfilledReset(c, r, boundary)
    \/ \E c \in DOMAIN runs : RecordRejectedError(c)
    \/ \E root \in Roots, operation \in {"render", "unmount"} :
          RequestRoot(root, operation)
    \/ \E root \in Roots : CreateBoundary(root)
    \/ \E boundary \in DOMAIN boundaries : RecordResource(boundary)
    \/ \E boundary \in DOMAIN boundaries, resource \in DOMAIN resources,
          f \in DOMAIN fulfilled : TakeRootExecution(boundary, resource, f)

Spec == Init /\ [][Next]_vars

-----------------------------------------------------------------------------
(***************************************************************************)
(* Properties                                                              *)
(***************************************************************************)

\* Reset r is the one run c started from, or one of another gate that cannot be told from it
\* by its id: the gates have the same prefix, and the dispatches the same id and blocker.
SameReset(c, r) ==
    LET own == RunReset(c)
    IN  \/ r = own
        \/ /\ resets[r].gate # resets[own].gate
           /\ Prefix[resets[r].gate] = Prefix[resets[own].gate]
           /\ DispatchId(resets[r].dispatch) = DispatchId(RunDispatch(c))
           /\ dispatches[resets[r].dispatch].blocker = dispatches[RunDispatch(c)].blocker

\* What a root takes is up to date when it is taken: no reset of the same dispatch is
\* younger, and the root has had no request since the one that both records were bound to.
\* It is the very reset that the preflight of its run was admitted with, unless another
\* gate gave a reset the same id: gates made with the default options do, and a run whose
\* own reset has become stale is then completed with the younger reset of the other gate.
\* The run has ended in no other way, and no root has taken its end before.
TakenIsCurrent ==
    [][\A t \in DOMAIN taken' \ DOMAIN taken :
          LET run == fulfilled[taken'[t].fulfilled].run
              reset == fulfilled[taken'[t].fulfilled].reset
              boundary == boundaries[fulfilled[taken'[t].fulfilled].boundary]
          IN  /\ SameReset(run, reset)
              /\ \A r \in DOMAIN resets :
                    resets[r].dispatch = resets[reset].dispatch => r <= reset
              /\ boundary = boundaries[resources[taken'[t].resource]]
              /\ Len(requests[boundary.root]) = boundary.request
              /\ ~Unmounted(boundary.root)
              /\ \A f \in DOMAIN fulfilled :
                    fulfilled[f].run = run => f = taken'[t].fulfilled
              /\ \A e \in DOMAIN rejected : rejected[e] # run
              /\ \A u \in DOMAIN taken : fulfilled[taken[u].fulfilled].run # run]_vars
=============================================================================
