---------------------------- MODULE RefCallbacks ----------------------------
(***************************************************************************)
(* Callback refs of react-dom: the gate that runs them                     *)
(* (src/packages/react-dom/src/client/ref-callback-gate.js) on the         *)
(* component tree that holds the latest props of every host node           *)
(* (src/packages/react-dom/src/client/component-tree.js).                  *)
(*                                                                         *)
(* An execution is a sequence of steps, one per commit.  A step updates    *)
(* latest props, checks all of its rows against the component tree, then   *)
(* runs them one by one, detaches before attaches.  An attach calls the    *)
(* ref with a node; when the ref returns a function, the gate keeps it     *)
(* behind a handle, and the detach of the same ref calls that cleanup      *)
(* instead of the ref with null.  What a callback throws is recorded in    *)
(* its row.  What the gate throws ends the execution, which then puts back *)
(* the props that the steps before, and the rows' own step, have replaced; *)
(* the updates of a step in the middle of which it throws are forgotten.   *)
(*                                                                         *)
(* Refs and cleanups are code of the application.  While one runs it may   *)
(* mount, update or unmount nodes and start another execution, so that     *)
(* executions form a stack.                                                *)
(*                                                                         *)
(* Props are reduced to their ref.  The owners of a token are fixed with   *)
(* it, and records that name others are refused; they are left out.        *)
(***************************************************************************)
EXTENDS Naturals, Sequences, SequencesExt

CONSTANTS
    Tokens,         \* host instance tokens, each with the node it is meant for
    Refs,           \* refs that are functions
    ObjectRefs,     \* refs that are objects
    RefHandle(_, _),\* the ref handle a commit gives a token's ref
    Executions,     \* the executions callers ask for: sequences of steps
    CleanupsReenter,\* whether cleanups start executions too
    MaxCleanups,    \* bound on the cleanups that refs return
    MaxCalls,       \* bound on the executions
    MaxChanges      \* bound on mounts, updates and unmounts by the renderer

VARIABLES
    latest,    \* per token, the ref of its latest props, or Created or Detached
    handles,   \* cleanup return handles: the token and the ref of the attach
    stored,    \* per ref handle, the handle of the cleanup to run, or NoHandle
    consumed,  \* consumed handles
    cleaned,   \* history: per handle, how often its cleanup was called
    stack,     \* executions in progress, the innermost last
    calls,     \* number of executions so far
    changes    \* number of changes by the renderer so far

vars == <<latest, handles, stored, consumed, cleaned, stack, calls, changes>>

AnyRef == Refs \union ObjectRefs
Created == "created"
Detached == "detached"
Untouched == "untouched"
NoHandle == 0
RefHandles == {RefHandle(t, r) : t \in Tokens, r \in AnyRef}

\* A row of a commit: detach or attach the ref of a token.  latest is the ref
\* the latest props must have then, cleanup where a detach has its cleanup from:
\* the store of the gate, a function of the caller or a handle of the caller,
\* which is then named by handle.
Row == [action : {"detach", "attach"}, token : Tokens, ref : AnyRef,
        latest : AnyRef, cleanup : {"stored", "direct", "handle"}, handle : Nat]
RefCallbacksAssumption ==
    /\ Refs \intersect ObjectRefs = {}
    /\ \A e \in Executions : \A i \in DOMAIN e :
        \A j, k \in DOMAIN e[i].rows :
            e[i].rows[j].action = "attach" /\ e[i].rows[k].action = "detach" => k < j
    /\ CleanupsReenter \in BOOLEAN
    /\ MaxCleanups \in Nat /\ MaxCalls \in Nat /\ MaxChanges \in Nat

-----------------------------------------------------------------------------
(***************************************************************************)
(* The component tree and the cleanup handles                              *)
(***************************************************************************)
Mounted(t) == latest[t] \notin {Created, Detached}

\* The cleanup behind handle h can be run by a detach of token t's ref r.
HandleFits(h, t, r) == h \notin consumed /\ handles[h] = [token |-> t, ref |-> r]

\* The store after handle h was consumed.
StoreWithout(h, store) ==
    [rh \in RefHandles |-> IF store[rh] = h THEN NoHandle ELSE store[rh]]

MarkConsumed(h) ==
    /\ stored' = IF h = NoHandle THEN stored ELSE StoreWithout(h, stored)
    /\ consumed' = consumed \union ({h} \ {NoHandle})

\* A ref returned a cleanup: its handle replaces the one of the same ref handle.
RecordCleanup(t, r) ==
    LET h == Len(handles) + 1
        rh == RefHandle(t, r)
    IN  /\ handles' = Append(handles, [token |-> t, ref |-> r])
        /\ cleaned' = Append(cleaned, 0)
        /\ stored' = [stored EXCEPT ![rh] = h]
        /\ consumed' = consumed \union ({stored[rh]} \ {NoHandle})

-----------------------------------------------------------------------------
(***************************************************************************)
(* Executions in progress                                                  *)
(***************************************************************************)
Idle == [kind |-> "none", handle |-> NoHandle]

\* steps, rows: what is left to do.  applied: the props updates so far, with the
\* refs they replaced.  call: what the current row called.  before is history:
\* the refs of the tokens before the execution first updated them.
Frame(e) == [steps |-> e, rows |-> <<>>, applied |-> <<>>, call |-> Idle,
             before |-> [t \in Tokens |-> Untouched]]

Top == stack[Len(stack)]
SetTop(f) == stack' = [stack EXCEPT ![Len(stack)] = f]
Pop == stack' = Front(stack)
AtGate == stack # <<>> /\ Top.call = Idle

\* The application or the renderer is running, in no execution or in a callback.
AtUser == stack # <<>> => Top.call # Idle

NextRow == Head(Top.rows)
RowDone == [Top EXCEPT !.rows = Tail(@), !.call = Idle]

\* props after the replaced refs were put back, newest first; tokens that were
\* unmounted meanwhile are passed over.
PutBack(props, applied) ==
    FoldRight(LAMBDA u, acc : IF acc[u.token] \in AnyRef
                              THEN [acc EXCEPT ![u.token] = u.ref] ELSE acc,
              applied, props)

\* Mutant: the props stay as they are.
ThrowKeepsProps(props) == latest' = props /\ Pop

\* The gate throws: the execution ends.
Throw(props) == latest' = PutBack(props, Top.applied) /\ Pop

-----------------------------------------------------------------------------
Init ==
    /\ latest = [t \in Tokens |-> Created]
    /\ handles = <<>> /\ cleaned = <<>>
    /\ stored = [rh \in RefHandles |-> NoHandle]
    /\ consumed = {}
    /\ stack = <<>>
    /\ calls = 0 /\ changes = 0

\* The renderer attaches a node with its token, replaces its latest props or
\* detaches it for good.
Change(t, value) ==
    /\ AtUser
    /\ changes < MaxChanges
    /\ changes' = changes + 1
    /\ latest' = [latest EXCEPT ![t] = value]
    /\ UNCHANGED <<handles, stored, consumed, cleaned, stack, calls>>

AttachNode(t, r) == latest[t] = Created /\ Change(t, r)
UpdateLatestProps(t, r) == Mounted(t) /\ latest[t] # r /\ Change(t, r)
DetachNode(t) == Mounted(t) /\ Change(t, Detached)

\* The detaches of execution e that come with a handle: their tokens and refs.
WithHandle(e) ==
    {<<row.token, row.ref>> : row \in
        {r \in UNION {Range(e[i].rows) : i \in DOMAIN e} : r.cleanup = "handle"}}

\* Execution e with the handles the caller chose for its detaches.
Records(e, chosen) ==
    LET Record(row) == IF row.cleanup = "handle"
                       THEN [row EXCEPT !.handle = chosen[<<row.token, row.ref>>]]
                       ELSE row
    IN  [i \in DOMAIN e |->
            [e[i] EXCEPT !.rows = [j \in DOMAIN @ |-> Record(@[j])]]]

\* The caller makes the records of execution e, which checks their handles, and
\* hands them to the gate.
Start(e) ==
    /\ AtUser
    /\ stack # <<>> /\ Top.call.kind = "cleanup" => CleanupsReenter
    /\ calls < MaxCalls
    /\ \E chosen \in [WithHandle(e) -> DOMAIN handles] :
        /\ \A pair \in WithHandle(e) : HandleFits(chosen[pair], pair[1], pair[2])
        /\ stack' = Append(stack, Frame(Records(e, chosen)))
    /\ calls' = calls + 1
    /\ UNCHANGED <<latest, handles, stored, consumed, cleaned, changes>>

\* The updates of a step: how many are applied, the props after them, and what
\* they replaced.
AppliedCount(updates) ==
    SelectInSeq(updates, LAMBDA u : ~Mounted(u.token))
AfterUpdates(updates) ==
    FoldLeft(LAMBDA acc, u : [acc EXCEPT ![u.token] = u.ref], latest, updates)
Replaced(updates) ==
    [i \in DOMAIN updates |->
        [token |-> updates[i].token,
         ref |-> FoldLeft(LAMBDA acc, u : [acc EXCEPT ![u.token] = u.ref], latest,
                          SubSeq(updates, 1, i - 1))[updates[i].token]]]

\* History: the refs of updated tokens before their first update.
Touched(before, updates) ==
    [t \in Tokens |-> IF before[t] = Untouched
                         /\ \E i \in DOMAIN updates : updates[i].token = t
                      THEN latest[t] ELSE before[t]]

\* What every row of a step is checked against before any of them runs.
RowIsValid(row, props) == props[row.token] = row.latest

\* The next step: its updates are applied one by one.  One that names a token
\* without a node throws, and the updates of this step before it stay.
ApplyFails ==
    /\ AtGate /\ Top.rows = <<>> /\ Top.steps # <<>>
    /\ LET updates == Head(Top.steps).updates
           failing == AppliedCount(updates)
       IN  failing > 0 /\ Throw(AfterUpdates(SubSeq(updates, 1, failing - 1)))
    /\ UNCHANGED <<handles, stored, consumed, cleaned, calls, changes>>

BeginStep ==
    /\ AtGate /\ Top.rows = <<>> /\ Top.steps # <<>>
    /\ LET step == Head(Top.steps)
           props == AfterUpdates(step.updates)
           applied == Top.applied \o Replaced(step.updates)
       IN  /\ AppliedCount(step.updates) = 0
           /\ \/ /\ \A i \in DOMAIN step.rows : RowIsValid(step.rows[i], props)
                 /\ latest' = props
                 /\ SetTop([Top EXCEPT !.steps = Tail(@), !.rows = step.rows,
                                       !.applied = applied,
                                       !.before = Touched(@, step.updates)])
              \/ /\ \E i \in DOMAIN step.rows : ~RowIsValid(step.rows[i], props)
                 /\ latest' = PutBack(props, applied)
                 /\ Pop
    /\ UNCHANGED <<handles, stored, consumed, cleaned, calls, changes>>

Calling(kind, h) == SetTop([Top EXCEPT !.call = [kind |-> kind, handle |-> h]])

SkipObjectRef ==
    /\ AtGate /\ Top.rows # <<>> /\ NextRow.ref \in ObjectRefs
    /\ SetTop(RowDone)
    /\ UNCHANGED <<latest, handles, stored, consumed, cleaned, calls, changes>>

CallAttach ==
    /\ AtGate /\ Top.rows # <<>>
    /\ NextRow.ref \in Refs /\ NextRow.action = "attach"
    /\ Calling("attach", NoHandle)
    /\ UNCHANGED <<latest, handles, stored, consumed, cleaned, calls, changes>>

\* The handle a detach takes its cleanup from, if any.
CleanupHandle(row) ==
    IF row.cleanup = "handle" THEN row.handle ELSE stored[RefHandle(row.token, row.ref)]

IsCallbackDetach ==
    AtGate /\ Top.rows # <<>> /\ NextRow.ref \in Refs /\ NextRow.action = "detach"

\* A detach with a cleanup that the caller gave as a function.
CallDirectCleanup ==
    /\ IsCallbackDetach /\ NextRow.cleanup = "direct"
    /\ Calling("cleanup", NoHandle)
    /\ UNCHANGED <<latest, handles, stored, consumed, cleaned, calls, changes>>

\* A detach whose ref returned no cleanup.
CallWithNull ==
    /\ IsCallbackDetach /\ NextRow.cleanup # "direct"
    /\ CleanupHandle(NextRow) = NoHandle
    /\ Calling("null", NoHandle)
    /\ UNCHANGED <<latest, handles, stored, consumed, cleaned, calls, changes>>

\* A detach with a handle: its cleanup runs, or the handle is refused.
IsHandleDetach ==
    IsCallbackDetach /\ NextRow.cleanup # "direct" /\ CleanupHandle(NextRow) # NoHandle

CallCleanup ==
    /\ IsHandleDetach
    /\ LET h == CleanupHandle(NextRow)
       IN  /\ HandleFits(h, NextRow.token, NextRow.ref)
           /\ cleaned' = [cleaned EXCEPT ![h] = @ + 1]
           /\ Calling("cleanup", h)
    /\ UNCHANGED <<latest, handles, stored, consumed, calls, changes>>

RefuseCleanup ==
    /\ IsHandleDetach
    /\ ~HandleFits(CleanupHandle(NextRow), NextRow.token, NextRow.ref)
    /\ Throw(latest)
    /\ UNCHANGED <<handles, stored, consumed, cleaned, calls, changes>>

\* A callback returns to the gate: an attach with a cleanup, or any of them
\* without or by throwing.
ReturnCleanup ==
    /\ stack # <<>> /\ Top.call.kind = "attach"
    /\ Len(handles) < MaxCleanups
    /\ RecordCleanup(NextRow.token, NextRow.ref)
    /\ SetTop(RowDone)
    /\ UNCHANGED <<latest, calls, changes>>

Return ==
    /\ stack # <<>> /\ Top.call # Idle
    /\ MarkConsumed(Top.call.handle)
    /\ SetTop(RowDone)
    /\ UNCHANGED <<latest, handles, cleaned, calls, changes>>

Finish ==
    /\ AtGate /\ Top.rows = <<>> /\ Top.steps = <<>>
    /\ Pop
    /\ UNCHANGED <<latest, handles, stored, consumed, cleaned, calls, changes>>

Next ==
    \/ \E t \in Tokens : \E r \in AnyRef : AttachNode(t, r) \/ UpdateLatestProps(t, r)
    \/ \E t \in Tokens : DetachNode(t)
    \/ \E e \in Executions : Start(e)
    \/ ApplyFails \/ BeginStep \/ SkipObjectRef \/ CallAttach
    \/ CallDirectCleanup \/ CallWithNull \/ CallCleanup \/ RefuseCleanup
    \/ ReturnCleanup \/ Return \/ Finish

Spec == Init /\ [][Next]_vars
-----------------------------------------------------------------------------
\* A cleanup that a ref returned can be run by the detach of that ref until it is
\* consumed, whatever attaches and detaches other callbacks made in between, and
\* no consumed one is left in its place.
LiveCleanupIsStored ==
    /\ \A h \in DOMAIN handles \ consumed :
        stored[RefHandle(handles[h].token, handles[h].ref)] = h
    /\ \A rh \in RefHandles : stored[rh] \notin consumed

\* "Ref cleanup return handles cannot be consumed more than once": no cleanup is
\* called twice, neither by two detaches nor by a record made before the first.
CleanupRunsOnce == \A h \in DOMAIN handles : cleaned[h] <= 1

\* The tokens whose props were replaced by the step in which an update then throws:
\* appliedLatestPropsUpdates has the updates of a step only when all are applied.
HalfApplied ==
    IF Top.rows # <<>> \/ Top.steps = <<>> THEN {}
    ELSE LET updates == Head(Top.steps).updates
         IN  {updates[i].token : i \in 1 .. AppliedCount(updates) - 1}

\* An execution that the gate ends by throwing leaves the latest props of every
\* mounted node as they were before it first updated them, whatever callbacks ran in
\* between; but when one update of several in a step throws, a node that only the
\* updates before it changed keeps its new props (ref-callback-gate.js:563).
FailedExecutionRestores ==
    [][Len(stack') < Len(stack) /\ (Top.steps # <<>> \/ Top.rows # <<>>) =>
        \A t \in Tokens :
            IF Top.before[t] # Untouched /\ Mounted(t) THEN latest'[t] = Top.before[t]
            ELSE latest'[t] # latest[t] => t \in HalfApplied]_vars
=============================================================================
