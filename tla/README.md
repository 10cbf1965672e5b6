# Fast React: a TLA+ model of its scheduling, commit and root lifecycles

Fast React is a port of React's reconciler to Rust crates (`src/crates/`) with Node
bindings (`src/bindings/node`) and JavaScript packages (`src/packages/`). This project models
two halves of it:

- in Rust, what decides **when an update is rendered, what the render shows, and which render
  is committed**: lanes, the HostRoot update queue, the queue of a state hook, the render and
  commit of a root, and the scheduler of all roots; and the handle tables of the Node binding;
- in JavaScript, the parts that keep state of their own: the scheduler package with its mock
  and post-task builds, the roots of `react-dom/client` and the bridge under them, listeners,
  event dispatch, property updates, refs, controlled inputs, form actions, the native handoff,
  the test renderer's bridge and `React.Children`.

It is model-checked with TLC. The lane bookkeeping, the HostRoot, the scheduler of roots, the
scheduler package, the client roots of react-dom with their bridge, listeners and host output, the
records of form actions, controlled restore and the test renderer, the property payload, the
handle tables and the native handoff are also proved about with TLAPS: those theorems hold for
every instance (section 5).

Paths below are relative to `src/`; `core/` stands for `crates/fast-react-core/src/`,
`reconciler/` for `crates/fast-react-reconciler/src/`, `dom/` for `packages/react-dom/src/`.

## 1. Inventory

| Component | State | Operations | Status |
|---|---|---|---|
| Lanes, root lanes (`core/lane.rs`, `core/root_lanes.rs`) | lane sets of a root, one expiration time, entanglement and hidden counter per lane | mark updated, suspended, pinged, finished, entangled, expired, starved; choose lanes for a render or a flush | `Lanes`, `RootLaneState`, `RootLanes` |
| Update queue (`reconciler/update_queue.rs`) | base state, base list, pending ring, lanes, callbacks | append, clone, transfer, entangle, process, take callbacks | `UpdateQueue` |
| Staging (`reconciler/concurrent_updates.rs`) | staged (fiber, queue, update, lane) tuples | stage, validate, drain | `HostRoot` |
| Root updates (`reconciler/root_updates.rs`) | none of its own | `update_container` and its sync and transition forms | `HostRoot` |
| Render phase (`reconciler/root_work_loop/render_phase.rs`, `fiber_store.rs`) | the two HostRoot fibers, the work in progress, inserted queues and states | `render_host_root_for_lanes` | `HostRoot` |
| Commit (`reconciler/root_commit.rs`) | the root's current fiber, its lanes, callback, work in progress | `commit_finished_host_root` | `HostRoot`, `RootScheduler` |
| Root scheduler (`reconciler/root_scheduler.rs`, `fiber_root.rs`) | intrusive list of roots, microtask and sync-work flags, callback node and priority per root | ensure scheduled, microtask, callback, sync flush | `RootScheduler`, `ScheduledRootList` |
| Sync flush (`reconciler/sync_flush.rs`) | none of its own | render and commit sync lanes of all roots until none is left | `RootScheduler` |
| Scheduler bridge (`reconciler/scheduler_bridge.rs`) | requested microtasks and callbacks, handle counter | request, cancel, validate | `RootScheduler` |
| Act queue, continuations (`reconciler/root_scheduler/act.rs`) | queue of act callbacks, a shared fake node | push, flush, continue | planned |
| Hook state queue (`core/hook_state_queue.rs`, `reconciler/function_component.rs`) | update store, pending ring, slots of the current and the rendered hook | dispatch, render, rebase, revert, commit | `HookStateQueue` |
| Hook list, effect ring (`core/hook_list.rs`, `core/hook_effect_ring.rs`) | hooks of a list, ring of effects | append, update, push effect | planned |
| Fiber arena, topology, bubbling (`core/fiber*.rs`) | generation-checked slots, alternates, links | insert, remove, clone, bubble | planned |
| Context stack (`core/context_stack.rs`) | stack of provider values | push, pop, unwind | planned |
| Passive effects (`reconciler/passive_effects.rs`) | pending unmount and mount effects of a commit | collect, flush | planned |
| Scheduler package (`packages/scheduler/cjs/scheduler.development.js`) | task and timer heaps, loop and timeout flags, current priority | schedule, cancel, run with priority, message, timeout | `MinHeap`, `SchedulerQueues`, `TaskScheduler` |
| Mock scheduler (`scheduler-unstable_mock.development.js`) | the same queues, virtual time, stop conditions of a flush, log | flush helpers, advance time, reset | `MockScheduler` |
| Post-task scheduler (`scheduler-unstable_post_task.development.js`), its check in the act gate | a controller and a log per callback, current priority | schedule, cancel, continue, accept a log | `PostTask` |
| Root listeners (`dom/events/root-listeners.js`, `listener-registry.js`) | listeners, key sets and markers per target, registrations | register, revert, gate an event | `RootListeners` |
| Root bridge (`dom/client/root-bridge.js`) | requests, side effects, admissions, host outputs per root | create, render, unmount, apply, admit, update, clean up | `BridgeState`, `RootBridge` |
| Public root (`packages/react-dom/client.js`) | roots per container, mounted flag | `createRoot`, `render`, `unmount` | `PublicRoot` |
| Host output (`root-bridge.js`, `dom/dom-host/mutation.js`) | DOM rows, text, latest props | update with rollback, from inside setters too | `HostOutput` |
| Property payload (`dom/dom-host/property-payload.js`) | attributes, styles, text of a node | diff, apply | `PropertyPayload` |
| Refs (`dom/client/ref-callback-gate.js`, `component-tree.js`) | tokens, latest props, cleanup handles | execute commits of detach and attach rows | `RefCallbacks` |
| Event dispatch (`dom/events/plugin-event-system.js`) | propagation state per event, dispatch queue | dispatch records, invoke listeners | `EventDispatch` |
| Controlled restore (`dom/client/controlled-restore-queue.js`) | records of each step of a restore | intent, lookup, preflight, write | `ControlledRestore` |
| Form actions (`dom/shared/form-actions.js`, `dom/resource-form-gates.js`) | records of submit, reset, run, result | submit, reset, await, complete, take | `FormActions` |
| Children helper (`packages/react/children-helper.js`) | none | map, toArray | `ChildrenHelper` |
| Handle tables (`crates/fast-react-napi/src/handle_table.rs`) | slots with generations per environment | insert, resolve, remove, dispose, tear down | `BridgeTable`, `HandleTable` |
| Node binding (`bindings/node/index.cjs`) | the table of its gate, batches | validate, execute | `NativeHandoff` |
| Test renderer bridge (`packages/react-test-renderer/index.js`) | requests, executions, lifecycle evidence | request, execute, consume, read | `TestRendererBridge` |
| Hydration (`dom/client/hydration-*.js`), resource hints, hook dispatcher, transitions, `flushSync`, element factories | records; counters of a few lines | | not modelled, see section 7 |
| Begin and complete work, host work, function components, root callbacks, host config | trees, host instances, logs | | not modelled, see section 7 |

### How the parts interact

All of it is single-threaded: a call borrows the `FiberRootStore` until it returns. What
interleaves is **calls**. `update_container`, `render_host_root_for_lanes`,
`commit_finished_host_root`, the root-schedule microtask, a scheduler callback and the two
flushes are separate entry points, and a host may make them in any order. A render returns
a *record* that the caller hands to the commit later; a microtask or a callback is a
*request* that the host honours later. The scheduler reads the lanes of a root; the commit
writes them (`mark_finished`) and clears the callback; the render clones the update queue
and swaps the HostRoot fiber; an update appends to the queue of the *current* fiber and marks
both fibers.

The JavaScript side is single-threaded as well. There what interleaves is **caller code run
inside a call** (task callbacks, listeners, refs and their cleanups, setters of a DOM that may
throw or call back, awaited form actions) and **records**: react-dom, the test renderer and
the binding break an operation into calls that each take the record of the call before, and a
caller may keep a record, use it late, twice, or with the record of another gate. The public
root calls the bridge, the bridge the listeners, the host output and the property payload;
the mirror records of a bridge go to the gate of the Node binding and on to the Rust executor.
The JavaScript packages and the Rust reconciler do not call each other at this commit: the
native addon is never loaded, so nothing composes the two halves beyond `NativeHandoff`.

### What is hard to test here

`PROJECT.json` lists the hazards with their lines. In short:

- an update, a render or another commit **between a render and its commit**;
- records that are **two commits old**: the two fibers alternate, so such a record names the
  right fibers again;
- **rebasing**: an update applied past a skipped one is applied again later, but neither its
  lane nor its callback may count again;
- per-lane state (**clock, flags, entanglements**) that outlives the work it belonged to;
- an **intrusive list edited while it is walked**;
- cached facts: the sync-work flag, the microtask flag, a callback node reused for a later
  priority;
- progress: a root that waits for a microtask or a callback nobody requested;
- a DOM call that **throws in the middle** of an operation, before or after it took effect, and
  the rollback that follows, which must restore every copy of the state;
- **reentrance**: a setter that starts an update, a cleanup that commits a detach of its own
  ref, a listener that dispatches its own event again, a task that schedules, cancels or
  advances the virtual time;
- **evidence that went stale** between two calls: props looked up before a render, a reset
  checked before an await, listeners counted before another root was reverted;
- **ids that collide**: gates number their records alike when they share the default prefix,
  two environments number their slots alike, a slot is used again by another record;
- requests that are **lost, repeated or reordered** on the way to the executor, and answers that
  name no request.

Correct means, for each component: lanes agree with the queue and never leak state
(lane bookkeeping); updates are shown in insertion order and never taken back, callbacks fire
once (queue); only the newest render is committed (commit); every root with work is on the
list, flagged or has a live callback, and is committed in the end (scheduler). The most
urgent task runs first and every task is served (scheduler package). A failed call leaves the
DOM, the listeners, the markers and the latest props as it found them, what is shown is owned
by a root that can remove it, and is what the latest props say (roots, output, refs). A chain
of records belongs to one event, submit, gate and root, and ends once (restores, forms, test
renderer). A handle stands for one record, for as long as it lives (binding).

## 2. Modules

`Lanes` — a lane is the index of its bit, a lane set a set of indices. Lower index, higher
priority. `NoLane` is `Lane::NO`.

`RootLaneState` — one record with the fields of the Rust struct and one operator per method.
Both the driver below and the reconciler modules use it, so the proofs and all the runs are
about the same definitions. The three expiration delays are constants (250 ms and 5000 ms in
the code); the two feature flags are constants too.

`RootLanes` — drives a `RootLaneState` the way a reconciler does. `root` is the struct, `wip`
the lanes of the render in progress, `now` the time given to calls. `readySince`, `ties` and
`attempted` are history variables that the properties speak about; no guard reads them.

`UpdateQueue` — the queue of a HostRoot. The list and the ring are sequences; a memoized state
is the sequence of updates that produced it, the finest state `apply_root_update` could tell
apart. `ProcessHostRootUpdateQueue` is the render of a queue.

`HostRoot` — one root: `UpdateContainer`, `UpdateContainerFails` (a staged tuple that cannot be
drained fails the call after its own tuple was staged), `StageUpdate`,
`FinishQueueingConcurrentUpdates`, `RenderHostRootForLanes`, `CommitFinishedHostRoot`. Every
render leaves a record in `records`, and any record may be committed at any time; the guard
is the validation of the code (`FinishedHostRoot`). A rejected commit changes nothing.
`enqueued`, `shown`, `fired` and `commits` are history.

`RootScheduler` — all roots. `ScheduleUpdate` is `update_container` followed by
`ensure_root_is_scheduled`, as the clients call them; `StartMicrotask`, `MicrotaskStep`,
`MicrotaskEnd` are `process_root_schedule_in_microtask`, one step per root of the list;
`ExecuteCallback` is `execute_scheduled_root_callback`, a stale callback included; `CommitRoot` is
the commit of a rendered root; `StartFlush`, `FlushStep`, `FlushEnd` are the two sync flushes.
`requests` and `microtask` are the host scheduler's side of the bridge. A root is reduced to
its lanes, its render and its callback: the update queue is left to `HostRoot`, whose
`PendingLanesAreQueued` is what allows `Rendered` to compute the remaining lanes from the
pending ones.

`ScheduledRootList` — the abstract specification of the list: a duplicate-free sequence that
grows at its end and from which single roots are dropped. `RootScheduler!ListIsFifo` is the
refinement, with the walk of the links as the mapping.

`HookStateQueue` — the queue of a state hook at the level of its links: one store of updates, the
pending ring and the base ring known by their tails, clones for rebasing, eager states, and
optimistic updates that are taken back when their revert lane is rendered. `DispatchStateUpdate`,
`UpdateStateHook` (the copy to the work in progress and `process_update_queue`) and
`CommitHookList` are the calls of `function_component.rs`. `dispatched`, `known`, `reached` and
`reverted` are history; the reference of the property is made of them alone. Two things are the
caller's: an eager state is computed only when nothing is queued (the code checks the state it was
computed from), and a render is committed before the next one, see section 4.

`SchedulerQueues` — the array heap of the scheduler package (`push`, `peek`, `pop`, `compare`), the task
objects and the two queues made of them. `MinHeap` pushes and pops on one heap in any order;
`PriorityQueue` is what heaps promise, and `HeapIsPriorityQueue` that the array keeps it.

`TaskScheduler` — the browser scheduler. `phase` says where `performWorkUntilDeadline` stands;
callbacks run as steps of their own, in which the caller may schedule, cancel, change the
priority, continue or throw. The clock ticks between steps; the length of a slice is open.

`MockScheduler` — the same queues under the flush helpers of the mock build, with virtual time,
`unstable_advanceTime`, `reset`, a log and the stop conditions.

`PostTask` — callbacks handed to the browser's `postTask` with an abort signal,
continued by `yield` or `postTask`; the stack of priorities; the log of a handoff, and the check
the act gate makes of a frozen copy of that log: the two runs, the continuation between them, that
the second run returned `undefined` (a run returns a function, `undefined` or something else) and
that scheduler and signals have the own keys of the shim (`ShimKeys`).

`RootListeners` — registrations of roots on containers, their documents and portals. Key sets and
markers are kept as the code keeps them, beside the real listeners of a target; a failure of
`addEventListener` can happen at each of them; a revert writes back what its registration saved.

`BridgeState`, `RootBridge`, `PublicRoot` — `BridgeState` has one operator per call of the bridge
on a record of all its tables. `RootBridge` makes the calls in any order on records of any age;
`PublicRoot` makes them the way `client.js` does. One operation of the DOM may throw in a public
call: adding a listener, showing, updating or clearing the output, or taking the listeners back
(fault `revert`). An unmount has cleared its container before it takes the listeners back, so the
last fault leaves the container empty and the root tracked (`UnmountRevertFails`).

`HostOutput` — one update in steps: a row at a time, the text, the publication of the latest
props, the rollback. A setter may throw before or after its write, or start another update or
a cleanup, so that updates form a stack.

`PropertyPayload` — `diffDomPropertyPayload` and the application of its rows to a node. A value is
its type and its text; a prop has a kind and an attribute, which two props may share.

`RefCallbacks` — the tokens and latest props of host nodes, and executions of commits whose rows
detach and attach refs. A ref returns a cleanup, throws, or starts an execution; cleanups are
functions in a table of handles with a consumed mark.

`EventDispatch` — calls over a list of dispatch records that the caller puts together: records of any
events in any order, the same record twice too. Listeners come from props and from the registry;
there are stops of both kinds, errors and calls from inside listeners. A stop is kept while the list
goes on with records of its event and forgotten at a record of another one.

`ControlledRestore`, `FormActions` — the chains of records. A record is kept with its class, gate,
id and the records it was made from; each call is an action with the checks the code makes of
its arguments, so any record may be offered with any other, also one of another gate with the same
default prefix. In `ControlledRestore` a call that is refused changes nothing, but an execution that
throws while it reads, converts or writes the value has taken its sequence (a *lost* record)
and may have written the control; `written` says which props a control was last given. In
`FormActions` a run is pending
between the call and its completion: everything else may happen meanwhile.

`BridgeTable`, `HandleRegistry`, `HandleTable` — the generational slots of one table, the
abstract specification of a registry (a handle is issued once and dead for good once
released), and the tables of several environments that implement it (`ImplementsRegistry`).

`NativeHandoff` — the mirror records of bridges, the JavaScript gate that validates a batch of them
with a table of its own, and the Rust executor with `BridgeTable`. Batches lose, repeat and
reorder records.

`TestRendererBridge` — requests with the outcome the bridge predicts, their execution by the Rust
root (`root_impl/lifecycle.rs`), the consumption of answers and the three readers of the
evidence.

`ChildrenHelper` — `mapIntoArray` with its keys as sequences of characters. It is recursive, so it
stays with TLC.

`MC_*` — the modules TLC runs. Each holds the instances of components that belong together
(`MC_Roots` extends its four, whose names do not clash, so that `RootsProofs` can be about the same
module). The components of one `MC_` module share no state; the variable `part` is chosen initially,
says which of them a behaviour is one of, and the others stand still. So a run covers the union of
the behaviours of its parts and never their product. A property of such a module is the conjunction
of the properties of its components that make the same kind of promise, and names them. For
`ChildrenHelper`, which is pure, the `MC_` module has the behaviour that drives it. Where components
do interact, the composition is in the modules themselves: `HostRoot` and `RootScheduler` on
`RootLaneState`, `PublicRoot` on `BridgeState`, `NativeHandoff` on `BridgeTable`.

`RootLaneStateProofs` — lemmas about the methods of `RootLaneState`, used by the next two.
`RootLanesProofs`, `ReconcilerProofs`, `TaskSchedulerProofs`, `RootsProofs`, `RecordsProofs`,
`PropertyPayloadProofs`, `HandleTableProofs` — the theorems: `ReconcilerProofs` is about `HostRoot` and
`RootScheduler`, `TaskSchedulerProofs` about the heap and the schedulers of `MC_Schedulers`, `RootsProofs`
about the four parts of `MC_Roots`, `RecordsProofs` about the three of `MC_Records`, `HandleTableProofs`
about the two of `MC_Native`.

Operators marked *Seeded fault* or *Mutant* are plausible mistakes in the operator that follows them (a
dropped guard, a missing reset). No action uses them. Substituting one for its neighbour must
make TLC report the property paired with it in `PROJECT.json`, which shows that the property
can fail.

## 3. Runs

| Run | Parts and instances | Checks |
|---|---|---|
| `lanes` | *clock*: sync, transition and retry lane, time up to 3; *ties*: three transitions that share a queue; *flags*: transition and idle lane, all setters, spawned lanes | `TypeOK`; `StarvationClock`; `EntangledRenderTogether`: one level of entanglements suffices, whatever the order of entangling and finishing; `FlagsArePending`; `SelectionIsSound`: suspended work is not retried without a reason (`NoHotRetry`), and a flush picks lanes that the selection would (`FlushAgreesWithSelection`) |
| `reconciler` | *host root*: sync, default and two transitions of different groups, 4 updates, a staged one among them, 4 renders, any record committed at any time; *three roots* with 3 updates; *two roots* with 4; *hook*: 3 dispatches, 3 renders of any lanes, optimistic and eager updates | of the HostRoot `PendingLanesAreQueued`, `CallbacksMatchShownState`, `QueuedTransitionsEntangled`, `CommitsAreCurrent` (`CommitsAreFresh`, `CommitRejectsFreshLanes`), `ShownIsNeverUndone` (insertion order included); of the scheduler `PendingRootsAreListed`, `SyncWorkIsFlagged`, `RootsAreServed` (`CallbackIsLive`, `MicrotaskServesEveryRoot`: every listed root has a flush, a callback or an acceptable commit ahead of it, but for one whose render was `Overtaken`), and `ListIsFifo`: the links implement `ScheduledRootList`; of the hook `HookShowsWhatWasReached`: a render shows the reached updates in order and reports the lanes of the others, against a reference without queues |
| `live` | *post task*: 2 callbacks, 2 runs, no `scheduler.yield`; *tasks*: 2 tasks, delayed or not, one continuation; *host root*: four lanes, 3 updates, each render committed before the next update; *root scheduler*: two roots, default updates only, a host as under Fairness | `EveryTaskIsServed` (of both schedulers), `EveryUpdateIsShown`, `RootsSettle` |
| `schedulers` | *heap*: 5 ids, 3 sort indices; *browser*: 3 tasks, 2 priorities, delays 0 and 1, one continuation, one nested call; *mock*: 2 tasks, every flush helper, reset, callbacks that advance the time; *post task*: 1 callback, 3 runs, 2 cancellations | `HeapIsPriorityQueue`: the array implements `PriorityQueue`; `NothingLeaksFromCalls` (`FlushModeDoesNotLeak`, `PriorityIsRestored`, `PriorityFollowsStack`); `LoopIsArmed` (`OneMessagePerLoop`, `TimersAreArmed`); `UrgentWorkIsNotDelayed` (`MostUrgentFirst`, `ExpiredTasksDoNotYield`); `DrainedMeansNothingDue`; `LogIsTrue` (`LogTellsTheOrder`, `GateAcceptsExactly`); `CancelledNeverRuns` |
| `roots` | *public*: 2 roots of one container, text and nested elements, 6 requests, one fault of the DOM in a call, that of taking listeners back included; *bridge*: 2 roots, 5 requests, records of any age; *listeners*: a container, a portal and the document itself, 3 registrations, reverts in any order; *output*: a nested output updated from its own setters, 3 deep | `PublicRootsAgree` (`MountedAgrees`, `TrackingMatchesRoots`, `ShownOutputIsOwned`, `NoEffectsBetweenCalls`); `BridgeMatchesDom` (`ReturnedOutputIsShown`, `CleanedRootStaysEmpty`, `MarkersMatchEffects`, `InstancesMatchChildren`); `ListenersAreCurrent` (`InstalledStaysCurrent`, `KeysAreListeners`, `GateNeverStale`); `OutputNeverGoesBack` (`PublishedIsShown`, `ContentNeverGoesBack`); `FailedCallsRestore` (`FailedCallKeepsDom`, `FailedUpdateRestores`, `FailedRegistrationRestores`) |
| `dom` | *properties*: two names of one attribute, a boolean, a supported and a refused style; *refs*: 2 nodes that share a ref, an object ref, 3 calls, reentrant cleanups, a step with two updates; *events*: one event on a path of 2 nodes, 2 registered listeners in all, a list with a repeated record, a call inside a call; *mixed events*: two events in one list, a listener from the props of the target and a registered one; *children*: trees two lists deep | `DomShowsProps`; `RefsAreKept` (`LiveCleanupIsStored`, `FailedExecutionRestores`); `ListenersHaveTheirTurn` (`EveryListenerHasItsTurn`, `StopSkipsAncestors`, `ImmediateStopIsFinal`, `AcceptedAllRun`); `FlattensWithUniqueKeys` |
| `records` | *forms*: 1 submit, 2 reset gates with the default prefix, 2 runs, 2 roots that render and unmount; *restore*: 2 gates with the default prefix, a text input and a textarea, one event and one observed edit, 3 props objects, 8 records, one execution that throws; *renderer*: 2 roots, 4 requests, 4 executions, 4 answers | `TakenIsCurrent`; `RestoresOneEdit` (`RestoresAreOfOneEdit`, `NoRestoreGoesBack`); `EvidenceIsTrue` (with `ReadersAgree`, `ActUpdateIsLatest`, `InOrderAnswersMatch`) |
| `native` | *tables*: 2 environments, 2 slots, 4 handles, generations up to 2; *handoff*: 2 bridges, 6 requests, batches of 4 that lose, repeat and reorder | `ResolvesToItsRecord`; `ImplementsRegistry`: the tables implement `HandleRegistry`; `AcceptsExactlyLifecycles` (with `GatesAgree`, `TablesAgree`) |
| `hostroot_lost` | sync and default lane, 3 updates, 1 render | *violation* of `QueueHoldsEveryUpdate`, finding 1 |
| `hostroot_staged` | one staged and one default update, 1 render | *violation* of `StagedUpdatesDrain`, finding 2 |
| `public_text` | 1 root, elements with text, no fault | *violation* of `UnmountAlwaysReturns`, finding 3 |
| `refs_twice` | the instance of `dom` | *violation* of `CleanupRunsOnce`, finding 4 |

### Bounds

- *Lanes.* The code treats lanes of a group alike, so one lane of a group stands for it, and
  two or three where their interaction is the question (the *ties* of `lanes`, the HostRoot).
  `DeferredLane` and `SyncLane` are always present because methods name them. Four to five
  lanes keep the sets of lanes within reach; the proofs cover the rest for the lane bookkeeping.
- *Time.* The largest delay of an instance is 2, so with `MaxTime = 3` a clock can start, run
  out and be stopped in between.
- *Updates and renders.* Rebasing needs a skipped update, an applied one behind it and a
  render of each: three updates, two renders. Four updates add a callback on a rebased update;
  four renders reach a record that is two commits old next to a fresh one.
- *Callbacks.* Updates 1, 3 and 4 carry one and update 2 does not, so that callbacks sit
  before, behind and between updates without.
- *Roots.* Three roots give a first, a middle and a last element to unlink. Two suffice for
  the flags and the callbacks, which are kept per root, and get a fourth update.
- *Tasks.* Two suffice for a race of a task with a timer, three for a task scheduled from a
  callback between two others. The timeouts are 1 and 2 units and the clock ends at 2, so that
  tasks expire, timers come late and both can happen while a callback runs.
- *Listeners and roots.* A container and a portal of one document share its `selectionchange`; the
  third registration is the document itself. Two roots show every conflict over a container,
  side by side or one after the other; 6 requests are two renders and an unmount of each.
- *Nesting.* Three updates deep is an update that interrupts one which interrupts another, with
  the middle one failing. Event calls nest twice, which is a call inside a listener; three
  ref executions are one inside a cleanup inside an execution.
- *Records.* A chain of form records has two runs, two reset gates and two roots that could be
  confused, and one of the others. The two reset gates share the default prefix, and so do the two
  restore gates. A restore has one event and one edit, each on either of two controls, props that
  change in between, and one record of each class: the 8 records are the longest chain and one
  that could be mistaken for a link of it.
- *Generations.* The limit of the instance is 2, so that slots are used again and exhausted.
- *Keys.* The trees that are flattened as they are have keys with `:`, `=`, `/` and digits. The trees
  that meet a callback have the user keys `0`, `a`, `.0` and `a/.1`, and the callback gives no key,
  `a`, `/`, `a/.0` or `.$a`. With such a callback distinct keys are only claimed when no user
  key has a slash; section 4 says why.
- *Stopping.* `lanes` and `native` check deadlock. All other parts stop when their updates,
  requests or calls are used up, therefore `CHECK_DEADLOCK FALSE`; what must go on as long as
  there is work is said by the liveness properties instead.

### Fairness

Only `live` assumes fairness. `MC_Live` states it per part, since a fair action of a part that a
behaviour is not one of would mean nothing.

- `HostFairness`, with `HostRoot!UninterruptedNext`: the root as `sync_flush.rs` drives it, where each
  render is committed before the store is handed back. Weak fairness of render and commit says
  that the flush is called again as long as lanes are pending, and that a started one finishes.
- `SchedulerFairness`, with `RootScheduler!DrivenNext`: a host that runs what was requested. A walk of
  the list finishes (weak fairness: it is a loop without waiting). A requested microtask, a
  callback that was not cancelled and a commit handoff are disabled for as long as a walk runs, so
  they get strong fairness; a host whose microtask and task queues are first-in first-out provides
  it. The host commits a rendered root before it updates any and runs the root schedule only on
  request.
- `TasksFairness`: an event loop that delivers a posted message and an elapsed timeout in the end
  (strong fairness, as callers may keep the thread busy each time), a clock that advances, and
  callbacks that return.
- `PostTaskFairness`: a browser that runs posted tasks (strong fairness of the start of a task, as
  another task may be running each time) and tasks that come to their end.

Both restrictions of the root scheduler's host, and the single lane per root, are needed:

- an update that makes a commit fail leaves the root with a callback node whose callback has
  run; the next microtask of the same priority reuses it (`root_scheduler.rs:6383`), and the
  root waits for an update of another priority;
- a sync flush commits the sync lanes of a root, clears its callback and requests no
  microtask (`root_commit.rs:3310`); lower lanes wait for the next update.

Nothing in the repository promises progress in these two cases, so they are listed as hazards
and not as findings.

## 4. Findings

1. **An update can be lost (`hostroot_lost`).** A render clones the queue with its ring
   (`update_queue.rs:478`). An update that arrives before the commit goes to the ring of the
   current queue only. The commit would notice it by the lanes of the finished fiber
   (`root_commit.rs:8195`); but when the render skipped an update of the same lane, the
   mark changes nothing, the commit succeeds and the new update is in no queue. The module
   comment of `update_queue.rs:3-4` speaks of a *shared* ring. `CommitRejectsFreshLanes` shows
   that an update on a lane the render did not skip always makes the commit fail, and
   `EveryUpdateIsShown` that nothing is lost when renders are committed at once.
2. **A staged update does not survive a render boundary (`hostroot_staged`).**
   `concurrent_updates.rs:3-5` describes tuples that are drained "after the current render
   boundary". After a render and its commit the tuple names a fiber that is no longer
   current; the drain refuses it, keeps it, and every later `update_container` of that root
   fails on it.
3. **A repeated render makes a root unremovable (`public_text`).** Rendering the text that is shown
   throws after its request was recorded (`root-bridge.js:15728`), and every later `unmount`
   throws. `MASTER_PROGRESS.md:1258` and `:1263` say that repeated renders and `unmount` return.
   The update of nested elements takes its request back (`root-bridge.js:9990`).
4. **A cleanup can be called twice (`refs_twice`).** A handle is marked as consumed when its
   cleanup has returned (`ref-callback-gate.js:1915`); a cleanup that commits a detach of its own
   ref is called again, although the gate says that handles "cannot be consumed more than
   once" (`:3209`).

More cases were observed while modelling. The properties state what holds beside them, and their
comments name the exception:

- `unstable_advanceTime` clears the timeout after it ran its handler, and with it the one the handler
  just requested (`scheduler-unstable_mock.development.js:1030`), so a delayed task behind a
  cancelled one is not moved by later advances;
- a revert of listeners writes back the marker it found, also when the marker's owner is gone
  (`root-listeners.js:1964`), so two roots of one document reverted oldest first leave a
  marker behind;
- reset gates with the default prefix number their resets alike and the generation is not compared
  (`form-actions.js:3052`), so a run can be completed with a later reset of the other gate, although
  the record says `replayAfterGenerationAdvanceRejected` (`:3077`, `:3159`; the error text at
  `:3105`). The instance has two such gates; `TakenIsCurrent` says that the reset taken has the id of
  the one the run started from, and is up to date;
- a render of a state hook moves the pending updates to the slot of the work in progress only
  (`hook_state_queue.rs:1565`), so a second render that starts from the current slot, without a commit
  in between, does not find them; this is the one case that the instance avoids (a hook takes no
  update while it renders either);
- the slash is not escaped in the keys of children (`children-helper.js:1246`), so a child with
  the key `a/.1`, and child 1 without a key for which the callback returns one with the key `.$a`, both
  get `.$a/.1`;
- a step of a ref execution publishes the latest props of its updates one by one
  (`ref-callback-gate.js:563`) and hands back what to roll back when all are done, so when the
  second throws the first stays;
- a dispatch call forgets a stop at a record of another event, and a list with a record twice invokes
  the listener that stopped its event at once again (`plugin-event-system.js:2994`);
- an unmount that cannot take the listeners back (`root-bridge.js:18790`) has emptied the
  container (`:18766`): the root is retired, its container still tracked, and every later
  unmount throws;
- an execution of a controlled restore takes its sequence before it writes
  (`controlled-restore-queue.js:1271`, `:1478`), so one that throws leaves a gap in the numbering and
  perhaps a control that was written without a record of it.

## 5. Proofs

The theorems hold for every value of the constants that satisfies the named assumptions; the
bounds (`MaxUpdates`, `MaxTasks`, ...) are constants too, so nothing is bounded but by a number of
any size. Each `...Proofs` module has an inductive invariant made of named parts, one lemma per
action saying that it keeps the parts it can disturb, and theorems that read the checked property
off the invariant.

**Lanes (`RootLaneStateProofs`, `RootLanesProofs`).** For every set of lanes with `SyncLane` and
`DeferredLane`, every input set and every positive delay:

- `TypeCorrect`: `Spec => []TypeOK`. One lemma per method says that it keeps the shape of the
  record. The lanes given to a render are lanes of the root because the highest priority
  lane of a set is its minimum (`HighestPriorityLaneIsMinimum`, from the well-founded order of
  the naturals), so `Lane::NO` never gets in.
- `FlagsCorrect`: `Spec => []FlagsArePending`. Inductive together with `TypeOK`: a commit
  intersects the flags with the remaining lanes, and everything else flags pending lanes.
- `EntanglementCorrect`: `Spec => []EntangledRenderTogether`. A tie is only followed from a
  lane that is flagged as entangled, so the invariant is restated per pair: the first lane
  is flagged and its entry contains the second. Flags and entries of lanes that stay pending
  only grow (`<2>grow`), and `mark_entangled` reads the set of entangled lanes after adding the new ones.
- `ClockCorrect`: `Spec => []StarvationClock`. Not inductive by itself: starting a clock
  *now* is only late enough if no lane has been ready since a time in the future. `ClockInv`
  adds `readySince[l] <= now`. `ClockKept` covers all the steps that start no clock.
- `SelectionCorrect`: `Spec => []SelectionIsSound`. The strengthening is `AttemptedIsBlocked`: a lane
  that was tried in full is suspended, warm and not pinged, which is what `get_next_lanes` filters by.

The `...Effect` lemmas say once what a composed method does to the fields the invariants read;
the proofs of the invariants cite them and have one step per action of `Next`.

**HostRoot (`ReconcilerProofs`, first half).** For all lanes, callbacks and numbers of updates and renders. Two
invariants, the second on top of the first:

- `LaneInv` is about handles and lanes. Besides types it says that queue handles only grow (a record's
  queue is younger than the one it was cloned from, no commit is younger than the current queue),
  that a staged transition can only be waiting behind a tuple that cannot be drained, that a record
  that can still be committed leaves exactly what its queue holds (`Fresh`), that an update marks
  the fiber of a render under way (`Marks`), and that transitions in the queue are tied pairwise.
  `Fresh` and `Marks` are what a commit needs: the lanes it keeps are those of the
  updates it skipped, because an update that came later has made the finished fiber disagree with
  the record, or is of a lane that the record keeps. From it follow `UpdatesKeepTheirLanes`
  (`PendingLanesAreQueued`), `TransitionsStayTogether` (`QueuedTransitionsEntangled`) and
  `CommitsTakeCurrentRenders` (`CommitsAreCurrent`).
- `ScreenInv` is about what is shown: every queue holds its ids in insertion order and older than any
  staged update; an update has its callback exactly as long as it waits (`UpdateOK`); the
  state on screen is the base state plus the rebased updates (`AppliedIds`), and a record that can
  still be committed shows at least what is on screen and calls exactly the callbacks that are
  new with it (`Shows`). From it follow `CallbacksFireOnce` (`CallbacksMatchShownState`) and
  `CommitsOnlyAdd` (`ShownIsNeverUndone`). What a render does to a queue is `ProcessIs`
  and the lemmas after it: a prefix goes to the base state, everything from the first skipped update on
  is rebased, applied updates without lane and callback.

An update can still be *lost* (finding 1): the theorems say that what is shown stays and what is
queued is rendered, not that everything is queued.

**Scheduler of roots (`ReconcilerProofs`, second half).** For every finite set of roots. `Inv` consists of
`SchedulerTyped`; `Linked` (the walk along the next links from the first root is a duplicate-free
sequence that ends at the last one); `Nodes` (callback handles are fresh and belong to one root);
`CallbackIsLive`; `PendingRootsAreListed`; `Flagged` (outside the microtask the sync-work flag covers
every root with sync lanes); and `Walking`: during the microtask the cursor and its predecessor
stand at adjacent places of the list, and every root before the cursor is served and flagged. `Walking`
is needed because the microtask clears the flag first and rebuilds it root by root, and because an
unlinked root must be the successor of `previous`. The theorems are `PendingRootsStayListed`,
`FlushMissesNoSyncWork` (`SyncWorkIsFlagged`), `EveryRootIsServed` (`RootsAreServed`) and the refinement
`LinksImplementList` (`ListIsFifo`): each step appends one root, drops one, or leaves the
sequence alone (`ListStep`).
A root is `Served` by a flush, by a callback that was requested, or by a render whose commit will be
accepted. The one other case is named in the theorem: `Overtaken`, the reused node of the
first hazard under Fairness.
`RootSchedulerConstants` assumes that no update has `SyncHydrationLane` or `DeferredLane`: the
clients' updates never do (hydration throws, deferred lanes are spawned by renders). Both are
needed, as TLC shows without them: a lone deferred lane is pending but is no work of its own, so its
root leaves the list, and a hydration lane is hidden from `SyncWorkIsFlagged` and `RootsAreServed` by
a default lane, which `highest_priority_lanes` prefers to it.

**Schedulers (`TaskSchedulerProofs`).** For all priorities, timeouts, delays, frame intervals and
numbers of tasks:

- `HeapImplementsQueue`: `HeapSpec => HeapIsPriorityQueue`, the refinement of `PriorityQueue` by the array
  heap. `push` adds its node and keeps the heap order (`PushIs`), `pop` takes the head and
  nothing else (`PopIs`), the head precedes every node (`HeadIsLeast`). `HeapInv` adds that there are
  as many nodes as places, so that a popped node leaves no copy behind; it is counted, not
  traced through the swaps. The lemmas hold for heaps of any length: the climb and the descent are
  recursive functions, whose existence and result follow from the least place where they would
  go wrong. On top of them `advanceTimers` moves every due timer (`AdvanceTimersOK`).
- `UrgentFirst`: `Spec => UrgentWorkIsNotDelayed`. The invariant `QueueInv` says that both heaps are
  ordered and sorted by the times of their tasks, that every live task is in one of them, that while
  the loop works every live task that had started at its last look is in the *task* heap (`Looked`),
  and that the task whose callback runs is queued without callback (`Taken`; a continuation is
  given to a task that is still in the heap).
- `LoopStaysArmed`: `Spec => []LoopIsArmed`. `LoopInv` adds `Flags`: a scheduled host callback implies a
  running loop that is not at work, and a loop at work is running. A delayed task for which no
  timeout is armed by `scheduleCallback` is behind another timer or a task, and those are covered.
- `PriorityComesBack`: `Spec => []PriorityIsRestored`, a part of `NothingLeaksFromCalls`. `Levels`
  says that the outermost saved level is the normal one and that work runs inside it.
- *Mock scheduler.* `FlushesDrain` (`DrainedMeansNothingDue`) and `FlushesAreClean`. Its queues are those of
  the browser build (`SameQueues`), so the lemmas about them apply. `MockInv` says which stop conditions
  each flush helper sets (`StopsOfMode`), that a flush is a run of the loop and keeps its callback
  until the queue is empty (`FlushHasWork`), and `Looked` and `Taken` of the browser build.
- *Post-task scheduler.* `CancelledStop` (`CancelledNeverRuns`) and `PriorityFollows`. Whatever waits for the
  browser was posted with the signal of its task (`AllSignalled`), which is why a cancelled one is never
  started; a call on the stack saved the level of the call around it, and the callback of a task
  runs on an empty stack (`StackOk`). That the log keeps its shape (`LogRecords`) is part of the
  invariant, because a run is told by the length of its list of runs.
  `LogTells` (`LogIsTrue`) is about what the log says, for any number of runs and cancellations. Its
  invariant `LogInv` has three parts. Runs and continuations alternate, what waits for the browser is
  not running and was continued when it ran before (`NodeWaits`). Every entry and event is what its
  position says, the type of what a run returned included (`LogParts`), and the events of a callback that was never cancelled are its
  run, continuation, run... without gaps (`PlainLog`). The route of a cancelled one says
  *aborted*, unless a callback that had cancelled itself was continued afterwards (`CancelledRoute`): then
  the route is pending again, but no run follows, and the gate misses the second run.

`NothingLeaks` combines the three schedulers to `NothingLeaksFromCalls`, and `SchedulersBehave` states the
seven properties of the specification that TLC explores (`SchedulersAreParts`).

**Client roots (`RootsProofs`).** For all containers, elements, faults, listener keys, rows and
numbers of requests, registrations and updates; the updates of host output may be nested to any
depth. One invariant per part of `MC_Roots`:

- *Bridge.* `BridgeMatches`: `ShellSpec => []BridgeMatchesDom`, and `ContentGrows`: renders that are
  applied out of order never put mounted output back. A caller may use records of any age, so
  `BridgeInv` is about all records and not about the newest ones. Every record names records that
  are there (`Links`); active side effects own the marker of their container and are alone on it
  (`EffectsOwnMarkers`); a render was admitted under side effects of its own root
  (`AdmissionsMatch`); output that is active but no longer mounted was admitted under side effects
  that are gone (`LostWithEffects`), which is why no call returns it; the renders of a root are
  counted in the order of their requests (`CountsGrow`), which is what the check of an update compares.
  Calls only add records (`HasRecordsOf`): every operator of `BridgeState` has one lemma that says
  what it adds, and the lemmas after it frame the parts of the invariant it leaves alone.
- *Public roots.* `PublicRootsMatch`: `Spec => []PublicRootsAgree`, and `FailedCalls`. A public call is
  several calls of the bridge, of which any may throw. Between public calls `PublicOk` holds: no side
  effects are applied (`Idle`), a mounted root has active output, which is in the container of its
  root and in no other, active output that is not shown belongs to a retired root, a root has one at
  most, and a container has one live root exactly while it is tracked. During a call the lemmas
  carry `Busy` in place of `Idle`, and `Still`, `Quiet` and `Clears` say how far the call got, so
  that what a failure leaves is read off the point it happened at. When taking the listeners back
  fails, that is an empty container (`Empties`), which `FailedCalls` states as the exception; all
  other failures leave the containers as they were.
- *Listeners.* `ListenersCurrent`: `ListenersSpec => []ListenersAreCurrent`, and `FailedRegistration`.
  `ListenersInv` says that each event has one listener, that a listener belongs to the active
  registration that installed it (or to nobody), and what a registration can have found and left:
  all of the events of a container or none. The last is needed because the currentness check
  compares the *size* of a set and not its members. For the same reason `ListenerConstants` says
  that there is more than one event (the code has dozens) and that no portal is rendered into the
  document. Portals are not mounted at this commit; TLC shows that a portal of the
  document which is refused a listener half way can leave a set of the compared size
  without `selectionchange`.
- *Host output.* `UpdatesShow` and `FailedUpdates`. `UpdatesNest` is the heart: as long as nothing was
  published since an update started, the update above it found exactly what it had written so
  far, and the DOM shows what the innermost one has written. So an update that fails restores what
  it found, also when updates inside its setters failed before; and `UpdatesOrdered` says that
  versions grow along the stack, so that an update which another one overtook is told by its version.

`OutputGoesForward` (`OutputNeverGoesBack`) and `FailuresRestore` (`FailedCallsRestore`) combine
these into the properties of the run, and `RootsBehave` states all five of the specification that
TLC explores, whose behaviours are behaviours of each part (`PartsBehave`).

**Records (`RecordsProofs`).** For all gates, nodes, roots and numbers of records, requests and answers:

- *Form actions.* `TakesAreCurrent`: `Spec => TakenIsCurrent`, for any prefixes of the gates, shared ones
  included. `FormInv` says that a reset gate makes one reset and that the currentness of a dispatch
  names its youngest (`ResetsKnown`), that a run was started from a preflight with a reset
  (`RunsHaveResets`), that a fulfilled reset is the only one of its run (`FulfilledOnce`) and is the
  one the run started from or one of another gate with the same id (`FulfilledResets`), that
  error preflights are of rejected runs (`RejectedRuns`), that what was taken is consumed
  (`TakenOnce`) and that nothing is requested of a root after its unmount (`UnmountsLast`). What is
  awaited may be overtaken by every other call, which only adds records (`FormsGrow`); the checks
  are made again by the call that takes the result, and the invariant says that they are enough.
- *Controlled restore.* `RestoresAreOneEdit`: `Restore!Spec => RestoresOneEdit`. An execution compares
  request ids, which two gates number alike, and a few fields of the records it is given. `RestoreInv`
  says of every record which records it was made from and what they agree on (`RecordOk`), so that
  the comparisons of the last call reach back to one edit, and that a control was never given
  props its node did not have (`WrittenOk`), so that the props a restore writes are not older.
- *Test renderer.* `EvidenceTells`: `Renderer!Spec => []EvidenceIsTrue`. `RendererInv` says that the requests of a
  root are chained and predict its lifecycle (`RequestsChained`), that an answer is about a request of
  its root (`AnswersOk`) and where it stands among what the Rust root scheduled (`AnswersPlaced`: an unmount
  is last), that the lifecycle of the Rust root follows from the requests it has executed
  (`RustFollows`), that an accepted row agrees with its request (`RowsMatch`) and that evidence is made
  of rows of one root (`EvidenceKept`). Requests are executed in any order, repeated or never, so nothing
  relates the lifecycle of the Rust root to the last request; the order in the evidence follows from
  `AnswersPlaced` alone.

`RecordsStayTrue` states all three of the specification that TLC explores (`RecordsAreParts`).

**Property payload (`PropertyPayloadProofs`)** proves `DomCorrect`: `Spec => []DomShowsProps`, for all
props, styles, values
and any number of updates. The reference is the last element alone: `AttributeOf` and `StyleOf`
say what a node made for it would show. The inductive invariant `ShowsElement` adds that the
props are an element. `AttributeReached` is the heart: the removal rows and the rows of new
values together take each attribute from one element to the next, also when the prop that
goes and the prop that comes name the same attribute (which an element has at most once);
`StyleReached` says it of the styles.

**Handle tables (`HandleTableProofs`)** proves, for all environments, ids, limits and numbers of slots,
`TablesTyped`,
`GenerationsCorrect`, `ResolutionCorrect` and `TablesImplementRegistry`. The inductive invariant is
`TypeOK /\ GenerationsAdvance`: the generation of a slot is at least that of every handle issued
from it, above it once the slot is vacant, and an entry of the same generation holds the
handle's record. Without it a slot could be
given the handle of a dead record, and neither resolution nor the refinement would follow. The
refinement maps a handle to the record it resolves to; a step of the table issues or releases
handles of the registry or leaves it alone, a teardown releases a set of them.

**Native handoff (`HandleTableProofs`).** `HandoffExact` proves `AcceptsExactlyLifecycles` for all
bridges, containers and numbers of roots, requests and records of a batch, whatever is lost,
repeated or reordered on the way. The inductive invariant `HandoffInv` has three parts.
`BridgesNumber`: a bridge gives every handle a slot of its own, below its next slot. `BatchIsMade`: every
record of the batch is the mirror of a request some bridge has made, so any two records are
`Consistent` (a root handle stands for one root, a value handle for one request, and the two
kinds do not meet). `GatesTell`: the shape pass, the rows of the gate and the executor have accepted
the batch exactly when it is a lifecycle, and their states and the gate's table are then functions of
it: which slots hold which handles, which is the root, what was seen last. The third part needs the
second: a record that reuses a slot for another handle would be told apart by some passes only.
`ShapeFollows`, `RowsFollow` and `ExecutorFollows` say it per pass: a record is admitted if and only if
it continues the lifecycle, and the new state is again the function of the longer batch; `TableFollows`
says the latter of the gate's table.
`NativeSideCorrect` says both results of the composed `NativeSpec`.

**Assumptions.** Those on the constants: `LaneAssumption`, `FeatureAssumption`,
`ExpirationAssumption` (`RootLaneState`), `InputAssumption` (`RootLanes`), `RootSchedulerConstants`,
`TaskSchedulerAssumption`, `TimeoutAssumption` (timeouts are naturals or -1, as in the code),
`NodeAssumption`, `MockInstance` and `PostInstance` (`MC_Schedulers`; it says among others that the delay
the gate accepts, 17 ms in the code, is positive), `BridgeBounds`, `PublicRootConstants`,
`ListenerConstants`, `HostOutputConstants`, `RecordsInstances` (`MC_Records`),
`HandoffBounds` (`HandoffInstance` in `MC_Native`; a generation 1 has a successor, as it has below the
`u64::MAX` of the code), and those of `HostRoot`, `PropertyPayload` and `HandleTable`. TLC evaluates them in every run that
extends the module.

**Induction.** The library's induction rules have an operator parameter, which the provers do not
instantiate. Where a proof needs induction over data (`WalkIsList`, `UpdatesAtIs`, `UpTo` for the
heap) it takes the *least counterexample* instead: the set of places at which the claim fails has
a minimum (`WFMin` and `NatLessThanWellFounded`), and the claim is shown there.

**Only model-checked.** The liveness properties (fairness is beyond the prover).
`FlattensWithUniqueKeys`: `ChildrenHelper` is recursive. `HookShowsWhatWasReached`
compares a fold over a whole history with what was computed step by step,
which needs induction over data at every step. `RefsAreKept` and `ListenersHaveTheirTurn` have not been
attempted: `MC_Dom` reaches the recursive `ChildrenHelper`.

## 6. Plan

Done: lane bookkeeping, HostRoot, scheduler of roots, browser scheduler, handle tables and property
payload with their proofs, and the proofs about the client roots, the mock and post-task schedulers,
the records and the native handoff; the queue of a state hook; the stateful parts of react-dom, the binding and the test renderer.
Next, in this order:

1. Render-phase updates and the source-owned staging of `HookStateQueue`, when the code gets an entry
   point for them that is not a test's.
2. `ActQueue`: act scopes and their shared node. The executor of act callbacks is private to canary
   tests and renders expired lanes only (`root_scheduler/act.rs:1081`), so this waits for the
   code to get an entry point.
3. `PendingRing`: the pointer-level ring and base list (`update_queue.rs`), shown to implement
   the sequences of `UpdateQueue` by refinement.
4. The hydration records (`dom/client/hydration-boundary-gate.js`): from a replayed event to the
   patch of a text node.
5. `PassiveEffects`, `FiberArena`, `ContextStack`, the effect ring of hooks.
6. Proofs: the refs and the event dispatch, whose invariants relate a stack of calls to what was found
   when each started, as `UpdatesNest` does.

Modules that will be proved about use no `RECURSIVE` operator; recursive functions and the
folds of the community modules take their place.

## 7. Not modelled

- Inside modelled Rust files: `set_expiration_time` (tests seed clocks with it), `LaneClaimers`
  (nothing creates one outside tests), hidden queue updates (`mark_update_hidden` has no
  production caller), the reentrancy guard `is_flushing_work` and the execution context (the
  store is borrowed for the whole call, so no caller meets them), the error-recovery and
  post-passive variants of the sync flush and the private canary entry points of the scheduler.
- `ensure_root_is_scheduled` with a record that a commit has made stale: the clients call it
  directly after `update_container`, which the model takes as one step.
- Trees: begin and complete work, host nodes, deletions, refs and effect logs in Rust. A HostRoot
  is modelled without children. They produce what is shown and change no scheduling state.
- Event priorities (pure maps to lanes; the lane is an input here), root callback invocation
  (`HostRoot` models which callbacks are handed out), host config traits.
- **Most of the JavaScript by lines.** The packages have 209 thousand lines in 87 files. By far the
  larger part builds frozen diagnostic records field by field, validates such records field by
  field, lists the strings and the expected values of both, or repeats another file (the
  development and production builds of the test renderer repeat `index.js`, 45 thousand
  lines; the scheduler and react builds come in pairs). None of it changes state. The models
  translate the calls that do and the checks they make, which is why the mapped lines are a
  small share of the files.
- `hydrateRoot` throws, and portals are described and refused. The hydration gate is a chain of
  records like those of `ControlledRestore`, with executions that are blocked at its end.
- Hook dispatcher, `startTransition`, `flushSync`: a forwarded call, or a counter that a `finally`
  block restores. Element, context and portal factories are constructors.
- Radio groups and selects in the restore queue, form control properties and HTML in the property
  payload, synthetic events and extraction in the event system: values without control of
  their own.
- The native builds of the scheduler (they forward to a runtime scheduler) and the worker teardown
  of the binding (the addon is never loaded).

Hazards of `PROJECT.json` without a property say why in their note: mostly that no document,
comment or test says what should happen, so there is no statement to check.
