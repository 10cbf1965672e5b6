---------------------------- MODULE NativeHandoff ----------------------------
(***************************************************************************)
(* The root requests of React DOM bridges handed to the native binding: the *)
(* mirror records a bridge makes (root-bridge.js), the gate of the Node     *)
(* binding that validates a batch of them (bindings/node/index.cjs), and    *)
(* the Rust executor of the batch (crates/fast-react-napi,                  *)
(* root_bridge_requests).                                                   *)
(*                                                                          *)
(* The bridges are those of BridgeState, one in each environment. A batch   *)
(* is whatever the transport delivers of their records: any of them, in any *)
(* order, any number of times. The gate runs three passes over the batch,   *)
(* its request shapes, its own handle table and its lifecycle rows; each    *)
(* pass and the executor stop at the first record they reject, and the      *)
(* batch is then rejected. Every prefix of a batch is a batch, so the four  *)
(* states are those after each record; the error codes are left out.        *)
(***************************************************************************)
EXTENDS BridgeState, BridgeTable, SequencesExt

CONSTANTS
  Environments,   \* native environment ids of the bridges
  MaxRoots,       \* bound: roots of a bridge
  MaxRequests,    \* bound: requests of all bridges
  MaxBatch        \* bound: records of a batch

\* A handed-off handle has generation 1, which has a successor.
HandoffBounds ==
  /\ Environments \subseteq Nat \ {0} /\ MaxGeneration > 1
  /\ MaxRoots \in Nat /\ MaxRequests \in Nat /\ MaxBatch \in Nat

VARIABLES
  bridges,     \* environment -> the bridge (BridgeState)
  nextSlot,    \* environment -> nextNativeHandleSlot
  rootSlots,   \* environment -> the slot of each root's native handle
  valueSlots,  \* environment -> the slot of each request's value handle, None for unmount
  batch,       \* the records delivered
  shape,       \* the gate's pass over the request shapes
  table,       \* the gate's handle table
  rows,        \* the gate's pass for the lifecycle rows
  rust         \* the executor

bridgeVars == <<bridges, nextSlot, rootSlots, valueSlots>>
gateVars == <<batch, shape, table, rows, rust>>
vars == <<bridges, nextSlot, rootSlots, valueSlots, batch, shape, table, rows, rust>>

NoHandle == [environmentId |-> 0, slot |-> 0, generation |-> 0, kind |-> "none"]

----------------------------------------------------------------------------
(* The bridge.                                                              *)

TotalRequests == FoldSet(LAMBDA e, n : Len(bridges[e].log) + n, 0, Environments)

\* Mutant: a value handle takes the next slot and leaves it to the next handle.
SlotsTakenRootOnly(op) == IF op = "create" THEN 1 ELSE 0

\* createNativeBridgeHandle takes the next slot for every handle: createRoot makes
\* the handle of the root and of the container, render that of the element.
SlotsTaken(op) == IF op = "create" THEN 2 ELSE IF op = "render" THEN 1 ELSE 0

createClientRoot(e, c) ==
  /\ Len(bridges[e].roots) < MaxRoots /\ TotalRequests < MaxRequests
  /\ bridges' = [bridges EXCEPT ![e] = CreateClientRoot(@, c)]
  /\ rootSlots' = [rootSlots EXCEPT ![e] = Append(@, nextSlot[e])]
  /\ valueSlots' = [valueSlots EXCEPT ![e] = Append(@, nextSlot[e] + 1)]
  /\ nextSlot' = [nextSlot EXCEPT ![e] = @ + SlotsTaken("create")]
  /\ UNCHANGED gateVars

renderContainer(e, r) ==
  /\ TotalRequests < MaxRequests
  /\ CanRender(bridges[e], r)
  /\ bridges' = [bridges EXCEPT ![e] = RenderContainer(@, r)]
  /\ valueSlots' = [valueSlots EXCEPT ![e] = Append(@, nextSlot[e])]
  /\ nextSlot' = [nextSlot EXCEPT ![e] = @ + SlotsTaken("render")]
  /\ UNCHANGED rootSlots /\ UNCHANGED gateVars

\* A second unmount is recorded too, as one that does nothing.
unmountContainer(e, r) ==
  /\ TotalRequests < MaxRequests
  /\ bridges' = [bridges EXCEPT ![e] = UnmountContainer(@, r)]
  /\ valueSlots' = [valueSlots EXCEPT ![e] = Append(@, None)]
  /\ UNCHANGED <<nextSlot, rootSlots>> /\ UNCHANGED gateVars

Handle(e, slot, kind) ==
  [environmentId |-> e, slot |-> slot, generation |-> 1, kind |-> kind]

\* createNativeRequestRecordMirror of the request q
NativeRequestRecord(e, q) ==
  LET request == bridges[e].log[q]
  IN  [requestId |-> q, kind |-> request.op, environmentId |-> e,
       rootHandle |-> Handle(e, rootSlots[e][request.root], "root"),
       rootId |-> request.root,
       valueHandle |-> IF request.op = "unmount" THEN NoHandle
                       ELSE Handle(e, valueSlots[e][q], "value"),
       rootHandleState |-> IF request.op = "unmount" THEN "retired" ELSE "active"]

----------------------------------------------------------------------------
(* The gate: request shapes.                                                *)

NewShape ==
  [ok |-> TRUE, lastRequestId |-> None, rootHandle |-> NoHandle, rootId |-> None,
   rootRetired |-> FALSE]

\* validateRequestSequenceOrder
Ordered(last, record) == last = None \/ record.requestId > last

\* The root handle state a request of this kind leaves.
ExpectedRootHandleState(record) == IF record.kind = "unmount" THEN "retired" ELSE "active"

\* validateNativeRootBridgeRequestShapeRecord returns.
ShapeAccepts(s, record) ==
  /\ Ordered(s.lastRequestId, record)
  /\ ~ s.rootRetired
  /\ record.kind \in {"create", "render", "unmount"}
  /\ record.rootHandle.environmentId = record.environmentId
  /\ record.rootHandle.kind = "root"
  /\ record.rootHandleState = ExpectedRootHandleState(record)
  /\ record.valueHandle # NoHandle =>
       /\ record.valueHandle.environmentId = record.environmentId
       /\ record.valueHandle.kind = "value"
  /\ IF s.rootHandle = NoHandle THEN record.kind = "create"
     ELSE record.kind # "create" /\ record.rootHandle = s.rootHandle /\ record.rootId = s.rootId
  /\ record.kind = "unmount" => record.valueHandle = NoHandle

ShapeStep(s, record) ==
  IF ~ (s.ok /\ ShapeAccepts(s, record)) THEN [s EXCEPT !.ok = FALSE]
  ELSE [ok |-> TRUE, lastRequestId |-> record.requestId,
        rootHandle |-> IF s.rootHandle = NoHandle THEN record.rootHandle ELSE s.rootHandle,
        rootId |-> IF s.rootHandle = NoHandle THEN record.rootId ELSE s.rootId,
        rootRetired |-> record.kind = "unmount"]

----------------------------------------------------------------------------
(* The gate: its handle table, a map from slots.                            *)

NewTable == [ok |-> TRUE, environmentId |-> None, slots |-> <<>>]

\* validateNativeRootBridgeHandleTableSlot
SlotAccepts(t, h, kind) ==
  LET slot == t.slots[h.slot]
  IN  slot.state = "occupied" /\ slot.generation = h.generation /\ slot.kind = kind

InSlots(t, h) == h.slot \in DOMAIN t.slots

\* admitNativeRootBridgeHandleTableRecord: a free slot is taken, a taken one has
\* to be the handle's.
TableAdmits(t, h, kind, rootId) ==
  /\ h.environmentId = t.environmentId
  /\ InSlots(t, h) =>
       SlotAccepts(t, h, kind) /\ (kind = "root" => t.slots[h.slot].rootId = rootId)

TableAdmitted(t, h, kind, rootId) ==
  LET entry == [state |-> "occupied", generation |-> h.generation, kind |-> kind,
                rootId |-> rootId]
  IN  IF InSlots(t, h) THEN t
      ELSE [t EXCEPT !.slots = [i \in DOMAIN t.slots \cup {h.slot} |->
                                  IF i = h.slot THEN entry ELSE t.slots[i]]]

\* validateActiveNativeRootBridgeHandleTableRecord of the root handle
RootIsActive(t, record) ==
  /\ record.rootHandle.environmentId = t.environmentId
  /\ InSlots(t, record.rootHandle)
  /\ SlotAccepts(t, record.rootHandle, "root")
  /\ t.slots[record.rootHandle.slot].rootId = record.rootId

\* retireNativeRootBridgeRootHandle; a handed-off generation is 1 and has a successor.
TableRetired(t, h) ==
  [t EXCEPT !.slots[h.slot] = [state |-> "vacant", generation |-> h.generation + 1,
                               kind |-> "root", rootId |-> @.rootId]]

\* validateRetiredNativeRootBridgeRootHandle
RootIsRetired(t, h) ==
  InSlots(t, h) /\ t.slots[h.slot].state = "vacant" /\ t.slots[h.slot].generation # h.generation

\* The table after the value handle of the record, if it has one.
WithValue(t, record) ==
  IF record.valueHandle = NoHandle THEN t
  ELSE TableAdmitted(t, record.valueHandle, "value", None)

ValueAccepted(t, record) ==
  record.valueHandle # NoHandle => TableAdmits(t, record.valueHandle, "value", None)

\* preflightNativeRootBridgeHandleAdmissionRecord
TableStep(t, record) ==
  LET here == [t EXCEPT !.environmentId = IF @ = None THEN record.environmentId ELSE @]
      h == record.rootHandle
      created == TableAdmitted(here, h, "root", record.rootId)
      retired == TableRetired(here, h)
      rejected == [t EXCEPT !.ok = FALSE]
  IN  IF ~ (t.ok /\ here.environmentId = record.environmentId) THEN rejected
      ELSE IF record.kind = "create"
           THEN IF TableAdmits(here, h, "root", record.rootId) /\ ValueAccepted(created, record)
                THEN WithValue(created, record) ELSE rejected
      ELSE IF ~ RootIsActive(here, record) THEN rejected
      ELSE IF record.kind = "render"
           THEN IF ValueAccepted(here, record) THEN WithValue(here, record) ELSE rejected
      ELSE IF RootIsRetired(retired, h) THEN retired ELSE rejected

----------------------------------------------------------------------------
(* The gate: lifecycle rows.                                                *)

NewRows == [ok |-> TRUE, lastRequestId |-> None, lifecycle |-> "none",
            rootHandle |-> NoHandle, rootId |-> None]

\* getNativeRootBridgeBatchedJsonTransportLifecycleErrorCode is null.
RowAccepted(s, record) ==
  /\ s.lastRequestId = None \/ record.requestId > s.lastRequestId
  /\ s.lifecycle # "retired"
  /\ s.lifecycle = "none" => record.kind = "create"
  /\ s.lifecycle = "active" => record.kind # "create"
  /\ s.rootHandle # NoHandle => record.rootHandle = s.rootHandle
  /\ s.rootId # None => record.rootId = s.rootId
  /\ record.rootHandleState = ExpectedRootHandleState(record)
  /\ record.kind = "unmount" => record.valueHandle = NoHandle

RowStep(s, record) ==
  IF ~ (s.ok /\ RowAccepted(s, record)) THEN [s EXCEPT !.ok = FALSE]
  ELSE [ok |-> TRUE, lastRequestId |-> record.requestId,
        lifecycle |-> IF record.kind = "unmount" THEN "retired" ELSE "active",
        rootHandle |-> IF s.rootHandle = NoHandle THEN record.rootHandle ELSE s.rootHandle,
        rootId |-> IF s.rootHandle = NoHandle THEN record.rootId ELSE s.rootId]

----------------------------------------------------------------------------
(* The executor.                                                            *)

NewRust ==
  [ok |-> TRUE, environmentId |-> None, slots |-> <<>>, lastRequestId |-> None,
   rootHandle |-> NoHandle, rootId |-> None, rootState |-> "none", consumed |-> {}]

\* prevalidate_handoff_lifecycle
Prevalidated(s, record) ==
  /\ s.lastRequestId = None \/ record.requestId > s.lastRequestId
  /\ s.rootState # "retired"
  /\ (record.kind = "create") = (s.rootHandle = NoHandle)

\* validate_executor_value_handle_not_reused
NotReused(s, record) == record.valueHandle = NoHandle \/ record.valueHandle \notin s.consumed

\* The root the record names is in the table under its id.
RootInTable(slots, record) ==
  /\ Active(slots, record.rootHandle, "root")
  /\ slots[record.rootHandle.slot].id = record.rootId

\* The value handle is in the executor's environment and the table admits it; its
\* record has the id of the request.
RustValueAccepted(s, slots, record) ==
  record.valueHandle # NoHandle =>
    /\ record.valueHandle.environmentId = s.environmentId
    /\ HandoffAdmits(slots, record.valueHandle, "value")

RustWithValue(slots, record) ==
  IF record.valueHandle = NoHandle THEN slots
  ELSE HandoffAdmitted(slots, record.valueHandle, "value", record.requestId)

\* validate_next finds the value of the record in the table.
ValueInTable(slots, record) ==
  record.valueHandle # NoHandle => Active(slots, record.valueHandle, "value")

\* admit_js_native_root_bridge_handoff_record for each kind, and then validate_next
\* on the table it leaves.
AdmitsCreate(s, record) ==
  LET rooted == HandoffAdmitted(s.slots, record.rootHandle, "root", record.rootId)
      slots == RustWithValue(rooted, record)
  IN  /\ record.rootHandleState = "active"
      /\ HandoffAdmits(s.slots, record.rootHandle, "root")
      /\ RustValueAccepted(s, rooted, record)
      /\ RootInTable(slots, record) /\ ValueInTable(slots, record)

AdmitsRender(s, record) ==
  LET slots == RustWithValue(s.slots, record)
  IN  /\ record.rootHandleState = "active"
      /\ RootInTable(s.slots, record)
      /\ RustValueAccepted(s, s.slots, record)
      /\ RootInTable(slots, record) /\ ValueInTable(slots, record)

AdmitsUnmount(s, record) ==
  /\ record.rootHandleState = "retired"
  /\ record.valueHandle = NoHandle
  /\ RootInTable(s.slots, record)
  /\ CanRemove(s.slots, record.rootHandle, "root")
  /\ ~ Active(Removed(s.slots, record.rootHandle), record.rootHandle, "root")

\* One turn of execute_native_root_bridge_json_batch_lifecycle_requests: the table
\* is that of the first record's environment.
RustStep(s0, record) ==
  LET s == [s0 EXCEPT !.environmentId = IF @ = None THEN record.environmentId ELSE @]
      accepted ==
        /\ s.ok
        /\ Prevalidated(s, record)
        /\ NotReused(s, record)
        /\ record.environmentId = s.environmentId
        /\ record.rootHandle.environmentId = s.environmentId
        /\ \/ record.kind = "create" /\ AdmitsCreate(s, record)
           \/ record.kind = "render" /\ AdmitsRender(s, record)
           \/ record.kind = "unmount" /\ AdmitsUnmount(s, record)
        /\ s.rootHandle # NoHandle =>
             record.rootHandle = s.rootHandle /\ record.rootId = s.rootId
      slots ==
        IF record.kind = "unmount" THEN Removed(s.slots, record.rootHandle)
        ELSE IF record.kind = "render" THEN RustWithValue(s.slots, record)
        ELSE RustWithValue(HandoffAdmitted(s.slots, record.rootHandle, "root", record.rootId), record)
  IN  IF ~ accepted THEN [s0 EXCEPT !.ok = FALSE]
      ELSE [s EXCEPT !.slots = slots, !.lastRequestId = record.requestId,
                     !.rootHandle = record.rootHandle, !.rootId = record.rootId,
                     !.rootState = record.rootHandleState,
                     !.consumed = IF record.valueHandle = NoHandle THEN @
                                  ELSE @ \cup {record.valueHandle}]

----------------------------------------------------------------------------
(* Delivery.                                                                *)

\* The transport delivers the record of a request, whatever it delivered before.
deliver(e, q) ==
  LET record == NativeRequestRecord(e, q)
  IN  /\ Len(batch) < MaxBatch
      /\ batch' = Append(batch, record)
      /\ shape' = ShapeStep(shape, record)
      /\ table' = TableStep(table, record)
      /\ rows' = RowStep(rows, record)
      /\ rust' = RustStep(rust, record)
      /\ UNCHANGED bridgeVars

\* createNativeRootBridgeRequestShapeGate starts every batch anew.
newBatch ==
  /\ batch' = <<>> /\ shape' = NewShape /\ table' = NewTable /\ rows' = NewRows
  /\ rust' = NewRust
  /\ UNCHANGED bridgeVars

Init ==
  /\ bridges = [e \in Environments |-> EmptyBridge]
  /\ nextSlot = [e \in Environments |-> 1]
  /\ rootSlots = [e \in Environments |-> <<>>]
  /\ valueSlots = [e \in Environments |-> <<>>]
  /\ batch = <<>> /\ shape = NewShape /\ table = NewTable /\ rows = NewRows
  /\ rust = NewRust

Next ==
  \/ \E e \in Environments :
       \/ \E c \in Containers : createClientRoot(e, c)
       \/ \E r \in Roots(bridges[e]) : renderContainer(e, r) \/ unmountContainer(e, r)
       \/ \E q \in Requests(bridges[e]) : deliver(e, q)
  \/ newBatch

Spec == Init /\ [][Next]_vars

----------------------------------------------------------------------------

GateAccepts == shape.ok /\ table.ok /\ rows.ok

\* The batch is what one root went through: its createRoot first, its renders in
\* the order they were made, each at most once, and at most one unmount, last.
IsLifecycle(records) ==
  /\ \A i \in DOMAIN records :
       /\ records[i].rootHandle = records[1].rootHandle
       /\ (i = 1) = (records[i].kind = "create")
       /\ records[i].kind = "unmount" => i = Len(records)
  /\ \A i, j \in DOMAIN records : i < j => records[i].requestId < records[j].requestId

\* Whatever the transport loses, repeats or reorders, the executor accepts exactly
\* the batches that are the lifecycle of one root of one bridge
\* (execute_native_root_bridge_json_batch_lifecycle_requests).
AcceptsExactlyLifecycles == rust.ok <=> IsLifecycle(batch)

\* The three passes of the JavaScript gate and the Rust executor, which check the
\* same batch against states of their own, accept the same batches.
GatesAgree == (shape.ok <=> rust.ok) /\ (GateAccepts <=> rust.ok) /\ (rows.ok <=> shape.ok)

\* After an accepted batch the gate's handle table is the executor's: the same
\* slots are occupied by handles of the same generation and kind, and a retired
\* root leaves both with the same next generation.
TablesAgree ==
  rust.ok =>
    /\ \A i \in DOMAIN table.slots :
         /\ i \in DOMAIN rust.slots
         /\ rust.slots[i].occupied = (table.slots[i].state = "occupied")
         /\ rust.slots[i].generation = table.slots[i].generation
         /\ rust.slots[i].occupied => rust.slots[i].kind = table.slots[i].kind
    /\ \A i \in DOMAIN rust.slots : rust.slots[i].occupied => i \in DOMAIN table.slots
=============================================================================
