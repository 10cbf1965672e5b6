------------------------------ MODULE MC_Native ------------------------------
(***************************************************************************)
(* The native side: the handle tables on their own, and the handoff of root *)
(* requests that uses one.  The two do not share state, so a behaviour is   *)
(* one of either; part says which.                                          *)
(*                                                                          *)
(* Two environments whose tables number their slots alike, and two bridges  *)
(* that number roots and requests alike.                                    *)
(***************************************************************************)
EXTENDS HandleTable, TLC

CONSTANTS
  BridgeEnvironments,   \* native environment ids of the bridges
  Containers,           \* the DOM containers
  MaxRoots,             \* bound: roots of a bridge
  MaxRequests,          \* bound: requests of all bridges
  MaxBatch              \* bound: records of a batch

VARIABLES bridges, nextSlot, rootSlots, valueSlots, batch, shape, table, rows, rust, part

handoffVars == <<bridges, nextSlot, rootSlots, valueSlots, batch, shape, table, rows, rust>>

Handoff == INSTANCE NativeHandoff WITH Environments <- BridgeEnvironments

ASSUME HandoffInstance == Handoff!HandoffBounds

NativeInit == Init /\ Handoff!Init /\ part \in {"tables", "handoff"}

TablesNext == part = "tables" /\ Next /\ UNCHANGED <<part, handoffVars>>
HandoffNext == part = "handoff" /\ Handoff!Next /\ UNCHANGED <<part, vars>>

NativeSpec == NativeInit /\ [][TablesNext \/ HandoffNext]_<<vars, handoffVars, part>>

\* No call tells environments apart.
EnvironmentSymmetry == Permutations(Environments)

\* Whatever is lost, repeated or reordered between a bridge and the native executor, the
\* executor accepts exactly the batches that are the lifecycle of one root; the three passes
\* of the JavaScript gate, each with a state of its own, accept the same batches, and their
\* handle table is then the executor's
\* (execute_native_root_bridge_json_batch_lifecycle_requests, index.cjs).
AcceptsExactlyLifecycles ==
  Handoff!AcceptsExactlyLifecycles /\ Handoff!GatesAgree /\ Handoff!TablesAgree

=============================================================================
