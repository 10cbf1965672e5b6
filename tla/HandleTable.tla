----------------------------- MODULE HandleTable -----------------------------
(***************************************************************************)
(* The handle tables of the native bridge, one for each environment         *)
(* (BridgeHandleTable, crates/fast-react-napi/src/handle_table.rs).         *)
(*                                                                          *)
(* A caller holds the handles it was issued, also after the record was      *)
(* removed, disposed or torn down, and may present one to the table of      *)
(* another environment. A call that returns an error leaves the tables as   *)
(* they are: it is an action whose guard is false.                          *)
(***************************************************************************)
EXTENDS BridgeTable, FiniteSets

CONSTANTS
  Environments,   \* BridgeEnvironmentId
  Ids,            \* ids of the placeholder records
  MaxSlots,       \* bound: slots of a table
  MaxIssued       \* bound: handles issued

ASSUME IdsAssumption == Ids \subseteq Nat /\ MaxSlots \in Nat

Kinds == {"root", "value"}
Records == [kind : Kinds, id : Ids]
Handles ==
  [environment : Environments, slot : 1 .. MaxSlots, generation : 1 .. MaxGeneration,
   kind : Kinds]

Slots ==
  [occupied : BOOLEAN, generation : 1 .. MaxGeneration, kind : Kinds \cup {"none"},
   id : Ids \cup {0}, disposed : BOOLEAN]

VARIABLES
  tables,   \* the slots of each environment
  issued    \* history: the pairs [handle, record] of insert_root and insert_value

vars == <<tables, issued>>

Init ==
  /\ tables = [e \in Environments |-> <<>>]
  /\ issued = {}

IssuedHandles == {p.handle : p \in issued}

\* insert_root and insert_value
insert_record(e, kind, id) ==
  \E i \in 1 .. Len(tables[e]) + 1 :
    LET handle == [environment |-> e, slot |-> i,
                   generation |-> NextGeneration(tables[e], i), kind |-> kind]
    IN  /\ i <= MaxSlots /\ Cardinality(issued) < MaxIssued
        /\ IsFreeSlot(tables[e], i)
        /\ tables' = [tables EXCEPT ![e] = Inserted(@, i, kind, id)]
        /\ issued' = issued \cup
             {[handle |-> handle, record |-> [kind |-> kind, id |-> id]]}

\* validate_handle_identity; no issued handle is empty.
SameEnvironment(e, h) == h.environment = e

\* remove_root and remove_value
remove_record(e, h, kind) ==
  /\ SameEnvironment(e, h)
  /\ CanRemove(tables[e], h, kind)
  /\ tables' = [tables EXCEPT ![e] = Removed(@, h)]
  /\ UNCHANGED issued

\* A second dispose of the handle returns an error.
dispose(e, h) ==
  /\ SameEnvironment(e, h)
  /\ OccupiedBy(tables[e], h, h.kind)
  /\ ~ tables[e][h.slot].disposed
  /\ tables' = [tables EXCEPT ![e] = Disposed(@, h)]
  /\ UNCHANGED issued

\* Another environment's table ignores the teardown.
teardown_environment(e) ==
  /\ tables' = [tables EXCEPT ![e] = TornDown(@)]
  /\ UNCHANGED issued

Next ==
  \E e \in Environments :
    \/ \E kind \in Kinds, id \in Ids : insert_record(e, kind, id)
    \/ \E h \in IssuedHandles, kind \in Kinds : remove_record(e, h, kind)
    \/ \E h \in IssuedHandles : dispose(e, h)
    \/ teardown_environment(e)

Spec == Init /\ [][Next]_vars

----------------------------------------------------------------------------

\* The type invariant of the tables and of the handles issued from them.
TypeOK ==
  /\ tables \in [Environments -> Seq(Slots)]
  /\ issued \subseteq [handle : Handles, record : Records]

\* get_root or get_value of the handle returns its record.
Resolves(p) ==
  /\ Active(tables[p.handle.environment], p.handle, p.record.kind)
  /\ tables[p.handle.environment][p.handle.slot].id = p.record.id

\* A handle a table still resolves gives the record it was issued for, however
\* often its slot was emptied and taken by others in between: get_root and
\* get_value never return another caller's record for a stale handle.
ResolvesToItsRecord ==
  \A p \in issued, kind \in Kinds :
    Active(tables[p.handle.environment], p.handle, kind) =>
      kind = p.record.kind /\ Resolves(p)

\* The part of the induction that types leave out: the generation of a slot is
\* at least that of every handle issued from it, above it once the slot is
\* vacant, and an entry of the same generation holds the handle's record.
GenerationsAdvance ==
  \A p \in issued :
    LET h == p.handle
        slots == tables[h.environment]
    IN  /\ h.kind = p.record.kind
        /\ h.slot \in 1 .. Len(slots)
        /\ h.generation <= slots[h.slot].generation
        /\ ~ slots[h.slot].occupied => h.generation < slots[h.slot].generation
        /\ h.generation = slots[h.slot].generation =>
             p.record = [kind |-> slots[h.slot].kind, id |-> slots[h.slot].id]

Live == {p \in issued : Resolves(p)}

Registry == INSTANCE HandleRegistry WITH live <- Live, used <- IssuedHandles

\* The tables implement the registry: inserts issue fresh handles, a removal or
\* dispose ends one handle, a teardown those of its environment, and no call
\* revives a handle or disturbs another.
ImplementsRegistry == Registry!RegistrySpec
=============================================================================
