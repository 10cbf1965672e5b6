----------------------------- MODULE BridgeTable -----------------------------
(***************************************************************************)
(* The generational slots of a native bridge handle table                   *)
(* (crates/fast-react-napi/src/handle_table.rs).                            *)
(*                                                                          *)
(* A table is a sequence of slots. A vacant slot keeps the generation its   *)
(* next entry gets, an occupied one the generation of its entry, the        *)
(* record's kind and id, and whether the entry was disposed. A handle names *)
(* an environment, a slot (from 1) and a generation. The operators are      *)
(* functions of the slots, for the table itself (HandleTable) and for the   *)
(* executor that admits handed-off records (NativeHandoff).                 *)
(***************************************************************************)
EXTENDS Integers, Sequences

CONSTANT MaxGeneration   \* u64::MAX: where checked_add on a generation fails

\* Generations start at 1.
ASSUME GenerationAssumption == MaxGeneration \in Nat \ {0}

Vacant(g) ==
  [occupied |-> FALSE, generation |-> g, kind |-> "none", id |-> 0, disposed |-> FALSE]

\* Mutant: every record is stored as a root.
EntryOfRoot(g, kind, id) ==
  [occupied |-> TRUE, generation |-> g, kind |-> "root", id |-> id, disposed |-> FALSE]

\* BridgeHandleEntry::new
Entry(g, kind, id) ==
  [occupied |-> TRUE, generation |-> g, kind |-> kind, id |-> id, disposed |-> FALSE]

\* Mutant: the generation of the slot is not compared.
OccupiedAnyGeneration(slots, h, kind) ==
  /\ h.slot \in 1 .. Len(slots)
  /\ slots[h.slot].occupied
  /\ slots[h.slot].kind = kind

\* occupied_slot_mut, validate_entry_generation and validate_entry_kind: the
\* handle is not stale and its entry holds a record of the kind.
OccupiedBy(slots, h, kind) ==
  /\ h.slot \in 1 .. Len(slots)
  /\ slots[h.slot].occupied
  /\ slots[h.slot].generation = h.generation
  /\ slots[h.slot].kind = kind

\* active_record: get_root or get_value returns a record.
Active(slots, h, kind) == OccupiedBy(slots, h, kind) /\ ~ slots[h.slot].disposed

\* The slot insert_record takes: the first vacant one, or one past the end.
IsFreeSlot(slots, i) ==
  /\ i \in 1 .. Len(slots) + 1
  /\ i \in 1 .. Len(slots) => ~ slots[i].occupied
  /\ \A j \in 1 .. Len(slots) : j < i => slots[j].occupied

\* The generation of a new entry in slot i.
NextGeneration(slots, i) == IF i \in 1 .. Len(slots) THEN slots[i].generation ELSE 1

\* The table after insert_record put the record in slot i.
Inserted(slots, i, kind, id) ==
  LET entry == Entry(NextGeneration(slots, i), kind, id)
  IN  IF i \in 1 .. Len(slots) THEN [slots EXCEPT ![i] = entry] ELSE Append(slots, entry)

\* remove_record succeeds: the slot has another generation to give.
CanRemove(slots, h, kind) == Active(slots, h, kind) /\ h.generation < MaxGeneration

Removed(slots, h) == [slots EXCEPT ![h.slot] = Vacant(h.generation + 1)]

Disposed(slots, h) == [slots EXCEPT ![h.slot].disposed = TRUE]

\* teardown_environment: an entry whose generation is exhausted stays, disposed.
TornDown(slots) ==
  [i \in 1 .. Len(slots) |->
     IF ~ slots[i].occupied THEN slots[i]
     ELSE IF slots[i].generation < MaxGeneration THEN Vacant(slots[i].generation + 1)
     ELSE [slots[i] EXCEPT !.disposed = TRUE]]

----------------------------------------------------------------------------
(* Records handed off with a handle the sender chose.                       *)

\* slot_for_handoff_admission_mut: the table grows to the slot of the handle.
Grown(slots, n) ==
  slots \o [i \in 1 .. (IF n > Len(slots) THEN n - Len(slots) ELSE 0) |-> Vacant(1)]

\* admit_handoff_record accepts the handle.
HandoffAdmits(slots, h, kind) ==
  LET slot == Grown(slots, h.slot)[h.slot]
  IN  /\ h.generation = slot.generation
      /\ slot.occupied => slot.kind = kind /\ ~ slot.disposed

\* admit_handoff_record: an occupied slot keeps its record.
HandoffAdmitted(slots, h, kind, id) ==
  LET grown == Grown(slots, h.slot)
  IN  IF grown[h.slot].occupied THEN grown
      ELSE [grown EXCEPT ![h.slot] = Entry(h.generation, kind, id)]
=============================================================================
