-------------------------- MODULE HandleTableProofs --------------------------
(***************************************************************************)
(* For any environments, record ids, generation limit and number of slots:  *)
(* a handle resolves to its own record only, and the tables implement the   *)
(* registry. The inductive invariant is the type invariant together with    *)
(* GenerationsAdvance.                                                      *)
(*                                                                          *)
(* For any bridges, roots, requests and length of a batch: the executor and *)
(* the three passes of the JavaScript gate accept exactly the lifecycles of *)
(* one root. The inductive invariant is HandoffInv: the bridges number      *)
(* their handles, so the records of a batch are consistent, and while a     *)
(* batch is a lifecycle each of the four states is a function of it.        *)
(***************************************************************************)
EXTENDS MC_Native, SequenceTheorems, TLAPS

IInv == TypeOK /\ GenerationsAdvance

\* The slots after insert_record: one slot holds the new entry, the others are kept.
LEMMA InsertedSlots ==
  ASSUME NEW slots \in Seq(Slots), NEW i \in 1 .. Len(slots) + 1,
         NEW kind \in Kinds, NEW id \in Ids
  PROVE  /\ Inserted(slots, i, kind, id) \in Seq(Slots)
         /\ i \in 1 .. Len(Inserted(slots, i, kind, id))
         /\ Len(slots) <= Len(Inserted(slots, i, kind, id))
         /\ Inserted(slots, i, kind, id)[i] = Entry(NextGeneration(slots, i), kind, id)
         /\ \A j \in 1 .. Len(slots) : j # i => Inserted(slots, i, kind, id)[j] = slots[j]
         /\ NextGeneration(slots, i) \in 1 .. MaxGeneration
<1>0. i \in 1 .. Len(slots) => slots[i] \in Slots
  BY ElementOfSeq
<1>1. NextGeneration(slots, i) \in 1 .. MaxGeneration
  BY <1>0, GenerationAssumption DEF NextGeneration, Slots
<1>2. Entry(NextGeneration(slots, i), kind, id) \in Slots
  BY <1>1 DEF Entry, Slots
<1>3. CASE i \in 1 .. Len(slots)
  BY <1>1, <1>2, <1>3, ExceptSeq, LenProperties DEF Inserted
<1>4. CASE i \notin 1 .. Len(slots)
  <2>1. i = Len(slots) + 1
    BY <1>4
  <2>2. Inserted(slots, i, kind, id) = Append(slots, Entry(NextGeneration(slots, i), kind, id))
    BY <1>4 DEF Inserted
  <2> QED
    BY <1>1, <1>2, <2>1, <2>2, AppendProperties, LenProperties
<1> QED
  BY <1>3, <1>4

\* The slots after remove_record.
LEMMA RemovedSlots ==
  ASSUME NEW slots \in Seq(Slots), NEW h \in Handles, NEW kind \in Kinds,
         CanRemove(slots, h, kind)
  PROVE  /\ Removed(slots, h) \in Seq(Slots)
         /\ Len(Removed(slots, h)) = Len(slots)
         /\ Removed(slots, h)[h.slot] = Vacant(h.generation + 1)
         /\ \A j \in 1 .. Len(slots) : j # h.slot => Removed(slots, h)[j] = slots[j]
<1>1. h.slot \in 1 .. Len(slots) /\ h.generation < MaxGeneration
  BY DEF CanRemove, Active, OccupiedBy
<1>2. Vacant(h.generation + 1) \in Slots
  BY <1>1, GenerationAssumption DEF Vacant, Slots, Handles
<1> QED
  BY <1>1, <1>2, ExceptSeq DEF Removed

\* The slots after dispose.
LEMMA DisposedSlots ==
  ASSUME NEW slots \in Seq(Slots), NEW h \in Handles, h.slot \in 1 .. Len(slots)
  PROVE  /\ slots[h.slot] \in Slots
         /\ Disposed(slots, h) \in Seq(Slots)
         /\ Len(Disposed(slots, h)) = Len(slots)
         /\ Disposed(slots, h)[h.slot] = [slots[h.slot] EXCEPT !.disposed = TRUE]
         /\ \A j \in 1 .. Len(slots) : j # h.slot => Disposed(slots, h)[j] = slots[j]
<1>1. slots[h.slot] \in Slots
  BY ElementOfSeq
<1>2. [slots[h.slot] EXCEPT !.disposed = TRUE] \in Slots
  BY <1>1 DEF Slots
<1>3. Disposed(slots, h) = [slots EXCEPT ![h.slot] = [slots[h.slot] EXCEPT !.disposed = TRUE]]
  BY DEF Disposed
<1>4. PICK entry \in Slots : entry = [slots[h.slot] EXCEPT !.disposed = TRUE]
  BY <1>2
<1>5. Disposed(slots, h) = [slots EXCEPT ![h.slot] = entry]
  BY <1>3, <1>4
<1>6. /\ Disposed(slots, h) \in Seq(Slots)
      /\ Len(Disposed(slots, h)) = Len(slots)
      /\ Disposed(slots, h)[h.slot] = entry
      /\ \A j \in 1 .. Len(slots) : j # h.slot => Disposed(slots, h)[j] = slots[j]
  BY <1>5, ExceptSeq
<1> QED
  BY <1>1, <1>4, <1>6

\* The slots after teardown_environment: none holds a record that resolves.
LEMMA TornDownSlots ==
  ASSUME NEW slots \in Seq(Slots)
  PROVE  /\ TornDown(slots) \in Seq(Slots)
         /\ Len(TornDown(slots)) = Len(slots)
         /\ \A j \in 1 .. Len(slots) :
              /\ slots[j].generation <= TornDown(slots)[j].generation
              /\ ~ slots[j].occupied => TornDown(slots)[j] = slots[j]
              /\ slots[j].occupied =>
                   \/ /\ TornDown(slots)[j] = Vacant(slots[j].generation + 1)
                   \/ /\ TornDown(slots)[j] = [slots[j] EXCEPT !.disposed = TRUE]
<1> DEFINE New(j) == IF ~ slots[j].occupied THEN slots[j]
                     ELSE IF slots[j].generation < MaxGeneration
                          THEN Vacant(slots[j].generation + 1)
                     ELSE [slots[j] EXCEPT !.disposed = TRUE]
<1>0. \A j \in 1 .. Len(slots) : slots[j] \in Slots
  BY ElementOfSeq
<1>1. ASSUME NEW j \in 1 .. Len(slots)
      PROVE  New(j) \in Slots
  <2>1. slots[j] \in Slots
    BY <1>0
  <2>2. [slots[j] EXCEPT !.disposed = TRUE] \in Slots
    BY <2>1 DEF Slots
  <2>3. slots[j].generation < MaxGeneration => Vacant(slots[j].generation + 1) \in Slots
    BY <2>1, GenerationAssumption DEF Vacant, Slots
  <2> QED
    BY <2>1, <2>2, <2>3
<1>2. TornDown(slots) = [j \in 1 .. Len(slots) |-> New(j)]
  BY DEF TornDown
<1>3. TornDown(slots) \in Seq(Slots) /\ Len(TornDown(slots)) = Len(slots)
  <2> HIDE DEF New
  <2> QED BY <1>1, <1>2
<1>4. ASSUME NEW j \in 1 .. Len(slots)
      PROVE  slots[j].generation <= New(j).generation
  BY <1>0, GenerationAssumption DEF Vacant, Slots
<1> QED
  BY <1>2, <1>3, <1>4

----------------------------------------------------------------------------
(* The inductive invariant.                                                 *)

LEMMA InitInvariant ==
  ASSUME Init
  PROVE  IInv
BY EmptySeq DEF Init, IInv, TypeOK, GenerationsAdvance

\* What a call may do to a table: no slot's generation goes back, and a slot of
\* the same generation keeps its record unless it was vacant.
Advances(old, new) ==
  /\ Len(old) <= Len(new)
  /\ \A j \in 1 .. Len(old) :
       \/ old[j].generation < new[j].generation
       \/ /\ old[j].generation = new[j].generation
          /\ old[j].kind = new[j].kind /\ old[j].id = new[j].id
          /\ old[j].occupied = new[j].occupied
       \/ /\ ~ old[j].occupied
          /\ old[j].generation = new[j].generation

\* A call that advances one table keeps the invariant of the handles issued before.
LEMMA StepKeepsGenerations ==
  ASSUME IInv, NEW e \in Environments, NEW new \in Seq(Slots),
         Advances(tables[e], new),
         tables' = [tables EXCEPT ![e] = new],
         NEW p \in issued
  PROVE  LET h == p.handle
             slots == tables'[h.environment]
         IN  /\ h.kind = p.record.kind
             /\ h.slot \in 1 .. Len(slots)
             /\ h.generation <= slots[h.slot].generation
             /\ ~ slots[h.slot].occupied => h.generation < slots[h.slot].generation
             /\ h.generation = slots[h.slot].generation =>
                  p.record = [kind |-> slots[h.slot].kind, id |-> slots[h.slot].id]
<1> DEFINE h == p.handle
           old == tables[h.environment]
           slots == tables'[h.environment]
<1>1. /\ h \in Handles
      /\ h.environment \in Environments
      /\ h.generation \in Nat
  BY DEF IInv, TypeOK, Handles
<1>2. /\ h.kind = p.record.kind
      /\ h.slot \in 1 .. Len(old)
      /\ h.generation <= old[h.slot].generation
      /\ ~ old[h.slot].occupied => h.generation < old[h.slot].generation
      /\ h.generation = old[h.slot].generation =>
           p.record = [kind |-> old[h.slot].kind, id |-> old[h.slot].id]
  BY DEF IInv, GenerationsAdvance
<1>3. CASE h.environment # e
  <2>1. slots = old
    BY <1>1, <1>3 DEF IInv, TypeOK
  <2> QED
    BY <1>2, <2>1
<1>4. CASE h.environment = e
  <2>1. old = tables[e] /\ slots = new
    BY <1>4 DEF IInv, TypeOK
  <2>2. old[h.slot] \in Slots /\ new[h.slot] \in Slots /\ h.slot \in 1 .. Len(new)
    <3>1. tables[e] \in Seq(Slots)
      BY DEF IInv, TypeOK
    <3>2. Len(tables[e]) \in Nat /\ Len(new) \in Nat
      BY <3>1, LenProperties
    <3>3. h.slot \in 1 .. Len(new)
      BY <1>2, <2>1, <3>2 DEF Advances
    <3> QED
      BY <1>2, <2>1, <3>1, <3>3, ElementOfSeq
  <2>3. old[h.slot].generation \in Nat /\ new[h.slot].generation \in Nat
    BY <2>2, GenerationAssumption DEF Slots
  <2>4. \/ /\ old[h.slot].generation < new[h.slot].generation
        \/ /\ old[h.slot].generation = new[h.slot].generation
           /\ old[h.slot].kind = new[h.slot].kind /\ old[h.slot].id = new[h.slot].id
           /\ old[h.slot].occupied = new[h.slot].occupied
        \/ /\ ~ old[h.slot].occupied
           /\ old[h.slot].generation = new[h.slot].generation
    BY <1>2, <2>1 DEF Advances
  <2>5. /\ h.generation <= new[h.slot].generation
        /\ ~ new[h.slot].occupied => h.generation < new[h.slot].generation
        /\ h.generation = new[h.slot].generation =>
             p.record = [kind |-> new[h.slot].kind, id |-> new[h.slot].id]
    <3> HIDE DEF h, old
    <3> QED
      BY <1>1, <1>2, <2>3, <2>4
  <2> QED
    BY <1>2, <2>1, <2>2, <2>5
<1> QED
  BY <1>3, <1>4

LEMMA InsertInvariant ==
  ASSUME IInv, NEW e \in Environments, NEW kind \in Kinds, NEW id \in Ids,
         insert_record(e, kind, id)
  PROVE  IInv'
<1>1. PICK i \in 1 .. Len(tables[e]) + 1 :
        /\ i <= MaxSlots
        /\ IsFreeSlot(tables[e], i)
        /\ tables' = [tables EXCEPT ![e] = Inserted(@, i, kind, id)]
        /\ issued' = issued \cup
             {[handle |-> [environment |-> e, slot |-> i,
                           generation |-> NextGeneration(tables[e], i), kind |-> kind],
               record |-> [kind |-> kind, id |-> id]]}
  BY DEF insert_record
<1> DEFINE new == Inserted(tables[e], i, kind, id)
           g == NextGeneration(tables[e], i)
           handle == [environment |-> e, slot |-> i, generation |-> g, kind |-> kind]
           pair == [handle |-> handle, record |-> [kind |-> kind, id |-> id]]
<1>2. tables[e] \in Seq(Slots)
  BY DEF IInv, TypeOK
<1>3. /\ new \in Seq(Slots) /\ i \in 1 .. Len(new) /\ Len(tables[e]) <= Len(new)
      /\ new[i] = Entry(g, kind, id)
      /\ \A j \in 1 .. Len(tables[e]) : j # i => new[j] = tables[e][j]
      /\ g \in 1 .. MaxGeneration
  BY <1>2, InsertedSlots
<1>4. tables' = [tables EXCEPT ![e] = new] /\ issued' = issued \cup {pair}
  BY <1>1
<1>5. handle \in Handles /\ pair \in [handle : Handles, record : Records]
  <2>1. i \in 1 .. MaxSlots
    BY <1>1, <1>2, LenProperties, IdsAssumption
  <2> QED
    BY <1>3, <2>1 DEF Handles, Records
<1>6. TypeOK'
  BY <1>3, <1>4, <1>5 DEF IInv, TypeOK
<1>7. Advances(tables[e], new)
  <2> SUFFICES ASSUME NEW j \in 1 .. Len(tables[e]), j = i
               PROVE  ~ tables[e][j].occupied /\ tables[e][j].generation = new[j].generation
    BY <1>3 DEF Advances
  <2> QED
    BY <1>1, <1>3 DEF IsFreeSlot, Entry, NextGeneration
<1>8. tables'[e] = new
  BY <1>4 DEF IInv, TypeOK
<1>9. ASSUME NEW p \in issued'
      PROVE  LET h == p.handle
                 slots == tables'[h.environment]
             IN  /\ h.kind = p.record.kind
                 /\ h.slot \in 1 .. Len(slots)
                 /\ h.generation <= slots[h.slot].generation
                 /\ ~ slots[h.slot].occupied => h.generation < slots[h.slot].generation
                 /\ h.generation = slots[h.slot].generation =>
                      p.record = [kind |-> slots[h.slot].kind, id |-> slots[h.slot].id]
  <2>1. CASE p \in issued
    <3> HIDE DEF new
    <3> QED
      BY <1>3, <1>4, <1>7, <2>1, StepKeepsGenerations
  <2>2. CASE p = pair
    <3>1. /\ new[i].generation = g /\ new[i].occupied
          /\ new[i].kind = kind /\ new[i].id = id
      BY <1>3 DEF Entry
    <3>2. g \in Int
      BY <1>3, GenerationAssumption
    <3>3. /\ p.handle.environment = e /\ p.handle.slot = i /\ p.handle.generation = g
          /\ p.handle.kind = kind /\ p.record = [kind |-> kind, id |-> id]
      BY <2>2
    <3> HIDE DEF new, g
    <3> QED
      BY <1>3, <1>8, <3>1, <3>2, <3>3
  <2> QED
    BY <1>4, <2>1, <2>2
<1>10. GenerationsAdvance'
  BY <1>9 DEF GenerationsAdvance
<1> QED
  BY <1>6, <1>10 DEF IInv

\* The other calls issue nothing: the table keeps its type and its generations.
LEMMA ReleaseInvariant ==
  ASSUME IInv, NEW e \in Environments, NEW new \in Seq(Slots),
         Advances(tables[e], new),
         tables' = [tables EXCEPT ![e] = new],
         issued' = issued
  PROVE  IInv'
<1>1. TypeOK'
  BY DEF IInv, TypeOK
<1>2. GenerationsAdvance'
  BY StepKeepsGenerations DEF GenerationsAdvance
<1> QED
  BY <1>1, <1>2 DEF IInv

\* remove_record gives the slot a new generation.
LEMMA RemoveAdvances ==
  ASSUME IInv, NEW e \in Environments, NEW h \in Handles, NEW kind \in Kinds,
         remove_record(e, h, kind)
  PROVE  /\ Removed(tables[e], h) \in Seq(Slots)
         /\ Advances(tables[e], Removed(tables[e], h))
         /\ ~ Removed(tables[e], h)[h.slot].occupied
         /\ \A j \in 1 .. Len(tables[e]) :
              j # h.slot => Removed(tables[e], h)[j] = tables[e][j]
<1> DEFINE new == Removed(tables[e], h)
<1>1. tables[e] \in Seq(Slots)
  BY DEF IInv, TypeOK
<1>2. /\ new \in Seq(Slots) /\ Len(new) = Len(tables[e])
      /\ new[h.slot] = Vacant(h.generation + 1)
      /\ \A j \in 1 .. Len(tables[e]) : j # h.slot => new[j] = tables[e][j]
  BY <1>1, RemovedSlots DEF remove_record
<1>3. h.generation \in Nat /\ tables[e][h.slot].generation = h.generation
  BY DEF remove_record, CanRemove, Active, OccupiedBy, Handles
<1>4. tables[e][h.slot].generation < new[h.slot].generation
  BY <1>2, <1>3 DEF Vacant
<1>5. ~ new[h.slot].occupied
  BY <1>2 DEF Vacant
<1>6. Len(tables[e]) \in Nat
  BY <1>1, LenProperties
<1>7. Advances(tables[e], new)
  <2> HIDE DEF new
  <2> QED BY <1>2, <1>4, <1>6 DEF Advances
<1> QED
  BY <1>2, <1>5, <1>7

\* dispose keeps the slot's generation and record.
LEMMA DisposeAdvances ==
  ASSUME IInv, NEW e \in Environments, NEW h \in Handles, dispose(e, h)
  PROVE  /\ Disposed(tables[e], h) \in Seq(Slots)
         /\ Advances(tables[e], Disposed(tables[e], h))
         /\ Disposed(tables[e], h)[h.slot].disposed
         /\ \A j \in 1 .. Len(tables[e]) :
              j # h.slot => Disposed(tables[e], h)[j] = tables[e][j]
<1> DEFINE new == Disposed(tables[e], h)
<1>1. tables[e] \in Seq(Slots) /\ h.slot \in 1 .. Len(tables[e])
  BY DEF IInv, TypeOK, dispose, OccupiedBy
<1>2. /\ tables[e][h.slot] \in Slots
      /\ new \in Seq(Slots) /\ Len(new) = Len(tables[e])
      /\ new[h.slot] = [tables[e][h.slot] EXCEPT !.disposed = TRUE]
      /\ \A j \in 1 .. Len(tables[e]) : j # h.slot => new[j] = tables[e][j]
  BY <1>1, DisposedSlots
<1>3. /\ tables[e][h.slot].generation = new[h.slot].generation
      /\ tables[e][h.slot].kind = new[h.slot].kind
      /\ tables[e][h.slot].id = new[h.slot].id
      /\ tables[e][h.slot].occupied = new[h.slot].occupied
  BY <1>2 DEF Slots
<1>a. /\ Len(new) = Len(tables[e])
      /\ \A j \in 1 .. Len(tables[e]) : j # h.slot => new[j] = tables[e][j]
  BY <1>2
<1>4. new[h.slot].disposed
  BY <1>2 DEF Slots
<1>5. Len(tables[e]) \in Nat
  BY <1>1, LenProperties
<1>6. Advances(tables[e], new)
  <2> HIDE DEF new
  <2> QED BY <1>3, <1>a, <1>5 DEF Advances
<1>7. new \in Seq(Slots)
  BY <1>2
<1> QED
  BY <1>a, <1>4, <1>6, <1>7

\* teardown_environment gives every occupied slot a new generation or disposes
\* its entry.
LEMMA TeardownAdvances ==
  ASSUME IInv, NEW e \in Environments
  PROVE  /\ TornDown(tables[e]) \in Seq(Slots)
         /\ Advances(tables[e], TornDown(tables[e]))
         /\ \A j \in 1 .. Len(tables[e]) :
              ~ TornDown(tables[e])[j].occupied \/ TornDown(tables[e])[j].disposed
<1> DEFINE old == tables[e]
           new == TornDown(tables[e])
<1>1. old \in Seq(Slots) /\ Len(old) \in Nat
  BY LenProperties DEF IInv, TypeOK
<1>2. new \in Seq(Slots) /\ Len(new) = Len(old)
  BY <1>1, TornDownSlots
<1>3. ASSUME NEW j \in 1 .. Len(old)
      PROVE  \/ /\ old[j].generation < new[j].generation
             \/ /\ old[j].generation = new[j].generation
                /\ old[j].kind = new[j].kind /\ old[j].id = new[j].id
                /\ old[j].occupied = new[j].occupied
  <2>1. /\ ~ old[j].occupied => new[j] = old[j]
        /\ old[j].occupied =>
             \/ new[j] = Vacant(old[j].generation + 1)
             \/ new[j] = [old[j] EXCEPT !.disposed = TRUE]
    BY <1>1, TornDownSlots
  <2>2. old[j] \in Slots
    BY <1>1, ElementOfSeq
  <2>3. old[j].generation \in Nat
    BY <2>2, GenerationAssumption DEF Slots
  <2>4. CASE new[j] = old[j]
    BY <2>4
  <2>5. CASE new[j] = Vacant(old[j].generation + 1)
    <3>1. new[j].generation = old[j].generation + 1
      BY <2>5 DEF Vacant
    <3> HIDE DEF new, old
    <3> QED
      BY <2>3, <3>1
  <2>6. CASE new[j] = [old[j] EXCEPT !.disposed = TRUE]
    BY <2>2, <2>6 DEF Slots
  <2> QED
    BY <2>1, <2>4, <2>5, <2>6
<1>4. ASSUME NEW j \in 1 .. Len(old)
      PROVE  ~ new[j].occupied \/ new[j].disposed
  <2>1. /\ ~ old[j].occupied => new[j] = old[j]
        /\ old[j].occupied =>
             \/ new[j] = Vacant(old[j].generation + 1)
             \/ new[j] = [old[j] EXCEPT !.disposed = TRUE]
    BY <1>1, TornDownSlots
  <2>2. old[j] \in Slots
    BY <1>1, ElementOfSeq
  <2>3. [old[j] EXCEPT !.disposed = TRUE].disposed
    BY <2>2 DEF Slots
  <2>4. ~ Vacant(old[j].generation + 1).occupied
    BY DEF Vacant
  <2> HIDE DEF new
  <2> QED
    BY <2>1, <2>3, <2>4
<1>5. Advances(tables[e], new)
  <2> HIDE DEF new
  <2> QED BY <1>1, <1>2, <1>3 DEF Advances
<1> QED
  BY <1>2, <1>4, <1>5

\* Every handle a caller presents is one of Handles.
LEMMA IssuedAreHandles ==
  ASSUME IInv
  PROVE  IssuedHandles \subseteq Handles
BY DEF IInv, TypeOK, IssuedHandles

\* Every step keeps the inductive invariant.
LEMMA NextInvariant ==
  ASSUME IInv, [Next]_vars
  PROVE  IInv'
<1>1. ASSUME NEW e \in Environments, NEW kind \in Kinds, NEW id \in Ids,
             insert_record(e, kind, id)
      PROVE  IInv'
  BY <1>1, InsertInvariant
<1>2. ASSUME NEW e \in Environments, NEW h \in IssuedHandles, NEW kind \in Kinds,
             remove_record(e, h, kind)
      PROVE  IInv'
  <2>1. tables' = [tables EXCEPT ![e] = Removed(tables[e], h)] /\ issued' = issued
    BY <1>2 DEF remove_record
  <2> QED
    BY <1>2, <2>1, RemoveAdvances, ReleaseInvariant, IssuedAreHandles
<1>3. ASSUME NEW e \in Environments, NEW h \in IssuedHandles, dispose(e, h)
      PROVE  IInv'
  <2>1. tables' = [tables EXCEPT ![e] = Disposed(tables[e], h)] /\ issued' = issued
    BY <1>3 DEF dispose
  <2> QED
    BY <1>3, <2>1, DisposeAdvances, ReleaseInvariant, IssuedAreHandles
<1>4. ASSUME NEW e \in Environments, teardown_environment(e)
      PROVE  IInv'
  <2>1. tables' = [tables EXCEPT ![e] = TornDown(tables[e])] /\ issued' = issued
    BY <1>4 DEF teardown_environment
  <2> QED
    BY <2>1, TeardownAdvances, ReleaseInvariant
<1>5. CASE UNCHANGED vars
  BY <1>5 DEF IInv, TypeOK, GenerationsAdvance, vars
<1> QED
  BY <1>1, <1>2, <1>3, <1>4, <1>5 DEF Next

\* In every reachable state the generation of a slot is above that of every
\* handle whose record left it (BridgeHandleTable keeps the next generation in
\* a vacant slot and never lets it go back).
THEOREM GenerationsCorrect == Spec => []GenerationsAdvance
<1>1. Init => IInv
  BY InitInvariant
<1>2. IInv /\ [Next]_vars => IInv'
  BY NextInvariant
<1>3. IInv => GenerationsAdvance
  BY DEF IInv
<1> QED
  BY <1>1, <1>2, <1>3, PTL DEF Spec

\* The type invariant of the handle tables, for every value of the constants.
THEOREM TablesTyped == Spec => []TypeOK
<1>1. Init => IInv
  BY InitInvariant
<1>2. IInv /\ [Next]_vars => IInv'
  BY NextInvariant
<1>3. IInv => TypeOK
  BY DEF IInv
<1> QED
  BY <1>1, <1>2, <1>3, PTL DEF Spec

\* A pair whose handle is active holds the record of its slot.
LEMMA InvariantResolves == IInv => ResolvesToItsRecord
<1> SUFFICES ASSUME IInv, NEW p \in issued, NEW kind \in Kinds,
                    Active(tables[p.handle.environment], p.handle, kind)
             PROVE  kind = p.record.kind /\ Resolves(p)
  BY DEF ResolvesToItsRecord
<1> DEFINE slot == tables[p.handle.environment][p.handle.slot]
<1>1. /\ slot.kind = kind /\ slot.generation = p.handle.generation
  BY DEF Active, OccupiedBy
<1>2. p.record = [kind |-> slot.kind, id |-> slot.id]
  BY <1>1 DEF IInv, GenerationsAdvance
<1> QED
  BY <1>1, <1>2 DEF Resolves, Active, OccupiedBy

\* get_root and get_value return the record a handle was issued for or an
\* error, never the record of a later owner of its slot.
THEOREM ResolutionCorrect == Spec => []ResolvesToItsRecord
<1>1. Init => IInv
  BY InitInvariant
<1>2. IInv /\ [Next]_vars => IInv'
  BY NextInvariant
<1>3. IInv => ResolvesToItsRecord
  BY InvariantResolves
<1> QED
  BY <1>1, <1>2, <1>3, PTL DEF Spec

----------------------------------------------------------------------------
(* The tables implement the registry.                                       *)

\* A pair whose slot a call leaves alone resolves as before.
LEMMA ResolvesElsewhere ==
  ASSUME IInv, NEW e \in Environments, NEW new \in Seq(Slots),
         Advances(tables[e], new),
         tables' = [tables EXCEPT ![e] = new],
         NEW p \in issued,
         p.handle.environment = e => new[p.handle.slot] = tables[e][p.handle.slot]
  PROVE  Resolves(p)' <=> Resolves(p)
<1>1. p.handle.environment \in Environments /\ p.handle \in Handles
  BY DEF IInv, TypeOK, Handles
<1>2. p.handle.slot \in 1 .. Len(tables[p.handle.environment])
  BY DEF IInv, GenerationsAdvance
<1>3. CASE p.handle.environment # e
  <2>1. tables'[p.handle.environment] = tables[p.handle.environment]
    BY <1>1, <1>3 DEF IInv, TypeOK
  <2> QED
    BY <2>1 DEF Resolves, Active, OccupiedBy
<1>4. CASE p.handle.environment = e
  <2>1. tables'[e] = new
    BY DEF IInv, TypeOK
  <2>2. tables[e] \in Seq(Slots) /\ Len(tables[e]) \in Nat /\ Len(new) \in Nat
    BY LenProperties DEF IInv, TypeOK
  <2>3. p.handle.slot \in 1 .. Len(new)
    BY <1>2, <1>4, <2>2 DEF Advances
  <2> QED
    BY <1>2, <1>4, <2>1, <2>3 DEF Resolves, Active, OccupiedBy
<1> QED
  BY <1>3, <1>4

\* Two pairs of one environment, slot and generation that resolve are the same.
LEMMA ResolvesOnce ==
  ASSUME IInv, NEW p \in issued, NEW q \in issued,
         p.handle.environment = q.handle.environment,
         p.handle.slot = q.handle.slot,
         Resolves(p), Resolves(q)
  PROVE  p = q
<1> DEFINE slot == tables[p.handle.environment][p.handle.slot]
<1>1. /\ p \in [handle : Handles, record : Records]
      /\ q \in [handle : Handles, record : Records]
  BY DEF IInv, TypeOK
<1>2. p.handle.generation = q.handle.generation
  BY DEF Resolves, Active, OccupiedBy
<1>3. /\ p.record = [kind |-> slot.kind, id |-> slot.id]
      /\ q.record = [kind |-> slot.kind, id |-> slot.id]
      /\ p.handle.kind = p.record.kind /\ q.handle.kind = q.record.kind
  BY <1>2 DEF IInv, GenerationsAdvance, Resolves, Active, OccupiedBy
<1>4. p.handle = q.handle
  BY <1>1, <1>2, <1>3 DEF Handles
<1> QED
  BY <1>1, <1>3, <1>4

\* A call that empties or disposes the slot of one resolving handle releases it
\* and no other.
LEMMA SlotReleased ==
  ASSUME IInv, NEW e \in Environments, NEW new \in Seq(Slots),
         Advances(tables[e], new),
         tables' = [tables EXCEPT ![e] = new], issued' = issued,
         NEW q \in issued, q.handle.environment = e, Resolves(q),
         ~ new[q.handle.slot].occupied \/ new[q.handle.slot].disposed,
         \A j \in 1 .. Len(tables[e]) : j # q.handle.slot => new[j] = tables[e][j]
  PROVE  Registry!Release
<1>1. ASSUME NEW p \in issued
      PROVE  Resolves(p)' <=> Resolves(p) /\ p # q
  <2>1. CASE p.handle.environment = e /\ p.handle.slot = q.handle.slot
    <3>1. ~ Resolves(p)'
      <4>1. tables'[e] = new
        BY DEF IInv, TypeOK
      <4> QED
        BY <2>1, <4>1 DEF Resolves, Active, OccupiedBy
    <3>2. Resolves(p) => p = q
      BY <2>1, ResolvesOnce
    <3> QED
      BY <3>1, <3>2
  <2>2. CASE ~ (p.handle.environment = e /\ p.handle.slot = q.handle.slot)
    <3>1. p.handle.slot \in 1 .. Len(tables[p.handle.environment])
      BY DEF IInv, GenerationsAdvance
    <3>2. p.handle.environment = e => new[p.handle.slot] = tables[e][p.handle.slot]
      BY <2>2, <3>1
    <3>3. Resolves(p)' <=> Resolves(p)
      BY <3>2, ResolvesElsewhere
    <3> QED
      BY <2>2, <3>3
  <2> QED
    BY <2>1, <2>2
<1>2. Live' = Live \ {q}
  BY <1>1 DEF Live
<1>3. q \in Live
  BY DEF Live
<1>4. IssuedHandles' = IssuedHandles
  BY DEF IssuedHandles
<1> QED
  BY <1>2, <1>3, <1>4 DEF Registry!Release

\* The pair of an issued handle that a table still holds resolves.
LEMMA PresentedResolves ==
  ASSUME IInv, NEW h \in IssuedHandles, NEW kind \in Kinds,
         Active(tables[h.environment], h, kind)
  PROVE  \E q \in issued : q.handle = h /\ Resolves(q)
<1>1. PICK q \in issued : q.handle = h
  BY DEF IssuedHandles
<1>2. tables[h.environment][h.slot].generation = h.generation
  BY DEF Active, OccupiedBy
<1>3. q.record = [kind |-> tables[h.environment][h.slot].kind,
                  id |-> tables[h.environment][h.slot].id]
  <2>1. q.handle.generation = tables[q.handle.environment][q.handle.slot].generation =>
          q.record = [kind |-> tables[q.handle.environment][q.handle.slot].kind,
                      id |-> tables[q.handle.environment][q.handle.slot].id]
    BY DEF IInv, GenerationsAdvance
  <2> QED
    BY <1>1, <1>2, <2>1
<1>4. tables[h.environment][h.slot].kind = kind
  BY DEF Active, OccupiedBy
<1>5. q.record.kind = kind /\ q.record.id = tables[h.environment][h.slot].id
  BY <1>3, <1>4
<1> QED
  BY <1>1, <1>5 DEF Resolves, Active, OccupiedBy

LEMMA RemoveReleases ==
  ASSUME IInv, NEW e \in Environments, NEW h \in IssuedHandles, NEW kind \in Kinds,
         remove_record(e, h, kind)
  PROVE  Registry!Release
<1>1. /\ tables' = [tables EXCEPT ![e] = Removed(tables[e], h)] /\ issued' = issued
      /\ h.environment = e /\ Active(tables[e], h, kind) /\ h \in Handles
  BY IssuedAreHandles DEF remove_record, CanRemove, SameEnvironment
<1>2. PICK q \in issued : q.handle = h /\ Resolves(q)
  BY <1>1, PresentedResolves
<1>3. /\ Removed(tables[e], h) \in Seq(Slots)
      /\ Advances(tables[e], Removed(tables[e], h))
      /\ ~ Removed(tables[e], h)[h.slot].occupied
      /\ \A j \in 1 .. Len(tables[e]) :
           j # h.slot => Removed(tables[e], h)[j] = tables[e][j]
  BY <1>1, RemoveAdvances
<1> QED
  BY <1>1, <1>2, <1>3, SlotReleased

LEMMA DisposeReleases ==
  ASSUME IInv, NEW e \in Environments, NEW h \in IssuedHandles, dispose(e, h)
  PROVE  Registry!Release
<1>1. /\ tables' = [tables EXCEPT ![e] = Disposed(tables[e], h)] /\ issued' = issued
      /\ h.environment = e /\ Active(tables[e], h, h.kind)
      /\ h \in Handles /\ h.kind \in Kinds
  BY IssuedAreHandles DEF dispose, SameEnvironment, Active, Handles
<1>2. PICK q \in issued : q.handle = h /\ Resolves(q)
  BY <1>1, PresentedResolves
<1>3. /\ Disposed(tables[e], h) \in Seq(Slots)
      /\ Advances(tables[e], Disposed(tables[e], h))
      /\ Disposed(tables[e], h)[h.slot].disposed
      /\ \A j \in 1 .. Len(tables[e]) :
           j # h.slot => Disposed(tables[e], h)[j] = tables[e][j]
  BY <1>1, DisposeAdvances
<1> QED
  BY <1>1, <1>2, <1>3, SlotReleased

\* teardown_environment releases what its environment still had.
LEMMA TeardownReleases ==
  ASSUME IInv, NEW e \in Environments, teardown_environment(e)
  PROVE  Registry!ReleaseEnvironment \/ UNCHANGED <<Live, IssuedHandles>>
<1> DEFINE new == TornDown(tables[e])
<1>1. tables' = [tables EXCEPT ![e] = new] /\ issued' = issued
  BY DEF teardown_environment
<1>2. /\ new \in Seq(Slots) /\ Advances(tables[e], new)
      /\ \A j \in 1 .. Len(tables[e]) : ~ new[j].occupied \/ new[j].disposed
  BY TeardownAdvances
<1> HIDE DEF new
<1>3. ASSUME NEW p \in issued
      PROVE  Resolves(p)' <=> Resolves(p) /\ p.handle.environment # e
  <2>1. p.handle.slot \in 1 .. Len(tables[p.handle.environment])
    BY DEF IInv, GenerationsAdvance
  <2>2. CASE p.handle.environment = e
    <3>1. tables'[e] = new
      BY <1>1 DEF IInv, TypeOK
    <3> QED
      BY <1>2, <2>1, <2>2, <3>1 DEF Resolves, Active, OccupiedBy
  <2>3. CASE p.handle.environment # e
    BY <1>1, <1>2, <2>3, ResolvesElsewhere
  <2> QED
    BY <2>2, <2>3
<1>4. Live' = {p \in Live : p.handle.environment # e}
  BY <1>1, <1>3 DEF Live
<1>5. IssuedHandles' = IssuedHandles
  BY <1>1 DEF IssuedHandles
<1>6. CASE \E p \in Live : p.handle.environment = e
  BY <1>4, <1>5, <1>6 DEF Registry!ReleaseEnvironment
<1>7. CASE ~ \E p \in Live : p.handle.environment = e
  BY <1>4, <1>5, <1>7
<1> QED
  BY <1>6, <1>7

\* insert_record issues a handle no caller has held.
LEMMA InsertIssues ==
  ASSUME IInv, NEW e \in Environments, NEW kind \in Kinds, NEW id \in Ids,
         insert_record(e, kind, id)
  PROVE  Registry!Issue
<1>1. PICK i \in 1 .. Len(tables[e]) + 1 :
        /\ i <= MaxSlots
        /\ IsFreeSlot(tables[e], i)
        /\ tables' = [tables EXCEPT ![e] = Inserted(@, i, kind, id)]
        /\ issued' = issued \cup
             {[handle |-> [environment |-> e, slot |-> i,
                           generation |-> NextGeneration(tables[e], i), kind |-> kind],
               record |-> [kind |-> kind, id |-> id]]}
  BY DEF insert_record
<1> DEFINE new == Inserted(tables[e], i, kind, id)
           g == NextGeneration(tables[e], i)
           handle == [environment |-> e, slot |-> i, generation |-> g, kind |-> kind]
           record == [kind |-> kind, id |-> id]
           pair == [handle |-> handle, record |-> record]
<1>2. tables[e] \in Seq(Slots) /\ Len(tables[e]) \in Nat
  BY LenProperties DEF IInv, TypeOK
<1>3. /\ new \in Seq(Slots) /\ i \in 1 .. Len(new) /\ Len(tables[e]) <= Len(new)
      /\ new[i] = Entry(g, kind, id)
      /\ \A j \in 1 .. Len(tables[e]) : j # i => new[j] = tables[e][j]
      /\ g \in 1 .. MaxGeneration
  BY <1>2, InsertedSlots
<1>4. tables' = [tables EXCEPT ![e] = new] /\ issued' = issued \cup {pair}
  BY <1>1
<1>5. handle \in Handles /\ record \in Records
  <2>1. i \in 1 .. MaxSlots
    BY <1>1, <1>2, IdsAssumption
  <2> QED
    BY <1>3, <2>1 DEF Handles, Records
<1>6. /\ new[i].occupied /\ new[i].generation = g /\ new[i].kind = kind
      /\ new[i].id = id /\ ~ new[i].disposed
  BY <1>3 DEF Entry
<1>7. tables'[e] = new
  BY <1>4 DEF IInv, TypeOK
<1>8. ASSUME NEW p \in issued, p.handle.environment = e, p.handle.slot = i
      PROVE  p.handle.generation < g /\ ~ tables[e][i].occupied
  <2>1. i \in 1 .. Len(tables[e])
    BY <1>8 DEF IInv, GenerationsAdvance
  <2>2. ~ tables[e][i].occupied /\ g = tables[e][i].generation
    BY <1>1, <2>1 DEF IsFreeSlot, NextGeneration
  <2> QED
    BY <1>8, <2>2 DEF IInv, GenerationsAdvance
<1>9. handle \notin IssuedHandles
  <2> SUFFICES ASSUME NEW p \in issued, p.handle = handle
               PROVE  FALSE
    BY DEF IssuedHandles
  <2>1. g < g
    BY <1>8
  <2> QED
    BY <1>3, <2>1, GenerationAssumption
<1>10. Advances(tables[e], new)
  <2>1. i \in 1 .. Len(tables[e]) =>
          ~ tables[e][i].occupied /\ tables[e][i].generation = g
    BY <1>1 DEF IsFreeSlot, NextGeneration
  <2> HIDE DEF new, g
  <2> QED
    BY <1>3, <1>6, <2>1 DEF Advances
<1>11. ASSUME NEW p \in issued
       PROVE  Resolves(p)' <=> Resolves(p)
  <2>1. CASE p.handle.environment = e /\ p.handle.slot = i
    <3>1. p.handle.generation < g /\ ~ tables[e][i].occupied
      BY <1>8, <2>1
    <3>2. p.handle.generation # g
      <4>1. p.handle.generation \in Nat /\ g \in Nat
        BY <1>3, GenerationAssumption DEF IInv, TypeOK, Handles
      <4> HIDE DEF g
      <4> QED
        BY <3>1, <4>1
    <3> HIDE DEF new, g
    <3> QED
      BY <1>6, <1>7, <2>1, <3>1, <3>2 DEF Resolves, Active, OccupiedBy
  <2>2. CASE ~ (p.handle.environment = e /\ p.handle.slot = i)
    <3>1. p.handle.slot \in 1 .. Len(tables[p.handle.environment])
      BY DEF IInv, GenerationsAdvance
    <3>2. p.handle.environment = e => new[p.handle.slot] = tables[e][p.handle.slot]
      BY <1>3, <2>2, <3>1
    <3> HIDE DEF new
    <3> QED
      BY <1>3, <1>4, <1>10, <3>2, ResolvesElsewhere
  <2> QED
    BY <2>1, <2>2
<1>12. PICK q : q = pair
  OBVIOUS
<1>13. /\ q.handle.environment = e /\ q.handle.slot = i /\ q.handle.generation = g
       /\ q.record.kind = kind /\ q.record.id = id
       /\ q.handle \in Handles \ IssuedHandles /\ q.record \in Records
       /\ q = [handle |-> q.handle, record |-> q.record]
  BY <1>5, <1>9, <1>12
<1>14. issued' = issued \cup {q}
  BY <1>4, <1>12
<1>15. Resolves(q)'
  <2> HIDE DEF new, g, pair
  <2> QED
    BY <1>3, <1>6, <1>7, <1>13 DEF Resolves, Active, OccupiedBy
<1> HIDE DEF new, g, handle, record, pair
<1>16. Live' = Live \cup {q}
  BY <1>11, <1>14, <1>15 DEF Live
<1>17. IssuedHandles' = IssuedHandles \cup {q.handle}
  BY <1>14 DEF IssuedHandles
<1> QED
  BY <1>13, <1>16, <1>17 DEF Registry!Issue

\* The handle tables implement the registry of handles issued once, alive until
\* they are released and dead ever after (BridgeHandleTable).
THEOREM TablesImplementRegistry == Spec => ImplementsRegistry
<1>1. Init => IInv /\ Registry!RegistryInit
  BY InitInvariant DEF Init, Registry!RegistryInit, Live, IssuedHandles
<1>2. IInv /\ [Next]_vars => IInv'
  BY NextInvariant
<1>3. IInv /\ [Next]_vars => [Registry!RegistryNext]_(Registry!registryVars)
  <2> SUFFICES ASSUME IInv, [Next]_vars
               PROVE  [Registry!RegistryNext]_(Registry!registryVars)
    OBVIOUS
  <2> USE DEF Registry!RegistryNext, Registry!registryVars
  <2>1. ASSUME NEW e \in Environments, NEW kind \in Kinds, NEW id \in Ids,
               insert_record(e, kind, id)
        PROVE  Registry!RegistryNext
    BY <2>1, InsertIssues
  <2>2. ASSUME NEW e \in Environments, NEW h \in IssuedHandles, NEW kind \in Kinds,
               remove_record(e, h, kind)
        PROVE  Registry!RegistryNext
    BY <2>2, RemoveReleases
  <2>3. ASSUME NEW e \in Environments, NEW h \in IssuedHandles, dispose(e, h)
        PROVE  Registry!RegistryNext
    BY <2>3, DisposeReleases
  <2>4. ASSUME NEW e \in Environments, teardown_environment(e)
        PROVE  [Registry!RegistryNext]_(Registry!registryVars)
    BY <2>4, TeardownReleases
  <2>5. CASE UNCHANGED vars
    BY <2>5 DEF vars, Live, IssuedHandles, Resolves
  <2> QED
    BY <2>1, <2>2, <2>3, <2>4, <2>5 DEF Next
<1> QED
  BY <1>1, <1>2, <1>3, PTL DEF Spec, ImplementsRegistry, Registry!RegistrySpec

(***************************************************************************)
(* The handoff                                                              *)
(***************************************************************************)

\* The records of a batch.
SomeHandles ==
  [environmentId : Nat, slot : Nat, generation : Nat, kind : {"root", "value", "none"}]
SomeRecords ==
  [requestId : Nat, kind : {"create", "render", "unmount"}, environmentId : Nat,
   rootHandle : SomeHandles, rootId : Nat, valueHandle : SomeHandles,
   rootHandleState : {"active", "retired"}]

\* Those that a bridge makes: the handles are of the bridge's environment, the value handle is
\* there unless the request unmounts, and the state of the root handle is what the request
\* leaves.
MirrorRecords ==
  {r \in SomeRecords :
     /\ r.environmentId > 0 /\ r.requestId > 0 /\ r.rootId > 0 /\ r.rootHandle.slot > 0
     /\ r.rootHandle = Handoff!Handle(r.environmentId, r.rootHandle.slot, "root")
     /\ r.rootHandleState = Handoff!ExpectedRootHandleState(r)
     /\ IF r.kind = "unmount" THEN r.valueHandle = Handoff!NoHandle
        ELSE /\ r.valueHandle = Handoff!Handle(r.environmentId, r.valueHandle.slot, "value")
             /\ r.valueHandle.slot > 0}

\* What two records of the bridges may have in common: a handle stands for one root, and
\* the value handle of a request is not that of another request and not that of a root.
Consistent(r, s) ==
  /\ r.rootHandle = s.rootHandle => r.rootId = s.rootId
  /\ r.environmentId = s.environmentId /\ r.kind # "unmount" =>
       /\ r.valueHandle.slot # s.rootHandle.slot
       /\ s.kind # "unmount" /\ r.requestId # s.requestId =>
            r.valueHandle.slot # s.valueHandle.slot

\* The record continues the batch.
Continues(b, r) ==
  IF b = <<>> THEN r.kind = "create"
  ELSE /\ b[Len(b)].kind # "unmount" /\ r.kind # "create"
       /\ r.rootHandle = b[1].rootHandle
       /\ r.requestId > b[Len(b)].requestId

\* The last record of the batch ends its root.
Ended(b) == b[Len(b)].kind = "unmount"

\* The records of the batch that have a value, and the slots of the handles of the batch.
Valued(b) == {i \in 1 .. Len(b) : b[i].kind # "unmount"}
HandleSlots(b) == {b[1].rootHandle.slot} \cup {b[j].valueHandle.slot : j \in Valued(b)}

\* What the gate and the executor know after a batch that is a lifecycle.
ShapeTells(s, b) ==
  s = IF b = <<>> THEN Handoff!NewShape
      ELSE [ok |-> TRUE, lastRequestId |-> b[Len(b)].requestId,
            rootHandle |-> b[1].rootHandle, rootId |-> b[1].rootId, rootRetired |-> Ended(b)]

RowsTell(s, b) ==
  s = IF b = <<>> THEN Handoff!NewRows
      ELSE [ok |-> TRUE, lastRequestId |-> b[Len(b)].requestId,
            lifecycle |-> IF Ended(b) THEN "retired" ELSE "active",
            rootHandle |-> b[1].rootHandle, rootId |-> b[1].rootId]

TableRow(b, i) ==
  IF i # b[1].rootHandle.slot
  THEN [state |-> "occupied", generation |-> 1, kind |-> "value", rootId |-> 0]
  ELSE [state |-> IF Ended(b) THEN "vacant" ELSE "occupied",
        generation |-> IF Ended(b) THEN 2 ELSE 1, kind |-> "root", rootId |-> b[1].rootId]

GateTable(e, f) == [ok |-> TRUE, environmentId |-> e, slots |-> f]

TableTells(t, b) ==
  t = IF b = <<>> THEN Handoff!NewTable
      ELSE GateTable(b[1].environmentId, [i \in HandleSlots(b) |-> TableRow(b, i)])

\* The slots of the executor's table: the batch's, and vacant ones that were never used.
TableSlots ==
  [occupied : BOOLEAN, generation : Nat, kind : {"root", "value", "none"}, id : Nat,
   disposed : BOOLEAN]

SlotsTell(slots, b) ==
  /\ slots \in Seq(TableSlots)
  /\ HandleSlots(b) \subseteq 1 .. Len(slots)
  /\ slots[b[1].rootHandle.slot] =
       IF Ended(b) THEN Handoff!Vacant(2) ELSE Handoff!Entry(1, "root", b[1].rootId)
  /\ \A j \in Valued(b) :
       slots[b[j].valueHandle.slot] = Handoff!Entry(1, "value", b[j].requestId)
  /\ \A i \in 1 .. Len(slots) : i \notin HandleSlots(b) => slots[i] = Handoff!Vacant(1)

RustTells(s, b) ==
  /\ DOMAIN s = {"ok", "environmentId", "slots", "lastRequestId", "rootHandle", "rootId",
                 "rootState", "consumed"}
  /\ s.ok = TRUE
  /\ IF b = <<>>
     THEN /\ s.environmentId = 0 /\ s.slots = <<>> /\ s.lastRequestId = 0
          /\ s.rootHandle = Handoff!NoHandle /\ s.rootId = 0 /\ s.rootState = "none"
          /\ s.consumed = {}
     ELSE /\ s.environmentId = b[1].environmentId /\ SlotsTell(s.slots, b)
          /\ s.lastRequestId = b[Len(b)].requestId
          /\ s.rootHandle = b[1].rootHandle /\ s.rootId = b[1].rootId
          /\ s.rootState = IF Ended(b) THEN "retired" ELSE "active"
          /\ s.consumed = {b[j].valueHandle : j \in Valued(b)}

\* A pass that can stop.
HasOk(s) == "ok" \in DOMAIN s /\ s.ok \in BOOLEAN

\* A batch is a lifecycle as long as each of its records continues those before it.
LEMMA LifecycleGrows ==
  ASSUME NEW b \in Seq(MirrorRecords), NEW r \in MirrorRecords
  PROVE  Handoff!IsLifecycle(Append(b, r)) <=> Handoff!IsLifecycle(b) /\ Continues(b, r)
<1> DEFINE c == Append(b, r)
           n == Len(b)
<1>1. /\ n \in Nat /\ DOMAIN b = 1 .. n /\ DOMAIN c = 1 .. n + 1 /\ Len(c) = n + 1
      /\ c[n + 1] = r /\ \A i \in 1 .. n : c[i] = b[i]
      /\ c \in Seq(MirrorRecords)
  BY AppendProperties, LenProperties
<1>2. b = <<>> <=> n = 0
  BY EmptySeq
<1>3. \A i \in 1 .. n : b[i] \in MirrorRecords /\ b[i].requestId \in Nat
  BY ElementOfSeq, <1>1 DEF MirrorRecords, SomeRecords
<1>4. r.requestId \in Nat
  BY DEF MirrorRecords, SomeRecords
<1> HIDE DEF c, n
<1>5. ASSUME Handoff!IsLifecycle(c) PROVE Handoff!IsLifecycle(b) /\ Continues(b, r)
  <2>1. \A i \in 1 .. n + 1 :
          /\ c[i].rootHandle = c[1].rootHandle
          /\ (i = 1) = (c[i].kind = "create")
          /\ c[i].kind = "unmount" => i = n + 1
    BY <1>1, <1>5 DEF Handoff!IsLifecycle
  <2>2. \A i, j \in 1 .. n + 1 : i < j => c[i].requestId < c[j].requestId
    BY <1>1, <1>5 DEF Handoff!IsLifecycle
  <2>3. Handoff!IsLifecycle(b)
    <3>1. \A i \in 1 .. n :
            /\ b[i].rootHandle = b[1].rootHandle
            /\ (i = 1) = (b[i].kind = "create")
            /\ b[i].kind # "unmount"
      BY <1>1, <2>1
    <3>2. \A i, j \in 1 .. n : i < j => b[i].requestId < b[j].requestId
      BY <1>1, <2>2
    <3> QED
      BY <1>1, <3>1, <3>2 DEF Handoff!IsLifecycle
  <2>4. CASE n = 0
    BY <1>1, <1>2, <2>1, <2>3, <2>4 DEF Continues
  <2>5. CASE n # 0
    <3>1. n \in 1 .. n + 1 /\ n + 1 \in 1 .. n + 1 /\ 1 \in 1 .. n + 1 /\ 1 \in 1 .. n /\ n \in 1 .. n
      BY <1>1, <2>5
    <3>2. c[n] = b[n] /\ c[1] = b[1]
      BY <1>1, <3>1
    <3>3. b[n].requestId < r.requestId
      BY <1>1, <2>2, <3>1, <3>2
    <3>4. r.rootHandle = b[1].rootHandle /\ r.kind # "create" /\ b[n].kind # "unmount"
      BY <1>1, <2>1, <2>5, <3>1, <3>2
    <3>5. b[n].requestId \in Nat
      BY <1>3, <3>1
    <3> QED
      BY <1>2, <1>4, <2>3, <2>5, <3>3, <3>4, <3>5 DEF Continues, n
  <2> QED
    BY <2>3, <2>4, <2>5, <1>1
<1>6. ASSUME Handoff!IsLifecycle(b), Continues(b, r) PROVE Handoff!IsLifecycle(c)
  <2>1. \A i \in 1 .. n :
          /\ b[i].rootHandle = b[1].rootHandle
          /\ (i = 1) = (b[i].kind = "create")
          /\ b[i].kind = "unmount" => i = n
    BY <1>1, <1>6 DEF Handoff!IsLifecycle, n
  <2>2. \A i, j \in 1 .. n : i < j => b[i].requestId < b[j].requestId
    BY <1>1, <1>6 DEF Handoff!IsLifecycle
  <2>3. CASE n = 0
    BY <1>1, <1>2, <1>6, <2>3 DEF Continues, Handoff!IsLifecycle
  <2>4. CASE n # 0
    <3>1. /\ b[n].kind # "unmount" /\ r.kind # "create"
          /\ r.rootHandle = b[1].rootHandle
          /\ r.requestId > b[n].requestId
      BY <1>2, <1>6, <2>4 DEF Continues, n
    <3>2. \A i \in 1 .. n : b[i].kind # "unmount"
      BY <2>1, <3>1
    <3>3. \A i \in 1 .. n : b[i].requestId < r.requestId
      <4> SUFFICES ASSUME NEW i \in 1 .. n PROVE b[i].requestId < r.requestId
        OBVIOUS
      <4>1. n \in 1 .. n
        BY <1>1, <2>4
      <4>2. i = n \/ b[i].requestId < b[n].requestId
        BY <2>2, <1>1, <4>1
      <4> QED
        BY <1>3, <1>4, <3>1, <4>1, <4>2
    <3>4. c[1] = b[1]
      BY <1>1, <2>4
    <3>5. \A i \in 1 .. n + 1 :
            /\ c[i].rootHandle = c[1].rootHandle
            /\ (i = 1) = (c[i].kind = "create")
            /\ c[i].kind = "unmount" => i = n + 1
      <4> SUFFICES ASSUME NEW i \in 1 .. n + 1
                   PROVE  /\ c[i].rootHandle = c[1].rootHandle
                          /\ (i = 1) = (c[i].kind = "create")
                          /\ c[i].kind = "unmount" => i = n + 1
        OBVIOUS
      <4>1. CASE i \in 1 .. n
        BY <1>1, <2>1, <3>2, <3>4, <4>1
      <4>2. CASE i = n + 1
        BY <1>1, <2>4, <3>1, <3>4, <4>2
      <4> QED
        BY <4>1, <4>2, <1>1
    <3>6. \A i, j \in 1 .. n + 1 : i < j => c[i].requestId < c[j].requestId
      BY <1>1, <2>2, <3>3
    <3> QED
      BY <1>1, <3>5, <3>6 DEF Handoff!IsLifecycle
  <2> QED
    BY <2>3, <2>4
<1> QED
  BY <1>5, <1>6 DEF c


\* The handles of a record.
LEMMA MirrorHandles ==
  ASSUME NEW r \in MirrorRecords
  PROVE  /\ r.environmentId \in Nat \ {0} /\ r.requestId \in Nat \ {0} /\ r.rootId \in Nat \ {0}
         /\ r.kind \in {"create", "render", "unmount"}
         /\ r.rootHandle \in SomeHandles /\ r.valueHandle \in SomeHandles
         /\ r.rootHandle # Handoff!NoHandle
         /\ r.rootHandle.environmentId = r.environmentId
         /\ r.rootHandle.slot \in Nat \ {0}
         /\ r.rootHandle.generation = 1 /\ r.rootHandle.kind = "root"
         /\ r.rootHandleState = IF r.kind = "unmount" THEN "retired" ELSE "active"
         /\ r.kind = "unmount" <=> r.valueHandle = Handoff!NoHandle
         /\ r.kind # "unmount" =>
              /\ r.valueHandle.environmentId = r.environmentId
              /\ r.valueHandle.slot \in Nat \ {0}
              /\ r.valueHandle.generation = 1 /\ r.valueHandle.kind = "value"
<1>1. /\ r \in SomeRecords
      /\ r.environmentId > 0 /\ r.requestId > 0 /\ r.rootId > 0 /\ r.rootHandle.slot > 0
      /\ r.rootHandle = Handoff!Handle(r.environmentId, r.rootHandle.slot, "root")
      /\ r.rootHandleState = Handoff!ExpectedRootHandleState(r)
      /\ IF r.kind = "unmount" THEN r.valueHandle = Handoff!NoHandle
         ELSE /\ r.valueHandle = Handoff!Handle(r.environmentId, r.valueHandle.slot, "value")
              /\ r.valueHandle.slot > 0
  BY DEF MirrorRecords
<1>2. /\ r.environmentId \in Nat /\ r.requestId \in Nat /\ r.rootId \in Nat
      /\ r.rootHandle \in SomeHandles /\ r.valueHandle \in SomeHandles
      /\ r.kind \in {"create", "render", "unmount"}
  BY <1>1 DEF SomeRecords
<1>3. r.rootHandle.slot \in Nat /\ r.valueHandle.slot \in Nat
  BY <1>2 DEF SomeHandles
<1>4. /\ r.rootHandle.environmentId = r.environmentId
      /\ r.rootHandle.generation = 1 /\ r.rootHandle.kind = "root"
  BY <1>1 DEF Handoff!Handle
<1>5. r.rootHandle # Handoff!NoHandle
  BY <1>1, <1>2, <1>4 DEF Handoff!NoHandle
<1>6. ASSUME r.kind # "unmount"
      PROVE  /\ r.valueHandle.environmentId = r.environmentId
             /\ r.valueHandle.slot \in Nat \ {0}
             /\ r.valueHandle.generation = 1 /\ r.valueHandle.kind = "value"
             /\ r.valueHandle # Handoff!NoHandle
  BY <1>1, <1>2, <1>3, <1>6 DEF Handoff!Handle, Handoff!NoHandle
<1>7. r.rootHandleState = IF r.kind = "unmount" THEN "retired" ELSE "active"
  BY <1>1 DEF Handoff!ExpectedRootHandleState
<1> QED
  BY <1>1, <1>2, <1>3, <1>4, <1>5, <1>6, <1>7

\* What a lifecycle that is not empty looks like.
LEMMA LifecycleFacts ==
  ASSUME NEW b \in Seq(MirrorRecords), b # <<>>, Handoff!IsLifecycle(b)
  PROVE  /\ Len(b) \in Nat \ {0} /\ b[1] \in MirrorRecords /\ b[Len(b)] \in MirrorRecords
         /\ b[1].kind = "create"
         /\ \A i \in 1 .. Len(b) :
              /\ b[i] \in MirrorRecords
              /\ b[i].rootHandle = b[1].rootHandle
              /\ b[i].environmentId = b[1].environmentId
              /\ b[i].requestId <= b[Len(b)].requestId
              /\ b[i].kind = "unmount" => i = Len(b)
<1>1. Len(b) \in Nat \ {0} /\ DOMAIN b = 1 .. Len(b)
  BY EmptySeq, LenProperties
<1>2. \A i \in 1 .. Len(b) : b[i] \in MirrorRecords
  BY <1>1, ElementOfSeq
<1>3. \A i \in 1 .. Len(b) :
        /\ b[i].rootHandle = b[1].rootHandle
        /\ (i = 1) = (b[i].kind = "create")
        /\ b[i].kind = "unmount" => i = Len(b)
  BY <1>1 DEF Handoff!IsLifecycle
<1>4. \A i, j \in 1 .. Len(b) : i < j => b[i].requestId < b[j].requestId
  BY <1>1 DEF Handoff!IsLifecycle
<1>5. 1 \in 1 .. Len(b) /\ Len(b) \in 1 .. Len(b)
  BY <1>1
<1>6. \A i \in 1 .. Len(b) : b[i].environmentId = b[1].environmentId
  BY <1>2, <1>3, <1>5, MirrorHandles
<1>7. \A i \in 1 .. Len(b) : b[i].requestId <= b[Len(b)].requestId
  <2> SUFFICES ASSUME NEW i \in 1 .. Len(b) PROVE b[i].requestId <= b[Len(b)].requestId
    OBVIOUS
  <2>1. b[i].requestId \in Nat /\ b[Len(b)].requestId \in Nat
    BY <1>2, <1>5, MirrorHandles
  <2>2. \A m \in Nat : \A k \in 1 .. m : k = m \/ k < m
    OBVIOUS
  <2>3. i = Len(b) \/ i < Len(b)
    BY <1>1, <2>2
  <2> QED
    BY <1>4, <1>5, <2>1, <2>3
<1> QED
  BY <1>1, <1>2, <1>3, <1>5, <1>6, <1>7

\* A batch and the record after it: the parts of the longer batch.
LEMMA LongerBatch ==
  ASSUME NEW b \in Seq(MirrorRecords), NEW r \in MirrorRecords
  PROVE  /\ Append(b, r) # <<>> /\ Append(b, r) \in Seq(MirrorRecords)
         /\ Len(b) \in Nat /\ Len(Append(b, r)) = Len(b) + 1
         /\ Append(b, r)[Len(b) + 1] = r
         /\ \A i \in 1 .. Len(b) : Append(b, r)[i] = b[i]
         /\ Append(b, r)[1] = IF b = <<>> THEN r ELSE b[1]
         /\ Ended(Append(b, r)) <=> r.kind = "unmount"
<1>1. /\ Append(b, r) # <<>> /\ Append(b, r) \in Seq(MirrorRecords)
      /\ Len(b) \in Nat /\ Len(Append(b, r)) = Len(b) + 1
      /\ Append(b, r)[Len(b) + 1] = r
      /\ \A i \in 1 .. Len(b) : Append(b, r)[i] = b[i]
  BY AppendProperties, LenProperties
<1>2. b = <<>> <=> Len(b) = 0
  BY EmptySeq
<1>3. Append(b, r)[1] = IF b = <<>> THEN r ELSE b[1]
  <2>1. CASE Len(b) = 0
    BY <1>1, <1>2, <2>1
  <2>2. CASE Len(b) # 0
    <3>1. 1 \in 1 .. Len(b)
      BY <1>1, <2>2
    <3> QED
      BY <1>1, <1>2, <2>2, <3>1
  <2> QED
    BY <2>1, <2>2
<1>4. Append(b, r)[Len(Append(b, r))] = r
  BY <1>1
<1> QED
  BY <1>1, <1>3, <1>4 DEF Ended

\* The pass over the request shapes stops where the batch stops being a lifecycle.
LEMMA ShapeFollows ==
  ASSUME NEW b \in Seq(MirrorRecords), NEW r \in MirrorRecords, NEW s, HasOk(s),
         \A i \in 1 .. Len(b) : Consistent(r, b[i]),
         s.ok <=> Handoff!IsLifecycle(b),
         Handoff!IsLifecycle(b) => ShapeTells(s, b)
  PROVE  /\ HasOk(Handoff!ShapeStep(s, r))
         /\ Handoff!ShapeStep(s, r).ok <=> Handoff!IsLifecycle(Append(b, r))
         /\ Handoff!IsLifecycle(Append(b, r)) =>
              ShapeTells(Handoff!ShapeStep(s, r), Append(b, r))
<1> DEFINE t == Handoff!ShapeStep(s, r)
           c == Append(b, r)
<1>0. /\ c # <<>> /\ c[Len(c)] = r /\ c[1] = IF b = <<>> THEN r ELSE b[1]
      /\ Ended(c) = (r.kind = "unmount")
  BY LongerBatch DEF Ended
<1> HIDE DEF t, c
<1> SUFFICES HasOk(t) /\ (t.ok <=> Handoff!IsLifecycle(c))
             /\ (Handoff!IsLifecycle(c) => ShapeTells(t, c))
  BY DEF t, c
<1>1. Handoff!IsLifecycle(c) <=> Handoff!IsLifecycle(b) /\ Continues(b, r)
  BY LifecycleGrows DEF c
<1>2. CASE ~ Handoff!IsLifecycle(b)
  <2>1. t = [s EXCEPT !.ok = FALSE]
    BY <1>2 DEF Handoff!ShapeStep, t
  <2> QED
    BY <1>1, <1>2, <2>1 DEF HasOk
<1>3. CASE Handoff!IsLifecycle(b)
  <2>1. s.ok = TRUE /\ ShapeTells(s, b)
    BY <1>3 DEF HasOk
  <2>2. Handoff!ShapeAccepts(s, r) <=> Continues(b, r)
    <3>1. CASE b = <<>>
      <4>1. s = Handoff!NewShape
        BY <2>1, <3>1 DEF ShapeTells
      <4> QED
        BY <3>1, <4>1, MirrorHandles
        DEF Handoff!ShapeAccepts, Handoff!NewShape, Handoff!Ordered,
            Handoff!ExpectedRootHandleState, Continues, Handoff!None
    <3>2. CASE b # <<>>
      <4>1. /\ s.lastRequestId = b[Len(b)].requestId /\ s.rootHandle = b[1].rootHandle
            /\ s.rootId = b[1].rootId /\ s.rootRetired = (b[Len(b)].kind = "unmount")
        BY <2>1, <3>2 DEF ShapeTells, Ended
      <4>2. Len(b) \in Nat \ {0} /\ b[1] \in MirrorRecords /\ b[Len(b)] \in MirrorRecords
        BY <1>3, <3>2, LifecycleFacts
      <4>3. b[1].rootHandle # Handoff!NoHandle /\ b[Len(b)].requestId \in Nat \ {0}
        BY <4>2, MirrorHandles
      <4>4. r.rootHandle = b[1].rootHandle => r.rootId = b[1].rootId
        BY <4>2 DEF Consistent
      <4>5. Handoff!ShapeAccepts(s, r) <=>
              /\ r.requestId > b[Len(b)].requestId /\ b[Len(b)].kind # "unmount"
              /\ r.kind # "create" /\ r.rootHandle = b[1].rootHandle /\ r.rootId = b[1].rootId
        <5>1. Handoff!Ordered(s.lastRequestId, r) <=> r.requestId > b[Len(b)].requestId
          BY <4>1, <4>3 DEF Handoff!Ordered, Handoff!None
        <5>2. r.rootHandleState = Handoff!ExpectedRootHandleState(r)
          BY MirrorHandles DEF Handoff!ExpectedRootHandleState
        <5>3. s.rootHandle # Handoff!NoHandle
          BY <4>1, <4>3
        <5>4. /\ r.kind \in {"create", "render", "unmount"}
              /\ r.rootHandle.environmentId = r.environmentId
              /\ r.rootHandle.kind = "root"
              /\ r.valueHandle # Handoff!NoHandle =>
                   r.valueHandle.environmentId = r.environmentId /\ r.valueHandle.kind = "value"
              /\ r.kind = "unmount" => r.valueHandle = Handoff!NoHandle
          BY MirrorHandles
        <5> QED
          BY <4>1, <5>1, <5>2, <5>3, <5>4 DEF Handoff!ShapeAccepts
      <4> QED
        BY <3>2, <4>4, <4>5 DEF Continues
    <3> QED
      BY <3>1, <3>2
  <2>3. CASE ~ Continues(b, r)
    <3>1. t = [s EXCEPT !.ok = FALSE]
      BY <2>2, <2>3 DEF Handoff!ShapeStep, t
    <3> QED
      BY <1>1, <2>3, <3>1 DEF HasOk
  <2>4. CASE Continues(b, r)
    <3>1. t = [ok |-> TRUE, lastRequestId |-> r.requestId,
               rootHandle |-> IF s.rootHandle = Handoff!NoHandle THEN r.rootHandle ELSE s.rootHandle,
               rootId |-> IF s.rootHandle = Handoff!NoHandle THEN r.rootId ELSE s.rootId,
               rootRetired |-> r.kind = "unmount"]
      BY <2>1, <2>2, <2>4 DEF Handoff!ShapeStep, t
    <3>5. Handoff!IsLifecycle(c)
      BY <1>1, <1>3, <2>4
    <3>2. CASE b = <<>>
      <4>1. s.rootHandle = Handoff!NoHandle
        BY <2>1, <3>2 DEF ShapeTells, Handoff!NewShape
      <4> QED
        BY <3>1, <3>2, <1>0, <3>5, <4>1 DEF ShapeTells, HasOk
    <3>3. CASE b # <<>>
      <4>1. s.rootHandle = b[1].rootHandle /\ s.rootId = b[1].rootId
        BY <2>1, <3>3 DEF ShapeTells
      <4>2. s.rootHandle # Handoff!NoHandle
        BY <1>3, <3>3, <4>1, LifecycleFacts, MirrorHandles
      <4> QED
        BY <3>1, <3>3, <1>0, <3>5, <4>1, <4>2 DEF ShapeTells, HasOk
    <3> QED
      BY <3>2, <3>3
  <2> QED
    BY <2>3, <2>4
<1> QED
  BY <1>2, <1>3

\* The pass for the lifecycle rows stops at the same record.
LEMMA RowsFollow ==
  ASSUME NEW b \in Seq(MirrorRecords), NEW r \in MirrorRecords, NEW s, HasOk(s),
         \A i \in 1 .. Len(b) : Consistent(r, b[i]),
         s.ok <=> Handoff!IsLifecycle(b),
         Handoff!IsLifecycle(b) => RowsTell(s, b)
  PROVE  /\ HasOk(Handoff!RowStep(s, r))
         /\ Handoff!RowStep(s, r).ok <=> Handoff!IsLifecycle(Append(b, r))
         /\ Handoff!IsLifecycle(Append(b, r)) =>
              RowsTell(Handoff!RowStep(s, r), Append(b, r))
<1> DEFINE t == Handoff!RowStep(s, r)
           c == Append(b, r)
<1>0. /\ c # <<>> /\ c[Len(c)] = r /\ c[1] = IF b = <<>> THEN r ELSE b[1]
      /\ Ended(c) = (r.kind = "unmount")
  BY LongerBatch DEF Ended
<1> HIDE DEF t, c
<1> SUFFICES HasOk(t) /\ (t.ok <=> Handoff!IsLifecycle(c))
             /\ (Handoff!IsLifecycle(c) => RowsTell(t, c))
  BY DEF t, c
<1>1. Handoff!IsLifecycle(c) <=> Handoff!IsLifecycle(b) /\ Continues(b, r)
  BY LifecycleGrows DEF c
<1>2. CASE ~ Handoff!IsLifecycle(b)
  <2>1. t = [s EXCEPT !.ok = FALSE]
    BY <1>2 DEF Handoff!RowStep, t
  <2> QED
    BY <1>1, <1>2, <2>1 DEF HasOk
<1>3. CASE Handoff!IsLifecycle(b)
  <2>1. s.ok = TRUE /\ RowsTell(s, b)
    BY <1>3 DEF HasOk
  <2>5. r.rootHandleState = Handoff!ExpectedRootHandleState(r)
    BY MirrorHandles DEF Handoff!ExpectedRootHandleState
  <2>6. /\ r.kind \in {"create", "render", "unmount"}
        /\ r.kind = "unmount" => r.valueHandle = Handoff!NoHandle
    BY MirrorHandles
  <2>2. Handoff!RowAccepted(s, r) <=> Continues(b, r)
    <3>1. CASE b = <<>>
      <4>1. s = Handoff!NewRows
        BY <2>1, <3>1 DEF RowsTell
      <4> QED
        BY <2>5, <2>6, <3>1, <4>1
        DEF Handoff!RowAccepted, Handoff!NewRows, Continues, Handoff!None
    <3>2. CASE b # <<>>
      <4>1. /\ s.lastRequestId = b[Len(b)].requestId /\ s.rootHandle = b[1].rootHandle
            /\ s.rootId = b[1].rootId
            /\ s.lifecycle = IF b[Len(b)].kind = "unmount" THEN "retired" ELSE "active"
        BY <2>1, <3>2 DEF RowsTell, Ended
      <4>2. Len(b) \in Nat \ {0} /\ b[1] \in MirrorRecords /\ b[Len(b)] \in MirrorRecords
        BY <1>3, <3>2, LifecycleFacts
      <4>3. /\ b[1].rootHandle # Handoff!NoHandle /\ b[Len(b)].requestId \in Nat \ {0}
            /\ b[1].rootId \in Nat \ {0}
        BY <4>2, MirrorHandles
      <4>4. r.rootHandle = b[1].rootHandle => r.rootId = b[1].rootId
        BY <4>2 DEF Consistent
      <4>5. Handoff!RowAccepted(s, r) <=>
              /\ r.requestId > b[Len(b)].requestId /\ b[Len(b)].kind # "unmount"
              /\ r.kind # "create" /\ r.rootHandle = b[1].rootHandle /\ r.rootId = b[1].rootId
        <5>1. s.lastRequestId # Handoff!None /\ s.rootHandle # Handoff!NoHandle
              /\ s.rootId # Handoff!None
          BY <4>1, <4>3 DEF Handoff!None
        <5> QED
          BY <2>5, <2>6, <4>1, <5>1 DEF Handoff!RowAccepted
      <4> QED
        BY <3>2, <4>4, <4>5 DEF Continues
    <3> QED
      BY <3>1, <3>2
  <2>3. CASE ~ Continues(b, r)
    <3>1. t = [s EXCEPT !.ok = FALSE]
      BY <2>2, <2>3 DEF Handoff!RowStep, t
    <3> QED
      BY <1>1, <2>3, <3>1 DEF HasOk
  <2>4. CASE Continues(b, r)
    <3>1. t = [ok |-> TRUE, lastRequestId |-> r.requestId,
               lifecycle |-> IF r.kind = "unmount" THEN "retired" ELSE "active",
               rootHandle |-> IF s.rootHandle = Handoff!NoHandle THEN r.rootHandle ELSE s.rootHandle,
               rootId |-> IF s.rootHandle = Handoff!NoHandle THEN r.rootId ELSE s.rootId]
      BY <2>1, <2>2, <2>4 DEF Handoff!RowStep, t
    <3>2. Handoff!IsLifecycle(c)
      BY <1>1, <1>3, <2>4
    <3>3. CASE b = <<>>
      <4>1. s.rootHandle = Handoff!NoHandle
        BY <2>1, <3>3 DEF RowsTell, Handoff!NewRows
      <4> QED
        BY <1>0, <3>1, <3>2, <3>3, <4>1 DEF RowsTell, HasOk
    <3>4. CASE b # <<>>
      <4>1. s.rootHandle = b[1].rootHandle /\ s.rootId = b[1].rootId
        BY <2>1, <3>4 DEF RowsTell
      <4>2. s.rootHandle # Handoff!NoHandle
        BY <1>3, <3>4, <4>1, LifecycleFacts, MirrorHandles
      <4> QED
        BY <1>0, <3>1, <3>2, <3>4, <4>1, <4>2 DEF RowsTell, HasOk
    <3> QED
      BY <3>3, <3>4
  <2> QED
    BY <2>3, <2>4
<1> QED
  BY <1>2, <1>3

\* The slots of a batch that a record continues: a value takes one that is not among them,
\* an unmount takes none.
LEMMA SlotsGrow ==
  ASSUME NEW b \in Seq(MirrorRecords), NEW r \in MirrorRecords, b # <<>>,
         \A i \in 1 .. Len(b) : Consistent(r, b[i]),
         Handoff!IsLifecycle(b), Continues(b, r)
  PROVE  /\ r.environmentId = b[1].environmentId /\ r.rootId = b[1].rootId
         /\ ~ Ended(b)
         /\ r.kind # "unmount" =>
              /\ r.valueHandle.slot \notin HandleSlots(b)
              /\ r.valueHandle \notin {b[j].valueHandle : j \in Valued(b)}
              /\ HandleSlots(Append(b, r)) = HandleSlots(b) \cup {r.valueHandle.slot}
              /\ Valued(Append(b, r)) = Valued(b) \cup {Len(b) + 1}
         /\ r.kind = "unmount" =>
              /\ HandleSlots(Append(b, r)) = HandleSlots(b)
              /\ Valued(Append(b, r)) = Valued(b)
<1> DEFINE c == Append(b, r)
           n == Len(b)
<1>1. /\ n \in Nat /\ Len(c) = n + 1 /\ c[n + 1] = r /\ c[1] = b[1]
      /\ \A i \in 1 .. n : c[i] = b[i]
  BY LongerBatch
<1>2. /\ n \in Nat \ {0} /\ b[1] \in MirrorRecords /\ b[n] \in MirrorRecords
      /\ \A i \in 1 .. n :
           /\ b[i] \in MirrorRecords
           /\ b[i].rootHandle = b[1].rootHandle
           /\ b[i].environmentId = b[1].environmentId
           /\ b[i].requestId <= b[n].requestId
  BY LifecycleFacts
<1>3. /\ b[n].kind # "unmount" /\ r.rootHandle = b[1].rootHandle /\ r.requestId > b[n].requestId
  BY DEF Continues
<1>4. 1 \in 1 .. n
  BY <1>2
<1>5. r.environmentId = b[1].environmentId
  BY <1>2, <1>3, MirrorHandles
<1>6. r.rootId = b[1].rootId
  BY <1>3, <1>4 DEF Consistent
<1>7. Valued(c) = IF r.kind = "unmount" THEN Valued(b) ELSE Valued(b) \cup {n + 1}
  <2>1. \A i : i \in Valued(c) <=> i \in 1 .. n + 1 /\ c[i].kind # "unmount"
    BY <1>1 DEF Valued
  <2>2. \A i : i \in Valued(b) <=> i \in 1 .. n /\ b[i].kind # "unmount"
    BY DEF Valued
  <2>3. \A i \in 1 .. n + 1 : i \in 1 .. n \/ i = n + 1
    BY <1>1
  <2>4. n + 1 \notin 1 .. n /\ n + 1 \in 1 .. n + 1 /\ 1 .. n \subseteq 1 .. n + 1
    BY <1>1
  <2> HIDE DEF c, n
  <2>5. \A i : i \in Valued(c) <=> i \in Valued(b) \/ (i = n + 1 /\ r.kind # "unmount")
    BY <1>1, <2>1, <2>2, <2>3, <2>4
  <2>6. CASE r.kind = "unmount"
    BY <2>5, <2>6
  <2>7. CASE r.kind # "unmount"
    BY <2>5, <2>7
  <2> QED
    BY <2>6, <2>7
<1>8. ASSUME r.kind # "unmount", NEW j \in Valued(b)
      PROVE  r.valueHandle.slot # b[j].valueHandle.slot
  <2>1. j \in 1 .. n /\ b[j].kind # "unmount"
    BY <1>8 DEF Valued
  <2>2. b[j].requestId # r.requestId
    <3>1. b[j].requestId \in Nat /\ b[n].requestId \in Nat /\ r.requestId \in Nat
      BY <1>2, <2>1, MirrorHandles
    <3>2. b[j].requestId <= b[n].requestId
      BY <1>2, <2>1
    <3> QED
      BY <1>3, <3>1, <3>2
  <2>3. b[j].environmentId = r.environmentId
    BY <1>2, <1>5, <2>1
  <2> QED
    BY <1>8, <2>1, <2>2, <2>3 DEF Consistent
<1>9. r.kind # "unmount" => r.valueHandle.slot # b[1].rootHandle.slot
  BY <1>4, <1>5 DEF Consistent
<1>10. HandleSlots(c) = IF r.kind = "unmount" THEN HandleSlots(b)
                        ELSE HandleSlots(b) \cup {r.valueHandle.slot}
  <2>1. \A j \in Valued(b) : j \in 1 .. n /\ c[j] = b[j]
    BY <1>1 DEF Valued
  <2> HIDE DEF c, n
  <2>2. {c[j].valueHandle.slot : j \in Valued(b)} = {b[j].valueHandle.slot : j \in Valued(b)}
    BY <2>1
  <2>3. CASE r.kind = "unmount"
    BY <1>1, <1>7, <2>2, <2>3 DEF HandleSlots
  <2>4. CASE r.kind # "unmount"
    <3>1. {c[j].valueHandle.slot : j \in Valued(c)} =
            {c[j].valueHandle.slot : j \in Valued(b)} \cup {r.valueHandle.slot}
      BY <1>1, <1>7, <2>4
    <3> QED
      BY <1>1, <2>2, <2>4, <3>1 DEF HandleSlots
  <2> QED
    BY <2>3, <2>4
<1>11. ~ Ended(b)
  BY <1>3 DEF Ended
<1>12. r.kind # "unmount" => r.valueHandle.slot \notin HandleSlots(b)
  BY <1>8, <1>9 DEF HandleSlots
<1>13. r.kind # "unmount" => r.valueHandle \notin {b[j].valueHandle : j \in Valued(b)}
  BY <1>8
<1> QED
  BY <1>5, <1>6, <1>7, <1>10, <1>11, <1>12, <1>13

\* The slots of a batch of one record.
LEMMA SlotsStart ==
  ASSUME NEW r \in MirrorRecords, r.kind = "create"
  PROVE  /\ HandleSlots(<<r>>) = {r.rootHandle.slot, r.valueHandle.slot}
         /\ Valued(<<r>>) = {1}
<1>1. Len(<<r>>) = 1 /\ <<r>>[1] = r
  OBVIOUS
<1>2. Valued(<<r>>) = {1}
  <2>1. \A i : i \in Valued(<<r>>) <=> i \in 1 .. 1 /\ <<r>>[i].kind # "unmount"
    BY <1>1 DEF Valued
  <2>2. \A i : i \in 1 .. 1 <=> i = 1
    OBVIOUS
  <2> QED
    BY <1>1, <2>1, <2>2
<1>3. HandleSlots(<<r>>) = {r.rootHandle.slot, r.valueHandle.slot}
  BY <1>1, <1>2 DEF HandleSlots
<1> QED
  BY <1>2, <1>3

\* A row of the gate's table for a handle it admits, and the rows with one more.
OccupiedRow(kind, id) ==
  [state |-> "occupied", generation |-> 1, kind |-> kind, rootId |-> id]
WithRow(f, slot, row) ==
  [i \in DOMAIN f \cup {slot} |-> IF i = slot THEN row ELSE f[i]]

\* A gate's table is its three fields.
LEMMA GateTableFields ==
  ASSUME NEW g, g = [i \in DOMAIN g |-> g[i]], DOMAIN g = {"ok", "environmentId", "slots"},
         g.ok = TRUE
  PROVE  g = GateTable(g.environmentId, g.slots)
BY DEF GateTable

\* Writing a field of a gate's table.
LEMMA GateTableUpdates ==
  ASSUME NEW t, NEW e, NEW f, t = GateTable(e, f), NEW x
  PROVE  /\ [t EXCEPT !.slots = x] = GateTable(e, x)
         /\ [t EXCEPT !.environmentId = x] = GateTable(x, f)
<1>1. PICK g : g = [t EXCEPT !.slots = x]
  OBVIOUS
<1>2. g = [i \in DOMAIN g |-> g[i]]
  BY <1>1
<1>3. /\ DOMAIN g = {"ok", "environmentId", "slots"}
      /\ g.ok = TRUE /\ g.environmentId = e /\ g.slots = x
  BY <1>1 DEF GateTable
<1>4. g = GateTable(e, x)
  BY <1>2, <1>3, GateTableFields
<1>5. PICK k : k = [t EXCEPT !.environmentId = x]
  OBVIOUS
<1>6. k = [i \in DOMAIN k |-> k[i]]
  BY <1>5
<1>7. /\ DOMAIN k = {"ok", "environmentId", "slots"}
      /\ k.ok = TRUE /\ k.environmentId = x /\ k.slots = f
  BY <1>5 DEF GateTable
<1>8. k = GateTable(x, f)
  BY <1>6, <1>7, GateTableFields
<1> QED
  BY <1>1, <1>4, <1>5, <1>8

\* A handle whose slot is free is admitted to the gate's table.
LEMMA GateAdmits ==
  ASSUME NEW e, NEW f, NEW h, NEW kind, NEW id,
         h.slot \notin DOMAIN f, h.generation = 1, h.environmentId = e
  PROVE  /\ Handoff!TableAdmits(GateTable(e, f), h, kind, id)
         /\ Handoff!TableAdmitted(GateTable(e, f), h, kind, id) =
              GateTable(e, WithRow(f, h.slot, OccupiedRow(kind, id)))
<1> DEFINE t == GateTable(e, f)
<1>0. t.environmentId = e /\ t.slots = f
  BY DEF GateTable
<1>6. t = GateTable(e, f)
  OBVIOUS
<1> HIDE DEF t
<1>5. \A x : [t EXCEPT !.slots = x] = GateTable(e, x)
  BY <1>6, GateTableUpdates
<1>1. ~ Handoff!InSlots(t, h)
  BY <1>0 DEF Handoff!InSlots
<1>2. Handoff!TableAdmits(t, h, kind, id)
  BY <1>0, <1>1 DEF Handoff!TableAdmits
<1>3. Handoff!TableAdmitted(t, h, kind, id) =
        [t EXCEPT !.slots = WithRow(t.slots, h.slot,
           [state |-> "occupied", generation |-> h.generation, kind |-> kind, rootId |-> id])]
  BY <1>1, Zenon DEF Handoff!TableAdmitted, WithRow
<1>4. [state |-> "occupied", generation |-> h.generation, kind |-> kind, rootId |-> id] =
        OccupiedRow(kind, id)
  BY DEF OccupiedRow
<1> QED
  BY <1>0, <1>2, <1>3, <1>4, <1>5 DEF t

\* The table of the gate admits a lifecycle, and holds its handles.
LEMMA TableFollows ==
  ASSUME NEW b \in Seq(MirrorRecords), NEW r \in MirrorRecords, NEW t,
         \A i \in 1 .. Len(b) : Consistent(r, b[i]), Consistent(r, r),
         Handoff!IsLifecycle(b), Continues(b, r), TableTells(t, b)
  PROVE  TableTells(Handoff!TableStep(t, r), Append(b, r))
<1> DEFINE c == Append(b, r)
           e == r.environmentId
           h == r.rootHandle
           v == r.valueHandle
           f == t.slots
           here == GateTable(e, f)
<1>1. /\ c # <<>> /\ c[1] = IF b = <<>> THEN r ELSE b[1]
      /\ Ended(c) <=> r.kind = "unmount"
  BY LongerBatch
<1>2. /\ e \in Nat \ {0} /\ h.environmentId = e /\ h.generation = 1 /\ h.kind = "root"
      /\ r.kind \in {"create", "render", "unmount"}
      /\ r.kind = "unmount" <=> v = Handoff!NoHandle
      /\ r.kind # "unmount" => v.environmentId = e /\ v.generation = 1
  BY MirrorHandles
<1>3. t.ok = TRUE
  BY DEF TableTells, Handoff!NewTable, GateTable
<1>4. b # <<>> => t.environmentId = e
  BY SlotsGrow DEF TableTells, GateTable
<1>5. b = <<>> => t.environmentId = Handoff!None
  BY DEF TableTells, Handoff!NewTable
<1>6. [t EXCEPT !.environmentId = IF @ = Handoff!None THEN e ELSE @] = here
  <2>1. (IF t.environmentId = Handoff!None THEN e ELSE t.environmentId) = e
    BY <1>4, <1>5
  <2>2. t = GateTable(t.environmentId, f)
    BY DEF TableTells, Handoff!NewTable, GateTable
  <2>4. PICK e0 : t = GateTable(e0, f)
    BY <2>2
  <2> HIDE DEF f
  <2>3. [t EXCEPT !.environmentId = e] = GateTable(e, f)
    <3> HIDE DEF e
    <3> QED
      BY <2>4, GateTableUpdates
  <2>5. [t EXCEPT !.environmentId = IF @ = Handoff!None THEN e ELSE @] =
          [t EXCEPT !.environmentId = e]
    BY <2>1
  <2> QED
    BY <2>3, <2>5 DEF f
<1> DEFINE created == Handoff!TableAdmitted(here, h, "root", r.rootId)
           retired == Handoff!TableRetired(here, h)
           rejected == [t EXCEPT !.ok = FALSE]
<1>7. Handoff!TableStep(t, r) =
        IF ~ (t.ok /\ here.environmentId = r.environmentId) THEN rejected
        ELSE IF r.kind = "create"
             THEN IF Handoff!TableAdmits(here, h, "root", r.rootId)
                     /\ Handoff!ValueAccepted(created, r)
                  THEN Handoff!WithValue(created, r) ELSE rejected
        ELSE IF ~ Handoff!RootIsActive(here, r) THEN rejected
        ELSE IF r.kind = "render"
             THEN IF Handoff!ValueAccepted(here, r) THEN Handoff!WithValue(here, r) ELSE rejected
        ELSE IF Handoff!RootIsRetired(retired, h) THEN retired ELSE rejected
  <2> HIDE DEF here
  <2> QED
  BY <1>6, Zenon DEF Handoff!TableStep
<1> HIDE DEF c
<1>10. here.slots = f /\ here.environmentId = e
  BY DEF GateTable
<1>8. CASE b = <<>>
  <2>1. r.kind = "create"
    BY <1>8 DEF Continues
  <2>2. f = <<>> /\ DOMAIN f = {}
    BY <1>8 DEF TableTells, Handoff!NewTable
  <2>3. /\ Handoff!TableAdmits(here, h, "root", r.rootId)
        /\ created =
             GateTable(e, WithRow(f, h.slot, OccupiedRow("root", r.rootId)))
    <3>1. h.slot \notin DOMAIN f
      BY <2>2
    <3> HIDE DEF f, h, e
    <3> QED
      BY <1>2, <3>1, GateAdmits
  <2> DEFINE g == [i \in {h.slot} |-> OccupiedRow("root", r.rootId)]
  <2>4. created = GateTable(e, g)
    BY <2>2, <2>3 DEF WithRow
  <2>5. v.slot # h.slot /\ v # Handoff!NoHandle
    BY <1>2, <2>1 DEF Consistent
  <2> HIDE DEF created
  <2>6. /\ Handoff!TableAdmits(created, v, "value", 0)
        /\ Handoff!TableAdmitted(created, v, "value", 0) =
             GateTable(e, WithRow(g, v.slot, OccupiedRow("value", 0)))
    <3>1. v.slot \notin DOMAIN g
      BY <2>5
    <3> HIDE DEF g
    <3> QED
      BY <1>2, <2>1, <2>4, <3>1, GateAdmits
  <2>7. Handoff!TableStep(t, r) = Handoff!TableAdmitted(created, v, "value", 0)
    <3>1. here.environmentId = r.environmentId
      BY <1>10
    <3> HIDE DEF here
    <3> QED
      BY <1>3, <1>7, <2>1, <2>3, <2>5, <2>6, <3>1
      DEF Handoff!WithValue, Handoff!ValueAccepted, Handoff!None, created
  <2>8. HandleSlots(c) = {h.slot, v.slot}
    <3>1. c = <<r>>
      BY <1>8 DEF c
    <3> QED
      BY <2>1, <3>1, SlotsStart
  <2>9. [i \in HandleSlots(c) |-> TableRow(c, i)] =
          WithRow(g, v.slot, OccupiedRow("value", 0))
    BY <1>1, <1>8, <2>1, <2>5, <2>8 DEF TableRow, WithRow, OccupiedRow
  <2>10. c[1].environmentId = e
    BY <1>1, <1>8
  <2> HIDE DEF g
  <2> QED
    BY <1>1, <2>6, <2>7, <2>9, <2>10 DEF TableTells, c
<1>9. CASE b # <<>>
  <2>1. f = [i \in HandleSlots(b) |-> TableRow(b, i)]
    BY <1>9 DEF TableTells, GateTable
  <2>2. /\ h = b[1].rootHandle /\ r.kind # "create"
    BY <1>9 DEF Continues
  <2>3. r.rootId = b[1].rootId /\ ~ Ended(b) /\ h.slot \in HandleSlots(b)
    BY <1>9, <2>2, SlotsGrow DEF HandleSlots
  <2>4. f[h.slot] = [state |-> "occupied", generation |-> 1, kind |-> "root",
                     rootId |-> b[1].rootId]
    BY <2>1, <2>2, <2>3 DEF TableRow
  <2>5. DOMAIN f = HandleSlots(b)
    BY <2>1
  <2>6. Handoff!RootIsActive(here, r)
    BY <1>2, <1>10, <2>3, <2>4, <2>5
    DEF Handoff!RootIsActive, Handoff!InSlots, Handoff!SlotAccepts
  <2>7. here.environmentId = r.environmentId /\ here.slots = f
    BY <1>10
  <2>8. c[1] = b[1] /\ c[1].environmentId = e
    BY <1>1, <1>9, SlotsGrow
  <2>9. CASE r.kind = "render"
    <3>1. /\ v.slot \notin DOMAIN f /\ v # Handoff!NoHandle
          /\ HandleSlots(c) = HandleSlots(b) \cup {v.slot}
      BY <1>2, <1>9, <2>5, <2>9, SlotsGrow DEF c
    <3>2. /\ Handoff!TableAdmits(here, v, "value", 0)
          /\ Handoff!TableAdmitted(here, v, "value", 0) =
               GateTable(e, WithRow(f, v.slot, OccupiedRow("value", 0)))
      BY <1>2, <1>10, <2>9, <3>1, GateAdmits
    <3>3. Handoff!TableStep(t, r) = Handoff!TableAdmitted(here, v, "value", 0)
      <4> HIDE DEF here, f
      <4> QED
        BY <1>3, <1>7, <2>6, <2>7, <2>9, <3>1, <3>2
        DEF Handoff!WithValue, Handoff!ValueAccepted, Handoff!None
    <3>4. [i \in HandleSlots(c) |-> TableRow(c, i)] =
            WithRow(f, v.slot, OccupiedRow("value", 0))
      <4>1. \A i \in HandleSlots(b) : TableRow(c, i) = TableRow(b, i)
        BY <1>1, <2>3, <2>8, <2>9 DEF TableRow
      <4>2. TableRow(c, v.slot) = [state |-> "occupied", generation |-> 1, kind |-> "value",
                                   rootId |-> 0]
        BY <2>2, <2>3, <2>5, <2>8, <3>1 DEF TableRow
      <4>3. \A i \in HandleSlots(b) : f[i] = TableRow(b, i)
        BY <2>1
      <4> HIDE DEF f, v
      <4> QED
        BY <2>5, <3>1, <4>1, <4>2, <4>3 DEF WithRow, OccupiedRow
    <3> HIDE DEF here, f, v
    <3> QED
      BY <1>1, <2>8, <3>2, <3>3, <3>4 DEF TableTells, c
  <2>10. CASE r.kind = "unmount"
    <3>1. HandleSlots(c) = HandleSlots(b)
      BY <1>9, <2>10, SlotsGrow DEF c
    <3> DEFINE row == [state |-> "vacant", generation |-> 2, kind |-> "root",
                       rootId |-> b[1].rootId]
    <3>2. retired = GateTable(e, [f EXCEPT ![h.slot] = row])
      <4>1. retired = [here EXCEPT !.slots = [here.slots EXCEPT ![h.slot] =
              [state |-> "vacant", generation |-> h.generation + 1, kind |-> "root",
               rootId |-> here.slots[h.slot].rootId]]]
        BY DEF Handoff!TableRetired
      <4>2. h.generation + 1 = 2 /\ here.slots[h.slot].rootId = b[1].rootId
        BY <1>2, <1>10, <2>4
      <4>4. here = GateTable(e, f)
        OBVIOUS
      <4> HIDE DEF here, f
      <4>3. \A x : [here EXCEPT !.slots = x] = GateTable(e, x)
        BY <4>4, GateTableUpdates
      <4> QED
        BY <1>10, <4>1, <4>2, <4>3
    <3>3. [f EXCEPT ![h.slot] = row][h.slot] = row /\ DOMAIN [f EXCEPT ![h.slot] = row] = DOMAIN f
      BY <2>3, <2>5
    <3>4. Handoff!RootIsRetired(retired, h)
      BY <1>2, <2>3, <2>5, <3>2, <3>3 DEF Handoff!RootIsRetired, Handoff!InSlots, GateTable
    <3>5. Handoff!TableStep(t, r) = retired
      <4> HIDE DEF here, retired
      <4> QED
        BY <1>3, <1>7, <2>6, <2>7, <2>10, <3>4
    <3>6. [i \in HandleSlots(c) |-> TableRow(c, i)] = [f EXCEPT ![h.slot] = row]
      <4>1. \A i \in HandleSlots(b) : i # h.slot => TableRow(c, i) = TableRow(b, i)
        BY <2>2, <2>8 DEF TableRow
      <4>2. TableRow(c, h.slot) = row
        BY <1>1, <2>2, <2>8, <2>10 DEF TableRow
      <4>3. \A i \in HandleSlots(b) : f[i] = TableRow(b, i)
        BY <2>1
      <4>4. f = [i \in HandleSlots(b) |-> f[i]]
        BY <2>1
      <4> HIDE DEF f, row
      <4> QED
        BY <2>3, <3>1, <4>1, <4>2, <4>3, <4>4
    <3> HIDE DEF here, f, row
    <3> QED
      BY <1>1, <2>8, <3>2, <3>5, <3>6 DEF TableTells, c
  <2> QED
    BY <1>2, <2>2, <2>9, <2>10
<1> QED
  BY <1>8, <1>9

\* The slots a of the executor after a handle was admitted to a slot that was never used: it
\* holds the record, and the slots the table grew by are vacant.
AdmittedAs(slots, a, h, kind, id) ==
  /\ a \in Seq(TableSlots) /\ Len(slots) \in Nat /\ Len(a) \in Nat /\ Len(slots) <= Len(a)
  /\ h.slot \in 1 .. Len(a) /\ a[h.slot] = Handoff!Entry(1, kind, id)
  /\ \A i \in 1 .. Len(a) :
       i # h.slot => a[i] = IF i \in 1 .. Len(slots) THEN slots[i] ELSE Handoff!Vacant(1)

\* admit_handoff_record on a slot that was never used.
LEMMA HandoffAdmitsFresh ==
  ASSUME NEW slots \in Seq(TableSlots), NEW h, h.slot \in Nat \ {0}, h.generation = 1,
         h.slot \in 1 .. Len(slots) => slots[h.slot] = Handoff!Vacant(1),
         NEW kind \in {"root", "value"}, NEW id \in Nat
  PROVE  /\ Handoff!HandoffAdmits(slots, h, kind)
         /\ AdmittedAs(slots, Handoff!HandoffAdmitted(slots, h, kind, id), h, kind, id)
<1> DEFINE n == Len(slots)
           more == IF h.slot > n THEN h.slot - n ELSE 0
           tail == [i \in 1 .. more |-> Handoff!Vacant(1)]
           grown == Handoff!Grown(slots, h.slot)
           entry == Handoff!Entry(1, kind, id)
<1>1. n \in Nat /\ more \in Nat
  BY LenProperties
<1>2. Handoff!Vacant(1) \in TableSlots /\ entry \in TableSlots
  BY DEF Handoff!Vacant, Handoff!Entry, TableSlots
<1>3. tail \in Seq(TableSlots) /\ Len(tail) = more /\ \A i \in 1 .. more : tail[i] = Handoff!Vacant(1)
  <2> HIDE DEF more
  <2>1. tail \in [1 .. more -> TableSlots]
    BY <1>2
  <2>2. tail \in Seq(TableSlots)
    BY <1>1, <2>1, SeqDef
  <2>3. DOMAIN tail = 1 .. more
    OBVIOUS
  <2> QED
    BY <1>1, <2>2, <2>3, LenProperties
<1>4. grown = slots \o tail
  BY DEF Handoff!Grown
<1> HIDE DEF tail, grown, entry
<1>5. /\ grown \in Seq(TableSlots) /\ Len(grown) = n + more
      /\ \A i \in 1 .. n + more : grown[i] = IF i <= n THEN slots[i] ELSE tail[i - n]
  BY <1>1, <1>3, <1>4, ConcatProperties
<1>6. h.slot \in 1 .. n + more
  BY <1>1
<1>7. \A i \in 1 .. n + more : grown[i] = IF i \in 1 .. n THEN slots[i] ELSE Handoff!Vacant(1)
  <2> SUFFICES ASSUME NEW i \in 1 .. n + more
               PROVE  grown[i] = IF i \in 1 .. n THEN slots[i] ELSE Handoff!Vacant(1)
    OBVIOUS
  <2>1. CASE i <= n
    BY <1>1, <1>5, <2>1
  <2>2. CASE ~ i <= n
    <3>1. i - n \in 1 .. more
      BY <1>1, <2>2
    <3> HIDE DEF more, n
    <3> QED
      BY <1>1, <1>3, <1>5, <2>2, <3>1
  <2> QED
    BY <2>1, <2>2
<1> HIDE DEF n, more
<1>8. grown[h.slot] = Handoff!Vacant(1)
  BY <1>6, <1>7 DEF n
<1>9. ~ grown[h.slot].occupied /\ grown[h.slot].generation = 1
  BY <1>8 DEF Handoff!Vacant
<1>10. Handoff!HandoffAdmits(slots, h, kind)
  BY <1>9 DEF Handoff!HandoffAdmits, grown
<1>11. Handoff!HandoffAdmitted(slots, h, kind, id) = [grown EXCEPT ![h.slot] = entry]
  BY <1>9 DEF Handoff!HandoffAdmitted, grown, entry
<1> DEFINE a == [grown EXCEPT ![h.slot] = entry]
<1>12. /\ a \in Seq(TableSlots) /\ Len(a) = n + more /\ a[h.slot] = entry
       /\ \A i \in 1 .. n + more : i # h.slot => a[i] = grown[i]
  BY <1>2, <1>5, <1>6, ExceptSeq
<1> HIDE DEF a
<1>13. Handoff!HandoffAdmitted(slots, h, kind, id) = a
  BY <1>11 DEF a
<1>14. n <= n + more /\ n + more \in Nat
  BY <1>1
<1> SUFFICES /\ Len(a) \in Nat /\ n \in Nat /\ n <= Len(a) /\ h.slot \in 1 .. Len(a)
             /\ \A i \in 1 .. Len(a) :
                  i # h.slot => a[i] = IF i \in 1 .. n THEN slots[i] ELSE Handoff!Vacant(1)
  BY <1>10, <1>12, <1>13 DEF n, entry, AdmittedAs
<1> QED
  BY <1>1, <1>6, <1>7, <1>12, <1>14

\* What a slot with an entry answers.
LEMMA EntryIsActive ==
  ASSUME NEW slots \in Seq(TableSlots), NEW h, NEW kind, NEW id,
         h.slot \in 1 .. Len(slots), h.generation = 1,
         slots[h.slot] = Handoff!Entry(1, kind, id)
  PROVE  Handoff!Active(slots, h, kind) /\ slots[h.slot].id = id
BY DEF Handoff!Active, Handoff!OccupiedBy, Handoff!Entry

\* The executor admits the createRoot of a batch.
LEMMA ExecutorCreates ==
  ASSUME NEW r \in MirrorRecords, r.kind = "create", Consistent(r, r),
         NEW s, s.slots = <<>>, s.environmentId = r.environmentId
  PROVE  /\ Handoff!AdmitsCreate(s, r)
         /\ SlotsTell(Handoff!RustWithValue(
              Handoff!HandoffAdmitted(s.slots, r.rootHandle, "root", r.rootId), r), <<r>>)
<1> DEFINE h == r.rootHandle
           v == r.valueHandle
           rooted == Handoff!HandoffAdmitted(s.slots, h, "root", r.rootId)
           slots == Handoff!HandoffAdmitted(rooted, v, "value", r.requestId)
<1>1. /\ h.slot \in Nat \ {0} /\ h.generation = 1 /\ v.slot \in Nat \ {0} /\ v.generation = 1
      /\ v.environmentId = r.environmentId /\ v # Handoff!NoHandle
      /\ r.rootId \in Nat /\ r.requestId \in Nat /\ r.rootHandleState = "active"
  BY MirrorHandles
<1>2. v.slot # h.slot
  BY DEF Consistent
<1>3. s.slots \in Seq(TableSlots) /\ Len(s.slots) = 0
  BY EmptySeq
<1> HIDE DEF h, v
<1>4. /\ Handoff!HandoffAdmits(s.slots, h, "root") /\ rooted \in Seq(TableSlots)
      /\ Len(rooted) \in Nat
      /\ h.slot \in 1 .. Len(rooted) /\ rooted[h.slot] = Handoff!Entry(1, "root", r.rootId)
      /\ \A i \in 1 .. Len(rooted) : i # h.slot => rooted[i] = Handoff!Vacant(1)
  <2>1. h.slot \notin 1 .. Len(s.slots) /\ \A i : i \notin 1 .. Len(s.slots)
    BY <1>1, <1>3
  <2>2. Handoff!HandoffAdmits(s.slots, h, "root") /\ AdmittedAs(s.slots, rooted, h, "root", r.rootId)
    BY <1>1, <1>3, <2>1, HandoffAdmitsFresh
  <2> HIDE DEF rooted
  <2> QED
    BY <2>1, <2>2 DEF AdmittedAs
<1> HIDE DEF rooted
<1>5. /\ Handoff!HandoffAdmits(rooted, v, "value") /\ slots \in Seq(TableSlots)
      /\ Len(rooted) <= Len(slots) /\ Len(slots) \in Nat
      /\ v.slot \in 1 .. Len(slots) /\ slots[v.slot] = Handoff!Entry(1, "value", r.requestId)
      /\ \A i \in 1 .. Len(slots) :
           i # v.slot => slots[i] = IF i \in 1 .. Len(rooted) THEN rooted[i] ELSE Handoff!Vacant(1)
  <2>1. v.slot \in 1 .. Len(rooted) => rooted[v.slot] = Handoff!Vacant(1)
    BY <1>2, <1>4
  <2>2. Handoff!HandoffAdmits(rooted, v, "value") /\ AdmittedAs(rooted, slots, v, "value", r.requestId)
    BY <1>1, <1>4, <2>1, HandoffAdmitsFresh
  <2> HIDE DEF slots
  <2> QED
    BY <2>2 DEF AdmittedAs
<1> HIDE DEF slots
<1>6. h.slot \in 1 .. Len(slots) /\ slots[h.slot] = Handoff!Entry(1, "root", r.rootId)
  <2>1. h.slot \in 1 .. Len(slots)
    BY <1>4, <1>5
  <2> QED
    BY <1>2, <1>4, <1>5, <2>1
<1>7. Handoff!RustWithValue(rooted, r) = slots
  BY <1>1 DEF Handoff!RustWithValue, slots, v
<1>8. Handoff!RootInTable(slots, r)
  <2>1. Handoff!Active(slots, h, "root") /\ slots[h.slot].id = r.rootId
    BY <1>1, <1>6 DEF Handoff!Active, Handoff!OccupiedBy, Handoff!Entry
  <2> QED
    BY <2>1 DEF Handoff!RootInTable, h
<1>9. Handoff!ValueInTable(slots, r)
  BY <1>1, <1>5, EntryIsActive DEF Handoff!ValueInTable, v
<1>10. Handoff!RustValueAccepted(s, rooted, r)
  BY <1>1, <1>5 DEF Handoff!RustValueAccepted, v
<1>11. Handoff!AdmitsCreate(s, r)
  BY <1>1, <1>4, <1>7, <1>8, <1>9, <1>10 DEF Handoff!AdmitsCreate, rooted, h
<1>12. SlotsTell(slots, <<r>>)
  <2>1. HandleSlots(<<r>>) = {h.slot, v.slot} /\ Valued(<<r>>) = {1}
    BY SlotsStart DEF h, v
  <2> DEFINE b == <<r>>
  <2>2. b[1] = r /\ ~ Ended(b)
    BY DEF Ended
  <2> HIDE DEF b
  <2>3. HandleSlots(b) = {h.slot, v.slot} /\ Valued(b) = {1}
    BY <2>1 DEF b
  <2>4. \A i \in 1 .. Len(slots) : i \notin HandleSlots(b) => slots[i] = Handoff!Vacant(1)
    BY <1>4, <1>5, <2>3
  <2>5. \A j \in Valued(b) : slots[b[j].valueHandle.slot] = Handoff!Entry(1, "value", b[j].requestId)
    BY <1>5, <2>2, <2>3 DEF v
  <2>6. slots[b[1].rootHandle.slot] = Handoff!Entry(1, "root", b[1].rootId)
    BY <1>6, <2>2 DEF h
  <2>7. SlotsTell(slots, b)
    BY <1>5, <1>6, <2>2, <2>3, <2>4, <2>5, <2>6 DEF SlotsTell
  <2> QED
    BY <2>7 DEF b
<1> QED
  BY <1>7, <1>11, <1>12 DEF rooted, h

\* The slots of the executor hold the root of the batch while it is not unmounted.
LEMMA RootIsHeld ==
  ASSUME NEW b \in Seq(MirrorRecords), NEW r \in MirrorRecords, b # <<>>,
         \A i \in 1 .. Len(b) : Consistent(r, b[i]),
         Handoff!IsLifecycle(b), Continues(b, r), NEW slots, SlotsTell(slots, b)
  PROVE  /\ r.rootHandle = b[1].rootHandle /\ r.rootId = b[1].rootId
         /\ r.rootHandle.slot \in 1 .. Len(slots)
         /\ slots[r.rootHandle.slot] = Handoff!Entry(1, "root", r.rootId)
         /\ Handoff!RootInTable(slots, r)
<1>1. r.rootHandle = b[1].rootHandle
  BY DEF Continues
<1>2. r.rootId = b[1].rootId /\ ~ Ended(b)
  BY SlotsGrow
<1>3. r.rootHandle.slot \in 1 .. Len(slots)
  BY <1>1 DEF SlotsTell, HandleSlots
<1>4. slots[r.rootHandle.slot] = Handoff!Entry(1, "root", r.rootId)
  BY <1>1, <1>2 DEF SlotsTell
<1>5. r.rootHandle.generation = 1 /\ slots \in Seq(TableSlots)
  BY MirrorHandles DEF SlotsTell
<1>6. Handoff!RootInTable(slots, r)
  <2> DEFINE h == r.rootHandle
  <2> HIDE DEF h
  <2>1. h.slot \in 1 .. Len(slots) /\ h.generation = 1
        /\ slots[h.slot] = Handoff!Entry(1, "root", r.rootId)
    BY <1>3, <1>4, <1>5 DEF h
  <2>2. Handoff!Active(slots, h, "root") /\ slots[h.slot].id = r.rootId
    BY <1>5, <2>1, EntryIsActive
  <2> QED
    BY <2>2 DEF Handoff!RootInTable, h
<1> QED
  BY <1>1, <1>2, <1>3, <1>4, <1>6

\* The executor admits a render of the root.
LEMMA ExecutorRenders ==
  ASSUME NEW b \in Seq(MirrorRecords), NEW r \in MirrorRecords, b # <<>>,
         \A i \in 1 .. Len(b) : Consistent(r, b[i]),
         Handoff!IsLifecycle(b), Continues(b, r), r.kind = "render",
         NEW s, SlotsTell(s.slots, b), s.environmentId = b[1].environmentId
  PROVE  /\ Handoff!AdmitsRender(s, r)
         /\ SlotsTell(Handoff!RustWithValue(s.slots, r), Append(b, r))
<1> DEFINE h == r.rootHandle
           v == r.valueHandle
           old == s.slots
           slots == Handoff!HandoffAdmitted(s.slots, v, "value", r.requestId)
           c == Append(b, r)
<1>1. /\ h.generation = 1 /\ v.slot \in Nat \ {0} /\ v.generation = 1
      /\ v.environmentId = r.environmentId /\ v # Handoff!NoHandle
      /\ r.requestId \in Nat /\ r.rootHandleState = "active"
  BY MirrorHandles
<1>2. /\ r.environmentId = b[1].environmentId /\ ~ Ended(b)
      /\ v.slot \notin HandleSlots(b)
      /\ HandleSlots(c) = HandleSlots(b) \cup {v.slot}
      /\ Valued(c) = Valued(b) \cup {Len(b) + 1}
  BY SlotsGrow
<1>3. /\ h = b[1].rootHandle /\ r.rootId = b[1].rootId
      /\ h.slot \in 1 .. Len(old) /\ old[h.slot] = Handoff!Entry(1, "root", r.rootId)
      /\ Handoff!RootInTable(old, r)
  BY RootIsHeld
<1>4. /\ c # <<>> /\ Len(b) \in Nat /\ c[Len(b) + 1] = r /\ \A i \in 1 .. Len(b) : c[i] = b[i]
      /\ c[1] = b[1] /\ ~ Ended(c)
  BY LongerBatch
<1>5. /\ old \in Seq(TableSlots) /\ HandleSlots(b) \subseteq 1 .. Len(old)
      /\ \A j \in Valued(b) : old[b[j].valueHandle.slot] = Handoff!Entry(1, "value", b[j].requestId)
      /\ \A i \in 1 .. Len(old) : i \notin HandleSlots(b) => old[i] = Handoff!Vacant(1)
  BY DEF SlotsTell
<1> HIDE DEF v, c
<1>6. /\ Handoff!HandoffAdmits(old, v, "value") /\ slots \in Seq(TableSlots)
      /\ Len(old) <= Len(slots) /\ Len(slots) \in Nat /\ Len(old) \in Nat
      /\ v.slot \in 1 .. Len(slots) /\ slots[v.slot] = Handoff!Entry(1, "value", r.requestId)
      /\ \A i \in 1 .. Len(slots) :
           i # v.slot => slots[i] = IF i \in 1 .. Len(old) THEN old[i] ELSE Handoff!Vacant(1)
  <2>1. v.slot \in 1 .. Len(old) => old[v.slot] = Handoff!Vacant(1)
    BY <1>2, <1>5
  <2>2. Handoff!HandoffAdmits(old, v, "value") /\ AdmittedAs(old, slots, v, "value", r.requestId)
    BY <1>1, <1>5, <2>1, HandoffAdmitsFresh
  <2> HIDE DEF old, slots
  <2> QED
    BY <2>2 DEF AdmittedAs
<1> HIDE DEF slots
<1>7. \A i \in 1 .. Len(old) : i \in 1 .. Len(slots) /\ (i # v.slot => slots[i] = old[i])
  <2> HIDE DEF old
  <2> SUFFICES ASSUME NEW i \in 1 .. Len(old)
               PROVE  i \in 1 .. Len(slots) /\ (i # v.slot => slots[i] = old[i])
    OBVIOUS
  <2>1. Len(old) <= Len(slots) /\ Len(slots) \in Nat /\ Len(old) \in Nat
    BY <1>6
  <2>2. i \in 1 .. Len(slots)
    BY <2>1
  <2> QED
    BY <1>6, <2>2
<1>8. h.slot # v.slot
  BY <1>2, <1>3 DEF HandleSlots
<1>9. Handoff!RustWithValue(old, r) = slots
  BY <1>1 DEF Handoff!RustWithValue, slots, v
<1>10. h.slot \in 1 .. Len(slots) /\ slots[h.slot] = Handoff!Entry(1, "root", r.rootId)
  BY <1>3, <1>7, <1>8
<1>11. Handoff!RootInTable(slots, r)
  <2> HIDE DEF h
  <2>1. Handoff!Active(slots, h, "root") /\ slots[h.slot].id = r.rootId
    BY <1>1, <1>10 DEF Handoff!Active, Handoff!OccupiedBy, Handoff!Entry
  <2> QED
    BY <2>1 DEF Handoff!RootInTable, h
<1>12. Handoff!ValueInTable(slots, r)
  BY <1>1, <1>6, EntryIsActive DEF Handoff!ValueInTable, v
<1>13. Handoff!RustValueAccepted(s, old, r)
  BY <1>1, <1>2, <1>6 DEF Handoff!RustValueAccepted, v
<1>14. Handoff!AdmitsRender(s, r)
  BY <1>1, <1>3, <1>9, <1>11, <1>12, <1>13 DEF Handoff!AdmitsRender
<1>15. SlotsTell(slots, c)
  <2>1. HandleSlots(c) \subseteq 1 .. Len(slots)
    BY <1>2, <1>5, <1>6, <1>7
  <2>2. slots[c[1].rootHandle.slot] = Handoff!Entry(1, "root", c[1].rootId)
    BY <1>3, <1>4, <1>10
  <2>3. ASSUME NEW j \in Valued(c)
        PROVE  slots[c[j].valueHandle.slot] = Handoff!Entry(1, "value", c[j].requestId)
    <3>1. CASE j \in Valued(b)
      <4>1. c[j] = b[j]
        BY <1>4, <3>1 DEF Valued
      <4>2. b[j].valueHandle.slot \in HandleSlots(b)
        BY <3>1 DEF HandleSlots
      <4>3. slots[b[j].valueHandle.slot] = old[b[j].valueHandle.slot]
        BY <1>2, <1>5, <1>7, <4>2
      <4> QED
        BY <1>5, <3>1, <4>1, <4>3
    <3>2. CASE j = Len(b) + 1
      BY <1>4, <1>6, <3>2 DEF v
    <3> QED
      BY <1>2, <2>3, <3>1, <3>2
  <2>4. \A i \in 1 .. Len(slots) : i \notin HandleSlots(c) => slots[i] = Handoff!Vacant(1)
    <3> HIDE DEF old
    <3> QED
      BY <1>2, <1>5, <1>6
  <2> QED
    BY <1>4, <1>6, <2>1, <2>2, <2>3, <2>4 DEF SlotsTell
<1> QED
  BY <1>9, <1>14, <1>15 DEF c

\* The executor admits the unmount of the root: the handle gives way to its next generation.
LEMMA ExecutorUnmounts ==
  ASSUME NEW b \in Seq(MirrorRecords), NEW r \in MirrorRecords, b # <<>>,
         \A i \in 1 .. Len(b) : Consistent(r, b[i]),
         Handoff!IsLifecycle(b), Continues(b, r), r.kind = "unmount",
         NEW s, SlotsTell(s.slots, b)
  PROVE  /\ Handoff!AdmitsUnmount(s, r)
         /\ SlotsTell(Handoff!Removed(s.slots, r.rootHandle), Append(b, r))
<1> DEFINE h == r.rootHandle
           old == s.slots
           slots == Handoff!Removed(s.slots, h)
           c == Append(b, r)
<1>1. /\ h.generation = 1 /\ r.rootHandleState = "retired" /\ r.valueHandle = Handoff!NoHandle
  BY MirrorHandles
<1>2. /\ HandleSlots(c) = HandleSlots(b) /\ Valued(c) = Valued(b)
  BY SlotsGrow
<1>3. /\ h = b[1].rootHandle /\ r.rootId = b[1].rootId
      /\ h.slot \in 1 .. Len(old) /\ old[h.slot] = Handoff!Entry(1, "root", r.rootId)
      /\ Handoff!RootInTable(old, r)
  BY RootIsHeld
<1>4. /\ \A i \in 1 .. Len(b) : c[i] = b[i]
      /\ c[1] = b[1] /\ Ended(c)
  BY LongerBatch
<1>5. /\ old \in Seq(TableSlots) /\ HandleSlots(b) \subseteq 1 .. Len(old)
      /\ \A j \in Valued(b) : old[b[j].valueHandle.slot] = Handoff!Entry(1, "value", b[j].requestId)
      /\ \A i \in 1 .. Len(old) : i \notin HandleSlots(b) => old[i] = Handoff!Vacant(1)
  BY DEF SlotsTell
<1> HIDE DEF c
<1>6. Handoff!CanRemove(old, h, "root")
  BY <1>1, <1>3, HandoffInstance DEF Handoff!CanRemove, Handoff!RootInTable, Handoff!HandoffBounds
<1>7. /\ slots \in Seq(TableSlots) /\ Len(slots) = Len(old) /\ slots[h.slot] = Handoff!Vacant(2)
      /\ \A i \in 1 .. Len(old) : i # h.slot => slots[i] = old[i]
  <2>1. Handoff!Vacant(2) \in TableSlots
    BY DEF Handoff!Vacant, TableSlots
  <2>2. slots = [old EXCEPT ![h.slot] = Handoff!Vacant(2)]
    BY <1>1 DEF Handoff!Removed
  <2> HIDE DEF slots, old
  <2> QED
    BY <1>3, <1>5, <2>1, <2>2, ExceptSeq
<1> HIDE DEF slots
<1>8. ~ Handoff!Active(slots, h, "root")
  BY <1>7 DEF Handoff!Active, Handoff!OccupiedBy, Handoff!Vacant
<1>9. Handoff!AdmitsUnmount(s, r)
  BY <1>1, <1>3, <1>6, <1>8 DEF Handoff!AdmitsUnmount, slots
<1>10. SlotsTell(slots, c)
  <2>1. HandleSlots(c) \subseteq 1 .. Len(slots)
    BY <1>2, <1>5, <1>7
  <2>2. slots[c[1].rootHandle.slot] = Handoff!Vacant(2)
    BY <1>3, <1>4, <1>7
  <2>3. ASSUME NEW j \in Valued(c)
        PROVE  slots[c[j].valueHandle.slot] = Handoff!Entry(1, "value", c[j].requestId)
    <3>1. c[j] = b[j] /\ j \in Valued(b)
      BY <1>2, <1>4, <2>3 DEF Valued
    <3>2. b[j].valueHandle.slot \in HandleSlots(b)
      BY <3>1 DEF HandleSlots
    <3>3. b[j].valueHandle.slot # h.slot
      <4>1. old[b[j].valueHandle.slot] = Handoff!Entry(1, "value", b[j].requestId)
        BY <1>5, <3>1
      <4>2. old[b[j].valueHandle.slot].kind = "value"
        BY <4>1 DEF Handoff!Entry
      <4>3. old[h.slot].kind = "root"
        BY <1>3 DEF Handoff!Entry
      <4> QED
        BY <4>2, <4>3
    <3> QED
      BY <1>5, <1>7, <3>1, <3>2, <3>3
  <2>4. \A i \in 1 .. Len(slots) : i \notin HandleSlots(c) => slots[i] = Handoff!Vacant(1)
    <3>1. h.slot \in HandleSlots(b)
      BY <1>3 DEF HandleSlots
    <3> HIDE DEF old
    <3> QED
      BY <1>2, <1>5, <1>7, <3>1
  <2> QED
    BY <1>4, <1>7, <2>1, <2>2, <2>3, <2>4 DEF SlotsTell
<1> QED
  BY <1>9, <1>10 DEF c, slots

\* The executor stops where the batch stops being a lifecycle, and holds the handles of the
\* records it accepted.
LEMMA ExecutorFollows ==
  ASSUME NEW b \in Seq(MirrorRecords), NEW r \in MirrorRecords, NEW s0, HasOk(s0),
         \A i \in 1 .. Len(b) : Consistent(r, b[i]), Consistent(r, r),
         s0.ok <=> Handoff!IsLifecycle(b),
         Handoff!IsLifecycle(b) => RustTells(s0, b)
  PROVE  /\ HasOk(Handoff!RustStep(s0, r))
         /\ Handoff!RustStep(s0, r).ok <=> Handoff!IsLifecycle(Append(b, r))
         /\ Handoff!IsLifecycle(Append(b, r)) =>
              RustTells(Handoff!RustStep(s0, r), Append(b, r))
<1> DEFINE t == Handoff!RustStep(s0, r)
           c == Append(b, r)
           s == [s0 EXCEPT !.environmentId =
                   IF @ = Handoff!None THEN r.environmentId ELSE @]
           accepted ==
             /\ s.ok
             /\ Handoff!Prevalidated(s, r)
             /\ Handoff!NotReused(s, r)
             /\ r.environmentId = s.environmentId
             /\ r.rootHandle.environmentId = s.environmentId
             /\ \/ r.kind = "create" /\ Handoff!AdmitsCreate(s, r)
                \/ r.kind = "render" /\ Handoff!AdmitsRender(s, r)
                \/ r.kind = "unmount" /\ Handoff!AdmitsUnmount(s, r)
             /\ s.rootHandle # Handoff!NoHandle =>
                  r.rootHandle = s.rootHandle /\ r.rootId = s.rootId
           slots ==
             IF r.kind = "unmount" THEN Handoff!Removed(s.slots, r.rootHandle)
             ELSE IF r.kind = "render" THEN Handoff!RustWithValue(s.slots, r)
             ELSE Handoff!RustWithValue(
                    Handoff!HandoffAdmitted(s.slots, r.rootHandle, "root", r.rootId), r)
<1>0. /\ c # <<>> /\ c[Len(c)] = r /\ c[1] = IF b = <<>> THEN r ELSE b[1]
      /\ Ended(c) <=> r.kind = "unmount"
  BY LongerBatch DEF Ended
<1>1. Handoff!IsLifecycle(c) <=> Handoff!IsLifecycle(b) /\ Continues(b, r)
  BY LifecycleGrows
<1>2. t = IF ~ accepted THEN [s0 EXCEPT !.ok = FALSE]
          ELSE [s EXCEPT !.slots = slots, !.lastRequestId = r.requestId,
                         !.rootHandle = r.rootHandle, !.rootId = r.rootId,
                         !.rootState = r.rootHandleState,
                         !.consumed = IF r.valueHandle = Handoff!NoHandle THEN @
                                      ELSE @ \cup {r.valueHandle}]
  BY Zenon DEF Handoff!RustStep
<1>3. s.ok = s0.ok
  OBVIOUS
<1> HIDE DEF t, c, s
<1> SUFFICES HasOk(t) /\ (t.ok <=> Handoff!IsLifecycle(c))
             /\ (Handoff!IsLifecycle(c) => RustTells(t, c))
  BY DEF t, c
<1>4. CASE ~ Handoff!IsLifecycle(b)
  <2>1. ~ accepted
    BY <1>3, <1>4
  <2> HIDE DEF accepted
  <2>2. t = [s0 EXCEPT !.ok = FALSE]
    BY <1>2, <2>1
  <2> QED
    BY <1>1, <1>4, <2>2 DEF HasOk
<1>5. CASE Handoff!IsLifecycle(b)
  <2>1. RustTells(s0, b)
    BY <1>5
  <2>2. /\ DOMAIN s = {"ok", "environmentId", "slots", "lastRequestId", "rootHandle", "rootId",
                       "rootState", "consumed"}
        /\ s.ok = TRUE /\ s.slots = s0.slots
        /\ s.lastRequestId = s0.lastRequestId /\ s.rootHandle = s0.rootHandle
        /\ s.rootId = s0.rootId /\ s.rootState = s0.rootState /\ s.consumed = s0.consumed
        /\ s.environmentId = IF s0.environmentId = 0 THEN r.environmentId ELSE s0.environmentId
    BY <2>1 DEF RustTells, s, Handoff!None
  <2>3. /\ r.environmentId \in Nat \ {0} /\ r.requestId \in Nat \ {0} /\ r.rootHandle # Handoff!NoHandle
        /\ r.rootHandle.environmentId = r.environmentId
        /\ r.kind \in {"create", "render", "unmount"}
        /\ r.kind = "unmount" <=> r.valueHandle = Handoff!NoHandle
        /\ r.rootHandleState = IF r.kind = "unmount" THEN "retired" ELSE "active"
    BY MirrorHandles
  <2>4. CASE b = <<>>
    <3>1. /\ s.environmentId = r.environmentId /\ s.slots = <<>> /\ s.lastRequestId = 0
          /\ s.rootHandle = Handoff!NoHandle /\ s.rootState = "none" /\ s.consumed = {}
      BY <2>1, <2>2, <2>4 DEF RustTells
    <3>2. Continues(b, r) <=> r.kind = "create"
      BY <2>4 DEF Continues
    <3>3. Handoff!Prevalidated(s, r) <=> r.kind = "create"
      BY <3>1 DEF Handoff!Prevalidated, Handoff!None
    <3>4. CASE r.kind # "create"
      <4>1. ~ accepted
        BY <3>3, <3>4
      <4> HIDE DEF accepted
      <4>2. t = [s0 EXCEPT !.ok = FALSE]
        BY <1>2, <4>1
      <4> QED
        BY <1>1, <3>2, <3>4, <4>2 DEF HasOk
    <3>5. CASE r.kind = "create"
      <4>1. Handoff!AdmitsCreate(s, r) /\ SlotsTell(slots, <<r>>)
        BY <3>1, <3>5, ExecutorCreates
      <4>2. Handoff!NotReused(s, r)
        BY <3>1 DEF Handoff!NotReused
      <4>3. accepted
        BY <2>2, <2>3, <3>1, <3>3, <3>5, <4>1, <4>2
      <4> HIDE DEF accepted, slots
      <4>4. t = [s EXCEPT !.slots = slots, !.lastRequestId = r.requestId,
                         !.rootHandle = r.rootHandle, !.rootId = r.rootId,
                         !.rootState = r.rootHandleState,
                         !.consumed = IF r.valueHandle = Handoff!NoHandle THEN @
                                      ELSE @ \cup {r.valueHandle}]
        BY <1>2, <4>3
      <4>5. /\ DOMAIN t = {"ok", "environmentId", "slots", "lastRequestId", "rootHandle",
                           "rootId", "rootState", "consumed"}
            /\ t.ok = TRUE /\ t.environmentId = r.environmentId /\ t.slots = slots
            /\ t.lastRequestId = r.requestId /\ t.rootHandle = r.rootHandle
            /\ t.rootId = r.rootId /\ t.rootState = "active"
            /\ t.consumed = {r.valueHandle}
        BY <2>2, <2>3, <3>1, <3>5, <4>4
      <4>6. c = <<r>>
        BY <2>4 DEF c
      <4>7. SlotsTell(t.slots, c) /\ {c[j].valueHandle : j \in Valued(c)} = {r.valueHandle}
        <5>1. Valued(c) = {1}
          BY <3>5, <4>6, SlotsStart
        <5>2. c[1] = r
          BY <1>0, <2>4
        <5>3. SlotsTell(t.slots, c)
          BY <4>1, <4>5, <4>6
        <5> QED
          BY <5>1, <5>2, <5>3
      <4>8. RustTells(t, c)
        BY <1>0, <2>4, <3>5, <4>5, <4>7 DEF RustTells
      <4> QED
        BY <1>1, <1>5, <3>2, <3>5, <4>5, <4>8 DEF HasOk
    <3> QED
      BY <3>4, <3>5
  <2>5. CASE b # <<>>
    <3>1. Len(b) \in Nat \ {0} /\ b[1] \in MirrorRecords /\ b[Len(b)] \in MirrorRecords
      BY <1>5, <2>5, LifecycleFacts
    <3>2. /\ b[1].rootHandle # Handoff!NoHandle /\ b[Len(b)].requestId \in Nat \ {0}
          /\ b[1].environmentId \in Nat \ {0}
      BY <3>1, MirrorHandles
    <3>3. /\ s.environmentId = b[1].environmentId /\ SlotsTell(s.slots, b)
          /\ s.lastRequestId = b[Len(b)].requestId
          /\ s.rootHandle = b[1].rootHandle /\ s.rootId = b[1].rootId
          /\ s.rootState = IF Ended(b) THEN "retired" ELSE "active"
          /\ s.consumed = {b[j].valueHandle : j \in Valued(b)}
      BY <2>1, <2>2, <2>5, <3>2 DEF RustTells
    <3>4. Handoff!Prevalidated(s, r) <=>
            r.requestId > b[Len(b)].requestId /\ ~ Ended(b) /\ r.kind # "create"
      BY <3>2, <3>3 DEF Handoff!Prevalidated, Handoff!None
    <3>5. Continues(b, r) <=> Handoff!Prevalidated(s, r) /\ r.rootHandle = b[1].rootHandle
      BY <2>5, <3>4 DEF Continues, Ended
    <3>6. CASE ~ Continues(b, r)
      <4>1. ~ accepted
        BY <3>2, <3>3, <3>5, <3>6
      <4> HIDE DEF accepted
      <4>2. t = [s0 EXCEPT !.ok = FALSE]
        BY <1>2, <4>1
      <4> QED
        BY <1>1, <3>6, <4>2 DEF HasOk
    <3>7. CASE Continues(b, r)
      <4>1. /\ r.environmentId = b[1].environmentId /\ r.rootId = b[1].rootId
            /\ r.kind # "unmount" => r.valueHandle \notin s.consumed
        BY <1>5, <2>5, <3>3, <3>7, SlotsGrow
      <4>2. Handoff!NotReused(s, r)
        BY <2>3, <4>1 DEF Handoff!NotReused
      <4>3. r.kind # "create" /\ r.rootHandle = b[1].rootHandle
        BY <2>5, <3>7 DEF Continues
      <4>4. /\ r.kind = "render" => Handoff!AdmitsRender(s, r)
            /\ r.kind = "unmount" => Handoff!AdmitsUnmount(s, r)
            /\ SlotsTell(slots, c)
        <5>1. CASE r.kind = "render"
          BY <1>5, <2>5, <3>3, <3>7, <5>1, ExecutorRenders DEF c
        <5>2. CASE r.kind = "unmount"
          BY <1>5, <2>5, <3>3, <3>7, <5>2, ExecutorUnmounts DEF c
        <5> QED
          BY <2>3, <4>3, <5>1, <5>2
      <4>5. accepted
        BY <2>2, <2>3, <3>3, <3>5, <3>7, <4>1, <4>2, <4>3, <4>4
      <4> HIDE DEF accepted, slots
      <4>6. t = [s EXCEPT !.slots = slots, !.lastRequestId = r.requestId,
                         !.rootHandle = r.rootHandle, !.rootId = r.rootId,
                         !.rootState = r.rootHandleState,
                         !.consumed = IF r.valueHandle = Handoff!NoHandle THEN @
                                      ELSE @ \cup {r.valueHandle}]
        BY <1>2, <4>5
      <4>7. /\ DOMAIN t = {"ok", "environmentId", "slots", "lastRequestId", "rootHandle",
                           "rootId", "rootState", "consumed"}
            /\ t.ok = TRUE /\ t.environmentId = b[1].environmentId /\ t.slots = slots
            /\ t.lastRequestId = r.requestId /\ t.rootHandle = b[1].rootHandle
            /\ t.rootId = b[1].rootId
            /\ t.rootState = IF r.kind = "unmount" THEN "retired" ELSE "active"
            /\ t.consumed = IF r.kind = "unmount" THEN s.consumed
                            ELSE s.consumed \cup {r.valueHandle}
        BY <2>2, <2>3, <3>3, <4>1, <4>3, <4>6
      <4>8. {c[j].valueHandle : j \in Valued(c)} = t.consumed
        <5>1. Valued(c) = IF r.kind = "unmount" THEN Valued(b) ELSE Valued(b) \cup {Len(b) + 1}
          BY <1>5, <2>5, <3>7, SlotsGrow DEF c
        <5>2. c[Len(b) + 1] = r /\ \A j \in Valued(b) : c[j] = b[j]
          BY LongerBatch DEF c, Valued
        <5>3. {c[j].valueHandle : j \in Valued(b)} = s.consumed
          BY <3>3, <5>2
        <5> QED
          BY <4>7, <5>1, <5>2, <5>3
      <4>9. RustTells(t, c)
        BY <1>0, <2>5, <4>4, <4>7, <4>8 DEF RustTells
      <4> QED
        BY <1>1, <1>5, <3>7, <4>7, <4>9 DEF HasOk
    <3> QED
      BY <3>6, <3>7
  <2> QED
    BY <2>4, <2>5
<1> QED
  BY <1>4, <1>5

-----------------------------------------------------------------------------
\* The roots and the requests of a bridge.
BridgeStatuses == {"created", "rendered", "unmounted"}
BridgeRoots ==
  [container : Containers, status : BridgeStatuses, renderCount : Nat,
   latest : Nat, version : Nat, admission : Nat, update : Nat]
BridgeRequests ==
  [root : Nat, op : {"create", "render", "unmount"},
   before : BridgeStatuses \cup {"none"}, count : Nat, noOp : BOOLEAN]

\* A bridge whose next slot is n numbers its handles: every slot it has given is below n, and
\* is that of one root or of one value.
NumbersHandles(b, n, rs, vs) ==
  /\ {"roots", "log"} \subseteq DOMAIN b
  /\ b.roots \in Seq(BridgeRoots) /\ b.log \in Seq(BridgeRequests) /\ n \in Nat \ {0}
  /\ rs \in Seq(Nat) /\ Len(rs) = Len(b.roots)
  /\ vs \in Seq(Nat) /\ Len(vs) = Len(b.log)
  /\ \A r \in 1 .. Len(rs) : 0 < rs[r] /\ rs[r] < n
  /\ \A r, s \in 1 .. Len(rs) : rs[r] = rs[s] => r = s
  /\ \A q \in 1 .. Len(vs) : b.log[q].root \in 1 .. Len(rs)
  /\ \A q \in 1 .. Len(vs) : b.log[q].op # "unmount" =>
       /\ 0 < vs[q] /\ vs[q] < n
       /\ \A r \in 1 .. Len(rs) : vs[q] # rs[r]
       /\ \A p \in 1 .. Len(vs) : b.log[p].op # "unmount" /\ p # q => vs[p] # vs[q]

\* The record of a request, of the parts of its bridge.
RecordOf(e, b, rs, vs, q) ==
  [requestId |-> q, kind |-> b.log[q].op, environmentId |-> e,
   rootHandle |-> Handoff!Handle(e, rs[b.log[q].root], "root"),
   rootId |-> b.log[q].root,
   valueHandle |-> IF b.log[q].op = "unmount" THEN Handoff!NoHandle
                   ELSE Handoff!Handle(e, vs[q], "value"),
   rootHandleState |-> IF b.log[q].op = "unmount" THEN "retired" ELSE "active"]

\* The bridge c is b with one more request: it takes no slot below the next one, and a new
\* root takes that one.
OneRequest(b, n, rs, c, m, ss, v, entry) ==
  /\ m \in Nat /\ ss \in Seq(Nat) /\ v \in Nat /\ entry \in BridgeRequests
  /\ {"roots", "log"} \subseteq DOMAIN c /\ c.roots \in Seq(BridgeRoots)
  /\ c.log = Append(b.log, entry) /\ Len(ss) = Len(c.roots) /\ entry.root \in 1 .. Len(ss)
  /\ n <= m /\ (entry.op # "unmount" => n <= v /\ v < m)
  /\ ss = rs \/ (ss = Append(rs, n) /\ n < m /\ v # n)

\* The requests of the bridge b have the same records in c.
KeepsRecords(b, rs, vs, c, ss, ws) ==
  \A e : \A q \in 1 .. Len(b.log) :
    q \in 1 .. Len(c.log) /\ RecordOf(e, c, ss, ws, q) = RecordOf(e, b, rs, vs, q)

\* A request keeps the numbering, and the records of the requests before it.
LEMMA RequestNumbers ==
  ASSUME NEW b, NEW n, NEW rs, NEW vs, NumbersHandles(b, n, rs, vs),
         NEW c, NEW m, NEW ss, NEW v, NEW entry, OneRequest(b, n, rs, c, m, ss, v, entry)
  PROVE  /\ NumbersHandles(c, m, ss, Append(vs, v))
         /\ KeepsRecords(b, rs, vs, c, ss, Append(vs, v))
<1> DEFINE ws == Append(vs, v)
           k == Len(vs)
<1>0. /\ m \in Nat /\ ss \in Seq(Nat) /\ v \in Nat /\ entry \in BridgeRequests
      /\ {"roots", "log"} \subseteq DOMAIN c /\ c.roots \in Seq(BridgeRoots)
      /\ c.log = Append(b.log, entry) /\ Len(ss) = Len(c.roots) /\ entry.root \in 1 .. Len(ss)
      /\ n <= m /\ (entry.op # "unmount" => n <= v /\ v < m)
      /\ ss = rs \/ (ss = Append(rs, n) /\ n < m /\ v # n)
  BY DEF OneRequest
<1>1. /\ b.roots \in Seq(BridgeRoots) /\ b.log \in Seq(BridgeRequests) /\ n \in Nat \ {0}
      /\ rs \in Seq(Nat) /\ Len(rs) = Len(b.roots)
      /\ vs \in Seq(Nat) /\ k = Len(b.log)
      /\ \A r \in 1 .. Len(rs) : 0 < rs[r] /\ rs[r] < n
      /\ \A r, s \in 1 .. Len(rs) : rs[r] = rs[s] => r = s
      /\ \A q \in 1 .. k : b.log[q].root \in 1 .. Len(rs)
      /\ \A q \in 1 .. k : b.log[q].op # "unmount" =>
           /\ 0 < vs[q] /\ vs[q] < n
           /\ \A r \in 1 .. Len(rs) : vs[q] # rs[r]
           /\ \A p \in 1 .. k : b.log[p].op # "unmount" /\ p # q => vs[p] # vs[q]
  BY DEF NumbersHandles
<1>2. /\ k \in Nat /\ ws \in Seq(Nat) /\ Len(ws) = k + 1 /\ ws[k + 1] = v
      /\ \A q \in 1 .. k : ws[q] = vs[q]
  BY <1>0, <1>1, AppendProperties, LenProperties
<1>3. /\ c.log \in Seq(BridgeRequests) /\ Len(c.log) = k + 1 /\ c.log[k + 1] = entry
      /\ \A q \in 1 .. k : c.log[q] = b.log[q]
  BY <1>0, <1>1, AppendProperties, LenProperties
<1>4. /\ Len(rs) \in Nat /\ Len(ss) \in Nat /\ 1 .. Len(rs) \subseteq 1 .. Len(ss)
      /\ \A i \in 1 .. Len(rs) : ss[i] = rs[i]
      /\ \A i \in 1 .. Len(ss) :
           i \in 1 .. Len(rs) \/ (i = Len(rs) + 1 /\ ss[i] = n /\ n < m /\ v # n)
  <2>1. CASE ss = rs
    BY <1>0, <1>1, <2>1, LenProperties
  <2>2. CASE ss = Append(rs, n) /\ n < m /\ v # n
    <3>2. n \in Nat /\ rs \in Seq(Nat)
      BY <1>0, <1>1
    <3>3. /\ Len(Append(rs, n)) = Len(rs) + 1 /\ Append(rs, n)[Len(rs) + 1] = n
          /\ \A i \in 1 .. Len(rs) : Append(rs, n)[i] = rs[i]
      BY <1>0, <3>2, AppendProperties
    <3>1. Len(rs) \in Nat /\ Len(ss) = Len(rs) + 1 /\ ss[Len(rs) + 1] = n
          /\ \A i \in 1 .. Len(rs) : ss[i] = rs[i]
      BY <1>0, <2>2, <3>2, <3>3, LenProperties
    <3> QED
      BY <1>0, <2>2, <3>1
  <2> QED
    BY <1>0, <2>1, <2>2
<1> HIDE DEF ws, k
<1>5. \A i \in 1 .. Len(rs) : rs[i] \in Nat
  BY <1>0, <1>1, ElementOfSeq
<1>6. \A q \in 1 .. k : vs[q] \in Nat
  BY <1>0, <1>1, ElementOfSeq DEF k
<1>7. ASSUME NEW i \in 1 .. Len(ss) PROVE 0 < ss[i] /\ ss[i] < m
  <2>1. n \in Nat \ {0} /\ m \in Nat /\ n <= m
    BY <1>0, <1>1
  <2>2. CASE i \in 1 .. Len(rs)
    <3>1. ss[i] = rs[i] /\ rs[i] \in Nat /\ 0 < rs[i] /\ rs[i] < n
      BY <1>1, <1>4, <1>5, <2>2
    <3> QED
      BY <2>1, <3>1
  <2>3. CASE i \notin 1 .. Len(rs)
    <3>1. ss[i] = n /\ n < m
      BY <1>4, <1>7, <2>3
    <3> QED
      BY <2>1, <3>1
  <2> QED
    BY <2>2, <2>3
<1>8. ASSUME NEW i \in 1 .. Len(ss), NEW j \in 1 .. Len(ss), ss[i] = ss[j] PROVE i = j
  <2>1. CASE i \in 1 .. Len(rs) /\ j \in 1 .. Len(rs)
    BY <1>0, <1>1, <1>4, <1>8, <2>1
  <2>2. CASE i \notin 1 .. Len(rs) /\ j \notin 1 .. Len(rs)
    BY <1>0, <1>4, <2>2
  <2>3. CASE i \in 1 .. Len(rs) /\ j \notin 1 .. Len(rs)
    <3>1. ss[i] < n /\ ss[i] \in Nat /\ ss[j] = n
      BY <1>0, <1>1, <1>4, <1>5, <2>3
    <3> QED
      BY <1>0, <1>1, <1>8, <3>1
  <2>4. CASE i \notin 1 .. Len(rs) /\ j \in 1 .. Len(rs)
    <3>1. ss[j] < n /\ ss[j] \in Nat /\ ss[i] = n
      BY <1>0, <1>1, <1>4, <1>5, <2>4
    <3> QED
      BY <1>0, <1>1, <1>8, <3>1
  <2> QED
    BY <1>0, <2>1, <2>2, <2>3, <2>4
<1>14. \A q \in 1 .. k + 1 : q \in 1 .. k \/ q = k + 1
  BY <1>0, <1>2
<1>9. \A q \in 1 .. k + 1 : c.log[q].root \in 1 .. Len(ss)
  <2> SUFFICES ASSUME NEW q \in 1 .. k + 1 PROVE c.log[q].root \in 1 .. Len(ss)
    OBVIOUS
  <2>1. CASE q \in 1 .. k
    BY <1>0, <1>1, <1>3, <1>4, <2>1
  <2>2. CASE q = k + 1
    BY <1>0, <1>3, <2>2
  <2> QED
    BY <1>0, <1>14, <2>1, <2>2
<1>15. m \in Nat /\ v \in Nat /\ n <= m /\ (entry.op # "unmount" => n <= v /\ v < m)
       /\ n \in Nat /\ k \in Nat
  BY <1>0, <1>1, <1>2
<1>10. ASSUME NEW q \in 1 .. k + 1, c.log[q].op # "unmount"
       PROVE  /\ 0 < ws[q] /\ ws[q] < m
              /\ \A i \in 1 .. Len(ss) : ws[q] # ss[i]
              /\ \A p \in 1 .. k + 1 : c.log[p].op # "unmount" /\ p # q => ws[p] # ws[q]
  <2>1. CASE q \in 1 .. k
    <3>1. /\ 0 < vs[q] /\ vs[q] < n /\ vs[q] \in Nat /\ ws[q] = vs[q]
          /\ \A r \in 1 .. Len(rs) : vs[q] # rs[r]
          /\ \A p \in 1 .. k : b.log[p].op # "unmount" /\ p # q => vs[p] # vs[q]
      BY <1>15, <1>1, <1>2, <1>3, <1>6, <1>10, <2>1
    <3>2. ASSUME NEW i \in 1 .. Len(ss) PROVE ws[q] # ss[i]
      <4>1. CASE i \in 1 .. Len(rs)
        BY <1>4, <3>1, <4>1
      <4>2. CASE i \notin 1 .. Len(rs)
        <5>1. ss[i] = n
          BY <1>4, <4>2
        <5> QED
          BY <1>15, <3>1, <5>1
      <4> QED
        BY <4>1, <4>2
    <3>3. ASSUME NEW p \in 1 .. k + 1, c.log[p].op # "unmount", p # q
          PROVE  ws[p] # ws[q]
      <4>1. CASE p \in 1 .. k
        BY <1>15, <1>2, <1>3, <3>1, <3>3, <4>1
      <4>2. CASE p = k + 1
        BY <1>15, <1>1, <1>2, <1>3, <3>1, <3>3, <4>2
      <4> QED
        BY <1>15, <1>14, <4>1, <4>2
    <3>4. 0 < ws[q] /\ ws[q] < m
      BY <1>15, <1>1, <3>1
    <3> QED
      BY <1>15, <3>2, <3>3, <3>4
  <2>2. CASE q = k + 1
    <3>1. ws[q] = v /\ n <= v /\ v < m
      BY <1>15, <1>2, <1>3, <1>10, <2>2
    <3>2. ASSUME NEW i \in 1 .. Len(ss) PROVE ws[q] # ss[i]
      <4>1. CASE i \in 1 .. Len(rs)
        <5>1. ss[i] < n /\ ss[i] \in Nat
          BY <1>1, <1>4, <1>5, <4>1
        <5> QED
          BY <1>15, <3>1, <5>1
      <4>2. CASE i \notin 1 .. Len(rs)
        <5>1. ss[i] = n /\ v # n
          BY <1>4, <4>2
        <5> QED
          BY <3>1, <5>1
      <4> QED
        BY <4>1, <4>2
    <3>3. ASSUME NEW p \in 1 .. k + 1, c.log[p].op # "unmount", p # q
          PROVE  ws[p] # ws[q]
      <4>1. p \in 1 .. k
        BY <1>15, <1>2, <2>2, <3>3
      <4>2. vs[p] < n /\ ws[p] = vs[p] /\ vs[p] \in Nat
        BY <1>15, <1>1, <1>2, <1>3, <1>6, <3>3, <4>1
      <4> QED
        BY <1>15, <1>1, <3>1, <4>2
    <3> QED
      BY <1>15, <1>1, <3>1, <3>2, <3>3
  <2> QED
    BY <1>15, <1>14, <2>1, <2>2
<1>11. NumbersHandles(c, m, ss, ws)
  <2>1. m \in Nat \ {0}
    BY <1>0, <1>1
  <2> QED
    BY <1>0, <1>2, <1>3, <1>7, <1>8, <1>9, <1>10, <2>1 DEF NumbersHandles
<1>12. ASSUME NEW e, NEW q \in 1 .. k
       PROVE  RecordOf(e, c, ss, ws, q) = RecordOf(e, b, rs, vs, q)
  <2>1. c.log[q] = b.log[q] /\ ws[q] = vs[q] /\ ss[b.log[q].root] = rs[b.log[q].root]
    BY <1>0, <1>1, <1>2, <1>3, <1>4, <1>12
  <2> QED
    BY <1>0, <2>1 DEF RecordOf
<1>13. \A q \in 1 .. k : q \in 1 .. Len(c.log)
  BY <1>0, <1>2, <1>3
<1> QED
  BY <1>1, <1>11, <1>12, <1>13 DEF ws, KeepsRecords

\* The mirror of a request is a record whose handles are those of its bridge.
LEMMA RecordIsMirror ==
  ASSUME NEW e \in Nat \ {0}, NEW b, NEW n, NEW rs, NEW vs, NumbersHandles(b, n, rs, vs),
         NEW q \in 1 .. Len(b.log)
  PROVE  RecordOf(e, b, rs, vs, q) \in MirrorRecords
<1> DEFINE r == RecordOf(e, b, rs, vs, q)
           root == b.log[q].root
<1>1. /\ b.log \in Seq(BridgeRequests) /\ rs \in Seq(Nat) /\ vs \in Seq(Nat)
      /\ Len(vs) = Len(b.log) /\ Len(b.log) \in Nat /\ root \in 1 .. Len(rs)
      /\ 0 < rs[root]
      /\ b.log[q].op # "unmount" => 0 < vs[q]
  BY LenProperties DEF NumbersHandles
<1>2. b.log[q] \in BridgeRequests /\ rs[root] \in Nat /\ vs[q] \in Nat
  BY <1>1, ElementOfSeq
<1>3. root \in Nat \ {0} /\ q \in Nat \ {0} /\ b.log[q].op \in {"create", "render", "unmount"}
  <2>1. b.log[q].op \in {"create", "render", "unmount"}
    BY <1>2 DEF BridgeRequests
  <2>2. Len(rs) \in Nat
    BY <1>1, LenProperties
  <2> HIDE DEF root
  <2>3. root \in Nat \ {0} /\ q \in Nat \ {0}
    BY <1>1, <2>2
  <2> QED
    BY <2>1, <2>3
<1>4. /\ Handoff!Handle(e, rs[root], "root") \in SomeHandles
      /\ Handoff!Handle(e, vs[q], "value") \in SomeHandles
      /\ Handoff!NoHandle \in SomeHandles
      /\ Handoff!Handle(e, rs[root], "root").slot = rs[root]
      /\ Handoff!Handle(e, vs[q], "value").slot = vs[q]
  BY <1>2 DEF Handoff!Handle, Handoff!NoHandle, SomeHandles
<1>5. /\ r.requestId = q /\ r.kind = b.log[q].op /\ r.environmentId = e
      /\ r.rootHandle = Handoff!Handle(e, rs[root], "root") /\ r.rootId = root
      /\ r.valueHandle = IF b.log[q].op = "unmount" THEN Handoff!NoHandle
                         ELSE Handoff!Handle(e, vs[q], "value")
      /\ r.rootHandleState = IF b.log[q].op = "unmount" THEN "retired" ELSE "active"
  BY DEF RecordOf
<1>6. r \in SomeRecords
  BY <1>3, <1>4 DEF RecordOf, SomeRecords
<1> HIDE DEF r
<1>7. r.rootHandleState = Handoff!ExpectedRootHandleState(r)
  BY <1>5 DEF Handoff!ExpectedRootHandleState
<1>8. /\ r.environmentId > 0 /\ r.requestId > 0 /\ r.rootId > 0
  BY <1>3, <1>5
<1>9. /\ r.rootHandle.slot = rs[root] /\ r.rootHandle.slot > 0
      /\ r.rootHandle = Handoff!Handle(r.environmentId, r.rootHandle.slot, "root")
  <2>1. r.rootHandle.slot = rs[root]
    BY <1>4, <1>5
  <2>2. rs[root] > 0
    BY <1>1, <1>2
  <2> QED
    BY <1>5, <2>1, <2>2
<1>10. r.kind = "unmount" => r.valueHandle = Handoff!NoHandle
  BY <1>5
<1>11. ASSUME r.kind # "unmount"
       PROVE  /\ r.valueHandle = Handoff!Handle(r.environmentId, r.valueHandle.slot, "value")
              /\ r.valueHandle.slot > 0
  <2>1. r.valueHandle = Handoff!Handle(e, vs[q], "value") /\ r.environmentId = e
    BY <1>5, <1>11
  <2>2. r.valueHandle.slot = vs[q]
    BY <1>4, <2>1
  <2>3. vs[q] > 0
    BY <1>1, <1>2, <1>5, <1>11
  <2> QED
    BY <2>1, <2>2, <2>3
<1>12. r \in MirrorRecords
  BY <1>6, <1>7, <1>8, <1>9, <1>10, <1>11 DEF MirrorRecords
<1> QED
  BY <1>12 DEF r

\* The mirrors of two requests of one bridge.
LEMMA RecordsConsistent ==
  ASSUME NEW e, NEW b, NEW n, NEW rs, NEW vs, NumbersHandles(b, n, rs, vs),
         NEW p \in 1 .. Len(b.log), NEW q \in 1 .. Len(b.log)
  PROVE  Consistent(RecordOf(e, b, rs, vs, p), RecordOf(e, b, rs, vs, q))
<1> DEFINE r == RecordOf(e, b, rs, vs, p)
           s == RecordOf(e, b, rs, vs, q)
<1>1. /\ Len(vs) = Len(b.log)
      /\ b.log[p].root \in 1 .. Len(rs) /\ b.log[q].root \in 1 .. Len(rs)
      /\ \A i, j \in 1 .. Len(rs) : rs[i] = rs[j] => i = j
      /\ b.log[p].op # "unmount" =>
           /\ vs[p] # rs[b.log[q].root]
           /\ b.log[q].op # "unmount" /\ p # q => vs[p] # vs[q]
  BY DEF NumbersHandles
<1>2. /\ r.requestId = p /\ r.kind = b.log[p].op
      /\ r.rootHandle.slot = rs[b.log[p].root] /\ r.rootId = b.log[p].root
      /\ r.kind # "unmount" => r.valueHandle.slot = vs[p]
  BY DEF RecordOf, Handoff!Handle
<1>3. /\ s.requestId = q /\ s.kind = b.log[q].op
      /\ s.rootHandle.slot = rs[b.log[q].root] /\ s.rootId = b.log[q].root
      /\ s.kind # "unmount" => s.valueHandle.slot = vs[q]
  BY DEF RecordOf, Handoff!Handle
<1> HIDE DEF r, s
<1>4. r.rootHandle = s.rootHandle => r.rootId = s.rootId
  BY <1>1, <1>2, <1>3
<1>5. r.kind # "unmount" =>
        /\ r.valueHandle.slot # s.rootHandle.slot
        /\ s.kind # "unmount" /\ r.requestId # s.requestId =>
             r.valueHandle.slot # s.valueHandle.slot
  BY <1>1, <1>2, <1>3
<1>6. Consistent(r, s)
  BY <1>4, <1>5 DEF Consistent
<1> QED
  BY <1>6 DEF r, s

\* createRoot of a bridge.
LEMMA CreateNumbers ==
  ASSUME NEW b, NEW n, NEW rs, NEW vs, NumbersHandles(b, n, rs, vs), NEW x \in Containers
  PROVE  LET c == Handoff!CreateClientRoot(b, x)
             ss == Append(rs, n)
             ws == Append(vs, n + 1)
         IN  NumbersHandles(c, n + 2, ss, ws) /\ KeepsRecords(b, rs, vs, c, ss, ws)
<1> DEFINE c == Handoff!CreateClientRoot(b, x)
           root == [container |-> x, status |-> "created", renderCount |-> 0,
                    latest |-> Len(b.log) + 1, version |-> 1, admission |-> 0, update |-> 0]
           entry == [root |-> Len(b.roots) + 1, op |-> "create", before |-> "none",
                     count |-> 0, noOp |-> FALSE]
           ss == Append(rs, n)
<1>1. /\ {"roots", "log"} \subseteq DOMAIN b
      /\ b.roots \in Seq(BridgeRoots) /\ b.log \in Seq(BridgeRequests) /\ n \in Nat \ {0}
      /\ rs \in Seq(Nat) /\ Len(rs) = Len(b.roots)
  BY DEF NumbersHandles
<1>2. Len(b.log) \in Nat /\ Len(b.roots) \in Nat
  BY <1>1, LenProperties
<1>3. root \in BridgeRoots /\ entry \in BridgeRequests
  BY <1>2 DEF BridgeRoots, BridgeRequests, BridgeStatuses
<1>4. /\ c.roots = Append(b.roots, root) /\ c.log = Append(b.log, entry)
      /\ DOMAIN c = DOMAIN b
  BY <1>1 DEF Handoff!CreateClientRoot, Handoff!None
<1>5. c.roots \in Seq(BridgeRoots) /\ Len(c.roots) = Len(b.roots) + 1
  BY <1>1, <1>3, <1>4, AppendProperties
<1>6. ss \in Seq(Nat) /\ Len(ss) = Len(rs) + 1
  BY <1>1, AppendProperties
<1>7. entry.root \in 1 .. Len(ss) /\ entry.op = "create"
  BY <1>1, <1>2, <1>6
<1>8. n \in Nat /\ n <= n + 2 /\ n < n + 2 /\ n <= n + 1 /\ n + 1 < n + 2 /\ n + 1 # n
      /\ n + 2 \in Nat /\ n + 1 \in Nat
  BY <1>1
<1>9. {"roots", "log"} \subseteq DOMAIN c /\ Len(ss) = Len(c.roots)
  BY <1>1, <1>4, <1>5, <1>6
<1>10. ss = rs \/ (ss = Append(rs, n) /\ n < n + 2 /\ n + 1 # n)
  BY <1>8
<1> HIDE DEF c, ss, entry, root
<1>12. OneRequest(b, n, rs, c, n + 2, ss, n + 1, entry)
  BY <1>3, <1>4, <1>5, <1>6, <1>7, <1>8, <1>9, <1>10 DEF OneRequest
<1>11. /\ NumbersHandles(c, n + 2, ss, Append(vs, n + 1))
       /\ KeepsRecords(b, rs, vs, c, ss, Append(vs, n + 1))
  BY <1>12, RequestNumbers
<1> QED
  BY <1>11 DEF c, ss

\* render and unmount of a root of a bridge.
LEMMA UpdateNumbers ==
  ASSUME NEW b, NEW n, NEW rs, NEW vs, NumbersHandles(b, n, rs, vs),
         NEW r \in 1 .. Len(b.roots), NEW op, NEW status, NEW count, NEW noOp, NEW v, NEW m,
         \/ op = "render" /\ status = "rendered" /\ v = n /\ m = n + 1
         \/ op = "unmount" /\ status = "unmounted" /\ v = 0 /\ m = n,
         count \in Nat, noOp \in BOOLEAN
  PROVE  LET c == Handoff!Request(b, r, op, status, count, noOp)
             ws == Append(vs, v)
         IN  NumbersHandles(c, m, rs, ws) /\ KeepsRecords(b, rs, vs, c, rs, ws)
<1> DEFINE c == Handoff!Request(b, r, op, status, count, noOp)
           root == [b.roots[r] EXCEPT !.status = status, !.renderCount = count,
                                      !.latest = Len(b.log) + 1,
                                      !.version = b.roots[r].version + 1]
           entry == [root |-> r, op |-> op, before |-> b.roots[r].status,
                     count |-> count, noOp |-> noOp]
<1>1. /\ {"roots", "log"} \subseteq DOMAIN b
      /\ b.roots \in Seq(BridgeRoots) /\ b.log \in Seq(BridgeRequests) /\ n \in Nat \ {0}
      /\ rs \in Seq(Nat) /\ Len(rs) = Len(b.roots)
  BY DEF NumbersHandles
<1>2. Len(b.log) \in Nat /\ Len(b.roots) \in Nat /\ b.roots[r] \in BridgeRoots
  BY <1>1, LenProperties, ElementOfSeq
<1>3. root \in BridgeRoots
  <2>1. b.roots[r].version \in Nat
    BY <1>2 DEF BridgeRoots
  <2>2. /\ b.roots[r].version + 1 \in Nat /\ Len(b.log) + 1 \in Nat
        /\ status \in BridgeStatuses /\ count \in Nat
    BY <1>2, <2>1 DEF BridgeStatuses
  <2> QED
    BY <1>2, <2>2 DEF BridgeRoots
<1>4. entry \in BridgeRequests
  BY <1>2 DEF BridgeRoots, BridgeRequests
<1>5. c.roots = [b.roots EXCEPT ![r] = root] /\ c.log = Append(b.log, entry) /\ DOMAIN c = DOMAIN b
  <2>1. c = [b EXCEPT !.roots = [b.roots EXCEPT ![r] = root], !.log = Append(b.log, entry)]
    BY DEF Handoff!Request
  <2> HIDE DEF root, entry, c
  <2> QED
    BY <1>1, <2>1
<1> HIDE DEF root, c
<1>6. c.roots \in Seq(BridgeRoots) /\ Len(c.roots) = Len(b.roots)
  BY <1>1, <1>3, <1>5, ExceptSeq
<1>7. entry.root \in 1 .. Len(rs) /\ entry.op = op
  BY <1>1
<1> HIDE DEF entry
<1>8. v \in Nat /\ m \in Nat /\ n <= m /\ (op # "unmount" => n <= v /\ v < m)
  BY <1>1
<1>9. {"roots", "log"} \subseteq DOMAIN c /\ Len(rs) = Len(c.roots)
  BY <1>1, <1>5, <1>6
<1>10. /\ NumbersHandles(c, m, rs, Append(vs, v))
       /\ KeepsRecords(b, rs, vs, c, rs, Append(vs, v))
  <2>1. OneRequest(b, n, rs, c, m, rs, v, entry)
    BY <1>1, <1>4, <1>5, <1>6, <1>7, <1>8, <1>9 DEF OneRequest
  <2> QED
    BY <2>1, RequestNumbers
<1> QED
  BY <1>10 DEF c

-----------------------------------------------------------------------------
\* The invariant of the handoff. The bridges number their handles.
BridgesNumber ==
  /\ DOMAIN bridges = BridgeEnvironments /\ DOMAIN nextSlot = BridgeEnvironments
  /\ DOMAIN rootSlots = BridgeEnvironments /\ DOMAIN valueSlots = BridgeEnvironments
  /\ \A e \in BridgeEnvironments :
       NumbersHandles(bridges[e], nextSlot[e], rootSlots[e], valueSlots[e])

\* Every record of the batch was made by a bridge.
Made(r) ==
  \E e \in BridgeEnvironments : \E q \in 1 .. Len(bridges[e].log) :
    r = RecordOf(e, bridges[e], rootSlots[e], valueSlots[e], q)
BatchIsMade == batch \in Seq(MirrorRecords) /\ \A i \in 1 .. Len(batch) : Made(batch[i])

\* The passes and the executor have gone on exactly if the batch is a lifecycle, and know then
\* what the batch says.
GatesTell ==
  /\ HasOk(shape) /\ HasOk(rows) /\ HasOk(rust)
  /\ shape.ok <=> Handoff!IsLifecycle(batch)
  /\ rows.ok <=> Handoff!IsLifecycle(batch)
  /\ rust.ok <=> Handoff!IsLifecycle(batch)
  /\ Handoff!IsLifecycle(batch) =>
       /\ ShapeTells(shape, batch) /\ RowsTell(rows, batch)
       /\ TableTells(table, batch) /\ RustTells(rust, batch)

HandoffInv == BridgesNumber /\ BatchIsMade /\ GatesTell

\* The records that the bridges have made.
LEMMA MadeRecords ==
  ASSUME BridgesNumber, NEW r, NEW s, Made(r), Made(s)
  PROVE  r \in MirrorRecords /\ Consistent(r, s)
<1>7. PICK e \in BridgeEnvironments : \E q \in 1 .. Len(bridges[e].log) :
        r = RecordOf(e, bridges[e], rootSlots[e], valueSlots[e], q)
  BY DEF Made
<1>1. PICK q \in 1 .. Len(bridges[e].log) :
        r = RecordOf(e, bridges[e], rootSlots[e], valueSlots[e], q)
  BY <1>7
<1>8. PICK f \in BridgeEnvironments : \E p \in 1 .. Len(bridges[f].log) :
        s = RecordOf(f, bridges[f], rootSlots[f], valueSlots[f], p)
  BY DEF Made
<1>2. PICK p \in 1 .. Len(bridges[f].log) :
        s = RecordOf(f, bridges[f], rootSlots[f], valueSlots[f], p)
  BY <1>8
<1>3. /\ NumbersHandles(bridges[e], nextSlot[e], rootSlots[e], valueSlots[e])
      /\ NumbersHandles(bridges[f], nextSlot[f], rootSlots[f], valueSlots[f])
      /\ e \in Nat \ {0} /\ f \in Nat \ {0}
  BY HandoffInstance DEF BridgesNumber, Handoff!HandoffBounds
<1>9. r \in MirrorRecords
  BY <1>1, <1>3, RecordIsMirror
<1>4. r \in MirrorRecords /\ s \in MirrorRecords
  BY <1>2, <1>3, <1>9, RecordIsMirror
<1>5. CASE e = f
  <2>1. p \in 1 .. Len(bridges[e].log)
        /\ s = RecordOf(e, bridges[e], rootSlots[e], valueSlots[e], p)
    BY <1>2, <1>5
  <2>2. Consistent(RecordOf(e, bridges[e], rootSlots[e], valueSlots[e], q),
                   RecordOf(e, bridges[e], rootSlots[e], valueSlots[e], p))
    BY <1>3, <2>1, RecordsConsistent
  <2> QED
    BY <1>1, <1>9, <2>1, <2>2
<1>6. CASE e # f
  <2>1. r.environmentId = e /\ s.environmentId = f
    BY <1>1, <1>2 DEF RecordOf
  <2>2. r.rootHandle # s.rootHandle
    BY <1>4, <1>6, <2>1, MirrorHandles
  <2> QED
    BY <1>4, <1>6, <2>1, <2>2 DEF Consistent
<1> QED
  BY <1>4, <1>5, <1>6

\* The batch that starts anew.
LEMMA NewBatchTells ==
  /\ Handoff!IsLifecycle(<<>>) /\ <<>> \in Seq(MirrorRecords) /\ Len(<<>>) = 0
  /\ HasOk(Handoff!NewShape) /\ HasOk(Handoff!NewRows) /\ HasOk(Handoff!NewRust)
  /\ Handoff!NewShape.ok /\ Handoff!NewRows.ok /\ Handoff!NewRust.ok
  /\ ShapeTells(Handoff!NewShape, <<>>) /\ RowsTell(Handoff!NewRows, <<>>)
  /\ TableTells(Handoff!NewTable, <<>>) /\ RustTells(Handoff!NewRust, <<>>)
<1>1. Handoff!IsLifecycle(<<>>)
  BY DEF Handoff!IsLifecycle
<1>2. <<>> \in Seq(MirrorRecords) /\ Len(<<>>) = 0
  OBVIOUS
<1>3. /\ HasOk(Handoff!NewShape) /\ HasOk(Handoff!NewRows) /\ HasOk(Handoff!NewRust)
      /\ Handoff!NewShape.ok /\ Handoff!NewRows.ok /\ Handoff!NewRust.ok
  BY DEF HasOk, Handoff!NewShape, Handoff!NewRows, Handoff!NewRust
<1>4. ShapeTells(Handoff!NewShape, <<>>) /\ RowsTell(Handoff!NewRows, <<>>)
      /\ TableTells(Handoff!NewTable, <<>>)
  BY DEF ShapeTells, RowsTell, TableTells
<1>5. RustTells(Handoff!NewRust, <<>>)
  BY DEF RustTells, Handoff!NewRust, Handoff!None
<1> QED
  BY <1>1, <1>2, <1>3, <1>4, <1>5

\* Init establishes the invariant.
LEMMA HandoffInit == Handoff!Init => HandoffInv
<1> SUFFICES ASSUME Handoff!Init PROVE HandoffInv
  OBVIOUS
<1>1. BridgesNumber
  <2>1. ASSUME NEW e \in BridgeEnvironments
        PROVE  NumbersHandles(bridges[e], nextSlot[e], rootSlots[e], valueSlots[e])
    <3>1. /\ bridges[e] = Handoff!EmptyBridge /\ nextSlot[e] = 1
          /\ rootSlots[e] = <<>> /\ valueSlots[e] = <<>>
      BY <2>1 DEF Handoff!Init
    <3>2. /\ Handoff!EmptyBridge.roots = <<>> /\ Handoff!EmptyBridge.log = <<>>
          /\ {"roots", "log"} \subseteq DOMAIN Handoff!EmptyBridge
      BY DEF Handoff!EmptyBridge
    <3> QED
      BY <3>1, <3>2 DEF NumbersHandles
  <2> QED
    BY <2>1 DEF Handoff!Init, BridgesNumber
<1>2. batch = <<>> /\ shape = Handoff!NewShape /\ table = Handoff!NewTable
      /\ rows = Handoff!NewRows /\ rust = Handoff!NewRust
  BY DEF Handoff!Init
<1>3. BatchIsMade /\ GatesTell
  BY <1>2, NewBatchTells DEF BatchIsMade, GatesTell
<1> QED
  BY <1>1, <1>3 DEF HandoffInv

\* A call on one bridge: the others, and the batch with its states, are left alone.
LEMMA CallKeeps ==
  ASSUME HandoffInv, NEW e \in BridgeEnvironments, NEW c, NEW m, NEW ss, NEW ws,
         NumbersHandles(c, m, ss, ws),
         KeepsRecords(bridges[e], rootSlots[e], valueSlots[e], c, ss, ws),
         DOMAIN bridges' = BridgeEnvironments, DOMAIN nextSlot' = BridgeEnvironments,
         DOMAIN rootSlots' = BridgeEnvironments, DOMAIN valueSlots' = BridgeEnvironments,
         bridges'[e] = c, nextSlot'[e] = m, rootSlots'[e] = ss, valueSlots'[e] = ws,
         \A f \in BridgeEnvironments \ {e} :
           /\ bridges'[f] = bridges[f] /\ nextSlot'[f] = nextSlot[f]
           /\ rootSlots'[f] = rootSlots[f] /\ valueSlots'[f] = valueSlots[f],
         UNCHANGED Handoff!gateVars
  PROVE  HandoffInv'
<1>1. BridgesNumber'
  <2>1. ASSUME NEW f \in BridgeEnvironments
        PROVE  NumbersHandles(bridges'[f], nextSlot'[f], rootSlots'[f], valueSlots'[f])
    <3>1. CASE f = e
      BY <3>1
    <3>2. CASE f # e
      BY <3>2 DEF HandoffInv, BridgesNumber
    <3> QED
      BY <3>1, <3>2
  <2> QED
    BY <2>1 DEF BridgesNumber
<1>2. UNCHANGED <<batch, shape, table, rows, rust>>
  BY DEF Handoff!gateVars
<1>3. ASSUME NEW r, Made(r) PROVE Made(r)'
  <2>1. PICK f \in BridgeEnvironments : \E q \in 1 .. Len(bridges[f].log) :
          r = RecordOf(f, bridges[f], rootSlots[f], valueSlots[f], q)
    BY <1>3 DEF Made
  <2>2. PICK q \in 1 .. Len(bridges[f].log) :
          r = RecordOf(f, bridges[f], rootSlots[f], valueSlots[f], q)
    BY <2>1
  <2>3. /\ q \in 1 .. Len(bridges'[f].log)
        /\ r = RecordOf(f, bridges'[f], rootSlots'[f], valueSlots'[f], q)
    <3>1. CASE f = e
      BY <2>2, <3>1 DEF KeepsRecords
    <3>2. CASE f # e
      BY <2>2, <3>2
    <3> QED
      BY <3>1, <3>2
  <2> QED
    BY <2>3 DEF Made
<1>4. BatchIsMade'
  BY <1>2, <1>3 DEF HandoffInv, BatchIsMade
<1>5. GatesTell'
  BY <1>2 DEF HandoffInv, GatesTell
<1> QED
  BY <1>1, <1>4, <1>5 DEF HandoffInv

\* createRoot keeps the invariant.
LEMMA CreateKeeps ==
  ASSUME HandoffInv, NEW e \in BridgeEnvironments, NEW x \in Containers,
         Handoff!createClientRoot(e, x)
  PROVE  HandoffInv'
<1> DEFINE c == Handoff!CreateClientRoot(bridges[e], x)
           n == nextSlot[e]
           ss == Append(rootSlots[e], n)
           ws == Append(valueSlots[e], n + 1)
<1>1. /\ NumbersHandles(bridges[e], n, rootSlots[e], valueSlots[e])
      /\ DOMAIN bridges = BridgeEnvironments /\ DOMAIN nextSlot = BridgeEnvironments
      /\ DOMAIN rootSlots = BridgeEnvironments /\ DOMAIN valueSlots = BridgeEnvironments
  BY DEF HandoffInv, BridgesNumber
<1>2. /\ bridges' = [bridges EXCEPT ![e] = c] /\ rootSlots' = [rootSlots EXCEPT ![e] = ss]
      /\ valueSlots' = [valueSlots EXCEPT ![e] = ws]
      /\ nextSlot' = [nextSlot EXCEPT ![e] = n + 2] /\ UNCHANGED Handoff!gateVars
  BY DEF Handoff!createClientRoot, Handoff!SlotsTaken
<1>3. /\ NumbersHandles(c, n + 2, ss, ws)
      /\ KeepsRecords(bridges[e], rootSlots[e], valueSlots[e], c, ss, ws)
  BY <1>1, CreateNumbers
<1> HIDE DEF c, ss, ws
<1>4. /\ DOMAIN bridges' = BridgeEnvironments /\ DOMAIN nextSlot' = BridgeEnvironments
      /\ DOMAIN rootSlots' = BridgeEnvironments /\ DOMAIN valueSlots' = BridgeEnvironments
      /\ bridges'[e] = c /\ nextSlot'[e] = n + 2 /\ rootSlots'[e] = ss /\ valueSlots'[e] = ws
      /\ \A f \in BridgeEnvironments \ {e} :
           /\ bridges'[f] = bridges[f] /\ nextSlot'[f] = nextSlot[f]
           /\ rootSlots'[f] = rootSlots[f] /\ valueSlots'[f] = valueSlots[f]
  BY <1>1, <1>2
<1> QED
  BY <1>2, <1>3, <1>4, CallKeeps

\* The count of a root's renders.
LEMMA RenderCounts ==
  ASSUME HandoffInv, NEW e \in BridgeEnvironments, NEW r \in Handoff!Roots(bridges[e])
  PROVE  r \in 1 .. Len(bridges[e].roots) /\ bridges[e].roots[r].renderCount \in Nat
<1>1. r \in 1 .. Len(bridges[e].roots) /\ bridges[e].roots \in Seq(BridgeRoots)
  BY DEF Handoff!Roots, HandoffInv, BridgesNumber, NumbersHandles
<1>2. bridges[e].roots[r] \in BridgeRoots
  BY <1>1, ElementOfSeq
<1> QED
  BY <1>1, <1>2 DEF BridgeRoots

\* render keeps the invariant.
LEMMA RenderKeeps ==
  ASSUME HandoffInv, NEW e \in BridgeEnvironments, NEW r \in Handoff!Roots(bridges[e]),
         Handoff!renderContainer(e, r)
  PROVE  HandoffInv'
<1> DEFINE c == Handoff!RenderContainer(bridges[e], r)
           n == nextSlot[e]
           ss == rootSlots[e]
           ws == Append(valueSlots[e], n)
           count == bridges[e].roots[r].renderCount + 1
<1>1. /\ NumbersHandles(bridges[e], n, rootSlots[e], valueSlots[e])
      /\ DOMAIN bridges = BridgeEnvironments /\ DOMAIN nextSlot = BridgeEnvironments
      /\ DOMAIN rootSlots = BridgeEnvironments /\ DOMAIN valueSlots = BridgeEnvironments
  BY DEF HandoffInv, BridgesNumber
<1>2. /\ bridges' = [bridges EXCEPT ![e] = c] /\ rootSlots' = rootSlots
      /\ valueSlots' = [valueSlots EXCEPT ![e] = ws]
      /\ nextSlot' = [nextSlot EXCEPT ![e] = n + 1] /\ UNCHANGED Handoff!gateVars
  BY DEF Handoff!renderContainer, Handoff!SlotsTaken
<1>3. r \in 1 .. Len(bridges[e].roots) /\ count \in Nat
  BY RenderCounts
<1>4. /\ NumbersHandles(c, n + 1, ss, ws)
      /\ KeepsRecords(bridges[e], rootSlots[e], valueSlots[e], c, ss, ws)
  <2>1. c = Handoff!Request(bridges[e], r, "render", "rendered", count, FALSE)
    BY DEF Handoff!RenderContainer
  <2> HIDE DEF c, count
  <2> QED
    BY <1>1, <1>3, <2>1, UpdateNumbers
<1> HIDE DEF c, ss, ws
<1>5. /\ DOMAIN bridges' = BridgeEnvironments /\ DOMAIN nextSlot' = BridgeEnvironments
      /\ DOMAIN rootSlots' = BridgeEnvironments /\ DOMAIN valueSlots' = BridgeEnvironments
      /\ bridges'[e] = c /\ nextSlot'[e] = n + 1 /\ rootSlots'[e] = ss /\ valueSlots'[e] = ws
      /\ \A f \in BridgeEnvironments \ {e} :
           /\ bridges'[f] = bridges[f] /\ nextSlot'[f] = nextSlot[f]
           /\ rootSlots'[f] = rootSlots[f] /\ valueSlots'[f] = valueSlots[f]
  BY <1>1, <1>2 DEF ss
<1> QED
  BY <1>2, <1>4, <1>5, CallKeeps

\* unmount, also of a root that was unmounted, keeps the invariant.
LEMMA UnmountKeeps ==
  ASSUME HandoffInv, NEW e \in BridgeEnvironments, NEW r \in Handoff!Roots(bridges[e]),
         Handoff!unmountContainer(e, r)
  PROVE  HandoffInv'
<1> DEFINE c == Handoff!UnmountContainer(bridges[e], r)
           n == nextSlot[e]
           ss == rootSlots[e]
           ws == Append(valueSlots[e], 0)
           count == bridges[e].roots[r].renderCount
           noOp == ~ Handoff!CanRender(bridges[e], r)
<1>1. /\ NumbersHandles(bridges[e], n, rootSlots[e], valueSlots[e])
      /\ DOMAIN bridges = BridgeEnvironments /\ DOMAIN nextSlot = BridgeEnvironments
      /\ DOMAIN rootSlots = BridgeEnvironments /\ DOMAIN valueSlots = BridgeEnvironments
  BY DEF HandoffInv, BridgesNumber
<1>2. /\ bridges' = [bridges EXCEPT ![e] = c] /\ rootSlots' = rootSlots
      /\ valueSlots' = [valueSlots EXCEPT ![e] = ws]
      /\ nextSlot' = nextSlot /\ UNCHANGED Handoff!gateVars
  BY DEF Handoff!unmountContainer, Handoff!None
<1>3. r \in 1 .. Len(bridges[e].roots) /\ count \in Nat /\ noOp \in BOOLEAN
  BY RenderCounts
<1>4. /\ NumbersHandles(c, n, ss, ws)
      /\ KeepsRecords(bridges[e], rootSlots[e], valueSlots[e], c, ss, ws)
  <2>1. c = Handoff!Request(bridges[e], r, "unmount", "unmounted", count, noOp)
    BY DEF Handoff!UnmountContainer
  <2> HIDE DEF c, count, noOp
  <2> QED
    BY <1>1, <1>3, <2>1, UpdateNumbers
<1> HIDE DEF c, ss, ws
<1>5. /\ DOMAIN bridges' = BridgeEnvironments /\ DOMAIN nextSlot' = BridgeEnvironments
      /\ DOMAIN rootSlots' = BridgeEnvironments /\ DOMAIN valueSlots' = BridgeEnvironments
      /\ bridges'[e] = c /\ nextSlot'[e] = n /\ rootSlots'[e] = ss /\ valueSlots'[e] = ws
      /\ \A f \in BridgeEnvironments \ {e} :
           /\ bridges'[f] = bridges[f] /\ nextSlot'[f] = nextSlot[f]
           /\ rootSlots'[f] = rootSlots[f] /\ valueSlots'[f] = valueSlots[f]
  BY <1>1, <1>2 DEF ss
<1> QED
  BY <1>2, <1>4, <1>5, CallKeeps

\* A delivered record takes the four states from what the batch said to what it says now.
LEMMA DeliverKeeps ==
  ASSUME HandoffInv, NEW e \in BridgeEnvironments, NEW q \in Handoff!Requests(bridges[e]),
         Handoff!deliver(e, q)
  PROVE  HandoffInv'
<1> DEFINE r == Handoff!NativeRequestRecord(e, q)
<1>1. r = RecordOf(e, bridges[e], rootSlots[e], valueSlots[e], q)
  BY DEF Handoff!NativeRequestRecord, RecordOf
<1>2. /\ batch' = Append(batch, r)
      /\ shape' = Handoff!ShapeStep(shape, r) /\ table' = Handoff!TableStep(table, r)
      /\ rows' = Handoff!RowStep(rows, r) /\ rust' = Handoff!RustStep(rust, r)
      /\ UNCHANGED <<bridges, nextSlot, rootSlots, valueSlots>>
  BY DEF Handoff!deliver, Handoff!bridgeVars
<1> HIDE DEF r
<1>3. Made(r)
  BY <1>1 DEF Made, Handoff!Requests
<1>4. /\ BridgesNumber /\ BatchIsMade /\ GatesTell
      /\ batch \in Seq(MirrorRecords) /\ \A i \in 1 .. Len(batch) : Made(batch[i])
  BY DEF HandoffInv, BatchIsMade
<1>5. r \in MirrorRecords /\ Consistent(r, r) /\ \A i \in 1 .. Len(batch) : Consistent(r, batch[i])
  BY <1>3, <1>4, MadeRecords
<1>6. BridgesNumber'
  BY <1>2, <1>4 DEF BridgesNumber
<1>7. BatchIsMade'
  <2>1. \A x : Made(x) => Made(x)'
    BY <1>2 DEF Made
  <2>2. /\ Len(batch) \in Nat /\ Append(batch, r) \in Seq(MirrorRecords)
        /\ Len(Append(batch, r)) = Len(batch) + 1 /\ Append(batch, r)[Len(batch) + 1] = r
        /\ \A i \in 1 .. Len(batch) : Append(batch, r)[i] = batch[i]
    BY <1>4, <1>5, LongerBatch
  <2>3. ASSUME NEW i \in 1 .. Len(batch) + 1 PROVE Made(Append(batch, r)[i])
    <3>1. CASE i \in 1 .. Len(batch)
      BY <1>4, <2>2, <3>1
    <3>2. CASE i = Len(batch) + 1
      BY <1>3, <2>2, <3>2
    <3> QED
      BY <2>2, <3>1, <3>2
  <2> QED
    BY <1>2, <2>1, <2>2, <2>3 DEF BatchIsMade
<1>8. /\ HasOk(shape) /\ HasOk(rows) /\ HasOk(rust)
      /\ shape.ok <=> Handoff!IsLifecycle(batch)
      /\ rows.ok <=> Handoff!IsLifecycle(batch)
      /\ rust.ok <=> Handoff!IsLifecycle(batch)
      /\ Handoff!IsLifecycle(batch) =>
           /\ ShapeTells(shape, batch) /\ RowsTell(rows, batch)
           /\ TableTells(table, batch) /\ RustTells(rust, batch)
  BY <1>4 DEF GatesTell
<1>9. /\ HasOk(shape') /\ (shape'.ok <=> Handoff!IsLifecycle(Append(batch, r)))
      /\ Handoff!IsLifecycle(Append(batch, r)) => ShapeTells(shape', Append(batch, r))
  BY <1>2, <1>4, <1>5, <1>8, ShapeFollows
<1>10. /\ HasOk(rows') /\ (rows'.ok <=> Handoff!IsLifecycle(Append(batch, r)))
       /\ Handoff!IsLifecycle(Append(batch, r)) => RowsTell(rows', Append(batch, r))
  BY <1>2, <1>4, <1>5, <1>8, RowsFollow
<1>11. /\ HasOk(rust') /\ (rust'.ok <=> Handoff!IsLifecycle(Append(batch, r)))
       /\ Handoff!IsLifecycle(Append(batch, r)) => RustTells(rust', Append(batch, r))
  BY <1>2, <1>4, <1>5, <1>8, ExecutorFollows
<1>12. Handoff!IsLifecycle(Append(batch, r)) => TableTells(table', Append(batch, r))
  BY <1>2, <1>4, <1>5, <1>8, LifecycleGrows, TableFollows
<1>13. GatesTell'
  BY <1>2, <1>9, <1>10, <1>11, <1>12 DEF GatesTell
<1> QED
  BY <1>6, <1>7, <1>13 DEF HandoffInv

\* A new batch keeps the invariant.
LEMMA NewBatchKeeps ==
  ASSUME HandoffInv, Handoff!newBatch
  PROVE  HandoffInv'
<1>1. /\ batch' = <<>> /\ shape' = Handoff!NewShape /\ table' = Handoff!NewTable
      /\ rows' = Handoff!NewRows /\ rust' = Handoff!NewRust
      /\ UNCHANGED <<bridges, nextSlot, rootSlots, valueSlots>>
  BY DEF Handoff!newBatch, Handoff!bridgeVars
<1>2. BridgesNumber'
  BY <1>1 DEF HandoffInv, BridgesNumber
<1>3. BatchIsMade' /\ GatesTell'
  BY <1>1, NewBatchTells DEF BatchIsMade, GatesTell
<1> QED
  BY <1>2, <1>3 DEF HandoffInv

\* Every step keeps the invariant.
LEMMA HandoffStep == HandoffInv /\ [Handoff!Next]_(Handoff!vars) => HandoffInv'
<1> SUFFICES ASSUME HandoffInv, [Handoff!Next]_(Handoff!vars) PROVE HandoffInv'
  OBVIOUS
<1>1. CASE UNCHANGED Handoff!vars
  <2>1. UNCHANGED <<bridges, nextSlot, rootSlots, valueSlots, batch, shape, table, rows, rust>>
    BY <1>1 DEF Handoff!vars
  <2> QED
    BY <2>1 DEF HandoffInv, BridgesNumber, BatchIsMade, Made, GatesTell
<1>2. CASE Handoff!newBatch
  BY <1>2, NewBatchKeeps
<1>3. ASSUME NEW e \in BridgeEnvironments, NEW x \in Containers, Handoff!createClientRoot(e, x)
      PROVE  HandoffInv'
  BY <1>3, CreateKeeps
<1>4. ASSUME NEW e \in BridgeEnvironments, NEW r \in Handoff!Roots(bridges[e]),
             Handoff!renderContainer(e, r) \/ Handoff!unmountContainer(e, r)
      PROVE  HandoffInv'
  BY <1>4, RenderKeeps, UnmountKeeps
<1>5. ASSUME NEW e \in BridgeEnvironments, NEW q \in Handoff!Requests(bridges[e]),
             Handoff!deliver(e, q)
      PROVE  HandoffInv'
  BY <1>5, DeliverKeeps
<1> QED
  BY <1>1, <1>2, <1>3, <1>4, <1>5 DEF Handoff!Next

\* The invariant says what the gate and the executor accept, and how their tables compare.
LEMMA HandoffInvTells == HandoffInv => AcceptsExactlyLifecycles
<1> SUFFICES ASSUME HandoffInv PROVE AcceptsExactlyLifecycles
  OBVIOUS
<1>1. /\ batch \in Seq(MirrorRecords) /\ HasOk(shape) /\ HasOk(rows) /\ HasOk(rust)
      /\ shape.ok <=> Handoff!IsLifecycle(batch)
      /\ rows.ok <=> Handoff!IsLifecycle(batch)
      /\ rust.ok <=> Handoff!IsLifecycle(batch)
      /\ Handoff!IsLifecycle(batch) => TableTells(table, batch) /\ RustTells(rust, batch)
  BY DEF HandoffInv, BatchIsMade, GatesTell
<1>2. Handoff!AcceptsExactlyLifecycles
  BY <1>1 DEF Handoff!AcceptsExactlyLifecycles
<1>3. Handoff!IsLifecycle(batch) => table.ok
  BY <1>1 DEF TableTells, GateTable, Handoff!NewTable
<1>4. Handoff!GatesAgree
  BY <1>1, <1>3 DEF Handoff!GatesAgree, Handoff!GateAccepts
<1>5. ASSUME rust.ok
      PROVE  /\ \A i \in DOMAIN table.slots :
                  /\ i \in DOMAIN rust.slots
                  /\ rust.slots[i].occupied = (table.slots[i].state = "occupied")
                  /\ rust.slots[i].generation = table.slots[i].generation
                  /\ rust.slots[i].occupied => rust.slots[i].kind = table.slots[i].kind
             /\ \A i \in DOMAIN rust.slots : rust.slots[i].occupied => i \in DOMAIN table.slots
  <2>1. Handoff!IsLifecycle(batch) /\ TableTells(table, batch) /\ RustTells(rust, batch)
    BY <1>1, <1>5
  <2>2. CASE batch = <<>>
    <3>1. table.slots = <<>> /\ rust.slots = <<>>
      BY <2>1, <2>2 DEF TableTells, RustTells, Handoff!NewTable
    <3> QED
      BY <3>1
  <2>3. CASE batch # <<>>
    <3> DEFINE root == batch[1].rootHandle.slot
    <3>1. SlotsTell(rust.slots, batch)
      BY <2>1, <2>3 DEF RustTells
    <3>2. table.slots = [i \in HandleSlots(batch) |-> TableRow(batch, i)]
      BY <2>1, <2>3 DEF TableTells, GateTable
    <3>3. /\ DOMAIN rust.slots = 1 .. Len(rust.slots)
          /\ HandleSlots(batch) \subseteq 1 .. Len(rust.slots)
          /\ rust.slots[root] = IF Ended(batch) THEN Handoff!Vacant(2)
                                ELSE Handoff!Entry(1, "root", batch[1].rootId)
          /\ \A j \in Valued(batch) : rust.slots[batch[j].valueHandle.slot] =
               Handoff!Entry(1, "value", batch[j].requestId)
          /\ \A i \in 1 .. Len(rust.slots) :
               i \notin HandleSlots(batch) => rust.slots[i] = Handoff!Vacant(1)
      BY <3>1, LenProperties DEF SlotsTell
    <3>4. ASSUME NEW i \in HandleSlots(batch)
          PROVE  /\ i \in DOMAIN rust.slots
                 /\ rust.slots[i].occupied = (table.slots[i].state = "occupied")
                 /\ rust.slots[i].generation = table.slots[i].generation
                 /\ rust.slots[i].occupied => rust.slots[i].kind = table.slots[i].kind
      <4>1. i \in DOMAIN rust.slots /\ table.slots[i] = TableRow(batch, i)
        BY <3>2, <3>3, <3>4
      <4>2. CASE i = root /\ Ended(batch)
        <5>1. rust.slots[i] = Handoff!Vacant(2)
          BY <3>3, <4>2
        <5>2. rust.slots[i].occupied = FALSE /\ rust.slots[i].generation = 2
          BY <5>1 DEF Handoff!Vacant
        <5>3. table.slots[i].state = "vacant" /\ table.slots[i].generation = 2
          BY <4>1, <4>2 DEF TableRow
        <5> QED
          BY <4>1, <5>2, <5>3
      <4>3. CASE i = root /\ ~ Ended(batch)
        <5>1. rust.slots[i] = Handoff!Entry(1, "root", batch[1].rootId)
          BY <3>3, <4>3
        <5>2. rust.slots[i].occupied = TRUE /\ rust.slots[i].generation = 1
              /\ rust.slots[i].kind = "root"
          BY <5>1 DEF Handoff!Entry
        <5>3. table.slots[i].state = "occupied" /\ table.slots[i].generation = 1
              /\ table.slots[i].kind = "root"
          BY <4>1, <4>3 DEF TableRow
        <5> QED
          BY <4>1, <5>2, <5>3
      <4>4. CASE i # root
        <5>1. PICK j \in Valued(batch) : i = batch[j].valueHandle.slot
          BY <3>4, <4>4 DEF HandleSlots
        <5>2. rust.slots[i] = Handoff!Entry(1, "value", batch[j].requestId)
          BY <3>3, <5>1
        <5>3. rust.slots[i].occupied = TRUE /\ rust.slots[i].generation = 1
              /\ rust.slots[i].kind = "value"
          BY <5>2 DEF Handoff!Entry
        <5>4. table.slots[i].state = "occupied" /\ table.slots[i].generation = 1
              /\ table.slots[i].kind = "value"
          BY <4>1, <4>4 DEF TableRow
        <5> QED
          BY <4>1, <5>3, <5>4
      <4> QED
        BY <4>2, <4>3, <4>4
    <3>5. ASSUME NEW i \in DOMAIN rust.slots, i \notin HandleSlots(batch)
          PROVE  rust.slots[i].occupied = FALSE
      BY <3>3, <3>5 DEF Handoff!Vacant
    <3>6. DOMAIN table.slots = HandleSlots(batch)
      BY <3>2
    <3> QED
      BY <3>4, <3>5, <3>6
  <2> QED
    BY <2>2, <2>3
<1>6. Handoff!TablesAgree
  BY <1>5 DEF Handoff!TablesAgree
<1> QED
  BY <1>2, <1>4, <1>6 DEF AcceptsExactlyLifecycles

\* Whatever the transport loses, repeats or reorders, for any number of bridges, roots, requests
\* and records: the executor accepts exactly the batches that are the lifecycle of one root, the
\* three passes of the JavaScript gate accept the same ones, and the handle tables of the two
\* sides then hold the same handles.
THEOREM HandoffExact == Handoff!Spec => []AcceptsExactlyLifecycles
<1>1. Handoff!Spec => []HandoffInv
  BY HandoffInit, HandoffStep, PTL DEF Handoff!Spec
<1> QED
  BY <1>1, HandoffInvTells, PTL

\* The two parts of the native side leave each other alone, so every behaviour that the run
\* checks has the properties of both: a handle resolves to its own record only, and exactly the
\* lifecycles are accepted.
THEOREM NativeSideCorrect == NativeSpec => [](ResolvesToItsRecord /\ AcceptsExactlyLifecycles)
<1> DEFINE NInv == IInv /\ HandoffInv
<1>1. NativeInit => NInv
  BY InitInvariant, HandoffInit DEF NativeInit
<1>2. NInv /\ [TablesNext \/ HandoffNext]_<<vars, handoffVars, part>> => NInv'
  <2> SUFFICES ASSUME IInv, HandoffInv,
                      [TablesNext \/ HandoffNext]_<<vars, handoffVars, part>>
               PROVE  NInv'
    OBVIOUS
  <2>1. [Next]_vars
    BY DEF TablesNext, HandoffNext
  <2>2. [Handoff!Next]_(Handoff!vars)
    BY DEF TablesNext, HandoffNext, handoffVars, Handoff!vars
  <2> QED
    BY <2>1, <2>2, NextInvariant, HandoffStep
<1>3. NInv => ResolvesToItsRecord /\ AcceptsExactlyLifecycles
  BY InvariantResolves, HandoffInvTells
<1> QED
  BY <1>1, <1>2, <1>3, PTL DEF NativeSpec
=============================================================================
