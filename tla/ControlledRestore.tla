------------------------- MODULE ControlledRestore -------------------------
(***************************************************************************)
(* The controlled restore queue of react-dom                               *)
(* (src/packages/react-dom/src/client/controlled-restore-queue.js): after  *)
(* an event the user's edit of a controlled input is undone by writing the *)
(* input's latest props back.  A gate breaks the restore into records that *)
(* its caller makes one by one: an intent from a dispatched event or from  *)
(* an observed edit, a write preflight over intents, its write execution   *)
(* and flush blocker, the wrapper mutation intent of the two, for input    *)
(* and change events a bridge to the event's extraction preflight, and the *)
(* execution that writes the control.  Renders and edits happen between    *)
(* any two of them, and records of another gate, another event or another  *)
(* preflight may be offered at every step.  A call that is refused throws  *)
(* before it takes a sequence and changes nothing.  An execution that is   *)
(* not refused takes its sequence first; reading, converting, writing or   *)
(* reading back the value can then throw, which loses the sequence and,    *)
(* when the control was written before, leaves it written.                 *)
(*                                                                         *)
(* A record is named by <<gate, sequence>>.  Its request id is the         *)
(* sequence after a prefix that two gates share by default, so the code's  *)
(* comparisons of request ids are comparisons of sequences.  An event      *)
(* stands for its dispatch record, the listener lookup in it and the       *)
(* extraction preflight made of it.  All controlled props of one kind of   *)
(* control are taken to have the same keys.                                *)
(***************************************************************************)
EXTENDS Naturals, Sequences, FiniteSets

CONSTANTS
    Gates, Nodes,
    Kind,           \* [Nodes -> the kind of the control]
    MaxProps,       \* bound on the props objects of all nodes together
    MaxEvents,      \* bound on the dispatched events
    MaxEdits,       \* bound on the nodes that are edited
    MaxOf,          \* bound on the records of each class, of all gates together
    MaxRecords,     \* bound on the records of all classes
    MaxRows         \* bound on the intents of one preflight

VARIABLES
    history,    \* per node, whether each of its props objects controls it; the
                \* last one is the node's latest props
    edited,     \* the nodes of which a changed observation exists
    events,     \* the dispatched events: each the <<node, version>> found for it
    listening,  \* the root's listener registration is still the current one
    records,    \* per gate, its records by sequence
    written     \* per control object, the props last written to it, or Unwritten

vars == <<history, edited, events, listening, records, written>>

\* The kinds of controls whose intents a write preflight accepts, and of which
\* the two executions take their own.
InputKinds == {"text", "checkbox"}
FakeDomKinds == {"textarea", "select"}
RestoreKinds == InputKinds \union FakeDomKinds \union {"radio"}

\* Host tag and controlled prop of a kind: all that an observation and a lookup
\* are compared by.
Control(kind) ==
    <<IF kind \in FakeDomKinds THEN kind ELSE "input",
      IF kind \in {"checkbox", "radio"} THEN "checked" ELSE "value">>

\* The intents of events, the intents of observations, and the other records.
Classes == {"event", "observation", "preflight", "write", "blocker", "wrapper",
            "bridge", "execution", "live", "lost"}

\* A control that no restore has written.
Unwritten == <<>>

ControlledRestoreAssumption ==
    /\ Kind \in [Nodes -> RestoreKinds]
    /\ {MaxProps, MaxEvents, MaxEdits, MaxRecords, MaxRows} \subseteq Nat
    /\ MaxOf \in [Classes -> Nat]

Lookups == UNION {{n} \X DOMAIN history[n] : n \in Nodes}
Controls(lookup) == history[lookup[1]][lookup[2]]

-----------------------------------------------------------------------------
(***************************************************************************)
(* Records                                                                 *)
(***************************************************************************)
Refs == UNION {{g} \X DOMAIN records[g] : g \in Gates}
At(ref) == records[ref[1]][ref[2]]
Of(type) == {ref \in Refs : At(ref).type = type}
RequestId(ref) == ref[2]

\* A preflight, a write execution or a flush blocker stands for these rows.
Rows(ref) == IF At(ref).type = "preflight" THEN At(ref).rows
             ELSE At(At(ref).preflight).rows

\* Mutant: two gates number their records alike.
FromAnyGate(g, ref) == ref[2] \in DOMAIN records[g]

\* assertControlledRestoreRecordFromGate
FromGate(g, ref) == ref[1] = g

Class(record) == IF record.type = "intent" THEN record.source ELSE record.type

\* The next sequence of gate g goes to a record; the control objects may change with it.
Sequence(g, record) ==
    /\ Cardinality(Refs) < MaxRecords
    /\ Cardinality({ref \in Refs : Class(At(ref)) = Class(record)}) < MaxOf[Class(record)]
    /\ records' = [records EXCEPT ![g] = Append(@, record)]
    /\ UNCHANGED <<history, edited, events, listening>>

Record(g, record) == Sequence(g, record) /\ UNCHANGED written

\* The sequence of an execution that throws: no record has it.
Lost == [type |-> "lost"]

Write(target, value) == written' = [written EXCEPT ![target] = value]

\* executeInputChangeEventControlledRestoreOnFakeDom, executePostEventRestoreOnFakeDomTarget:
\* the control is read, the value converted and written, and the control read back.
WriteControl(g, record) ==
    \/ Sequence(g, record) /\ Write(record.target, record.value)
    \/ Sequence(g, Lost) /\ (UNCHANGED written \/ Write(record.target, record.value))

-----------------------------------------------------------------------------
(***************************************************************************)
(* The world around the gates                                              *)
(***************************************************************************)
Init ==
    /\ history \in [Nodes -> {<<TRUE>>, <<FALSE>>}]
    /\ edited = {}
    /\ events = <<>>
    /\ listening = TRUE
    /\ records = [g \in Gates |-> <<>>]
    /\ written = [n \in Nodes |-> Unwritten]

\* A commit gives node n new latest props, which control it or do not.
Render(n, controlled) ==
    /\ Cardinality(Lookups) < MaxProps
    /\ history' = [history EXCEPT ![n] = Append(@, controlled)]
    /\ UNCHANGED <<edited, events, listening, records, written>>

\* The user edits a control and its value tracker observes the change.
Edit(n) ==
    /\ Cardinality(edited) < MaxEdits
    /\ edited' = edited \union {n}
    /\ UNCHANGED <<history, events, listening, records, written>>

\* An input or change event at n; its lookup takes the latest props of n.
Dispatch(n) ==
    /\ listening
    /\ Len(events) < MaxEvents
    /\ events' = Append(events, <<n, Len(history[n])>>)
    /\ UNCHANGED <<history, edited, listening, records, written>>

\* The listener registration that dispatched the events is replaced or removed.
StopListening ==
    /\ listening
    /\ listening' = FALSE
    /\ UNCHANGED <<history, edited, events, records, written>>

-----------------------------------------------------------------------------
(***************************************************************************)
(* From the intent to the wrapper mutation intent                          *)
(***************************************************************************)
RecordIntentFromEvent(g, e) ==
    Record(g, [type |-> "intent", source |-> "event", event |-> e,
               lookup |-> events[e], kind |-> Kind[events[e][1]],
               recorded |-> Controls(events[e])])

\* The observation of n and the lookup are the caller's to pair: they agree when
\* host tag and controlled prop do.
RecordIntentFromObservation(g, n, changed, lookup) ==
    /\ changed => n \in edited
    /\ Record(g, [type |-> "intent", source |-> "observation", event |-> 0,
                  lookup |-> lookup, kind |-> Kind[n],
                  recorded |-> /\ changed
                               /\ Controls(lookup)
                               /\ Control(Kind[lookup[1]]) = Control(Kind[n])])

\* normalizePostEventRestoreQueueWritePreflightRecords
PreflightAccepts(g, intents) ==
    /\ intents # <<>>
    /\ \A i \in DOMAIN intents : FromGate(g, intents[i]) /\ At(intents[i]).recorded

PreflightWrites(g, intents) ==
    /\ PreflightAccepts(g, intents)
    /\ Record(g, [type |-> "preflight", rows |-> intents])

RecordWriteExecution(g, p) ==
    /\ FromGate(g, p)
    /\ Record(g, [type |-> "write", preflight |-> p])

RecordFlushBlocker(g, p) ==
    /\ FromGate(g, p)
    /\ Record(g, [type |-> "blocker", preflight |-> p])

\* getPostEventRestoreQueueWrapperMutationIntentRejectionReason
WrapperAccepts(w, b) ==
    /\ RequestId(At(w).preflight) = RequestId(At(b).preflight)
    /\ Len(Rows(w)) = Len(Rows(b))
    /\ \A i \in DOMAIN Rows(w) :
         /\ RequestId(Rows(w)[i]) = RequestId(Rows(b)[i])
         /\ At(Rows(w)[i]).kind = At(Rows(b)[i]).kind

RecordWrapperMutationIntent(g, w, b) ==
    /\ FromGate(g, w)
    /\ FromGate(g, b)
    /\ WrapperAccepts(w, b)
    /\ Record(g, [type |-> "wrapper", write |-> w, blocker |-> b])

-----------------------------------------------------------------------------
(***************************************************************************)
(* Input and change events: the bridge, the execution and the live         *)
(* preflight                                                               *)
(***************************************************************************)

\* getInputChangeEventExtractionPreflightBridgeRejectionReason: the event still
\* belongs to the current listeners, and its target is controlled.
ExtractionAccepted(e) ==
    /\ listening
    /\ Kind[events[e][1]] \in InputKinds
    /\ Controls(events[e])

\* The intent was recorded from the very dispatch the extraction preflight is of.
SameDispatch(intent, e) ==
    /\ At(intent).source = "event"
    /\ At(intent).event = e

RecordInputChangeBridge(g, e, intent, p) ==
    /\ ExtractionAccepted(e)
    /\ FromGate(g, intent)
    /\ FromGate(g, p)
    /\ \E i \in DOMAIN Rows(p) : RequestId(Rows(p)[i]) = RequestId(intent)
    /\ At(intent).recorded
    /\ SameDispatch(intent, e)
    /\ Record(g, [type |-> "bridge", event |-> e, intent |-> intent, preflight |-> p])

\* The node's latest props are still the object that the lookup found.
LatestPropsFresh(lookup) == lookup[2] = Len(history[lookup[1]])

\* The part the two executions share: write execution w, flush blocker f and
\* wrapper mutation intent x stand for one preflight with one row, the intent's.
OneRestore(intent, w, f, x) ==
    LET preflights == {At(w).preflight, At(f).preflight, At(At(x).write).preflight}
    IN  /\ \A p, q \in preflights : RequestId(p) = RequestId(q)
        /\ RequestId(At(x).write) = RequestId(w)
        /\ RequestId(At(x).blocker) = RequestId(f)
        /\ \A ref \in {w, f, At(x).write} : Len(Rows(ref)) = 1
        /\ \A ref \in {w, At(x).write} :
             /\ RequestId(Rows(ref)[1]) = RequestId(intent)
             /\ At(Rows(ref)[1]).kind = At(intent).kind

\* getInputChangeEventRestoreQueueExecutionRejectionReason, and the validation of
\* the latest props that it asks for.
InputChangeAccepts(e, b, w, f, x) ==
    LET intent == At(b).intent
    IN  /\ ExtractionAccepted(e)
        /\ LatestPropsFresh(events[e])
        /\ Kind[events[e][1]] = At(intent).kind
        /\ RequestId(At(w).preflight) = RequestId(At(b).preflight)
        /\ RequestId(Rows(At(b).preflight)[1]) = RequestId(intent)
        /\ OneRestore(intent, w, f, x)

\* The target is the caller's: nothing ties the object that is written to the
\* node of the event.
RecordInputChangeExecution(g, e, b, w, f, x, target) ==
    /\ \A ref \in {b, w, f, x} : FromGate(g, ref)
    /\ At(b).event = e
    /\ InputChangeAccepts(e, b, w, f, x)
    /\ WriteControl(g, [type |-> "execution", intent |-> At(b).intent, write |-> w,
                        blocker |-> f, wrapper |-> x, value |-> events[e],
                        target |-> target])

\* The preflight for a live node writes nothing, and its event need not be the
\* bridge's.
PreflightLiveMutation(g, e, b, w, f, x) ==
    /\ \A ref \in {b, w, f, x} : FromGate(g, ref)
    /\ InputChangeAccepts(e, b, w, f, x)
    /\ Record(g, [type |-> "live", intent |-> At(b).intent, write |-> w,
                  blocker |-> f, wrapper |-> x, value |-> events[e]])

-----------------------------------------------------------------------------
(***************************************************************************)
(* Observed edits: the execution for textarea and select                   *)
(***************************************************************************)
\* The lookup is the caller's too: it is compared with the intent by host tag,
\* controlled prop and keys.
RecordFakeDomExecution(g, lookup, intent, w, f, x, target) ==
    /\ \A ref \in {intent, w, f, x} : FromGate(g, ref)
    /\ At(intent).source = "observation"
    /\ At(intent).recorded
    /\ At(intent).kind \in FakeDomKinds
    /\ LatestPropsFresh(lookup)
    /\ Kind[lookup[1]] = At(intent).kind
    /\ Controls(lookup)
    /\ OneRestore(intent, w, f, x)
    /\ WriteControl(g, [type |-> "execution", intent |-> intent, write |-> w,
                        blocker |-> f, wrapper |-> x, value |-> lookup,
                        target |-> target])

-----------------------------------------------------------------------------
Intents == UNION {[1..n -> Of("intent")] : n \in 0..MaxRows}

World ==
    \/ \E n \in Nodes, controlled \in BOOLEAN : Render(n, controlled)
    \/ \E n \in Nodes : Edit(n) \/ Dispatch(n)
    \/ StopListening

Prepare(g) ==
    \/ \E e \in DOMAIN events : RecordIntentFromEvent(g, e)
    \/ \E n \in Nodes, changed \in BOOLEAN, lookup \in Lookups :
          RecordIntentFromObservation(g, n, changed, lookup)
    \/ \E intents \in Intents : PreflightWrites(g, intents)
    \/ \E p \in Of("preflight") :
          RecordWriteExecution(g, p) \/ RecordFlushBlocker(g, p)
    \/ \E w \in Of("write"), b \in Of("blocker") :
          RecordWrapperMutationIntent(g, w, b)
    \/ \E e \in DOMAIN events, intent \in Of("intent"), p \in Of("preflight") :
          RecordInputChangeBridge(g, e, intent, p)

Execute(g) ==
    \E w \in Of("write"), f \in Of("blocker"), x \in Of("wrapper") :
        \/ \E e \in DOMAIN events, b \in Of("bridge") :
              \/ \E target \in Nodes :
                    RecordInputChangeExecution(g, e, b, w, f, x, target)
              \/ PreflightLiveMutation(g, e, b, w, f, x)
        \/ \E lookup \in Lookups, intent \in Of("intent"), target \in Nodes :
              RecordFakeDomExecution(g, lookup, intent, w, f, x, target)

Next == World \/ \E g \in Gates : Prepare(g) \/ Execute(g)

Spec == Init /\ [][Next]_vars

-----------------------------------------------------------------------------
(***************************************************************************)
(* Properties                                                              *)
(***************************************************************************)

Restores == {"execution", "live"}

\* The i-th record of gate g was made by one chain: every record it names is of this gate and
\* older, and they all stand for the one preflight whose only row is its intent.
OneChain(g, i) ==
    LET e == records[g][i]
        p == At(e.write).preflight
    IN  /\ \A ref \in {e.intent, e.write, e.blocker, e.wrapper, p} :
             ref \in Refs /\ ref[1] = g /\ ref[2] < i
        /\ At(p).rows = <<e.intent>>
        /\ At(e.blocker).preflight = p
        /\ At(e.wrapper).write = e.write /\ At(e.wrapper).blocker = e.blocker

\* What record e writes is meant for the edit it was made for: its intent was accepted and
\* is of the same kind of control; the execution of an event has the props found for that
\* very event.
WritesForItsEdit(e) ==
    /\ At(e.intent).recorded /\ Kind[e.value[1]] = At(e.intent).kind
    /\ e.type = "execution" /\ At(e.intent).source = "event" => e.value = At(e.intent).lookup

\* A restore stands for one edit of one gate, although two gates give their records the
\* same ids and the caller may offer records of either: the intent, the preflight, the
\* write execution, the flush blocker and the wrapper mutation intent that it names belong
\* together, and none is of a sequence that a throwing execution has lost.
EachIsOfOneEdit ==
    \A g \in Gates : \A i \in DOMAIN records[g] :
        records[g][i].type \in Restores => OneChain(g, i) /\ WritesForItsEdit(records[g][i])

\* No step makes a restore that is not of one edit, or spoils one that was.
RestoresAreOfOneEdit == [][EachIsOfOneEdit']_vars

\* A control to which the props of a node were written never gets older props of that node,
\* also when an execution threw after it had written: no restore undoes a render.
NoRestoreGoesBack ==
    [][\A n \in Nodes :
          /\ written[n] # Unwritten /\ written'[n] # Unwritten
          /\ written'[n][1] = written[n][1]
          => written'[n][2] >= written[n][2]]_vars

=============================================================================
