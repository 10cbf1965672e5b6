--------------------------- MODULE EventDispatch ----------------------------
(***************************************************************************)
(* The dispatch of native events to listeners (packages/react-dom/src/      *)
(* events/plugin-event-system.js, listener-registry.js).                    *)
(*                                                                          *)
(* A native event makes a dispatch record in the capture phase and one in   *)
(* the bubble phase; a record holds the listeners found on the path from    *)
(* the target to the root. A call then takes a list of records, any of them *)
(* and in any order, and invokes their listeners; it keeps for the whole    *)
(* list which event was stopped last, and forgets that at a record of       *)
(* another event. A listener may throw, stop the event, stop the native event at  *)
(* once, register and remove listeners, and call the dispatch again: the    *)
(* calls under way are a stack. A second kind of call invokes only accepted *)
(* listeners, all of which have to be found, fresh, in the records.         *)
(*                                                                          *)
(* Both diagnostics that give an event its stop methods are enabled.        *)
(***************************************************************************)
EXTENDS Naturals, Sequences, FiniteSets, SequencesExt

CONSTANTS
  Path,        \* the nodes from the target of the events to the root
  PropNodes,   \* the nodes whose props have listeners of both phases
  Events,      \* the native events
  NoEvent, NoNode,
  Queues,      \* the lists of records, by number, that callers hand over
  MaxListeners, MaxRecords, MaxCalls, MaxDepth, MaxStops   \* bounds

Nodes == ToSet(Path)

EventConstants ==
  /\ PropNodes \subseteq Nodes /\ NoEvent \notin Events /\ NoNode \notin Nodes
  /\ Queues \subseteq Seq(1 .. MaxRecords)
  /\ {MaxListeners, MaxRecords, MaxCalls, MaxDepth, MaxStops} \subseteq Nat

VARIABLES
  registry,   \* the private queue entries, in the order they were registered
  immediate,  \* how often each native event was stopped at once
  records,    \* the dispatch records
  calls,      \* the calls under way, the outermost first
  made        \* the number of calls

vars == <<registry, immediate, records, calls, made>>

Init ==
  /\ registry = <<>>
  /\ immediate = [e \in Events |-> 0]
  /\ records = <<>>
  /\ calls = <<>>
  /\ made = 0

----------------------------------------------------------------------------
(* Registration, and the records of an event.                               *)

Top == Last(calls)
Listening == calls # <<>> /\ Top.running
\* Code other than the dispatch runs at the outside and in listeners.
Free == calls = <<>> \/ Listening

registerPrivateEventListenerQueueEntry(node, capture) ==
  /\ Free /\ Len(registry) < MaxListeners
  /\ registry' = Append(registry, [node |-> node, capture |-> capture, active |-> TRUE])
  /\ UNCHANGED <<immediate, records, calls, made>>

removePrivateEventListenerQueueEntry(i) ==
  /\ Free /\ registry[i].active
  /\ registry' = [registry EXCEPT ![i].active = FALSE]
  /\ UNCHANGED <<immediate, records, calls, made>>

\* The listener of a queue entry is its number, the listener of a prop is 0.
getPrivateEventListenerQueueEntries(node, capture) ==
  SelectSeq([i \in DOMAIN registry |-> i],
            LAMBDA i : /\ registry[i].active
                       /\ registry[i].node = node /\ registry[i].capture = capture)

\* The listeners of a node: its queue, then its props.
ListenersOf(node, capture) ==
  LET ids == getPrivateEventListenerQueueEntries(node, capture)
               \o (IF node \in PropNodes THEN <<0>> ELSE <<>>) IN
  [i \in DOMAIN ids |-> [node |-> node, id |-> ids[i]]]

Accumulated(capture) == FlattenSeq([i \in DOMAIN Path |-> ListenersOf(Path[i], capture)])

\* processingListenerRecords: from the root to the target in the capture phase.
ProcessingOrder(capture) == IF capture THEN Reverse(Accumulated(capture)) ELSE Accumulated(capture)

\* createEventDispatchRecordFromWrapperRecord
createDispatchRecord(event, capture) ==
  /\ Free /\ Len(records) < MaxRecords
  /\ records' = Append(records,
       [event |-> event, capture |-> capture, listeners |-> ProcessingOrder(capture),
        number |-> Len(records) + 1])
  /\ UNCHANGED <<registry, immediate, calls, made>>

----------------------------------------------------------------------------
(* A call.                                                                  *)

NewCall(list, accepted) ==
  [list |-> list, accepted |-> accepted,
   at |-> 1, next |-> 0,                       \* the record and the listener it has reached
   running |-> FALSE, previous |-> NoNode,
   stopped |-> FALSE, stoppedEvent |-> NoEvent,
   nativeStopped |-> FALSE, nativeStoppedEvent |-> NoEvent, source |-> <<>>, count |-> 0,
   log |-> <<>>]                               \* the invocations of listeners

Start(call) ==
  /\ Free /\ made < MaxCalls /\ Len(calls) < MaxDepth
  /\ calls' = Append(calls, call)
  /\ made' = made + 1
  /\ UNCHANGED <<registry, immediate, records>>

\* normalizeDispatchRecordList: the caller chooses the records and their order.
Queue(numbers) ==
  [i \in DOMAIN numbers |-> records[numbers[i]]]

invokeDispatchQueue(numbers) == Start(NewCall(Queue(numbers), {}))

\* The queue entries among the listeners of the records, as often as they are found.
Found(list) ==
  FlattenSeq([i \in DOMAIN list |-> SelectSeq(list[i].listeners, LAMBDA l : l.id # 0)])

\* assertFreshPrivateClickEventDelegationListenerRecord
Fresh(id) == registry[id].active

\* collectPrivateClickEventDelegationAcceptedListenerOrderSelections throws for an accepted
\* listener that is stale, not found or found twice, before any listener is invoked.
Selectable(list, accepted) ==
  \A id \in accepted :
    /\ Fresh(id)
    /\ Cardinality({i \in DOMAIN Found(list) : Found(list)[i].id = id}) = 1

Selected(list, accepted) ==
  [i \in DOMAIN list |->
    [list[i] EXCEPT !.listeners = SelectSeq(@, LAMBDA l : l.id \in accepted)]]

invokeAcceptedListenerOrder(numbers, accepted) ==
  /\ accepted # {}
  /\ LET list == Queue(numbers) IN
     /\ Selectable(list, accepted)
     /\ Start(NewCall(Selected(list, accepted), accepted))

----------------------------------------------------------------------------
Continue(call) == calls' = Append(Front(calls), call)

Record(call) == call.list[call.at]
Current(call) == Record(call).listeners[call.next]
\* The listener record: the same object each time its dispatch record comes in the list.
ListenerRecord(call) == <<Record(call).number, call.next>>

\* The call has something left to do in its record.
InRecord(call) ==
  /\ call.at <= Len(call.list) /\ call.next > 0
  /\ call.next <= Len(Record(call).listeners)

StaysStopped(call, event) == call.stopped /\ call.stoppedEvent = event

\* createDispatchQueueCanaryEventContext; a record without listeners has no entries.
beginRecord ==
  /\ calls # <<>> /\ ~ Top.running /\ Top.at <= Len(Top.list) /\ Top.next = 0
  /\ LET event == Record(Top).event IN
     IF Record(Top).listeners = <<>> THEN Continue([Top EXCEPT !.at = @ + 1])
     ELSE Continue([Top EXCEPT
       !.next = 1, !.previous = NoNode,
       !.stopped = StaysStopped(Top, event),
       !.nativeStopped = @ /\ Top.nativeStoppedEvent = event,
       !.count = immediate[event]])
  /\ UNCHANGED <<registry, immediate, records, made>>

\* The accepted listeners are invoked without a context that can stop them.
Stoppable(call) == call.accepted = {}

\* The listener that stopped the event is not skipped when its record comes again.
SkipsForImmediateStop(call) ==
  Stoppable(call) /\ call.nativeStopped /\ ListenerRecord(call) # call.source

SkipsForStop(call) ==
  Stoppable(call) /\ call.stopped /\ Current(call).node # call.previous

skipListener ==
  /\ calls # <<>> /\ ~ Top.running /\ InRecord(Top) /\ SkipsForImmediateStop(Top)
  /\ Continue([Top EXCEPT !.next = @ + 1, !.previous = Current(Top).node])
  /\ UNCHANGED <<registry, immediate, records, made>>

\* A stopped event leaves the record at the first listener of another node.
skipRecord ==
  /\ calls # <<>> /\ ~ Top.running /\ InRecord(Top)
  /\ ~ SkipsForImmediateStop(Top) /\ SkipsForStop(Top)
  /\ Continue([Top EXCEPT !.at = @ + 1, !.next = 0])
  /\ UNCHANGED <<registry, immediate, records, made>>

invokeListener ==
  /\ calls # <<>> /\ ~ Top.running /\ InRecord(Top)
  /\ ~ SkipsForImmediateStop(Top) /\ ~ SkipsForStop(Top)
  /\ Continue([Top EXCEPT
       !.running = TRUE,
       !.log = Append(@, [record |-> Top.at, listener |-> Current(Top), event |-> Record(Top).event,
                          source |-> ListenerRecord(Top),
                          stop |-> FALSE, immediately |-> FALSE])])
  /\ UNCHANGED <<registry, immediate, records, made>>

\* event.stopPropagation() in a listener.
stopPropagation ==
  /\ Listening /\ Stoppable(Top) /\ ~ Last(Top.log).stop
  /\ Continue([Top EXCEPT !.stopped = TRUE, !.stoppedEvent = Record(Top).event,
                          !.log = Append(Front(@), [Last(@) EXCEPT !.stop = TRUE])])
  /\ UNCHANGED <<registry, immediate, records, made>>

\* nativeEvent.stopImmediatePropagation() in a listener: it is noted in the log of every call
\* under way whose listener handles this event.
stopImmediatePropagation ==
  /\ Listening
  /\ LET event == Record(Top).event IN
     /\ immediate[event] < MaxStops
     /\ immediate' = [immediate EXCEPT ![event] = @ + 1]
     /\ calls' = [c \in DOMAIN calls |->
          IF Record(calls[c]).event # event THEN calls[c]
          ELSE [calls[c] EXCEPT !.log[Len(calls[c].log)].immediately = TRUE]]
  /\ UNCHANGED <<registry, records, made>>

\* Mutant: the stop is noted only when the listener returns.
AfterListenerReturned(call, threw) ==
  LET event == Record(call).event
      stops == ~ threw /\ Stoppable(call) /\ immediate[event] > call.count IN
  [call EXCEPT
    !.running = FALSE, !.next = @ + 1, !.previous = Current(call).node,
    !.nativeStopped = @ \/ stops,
    !.nativeStoppedEvent = IF stops THEN event ELSE @,
    !.source = IF stops THEN ListenerRecord(call) ELSE @,
    !.count = immediate[event]]

\* The finally block of invokeDispatchListenerRecordForCanary, and what follows it: the same
\* whether the listener returned or threw.
AfterListener(call, threw) ==
  LET event == Record(call).event
      stops == Stoppable(call) /\ immediate[event] > call.count IN
  [call EXCEPT
    !.running = FALSE, !.next = @ + 1, !.previous = Current(call).node,
    !.nativeStopped = @ \/ stops,
    !.nativeStoppedEvent = IF stops THEN event ELSE @,
    !.source = IF stops THEN ListenerRecord(call) ELSE @,
    !.count = immediate[event]]

finishListener(threw) ==
  /\ Listening
  /\ Continue(AfterListener(Top, threw))
  /\ UNCHANGED <<registry, immediate, records, made>>

endRecord ==
  /\ calls # <<>> /\ ~ Top.running
  /\ Top.at <= Len(Top.list) /\ Top.next > Len(Record(Top).listeners) /\ Top.next > 0
  /\ Continue([Top EXCEPT !.at = @ + 1, !.next = 0])
  /\ UNCHANGED <<registry, immediate, records, made>>

endCall ==
  /\ calls # <<>> /\ ~ Top.running /\ Top.at > Len(Top.list)
  /\ calls' = Front(calls)
  /\ UNCHANGED <<registry, immediate, records, made>>

Next ==
  \/ \E node \in Nodes, capture \in BOOLEAN :
       registerPrivateEventListenerQueueEntry(node, capture)
  \/ \E i \in DOMAIN registry : removePrivateEventListenerQueueEntry(i)
  \/ \E event \in Events, capture \in BOOLEAN : createDispatchRecord(event, capture)
  \/ \E numbers \in Queues :
       /\ ToSet(numbers) \subseteq DOMAIN records
       /\ \/ invokeDispatchQueue(numbers)
          \/ \E accepted \in SUBSET (DOMAIN registry) : invokeAcceptedListenerOrder(numbers, accepted)
  \/ beginRecord \/ skipListener \/ skipRecord \/ invokeListener \/ endRecord \/ endCall
  \/ stopPropagation \/ stopImmediatePropagation
  \/ \E threw \in BOOLEAN : finishListener(threw)

Spec == Init /\ [][Next]_vars

----------------------------------------------------------------------------
(* Properties.                                                              *)

\* Between two invocations of a call no record of another event with listeners came, at which
\* the call forgets a stop (createDispatchQueueCanaryEventContext).
Remembers(call, first, later) ==
  /\ first.event = later.event
  /\ \A r \in first.record .. later.record :
       call.list[r].event = first.event \/ call.list[r].listeners = <<>>

\* The listener record that stopped the event at once comes again in the list.
Again(call, j) ==
  \E i \in 1 .. j - 1 : call.log[i].immediately /\ call.log[i].source = call.log[j].source

\* After event.stopPropagation() no listener of another node, and none of a later record of
\* the event, is invoked by the call until a record of another event comes; the other
\* listeners of the node are not affected by it (shouldSkipDispatchListenerForPropagationStop).
StopSkipsAncestors ==
  \A c \in DOMAIN calls : \A i, j \in DOMAIN calls[c].log :
    LET first == calls[c].log[i] later == calls[c].log[j] IN
    i < j /\ first.stop /\ Remembers(calls[c], first, later) /\ ~ Again(calls[c], j) =>
      later.record = first.record /\ later.listener.node = first.listener.node

\* A listener that stops its native event at once is the last one the call invokes for this
\* event until a record of another event comes, even when the stop comes from a call the
\* listener made, or when the listener throws; only a list that holds its record again invokes
\* it again (shouldSkipDispatchListenerForNativeStopImmediatePropagation).
ImmediateStopIsFinal ==
  \A c \in DOMAIN calls : \A i, j \in DOMAIN calls[c].log :
    LET first == calls[c].log[i] later == calls[c].log[j] IN
    Stoppable(calls[c]) /\ i < j /\ first.immediately /\ Remembers(calls[c], first, later) =>
      later.source = first.source /\ later.record > first.record

\* The listeners of a record that a call has left behind.
Left(call, r) == r < call.at \/ call.at > Len(call.list)

Invoked(call, r) == [i \in DOMAIN SelectSeq(call.log, LAMBDA e : e.record = r) |->
                      SelectSeq(call.log, LAMBDA e : e.record = r)[i].listener]

\* Until its event is stopped every listener of a record is invoked, once and in order, whatever
\* the listeners before it threw, registered, removed or dispatched; stopping an event in one
\* node leaves the other listeners of this node their turn.
EveryListenerHasItsTurn ==
  \A c \in DOMAIN calls : \A r \in DOMAIN calls[c].list :
    LET call == calls[c]
        done == Invoked(call, r)
        all  == call.list[r].listeners
        stops == {i \in DOMAIN call.log : call.log[i].event = call.list[r].event
                                          /\ (call.log[i].stop \/ call.log[i].immediately)} IN
    /\ \/ IsPrefix(done, all)
       \/ \E i \in stops : call.log[i].immediately /\ call.log[i].record < r
    /\ Left(call, r) /\ stops = {} => done = all
    /\ Left(call, r) /\ Stoppable(call) /\ done # <<>>
         /\ (\A i \in stops : ~ call.log[i].immediately) =>
           \A i \in DOMAIN all : all[i].node = Last(done).node => i <= Len(done)

\* An accepted order invokes all of its listeners, each exactly once (the selection is made
\* before the first of them runs).
AcceptedAllRun ==
  \A c \in DOMAIN calls :
    LET call == calls[c]
        ids  == [i \in DOMAIN call.log |-> call.log[i].listener.id] IN
    ~ Stoppable(call) =>
      /\ IsInjective(ids)
      /\ call.at > Len(call.list) => ToSet(ids) = call.accepted

=============================================================================
