------------------------------- MODULE MC_Dom -------------------------------
(***************************************************************************)
(* What an application sees of one host component: the properties of its    *)
(* node, its ref callbacks, the dispatch of its events, and the children    *)
(* that Children.map makes for it.  The four share no state, so a behaviour *)
(* is one of any of them; part says which.                                  *)
(***************************************************************************)
EXTENDS PropertyPayload, Sequences

VARIABLES
  latest, handles, stored, consumed, cleaned, stack, refCalls, changes,
  registry, immediate, records, calls, made,
  input, output,
  part

refVars == <<latest, handles, stored, consumed, cleaned, stack, refCalls, changes>>
eventVars == <<registry, immediate, records, calls, made>>
childrenVars == <<input, output>>

-----------------------------------------------------------------------------
(* Properties: two names of one attribute, a boolean one, a style and one   *)
(* that is refused.                                                         *)

V(type, text) == [type |-> type, text |-> text]

SomeValues == {Absent, Undefined, V("boolean", "false"), V("string", "x"), V("number", "5")}
SomeTexts == {"", "false", "x", "5"}
SomeProps == {"class", "className", "hidden"}
SomeKinds == [p \in SomeProps |-> IF p = "hidden" THEN "boolean" ELSE "known"]
SomeAttribute == [p \in SomeProps |-> IF p = "className" THEN "class" ELSE p]

-----------------------------------------------------------------------------
(* Refs: two tokens whose refs share handles, a ref that is an object, and  *)
(* callbacks that start executions themselves.                              *)

SharedHandle(t, r) == r

Attach(t, r) == [action |-> "attach", token |-> t, ref |-> r, latest |-> r,
                 cleanup |-> "stored", handle |-> 0]
Detach(t, r, now, cleanup) ==
  [action |-> "detach", token |-> t, ref |-> r, latest |-> now,
   cleanup |-> cleanup, handle |-> 0]
Commit(updates, rows) == [updates |-> updates, rows |-> rows]
To(t, r) == [token |-> t, ref |-> r]
Change(t, from, to) == Commit(<<To(t, to)>>, <<Detach(t, from, to, "stored"), Attach(t, to)>>)

SomeExecutions ==
  {<<Commit(<<>>, <<Attach("t1", "f"), Attach("t2", "f")>>)>>,
   <<Commit(<<>>, <<Detach("t1", "f", "f", "stored")>>)>>,
   <<Commit(<<>>, <<Detach("t2", "f", "f", "handle")>>)>>,
   <<Change("t1", "f", "o"), Change("t2", "f", "g")>>,
   <<Commit(<<To("t1", "g"), To("t2", "g")>>, <<Detach("t2", "f", "g", "stored")>>)>>,
   <<Commit(<<>>, <<Detach("t2", "g", "g", "direct")>>)>>,
   <<Commit(<<>>, <<Detach("t1", "f", "f", "handle"), Detach("t2", "f", "f", "handle")>>)>>}

RefGate == INSTANCE RefCallbacks
             WITH Tokens <- {"t1", "t2"}, Refs <- {"f", "g"}, ObjectRefs <- {"o"},
                  RefHandle <- SharedHandle, Executions <- SomeExecutions,
                  CleanupsReenter <- TRUE, MaxCleanups <- 3, MaxCalls <- 3, MaxChanges <- 3,
                  calls <- refCalls

-----------------------------------------------------------------------------
(* Events: one event on a path of two nodes, dispatched again by its own    *)
(* listeners; and, without that, two events with records mixed in a list.   *)

Dispatch == INSTANCE EventDispatch
              WITH Path <- <<"target", "root">>, PropNodes <- {}, Events <- {"click"},
                   NoEvent <- "no event", NoNode <- "no node",
                   Queues <- {<<1, 2, 1>>}, MaxListeners <- 2,
                   MaxRecords <- 2, MaxCalls <- 2, MaxDepth <- 2, MaxStops <- 1

Mixed == INSTANCE EventDispatch
           WITH Path <- <<"target", "root">>, PropNodes <- {"target"}, Events <- {"click", "key"},
                NoEvent <- "no event", NoNode <- "no node",
                Queues <- {<<1, 2>>, <<1, 2, 1>>}, MaxListeners <- 1,
                MaxRecords <- 2, MaxCalls <- 1, MaxDepth <- 1, MaxStops <- 1

-----------------------------------------------------------------------------
(* Children: every tree of lists of up to two items, with keys that look    *)
(* like indices, paths and escapes, and keys that the callback gives.       *)

Children == INSTANCE ChildrenHelper
Ext == INSTANCE SequencesExt

MaxItems == 2

\* The keys of the elements of a list differ, which React asks of its users.
Lists(items) ==
  {Children!List(l) : l \in {l \in Ext!BoundedSeq(items, MaxItems) : Children!DistinctKeys(l)}}

Leaf(keys) ==
  {Children!Null, Children!Text} \cup {Children!Element(k) : k \in keys \cup {Children!NoKey}}
Shallow(keys) ==
  Leaf(keys) \cup {Children!Lazy(Children!Element(k)) : k \in keys} \cup Lists(Leaf(keys))
Trees(keys) == Shallow(keys) \cup Lists(Shallow(keys))

Callbacks(keys) ==
  {[kind |-> k, keys |-> <<a, b>>] : k \in {"rekey", "wrap"}, a \in keys, b \in keys}

TrickyTrees == Trees({<<>>, <<"0">>, <<"1">>, <<"0", ":", "1">>, <<"=">>, <<"/">>})
PlainTrees == Trees({<<"0">>, <<"a">>, <<".", "0">>, <<"a", "/", ".", "1">>})
TrickyCallbacks ==
  Callbacks({Children!NoKey, <<"a">>, <<"/">>, <<"a", "/", ".", "0">>, <<".", "$", "a">>})

NoOutput == [array |-> <<>>, count |-> 0]

map(children, callback) ==
  /\ input' = <<[children |-> children, callback |-> callback]>>
  /\ output' = Children!mapChildren(children, callback)

-----------------------------------------------------------------------------
ASSUME DomInstances == RefGate!RefCallbacksAssumption /\ Dispatch!EventConstants /\ Mixed!EventConstants

DomInit ==
  /\ part \in {"properties", "refs", "events", "mixed events", "children"}
  /\ Init /\ RefGate!Init
  /\ IF part = "mixed events" THEN Mixed!Init ELSE Dispatch!Init
  /\ input = <<>> /\ output = NoOutput

PropertiesNext ==
  part = "properties" /\ Next /\ UNCHANGED <<part, refVars, eventVars, childrenVars>>
RefsNext ==
  part = "refs" /\ RefGate!Next /\ UNCHANGED <<part, vars, eventVars, childrenVars>>
EventsNext ==
  /\ \/ part = "events" /\ Dispatch!Next
     \/ part = "mixed events" /\ Mixed!Next
  /\ UNCHANGED <<part, vars, refVars, childrenVars>>
ChildrenNext ==
  /\ part = "children" /\ input = <<>>
  /\ \/ \E children \in TrickyTrees : map(children, Children!Identity)
     \/ \E children \in PlainTrees, callback \in TrickyCallbacks : map(children, callback)
  /\ UNCHANGED <<part, vars, refVars, eventVars>>

DomSpec ==
  /\ DomInit
  /\ [][PropertiesNext \/ RefsNext \/ EventsNext \/ ChildrenNext]_<<vars, refVars, eventVars, childrenVars, part>>

-----------------------------------------------------------------------------
\* A cleanup that a ref returned can be run by the detach of that ref until it is consumed,
\* whatever attaches and detaches other callbacks made in between, and no consumed one is
\* left in its place; an execution that is refused half way puts back the latest props of
\* every mounted node, but for those that only the step it was refused in had begun to replace
\* when another of its updates threw (ref-callback-gate.js).
RefsAreKept == []RefGate!LiveCleanupIsStored /\ RefGate!FailedExecutionRestores

\* "Ref cleanup return handles cannot be consumed more than once": no cleanup is called
\* twice, neither by two detaches nor by a cleanup that detaches its own ref
\* (ref-callback-gate.js).
CleanupRunsOnce == RefGate!CleanupRunsOnce

\* Until its event is stopped every listener of a record is invoked, once and in order,
\* whatever the listeners before it threw, registered, removed or dispatched.  As long as no
\* record of another event comes, after a stop no listener of another node or of a later record
\* is invoked, and after an immediate stop none but its source, should its record come again,
\* also when the stop came from a call the listener made before it threw; and an order that was
\* accepted invokes all its listeners (invokeDispatchQueue and the accepted orders of
\* plugin-event-system.js).
ListenersHaveTheirTurn ==
  /\ Dispatch!EveryListenerHasItsTurn /\ Dispatch!StopSkipsAncestors
  /\ Dispatch!ImmediateStopIsFinal /\ Dispatch!AcceptedAllRun

\* Every element that Children.map returns has a key; and these keys differ, however lists are
\* nested and whatever keys the user chose, when the callback returns the child itself or gives
\* every child the same key.  With other keys from a callback that makes an element of every
\* child, or a list of every child, slashes and paths included, they still differ as long as no
\* key of the user has a slash in it and the keys of a list it returns differ.
\* Children.toArray loses, reorders and adds nothing, also when it is given its own result (mapIntoArray of children-helper.js).
FlattensWithUniqueKeys ==
  \A i \in DOMAIN input :
    /\ \A j \in DOMAIN output.array : ~ Children!HasKey(output.array[j], Children!NoKey)
    /\ Children!KeysListsWell(input[i].callback, input[i].children)
         /\ Children!TellsApart(input[i].callback, input[i].children) =>
           Children!DistinctKeys(output.array)
    /\ input[i].callback = Children!Identity =>
         LET leaves == SelectSeq(Children!Leaves(input[i].children), Children!IsNotNull)
             again  == Children!mapChildren(Children!List(output.array), Children!Identity) IN
         /\ Children!Kinds(output.array) = Children!Kinds(leaves)
         /\ Children!Kinds(again.array) = Children!Kinds(leaves)
         /\ Children!DistinctKeys(again.array)
=============================================================================
