----------------------------- MODULE HostOutput ------------------------------
(***************************************************************************)
(* The update of mounted host output, step by step: the property rows of    *)
(* each host component, the text, the publication of the latest props, and  *)
(* the rollback after a failure (packages/react-dom/src/client/             *)
(* root-bridge.js, component-tree.js and packages/react-dom/src/dom-host/   *)
(* mutation.js).                                                            *)
(*                                                                          *)
(* Writing to the DOM can run code: a setter may throw, before or after the *)
(* write, and may itself start an update of the same output or clean it up  *)
(* before it returns. The updates under way are a stack; only the innermost *)
(* one takes steps. A text node is assumed to throw before it writes or not *)
(* at all, and the writes of a rollback are assumed not to throw.           *)
(***************************************************************************)
EXTENDS Naturals, Sequences, FiniteSets, SequencesExt

CONSTANTS
  Nested,       \* TRUE: a div with a span with text, FALSE: a div with text
  Rows,         \* bound: the number of properties of a host component
  HostValues,   \* the values of a property and of the text
  MaxUpdates,   \* bound on the updates of a behaviour
  MaxDepth      \* bound on the updates under way at once

ASSUME HostOutputConstants ==
  /\ Nested \in BOOLEAN /\ Rows \in Nat
  /\ MaxUpdates \in Nat /\ MaxDepth \in Nat \ {0}

\* The host components in the order they are updated.
Hosts == IF Nested THEN <<"parent", "child">> ELSE <<"parent">>
HostSet == ToSet(Hosts)

Contents == [props : [HostSet -> [1 .. Rows -> HostValues]], text : HostValues]

VARIABLES
  dom,        \* what the DOM shows
  rendered,   \* the rendered elements; an index stands for the identity of their props
  latest,     \* the latest props of each host component; 0 once it is detached
  updates     \* the updates under way, the outermost first

outputVars == <<dom, rendered, latest, updates>>

OutputInit ==
  \E initial \in Contents :
    /\ dom = initial
    /\ rendered = <<initial>>
    /\ latest = [h \in HostSet |-> 1]
    /\ updates = <<>>

----------------------------------------------------------------------------
Top == Last(updates)
Continue(update) == updates' = Append(Front(updates), update)

Attached == \A h \in HostSet : latest[h] # 0

\* The element an update started from; both hosts have props of the same element then.
Previous(u) == rendered[u.previous[Hosts[1]]]
Target(u) == rendered[u.element]

\* diffDomPropertyPayload: the rows of a host that change.
Payload(u, h) == {i \in 1 .. Rows : Previous(u).props[h][i] # Target(u).props[h][i]}

\* The rows of the host under way that are not applied yet, and the next of them.
RowsLeft(u) == {i \in Payload(u, Hosts[u.host]) : i > u.row}
NextRow(u) == CHOOSE i \in RowsLeft(u) : \A other \in RowsLeft(u) : i <= other

ChangesText(u) == Previous(u).text # Target(u).text

\* A DOM setter of the innermost update is running, so that code of its own may run.
InSetter ==
  /\ updates # <<>>
  /\ \/ Top.stage = "rows" /\ Payload(Top, Hosts[Top.host]) # {}
     \/ Top.stage = "text" /\ ChangesText(Top)

\* normalizePublicFacadeHostOutputUpdateElement and its nested counterpart: the latest props
\* are read once.
startUpdate(content) ==
  /\ Len(rendered) <= MaxUpdates
  /\ updates = <<>> \/ (InSetter /\ Len(updates) < MaxDepth)
  /\ Attached
  /\ rendered' = Append(rendered, content)
  /\ updates' = Append(updates,
       [element |-> Len(rendered) + 1, previous |-> latest, stage |-> "rows", host |-> 1,
        row |-> 0, saved |-> <<dom.props[Hosts[1]]>>, texted |-> FALSE, before |-> dom])
  /\ UNCHANGED <<dom, latest>>

\* One row of applyDomPropertyPayloadForLatestProps.
applyRow ==
  /\ updates # <<>> /\ Top.stage = "rows"
  /\ RowsLeft(Top) # {}
  /\ LET h == Hosts[Top.host] IN
     dom' = [dom EXCEPT !.props[h][NextRow(Top)] = Target(Top).props[h][NextRow(Top)]]
  /\ Continue([Top EXCEPT !.row = NextRow(Top)])
  /\ UNCHANGED <<rendered, latest>>

\* createLatestPropsSafeDomPropertyPayloadRollbackRecords of the next host component reads
\* its rows; after the last one the text is next.
nextHost ==
  /\ updates # <<>> /\ Top.stage = "rows"
  /\ RowsLeft(Top) = {}
  /\ IF Top.host < Len(Hosts)
     THEN Continue([Top EXCEPT !.host = @ + 1, !.row = 0,
                               !.saved = Append(@, dom.props[Hosts[Top.host + 1]])])
     ELSE Continue([Top EXCEPT !.stage = "text"])
  /\ UNCHANGED <<dom, rendered, latest>>

\* commitTextUpdate
applyText ==
  /\ updates # <<>> /\ Top.stage = "text"
  /\ ChangesText(Top) /\ ~ Top.texted
  /\ dom' = [dom EXCEPT !.text = Target(Top).text]
  /\ Continue([Top EXCEPT !.texted = TRUE])
  /\ UNCHANGED <<rendered, latest>>

TextDone(u) == ChangesText(u) => u.texted

\* Without a host child an update needs a mutation.
ChangesSomething(u) == Nested \/ ChangesText(u) \/ Payload(u, Hosts[1]) # {}

\* Mutant: the latest props are published whatever they are by now.
PropsCurrentAlways(u) == TRUE

\* The latest props are still the ones the update started from.
PropsCurrent(u) == latest = u.previous

CanPublish(u) == u.stage = "text" /\ TextDone(u) /\ ChangesSomething(u) /\ PropsCurrent(u)

\* commitLatestPropsFromMutationHandoffs
Publish(u) == [h \in HostSet |-> u.element]

publish ==
  /\ updates # <<>> /\ CanPublish(Top)
  /\ latest' = Publish(Top)
  /\ updates' = Front(updates)
  /\ UNCHANGED <<dom, rendered>>

----------------------------------------------------------------------------
\* The rows of a host that have been tried: all of an earlier host, and those of the host
\* under way up to the one that failed.
RowsAttempted(u, i, failed) ==
  {r \in Payload(u, Hosts[i]) : i < u.host \/ r <= failed}

\* rollbackDomPropertyPayloadEntries of one host component.
RolledBackProps(u, i, failed) ==
  [r \in 1 .. Rows |-> IF r \in RowsAttempted(u, i, failed) THEN u.saved[i][r]
                       ELSE dom.props[Hosts[i]][r]]

\* Mutant: the rows of the host component that failed only are rolled back.
RolledBackCurrentHost(u, failed) ==
  [dom EXCEPT !.props[Hosts[u.host]] = RolledBackProps(u, u.host, failed)]

\* The catch of the update: rollbackHostOutputTextMutation writes the old text if the new one
\* was written, rollbackDomPropertyUpdateLatestPropsHandoff the saved rows of every host.
RolledBack(u, failed) ==
  [text  |-> IF u.texted THEN Previous(u).text ELSE dom.text,
   props |-> [h \in HostSet |->
     LET i == CHOOSE k \in DOMAIN Hosts : Hosts[k] = h IN
     IF i <= u.host THEN RolledBackProps(u, i, failed) ELSE dom.props[h]]]

\* The setter of a row throws before it writes.
failRow ==
  /\ updates # <<>> /\ Top.stage = "rows" /\ RowsLeft(Top) # {}
  /\ dom' = RolledBack(Top, NextRow(Top))
  /\ updates' = Front(updates)
  /\ UNCHANGED <<rendered, latest>>

\* The setter of a row throws after its write took effect.
failAfterWrite ==
  /\ updates # <<>> /\ Top.stage = "rows" /\ Top.row > 0
  /\ dom' = RolledBack(Top, Top.row)
  /\ updates' = Front(updates)
  /\ UNCHANGED <<rendered, latest>>

\* The text cannot be set, or the checks before the publication fail.
fail ==
  /\ updates # <<>> /\ Top.stage = "text" /\ ~ CanPublish(Top)
  /\ dom' = RolledBack(Top, Rows)
  /\ updates' = Front(updates)
  /\ UNCHANGED <<rendered, latest>>

\* cleanupPrivateInitialRenderHostOutputWithBridge detaches the host instances, possibly from
\* a setter of an update under way.
cleanup ==
  /\ updates = <<>> \/ InSetter
  /\ Attached
  /\ latest' = [h \in HostSet |-> 0]
  /\ UNCHANGED <<dom, rendered, updates>>

OutputNext ==
  \/ \E content \in Contents : startUpdate(content)
  \/ applyRow \/ nextHost \/ applyText \/ publish \/ failRow \/ failAfterWrite \/ fail \/ cleanup

OutputSpec == OutputInit /\ [][OutputNext]_outputVars

----------------------------------------------------------------------------
(* Properties.                                                              *)

\* An update that started when the DOM showed the latest props returns only when the DOM
\* shows its element, although updates may have started, failed or been published from its
\* setters.
PublishedIsShown ==
  [][Len(updates') < Len(updates) /\ latest' # latest /\ Top.before = Previous(Top) =>
       dom' = Target(Top)]_outputVars

\* An update that throws leaves the DOM as it found it, except when another update was
\* published or the output was cleaned up meanwhile.
FailedUpdateRestores ==
  [][Len(updates') < Len(updates) /\ latest' = latest /\ latest = Top.previous =>
       dom' = Top.before]_outputVars

=============================================================================
