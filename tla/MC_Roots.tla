------------------------------ MODULE MC_Roots ------------------------------
(***************************************************************************)
(* The client roots of react-dom: the public roots, the bridge below them   *)
(* driven call by call, the root listeners and the update of host output.   *)
(* Their calls are modelled as steps of different granularity, so a         *)
(* behaviour is one of any of them; part says which.                        *)
(***************************************************************************)
EXTENDS PublicRoot, RootBridge, RootListeners, HostOutput

VARIABLE part

-----------------------------------------------------------------------------
\* Roots and portals of one document, the document itself among them, reverted in any order.
ClickKeys == <<"click__bubble", "click__capture">>

\* The output is a div with a span with text, updated from its own setters up to three deep.
RootsInit ==
  /\ part \in {"public", "bridge", "listeners", "output"}
  /\ Init /\ ShellInit /\ ListenersInit /\ OutputInit
  /\ dom.props["parent"][1] = 1
  /\ part # "output" => dom.props["child"][1] = 1 /\ dom.text = 1

PublicPart == part = "public" /\ Next /\ UNCHANGED <<part, shell, listenerVars, outputVars>>
BridgePart == part = "bridge" /\ ShellNext /\ UNCHANGED <<part, vars, listenerVars, outputVars>>
ListenersPart == part = "listeners" /\ ListenersNext /\ UNCHANGED <<part, vars, shell, outputVars>>
OutputPart == part = "output" /\ OutputNext /\ UNCHANGED <<part, vars, shell, listenerVars>>

RootsSpec ==
  /\ RootsInit
  /\ [][PublicPart \/ BridgePart \/ ListenersPart \/ OutputPart]_<<vars, shell, listenerVars, outputVars, part>>

-----------------------------------------------------------------------------
\* An update of host output that started when the DOM showed the latest props returns only
\* when the DOM shows its element, although updates may have started, failed or been
\* published from its setters; and renders applied out of order never put mounted output
\* back to an older request (root-bridge.js, component-tree.js).
OutputNeverGoesBack == PublishedIsShown /\ ContentNeverGoesBack

\* A call that throws leaves the DOM as it found it: a call of a public root that fails half
\* way, an update of host output, unless another update was published or the output was
\* cleaned up from its setters, and a registration of listeners that is refused one of them.
\* The one exception is an unmount that throws when it takes the listeners back
\* (root-bridge.js): it leaves the container of the root it has retired empty.
FailedCallsRestore ==
  /\ FailedCallKeepsDom
  /\ FailedUpdateRestores
  /\ FailedRegistrationRestores
=============================================================================
