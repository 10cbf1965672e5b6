----------------------------- MODULE MC_Records -----------------------------
(***************************************************************************)
(* The gates that hand out records and take them back later: form actions,  *)
(* controlled restore and the lifecycle evidence of the test renderer.      *)
(* They share no state, so a behaviour is one of any of them; part says     *)
(* which.                                                                   *)
(***************************************************************************)
EXTENDS FormActions, TLC

CONSTANTS
  d1, g1, g2, k1, k2, x1, x2, r1, r2,
  Gates, Nodes, Kind, MaxProps, MaxEvents, MaxEdits, RestoreMaxOf, MaxRestoreRecords, MaxIntents,
  TestRoots, MaxRequests, MaxExecutions, MaxAnswers

VARIABLES
  history, edited, events, listening, records, written,
  nextSequence, rootRequests, lifecycle, rust, answers, rows, evidence,
  part

restoreVars == <<history, edited, events, listening, records, written>>
rendererVars == <<nextSequence, rootRequests, lifecycle, rust, answers, rows, evidence>>

-----------------------------------------------------------------------------
\* One submit, whose action runs twice, with a reset of either of two reset gates, which have
\* the same prefix as their default options give it; two roots may take the result.
DefaultPrefixes ==
  [gate \in DispatchGates \union ResetGates |-> IF gate \in ResetGates THEN "reset" ELSE "dispatch"]
ActionSubmits == {<<"function", "action-completion">>}
FormBounds == [blocker |-> 1, dispatch |-> 1, preflight |-> 2, run |-> 2, fulfilled |-> 2,
               request |-> 2, boundary |-> 2, resource |-> 1]

\* Two gates with a text input and a textarea, an event and an observed edit of either.
TwoControls == [input |-> "text", textarea |-> "textarea"]
RestoreBounds == [class \in {"event", "observation", "preflight", "write", "blocker", "wrapper",
                             "bridge", "execution", "live", "lost"} |-> 1]

Restore == INSTANCE ControlledRestore WITH MaxRows <- MaxIntents, MaxOf <- RestoreMaxOf,
                                          MaxRecords <- MaxRestoreRecords

\* The roots of the test renderer, whose requests are executed and answered in any order.
Renderer == INSTANCE TestRendererBridge
              WITH Roots <- TestRoots, MaxRows <- MaxAnswers, requests <- rootRequests

ASSUME RecordsInstances == Restore!ControlledRestoreAssumption

RecordsInit ==
  /\ part \in {"forms", "restore", "renderer"}
  /\ Init /\ Restore!Init /\ Renderer!Init
  /\ history = [n \in Nodes |-> <<TRUE>>]

FormsNext == part = "forms" /\ Next /\ UNCHANGED <<part, restoreVars, rendererVars>>
RestoreNext == part = "restore" /\ Restore!Next /\ UNCHANGED <<part, vars, rendererVars>>
RendererNext == part = "renderer" /\ Renderer!Next /\ UNCHANGED <<part, vars, restoreVars>>

RecordsSpec ==
  /\ RecordsInit
  /\ [][FormsNext \/ RestoreNext \/ RendererNext]_<<vars, restoreVars, rendererVars, part>>

\* No call tells roots, or gates, apart.
RecordsSymmetry ==
  Permutations(TestRoots) \union Permutations(Roots)
    \union Permutations(ResetGates) \union Permutations(Gates)

-----------------------------------------------------------------------------
\* A restore stands for one edit of one gate, although two gates number their records alike
\* and the caller may offer records of either: all the records it names belong together, and
\* what it writes are props of the same kind of control, those found for its own event if it
\* executes an event.  However renders, edits and executions that threw half way lie between,
\* no restore puts older props of a node over newer ones (controlled-restore-queue.js).
RestoresOneEdit == Restore!RestoresAreOfOneEdit /\ Restore!NoRestoreGoesBack

\* Lifecycle evidence tells what the Rust root really did: each of its three rows is the
\* answer to its own request, and the Rust root scheduled the three in the order create,
\* update, unmount, with nothing after the unmount.  Its readers decide alike whether it is
\* current, act is open to the last update only, and an answer given in order is never
\* refused (react-test-renderer/index.js).
EvidenceIsTrue ==
  /\ Renderer!EvidenceIsTrue /\ Renderer!ReadersAgree
  /\ Renderer!ActUpdateIsLatest /\ Renderer!InOrderAnswersMatch
=============================================================================
