------------------------ MODULE TestRendererBridge ------------------------
(***************************************************************************)
(* The private root request bridge of react-test-renderer                  *)
(* (src/packages/react-test-renderer/index.js).  The bridge never renders: *)
(* it records create, update and unmount requests with the outcome it      *)
(* predicts for them, hands a request to an executor that drives a Rust    *)
(* TestRendererRoot, accepts the executor's answer when it agrees with the *)
(* prediction, and turns three accepted rows of one root into its          *)
(* lifecycle evidence, which opens the TestInstance queries and the        *)
(* serialization of that root.                                             *)
(*                                                                         *)
(* The executor is caller code: it may run the requests late, out of       *)
(* order, twice or never, and consumeRootExecutionResult is callable on    *)
(* its own, so an answer may be lost, kept for later, or offered for a     *)
(* request it does not belong to.                                          *)
(***************************************************************************)
EXTENDS Naturals, Sequences, FiniteSets

CONSTANTS
    Roots,           \* the root handles the bridge may make
    MaxRequests,     \* bound on the requests of the bridge
    MaxExecutions,   \* bound on the executor's runs
    MaxRows          \* bound on the accepted execution results

VARIABLES
    nextSequence,  \* bridgeState.nextRequestSequence
    requests,      \* handleState.requests, per root
    lifecycle,     \* handleState.lifecycleStatus, per root
    rust,          \* the TestRendererRoot of each root: its lifecycle, and in
                   \* scheduled the sequences of its scheduled_updates
    answers,       \* the results the executor has returned
    rows,          \* rootExecutionResults: the accepted execution results
    evidence       \* rootHandleTestInstanceLifecycleEvidence

vars == <<nextSequence, requests, lifecycle, rust, answers, rows, evidence>>

Operations == {"create", "update", "unmount"}
Outcomes == {"Scheduled", "IgnoredAfterUnmount", "AlreadyUnmountScheduled"}
Lifecycles == {"None", "Active", "UnmountScheduled"}

Request == [op: Operations, sequence: Nat, before: Lifecycles,
            after: Lifecycles, outcome: Outcomes, ready: BOOLEAN]
Answer == [root: Roots, sequence: Nat, op: Operations, before: Lifecycles,
           after: Lifecycles, outcome: Outcomes, source: BOOLEAN,
           position: Nat, inOrder: BOOLEAN]
Row == [root: Roots, index: Nat, source: BOOLEAN, answer: Answer]
NoEvidence == <<>>

Init ==
    /\ nextSequence = 1
    /\ requests = [r \in Roots |-> <<>>]
    /\ lifecycle = [r \in Roots |-> "None"]
    /\ rust = [r \in Roots |-> [lifecycle |-> "None", scheduled |-> <<>>]]
    /\ answers = {}
    /\ rows = {}
    /\ evidence = [r \in Roots |-> NoEvidence]

-----------------------------------------------------------------------------
(* The requests.  The outcome and the next lifecycle are predicted from the *)
(* lifecycle of the handle alone.                                           *)

PredictedOutcome(op, before) ==
    IF op = "update" /\ before # "Active" THEN "IgnoredAfterUnmount"
    ELSE IF op = "unmount" /\ before = "UnmountScheduled"
    THEN "AlreadyUnmountScheduled"
    ELSE "Scheduled"

LifecycleAfter(op, before) ==
    IF op = "create" THEN "Active"
    ELSE IF op = "unmount" THEN "UnmountScheduled"
    ELSE before

Scheduled(request) == request.outcome = "Scheduled"

MakeRequest(r, op, ready) ==
    /\ nextSequence <= MaxRequests
    /\ nextSequence' = nextSequence + 1
    /\ requests' = [requests EXCEPT ![r] = Append(@,
          [op |-> op, sequence |-> nextSequence, before |-> lifecycle[r],
           after |-> LifecycleAfter(op, lifecycle[r]),
           outcome |-> PredictedOutcome(op, lifecycle[r]), ready |-> ready])]
    /\ lifecycle' = [lifecycle EXCEPT ![r] = LifecycleAfter(op, @)]
    /\ UNCHANGED <<rust, answers, rows, evidence>>

\* Whether the create-route admission of the request is ready (supported
\* children and root options) is decided by the arguments of create().
CreateRootRequest(r, ready) ==
    /\ requests[r] = <<>>
    /\ MakeRequest(r, "create", ready)

UpdateRootRequest(r) ==
    /\ requests[r] # <<>>
    /\ MakeRequest(r, "update", TRUE)

UnmountRootRequest(r) ==
    /\ requests[r] # <<>>
    /\ MakeRequest(r, "unmount", TRUE)

-----------------------------------------------------------------------------
(* The executor: TestRendererRoot decides the outcome from its own          *)
(* lifecycle, whatever the request predicts.                                *)

RustOutcome(op, status) ==
    IF op = "create" \/ status = "Active" THEN "Scheduled"
    ELSE IF op = "update" THEN "IgnoredAfterUnmount"
    ELSE "AlreadyUnmountScheduled"

RustAfter(op, status) ==
    IF op = "create" THEN "Active"
    ELSE IF op = "unmount" THEN "UnmountScheduled"
    ELSE status

Executed(r) == {a.sequence : a \in {b \in answers : b.root = r}}

Execute(r, i, source) ==
    LET request == requests[r][i]
        status == rust[r].lifecycle
        outcome == RustOutcome(request.op, status)
        log == IF outcome = "Scheduled"
               THEN Append(rust[r].scheduled, request.sequence)
               ELSE rust[r].scheduled
    IN /\ (request.op = "create") <=> (status = "None")
       /\ source => outcome = "Scheduled"
       /\ rust' = [rust EXCEPT ![r] =
             [lifecycle |-> RustAfter(request.op, status), scheduled |-> log]]
       /\ answers' = answers \union
             {[root |-> r, sequence |-> request.sequence, op |-> request.op,
               before |-> status, after |-> RustAfter(request.op, status),
               outcome |-> outcome, source |-> source, position |-> Len(log),
               inOrder |-> Executed(r) =
                   {requests[r][j].sequence : j \in 1..(i - 1)}]}
       /\ UNCHANGED <<nextSequence, requests, lifecycle, rows, evidence>>

ExecuteRootRequest(r, i, source) ==
    /\ i \in 1..Len(requests[r])
    /\ Cardinality(answers) < MaxExecutions
    /\ Execute(r, i, source)

-----------------------------------------------------------------------------
(* consumeRootExecutionResult                                               *)

\* The lifecycle diagnostic of an answer agrees with the prediction.  It names
\* no request: an answer may agree with another request of the same operation.
\* A diagnostic may omit the previous lifecycle, which the outcome determines.
MatchesRequest(request, a) ==
    /\ a.op = request.op
    /\ a.outcome = request.outcome
    /\ a.before = request.before
    /\ a.after = request.after

\* A bug: the source record is taken without the request it names.
NamesAnyRequest(r, request, a) == TRUE

\* The source record of an answer names the request and the root it is about.
NamesRequest(r, request, a) ==
    /\ a.root = r
    /\ a.sequence = request.sequence

\* A create's source record is its host-output handoff, taken only with a
\* ready create-route admission.
CreateHandoffAccepted(r, request, a) ==
    request.ready /\ NamesRequest(r, request, a)

\* An update's is its native bridge admission.
UpdateAdmissionAccepted(r, request, a) ==
    Scheduled(request) /\ NamesRequest(r, request, a)

\* An unmount's is the cleanup handoff of its admission.
UnmountAdmissionAccepted(r, request, a) ==
    Scheduled(request) /\ NamesRequest(r, request, a)

SourceAccepted(r, request, a) ==
    /\ request.op = "create" => CreateHandoffAccepted(r, request, a)
    /\ request.op = "update" => UpdateAdmissionAccepted(r, request, a)
    /\ request.op = "unmount" => UnmountAdmissionAccepted(r, request, a)

ConsumeRootExecutionResult(r, i, a) ==
    /\ i \in 1..Len(requests[r])
    /\ Cardinality(rows) < MaxRows
    /\ MatchesRequest(requests[r][i], a)
    /\ a.source => SourceAccepted(r, requests[r][i], a)
    /\ rows' = rows \union
          {[root |-> r, index |-> i, source |-> a.source, answer |-> a]}
    /\ UNCHANGED <<nextSequence, requests, lifecycle, rust, answers, evidence>>

-----------------------------------------------------------------------------
(* consumePrivateRootLifecycleExecutionEvidence                             *)

RequestOf(row) == requests[row.root][row.index]

SourceOwned(row, op) == RequestOf(row).op = op /\ Scheduled(RequestOf(row))

ShareOwner(c, u, m) ==
    /\ u.root = c.root
    /\ m.root = c.root
    /\ RequestOf(c).sequence < RequestOf(u).sequence
    /\ RequestOf(u).sequence < RequestOf(m).sequence

LatestUpdateBefore(r, i) ==
    LET updates == {j \in 1..(i - 1) : requests[r][j].op = "update"}
    IN IF updates = {} THEN 0 ELSE CHOOSE j \in updates :
                                      \A k \in updates : k <= j

\* The create is the first request of the root, the unmount the last one made,
\* and the update the latest before the unmount.
RowsAreCurrent(c, u, m) ==
    /\ c.index = 1
    /\ m.index = Len(requests[m.root])
    /\ u.index = LatestUpdateBefore(m.root, m.index)
    /\ c.index < u.index /\ u.index < m.index

NotReplayed(r) == evidence[r] = NoEvidence

ConsumeLifecycleEvidence(c, u, m) ==
    /\ SourceOwned(c, "create")
    /\ SourceOwned(u, "update")
    /\ SourceOwned(m, "unmount")
    /\ ShareOwner(c, u, m)
    /\ RowsAreCurrent(c, u, m)
    /\ c.source /\ u.source /\ m.source
    /\ NotReplayed(c.root)
    /\ evidence' = [evidence EXCEPT ![c.root] =
          [create |-> c, update |-> u, unmount |-> m]]
    /\ UNCHANGED <<nextSequence, requests, lifecycle, rust, answers, rows>>

-----------------------------------------------------------------------------
(* The two readers of the evidence                                          *)

\* getTestInstanceQueryDiagnosticsForRootRequest exposes the queries of request
\* i: it is the current one, and the evidence's unmount.
QueriesExposed(r, i) ==
    /\ evidence[r] # NoEvidence
    /\ i = Len(requests[r])
    /\ RequestOf(evidence[r].unmount).sequence = requests[r][i].sequence

\* validatePrivateSerializationLifecycleExecutionEvidence finds the three
\* requests again by their sequences and checks that they are still current.
FindRequest(r, op, sequence) ==
    {i \in 1..Len(requests[r]) :
        requests[r][i].op = op /\ requests[r][i].sequence = sequence}

SerializationAccepts(r) ==
    /\ evidence[r] # NoEvidence
    /\ \E c \in FindRequest(r, "create", RequestOf(evidence[r].create).sequence),
          u \in FindRequest(r, "update", RequestOf(evidence[r].update).sequence),
          m \in FindRequest(r, "unmount", RequestOf(evidence[r].unmount).sequence) :
          /\ c = 1
          /\ m = Len(requests[r])
          /\ u = LatestUpdateBefore(r, m)
          /\ c < u /\ u < m

\* getRejectedPrivateActUpdateLifecycleBoundaryReason finds no reason: the row
\* is an admitted update, the evidence of its root is current, and the row's
\* request is the update of the evidence, made before its unmount.
ActUpdateAccepts(row) ==
    /\ SourceOwned(row, "update") /\ row.source
    /\ SerializationAccepts(row.root)
    /\ RequestOf(evidence[row.root].update) = RequestOf(row)
    /\ RequestOf(row).sequence < RequestOf(evidence[row.root].unmount).sequence

-----------------------------------------------------------------------------
Next ==
    \/ \E r \in Roots, ready \in BOOLEAN : CreateRootRequest(r, ready)
    \/ \E r \in Roots : UpdateRootRequest(r)
    \/ \E r \in Roots : UnmountRootRequest(r)
    \/ \E r \in Roots, i \in 1..MaxRequests, source \in BOOLEAN :
          ExecuteRootRequest(r, i, source)
    \/ \E r \in Roots, i \in 1..MaxRequests, a \in answers :
          ConsumeRootExecutionResult(r, i, a)
    \/ \E c, u, m \in rows : ConsumeLifecycleEvidence(c, u, m)

Spec == Init /\ [][Next]_vars

-----------------------------------------------------------------------------
(* Properties                                                               *)

\* The bridge's prediction and the Rust root agree on every request the
\* executor runs in the order they were made (createRootUpdateRequestRecord-
\* WithBridge and TestRendererRoot::update and unmount keep two copies of one
\* lifecycle): such an answer is never refused.
InOrderAnswersMatch ==
    \A a \in answers : a.inOrder =>
        \A i \in FindRequest(a.root, a.op, a.sequence) :
            MatchesRequest(requests[a.root][i], a)

\* Lifecycle evidence tells what the Rust root really did: each of its three
\* rows is the answer to its own request, although an answer's lifecycle
\* diagnostic names none, and the Rust root scheduled the three in the order
\* create, update, unmount, with nothing after the unmount.
EvidenceIsTrue ==
    \A r \in Roots : evidence[r] # NoEvidence =>
        LET e == evidence[r]
            log == rust[r].scheduled
            Own(row) == /\ row.answer.root = r
                        /\ row.answer.sequence = RequestOf(row).sequence
                        /\ log[row.answer.position] = RequestOf(row).sequence
        IN /\ Own(e.create) /\ Own(e.update) /\ Own(e.unmount)
           /\ e.create.answer.position = 1
           /\ e.update.answer.position > 1
           /\ e.unmount.answer.position > e.update.answer.position
           /\ e.unmount.answer.position = Len(log)

\* The TestInstance queries and the serialization decide separately whether
\* the evidence of a root is still current; they never disagree.
ReadersAgree ==
    \A r \in Roots :
        SerializationAccepts(r) <=> \E i \in 1..Len(requests[r]) :
                                        QueriesExposed(r, i)

\* The boundary of act(update) is open only to the last update the root's
\* caller asked for, and that update reached the Rust root before its unmount.
ActUpdateIsLatest ==
    \A row \in rows : ActUpdateAccepts(row) =>
        /\ \A i \in 1..Len(requests[row.root]) :
              requests[row.root][i].op = "update" => i <= row.index
        /\ row.answer.sequence = RequestOf(row).sequence
        /\ row.answer.position < Len(rust[row.root].scheduled)

=============================================================================
