----------------------------- MODULE RootsProofs -----------------------------
(***************************************************************************)
(* Proofs about the client roots of react-dom: what the bridge, the public  *)
(* roots above it, the root listeners and the update of host output promise *)
(* whatever calls are made and whichever of them throw.                     *)
(***************************************************************************)
EXTENDS MC_Roots, SequenceTheorems, FiniteSetTheorems, WellFoundedInduction, TLAPS

-----------------------------------------------------------------------------
(***************************************************************************)
(* The records of the bridge                                               *)
(***************************************************************************)
Statuses == {"created", "rendered", "unmounted"}

RootRecords ==
  [container : Containers, status : Statuses, renderCount : Nat, latest : Nat,
   version : Nat, admission : Nat, update : Nat]
RequestRecords ==
  [root : Nat, op : {"create", "render", "unmount", "removed"},
   before : Statuses \cup {"none"}, count : Nat, noOp : BOOLEAN]
EffectRecords == [root : Nat, active : BOOLEAN]
AdmissionRecords == [render : Nat, effect : Nat]
OutputRecords == [admission : Nat, active : BOOLEAN, mounted : BOOLEAN, content : Nat]

BridgeRecords ==
  [roots : Seq(RootRecords), log : Seq(RequestRecords), marker : [Containers -> Nat],
   effects : Seq(EffectRecords), admissions : Seq(AdmissionRecords),
   outputs : Seq(OutputRecords), children : [Containers -> SUBSET Nat],
   applied : SUBSET (Nat \X Nat), cleaned : SUBSET Nat]

\* Every record names records that are there.
Links(b) ==
  /\ \A q \in Requests(b) : b.log[q].root \in Roots(b)
  /\ \A e \in Effects(b) : b.effects[e].root \in Roots(b)
  /\ \A a \in Admissions(b) :
       b.admissions[a].render \in Requests(b) /\ b.admissions[a].effect \in Effects(b)
  /\ \A o \in Outputs(b) :
       b.outputs[o].admission \in Admissions(b) /\ b.outputs[o].content \in Requests(b)
  /\ \A p \in b.applied : p[1] \in Requests(b)
  /\ b.cleaned \subseteq Requests(b)

IsBridge(b) == b \in BridgeRecords /\ Links(b)

\* Bridge d has the records of bridge b: calls add records, and never change what a record
\* was made of.
HasRecordsOf(d, b) ==
  /\ Len(b.roots) <= Len(d.roots)
  /\ \A r \in Roots(b) : d.roots[r].container = b.roots[r].container
  /\ Len(b.log) <= Len(d.log)
  /\ \A q \in Requests(b) : d.log[q].root = b.log[q].root
  /\ Len(b.effects) <= Len(d.effects)
  /\ \A e \in Effects(b) : d.effects[e].root = b.effects[e].root
  /\ Len(b.admissions) <= Len(d.admissions)
  /\ \A a \in Admissions(b) : d.admissions[a] = b.admissions[a]
  /\ Len(b.outputs) <= Len(d.outputs)
  /\ \A o \in Outputs(b) : d.outputs[o].admission = b.outputs[o].admission

\* The fields of a bridge have their types.
LEMMA BridgeTypes ==
  ASSUME NEW b \in BridgeRecords
  PROVE  /\ b.roots \in Seq(RootRecords) /\ Len(b.roots) \in Nat
         /\ b.log \in Seq(RequestRecords) /\ Len(b.log) \in Nat
         /\ b.marker \in [Containers -> Nat]
         /\ b.effects \in Seq(EffectRecords) /\ Len(b.effects) \in Nat
         /\ b.admissions \in Seq(AdmissionRecords) /\ Len(b.admissions) \in Nat
         /\ b.outputs \in Seq(OutputRecords) /\ Len(b.outputs) \in Nat
         /\ b.children \in [Containers -> SUBSET Nat]
         /\ b.applied \in SUBSET (Nat \X Nat) /\ b.cleaned \in SUBSET Nat
  BY DEF BridgeRecords

\* The records of a bridge have their types.
LEMMA RecordTypes ==
  ASSUME NEW b \in BridgeRecords
  PROVE  /\ \A r \in Roots(b) : b.roots[r] \in RootRecords
         /\ \A q \in Requests(b) : b.log[q] \in RequestRecords
         /\ \A e \in Effects(b) : b.effects[e] \in EffectRecords
         /\ \A a \in Admissions(b) : b.admissions[a] \in AdmissionRecords
         /\ \A o \in Outputs(b) : b.outputs[o] \in OutputRecords
  <1>1. \A r \in Roots(b) : b.roots[r] \in RootRecords
    BY BridgeTypes DEF Roots
  <1>2. \A q \in Requests(b) : b.log[q] \in RequestRecords
    BY BridgeTypes DEF Requests
  <1>3. \A e \in Effects(b) : b.effects[e] \in EffectRecords
    BY BridgeTypes DEF Effects
  <1>4. \A a \in Admissions(b) : b.admissions[a] \in AdmissionRecords
    BY BridgeTypes DEF Admissions
  <1>5. \A o \in Outputs(b) : b.outputs[o] \in OutputRecords
    BY BridgeTypes DEF Outputs
  <1> QED BY <1>1, <1>2, <1>3, <1>4, <1>5

\* The roots and containers that outputs and admissions belong to stay what they are.
LEMMA RootsStay ==
  ASSUME NEW b, IsBridge(b), NEW d, HasRecordsOf(d, b)
  PROVE  /\ \A a \in Admissions(b) :
              /\ RootOfAdmission(b, a) \in Roots(b)
              /\ RootOfAdmission(d, a) = RootOfAdmission(b, a)
         /\ \A o \in Outputs(b) :
              /\ RootOfOutput(b, o) \in Roots(b)
              /\ RootOfOutput(d, o) = RootOfOutput(b, o)
              /\ ContainerOf(d, RootOfOutput(d, o)) = ContainerOf(b, RootOfOutput(b, o))
  <1>1. \A a \in Admissions(b) :
          /\ RootOfAdmission(b, a) \in Roots(b)
          /\ RootOfAdmission(d, a) = RootOfAdmission(b, a)
    BY DEF IsBridge, Links, HasRecordsOf, RootOfAdmission
  <1>2. \A o \in Outputs(b) :
          /\ b.outputs[o].admission \in Admissions(b)
          /\ d.outputs[o].admission = b.outputs[o].admission
    BY DEF IsBridge, Links, HasRecordsOf
  <1>3. \A r \in Roots(b) : ContainerOf(d, r) = ContainerOf(b, r)
    BY DEF HasRecordsOf, ContainerOf
  <1> QED BY <1>1, <1>2, <1>3 DEF RootOfOutput

\* What a bridge has is kept through two calls.
LEMMA RecordsStay ==
  ASSUME NEW a, NEW b, NEW d, a \in BridgeRecords, b \in BridgeRecords, d \in BridgeRecords,
         HasRecordsOf(b, a), HasRecordsOf(d, b)
  PROVE  HasRecordsOf(d, a)
  <1> /\ Len(a.roots) \in Nat /\ Len(b.roots) \in Nat /\ Len(d.roots) \in Nat
      /\ Len(a.log) \in Nat /\ Len(b.log) \in Nat /\ Len(d.log) \in Nat
      /\ Len(a.effects) \in Nat /\ Len(b.effects) \in Nat /\ Len(d.effects) \in Nat
      /\ Len(a.admissions) \in Nat /\ Len(b.admissions) \in Nat /\ Len(d.admissions) \in Nat
      /\ Len(a.outputs) \in Nat /\ Len(b.outputs) \in Nat /\ Len(d.outputs) \in Nat
    BY BridgeTypes
  <1>1. /\ Len(a.roots) <= Len(d.roots)
        /\ \A r \in Roots(a) : d.roots[r].container = a.roots[r].container
    BY SMTT(30) DEF HasRecordsOf, Roots
  <1>2. /\ Len(a.log) <= Len(d.log)
        /\ \A q \in Requests(a) : d.log[q].root = a.log[q].root
    BY SMTT(30) DEF HasRecordsOf, Requests
  <1>3. /\ Len(a.effects) <= Len(d.effects)
        /\ \A e \in Effects(a) : d.effects[e].root = a.effects[e].root
    BY SMTT(30) DEF HasRecordsOf, Effects
  <1>4. /\ Len(a.admissions) <= Len(d.admissions)
        /\ \A x \in Admissions(a) : d.admissions[x] = a.admissions[x]
    BY SMTT(30) DEF HasRecordsOf, Admissions
  <1>5. /\ Len(a.outputs) <= Len(d.outputs)
        /\ \A o \in Outputs(a) : d.outputs[o].admission = a.outputs[o].admission
    BY SMTT(30) DEF HasRecordsOf, Outputs
  <1> QED BY <1>1, <1>2, <1>3, <1>4, <1>5 DEF HasRecordsOf

-----------------------------------------------------------------------------
(***************************************************************************)
(* The calls of the bridge                                                 *)
(***************************************************************************)

\* A function with one value replaced.
With(f, x, v) == [f EXCEPT ![x] = v]
WithChild(f, x, o) == [f EXCEPT ![x] = f[x] \cup {o}]
WithoutChild(f, x, o) == [f EXCEPT ![x] = f[x] \ {o}]

\* A sequence with one element replaced.
LEMMA Replaced ==
  ASSUME NEW S, NEW s \in Seq(S), NEW i \in 1 .. Len(s), NEW e \in S
  PROVE  /\ [s EXCEPT ![i] = e] \in Seq(S)
         /\ Len([s EXCEPT ![i] = e]) = Len(s)
         /\ [s EXCEPT ![i] = e][i] = e
         /\ \A j \in 1 .. Len(s) : j # i => [s EXCEPT ![i] = e][j] = s[j]
  BY ExceptSeq

\* A sequence with one more element.
LEMMA Extended ==
  ASSUME NEW S, NEW s \in Seq(S), NEW e \in S
  PROVE  /\ Append(s, e) \in Seq(S)
         /\ Len(Append(s, e)) = Len(s) + 1
         /\ Append(s, e)[Len(s) + 1] = e
         /\ \A j \in 1 .. Len(s) : Append(s, e)[j] = s[j]
         /\ 1 .. Len(Append(s, e)) = (1 .. Len(s)) \cup {Len(s) + 1}
         /\ Len(s) \in Nat
  OBVIOUS

\* createClientRoot makes a root and its request.
LEMMA CreateMakes ==
  ASSUME NEW b, IsBridge(b), NEW c \in Containers, NEW d, d = CreateClientRoot(b, c)
  PROVE  /\ IsBridge(d) /\ HasRecordsOf(d, b)
         /\ d.marker = b.marker /\ d.effects = b.effects /\ d.admissions = b.admissions
         /\ d.outputs = b.outputs /\ d.children = b.children
         /\ d.applied = b.applied /\ d.cleaned = b.cleaned
         /\ Len(d.roots) = Len(b.roots) + 1 /\ Len(d.log) = Len(b.log) + 1
         /\ \A r \in Roots(b) : d.roots[r] = b.roots[r]
         /\ \A q \in Requests(b) : d.log[q] = b.log[q]
         /\ d.roots[Len(b.roots) + 1].container = c
         /\ d.roots[Len(b.roots) + 1].status = "created"
         /\ d.roots[Len(b.roots) + 1].renderCount = 0
         /\ d.log[Len(b.log) + 1] \in RequestRecords
         /\ d.log[Len(b.log) + 1].root = Len(b.roots) + 1
         /\ d.log[Len(b.log) + 1].op = "create"
  <1> DEFINE root == [container |-> c, status |-> "created", renderCount |-> 0,
                      latest |-> Len(b.log) + 1, version |-> 1,
                      admission |-> None, update |-> None]
             request == [root |-> Len(b.roots) + 1, op |-> "create", before |-> "none",
                         count |-> 0, noOp |-> FALSE]
  <1>b. b \in BridgeRecords /\ Links(b)
    BY DEF IsBridge
  <1>1. root \in RootRecords /\ request \in RequestRecords
    BY <1>b, BridgeTypes DEF RootRecords, RequestRecords, Statuses, None
  <1>2. /\ d.roots = Append(b.roots, root) /\ d.log = Append(b.log, request)
        /\ d.marker = b.marker /\ d.effects = b.effects /\ d.admissions = b.admissions
        /\ d.outputs = b.outputs /\ d.children = b.children
        /\ d.applied = b.applied /\ d.cleaned = b.cleaned
    BY <1>b DEF CreateClientRoot, BridgeRecords
  <1>3. root.container = c /\ root.status = "created" /\ root.renderCount = 0
    OBVIOUS
  <1>4. request.root = Len(b.roots) + 1 /\ request.op = "create"
    OBVIOUS
  <1> HIDE DEF root, request
  <1>5. /\ d.roots \in Seq(RootRecords) /\ Len(d.roots) = Len(b.roots) + 1
        /\ d.roots[Len(b.roots) + 1] = root
        /\ \A r \in Roots(b) : d.roots[r] = b.roots[r]
        /\ Roots(d) = Roots(b) \cup {Len(b.roots) + 1}
    BY <1>b, <1>1, <1>2, BridgeTypes, Extended DEF Roots
  <1>6. /\ d.log \in Seq(RequestRecords) /\ Len(d.log) = Len(b.log) + 1
        /\ d.log[Len(b.log) + 1] = request
        /\ \A q \in Requests(b) : d.log[q] = b.log[q]
        /\ Requests(d) = Requests(b) \cup {Len(b.log) + 1}
    BY <1>b, <1>1, <1>2, BridgeTypes, Extended DEF Requests
  <1>7. d \in BridgeRecords
    <2>1. d = [b EXCEPT !.roots = d.roots, !.log = d.log]
      BY <1>2, <1>b DEF CreateClientRoot, BridgeRecords, root, request
    <2> QED BY <2>1, <1>5, <1>6, <1>b DEF BridgeRecords
  <1>8. Links(d)
    <2>1. \A q \in Requests(d) : d.log[q].root \in Roots(d)
      BY <1>b, <1>4, <1>5, <1>6 DEF Links
    <2>2. /\ Effects(d) = Effects(b) /\ Admissions(d) = Admissions(b) /\ Outputs(d) = Outputs(b)
      BY <1>2 DEF Effects, Admissions, Outputs
    <2> QED BY <2>1, <2>2, <1>2, <1>5, <1>6, <1>b DEF Links
  <1>9. HasRecordsOf(d, b)
    <2>1. Len(b.roots) <= Len(d.roots) /\ Len(b.log) <= Len(d.log)
      BY <1>5, <1>6, <1>b, BridgeTypes
    <2>2. Len(b.effects) <= Len(b.effects) /\ Len(b.admissions) <= Len(b.admissions)
          /\ Len(b.outputs) <= Len(b.outputs)
      BY <1>b, BridgeTypes
    <2> QED BY <2>1, <2>2, <1>2, <1>5, <1>6 DEF HasRecordsOf
  <1> QED BY <1>1, <1>2, <1>3, <1>4, <1>5, <1>6, <1>7, <1>8, <1>9 DEF IsBridge

\* Bridge d is b with one more request, which becomes the latest of its root.
Requested(d, b, r, op, status, count) ==
  /\ IsBridge(d) /\ HasRecordsOf(d, b)
  /\ d.marker = b.marker /\ d.effects = b.effects /\ d.admissions = b.admissions
  /\ d.outputs = b.outputs /\ d.children = b.children
  /\ d.applied = b.applied /\ d.cleaned = b.cleaned
  /\ Len(d.roots) = Len(b.roots) /\ Len(d.log) = Len(b.log) + 1
  /\ \A x \in Roots(b) : x # r => d.roots[x] = b.roots[x]
  /\ d.roots[r].container = b.roots[r].container
  /\ d.roots[r].status = status /\ d.roots[r].renderCount = count
  /\ d.roots[r].latest = Len(b.log) + 1
  /\ d.roots[r].version = b.roots[r].version + 1
  /\ d.roots[r].admission = b.roots[r].admission
  /\ d.roots[r].update = b.roots[r].update
  /\ \A q \in Requests(b) : d.log[q] = b.log[q]
  /\ d.log[Len(b.log) + 1].root = r /\ d.log[Len(b.log) + 1].op = op
  /\ d.log[Len(b.log) + 1].before = b.roots[r].status
  /\ d.log[Len(b.log) + 1].count = count

\* A request becomes the latest of its root and changes nothing else.
LEMMA RequestMakes ==
  ASSUME NEW b, IsBridge(b), NEW r \in Roots(b), NEW op \in {"render", "unmount"},
         NEW status \in Statuses, NEW count \in Nat, NEW noOp \in BOOLEAN,
         NEW d, d = Request(b, r, op, status, count, noOp)
  PROVE  Requested(d, b, r, op, status, count)
  <1> DEFINE root == [b.roots[r] EXCEPT !.status = status, !.renderCount = count,
                                        !.latest = Len(b.log) + 1,
                                        !.version = b.roots[r].version + 1]
             request == [root |-> r, op |-> op, before |-> b.roots[r].status,
                         count |-> count, noOp |-> noOp]
  <1>b. b \in BridgeRecords /\ Links(b) /\ r \in 1 .. Len(b.roots) /\ r \in Nat
    BY BridgeTypes DEF IsBridge, Roots
  <1>r. b.roots[r] \in RootRecords
    BY <1>b, RecordTypes
  <1>1. root \in RootRecords /\ request \in RequestRecords
    <2>0. b.roots[r].version \in Nat /\ Len(b.log) \in Nat /\ b.roots[r].status \in Statuses
      <3>1. b.roots[r].version \in Nat /\ b.roots[r].status \in Statuses
        BY <1>r DEF RootRecords
      <3> QED BY <3>1, <1>b, BridgeTypes
    <2>1. b.roots[r].version + 1 \in Nat /\ Len(b.log) + 1 \in Nat /\ b.roots[r].status \in Statuses
      BY <2>0
    <2>2. root \in RootRecords
      BY <2>1, <1>r DEF RootRecords
    <2>3. request \in RequestRecords
      BY <2>1, <1>b DEF RequestRecords
    <2> QED BY <2>2, <2>3
  <1>q. d = [b EXCEPT !.roots[r] = root, !.log = Append(@, request)]
    BY DEF Request
  <1>3. /\ root.container = b.roots[r].container
        /\ root.status = status /\ root.renderCount = count
        /\ root.latest = Len(b.log) + 1 /\ root.version = b.roots[r].version + 1
        /\ root.admission = b.roots[r].admission /\ root.update = b.roots[r].update
    BY <1>r DEF RootRecords
  <1>4. /\ request.root = r /\ request.op = op /\ request.before = b.roots[r].status
        /\ request.count = count
    OBVIOUS
  <1> HIDE DEF root, request
  <1>2. /\ d.roots = [b.roots EXCEPT ![r] = root] /\ d.log = Append(b.log, request)
        /\ d.marker = b.marker /\ d.effects = b.effects /\ d.admissions = b.admissions
        /\ d.outputs = b.outputs /\ d.children = b.children
        /\ d.applied = b.applied /\ d.cleaned = b.cleaned
    BY <1>b, <1>q DEF BridgeRecords
  <1>m. d = [b EXCEPT !.roots = [b.roots EXCEPT ![r] = root], !.log = Append(b.log, request)]
    BY <1>b, <1>q DEF BridgeRecords
  <1>5. /\ d.roots \in Seq(RootRecords) /\ Len(d.roots) = Len(b.roots)
        /\ d.roots[r] = root
        /\ \A x \in Roots(b) : x # r => d.roots[x] = b.roots[x]
        /\ Roots(d) = Roots(b)
    BY <1>b, <1>1, <1>2, BridgeTypes, Replaced DEF Roots
  <1>6. /\ d.log \in Seq(RequestRecords) /\ Len(d.log) = Len(b.log) + 1
        /\ d.log[Len(b.log) + 1] = request
        /\ \A q \in Requests(b) : d.log[q] = b.log[q]
        /\ Requests(d) = Requests(b) \cup {Len(b.log) + 1}
    BY <1>b, <1>1, <1>2, BridgeTypes, Extended DEF Requests
  <1>7. d \in BridgeRecords
    <2>1. d = [b EXCEPT !.roots = d.roots, !.log = d.log]
      BY <1>2, <1>m
    <2> QED BY <2>1, <1>5, <1>6, <1>b DEF BridgeRecords
  <1>8. Links(d)
    <2>1. \A q \in Requests(d) : d.log[q].root \in Roots(d)
      BY <1>b, <1>4, <1>5, <1>6 DEF Links
    <2>2. /\ Effects(d) = Effects(b) /\ Admissions(d) = Admissions(b) /\ Outputs(d) = Outputs(b)
      BY <1>2 DEF Effects, Admissions, Outputs
    <2> QED BY <2>1, <2>2, <1>2, <1>5, <1>6, <1>b DEF Links
  <1>9. HasRecordsOf(d, b)
    <2>1. Len(b.roots) <= Len(d.roots) /\ Len(b.log) <= Len(d.log)
      BY <1>5, <1>6, <1>b, BridgeTypes
    <2>2. Len(b.effects) <= Len(b.effects) /\ Len(b.admissions) <= Len(b.admissions)
          /\ Len(b.outputs) <= Len(b.outputs)
      BY <1>b, BridgeTypes
    <2>3. \A x \in Roots(b) : d.roots[x].container = b.roots[x].container
      BY <1>3, <1>5
    <2> QED BY <2>1, <2>2, <2>3, <1>2, <1>6 DEF HasRecordsOf
  <1>10. /\ d.roots[r].container = b.roots[r].container
         /\ d.roots[r].status = status /\ d.roots[r].renderCount = count
         /\ d.roots[r].latest = Len(b.log) + 1
         /\ d.roots[r].version = b.roots[r].version + 1
         /\ d.roots[r].admission = b.roots[r].admission
         /\ d.roots[r].update = b.roots[r].update
    BY <1>3, <1>5
  <1>11. /\ d.log[Len(b.log) + 1].root = r /\ d.log[Len(b.log) + 1].op = op
         /\ d.log[Len(b.log) + 1].before = b.roots[r].status
         /\ d.log[Len(b.log) + 1].count = count
    BY <1>4, <1>6
  <1> QED BY <1>2, <1>5, <1>6, <1>7, <1>8, <1>9, <1>10, <1>11 DEF IsBridge, Requested

\* The counts of a request are numbers.
LEMMA RequestCounts ==
  ASSUME NEW b, IsBridge(b), NEW r \in Roots(b)
  PROVE  b.roots[r].renderCount \in Nat /\ b.roots[r].renderCount + 1 \in Nat
  <1>1. b.roots[r] \in RootRecords
    BY RecordTypes DEF IsBridge
  <1>2. b.roots[r].renderCount \in Nat
    BY <1>1 DEF RootRecords
  <1> QED BY <1>2

\* A render request of the bridge.
LEMMA RenderMakes ==
  ASSUME NEW b, IsBridge(b), NEW r \in Roots(b), NEW d, d = RenderContainer(b, r)
  PROVE  /\ IsBridge(d) /\ HasRecordsOf(d, b)
         /\ d.marker = b.marker /\ d.effects = b.effects /\ d.admissions = b.admissions
         /\ d.outputs = b.outputs /\ d.children = b.children
         /\ d.applied = b.applied /\ d.cleaned = b.cleaned
         /\ Len(d.roots) = Len(b.roots) /\ Len(d.log) = Len(b.log) + 1
         /\ \A x \in Roots(b) : x # r => d.roots[x] = b.roots[x]
         /\ d.roots[r].container = b.roots[r].container
         /\ d.roots[r].status = "rendered"
         /\ d.roots[r].renderCount = b.roots[r].renderCount + 1
         /\ d.roots[r].latest = Len(b.log) + 1
         /\ d.roots[r].version = b.roots[r].version + 1
         /\ d.roots[r].admission = b.roots[r].admission
         /\ d.roots[r].update = b.roots[r].update
         /\ \A q \in Requests(b) : d.log[q] = b.log[q]
         /\ d.log[Len(b.log) + 1].root = r /\ d.log[Len(b.log) + 1].op = "render"
         /\ d.log[Len(b.log) + 1].before = b.roots[r].status
         /\ d.log[Len(b.log) + 1].count = b.roots[r].renderCount + 1
  <1>1. b.roots[r].renderCount + 1 \in Nat /\ "rendered" \in Statuses
    BY RequestCounts DEF Statuses
  <1>2. PICK noOp \in BOOLEAN : noOp = FALSE
    OBVIOUS
  <1>3. PICK count \in Nat : count = b.roots[r].renderCount + 1
    BY <1>1
  <1>4. PICK op \in {"render", "unmount"}, status \in Statuses :
          op = "render" /\ status = "rendered"
    BY <1>1
  <1>5. d = Request(b, r, op, status, count, noOp)
    BY <1>2, <1>3, <1>4 DEF RenderContainer
  <1>6. Requested(d, b, r, op, status, count)
    BY <1>5, RequestMakes
  <1>7. /\ d.roots[r].renderCount = b.roots[r].renderCount + 1
        /\ d.log[Len(b.log) + 1].count = b.roots[r].renderCount + 1
    BY <1>3, <1>6 DEF Requested
  <1>8. d.roots[r].status = "rendered" /\ d.log[Len(b.log) + 1].op = "render"
    BY <1>4, <1>6 DEF Requested
  <1> QED BY <1>6, <1>7, <1>8 DEF Requested

\* An unmount request of the bridge.
LEMMA UnmountMakes ==
  ASSUME NEW b, IsBridge(b), NEW r \in Roots(b), NEW d, d = UnmountContainer(b, r)
  PROVE  /\ IsBridge(d) /\ HasRecordsOf(d, b)
         /\ d.marker = b.marker /\ d.effects = b.effects /\ d.admissions = b.admissions
         /\ d.outputs = b.outputs /\ d.children = b.children
         /\ d.applied = b.applied /\ d.cleaned = b.cleaned
         /\ Len(d.roots) = Len(b.roots) /\ Len(d.log) = Len(b.log) + 1
         /\ \A x \in Roots(b) : x # r => d.roots[x] = b.roots[x]
         /\ d.roots[r].container = b.roots[r].container
         /\ d.roots[r].status = "unmounted"
         /\ d.roots[r].renderCount = b.roots[r].renderCount
         /\ d.roots[r].latest = Len(b.log) + 1
         /\ d.roots[r].version = b.roots[r].version + 1
         /\ d.roots[r].admission = b.roots[r].admission
         /\ d.roots[r].update = b.roots[r].update
         /\ \A q \in Requests(b) : d.log[q] = b.log[q]
         /\ d.log[Len(b.log) + 1].root = r /\ d.log[Len(b.log) + 1].op = "unmount"
         /\ d.log[Len(b.log) + 1].before = b.roots[r].status
         /\ d.log[Len(b.log) + 1].count = b.roots[r].renderCount
  <1>1. b.roots[r].renderCount \in Nat /\ "unmounted" \in Statuses
    BY RequestCounts DEF Statuses
  <1>2. PICK noOp \in BOOLEAN : noOp = (~ CanRender(b, r))
    OBVIOUS
  <1>3. PICK op \in {"render", "unmount"}, status \in Statuses, count \in Nat :
          op = "unmount" /\ status = "unmounted" /\ count = b.roots[r].renderCount
    BY <1>1
  <1>4. d = Request(b, r, op, status, count, noOp)
    BY <1>2, <1>3 DEF UnmountContainer
  <1>5. Requested(d, b, r, op, status, count)
    BY <1>4, RequestMakes
  <1>6. /\ d.roots[r].renderCount = b.roots[r].renderCount
        /\ d.log[Len(b.log) + 1].count = b.roots[r].renderCount
    BY <1>3, <1>5 DEF Requested
  <1>7. d.roots[r].status = "unmounted" /\ d.log[Len(b.log) + 1].op = "unmount"
    BY <1>3, <1>5 DEF Requested
  <1> QED BY <1>5, <1>6, <1>7 DEF Requested

\* The container of a root is a container.
LEMMA ContainerTyped ==
  ASSUME NEW b \in BridgeRecords, NEW r \in Roots(b)
  PROVE  ContainerOf(b, r) \in Containers
  BY RecordTypes DEF ContainerOf, RootRecords

\* The side effects of createRoot mark the container and are recorded.
LEMMA ApplyMakes ==
  ASSUME NEW b, IsBridge(b), NEW r \in Roots(b), ActiveEffects(b, r) = {},
         NEW d, d = ApplyEffects(b, r)
  PROVE  /\ IsBridge(d) /\ HasRecordsOf(d, b)
         /\ d.roots = b.roots /\ d.log = b.log /\ d.admissions = b.admissions
         /\ d.outputs = b.outputs /\ d.children = b.children
         /\ d.applied = b.applied /\ d.cleaned = b.cleaned
         /\ d.marker = With(b.marker, ContainerOf(b, r), r)
         /\ Len(d.effects) = Len(b.effects) + 1
         /\ \A e \in Effects(b) : d.effects[e] = b.effects[e]
         /\ d.effects[Len(b.effects) + 1].root = r
         /\ d.effects[Len(b.effects) + 1].active
  <1> DEFINE effect == [root |-> r, active |-> TRUE]
  <1>b. b \in BridgeRecords /\ Links(b) /\ r \in Nat
    BY BridgeTypes DEF IsBridge, Roots
  <1>c. ContainerOf(b, r) \in Containers
    BY <1>b, ContainerTyped
  <1>1. effect \in EffectRecords /\ effect.root = r /\ effect.active = TRUE
    BY <1>b DEF EffectRecords
  <1>q. d = [[b EXCEPT !.marker[ContainerOf(b, r)] = r] EXCEPT !.effects = Append(@, effect)]
    BY DEF ApplyEffects, MarkContainer
  <1> HIDE DEF effect
  <1>2. /\ d.marker = [b.marker EXCEPT ![ContainerOf(b, r)] = r]
        /\ d.effects = Append(b.effects, effect)
        /\ d.roots = b.roots /\ d.log = b.log /\ d.admissions = b.admissions
        /\ d.outputs = b.outputs /\ d.children = b.children
        /\ d.applied = b.applied /\ d.cleaned = b.cleaned
    BY <1>b, <1>q DEF BridgeRecords
  <1>3. /\ d.effects \in Seq(EffectRecords) /\ Len(d.effects) = Len(b.effects) + 1
        /\ d.effects[Len(b.effects) + 1] = effect
        /\ \A e \in Effects(b) : d.effects[e] = b.effects[e]
        /\ Effects(d) = Effects(b) \cup {Len(b.effects) + 1}
    BY <1>b, <1>1, <1>2, BridgeTypes, Extended DEF Effects
  <1>4. d \in BridgeRecords
    <2>1. d = [b EXCEPT !.marker = d.marker, !.effects = d.effects]
      BY <1>2, <1>b, <1>q DEF BridgeRecords
    <2>2. d.marker \in [Containers -> Nat]
      BY <1>2, <1>b, <1>c, BridgeTypes
    <2> QED BY <2>1, <2>2, <1>3, <1>b DEF BridgeRecords
  <1>5. /\ Roots(d) = Roots(b) /\ Requests(d) = Requests(b) /\ Admissions(d) = Admissions(b)
        /\ Outputs(d) = Outputs(b)
    BY <1>2 DEF Roots, Requests, Admissions, Outputs
  <1>6. Links(d)
    <2>1. \A e \in Effects(d) : d.effects[e].root \in Roots(d)
      BY <1>b, <1>1, <1>3, <1>5 DEF Links
    <2> QED BY <2>1, <1>2, <1>3, <1>5, <1>b DEF Links
  <1>7. HasRecordsOf(d, b)
    <2>1. /\ Len(b.roots) <= Len(b.roots) /\ Len(b.log) <= Len(b.log)
          /\ Len(b.effects) <= Len(d.effects) /\ Len(b.admissions) <= Len(b.admissions)
          /\ Len(b.outputs) <= Len(b.outputs)
      BY <1>3, <1>b, BridgeTypes
    <2> QED BY <2>1, <1>2, <1>3 DEF HasRecordsOf
  <1> QED BY <1>1, <1>2, <1>3, <1>4, <1>6, <1>7 DEF IsBridge, With

\* A revert of active side effects takes the marker back.
LEMMA RevertMakes ==
  ASSUME NEW b, IsBridge(b), NEW e \in Effects(b), b.effects[e].active,
         NEW d, d = RevertEffects(b, e)
  PROVE  /\ IsBridge(d) /\ HasRecordsOf(d, b)
         /\ d.roots = b.roots /\ d.log = b.log /\ d.admissions = b.admissions
         /\ d.outputs = b.outputs /\ d.children = b.children
         /\ d.applied = b.applied /\ d.cleaned = b.cleaned
         /\ d.marker = With(b.marker, ContainerOf(b, b.effects[e].root), None)
         /\ Len(d.effects) = Len(b.effects)
         /\ \A x \in Effects(b) : x # e => d.effects[x] = b.effects[x]
         /\ d.effects[e].root = b.effects[e].root
         /\ ~ d.effects[e].active
  <1> DEFINE effect == [b.effects[e] EXCEPT !.active = FALSE]
             c == ContainerOf(b, b.effects[e].root)
  <1>b. b \in BridgeRecords /\ Links(b) /\ b.effects[e].root \in Roots(b) /\ e \in 1 .. Len(b.effects)
    BY DEF IsBridge, Links, Effects
  <1>c. c \in Containers /\ None \in Nat
    BY <1>b, ContainerTyped DEF None
  <1>e. b.effects[e] \in EffectRecords
    BY <1>b, RecordTypes
  <1>1. effect \in EffectRecords /\ effect.root = b.effects[e].root /\ effect.active = FALSE
    BY <1>e DEF EffectRecords
  <1>q. d = [[b EXCEPT !.marker[c] = None] EXCEPT !.effects[e].active = FALSE]
    BY DEF RevertEffects, UnmarkContainer
  <1> HIDE DEF c
  <1>2. /\ d.marker = [b.marker EXCEPT ![c] = None]
        /\ d.effects = [b.effects EXCEPT ![e] = effect]
        /\ d.roots = b.roots /\ d.log = b.log /\ d.admissions = b.admissions
        /\ d.outputs = b.outputs /\ d.children = b.children
        /\ d.applied = b.applied /\ d.cleaned = b.cleaned
    BY <1>b, <1>q DEF BridgeRecords
  <1>m. d = [b EXCEPT !.marker = d.marker, !.effects = d.effects]
    BY <1>2, <1>b, <1>q DEF BridgeRecords
  <1> HIDE DEF effect
  <1>3. /\ d.effects \in Seq(EffectRecords) /\ Len(d.effects) = Len(b.effects)
        /\ d.effects[e] = effect
        /\ \A x \in Effects(b) : x # e => d.effects[x] = b.effects[x]
        /\ Effects(d) = Effects(b)
    BY <1>b, <1>1, <1>2, BridgeTypes, Replaced DEF Effects
  <1>4. d \in BridgeRecords
    <2>2. d.marker \in [Containers -> Nat]
      BY <1>2, <1>b, <1>c, BridgeTypes
    <2> QED BY <1>m, <2>2, <1>3, <1>b DEF BridgeRecords
  <1>5. /\ Roots(d) = Roots(b) /\ Requests(d) = Requests(b) /\ Admissions(d) = Admissions(b)
        /\ Outputs(d) = Outputs(b)
    BY <1>2 DEF Roots, Requests, Admissions, Outputs
  <1>s. \A x \in Effects(b) : d.effects[x].root = b.effects[x].root
    BY <1>3, <1>1
  <1>6. Links(d)
    <2>1. \A x \in Effects(d) : d.effects[x].root \in Roots(d)
      BY <1>b, <1>s, <1>3, <1>5 DEF Links
    <2> QED BY <2>1, <1>2, <1>3, <1>5, <1>b DEF Links
  <1>7. HasRecordsOf(d, b)
    <2>1. /\ Len(b.roots) <= Len(b.roots) /\ Len(b.log) <= Len(b.log)
          /\ Len(b.effects) <= Len(d.effects) /\ Len(b.admissions) <= Len(b.admissions)
          /\ Len(b.outputs) <= Len(b.outputs)
      BY <1>3, <1>b, BridgeTypes
    <2> QED BY <2>1, <1>2, <1>s DEF HasRecordsOf
  <1> QED BY <1>1, <1>2, <1>3, <1>4, <1>6, <1>7 DEF IsBridge, c, With

\* An admission is recorded and becomes the current one of its root.
LEMMA AdmitMakes ==
  ASSUME NEW b, IsBridge(b), NEW e \in Effects(b), NEW q \in Requests(b), ~ Admitted(b, e, q),
         NEW d, d = Admit(b, e, q)
  PROVE  /\ IsBridge(d) /\ HasRecordsOf(d, b)
         /\ d.log = b.log /\ d.marker = b.marker /\ d.effects = b.effects
         /\ d.outputs = b.outputs /\ d.children = b.children
         /\ d.applied = b.applied /\ d.cleaned = b.cleaned
         /\ Len(d.roots) = Len(b.roots)
         /\ \A x \in Roots(b) :
              /\ d.roots[x].container = b.roots[x].container
              /\ d.roots[x].status = b.roots[x].status
              /\ d.roots[x].renderCount = b.roots[x].renderCount
         /\ Len(d.admissions) = Len(b.admissions) + 1
         /\ \A a \in Admissions(b) : d.admissions[a] = b.admissions[a]
         /\ d.admissions[Len(b.admissions) + 1].render = q
         /\ d.admissions[Len(b.admissions) + 1].effect = e
  <1> DEFINE admission == [render |-> q, effect |-> e]
             r == b.effects[e].root
             root == [b.roots[r] EXCEPT !.admission = Len(b.admissions) + 1]
  <1>b. b \in BridgeRecords /\ Links(b) /\ r \in 1 .. Len(b.roots) /\ r \in Roots(b)
        /\ e \in Nat /\ q \in Nat /\ Len(b.admissions) + 1 \in Nat
    BY BridgeTypes, SMTT(30) DEF IsBridge, Links, Effects, Roots, Requests
  <1>r. b.roots[r] \in RootRecords
    BY <1>b, RecordTypes
  <1>1. admission \in AdmissionRecords /\ admission.render = q /\ admission.effect = e
    BY <1>b DEF AdmissionRecords
  <1>2. /\ root \in RootRecords /\ root.container = b.roots[r].container
        /\ root.status = b.roots[r].status /\ root.renderCount = b.roots[r].renderCount
    BY <1>b, <1>r DEF RootRecords
  <1>q. d = [b EXCEPT !.admissions = Append(@, admission), !.roots[r].admission = Len(b.admissions) + 1]
    BY DEF Admit
  <1> HIDE DEF admission, r
  <1>3. /\ d.admissions = Append(b.admissions, admission)
        /\ d.roots = [b.roots EXCEPT ![r] = root]
        /\ d.log = b.log /\ d.marker = b.marker /\ d.effects = b.effects
        /\ d.outputs = b.outputs /\ d.children = b.children
        /\ d.applied = b.applied /\ d.cleaned = b.cleaned
    BY <1>b, <1>q DEF BridgeRecords
  <1>m. d = [b EXCEPT !.admissions = d.admissions, !.roots = d.roots]
    BY <1>3, <1>b, <1>q DEF BridgeRecords
  <1> HIDE DEF root
  <1>4. /\ d.admissions \in Seq(AdmissionRecords) /\ Len(d.admissions) = Len(b.admissions) + 1
        /\ d.admissions[Len(b.admissions) + 1] = admission
        /\ \A a \in Admissions(b) : d.admissions[a] = b.admissions[a]
        /\ Admissions(d) = Admissions(b) \cup {Len(b.admissions) + 1}
    BY <1>b, <1>1, <1>3, BridgeTypes, Extended DEF Admissions
  <1>5. /\ d.roots \in Seq(RootRecords) /\ Len(d.roots) = Len(b.roots)
        /\ d.roots[r] = root
        /\ \A x \in Roots(b) : x # r => d.roots[x] = b.roots[x]
        /\ Roots(d) = Roots(b)
    BY <1>b, <1>2, <1>3, BridgeTypes, Replaced DEF Roots
  <1>6. d \in BridgeRecords
    BY <1>m, <1>4, <1>5, <1>b DEF BridgeRecords
  <1>s. \A x \in Roots(b) :
              /\ d.roots[x].container = b.roots[x].container
              /\ d.roots[x].status = b.roots[x].status
              /\ d.roots[x].renderCount = b.roots[x].renderCount
    BY <1>5, <1>2
  <1>7. Effects(d) = Effects(b) /\ Requests(d) = Requests(b) /\ Outputs(d) = Outputs(b)
    BY <1>3 DEF Effects, Requests, Outputs
  <1>8. Links(d)
    <2>1. \A a \in Admissions(d) :
            d.admissions[a].render \in Requests(d) /\ d.admissions[a].effect \in Effects(d)
      BY <1>b, <1>1, <1>4, <1>7 DEF Links
    <2> QED BY <2>1, <1>3, <1>4, <1>5, <1>7, <1>b DEF Links
  <1>9. HasRecordsOf(d, b)
    <2>1. /\ Len(b.roots) <= Len(d.roots) /\ Len(b.log) <= Len(b.log)
          /\ Len(b.effects) <= Len(b.effects) /\ Len(b.admissions) <= Len(d.admissions)
          /\ Len(b.outputs) <= Len(b.outputs)
      BY <1>4, <1>5, <1>b, BridgeTypes
    <2> QED BY <2>1, <1>3, <1>4, <1>s DEF HasRecordsOf
  <1> QED BY <1>1, <1>3, <1>4, <1>5, <1>6, <1>s, <1>8, <1>9 DEF IsBridge

\* New output is shown in the container of its root.
LEMMA ShowMakes ==
  ASSUME NEW b, IsBridge(b), NEW a \in Admissions(b), ~ HasActiveOutput(b, a),
         NEW d, d = Show(b, a)
  PROVE  /\ IsBridge(d) /\ HasRecordsOf(d, b)
         /\ d.roots = b.roots /\ d.log = b.log /\ d.marker = b.marker
         /\ d.effects = b.effects /\ d.admissions = b.admissions
         /\ d.applied = b.applied /\ d.cleaned = b.cleaned
         /\ Len(d.outputs) = Len(b.outputs) + 1
         /\ \A o \in Outputs(b) : d.outputs[o] = b.outputs[o]
         /\ d.outputs[Len(b.outputs) + 1].admission = a
         /\ d.outputs[Len(b.outputs) + 1].active
         /\ d.outputs[Len(b.outputs) + 1].mounted
         /\ d.outputs[Len(b.outputs) + 1].content = b.admissions[a].render
         /\ RootOfAdmission(b, a) \in Roots(b)
         /\ d.children = WithChild(b.children, ContainerOf(b, RootOfAdmission(b, a)),
                                   Len(b.outputs) + 1)
  <1> DEFINE c == ContainerOf(b, RootOfAdmission(b, a))
             n == Len(b.outputs) + 1
             output == [admission |-> a, active |-> TRUE, mounted |-> TRUE,
                        content |-> b.admissions[a].render]
  <1>b. /\ b \in BridgeRecords /\ Links(b) /\ RootOfAdmission(b, a) \in Roots(b)
        /\ b.admissions[a].render \in Requests(b)
    BY DEF IsBridge, Links, RootOfAdmission
  <1>a. a \in Nat
    BY <1>b, BridgeTypes DEF Admissions
  <1>n. n \in Nat /\ b.admissions[a].render \in Nat
    BY <1>b, BridgeTypes DEF Requests
  <1>c. c \in Containers
    BY <1>b, ContainerTyped
  <1>1. /\ output \in OutputRecords /\ output.admission = a /\ output.active = TRUE
        /\ output.mounted = TRUE /\ output.content = b.admissions[a].render
    BY <1>a, <1>n DEF OutputRecords
  <1>q. d = [b EXCEPT !.outputs = Append(@, output), !.children[c] = @ \cup {n}]
    BY DEF Show
  <1> HIDE DEF output, c, n
  <1>2. /\ d.outputs = Append(b.outputs, output)
        /\ d.children = [b.children EXCEPT ![c] = b.children[c] \cup {n}]
        /\ d.roots = b.roots /\ d.log = b.log /\ d.marker = b.marker
        /\ d.effects = b.effects /\ d.admissions = b.admissions
        /\ d.applied = b.applied /\ d.cleaned = b.cleaned
    BY <1>b, <1>q DEF BridgeRecords
  <1>m. d = [b EXCEPT !.outputs = d.outputs, !.children = d.children]
    BY <1>2, <1>b, <1>q DEF BridgeRecords
  <1>3. /\ d.outputs \in Seq(OutputRecords) /\ Len(d.outputs) = Len(b.outputs) + 1
        /\ d.outputs[Len(b.outputs) + 1] = output
        /\ \A o \in Outputs(b) : d.outputs[o] = b.outputs[o]
        /\ Outputs(d) = Outputs(b) \cup {Len(b.outputs) + 1}
    BY <1>b, <1>1, <1>2, BridgeTypes, Extended DEF Outputs
  <1>4. d \in BridgeRecords
    <2>2. d.children \in [Containers -> SUBSET Nat]
      BY <1>2, <1>b, <1>c, <1>n, BridgeTypes
    <2> QED BY <1>m, <2>2, <1>3, <1>b DEF BridgeRecords
  <1>5. /\ Roots(d) = Roots(b) /\ Requests(d) = Requests(b) /\ Admissions(d) = Admissions(b)
        /\ Effects(d) = Effects(b)
    BY <1>2 DEF Roots, Requests, Admissions, Effects
  <1>6. Links(d)
    <2>1. \A o \in Outputs(d) :
            d.outputs[o].admission \in Admissions(d) /\ d.outputs[o].content \in Requests(d)
      BY <1>b, <1>1, <1>3, <1>5 DEF Links
    <2> QED BY <2>1, <1>2, <1>5, <1>b DEF Links
  <1>7. HasRecordsOf(d, b)
    <2>1. /\ Len(b.roots) <= Len(b.roots) /\ Len(b.log) <= Len(b.log)
          /\ Len(b.effects) <= Len(b.effects) /\ Len(b.admissions) <= Len(b.admissions)
          /\ Len(b.outputs) <= Len(d.outputs)
      BY <1>3, <1>b, BridgeTypes
    <2> QED BY <2>1, <1>2, <1>3 DEF HasRecordsOf
  <1> QED BY <1>1, <1>2, <1>3, <1>4, <1>6, <1>7, <1>b DEF IsBridge, c, n, WithChild

\* A bridge stays one when a call changes what becomes of its records and not what they were
\* made of.
LEMMA RecordsChange ==
  ASSUME NEW b, IsBridge(b), NEW d, d \in BridgeRecords,
         Len(d.roots) = Len(b.roots),
         \A r \in Roots(b) : d.roots[r].container = b.roots[r].container,
         Len(d.log) = Len(b.log),
         \A q \in Requests(b) : d.log[q].root = b.log[q].root,
         Len(d.effects) = Len(b.effects),
         \A e \in Effects(b) : d.effects[e].root = b.effects[e].root,
         d.admissions = b.admissions,
         Len(d.outputs) = Len(b.outputs),
         \A o \in Outputs(b) :
           /\ d.outputs[o].admission = b.outputs[o].admission
           /\ d.outputs[o].content \in Requests(b),
         \A p \in d.applied : p[1] \in Requests(b),
         d.cleaned \subseteq Requests(b)
  PROVE  IsBridge(d) /\ HasRecordsOf(d, b)
  <1>b. b \in BridgeRecords /\ Links(b)
    BY DEF IsBridge
  <1>3. /\ Roots(d) = Roots(b) /\ Requests(d) = Requests(b) /\ Admissions(d) = Admissions(b)
        /\ Effects(d) = Effects(b) /\ Outputs(d) = Outputs(b)
    BY DEF Roots, Requests, Admissions, Effects, Outputs
  <1>4. Links(d)
    <2>1. \A o \in Outputs(d) :
            d.outputs[o].admission \in Admissions(d) /\ d.outputs[o].content \in Requests(d)
      BY <1>b, <1>3 DEF Links
    <2>2. \A q \in Requests(d) : d.log[q].root \in Roots(d)
      BY <1>b, <1>3 DEF Links
    <2>3. \A e \in Effects(d) : d.effects[e].root \in Roots(d)
      BY <1>b, <1>3 DEF Links
    <2> QED BY <2>1, <2>2, <2>3, <1>3, <1>b DEF Links
  <1>5. HasRecordsOf(d, b)
    <2>1. /\ Len(b.roots) <= Len(b.roots) /\ Len(b.log) <= Len(b.log)
          /\ Len(b.effects) <= Len(b.effects) /\ Len(b.admissions) <= Len(b.admissions)
          /\ Len(b.outputs) <= Len(b.outputs)
      BY <1>b, BridgeTypes
    <2> QED BY <2>1 DEF HasRecordsOf
  <1> QED BY <1>4, <1>5 DEF IsBridge

\* A cleanup of active output takes it from its container.
LEMMA CleanupMakes ==
  ASSUME NEW b, IsBridge(b), NEW o \in Outputs(b), b.outputs[o].active,
         NEW d, d = CleanupOutput(b, o)
  PROVE  /\ IsBridge(d) /\ HasRecordsOf(d, b)
         /\ d.roots = b.roots /\ d.log = b.log /\ d.marker = b.marker
         /\ d.effects = b.effects /\ d.admissions = b.admissions
         /\ d.applied = b.applied /\ d.cleaned = b.cleaned
         /\ Len(d.outputs) = Len(b.outputs)
         /\ \A x \in Outputs(b) : x # o => d.outputs[x] = b.outputs[x]
         /\ d.outputs[o].admission = b.outputs[o].admission
         /\ d.outputs[o].content = b.outputs[o].content
         /\ ~ d.outputs[o].active /\ ~ d.outputs[o].mounted
         /\ d.children = WithoutChild(b.children, ContainerOf(b, RootOfOutput(b, o)), o)
  <1> DEFINE c == ContainerOf(b, RootOfOutput(b, o))
             output == [b.outputs[o] EXCEPT !.active = FALSE, !.mounted = FALSE]
             outputs == [b.outputs EXCEPT ![o] = output]
             children == [b.children EXCEPT ![c] = b.children[c] \ {o}]
  <1>b. /\ b \in BridgeRecords /\ Links(b) /\ RootOfOutput(b, o) \in Roots(b)
        /\ o \in 1 .. Len(b.outputs) /\ b.outputs[o].content \in Requests(b)
    BY DEF IsBridge, Links, RootOfOutput, RootOfAdmission, Outputs
  <1>c. c \in Containers
    BY <1>b, ContainerTyped
  <1>o. b.outputs[o] \in OutputRecords
    BY <1>b, RecordTypes
  <1>1. /\ output \in OutputRecords /\ output.admission = b.outputs[o].admission
        /\ output.content = b.outputs[o].content
        /\ output.active = FALSE /\ output.mounted = FALSE
    BY <1>o DEF OutputRecords
  <1>q. d = [b EXCEPT !.children[c] = @ \ {o}, !.outputs[o] = output]
    BY DEF CleanupOutput
  <1> HIDE DEF output, c
  <1>2. /\ outputs \in Seq(OutputRecords) /\ Len(outputs) = Len(b.outputs)
        /\ outputs[o] = output
        /\ \A x \in Outputs(b) : x # o => outputs[x] = b.outputs[x]
    BY <1>b, <1>1, BridgeTypes, Replaced DEF Outputs
  <1>3. children \in [Containers -> SUBSET Nat]
    BY <1>b, <1>c, BridgeTypes
  <1>4. d = [b EXCEPT !.outputs = outputs, !.children = children]
    BY <1>b, <1>q DEF BridgeRecords
  <1>5. \A x \in Outputs(b) :
          outputs[x].admission = b.outputs[x].admission /\ outputs[x].content \in Requests(b)
    BY <1>1, <1>2, <1>b DEF Links
  <1> HIDE DEF outputs
  <1>6. /\ d.outputs = outputs /\ d.children = children
        /\ d.roots = b.roots /\ d.log = b.log /\ d.marker = b.marker
        /\ d.effects = b.effects /\ d.admissions = b.admissions
        /\ d.applied = b.applied /\ d.cleaned = b.cleaned
        /\ d \in BridgeRecords
    <2> HIDE DEF children
    <2> QED BY <1>2, <1>3, <1>4, <1>b DEF BridgeRecords
  <1>7. IsBridge(d) /\ HasRecordsOf(d, b)
    BY <1>2, <1>5, <1>6, <1>b, RecordsChange DEF Links
  <1> QED BY <1>1, <1>2, <1>6, <1>7 DEF c, WithoutChild

\* Clearing a container unmounts what it shows.
LEMMA ClearMakes ==
  ASSUME NEW b, IsBridge(b), NEW c \in Containers, NEW d, d = ClearContainer(b, c)
  PROVE  /\ IsBridge(d) /\ HasRecordsOf(d, b)
         /\ d.roots = b.roots /\ d.log = b.log /\ d.marker = b.marker
         /\ d.effects = b.effects /\ d.admissions = b.admissions
         /\ d.applied = b.applied /\ d.cleaned = b.cleaned
         /\ Len(d.outputs) = Len(b.outputs)
         /\ \A o \in Outputs(b) :
              /\ d.outputs[o].admission = b.outputs[o].admission
              /\ d.outputs[o].content = b.outputs[o].content
              /\ d.outputs[o].active = b.outputs[o].active
              /\ d.outputs[o].mounted <=> (b.outputs[o].mounted /\ o \notin b.children[c])
         /\ d.children = With(b.children, c, {})
  <1> DEFINE outputs == [o \in Outputs(b) |->
               [b.outputs[o] EXCEPT
                  !.mounted = b.outputs[o].mounted /\ o \notin b.children[c]]]
             children == [b.children EXCEPT ![c] = {}]
  <1>b. b \in BridgeRecords /\ Links(b) /\ Len(b.outputs) \in Nat
    BY BridgeTypes DEF IsBridge
  <1>1. \A o \in Outputs(b) :
          /\ outputs[o] \in OutputRecords
          /\ outputs[o].admission = b.outputs[o].admission
          /\ outputs[o].content = b.outputs[o].content
          /\ outputs[o].active = b.outputs[o].active
          /\ outputs[o].mounted = (b.outputs[o].mounted /\ o \notin b.children[c])
    <2> TAKE o \in Outputs(b)
    <2>1. b.outputs[o] \in OutputRecords
      BY <1>b, RecordTypes
    <2>2. outputs[o] = [b.outputs[o] EXCEPT
                          !.mounted = b.outputs[o].mounted /\ o \notin b.children[c]]
      OBVIOUS
    <2> DEFINE shown == (b.outputs[o].mounted /\ o \notin b.children[c])
    <2>3. shown \in BOOLEAN
      OBVIOUS
    <2> HIDE DEF outputs, shown
    <2>4. outputs[o] = [b.outputs[o] EXCEPT !.mounted = shown]
      BY <2>2 DEF shown
    <2>5. /\ outputs[o] \in OutputRecords
          /\ outputs[o].admission = b.outputs[o].admission
          /\ outputs[o].content = b.outputs[o].content
          /\ outputs[o].active = b.outputs[o].active
          /\ outputs[o].mounted = shown
      BY <2>1, <2>3, <2>4 DEF OutputRecords
    <2> QED BY <2>5 DEF shown
  <1>2. outputs \in Seq(OutputRecords) /\ Len(outputs) = Len(b.outputs)
    <2>1. outputs \in [1 .. Len(b.outputs) -> OutputRecords]
      BY <1>1 DEF Outputs
    <2> HIDE DEF outputs
    <2> QED BY <2>1, <1>b
  <1>3. children \in [Containers -> SUBSET Nat]
    BY <1>b, BridgeTypes
  <1>4. d = [b EXCEPT !.outputs = outputs, !.children = children]
    BY <1>b DEF BridgeRecords, ClearContainer
  <1>5. \A x \in Outputs(b) :
          outputs[x].admission = b.outputs[x].admission /\ outputs[x].content \in Requests(b)
    BY <1>1, <1>b DEF Links
  <1> HIDE DEF outputs
  <1>6. /\ d.outputs = outputs /\ d.children = children
        /\ d.roots = b.roots /\ d.log = b.log /\ d.marker = b.marker
        /\ d.effects = b.effects /\ d.admissions = b.admissions
        /\ d.applied = b.applied /\ d.cleaned = b.cleaned
        /\ d \in BridgeRecords
    <2> HIDE DEF children
    <2> QED BY <1>2, <1>3, <1>4, <1>b DEF BridgeRecords
  <1>7. IsBridge(d) /\ HasRecordsOf(d, b)
    BY <1>2, <1>5, <1>6, <1>b, RecordsChange DEF Links
  <1> QED BY <1>1, <1>2, <1>6, <1>7 DEF With

\* An update changes the content of one output, unless its request was applied before.
LEMMA UpdateMakes ==
  ASSUME NEW b, IsBridge(b), NEW q \in Requests(b), NEW o \in Outputs(b),
         NEW d, d = UpdateOutput(b, q, o)
  PROVE  /\ IsBridge(d) /\ HasRecordsOf(d, b)
         /\ d.log = b.log /\ d.marker = b.marker /\ d.effects = b.effects
         /\ d.admissions = b.admissions /\ d.children = b.children /\ d.cleaned = b.cleaned
         /\ Len(d.roots) = Len(b.roots)
         /\ \A x \in Roots(b) :
              /\ d.roots[x].container = b.roots[x].container
              /\ d.roots[x].status = b.roots[x].status
              /\ d.roots[x].renderCount = b.roots[x].renderCount
         /\ Len(d.outputs) = Len(b.outputs)
         /\ \A x \in Outputs(b) : x # o => d.outputs[x] = b.outputs[x]
         /\ d.outputs[o].admission = b.outputs[o].admission
         /\ d.outputs[o].active = b.outputs[o].active
         /\ d.outputs[o].mounted = b.outputs[o].mounted
         /\ d.outputs[o].content = IF IsApplied(b, q) THEN b.outputs[o].content ELSE q
  <1> DEFINE r == b.log[q].root
             root == [b.roots[r] EXCEPT !.update = q]
             output == [b.outputs[o] EXCEPT !.content = q]
  <1>b. /\ b \in BridgeRecords /\ Links(b) /\ r \in 1 .. Len(b.roots) /\ r \in Roots(b)
        /\ o \in 1 .. Len(b.outputs)
    BY DEF IsBridge, Links, Outputs, Roots
  <1>n. q \in Nat /\ o \in Nat
    BY <1>b, BridgeTypes DEF Requests, Outputs
  <1>r. b.roots[r] \in RootRecords /\ b.outputs[o] \in OutputRecords
    BY <1>b, RecordTypes
  <1>1. /\ root \in RootRecords /\ root.container = b.roots[r].container
        /\ root.status = b.roots[r].status /\ root.renderCount = b.roots[r].renderCount
    BY <1>n, <1>r DEF RootRecords
  <1>2. /\ output \in OutputRecords /\ output.admission = b.outputs[o].admission
        /\ output.active = b.outputs[o].active /\ output.mounted = b.outputs[o].mounted
        /\ output.content = q
    BY <1>n, <1>r DEF OutputRecords
  <1> DEFINE roots == [b.roots EXCEPT ![r] = root]
             outputs == [b.outputs EXCEPT ![o] = output]
  <1>3. IsApplied(b, q) => d = [b EXCEPT !.roots = roots]
    BY <1>b DEF UpdateOutput, BridgeRecords
  <1>4. ~ IsApplied(b, q) =>
          d = [b EXCEPT !.outputs = outputs, !.applied = @ \cup {<<q, o>>}, !.roots = roots]
    BY <1>b DEF UpdateOutput, BridgeRecords
  <1> HIDE DEF r, root, output
  <1>5. /\ roots \in Seq(RootRecords) /\ Len(roots) = Len(b.roots)
        /\ roots[r] = root
        /\ \A x \in Roots(b) : x # r => roots[x] = b.roots[x]
    BY <1>b, <1>1, BridgeTypes, Replaced DEF Roots
  <1>6. /\ outputs \in Seq(OutputRecords) /\ Len(outputs) = Len(b.outputs)
        /\ outputs[o] = output
        /\ \A x \in Outputs(b) : x # o => outputs[x] = b.outputs[x]
    BY <1>b, <1>2, BridgeTypes, Replaced DEF Outputs
  <1> HIDE DEF roots, outputs
  <1>7. b.applied \cup {<<q, o>>} \in SUBSET (Nat \X Nat)
    BY <1>b, <1>n, BridgeTypes
  <1>8. CASE IsApplied(b, q)
    <2>1. /\ d \in BridgeRecords /\ d.roots = roots
          /\ d.log = b.log /\ d.marker = b.marker /\ d.effects = b.effects
          /\ d.admissions = b.admissions /\ d.children = b.children /\ d.cleaned = b.cleaned
          /\ d.outputs = b.outputs /\ d.applied = b.applied
      BY <1>8, <1>3, <1>5, <1>b DEF BridgeRecords
    <2>2. \A x \in Roots(b) :
              /\ d.roots[x].container = b.roots[x].container
              /\ d.roots[x].status = b.roots[x].status
              /\ d.roots[x].renderCount = b.roots[x].renderCount
      BY <2>1, <1>1, <1>5
    <2>3. IsBridge(d) /\ HasRecordsOf(d, b)
      BY <2>1, <2>2, <1>5, <1>b, RecordsChange DEF Links
    <2> QED BY <1>8, <2>1, <2>2, <2>3, <1>5
  <1>9. CASE ~ IsApplied(b, q)
    <2>1. /\ d \in BridgeRecords /\ d.roots = roots
          /\ d.log = b.log /\ d.marker = b.marker /\ d.effects = b.effects
          /\ d.admissions = b.admissions /\ d.children = b.children /\ d.cleaned = b.cleaned
          /\ d.outputs = outputs /\ d.applied = b.applied \cup {<<q, o>>}
      <3> DEFINE applied == b.applied \cup {<<q, o>>}
      <3>1. d = [b EXCEPT !.outputs = outputs, !.applied = applied, !.roots = roots]
        BY <1>9, <1>4
      <3> HIDE DEF applied
      <3>2. /\ d \in BridgeRecords /\ d.roots = roots
            /\ d.log = b.log /\ d.marker = b.marker /\ d.effects = b.effects
            /\ d.admissions = b.admissions /\ d.children = b.children /\ d.cleaned = b.cleaned
            /\ d.outputs = outputs /\ d.applied = applied
        BY <3>1, <1>5, <1>6, <1>7, <1>b DEF BridgeRecords, applied
      <3> QED BY <3>2 DEF applied
    <2>2. \A x \in Roots(b) :
              /\ d.roots[x].container = b.roots[x].container
              /\ d.roots[x].status = b.roots[x].status
              /\ d.roots[x].renderCount = b.roots[x].renderCount
      BY <2>1, <1>1, <1>5
    <2>3. \A p \in d.applied : p[1] \in Requests(b)
      BY <2>1, <1>b DEF Links
    <2>4. \A x \in Outputs(b) :
            /\ d.outputs[x].admission = b.outputs[x].admission
            /\ d.outputs[x].content \in Requests(b)
      BY <2>1, <1>2, <1>6, <1>b DEF Links
    <2>5. d.cleaned \subseteq Requests(b)
      BY <2>1, <1>b DEF Links
    <2>6. IsBridge(d) /\ HasRecordsOf(d, b)
      BY <2>1, <2>2, <2>3, <2>4, <2>5, <1>5, <1>6, RecordsChange
    <2> QED BY <1>9, <2>1, <2>2, <2>6, <1>2, <1>5, <1>6
  <1> QED BY <1>8, <1>9

-----------------------------------------------------------------------------
(***************************************************************************)
(* What the bridge keeps true                                              *)
(***************************************************************************)

\* Side effects are active on a container exactly while it is marked with their root, and
\* no two of them at once.
EffectsOwnMarkers(b) ==
  /\ \A e \in Effects(b) : b.effects[e].active =>
       b.marker[ContainerOf(b, b.effects[e].root)] = b.effects[e].root
  /\ \A c \in Containers : b.marker[c] # None =>
       \E e \in Effects(b) : b.effects[e].active /\ ContainerOf(b, b.effects[e].root) = c
  /\ \A e, x \in Effects(b) :
       /\ b.effects[e].active /\ b.effects[x].active
       /\ ContainerOf(b, b.effects[e].root) = ContainerOf(b, b.effects[x].root)
       => e = x

\* A container shows outputs of its own roots, the mounted ones.
ChildrenMatch(b) ==
  /\ \A c \in Containers : \A o \in b.children[c] :
       o \in Outputs(b) /\ ContainerOf(b, RootOfOutput(b, o)) = c
  /\ \A o \in Outputs(b) :
       b.outputs[o].mounted <=> o \in b.children[ContainerOf(b, RootOfOutput(b, o))]

\* Renders are admitted under side effects of their own root.
AdmissionsMatch(b) ==
  \A a \in Admissions(b) :
    /\ b.log[b.admissions[a].render].op = "render"
    /\ RootOfAdmission(b, a) = b.effects[b.admissions[a].effect].root

\* What an output shows is a render of its root.
ContentsMatch(b) ==
  \A o \in Outputs(b) :
    /\ b.log[b.outputs[o].content].op = "render"
    /\ b.log[b.outputs[o].content].root = RootOfOutput(b, o)

\* Output that another call took away was admitted under side effects that are gone.
LostWithEffects(b) ==
  \A o \in Outputs(b) : b.outputs[o].active /\ ~ b.outputs[o].mounted =>
    ~ b.effects[b.admissions[b.outputs[o].admission].effect].active

\* A root whose output was cleaned up is unmounted and shows nothing.
CleanedAreEmpty(b) ==
  \A u \in b.cleaned :
    /\ b.roots[b.log[u].root].status = "unmounted"
    /\ \A o \in Outputs(b) : RootOfOutput(b, o) = b.log[u].root => ~ b.outputs[o].mounted

\* The renders of a root are counted.
CountsGrow(b) ==
  /\ \A q \in Requests(b) : b.log[q].op = "render" =>
       b.log[q].count <= b.roots[b.log[q].root].renderCount
  /\ \A p, q \in Requests(b) :
       /\ b.log[p].op = "render" /\ b.log[q].op = "render"
       /\ b.log[p].root = b.log[q].root /\ p < q
       => b.log[p].count < b.log[q].count

BridgeInv(b) ==
  /\ IsBridge(b) /\ EffectsOwnMarkers(b) /\ ChildrenMatch(b) /\ AdmissionsMatch(b)
  /\ ContentsMatch(b) /\ LostWithEffects(b) /\ CleanedAreEmpty(b) /\ CountsGrow(b)

\* A call that leaves side effects and markers alone.
LEMMA EffectsFrame ==
  ASSUME NEW b, IsBridge(b), EffectsOwnMarkers(b), NEW d, HasRecordsOf(d, b),
         d.effects = b.effects, d.marker = b.marker
  PROVE  EffectsOwnMarkers(d)
  <1>1. Effects(d) = Effects(b)
    BY DEF Effects
  <1>2. \A e \in Effects(b) : ContainerOf(d, d.effects[e].root) = ContainerOf(b, b.effects[e].root)
    BY DEF IsBridge, Links, HasRecordsOf, ContainerOf
  <1> QED BY <1>1, <1>2 DEF EffectsOwnMarkers

\* A call that leaves what is mounted alone.
LEMMA ChildrenFrame ==
  ASSUME NEW b, IsBridge(b), ChildrenMatch(b), NEW d, HasRecordsOf(d, b),
         Len(d.outputs) = Len(b.outputs), d.children = b.children,
         \A o \in Outputs(b) : d.outputs[o].mounted = b.outputs[o].mounted
  PROVE  ChildrenMatch(d)
  <1>1. Outputs(d) = Outputs(b)
    BY DEF Outputs
  <1>2. \A o \in Outputs(b) :
          ContainerOf(d, RootOfOutput(d, o)) = ContainerOf(b, RootOfOutput(b, o))
    BY RootsStay
  <1> QED BY <1>1, <1>2 DEF ChildrenMatch

\* A call that admits nothing.
LEMMA AdmissionsFrame ==
  ASSUME NEW b, IsBridge(b), AdmissionsMatch(b), NEW d, HasRecordsOf(d, b),
         d.admissions = b.admissions,
         \A q \in Requests(b) : d.log[q].op = b.log[q].op
  PROVE  AdmissionsMatch(d)
  <1>1. Admissions(d) = Admissions(b)
    BY DEF Admissions
  <1>2. \A a \in Admissions(b) : RootOfAdmission(d, a) = RootOfAdmission(b, a)
    BY RootsStay
  <1>3. \A a \in Admissions(b) :
          b.admissions[a].render \in Requests(b) /\ b.admissions[a].effect \in Effects(b)
    BY DEF IsBridge, Links
  <1>4. \A e \in Effects(b) : d.effects[e].root = b.effects[e].root
    BY DEF HasRecordsOf
  <1> QED BY <1>1, <1>2, <1>3, <1>4 DEF AdmissionsMatch

\* A call that leaves the contents of outputs alone.
LEMMA ContentsFrame ==
  ASSUME NEW b, IsBridge(b), ContentsMatch(b), NEW d, HasRecordsOf(d, b),
         Len(d.outputs) = Len(b.outputs),
         \A o \in Outputs(b) : d.outputs[o].content = b.outputs[o].content,
         \A q \in Requests(b) : d.log[q].op = b.log[q].op
  PROVE  ContentsMatch(d)
  <1>1. Outputs(d) = Outputs(b)
    BY DEF Outputs
  <1>2. \A o \in Outputs(b) : RootOfOutput(d, o) = RootOfOutput(b, o)
    BY RootsStay
  <1>3. \A o \in Outputs(b) : b.outputs[o].content \in Requests(b)
    BY DEF IsBridge, Links
  <1>4. \A q \in Requests(b) : d.log[q].root = b.log[q].root
    BY DEF HasRecordsOf
  <1> QED BY <1>1, <1>2, <1>3, <1>4 DEF ContentsMatch

\* A call that makes no output active or lost and revives no side effects.
LEMMA LostFrame ==
  ASSUME NEW b, IsBridge(b), LostWithEffects(b), NEW d, HasRecordsOf(d, b),
         Len(d.outputs) = Len(b.outputs),
         \A o \in Outputs(b) : d.outputs[o].active /\ ~ d.outputs[o].mounted =>
           b.outputs[o].active /\ ~ b.outputs[o].mounted,
         \A e \in Effects(b) : d.effects[e].active => b.effects[e].active
  PROVE  LostWithEffects(d)
  <1>1. Outputs(d) = Outputs(b)
    BY DEF Outputs
  <1>2. \A o \in Outputs(b) :
          /\ b.outputs[o].admission \in Admissions(b)
          /\ b.admissions[b.outputs[o].admission].effect \in Effects(b)
          /\ d.admissions[d.outputs[o].admission].effect =
               b.admissions[b.outputs[o].admission].effect
    BY DEF IsBridge, Links, HasRecordsOf
  <1> QED BY <1>1, <1>2 DEF LostWithEffects

\* A call that mounts nothing and remounts no root.
LEMMA CleanedFrame ==
  ASSUME NEW b, IsBridge(b), CleanedAreEmpty(b), NEW d, HasRecordsOf(d, b),
         d.cleaned = b.cleaned, Len(d.outputs) = Len(b.outputs),
         \A o \in Outputs(b) : d.outputs[o].mounted => b.outputs[o].mounted,
         \A r \in Roots(b) : b.roots[r].status = "unmounted" => d.roots[r].status = "unmounted"
  PROVE  CleanedAreEmpty(d)
  <1>1. Outputs(d) = Outputs(b)
    BY DEF Outputs
  <1>2. \A o \in Outputs(b) : RootOfOutput(d, o) = RootOfOutput(b, o)
    BY RootsStay
  <1>3. \A u \in b.cleaned : b.log[u].root \in Roots(b) /\ d.log[u].root = b.log[u].root
    BY DEF IsBridge, Links, HasRecordsOf
  <1> QED BY <1>1, <1>2, <1>3 DEF CleanedAreEmpty

\* A call that makes no render request.
LEMMA CountsFrame ==
  ASSUME NEW b, IsBridge(b), CountsGrow(b), NEW d, IsBridge(d),
         \A q \in Requests(d) : d.log[q].op = "render" =>
           q \in Requests(b) /\ d.log[q] = b.log[q],
         \A r \in Roots(b) : d.roots[r].renderCount = b.roots[r].renderCount
  PROVE  CountsGrow(d)
  <1>1. \A q \in Requests(b) : b.log[q].root \in Roots(b)
    BY DEF IsBridge, Links
  <1> QED BY <1>1 DEF CountsGrow

\* A bridge starts that way.
LEMMA EmptyKeeps == BridgeInv(EmptyBridge)
  <1> DEFINE b == EmptyBridge
  <1>1. /\ b.roots = <<>> /\ b.log = <<>> /\ b.effects = <<>> /\ b.admissions = <<>>
        /\ b.outputs = <<>> /\ b.applied = {} /\ b.cleaned = {}
        /\ b.marker = [c \in Containers |-> None] /\ b.children = [c \in Containers |-> {}]
    BY DEF EmptyBridge
  <1>2. b \in BridgeRecords
    BY DEF EmptyBridge, BridgeRecords, None
  <1> HIDE DEF b
  <1>3. /\ Roots(b) = {} /\ Requests(b) = {} /\ Effects(b) = {} /\ Admissions(b) = {}
        /\ Outputs(b) = {}
    BY <1>1 DEF Roots, Requests, Effects, Admissions, Outputs
  <1>4. IsBridge(b)
    BY <1>1, <1>2, <1>3 DEF IsBridge, Links
  <1>5. EffectsOwnMarkers(b) /\ ChildrenMatch(b)
    BY <1>1, <1>3 DEF EffectsOwnMarkers, ChildrenMatch, None
  <1>6. /\ AdmissionsMatch(b) /\ ContentsMatch(b) /\ LostWithEffects(b)
        /\ CleanedAreEmpty(b) /\ CountsGrow(b)
    BY <1>1, <1>3 DEF AdmissionsMatch, ContentsMatch, LostWithEffects, CleanedAreEmpty, CountsGrow
  <1>7. BridgeInv(b)
    BY <1>4, <1>5, <1>6 DEF BridgeInv
  <1> QED BY <1>7 DEF b

\* createClientRoot keeps it.
LEMMA CreateKeeps ==
  ASSUME NEW b, BridgeInv(b), NEW c \in Containers, NEW d, d = CreateClientRoot(b, c)
  PROVE  BridgeInv(d)
  <1>b. /\ IsBridge(b) /\ EffectsOwnMarkers(b) /\ ChildrenMatch(b) /\ AdmissionsMatch(b)
        /\ ContentsMatch(b) /\ LostWithEffects(b) /\ CleanedAreEmpty(b) /\ CountsGrow(b)
        /\ Len(b.log) \in Nat
    BY BridgeTypes DEF BridgeInv, IsBridge
  <1>1. /\ IsBridge(d) /\ HasRecordsOf(d, b)
        /\ d.marker = b.marker /\ d.effects = b.effects /\ d.admissions = b.admissions
        /\ d.outputs = b.outputs /\ d.children = b.children
        /\ d.applied = b.applied /\ d.cleaned = b.cleaned
        /\ Len(d.log) = Len(b.log) + 1
        /\ \A r \in Roots(b) : d.roots[r] = b.roots[r]
        /\ \A q \in Requests(b) : d.log[q] = b.log[q]
        /\ d.log[Len(b.log) + 1].op = "create"
    BY <1>b, CreateMakes
  <1>2. \A q \in Requests(d) : d.log[q].op = "render" =>
           q \in Requests(b) /\ d.log[q] = b.log[q]
    BY <1>b, <1>1 DEF Requests
  <1>3. EffectsOwnMarkers(d) /\ ChildrenMatch(d) /\ AdmissionsMatch(d)
    BY <1>b, <1>1, EffectsFrame, ChildrenFrame, AdmissionsFrame
  <1>4. ContentsMatch(d) /\ LostWithEffects(d) /\ CleanedAreEmpty(d)
    BY <1>b, <1>1, ContentsFrame, LostFrame, CleanedFrame
  <1>5. CountsGrow(d)
    BY <1>b, <1>1, <1>2, CountsFrame
  <1> QED BY <1>1, <1>3, <1>4, <1>5 DEF BridgeInv

\* A request keeps it: a render counts one up, and no render follows an unmount.
LEMMA RequestKeeps ==
  ASSUME NEW b, BridgeInv(b), NEW r \in Roots(b), NEW op \in {"render", "unmount"},
         NEW status \in Statuses, NEW count \in Nat, NEW noOp \in BOOLEAN,
         b.roots[r].status = "unmounted" => status = "unmounted",
         op = "render" => count = b.roots[r].renderCount + 1,
         op = "unmount" => count = b.roots[r].renderCount,
         NEW d, d = Request(b, r, op, status, count, noOp)
  PROVE  BridgeInv(d)
  <1>b. /\ IsBridge(b) /\ EffectsOwnMarkers(b) /\ ChildrenMatch(b) /\ AdmissionsMatch(b)
        /\ ContentsMatch(b) /\ LostWithEffects(b) /\ CleanedAreEmpty(b) /\ CountsGrow(b)
        /\ Len(b.log) \in Nat
    BY BridgeTypes DEF BridgeInv, IsBridge
  <1>1. /\ IsBridge(d) /\ HasRecordsOf(d, b)
        /\ d.marker = b.marker /\ d.effects = b.effects /\ d.admissions = b.admissions
        /\ d.outputs = b.outputs /\ d.children = b.children
        /\ d.applied = b.applied /\ d.cleaned = b.cleaned
        /\ Len(d.log) = Len(b.log) + 1
        /\ \A x \in Roots(b) : x # r => d.roots[x] = b.roots[x]
        /\ d.roots[r].status = status /\ d.roots[r].renderCount = count
        /\ \A q \in Requests(b) : d.log[q] = b.log[q]
        /\ d.log[Len(b.log) + 1].op = op /\ d.log[Len(b.log) + 1].root = r
        /\ d.log[Len(b.log) + 1].count = count
    <2>1. Requested(d, b, r, op, status, count)
      BY <1>b, RequestMakes
    <2> QED BY <2>1 DEF Requested
  <1>2. \A x \in Roots(b) : b.roots[x].status = "unmounted" => d.roots[x].status = "unmounted"
    BY <1>1
  <1>3. EffectsOwnMarkers(d) /\ ChildrenMatch(d) /\ AdmissionsMatch(d)
    BY <1>b, <1>1, EffectsFrame, ChildrenFrame, AdmissionsFrame
  <1>4. ContentsMatch(d) /\ LostWithEffects(d)
    BY <1>b, <1>1, ContentsFrame, LostFrame
  <1>5. CleanedAreEmpty(d)
    BY <1>b, <1>1, <1>2, CleanedFrame
  <1>6. CountsGrow(d)
    <2>1. CASE op = "unmount"
      <3>1. \A q \in Requests(d) : d.log[q].op = "render" =>
               q \in Requests(b) /\ d.log[q] = b.log[q]
        BY <2>1, <1>b, <1>1 DEF Requests
      <3>2. \A x \in Roots(b) : d.roots[x].renderCount = b.roots[x].renderCount
        BY <2>1, <1>1
      <3> QED BY <1>b, <1>1, <3>1, <3>2, CountsFrame
    <2>2. CASE op = "render"
      <3>1. Requests(d) = Requests(b) \cup {Len(b.log) + 1}
        BY <1>b, <1>1 DEF Requests
      <3>2. \A q \in Requests(b) : q \in Nat /\ q < Len(b.log) + 1
        BY <1>b DEF Requests
      <3>3. \A q \in Requests(b) : b.log[q].root \in Roots(b) /\ b.log[q].count \in Nat
        <4>1. \A q \in Requests(b) : b.log[q] \in RequestRecords
          BY <1>b, RecordTypes DEF IsBridge
        <4> QED BY <4>1, <1>b DEF IsBridge, Links, RequestRecords
      <3>r. \A x \in Roots(b) : b.roots[x].renderCount \in Nat
        <4>1. \A x \in Roots(b) : b.roots[x] \in RootRecords
          BY <1>b, RecordTypes DEF IsBridge
        <4> QED BY <4>1 DEF RootRecords
      <3>4. \A x \in Roots(b) :
              /\ b.roots[x].renderCount <= d.roots[x].renderCount
              /\ d.roots[x].renderCount \in Nat
        BY <2>2, <1>1, <3>r
      <3>5. \A q \in Requests(b) : b.log[q].op = "render" =>
              /\ b.log[q].count <= b.roots[b.log[q].root].renderCount
              /\ b.log[q].count <= d.roots[b.log[q].root].renderCount
              /\ b.log[q].root = r => b.log[q].count < count
        BY <2>2, <3>3, <3>4, <3>r, <1>b, SMTT(30) DEF CountsGrow
      <3>6. \A q \in Requests(d) : d.log[q].op = "render" =>
              d.log[q].count <= d.roots[d.log[q].root].renderCount
        BY <3>1, <3>5, <1>1, SMTT(30)
      <3>7. ASSUME NEW p \in Requests(d), NEW q \in Requests(d),
                   d.log[p].op = "render", d.log[q].op = "render",
                   d.log[p].root = d.log[q].root, p < q
            PROVE  d.log[p].count < d.log[q].count
        <4>1. p \in Requests(b)
          BY <3>1, <3>2, <3>7, <1>b
        <4>2. CASE q \in Requests(b)
          BY <4>1, <4>2, <3>7, <1>1, <1>b, SMTT(30) DEF CountsGrow
        <4>3. CASE q = Len(b.log) + 1
          BY <4>1, <4>3, <3>5, <3>7, <1>1
        <4> QED BY <4>2, <4>3, <3>1
      <3> QED BY <3>6, <3>7 DEF CountsGrow
    <2> QED BY <2>1, <2>2
  <1> QED BY <1>1, <1>3, <1>4, <1>5, <1>6 DEF BridgeInv

\* The side effects of createRoot keep it: they are applied to a container nobody marked.
LEMMA ApplyKeeps ==
  ASSUME NEW b, BridgeInv(b), NEW r \in Roots(b), CanApplyEffects(b, r),
         NEW d, d = ApplyEffects(b, r)
  PROVE  BridgeInv(d)
  <1>a. CASE ActiveEffects(b, r) # {}
    BY <1>a DEF ApplyEffects
  <1>n. CASE ActiveEffects(b, r) = {}
    <2> DEFINE n == Len(b.effects) + 1
               c == ContainerOf(b, r)
    <2>b. /\ IsBridge(b) /\ EffectsOwnMarkers(b) /\ ChildrenMatch(b) /\ AdmissionsMatch(b)
          /\ ContentsMatch(b) /\ LostWithEffects(b) /\ CleanedAreEmpty(b) /\ CountsGrow(b)
          /\ b \in BridgeRecords
      BY DEF BridgeInv, IsBridge
    <2>t. Len(b.effects) \in Nat /\ b.marker \in [Containers -> Nat]
      BY <2>b, BridgeTypes
    <2>c. c \in Containers /\ b.marker[c] = None
      BY <1>n, <2>b, ContainerTyped DEF CanApplyEffects, CanMark
    <2>1. /\ IsBridge(d) /\ HasRecordsOf(d, b)
          /\ d.roots = b.roots /\ d.log = b.log /\ d.admissions = b.admissions
          /\ d.outputs = b.outputs /\ d.children = b.children
          /\ d.applied = b.applied /\ d.cleaned = b.cleaned
          /\ d.marker = With(b.marker, c, r)
          /\ Len(d.effects) = n
          /\ \A e \in Effects(b) : d.effects[e] = b.effects[e]
          /\ d.effects[n].root = r
          /\ d.effects[n].active
      BY <1>n, <2>b, ApplyMakes
    <2>2. Effects(d) = Effects(b) \cup {n} /\ n \notin Effects(b)
      BY <2>1, <2>t DEF Effects
    <2>3. \A x : ContainerOf(d, x) = ContainerOf(b, x)
      BY <2>1 DEF ContainerOf
    <2>r. r \in Nat /\ r # None
      BY <2>b, BridgeTypes DEF Roots, None
    <2>u. \A e \in Effects(b) : b.effects[e].active =>
            /\ b.effects[e].root \in Roots(b) /\ b.effects[e].root # None
            /\ ContainerOf(b, b.effects[e].root) # c
      BY <2>b, <2>c, BridgeTypes DEF IsBridge, Links, EffectsOwnMarkers, Roots, None
    <2>m. d.marker[c] = r /\ \A x \in Containers : x # c => d.marker[x] = b.marker[x]
      BY <2>1, <2>t, <2>c DEF With
    <2> HIDE DEF n, c
    <2>o. \A e \in Effects(b) : ContainerOf(b, b.effects[e].root) \in Containers
      BY <2>b, ContainerTyped DEF Links, IsBridge
    <2>4. EffectsOwnMarkers(d)
      <3>1. \A e \in Effects(d) : d.effects[e].active =>
              d.marker[ContainerOf(d, d.effects[e].root)] = d.effects[e].root
        <4>1. d.marker[ContainerOf(d, d.effects[n].root)] = d.effects[n].root
          BY <2>1, <2>3, <2>m DEF c
        <4> QED BY <4>1, <2>1, <2>2, <2>3, <2>b, <2>u, <2>o, <2>m DEF EffectsOwnMarkers
      <3>2. \A x \in Containers : d.marker[x] # None =>
              \E e \in Effects(d) : d.effects[e].active /\ ContainerOf(d, d.effects[e].root) = x
        <4>1. \A x \in Containers \ {c} : d.marker[x] = b.marker[x]
          BY <2>m
        <4>2. d.effects[n].active /\ ContainerOf(d, d.effects[n].root) = c /\ n \in Effects(d)
          BY <2>1, <2>2, <2>3 DEF c
        <4> QED BY <4>1, <4>2, <2>1, <2>2, <2>3, <2>b DEF EffectsOwnMarkers
      <3>3. \A e, x \in Effects(d) :
              /\ d.effects[e].active /\ d.effects[x].active
              /\ ContainerOf(d, d.effects[e].root) = ContainerOf(d, d.effects[x].root)
              => e = x
        <4>1. ContainerOf(d, d.effects[n].root) = c
          BY <2>1, <2>3 DEF c
        <4> QED BY <4>1, <2>1, <2>2, <2>3, <2>b, <2>u DEF EffectsOwnMarkers
      <3> QED BY <3>1, <3>2, <3>3 DEF EffectsOwnMarkers
    <2>5. ChildrenMatch(d) /\ AdmissionsMatch(d)
      BY <2>b, <2>1, ChildrenFrame, AdmissionsFrame
    <2>6. ContentsMatch(d) /\ LostWithEffects(d) /\ CleanedAreEmpty(d)
      <3>1. ContentsMatch(d)
        BY <2>b, <2>1, ContentsFrame
      <3>2. LostWithEffects(d)
        BY <2>b, <2>1, LostFrame
      <3>3. CleanedAreEmpty(d)
        BY <2>b, <2>1, CleanedFrame
      <3> QED BY <3>1, <3>2, <3>3
    <2>7. CountsGrow(d)
      BY <2>b, <2>1, CountsFrame DEF Requests
    <2> QED BY <2>1, <2>4, <2>5, <2>6, <2>7 DEF BridgeInv
  <1> QED BY <1>a, <1>n

\* A failed installation leaves the bridge as it was.
LEMMA ApplyFailsKeeps ==
  ASSUME NEW b, IsBridge(b), NEW r \in Roots(b), CanMark(b, ContainerOf(b, r))
  PROVE  ApplyEffectsFails(b, r) = b
  <1> DEFINE c == ContainerOf(b, r)
             d == ApplyEffectsFails(b, r)
  <1>1. b \in BridgeRecords /\ c \in Containers /\ b.marker[c] = None
    BY ContainerTyped DEF IsBridge, CanMark
  <1>2. d = [[b EXCEPT !.marker[c] = r] EXCEPT !.marker[c] = None]
    BY DEF ApplyEffectsFails, MarkContainer, UnmarkContainer
  <1> HIDE DEF c, d
  <1>3. [[b.marker EXCEPT ![c] = r] EXCEPT ![c] = None] = b.marker
    BY <1>1, BridgeTypes
  <1>4. d = [b EXCEPT !.marker = [[b.marker EXCEPT ![c] = r] EXCEPT ![c] = None]]
    BY <1>1, <1>2 DEF BridgeRecords
  <1>5. d = [b EXCEPT !.marker = b.marker]
    BY <1>3, <1>4
  <1>6. d = b
    BY <1>1, <1>5 DEF BridgeRecords
  <1> QED BY <1>6 DEF d

\* A revert takes the marker of its own side effects.
LEMMA RevertOwns ==
  ASSUME NEW b, IsBridge(b), EffectsOwnMarkers(b), NEW e \in Effects(b), b.effects[e].active,
         NEW d, d = RevertEffects(b, e)
  PROVE  EffectsOwnMarkers(d)
  <1> DEFINE c == ContainerOf(b, b.effects[e].root)
  <1>b. b \in BridgeRecords
    BY DEF IsBridge
  <1>t. Len(b.effects) \in Nat /\ b.marker \in [Containers -> Nat]
    BY <1>b, BridgeTypes
  <1>o. \A x \in Effects(b) : ContainerOf(b, b.effects[x].root) \in Containers
    BY <1>b, ContainerTyped DEF Links, IsBridge
  <1>1. /\ d.roots = b.roots
        /\ d.marker = With(b.marker, c, None)
        /\ Len(d.effects) = Len(b.effects)
        /\ \A x \in Effects(b) : x # e => d.effects[x] = b.effects[x]
        /\ ~ d.effects[e].active
    BY RevertMakes
  <1>2. Effects(d) = Effects(b)
    BY <1>1 DEF Effects
  <1>3. \A x : ContainerOf(d, x) = ContainerOf(b, x)
    BY <1>1 DEF ContainerOf
  <1>u. \A x \in Effects(b) : x # e /\ b.effects[x].active =>
          ContainerOf(b, b.effects[x].root) # c
    BY DEF EffectsOwnMarkers
  <1>c. c \in Containers
    BY <1>o
  <1>m. d.marker[c] = None /\ \A x \in Containers : x # c => d.marker[x] = b.marker[x]
    BY <1>1, <1>t, <1>c DEF With
  <1> HIDE DEF c
  <1>4. \A x \in Effects(d) : d.effects[x].active =>
          d.marker[ContainerOf(d, d.effects[x].root)] = d.effects[x].root
    BY <1>1, <1>2, <1>3, <1>u, <1>o, <1>m DEF EffectsOwnMarkers
  <1>5. \A k \in Containers : d.marker[k] # None =>
          \E x \in Effects(d) : d.effects[x].active /\ ContainerOf(d, d.effects[x].root) = k
    <2> SUFFICES ASSUME NEW k \in Containers, d.marker[k] # None
                 PROVE  \E x \in Effects(d) :
                          d.effects[x].active /\ ContainerOf(d, d.effects[x].root) = k
      OBVIOUS
    <2>1. k # c /\ b.marker[k] # None
      BY <1>m
    <2>2. PICK x \in Effects(b) : b.effects[x].active /\ ContainerOf(b, b.effects[x].root) = k
      BY <2>1 DEF EffectsOwnMarkers
    <2>3. x # e
      BY <2>1, <2>2 DEF c
    <2> QED BY <2>2, <2>3, <1>1, <1>2, <1>3
  <1>6. \A x, y \in Effects(d) :
          /\ d.effects[x].active /\ d.effects[y].active
          /\ ContainerOf(d, d.effects[x].root) = ContainerOf(d, d.effects[y].root)
          => x = y
    BY <1>1, <1>2, <1>3 DEF EffectsOwnMarkers
  <1> QED BY <1>4, <1>5, <1>6 DEF EffectsOwnMarkers

\* A revert keeps it.
LEMMA RevertKeeps ==
  ASSUME NEW b, BridgeInv(b), NEW e \in Effects(b), NEW d, d = RevertEffects(b, e)
  PROVE  BridgeInv(d)
  <1>a. CASE ~ b.effects[e].active
    BY <1>a DEF RevertEffects
  <1>n. CASE b.effects[e].active
    <2>b. /\ IsBridge(b) /\ EffectsOwnMarkers(b) /\ ChildrenMatch(b) /\ AdmissionsMatch(b)
          /\ ContentsMatch(b) /\ LostWithEffects(b) /\ CleanedAreEmpty(b) /\ CountsGrow(b)
          /\ b \in BridgeRecords
      BY DEF BridgeInv, IsBridge
    <2>1. /\ IsBridge(d) /\ HasRecordsOf(d, b)
          /\ d.roots = b.roots /\ d.log = b.log /\ d.admissions = b.admissions
          /\ d.outputs = b.outputs /\ d.children = b.children
          /\ d.applied = b.applied /\ d.cleaned = b.cleaned
          /\ \A x \in Effects(b) : x # e => d.effects[x] = b.effects[x]
          /\ ~ d.effects[e].active
      BY <1>n, <2>b, RevertMakes
    <2>4. EffectsOwnMarkers(d)
      BY <1>n, <2>b, RevertOwns
    <2>5. ChildrenMatch(d) /\ AdmissionsMatch(d)
      BY <2>b, <2>1, ChildrenFrame, AdmissionsFrame
    <2>6. ContentsMatch(d) /\ CleanedAreEmpty(d)
      BY <2>b, <2>1, ContentsFrame, CleanedFrame
    <2>7. LostWithEffects(d)
      <3>1. \A x \in Effects(b) : d.effects[x].active => b.effects[x].active
        BY <2>1
      <3> QED BY <3>1, <2>b, <2>1, LostFrame
    <2>8. CountsGrow(d)
      BY <2>b, <2>1, CountsFrame DEF Requests
    <2> QED BY <2>1, <2>4, <2>5, <2>6, <2>7, <2>8 DEF BridgeInv
  <1> QED BY <1>a, <1>n

\* The admission of a render keeps it.
LEMMA AdmitKeeps ==
  ASSUME NEW b, BridgeInv(b), NEW e \in Effects(b), NEW q \in Requests(b), CanAdmit(b, e, q),
         NEW d, d = Admit(b, e, q)
  PROVE  BridgeInv(d)
  <1>a. CASE Admitted(b, e, q)
    BY <1>a DEF Admit
  <1>n. CASE ~ Admitted(b, e, q)
    <2> DEFINE n == Len(b.admissions) + 1
    <2>b. /\ IsBridge(b) /\ EffectsOwnMarkers(b) /\ ChildrenMatch(b) /\ AdmissionsMatch(b)
          /\ ContentsMatch(b) /\ LostWithEffects(b) /\ CleanedAreEmpty(b) /\ CountsGrow(b)
          /\ b \in BridgeRecords
      BY DEF BridgeInv, IsBridge
    <2>1. /\ IsBridge(d) /\ HasRecordsOf(d, b)
          /\ d.log = b.log /\ d.marker = b.marker /\ d.effects = b.effects
          /\ d.outputs = b.outputs /\ d.children = b.children
          /\ d.applied = b.applied /\ d.cleaned = b.cleaned
          /\ Len(d.roots) = Len(b.roots)
          /\ \A x \in Roots(b) :
               /\ d.roots[x].container = b.roots[x].container
               /\ d.roots[x].status = b.roots[x].status
               /\ d.roots[x].renderCount = b.roots[x].renderCount
          /\ Len(d.admissions) = n
          /\ \A a \in Admissions(b) : d.admissions[a] = b.admissions[a]
          /\ d.admissions[n].render = q
          /\ d.admissions[n].effect = e
      BY <1>n, <2>b, AdmitMakes
    <2>2. Admissions(d) = Admissions(b) \cup {n}
      BY <2>1, <2>b, BridgeTypes DEF Admissions
    <2>3. EffectsOwnMarkers(d) /\ ChildrenMatch(d)
      BY <2>b, <2>1, EffectsFrame, ChildrenFrame
    <2>4. AdmissionsMatch(d)
      <3>1. \A a \in Admissions(b) :
              /\ RootOfAdmission(d, a) = RootOfAdmission(b, a)
        BY <2>b, <2>1, RootsStay
      <3>2. RootOfAdmission(d, n) = b.log[q].root
        BY <2>1 DEF RootOfAdmission
      <3> HIDE DEF n
      <3> QED BY <3>1, <3>2, <2>1, <2>2, <2>b DEF AdmissionsMatch, CanAdmit
    <2>5. ContentsMatch(d) /\ LostWithEffects(d) /\ CleanedAreEmpty(d)
      BY <2>b, <2>1, ContentsFrame, LostFrame, CleanedFrame
    <2>6. CountsGrow(d)
      BY <2>b, <2>1, CountsFrame DEF Requests
    <2> QED BY <2>1, <2>3, <2>4, <2>5, <2>6 DEF BridgeInv
  <1> QED BY <1>a, <1>n

\* New output keeps it: it is shown for a root that is not unmounted, under side effects that
\* are still there.
LEMMA ShowKeeps ==
  ASSUME NEW b, BridgeInv(b), NEW a \in Admissions(b), CanShow(b, a), NEW d, d = Show(b, a)
  PROVE  BridgeInv(d)
  <1>a. CASE HasActiveOutput(b, a)
    BY <1>a DEF Show
  <1>n. CASE ~ HasActiveOutput(b, a)
    <2> DEFINE n == Len(b.outputs) + 1
               r == RootOfAdmission(b, a)
               c == ContainerOf(b, r)
    <2>b. /\ IsBridge(b) /\ EffectsOwnMarkers(b) /\ ChildrenMatch(b) /\ AdmissionsMatch(b)
          /\ ContentsMatch(b) /\ LostWithEffects(b) /\ CleanedAreEmpty(b) /\ CountsGrow(b)
          /\ b \in BridgeRecords
      BY DEF BridgeInv, IsBridge
    <2>t. Len(b.outputs) \in Nat /\ b.children \in [Containers -> SUBSET Nat]
      BY <2>b, BridgeTypes
    <2>1. /\ IsBridge(d) /\ HasRecordsOf(d, b)
          /\ d.roots = b.roots /\ d.log = b.log /\ d.marker = b.marker
          /\ d.effects = b.effects /\ d.admissions = b.admissions
          /\ d.applied = b.applied /\ d.cleaned = b.cleaned
          /\ Len(d.outputs) = n
          /\ \A o \in Outputs(b) : d.outputs[o] = b.outputs[o]
          /\ d.outputs[n].admission = a
          /\ d.outputs[n].active
          /\ d.outputs[n].mounted
          /\ d.outputs[n].content = b.admissions[a].render
          /\ r \in Roots(b)
          /\ d.children = WithChild(b.children, c, n)
      BY <1>n, <2>b, ShowMakes
    <2>2. Outputs(d) = Outputs(b) \cup {n} /\ n \notin Outputs(b)
      BY <2>1, <2>t DEF Outputs
    <2>3. \A x : ContainerOf(d, x) = ContainerOf(b, x)
      BY <2>1 DEF ContainerOf
    <2>c. c \in Containers
      BY <2>1, <2>b, ContainerTyped
    <2>m. /\ d.children[c] = b.children[c] \cup {n}
          /\ \A x \in Containers : x # c => d.children[x] = b.children[x]
      BY <2>1, <2>t, <2>c DEF WithChild
    <2>o. \A o \in Outputs(b) :
            /\ RootOfOutput(d, o) = RootOfOutput(b, o)
            /\ ContainerOf(d, RootOfOutput(d, o)) = ContainerOf(b, RootOfOutput(b, o))
            /\ ContainerOf(b, RootOfOutput(b, o)) \in Containers
      BY <2>b, <2>1, RootsStay, ContainerTyped
    <2>s. RootOfOutput(d, n) = r /\ ContainerOf(d, RootOfOutput(d, n)) = c
      BY <2>1 DEF RootOfOutput, RootOfAdmission, ContainerOf
    <2>f. b.roots[r].status # "unmounted"
      BY DEF CanShow, AdmissionCanShow
    <2>w. /\ b.log[b.admissions[a].render].op = "render"
          /\ b.log[b.admissions[a].render].root = r
      BY <2>b DEF AdmissionsMatch, RootOfAdmission
    <2> HIDE DEF n, r, c
    <2>4. EffectsOwnMarkers(d) /\ AdmissionsMatch(d)
      BY <2>b, <2>1, EffectsFrame, AdmissionsFrame
    <2>5. ChildrenMatch(d)
      <3>1. \A x \in Containers : \A o \in d.children[x] :
              o \in Outputs(d) /\ ContainerOf(d, RootOfOutput(d, o)) = x
        BY <2>b, <2>2, <2>m, <2>o, <2>s DEF ChildrenMatch
      <3>2. \A o \in Outputs(d) :
              d.outputs[o].mounted <=> o \in d.children[ContainerOf(d, RootOfOutput(d, o))]
        <4>1. \A o \in Outputs(b) : o # n
          BY <2>2
        <4>2. \A o \in Outputs(b) :
                o \in d.children[ContainerOf(d, RootOfOutput(d, o))] <=>
                  o \in b.children[ContainerOf(b, RootOfOutput(b, o))]
          BY <4>1, <2>m, <2>o
        <4>3. \A o \in Outputs(b) :
                d.outputs[o].mounted <=> o \in d.children[ContainerOf(d, RootOfOutput(d, o))]
          BY <4>2, <2>1, <2>b DEF ChildrenMatch
        <4>4. n \in d.children[ContainerOf(d, RootOfOutput(d, n))]
          BY <2>m, <2>s
        <4> QED BY <4>3, <4>4, <2>1, <2>2
      <3> QED BY <3>1, <3>2 DEF ChildrenMatch
    <2>6. ContentsMatch(d)
      BY <2>b, <2>1, <2>2, <2>o, <2>s, <2>w DEF ContentsMatch
    <2>7. LostWithEffects(d)
      BY <2>b, <2>1, <2>2 DEF LostWithEffects
    <2>8. CleanedAreEmpty(d)
      BY <2>b, <2>1, <2>2, <2>o, <2>s, <2>f DEF CleanedAreEmpty
    <2>9. CountsGrow(d)
      BY <2>b, <2>1, CountsFrame DEF Requests
    <2> QED BY <2>1, <2>4, <2>5, <2>6, <2>7, <2>8, <2>9 DEF BridgeInv
  <1> QED BY <1>a, <1>n

\* A cleanup of output keeps it.
LEMMA CleanupKeeps ==
  ASSUME NEW b, BridgeInv(b), NEW o \in Outputs(b), NEW d, d = CleanupOutput(b, o)
  PROVE  BridgeInv(d)
  <1>a. CASE ~ b.outputs[o].active
    BY <1>a DEF CleanupOutput
  <1>n. CASE b.outputs[o].active
    <2> DEFINE c == ContainerOf(b, RootOfOutput(b, o))
    <2>b. /\ IsBridge(b) /\ EffectsOwnMarkers(b) /\ ChildrenMatch(b) /\ AdmissionsMatch(b)
          /\ ContentsMatch(b) /\ LostWithEffects(b) /\ CleanedAreEmpty(b) /\ CountsGrow(b)
          /\ b \in BridgeRecords
      BY DEF BridgeInv, IsBridge
    <2>t. b.children \in [Containers -> SUBSET Nat]
      BY <2>b, BridgeTypes
    <2>1. /\ IsBridge(d) /\ HasRecordsOf(d, b)
          /\ d.roots = b.roots /\ d.log = b.log /\ d.marker = b.marker
          /\ d.effects = b.effects /\ d.admissions = b.admissions
          /\ d.applied = b.applied /\ d.cleaned = b.cleaned
          /\ Len(d.outputs) = Len(b.outputs)
          /\ \A x \in Outputs(b) : x # o => d.outputs[x] = b.outputs[x]
          /\ d.outputs[o].content = b.outputs[o].content
          /\ ~ d.outputs[o].active /\ ~ d.outputs[o].mounted
          /\ d.children = WithoutChild(b.children, c, o)
      BY <1>n, <2>b, CleanupMakes
    <2>2. Outputs(d) = Outputs(b)
      BY <2>1 DEF Outputs
    <2>o. \A x \in Outputs(b) :
            /\ ContainerOf(d, RootOfOutput(d, x)) = ContainerOf(b, RootOfOutput(b, x))
            /\ ContainerOf(b, RootOfOutput(b, x)) \in Containers
      BY <2>b, <2>1, RootsStay, ContainerTyped
    <2>c. c \in Containers
      BY <2>o
    <2>m. /\ d.children[c] = b.children[c] \ {o}
          /\ \A x \in Containers : x # c => d.children[x] = b.children[x]
      BY <2>1, <2>t, <2>c DEF WithoutChild
    <2>s. ContainerOf(d, RootOfOutput(d, o)) = c
      BY <2>o
    <2> HIDE DEF c
    <2>4. EffectsOwnMarkers(d) /\ AdmissionsMatch(d)
      BY <2>b, <2>1, EffectsFrame, AdmissionsFrame
    <2>5. ChildrenMatch(d)
      <3>1. \A x \in Containers : \A y \in d.children[x] :
              y \in Outputs(d) /\ ContainerOf(d, RootOfOutput(d, y)) = x
        BY <2>b, <2>2, <2>m, <2>o DEF ChildrenMatch
      <3>2. \A x \in Outputs(d) :
              d.outputs[x].mounted <=> x \in d.children[ContainerOf(d, RootOfOutput(d, x))]
        <4>1. ASSUME NEW x \in Outputs(b), x # o
              PROVE  d.outputs[x].mounted <=> x \in d.children[ContainerOf(d, RootOfOutput(d, x))]
          <5>1. x \in d.children[ContainerOf(d, RootOfOutput(d, x))] <=>
                  x \in b.children[ContainerOf(b, RootOfOutput(b, x))]
            BY <4>1, <2>m, <2>o
          <5> QED BY <4>1, <5>1, <2>1, <2>b DEF ChildrenMatch
        <4>2. o \notin d.children[ContainerOf(d, RootOfOutput(d, o))]
          BY <2>m, <2>s
        <4> QED BY <4>1, <4>2, <2>1, <2>2
      <3> QED BY <3>1, <3>2 DEF ChildrenMatch
    <2>k. \A x \in Outputs(b) :
            /\ d.outputs[x].content = b.outputs[x].content
            /\ d.outputs[x].mounted => b.outputs[x].mounted
            /\ d.outputs[x].active /\ ~ d.outputs[x].mounted =>
                 b.outputs[x].active /\ ~ b.outputs[x].mounted
      BY <2>1
    <2>6. ContentsMatch(d)
      BY <2>b, <2>1, <2>k, ContentsFrame
    <2>7. LostWithEffects(d)
      BY <2>b, <2>1, <2>k, LostFrame
    <2>8. CleanedAreEmpty(d)
      BY <2>b, <2>1, <2>k, CleanedFrame
    <2>9. CountsGrow(d)
      BY <2>b, <2>1, CountsFrame DEF Requests
    <2> QED BY <2>1, <2>4, <2>5, <2>6, <2>7, <2>8, <2>9 DEF BridgeInv
  <1> QED BY <1>a, <1>n

\* An update of shown output keeps it.
LEMMA UpdateKeeps ==
  ASSUME NEW b, BridgeInv(b), NEW q \in Requests(b), NEW o \in Outputs(b), CanUpdate(b, q, o),
         NEW d, d = UpdateOutput(b, q, o)
  PROVE  BridgeInv(d)
  <1>b. /\ IsBridge(b) /\ EffectsOwnMarkers(b) /\ ChildrenMatch(b) /\ AdmissionsMatch(b)
        /\ ContentsMatch(b) /\ LostWithEffects(b) /\ CleanedAreEmpty(b) /\ CountsGrow(b)
        /\ b \in BridgeRecords
    BY DEF BridgeInv, IsBridge
  <1>1. /\ IsBridge(d) /\ HasRecordsOf(d, b)
        /\ d.log = b.log /\ d.marker = b.marker /\ d.effects = b.effects
        /\ d.admissions = b.admissions /\ d.children = b.children /\ d.cleaned = b.cleaned
        /\ Len(d.roots) = Len(b.roots)
        /\ \A x \in Roots(b) :
             /\ d.roots[x].container = b.roots[x].container
             /\ d.roots[x].status = b.roots[x].status
             /\ d.roots[x].renderCount = b.roots[x].renderCount
        /\ Len(d.outputs) = Len(b.outputs)
        /\ \A x \in Outputs(b) : x # o => d.outputs[x] = b.outputs[x]
        /\ d.outputs[o].active = b.outputs[o].active
        /\ d.outputs[o].mounted = b.outputs[o].mounted
        /\ d.outputs[o].content = IF IsApplied(b, q) THEN b.outputs[o].content ELSE q
    BY <1>b, UpdateMakes
  <1>2. \A x \in Outputs(b) :
          /\ d.outputs[x].active = b.outputs[x].active
          /\ d.outputs[x].mounted = b.outputs[x].mounted
    BY <1>1
  <1>3. EffectsOwnMarkers(d) /\ ChildrenMatch(d) /\ AdmissionsMatch(d)
    BY <1>b, <1>1, <1>2, EffectsFrame, ChildrenFrame, AdmissionsFrame
  <1>4. LostWithEffects(d) /\ CleanedAreEmpty(d)
    BY <1>b, <1>1, <1>2, LostFrame, CleanedFrame
  <1>5. CountsGrow(d)
    BY <1>b, <1>1, CountsFrame DEF Requests
  <1>6. ContentsMatch(d)
    <2>1. Outputs(d) = Outputs(b)
      BY <1>1 DEF Outputs
    <2>2. \A x \in Outputs(b) : RootOfOutput(d, x) = RootOfOutput(b, x)
      BY <1>b, <1>1, RootsStay
    <2>3. ~ IsApplied(b, q) => RootOfOutput(b, o) = b.log[q].root
      BY DEF CanUpdate
    <2>4. b.log[q].op = "render"
      BY DEF CanUpdate, UpdateCurrent
    <2> QED BY <2>1, <2>2, <2>3, <2>4, <1>1, <1>b DEF ContentsMatch
  <1> QED BY <1>1, <1>3, <1>4, <1>5, <1>6 DEF BridgeInv

\* Bridge d is b after the cleanup for unmount u of what was admitted as a.
CleanedUp(d, b, a, u) ==
  /\ IsBridge(d) /\ HasRecordsOf(d, b)
  /\ d.roots = b.roots /\ d.log = b.log /\ d.admissions = b.admissions
  /\ d.applied = b.applied
  /\ \A x : x \in d.cleaned <=> x \in b.cleaned \/ x = u
  /\ d.marker = With(b.marker, ContainerOf(b, b.log[u].root), None)
  /\ Len(d.effects) = Len(b.effects)
  /\ \A x \in Effects(b) : x # b.admissions[a].effect => d.effects[x] = b.effects[x]
  /\ ~ d.effects[b.admissions[a].effect].active
  /\ Len(d.outputs) = Len(b.outputs)
  /\ \A o \in Outputs(b) :
       /\ d.outputs[o].admission = b.outputs[o].admission
       /\ d.outputs[o].content = b.outputs[o].content
       /\ d.outputs[o].active = b.outputs[o].active
       /\ d.outputs[o].mounted <=>
            (b.outputs[o].mounted /\ o \notin b.children[ContainerOf(b, b.log[u].root)])
  /\ d.children = With(b.children, ContainerOf(b, b.log[u].root), {})
  /\ EffectsOwnMarkers(b) => EffectsOwnMarkers(d)

\* The cleanup after an unmount clears the container, reverts the side effects and is
\* recorded.
LEMMA CleanupUnmountMakes ==
  ASSUME NEW b, IsBridge(b), NEW a \in Admissions(b), NEW u \in Requests(b),
         b.effects[b.admissions[a].effect].active,
         b.log[u].root = b.effects[b.admissions[a].effect].root,
         NEW d, d = CleanupUnmount(b, a, u)
  PROVE  CleanedUp(d, b, a, u)
  <1> DEFINE e == b.admissions[a].effect
             c == ContainerOf(b, b.log[u].root)
             k == ClearContainer(b, c)
             m == RevertEffects(k, e)
  <1>b. /\ b \in BridgeRecords /\ Links(b) /\ e \in Effects(b) /\ b.log[u].root \in Roots(b)
        /\ u \in Nat
    BY BridgeTypes DEF IsBridge, Links, Requests
  <1>c. c \in Containers
    BY <1>b, ContainerTyped
  <1>d. d = [m EXCEPT !.cleaned = @ \cup {u}]
    BY DEF CleanupUnmount
  <1>e. b.effects[e].active /\ b.log[u].root = b.effects[e].root
    OBVIOUS
  <1>f. ContainerOf(b, b.effects[e].root) = c
    BY <1>e
  <1> HIDE DEF c, k, m, e
  <1>1. /\ IsBridge(k) /\ HasRecordsOf(k, b)
        /\ k.roots = b.roots /\ k.log = b.log /\ k.marker = b.marker
        /\ k.effects = b.effects /\ k.admissions = b.admissions
        /\ k.applied = b.applied /\ k.cleaned = b.cleaned
        /\ Len(k.outputs) = Len(b.outputs)
        /\ \A o \in Outputs(b) :
             /\ k.outputs[o].admission = b.outputs[o].admission
             /\ k.outputs[o].content = b.outputs[o].content
             /\ k.outputs[o].active = b.outputs[o].active
             /\ k.outputs[o].mounted <=> (b.outputs[o].mounted /\ o \notin b.children[c])
        /\ k.children = With(b.children, c, {})
    BY <1>c, ClearMakes DEF k
  <1>2. e \in Effects(k) /\ Effects(k) = Effects(b) /\ k.effects[e].active
    BY <1>1, <1>b, <1>e DEF Effects
  <1>3. ContainerOf(k, k.effects[e].root) = c
    BY <1>1, <1>f DEF ContainerOf
  <1>4. /\ IsBridge(m) /\ HasRecordsOf(m, k)
        /\ m.roots = k.roots /\ m.log = k.log /\ m.admissions = k.admissions
        /\ m.outputs = k.outputs /\ m.children = k.children
        /\ m.applied = k.applied /\ m.cleaned = k.cleaned
        /\ m.marker = With(k.marker, ContainerOf(k, k.effects[e].root), None)
        /\ Len(m.effects) = Len(k.effects)
        /\ \A x \in Effects(k) : x # e => m.effects[x] = k.effects[x]
        /\ m.effects[e].root = k.effects[e].root
        /\ ~ m.effects[e].active
    BY <1>1, <1>2, RevertMakes DEF m
  <1>5. m \in BridgeRecords /\ k \in BridgeRecords /\ Links(m)
    BY <1>1, <1>4 DEF IsBridge
  <1>6. m.cleaned \cup {u} \in SUBSET Nat
    BY <1>5, <1>b, BridgeTypes
  <1>7. /\ d \in BridgeRecords
        /\ d.roots = m.roots /\ d.log = m.log /\ d.admissions = m.admissions
        /\ d.outputs = m.outputs /\ d.children = m.children /\ d.marker = m.marker
        /\ d.applied = m.applied /\ d.effects = m.effects
        /\ d.cleaned = m.cleaned \cup {u}
    <2> DEFINE more == m.cleaned \cup {u}
    <2>1. d = [m EXCEPT !.cleaned = more] /\ more \in SUBSET Nat
      BY <1>d, <1>6
    <2> HIDE DEF more
    <2>2. /\ d \in BridgeRecords
          /\ d.roots = m.roots /\ d.log = m.log /\ d.admissions = m.admissions
          /\ d.outputs = m.outputs /\ d.children = m.children /\ d.marker = m.marker
          /\ d.applied = m.applied /\ d.effects = m.effects
          /\ d.cleaned = more
      BY <2>1, <1>5 DEF BridgeRecords
    <2> QED BY <2>2 DEF more
  <1>8. u \in Requests(m)
    BY <1>1, <1>4 DEF Requests
  <1>9. IsBridge(d) /\ HasRecordsOf(d, m)
    <2>1. d.cleaned \subseteq Requests(m)
      BY <1>5, <1>7, <1>8 DEF Links
    <2>2. \A o \in Outputs(m) : m.outputs[o].content \in Requests(m)
      BY <1>5 DEF Links
    <2>3. \A p \in d.applied : p[1] \in Requests(m)
      BY <1>5, <1>7 DEF Links
    <2> QED BY <2>1, <2>2, <2>3, <1>4, <1>7, RecordsChange
  <1>10. HasRecordsOf(d, b)
    <2>1. HasRecordsOf(m, b)
      BY <1>1, <1>4, <1>5, <1>b, RecordsStay
    <2> QED BY <2>1, <1>9, <1>5, <1>7, <1>b, RecordsStay
  <1>11. EffectsOwnMarkers(b) => EffectsOwnMarkers(d)
    <2> SUFFICES ASSUME EffectsOwnMarkers(b) PROVE EffectsOwnMarkers(d)
      OBVIOUS
    <2>1. EffectsOwnMarkers(k)
      BY <1>1, EffectsFrame
    <2>2. EffectsOwnMarkers(m)
      BY <2>1, <1>1, <1>2, RevertOwns DEF m
    <2> QED BY <2>2, <1>4, <1>7, <1>9, EffectsFrame
  <1>12. \A x : x \in d.cleaned <=> x \in b.cleaned \/ x = u
    BY <1>1, <1>4, <1>7
  <1>13. /\ d.roots = b.roots /\ d.log = b.log /\ d.admissions = b.admissions
         /\ d.applied = b.applied
         /\ d.marker = With(b.marker, c, None)
         /\ Len(d.effects) = Len(b.effects)
         /\ \A x \in Effects(b) : x # e => d.effects[x] = b.effects[x]
         /\ ~ d.effects[e].active
         /\ d.outputs = k.outputs
         /\ d.children = With(b.children, c, {})
    BY <1>1, <1>2, <1>3, <1>4, <1>7
  <1> QED BY <1>1, <1>9, <1>10, <1>11, <1>12, <1>13, ZenonT(60) DEF c, e, CleanedUp

\* The cleanup after an unmount keeps it: whatever the container showed was admitted under
\* the side effects that are reverted.
LEMMA CleanupUnmountKeeps ==
  ASSUME NEW b, BridgeInv(b), NEW a \in Admissions(b), NEW u \in Requests(b),
         CanCleanupUnmount(b, a, u), NEW d, d = CleanupUnmount(b, a, u)
  PROVE  BridgeInv(d)
  <1> DEFINE e == b.admissions[a].effect
             c == ContainerOf(b, b.log[u].root)
  <1>b. /\ IsBridge(b) /\ EffectsOwnMarkers(b) /\ ChildrenMatch(b) /\ AdmissionsMatch(b)
        /\ ContentsMatch(b) /\ LostWithEffects(b) /\ CleanedAreEmpty(b) /\ CountsGrow(b)
        /\ b \in BridgeRecords /\ Links(b)
    BY DEF BridgeInv, IsBridge
  <1>e. /\ e \in Effects(b) /\ b.effects[e].active /\ b.log[u].root \in Roots(b)
        /\ b.log[u].root = b.effects[e].root
        /\ b.roots[b.log[u].root].status = "unmounted"
    BY <1>b DEF CanCleanupUnmount, EffectsValid, Links, AdmissionsMatch
  <1>t. b.children \in [Containers -> SUBSET Nat]
    BY <1>b, BridgeTypes
  <1>1. /\ IsBridge(d) /\ HasRecordsOf(d, b)
        /\ d.roots = b.roots /\ d.log = b.log /\ d.admissions = b.admissions
        /\ \A x : x \in d.cleaned <=> x \in b.cleaned \/ x = u
        /\ Len(d.effects) = Len(b.effects)
        /\ \A x \in Effects(b) : x # e => d.effects[x] = b.effects[x]
        /\ ~ d.effects[e].active
        /\ Len(d.outputs) = Len(b.outputs)
        /\ \A o \in Outputs(b) :
             /\ d.outputs[o].admission = b.outputs[o].admission
             /\ d.outputs[o].content = b.outputs[o].content
             /\ d.outputs[o].active = b.outputs[o].active
             /\ d.outputs[o].mounted <=> (b.outputs[o].mounted /\ o \notin b.children[c])
        /\ d.children = With(b.children, c, {})
        /\ EffectsOwnMarkers(d)
    <2>1. CleanedUp(d, b, a, u)
      BY <1>b, <1>e, CleanupUnmountMakes
    <2> QED BY <2>1, <1>b DEF CleanedUp
  <1>c. c \in Containers
    BY <1>b, <1>e, ContainerTyped
  <1>f. ContainerOf(b, b.effects[e].root) = c
    BY <1>e
  <1>m. d.children[c] = {} /\ \A x \in Containers : x # c => d.children[x] = b.children[x]
    BY <1>1, <1>t, <1>c DEF With
  <1> HIDE DEF c, e
  <1>2. Outputs(d) = Outputs(b) /\ Effects(d) = Effects(b)
    BY <1>1 DEF Outputs, Effects
  <1>o. \A x \in Outputs(b) :
          /\ RootOfOutput(d, x) = RootOfOutput(b, x)
          /\ ContainerOf(d, RootOfOutput(d, x)) = ContainerOf(b, RootOfOutput(b, x))
          /\ ContainerOf(b, RootOfOutput(b, x)) \in Containers
    BY <1>b, <1>1, RootsStay, ContainerTyped
  <1>4. AdmissionsMatch(d) /\ ContentsMatch(d)
    BY <1>b, <1>1, AdmissionsFrame, ContentsFrame
  <1>5. ChildrenMatch(d)
    <2>1. \A x \in Containers : \A y \in d.children[x] :
            y \in Outputs(d) /\ ContainerOf(d, RootOfOutput(d, y)) = x
      BY <1>b, <1>2, <1>m, <1>o DEF ChildrenMatch
    <2>2. ASSUME NEW x \in Outputs(b)
          PROVE  d.outputs[x].mounted <=> x \in d.children[ContainerOf(d, RootOfOutput(d, x))]
      <3>1. b.outputs[x].mounted <=> x \in b.children[ContainerOf(b, RootOfOutput(b, x))]
        BY <1>b DEF ChildrenMatch
      <3>2. x \in b.children[c] => ContainerOf(b, RootOfOutput(b, x)) = c
        BY <1>b, <1>c DEF ChildrenMatch
      <3> QED BY <3>1, <3>2, <1>1, <1>m, <1>o
    <2> QED BY <2>1, <2>2, <1>2 DEF ChildrenMatch
  <1>6. LostWithEffects(d)
    <2> SUFFICES ASSUME NEW o \in Outputs(b), d.outputs[o].active, ~ d.outputs[o].mounted
                 PROVE  ~ d.effects[d.admissions[d.outputs[o].admission].effect].active
      BY <1>2 DEF LostWithEffects
    <2> DEFINE y == b.outputs[o].admission
               x == b.admissions[y].effect
    <2>1. /\ y \in Admissions(b) /\ x \in Effects(b)
          /\ d.admissions[d.outputs[o].admission].effect = x
      BY <1>b, <1>1 DEF Links
    <2>2. CASE ~ b.outputs[o].mounted
      <3>1. ~ b.effects[x].active
        BY <2>2, <1>1, <1>b DEF LostWithEffects
      <3> QED BY <3>1, <2>1, <1>1, SMTT(30)
    <2>3. CASE b.outputs[o].mounted
      <3>1. o \in b.children[c]
        BY <2>3, <1>1
      <3>2. ContainerOf(b, RootOfOutput(b, o)) = c
        BY <3>1, <1>b, <1>c DEF ChildrenMatch
      <3>3. b.effects[x].root = RootOfOutput(b, o)
        BY <2>1, <1>b DEF AdmissionsMatch, RootOfOutput
      <3>4. b.effects[x].active => x = e
        BY <2>1, <3>2, <3>3, <1>b, <1>e, <1>f DEF EffectsOwnMarkers
      <3> QED BY <3>4, <2>1, <1>1, ZenonT(40)
    <2> QED BY <2>2, <2>3
  <1>7. CleanedAreEmpty(d)
    <2>1. ASSUME NEW x \in d.cleaned
          PROVE  /\ d.roots[d.log[x].root].status = "unmounted"
                 /\ \A o \in Outputs(d) :
                      RootOfOutput(d, o) = d.log[x].root => ~ d.outputs[o].mounted
      <3>1. CASE x \in b.cleaned
        BY <3>1, <1>b, <1>1, <1>2, <1>o DEF CleanedAreEmpty
      <3>2. CASE x = u
        <4>1. \A o \in Outputs(b) : RootOfOutput(b, o) = b.log[u].root /\ b.outputs[o].mounted =>
                o \in b.children[c]
          BY <1>b DEF ChildrenMatch, c
        <4> QED BY <4>1, <3>2, <1>e, <1>1, <1>2, <1>o
      <3> QED BY <3>1, <3>2, <1>1
    <2> QED BY <2>1 DEF CleanedAreEmpty
  <1>8. CountsGrow(d)
    BY <1>b, <1>1, CountsFrame DEF Requests
  <1> QED BY <1>1, <1>4, <1>5, <1>6, <1>7, <1>8 DEF BridgeInv

-----------------------------------------------------------------------------
(***************************************************************************)
(* The bridge and the DOM                                                  *)
(***************************************************************************)

\* A nonempty set of naturals has a least element.
LEMMA LeastExists ==
  ASSUME NEW S, S \subseteq Nat, S # {}
  PROVE  \E l \in S : \A x \in S : l <= x
  <1>1. PICK l \in S : \A x \in S : ~ (<<x, l>> \in OpToRel(<, Nat))
    BY WFMin, NatLessThanWellFounded
  <1>2. \A x \in S : ~ (x < l)
    BY <1>1, Zenon DEF OpToRel
  <1> QED BY <1>2

\* A nonempty set of numbers up to n has a greatest element.
LEMMA GreatestExists ==
  ASSUME NEW n \in Nat, NEW S, S \subseteq 1 .. n, S # {}
  PROVE  \E g \in S : \A x \in S : x <= g
  <1> DEFINE T == {n - x : x \in S}
  <1>1. T \subseteq Nat /\ T # {}
    <2>1. \A x \in S : n - x \in Nat
      OBVIOUS
    <2>2. PICK x \in S : TRUE
      OBVIOUS
    <2>3. n - x \in T
      OBVIOUS
    <2>4. T \subseteq Nat
      BY <2>1
    <2> QED BY <2>3, <2>4
  <1>2. PICK l \in T : \A x \in T : l <= x
    BY <1>1, LeastExists
  <1>3. PICK g \in S : l = n - g
    OBVIOUS
  <1>4. \A x \in S : n - x \in T
    OBVIOUS
  <1> HIDE DEF T
  <1>5. \A x \in S : n - g <= n - x
    BY <1>2, <1>3, <1>4
  <1>6. \A x \in S : x <= g
    BY <1>5
  <1> QED BY <1>6

\* The latest output of an admission is one of its outputs.
LEMMA LatestOutputIs ==
  ASSUME NEW b \in BridgeRecords, NEW a, LatestOutput(b, a) # None
  PROVE  LatestOutput(b, a) \in Outputs(b) /\ b.outputs[LatestOutput(b, a)].admission = a
  <1> DEFINE S == {o \in Outputs(b) : b.outputs[o].admission = a}
  <1>1. S # {}
    BY DEF LatestOutput
  <1>2. S \subseteq 1 .. Len(b.outputs) /\ Len(b.outputs) \in Nat
    BY BridgeTypes DEF Outputs
  <1>3. \E g \in S : \A x \in S : x <= g
    <2> HIDE DEF S
    <2> QED BY <1>1, <1>2, GreatestExists
  <1>4. LatestOutput(b, a) = CHOOSE o \in S : \A x \in S : x <= o
    BY <1>1 DEF LatestOutput
  <1>5. LatestOutput(b, a) \in S
    <2> HIDE DEF S
    <2> QED BY <1>3, <1>4
  <1> QED BY <1>5

\* The invariant of the bridge gives what the runs check.
LEMMA BridgeInvSuffices ==
  ASSUME BridgeInv(shell)
  PROVE  BridgeMatchesDom
  <1> DEFINE b == shell
  <1>b. /\ IsBridge(b) /\ EffectsOwnMarkers(b) /\ ChildrenMatch(b) /\ AdmissionsMatch(b)
        /\ ContentsMatch(b) /\ LostWithEffects(b) /\ CleanedAreEmpty(b) /\ CountsGrow(b)
        /\ b \in BridgeRecords /\ Links(b)
    BY DEF BridgeInv, IsBridge
  <1>1. ReturnedOutputIsShown
    <2> SUFFICES ASSUME NEW a \in Admissions(shell), AdmissionCanShow(shell, a),
                        HasActiveOutput(shell, a)
                 PROVE  shell.outputs[LatestOutput(shell, a)].mounted
      BY DEF ReturnedOutputIsShown
    <2> DEFINE o == LatestOutput(shell, a)
    <2>1. o \in Outputs(shell) /\ shell.outputs[o].admission = a /\ shell.outputs[o].active
      BY <1>b, LatestOutputIs DEF HasActiveOutput
    <2>2. shell.effects[shell.admissions[a].effect].active
      BY DEF AdmissionCanShow, EffectsValid
    <2> QED BY <2>1, <2>2, <1>b DEF LostWithEffects
  <1>2. CleanedRootStaysEmpty
    BY <1>b DEF CleanedAreEmpty, CleanedRootStaysEmpty
  <1>3. InstancesMatchChildren
    BY <1>b DEF ChildrenMatch, InstancesMatchChildren
  <1>4. MarkersMatchEffects
    <2> SUFFICES ASSUME NEW c \in Containers
                 PROVE  LET active == {e \in Effects(shell) : shell.effects[e].active /\
                                         ContainerOf(shell, shell.effects[e].root) = c} IN
                        /\ Cardinality(active) <= 1
                        /\ {shell.effects[e].root : e \in active} = {shell.marker[c]} \ {None}
      BY DEF MarkersMatchEffects
    <2> DEFINE active == {e \in Effects(shell) : shell.effects[e].active /\
                            ContainerOf(shell, shell.effects[e].root) = c}
    <2>1. CASE active = {}
      <3>1. shell.marker[c] = None
        BY <2>1, <1>b DEF EffectsOwnMarkers
      <3>2. Cardinality(active) = 0
        BY <2>1, FS_EmptySet
      <3> QED BY <2>1, <3>1, <3>2
    <2>2. CASE active # {}
      <3>1. PICK e \in active : TRUE
        BY <2>2
      <3>2. \A x \in active : x = e
        BY <3>1, <1>b DEF EffectsOwnMarkers
      <3>3. active = {e}
        BY <3>1, <3>2
      <3>4. Cardinality({e}) = 1
        BY FS_Singleton
      <3>5. shell.marker[c] = shell.effects[e].root
        BY <3>1, <1>b DEF EffectsOwnMarkers
      <3>6. shell.effects[e].root # None
        BY <3>1, <1>b, BridgeTypes DEF Links, Roots, None
      <3>7. {shell.effects[x].root : x \in {e}} = {shell.marker[c]} \ {None}
        BY <3>5, <3>6
      <3>8. Cardinality(active) <= 1
        BY <3>3, <3>4
      <3> HIDE DEF active
      <3>9. {shell.effects[x].root : x \in active} = {shell.marker[c]} \ {None}
        BY <3>3, <3>7
      <3> QED BY <3>8, <3>9 DEF active
    <2> QED BY <2>1, <2>2
  <1> QED BY <1>1, <1>2, <1>3, <1>4 DEF BridgeMatchesDom

\* An update shows a render that is not older than what was shown: the renders of a root are
\* counted, and only the one that was counted last updates.
LEMMA UpdateIsNewer ==
  ASSUME NEW b, BridgeInv(b), NEW q \in Requests(b), NEW o \in Outputs(b), CanUpdate(b, q, o),
         ~ IsApplied(b, q)
  PROVE  b.outputs[o].content <= q
  <1> DEFINE p == b.outputs[o].content
             r == b.log[q].root
  <1>b. IsBridge(b) /\ ContentsMatch(b) /\ CountsGrow(b) /\ b \in BridgeRecords /\ Links(b)
    BY DEF BridgeInv, IsBridge
  <1>1. /\ b.log[q].op = "render" /\ b.log[q].count = b.roots[r].renderCount
        /\ RootOfOutput(b, o) = r
    BY DEF CanUpdate, UpdateCurrent
  <1>2. p \in Requests(b) /\ b.log[p].op = "render" /\ b.log[p].root = r
    BY <1>1, <1>b DEF Links, ContentsMatch
  <1>3. q \in Nat /\ p \in Nat
    BY <1>2, <1>b, BridgeTypes DEF Requests
  <1>4. b.log[q] \in RequestRecords /\ b.log[p] \in RequestRecords
    BY <1>2, <1>b, RecordTypes
  <1>5. b.log[q].count \in Nat /\ b.log[p].count \in Nat
    BY <1>4 DEF RequestRecords
  <1>6. b.log[p].count <= b.log[q].count
    BY <1>1, <1>2, <1>b DEF CountsGrow
  <1>7. ~ (q < p)
    <2> SUFFICES ASSUME q < p PROVE FALSE
      OBVIOUS
    <2>1. b.log[q].root = b.log[p].root
      BY <1>2
    <2>2. b.log[q].count < b.log[p].count
      BY <2>1, <1>1, <1>2, <1>b DEF CountsGrow
    <2> HIDE DEF p, r
    <2> QED BY <2>2, <1>5, <1>6
  <1> HIDE DEF p, r
  <1>8. p <= q
    BY <1>3, <1>7
  <1> QED BY <1>8 DEF p

\* No step of the bridge shows an older render.
ShownStays(b, d) == \A o \in Outputs(b) : d.outputs[o].content >= b.outputs[o].content

\* A call that leaves the contents alone.
LEMMA SameContents ==
  ASSUME NEW b, IsBridge(b), NEW d,
         \A o \in Outputs(b) : d.outputs[o].content = b.outputs[o].content
  PROVE  ShownStays(b, d)
  <1>1. \A o \in Outputs(b) : b.outputs[o] \in OutputRecords
    BY RecordTypes DEF IsBridge
  <1>2. \A o \in Outputs(b) : b.outputs[o].content \in Nat
    BY <1>1 DEF OutputRecords
  <1> QED BY <1>2 DEF ShownStays

\* Every call of the bridge keeps its invariant and shows no older render.
LEMMA ShellStep ==
  ASSUME BridgeInv(shell), ShellNext
  PROVE  BridgeInv(shell') /\ ShownStays(shell, shell')
  <1>b. IsBridge(shell)
    BY DEF BridgeInv
  <1>1. ASSUME NEW c \in Containers, createClientRoot(c)
        PROVE  BridgeInv(shell') /\ ShownStays(shell, shell')
    <2>1. shell' = CreateClientRoot(shell, c)
      BY <1>1 DEF createClientRoot
    <2>2. shell'.outputs = shell.outputs
      BY <2>1, <1>b, CreateMakes
    <2> QED BY <2>1, <2>2, <1>b, CreateKeeps, SameContents
  <1>2. ASSUME NEW r \in Roots(shell), renderContainer(r)
        PROVE  BridgeInv(shell') /\ ShownStays(shell, shell')
    <2>1. /\ shell' = Request(shell, r, "render", "rendered", shell.roots[r].renderCount + 1, FALSE)
          /\ shell.roots[r].status # "unmounted"
      BY <1>2 DEF renderContainer, RenderContainer, CanRender
    <2>2. shell.roots[r].renderCount + 1 \in Nat /\ "rendered" \in Statuses
      BY <1>b, RequestCounts DEF Statuses
    <2>3. BridgeInv(shell')
      BY <2>1, <2>2, RequestKeeps
    <2>4. shell'.outputs = shell.outputs
      BY <1>2, <1>b, RenderMakes DEF renderContainer
    <2> QED BY <2>3, <2>4, <1>b, SameContents
  <1>3. ASSUME NEW r \in Roots(shell), unmountContainer(r)
        PROVE  BridgeInv(shell') /\ ShownStays(shell, shell')
    <2>1. shell' = Request(shell, r, "unmount", "unmounted", shell.roots[r].renderCount,
                           ~ CanRender(shell, r))
      BY <1>3 DEF unmountContainer, UnmountContainer
    <2>2. /\ shell.roots[r].renderCount \in Nat /\ "unmounted" \in Statuses
          /\ (~ CanRender(shell, r)) \in BOOLEAN
      BY <1>b, RequestCounts DEF Statuses
    <2>3. BridgeInv(shell')
      BY <2>1, <2>2, RequestKeeps
    <2>4. shell'.outputs = shell.outputs
      BY <1>3, <1>b, UnmountMakes DEF unmountContainer
    <2> QED BY <2>3, <2>4, <1>b, SameContents
  <1>4. ASSUME NEW r \in Roots(shell), applyCreateRootSideEffects(r)
        PROVE  BridgeInv(shell') /\ ShownStays(shell, shell')
    <2>1. shell' = ApplyEffects(shell, r) /\ CanApplyEffects(shell, r)
      BY <1>4 DEF applyCreateRootSideEffects
    <2>2. shell'.outputs = shell.outputs
      <3>1. CASE ActiveEffects(shell, r) = {}
        BY <2>1, <3>1, <1>b, ApplyMakes
      <3>2. CASE ActiveEffects(shell, r) # {}
        BY <2>1, <3>2 DEF ApplyEffects
      <3> QED BY <3>1, <3>2
    <2> QED BY <2>1, <2>2, <1>b, ApplyKeeps, SameContents
  <1>5. ASSUME NEW r \in Roots(shell), applyCreateRootSideEffectsFails(r)
        PROVE  BridgeInv(shell') /\ ShownStays(shell, shell')
    <2>1. shell' = shell
      BY <1>5, <1>b, ApplyFailsKeeps DEF applyCreateRootSideEffectsFails
    <2> QED BY <2>1, <1>b, SameContents
  <1>6. ASSUME NEW e \in Effects(shell), revertCreateRootSideEffects(e)
        PROVE  BridgeInv(shell') /\ ShownStays(shell, shell')
    <2>1. shell' = RevertEffects(shell, e)
      BY <1>6 DEF revertCreateRootSideEffects
    <2>2. shell'.outputs = shell.outputs
      <3>1. CASE shell.effects[e].active
        BY <2>1, <3>1, <1>b, RevertMakes
      <3>2. CASE ~ shell.effects[e].active
        BY <2>1, <3>2 DEF RevertEffects
      <3> QED BY <3>1, <3>2
    <2> QED BY <2>1, <2>2, <1>b, RevertKeeps, SameContents
  <1>7. ASSUME NEW e \in Effects(shell), NEW q \in Requests(shell), admitCreateRenderPath(e, q)
        PROVE  BridgeInv(shell') /\ ShownStays(shell, shell')
    <2>1. shell' = Admit(shell, e, q) /\ CanAdmit(shell, e, q)
      BY <1>7 DEF admitCreateRenderPath
    <2>2. shell'.outputs = shell.outputs
      <3>1. CASE ~ Admitted(shell, e, q)
        BY <2>1, <3>1, <1>b, AdmitMakes
      <3>2. CASE Admitted(shell, e, q)
        BY <2>1, <3>2 DEF Admit
      <3> QED BY <3>1, <3>2
    <2> QED BY <2>1, <2>2, <1>b, AdmitKeeps, SameContents
  <1>8. ASSUME NEW a \in Admissions(shell), applyInitialRenderHostOutput(a)
        PROVE  BridgeInv(shell') /\ ShownStays(shell, shell')
    <2>1. shell' = Show(shell, a) /\ CanShow(shell, a)
      BY <1>8 DEF applyInitialRenderHostOutput
    <2>2. \A o \in Outputs(shell) : shell'.outputs[o] = shell.outputs[o]
      <3>1. CASE ~ HasActiveOutput(shell, a)
        BY <2>1, <3>1, <1>b, ShowMakes
      <3>2. CASE HasActiveOutput(shell, a)
        BY <2>1, <3>2 DEF Show
      <3> QED BY <3>1, <3>2
    <2> QED BY <2>1, <2>2, <1>b, ShowKeeps, SameContents
  <1>9. ASSUME NEW a \in Admissions(shell), NEW u \in Requests(shell),
               cleanupUnmountHostOutput(a, u)
        PROVE  BridgeInv(shell') /\ ShownStays(shell, shell')
    <2>1. shell' = CleanupUnmount(shell, a, u) /\ CanCleanupUnmount(shell, a, u)
      BY <1>9 DEF cleanupUnmountHostOutput
    <2>2. /\ shell.effects[shell.admissions[a].effect].active
          /\ shell.log[u].root = shell.effects[shell.admissions[a].effect].root
      BY <2>1 DEF CanCleanupUnmount, EffectsValid, BridgeInv, AdmissionsMatch
    <2>3. \A o \in Outputs(shell) : shell'.outputs[o].content = shell.outputs[o].content
      BY <2>1, <2>2, <1>b, CleanupUnmountMakes, SMTT(30) DEF CleanedUp
    <2> QED BY <2>1, <2>3, <1>b, CleanupUnmountKeeps, SameContents
  <1>10. ASSUME NEW o \in Outputs(shell), cleanupInitialRenderHostOutput(o)
         PROVE  BridgeInv(shell') /\ ShownStays(shell, shell')
    <2>1. shell' = CleanupOutput(shell, o)
      BY <1>10 DEF cleanupInitialRenderHostOutput
    <2>2. \A x \in Outputs(shell) : shell'.outputs[x].content = shell.outputs[x].content
      <3>1. CASE shell.outputs[o].active
        <4>1. /\ \A x \in Outputs(shell) : x # o => shell'.outputs[x] = shell.outputs[x]
              /\ shell'.outputs[o].content = shell.outputs[o].content
          BY <2>1, <3>1, <1>b, CleanupMakes
        <4> QED BY <4>1
      <3>2. CASE ~ shell.outputs[o].active
        BY <2>1, <3>2 DEF CleanupOutput
      <3> QED BY <3>1, <3>2
    <2> QED BY <2>1, <2>2, <1>b, CleanupKeeps, SameContents
  <1>11. ASSUME NEW o \in Outputs(shell), NEW q \in Requests(shell), applyHostOutputUpdate(q, o)
         PROVE  BridgeInv(shell') /\ ShownStays(shell, shell')
    <2>1. shell' = UpdateOutput(shell, q, o) /\ CanUpdate(shell, q, o)
      BY <1>11 DEF applyHostOutputUpdate
    <2>2. /\ \A x \in Outputs(shell) : x # o => shell'.outputs[x] = shell.outputs[x]
          /\ shell'.outputs[o].content = IF IsApplied(shell, q) THEN shell.outputs[o].content ELSE q
      BY <2>1, <1>b, UpdateMakes
    <2>3. \A x \in Outputs(shell) : shell.outputs[x].content \in Nat
      <3>1. \A x \in Outputs(shell) : shell.outputs[x] \in OutputRecords
        BY <1>b, RecordTypes DEF IsBridge
      <3> QED BY <3>1 DEF OutputRecords
    <2>4. ~ IsApplied(shell, q) => shell.outputs[o].content <= q
      BY <2>1, UpdateIsNewer
    <2>5. q \in Nat
      BY <1>b, BridgeTypes DEF IsBridge, Requests
    <2>6. ShownStays(shell, shell')
      BY <2>2, <2>3, <2>4, <2>5 DEF ShownStays
    <2> QED BY <2>1, <2>6, UpdateKeeps
  <1> QED BY <1>1, <1>2, <1>3, <1>4, <1>5, <1>6, <1>7, <1>8, <1>9, <1>10, <1>11 DEF ShellNext

\* What the bridge says of the DOM is true whatever calls are made in whatever order, on
\* records of any age and by roots that share a container: markers belong to active side
\* effects, instances to nodes, output that would be returned as shown is shown, and a
\* cleaned up root stays empty.
THEOREM BridgeMatches == ShellSpec => []BridgeMatchesDom
  <1>1. ShellInit => BridgeInv(shell)
    BY EmptyKeeps DEF ShellInit
  <1>2. BridgeInv(shell) /\ [ShellNext]_shell => BridgeInv(shell)'
    <2> SUFFICES ASSUME BridgeInv(shell), [ShellNext]_shell PROVE BridgeInv(shell)'
      OBVIOUS
    <2>1. CASE ShellNext
      BY <2>1, ShellStep
    <2>2. CASE UNCHANGED shell
      BY <2>2
    <2> QED BY <2>1, <2>2
  <1>3. BridgeInv(shell) => BridgeMatchesDom
    BY BridgeInvSuffices
  <1> QED BY <1>1, <1>2, <1>3, PTL DEF ShellSpec

\* Renders applied out of order never put shown output back to an older request.
THEOREM ContentGrows == ShellSpec => ContentNeverGoesBack
  <1>1. ShellInit => BridgeInv(shell)
    BY EmptyKeeps DEF ShellInit
  <1>2. BridgeInv(shell) /\ [ShellNext]_shell => BridgeInv(shell)'
    <2> SUFFICES ASSUME BridgeInv(shell), [ShellNext]_shell PROVE BridgeInv(shell)'
      OBVIOUS
    <2>1. CASE ShellNext
      BY <2>1, ShellStep
    <2>2. CASE UNCHANGED shell
      BY <2>2
    <2> QED BY <2>1, <2>2
  <1>3. BridgeInv(shell) /\ [ShellNext]_shell =>
          [\A o \in Outputs(shell) : shell'.outputs[o].content >= shell.outputs[o].content]_shell
    BY ShellStep DEF ShownStays
  <1> QED BY <1>1, <1>2, <1>3, PTL DEF ShellSpec, ContentNeverGoesBack

-----------------------------------------------------------------------------
(***************************************************************************)
(* The listeners of the roots                                              *)
(***************************************************************************)
RootEvents == ToSet(RootKeys)

TargetRecords ==
  [listening : BOOLEAN, hasSet : BOOLEAN, keys : SUBSET Keys, listeners : SUBSET (Keys \X Nat)]
Snapshots(T) == [T -> [hasSet : BOOLEAN, listening : BOOLEAN]]
Descriptions(T) == [T -> [count : Nat, size : Nat, listening : BOOLEAN]]
RegistrationRecords ==
  UNION {[container : {c}, installed : SUBSET (TargetsOf(c) \X Keys),
          before : Snapshots(TargetsOf(c)), after : Descriptions(TargetsOf(c)),
          active : BOOLEAN] : c \in ListenerContainers}

\* Every key of a target has one listener.
OneListenerEach(d) ==
  \A t \in Targets :
    /\ \A k : k \in d[t].keys <=> \E o \in Nat : <<k, o>> \in d[t].listeners
    /\ \A k, o, x : <<k, o>> \in d[t].listeners /\ <<k, x>> \in d[t].listeners => o = x

\* A target with listeners has its set and its marker. The document has its marker while it
\* listens to selectionchange.
TargetsMarked(d) ==
  \A t \in Targets :
    /\ d[t].keys # {} => d[t].hasSet
    /\ t # Document => d[t].keys \subseteq RootEvents
    /\ t # Document /\ d[t].keys # {} => d[t].listening
    /\ SelectionChange \in d[t].keys => d[t].listening

\* The document listens to all root events or to none.
DocumentWhole(d) ==
  RootEvents \subseteq d[Document].keys \/ RootEvents \cap d[Document].keys = {}

\* Listeners belong to the active registrations that installed them, or to nobody.
OwnersKnown(d, s) ==
  \A t \in Targets : \A k, o : <<k, o>> \in d[t].listeners =>
    o = Permanent \/ (o \in 1 .. Len(s) /\ s[o].active /\ <<t, k>> \in s[o].installed)

\* What an active registration installed is there.
InstalledThere(d, s) ==
  \A r \in 1 .. Len(s) : s[r].active =>
    \A t \in Targets : \A k : <<t, k>> \in s[r].installed => <<k, r>> \in d[t].listeners

\* A registration that found a container without its marker installed all of its events, and
\* one that found the document without its marker installed selectionchange. What one
\* installed of a document that is its container is all of the events or none.
InstalledWhole(s) ==
  \A r \in 1 .. Len(s) :
    /\ \A t \in Targets : \A k : <<t, k>> \in s[r].installed =>
         (t = s[r].container /\ k \in RootEvents) \/ (t = Document /\ k = SelectionChange)
    /\ ~ s[r].before[s[r].container].listening /\ s[r].container # Document =>
         \A k \in RootEvents : <<s[r].container, k>> \in s[r].installed
    /\ ~ s[r].before[Document].listening => <<Document, SelectionChange>> \in s[r].installed
    /\ \/ \A k \in RootEvents : <<Document, k>> \in s[r].installed
       \/ \A k \in RootEvents : <<Document, k>> \notin s[r].installed

\* A registration left the document with its marker and listening to selectionchange.
AfterWhole(s) ==
  \A r \in 1 .. Len(s) :
    /\ s[r].after[Document].listening
    /\ s[r].after[Document].size \in {1, Cardinality(RootEvents) + 1}

ListenersInv ==
  /\ targets \in [Targets -> TargetRecords] /\ regs \in Seq(RegistrationRecords)
  /\ OneListenerEach(targets) /\ TargetsMarked(targets) /\ DocumentWhole(targets)
  /\ OwnersKnown(targets, regs) /\ InstalledThere(targets, regs)
  /\ InstalledWhole(regs) /\ AfterWhole(regs)

\* The events are finitely many, and more than one.
LEMMA EventsFinite ==
  /\ RootKeys \in Seq(RootEvents) /\ Len(RootKeys) \in Nat
  /\ RootEvents = {RootKeys[i] : i \in 1 .. Len(RootKeys)}
  /\ IsFiniteSet(RootEvents) /\ Cardinality(RootEvents) \in Nat /\ Cardinality(RootEvents) > 1
  /\ SelectionChange \notin RootEvents
  /\ IsFiniteSet(Keys)
  <1>1. RootKeys \in Seq(RootEvents) /\ Len(RootKeys) \in Nat /\ Len(RootKeys) > 1
    BY ListenerConstants DEF RootEvents
  <1>2. DOMAIN RootKeys = 1 .. Len(RootKeys)
    BY <1>1
  <1>3. RootEvents = {RootKeys[i] : i \in 1 .. Len(RootKeys)}
    BY <1>2 DEF RootEvents, ToSet
  <1>4. RootKeys \in Surjection(1 .. Len(RootKeys), RootEvents)
    <2>1. RootKeys \in [1 .. Len(RootKeys) -> RootEvents]
      BY <1>1
    <2> QED BY <2>1, <1>3 DEF Surjection
  <1>5. IsFiniteSet(1 .. Len(RootKeys))
    BY <1>1, FS_Interval
  <1>6. IsFiniteSet(RootEvents)
    BY <1>4, <1>5, FS_Surjection
  <1>7. Cardinality(RootEvents) \in Nat
    BY <1>6, FS_CardinalityType
  <1>8. Cardinality(RootEvents) > 1
    <2> DEFINE a == RootKeys[1]
               z == RootKeys[2]
    <2>1. a # z /\ {a, z} \in SUBSET RootEvents
      BY <1>1, <1>2, <1>3, ListenerConstants
    <2> HIDE DEF a, z
    <2>2. IsFiniteSet({a}) /\ Cardinality({a}) = 1
      BY FS_Singleton
    <2>3. Cardinality({a} \cup {z}) = 2
      BY <2>1, <2>2, FS_AddElement
    <2>4. {a, z} = {a} \cup {z}
      OBVIOUS
    <2>5. Cardinality({a, z}) <= Cardinality(RootEvents)
      BY <2>1, <1>6, FS_Subset
    <2> QED BY <2>3, <2>4, <2>5, <1>7
  <1>9. IsFiniteSet(Keys)
    BY <1>6, FS_AddElement DEF Keys, RootEvents
  <1> QED BY <1>1, <1>3, <1>6, <1>7, <1>8, <1>9, ListenerConstants DEF RootEvents

\* The steps of a registration before step n, by target.
LEMMA NewKeys ==
  ASSUME NEW c \in ListenerContainers, NEW n \in Nat, NEW t \in Targets, NEW k
  PROVE  /\ k \in KeysOn(InstalledBefore(c, n), t) <=> <<t, k>> \in InstalledBefore(c, n)
         /\ <<t, k>> \in InstalledBefore(c, n) =>
              /\ k \notin targets[t].keys
              /\ \/ t = c /\ k \in RootEvents
                 \/ t = Document /\ k = SelectionChange /\ n > Len(RootKeys) + 1
         /\ n = PlanEnd /\ t = c /\ k \in RootEvents /\ k \notin targets[t].keys =>
              <<t, k>> \in InstalledBefore(c, n)
         /\ n = PlanEnd /\ SelectionChange \notin targets[Document].keys =>
              <<Document, SelectionChange>> \in InstalledBefore(c, n)
  <1>e. Len(RootKeys) \in Nat /\ RootEvents = {RootKeys[i] : i \in 1 .. Len(RootKeys)}
    BY EventsFinite
  <1>d. DOMAIN Plan(c) = 1 .. Len(RootKeys) + 1
    BY DEF Plan
  <1>p. \A i \in 1 .. Len(RootKeys) : Plan(c)[i] = <<c, RootKeys[i]>>
    BY <1>e DEF Plan
  <1>s. Plan(c)[Len(RootKeys) + 1] = <<Document, SelectionChange>>
    BY <1>e DEF Plan
  <1>r. 1 .. Len(RootKeys) + 1 = (1 .. Len(RootKeys)) \cup {Len(RootKeys) + 1}
    BY <1>e
  <1>m. \A i : i \in Missing(c) <=>
          \/ i \in 1 .. Len(RootKeys) /\ RootKeys[i] \notin targets[c].keys
          \/ i = Len(RootKeys) + 1 /\ SelectionChange \notin targets[Document].keys
    <2>1. \A i \in 1 .. Len(RootKeys) : Plan(c)[i][1] = c /\ Plan(c)[i][2] = RootKeys[i]
      BY <1>p
    <2>2. /\ Plan(c)[Len(RootKeys) + 1][1] = Document
          /\ Plan(c)[Len(RootKeys) + 1][2] = SelectionChange
      BY <1>s
    <2>3. Len(RootKeys) + 1 \notin 1 .. Len(RootKeys)
      BY <1>e
    <2> QED BY <2>1, <2>2, <2>3, <1>d, <1>r DEF Missing
  <1>i. \A p : p \in InstalledBefore(c, n) <=>
          \/ \E i \in 1 .. Len(RootKeys) :
               i < n /\ p = <<c, RootKeys[i]>> /\ RootKeys[i] \notin targets[c].keys
          \/ /\ Len(RootKeys) + 1 < n /\ p = <<Document, SelectionChange>>
             /\ SelectionChange \notin targets[Document].keys
    BY <1>m, <1>p, <1>s DEF InstalledBefore
  <1>1. \A p \in InstalledBefore(c, n) : p = <<p[1], p[2]>>
    BY <1>i
  <1>2. k \in KeysOn(InstalledBefore(c, n), t) <=> <<t, k>> \in InstalledBefore(c, n)
    <2>1. ASSUME k \in KeysOn(InstalledBefore(c, n), t)
          PROVE  <<t, k>> \in InstalledBefore(c, n)
      <3>1. PICK p \in InstalledBefore(c, n) : p[1] = t /\ p[2] = k
        BY <2>1 DEF KeysOn
      <3> QED BY <3>1, <1>1
    <2>2. ASSUME <<t, k>> \in InstalledBefore(c, n)
          PROVE  k \in KeysOn(InstalledBefore(c, n), t)
      <3>1. <<t, k>>[1] = t /\ <<t, k>>[2] = k
        OBVIOUS
      <3> QED BY <2>2, <3>1 DEF KeysOn
    <2> QED BY <2>1, <2>2
  <1>3. ASSUME <<t, k>> \in InstalledBefore(c, n)
        PROVE  /\ k \notin targets[t].keys
               /\ \/ t = c /\ k \in RootEvents
                  \/ t = Document /\ k = SelectionChange /\ n > Len(RootKeys) + 1
    <2>1. CASE \E i \in 1 .. Len(RootKeys) :
                 i < n /\ <<t, k>> = <<c, RootKeys[i]>> /\ RootKeys[i] \notin targets[c].keys
      BY <2>1, <1>e
    <2>2. CASE /\ Len(RootKeys) + 1 < n /\ <<t, k>> = <<Document, SelectionChange>>
               /\ SelectionChange \notin targets[Document].keys
      BY <2>2, <1>e
    <2> QED BY <2>1, <2>2, <1>3, <1>i
  <1>4. ASSUME n = PlanEnd, k \in RootEvents, k \notin targets[c].keys
        PROVE  <<c, k>> \in InstalledBefore(c, n)
    <2>1. PICK i \in 1 .. Len(RootKeys) : k = RootKeys[i]
      BY <1>4, <1>e
    <2>2. i < n
      BY <1>4, <1>e DEF PlanEnd
    <2> QED BY <2>1, <2>2, <1>4, <1>i
  <1>5. ASSUME n = PlanEnd, SelectionChange \notin targets[Document].keys
        PROVE  <<Document, SelectionChange>> \in InstalledBefore(c, n)
    <2>1. Len(RootKeys) + 1 < n
      BY <1>5, <1>e DEF PlanEnd
    <2> QED BY <2>1, <1>5, <1>i
  <1> QED BY <1>2, <1>3, <1>4, <1>5

\* What an installation makes of the targets.
LEMMA InstallMakes ==
  ASSUME targets \in [Targets -> TargetRecords], NEW c \in ListenerContainers, NEW n \in Nat,
         NEW owner \in Nat, NEW d, d = Install(owner, c, n)
  PROVE  /\ d \in [Targets -> TargetRecords]
         /\ \A t \in Targets :
              /\ d[t].listening <=> targets[t].listening \/ t \in Reached(c, n)
              /\ d[t].hasSet <=> targets[t].hasSet \/ t \in Reached(c, n)
              /\ \A k : k \in d[t].keys <=>
                   k \in targets[t].keys \/ <<t, k>> \in InstalledBefore(c, n)
              /\ \A k, o : <<k, o>> \in d[t].listeners <=>
                   <<k, o>> \in targets[t].listeners
                     \/ (o = owner /\ <<t, k>> \in InstalledBefore(c, n))
  <1> DEFINE new(t) == KeysOn(InstalledBefore(c, n), t)
  <1>n. \A t \in Targets : \A k : k \in new(t) <=> <<t, k>> \in InstalledBefore(c, n)
    BY NewKeys
  <1>k. \A t \in Targets : new(t) \subseteq Keys
    BY <1>n, NewKeys DEF Keys, RootEvents
  <1>d. d = [t \in Targets |->
               [listening |-> targets[t].listening \/ t \in Reached(c, n),
                hasSet    |-> targets[t].hasSet \/ t \in Reached(c, n),
                keys      |-> targets[t].keys \cup new(t),
                listeners |-> targets[t].listeners \cup (new(t) \X {owner})]]
    BY DEF Install
  <1> HIDE DEF new
  <1>1. ASSUME NEW t \in Targets
        PROVE  /\ d[t] \in TargetRecords
               /\ d[t].listening <=> targets[t].listening \/ t \in Reached(c, n)
               /\ d[t].hasSet <=> targets[t].hasSet \/ t \in Reached(c, n)
               /\ \A k : k \in d[t].keys <=>
                    k \in targets[t].keys \/ <<t, k>> \in InstalledBefore(c, n)
               /\ \A k, o : <<k, o>> \in d[t].listeners <=>
                    <<k, o>> \in targets[t].listeners
                      \/ (o = owner /\ <<t, k>> \in InstalledBefore(c, n))
    <2> DEFINE keys == targets[t].keys \cup new(t)
               listeners == targets[t].listeners \cup (new(t) \X {owner})
               listening == (targets[t].listening \/ t \in Reached(c, n))
               hasSet == (targets[t].hasSet \/ t \in Reached(c, n))
    <2>t. targets[t] \in TargetRecords
      OBVIOUS
    <2>1. targets[t].keys \subseteq Keys /\ targets[t].listeners \subseteq Keys \X Nat
      BY <2>t DEF TargetRecords
    <2>2. keys \in SUBSET Keys
      BY <2>1, <1>k
    <2>3. listeners \in SUBSET (Keys \X Nat)
      BY <2>1, <1>k
    <2>4. listening \in BOOLEAN /\ hasSet \in BOOLEAN
      OBVIOUS
    <2>5. d[t] = [listening |-> listening, hasSet |-> hasSet, keys |-> keys,
                  listeners |-> listeners]
      BY <1>d
    <2>6. \A k : k \in keys <=> k \in targets[t].keys \/ <<t, k>> \in InstalledBefore(c, n)
      BY <1>n
    <2>7. \A k, o : <<k, o>> \in listeners <=>
            <<k, o>> \in targets[t].listeners
              \/ (o = owner /\ <<t, k>> \in InstalledBefore(c, n))
      BY <1>n
    <2> HIDE DEF keys, listeners, listening, hasSet
    <2>8. /\ d[t] \in TargetRecords /\ d[t].listening = listening /\ d[t].hasSet = hasSet
          /\ d[t].keys = keys /\ d[t].listeners = listeners
      BY <2>2, <2>3, <2>4, <2>5 DEF TargetRecords
    <2>9. /\ d[t].listening <=> targets[t].listening \/ t \in Reached(c, n)
          /\ d[t].hasSet <=> targets[t].hasSet \/ t \in Reached(c, n)
      BY <2>8 DEF listening, hasSet
    <2> QED BY <2>6, <2>7, <2>8, <2>9
  <1>2. d \in [Targets -> TargetRecords]
    BY <1>1, <1>d
  <1> QED BY <1>1, <1>2

\* An installation keeps keys, listeners and markers together.
LEMMA InstallKeeps ==
  ASSUME targets \in [Targets -> TargetRecords], OneListenerEach(targets),
         TargetsMarked(targets), NEW c \in ListenerContainers, NEW n \in Nat,
         NEW owner \in Nat, NEW d, d = Install(owner, c, n)
  PROVE  OneListenerEach(d) /\ TargetsMarked(d)
  <1>1. \A t \in Targets :
          /\ d[t].listening <=> targets[t].listening \/ t \in Reached(c, n)
          /\ d[t].hasSet <=> targets[t].hasSet \/ t \in Reached(c, n)
          /\ \A k : k \in d[t].keys <=>
               k \in targets[t].keys \/ <<t, k>> \in InstalledBefore(c, n)
          /\ \A k, o : <<k, o>> \in d[t].listeners <=>
               <<k, o>> \in targets[t].listeners
                 \/ (o = owner /\ <<t, k>> \in InstalledBefore(c, n))
    BY InstallMakes
  <1>2. \A t \in Targets : \A k : <<t, k>> \in InstalledBefore(c, n) =>
          /\ k \notin targets[t].keys
          /\ \/ t = c /\ k \in RootEvents
             \/ t = Document /\ k = SelectionChange /\ n > Len(RootKeys) + 1
    BY NewKeys
  <1>3. \A t \in Targets : \A k : <<t, k>> \in InstalledBefore(c, n) => t \in Reached(c, n)
    BY <1>2, EventsFinite DEF Reached, TargetsOf
  <1>4. OneListenerEach(d)
    <2> SUFFICES ASSUME NEW t \in Targets
                 PROVE  /\ \A k : k \in d[t].keys <=> \E o \in Nat : <<k, o>> \in d[t].listeners
                        /\ \A k, o, x : <<k, o>> \in d[t].listeners /\ <<k, x>> \in d[t].listeners
                             => o = x
      BY DEF OneListenerEach
    <2>1. /\ \A k : k \in targets[t].keys <=> \E o \in Nat : <<k, o>> \in targets[t].listeners
          /\ \A k, o, x : <<k, o>> \in targets[t].listeners /\ <<k, x>> \in targets[t].listeners
               => o = x
      BY DEF OneListenerEach
    <2>2. \A k, o : <<k, o>> \in targets[t].listeners => k \in targets[t].keys
      <3>1. targets[t] \in TargetRecords
        OBVIOUS
      <3>2. \A k, o : <<k, o>> \in targets[t].listeners => o \in Nat
        BY <3>1 DEF TargetRecords
      <3> QED BY <2>1, <3>2
    <2>3. \A k : k \in d[t].keys <=> \E o \in Nat : <<k, o>> \in d[t].listeners
      BY <1>1, <2>1
    <2>4. ASSUME NEW k, NEW o, NEW x, <<k, o>> \in d[t].listeners, <<k, x>> \in d[t].listeners
          PROVE  o = x
      <3>1. /\ <<k, o>> \in targets[t].listeners
                 \/ (o = owner /\ <<t, k>> \in InstalledBefore(c, n))
            /\ <<k, x>> \in targets[t].listeners
                 \/ (x = owner /\ <<t, k>> \in InstalledBefore(c, n))
        BY <1>1, <2>4
      <3>2. <<t, k>> \in InstalledBefore(c, n) => k \notin targets[t].keys
        BY <1>2
      <3> QED BY <3>1, <3>2, <2>1, <2>2
    <2> QED BY <2>3, <2>4
  <1>5. TargetsMarked(d)
    <2> SUFFICES ASSUME NEW t \in Targets
                 PROVE  /\ d[t].keys # {} => d[t].hasSet
                        /\ t # Document => d[t].keys \subseteq RootEvents
                        /\ t # Document /\ d[t].keys # {} => d[t].listening
                        /\ SelectionChange \in d[t].keys => d[t].listening
      BY DEF TargetsMarked
    <2>1. /\ targets[t].keys # {} => targets[t].hasSet
          /\ t # Document => targets[t].keys \subseteq RootEvents
          /\ t # Document /\ targets[t].keys # {} => targets[t].listening
          /\ SelectionChange \in targets[t].keys => targets[t].listening
      BY DEF TargetsMarked
    <2>2. SelectionChange \notin RootEvents
      BY EventsFinite
    <2>3. d[t].keys # {} => targets[t].keys # {} \/ t \in Reached(c, n)
      BY <1>1, <1>3
    <2>4. t # Document => d[t].keys \subseteq RootEvents
      BY <1>1, <1>2, <2>1
    <2>5. SelectionChange \in d[t].keys => d[t].listening
      BY <1>1, <1>3, <2>1
    <2> QED BY <1>1, <2>1, <2>3, <2>4, <2>5
  <1> QED BY <1>4, <1>5

\* A failed registration leaves every target as it was.
LEMMA RegisterFailsRestores ==
  ASSUME ListenersInv, NEW c \in ListenerContainers, NEW n \in Nat, RegisterFails(c, n)
  PROVE  targets' = targets
  <1> DEFINE d == Install(NextOwner, c, n)
             installed == InstalledBefore(c, n)
             owner == NextOwner
  <1>t. targets \in [Targets -> TargetRecords] /\ regs \in Seq(RegistrationRecords)
    BY DEF ListenersInv
  <1>o. owner \in Nat /\ owner # Permanent /\ owner \notin 1 .. Len(regs)
    BY <1>t DEF NextOwner, Permanent
  <1>1. /\ d \in [Targets -> TargetRecords]
        /\ \A t \in Targets :
          /\ d[t].listening <=> targets[t].listening \/ t \in Reached(c, n)
          /\ d[t].hasSet <=> targets[t].hasSet \/ t \in Reached(c, n)
          /\ \A k : k \in d[t].keys <=> k \in targets[t].keys \/ <<t, k>> \in installed
          /\ \A k, o : <<k, o>> \in d[t].listeners <=>
               <<k, o>> \in targets[t].listeners \/ (o = owner /\ <<t, k>> \in installed)
    BY <1>t, <1>o, InstallMakes
  <1>2. \A t \in Targets : \A k :
          /\ k \in KeysOn(installed, t) <=> <<t, k>> \in installed
          /\ <<t, k>> \in installed => k \notin targets[t].keys /\ t \in TargetsOf(c)
    BY NewKeys DEF TargetsOf
  <1>r. Reached(c, n) \subseteq TargetsOf(c)
    BY DEF Reached, TargetsOf
  <1>3. targets' = CleanupInstalled(d, owner, installed, Before(c), c)
    BY DEF RegisterFails
  <1> HIDE DEF d, installed, owner
  <1>4. ASSUME NEW t \in Targets
        PROVE  targets'[t] = targets[t]
    <2>t. targets[t] \in TargetRecords /\ d[t] \in TargetRecords
      BY <1>t, <1>1
    <2>l. targets[t].listeners \subseteq Keys \X Nat /\ d[t].listeners \subseteq Keys \X Nat
      BY <2>t DEF TargetRecords
    <2>1. CASE t \notin TargetsOf(c)
      <3>1. targets'[t] = d[t]
        BY <2>1, <1>3 DEF CleanupInstalled
      <3>2. d[t].listening = targets[t].listening /\ d[t].hasSet = targets[t].hasSet
        <4>1. /\ d[t].listening <=> targets[t].listening
              /\ d[t].hasSet <=> targets[t].hasSet
          BY <1>1, <1>r, <2>1
        <4>2. /\ d[t].listening \in BOOLEAN /\ targets[t].listening \in BOOLEAN
              /\ d[t].hasSet \in BOOLEAN /\ targets[t].hasSet \in BOOLEAN
          BY <2>t DEF TargetRecords
        <4> QED BY <4>1, <4>2
      <3>3. d[t].keys = targets[t].keys
        BY <1>1, <1>2, <2>1
      <3>4. d[t].listeners = targets[t].listeners
        <4>1. \A k, o : <<k, o>> \in d[t].listeners <=> <<k, o>> \in targets[t].listeners
          BY <1>1, <1>2, <2>1
        <4>2. \A l \in Keys \X Nat : l \in d[t].listeners <=> l \in targets[t].listeners
          BY <4>1
        <4> QED BY <4>2, <2>l
      <3> QED BY <3>1, <3>2, <3>3, <3>4, <2>t DEF TargetRecords
    <2>2. CASE t \in TargetsOf(c)
      <3> DEFINE keys == d[t].keys \ KeysOn(installed, t)
                 listeners == {l \in d[t].listeners : ~ (l[2] = owner /\ <<t, l[1]>> \in installed)}
                 hasSet == (d[t].hasSet /\ (targets[t].hasSet \/ keys # {}))
      <3>1. targets'[t] = [listening |-> targets[t].listening, hasSet |-> hasSet,
                           keys |-> keys, listeners |-> listeners]
        <4>1. targets'[t] =
                [listening |-> Before(c)[t].listening,
                 hasSet |-> d[t].hasSet /\ (Before(c)[t].hasSet \/ keys # {}),
                 keys |-> keys, listeners |-> listeners]
          BY <2>2, <1>3 DEF CleanupInstalled
        <4>2. /\ Before(c)[t].listening = targets[t].listening
              /\ Before(c)[t].hasSet = targets[t].hasSet
          BY <2>2 DEF Before, Snapshot
        <4> QED BY <4>1, <4>2
      <3>2. keys = targets[t].keys
        BY <1>1, <1>2
      <3>3. listeners = targets[t].listeners
        <4>1. \A k, o : <<k, o>> \in targets[t].listeners => o # owner
          BY <1>o DEF ListenersInv, OwnersKnown
        <4>2. ASSUME NEW k, NEW o
              PROVE  <<k, o>> \in listeners <=> <<k, o>> \in targets[t].listeners
          <5>1. <<k, o>> \in listeners <=>
                  <<k, o>> \in d[t].listeners /\ ~ (o = owner /\ <<t, k>> \in installed)
            OBVIOUS
          <5> HIDE DEF listeners
          <5> QED BY <5>1, <4>1, <1>1
        <4>3. \A l \in Keys \X Nat : l \in listeners <=> l \in targets[t].listeners
          <5> HIDE DEF listeners
          <5> QED BY <4>2
        <4>4. listeners \subseteq Keys \X Nat
          BY <2>l
        <4> HIDE DEF listeners
        <4> QED BY <4>3, <4>4, <2>l
      <3>4. hasSet = targets[t].hasSet
        <4>1. keys # {} => targets[t].hasSet
          BY <3>2 DEF ListenersInv, TargetsMarked
        <4>2. targets[t].hasSet \in BOOLEAN
          BY <2>t DEF TargetRecords
        <4>3. targets[t].hasSet => d[t].hasSet
          BY <1>1
        <4> HIDE DEF keys
        <4> QED BY <4>1, <4>2, <4>3
      <3> HIDE DEF keys, listeners, hasSet
      <3> QED BY <3>1, <3>2, <3>3, <3>4, <2>t DEF TargetRecords
    <2> QED BY <2>1, <2>2
  <1>5. targets' = [t \in Targets |-> targets'[t]]
    BY <1>3 DEF CleanupInstalled
  <1> QED BY <1>4, <1>5, <1>t

\* The listeners of a target are as many as its keys, and finitely many.
LEMMA ListenersCounted ==
  ASSUME NEW d \in [Targets -> TargetRecords], OneListenerEach(d), NEW t \in Targets
  PROVE  /\ IsFiniteSet(d[t].keys) /\ Cardinality(d[t].keys) \in Nat
         /\ Cardinality(d[t].listeners) = Cardinality(d[t].keys)
         /\ Cardinality(d[t].listeners) \in Nat
         /\ d[t].keys = {l[1] : l \in d[t].listeners}
  <1>t. d[t] \in TargetRecords
    OBVIOUS
  <1>1. d[t].keys \in SUBSET Keys /\ d[t].listeners \subseteq Keys \X Nat
    BY <1>t DEF TargetRecords
  <1>2. IsFiniteSet(d[t].keys) /\ Cardinality(d[t].keys) \in Nat
    BY <1>1, EventsFinite, FS_Subset, FS_CardinalityType
  <1> DEFINE S == d[t].keys
             T == d[t].listeners
             f == [k \in S |-> CHOOSE l \in T : l[1] = k]
  <1>3. \A k : k \in S <=> \E l \in T : l[1] = k
    <2>1. \A k : k \in S <=> \E o \in Nat : <<k, o>> \in T
      BY DEF OneListenerEach
    <2>2. \A l \in T : l = <<l[1], l[2]>> /\ l[2] \in Nat
      BY <1>1
    <2> HIDE DEF S, T
    <2>3. ASSUME NEW k, k \in S PROVE \E l \in T : l[1] = k
      <3>1. PICK o \in Nat : <<k, o>> \in T
        BY <2>1, <2>3
      <3>2. <<k, o>>[1] = k
        OBVIOUS
      <3> QED BY <3>1, <3>2
    <2>4. ASSUME NEW l \in T PROVE l[1] \in S
      BY <2>1, <2>2
    <2> QED BY <2>3, <2>4
  <1>4. \A l, m \in T : l[1] = m[1] => l = m
    <2>1. \A k, o, x : <<k, o>> \in T /\ <<k, x>> \in T => o = x
      BY DEF OneListenerEach
    <2>2. \A l \in T : l = <<l[1], l[2]>>
      BY <1>1
    <2> HIDE DEF T
    <2> SUFFICES ASSUME NEW l \in T, NEW m \in T, l[1] = m[1] PROVE l = m
      OBVIOUS
    <2>3. l = <<l[1], l[2]>> /\ m = <<l[1], m[2]>>
      BY <2>2
    <2>4. l[2] = m[2]
      BY <2>1, <2>3
    <2> QED BY <2>3, <2>4
  <1> HIDE DEF S, T
  <1>5. \A k \in S : f[k] \in T /\ f[k][1] = k
    BY <1>3
  <1>6. f \in [S -> T]
    BY <1>5
  <1>7. \A l \in T : l[1] \in S /\ f[l[1]] = l
    BY <1>3, <1>4, <1>5
  <1>8. f \in Bijection(S, T)
    <2> HIDE DEF f
    <2>1. f \in Injection(S, T)
      BY <1>5, <1>6 DEF Injection, IsInjective
    <2>2. f \in Surjection(S, T)
      BY <1>6, <1>7 DEF Surjection
    <2> QED BY <2>1, <2>2 DEF Bijection
  <1>9. ExistsBijection(S, T)
    BY <1>8 DEF ExistsBijection
  <1>10. Cardinality(T) = Cardinality(S)
    BY <1>2, <1>9, FS_Bijection DEF S
  <1>11. S = {l[1] : l \in T}
    BY <1>3
  <1> QED BY <1>2, <1>10, <1>11 DEF S, T

\* The number of keys of the document tells whether it listens to selectionchange.
LEMMA DocumentSize ==
  ASSUME NEW d \in [Targets -> TargetRecords], DocumentWhole(d)
  PROVE  /\ SelectionChange \in d[Document].keys =>
              Cardinality(d[Document].keys) \in {1, Cardinality(RootEvents) + 1}
         /\ SelectionChange \notin d[Document].keys =>
              Cardinality(d[Document].keys) \in {0, Cardinality(RootEvents)}
  <1> DEFINE K == d[Document].keys
  <1>1. Document \in Targets
    BY DEF Targets
  <1>2. d[Document] \in TargetRecords
    BY <1>1
  <1>3. K \subseteq RootEvents \cup {SelectionChange}
    BY <1>2 DEF TargetRecords, Keys, RootEvents
  <1>4. RootEvents \subseteq K \/ RootEvents \cap K = {}
    BY DEF DocumentWhole
  <1> HIDE DEF K
  <1>e. IsFiniteSet(RootEvents) /\ SelectionChange \notin RootEvents
    BY EventsFinite
  <1>5. CASE SelectionChange \in K
    <2>1. K = RootEvents \cup {SelectionChange} \/ K = {SelectionChange}
      BY <1>3, <1>4, <1>5
    <2>2. Cardinality(RootEvents \cup {SelectionChange}) = Cardinality(RootEvents) + 1
      BY <1>e, FS_AddElement
    <2>3. Cardinality({SelectionChange}) = 1
      BY FS_Singleton
    <2> QED BY <2>1, <2>2, <2>3, <1>5 DEF K
  <1>6. CASE SelectionChange \notin K
    <2>1. K = RootEvents \/ K = {}
      BY <1>3, <1>4, <1>6
    <2>2. Cardinality({}) = 0
      BY FS_EmptySet
    <2> QED BY <2>1, <2>2, <1>6 DEF K
  <1> QED BY <1>5, <1>6

\* The record of a registration has its type.
LEMMA RegistrationTyped ==
  ASSUME targets \in [Targets -> TargetRecords], NEW c \in ListenerContainers,
         NEW d \in [Targets -> TargetRecords], OneListenerEach(d)
  PROVE  [container |-> c, installed |-> InstalledBefore(c, PlanEnd), before |-> Before(c),
          after |-> [t \in TargetsOf(c) |-> Describe(d, t)], active |-> TRUE]
            \in RegistrationRecords
  <1> DEFINE installed == InstalledBefore(c, PlanEnd)
             after == [t \in TargetsOf(c) |-> Describe(d, t)]
             before == Before(c)
  <1>0. TargetsOf(c) \subseteq Targets /\ PlanEnd \in Nat
    BY EventsFinite DEF TargetsOf, Targets, PlanEnd
  <1>1. installed \in SUBSET (TargetsOf(c) \X Keys)
    <2>e. /\ Len(RootKeys) \in Nat /\ DOMAIN RootKeys = 1 .. Len(RootKeys)
          /\ \A i \in 1 .. Len(RootKeys) : RootKeys[i] \in RootEvents
      BY EventsFinite
    <2>1. \A i \in DOMAIN Plan(c) : Plan(c)[i] \in TargetsOf(c) \X Keys
      BY <2>e DEF Plan, TargetsOf, Keys, RootEvents
    <2> QED BY <2>1 DEF InstalledBefore, Missing
  <1>2. before \in Snapshots(TargetsOf(c))
    <2>1. \A t \in TargetsOf(c) : targets[t].hasSet \in BOOLEAN /\ targets[t].listening \in BOOLEAN
      <3>1. \A t \in TargetsOf(c) : targets[t] \in TargetRecords
        BY <1>0
      <3> QED BY <3>1 DEF TargetRecords
    <2> QED BY <2>1 DEF Before, Snapshot, Snapshots
  <1>3. after \in Descriptions(TargetsOf(c))
    <2> SUFFICES ASSUME NEW t \in TargetsOf(c)
                 PROVE  Describe(d, t) \in [count : Nat, size : Nat, listening : BOOLEAN]
      BY DEF Descriptions
    <2>1. t \in Targets
      BY <1>0
    <2>2. Cardinality(d[t].keys) \in Nat /\ Cardinality(d[t].listeners) \in Nat
      BY <2>1, ListenersCounted
    <2>3. d[t] \in TargetRecords
      BY <2>1
    <2>4. d[t].listening \in BOOLEAN
      BY <2>3 DEF TargetRecords
    <2> QED BY <2>2, <2>4 DEF Describe
  <1> HIDE DEF installed, before, after
  <1>4. [container |-> c, installed |-> installed, before |-> before, after |-> after,
         active |-> TRUE] \in
          [container : {c}, installed : SUBSET (TargetsOf(c) \X Keys),
           before : Snapshots(TargetsOf(c)), after : Descriptions(TargetsOf(c)),
           active : BOOLEAN]
    BY <1>1, <1>2, <1>3
  <1>5. [container |-> c, installed |-> installed, before |-> before, after |-> after,
         active |-> TRUE] \in RegistrationRecords
    BY <1>4 DEF RegistrationRecords
  <1> QED BY <1>5 DEF installed, before, after

\* A registration keeps the invariant.
LEMMA RegisterKeeps ==
  ASSUME ListenersInv, NEW c \in ListenerContainers, Register(c)
  PROVE  ListenersInv'
  <1> DEFINE owner == NextOwner
             d == Install(owner, c, PlanEnd)
             installed == InstalledBefore(c, PlanEnd)
             new == [container |-> c, installed |-> installed, before |-> Before(c),
                     after |-> [t \in TargetsOf(c) |-> Describe(d, t)], active |-> TRUE]
  <1>i. /\ targets \in [Targets -> TargetRecords] /\ regs \in Seq(RegistrationRecords)
        /\ OneListenerEach(targets) /\ TargetsMarked(targets) /\ DocumentWhole(targets)
        /\ OwnersKnown(targets, regs) /\ InstalledThere(targets, regs)
        /\ InstalledWhole(regs) /\ AfterWhole(regs)
    BY DEF ListenersInv
  <1>o. owner = Len(regs) + 1 /\ owner \in Nat /\ Len(regs) \in Nat /\ owner # Permanent
    BY <1>i DEF NextOwner, Permanent
  <1>p. PlanEnd \in Nat /\ Document \in Targets /\ c \in Targets
    BY EventsFinite DEF PlanEnd, Targets
  <1>a. targets' = d /\ regs' = Append(regs, new)
    BY DEF Register
  <1>n. /\ new.container = c /\ new.installed = installed /\ new.before = Before(c)
        /\ new.after = [t \in TargetsOf(c) |-> Describe(d, t)] /\ new.active
    OBVIOUS
  <1>b. /\ new.before[c].listening = targets[c].listening
        /\ new.before[Document].listening = targets[Document].listening
        /\ new.after[Document].listening = d[Document].listening
        /\ new.after[Document].size = Cardinality(d[Document].keys)
    BY <1>n DEF Before, Snapshot, Describe, TargetsOf
  <1>m. /\ d \in [Targets -> TargetRecords]
        /\ \A t \in Targets :
             /\ d[t].listening <=> targets[t].listening \/ t \in Reached(c, PlanEnd)
             /\ \A k : k \in d[t].keys <=> k \in targets[t].keys \/ <<t, k>> \in installed
             /\ \A k, o : <<k, o>> \in d[t].listeners <=>
                  <<k, o>> \in targets[t].listeners \/ (o = owner /\ <<t, k>> \in installed)
    BY <1>i, <1>o, <1>p, InstallMakes, SMTT(30)
  <1>1. OneListenerEach(d) /\ TargetsMarked(d)
    BY <1>i, <1>o, <1>p, InstallKeeps
  <1>2. new \in RegistrationRecords
    BY <1>i, <1>1, <1>m, RegistrationTyped
  <1>k. \A t \in Targets : \A k :
          /\ <<t, k>> \in installed =>
               /\ k \notin targets[t].keys
               /\ (t = c /\ k \in RootEvents) \/ (t = Document /\ k = SelectionChange)
          /\ t = c /\ k \in RootEvents /\ k \notin targets[t].keys => <<t, k>> \in installed
          /\ SelectionChange \notin targets[Document].keys =>
               <<Document, SelectionChange>> \in installed
    BY <1>p, NewKeys
  <1>e. SelectionChange \notin RootEvents
    BY EventsFinite
  <1>r. Document \in Reached(c, PlanEnd)
    BY EventsFinite DEF Reached, PlanEnd, TargetsOf
  <1> HIDE DEF d, installed, new, owner
  <1>3. /\ regs' \in Seq(RegistrationRecords) /\ Len(regs') = owner
        /\ regs'[owner] = new /\ \A r \in 1 .. Len(regs) : regs'[r] = regs[r]
        /\ 1 .. Len(regs') = (1 .. Len(regs)) \cup {owner} /\ owner \notin 1 .. Len(regs)
    BY <1>a, <1>i, <1>o, <1>2
  <1>4. DocumentWhole(d)
    <2>1. CASE c = Document
      BY <2>1, <1>k, <1>m, <1>p DEF DocumentWhole
    <2>2. CASE c # Document
      <3>1. \A k \in RootEvents : k \in d[Document].keys <=> k \in targets[Document].keys
        BY <2>2, <1>k, <1>m, <1>p, <1>e
      <3> QED BY <3>1, <1>i DEF DocumentWhole
    <2> QED BY <2>1, <2>2
  <1>5. OwnersKnown(d, regs')
    BY <1>i, <1>m, <1>n, <1>3 DEF OwnersKnown
  <1>6. InstalledThere(d, regs')
    BY <1>i, <1>m, <1>n, <1>3 DEF InstalledThere
  <1>7. InstalledWhole(regs')
    <2>1. \A t \in Targets : \A k : <<t, k>> \in new.installed =>
            (t = new.container /\ k \in RootEvents) \/ (t = Document /\ k = SelectionChange)
      BY <1>k, <1>n
    <2>2. ~ new.before[new.container].listening /\ new.container # Document =>
            \A k \in RootEvents : <<new.container, k>> \in new.installed
      <3>1. ~ targets[c].listening /\ c # Document => targets[c].keys = {}
        BY <1>i, <1>p DEF TargetsMarked
      <3> QED BY <3>1, <1>b, <1>k, <1>n, <1>p
    <2>3. ~ new.before[Document].listening => <<Document, SelectionChange>> \in new.installed
      <3>1. ~ targets[Document].listening => SelectionChange \notin targets[Document].keys
        BY <1>i, <1>p DEF TargetsMarked
      <3> QED BY <3>1, <1>b, <1>k, <1>n, <1>p
    <2>4. \/ \A k \in RootEvents : <<Document, k>> \in new.installed
          \/ \A k \in RootEvents : <<Document, k>> \notin new.installed
      <3>1. CASE c = Document
        BY <3>1, <1>i, <1>k, <1>n, <1>p DEF DocumentWhole
      <3>2. CASE c # Document
        BY <3>2, <1>k, <1>n, <1>p, <1>e
      <3> QED BY <3>1, <3>2
    <2> QED BY <2>1, <2>2, <2>3, <2>4, <1>3, <1>i DEF InstalledWhole
  <1>8. AfterWhole(regs')
    <2>1. d[Document].listening
      BY <1>m, <1>p, <1>r
    <2>2. SelectionChange \in d[Document].keys
      BY <1>k, <1>m, <1>p
    <2>3. Cardinality(d[Document].keys) \in {1, Cardinality(RootEvents) + 1}
      BY <2>2, <1>4, <1>m, DocumentSize
    <2> QED BY <2>1, <2>3, <1>b, <1>3, <1>i DEF AfterWhole
  <1> QED BY <1>a, <1>m, <1>1, <1>3, <1>4, <1>5, <1>6, <1>7, <1>8 DEF ListenersInv

\* What the type of a registration says.
LEMMA RegistrationTypes ==
  ASSUME NEW g \in RegistrationRecords
  PROVE  /\ g.container \in ListenerContainers
         /\ g.installed \subseteq TargetsOf(g.container) \X Keys
         /\ \A t \in TargetsOf(g.container) :
              g.before[t].listening \in BOOLEAN /\ g.before[t].hasSet \in BOOLEAN
         /\ [g EXCEPT !.active = FALSE] \in RegistrationRecords
  <1>1. PICK c \in ListenerContainers :
          g \in [container : {c}, installed : SUBSET (TargetsOf(c) \X Keys),
                 before : Snapshots(TargetsOf(c)), after : Descriptions(TargetsOf(c)),
                 active : BOOLEAN]
    BY DEF RegistrationRecords
  <1>2. /\ g.container = c /\ g.installed \subseteq TargetsOf(c) \X Keys
        /\ g.before \in Snapshots(TargetsOf(c))
    BY <1>1
  <1>3. [g EXCEPT !.active = FALSE] \in
          [container : {c}, installed : SUBSET (TargetsOf(c) \X Keys),
           before : Snapshots(TargetsOf(c)), after : Descriptions(TargetsOf(c)),
           active : BOOLEAN]
    BY <1>1
  <1>4. [g EXCEPT !.active = FALSE] \in RegistrationRecords
    BY <1>3 DEF RegistrationRecords
  <1>5. \A t \in TargetsOf(c) :
          g.before[t].listening \in BOOLEAN /\ g.before[t].hasSet \in BOOLEAN
    BY <1>2 DEF Snapshots
  <1> QED BY <1>2, <1>4, <1>5

\* Listeners installed for good keep the invariant.
LEMMA ListenForGoodKeeps ==
  ASSUME ListenersInv, NEW c \in PortalContainers, NEW n \in Nat, ListenToAllSupportedEvents(c, n)
  PROVE  ListenersInv'
  <1>0. PICK owner \in Nat : owner = Permanent
    BY DEF Permanent
  <1> DEFINE d == Install(owner, c, n)
             installed == InstalledBefore(c, n)
  <1>i. /\ targets \in [Targets -> TargetRecords] /\ regs \in Seq(RegistrationRecords)
        /\ OneListenerEach(targets) /\ TargetsMarked(targets) /\ DocumentWhole(targets)
        /\ OwnersKnown(targets, regs) /\ InstalledThere(targets, regs)
        /\ InstalledWhole(regs) /\ AfterWhole(regs)
    BY DEF ListenersInv
  <1>p. c \in ListenerContainers /\ c # Document /\ Document \in Targets
    BY ListenerConstants DEF Targets
  <1>a. targets' = d /\ regs' = regs
    BY <1>0 DEF ListenToAllSupportedEvents
  <1>m. /\ d \in [Targets -> TargetRecords]
        /\ \A t \in Targets :
             /\ \A k : k \in d[t].keys <=> k \in targets[t].keys \/ <<t, k>> \in installed
             /\ \A k, o : <<k, o>> \in d[t].listeners <=>
                  <<k, o>> \in targets[t].listeners \/ (o = owner /\ <<t, k>> \in installed)
    <2>1. d = Install(owner, c, n)
      OBVIOUS
    <2>2. targets \in [Targets -> TargetRecords] /\ c \in ListenerContainers
      BY <1>i, <1>p
    <2> HIDE DEF d
    <2> QED BY <2>1, <2>2, InstallMakes
  <1>1. OneListenerEach(d) /\ TargetsMarked(d)
    BY <1>i, <1>p, InstallKeeps
  <1>k. \A t \in Targets : \A k : <<t, k>> \in installed =>
          (t = c /\ k \in RootEvents) \/ (t = Document /\ k = SelectionChange)
    BY <1>p, NewKeys
  <1>e. SelectionChange \notin RootEvents
    BY EventsFinite
  <1> HIDE DEF d, installed
  <1>2. DocumentWhole(d)
    <2>0. \A k \in RootEvents : <<Document, k>> \notin installed
      BY <1>k, <1>p, <1>e
    <2>1. \A k \in RootEvents : k \in d[Document].keys <=> k \in targets[Document].keys
      BY <2>0, <1>m, <1>p
    <2> QED BY <2>1, <1>i DEF DocumentWhole
  <1>3. OwnersKnown(d, regs)
    BY <1>0, <1>i, <1>m DEF OwnersKnown
  <1>4. InstalledThere(d, regs)
    BY <1>i, <1>m DEF InstalledThere
  <1> QED BY <1>a, <1>i, <1>m, <1>1, <1>2, <1>3, <1>4 DEF ListenersInv

\* A revert keeps the invariant: the listeners of the registration go with their keys, and a
\* marker goes only with the listeners that need it.
LEMMA RevertListenersKeeps ==
  ASSUME ListenersInv, NEW r \in 1 .. Len(regs), RevertRootListeners(r)
  PROVE  ListenersInv'
  <1> DEFINE g == regs[r]
             c == g.container
             installed == g.installed
             d == CleanupInstalled(targets, r, installed, g.before, c)
  <1>i. /\ targets \in [Targets -> TargetRecords] /\ regs \in Seq(RegistrationRecords)
        /\ OneListenerEach(targets) /\ TargetsMarked(targets) /\ DocumentWhole(targets)
        /\ OwnersKnown(targets, regs) /\ InstalledThere(targets, regs)
        /\ InstalledWhole(regs) /\ AfterWhole(regs)
    BY DEF ListenersInv
  <1>g. g \in RegistrationRecords /\ g.active
    BY <1>i DEF RevertRootListeners
  <1>t. /\ c \in ListenerContainers /\ installed \subseteq TargetsOf(c) \X Keys
        /\ \A t \in TargetsOf(c) :
             g.before[t].listening \in BOOLEAN /\ g.before[t].hasSet \in BOOLEAN
        /\ [g EXCEPT !.active = FALSE] \in RegistrationRecords
    BY <1>g, RegistrationTypes
  <1>p. Document \in Targets /\ c \in Targets /\ Document \in TargetsOf(c) /\ c \in TargetsOf(c)
    BY <1>t DEF Targets, TargetsOf
  <1>a. targets' = d /\ regs' = [regs EXCEPT ![r].active = FALSE]
    BY DEF RevertRootListeners
  <1>w. /\ \A t \in Targets : \A k : <<t, k>> \in installed =>
             (t = c /\ k \in RootEvents) \/ (t = Document /\ k = SelectionChange)
        /\ ~ g.before[c].listening /\ c # Document =>
             \A k \in RootEvents : <<c, k>> \in installed
        /\ ~ g.before[Document].listening => <<Document, SelectionChange>> \in installed
        /\ \/ \A k \in RootEvents : <<Document, k>> \in installed
           \/ \A k \in RootEvents : <<Document, k>> \notin installed
    BY <1>i DEF InstalledWhole
  <1>h. \A t \in Targets : \A k : <<t, k>> \in installed => <<k, r>> \in targets[t].listeners
    BY <1>i, <1>g DEF InstalledThere
  <1>s. /\ regs' \in Seq(RegistrationRecords) /\ Len(regs') = Len(regs)
        /\ \A x \in 1 .. Len(regs) : x # r => regs'[x] = regs[x]
        /\ regs'[r].installed = g.installed /\ regs'[r].container = g.container
        /\ regs'[r].before = g.before /\ regs'[r].after = g.after
        /\ ~ regs'[r].active
    <2> DEFINE h == [g EXCEPT !.active = FALSE]
    <2>1. regs' = [regs EXCEPT ![r] = h]
      BY <1>a
    <2>2. /\ h.installed = g.installed /\ h.container = g.container
          /\ h.before = g.before /\ h.after = g.after /\ ~ h.active
      <3>1. g \in RegistrationRecords
        BY <1>g
      <3> QED BY <3>1 DEF RegistrationRecords
    <2>3. h \in RegistrationRecords
      BY <1>t
    <2> HIDE DEF h, g
    <2>4. /\ regs' \in Seq(RegistrationRecords) /\ Len(regs') = Len(regs)
          /\ \A x \in 1 .. Len(regs) : x # r => regs'[x] = regs[x]
          /\ regs'[r] = h
      BY <2>1, <2>3, <1>i
    <2> QED BY <2>2, <2>4
  <1> HIDE DEF g
  <1>m. ASSUME NEW t \in Targets
        PROVE  /\ d[t] \in TargetRecords
               /\ d[t].keys # {} => (targets[t].hasSet => d[t].hasSet)
               /\ t \in TargetsOf(c) => (d[t].listening <=> g.before[t].listening)
               /\ t \notin TargetsOf(c) => d[t] = targets[t]
               /\ \A k : k \in d[t].keys <=> k \in targets[t].keys /\ <<t, k>> \notin installed
               /\ \A k, o : <<k, o>> \in d[t].listeners <=>
                    <<k, o>> \in targets[t].listeners /\ ~ (o = r /\ <<t, k>> \in installed)
    <2>t. targets[t] \in TargetRecords
      BY <1>i
    <2>l. targets[t].keys \subseteq Keys /\ targets[t].listeners \subseteq Keys \X Nat
          /\ targets[t].hasSet \in BOOLEAN
      BY <2>t DEF TargetRecords
    <2>1. CASE t \notin TargetsOf(c)
      <3>1. d[t] = targets[t]
        BY <2>1 DEF CleanupInstalled
      <3>2. \A k : <<t, k>> \notin installed
        BY <2>1, <1>t
      <3> QED BY <2>1, <3>1, <3>2, <2>t
    <2>2. CASE t \in TargetsOf(c)
      <3> DEFINE keys == targets[t].keys \ KeysOn(installed, t)
                 listeners == {l \in targets[t].listeners :
                                 ~ (l[2] = r /\ <<t, l[1]>> \in installed)}
                 hasSet == (targets[t].hasSet /\ (g.before[t].hasSet \/ keys # {}))
      <3>1. d[t] = [listening |-> g.before[t].listening, hasSet |-> hasSet,
                    keys |-> keys, listeners |-> listeners]
        BY <2>2 DEF CleanupInstalled
      <3>2. \A k : k \in KeysOn(installed, t) <=> <<t, k>> \in installed
        <4>1. \A p \in installed : p = <<p[1], p[2]>>
          BY <1>t
        <4>2. ASSUME NEW k, k \in KeysOn(installed, t) PROVE <<t, k>> \in installed
          <5>1. PICK p \in installed : p[1] = t /\ p[2] = k
            BY <4>2 DEF KeysOn
          <5> QED BY <4>1, <5>1
        <4>3. ASSUME NEW k, <<t, k>> \in installed PROVE k \in KeysOn(installed, t)
          <5>1. <<t, k>>[1] = t /\ <<t, k>>[2] = k
            OBVIOUS
          <5> QED BY <4>3, <5>1 DEF KeysOn
        <4> QED BY <4>2, <4>3
      <3>3. \A k : k \in keys <=> k \in targets[t].keys /\ <<t, k>> \notin installed
        BY <3>2
      <3>4. \A k, o : <<k, o>> \in listeners <=>
              <<k, o>> \in targets[t].listeners /\ ~ (o = r /\ <<t, k>> \in installed)
        OBVIOUS
      <3>5. keys \in SUBSET Keys /\ listeners \in SUBSET (Keys \X Nat) /\ hasSet \in BOOLEAN
        BY <2>l
      <3>6. keys # {} => (targets[t].hasSet => hasSet)
        OBVIOUS
      <3> HIDE DEF keys, listeners, hasSet
      <3>7. /\ d[t] \in TargetRecords /\ d[t].listening = g.before[t].listening
            /\ d[t].hasSet = hasSet /\ d[t].keys = keys /\ d[t].listeners = listeners
        BY <3>1, <3>5, <2>2, <1>t DEF TargetRecords
      <3> QED BY <3>3, <3>4, <3>6, <3>7, <2>2
    <2> QED BY <2>1, <2>2
  <1>d. d \in [Targets -> TargetRecords]
    <2>1. d = [t \in Targets |-> d[t]]
      BY DEF CleanupInstalled
    <2> HIDE DEF d
    <2> QED BY <2>1, <1>m
  <1> HIDE DEF d, c, installed
  <1>1. OneListenerEach(d)
    <2> SUFFICES ASSUME NEW t \in Targets
                 PROVE  /\ \A k : k \in d[t].keys <=> \E o \in Nat : <<k, o>> \in d[t].listeners
                        /\ \A k, o, x : <<k, o>> \in d[t].listeners /\ <<k, x>> \in d[t].listeners
                             => o = x
      BY DEF OneListenerEach
    <2>1. /\ \A k : k \in targets[t].keys <=> \E o \in Nat : <<k, o>> \in targets[t].listeners
          /\ \A k, o, x : <<k, o>> \in targets[t].listeners /\ <<k, x>> \in targets[t].listeners
               => o = x
      BY <1>i DEF OneListenerEach
    <2>2. ASSUME NEW k, k \in d[t].keys PROVE \E o \in Nat : <<k, o>> \in d[t].listeners
      BY <2>1, <2>2, <1>m
    <2>3. ASSUME NEW k, NEW o \in Nat, <<k, o>> \in d[t].listeners PROVE k \in d[t].keys
      BY <2>1, <2>3, <1>m, <1>h
    <2>4. \A k, o, x : <<k, o>> \in d[t].listeners /\ <<k, x>> \in d[t].listeners => o = x
      BY <2>1, <1>m
    <2> QED BY <2>2, <2>3, <2>4
  <1>2. TargetsMarked(d)
    <2> SUFFICES ASSUME NEW t \in Targets
                 PROVE  /\ d[t].keys # {} => d[t].hasSet
                        /\ t # Document => d[t].keys \subseteq RootEvents
                        /\ t # Document /\ d[t].keys # {} => d[t].listening
                        /\ SelectionChange \in d[t].keys => d[t].listening
      BY DEF TargetsMarked
    <2>1. /\ targets[t].keys # {} => targets[t].hasSet
          /\ t # Document => targets[t].keys \subseteq RootEvents
          /\ t # Document /\ targets[t].keys # {} => targets[t].listening
          /\ SelectionChange \in targets[t].keys => targets[t].listening
      BY <1>i DEF TargetsMarked
    <2>e. SelectionChange \notin RootEvents
      BY EventsFinite
    <2>2. \A k : k \in d[t].keys => k \in targets[t].keys /\ <<t, k>> \notin installed
      BY <1>m
    <2>3. d[t].keys # {} => targets[t].keys # {}
      BY <2>2
    <2>4. d[t].keys # {} => d[t].hasSet
      BY <2>1, <2>3, <1>m
    <2>5. t # Document => d[t].keys \subseteq RootEvents
      BY <2>1, <2>2
    <2>6. CASE t \notin TargetsOf(c)
      BY <2>1, <2>6, <1>m
    <2>7. CASE t \in TargetsOf(c) /\ t # Document
      <3>1. t = c
        BY <2>7 DEF TargetsOf
      <3>2. d[t].listening <=> g.before[c].listening
        BY <2>7, <3>1, <1>m
      <3>3. ~ g.before[c].listening => d[t].keys = {}
        BY <2>2, <2>5, <2>7, <3>1, <1>w
      <3> QED BY <2>4, <2>5, <3>2, <3>3
    <2>8. CASE t = Document
      <3>1. d[t].listening <=> g.before[Document].listening
        BY <2>8, <1>m, <1>p
      <3>2. ~ g.before[Document].listening => SelectionChange \notin d[t].keys
        BY <2>2, <2>8, <1>w
      <3> QED BY <2>4, <2>8, <3>1, <3>2
    <2> QED BY <2>6, <2>7, <2>8
  <1>3. DocumentWhole(d)
    <2>1. \A k : k \in d[Document].keys <=> k \in targets[Document].keys /\ <<Document, k>> \notin installed
      BY <1>m, <1>p
    <2> QED BY <2>1, <1>i, <1>w DEF DocumentWhole
  <1>4. OwnersKnown(d, regs')
    <2> SUFFICES ASSUME NEW t \in Targets, NEW k, NEW o, <<k, o>> \in d[t].listeners, o # Permanent
                 PROVE  o \in 1 .. Len(regs') /\ regs'[o].active /\ <<t, k>> \in regs'[o].installed
      BY DEF OwnersKnown
    <2>1. <<k, o>> \in targets[t].listeners /\ ~ (o = r /\ <<t, k>> \in installed)
      BY <1>m
    <2>2. o \in 1 .. Len(regs) /\ regs[o].active /\ <<t, k>> \in regs[o].installed
      BY <2>1, <1>i DEF OwnersKnown
    <2>3. o # r
      BY <2>1, <2>2 DEF installed, g
    <2> QED BY <2>2, <2>3, <1>s
  <1>5. InstalledThere(d, regs')
    <2> SUFFICES ASSUME NEW x \in 1 .. Len(regs'), regs'[x].active, NEW t \in Targets, NEW k,
                        <<t, k>> \in regs'[x].installed
                 PROVE  <<k, x>> \in d[t].listeners
      BY DEF InstalledThere
    <2>1. x \in 1 .. Len(regs) /\ x # r /\ regs'[x] = regs[x]
      BY <1>s
    <2>2. <<k, x>> \in targets[t].listeners
      BY <2>1, <1>i DEF InstalledThere
    <2> QED BY <2>1, <2>2, <1>m
  <1>6. \A x \in 1 .. Len(regs) :
          /\ regs'[x].installed = regs[x].installed /\ regs'[x].container = regs[x].container
          /\ regs'[x].before = regs[x].before /\ regs'[x].after = regs[x].after
    BY <1>s DEF g
  <1>7. InstalledWhole(regs')
    BY <1>6, <1>s, <1>i, ZenonT(40) DEF InstalledWhole
  <1>8. AfterWhole(regs')
    BY <1>6, <1>s, <1>i DEF AfterWhole
  <1> QED BY <1>a, <1>d, <1>s, <1>1, <1>2, <1>3, <1>4, <1>5, <1>7, <1>8 DEF ListenersInv

\* At first no target listens and nobody is registered.
LEMMA ListenersStart == ListenersInit => ListenersInv
  <1> SUFFICES ASSUME ListenersInit PROVE ListenersInv
    OBVIOUS
  <1>1. targets = [t \in Targets |-> NoListeners] /\ regs = <<>>
    BY DEF ListenersInit
  <1>2. NoListeners \in TargetRecords
    BY DEF NoListeners, TargetRecords
  <1>3. targets \in [Targets -> TargetRecords] /\ regs \in Seq(RegistrationRecords)
    BY <1>1, <1>2
  <1>4. /\ Len(regs) = 0
        /\ \A t \in Targets : targets[t].keys = {} /\ targets[t].listeners = {}
    BY <1>1 DEF NoListeners
  <1>5. OneListenerEach(targets) /\ TargetsMarked(targets)
    BY <1>4 DEF OneListenerEach, TargetsMarked
  <1>6. DocumentWhole(targets)
    BY <1>4 DEF DocumentWhole, Targets
  <1>7. OwnersKnown(targets, regs)
    BY <1>4 DEF OwnersKnown
  <1>8. 1 .. Len(regs) = {}
    BY <1>4
  <1>9. InstalledThere(targets, regs) /\ InstalledWhole(regs) /\ AfterWhole(regs)
    BY <1>8 DEF InstalledThere, InstalledWhole, AfterWhole
  <1> QED BY <1>3, <1>5, <1>6, <1>7, <1>9 DEF ListenersInv

\* A step that changes neither the targets nor the registrations keeps the invariant.
LEMMA ListenersStay ==
  ASSUME ListenersInv, targets' = targets, regs' = regs
  PROVE  ListenersInv'
  BY DEF ListenersInv, OneListenerEach, TargetsMarked, DocumentWhole, OwnersKnown,
         InstalledThere, InstalledWhole, AfterWhole

\* Every operation on the listeners keeps the invariant.
LEMMA ListenersStep == ListenersInv /\ [ListenersNext]_listenerVars => ListenersInv'
  <1> SUFFICES ASSUME ListenersInv, [ListenersNext]_listenerVars PROVE ListenersInv'
    OBVIOUS
  <1>n. Len(RootKeys) \in Nat
    BY EventsFinite
  <1>p. \A c : DOMAIN Plan(c) = 1 .. Len(RootKeys) + 1
    BY DEF Plan
  <1>e. PlanEnd \in Nat
    BY <1>n DEF PlanEnd
  <1>1. CASE UNCHANGED listenerVars
    BY <1>1, ListenersStay DEF listenerVars
  <1>2. ASSUME NEW c \in ListenerContainers, Register(c) PROVE ListenersInv'
    BY <1>2, RegisterKeeps
  <1>3. ASSUME NEW c \in ListenerContainers, NEW n \in DOMAIN Plan(c), RegisterFails(c, n)
        PROVE  ListenersInv'
    <2>1. n \in Nat
      BY <1>n, <1>p
    <2>2. targets' = targets
      BY <2>1, <1>3, RegisterFailsRestores
    <2>3. regs' = regs
      BY <1>3 DEF RegisterFails
    <2> QED BY <2>2, <2>3, ListenersStay
  <1>4. ASSUME NEW c \in PortalContainers, NEW n \in 1 .. PlanEnd,
               ListenToAllSupportedEvents(c, n)
        PROVE  ListenersInv'
    BY <1>4, <1>e, ListenForGoodKeeps
  <1>5. ASSUME NEW r \in 1 .. Len(regs), RevertRootListeners(r) PROVE ListenersInv'
    BY <1>5, RevertListenersKeeps
  <1>6. ASSUME NEW r \in 1 .. Len(regs), CreateCurrentnessGate(r) PROVE ListenersInv'
    BY <1>6, ListenersStay DEF CreateCurrentnessGate
  <1> QED BY <1>1, <1>2, <1>3, <1>4, <1>5, <1>6 DEF ListenersNext

\* The description a registration took of the document tells whether the document still
\* listens to selectionchange.
LEMMA DescriptionTells ==
  ASSUME ListenersInv, NEW r \in 1 .. Len(regs), TargetCurrent(r, Document)
  PROVE  SelectionChange \in targets[Document].keys /\ targets[Document].listening
  <1>i. /\ targets \in [Targets -> TargetRecords] /\ DocumentWhole(targets) /\ AfterWhole(regs)
    BY DEF ListenersInv
  <1>1. Describe(targets, Document) = regs[r].after[Document]
    BY DEF TargetCurrent
  <1> DEFINE t == Describe(targets, Document)
  <1>2. t.size = Cardinality(targets[Document].keys) /\ t.listening = targets[Document].listening
    BY DEF Describe
  <1>3. t.listening /\ t.size \in {1, Cardinality(RootEvents) + 1}
    BY <1>1, <1>i DEF AfterWhole
  <1> HIDE DEF t
  <1>4. targets[Document].listening
    BY <1>2, <1>3
  <1>5. /\ SelectionChange \notin targets[Document].keys =>
             Cardinality(targets[Document].keys) \in {0, Cardinality(RootEvents)}
    BY <1>i, DocumentSize
  <1>6. Cardinality(RootEvents) \in Nat /\ Cardinality(RootEvents) > 1
    BY EventsFinite
  <1> QED BY <1>2, <1>3, <1>4, <1>5, <1>6

\* What the invariant says of the listeners that are installed.
LEMMA ListenersInvSuffices == ListenersInv => ListenersAreCurrent
  <1> SUFFICES ASSUME ListenersInv PROVE ListenersAreCurrent
    OBVIOUS
  <1>i. /\ targets \in [Targets -> TargetRecords] /\ regs \in Seq(RegistrationRecords)
        /\ OneListenerEach(targets) /\ TargetsMarked(targets) /\ DocumentWhole(targets)
        /\ InstalledThere(targets, regs) /\ InstalledWhole(regs)
    BY DEF ListenersInv
  <1>r. \A r \in 1 .. Len(regs) : regs[r] \in RegistrationRecords
    BY <1>i
  <1>p. \A r \in 1 .. Len(regs) :
          /\ regs[r].container \in Targets
          /\ regs[r].installed \subseteq Targets \X Keys
    <2>1. \A c \in ListenerContainers : TargetsOf(c) \subseteq Targets /\ c \in Targets
      BY DEF TargetsOf, Targets
    <2> SUFFICES ASSUME NEW r \in 1 .. Len(regs)
                 PROVE  regs[r].container \in Targets /\ regs[r].installed \subseteq Targets \X Keys
      OBVIOUS
    <2>2. /\ regs[r].container \in ListenerContainers
          /\ regs[r].installed \subseteq TargetsOf(regs[r].container) \X Keys
      BY <1>r, RegistrationTypes
    <2> QED BY <2>1, <2>2
  <1>k. \A t \in Targets : \A k, o :
          <<k, o>> \in targets[t].listeners => k \in targets[t].keys /\ o \in Nat
    <2> SUFFICES ASSUME NEW t \in Targets, NEW k, NEW o, <<k, o>> \in targets[t].listeners
                 PROVE  k \in targets[t].keys /\ o \in Nat
      OBVIOUS
    <2>1. targets[t] \in TargetRecords
      BY <1>i
    <2>2. targets[t].listeners \subseteq Keys \X Nat
      BY <2>1 DEF TargetRecords
    <2>3. o \in Nat
      BY <2>2
    <2> QED BY <2>3, <1>i DEF OneListenerEach
  <1>1. InstalledStaysCurrent
    <2> SUFFICES ASSUME NEW r \in 1 .. Len(regs), regs[r].active, NEW p \in regs[r].installed
                 PROVE  /\ p[2] \in targets[p[1]].keys
                        /\ <<p[2], r>> \in targets[p[1]].listeners
                        /\ p[1] # Document \/ p[2] = SelectionChange => targets[p[1]].listening
      BY DEF InstalledStaysCurrent
    <2>1. PICK t \in Targets, k \in Keys : p = <<t, k>>
      BY <1>p
    <2>2. <<k, r>> \in targets[t].listeners
      BY <2>1, <1>i DEF InstalledThere
    <2>3. k \in targets[t].keys
      BY <2>2, <1>k
    <2>4. t # Document \/ k = SelectionChange => targets[t].listening
      BY <2>3, <1>i DEF TargetsMarked
    <2> QED BY <2>1, <2>2, <2>3, <2>4
  <1>2. KeysAreListeners
    BY <1>i, ListenersCounted DEF KeysAreListeners, TargetsMarked
  <1>3. GateNeverStale
    <2> SUFFICES ASSUME NEW r \in 1 .. Len(regs), NEW key \in Keys, GateAccepts(r, key)
                 PROVE  /\ <<key, r>> \in targets[regs[r].container].listeners
                        /\ SelectionChange \in targets[Document].keys
                        /\ targets[Document].listening
      BY DEF GateNeverStale
    <2>1. regs[r].active /\ StateCurrent(r) /\ <<regs[r].container, key>> \in regs[r].installed
      BY DEF GateAccepts
    <2>2. <<key, r>> \in targets[regs[r].container].listeners
      BY <2>1, <1>i, <1>p DEF InstalledThere
    <2>3. TargetCurrent(r, Document)
      BY <2>1 DEF StateCurrent, TargetsOf
    <2> QED BY <2>2, <2>3, DescriptionTells
  <1> QED BY <1>1, <1>2, <1>3 DEF ListenersAreCurrent

\* In every behaviour of root-listeners.js the listener sets name exactly the listeners there
\* are, an active registration keeps what it installed, and the currentness gate lets no event
\* through when a later revert took its listeners away: for every set of containers and keys.
THEOREM ListenersCurrent == ListenersSpec => []ListenersAreCurrent
  <1>1. ListenersInit => ListenersInv
    BY ListenersStart
  <1>2. ListenersInv /\ [ListenersNext]_listenerVars => ListenersInv'
    BY ListenersStep
  <1>3. ListenersInv => ListenersAreCurrent
    BY ListenersInvSuffices
  <1> QED BY <1>1, <1>2, <1>3, PTL DEF ListenersSpec

\* A registration that fails in any step of its plan leaves every target as it found it.
THEOREM FailedRegistration == ListenersSpec => FailedRegistrationRestores
  <1> DEFINE Restores ==
        targets' # targets /\ regs' = regs =>
          \A c \in ListenerContainers, n \in 1 .. PlanEnd : ~ RegisterFails(c, n)
  <1>1. ListenersInit => ListenersInv
    BY ListenersStart
  <1>2. ListenersInv /\ [ListenersNext]_listenerVars => ListenersInv'
    BY ListenersStep
  <1>3. ListenersInv => [Restores]_listenerVars
    <2>1. PlanEnd \in Nat
      BY EventsFinite DEF PlanEnd
    <2>2. \A n \in 1 .. PlanEnd : n \in Nat
      BY <2>1
    <2> QED BY <2>2, RegisterFailsRestores
  <1>4. ListenersSpec => [][Restores]_listenerVars
    BY <1>1, <1>2, <1>3, PTL DEF ListenersSpec
  <1> QED BY <1>4 DEF FailedRegistrationRestores

-----------------------------------------------------------------------------
(***************************************************************************)
(* The update of host output                                               *)
(***************************************************************************)

RowSets == [1 .. Rows -> HostValues]
UpdateRecords ==
  [element : Nat, previous : [HostSet -> Nat], stage : {"rows", "text"}, host : Nat, row : Nat,
   saved : Seq(RowSets), texted : BOOLEAN, before : Contents]

IndexOf(h) == CHOOSE k \in DOMAIN Hosts : Hosts[k] = h

\* The version of the props an update started from, and the one published last.
Start(u) == u.previous[Hosts[1]]
Version == latest[Hosts[1]]

\* The rows an update has written so far.
Written(u, h, r) ==
  /\ r \in Payload(u, h)
  /\ IndexOf(h) < u.host \/ (IndexOf(h) = u.host /\ r <= u.row)

\* What the DOM shows of an update when nothing else has written to it.
Progress(u) ==
  [props |-> [h \in HostSet |->
     [r \in 1 .. Rows |-> IF Written(u, h, r) THEN Target(u).props[h][r]
                          ELSE u.before.props[h][r]]],
   text |-> IF u.texted THEN Target(u).text ELSE u.before.text]

\* An update is newer than the element it started from, it writes the text last, and only a
\* text that changes; it has saved the rows of the host components it got to.
UpdateOk(u) ==
  /\ u.element \in 1 .. Len(rendered) /\ Start(u) \in 1 .. Len(rendered)
  /\ Start(u) < u.element
  /\ u.previous = [h \in HostSet |-> Start(u)]
  /\ u.host \in 1 .. Len(Hosts) /\ Len(u.saved) = u.host
  /\ u.texted => u.stage = "text" /\ ChangesText(u)
  /\ u.stage = "text" => u.host = Len(Hosts) /\ RowsLeft(u) = {}

\* The rows an update saved are the ones it found.
SavedOk(u) == \A k \in 1 .. u.host : u.saved[k] = u.before.props[Hosts[k]]

OutputTyped ==
  /\ dom \in Contents /\ rendered \in Seq(Contents)
  /\ Version \in Nat /\ Version <= Len(rendered)
  /\ latest = [h \in HostSet |-> Version]
  /\ updates \in Seq(UpdateRecords)

\* Updates start in the order of their elements and from versions that only grow.
UpdatesOrdered ==
  /\ \A i, j \in 1 .. Len(updates) : i < j =>
       updates[i].element < updates[j].element /\ Start(updates[i]) <= Start(updates[j])
  /\ Version # 0 => \A i \in 1 .. Len(updates) : Start(updates[i]) <= Version

\* While nothing was published since an update started, the update above it found what it had
\* written so far, and the DOM shows what the innermost one has written.
UpdatesNest ==
  \A i \in 1 .. Len(updates) : Start(updates[i]) = Version =>
    /\ SavedOk(updates[i])
    /\ i < Len(updates) => updates[i + 1].before = Progress(updates[i])
    /\ i = Len(updates) => dom = Progress(updates[i])

OutputInv ==
  /\ OutputTyped
  /\ \A i \in 1 .. Len(updates) : UpdateOk(updates[i])
  /\ UpdatesOrdered
  /\ UpdatesNest

\* The host components are told apart by their place.
LEMMA HostsOk ==
  /\ Len(Hosts) \in Nat \ {0} /\ DOMAIN Hosts = 1 .. Len(Hosts)
  /\ \A k \in 1 .. Len(Hosts) : Hosts[k] \in HostSet /\ IndexOf(Hosts[k]) = k
  /\ \A h \in HostSet : IndexOf(h) \in 1 .. Len(Hosts) /\ Hosts[IndexOf(h)] = h
  <1>1. /\ Len(Hosts) \in {1, 2} /\ DOMAIN Hosts = 1 .. Len(Hosts)
        /\ \A i, j \in 1 .. Len(Hosts) : Hosts[i] = Hosts[j] => i = j
    <2>1. CASE Nested
      <3>1. Hosts = <<"parent", "child">>
        BY <2>1 DEF Hosts
      <3>2. Len(Hosts) = 2 /\ DOMAIN Hosts = 1 .. 2 /\ Hosts[1] = "parent" /\ Hosts[2] = "child"
        BY <3>1
      <3>3. \A i \in 1 .. 2 : i = 1 \/ i = 2
        OBVIOUS
      <3> QED BY <3>2, <3>3
    <2>2. CASE ~ Nested
      <3>1. Hosts = <<"parent">>
        BY <2>2 DEF Hosts
      <3>2. Len(Hosts) = 1 /\ DOMAIN Hosts = 1 .. 1
        BY <3>1
      <3> QED BY <3>2
    <2> QED BY <2>1, <2>2
  <1>2. HostSet = {Hosts[k] : k \in 1 .. Len(Hosts)}
    BY <1>1 DEF HostSet, ToSet
  <1> QED BY <1>1, <1>2 DEF IndexOf

\* What an update reads of the rendered elements does not change when more are rendered.
LEMMA RenderedStays ==
  ASSUME NEW u, rendered \in Seq(Contents), rendered' \in Seq(Contents),
         Len(rendered) <= Len(rendered'),
         \A i \in 1 .. Len(rendered) : rendered'[i] = rendered[i],
         u.element \in 1 .. Len(rendered), Start(u) \in 1 .. Len(rendered)
  PROVE  /\ Previous(u)' = Previous(u) /\ Target(u)' = Target(u)
         /\ (ChangesText(u))' <=> ChangesText(u)
         /\ \A h : Payload(u, h)' = Payload(u, h)
         /\ RowsLeft(u)' = RowsLeft(u)
         /\ Progress(u)' = Progress(u)
         /\ UpdateOk(u) => (UpdateOk(u))'
  <1>1. Previous(u)' = Previous(u) /\ Target(u)' = Target(u)
    BY DEF Previous, Target, Start
  <1>2. (ChangesText(u))' <=> ChangesText(u)
    BY <1>1 DEF ChangesText
  <1>3. \A h : Payload(u, h)' = Payload(u, h)
    BY <1>1 DEF Payload
  <1>4. RowsLeft(u)' = RowsLeft(u)
    BY <1>3 DEF RowsLeft
  <1>5. \A h, r : (Written(u, h, r))' <=> Written(u, h, r)
    BY <1>3 DEF Written, IndexOf
  <1>6. Progress(u)' = Progress(u)
    BY <1>1, <1>5 DEF Progress
  <1>7. UpdateOk(u) => (UpdateOk(u))'
    <2> SUFFICES ASSUME UpdateOk(u) PROVE (UpdateOk(u))'
      OBVIOUS
    <2>1. u.element \in 1 .. Len(rendered') /\ Start(u) \in 1 .. Len(rendered')
      BY LenProperties
    <2> QED BY <2>1, <1>2, <1>4 DEF UpdateOk, Start
  <1> QED BY <1>1, <1>2, <1>3, <1>4, <1>6, <1>7

\* The innermost update and the ones below it.
LEMMA TopIs ==
  ASSUME updates \in Seq(UpdateRecords), updates # <<>>
  PROVE  /\ Len(updates) \in Nat \ {0} /\ Top = updates[Len(updates)] /\ Top \in UpdateRecords
         /\ Front(updates) \in Seq(UpdateRecords) /\ Len(Front(updates)) = Len(updates) - 1
         /\ \A i \in 1 .. Len(updates) - 1 : Front(updates)[i] = updates[i]
  <1>1. Len(updates) \in Nat /\ Len(updates) # 0
    BY EmptySeq
  <1>2. PICK m \in Int, n \in Int : m = 1 /\ n = Len(updates) - 1
    BY <1>1
  <1>3. Front(updates) = SubSeq(updates, m, n)
    BY <1>2 DEF Front
  <1>4. Top = updates[Len(updates)] /\ Len(updates) \in 1 .. Len(updates)
    BY <1>1 DEF Top, Last
  <1>5. Top \in UpdateRecords
    BY <1>4
  <1>6. \A i \in m .. n : updates[i] \in UpdateRecords
    BY <1>1, <1>2
  <1>7. /\ SubSeq(updates, m, n) \in Seq(UpdateRecords)
        /\ Len(SubSeq(updates, m, n)) = IF m <= n THEN n - m + 1 ELSE 0
        /\ \A i \in 1 .. n - m + 1 : SubSeq(updates, m, n)[i] = updates[m + i - 1]
    BY <1>6, SubSeqProperties
  <1>8. Len(Front(updates)) = Len(updates) - 1
    BY <1>1, <1>2, <1>3, <1>7
  <1>9. ASSUME NEW i \in 1 .. Len(updates) - 1 PROVE Front(updates)[i] = updates[i]
    <2>1. i \in 1 .. n - m + 1 /\ m + i - 1 = i
      BY <1>1, <1>2
    <2>2. SubSeq(updates, m, n)[i] = updates[m + i - 1]
      BY <2>1, <1>7
    <2> QED BY <2>1, <2>2, <1>3
  <1> QED BY <1>1, <1>3, <1>4, <1>5, <1>7, <1>8, <1>9

\* When the innermost update returns and leaves the DOM as it found it, or makes every update
\* below it stale, the invariant is kept.
LEMMA PopKeeps ==
  ASSUME OutputInv, updates # <<>>, updates' = Front(updates), rendered' = rendered,
         dom' \in Contents, NEW v \in Nat, v <= Len(rendered), latest' = [h \in HostSet |-> v],
         \/ latest' = latest /\ (Start(Top) = Version => dom' = Top.before)
         \/ v = Top.element
  PROVE  OutputInv'
  <1>h. Len(Hosts) \in Nat \ {0} /\ Hosts[1] \in HostSet
    BY HostsOk
  <1>i. /\ dom \in Contents /\ rendered \in Seq(Contents) /\ updates \in Seq(UpdateRecords)
        /\ Version \in Nat
    BY DEF OutputInv, OutputTyped
  <1>u. \A i \in 1 .. Len(updates) : UpdateOk(updates[i])
    BY DEF OutputInv
  <1>t. /\ Len(updates) \in Nat \ {0} /\ Top = updates[Len(updates)]
        /\ Front(updates) \in Seq(UpdateRecords) /\ Len(Front(updates)) = Len(updates) - 1
        /\ \A i \in 1 .. Len(updates) - 1 : Front(updates)[i] = updates[i]
    BY <1>i, TopIs
  <1>v. Version' = v
    BY <1>h DEF Version
  <1>f. /\ updates' \in Seq(UpdateRecords) /\ Len(updates') = Len(updates) - 1
        /\ \A i \in 1 .. Len(updates') : i \in 1 .. Len(updates) /\ updates'[i] = updates[i]
    BY <1>t
  <1>s. ASSUME NEW i \in 1 .. Len(updates'), NEW u, u = updates[i]
        PROVE  updates'[i] = u /\ (UpdateOk(u))' /\ Progress(u)' = Progress(u)
    <2>1. UpdateOk(u)
      BY <1>s, <1>u, <1>f
    <2>2. u.element \in 1 .. Len(rendered) /\ Start(u) \in 1 .. Len(rendered)
      BY <2>1 DEF UpdateOk
    <2>3. (UpdateOk(u))' /\ Progress(u)' = Progress(u)
      BY <2>1, <2>2, <1>i, RenderedStays
    <2> QED BY <2>3, <1>s, <1>f
  <1>1. OutputTyped'
    BY <1>f, <1>i, <1>v DEF OutputTyped
  <1>2. (\A i \in 1 .. Len(updates) : UpdateOk(updates[i]))'
    BY <1>s
  <1>o. /\ \A i, j \in 1 .. Len(updates) : i < j =>
             updates[i].element < updates[j].element /\ Start(updates[i]) <= Start(updates[j])
        /\ Version # 0 => \A i \in 1 .. Len(updates) : Start(updates[i]) <= Version
    BY DEF OutputInv, UpdatesOrdered
  <1>w. \A u : Start(u)' = Start(u)
    BY DEF Start
  <1>e. v = Top.element => \A i \in 1 .. Len(updates') : Start(updates[i]) < v
    <2> SUFFICES ASSUME v = Top.element, NEW i \in 1 .. Len(updates')
                 PROVE  Start(updates[i]) < v
      OBVIOUS
    <2>1. Start(updates[i]) < updates[i].element
      BY <1>u, <1>f DEF UpdateOk
    <2>2. updates[i].element < Top.element
      BY <1>o, <1>f, <1>t
    <2>3. Start(updates[i]) \in Nat /\ updates[i].element \in Nat
      BY <1>u, <1>f, <1>i DEF UpdateOk
    <2> QED BY <2>1, <2>2, <2>3
  <1>n. \A i \in 1 .. Len(updates') : Start(updates[i]) \in Nat
    <2>1. \A i \in 1 .. Len(updates) : Start(updates[i]) \in 1 .. Len(rendered)
      BY <1>u DEF UpdateOk
    <2> QED BY <2>1, <1>f, <1>i
  <1>c. latest' = latest => v = Version
    BY <1>v DEF Version
  <1>3. UpdatesOrdered'
    <2>1. \A i, j \in 1 .. Len(updates') : i < j =>
            /\ updates'[i].element < updates'[j].element
            /\ Start(updates'[i]) <= Start(updates'[j])
      BY <1>o, <1>f
    <2>2. v # 0 => \A i \in 1 .. Len(updates') : Start(updates'[i]) <= v
      BY <1>o, <1>f, <1>e, <1>c, <1>n
    <2> QED BY <2>1, <2>2, <1>v DEF UpdatesOrdered, Start
  <1>4. UpdatesNest'
    <2> SUFFICES ASSUME NEW i \in 1 .. Len(updates'), NEW u, u = updates[i], Start(u) = v
                 PROVE  /\ SavedOk(u)
                        /\ i < Len(updates') => updates'[i + 1].before = Progress(u)
                        /\ i = Len(updates') => dom' = Progress(u)
      BY <1>s, <1>v DEF UpdatesNest, SavedOk, Start
    <2>1. v # Top.element
      BY <1>e, <1>n, <1>f
    <2>2. latest' = latest /\ v = Version /\ (Start(Top) = Version => dom' = Top.before)
      BY <2>1, <1>c
    <2>3. /\ SavedOk(u) /\ (i < Len(updates) => updates[i + 1].before = Progress(u))
      BY <2>2, <1>f DEF OutputInv, UpdatesNest
    <2>4. i < Len(updates') => updates'[i + 1].before = Progress(u)
      <3>1. i < Len(updates') => i + 1 \in 1 .. Len(updates')
        BY <1>f, <1>t
      <3> QED BY <3>1, <2>3, <1>f, <1>t
    <2>5. i = Len(updates') => dom' = Progress(u)
      <3> SUFFICES ASSUME i = Len(updates') PROVE dom' = Progress(u)
        OBVIOUS
      <3>1. i + 1 = Len(updates) /\ i < Len(updates) /\ i \in 1 .. Len(updates)
        BY <1>f, <1>t
      <3>2. Top.before = Progress(u)
        BY <3>1, <2>3, <1>t
      <3>3. Start(Top) = Version
        <4>1. Len(updates) \in 1 .. Len(updates)
          BY <1>t
        <4>2. Start(u) <= Start(Top)
          BY <4>1, <3>1, <1>o, <1>t
        <4>3. Start(Top) \in Nat /\ Start(u) \in 1 .. Len(rendered)
          BY <4>1, <3>1, <1>u, <1>t, <1>i DEF UpdateOk
        <4>4. Start(Top) <= Version
          BY <4>1, <4>3, <2>2, <1>o, <1>t
        <4> QED BY <4>2, <4>3, <4>4, <2>2, <1>i
      <3> QED BY <3>2, <3>3, <2>2
    <2> QED BY <2>3, <2>4, <2>5
  <1> QED BY <1>1, <1>2, <1>3, <1>4 DEF OutputInv

\* A step of the innermost update keeps the invariant when the DOM shows its progress.
LEMMA ContinueKeeps ==
  ASSUME OutputInv, updates # <<>>, NEW u \in UpdateRecords, Continue(u),
         rendered' = rendered, latest' = latest, dom' \in Contents, UpdateOk(u),
         u.element = Top.element, u.previous = Top.previous, u.before = Top.before,
         Start(u) = Version => SavedOk(u) /\ dom' = Progress(u)
  PROVE  OutputInv'
  <1>i. /\ dom \in Contents /\ rendered \in Seq(Contents) /\ updates \in Seq(UpdateRecords)
        /\ Version \in Nat
    BY DEF OutputInv, OutputTyped
  <1>u. \A i \in 1 .. Len(updates) : UpdateOk(updates[i])
    BY DEF OutputInv
  <1>t. /\ Len(updates) \in Nat \ {0} /\ Top = updates[Len(updates)]
        /\ Front(updates) \in Seq(UpdateRecords) /\ Len(Front(updates)) = Len(updates) - 1
        /\ \A i \in 1 .. Len(updates) - 1 : Front(updates)[i] = updates[i]
    BY <1>i, TopIs
  <1>v. Version' = Version
    BY DEF Version
  <1>f. /\ updates' \in Seq(UpdateRecords) /\ Len(updates') = Len(updates)
        /\ updates'[Len(updates)] = u
        /\ \A i \in 1 .. Len(updates) : i # Len(updates) => updates'[i] = updates[i]
    BY <1>t DEF Continue
  <1>k. \A i \in 1 .. Len(updates) :
          /\ updates'[i].element = updates[i].element
          /\ Start(updates'[i]) = Start(updates[i])
          /\ updates'[i].before = updates[i].before
    BY <1>f, <1>t DEF Start
  <1>s. ASSUME NEW w, UpdateOk(w)
        PROVE  (UpdateOk(w))' /\ Progress(w)' = Progress(w)
    <2>1. w.element \in 1 .. Len(rendered) /\ Start(w) \in 1 .. Len(rendered)
      BY <1>s DEF UpdateOk
    <2> QED BY <2>1, <1>s, <1>i, RenderedStays
  <1>1. OutputTyped'
    BY <1>f, <1>i, <1>v DEF OutputTyped, OutputInv
  <1>2. (\A i \in 1 .. Len(updates) : UpdateOk(updates[i]))'
    <2> SUFFICES ASSUME NEW i \in 1 .. Len(updates') PROVE (UpdateOk(updates[i]))'
      OBVIOUS
    <2>1. PICK w : w = updates'[i]
      OBVIOUS
    <2>2. UpdateOk(w)
      BY <2>1, <1>f, <1>u
    <2>3. (UpdateOk(w))'
      BY <2>2, <1>s
    <2> QED BY <2>1, <2>3
  <1>3. UpdatesOrdered'
    <2>1. /\ \A i, j \in 1 .. Len(updates) : i < j =>
               updates[i].element < updates[j].element /\ Start(updates[i]) <= Start(updates[j])
          /\ Version # 0 => \A i \in 1 .. Len(updates) : Start(updates[i]) <= Version
      BY DEF OutputInv, UpdatesOrdered
    <2>2. /\ \A i, j \in 1 .. Len(updates') : i < j =>
               updates'[i].element < updates'[j].element /\ Start(updates'[i]) <= Start(updates'[j])
          /\ Version # 0 => \A i \in 1 .. Len(updates') : Start(updates'[i]) <= Version
      BY <2>1, <1>k, <1>f
    <2> QED BY <2>2, <1>v DEF UpdatesOrdered, Start
  <1>4. UpdatesNest'
    <2> SUFFICES ASSUME NEW i \in 1 .. Len(updates'), NEW w, w = updates'[i], Start(w) = Version
                 PROVE  /\ SavedOk(w)
                        /\ i < Len(updates') => updates'[i + 1].before = Progress(w)
                        /\ i = Len(updates') => dom' = Progress(w)
      <3>1. ASSUME NEW i \in 1 .. Len(updates'), NEW w, w = updates'[i]
            PROVE  Progress(w)' = Progress(w)
        <4>1. UpdateOk(w)
          BY <3>1, <1>f, <1>u
        <4> QED BY <4>1, <1>s
      <3> QED BY <3>1, <1>v DEF UpdatesNest, SavedOk, Start
    <2>1. CASE i = Len(updates)
      BY <2>1, <1>f
    <2>2. CASE i # Len(updates)
      <3>1. w = updates[i] /\ i \in 1 .. Len(updates) /\ i < Len(updates) /\ i + 1 \in 1 .. Len(updates)
        BY <2>2, <1>f, <1>t
      <3>2. SavedOk(w) /\ updates[i + 1].before = Progress(w)
        BY <3>1 DEF OutputInv, UpdatesNest
      <3> QED BY <2>2, <3>1, <3>2, <1>f, <1>k
    <2> QED BY <2>1, <2>2
  <1> QED BY <1>1, <1>2, <1>3, <1>4 DEF OutputInv

\* Contents are equal when their rows and their text are.
LEMMA ContentsEqual ==
  ASSUME NEW x \in Contents, NEW y \in Contents, x.text = y.text,
         \A h \in HostSet, r \in 1 .. Rows : x.props[h][r] = y.props[h][r]
  PROVE  x = y
  <1>1. /\ x = [props |-> x.props, text |-> x.text] /\ x.props \in [HostSet -> RowSets]
        /\ y = [props |-> y.props, text |-> y.text] /\ y.props \in [HostSet -> RowSets]
    BY DEF Contents, RowSets
  <1>2. \A h \in HostSet : x.props[h] = y.props[h]
    <2> SUFFICES ASSUME NEW h \in HostSet PROVE x.props[h] = y.props[h]
      OBVIOUS
    <2>1. x.props[h] \in RowSets /\ y.props[h] \in RowSets
      BY <1>1
    <2>2. /\ x.props[h] = [r \in 1 .. Rows |-> x.props[h][r]]
          /\ y.props[h] = [r \in 1 .. Rows |-> y.props[h][r]]
      BY <2>1 DEF RowSets
    <2>3. [r \in 1 .. Rows |-> x.props[h][r]] = [r \in 1 .. Rows |-> y.props[h][r]]
      OBVIOUS
    <2> QED BY <2>2, <2>3, Zenon
  <1>3. x.props = y.props
    BY <1>1, <1>2
  <1> QED BY <1>1, <1>3

\* What the invariant says of the innermost update.
LEMMA TopOk ==
  ASSUME OutputInv, updates # <<>>
  PROVE  /\ Top \in UpdateRecords /\ UpdateOk(Top) /\ dom \in Contents
         /\ Top.before \in Contents /\ Previous(Top) \in Contents /\ Target(Top) \in Contents
         /\ Start(Top) = Version => SavedOk(Top) /\ dom = Progress(Top)
  <1>1. updates \in Seq(UpdateRecords) /\ dom \in Contents /\ rendered \in Seq(Contents)
    BY DEF OutputInv, OutputTyped
  <1>2. Top = updates[Len(updates)] /\ Len(updates) \in 1 .. Len(updates) /\ Top \in UpdateRecords
    BY <1>1, TopIs
  <1>3. UpdateOk(Top)
    BY <1>2 DEF OutputInv
  <1>4. Start(Top) = Version => SavedOk(Top) /\ dom = Progress(Top)
    BY <1>2 DEF OutputInv, UpdatesNest
  <1>5. Top.before \in Contents
    BY <1>2 DEF UpdateRecords
  <1>6. Previous(Top) \in Contents /\ Target(Top) \in Contents
    BY <1>1, <1>3 DEF Previous, Target, UpdateOk, Start
  <1> QED BY <1>1, <1>2, <1>3, <1>4, <1>5, <1>6

\* The rollback of an update makes content, and it makes the content the update found when
\* nothing was published meanwhile.
LEMMA RollbackRestores ==
  ASSUME OutputInv, updates # <<>>, NEW failed \in Nat, NEW d, d = RolledBack(Top, failed)
  PROVE  /\ d \in Contents
         /\ Start(Top) = Version /\ ~ Top.texted
              /\ (\A r \in Payload(Top, Hosts[Top.host]) : r > failed => r > Top.row)
            => d = Top.before
  <1> DEFINE u == Top
             props == [h \in HostSet |->
                         IF IndexOf(h) <= u.host THEN RolledBackProps(u, IndexOf(h), failed)
                         ELSE dom.props[h]]
             text == IF u.texted THEN Previous(u).text ELSE dom.text
  <1>t. /\ u \in UpdateRecords /\ UpdateOk(u) /\ dom \in Contents
        /\ u.before \in Contents /\ Previous(u) \in Contents
        /\ Start(u) = Version => SavedOk(u) /\ dom = Progress(u)
    BY TopOk
  <1>h. /\ \A h \in HostSet : IndexOf(h) \in 1 .. Len(Hosts) /\ Hosts[IndexOf(h)] = h
        /\ Len(Hosts) \in Nat \ {0} /\ u.host \in 1 .. Len(Hosts)
        /\ \A k \in 1 .. Len(Hosts) : Hosts[k] \in HostSet /\ IndexOf(Hosts[k]) = k
    BY <1>t, HostsOk DEF UpdateOk
  <1>s. /\ u.saved \in Seq(RowSets) /\ Len(u.saved) = u.host /\ u.row \in Nat
        /\ u.texted \in BOOLEAN
    BY <1>t DEF UpdateRecords, UpdateOk
  <1>c. /\ \A h \in HostSet : dom.props[h] \in RowSets
        /\ dom.text \in HostValues /\ Previous(u).text \in HostValues
    BY <1>t DEF Contents, RowSets
  <1>d. d = [text |-> text, props |-> props]
    BY DEF RolledBack, IndexOf
  <1> HIDE DEF u
  <1> DEFINE Tried(h, r) ==
               /\ r \in Payload(u, h)
               /\ IndexOf(h) < u.host \/ (IndexOf(h) = u.host /\ r <= failed)
  <1> HIDE DEF Tried
  <1>p. \A h \in HostSet, r \in 1 .. Rows :
          props[h][r] = IF Tried(h, r) THEN u.saved[IndexOf(h)][r] ELSE dom.props[h][r]
    <2> SUFFICES ASSUME NEW h \in HostSet, NEW r \in 1 .. Rows
                 PROVE  props[h][r] = IF Tried(h, r) THEN u.saved[IndexOf(h)][r]
                                      ELSE dom.props[h][r]
      BY DEF Tried
    <2>1. CASE IndexOf(h) <= u.host
      <3>1. props[h] = RolledBackProps(u, IndexOf(h), failed)
        BY <2>1
      <3>2. r \in RowsAttempted(u, IndexOf(h), failed) <=>
              r \in Payload(u, h) /\ (IndexOf(h) < u.host \/ r <= failed)
        BY <1>h DEF RowsAttempted
      <3>3. props[h][r] = IF r \in RowsAttempted(u, IndexOf(h), failed) THEN u.saved[IndexOf(h)][r]
                          ELSE dom.props[h][r]
        BY <3>1, <1>h DEF RolledBackProps
      <3>4. r \in RowsAttempted(u, IndexOf(h), failed) <=> Tried(h, r)
        BY <3>2, <2>1, <1>h DEF Tried
      <3> QED BY <3>3, <3>4
    <2>2. CASE ~ (IndexOf(h) <= u.host)
      BY <2>2, <1>h DEF Tried
    <2> QED BY <2>1, <2>2
  <1>f. \A h \in HostSet : props[h] = [r \in 1 .. Rows |-> props[h][r]]
    <2> SUFFICES ASSUME NEW h \in HostSet PROVE props[h] = [r \in 1 .. Rows |-> props[h][r]]
      OBVIOUS
    <2>1. CASE IndexOf(h) <= u.host
      <3>1. props[h] = RolledBackProps(u, IndexOf(h), failed)
        BY <2>1
      <3> QED BY <3>1 DEF RolledBackProps
    <2>2. CASE ~ (IndexOf(h) <= u.host)
      <3>1. props[h] = dom.props[h]
        BY <2>2
      <3> QED BY <3>1, <1>c DEF RowSets
    <2> QED BY <2>1, <2>2
  <1>g. DOMAIN props = HostSet /\ props = [h \in HostSet |-> props[h]]
    OBVIOUS
  <1> HIDE DEF props, text
  <1>1. d \in Contents
    <2>1. \A h \in HostSet, r \in 1 .. Rows : props[h][r] \in HostValues
      <3> SUFFICES ASSUME NEW h \in HostSet, NEW r \in 1 .. Rows PROVE props[h][r] \in HostValues
        OBVIOUS
      <3>1. dom.props[h][r] \in HostValues
        BY <1>c DEF RowSets
      <3>2. IndexOf(h) <= u.host => u.saved[IndexOf(h)][r] \in HostValues
        <4>1. IndexOf(h) <= u.host => u.saved[IndexOf(h)] \in RowSets
          BY <1>h, <1>s
        <4> QED BY <4>1 DEF RowSets
      <3> QED BY <3>1, <3>2, <1>p, <1>h DEF Tried
    <2>2. \A h \in HostSet : props[h] \in RowSets
      BY <2>1, <1>f DEF RowSets
    <2>3. props \in [HostSet -> RowSets]
      BY <2>2, <1>g
    <2>4. text \in HostValues
      BY <1>c DEF text
    <2> QED BY <2>3, <2>4, <1>d DEF Contents, RowSets
  <1>2. ASSUME Start(u) = Version, ~ u.texted,
               \A r \in Payload(u, Hosts[u.host]) : r > failed => r > u.row
        PROVE  d = u.before
    <2>1. SavedOk(u) /\ dom = Progress(u)
      BY <1>2, <1>t
    <2>2. text = u.before.text
      BY <2>1, <1>2 DEF text, Progress
    <2>3. \A h \in HostSet, r \in 1 .. Rows : props[h][r] = u.before.props[h][r]
      <3> SUFFICES ASSUME NEW h \in HostSet, NEW r \in 1 .. Rows
                   PROVE  props[h][r] = u.before.props[h][r]
        OBVIOUS
      <3>1. IndexOf(h) <= u.host => u.saved[IndexOf(h)] = u.before.props[h]
        BY <2>1, <1>h DEF SavedOk
      <3>2. dom.props[h][r] = IF Written(u, h, r) THEN Target(u).props[h][r]
                              ELSE u.before.props[h][r]
        BY <2>1 DEF Progress
      <3>3. CASE Tried(h, r)
        BY <3>1, <3>3, <1>p, <1>h DEF Tried
      <3>4. CASE ~ Tried(h, r)
        <4>1. ~ Written(u, h, r)
          <5> SUFFICES ASSUME Written(u, h, r) PROVE FALSE
            OBVIOUS
          <5>1. r \in Payload(u, h) /\ IndexOf(h) = u.host /\ r <= u.row /\ ~ (r <= failed)
            BY <3>4, <1>h DEF Written, Tried
          <5>2. h = Hosts[u.host]
            BY <5>1, <1>h
          <5>3. r > u.row
            BY <5>1, <5>2, <1>2
          <5> QED BY <5>1, <5>3, <1>s
        <4> QED BY <4>1, <3>2, <3>4, <1>p
      <3> QED BY <3>3, <3>4
    <2>4. d.text = text /\ d.props = props
      BY <1>d
    <2>5. \A h \in HostSet, r \in 1 .. Rows : d.props[h][r] = u.before.props[h][r]
      BY <2>3, <2>4
    <2>6. d.text = u.before.text
      BY <2>2, <2>4
    <2> QED BY <2>5, <2>6, <1>1, <1>t, ContentsEqual
  <1> QED BY <1>1, <1>2 DEF u

\* The row written next is the least of those that are left.
LEMMA NextRowIs ==
  ASSUME OutputInv, updates # <<>>, RowsLeft(Top) # {}
  PROVE  /\ NextRow(Top) \in 1 .. Rows /\ NextRow(Top) \in Payload(Top, Hosts[Top.host])
         /\ NextRow(Top) > Top.row
         /\ \A r \in Payload(Top, Hosts[Top.host]) : r > Top.row => NextRow(Top) <= r
  <1>1. RowsLeft(Top) \subseteq Nat
    BY HostOutputConstants DEF RowsLeft, Payload
  <1>2. \E i \in RowsLeft(Top) : \A other \in RowsLeft(Top) : i <= other
    BY <1>1, LeastExists
  <1>3. NextRow(Top) \in RowsLeft(Top) /\ \A other \in RowsLeft(Top) : NextRow(Top) <= other
    BY <1>2 DEF NextRow
  <1> QED BY <1>3 DEF RowsLeft, Payload

\* An update that has written nothing shows what it found, whatever is rendered.
LEMMA NothingWritten ==
  ASSUME NEW u \in UpdateRecords, u.host = 1, u.row = 0, ~ u.texted
  PROVE  Progress(u)' = u.before
  <1>1. \A h \in HostSet, r \in 1 .. Rows : ~ (Written(u, h, r))'
    <2>1. \A h \in HostSet : IndexOf(h) \in 1 .. Len(Hosts) /\ Len(Hosts) \in Nat
      BY HostsOk
    <2>2. \A h : IndexOf(h)' = IndexOf(h)
      BY DEF IndexOf
    <2>3. ASSUME NEW h \in HostSet, NEW r \in 1 .. Rows, (Written(u, h, r))' PROVE FALSE
      <3>1. IndexOf(h) < u.host \/ (IndexOf(h) = u.host /\ r <= u.row)
        BY <2>2, <2>3 DEF Written
      <3> QED BY <3>1, <2>1, HostOutputConstants
    <2> QED BY <2>3
  <1>2. Progress(u)' = [props |-> [h \in HostSet |-> [r \in 1 .. Rows |-> u.before.props[h][r]]],
                        text |-> u.before.text]
    BY <1>1 DEF Progress
  <1>3. u.before \in Contents
    BY DEF UpdateRecords
  <1> DEFINE p == [h \in HostSet |-> [r \in 1 .. Rows |-> u.before.props[h][r]]]
             d == [props |-> p, text |-> u.before.text]
  <1>4. u.before.props \in [HostSet -> RowSets] /\ u.before.text \in HostValues
    BY <1>3 DEF Contents, RowSets
  <1>5. \A h \in HostSet, r \in 1 .. Rows : u.before.props[h][r] \in HostValues
    BY <1>4 DEF RowSets
  <1>6. p \in [HostSet -> RowSets]
    BY <1>5 DEF RowSets
  <1>7. \A h \in HostSet, r \in 1 .. Rows : p[h][r] = u.before.props[h][r]
    OBVIOUS
  <1> HIDE DEF p
  <1>8. d \in Contents
    BY <1>4, <1>6 DEF Contents, RowSets
  <1>9. d = u.before
    BY <1>3, <1>7, <1>8, ContentsEqual
  <1> QED BY <1>2, <1>9 DEF p

\* An update that starts keeps the invariant.
LEMMA StartKeeps ==
  ASSUME OutputInv, NEW content \in Contents, startUpdate(content)
  PROVE  OutputInv'
  <1> DEFINE e == Len(rendered) + 1
             u == [element |-> e, previous |-> latest, stage |-> "rows", host |-> 1,
                   row |-> 0, saved |-> <<dom.props[Hosts[1]]>>, texted |-> FALSE,
                   before |-> dom]
             n == Len(updates) + 1
  <1>h. Len(Hosts) \in Nat \ {0} /\ Hosts[1] \in HostSet
    BY HostsOk
  <1>i. /\ dom \in Contents /\ rendered \in Seq(Contents) /\ updates \in Seq(UpdateRecords)
        /\ Version \in Nat /\ Version <= Len(rendered) /\ latest = [h \in HostSet |-> Version]
    BY DEF OutputInv, OutputTyped
  <1>u. \A i \in 1 .. Len(updates) : UpdateOk(updates[i])
    BY DEF OutputInv
  <1>a. /\ rendered' = Append(rendered, content) /\ updates' = Append(updates, u)
        /\ dom' = dom /\ latest' = latest
    BY DEF startUpdate
  <1>z. Version # 0 /\ Version' = Version
    BY <1>a, <1>h DEF startUpdate, Attached, Version
  <1>r. /\ rendered' \in Seq(Contents) /\ Len(rendered') = e /\ e \in Nat /\ Len(rendered) < e
        /\ \A i \in 1 .. Len(rendered) : rendered'[i] = rendered[i]
    BY <1>a, <1>i
  <1>t. u \in UpdateRecords
    <2>1. dom.props[Hosts[1]] \in RowSets
      BY <1>h, <1>i DEF Contents, RowSets
    <2>2. <<dom.props[Hosts[1]]>> \in Seq(RowSets)
      BY <2>1
    <2>3. latest \in [HostSet -> Nat]
      BY <1>i
    <2> QED BY <2>2, <2>3, <1>i, <1>r DEF UpdateRecords
  <1>f. /\ u.element = e /\ u.previous = latest /\ u.stage = "rows" /\ u.host = 1 /\ u.row = 0
        /\ u.saved = <<dom.props[Hosts[1]]>> /\ ~ u.texted /\ u.before = dom
    OBVIOUS
  <1> HIDE DEF u, e
  <1>v. Start(u) = Version
    BY <1>f DEF Start, Version
  <1>n. n \in Nat /\ Len(updates) \in Nat
    BY <1>i
  <1>s. /\ updates' \in Seq(UpdateRecords) /\ Len(updates') = n /\ updates'[n] = u
        /\ \A i \in 1 .. Len(updates) : updates'[i] = updates[i]
        /\ 1 .. Len(updates') = (1 .. Len(updates)) \cup {n} /\ n \notin 1 .. Len(updates)
    BY <1>a, <1>i, <1>t
  <1>o. ASSUME NEW w, UpdateOk(w)
        PROVE  (UpdateOk(w))' /\ Progress(w)' = Progress(w)
    <2>1. w.element \in 1 .. Len(rendered) /\ Start(w) \in 1 .. Len(rendered)
      BY <1>o DEF UpdateOk
    <2>2. Len(rendered) <= Len(rendered')
      BY <1>r, <1>i
    <2> QED BY <2>1, <2>2, <1>o, <1>i, <1>r, RenderedStays
  <1>1. OutputTyped'
    <2>1. Version <= Len(rendered')
      BY <1>i, <1>r
    <2> QED BY <2>1, <1>a, <1>i, <1>r, <1>s, <1>z DEF OutputTyped
  <1>2. (\A i \in 1 .. Len(updates) : UpdateOk(updates[i]))'
    <2> SUFFICES ASSUME NEW i \in 1 .. Len(updates') PROVE (UpdateOk(updates[i]))'
      OBVIOUS
    <2>1. PICK w : w = updates'[i]
      OBVIOUS
    <2>2. (UpdateOk(w))'
      <3>1. CASE i = n
        <4>1. w = u
          BY <3>1, <2>1, <1>s
        <4>2. /\ u.element \in 1 .. Len(rendered') /\ Start(u) \in 1 .. Len(rendered')
              /\ Start(u) < u.element
          BY <1>i, <1>r, <1>f, <1>v, <1>z
        <4>3. u.previous = [h \in HostSet |-> Start(u)]
          BY <1>f, <1>i, <1>v
        <4>4. u.host \in 1 .. Len(Hosts) /\ Len(u.saved) = u.host
          BY <1>f, <1>h
        <4> QED BY <4>1, <4>2, <4>3, <4>4, <1>f DEF UpdateOk, Start
      <3>2. CASE i # n
        BY <3>2, <2>1, <1>s, <1>u, <1>o
      <3> QED BY <3>1, <3>2
    <2> QED BY <2>1, <2>2
  <1>3. UpdatesOrdered'
    <2>1. /\ \A i, j \in 1 .. Len(updates) : i < j =>
               updates[i].element < updates[j].element /\ Start(updates[i]) <= Start(updates[j])
          /\ \A i \in 1 .. Len(updates) : Start(updates[i]) <= Version
      BY <1>z DEF OutputInv, UpdatesOrdered
    <2>2. \A i \in 1 .. Len(updates) : updates[i].element < u.element
      <3>1. \A i \in 1 .. Len(updates) : updates[i].element \in 1 .. Len(rendered)
        BY <1>u DEF UpdateOk
      <3> QED BY <3>1, <1>f, <1>i, <1>r
    <2>3. ASSUME NEW i \in 1 .. Len(updates'), NEW j \in 1 .. Len(updates'), i < j
          PROVE  /\ updates'[i].element < updates'[j].element
                 /\ Start(updates'[i]) <= Start(updates'[j])
      <3>1. i \in 1 .. Len(updates)
        BY <2>3, <1>s, <1>n
      <3>2. CASE j = n
        BY <3>1, <3>2, <2>1, <2>2, <1>s, <1>v
      <3>3. CASE j # n
        BY <3>1, <3>3, <2>1, <2>3, <1>s
      <3> QED BY <3>2, <3>3
    <2>4. \A i \in 1 .. Len(updates') : Start(updates'[i]) <= Version
      BY <2>1, <1>s, <1>v, <1>i
    <2> QED BY <2>3, <2>4, <1>z DEF UpdatesOrdered, Start
  <1>4. UpdatesNest'
    <2> SUFFICES ASSUME NEW i \in 1 .. Len(updates'), NEW w, w = updates'[i], Start(w) = Version
                 PROVE  /\ SavedOk(w)
                        /\ i < Len(updates') => updates'[i + 1].before = Progress(w)'
                        /\ i = Len(updates') => dom' = Progress(w)'
      BY <1>z DEF UpdatesNest, SavedOk, Start
    <2>1. CASE i = n
      <3>1. w = u
        BY <2>1, <1>s
      <3>2. Progress(w)' = w.before
        BY <3>1, <1>t, <1>f, NothingWritten
      <3>3. SavedOk(u)
        <4>1. \A k \in 1 .. u.host : k = 1
          BY <1>f
        <4> QED BY <4>1, <1>f DEF SavedOk
      <3> QED BY <2>1, <3>1, <3>2, <3>3, <1>a, <1>f, <1>s, <1>n
    <2>2. CASE i # n
      <3>1. w = updates[i] /\ i \in 1 .. Len(updates)
        BY <2>2, <1>s
      <3>0. UpdateOk(w)
        BY <3>1, <1>u
      <3>2. Progress(w)' = Progress(w)
        BY <3>0, <1>o
      <3>3. /\ SavedOk(w)
            /\ i < Len(updates) => updates[i + 1].before = Progress(w)
            /\ i = Len(updates) => dom = Progress(w)
        BY <3>1 DEF OutputInv, UpdatesNest
      <3>4. updates'[i + 1].before = Progress(w)
        <4>1. CASE i = Len(updates)
          <5>1. updates'[i + 1] = u
            BY <4>1, <1>s
          <5> QED BY <5>1, <4>1, <3>3, <1>f
        <4>2. CASE i # Len(updates)
          <5>1. i < Len(updates) /\ i + 1 \in 1 .. Len(updates)
            BY <4>2, <3>1, <1>n
          <5> QED BY <5>1, <3>3, <1>s
        <4> QED BY <4>1, <4>2
      <3>5. i # Len(updates')
        BY <2>2, <1>s
      <3> QED BY <3>2, <3>3, <3>4, <3>5
    <2> QED BY <2>1, <2>2
  <1> QED BY <1>1, <1>2, <1>3, <1>4 DEF OutputInv

\* What the progress of an update shows, row by row.
LEMMA ProgressShows ==
  ASSUME NEW u, u.before \in Contents, Target(u) \in Contents
  PROVE  /\ Progress(u) \in Contents
         /\ Progress(u).text = IF u.texted THEN Target(u).text ELSE u.before.text
         /\ \A h \in HostSet, r \in 1 .. Rows :
              Progress(u).props[h][r] = IF Written(u, h, r) THEN Target(u).props[h][r]
                                        ELSE u.before.props[h][r]
  <1> DEFINE p == [h \in HostSet |->
                     [r \in 1 .. Rows |-> IF Written(u, h, r) THEN Target(u).props[h][r]
                                          ELSE u.before.props[h][r]]]
             text == IF u.texted THEN Target(u).text ELSE u.before.text
  <1>1. Progress(u) = [props |-> p, text |-> text]
    BY DEF Progress
  <1>2. /\ u.before.props \in [HostSet -> RowSets] /\ u.before.text \in HostValues
        /\ Target(u).props \in [HostSet -> RowSets] /\ Target(u).text \in HostValues
    BY DEF Contents, RowSets
  <1>3. \A h \in HostSet, r \in 1 .. Rows :
          u.before.props[h][r] \in HostValues /\ Target(u).props[h][r] \in HostValues
    BY <1>2 DEF RowSets
  <1>4. p \in [HostSet -> RowSets]
    BY <1>3 DEF RowSets
  <1>5. \A h \in HostSet, r \in 1 .. Rows :
          p[h][r] = IF Written(u, h, r) THEN Target(u).props[h][r] ELSE u.before.props[h][r]
    OBVIOUS
  <1>6. text \in HostValues
    BY <1>2
  <1> HIDE DEF p
  <1>7. Progress(u) \in Contents
    BY <1>1, <1>4, <1>6 DEF Contents, RowSets
  <1>8. Progress(u).props = p /\ Progress(u).text = text
    BY <1>1
  <1> QED BY <1>5, <1>7, <1>8

\* The fields of an update that is under way, and what it shows when nothing was published.
LEMMA TopShows ==
  ASSUME OutputInv, updates # <<>>, Start(Top) = Version
  PROVE  /\ dom.text = IF Top.texted THEN Target(Top).text ELSE Top.before.text
         /\ \A h \in HostSet, r \in 1 .. Rows :
              dom.props[h][r] = IF Written(Top, h, r) THEN Target(Top).props[h][r]
                                ELSE Top.before.props[h][r]
  <1>1. Top.before \in Contents /\ Target(Top) \in Contents /\ dom = Progress(Top)
    BY TopOk
  <1>2. /\ Progress(Top).text = IF Top.texted THEN Target(Top).text ELSE Top.before.text
        /\ \A h \in HostSet, r \in 1 .. Rows :
              Progress(Top).props[h][r] = IF Written(Top, h, r) THEN Target(Top).props[h][r]
                                          ELSE Top.before.props[h][r]
    BY <1>1, ProgressShows
  <1> QED BY <1>1, <1>2

\* A row that is written keeps the invariant.
LEMMA ApplyRowKeeps ==
  ASSUME OutputInv, applyRow
  PROVE  OutputInv'
  <1> DEFINE t == Top
             h == Hosts[Top.host]
             n == NextRow(Top)
             u == [Top EXCEPT !.row = n]
  <1>0. updates # <<>> /\ t.stage = "rows" /\ RowsLeft(t) # {} /\ rendered' = rendered
        /\ latest' = latest /\ Continue(u)
        /\ dom' = [dom EXCEPT !.props[h][n] = Target(t).props[h][n]]
    BY DEF applyRow
  <1>t. /\ t \in UpdateRecords /\ UpdateOk(t) /\ dom \in Contents
        /\ t.before \in Contents /\ Target(t) \in Contents
        /\ Start(t) = Version => SavedOk(t) /\ dom = Progress(t)
    BY <1>0, TopOk
  <1>n. /\ n \in 1 .. Rows /\ n \in Payload(t, h) /\ n > t.row
        /\ \A r \in Payload(t, h) : r > t.row => n <= r
    BY <1>0, NextRowIs
  <1>c. Rows \in Nat /\ t.row \in Nat
    BY <1>t, HostOutputConstants DEF UpdateRecords
  <1>h. h \in HostSet /\ IndexOf(h) = t.host
        /\ \A g \in HostSet : IndexOf(g) = t.host => g = h
    BY <1>t, HostsOk DEF UpdateOk
  <1>s. Start(t) = Version =>
          /\ dom.text = IF t.texted THEN Target(t).text ELSE t.before.text
          /\ \A g \in HostSet, r \in 1 .. Rows :
               dom.props[g][r] = IF Written(t, g, r) THEN Target(t).props[g][r]
                                 ELSE t.before.props[g][r]
    BY <1>0, TopShows
  <1> HIDE DEF t, n
  <1>u. u \in UpdateRecords /\ u.row = n /\ u.element = t.element /\ u.previous = t.previous
        /\ u.before = t.before /\ u.host = t.host /\ u.stage = t.stage /\ u.texted = t.texted
        /\ u.saved = t.saved
    <2>1. u = [t EXCEPT !.row = n]
      BY DEF t
    <2>2. n \in Nat
      BY <1>n, <1>c
    <2> QED BY <2>1, <2>2, <1>t DEF UpdateRecords
  <1> HIDE DEF u, h
  <1>r. Target(u) = Target(t) /\ Start(u) = Start(t) /\ \A g : Payload(u, g) = Payload(t, g)
    BY <1>u DEF Target, Start, Payload, Previous
  <1>1. UpdateOk(u)
    BY <1>u, <1>r, <1>t, <1>0 DEF UpdateOk
  <1>v. Target(t).props[h][n] \in HostValues
    <2>1. Target(t).props \in [HostSet -> RowSets]
      BY <1>t DEF Contents, RowSets
    <2>2. Target(t).props[h] \in RowSets
      BY <2>1, <1>h
    <2> QED BY <2>2, <1>n DEF RowSets
  <1>d. /\ dom' \in Contents /\ dom'.text = dom.text
        /\ \A g \in HostSet, r \in 1 .. Rows :
             dom'.props[g][r] = IF g = h /\ r = n THEN Target(t).props[h][n] ELSE dom.props[g][r]
    <2> DEFINE value == Target(t).props[h][n]
               row == [dom.props[h] EXCEPT ![n] = value]
               props == [dom.props EXCEPT ![h] = row]
    <2>1. dom' = [dom EXCEPT !.props = props]
      BY <1>0
    <2>2. dom.props \in [HostSet -> RowSets] /\ dom.text \in HostValues
      BY <1>t DEF Contents, RowSets
    <2>3. dom.props[h] \in RowSets
      BY <2>2, <1>h
    <2>4. row \in RowSets /\ \A r \in 1 .. Rows : row[r] = IF r = n THEN value ELSE dom.props[h][r]
      BY <2>3, <1>v, <1>n DEF RowSets
    <2> HIDE DEF row, value
    <2>5. props \in [HostSet -> RowSets]
          /\ \A g \in HostSet : props[g] = IF g = h THEN row ELSE dom.props[g]
      BY <2>2, <2>4, <1>h
    <2> HIDE DEF props
    <2>6. dom' \in Contents /\ dom'.props = props /\ dom'.text = dom.text
      BY <2>1, <2>2, <2>5, <1>t DEF Contents, RowSets
    <2>7. \A g \in HostSet, r \in 1 .. Rows :
            props[g][r] = IF g = h /\ r = n THEN value ELSE dom.props[g][r]
      BY <2>4, <2>5
    <2> QED BY <2>6, <2>7 DEF value
  <1>w. \A g \in HostSet, r \in 1 .. Rows :
          Written(u, g, r) <=> Written(t, g, r) \/ (g = h /\ r = n)
    <2> SUFFICES ASSUME NEW g \in HostSet, NEW r \in 1 .. Rows
                 PROVE  Written(u, g, r) <=> Written(t, g, r) \/ (g = h /\ r = n)
      OBVIOUS
    <2>1. CASE g = h
      <3>1. Written(u, g, r) <=> r \in Payload(t, h) /\ r <= n
        BY <2>1, <1>u, <1>r, <1>h, <1>t DEF Written, UpdateOk
      <3>2. Written(t, g, r) <=> r \in Payload(t, h) /\ r <= t.row
        BY <2>1, <1>h, <1>t DEF Written, UpdateOk
      <3>3. r \in Payload(t, h) => (r <= n <=> r <= t.row \/ r = n)
        BY <1>n, <1>c
      <3> QED BY <2>1, <3>1, <3>2, <3>3, <1>n
    <2>2. CASE g # h
      BY <2>2, <1>u, <1>r, <1>h DEF Written
    <2> QED BY <2>1, <2>2
  <1>2. Start(u) = Version => SavedOk(u) /\ dom' = Progress(u)
    <2> SUFFICES ASSUME Start(u) = Version PROVE SavedOk(u) /\ dom' = Progress(u)
      OBVIOUS
    <2>1. SavedOk(u)
      BY <1>u, <1>r, <1>t DEF SavedOk
    <2>2. /\ Progress(u) \in Contents
          /\ Progress(u).text = IF u.texted THEN Target(u).text ELSE u.before.text
          /\ \A g \in HostSet, r \in 1 .. Rows :
               Progress(u).props[g][r] = IF Written(u, g, r) THEN Target(u).props[g][r]
                                         ELSE u.before.props[g][r]
      BY <1>u, <1>r, <1>t, ProgressShows
    <2>3. dom'.text = Progress(u).text
      BY <2>2, <1>d, <1>r, <1>s, <1>u
    <2>4. \A g \in HostSet, r \in 1 .. Rows : dom'.props[g][r] = Progress(u).props[g][r]
      BY <2>2, <1>d, <1>r, <1>s, <1>u, <1>w
    <2> QED BY <2>1, <2>2, <2>3, <2>4, <1>d, ContentsEqual
  <1> QED BY <1>0, <1>u, <1>d, <1>1, <1>2, ContinueKeeps DEF t

\* The step to the next host component, or to the text, keeps the invariant.
LEMMA NextHostKeeps ==
  ASSUME OutputInv, nextHost
  PROVE  OutputInv'
  <1> DEFINE t == Top
             row == dom.props[Hosts[Top.host + 1]]
             saved == Append(Top.saved, dom.props[Hosts[Top.host + 1]])
             further == [Top EXCEPT !.host = Top.host + 1, !.row = 0, !.saved = saved]
             texts == [Top EXCEPT !.stage = "text"]
  <1>0. updates # <<>> /\ t.stage = "rows" /\ RowsLeft(t) = {} /\ rendered' = rendered
        /\ latest' = latest /\ dom' = dom
    BY DEF nextHost
  <1>t. /\ t \in UpdateRecords /\ UpdateOk(t) /\ dom \in Contents
        /\ t.before \in Contents /\ Target(t) \in Contents
        /\ Start(t) = Version => SavedOk(t) /\ dom = Progress(t)
    BY <1>0, TopOk
  <1>f. /\ t.saved \in Seq(RowSets) /\ Len(t.saved) = t.host /\ t.host \in 1 .. Len(Hosts)
        /\ t.row \in Nat /\ ~ t.texted /\ Len(Hosts) \in Nat
    BY <1>0, <1>t, HostsOk DEF UpdateRecords, UpdateOk
  <1>l. \A r \in Payload(t, Hosts[t.host]) : r <= t.row
    BY <1>0, <1>f, HostOutputConstants DEF RowsLeft, Payload
  <1>h. /\ \A g \in HostSet : IndexOf(g) \in 1 .. Len(Hosts) /\ Hosts[IndexOf(g)] = g
        /\ \A k \in 1 .. Len(Hosts) : Hosts[k] \in HostSet /\ IndexOf(Hosts[k]) = k
    BY HostsOk
  <1>s. Start(t) = Version =>
          /\ dom.text = IF t.texted THEN Target(t).text ELSE t.before.text
          /\ \A g \in HostSet, r \in 1 .. Rows :
               dom.props[g][r] = IF Written(t, g, r) THEN Target(t).props[g][r]
                                 ELSE t.before.props[g][r]
    BY <1>0, TopShows
  <1>1. CASE t.host < Len(Hosts)
    <2>1. Continue(further)
      BY <1>1 DEF nextHost
    <2>k. t.host + 1 \in 1 .. Len(Hosts)
      BY <1>1, <1>f
    <2>r. row \in RowSets
      <3>1. dom.props \in [HostSet -> RowSets]
        BY <1>t DEF Contents, RowSets
      <3> QED BY <3>1, <2>k, <1>h
    <2>a. /\ saved \in Seq(RowSets) /\ Len(saved) = t.host + 1
          /\ \A k \in 1 .. t.host : saved[k] = t.saved[k]
          /\ saved[t.host + 1] = row
      BY <2>r, <1>f
    <2> HIDE DEF t, row, saved
    <2>e. further = [t EXCEPT !.host = t.host + 1, !.row = 0, !.saved = saved]
      BY DEF t
    <2>u. /\ further \in UpdateRecords /\ further.row = 0 /\ further.host = t.host + 1
          /\ further.saved = saved /\ further.element = t.element
          /\ further.previous = t.previous /\ further.before = t.before
          /\ further.stage = t.stage /\ further.texted = t.texted
      <3>1. t.host + 1 \in Nat
        BY <2>k, <1>f
      <3> QED BY <3>1, <2>a, <2>e, <1>t DEF UpdateRecords
    <2> HIDE DEF further
    <2>p. /\ Target(further) = Target(t) /\ Start(further) = Start(t)
          /\ \A g : Payload(further, g) = Payload(t, g)
      BY <2>u DEF Target, Start, Payload, Previous
    <2>2. UpdateOk(further)
      BY <2>a, <2>k, <2>u, <2>p, <1>t, <1>0 DEF UpdateOk
    <2>w. ASSUME NEW g \in HostSet, NEW r \in 1 .. Rows
          PROVE  Written(further, g, r) <=> Written(t, g, r)
      <3>1. Written(further, g, r) <=>
              r \in Payload(t, g) /\ (IndexOf(g) < t.host + 1 \/ (IndexOf(g) = t.host + 1 /\ r <= 0))
        BY <2>u, <2>p DEF Written
      <3>2. IndexOf(g) = t.host /\ r \in Payload(t, g) => r <= t.row
        BY <1>h, <1>l
      <3>3. ~ (r <= 0) /\ IndexOf(g) \in Nat
        BY <1>h, HostOutputConstants
      <3> QED BY <3>1, <3>2, <3>3, <1>f DEF Written
    <2>3. Start(further) = Version => SavedOk(further) /\ dom' = Progress(further)
      <3> SUFFICES ASSUME Start(further) = Version
                   PROVE  SavedOk(further) /\ dom' = Progress(further)
        OBVIOUS
      <3>1. SavedOk(t) /\ dom = Progress(t)
        BY <2>p, <1>t
      <3>2. /\ Progress(further) \in Contents
            /\ Progress(further).text =
                 IF further.texted THEN Target(further).text ELSE further.before.text
            /\ \A g \in HostSet, r \in 1 .. Rows :
                 Progress(further).props[g][r] =
                   IF Written(further, g, r) THEN Target(further).props[g][r]
                   ELSE further.before.props[g][r]
        BY <2>u, <2>p, <1>t, ProgressShows
      <3>3. dom.text = Progress(further).text
        BY <3>2, <2>u, <2>p, <1>s
      <3>4. \A g \in HostSet, r \in 1 .. Rows : dom.props[g][r] = Progress(further).props[g][r]
        BY <3>2, <2>u, <2>p, <2>w, <1>s
      <3>5. dom = Progress(further)
        BY <3>2, <3>3, <3>4, <1>t, ContentsEqual
      <3>6. row = t.before.props[Hosts[t.host + 1]]
        <4>1. PICK g \in HostSet : g = Hosts[t.host + 1]
          BY <2>k, <1>h
        <4>2. IndexOf(g) = t.host + 1
          BY <4>1, <2>k, <1>h
        <4>3. \A r \in 1 .. Rows : ~ Written(t, g, r)
          BY <4>2, <1>f DEF Written
        <4>4. \A r \in 1 .. Rows : dom.props[g][r] = t.before.props[g][r]
          BY <4>3, <2>p, <1>s
        <4>5. dom.props \in [HostSet -> RowSets] /\ t.before.props \in [HostSet -> RowSets]
          BY <1>t DEF Contents, RowSets
        <4>6. dom.props[g] \in RowSets /\ t.before.props[g] \in RowSets
          BY <4>5
        <4>7. /\ dom.props[g] = [r \in 1 .. Rows |-> dom.props[g][r]]
              /\ t.before.props[g] = [r \in 1 .. Rows |-> t.before.props[g][r]]
          BY <4>6 DEF RowSets
        <4>8. [r \in 1 .. Rows |-> dom.props[g][r]] = [r \in 1 .. Rows |-> t.before.props[g][r]]
          BY <4>4
        <4>9. dom.props[g] = t.before.props[g]
          BY <4>7, <4>8, Zenon
        <4> QED BY <4>1, <4>9 DEF row, t
      <3>7. SavedOk(further)
        <4> SUFFICES ASSUME NEW k \in 1 .. t.host + 1
                     PROVE  saved[k] = t.before.props[Hosts[k]]
          BY <2>u DEF SavedOk
        <4>1. CASE k = t.host + 1
          BY <4>1, <3>6, <2>a
        <4>2. CASE k # t.host + 1
          <5>1. k \in 1 .. t.host
            BY <4>2, <1>f
          <5> QED BY <5>1, <3>1, <2>a DEF SavedOk
        <4> QED BY <4>1, <4>2
      <3> QED BY <3>5, <3>7, <1>0
    <2> QED BY <2>1, <2>2, <2>3, <2>u, <1>0, <1>t, ContinueKeeps DEF t
  <1>2. CASE ~ (t.host < Len(Hosts))
    <2>1. Continue(texts)
      BY <1>2 DEF nextHost
    <2> HIDE DEF t
    <2>e. texts = [t EXCEPT !.stage = "text"]
      BY DEF t
    <2>u. /\ texts \in UpdateRecords /\ texts.row = t.row /\ texts.host = t.host
          /\ texts.saved = t.saved /\ texts.element = t.element
          /\ texts.previous = t.previous /\ texts.before = t.before
          /\ texts.stage = "text" /\ texts.texted = t.texted
      BY <2>e, <1>t DEF UpdateRecords
    <2> HIDE DEF texts
    <2>p. /\ Target(texts) = Target(t) /\ Start(texts) = Start(t)
          /\ \A g : Payload(texts, g) = Payload(t, g)
      BY <2>u DEF Target, Start, Payload, Previous
    <2>q. RowsLeft(texts) = {}
      BY <2>u, <2>p, <1>0 DEF RowsLeft
    <2>h. t.host = Len(Hosts)
      BY <1>2, <1>f
    <2>2. UpdateOk(texts)
      BY <2>u, <2>p, <2>q, <2>h, <1>t, <1>f DEF UpdateOk
    <2>3. Start(texts) = Version => SavedOk(texts) /\ dom' = Progress(texts)
      <3> SUFFICES ASSUME Start(texts) = Version
                   PROVE  SavedOk(texts) /\ dom' = Progress(texts)
        OBVIOUS
      <3>1. SavedOk(t) /\ dom = Progress(t)
        BY <2>p, <1>t
      <3>2. Progress(texts) = Progress(t)
        <4>1. \A g, r : Written(texts, g, r) <=> Written(t, g, r)
          BY <2>u, <2>p DEF Written
        <4> QED BY <4>1, <2>u, <2>p DEF Progress
      <3> QED BY <3>1, <3>2, <2>u, <1>0 DEF SavedOk
    <2> QED BY <2>1, <2>2, <2>3, <2>u, <1>0, <1>t, ContinueKeeps DEF t
  <1> QED BY <1>1, <1>2

\* The text that is written keeps the invariant.
LEMMA ApplyTextKeeps ==
  ASSUME OutputInv, applyText
  PROVE  OutputInv'
  <1> DEFINE t == Top
             u == [Top EXCEPT !.texted = TRUE]
  <1>0. updates # <<>> /\ t.stage = "text" /\ ChangesText(t) /\ rendered' = rendered
        /\ latest' = latest /\ Continue(u)
        /\ dom' = [dom EXCEPT !.text = Target(t).text]
    BY DEF applyText
  <1>t. /\ t \in UpdateRecords /\ UpdateOk(t) /\ dom \in Contents
        /\ t.before \in Contents /\ Target(t) \in Contents
        /\ Start(t) = Version => SavedOk(t) /\ dom = Progress(t)
    BY <1>0, TopOk
  <1>s. Start(t) = Version =>
          /\ \A g \in HostSet, r \in 1 .. Rows :
               dom.props[g][r] = IF Written(t, g, r) THEN Target(t).props[g][r]
                                 ELSE t.before.props[g][r]
    BY <1>0, TopShows
  <1> HIDE DEF t
  <1>u. u \in UpdateRecords /\ u.row = t.row /\ u.element = t.element /\ u.previous = t.previous
        /\ u.before = t.before /\ u.host = t.host /\ u.stage = t.stage /\ u.texted
        /\ u.saved = t.saved
    <2>1. u = [t EXCEPT !.texted = TRUE]
      BY DEF t
    <2> QED BY <2>1, <1>t DEF UpdateRecords
  <1> HIDE DEF u
  <1>r. /\ Target(u) = Target(t) /\ Start(u) = Start(t) /\ \A g : Payload(u, g) = Payload(t, g)
        /\ ChangesText(u)
    BY <1>u, <1>0 DEF Target, Start, Payload, Previous, ChangesText
  <1>q. RowsLeft(u) = RowsLeft(t)
    BY <1>u, <1>r DEF RowsLeft
  <1>1. UpdateOk(u)
    BY <1>u, <1>r, <1>q, <1>t, <1>0 DEF UpdateOk
  <1>v. Target(t).text \in HostValues
    BY <1>t DEF Contents
  <1>d. dom' \in Contents /\ dom'.text = Target(t).text /\ dom'.props = dom.props
    BY <1>0, <1>t, <1>v DEF Contents
  <1>2. Start(u) = Version => SavedOk(u) /\ dom' = Progress(u)
    <2> SUFFICES ASSUME Start(u) = Version PROVE SavedOk(u) /\ dom' = Progress(u)
      OBVIOUS
    <2>1. SavedOk(u)
      BY <1>u, <1>r, <1>t DEF SavedOk
    <2>2. /\ Progress(u) \in Contents
          /\ Progress(u).text = IF u.texted THEN Target(u).text ELSE u.before.text
          /\ \A g \in HostSet, r \in 1 .. Rows :
               Progress(u).props[g][r] = IF Written(u, g, r) THEN Target(u).props[g][r]
                                         ELSE u.before.props[g][r]
      BY <1>u, <1>r, <1>t, ProgressShows
    <2>3. dom'.text = Progress(u).text
      BY <2>2, <1>d, <1>r, <1>u
    <2>w. \A g, r : Written(u, g, r) <=> Written(t, g, r)
      BY <1>u, <1>r DEF Written
    <2>4. \A g \in HostSet, r \in 1 .. Rows : dom'.props[g][r] = Progress(u).props[g][r]
      BY <2>2, <2>w, <1>d, <1>r, <1>s, <1>u
    <2> QED BY <2>1, <2>2, <2>3, <2>4, <1>d, ContentsEqual
  <1> QED BY <1>0, <1>u, <1>d, <1>1, <1>2, ContinueKeeps DEF t

\* An update is stale exactly when the latest props are not the ones it started from.
LEMMA StartIsPrevious ==
  ASSUME OutputInv, updates # <<>>
  PROVE  Start(Top) = Version <=> latest = Top.previous
  <1>1. UpdateOk(Top)
    BY TopOk
  <1>2. Top.previous = [h \in HostSet |-> Start(Top)] /\ latest = [h \in HostSet |-> Version]
    BY <1>1 DEF UpdateOk, OutputInv, OutputTyped
  <1>3. Hosts[1] \in HostSet
    BY HostsOk
  <1> QED BY <1>2, <1>3 DEF Start, Version

\* An update whose rows are all written and whose text is done shows its element, when it
\* started from what the DOM showed.
LEMMA PublishShows ==
  ASSUME OutputInv, publish
  PROVE  /\ OutputInv' /\ latest' # latest
         /\ Top.before = Previous(Top) => dom' = Target(Top)
  <1> DEFINE t == Top
  <1>0. /\ updates # <<>> /\ CanPublish(t) /\ latest' = [h \in HostSet |-> t.element]
        /\ updates' = Front(updates) /\ dom' = dom /\ rendered' = rendered
    BY DEF publish, Publish
  <1>c. /\ t.stage = "text" /\ (ChangesText(t) => t.texted) /\ latest = t.previous
    BY <1>0 DEF CanPublish, TextDone, PropsCurrent
  <1>t. /\ t \in UpdateRecords /\ UpdateOk(t) /\ dom \in Contents
        /\ Target(t) \in Contents
    BY <1>0, TopOk
  <1>v. Start(t) = Version
    BY <1>0, <1>c, StartIsPrevious
  <1>e. t.element \in Nat /\ t.element <= Len(rendered) /\ Start(t) < t.element /\ Start(t) \in Nat
    BY <1>t DEF UpdateOk, OutputInv, OutputTyped
  <1>1. OutputInv'
    <2>1. PICK v \in Nat : v = t.element
      BY <1>e
    <2> QED BY <2>1, <1>0, <1>e, <1>t, PopKeeps
  <1>2. latest' # latest
    <2>1. latest'[Hosts[1]] = t.element
      BY <1>0, HostsOk
    <2>2. latest[Hosts[1]] = Start(t)
      BY <1>v DEF Version
    <2> QED BY <2>1, <2>2, <1>e
  <1>3. ASSUME t.before = Previous(t) PROVE dom' = Target(t)
    <2>1. /\ dom.text = IF t.texted THEN Target(t).text ELSE t.before.text
          /\ \A g \in HostSet, r \in 1 .. Rows :
               dom.props[g][r] = IF Written(t, g, r) THEN Target(t).props[g][r]
                                 ELSE t.before.props[g][r]
      BY <1>0, <1>v, TopShows
    <2>2. dom.text = Target(t).text
      BY <2>1, <1>c, <1>3 DEF ChangesText
    <2>h. /\ \A g \in HostSet : IndexOf(g) \in 1 .. Len(Hosts) /\ Hosts[IndexOf(g)] = g
          /\ Len(Hosts) \in Nat
      BY HostsOk
    <2>3. t.host = Len(Hosts) /\ RowsLeft(t) = {} /\ t.row \in Nat
      BY <1>c, <1>t DEF UpdateOk, UpdateRecords
    <2>4. ASSUME NEW g \in HostSet, NEW r \in 1 .. Rows
          PROVE  dom.props[g][r] = Target(t).props[g][r]
      <3>1. CASE r \in Payload(t, g)
        <4>1. IndexOf(g) = t.host => r <= t.row
          BY <3>1, <2>3, <2>h, HostOutputConstants DEF RowsLeft
        <4>2. Written(t, g, r)
          BY <3>1, <4>1, <2>3, <2>h DEF Written
        <4> QED BY <4>2, <2>1
      <3>2. CASE r \notin Payload(t, g)
        <4>1. Previous(t).props[g][r] = Target(t).props[g][r]
          BY <3>2 DEF Payload
        <4>2. ~ Written(t, g, r)
          BY <3>2 DEF Written
        <4> QED BY <4>1, <4>2, <2>1, <1>3
      <3> QED BY <3>1, <3>2
    <2> QED BY <2>2, <2>4, <1>0, <1>t, ContentsEqual
  <1> QED BY <1>1, <1>2, <1>3

\* An update that fails leaves the DOM as it found it when nothing was published meanwhile.
LEMMA FailRestores ==
  ASSUME OutputInv, failRow \/ failAfterWrite \/ fail
  PROVE  OutputInv' /\ (latest = Top.previous => dom' = Top.before)
  <1>0. /\ updates # <<>> /\ updates' = Front(updates) /\ rendered' = rendered /\ latest' = latest
    BY DEF failRow, failAfterWrite, fail
  <1>t. Top \in UpdateRecords /\ UpdateOk(Top)
    BY <1>0, TopOk
  <1>f. Top.row \in Nat /\ (Top.texted => Top.stage = "text" /\ ChangesText(Top))
    BY <1>t DEF UpdateRecords, UpdateOk
  <1>v. Start(Top) = Version <=> latest = Top.previous
    BY <1>0, StartIsPrevious
  <1>r. Rows \in Nat
    BY HostOutputConstants
  <1>1. PICK failed \in Nat :
          /\ dom' = RolledBack(Top, failed)
          /\ latest = Top.previous =>
               /\ ~ Top.texted
               /\ \A r \in Payload(Top, Hosts[Top.host]) : r > failed => r > Top.row
    <2>1. CASE failRow
      <3>1. Top.stage = "rows" /\ RowsLeft(Top) # {} /\ dom' = RolledBack(Top, NextRow(Top))
        BY <2>1 DEF failRow
      <3>2. PICK n \in Nat : n = NextRow(Top) /\ n > Top.row
        BY <3>1, <1>0, <1>r, NextRowIs
      <3>3. \A r \in Payload(Top, Hosts[Top.host]) : r > n => r > Top.row
        BY <3>2, <1>f, <1>r DEF Payload
      <3> QED BY <3>1, <3>2, <3>3, <1>f
    <2>2. CASE failAfterWrite
      <3>1. Top.stage = "rows" /\ dom' = RolledBack(Top, Top.row)
        BY <2>2 DEF failAfterWrite
      <3> QED BY <3>1, <1>f
    <2>3. CASE fail
      <3>1. Top.stage = "text" /\ ~ CanPublish(Top) /\ dom' = RolledBack(Top, Rows)
        BY <2>3 DEF fail
      <3>2. latest = Top.previous => ~ Top.texted
        BY <3>1, <1>f DEF CanPublish, TextDone, PropsCurrent, ChangesSomething
      <3>3. \A r \in Payload(Top, Hosts[Top.host]) : r > Rows => r > Top.row
        BY <1>r DEF Payload
      <3> QED BY <3>1, <3>2, <3>3, <1>r
    <2> QED BY <2>1, <2>2, <2>3
  <1>2. dom' \in Contents /\ (latest = Top.previous => dom' = Top.before)
    BY <1>0, <1>1, <1>v, RollbackRestores
  <1>3. PICK v \in Nat : v = Version /\ v <= Len(rendered) /\ latest' = [h \in HostSet |-> v]
    BY <1>0 DEF OutputInv, OutputTyped
  <1>4. OutputInv'
    BY <1>0, <1>2, <1>3, <1>v, PopKeeps
  <1> QED BY <1>2, <1>4

\* The updates stay as they are when nothing is rendered.
LEMMA UpdatesStay ==
  ASSUME OutputInv, rendered' = rendered, updates' = updates
  PROVE  /\ (\A i \in 1 .. Len(updates) : UpdateOk(updates[i]))'
         /\ \A i \in 1 .. Len(updates) : Progress(updates[i])' = Progress(updates[i])
  <1>1. rendered \in Seq(Contents)
    BY DEF OutputInv, OutputTyped
  <1>2. ASSUME NEW i \in 1 .. Len(updates), NEW w, w = updates[i]
        PROVE  (UpdateOk(w))' /\ Progress(w)' = Progress(w)
    <2>1. UpdateOk(w)
      BY <1>2 DEF OutputInv
    <2>2. w.element \in 1 .. Len(rendered) /\ Start(w) \in 1 .. Len(rendered)
      BY <2>1 DEF UpdateOk
    <2> QED BY <2>1, <2>2, <1>1, RenderedStays
  <1>3. ASSUME NEW i \in 1 .. Len(updates)
        PROVE  (UpdateOk(updates[i]))' /\ Progress(updates[i])' = Progress(updates[i])
    <2>1. PICK w : w = updates[i] /\ w = updates'[i]
      OBVIOUS
    <2>2. (UpdateOk(w))' /\ Progress(w)' = Progress(w)
      BY <2>1, <1>2
    <2> QED BY <2>1, <2>2
  <1> QED BY <1>3

\* The cleanup of the output makes every update under way stale.
LEMMA OutputCleanupKeeps ==
  ASSUME OutputInv, cleanup
  PROVE  OutputInv' /\ updates' = updates
  <1>0. latest' = [h \in HostSet |-> 0] /\ dom' = dom /\ rendered' = rendered /\ updates' = updates
    BY DEF cleanup
  <1>i. /\ dom \in Contents /\ rendered \in Seq(Contents) /\ updates \in Seq(UpdateRecords)
    BY DEF OutputInv, OutputTyped
  <1>v. Version' = 0
    BY <1>0, HostsOk DEF Version
  <1>u. \A i \in 1 .. Len(updates) : UpdateOk(updates[i])
    BY DEF OutputInv
  <1>s. \A i \in 1 .. Len(updates) : Start(updates[i]) # 0
    BY <1>u, <1>i DEF UpdateOk
  <1>1. OutputTyped'
    BY <1>0, <1>i, <1>v DEF OutputTyped
  <1>2. (\A i \in 1 .. Len(updates) : UpdateOk(updates[i]))'
    BY <1>0, UpdatesStay
  <1>3. UpdatesOrdered'
    BY <1>0, <1>v DEF OutputInv, UpdatesOrdered, Start
  <1>4. UpdatesNest'
    BY <1>0, <1>v, <1>s DEF UpdatesNest, Start
  <1> QED BY <1>0, <1>1, <1>2, <1>3, <1>4 DEF OutputInv

\* At first nothing is under way.
LEMMA OutputStarts == OutputInit => OutputInv
  <1> SUFFICES ASSUME OutputInit PROVE OutputInv
    OBVIOUS
  <1>1. PICK initial \in Contents :
          /\ dom = initial /\ rendered = <<initial>> /\ latest = [h \in HostSet |-> 1]
          /\ updates = <<>>
    BY DEF OutputInit
  <1>2. Version = 1
    BY <1>1, HostsOk DEF Version
  <1>3. Len(rendered) = 1 /\ rendered \in Seq(Contents) /\ updates \in Seq(UpdateRecords)
        /\ 1 .. Len(updates) = {}
    BY <1>1
  <1> QED BY <1>1, <1>2, <1>3 DEF OutputInv, OutputTyped, UpdatesOrdered, UpdatesNest

\* Every step of the updates of host output keeps the invariant.
LEMMA OutputStep == OutputInv /\ [OutputNext]_outputVars => OutputInv'
  <1> SUFFICES ASSUME OutputInv, [OutputNext]_outputVars PROVE OutputInv'
    OBVIOUS
  <1>1. CASE UNCHANGED outputVars
    <2>1. dom' = dom /\ rendered' = rendered /\ latest' = latest /\ updates' = updates
      BY <1>1 DEF outputVars
    <2>2. OutputTyped' /\ UpdatesOrdered'
      BY <2>1 DEF OutputInv, OutputTyped, UpdatesOrdered, Start, Version
    <2>3. /\ (\A i \in 1 .. Len(updates) : UpdateOk(updates[i]))'
          /\ \A i \in 1 .. Len(updates) : Progress(updates[i])' = Progress(updates[i])
      BY <2>1, UpdatesStay
    <2>4. UpdatesNest'
      <3>1. UpdatesNest
        BY DEF OutputInv
      <3> QED BY <3>1, <2>1, <2>3 DEF UpdatesNest, Start, Version, SavedOk
    <2> QED BY <2>2, <2>3, <2>4 DEF OutputInv
  <1>2. CASE OutputNext
    BY <1>2, StartKeeps, ApplyRowKeeps, NextHostKeeps, ApplyTextKeeps, PublishShows, FailRestores,
       OutputCleanupKeeps DEF OutputNext
  <1> QED BY <1>1, <1>2

\* The innermost update returns with new latest props only by publishing them, and with the
\* old ones only by failing.
LEMMA UpdatesReturn ==
  ASSUME OutputInv, OutputNext, Len(updates') < Len(updates)
  PROVE  publish \/ ((failRow \/ failAfterWrite \/ fail) /\ latest' = latest)
  <1>i. updates \in Seq(UpdateRecords)
    BY DEF OutputInv, OutputTyped
  <1>n. Len(updates) \in Nat
    BY <1>i
  <1>1. ASSUME NEW content \in Contents, startUpdate(content) PROVE FALSE
    <2>1. PICK u : updates' = Append(updates, u)
      BY <1>1 DEF startUpdate
    <2>2. Len(updates') = Len(updates) + 1
      BY <2>1, <1>i
    <2> QED BY <2>2, <1>n
  <1>2. ASSUME NEW u, updates # <<>>, Continue(u) PROVE FALSE
    <2>1. Front(updates) \in Seq(UpdateRecords) /\ Len(Front(updates)) = Len(updates) - 1
      BY <1>2, <1>i, TopIs
    <2>2. Len(updates') = Len(updates)
      BY <2>1, <1>2, <1>n DEF Continue
    <2> QED BY <2>2, <1>n
  <1>3. ~ applyRow /\ ~ nextHost /\ ~ applyText
    BY <1>2 DEF applyRow, nextHost, applyText
  <1>4. ~ cleanup
    BY <1>n DEF cleanup
  <1>5. failRow \/ failAfterWrite \/ fail => latest' = latest
    BY DEF failRow, failAfterWrite, fail
  <1> QED BY <1>1, <1>3, <1>4, <1>5 DEF OutputNext

\* An update of host output that started when the DOM showed the latest props returns only when
\* the DOM shows its element, whatever updates its setters start, publish or fail: for every
\* number of rows and every depth of updates within updates.
THEOREM UpdatesShow == OutputSpec => PublishedIsShown
  <1> DEFINE Shown ==
        Len(updates') < Len(updates) /\ latest' # latest /\ Top.before = Previous(Top) =>
          dom' = Target(Top)
  <1>1. OutputInit => OutputInv
    BY OutputStarts
  <1>2. OutputInv /\ [OutputNext]_outputVars => OutputInv'
    BY OutputStep
  <1>3. OutputInv /\ [OutputNext]_outputVars => [Shown]_outputVars
    BY UpdatesReturn, PublishShows
  <1>4. OutputSpec => [][Shown]_outputVars
    BY <1>1, <1>2, <1>3, PTL DEF OutputSpec
  <1> QED BY <1>4 DEF PublishedIsShown

\* An update of host output that throws leaves the DOM as it found it, unless another update
\* was published or the output was cleaned up meanwhile.
THEOREM FailedUpdates == OutputSpec => FailedUpdateRestores
  <1> DEFINE Restores ==
        Len(updates') < Len(updates) /\ latest' = latest /\ latest = Top.previous =>
          dom' = Top.before
  <1>1. OutputInit => OutputInv
    BY OutputStarts
  <1>2. OutputInv /\ [OutputNext]_outputVars => OutputInv'
    BY OutputStep
  <1>3. OutputInv /\ [OutputNext]_outputVars => [Restores]_outputVars
    BY UpdatesReturn, PublishShows, FailRestores
  <1>4. OutputSpec => [][Restores]_outputVars
    BY <1>1, <1>2, <1>3, PTL DEF OutputSpec
  <1> QED BY <1>4 DEF FailedUpdateRestores

-----------------------------------------------------------------------------
(***************************************************************************)
(* The public roots                                                        *)
(***************************************************************************)
PublicRecords == [mounted : BOOLEAN, unmounted : BOOLEAN]

\* No side effects are applied.
Idle(b) ==
  /\ \A c \in Containers : b.marker[c] = None
  /\ \A e \in Effects(b) : ~ b.effects[e].active

\* The side effects made last are those of root r, and no others are applied.
Busy(b, r) ==
  /\ NewEffect(b) \in Effects(b)
  /\ b.effects[NewEffect(b)].root = r /\ b.effects[NewEffect(b)].active
  /\ \A e \in Effects(b) : e # NewEffect(b) => ~ b.effects[e].active
  /\ \A c \in Containers : c # ContainerOf(b, r) => b.marker[c] = None

Shows(b, r) == \E o \in Outputs(b) : RootOfOutput(b, o) = r /\ b.outputs[o].active

\* A public root is mounted while it shows output, and the bridge has retired the root once it
\* is unmounted.
PublicAgrees(b, p) ==
  \A r \in Roots(b) :
    /\ p[r].mounted <=> Shows(b, r)
    /\ p[r].unmounted => b.roots[r].status = "unmounted"

\* Mounted output is in the container of its root, and nothing else is in a container. Output
\* is active while it is mounted, and may stay active when its root is retired.
OutputsAgree(b) ==
  /\ \A o \in Outputs(b) :
       /\ b.outputs[o].mounted => b.outputs[o].active
       /\ b.outputs[o].active =>
            b.outputs[o].mounted \/ b.roots[RootOfOutput(b, o)].status = "unmounted"
       /\ b.outputs[o].mounted <=> o \in b.children[ContainerOf(b, RootOfOutput(b, o))]
  /\ \A c \in Containers : \A o \in b.children[c] :
       o \in Outputs(b) /\ ContainerOf(b, RootOfOutput(b, o)) = c

\* A root has one active output at most, and has none once it is unmounted.
OneOutputEach(b, p) ==
  /\ \A o, x \in Outputs(b) :
       b.outputs[o].active /\ b.outputs[x].active /\ RootOfOutput(b, o) = RootOfOutput(b, x) =>
         o = x
  /\ \A o \in Outputs(b) : b.outputs[o].active => ~ p[RootOfOutput(b, o)].unmounted

\* A container has one live root at most, and is tracked while it has one.
OneOwnerEach(b, p, t) ==
  /\ \A r, x \in Roots(b) :
       ~ p[r].unmounted /\ ~ p[x].unmounted /\ ContainerOf(b, r) = ContainerOf(b, x) => r = x
  /\ \A c \in Containers : c \in t <=> \E r \in Roots(b) : ~ p[r].unmounted /\ ContainerOf(b, r) = c

\* The create request of a root is never removed.
Created(b) ==
  \A r \in Roots(b) : \E q \in Requests(b) : b.log[q].root = r /\ b.log[q].op = "create"

PublicOk(b, p, t) ==
  /\ IsBridge(b) /\ p \in Seq(PublicRecords) /\ Len(p) = Len(b.roots) /\ t \subseteq Containers
  /\ Idle(b) /\ Created(b)
  /\ PublicAgrees(b, p) /\ OutputsAgree(b) /\ OneOutputEach(b, p) /\ OneOwnerEach(b, p, t)

\* Bridge d comes from b by calls for root r that change no output.
Still(d, b, r) ==
  /\ IsBridge(d) /\ HasRecordsOf(d, b) /\ Len(d.roots) = Len(b.roots)
  /\ \A x \in Roots(b) : x # r => d.roots[x].status = b.roots[x].status
  /\ \A q \in Requests(b) : b.log[q].op = "create" => d.log[q].op = "create"
  /\ d.outputs = b.outputs /\ d.children = b.children

\* The same, except that an output may show something else, and that there may be new output
\* which is not shown.
Quiet(d, b, r) ==
  /\ IsBridge(d) /\ HasRecordsOf(d, b) /\ Len(d.roots) = Len(b.roots)
  /\ \A x \in Roots(b) : x # r => d.roots[x].status = b.roots[x].status
  /\ \A q \in Requests(b) : b.log[q].op = "create" => d.log[q].op = "create"
  /\ \A o \in Outputs(d) : o \notin Outputs(b) => ~ d.outputs[o].active /\ ~ d.outputs[o].mounted
  /\ \A o \in Outputs(b) :
       /\ d.outputs[o].active <=> b.outputs[o].active
       /\ d.outputs[o].mounted <=> b.outputs[o].mounted
  /\ d.children = b.children

\* Calls that change no output follow each other.
LEMMA StillChain ==
  ASSUME NEW a, NEW b, NEW d, NEW r, IsBridge(a), Still(b, a, r), Still(d, b, r)
  PROVE  Still(d, a, r)
  <1>1. IsBridge(b) /\ IsBridge(d) /\ HasRecordsOf(b, a) /\ HasRecordsOf(d, b)
        /\ Len(d.roots) = Len(b.roots) /\ Len(b.roots) = Len(a.roots)
        /\ d.outputs = a.outputs /\ d.children = a.children
    BY DEF Still
  <1>2. HasRecordsOf(d, a)
    BY <1>1, RecordsStay DEF IsBridge
  <1>3. \A x \in Roots(a) : x # r => d.roots[x].status = a.roots[x].status
    BY <1>1 DEF Still, Roots
  <1>4. \A q \in Requests(a) : q \in Requests(b)
    BY <1>1, BridgeTypes DEF HasRecordsOf, Requests, IsBridge
  <1>5. \A q \in Requests(a) : a.log[q].op = "create" => d.log[q].op = "create"
    BY <1>4 DEF Still
  <1> QED BY <1>1, <1>2, <1>3, <1>5 DEF Still

\* Calls that change no output leave what is shown as it is.
LEMMA StillIsQuiet ==
  ASSUME NEW b, NEW d, NEW r, Still(d, b, r)
  PROVE  Quiet(d, b, r)
  BY DEF Still, Quiet, Outputs

\* A call that keeps the requests keeps the create requests.
LEMMA CreatedStays ==
  ASSUME NEW b, IsBridge(b), Created(b), NEW d, IsBridge(d), HasRecordsOf(d, b),
         Len(d.roots) = Len(b.roots),
         \A q \in Requests(b) : b.log[q].op = "create" => d.log[q].op = "create"
  PROVE  Created(d)
  <1>1. Len(b.log) \in Nat /\ Len(d.log) \in Nat
    BY BridgeTypes DEF IsBridge
  <1>2. Len(b.log) <= Len(d.log) /\ \A q \in Requests(b) : d.log[q].root = b.log[q].root
    BY DEF HasRecordsOf
  <1>3. \A q \in Requests(b) : q \in Requests(d)
    BY <1>1, <1>2 DEF Requests
  <1>4. Roots(d) = Roots(b)
    BY DEF Roots
  <1> QED BY <1>2, <1>3, <1>4 DEF Created

\* The roots, their containers and the outputs are the same after calls that only update.
LEMMA QuietKeeps ==
  ASSUME NEW b, NEW p, NEW t, PublicOk(b, p, t), NEW d, NEW r, Quiet(d, b, r), Idle(d),
         ~ p[r].unmounted,
         b.roots[r].status = "unmounted" => d.roots[r].status = "unmounted"
  PROVE  PublicOk(d, p, t)
  <1>b. /\ IsBridge(b) /\ p \in Seq(PublicRecords) /\ Len(p) = Len(b.roots) /\ t \subseteq Containers
        /\ Created(b) /\ PublicAgrees(b, p) /\ OutputsAgree(b) /\ OneOutputEach(b, p)
        /\ OneOwnerEach(b, p, t)
    BY DEF PublicOk
  <1>d. IsBridge(d) /\ HasRecordsOf(d, b) /\ d.children = b.children
    BY DEF Quiet
  <1>r. Roots(d) = Roots(b)
    BY DEF Quiet, Roots
  <1>i. \A o \in Outputs(b) : o \in Outputs(d)
    BY <1>b, <1>d, BridgeTypes DEF HasRecordsOf, Outputs, IsBridge
  <1>n. \A o \in Outputs(d) : o \in Outputs(b) \/ (~ d.outputs[o].active /\ ~ d.outputs[o].mounted)
    BY DEF Quiet
  <1>o. \A o \in Outputs(b) :
          /\ RootOfOutput(b, o) \in Roots(b)
          /\ RootOfOutput(d, o) = RootOfOutput(b, o)
          /\ ContainerOf(d, RootOfOutput(d, o)) = ContainerOf(b, RootOfOutput(b, o))
          /\ d.outputs[o].active <=> b.outputs[o].active
          /\ d.outputs[o].mounted <=> b.outputs[o].mounted
    BY <1>b, <1>d, RootsStay DEF Quiet
  <1>c. \A x \in Roots(b) : ContainerOf(d, x) = ContainerOf(b, x)
    BY <1>d DEF HasRecordsOf, ContainerOf
  <1>1. Created(d)
    BY <1>b, <1>d, CreatedStays DEF Quiet
  <1>2. PublicAgrees(d, p)
    <2>1. \A x \in Roots(b) : Shows(d, x) <=> Shows(b, x)
      BY <1>i, <1>n, <1>o, <1>r DEF Shows
    <2>2. \A x \in Roots(b) : p[x].unmounted => d.roots[x].status = "unmounted"
      BY <1>b DEF PublicAgrees, Quiet
    <2> QED BY <2>1, <2>2, <1>b, <1>r DEF PublicAgrees
  <1>3. OutputsAgree(d)
    <2>1. ASSUME NEW o \in Outputs(d)
          PROVE  /\ d.outputs[o].mounted => d.outputs[o].active
                 /\ d.outputs[o].active =>
                      d.outputs[o].mounted \/ d.roots[RootOfOutput(d, o)].status = "unmounted"
                 /\ d.outputs[o].mounted <=> o \in d.children[ContainerOf(d, RootOfOutput(d, o))]
      <3>1. CASE o \in Outputs(b)
        <4>1. b.roots[RootOfOutput(b, o)].status = "unmounted" =>
                d.roots[RootOfOutput(b, o)].status = "unmounted"
          BY <3>1, <1>o DEF Quiet
        <4> QED BY <3>1, <4>1, <1>b, <1>d, <1>o DEF OutputsAgree
      <3>2. CASE o \notin Outputs(b)
        <4>1. RootOfOutput(d, o) \in Roots(d)
          BY <1>d DEF IsBridge, Links, RootOfOutput, RootOfAdmission
        <4>2. ContainerOf(d, RootOfOutput(d, o)) \in Containers
          BY <4>1, <1>d, ContainerTyped DEF IsBridge
        <4> QED BY <3>2, <4>2, <1>b, <1>d, <1>n DEF OutputsAgree
      <3> QED BY <3>1, <3>2
    <2>2. ASSUME NEW c \in Containers, NEW o \in d.children[c]
          PROVE  o \in Outputs(d) /\ ContainerOf(d, RootOfOutput(d, o)) = c
      BY <1>b, <1>d, <1>i, <1>o DEF OutputsAgree
    <2> QED BY <2>1, <2>2 DEF OutputsAgree
  <1>4. OneOutputEach(d, p)
    <2>1. \A o \in Outputs(d) : d.outputs[o].active => o \in Outputs(b) /\ b.outputs[o].active
      BY <1>n, <1>o
    <2> QED BY <2>1, <1>b, <1>o DEF OneOutputEach
  <1>5. OneOwnerEach(d, p, t)
    BY <1>b, <1>c, <1>r DEF OneOwnerEach
  <1>6. Len(p) = Len(d.roots)
    BY <1>b DEF Quiet
  <1> QED BY <1>b, <1>d, <1>1, <1>2, <1>3, <1>4, <1>5, <1>6 DEF PublicOk

\* The side effects of a root applied when no others are.
LEMMA ApplyIdle ==
  ASSUME NEW b, IsBridge(b), Idle(b), NEW r \in Roots(b), NEW d, d = ApplyEffects(b, r)
  PROVE  /\ Still(d, b, r) /\ Busy(d, r)
         /\ d.roots = b.roots /\ d.log = b.log /\ d.admissions = b.admissions
         /\ d.applied = b.applied
         /\ Len(d.effects) = Len(b.effects) + 1
  <1>1. ActiveEffects(b, r) = {}
    BY DEF ActiveEffects, Idle
  <1>2. /\ IsBridge(d) /\ HasRecordsOf(d, b)
        /\ d.roots = b.roots /\ d.log = b.log /\ d.admissions = b.admissions
        /\ d.outputs = b.outputs /\ d.children = b.children /\ d.applied = b.applied
        /\ d.marker = With(b.marker, ContainerOf(b, r), r)
        /\ Len(d.effects) = Len(b.effects) + 1
        /\ \A e \in Effects(b) : d.effects[e] = b.effects[e]
        /\ d.effects[Len(b.effects) + 1].root = r
        /\ d.effects[Len(b.effects) + 1].active
    BY <1>1, ApplyMakes
  <1>3. Still(d, b, r)
    BY <1>2 DEF Still
  <1>4. Len(b.effects) \in Nat /\ b.marker \in [Containers -> Nat]
    BY BridgeTypes DEF IsBridge
  <1>5. NewEffect(d) = Len(b.effects) + 1 /\ NewEffect(d) \in Effects(d)
        /\ \A e \in Effects(d) : e # NewEffect(d) => e \in Effects(b)
    BY <1>2, <1>4 DEF NewEffect, Effects
  <1>6. \A c \in Containers : c # ContainerOf(d, r) => d.marker[c] = None
    BY <1>2, <1>4 DEF With, ContainerOf, Idle
  <1>7. Busy(d, r)
    BY <1>2, <1>5, <1>6 DEF Busy, Idle
  <1> QED BY <1>2, <1>3, <1>7

\* The side effects applied last, and alone, reverted.
LEMMA RevertBusy ==
  ASSUME NEW b, IsBridge(b), NEW r \in Roots(b), Busy(b, r), NEW d, d = RevertEffects(b, NewEffect(b))
  PROVE  /\ Still(d, b, r) /\ Idle(d)
         /\ d.roots = b.roots /\ d.log = b.log /\ d.admissions = b.admissions
  <1>1. PICK e \in Effects(b) : e = NewEffect(b) /\ b.effects[e].active /\ b.effects[e].root = r
    BY DEF Busy
  <1>2. /\ IsBridge(d) /\ HasRecordsOf(d, b)
        /\ d.roots = b.roots /\ d.log = b.log /\ d.admissions = b.admissions
        /\ d.outputs = b.outputs /\ d.children = b.children
        /\ d.marker = With(b.marker, ContainerOf(b, b.effects[e].root), None)
        /\ Len(d.effects) = Len(b.effects)
        /\ \A x \in Effects(b) : x # e => d.effects[x] = b.effects[x]
        /\ ~ d.effects[e].active
    BY <1>1, RevertMakes
  <1>3. Still(d, b, r)
    BY <1>2 DEF Still
  <1>4. b.marker \in [Containers -> Nat] /\ Effects(d) = Effects(b)
    BY <1>2, BridgeTypes DEF IsBridge, Effects
  <1>5. \A c \in Containers : d.marker[c] = None
    BY <1>1, <1>2, <1>4 DEF With, Busy
  <1>6. Idle(d)
    BY <1>1, <1>2, <1>4, <1>5 DEF Idle, Busy
  <1> QED BY <1>2, <1>3, <1>6

\* The latest admission of a request is an admission of it.
LEMMA LatestAdmissionIs ==
  ASSUME NEW b \in BridgeRecords, NEW q, LatestAdmission(b, q) # None
  PROVE  LatestAdmission(b, q) \in Admissions(b)
  <1> DEFINE of == {a \in Admissions(b) : b.admissions[a].render = q}
  <1>1. of # {} /\ LatestAdmission(b, q) = CHOOSE a \in of : \A other \in of : other <= a
    BY DEF LatestAdmission
  <1>2. Len(b.admissions) \in Nat /\ of \subseteq 1 .. Len(b.admissions)
    BY BridgeTypes DEF Admissions
  <1> HIDE DEF of
  <1>3. \E a \in of : \A other \in of : other <= a
    BY <1>1, <1>2, GreatestExists
  <1>4. LatestAdmission(b, q) \in of
    BY <1>1, <1>3
  <1> QED BY <1>4 DEF of

\* A request is admitted under side effects that nothing was admitted under yet.
LEMMA AdmitBusy ==
  ASSUME NEW b, IsBridge(b), NEW r \in Roots(b), Busy(b, r), NEW q \in Requests(b),
         \A a \in Admissions(b) : b.admissions[a].effect # NewEffect(b),
         NEW d, d = Admit(b, NewEffect(b), q)
  PROVE  /\ Still(d, b, r) /\ Busy(d, r)
         /\ d.log = b.log /\ d.effects = b.effects /\ d.marker = b.marker
         /\ \A x \in Roots(b) : d.roots[x].status = b.roots[x].status
         /\ Len(d.admissions) = Len(b.admissions) + 1
         /\ d.admissions[NewAdmission(d)].render = q
         /\ d.admissions[NewAdmission(d)].effect = NewEffect(d)
         /\ NewAdmission(d) \in Admissions(d)
  <1>1. PICK e \in Effects(b) : e = NewEffect(b)
    BY DEF Busy
  <1>2. ~ Admitted(b, e, q)
    BY <1>1, LatestAdmissionIs DEF Admitted, IsBridge
  <1>3. /\ IsBridge(d) /\ HasRecordsOf(d, b)
        /\ d.log = b.log /\ d.marker = b.marker /\ d.effects = b.effects
        /\ d.outputs = b.outputs /\ d.children = b.children
        /\ Len(d.roots) = Len(b.roots)
        /\ \A x \in Roots(b) :
             /\ d.roots[x].container = b.roots[x].container
             /\ d.roots[x].status = b.roots[x].status
        /\ Len(d.admissions) = Len(b.admissions) + 1
        /\ d.admissions[Len(b.admissions) + 1].render = q
        /\ d.admissions[Len(b.admissions) + 1].effect = e
    BY <1>1, <1>2, AdmitMakes
  <1>4. Still(d, b, r)
    BY <1>3 DEF Still
  <1>5. Busy(d, r)
    BY <1>3 DEF Busy, NewEffect, Effects, ContainerOf
  <1>6. NewAdmission(d) = Len(b.admissions) + 1 /\ NewEffect(d) = e
    BY <1>1, <1>3 DEF NewAdmission, NewEffect
  <1>7. NewAdmission(d) \in Admissions(d)
    BY <1>3, <1>6, BridgeTypes DEF Admissions, IsBridge
  <1> QED BY <1>3, <1>4, <1>5, <1>6, <1>7

\* The render of a root under its side effects.
LEMMA RenderAdmittedMakes ==
  ASSUME NEW b, IsBridge(b), Idle(b), NEW r \in Roots(b), NEW d, d = RenderAdmitted(b, r)
  PROVE  /\ Still(d, b, r) /\ Busy(d, r)
         /\ Len(d.admissions) = Len(b.admissions) + 1
         /\ RootOfAdmission(d, NewAdmission(d)) = r
         /\ NewAdmission(d) \in Admissions(d)
  <1> DEFINE x == ApplyEffects(b, r)
             y == RenderContainer(x, r)
  <1>1. /\ Still(x, b, r) /\ Busy(x, r) /\ x.admissions = b.admissions /\ x.roots = b.roots
        /\ Len(x.effects) = Len(b.effects) + 1
    BY ApplyIdle
  <1>2. IsBridge(x) /\ r \in Roots(x)
    BY <1>1 DEF Still, Roots
  <1> HIDE DEF x
  <1>3. /\ IsBridge(y) /\ HasRecordsOf(y, x)
        /\ y.marker = x.marker /\ y.effects = x.effects /\ y.admissions = x.admissions
        /\ y.outputs = x.outputs /\ y.children = x.children
        /\ Len(y.roots) = Len(x.roots) /\ Len(y.log) = Len(x.log) + 1
        /\ \A z \in Roots(x) : z # r => y.roots[z] = x.roots[z]
        /\ y.roots[r].container = x.roots[r].container
        /\ \A q \in Requests(x) : y.log[q] = x.log[q]
        /\ y.log[Len(x.log) + 1].root = r
    BY <1>2, RenderMakes
  <1> HIDE DEF y
  <1>4. Still(y, x, r)
    BY <1>3 DEF Still
  <1>5. Busy(y, r)
    BY <1>1, <1>3 DEF Busy, NewEffect, Effects, ContainerOf
  <1>6. PICK q \in Requests(y) : q = NewRequest(y) /\ y.log[q].root = r
    <2>1. Len(x.log) \in Nat
      BY <1>2, BridgeTypes DEF IsBridge
    <2> QED BY <2>1, <1>3 DEF NewRequest, Requests
  <1>7. \A a \in Admissions(y) : y.admissions[a].effect # NewEffect(y)
    <2>1. \A a \in Admissions(b) : b.admissions[a].effect \in 1 .. Len(b.effects)
      BY DEF IsBridge, Links, Effects
    <2>2. Len(b.effects) \in Nat
      BY BridgeTypes DEF IsBridge
    <2>3. NewEffect(y) = Len(b.effects) + 1 /\ y.admissions = b.admissions
      BY <1>1, <1>3 DEF NewEffect
    <2> QED BY <2>1, <2>2, <2>3 DEF Admissions
  <1>8. d = Admit(y, NewEffect(y), q)
    BY <1>6 DEF RenderAdmitted, y, x
  <1>9. r \in Roots(y)
    BY <1>2, <1>3 DEF Roots
  <1>10. /\ Still(d, y, r) /\ Busy(d, r) /\ d.log = y.log
         /\ Len(d.admissions) = Len(y.admissions) + 1
         /\ d.admissions[NewAdmission(d)].render = q
         /\ NewAdmission(d) \in Admissions(d)
    BY <1>3, <1>5, <1>7, <1>8, <1>9, AdmitBusy
  <1>11. Still(d, b, r)
    BY <1>1, <1>2, <1>4, <1>10, StillChain
  <1>12. RootOfAdmission(d, NewAdmission(d)) = r
    BY <1>6, <1>10 DEF RootOfAdmission
  <1> QED BY <1>1, <1>3, <1>10, <1>11, <1>12

\* The unmount request of a root that shows output, under its side effects.
LEMMA UnmountAdmittedMakes ==
  ASSUME NEW b, IsBridge(b), Idle(b), NEW r \in Roots(b), NEW o \in Outputs(b),
         NEW d, d = UnmountAdmitted(b, r, o)
  PROVE  /\ Still(d, b, r) /\ Busy(d, r)
         /\ d.roots[r].status = "unmounted"
         /\ d.admissions[NewAdmission(d)].effect = NewEffect(d)
         /\ NewAdmission(d) \in Admissions(d)
         /\ NewRequest(d) \in Requests(d)
         /\ d.log[NewRequest(d)].root = r
  <1> DEFINE x == UnmountContainer(b, r)
             y == ApplyEffects(x, r)
  <1>1. /\ IsBridge(x) /\ HasRecordsOf(x, b)
        /\ x.marker = b.marker /\ x.effects = b.effects /\ x.admissions = b.admissions
        /\ x.outputs = b.outputs /\ x.children = b.children
        /\ Len(x.roots) = Len(b.roots) /\ Len(x.log) = Len(b.log) + 1
        /\ \A z \in Roots(b) : z # r => x.roots[z] = b.roots[z]
        /\ x.roots[r].status = "unmounted"
        /\ \A q \in Requests(b) : x.log[q] = b.log[q]
        /\ x.log[Len(b.log) + 1].root = r
    BY UnmountMakes
  <1> HIDE DEF x
  <1>2. Still(x, b, r)
    BY <1>1 DEF Still
  <1>3. Idle(x) /\ r \in Roots(x)
    BY <1>1 DEF Idle, Effects, Roots
  <1>4. /\ Still(y, x, r) /\ Busy(y, r) /\ y.roots = x.roots /\ y.log = x.log
        /\ y.admissions = x.admissions /\ Len(y.effects) = Len(x.effects) + 1
    BY <1>1, <1>3, ApplyIdle
  <1> HIDE DEF y
  <1>5. IsBridge(y) /\ r \in Roots(y)
    BY <1>3, <1>4 DEF Still, Roots
  <1>n. Len(b.log) \in Nat /\ Len(b.effects) \in Nat
    BY BridgeTypes DEF IsBridge
  <1>6. PICK q \in Requests(y) : q = b.outputs[o].content
    <2>1. b.outputs[o].content \in Requests(b)
      BY DEF IsBridge, Links
    <2> QED BY <2>1, <1>1, <1>4, <1>n DEF Requests
  <1>7. \A a \in Admissions(y) : y.admissions[a].effect # NewEffect(y)
    <2>1. \A a \in Admissions(b) : b.admissions[a].effect \in 1 .. Len(b.effects)
      BY DEF IsBridge, Links, Effects
    <2>2. NewEffect(y) = Len(b.effects) + 1 /\ y.admissions = b.admissions
      BY <1>1, <1>4 DEF NewEffect
    <2> QED BY <2>1, <2>2, <1>n DEF Admissions
  <1>8. d = Admit(y, NewEffect(y), q)
    BY <1>6 DEF UnmountAdmitted, y, x
  <1>9. /\ Still(d, y, r) /\ Busy(d, r) /\ d.log = y.log
        /\ \A z \in Roots(y) : d.roots[z].status = y.roots[z].status
        /\ d.admissions[NewAdmission(d)].effect = NewEffect(d)
        /\ NewAdmission(d) \in Admissions(d)
    BY <1>4, <1>5, <1>7, <1>8, AdmitBusy
  <1>10. Still(d, b, r)
    <2>1. Still(y, b, r)
      BY <1>2, <1>4, StillChain
    <2> QED BY <2>1, <1>9, StillChain
  <1>11. NewRequest(d) \in Requests(d) /\ d.log[NewRequest(d)].root = r
    BY <1>1, <1>4, <1>9, <1>n DEF NewRequest, Requests
  <1>12. d.roots[r].status = "unmounted"
    BY <1>1, <1>4, <1>5, <1>9
  <1> QED BY <1>9, <1>10, <1>11, <1>12

\* The active output of a root is one it shows.
LEMMA ActiveOutputIs ==
  ASSUME NEW b, IsBridge(b), NEW r
  PROVE  /\ ActiveOutput(b, r) # None <=> Shows(b, r)
         /\ ActiveOutput(b, r) # None =>
              /\ ActiveOutput(b, r) \in Outputs(b)
              /\ RootOfOutput(b, ActiveOutput(b, r)) = r
              /\ b.outputs[ActiveOutput(b, r)].active
  <1> DEFINE active == {o \in Outputs(b) : RootOfOutput(b, o) = r /\ b.outputs[o].active}
  <1>1. active # {} <=> Shows(b, r)
    BY DEF Shows
  <1>2. active = {} => ActiveOutput(b, r) = None
    BY DEF ActiveOutput
  <1>3. active # {} =>
          ActiveOutput(b, r) = CHOOSE o \in active : \A other \in active : o <= other
    BY DEF ActiveOutput
  <1>4. active \subseteq Nat /\ None \notin active
    BY BridgeTypes DEF Outputs, IsBridge, None
  <1>5. ASSUME active # {} PROVE ActiveOutput(b, r) \in active
    <2> HIDE DEF active
    <2>1. \E o \in active : \A other \in active : o <= other
      BY <1>4, <1>5, LeastExists
    <2> QED BY <2>1, <1>3, <1>5
  <1> QED BY <1>1, <1>2, <1>4, <1>5

\* A render that fails takes its side effects back.
LEMMA InitialRenderFailsIs ==
  ASSUME NEW b, IsBridge(b), Idle(b), NEW r \in Roots(b), NEW d, d = InitialRenderFails(b, r)
  PROVE  Still(d, b, r) /\ Idle(d)
  <1> DEFINE x == RenderAdmitted(b, r)
  <1>1. Still(x, b, r) /\ Busy(x, r)
    BY RenderAdmittedMakes
  <1>2. d = RevertEffects(x, NewEffect(x))
    BY DEF InitialRenderFails
  <1> HIDE DEF x
  <1>3. IsBridge(x) /\ r \in Roots(x)
    BY <1>1 DEF Still, Roots
  <1>4. Still(d, x, r) /\ Idle(d)
    BY <1>1, <1>2, <1>3, RevertBusy
  <1> QED BY <1>1, <1>4, StillChain

\* The first render of a root shows one output more, in the container of the root.
LEMMA ShownMakes ==
  ASSUME NEW b, IsBridge(b), Idle(b), NEW r \in Roots(b),
         NEW d, d = Show(RenderAdmitted(b, r), NewAdmission(RenderAdmitted(b, r)))
  PROVE  /\ IsBridge(d) /\ HasRecordsOf(d, b) /\ Busy(d, r) /\ Len(d.roots) = Len(b.roots)
         /\ \A x \in Roots(b) : x # r => d.roots[x].status = b.roots[x].status
         /\ \A q \in Requests(b) : b.log[q].op = "create" => d.log[q].op = "create"
         /\ Len(d.outputs) = Len(b.outputs) + 1
         /\ \A o \in Outputs(b) : d.outputs[o] = b.outputs[o]
         /\ d.outputs[Len(b.outputs) + 1].active
         /\ d.outputs[Len(b.outputs) + 1].mounted
         /\ RootOfOutput(d, Len(b.outputs) + 1) = r
         /\ d.children = WithChild(b.children, ContainerOf(b, r), Len(b.outputs) + 1)
  <1> DEFINE x == RenderAdmitted(b, r)
             a == NewAdmission(x)
  <1>1. /\ Still(x, b, r) /\ Busy(x, r) /\ Len(x.admissions) = Len(b.admissions) + 1
        /\ RootOfAdmission(x, a) = r /\ a \in Admissions(x)
    BY RenderAdmittedMakes
  <1>2. d = Show(x, a)
    OBVIOUS
  <1> HIDE DEF x
  <1>3. IsBridge(x) /\ r \in Roots(x) /\ HasRecordsOf(x, b) /\ x.outputs = b.outputs
        /\ x.children = b.children /\ Len(x.roots) = Len(b.roots)
    BY <1>1 DEF Still, Roots
  <1>4. ~ HasActiveOutput(x, a)
    <2>1. \A o \in Outputs(b) : b.outputs[o].admission \in 1 .. Len(b.admissions)
      BY DEF IsBridge, Links, Admissions
    <2>2. Len(b.admissions) \in Nat /\ a = Len(b.admissions) + 1
      BY <1>1, BridgeTypes DEF IsBridge, NewAdmission
    <2>3. \A o \in Outputs(x) : x.outputs[o].admission # a
      BY <2>1, <2>2, <1>3 DEF Outputs
    <2> QED BY <2>3, <1>3, LatestOutputIs DEF HasActiveOutput, IsBridge
  <1>c. ContainerOf(x, r) = ContainerOf(b, r)
    BY <1>3 DEF HasRecordsOf, ContainerOf
  <1> HIDE DEF a
  <1>5. /\ IsBridge(d) /\ HasRecordsOf(d, x)
        /\ d.roots = x.roots /\ d.log = x.log /\ d.marker = x.marker
        /\ d.effects = x.effects /\ d.admissions = x.admissions
        /\ Len(d.outputs) = Len(x.outputs) + 1
        /\ \A o \in Outputs(x) : d.outputs[o] = x.outputs[o]
        /\ d.outputs[Len(x.outputs) + 1].admission = a
        /\ d.outputs[Len(x.outputs) + 1].active
        /\ d.outputs[Len(x.outputs) + 1].mounted
        /\ d.children = WithChild(x.children, ContainerOf(x, RootOfAdmission(x, a)),
                                  Len(x.outputs) + 1)
    BY <1>1, <1>2, <1>3, <1>4, ShowMakes
  <1>6. Busy(d, r)
    BY <1>1, <1>3, <1>5 DEF Busy, NewEffect, Effects, ContainerOf, Roots
  <1>7. HasRecordsOf(d, b)
    BY <1>3, <1>5, RecordsStay DEF IsBridge
  <1>8. Len(d.outputs) = Len(b.outputs) + 1 /\ \A o \in Outputs(b) : d.outputs[o] = b.outputs[o]
    BY <1>3, <1>5 DEF Outputs
  <1>9. RootOfOutput(d, Len(b.outputs) + 1) = r
    BY <1>1, <1>3, <1>5 DEF RootOfOutput, RootOfAdmission
  <1>10. d.children = WithChild(b.children, ContainerOf(b, r), Len(b.outputs) + 1)
    BY <1>1, <1>3, <1>5, <1>c
  <1>11. /\ \A z \in Roots(b) : z # r => d.roots[z].status = b.roots[z].status
         /\ \A q \in Requests(b) : b.log[q].op = "create" => d.log[q].op = "create"
         /\ Len(d.roots) = Len(b.roots)
    BY <1>1, <1>3, <1>5 DEF Still
  <1> QED BY <1>3, <1>5, <1>6, <1>7, <1>8, <1>9, <1>10, <1>11

\* A first render that returns takes its side effects back and keeps its output.
LEMMA InitialRenderIs ==
  ASSUME NEW b, IsBridge(b), Idle(b), NEW r \in Roots(b), NEW d, d = InitialRender(b, r)
  PROVE  /\ IsBridge(d) /\ HasRecordsOf(d, b) /\ Idle(d) /\ Len(d.roots) = Len(b.roots)
         /\ \A x \in Roots(b) : x # r => d.roots[x].status = b.roots[x].status
         /\ \A q \in Requests(b) : b.log[q].op = "create" => d.log[q].op = "create"
         /\ Len(d.outputs) = Len(b.outputs) + 1
         /\ \A o \in Outputs(b) : d.outputs[o] = b.outputs[o]
         /\ d.outputs[Len(b.outputs) + 1].active
         /\ d.outputs[Len(b.outputs) + 1].mounted
         /\ RootOfOutput(d, Len(b.outputs) + 1) = r
         /\ d.children = WithChild(b.children, ContainerOf(b, r), Len(b.outputs) + 1)
  <1> DEFINE y == Show(RenderAdmitted(b, r), NewAdmission(RenderAdmitted(b, r)))
             n == Len(b.outputs) + 1
  <1>1. /\ IsBridge(y) /\ HasRecordsOf(y, b) /\ Busy(y, r) /\ Len(y.roots) = Len(b.roots)
        /\ \A x \in Roots(b) : x # r => y.roots[x].status = b.roots[x].status
        /\ \A q \in Requests(b) : b.log[q].op = "create" => y.log[q].op = "create"
        /\ Len(y.outputs) = n
        /\ \A o \in Outputs(b) : y.outputs[o] = b.outputs[o]
        /\ y.outputs[n].active /\ y.outputs[n].mounted
        /\ RootOfOutput(y, n) = r
        /\ y.children = WithChild(b.children, ContainerOf(b, r), n)
    BY ShownMakes
  <1>2. d = RevertEffects(y, NewEffect(y))
    BY DEF InitialRender
  <1> HIDE DEF y
  <1>3. r \in Roots(y)
    BY <1>1 DEF Roots
  <1>4. /\ Still(d, y, r) /\ Idle(d)
        /\ d.roots = y.roots /\ d.log = y.log /\ d.admissions = y.admissions
    BY <1>1, <1>2, <1>3, RevertBusy
  <1>5. IsBridge(d) /\ HasRecordsOf(d, y) /\ d.outputs = y.outputs /\ d.children = y.children
    BY <1>4 DEF Still
  <1>6. HasRecordsOf(d, b)
    BY <1>1, <1>5, RecordsStay DEF IsBridge
  <1>7. RootOfOutput(d, n) = r
    BY <1>1, <1>4, <1>5 DEF RootOfOutput, RootOfAdmission
  <1> QED BY <1>1, <1>4, <1>5, <1>6, <1>7

\* A first render that cannot take its side effects back at once cleans its output up.
LEMMA InitialRenderRevertFailsIs ==
  ASSUME NEW b, IsBridge(b), Idle(b), OutputsAgree(b), NEW r \in Roots(b),
         NEW d, d = InitialRenderRevertFails(b, r)
  PROVE  /\ Quiet(d, b, r) /\ Idle(d)
         /\ \A o \in Outputs(b) : d.outputs[o].content = b.outputs[o].content
  <1> DEFINE y == Show(RenderAdmitted(b, r), NewAdmission(RenderAdmitted(b, r)))
             n == Len(b.outputs) + 1
             z == CleanupOutput(y, n)
             c == ContainerOf(b, r)
  <1>1. /\ IsBridge(y) /\ HasRecordsOf(y, b) /\ Busy(y, r) /\ Len(y.roots) = Len(b.roots)
        /\ \A x \in Roots(b) : x # r => y.roots[x].status = b.roots[x].status
        /\ \A q \in Requests(b) : b.log[q].op = "create" => y.log[q].op = "create"
        /\ Len(y.outputs) = n
        /\ \A o \in Outputs(b) : y.outputs[o] = b.outputs[o]
        /\ y.outputs[n].active /\ y.outputs[n].mounted
        /\ RootOfOutput(y, n) = r
        /\ y.children = WithChild(b.children, c, n)
    BY ShownMakes
  <1>2. d = RevertEffects(CleanupOutput(y, Len(y.outputs)), NewEffect(y))
    BY DEF InitialRenderRevertFails
  <1> HIDE DEF y
  <1>n. Len(b.outputs) \in Nat /\ b.children \in [Containers -> SUBSET Nat]
    BY BridgeTypes DEF IsBridge
  <1>3. n \in Outputs(y) /\ n \notin Outputs(b) /\ \A o \in Outputs(y) : o = n \/ o \in Outputs(b)
    BY <1>1, <1>n DEF Outputs
  <1>c. c \in Containers /\ ContainerOf(y, r) = c
    BY <1>1, ContainerTyped DEF IsBridge, HasRecordsOf, ContainerOf
  <1> HIDE DEF n
  <1>4. /\ IsBridge(z) /\ HasRecordsOf(z, y)
        /\ z.roots = y.roots /\ z.log = y.log /\ z.marker = y.marker
        /\ z.effects = y.effects /\ z.admissions = y.admissions
        /\ Len(z.outputs) = Len(y.outputs)
        /\ \A x \in Outputs(y) : x # n => z.outputs[x] = y.outputs[x]
        /\ ~ z.outputs[n].active /\ ~ z.outputs[n].mounted
        /\ z.children = WithoutChild(y.children, ContainerOf(y, RootOfOutput(y, n)), n)
    BY <1>1, <1>3, CleanupMakes
  <1>5. d = RevertEffects(z, NewEffect(z))
    BY <1>1, <1>2, <1>4 DEF NewEffect
  <1> HIDE DEF z
  <1>6. Busy(z, r) /\ r \in Roots(z)
    BY <1>1, <1>4 DEF Busy, NewEffect, Effects, ContainerOf, Roots
  <1>7. /\ Still(d, z, r) /\ Idle(d)
        /\ d.roots = z.roots /\ d.log = z.log /\ d.admissions = z.admissions
    BY <1>4, <1>5, <1>6, RevertBusy
  <1>8. IsBridge(d) /\ HasRecordsOf(d, z) /\ d.outputs = z.outputs /\ d.children = z.children
    BY <1>7 DEF Still
  <1>9. HasRecordsOf(d, b)
    <2>1. HasRecordsOf(z, b)
      BY <1>1, <1>4, RecordsStay DEF IsBridge
    <2> QED BY <2>1, <1>4, <1>8, RecordsStay DEF IsBridge
  <1>10. d.children = b.children
    <2>1. n \notin b.children[c]
      BY <1>3, <1>c DEF OutputsAgree
    <2>2. z.children = WithoutChild(WithChild(b.children, c, n), c, n)
      BY <1>1, <1>4, <1>c
    <2>3. WithoutChild(WithChild(b.children, c, n), c, n) = b.children
      BY <2>1, <1>n, <1>c DEF WithChild, WithoutChild
    <2> QED BY <2>2, <2>3, <1>8
  <1>11. \A o \in Outputs(b) : d.outputs[o] = b.outputs[o]
    <2>1. \A o \in Outputs(b) : o \in Outputs(y) /\ o # n
      BY <1>1, <1>3, <1>n DEF Outputs, n
    <2> QED BY <2>1, <1>1, <1>4, <1>8
  <1>12. \A o \in Outputs(d) : o \notin Outputs(b) => ~ d.outputs[o].active /\ ~ d.outputs[o].mounted
    <2>1. Outputs(d) = Outputs(y)
      BY <1>4, <1>8 DEF Outputs
    <2> QED BY <2>1, <1>3, <1>4, <1>8
  <1>13. /\ Len(d.roots) = Len(b.roots)
         /\ \A x \in Roots(b) : x # r => d.roots[x].status = b.roots[x].status
         /\ \A q \in Requests(b) : b.log[q].op = "create" => d.log[q].op = "create"
    BY <1>1, <1>4, <1>7
  <1> QED BY <1>7, <1>8, <1>9, <1>10, <1>11, <1>12, <1>13 DEF Quiet

\* Public roots that differ from others in root r alone, and there in what is mounted.
MountsOnly(s, p, r) ==
  /\ s \in Seq(PublicRecords) /\ Len(s) = Len(p)
  /\ \A x \in 1 .. Len(p) : s[x].unmounted <=> p[x].unmounted
  /\ \A x \in 1 .. Len(p) : x # r => s[x] = p[x]

\* The assignment of hostOutputMounted.
LEMMA MountedChanges ==
  ASSUME NEW p, p \in Seq(PublicRecords), NEW r, r \in 1 .. Len(p)
  PROVE  /\ MountsOnly([p EXCEPT ![r].mounted = TRUE], p, r)
         /\ MountsOnly([p EXCEPT ![r].mounted = FALSE], p, r)
         /\ [p EXCEPT ![r].mounted = TRUE][r].mounted
         /\ ~ [p EXCEPT ![r].mounted = FALSE][r].mounted
  <1>1. p[r] \in PublicRecords
    OBVIOUS
  <1>2. ASSUME NEW flag \in BOOLEAN, NEW v, v = [p[r] EXCEPT !.mounted = flag],
               NEW s, s = [p EXCEPT ![r] = v]
        PROVE  MountsOnly(s, p, r) /\ (s[r].mounted <=> flag)
    <2>1. v \in PublicRecords /\ (v.mounted <=> flag) /\ (v.unmounted <=> p[r].unmounted)
      BY <1>1, <1>2 DEF PublicRecords
    <2>2. /\ s \in Seq(PublicRecords) /\ Len(s) = Len(p) /\ s[r] = v
          /\ \A x \in 1 .. Len(p) : x # r => s[x] = p[x]
      BY <2>1, <1>2
    <2> QED BY <2>1, <2>2 DEF MountsOnly
  <1>3. /\ [p EXCEPT ![r].mounted = TRUE] = [p EXCEPT ![r] = [p[r] EXCEPT !.mounted = TRUE]]
        /\ [p EXCEPT ![r].mounted = FALSE] = [p EXCEPT ![r] = [p[r] EXCEPT !.mounted = FALSE]]
    OBVIOUS
  <1> QED BY <1>2, <1>3

\* A first render keeps the invariant.
LEMMA InitialRenderKeeps ==
  ASSUME NEW b, NEW p, NEW t, PublicOk(b, p, t), NEW r \in Roots(b), ~ p[r].unmounted,
         ~ Shows(b, r), NEW d, d = InitialRender(b, r), NEW s,
         MountsOnly(s, p, r), s[r].mounted
  PROVE  PublicOk(d, s, t)
  <1> DEFINE n == Len(b.outputs) + 1
  <1>b. /\ IsBridge(b) /\ p \in Seq(PublicRecords) /\ Len(p) = Len(b.roots) /\ t \subseteq Containers
        /\ Idle(b) /\ Created(b) /\ PublicAgrees(b, p) /\ OutputsAgree(b) /\ OneOutputEach(b, p)
        /\ OneOwnerEach(b, p, t)
    BY DEF PublicOk
  <1>d. /\ IsBridge(d) /\ HasRecordsOf(d, b) /\ Idle(d) /\ Len(d.roots) = Len(b.roots)
        /\ \A x \in Roots(b) : x # r => d.roots[x].status = b.roots[x].status
        /\ \A q \in Requests(b) : b.log[q].op = "create" => d.log[q].op = "create"
        /\ Len(d.outputs) = n
        /\ \A o \in Outputs(b) : d.outputs[o] = b.outputs[o]
        /\ d.outputs[n].active /\ d.outputs[n].mounted
        /\ RootOfOutput(d, n) = r
        /\ d.children = WithChild(b.children, ContainerOf(b, r), n)
    BY <1>b, InitialRenderIs
  <1>s. /\ s \in Seq(PublicRecords) /\ Len(s) = Len(p) /\ s[r].mounted
        /\ \A x \in Roots(b) : s[x].unmounted <=> p[x].unmounted
        /\ \A x \in Roots(b) : x # r => s[x] = p[x]
    BY <1>b DEF MountsOnly, Roots
  <1>n. Len(b.outputs) \in Nat /\ b.children \in [Containers -> SUBSET Nat]
    BY <1>b, BridgeTypes DEF IsBridge
  <1>r. Roots(d) = Roots(b) /\ Outputs(d) = Outputs(b) \cup {n} /\ n \notin Outputs(b) /\ n \in Nat
    BY <1>d, <1>n DEF Roots, Outputs
  <1> HIDE DEF n
  <1>o. \A o \in Outputs(b) :
          /\ RootOfOutput(b, o) \in Roots(b)
          /\ RootOfOutput(d, o) = RootOfOutput(b, o)
          /\ ContainerOf(d, RootOfOutput(d, o)) = ContainerOf(b, RootOfOutput(b, o))
    BY <1>b, <1>d, RootsStay
  <1>c. \A x \in Roots(b) : ContainerOf(d, x) = ContainerOf(b, x)
    BY <1>d DEF HasRecordsOf, ContainerOf
  <1>h. ContainerOf(b, r) \in Containers
    BY <1>b, ContainerTyped DEF IsBridge
  <1>k. \A c \in Containers : \A o :
          o \in d.children[c] <=> o \in b.children[c] \/ (c = ContainerOf(b, r) /\ o = n)
    BY <1>d, <1>n, <1>h DEF WithChild
  <1>1. Created(d)
    BY <1>b, <1>d, CreatedStays
  <1>2. PublicAgrees(d, s)
    <2>1. \A x \in Roots(b) : Shows(d, x) <=> Shows(b, x) \/ x = r
      BY <1>d, <1>o, <1>r DEF Shows
    <2>2. \A x \in Roots(b) : p[x].unmounted => d.roots[x].status = "unmounted"
      BY <1>b, <1>d DEF PublicAgrees
    <2> QED BY <2>1, <2>2, <1>b, <1>r, <1>s DEF PublicAgrees
  <1>3. OutputsAgree(d)
    <2>1. ASSUME NEW o \in Outputs(d)
          PROVE  /\ d.outputs[o].mounted => d.outputs[o].active
                 /\ d.outputs[o].active =>
                      d.outputs[o].mounted \/ d.roots[RootOfOutput(d, o)].status = "unmounted"
                 /\ d.outputs[o].mounted <=> o \in d.children[ContainerOf(d, RootOfOutput(d, o))]
      <3>1. CASE o = n
        BY <3>1, <1>c, <1>d, <1>h, <1>k
      <3>2. CASE o # n
        <4>1. o \in Outputs(b) /\ ContainerOf(b, RootOfOutput(b, o)) \in Containers
          BY <3>2, <1>b, <1>o, <1>r, ContainerTyped DEF IsBridge
        <4>2. b.outputs[o].active =>
                d.roots[RootOfOutput(b, o)].status = b.roots[RootOfOutput(b, o)].status
          BY <4>1, <1>d, <1>o DEF Shows
        <4> QED BY <4>1, <4>2, <3>2, <1>b, <1>d, <1>k, <1>o DEF OutputsAgree
      <3> QED BY <3>1, <3>2
    <2>2. ASSUME NEW c \in Containers, NEW o \in d.children[c]
          PROVE  o \in Outputs(d) /\ ContainerOf(d, RootOfOutput(d, o)) = c
      BY <1>b, <1>c, <1>d, <1>k, <1>o, <1>r DEF OutputsAgree
    <2> QED BY <2>1, <2>2 DEF OutputsAgree
  <1>4. OneOutputEach(d, s)
    <2>1. \A o \in Outputs(b) : d.outputs[o].active => RootOfOutput(d, o) # r
      BY <1>d, <1>o DEF Shows
    <2>2. \A o, x \in Outputs(b) :
            d.outputs[o].active /\ d.outputs[x].active
              /\ RootOfOutput(d, o) = RootOfOutput(d, x) => o = x
      BY <1>b, <1>d, <1>o DEF OneOutputEach
    <2>3. \A o \in Outputs(b) : d.outputs[o].active => ~ s[RootOfOutput(d, o)].unmounted
      BY <1>b, <1>d, <1>o, <1>s DEF OneOutputEach
    <2> QED BY <2>1, <2>2, <2>3, <1>d, <1>r, <1>s DEF OneOutputEach
  <1>5. OneOwnerEach(d, s, t)
    BY <1>b, <1>c, <1>r, <1>s DEF OneOwnerEach
  <1>6. Len(s) = Len(d.roots)
    BY <1>b, <1>d, <1>s
  <1> QED BY <1>b, <1>d, <1>s, <1>1, <1>2, <1>3, <1>4, <1>5, <1>6 DEF PublicOk

\* The admission of a root handle is forgotten.
Forget(b, r) == [b EXCEPT !.roots[r].admission = None]

\* Only the root handle changes.
LEMMA ForgetMakes ==
  ASSUME NEW b, IsBridge(b), NEW r \in Roots(b), NEW d, d = Forget(b, r)
  PROVE  /\ IsBridge(d) /\ HasRecordsOf(d, b) /\ Len(d.roots) = Len(b.roots)
         /\ \A x \in Roots(b) :
              /\ d.roots[x].container = b.roots[x].container
              /\ d.roots[x].status = b.roots[x].status
         /\ d.log = b.log /\ d.marker = b.marker /\ d.effects = b.effects
         /\ d.outputs = b.outputs /\ d.children = b.children
  <1> DEFINE root == [b.roots[r] EXCEPT !.admission = None]
             roots == [b.roots EXCEPT ![r] = root]
  <1>b. b \in BridgeRecords /\ Links(b) /\ r \in 1 .. Len(b.roots)
    BY DEF IsBridge, Roots
  <1>r. b.roots[r] \in RootRecords
    BY <1>b, RecordTypes
  <1>1. /\ root \in RootRecords /\ root.container = b.roots[r].container
        /\ root.status = b.roots[r].status
    BY <1>r DEF RootRecords, None
  <1>2. d = [b EXCEPT !.roots = roots]
    BY <1>b DEF Forget, BridgeRecords
  <1> HIDE DEF root
  <1>3. /\ roots \in Seq(RootRecords) /\ Len(roots) = Len(b.roots)
        /\ roots[r] = root /\ \A x \in Roots(b) : x # r => roots[x] = b.roots[x]
    BY <1>b, <1>1, BridgeTypes, Replaced DEF Roots
  <1> HIDE DEF roots
  <1>4. /\ d \in BridgeRecords /\ d.roots = roots /\ d.log = b.log /\ d.marker = b.marker
        /\ d.effects = b.effects /\ d.admissions = b.admissions /\ d.outputs = b.outputs
        /\ d.children = b.children /\ d.applied = b.applied /\ d.cleaned = b.cleaned
    BY <1>b, <1>2, <1>3 DEF BridgeRecords
  <1>5. \A x \in Roots(b) :
          /\ d.roots[x].container = b.roots[x].container
          /\ d.roots[x].status = b.roots[x].status
    BY <1>1, <1>3, <1>4
  <1>6. IsBridge(d) /\ HasRecordsOf(d, b)
    BY <1>3, <1>4, <1>5, <1>b, RecordsChange DEF Links
  <1> QED BY <1>3, <1>4, <1>5, <1>6

\* The handoff of an output is no longer active.
Deactivate(b, o) == [b EXCEPT !.outputs[o].active = FALSE]

\* Only the handoff changes: its element stays where it is.
LEMMA DeactivateMakes ==
  ASSUME NEW b, IsBridge(b), NEW o \in Outputs(b), NEW d, d = Deactivate(b, o)
  PROVE  /\ IsBridge(d) /\ HasRecordsOf(d, b)
         /\ d.roots = b.roots /\ d.log = b.log /\ d.marker = b.marker
         /\ d.effects = b.effects /\ d.admissions = b.admissions /\ d.children = b.children
         /\ Len(d.outputs) = Len(b.outputs)
         /\ \A x \in Outputs(b) : x # o => d.outputs[x] = b.outputs[x]
         /\ ~ d.outputs[o].active
         /\ d.outputs[o].mounted <=> b.outputs[o].mounted
  <1> DEFINE output == [b.outputs[o] EXCEPT !.active = FALSE]
             outs == [b.outputs EXCEPT ![o] = output]
  <1>b. /\ b \in BridgeRecords /\ Links(b) /\ o \in 1 .. Len(b.outputs)
        /\ b.outputs[o].content \in Requests(b)
    BY DEF IsBridge, Links, Outputs
  <1>o. b.outputs[o] \in OutputRecords
    BY <1>b, RecordTypes
  <1>1. /\ output \in OutputRecords /\ output.admission = b.outputs[o].admission
        /\ output.content = b.outputs[o].content /\ output.active = FALSE
        /\ output.mounted = b.outputs[o].mounted
    BY <1>o DEF OutputRecords
  <1>2. d = [b EXCEPT !.outputs = outs]
    BY <1>b DEF Deactivate, BridgeRecords
  <1> HIDE DEF output
  <1>3. /\ outs \in Seq(OutputRecords) /\ Len(outs) = Len(b.outputs)
        /\ outs[o] = output /\ \A x \in Outputs(b) : x # o => outs[x] = b.outputs[x]
    BY <1>b, <1>1, BridgeTypes, Replaced DEF Outputs
  <1> HIDE DEF outs
  <1>4. /\ d \in BridgeRecords /\ d.outputs = outs /\ d.log = b.log /\ d.marker = b.marker
        /\ d.effects = b.effects /\ d.admissions = b.admissions /\ d.roots = b.roots
        /\ d.children = b.children /\ d.applied = b.applied /\ d.cleaned = b.cleaned
    BY <1>b, <1>2, <1>3 DEF BridgeRecords
  <1>5. \A x \in Outputs(b) :
          /\ d.outputs[x].admission = b.outputs[x].admission
          /\ d.outputs[x].content \in Requests(b)
    BY <1>1, <1>3, <1>4, <1>b DEF Links
  <1>6. IsBridge(d) /\ HasRecordsOf(d, b)
    BY <1>3, <1>4, <1>5, <1>b, RecordsChange DEF Links
  <1> QED BY <1>1, <1>3, <1>4, <1>6

\* An output shows what a request rendered.
Refill(b, o, q) == [b EXCEPT !.outputs[o].content = q]

\* Outputs stay where they are when one shows something else.
LEMMA RefillMakes ==
  ASSUME NEW b, IsBridge(b), NEW o \in Outputs(b), NEW q \in Requests(b), NEW d, d = Refill(b, o, q)
  PROVE  /\ IsBridge(d) /\ HasRecordsOf(d, b)
         /\ d.roots = b.roots /\ d.log = b.log /\ d.marker = b.marker
         /\ d.effects = b.effects /\ d.admissions = b.admissions /\ d.children = b.children
         /\ Len(d.outputs) = Len(b.outputs)
         /\ \A x \in Outputs(b) :
              /\ d.outputs[x].active <=> b.outputs[x].active
              /\ d.outputs[x].mounted <=> b.outputs[x].mounted
  <1> DEFINE output == [b.outputs[o] EXCEPT !.content = q]
             outs == [b.outputs EXCEPT ![o] = output]
  <1>b. b \in BridgeRecords /\ Links(b) /\ o \in 1 .. Len(b.outputs)
    BY DEF IsBridge, Outputs
  <1>n. q \in Nat
    BY <1>b, BridgeTypes DEF Requests
  <1>o. b.outputs[o] \in OutputRecords
    BY <1>b, RecordTypes
  <1>1. /\ output \in OutputRecords /\ output.admission = b.outputs[o].admission
        /\ output.content = q /\ output.active = b.outputs[o].active
        /\ output.mounted = b.outputs[o].mounted
    BY <1>n, <1>o DEF OutputRecords
  <1>2. d = [b EXCEPT !.outputs = outs]
    BY <1>b DEF Refill, BridgeRecords
  <1> HIDE DEF output
  <1>3. /\ outs \in Seq(OutputRecords) /\ Len(outs) = Len(b.outputs)
        /\ outs[o] = output /\ \A x \in Outputs(b) : x # o => outs[x] = b.outputs[x]
    BY <1>b, <1>1, BridgeTypes, Replaced DEF Outputs
  <1> HIDE DEF outs
  <1>4. /\ d \in BridgeRecords /\ d.outputs = outs /\ d.log = b.log /\ d.marker = b.marker
        /\ d.effects = b.effects /\ d.admissions = b.admissions /\ d.roots = b.roots
        /\ d.children = b.children /\ d.applied = b.applied /\ d.cleaned = b.cleaned
    BY <1>b, <1>2, <1>3 DEF BridgeRecords
  <1>5. \A x \in Outputs(b) :
          /\ d.outputs[x].admission = b.outputs[x].admission
          /\ d.outputs[x].content \in Requests(b)
    BY <1>1, <1>3, <1>4, <1>b DEF Links
  <1>6. IsBridge(d) /\ HasRecordsOf(d, b)
    BY <1>3, <1>4, <1>5, <1>b, RecordsChange DEF Links
  <1>7. \A x \in Outputs(b) :
          /\ d.outputs[x].active <=> b.outputs[x].active
          /\ d.outputs[x].mounted <=> b.outputs[x].mounted
    BY <1>1, <1>3, <1>4
  <1> QED BY <1>3, <1>4, <1>6, <1>7

\* The request of a render changes no output.
LEMMA RenderIsStill ==
  ASSUME NEW b, IsBridge(b), Idle(b), NEW r \in Roots(b), NEW d, d = RenderContainer(b, r)
  PROVE  /\ Still(d, b, r) /\ Idle(d)
         /\ Len(b.log) + 1 \in Requests(d) /\ Len(d.log) = Len(b.log) + 1
         /\ r \in Roots(d)
  <1>1. /\ IsBridge(d) /\ HasRecordsOf(d, b)
        /\ d.marker = b.marker /\ d.effects = b.effects
        /\ d.outputs = b.outputs /\ d.children = b.children
        /\ Len(d.roots) = Len(b.roots) /\ Len(d.log) = Len(b.log) + 1
        /\ \A x \in Roots(b) : x # r => d.roots[x] = b.roots[x]
        /\ \A q \in Requests(b) : d.log[q] = b.log[q]
    BY RenderMakes
  <1>2. Still(d, b, r)
    BY <1>1 DEF Still
  <1>3. Idle(d) /\ r \in Roots(d)
    BY <1>1 DEF Idle, Effects, Roots
  <1>4. Len(b.log) \in Nat
    BY BridgeTypes DEF IsBridge
  <1> QED BY <1>1, <1>2, <1>3, <1>4 DEF Requests

\* The update of a div with text leaves every output where it is.
LEMMA TextUpdateIs ==
  ASSUME NEW b, IsBridge(b), Idle(b), NEW r \in Roots(b), NEW o \in Outputs(b),
         NEW d, d = TextUpdate(b, r, o)
  PROVE  Quiet(d, b, r) /\ Idle(d)
  <1> DEFINE x == RenderContainer(b, r)
  <1>1. Still(x, b, r) /\ Idle(x) /\ Len(b.log) + 1 \in Requests(x)
    BY RenderIsStill
  <1>2. PICK q \in Requests(x) : q = Len(b.log) + 1
    BY <1>1
  <1>3. d = UpdateOutput(x, q, o)
    BY <1>2 DEF TextUpdate, NewRequest
  <1> HIDE DEF x
  <1>4. IsBridge(x) /\ o \in Outputs(x)
    BY <1>1 DEF Still, Outputs
  <1>5. /\ IsBridge(d) /\ HasRecordsOf(d, x)
        /\ d.log = x.log /\ d.marker = x.marker /\ d.effects = x.effects
        /\ d.children = x.children /\ Len(d.roots) = Len(x.roots)
        /\ \A z \in Roots(x) : d.roots[z].status = x.roots[z].status
        /\ Len(d.outputs) = Len(x.outputs)
        /\ \A z \in Outputs(x) : z # o => d.outputs[z] = x.outputs[z]
        /\ d.outputs[o].active = x.outputs[o].active
        /\ d.outputs[o].mounted = x.outputs[o].mounted
    BY <1>3, <1>4, UpdateMakes
  <1>6. /\ HasRecordsOf(x, b) /\ Len(x.roots) = Len(b.roots) /\ x.outputs = b.outputs
        /\ x.children = b.children /\ Roots(x) = Roots(b) /\ Outputs(x) = Outputs(b)
        /\ \A z \in Roots(b) : z # r => x.roots[z].status = b.roots[z].status
        /\ \A z \in Requests(b) : b.log[z].op = "create" => x.log[z].op = "create"
    BY <1>1 DEF Still, Roots, Outputs
  <1>7. HasRecordsOf(d, b)
    BY <1>4, <1>5, <1>6, RecordsStay DEF IsBridge
  <1>8. \A z \in Outputs(b) :
          /\ d.outputs[z].active <=> b.outputs[z].active
          /\ d.outputs[z].mounted <=> b.outputs[z].mounted
    BY <1>5, <1>6
  <1>9. /\ \A z \in Roots(b) : z # r => d.roots[z].status = b.roots[z].status
        /\ Len(d.roots) = Len(b.roots) /\ Len(d.outputs) = Len(b.outputs)
        /\ d.children = b.children
        /\ \A z \in Requests(b) : b.log[z].op = "create" => d.log[z].op = "create"
    BY <1>5, <1>6
  <1>10. Quiet(d, b, r)
    BY <1>5, <1>7, <1>8, <1>9 DEF Quiet, Outputs
  <1>11. Idle(d)
    BY <1>1, <1>5 DEF Idle, Effects
  <1> QED BY <1>10, <1>11

\* The update of a div with a span leaves every output where it is.
LEMMA NestedUpdateIs ==
  ASSUME NEW b, IsBridge(b), Idle(b), NEW r \in Roots(b), NEW o \in Outputs(b),
         NEW d, d = NestedUpdate(b, r, o)
  PROVE  Quiet(d, b, r) /\ Idle(d)
  <1> DEFINE x == RenderContainer(b, r)
  <1>1. Still(x, b, r) /\ Idle(x) /\ Len(b.log) + 1 \in Requests(x)
    BY RenderIsStill
  <1>2. PICK q \in Requests(x) : q = Len(b.log) + 1
    BY <1>1
  <1>3. d = Refill(x, o, q)
    BY <1>2 DEF NestedUpdate, NewRequest, Refill
  <1> HIDE DEF x
  <1>4. IsBridge(x) /\ o \in Outputs(x)
    BY <1>1 DEF Still, Outputs
  <1>5. /\ IsBridge(d) /\ HasRecordsOf(d, x)
        /\ d.roots = x.roots /\ d.log = x.log /\ d.marker = x.marker /\ d.effects = x.effects
        /\ d.children = x.children
        /\ Len(d.outputs) = Len(x.outputs)
        /\ \A z \in Outputs(x) :
             /\ d.outputs[z].active <=> x.outputs[z].active
             /\ d.outputs[z].mounted <=> x.outputs[z].mounted
    BY <1>3, <1>4, RefillMakes
  <1>6. /\ HasRecordsOf(x, b) /\ Len(x.roots) = Len(b.roots) /\ x.outputs = b.outputs
        /\ x.children = b.children /\ Outputs(x) = Outputs(b)
        /\ \A z \in Roots(b) : z # r => x.roots[z].status = b.roots[z].status
        /\ \A z \in Requests(b) : b.log[z].op = "create" => x.log[z].op = "create"
    BY <1>1 DEF Still, Outputs
  <1>7. HasRecordsOf(d, b)
    BY <1>4, <1>5, <1>6, RecordsStay DEF IsBridge
  <1>8. Quiet(d, b, r)
    BY <1>5, <1>6, <1>7 DEF Quiet, Outputs
  <1>9. Idle(d)
    BY <1>1, <1>5 DEF Idle, Effects
  <1> QED BY <1>8, <1>9

\* The request of an update that failed is removed, and the root is what it was before it.
LEMMA NestedUpdateFailsIs ==
  ASSUME NEW b, IsBridge(b), Idle(b), Created(b), NEW r \in Roots(b),
         NEW d, d = NestedUpdateFails(b, r)
  PROVE  Still(d, b, r) /\ Idle(d)
  <1> DEFINE x == RenderContainer(b, r)
             q == x.roots[r].latest
             request == [x.log[q] EXCEPT !.op = "removed"]
             log == [x.log EXCEPT ![q] = request]
             rest == [x EXCEPT !.log[q].op = "removed"]
             requests == {p \in 1 .. q - 1 :
                            rest.log[p].root = r /\ rest.log[p].op \in {"create", "render", "unmount"}}
             renders == {p \in 1 .. q - 1 : rest.log[p].root = r /\ rest.log[p].op \in {"render"}}
             previous == CHOOSE p \in requests : \A other \in requests : other <= p
             last == CHOOSE p \in renders : \A other \in renders : other <= p
             count == IF renders = {} THEN 0 ELSE x.log[last].count
             root == [x.roots[r] EXCEPT !.status = x.log[q].before, !.latest = previous,
                                        !.renderCount = count,
                                        !.version = x.roots[r].version - 1]
             roots == [x.roots EXCEPT ![r] = root]
  <1>1. /\ IsBridge(x) /\ HasRecordsOf(x, b)
        /\ x.marker = b.marker /\ x.effects = b.effects
        /\ x.outputs = b.outputs /\ x.children = b.children
        /\ Len(x.roots) = Len(b.roots) /\ Len(x.log) = Len(b.log) + 1
        /\ \A z \in Roots(b) : z # r => x.roots[z] = b.roots[z]
        /\ x.roots[r].latest = Len(b.log) + 1
        /\ x.roots[r].version = b.roots[r].version + 1
        /\ \A z \in Requests(b) : x.log[z] = b.log[z]
        /\ x.log[Len(b.log) + 1].before = b.roots[r].status
        /\ x.log[Len(b.log) + 1].op = "render"
    BY RenderMakes
  <1>2. d = [rest EXCEPT !.roots[r] =
               [@ EXCEPT !.status = x.log[q].before, !.latest = previous, !.renderCount = count,
                         !.version = x.roots[r].version - 1]]
    BY DEF NestedUpdateFails, RollbackRender
  <1> HIDE DEF x
  <1>n. Len(b.log) \in Nat /\ b.roots[r] \in RootRecords /\ b.roots[r].status \in Statuses
        /\ b.roots[r].version \in Nat
    BY BridgeTypes, RecordTypes DEF IsBridge, RootRecords
  <1>q. q = Len(b.log) + 1 /\ q \in Requests(x) /\ q \in 1 .. Len(x.log) /\ q - 1 = Len(b.log)
    BY <1>1, <1>n DEF Requests
  <1>x. /\ x \in BridgeRecords /\ Links(x) /\ x.log[q] \in RequestRecords /\ r \in Roots(x)
        /\ r \in 1 .. Len(x.roots) /\ x.roots[r] \in RootRecords
    <2>1. x \in BridgeRecords /\ Links(x) /\ r \in Roots(x) /\ r \in 1 .. Len(x.roots)
      BY <1>1 DEF IsBridge, Roots
    <2> QED BY <2>1, <1>q, RecordTypes
  <1> HIDE DEF q
  <1>3. request \in RequestRecords /\ request.root = x.log[q].root
    BY <1>x DEF RequestRecords
  <1>4. rest = [x EXCEPT !.log = log]
    BY <1>x, <1>q DEF BridgeRecords
  <1> HIDE DEF request
  <1>5. /\ log \in Seq(RequestRecords) /\ Len(log) = Len(x.log) /\ log[q] = request
        /\ \A z \in 1 .. Len(x.log) : z # q => log[z] = x.log[z]
    BY <1>3, <1>q, <1>x, BridgeTypes, Replaced
  <1> HIDE DEF log
  <1>6. rest.log = log /\ rest.roots = x.roots
    BY <1>4, <1>x DEF BridgeRecords
  <1> HIDE DEF rest
  <1>7. \A z \in Requests(b) : rest.log[z] = b.log[z]
    BY <1>1, <1>5, <1>6, <1>n, <1>q DEF Requests
  <1>8. previous \in Nat
    <2>1. PICK z \in Requests(b) : b.log[z].root = r /\ b.log[z].op = "create"
      BY DEF Created
    <2>2. z \in requests
      BY <2>1, <1>7, <1>q DEF Requests
    <2>3. requests \subseteq 1 .. Len(b.log) /\ requests # {}
      BY <2>2, <1>q
    <2> HIDE DEF requests
    <2>4. \E z1 \in requests : \A other \in requests : other <= z1
      BY <2>3, <1>n, GreatestExists
    <2>5. previous \in requests
      BY <2>4
    <2> HIDE DEF previous
    <2> QED BY <2>3, <2>5, <1>n
  <1>9. count \in Nat
    <2>1. CASE renders = {}
      BY <2>1
    <2>2. CASE renders # {}
      <3>1. renders \subseteq 1 .. Len(b.log)
        BY <1>q
      <3> HIDE DEF renders
      <3>2. \E z \in renders : \A other \in renders : other <= z
        BY <2>2, <3>1, <1>n, GreatestExists
      <3>3. last \in renders
        BY <3>2
      <3> HIDE DEF last
      <3>4. last \in Requests(x)
        BY <3>1, <3>3, <1>1, <1>n DEF Requests
      <3>5. x.log[last] \in RequestRecords
        BY <3>4, <1>x, RecordTypes
      <3>6. x.log[last].count \in Nat
        BY <3>5 DEF RequestRecords
      <3> QED BY <2>2, <3>6
    <2> QED BY <2>1, <2>2
  <1> HIDE DEF previous, count
  <1>10. x.log[q].before \in Statuses /\ x.roots[r].version - 1 \in Nat
    <2>1. x.log[q].before = b.roots[r].status /\ x.roots[r].version = b.roots[r].version + 1
      BY <1>1, <1>q
    <2> QED BY <2>1, <1>n
  <1>11. root \in RootRecords /\ root.container = x.roots[r].container
    BY <1>8, <1>9, <1>10, <1>x DEF RootRecords
  <1>12. d = [x EXCEPT !.log = log, !.roots = roots]
    BY <1>2, <1>4, <1>x DEF BridgeRecords
  <1> HIDE DEF root
  <1>13. /\ roots \in Seq(RootRecords) /\ Len(roots) = Len(x.roots) /\ roots[r] = root
         /\ \A z \in 1 .. Len(x.roots) : z # r => roots[z] = x.roots[z]
    BY <1>11, <1>x, BridgeTypes, Replaced
  <1> HIDE DEF roots
  <1>14. /\ d \in BridgeRecords /\ d.roots = roots /\ d.log = log /\ d.marker = x.marker
         /\ d.effects = x.effects /\ d.admissions = x.admissions /\ d.outputs = x.outputs
         /\ d.children = x.children /\ d.applied = x.applied /\ d.cleaned = x.cleaned
    BY <1>5, <1>12, <1>13, <1>x DEF BridgeRecords
  <1>15. \A z \in Roots(x) : d.roots[z].container = x.roots[z].container
    BY <1>11, <1>13, <1>14 DEF Roots
  <1>16. \A z \in Requests(x) : d.log[z].root = x.log[z].root
    BY <1>3, <1>5, <1>14 DEF Requests
  <1>17. IsBridge(d) /\ HasRecordsOf(d, x)
    BY <1>1, <1>5, <1>13, <1>14, <1>15, <1>16, <1>x, RecordsChange DEF Links
  <1>18. HasRecordsOf(d, b)
    BY <1>1, <1>17, RecordsStay DEF IsBridge
  <1>19. \A z \in Roots(b) : z # r => d.roots[z].status = b.roots[z].status
    BY <1>1, <1>13, <1>14 DEF Roots
  <1>20. \A z \in Requests(b) : d.log[z] = b.log[z]
    BY <1>6, <1>7, <1>14
  <1>21. Still(d, b, r)
    BY <1>1, <1>13, <1>14, <1>17, <1>18, <1>19, <1>20 DEF Still
  <1>22. Idle(d)
    BY <1>1, <1>14 DEF Idle, Effects
  <1> QED BY <1>21, <1>22

\* Bridge d comes from b by a call that takes the outputs of root r away.
Clears(d, b, r) ==
  /\ IsBridge(d) /\ HasRecordsOf(d, b) /\ Idle(d) /\ Len(d.roots) = Len(b.roots)
  /\ \A x \in Roots(b) : x # r => d.roots[x].status = b.roots[x].status
  /\ \A q \in Requests(b) : b.log[q].op = "create" => d.log[q].op = "create"
  /\ Len(d.outputs) = Len(b.outputs)
  /\ \A o \in Outputs(b) :
       /\ d.outputs[o].active <=> b.outputs[o].active /\ RootOfOutput(b, o) # r
       /\ d.outputs[o].mounted <=> b.outputs[o].mounted /\ RootOfOutput(b, o) # r
  /\ \A c \in Containers : \A o :
       o \in d.children[c] <=> o \in b.children[c] /\ RootOfOutput(b, o) # r

\* Public roots that differ from others in root r alone.
Except(s, p, r) ==
  /\ s \in Seq(PublicRecords) /\ Len(s) = Len(p)
  /\ \A x \in 1 .. Len(p) : x # r => s[x] = p[x]

\* The containers tracked when root r of container c is what public roots s say it is.
Tracks(u, t, c, unmounted) == \A x : x \in u <=> x \in t /\ (x = c => ~ unmounted)

\* Taking away the output of a root keeps the invariant, also when the root is unmounted.
LEMMA ClearsKeeps ==
  ASSUME NEW b, NEW p, NEW t, PublicOk(b, p, t), NEW r \in Roots(b), ~ p[r].unmounted,
         NEW d, Clears(d, b, r), NEW s, Except(s, p, r), ~ s[r].mounted,
         s[r].unmounted => d.roots[r].status = "unmounted",
         NEW u, Tracks(u, t, ContainerOf(b, r), s[r].unmounted)
  PROVE  PublicOk(d, s, u)
  <1>b. /\ IsBridge(b) /\ p \in Seq(PublicRecords) /\ Len(p) = Len(b.roots) /\ t \subseteq Containers
        /\ Created(b) /\ PublicAgrees(b, p) /\ OutputsAgree(b) /\ OneOutputEach(b, p)
        /\ OneOwnerEach(b, p, t)
    BY DEF PublicOk
  <1>d. /\ IsBridge(d) /\ HasRecordsOf(d, b) /\ Idle(d) /\ Len(d.roots) = Len(b.roots)
        /\ \A x \in Roots(b) : x # r => d.roots[x].status = b.roots[x].status
        /\ \A q \in Requests(b) : b.log[q].op = "create" => d.log[q].op = "create"
    BY DEF Clears
  <1>e. /\ \A o \in Outputs(b) :
             /\ d.outputs[o].active <=> b.outputs[o].active /\ RootOfOutput(b, o) # r
             /\ d.outputs[o].mounted <=> b.outputs[o].mounted /\ RootOfOutput(b, o) # r
        /\ \A c \in Containers : \A o :
             o \in d.children[c] <=> o \in b.children[c] /\ RootOfOutput(b, o) # r
    BY DEF Clears
  <1>s. /\ s \in Seq(PublicRecords) /\ Len(s) = Len(p)
        /\ \A x \in Roots(b) : x # r => s[x] = p[x]
    BY <1>b DEF Except, Roots
  <1>r. Roots(d) = Roots(b) /\ Outputs(d) = Outputs(b)
    BY DEF Clears, Roots, Outputs
  <1>o. \A o \in Outputs(b) :
          /\ RootOfOutput(b, o) \in Roots(b)
          /\ RootOfOutput(d, o) = RootOfOutput(b, o)
          /\ ContainerOf(d, RootOfOutput(d, o)) = ContainerOf(b, RootOfOutput(b, o))
    BY <1>b, <1>d, RootsStay
  <1>c. \A x \in Roots(b) : ContainerOf(d, x) = ContainerOf(b, x) /\ ContainerOf(b, x) \in Containers
    BY <1>b, <1>d, ContainerTyped DEF HasRecordsOf, ContainerOf, IsBridge
  <1>1. Created(d)
    BY <1>b, <1>d, CreatedStays
  <1>2. PublicAgrees(d, s)
    <2>1. \A x \in Roots(b) : Shows(d, x) <=> Shows(b, x) /\ x # r
      BY <1>e, <1>o, <1>r DEF Shows
    <2>2. \A x \in Roots(b) : s[x].unmounted => d.roots[x].status = "unmounted"
      BY <1>b, <1>d, <1>s DEF PublicAgrees
    <2> QED BY <2>1, <2>2, <1>b, <1>r, <1>s DEF PublicAgrees
  <1>3. OutputsAgree(d)
    <2>1. ASSUME NEW o \in Outputs(d)
          PROVE  /\ d.outputs[o].mounted => d.outputs[o].active
                 /\ d.outputs[o].active =>
                      d.outputs[o].mounted \/ d.roots[RootOfOutput(d, o)].status = "unmounted"
                 /\ d.outputs[o].mounted <=> o \in d.children[ContainerOf(d, RootOfOutput(d, o))]
      BY <1>b, <1>c, <1>d, <1>e, <1>o, <1>r DEF OutputsAgree
    <2>2. ASSUME NEW c \in Containers, NEW o \in d.children[c]
          PROVE  o \in Outputs(d) /\ ContainerOf(d, RootOfOutput(d, o)) = c
      BY <1>b, <1>e, <1>o, <1>r DEF OutputsAgree
    <2> QED BY <2>1, <2>2 DEF OutputsAgree
  <1>4. OneOutputEach(d, s)
    <2>1. \A o, x \in Outputs(b) :
            d.outputs[o].active /\ d.outputs[x].active
              /\ RootOfOutput(d, o) = RootOfOutput(d, x) => o = x
      BY <1>b, <1>e, <1>o DEF OneOutputEach
    <2>2. \A o \in Outputs(b) : d.outputs[o].active => ~ s[RootOfOutput(d, o)].unmounted
      BY <1>b, <1>e, <1>o, <1>s DEF OneOutputEach
    <2> QED BY <2>1, <2>2, <1>r DEF OneOutputEach
  <1>5. OneOwnerEach(d, s, u)
    <2>0. \A x, z \in Roots(b) :
            ~ p[x].unmounted /\ ~ p[z].unmounted /\ ContainerOf(b, x) = ContainerOf(b, z) => x = z
      BY <1>b DEF OneOwnerEach
    <2>1. \A x, z \in Roots(b) :
            ~ s[x].unmounted /\ ~ s[z].unmounted /\ ContainerOf(d, x) = ContainerOf(d, z) => x = z
      BY <2>0, <1>c, <1>s
    <2>2. ASSUME NEW c \in Containers
          PROVE  c \in u <=> \E x \in Roots(b) : ~ s[x].unmounted /\ ContainerOf(d, x) = c
      <3>1. c \in t <=> \E x \in Roots(b) : ~ p[x].unmounted /\ ContainerOf(b, x) = c
        BY <1>b DEF OneOwnerEach
      <3>2. CASE c = ContainerOf(b, r)
        <4>1. c \in t
          BY <3>1, <3>2
        <4>2. c \in u <=> ~ s[r].unmounted
          BY <4>1, <3>2 DEF Tracks
        <4>3. \A x \in Roots(b) : ~ p[x].unmounted /\ ContainerOf(b, x) = c => x = r
          BY <2>0, <3>2
        <4>4. (\E x \in Roots(b) : ~ s[x].unmounted /\ ContainerOf(d, x) = c) <=> ~ s[r].unmounted
          BY <4>3, <3>2, <1>c, <1>s
        <4> QED BY <4>2, <4>4
      <3>3. CASE c # ContainerOf(b, r)
        <4>1. c \in u <=> c \in t
          BY <3>3 DEF Tracks
        <4>2. \A x \in Roots(b) :
                (~ s[x].unmounted /\ ContainerOf(d, x) = c) <=> (~ p[x].unmounted /\ ContainerOf(b, x) = c)
          BY <3>3, <1>c, <1>s
        <4> QED BY <4>1, <4>2, <3>1
      <3> QED BY <3>2, <3>3
    <2> QED BY <2>1, <2>2, <1>r DEF OneOwnerEach
  <1>6. Len(s) = Len(d.roots) /\ u \subseteq Containers
    BY <1>b, <1>d, <1>s DEF Tracks
  <1> QED BY <1>d, <1>s, <1>1, <1>2, <1>3, <1>4, <1>5, <1>6 DEF PublicOk

\* render(null) takes the output of the root away.
LEMMA ClearOutputIs ==
  ASSUME NEW b, NEW p, NEW t, PublicOk(b, p, t), NEW r \in Roots(b), NEW o \in Outputs(b),
         RootOfOutput(b, o) = r, b.outputs[o].active, NEW d, d = ClearOutput(b, r, o)
  PROVE  Clears(d, b, r)
  <1> DEFINE x == CleanupOutput(b, o)
  <1>b. IsBridge(b) /\ Idle(b) /\ OutputsAgree(b) /\ OneOutputEach(b, p)
    BY DEF PublicOk
  <1>1. /\ IsBridge(x) /\ HasRecordsOf(x, b)
        /\ x.roots = b.roots /\ x.log = b.log /\ x.marker = b.marker
        /\ x.effects = b.effects
        /\ Len(x.outputs) = Len(b.outputs)
        /\ \A z \in Outputs(b) : z # o => x.outputs[z] = b.outputs[z]
        /\ ~ x.outputs[o].active /\ ~ x.outputs[o].mounted
        /\ x.children = WithoutChild(b.children, ContainerOf(b, RootOfOutput(b, o)), o)
    BY <1>b, CleanupMakes
  <1>2. d = x \/ d = Forget(x, r)
    BY DEF ClearOutput, Forget
  <1> HIDE DEF x
  <1>3. /\ IsBridge(d) /\ HasRecordsOf(d, x) /\ Len(d.roots) = Len(x.roots)
        /\ \A z \in Roots(x) : d.roots[z].status = x.roots[z].status
        /\ d.log = x.log /\ d.marker = x.marker /\ d.effects = x.effects
        /\ d.outputs = x.outputs /\ d.children = x.children
    <2>1. CASE d = x
      <3>1. HasRecordsOf(x, x)
        <4>1. /\ Len(x.roots) <= Len(x.roots) /\ Len(x.log) <= Len(x.log)
              /\ Len(x.effects) <= Len(x.effects) /\ Len(x.admissions) <= Len(x.admissions)
              /\ Len(x.outputs) <= Len(x.outputs)
          BY <1>1, BridgeTypes DEF IsBridge
        <4> QED BY <4>1 DEF HasRecordsOf
      <3> QED BY <2>1, <3>1, <1>1
    <2>2. CASE d = Forget(x, r)
      <3>1. r \in Roots(x)
        BY <1>1 DEF Roots
      <3> QED BY <2>2, <3>1, <1>1, ForgetMakes
    <2> QED BY <1>2, <2>1, <2>2
  <1>4. HasRecordsOf(d, b)
    BY <1>1, <1>3, <1>b, RecordsStay DEF IsBridge
  <1>5. Idle(d)
    BY <1>1, <1>3, <1>b DEF Idle, Effects
  <1>6. ASSUME NEW z \in Outputs(b)
        PROVE  /\ d.outputs[z].active <=> b.outputs[z].active /\ RootOfOutput(b, z) # r
               /\ d.outputs[z].mounted <=> b.outputs[z].mounted /\ RootOfOutput(b, z) # r
    <2>1. CASE z = o
      BY <2>1, <1>1, <1>3
    <2>2. CASE z # o
      <3>1. b.outputs[z].active => RootOfOutput(b, z) # r
        BY <2>2, <1>b DEF OneOutputEach
      <3>2. b.outputs[z].mounted => b.outputs[z].active
        BY <1>b DEF OutputsAgree
      <3> QED BY <2>2, <3>1, <3>2, <1>1, <1>3
    <2> QED BY <2>1, <2>2
  <1>7. ASSUME NEW c \in Containers, NEW z
        PROVE  z \in d.children[c] <=> z \in b.children[c] /\ RootOfOutput(b, z) # r
    <2>1. b.children \in [Containers -> SUBSET Nat]
      BY <1>b, BridgeTypes DEF IsBridge
    <2>2. z \in b.children[c] =>
            z \in Outputs(b) /\ ContainerOf(b, RootOfOutput(b, z)) = c /\ b.outputs[z].active
      BY <1>b DEF OutputsAgree
    <2>3. z \in b.children[c] => (RootOfOutput(b, z) = r <=> z = o)
      BY <2>2, <1>b DEF OneOutputEach
    <2>4. d.children[c] = IF c = ContainerOf(b, r) THEN b.children[c] \ {o} ELSE b.children[c]
      BY <2>1, <1>1, <1>3, ZenonT(40) DEF WithoutChild
    <2> QED BY <2>2, <2>3, <2>4
  <1>8. /\ Len(d.roots) = Len(b.roots) /\ Len(d.outputs) = Len(b.outputs)
        /\ \A z \in Roots(b) : z # r => d.roots[z].status = b.roots[z].status
        /\ \A q \in Requests(b) : b.log[q].op = "create" => d.log[q].op = "create"
    BY <1>1, <1>3 DEF Roots
  <1> QED BY <1>3, <1>4, <1>5, <1>6, <1>7, <1>8 DEF Clears

\* unmount takes the output of the root away, and the bridge retires the root.
LEMMA UnmountOutputIs ==
  ASSUME NEW b, NEW p, NEW t, PublicOk(b, p, t), NEW r \in Roots(b), ~ p[r].unmounted,
         NEW d, d = UnmountOutput(b, r)
  PROVE  Clears(d, b, r) /\ d.roots[r].status = "unmounted"
  <1> DEFINE o == ActiveOutput(b, r)
  <1>b. IsBridge(b) /\ Idle(b) /\ OutputsAgree(b) /\ OneOutputEach(b, p) /\ OneOwnerEach(b, p, t)
    BY DEF PublicOk
  <1>o. /\ o # None <=> Shows(b, r)
        /\ o # None => o \in Outputs(b) /\ RootOfOutput(b, o) = r /\ b.outputs[o].active
    BY <1>b, ActiveOutputIs
  <1>k. \A c \in Containers : \A z \in b.children[c] :
          z \in Outputs(b) /\ ContainerOf(b, RootOfOutput(b, z)) = c /\ b.outputs[z].active
    BY <1>b DEF OutputsAgree
  <1>y. b.children \in [Containers -> SUBSET Nat] /\ ContainerOf(b, r) \in Containers
    BY <1>b, BridgeTypes, ContainerTyped DEF IsBridge
  <1>1. CASE o = None
    <2>1. d = UnmountContainer(b, r)
      BY <1>1 DEF UnmountOutput
    <2>2. /\ IsBridge(d) /\ HasRecordsOf(d, b)
          /\ d.marker = b.marker /\ d.effects = b.effects
          /\ d.outputs = b.outputs /\ d.children = b.children
          /\ Len(d.roots) = Len(b.roots)
          /\ \A z \in Roots(b) : z # r => d.roots[z] = b.roots[z]
          /\ d.roots[r].status = "unmounted"
          /\ \A q \in Requests(b) : d.log[q] = b.log[q]
      BY <2>1, <1>b, UnmountMakes
    <2>3. \A z \in Outputs(b) : b.outputs[z].active => RootOfOutput(b, z) # r
      BY <1>1, <1>o DEF Shows
    <2>4. \A z \in Outputs(b) : b.outputs[z].mounted => b.outputs[z].active
      BY <1>b DEF OutputsAgree
    <2>5. Idle(d)
      BY <2>2, <1>b DEF Idle, Effects
    <2>6. \A c \in Containers : \A z :
            z \in d.children[c] <=> z \in b.children[c] /\ RootOfOutput(b, z) # r
      BY <2>2, <2>3, <1>k
    <2> QED BY <2>2, <2>3, <2>4, <2>5, <2>6 DEF Clears
  <1>2. CASE o # None
    <2> DEFINE x == UnmountAdmitted(b, r, o)
               y == Deactivate(x, o)
               a == NewAdmission(y)
               u == NewRequest(y)
               k == CleanupUnmount(y, a, u)
    <2>0. o \in Outputs(b) /\ RootOfOutput(b, o) = r /\ b.outputs[o].active
      BY <1>2, <1>o
    <2>1. d = Forget(k, r)
      BY <1>2 DEF UnmountOutput, Forget, Deactivate
    <2> HIDE DEF o
    <2>2. /\ Still(x, b, r) /\ Busy(x, r)
          /\ x.roots[r].status = "unmounted"
          /\ x.admissions[NewAdmission(x)].effect = NewEffect(x)
          /\ NewAdmission(x) \in Admissions(x)
          /\ NewRequest(x) \in Requests(x)
          /\ x.log[NewRequest(x)].root = r
      BY <2>0, <1>b, UnmountAdmittedMakes
    <2> HIDE DEF x
    <2>3. /\ IsBridge(x) /\ HasRecordsOf(x, b) /\ Len(x.roots) = Len(b.roots)
          /\ \A z \in Roots(b) : z # r => x.roots[z].status = b.roots[z].status
          /\ \A q \in Requests(b) : b.log[q].op = "create" => x.log[q].op = "create"
          /\ x.outputs = b.outputs /\ x.children = b.children
          /\ Roots(x) = Roots(b) /\ Outputs(x) = Outputs(b)
      BY <2>2 DEF Still, Roots, Outputs
    <2>4. /\ IsBridge(y) /\ HasRecordsOf(y, x)
          /\ y.roots = x.roots /\ y.log = x.log /\ y.marker = x.marker
          /\ y.effects = x.effects /\ y.admissions = x.admissions /\ y.children = x.children
          /\ Len(y.outputs) = Len(x.outputs)
          /\ \A z \in Outputs(x) : z # o => y.outputs[z] = x.outputs[z]
          /\ ~ y.outputs[o].active
          /\ y.outputs[o].mounted <=> x.outputs[o].mounted
      BY <2>0, <2>3, DeactivateMakes
    <2>5. /\ a \in Admissions(y) /\ u \in Requests(y) /\ y.log[u].root = r
          /\ y.admissions[a].effect = NewEffect(y) /\ Busy(y, r)
      <3>1. a = NewAdmission(x) /\ u = NewRequest(x) /\ NewEffect(y) = NewEffect(x)
        BY <2>4 DEF NewAdmission, NewRequest, NewEffect
      <3>2. Busy(y, r)
        BY <2>2, <2>4 DEF Busy, NewEffect, Effects, ContainerOf
      <3> QED BY <3>1, <3>2, <2>2, <2>4 DEF Admissions, Requests
    <2> HIDE DEF y, a, u
    <2>6. /\ y.effects[y.admissions[a].effect].active
          /\ y.log[u].root = y.effects[y.admissions[a].effect].root
      BY <2>5 DEF Busy
    <2>7. /\ IsBridge(k) /\ HasRecordsOf(k, y)
          /\ k.roots = y.roots /\ k.log = y.log
          /\ k.marker = With(y.marker, ContainerOf(y, y.log[u].root), None)
          /\ Len(k.effects) = Len(y.effects)
          /\ \A z \in Effects(y) : z # y.admissions[a].effect => k.effects[z] = y.effects[z]
          /\ ~ k.effects[y.admissions[a].effect].active
          /\ Len(k.outputs) = Len(y.outputs)
          /\ \A z \in Outputs(y) :
               /\ k.outputs[z].active = y.outputs[z].active
               /\ k.outputs[z].mounted <=>
                    (y.outputs[z].mounted /\ z \notin y.children[ContainerOf(y, y.log[u].root)])
          /\ k.children = With(y.children, ContainerOf(y, y.log[u].root), {})
      BY <2>4, <2>5, <2>6, CleanupUnmountMakes, SMTT(30) DEF CleanedUp
    <2> HIDE DEF k
    <2>8. r \in Roots(k)
      BY <2>3, <2>4, <2>7 DEF Roots
    <2>9. /\ IsBridge(d) /\ HasRecordsOf(d, k) /\ Len(d.roots) = Len(k.roots)
          /\ \A z \in Roots(k) : d.roots[z].status = k.roots[z].status
          /\ d.log = k.log /\ d.marker = k.marker /\ d.effects = k.effects
          /\ d.outputs = k.outputs /\ d.children = k.children
      BY <2>1, <2>7, <2>8, ForgetMakes
    <2>10. HasRecordsOf(d, b)
      <3>1. HasRecordsOf(y, b)
        BY <2>3, <2>4, <1>b, RecordsStay DEF IsBridge
      <3>2. HasRecordsOf(k, b)
        BY <3>1, <2>4, <2>7, <1>b, RecordsStay DEF IsBridge
      <3> QED BY <3>2, <2>7, <2>9, <1>b, RecordsStay DEF IsBridge
    <2>11. ContainerOf(y, y.log[u].root) = ContainerOf(b, r) /\ ContainerOf(y, r) = ContainerOf(b, r)
      BY <2>3, <2>4, <2>5 DEF HasRecordsOf, ContainerOf
    <2>12. Idle(d)
      <3>1. \A z \in Effects(y) : ~ k.effects[z].active
        BY <2>5, <2>7 DEF Busy
      <3>2. \A z \in Effects(d) : ~ d.effects[z].active
        BY <3>1, <2>7, <2>9 DEF Effects
      <3>3. y.marker \in [Containers -> Nat]
        BY <2>4, BridgeTypes DEF IsBridge
      <3>4. \A c \in Containers : d.marker[c] = None
        BY <3>3, <2>5, <2>7, <2>9, <2>11 DEF With, Busy
      <3> QED BY <3>2, <3>4 DEF Idle
    <2>13. d.children = With(b.children, ContainerOf(b, r), {})
      BY <2>3, <2>4, <2>7, <2>9, <2>11
    <2>14. \A z \in b.children[ContainerOf(b, r)] : z = o
      <3>1. ASSUME NEW z \in b.children[ContainerOf(b, r)] PROVE z = o
        <4>1. /\ z \in Outputs(b) /\ ContainerOf(b, RootOfOutput(b, z)) = ContainerOf(b, r)
              /\ b.outputs[z].active
          BY <1>k, <1>y
        <4>2. ~ p[RootOfOutput(b, z)].unmounted
          BY <4>1, <1>b DEF OneOutputEach
        <4>4. RootOfOutput(b, z) \in Roots(b)
          BY <4>1, <1>b, <2>10, RootsStay
        <4>5. RootOfOutput(b, z) = r
          BY <4>1, <4>2, <4>4, <1>b DEF OneOwnerEach
        <4> QED BY <4>1, <4>5, <2>0, <1>b DEF OneOutputEach
      <3> QED BY <3>1
    <2>15. b.outputs[o].mounted => o \in b.children[ContainerOf(b, r)]
      BY <2>0, <1>b DEF OutputsAgree
    <2>16. ASSUME NEW z \in Outputs(b)
           PROVE  /\ d.outputs[z].active <=> b.outputs[z].active /\ RootOfOutput(b, z) # r
                  /\ d.outputs[z].mounted <=> b.outputs[z].mounted /\ RootOfOutput(b, z) # r
      <3>0. z \in Outputs(y)
        BY <2>3, <2>4 DEF Outputs
      <3>1. /\ d.outputs[z].active <=> y.outputs[z].active
            /\ d.outputs[z].mounted <=> y.outputs[z].mounted /\ z \notin b.children[ContainerOf(b, r)]
        BY <3>0, <2>3, <2>4, <2>7, <2>9, <2>11
      <3>2. CASE z = o
        BY <3>1, <3>2, <2>0, <2>3, <2>4, <2>15
      <3>3. CASE z # o
        <4>1. y.outputs[z] = b.outputs[z]
          BY <3>3, <2>3, <2>4
        <4>2. b.outputs[z].active => RootOfOutput(b, z) # r
          BY <3>3, <2>0, <1>b DEF OneOutputEach
        <4>3. b.outputs[z].mounted => b.outputs[z].active
          BY <1>b DEF OutputsAgree
        <4>4. z \notin b.children[ContainerOf(b, r)]
          BY <3>3, <2>14
        <4> QED BY <3>1, <4>1, <4>2, <4>3, <4>4
      <3> QED BY <3>2, <3>3
    <2>17. ASSUME NEW c \in Containers, NEW z
           PROVE  z \in d.children[c] <=> z \in b.children[c] /\ RootOfOutput(b, z) # r
      <3>1. CASE c = ContainerOf(b, r)
        <4>1. d.children[c] = {}
          BY <3>1, <2>13, <1>y DEF With
        <4> QED BY <3>1, <4>1, <2>0, <2>14
      <3>2. CASE c # ContainerOf(b, r)
        <4>1. d.children[c] = b.children[c]
          BY <3>2, <2>13, <1>y DEF With
        <4> QED BY <3>2, <4>1, <1>k
      <3> QED BY <3>1, <3>2
    <2>18. /\ Len(d.roots) = Len(b.roots) /\ Len(d.outputs) = Len(b.outputs)
           /\ \A z \in Roots(b) : z # r => d.roots[z].status = b.roots[z].status
           /\ \A q \in Requests(b) : b.log[q].op = "create" => d.log[q].op = "create"
           /\ d.roots[r].status = "unmounted"
      <3>1. Roots(k) = Roots(b)
        BY <2>3, <2>4, <2>7 DEF Roots
      <3> QED BY <3>1, <2>2, <2>3, <2>4, <2>7, <2>9
    <2> QED BY <2>9, <2>10, <2>12, <2>16, <2>17, <2>18 DEF Clears
  <1> QED BY <1>1, <1>2

\* An unmount that throws before it clears the container leaves what is shown as it is.
LEMMA UnmountFailsIs ==
  ASSUME NEW b, IsBridge(b), Idle(b), NEW r \in Roots(b), ActiveOutput(b, r) # None,
         NEW d, d = UnmountFails(b, r)
  PROVE  Still(d, b, r) /\ Idle(d) /\ d.roots[r].status = "unmounted"
  <1> DEFINE x == UnmountContainer(b, r)
             y == UnmountAdmitted(b, r, ActiveOutput(b, r))
  <1>1. d = x \/ d = RevertEffects(y, NewEffect(y))
    BY DEF UnmountFails
  <1>2. CASE d = x
    <2>1. /\ IsBridge(d) /\ HasRecordsOf(d, b)
          /\ d.marker = b.marker /\ d.effects = b.effects
          /\ d.outputs = b.outputs /\ d.children = b.children
          /\ Len(d.roots) = Len(b.roots)
          /\ \A z \in Roots(b) : z # r => d.roots[z] = b.roots[z]
          /\ d.roots[r].status = "unmounted"
          /\ \A q \in Requests(b) : d.log[q] = b.log[q]
      BY <1>2, UnmountMakes
    <2> QED BY <2>1 DEF Still, Idle, Effects
  <1>3. CASE d = RevertEffects(y, NewEffect(y))
    <2>1. PICK o \in Outputs(b) : o = ActiveOutput(b, r)
      BY ActiveOutputIs
    <2>2. Still(y, b, r) /\ Busy(y, r) /\ y.roots[r].status = "unmounted"
      BY <2>1, UnmountAdmittedMakes
    <2> HIDE DEF y
    <2>3. IsBridge(y) /\ r \in Roots(y)
      BY <2>2 DEF Still, Roots
    <2>4. Still(d, y, r) /\ Idle(d) /\ d.roots = y.roots
      BY <1>3, <2>2, <2>3, RevertBusy
    <2> QED BY <2>2, <2>4, StillChain
  <1> QED BY <1>1, <1>2, <1>3

\* Bridge d comes from b by an unmount of root r that has cleared its container: the outputs
\* are no longer mounted, but keep what their handoffs say of them.
Empties(d, b, r) ==
  /\ IsBridge(d) /\ HasRecordsOf(d, b) /\ Idle(d) /\ Len(d.roots) = Len(b.roots)
  /\ \A x \in Roots(b) : x # r => d.roots[x].status = b.roots[x].status
  /\ d.roots[r].status = "unmounted"
  /\ \A q \in Requests(b) : b.log[q].op = "create" => d.log[q].op = "create"
  /\ Len(d.outputs) = Len(b.outputs)
  /\ \A o \in Outputs(b) :
       /\ d.outputs[o].content = b.outputs[o].content
       /\ d.outputs[o].active <=> b.outputs[o].active
       /\ d.outputs[o].mounted <=>
            (b.outputs[o].mounted /\ o \notin b.children[ContainerOf(b, r)])
  /\ d.children = With(b.children, ContainerOf(b, r), {})

\* An unmount that throws when it takes the listeners back has cleared the container.
LEMMA UnmountRevertFailsIs ==
  ASSUME NEW b, IsBridge(b), Idle(b), NEW r \in Roots(b), ActiveOutput(b, r) # None,
         NEW d, d = UnmountRevertFails(b, r)
  PROVE  Empties(d, b, r)
  <1> DEFINE y == UnmountAdmitted(b, r, ActiveOutput(b, r))
             c == ContainerOf(b, r)
             z == ClearContainer(y, c)
  <1>1. PICK o \in Outputs(b) : o = ActiveOutput(b, r)
    BY ActiveOutputIs
  <1>2. Still(y, b, r) /\ Busy(y, r) /\ y.roots[r].status = "unmounted"
    BY <1>1, UnmountAdmittedMakes
  <1>3. d = RevertEffects(z, NewEffect(y))
    BY DEF UnmountRevertFails
  <1> HIDE DEF y
  <1>4. /\ IsBridge(y) /\ HasRecordsOf(y, b) /\ Len(y.roots) = Len(b.roots)
        /\ \A x \in Roots(b) : x # r => y.roots[x].status = b.roots[x].status
        /\ \A q \in Requests(b) : b.log[q].op = "create" => y.log[q].op = "create"
        /\ y.outputs = b.outputs /\ y.children = b.children
    BY <1>2 DEF Still
  <1>c. c \in Containers
    BY ContainerTyped DEF IsBridge
  <1> HIDE DEF c
  <1>5. /\ IsBridge(z) /\ HasRecordsOf(z, y)
        /\ z.roots = y.roots /\ z.log = y.log /\ z.marker = y.marker
        /\ z.effects = y.effects /\ z.admissions = y.admissions
        /\ Len(z.outputs) = Len(y.outputs)
        /\ \A x \in Outputs(y) :
             /\ z.outputs[x].content = y.outputs[x].content
             /\ z.outputs[x].active = y.outputs[x].active
             /\ z.outputs[x].mounted <=> (y.outputs[x].mounted /\ x \notin y.children[c])
        /\ z.children = With(y.children, c, {})
    BY <1>4, <1>c, ClearMakes
  <1>6. d = RevertEffects(z, NewEffect(z))
    BY <1>3, <1>5 DEF NewEffect
  <1> HIDE DEF z
  <1>7. Busy(z, r) /\ r \in Roots(z)
    BY <1>2, <1>4, <1>5 DEF Busy, NewEffect, Effects, ContainerOf, Roots
  <1>8. /\ Still(d, z, r) /\ Idle(d)
        /\ d.roots = z.roots /\ d.log = z.log
    BY <1>5, <1>6, <1>7, RevertBusy
  <1>9. IsBridge(d) /\ HasRecordsOf(d, z) /\ d.outputs = z.outputs /\ d.children = z.children
    BY <1>8 DEF Still
  <1>10. HasRecordsOf(d, b)
    <2>1. HasRecordsOf(z, b)
      BY <1>4, <1>5, RecordsStay DEF IsBridge
    <2> QED BY <2>1, <1>5, <1>9, RecordsStay DEF IsBridge
  <1>11. /\ Len(d.roots) = Len(b.roots) /\ Len(d.outputs) = Len(b.outputs)
         /\ \A x \in Roots(b) : x # r => d.roots[x].status = b.roots[x].status
         /\ \A q \in Requests(b) : b.log[q].op = "create" => d.log[q].op = "create"
         /\ d.roots[r].status = "unmounted"
         /\ d.children = With(b.children, c, {})
    BY <1>2, <1>4, <1>5, <1>8, <1>9
  <1>12. \A x \in Outputs(b) :
           /\ d.outputs[x].content = b.outputs[x].content
           /\ d.outputs[x].active <=> b.outputs[x].active
           /\ d.outputs[x].mounted <=> (b.outputs[x].mounted /\ x \notin b.children[c])
    BY <1>4, <1>5, <1>9 DEF Outputs
  <1> QED BY <1>8, <1>9, <1>10, <1>11, <1>12 DEF Empties, c

\* The container is empty, and its root, which is retired, keeps its active output.
LEMMA EmptiesKeeps ==
  ASSUME NEW b, NEW p, NEW t, PublicOk(b, p, t), NEW r \in Roots(b), ~ p[r].unmounted,
         NEW d, Empties(d, b, r)
  PROVE  PublicOk(d, p, t)
  <1> DEFINE c == ContainerOf(b, r)
  <1>b. /\ IsBridge(b) /\ p \in Seq(PublicRecords) /\ Len(p) = Len(b.roots) /\ t \subseteq Containers
        /\ Created(b) /\ PublicAgrees(b, p) /\ OutputsAgree(b) /\ OneOutputEach(b, p)
        /\ OneOwnerEach(b, p, t)
    BY DEF PublicOk
  <1>d. /\ IsBridge(d) /\ HasRecordsOf(d, b) /\ Idle(d) /\ Len(d.roots) = Len(b.roots)
        /\ \A x \in Roots(b) : x # r => d.roots[x].status = b.roots[x].status
        /\ d.roots[r].status = "unmounted"
        /\ \A q \in Requests(b) : b.log[q].op = "create" => d.log[q].op = "create"
    BY DEF Empties
  <1>e. /\ \A o \in Outputs(b) :
             /\ d.outputs[o].active <=> b.outputs[o].active
             /\ d.outputs[o].mounted <=> (b.outputs[o].mounted /\ o \notin b.children[c])
        /\ d.children = With(b.children, c, {})
    BY DEF Empties
  <1>r. Roots(d) = Roots(b) /\ Outputs(d) = Outputs(b)
    BY DEF Empties, Roots, Outputs
  <1>o. \A o \in Outputs(b) :
          /\ RootOfOutput(b, o) \in Roots(b)
          /\ RootOfOutput(d, o) = RootOfOutput(b, o)
          /\ ContainerOf(d, RootOfOutput(d, o)) = ContainerOf(b, RootOfOutput(b, o))
    BY <1>b, <1>d, RootsStay
  <1>c. \A x \in Roots(b) : ContainerOf(d, x) = ContainerOf(b, x) /\ ContainerOf(b, x) \in Containers
    BY <1>b, <1>d, ContainerTyped DEF HasRecordsOf, ContainerOf, IsBridge
  <1>k. \A k \in Containers : d.children[k] = IF k = c THEN {} ELSE b.children[k]
    <2>1. b.children \in [Containers -> SUBSET Nat]
      BY <1>b, BridgeTypes DEF IsBridge
    <2> QED BY <2>1, <1>e DEF With
  <1>h. c \in Containers
    BY <1>c
  <1> HIDE DEF c
  <1>1. Created(d)
    BY <1>b, <1>d, CreatedStays
  <1>2. PublicAgrees(d, p)
    <2>1. \A x \in Roots(b) : Shows(d, x) <=> Shows(b, x)
      BY <1>e, <1>o, <1>r DEF Shows
    <2>2. \A x \in Roots(b) : p[x].unmounted => d.roots[x].status = "unmounted"
      BY <1>b, <1>d DEF PublicAgrees
    <2> QED BY <2>1, <2>2, <1>b, <1>r DEF PublicAgrees
  <1>3. OutputsAgree(d)
    <2>1. ASSUME NEW o \in Outputs(b)
          PROVE  /\ d.outputs[o].mounted => d.outputs[o].active
                 /\ d.outputs[o].active =>
                      d.outputs[o].mounted \/ d.roots[RootOfOutput(d, o)].status = "unmounted"
                 /\ d.outputs[o].mounted <=> o \in d.children[ContainerOf(d, RootOfOutput(d, o))]
      <3> DEFINE k == ContainerOf(b, RootOfOutput(b, o))
      <3>1. /\ k \in Containers /\ RootOfOutput(b, o) \in Roots(b)
            /\ ContainerOf(d, RootOfOutput(d, o)) = k
        BY <1>c, <1>o
      <3>2. /\ b.outputs[o].mounted => b.outputs[o].active
            /\ b.outputs[o].active =>
                 b.outputs[o].mounted \/ b.roots[RootOfOutput(b, o)].status = "unmounted"
            /\ b.outputs[o].mounted <=> o \in b.children[k]
            /\ \A x \in Containers : o \in b.children[x] => k = x
        BY <1>b DEF OutputsAgree
      <3>3. o \in b.children[c] => RootOfOutput(b, o) = r
        <4>1. SUFFICES ASSUME o \in b.children[c] PROVE RootOfOutput(b, o) = r
          OBVIOUS
        <4>2. k = c /\ b.outputs[o].active
          BY <3>2, <4>1, <1>h
        <4>3. ~ p[RootOfOutput(b, o)].unmounted
          BY <4>2, <1>b DEF OneOutputEach
        <4> QED BY <3>1, <4>2, <4>3, <1>b DEF OneOwnerEach, c
      <3> HIDE DEF k
      <3>4. d.outputs[o].mounted <=> o \in d.children[k]
        BY <3>1, <3>2, <1>e, <1>h, <1>k
      <3>5. d.outputs[o].active =>
              d.outputs[o].mounted \/ d.roots[RootOfOutput(b, o)].status = "unmounted"
        BY <3>1, <3>2, <3>3, <1>d, <1>e
      <3> QED BY <3>1, <3>2, <3>4, <3>5, <1>e, <1>o
    <2>2. ASSUME NEW x \in Containers, NEW o \in d.children[x]
          PROVE  o \in Outputs(d) /\ ContainerOf(d, RootOfOutput(d, o)) = x
      BY <1>b, <1>k, <1>o, <1>r DEF OutputsAgree
    <2> QED BY <2>1, <2>2, <1>r DEF OutputsAgree
  <1>4. OneOutputEach(d, p)
    BY <1>b, <1>e, <1>o, <1>r DEF OneOutputEach
  <1>5. OneOwnerEach(d, p, t)
    BY <1>b, <1>c, <1>r DEF OneOwnerEach
  <1> QED BY <1>b, <1>d, <1>1, <1>2, <1>3, <1>4, <1>5 DEF PublicOk

\* Public roots with one more, which shows nothing.
Joined(s, p) ==
  /\ s \in Seq(PublicRecords) /\ Len(s) = Len(p) + 1
  /\ ~ s[Len(p) + 1].mounted /\ ~ s[Len(p) + 1].unmounted
  /\ \A x \in 1 .. Len(p) : s[x] = p[x]

\* The assignment of createRoot to the public roots.
LEMMA AppendJoins ==
  ASSUME NEW p, p \in Seq(PublicRecords)
  PROVE  Joined(Append(p, [mounted |-> FALSE, unmounted |-> FALSE]), p)
  <1> DEFINE fresh == [mounted |-> FALSE, unmounted |-> FALSE]
  <1>1. fresh \in PublicRecords /\ ~ fresh.mounted /\ ~ fresh.unmounted
    BY DEF PublicRecords
  <1>2. ASSUME NEW s, s = Append(p, fresh) PROVE Joined(s, p)
    <2> HIDE DEF fresh
    <2>1. /\ s \in Seq(PublicRecords) /\ Len(s) = Len(p) + 1 /\ s[Len(p) + 1] = fresh
          /\ \A x \in 1 .. Len(p) : s[x] = p[x]
      BY <1>1, <1>2, Extended
    <2> QED BY <2>1, <1>1 DEF Joined
  <1> QED BY <1>2

\* A new root of a container that is not tracked.
LEMMA CreateRootKeeps ==
  ASSUME NEW b, NEW p, NEW t, PublicOk(b, p, t), NEW c \in Containers, c \notin t,
         NEW d, d = CreateClientRoot(b, c), NEW s, Joined(s, p),
         NEW u, \A x : x \in u <=> x \in t \/ x = c
  PROVE  PublicOk(d, s, u)
  <1> DEFINE n == Len(b.roots) + 1
  <1>b. /\ IsBridge(b) /\ p \in Seq(PublicRecords) /\ Len(p) = Len(b.roots) /\ t \subseteq Containers
        /\ Idle(b) /\ Created(b) /\ PublicAgrees(b, p) /\ OutputsAgree(b) /\ OneOutputEach(b, p)
        /\ OneOwnerEach(b, p, t)
    BY DEF PublicOk
  <1>d. /\ IsBridge(d) /\ HasRecordsOf(d, b)
        /\ d.marker = b.marker /\ d.effects = b.effects
        /\ d.outputs = b.outputs /\ d.children = b.children
        /\ Len(d.roots) = n /\ Len(d.log) = Len(b.log) + 1
        /\ \A r \in Roots(b) : d.roots[r] = b.roots[r]
        /\ \A q \in Requests(b) : d.log[q] = b.log[q]
        /\ d.roots[n].container = c
        /\ d.log[Len(b.log) + 1].root = n
        /\ d.log[Len(b.log) + 1].op = "create"
    BY <1>b, CreateMakes
  <1>s. s \in Seq(PublicRecords) /\ Len(s) = Len(p) + 1
        /\ \A x \in Roots(b) : s[x] = p[x]
    BY <1>b DEF Joined, Roots
  <1>m. ~ s[n].mounted /\ ~ s[n].unmounted
    BY <1>b DEF Joined
  <1>n. Len(b.roots) \in Nat /\ Len(b.log) \in Nat
    BY <1>b, BridgeTypes DEF IsBridge
  <1>r. Roots(d) = Roots(b) \cup {n} /\ n \notin Roots(b) /\ Outputs(d) = Outputs(b)
    BY <1>d, <1>n DEF Roots, Outputs
  <1> HIDE DEF n
  <1>o. \A o \in Outputs(b) :
          /\ RootOfOutput(b, o) \in Roots(b)
          /\ RootOfOutput(d, o) = RootOfOutput(b, o)
          /\ ContainerOf(d, RootOfOutput(d, o)) = ContainerOf(b, RootOfOutput(b, o))
    BY <1>b, <1>d, RootsStay
  <1>c. ContainerOf(d, n) = c /\ \A x \in Roots(b) : ContainerOf(d, x) = ContainerOf(b, x)
    BY <1>d DEF ContainerOf
  <1>1. Created(d)
    <2>1. Requests(d) = Requests(b) \cup {Len(b.log) + 1}
      BY <1>d, <1>n DEF Requests
    <2> QED BY <2>1, <1>b, <1>d, <1>r DEF Created
  <1>2. PublicAgrees(d, s)
    <2>1. \A x \in Roots(b) : Shows(d, x) <=> Shows(b, x)
      BY <1>d, <1>o, <1>r DEF Shows
    <2>2. ~ Shows(d, n)
      BY <1>o, <1>r DEF Shows
    <2>3. \A x \in Roots(b) : s[x].mounted <=> Shows(d, x)
      BY <2>1, <1>b, <1>s DEF PublicAgrees
    <2>4. \A x \in Roots(b) : s[x].unmounted => d.roots[x].status = "unmounted"
      BY <1>b, <1>d, <1>s DEF PublicAgrees
    <2> QED BY <2>2, <2>3, <2>4, <1>m, <1>r DEF PublicAgrees
  <1>3. OutputsAgree(d)
    BY <1>b, <1>d, <1>o, <1>r DEF OutputsAgree
  <1>4. OneOutputEach(d, s)
    <2>1. \A o, x \in Outputs(b) :
            d.outputs[o].active /\ d.outputs[x].active
              /\ RootOfOutput(d, o) = RootOfOutput(d, x) => o = x
      BY <1>b, <1>d, <1>o DEF OneOutputEach
    <2>2. \A o \in Outputs(b) : d.outputs[o].active => ~ s[RootOfOutput(d, o)].unmounted
      BY <1>b, <1>d, <1>o, <1>s DEF OneOutputEach
    <2> QED BY <2>1, <2>2, <1>r DEF OneOutputEach
  <1>5. OneOwnerEach(d, s, u)
    <2>1. \A x \in Roots(b) : ~ p[x].unmounted => ContainerOf(b, x) # c
      BY <1>b DEF OneOwnerEach
    <2>2. \A x, z \in Roots(b) :
            ~ p[x].unmounted /\ ~ p[z].unmounted /\ ContainerOf(b, x) = ContainerOf(b, z) => x = z
      BY <1>b DEF OneOwnerEach
    <2>3. \A x, z \in Roots(d) :
            ~ s[x].unmounted /\ ~ s[z].unmounted /\ ContainerOf(d, x) = ContainerOf(d, z) => x = z
      BY <2>1, <2>2, <1>c, <1>r, <1>s
    <2>4. ASSUME NEW k \in Containers
          PROVE  k \in u <=> \E x \in Roots(d) : ~ s[x].unmounted /\ ContainerOf(d, x) = k
      <3>1. k \in t <=> \E x \in Roots(b) : ~ p[x].unmounted /\ ContainerOf(b, x) = k
        BY <1>b DEF OneOwnerEach
      <3>2. (\E x \in Roots(b) : ~ s[x].unmounted /\ ContainerOf(d, x) = k)
              <=> \E x \in Roots(b) : ~ p[x].unmounted /\ ContainerOf(b, x) = k
        BY <1>c, <1>s
      <3>3. (\E x \in Roots(d) : ~ s[x].unmounted /\ ContainerOf(d, x) = k)
              <=> (\E x \in Roots(b) : ~ s[x].unmounted /\ ContainerOf(d, x) = k) \/ k = c
        BY <1>c, <1>m, <1>r
      <3> QED BY <3>1, <3>2, <3>3
    <2> QED BY <2>3, <2>4 DEF OneOwnerEach
  <1>6. Idle(d)
    BY <1>b, <1>d DEF Idle, Effects
  <1>7. Len(s) = Len(d.roots) /\ u \subseteq Containers
    BY <1>b, <1>d, <1>s DEF n
  <1> QED BY <1>d, <1>s, <1>1, <1>2, <1>3, <1>4, <1>5, <1>6, <1>7 DEF PublicOk

\* The records of no calls at all.
LEMMA NothingCreated ==
  ASSUME NEW b, b = EmptyBridge, NEW p, p = <<>>, NEW t, t = {}
  PROVE  PublicOk(b, p, t)
  <1>1. IsBridge(b)
    BY EmptyKeeps DEF BridgeInv
  <1>2. /\ b.roots = <<>> /\ b.outputs = <<>> /\ b.effects = <<>>
        /\ b.marker = [c \in Containers |-> None] /\ b.children = [c \in Containers |-> {}]
    BY DEF EmptyBridge
  <1>3. Roots(b) = {} /\ Outputs(b) = {} /\ Effects(b) = {} /\ Len(p) = Len(b.roots)
        /\ p \in Seq(PublicRecords)
    BY <1>2 DEF Roots, Outputs, Effects
  <1>4. Idle(b) /\ Created(b) /\ PublicAgrees(b, p)
    BY <1>2, <1>3 DEF Idle, Created, PublicAgrees
  <1>5. OutputsAgree(b) /\ OneOutputEach(b, p) /\ OneOwnerEach(b, p, t)
    BY <1>2, <1>3 DEF OutputsAgree, OneOutputEach, OneOwnerEach
  <1> QED BY <1>1, <1>3, <1>4, <1>5 DEF PublicOk

\* The assignment of hostOutputMounted of a root that is mounted.
LEMMA MountedStays ==
  ASSUME NEW p, p \in Seq(PublicRecords), NEW r, r \in 1 .. Len(p), p[r].mounted
  PROVE  [p EXCEPT ![r].mounted = TRUE] = p
  <1>1. p[r] \in PublicRecords
    OBVIOUS
  <1>2. [p[r] EXCEPT !.mounted = TRUE] = p[r]
    BY <1>1 DEF PublicRecords
  <1>3. [p EXCEPT ![r] = [p[r] EXCEPT !.mounted = TRUE]] = p
    BY <1>2
  <1> QED BY <1>3

\* A call that throws leaves the children of the containers and the contents of the outputs.
DomStays(d, b) ==
  /\ d.children = b.children
  /\ \A o \in Outputs(b) : d.outputs[o].content = b.outputs[o].content

\* Calls that change no output leave the DOM.
LEMMA StillStays ==
  ASSUME NEW b, NEW d, NEW r, Still(d, b, r)
  PROVE  DomStays(d, b)
  BY DEF Still, DomStays

\* A call that throws half way keeps the invariant and the DOM.
LEMMA StillKeeps ==
  ASSUME NEW b, NEW p, NEW t, PublicOk(b, p, t), NEW d, NEW r, Still(d, b, r), Idle(d),
         ~ p[r].unmounted,
         b.roots[r].status = "unmounted" => d.roots[r].status = "unmounted"
  PROVE  PublicOk(d, p, t) /\ DomStays(d, b)
  BY StillIsQuiet, StillStays, QuietKeeps

\* The invariant of the public roots.
PublicInv == PublicOk(bridge, public, tracked)

\* What a call that throws does to the DOM.
KeepsDom ==
  /\ \A c \in Containers :
       \/ bridge'.children[c] = bridge.children[c]
       \/ "revert" \in Faults /\ ClearedByUnmount(c)
  /\ \A o \in Outputs(bridge) : bridge'.outputs[o].content = bridge.outputs[o].content

\* Every call keeps the invariant, and one that throws keeps the DOM, but for an unmount that
\* has emptied its container.
LEMMA PublicStep ==
  ASSUME PublicInv, Next
  PROVE  PublicInv' /\ (result' = "threw" => KeepsDom)
  <1>b. /\ PublicOk(bridge, public, tracked) /\ IsBridge(bridge) /\ Idle(bridge) /\ Created(bridge)
        /\ public \in Seq(PublicRecords) /\ Len(public) = Len(bridge.roots)
        /\ PublicAgrees(bridge, public)
    BY DEF PublicInv, PublicOk
  <1>k. DomStays(bridge', bridge) => KeepsDom
    BY DEF DomStays, KeepsDom
  <1>s. bridge' = bridge => KeepsDom
    BY DEF KeepsDom
  <1>1. CASE \E c \in Containers : createRoot(c)
    <2>1. PICK c \in Containers : createRoot(c)
      BY <1>1
    <2>2. /\ c \notin tracked /\ bridge' = CreateClientRoot(bridge, c)
          /\ public' = Append(public, [mounted |-> FALSE, unmounted |-> FALSE])
          /\ tracked' = tracked \cup {c} /\ result' = "returned"
      BY <2>1 DEF createRoot, ContainerAvailable, Call
    <2>3. Joined(public', public) /\ \A x : x \in tracked' <=> x \in tracked \/ x = c
      BY <2>2, <1>b, AppendJoins
    <2>4. PublicOk(bridge', public', tracked')
      BY <2>2, <2>3, <1>b, CreateRootKeeps
    <2> QED BY <2>2, <2>4 DEF PublicInv
  <1>2. ASSUME NEW r \in Live,
               \/ renderInitialListenFails(r) \/ renderNull(r) \/ unmount(r)
               \/ \E element \in Elements :
                    \/ renderInitial(r, element) \/ renderText(r, element)
                    \/ renderNested(r, element) \/ renderRefused(r, element)
        PROVE  PublicOk(bridge', public', tracked')
               /\ (result' = "threw" => KeepsDom)
    <2>r. r \in Roots(bridge) /\ ~ public[r].unmounted /\ r \in 1 .. Len(public)
      BY <1>b DEF Live, Roots
    <2>o. /\ ActiveOutput(bridge, r) # None <=> Shows(bridge, r)
          /\ ActiveOutput(bridge, r) # None =>
               /\ ActiveOutput(bridge, r) \in Outputs(bridge)
               /\ RootOfOutput(bridge, ActiveOutput(bridge, r)) = r
               /\ bridge.outputs[ActiveOutput(bridge, r)].active
          /\ public[r].mounted <=> Shows(bridge, r)
      BY <2>r, <1>b, ActiveOutputIs DEF PublicAgrees
    <2>e. /\ Except([public EXCEPT ![r].mounted = FALSE], public, r)
          /\ MountsOnly([public EXCEPT ![r].mounted = TRUE], public, r)
          /\ [public EXCEPT ![r].mounted = TRUE][r].mounted
          /\ ~ [public EXCEPT ![r].mounted = FALSE][r].mounted
          /\ [public EXCEPT ![r].mounted = FALSE][r].unmounted <=> public[r].unmounted
      BY <2>r, <1>b, MountedChanges DEF Except, MountsOnly
    <2>1. CASE renderInitialListenFails(r)
      <3>1. bridge' = ApplyEffectsFails(bridge, r) /\ UNCHANGED <<public, tracked>>
        BY <2>1 DEF renderInitialListenFails, Call
      <3>2. CanMark(bridge, ContainerOf(bridge, r))
        BY <2>r, <1>b, ContainerTyped DEF CanMark, Idle, IsBridge
      <3>3. bridge' = bridge
        BY <3>1, <3>2, <2>r, <1>b, ApplyFailsKeeps
      <3> QED BY <3>1, <3>3, <1>b, <1>s
    <2>2. CASE renderNull(r)
      <3>1. \/ /\ bridge' = ClearOutput(bridge, r, ActiveOutput(bridge, r))
               /\ result' = "returned"
               /\ public' = [public EXCEPT ![r].mounted = FALSE]
            \/ bridge' = bridge /\ public' = public
        BY <2>2 DEF renderNull, Call
      <3>2. tracked' = tracked /\ public[r].mounted
        BY <2>2 DEF renderNull
      <3>3. CASE /\ bridge' = ClearOutput(bridge, r, ActiveOutput(bridge, r))
                 /\ result' = "returned"
                 /\ public' = [public EXCEPT ![r].mounted = FALSE]
        <4>1. PICK o \in Outputs(bridge) :
                /\ o = ActiveOutput(bridge, r) /\ RootOfOutput(bridge, o) = r
                /\ bridge.outputs[o].active
          BY <3>2, <2>o
        <4>2. Clears(bridge', bridge, r)
          BY <3>3, <4>1, <2>r, <1>b, ClearOutputIs
        <4>3. Except(public', public, r) /\ ~ public'[r].mounted /\ ~ public'[r].unmounted
          BY <3>3, <2>e, <2>r
        <4>4. Tracks(tracked', tracked, ContainerOf(bridge, r), public'[r].unmounted)
          BY <3>2, <4>3 DEF Tracks
        <4>5. PublicOk(bridge', public', tracked')
          BY <4>2, <4>3, <4>4, <2>r, <1>b, ClearsKeeps
        <4> QED BY <3>3, <4>5
      <3>4. CASE bridge' = bridge /\ public' = public
        BY <3>2, <3>4, <1>b, <1>s
      <3> QED BY <3>1, <3>3, <3>4
    <2>3. CASE unmount(r)
      <3>1. \/ /\ bridge' = UnmountOutput(bridge, r) /\ result' = "returned"
               /\ public' = [public EXCEPT ![r] = [mounted |-> FALSE, unmounted |-> TRUE]]
               /\ tracked' = tracked \ {ContainerOf(bridge, r)}
            \/ /\ ~ UnmountReturns(bridge, r) \/ ActiveOutput(bridge, r) # None
               /\ bridge' = UnmountFails(bridge, r) /\ public' = public /\ tracked' = tracked
            \/ /\ "revert" \in Faults /\ UnmountReturns(bridge, r) /\ ActiveOutput(bridge, r) # None
               /\ bridge' = UnmountRevertFails(bridge, r) /\ public' = public /\ tracked' = tracked
        BY <2>3 DEF unmount, Call
      <3>2. CASE /\ bridge' = UnmountOutput(bridge, r) /\ result' = "returned"
                 /\ public' = [public EXCEPT ![r] = [mounted |-> FALSE, unmounted |-> TRUE]]
                 /\ tracked' = tracked \ {ContainerOf(bridge, r)}
        <4>1. Clears(bridge', bridge, r) /\ bridge'.roots[r].status = "unmounted"
          BY <3>2, <2>r, <1>b, UnmountOutputIs
        <4>2. Except(public', public, r) /\ ~ public'[r].mounted /\ public'[r].unmounted
          <5> DEFINE gone == [mounted |-> FALSE, unmounted |-> TRUE]
          <5>1. gone \in PublicRecords /\ ~ gone.mounted /\ gone.unmounted
            BY DEF PublicRecords
          <5>2. public' = [public EXCEPT ![r] = gone]
            BY <3>2
          <5> HIDE DEF gone
          <5>3. /\ public' \in Seq(PublicRecords) /\ Len(public') = Len(public)
                /\ public'[r] = gone
                /\ \A x \in 1 .. Len(public) : x # r => public'[x] = public[x]
            BY <5>1, <5>2, <2>r, <1>b, Replaced
          <5> QED BY <5>1, <5>3 DEF Except
        <4>3. Tracks(tracked', tracked, ContainerOf(bridge, r), public'[r].unmounted)
          BY <3>2, <4>2 DEF Tracks
        <4>4. PublicOk(bridge', public', tracked')
          BY <4>1, <4>2, <4>3, <2>r, <1>b, ClearsKeeps
        <4> QED BY <3>2, <4>4
      <3>3. CASE /\ ~ UnmountReturns(bridge, r) \/ ActiveOutput(bridge, r) # None
                 /\ bridge' = UnmountFails(bridge, r) /\ public' = public /\ tracked' = tracked
        <4>1. ActiveOutput(bridge, r) # None
          BY <3>3 DEF UnmountReturns
        <4>2. Still(bridge', bridge, r) /\ Idle(bridge') /\ bridge'.roots[r].status = "unmounted"
          BY <3>3, <4>1, <2>r, <1>b, UnmountFailsIs
        <4>3. PublicOk(bridge', public, tracked) /\ DomStays(bridge', bridge)
          BY <4>2, <2>r, <1>b, StillKeeps
        <4> QED BY <3>3, <4>3, <1>k
      <3>4. CASE /\ "revert" \in Faults /\ UnmountReturns(bridge, r) /\ ActiveOutput(bridge, r) # None
                 /\ bridge' = UnmountRevertFails(bridge, r) /\ public' = public /\ tracked' = tracked
        <4>1. Empties(bridge', bridge, r)
          BY <3>4, <2>r, <1>b, UnmountRevertFailsIs
        <4>2. PublicOk(bridge', public, tracked)
          BY <4>1, <2>r, <1>b, EmptiesKeeps
        <4>3. ClearedByUnmount(ContainerOf(bridge, r))
          <5>1. CanRender(bridge, r) /\ ~ CanRender(bridge', r)
            BY <3>4, <4>1 DEF UnmountReturns, CanRender, Empties
          <5>2. bridge'.children[ContainerOf(bridge, r)] = {}
            <6>1. bridge.children \in [Containers -> SUBSET Nat] /\ ContainerOf(bridge, r) \in Containers
              BY <2>r, <1>b, BridgeTypes, ContainerTyped DEF IsBridge
            <6> QED BY <4>1, <6>1 DEF Empties, With
          <5> QED BY <3>4, <5>1, <5>2 DEF ClearedByUnmount
        <4>4. \A c \in Containers :
                c # ContainerOf(bridge, r) => bridge'.children[c] = bridge.children[c]
          <5>1. bridge.children \in [Containers -> SUBSET Nat]
            BY <1>b, BridgeTypes DEF IsBridge
          <5> QED BY <4>1, <5>1 DEF Empties, With
        <4>5. \A o \in Outputs(bridge) : bridge'.outputs[o].content = bridge.outputs[o].content
          BY <4>1 DEF Empties
        <4>6. KeepsDom
          BY <3>4, <4>3, <4>4, <4>5 DEF KeepsDom
        <4> QED BY <3>4, <4>2, <4>6
      <3> QED BY <3>1, <3>2, <3>3, <3>4
    <2>4. ASSUME NEW element \in Elements, renderInitial(r, element)
          PROVE  PublicOk(bridge', public', tracked')
                 /\ (result' = "threw" => KeepsDom)
      <3>1. \/ /\ bridge' = InitialRender(bridge, r) /\ result' = "returned"
               /\ public' = [public EXCEPT ![r].mounted = TRUE]
            \/ bridge' = InitialRenderFails(bridge, r) /\ public' = public
            \/ bridge' = InitialRenderRevertFails(bridge, r) /\ public' = public
        BY <2>4 DEF renderInitial, Call
      <3>2. tracked' = tracked /\ ActiveOutput(bridge, r) = None
            /\ bridge.roots[r].status # "unmounted"
        BY <2>4 DEF renderInitial, CanRender
      <3>3. CASE /\ bridge' = InitialRender(bridge, r) /\ result' = "returned"
                 /\ public' = [public EXCEPT ![r].mounted = TRUE]
        <4>1. ~ Shows(bridge, r)
          BY <3>2, <2>o
        <4>2. MountsOnly(public', public, r) /\ public'[r].mounted
          BY <3>3, <2>e
        <4>3. PublicOk(bridge', public', tracked)
          BY <3>3, <4>1, <4>2, <2>r, <1>b, InitialRenderKeeps
        <4> QED BY <3>2, <3>3, <4>3
      <3>4. CASE bridge' = InitialRenderFails(bridge, r) /\ public' = public
        <4>1. Still(bridge', bridge, r) /\ Idle(bridge')
          BY <3>4, <2>r, <1>b, InitialRenderFailsIs
        <4>2. PublicOk(bridge', public, tracked) /\ DomStays(bridge', bridge)
          BY <3>2, <4>1, <2>r, <1>b, StillKeeps
        <4> QED BY <3>2, <3>4, <4>2, <1>k
      <3>5. CASE bridge' = InitialRenderRevertFails(bridge, r) /\ public' = public
        <4>0. OutputsAgree(bridge)
          BY <1>b DEF PublicOk
        <4>1. /\ Quiet(bridge', bridge, r) /\ Idle(bridge')
              /\ \A o \in Outputs(bridge) : bridge'.outputs[o].content = bridge.outputs[o].content
          BY <3>5, <4>0, <2>r, <1>b, InitialRenderRevertFailsIs
        <4>2. PublicOk(bridge', public, tracked)
          BY <3>2, <4>1, <2>r, <1>b, QuietKeeps
        <4>3. DomStays(bridge', bridge)
          BY <4>1 DEF Quiet, DomStays
        <4> QED BY <3>2, <3>5, <4>2, <4>3, <1>k
      <3> QED BY <3>1, <3>3, <3>4, <3>5
    <2>5. ASSUME NEW element \in Elements, renderText(r, element)
          PROVE  PublicOk(bridge', public', tracked')
                 /\ (result' = "threw" => KeepsDom)
      <3>1. \/ /\ bridge' = TextUpdate(bridge, r, ActiveOutput(bridge, r)) /\ result' = "returned"
               /\ public' = [public EXCEPT ![r].mounted = TRUE]
            \/ bridge' = TextUpdateFails(bridge, r) /\ public' = public
        BY <2>5 DEF renderText, Call
      <3>2. tracked' = tracked /\ ActiveOutput(bridge, r) # None
            /\ bridge.roots[r].status # "unmounted"
        BY <2>5 DEF renderText, CanRender
      <3>3. CASE /\ bridge' = TextUpdate(bridge, r, ActiveOutput(bridge, r)) /\ result' = "returned"
                 /\ public' = [public EXCEPT ![r].mounted = TRUE]
        <4>1. PICK o \in Outputs(bridge) : o = ActiveOutput(bridge, r)
          BY <3>2, <2>o
        <4>2. Quiet(bridge', bridge, r) /\ Idle(bridge')
          BY <3>3, <4>1, <2>r, <1>b, TextUpdateIs
        <4>3. public' = public
          BY <3>2, <3>3, <2>o, <2>r, <1>b, MountedStays
        <4>4. PublicOk(bridge', public, tracked)
          BY <3>2, <4>2, <2>r, <1>b, QuietKeeps
        <4> QED BY <3>2, <3>3, <4>3, <4>4
      <3>4. CASE bridge' = TextUpdateFails(bridge, r) /\ public' = public
        <4>1. Still(bridge', bridge, r) /\ Idle(bridge')
          BY <3>4, <2>r, <1>b, RenderIsStill DEF TextUpdateFails
        <4>2. PublicOk(bridge', public, tracked) /\ DomStays(bridge', bridge)
          BY <3>2, <4>1, <2>r, <1>b, StillKeeps
        <4> QED BY <3>2, <3>4, <4>2, <1>k
      <3> QED BY <3>1, <3>3, <3>4
    <2>6. ASSUME NEW element \in Elements, renderNested(r, element)
          PROVE  PublicOk(bridge', public', tracked')
                 /\ (result' = "threw" => KeepsDom)
      <3>1. \/ /\ bridge' = NestedUpdate(bridge, r, ActiveOutput(bridge, r)) /\ result' = "returned"
               /\ public' = [public EXCEPT ![r].mounted = TRUE]
            \/ bridge' = NestedUpdateFails(bridge, r) /\ public' = public
        BY <2>6 DEF renderNested, Call
      <3>2. tracked' = tracked /\ ActiveOutput(bridge, r) # None
            /\ bridge.roots[r].status # "unmounted"
        BY <2>6 DEF renderNested, CanRender
      <3>3. CASE /\ bridge' = NestedUpdate(bridge, r, ActiveOutput(bridge, r)) /\ result' = "returned"
                 /\ public' = [public EXCEPT ![r].mounted = TRUE]
        <4>1. PICK o \in Outputs(bridge) : o = ActiveOutput(bridge, r)
          BY <3>2, <2>o
        <4>2. Quiet(bridge', bridge, r) /\ Idle(bridge')
          BY <3>3, <4>1, <2>r, <1>b, NestedUpdateIs
        <4>3. public' = public
          BY <3>2, <3>3, <2>o, <2>r, <1>b, MountedStays
        <4>4. PublicOk(bridge', public, tracked)
          BY <3>2, <4>2, <2>r, <1>b, QuietKeeps
        <4> QED BY <3>2, <3>3, <4>3, <4>4
      <3>4. CASE bridge' = NestedUpdateFails(bridge, r) /\ public' = public
        <4>1. Still(bridge', bridge, r) /\ Idle(bridge')
          BY <3>4, <2>r, <1>b, NestedUpdateFailsIs
        <4>2. PublicOk(bridge', public, tracked) /\ DomStays(bridge', bridge)
          BY <3>2, <4>1, <2>r, <1>b, StillKeeps
        <4> QED BY <3>2, <3>4, <4>2, <1>k
      <3> QED BY <3>1, <3>3, <3>4
    <2>7. ASSUME NEW element \in Elements, renderRefused(r, element)
          PROVE  PublicOk(bridge', public', tracked')
                 /\ (result' = "threw" => KeepsDom)
      <3>1. bridge' = bridge /\ public' = public /\ tracked' = tracked
        BY <2>7 DEF renderRefused, Call
      <3> QED BY <3>1, <1>b, <1>s
    <2> QED BY <1>2, <2>1, <2>2, <2>3, <2>4, <2>5, <2>6, <2>7
  <1> QED BY <1>1, <1>2 DEF Next, PublicInv

\* The invariant says that the public roots, the facade and the DOM agree.
LEMMA PublicInvSuffices == PublicInv => PublicRootsAgree
  <1> SUFFICES ASSUME PublicInv PROVE PublicRootsAgree
    OBVIOUS
  <1>b. /\ IsBridge(bridge) /\ Idle(bridge) /\ PublicAgrees(bridge, public)
        /\ OutputsAgree(bridge) /\ OneOutputEach(bridge, public)
        /\ OneOwnerEach(bridge, public, tracked)
    BY DEF PublicInv, PublicOk
  <1>1. MountedAgrees
    <2>1. \A r \in Roots(bridge) :
            /\ public[r].mounted <=> ActiveOutput(bridge, r) # None
            /\ public[r].unmounted => ~ CanRender(bridge, r)
      BY <1>b, ActiveOutputIs DEF PublicAgrees, CanRender
    <2>2. \A o \in Outputs(bridge) :
            /\ bridge.outputs[o].mounted => bridge.outputs[o].active
            /\ bridge.outputs[o].active =>
                 bridge.outputs[o].mounted \/ ~ CanRender(bridge, RootOfOutput(bridge, o))
            /\ bridge.outputs[o].mounted <=>
                 o \in bridge.children[ContainerOf(bridge, RootOfOutput(bridge, o))]
      BY <1>b DEF OutputsAgree, CanRender
    <2> QED BY <2>1, <2>2 DEF MountedAgrees
  <1>2. TrackingMatchesRoots
    <2>1. ASSUME NEW c \in Containers,
                 NEW owners, owners = {r \in Live : ContainerOf(bridge, r) = c}
          PROVE  Cardinality(owners) <= 1 /\ (c \in tracked <=> owners # {})
      <3>1. \A r, x \in owners : r = x
        BY <2>1, <1>b DEF OneOwnerEach, Live
      <3>2. c \in tracked <=> owners # {}
        BY <2>1, <1>b DEF OneOwnerEach, Live
      <3>3. CASE owners = {}
        <4>1. Cardinality({}) = 0
          BY FS_EmptySet
        <4> QED BY <3>2, <3>3, <4>1
      <3>4. CASE owners # {}
        <4>1. PICK r : r \in owners
          BY <3>4
        <4>2. owners = {r}
          BY <3>1, <4>1
        <4>3. Cardinality({r}) = 1
          BY FS_Singleton
        <4> QED BY <3>2, <4>2, <4>3
      <3> QED BY <3>3, <3>4
    <2> QED BY <2>1 DEF TrackingMatchesRoots
  <1>3. ShownOutputIsOwned
    <2>1. ASSUME NEW c \in Containers, NEW o \in bridge.children[c]
          PROVE  RootOfOutput(bridge, o) \in Live /\ c \in tracked
      <3>1. o \in Outputs(bridge) /\ ContainerOf(bridge, RootOfOutput(bridge, o)) = c
            /\ bridge.outputs[o].active
        BY <1>b DEF OutputsAgree
      <3>2. RootOfOutput(bridge, o) \in Roots(bridge)
        BY <3>1, <1>b DEF IsBridge, Links, RootOfOutput, RootOfAdmission
      <3>3. ~ public[RootOfOutput(bridge, o)].unmounted
        BY <3>1, <1>b DEF OneOutputEach
      <3> QED BY <3>1, <3>2, <3>3, <1>b DEF OneOwnerEach, Live
    <2> QED BY <2>1 DEF ShownOutputIsOwned
  <1>4. NoEffectsBetweenCalls
    BY <1>b DEF Idle, NoEffectsBetweenCalls
  <1> QED BY <1>1, <1>2, <1>3, <1>4 DEF PublicRootsAgree

\* The invariant holds after every call.
LEMMA PublicInvHolds == Spec => []PublicInv
  <1>1. Init => PublicInv
    BY NothingCreated DEF Init, PublicInv
  <1>2. PublicInv /\ [Next]_vars => PublicInv'
    <2>1. ASSUME PublicInv, UNCHANGED vars PROVE PublicInv'
      BY <2>1 DEF vars, PublicInv
    <2> QED BY <2>1, PublicStep
  <1> QED BY <1>1, <1>2, PTL DEF Spec

\* Whatever calls of the public API threw, in whatever order, the public roots, the facade and
\* the DOM agree on what is shown, a container is tracked exactly while one live root owns it,
\* and no side effects of createRoot are left applied between two calls (client.js).
THEOREM PublicRootsMatch == Spec => []PublicRootsAgree
  BY PublicInvHolds, PublicInvSuffices, PTL

\* A public call that throws leaves the DOM as it was, except for an unmount that throws when
\* it takes the listeners back: it has emptied the container of the root it retired (client.js).
THEOREM FailedCalls == Spec => FailedCallKeepsDom
  <1>1. PublicInv /\ [Next]_vars =>
          [result' = "threw" =>
             /\ \A c \in Containers :
                  \/ bridge'.children[c] = bridge.children[c]
                  \/ "revert" \in Faults /\ ClearedByUnmount(c)
             /\ \A o \in Outputs(bridge) :
                  bridge'.outputs[o].content = bridge.outputs[o].content]_vars
    BY PublicStep DEF KeepsDom
  <1>2. Spec => [][Next]_vars
    BY DEF Spec
  <1> QED BY <1>1, <1>2, PublicInvHolds, PTL DEF FailedCallKeepsDom

-----------------------------------------------------------------------------
(***************************************************************************)
(* The parts together                                                      *)
(***************************************************************************)

\* What TLC explores is a behaviour of each part.
LEMMA PartsBehave == RootsSpec => Spec /\ ShellSpec /\ ListenersSpec /\ OutputSpec
  <1> DEFINE RootsNext == PublicPart \/ BridgePart \/ ListenersPart \/ OutputPart
             all == <<vars, shell, listenerVars, outputVars, part>>
  <1>1. RootsInit => Init /\ ShellInit /\ ListenersInit /\ OutputInit
    BY DEF RootsInit
  <1>2. [RootsNext]_all => [Next]_vars
    BY DEF PublicPart, BridgePart, ListenersPart, OutputPart
  <1>3. [RootsNext]_all => [ShellNext]_shell
    BY DEF PublicPart, BridgePart, ListenersPart, OutputPart
  <1>4. [RootsNext]_all => [ListenersNext]_listenerVars
    BY DEF PublicPart, BridgePart, ListenersPart, OutputPart
  <1>5. [RootsNext]_all => [OutputNext]_outputVars
    BY DEF PublicPart, BridgePart, ListenersPart, OutputPart
  <1> QED
    BY <1>1, <1>2, <1>3, <1>4, <1>5, PTL
    DEF RootsSpec, Spec, ShellSpec, ListenersSpec, OutputSpec

\* An update of host output that started when the DOM showed the latest props returns only when
\* the DOM shows its element, and renders applied out of order never put output back to an older
\* request (root-bridge.js, component-tree.js), whatever the other parts do meanwhile.
THEOREM OutputGoesForward == OutputSpec /\ ShellSpec => OutputNeverGoesBack
  BY UpdatesShow, ContentGrows, PTL DEF OutputNeverGoesBack

\* A call of a public root, an update of host output or a registration of listeners that throws
\* leaves the DOM as it found it (client.js, root-bridge.js, root-listeners.js). The one exception
\* is an unmount that throws when it takes the listeners back: its container is empty by then.
THEOREM FailuresRestore == Spec /\ OutputSpec /\ ListenersSpec => FailedCallsRestore
  BY FailedCalls, FailedUpdates, FailedRegistration, PTL DEF FailedCallsRestore

\* The behaviours that TLC explores have these properties.
THEOREM RootsBehave ==
  RootsSpec =>
    /\ [](BridgeMatchesDom /\ ListenersAreCurrent /\ PublicRootsAgree)
    /\ OutputNeverGoesBack /\ FailedCallsRestore
  BY PartsBehave, BridgeMatches, ListenersCurrent, PublicRootsMatch, OutputGoesForward,
     FailuresRestore, PTL
=============================================================================
