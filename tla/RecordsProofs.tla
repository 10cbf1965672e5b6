--------------------------- MODULE RecordsProofs ---------------------------
(***************************************************************************)
(* Proofs about the records of form actions, of the controlled restore      *)
(* queue and of the bridge of the test renderer, for all gates, nodes,      *)
(* roots and numbers of records, requests and answers.                      *)
(***************************************************************************)
EXTENDS MC_Records, SequenceTheorems, FiniteSetTheorems, NaturalsInduction,
        WellFoundedInduction, TLAPS

-----------------------------------------------------------------------------
(***************************************************************************)
(* Sequences of records that only grow                                     *)
(***************************************************************************)

\* t is s with e after its last element.
Grown(t, s, e) ==
  /\ Len(t) = Len(s) + 1 /\ DOMAIN t = DOMAIN s \cup {Len(s) + 1}
  /\ Len(s) + 1 \notin DOMAIN s /\ \A i \in DOMAIN s : t[i] = s[i] /\ i <= Len(s)
  /\ t[Len(s) + 1] = e

\* Appending keeps the elements at their places.
LEMMA Appended ==
  ASSUME NEW S, NEW s \in Seq(S), NEW e \in S
  PROVE  Append(s, e) \in Seq(S) /\ Grown(Append(s, e), s, e)
  BY DEF Grown

-----------------------------------------------------------------------------
(***************************************************************************)
(* Form actions                                                            *)
(***************************************************************************)
FormDispatches == [gate : DispatchGates, blocker : Nat, sequence : Nat]
Currentnesses == [next : Nat, latest : Nat, record : Nat]
FormResets == [gate : ResetGates, dispatch : Nat, generation : Nat]
FormPreflights == [dispatch : Nat, reset : Nat]
FormRuns == [preflight : Nat, outcome : {"pending"} \cup Outcomes]
FormFulfilled == [run : Nat, reset : Nat, boundary : Nat]
FormBoundaries == [root : Roots, request : Nat]
FormTaken == [boundary : Nat, resource : Nat, fulfilled : Nat]

FormConsumed ==
  [fulfilledRuns : SUBSET Nat, rejectedRuns : SUBSET Nat, resources : SUBSET Nat,
   resets : SUBSET Nat]

FormTyped ==
  /\ blockers \in Seq(SubmitKinds)
  /\ dispatches \in Seq(FormDispatches) /\ currentness \in Seq(Currentnesses)
  /\ Len(currentness) = Len(dispatches)
  /\ resets \in Seq(FormResets) /\ preflights \in Seq(FormPreflights) /\ runs \in Seq(FormRuns)
  /\ fulfilled \in Seq(FormFulfilled) /\ rejected \in Seq(Nat) /\ consumed \in FormConsumed
RootTyped ==
  /\ requests \in [Roots -> Seq({"render", "unmount"})]
  /\ boundaries \in Seq(FormBoundaries) /\ resources \in Seq(Nat) /\ taken \in Seq(FormTaken)

\* A reset gate makes one reset, and the currentness of a dispatch names its youngest reset.
ResetsKnown ==
  /\ \A r, s \in DOMAIN resets : resets[r].gate = resets[s].gate => r = s
  /\ \A r \in DOMAIN resets :
       /\ resets[r].dispatch \in DOMAIN currentness
       /\ r <= currentness[resets[r].dispatch].record

\* A run was started from a preflight of a dispatch with a reset.
RunsHaveResets ==
  /\ \A p \in DOMAIN preflights :
       preflights[p].reset \in DOMAIN resets /\ preflights[p].dispatch \in DOMAIN dispatches
  /\ \A c \in DOMAIN runs : runs[c].preflight \in DOMAIN preflights

\* A fulfilled reset is of a fulfilled run, and a run has one at most.
FulfilledOnce ==
  /\ \A f \in DOMAIN fulfilled :
       /\ fulfilled[f].run \in DOMAIN runs /\ runs[fulfilled[f].run].outcome = "fulfilled"
       /\ fulfilled[f].run \in consumed.fulfilledRuns
  /\ \A f, g \in DOMAIN fulfilled : fulfilled[f].run = fulfilled[g].run => f = g

\* A fulfilled reset is the reset its run started from, or has the same id.
FulfilledResets ==
  \A f \in DOMAIN fulfilled :
    fulfilled[f].reset \in DOMAIN resets /\ SameReset(fulfilled[f].run, fulfilled[f].reset)

\* An error preflight is of a rejected run.
RejectedRuns ==
  \A e \in DOMAIN rejected : rejected[e] \in DOMAIN runs /\ runs[rejected[e]].outcome = "rejected"

\* What was taken is used up.
TakenOnce ==
  \A u \in DOMAIN taken :
    taken[u].fulfilled \in DOMAIN fulfilled /\ taken[u].fulfilled \in consumed.resets

\* Nothing is requested of a root after its unmount.
UnmountsLast ==
  \A root \in Roots : \A i \in DOMAIN requests[root] :
    requests[root][i] = "unmount" => i = Len(requests[root])

FormInv ==
  /\ FormTyped /\ RootTyped /\ ResetsKnown /\ RunsHaveResets /\ FulfilledOnce /\ FulfilledResets
  /\ RejectedRuns /\ TakenOnce /\ UnmountsLast

\* What a root takes is up to date when it is taken.
TakesCurrent ==
  \A t \in DOMAIN taken' \ DOMAIN taken :
    LET run == fulfilled[taken'[t].fulfilled].run
        reset == fulfilled[taken'[t].fulfilled].reset
        boundary == boundaries[fulfilled[taken'[t].fulfilled].boundary]
    IN  /\ SameReset(run, reset)
        /\ \A r \in DOMAIN resets :
              resets[r].dispatch = resets[reset].dispatch => r <= reset
        /\ boundary = boundaries[resources[taken'[t].resource]]
        /\ Len(requests[boundary.root]) = boundary.request
        /\ ~Unmounted(boundary.root)
        /\ \A f \in DOMAIN fulfilled :
              fulfilled[f].run = run => f = taken'[t].fulfilled
        /\ \A e \in DOMAIN rejected : rejected[e] # run
        /\ \A u \in DOMAIN taken : fulfilled[taken[u].fulfilled].run # run

\* Dispatches, resets and preflights stay as they are, and so do the preflights of runs.
FormsGrow ==
  /\ \A d \in DOMAIN dispatches : dispatches'[d] = dispatches[d]
  /\ DOMAIN resets \subseteq DOMAIN resets' /\ \A r \in DOMAIN resets : resets'[r] = resets[r]
  /\ \A p \in DOMAIN preflights : preflights'[p] = preflights[p]
  /\ \A c \in DOMAIN runs : runs'[c].preflight = runs[c].preflight

\* What a fulfilled reset is does not change while others are made.
LEMMA FulfilledResetsKept ==
  ASSUME FormInv, FormsGrow, fulfilled' = fulfilled
  PROVE  FulfilledResets'
  <1> SUFFICES ASSUME NEW f \in DOMAIN fulfilled
               PROVE  /\ fulfilled[f].reset \in DOMAIN resets'
                      /\ SameReset(fulfilled[f].run, fulfilled[f].reset)'
    BY DEF FulfilledResets
  <1> DEFINE c == fulfilled[f].run
             r == fulfilled[f].reset
             own == RunReset(c)
             d == RunDispatch(c)
             e == resets[r].dispatch
  <1>1. c \in DOMAIN runs /\ r \in DOMAIN resets /\ SameReset(c, r)
    BY DEF FormInv, FulfilledOnce, FulfilledResets
  <1>2. own \in DOMAIN resets /\ d \in DOMAIN dispatches /\ RunReset(c)' = own /\ RunDispatch(c)' = d
    BY <1>1 DEF FormInv, RunsHaveResets, RunReset, RunDispatch, FormsGrow
  <1>3. DOMAIN currentness = DOMAIN dispatches
    BY DEF FormInv, FormTyped
  <1>4. e \in DOMAIN dispatches
    BY <1>1, <1>3 DEF FormInv, ResetsKnown
  <1>5. /\ resets'[r] = resets[r] /\ resets'[own] = resets[own] /\ r \in DOMAIN resets'
        /\ dispatches'[d] = dispatches[d] /\ dispatches'[e] = dispatches[e]
    BY <1>1, <1>2, <1>4 DEF FormsGrow
  <1>6. DispatchId(d)' = DispatchId(d) /\ DispatchId(e)' = DispatchId(e)
    BY <1>1, <1>2, <1>5 DEF DispatchId
  <1>7. SameReset(c, r)'
    BY <1>1, <1>2, <1>5, <1>6 DEF SameReset
  <1> QED BY <1>5, <1>7

\* A dispatch is recorded.
LEMMA DispatchKeeps ==
  ASSUME FormInv, NEW gate \in DispatchGates, NEW blocker \in DOMAIN blockers,
         RecordDispatch(gate, blocker)
  PROVE  FormInv' /\ taken' = taken
  <1> DEFINE own == {d \in DOMAIN dispatches : dispatches[d].gate = gate}
             new == [gate |-> gate, blocker |-> blocker, sequence |-> 1 + Cardinality(own)]
  <1>1. /\ dispatches' = Append(dispatches, new) /\ currentness' = Append(currentness, NewCurrentness)
        /\ UNCHANGED <<blockers, resets, preflights, runs, fulfilled, rejected, roots, consumed>>
    BY DEF RecordDispatch
  <1>2. new \in FormDispatches
    <2>1. own \subseteq 1 .. Len(dispatches) /\ Len(dispatches) \in Nat
      BY DEF FormInv, FormTyped
    <2>2. IsFiniteSet(1 .. Len(dispatches))
      BY <2>1, FS_Interval
    <2> HIDE DEF own
    <2>3. IsFiniteSet(own)
      BY <2>1, <2>2, FS_Subset
    <2>4. Cardinality(own) \in Nat
      BY <2>3, FS_CardinalityType
    <2>5. blocker \in Nat
      BY DEF FormInv, FormTyped
    <2> QED BY <2>4, <2>5 DEF FormDispatches
  <1> HIDE DEF new
  <1>3. NewCurrentness \in Currentnesses
    BY DEF NewCurrentness, Currentnesses
  <1>4. /\ dispatches' \in Seq(FormDispatches) /\ Grown(dispatches', dispatches, new)
        /\ currentness' \in Seq(Currentnesses)
        /\ Grown(currentness', currentness, NewCurrentness)
    BY <1>1, <1>2, <1>3, Appended DEF FormInv, FormTyped
  <1>5. FormTyped' /\ RootTyped'
    BY <1>1, <1>4 DEF FormInv, FormTyped, RootTyped, Grown, roots
  <1>6. ResetsKnown'
    BY <1>1, <1>4 DEF FormInv, ResetsKnown, Grown
  <1>7. FulfilledOnce' /\ RejectedRuns' /\ TakenOnce' /\ UnmountsLast' /\ taken' = taken
    BY <1>1 DEF FormInv, FulfilledOnce, RejectedRuns, TakenOnce, UnmountsLast, roots
  <1>8. RunsHaveResets'
    BY <1>1, <1>4 DEF FormInv, RunsHaveResets, Grown
  <1>9. FulfilledResets'
    BY <1>1, <1>4, FulfilledResetsKept DEF FormsGrow, Grown
  <1> QED BY <1>5, <1>6, <1>7, <1>8, <1>9 DEF FormInv

\* A reset gate makes its reset.
LEMMA ResetKeeps ==
  ASSUME FormInv, NEW gate \in ResetGates, NEW d \in DOMAIN dispatches, RecordReset(gate, d)
  PROVE  FormInv' /\ taken' = taken
  <1> DEFINE new == [gate |-> gate, dispatch |-> d, generation |-> currentness[d].next]
             last == Len(resets) + 1
             after == AfterReset(d, last)
  <1>1. /\ \A r \in DOMAIN resets : resets[r].gate # gate
        /\ resets' = Append(resets, new) /\ currentness' = [currentness EXCEPT ![d] = after]
        /\ UNCHANGED <<blockers, dispatches, preflights, runs, fulfilled, rejected, roots, consumed>>
    BY DEF RecordReset
  <1>2. d \in DOMAIN currentness /\ d \in Nat /\ currentness[d] \in Currentnesses /\ last \in Nat
    BY DEF FormInv, FormTyped
  <1>3. new \in FormResets /\ new.gate = gate /\ new.dispatch = d
    BY <1>2 DEF FormResets, Currentnesses
  <1>4. after \in Currentnesses /\ after.record = last
    BY <1>2 DEF AfterReset, Currentnesses
  <1>5. resets' \in Seq(FormResets) /\ Grown(resets', resets, new)
    BY <1>1, <1>3, Appended DEF FormInv, FormTyped
  <1> HIDE DEF new, after
  <1>6. /\ currentness' \in Seq(Currentnesses) /\ Len(currentness') = Len(currentness)
        /\ DOMAIN currentness' = DOMAIN currentness
        /\ currentness'[d] = after
        /\ \A k \in DOMAIN currentness : k # d => currentness'[k] = currentness[k]
    BY <1>1, <1>2, <1>4 DEF FormInv, FormTyped
  <1>7. FormTyped' /\ RootTyped'
    BY <1>1, <1>5, <1>6 DEF FormInv, FormTyped, RootTyped, roots
  <1>8. ResetsKnown'
    <2>1. \A r, s \in DOMAIN resets' : resets'[r].gate = resets'[s].gate => r = s
      BY <1>1, <1>3, <1>5 DEF FormInv, ResetsKnown, Grown
    <2>2. ASSUME NEW r \in DOMAIN resets'
          PROVE  /\ resets'[r].dispatch \in DOMAIN currentness'
                 /\ r <= currentness'[resets'[r].dispatch].record
      <3>1. CASE r = last
        BY <3>1, <1>2, <1>3, <1>4, <1>5, <1>6 DEF Grown
      <3>2. CASE r # last
        <4>1. r \in DOMAIN resets /\ resets'[r] = resets[r] /\ r <= last /\ r \in Nat
          BY <3>2, <1>2, <1>5 DEF Grown, FormInv, FormTyped
        <4>2. resets[r].dispatch \in DOMAIN currentness /\ r <= currentness[resets[r].dispatch].record
          BY <4>1 DEF FormInv, ResetsKnown
        <4> QED BY <4>1, <4>2, <1>4, <1>6
      <3> QED BY <3>1, <3>2
    <2> QED BY <2>1, <2>2 DEF ResetsKnown
  <1>9. RunsHaveResets'
    BY <1>1, <1>5 DEF FormInv, RunsHaveResets, Grown
  <1>10. FulfilledOnce' /\ RejectedRuns' /\ TakenOnce' /\ UnmountsLast' /\ taken' = taken
    BY <1>1 DEF FormInv, FulfilledOnce, RejectedRuns, TakenOnce, UnmountsLast, roots
  <1>11. FulfilledResets'
    BY <1>1, <1>5, FulfilledResetsKept DEF FormsGrow, Grown
  <1> QED BY <1>7, <1>8, <1>9, <1>10, <1>11 DEF FormInv

\* A preflight is recorded.
LEMMA PreflightKeeps ==
  ASSUME FormInv, NEW d \in DOMAIN dispatches, NEW r \in DOMAIN resets, RecordPreflight(d, r)
  PROVE  FormInv' /\ taken' = taken
  <1> DEFINE new == [dispatch |-> d, reset |-> r]
  <1>1. /\ preflights' = Append(preflights, new)
        /\ UNCHANGED <<blockers, dispatches, currentness, resets, runs, fulfilled, rejected, roots, consumed>>
    BY DEF RecordPreflight
  <1>2. new \in FormPreflights /\ new.reset = r /\ new.dispatch = d
    BY DEF FormPreflights, FormInv, FormTyped
  <1>3. preflights' \in Seq(FormPreflights) /\ Grown(preflights', preflights, new)
    BY <1>1, <1>2, Appended DEF FormInv, FormTyped
  <1> HIDE DEF new
  <1>4. FormTyped' /\ RootTyped'
    BY <1>1, <1>3 DEF FormInv, FormTyped, RootTyped, roots
  <1>5. ResetsKnown' /\ RejectedRuns' /\ TakenOnce' /\ UnmountsLast' /\ taken' = taken
    BY <1>1 DEF FormInv, ResetsKnown, RejectedRuns, TakenOnce, UnmountsLast, roots
  <1>6. RunsHaveResets'
    BY <1>1, <1>2, <1>3 DEF FormInv, RunsHaveResets, Grown
  <1>7. FulfilledOnce' /\ FulfilledResets'
    BY <1>1, <1>3, FulfilledResetsKept DEF FormInv, FulfilledOnce, FormsGrow, Grown
  <1> QED BY <1>4, <1>5, <1>6, <1>7 DEF FormInv

\* A callback is called, or it ends.
LEMMA RunKeeps ==
  ASSUME FormInv,
         \/ \E p \in DOMAIN preflights : StartCallback(p)
         \/ \E c \in DOMAIN runs, outcome \in Outcomes : SettleCallback(c, outcome)
  PROVE  FormInv' /\ taken' = taken
  <1>u. UNCHANGED <<blockers, dispatches, currentness, resets, preflights, fulfilled, rejected, roots,
                    consumed>>
    BY DEF StartCallback, SettleCallback
  <1>r. /\ runs' \in Seq(FormRuns) /\ DOMAIN runs \subseteq DOMAIN runs'
        /\ \A c \in DOMAIN runs' : runs'[c].preflight \in DOMAIN preflights
        /\ \A c \in DOMAIN runs : /\ runs'[c].preflight = runs[c].preflight
                                  /\ runs[c].outcome # "pending" => runs'[c].outcome = runs[c].outcome
    <2>1. ASSUME NEW p \in DOMAIN preflights, StartCallback(p)
          PROVE  <1>r!:
      <3> DEFINE new == [preflight |-> p, outcome |-> "pending"]
      <3>1. runs' = Append(runs, new)
        BY <2>1 DEF StartCallback
      <3>2. new \in FormRuns /\ new.preflight = p
        BY DEF FormRuns, FormInv, FormTyped
      <3>3. runs' \in Seq(FormRuns) /\ Grown(runs', runs, new)
        BY <3>1, <3>2, Appended DEF FormInv, FormTyped
      <3> HIDE DEF new
      <3> QED BY <3>2, <3>3 DEF FormInv, RunsHaveResets, Grown
    <2>2. ASSUME NEW c \in DOMAIN runs, NEW outcome \in Outcomes, SettleCallback(c, outcome)
          PROVE  <1>r!:
      <3>1. runs[c].outcome = "pending" /\ runs' = [runs EXCEPT ![c].outcome = outcome]
        BY <2>2 DEF SettleCallback
      <3>2. runs \in Seq(FormRuns)
        BY DEF FormInv, FormTyped
      <3>3. runs[c] \in FormRuns
        BY <3>2
      <3>4. [runs[c] EXCEPT !.outcome = outcome] \in FormRuns
        BY <3>3 DEF FormRuns
      <3>5. runs' \in Seq(FormRuns) /\ DOMAIN runs' = DOMAIN runs
        BY <3>1, <3>2, <3>4
      <3>6. \A k \in DOMAIN runs : /\ runs'[k].preflight = runs[k].preflight
                                   /\ runs[k].outcome # "pending" => runs'[k].outcome = runs[k].outcome
        BY <3>1, <3>2, <3>3 DEF FormRuns
      <3> QED BY <3>5, <3>6 DEF FormInv, RunsHaveResets
    <2> QED BY <2>1, <2>2
  <1>1. FormTyped' /\ RootTyped'
    BY <1>u, <1>r DEF FormInv, FormTyped, RootTyped, roots
  <1>2. ResetsKnown' /\ TakenOnce' /\ UnmountsLast' /\ taken' = taken
    BY <1>u DEF FormInv, ResetsKnown, TakenOnce, UnmountsLast, roots
  <1>3. RunsHaveResets' /\ RejectedRuns'
    BY <1>u, <1>r DEF FormInv, RunsHaveResets, RejectedRuns
  <1>4. FulfilledOnce' /\ FulfilledResets'
    BY <1>u, <1>r, FulfilledResetsKept DEF FormInv, FulfilledOnce, FormsGrow
  <1> QED BY <1>1, <1>2, <1>3, <1>4 DEF FormInv

\* The reset after a fulfilled run is recorded.
LEMMA FulfilledKeeps ==
  ASSUME FormInv, NEW c \in DOMAIN runs, NEW r \in DOMAIN resets,
         NEW boundary \in {None} \cup DOMAIN boundaries, RecordFulfilledReset(c, r, boundary)
  PROVE  FormInv' /\ taken' = taken
  <1> DEFINE new == [run |-> c, reset |-> r, boundary |-> boundary]
  <1>1. /\ fulfilled' = Append(fulfilled, new) /\ WasFulfilled(c) /\ MatchesRun(c, r)
        /\ c \notin consumed.fulfilledRuns
        /\ consumed' = [consumed EXCEPT !.fulfilledRuns = @ \union {c}]
        /\ UNCHANGED <<blockers, dispatches, currentness, resets, preflights, runs, rejected, roots>>
    BY DEF RecordFulfilledReset, IsUnusedRun, forms
  <1>2. new \in FormFulfilled /\ new.run = c /\ new.reset = r /\ c \in Nat
    BY DEF FormFulfilled, FormInv, FormTyped, RootTyped, None
  <1>3. fulfilled' \in Seq(FormFulfilled) /\ Grown(fulfilled', fulfilled, new)
    BY <1>1, <1>2, Appended DEF FormInv, FormTyped
  <1> HIDE DEF new
  <1>4. /\ consumed' \in FormConsumed /\ consumed'.fulfilledRuns = consumed.fulfilledRuns \cup {c}
        /\ consumed'.resets = consumed.resets
    BY <1>1, <1>2 DEF FormInv, FormTyped, FormConsumed
  <1>5. FormTyped' /\ RootTyped'
    BY <1>1, <1>3, <1>4 DEF FormInv, FormTyped, RootTyped, roots
  <1>6. ResetsKnown' /\ RunsHaveResets' /\ RejectedRuns' /\ UnmountsLast' /\ taken' = taken
    BY <1>1 DEF FormInv, ResetsKnown, RunsHaveResets, RejectedRuns, UnmountsLast, roots
  <1>7. TakenOnce'
    BY <1>1, <1>3, <1>4 DEF FormInv, TakenOnce, Grown, roots
  <1>8. SameReset(c, r)
    <2> DEFINE own == RunReset(c)
    <2>1. own \in DOMAIN resets
      BY DEF FormInv, RunsHaveResets, RunReset
    <2>2. resets[r].gate = resets[own].gate => r = own
      BY <2>1 DEF FormInv, ResetsKnown
    <2> QED BY <2>2, <1>1 DEF MatchesRun, ResetId, SameReset
  <1>9. FulfilledOnce' /\ FulfilledResets'
    <2>1. ASSUME NEW f \in DOMAIN fulfilled'
          PROVE  /\ fulfilled'[f].run \in DOMAIN runs /\ runs[fulfilled'[f].run].outcome = "fulfilled"
                 /\ fulfilled'[f].run \in consumed'.fulfilledRuns
                 /\ fulfilled'[f].reset \in DOMAIN resets
                 /\ SameReset(fulfilled'[f].run, fulfilled'[f].reset)
      <3>1. CASE f = Len(fulfilled) + 1
        BY <3>1, <1>1, <1>2, <1>3, <1>4, <1>8 DEF Grown, WasFulfilled
      <3>2. CASE f \in DOMAIN fulfilled
        BY <3>2, <1>3, <1>4 DEF Grown, FormInv, FulfilledOnce, FulfilledResets
      <3> QED BY <3>1, <3>2, <1>3 DEF Grown
    <2>2. \A f \in DOMAIN fulfilled : fulfilled[f].run # c
      BY <1>1 DEF FormInv, FulfilledOnce
    <2>3. \A f, g \in DOMAIN fulfilled' : fulfilled'[f].run = fulfilled'[g].run => f = g
      BY <2>2, <1>2, <1>3 DEF Grown, FormInv, FulfilledOnce
    <2>4. \A k, s : SameReset(k, s)' = SameReset(k, s)
      BY <1>1 DEF SameReset, RunReset, RunDispatch, DispatchId
    <2> QED BY <2>1, <2>3, <2>4, <1>1 DEF FulfilledOnce, FulfilledResets
  <1> QED BY <1>5, <1>6, <1>7, <1>9 DEF FormInv

\* The error preflight of a rejected run is recorded.
LEMMA RejectedKeeps ==
  ASSUME FormInv, NEW c \in DOMAIN runs, RecordRejectedError(c)
  PROVE  FormInv' /\ taken' = taken
  <1>1. /\ rejected' = Append(rejected, c) /\ WasRejected(c)
        /\ consumed' = [consumed EXCEPT !.rejectedRuns = @ \union {c}]
        /\ UNCHANGED <<blockers, dispatches, currentness, resets, preflights, runs, fulfilled, roots>>
    BY DEF RecordRejectedError, forms
  <1>2. c \in Nat
    BY DEF FormInv, FormTyped
  <1>3. rejected' \in Seq(Nat) /\ Grown(rejected', rejected, c)
    BY <1>1, <1>2, Appended DEF FormInv, FormTyped
  <1>4. /\ consumed' \in FormConsumed /\ consumed'.fulfilledRuns = consumed.fulfilledRuns
        /\ consumed'.resets = consumed.resets
    BY <1>1, <1>2 DEF FormInv, FormTyped, FormConsumed
  <1>5. FormTyped' /\ RootTyped'
    BY <1>1, <1>3, <1>4 DEF FormInv, FormTyped, RootTyped, roots
  <1>6. ResetsKnown' /\ RunsHaveResets' /\ UnmountsLast' /\ taken' = taken
    BY <1>1 DEF FormInv, ResetsKnown, RunsHaveResets, UnmountsLast, roots
  <1>7. FulfilledOnce' /\ TakenOnce'
    BY <1>1, <1>4 DEF FormInv, FulfilledOnce, TakenOnce, roots
  <1>8. RejectedRuns'
    BY <1>1, <1>3 DEF FormInv, RejectedRuns, WasRejected, Grown
  <1>9. FulfilledResets'
    BY <1>1, FulfilledResetsKept DEF FormsGrow
  <1> QED BY <1>5, <1>6, <1>7, <1>8, <1>9 DEF FormInv

\* The root: its requests, boundaries and resources.
LEMMA RootKeeps ==
  ASSUME FormInv,
         \/ \E root \in Roots, operation \in {"render", "unmount"} : RequestRoot(root, operation)
         \/ \E root \in Roots : CreateBoundary(root)
         \/ \E boundary \in DOMAIN boundaries : RecordResource(boundary)
  PROVE  FormInv' /\ taken' = taken
  <1>u. UNCHANGED <<blockers, dispatches, currentness, resets, preflights, runs, fulfilled, rejected,
                    taken, consumed>>
    BY DEF RequestRoot, CreateBoundary, RecordResource, forms
  <1>1. /\ FormTyped' /\ ResetsKnown' /\ RunsHaveResets' /\ FulfilledOnce' /\ RejectedRuns'
        /\ TakenOnce'
    BY <1>u DEF FormInv, FormTyped, ResetsKnown, RunsHaveResets, FulfilledOnce, RejectedRuns, TakenOnce
  <1>3. FulfilledResets'
    BY <1>u, FulfilledResetsKept DEF FormsGrow
  <1>2. RootTyped' /\ UnmountsLast'
    <2>1. ASSUME NEW root \in Roots, NEW operation \in {"render", "unmount"},
                 RequestRoot(root, operation)
          PROVE  RootTyped' /\ UnmountsLast'
      <3> DEFINE new == Append(requests[root], operation)
      <3>1. /\ requests' = [requests EXCEPT ![root] = new] /\ ~Unmounted(root)
            /\ UNCHANGED <<boundaries, resources>>
        BY <2>1 DEF RequestRoot
      <3>2. requests[root] \in Seq({"render", "unmount"})
        BY DEF FormInv, RootTyped
      <3>3. new \in Seq({"render", "unmount"}) /\ Grown(new, requests[root], operation)
        BY <3>2, Appended
      <3> HIDE DEF new
      <3>4. RootTyped'
        BY <3>1, <3>3, <1>u DEF FormInv, RootTyped
      <3>5. \A i \in DOMAIN new : new[i] = "unmount" => i = Len(new)
        BY <3>1, <3>3 DEF Grown, Unmounted
      <3>6. /\ requests'[root] = new
            /\ \A other \in Roots : other # root => requests'[other] = requests[other]
        BY <3>1 DEF FormInv, RootTyped
      <3>7. UnmountsLast'
        BY <3>5, <3>6 DEF FormInv, UnmountsLast
      <3> QED BY <3>4, <3>7
    <2>2. ASSUME NEW root \in Roots, CreateBoundary(root)
          PROVE  RootTyped' /\ UnmountsLast'
      <3> DEFINE new == [root |-> root, request |-> Len(requests[root])]
      <3>1. boundaries' = Append(boundaries, new) /\ UNCHANGED <<requests, resources>>
        BY <2>2 DEF CreateBoundary
      <3>2. new \in FormBoundaries
        BY DEF FormBoundaries, FormInv, RootTyped
      <3> HIDE DEF new
      <3> QED BY <3>1, <3>2, <1>u DEF FormInv, RootTyped, UnmountsLast
    <2>3. ASSUME NEW boundary \in DOMAIN boundaries, RecordResource(boundary)
          PROVE  RootTyped' /\ UnmountsLast'
      <3>1. resources' = Append(resources, boundary) /\ UNCHANGED <<requests, boundaries>>
        BY <2>3 DEF RecordResource
      <3>2. boundary \in Nat
        BY DEF FormInv, RootTyped
      <3> QED BY <3>1, <3>2, <1>u DEF FormInv, RootTyped, UnmountsLast
    <2> QED BY <2>1, <2>2, <2>3
  <1> QED BY <1>1, <1>2, <1>3, <1>u DEF FormInv

\* The root takes a resource and a fulfilled reset.
LEMMA TakeKeeps ==
  ASSUME FormInv, NEW boundary \in DOMAIN boundaries, NEW resource \in DOMAIN resources,
         NEW f \in DOMAIN fulfilled, TakeRootExecution(boundary, resource, f)
  PROVE  FormInv' /\ TakesCurrent
  <1> DEFINE new == [boundary |-> boundary, resource |-> resource, fulfilled |-> f]
  <1>1. /\ taken' = Append(taken, new) /\ IsActiveBoundary(boundary) /\ IsCurrentFulfilled(f)
        /\ resources[resource] = boundary /\ fulfilled[f].boundary = boundary
        /\ f \notin consumed.resets
        /\ consumed' = [consumed EXCEPT !.resources = @ \union {resource}, !.resets = @ \union {f}]
        /\ UNCHANGED <<blockers, dispatches, currentness, resets, preflights, runs, fulfilled, rejected,
                       requests, boundaries, resources>>
    BY DEF TakeRootExecution, ResourceIsBoundTo, FulfilledIsBoundTo, forms
  <1>2. new \in FormTaken /\ new.fulfilled = f /\ new.resource = resource
        /\ f \in Nat /\ resource \in Nat /\ boundary \in Nat
    BY DEF FormTaken, FormInv, FormTyped, RootTyped
  <1>3. taken' \in Seq(FormTaken) /\ Grown(taken', taken, new)
    BY <1>1, <1>2, Appended DEF FormInv, RootTyped
  <1> HIDE DEF new
  <1>4. /\ consumed' \in FormConsumed /\ consumed'.fulfilledRuns = consumed.fulfilledRuns
        /\ consumed'.resets = consumed.resets \cup {f}
    BY <1>1, <1>2 DEF FormInv, FormTyped, FormConsumed
  <1>5. FormTyped' /\ RootTyped'
    BY <1>1, <1>3, <1>4 DEF FormInv, FormTyped, RootTyped
  <1>6. ResetsKnown' /\ RunsHaveResets' /\ RejectedRuns' /\ UnmountsLast'
    BY <1>1 DEF FormInv, ResetsKnown, RunsHaveResets, RejectedRuns, UnmountsLast
  <1>7. FulfilledOnce' /\ FulfilledResets'
    BY <1>1, <1>4, FulfilledResetsKept DEF FormInv, FulfilledOnce, FormsGrow
  <1>8. TakenOnce'
    BY <1>1, <1>2, <1>3, <1>4 DEF FormInv, TakenOnce, Grown
  <1>9. TakesCurrent
    <2> DEFINE run == fulfilled[f].run
               reset == fulfilled[f].reset
               root == boundaries[boundary].root
    <2>1. DOMAIN taken' \ DOMAIN taken = {Len(taken) + 1} /\ taken'[Len(taken) + 1] = new
      BY <1>3 DEF Grown
    <2>2. run \in DOMAIN runs /\ runs[run].outcome = "fulfilled"
      BY DEF FormInv, FulfilledOnce
    <2>3. reset \in DOMAIN resets /\ SameReset(run, reset)
      BY DEF FormInv, FulfilledResets
    <2>4. \A r \in DOMAIN resets : resets[r].dispatch = resets[reset].dispatch => r <= reset
      BY <2>3, <1>1 DEF IsCurrentFulfilled, IsCurrentReset, FormInv, ResetsKnown
    <2>5. root \in Roots /\ requests[root] \in Seq({"render", "unmount"})
      <3>1. boundaries \in Seq(FormBoundaries) /\ requests \in [Roots -> Seq({"render", "unmount"})]
        BY DEF FormInv, RootTyped
      <3>2. boundaries[boundary] \in FormBoundaries
        BY <3>1
      <3> QED BY <3>1, <3>2 DEF FormBoundaries
    <2>6. Len(requests[root]) = boundaries[boundary].request /\ requests[root][Len(requests[root])] = "render"
      BY <1>1 DEF IsActiveBoundary
    <2>7. ~Unmounted(root)
      BY <2>5, <2>6 DEF FormInv, UnmountsLast, Unmounted
    <2>8. \A g \in DOMAIN fulfilled : fulfilled[g].run = run => g = f
      BY DEF FormInv, FulfilledOnce
    <2>9. \A e \in DOMAIN rejected : rejected[e] # run
      BY <2>2 DEF FormInv, RejectedRuns
    <2>10. \A u \in DOMAIN taken : fulfilled[taken[u].fulfilled].run # run
      BY <2>8, <1>1 DEF FormInv, TakenOnce
    <2> QED
      BY <2>1, <2>2, <2>3, <2>4, <2>6, <2>7, <2>8, <2>9, <2>10, <1>1, <1>2 DEF TakesCurrent
  <1> QED BY <1>5, <1>6, <1>7, <1>8, <1>9 DEF FormInv

\* Every step keeps the invariant, and what it takes is current.
LEMMA FormStep ==
  ASSUME FormInv, [Next]_vars
  PROVE  FormInv' /\ [TakesCurrent]_vars
  <1>1. taken' = taken => TakesCurrent
    BY DEF TakesCurrent
  <1>2. CASE UNCHANGED vars
    <2>1. FulfilledResets'
      BY <1>2, FulfilledResetsKept DEF vars, forms, FormsGrow
    <2> QED BY <2>1, <1>2
            DEF vars, forms, roots, FormInv, FormTyped, RootTyped, ResetsKnown, RunsHaveResets,
                FulfilledOnce, RejectedRuns, TakenOnce, UnmountsLast
  <1>3. ASSUME NEW kind \in BlockerKinds, RecordBlocker(kind)
        PROVE  FormInv' /\ taken' = taken
    <2>1. /\ blockers' = Append(blockers, kind)
          /\ UNCHANGED <<dispatches, currentness, resets, preflights, runs, fulfilled, rejected, roots,
                         consumed>>
      BY <1>3 DEF RecordBlocker
    <2>2. FormTyped'
      BY <2>1, FormActionsAssumption DEF FormInv, FormTyped
    <2>3. FulfilledResets'
      BY <2>1, FulfilledResetsKept DEF FormsGrow
    <2> QED BY <2>1, <2>2, <2>3
            DEF roots, FormInv, RootTyped, ResetsKnown, RunsHaveResets, FulfilledOnce,
                RejectedRuns, TakenOnce, UnmountsLast
  <1> QED BY <1>1, <1>2, <1>3, DispatchKeeps, ResetKeeps, PreflightKeeps, RunKeeps, FulfilledKeeps,
             RejectedKeeps, RootKeeps, TakeKeeps DEF Next

\* The invariant of form actions.
LEMMA FormInvHolds == Spec => []FormInv
  <1>1. Init => FormInv
    BY DEF Init, FormInv, FormTyped, RootTyped, FormConsumed, ResetsKnown, RunsHaveResets,
           FulfilledOnce, FulfilledResets, RejectedRuns, TakenOnce, UnmountsLast
  <1>2. FormInv /\ [Next]_vars => FormInv'
    BY FormStep
  <1> QED BY <1>1, <1>2, PTL DEF Spec

\* What a root takes is the reset its run started from, or one of another gate with the same id, and
\* it is up to date, whatever resets, runs, renders and unmounts happened while the callback was
\* awaited and whatever prefixes the gates have (form-actions.js, resource-form-gates.js).
THEOREM TakesAreCurrent == Spec => TakenIsCurrent
  <1>1. FormInv /\ [Next]_vars => [TakesCurrent]_vars
    BY FormStep
  <1>2. Spec => [][TakesCurrent]_vars
    BY <1>1, FormInvHolds, PTL DEF Spec
  <1> QED BY <1>2 DEF TakenIsCurrent, TakesCurrent

-----------------------------------------------------------------------------
(***************************************************************************)
(* The controlled restore queue                                            *)
(***************************************************************************)
RestoreTyped ==
  /\ DOMAIN records = Gates /\ records = [g \in DOMAIN records |-> records[g]]
  /\ \A g \in Gates : \E S : records[g] \in Seq(S)
WorldTyped ==
  /\ history \in [Nodes -> Seq(BOOLEAN)] /\ events \in Seq(Nodes \X Nat)
  /\ DOMAIN written = Nodes /\ written = [n \in DOMAIN written |-> written[n]]

\* Record i of gate g names a record that the gate has made before.
Named(g, i, ref) == \E k \in 1 .. (i - 1) : ref = <<g, k>>

\* What the records s of gate g name, by the type of the record: the rows of a preflight, the
\* preflight of a write execution or flush blocker, the two parts of a wrapper mutation intent, the
\* intent of a bridge, and the event of an intent among the events evs.
RowsOk(s, g, i) ==
  s[i].type = "preflight" =>
    s[i].rows \in Seq({g} \X Nat) /\ \A k \in DOMAIN s[i].rows : Named(g, i, s[i].rows[k])
PreflightOk(s, g, i) ==
  s[i].type \in {"write", "blocker"} =>
    Named(g, i, s[i].preflight) /\ s[s[i].preflight[2]].type = "preflight"
WrapperOk(s, g, i) ==
  s[i].type = "wrapper" =>
    /\ Named(g, i, s[i].write) /\ s[s[i].write[2]].type = "write"
    /\ Named(g, i, s[i].blocker) /\ s[s[i].blocker[2]].type = "blocker"
BridgeOk(s, g, i) ==
  s[i].type = "bridge" =>
    LET intent == s[s[i].intent[2]]
    IN  /\ Named(g, i, s[i].intent) /\ intent.type = "intent" /\ intent.source = "event"
        /\ intent.event = s[i].event /\ intent.recorded
IntentOk(s, i, evs) ==
  s[i].type = "intent" /\ s[i].source = "event" =>
    s[i].event \in DOMAIN evs /\ s[i].lookup = evs[s[i].event]

\* Record i names one chain, and writes what belongs to its edit.
ChainOk(s, g, i) ==
  LET e == s[i]
      p == s[e.write[2]].preflight
  IN  /\ Named(g, i, e.intent) /\ Named(g, i, e.write) /\ Named(g, i, e.blocker)
      /\ Named(g, i, e.wrapper) /\ Named(g, i, p)
      /\ s[p[2]].rows = <<e.intent>> /\ s[e.blocker[2]].preflight = p
      /\ s[e.wrapper[2]].write = e.write /\ s[e.wrapper[2]].blocker = e.blocker
EditOk(s, i) ==
  LET intent == s[s[i].intent[2]]
  IN  /\ intent.recorded /\ Kind[s[i].value[1]] = intent.kind
      /\ s[i].type = "execution" /\ intent.source = "event" => s[i].value = intent.lookup
RestoreOk(s, g, i) ==
  s[i].type \in {"execution", "live"} => ChainOk(s, g, i) /\ EditOk(s, i)

RecordOk(s, g, i, evs) ==
  /\ RowsOk(s, g, i) /\ PreflightOk(s, g, i) /\ WrapperOk(s, g, i) /\ BridgeOk(s, g, i)
  /\ IntentOk(s, i, evs) /\ RestoreOk(s, g, i)

RecordsOk == \A g \in Gates : \A i \in DOMAIN records[g] : RecordOk(records[g], g, i, events)

\* The props written to a control are props that their node has had.
WrittenOk ==
  \A n \in Nodes : written[n] # <<>> =>
    written[n] \in Nodes \X Nat /\ written[n][2] <= Len(history[written[n][1]])

RestoreInv == RestoreTyped /\ WorldTyped /\ RecordsOk /\ WrittenOk

\* The two parts of the property in terms of what is proved.
GoesNoFurtherBack ==
  \A n \in Nodes :
    /\ written[n] # <<>> /\ written'[n] # <<>>
    /\ written'[n][1] = written[n][1]
    => written'[n][2] >= written[n][2]

\* A record stays as good when its gate makes another one and more events come.
LEMMA RecordOkKept ==
  ASSUME NEW g, NEW s, NEW t, NEW evs, NEW more, NEW n \in Nat,
         DOMAIN s = 1 .. n, \A k \in 1 .. n : t[k] = s[k],
         DOMAIN evs \subseteq DOMAIN more, \A e \in DOMAIN evs : more[e] = evs[e],
         NEW i \in 1 .. n, RecordOk(s, g, i, evs)
  PROVE  RecordOk(t, g, i, more)
  <1>1. /\ RowsOk(s, g, i) /\ PreflightOk(s, g, i) /\ WrapperOk(s, g, i) /\ BridgeOk(s, g, i)
        /\ IntentOk(s, i, evs) /\ RestoreOk(s, g, i)
    BY DEF RecordOk
  <1>2. t[i] = s[i]
    OBVIOUS
  <1>3. \A ref : Named(g, i, ref) => t[ref[2]] = s[ref[2]]
    BY DEF Named
  <1>4. RowsOk(t, g, i)
    BY <1>1, <1>2 DEF RowsOk
  <1>5. PreflightOk(t, g, i) /\ WrapperOk(t, g, i)
    BY <1>1, <1>2, <1>3 DEF PreflightOk, WrapperOk
  <1>6. BridgeOk(t, g, i)
    BY <1>1, <1>2, <1>3 DEF BridgeOk
  <1>7. IntentOk(t, i, more)
    BY <1>1, <1>2 DEF IntentOk
  <1>8. RestoreOk(t, g, i)
    <2>1. ASSUME ChainOk(s, g, i) PROVE ChainOk(t, g, i)
      BY <2>1, <1>2, <1>3 DEF ChainOk
    <2>2. ASSUME ChainOk(s, g, i), EditOk(s, i) PROVE EditOk(t, i)
      BY <2>2, <1>2, <1>3 DEF ChainOk, EditOk
    <2> QED BY <2>1, <2>2, <1>1, <1>2 DEF RestoreOk
  <1> QED BY <1>4, <1>5, <1>6, <1>7, <1>8 DEF RecordOk

\* The records of gate g with one more are good when the new one is.
LEMMA RecordAdded ==
  ASSUME RestoreInv, NEW g \in Gates, NEW record, Restore!Sequence(g, record),
         \A t : Grown(t, records[g], record) => RecordOk(t, g, Len(records[g]) + 1, events)
  PROVE  RestoreTyped' /\ RecordsOk' /\ UNCHANGED <<history, events>>
  <1>1. records' = [records EXCEPT ![g] = Append(records[g], record)] /\ UNCHANGED <<history, events>>
    BY DEF Restore!Sequence
  <1>2. PICK S : records[g] \in Seq(S)
    BY DEF RestoreInv, RestoreTyped
  <1>3. records[g] \in Seq(S \cup {record})
    BY <1>2
  <1>4. /\ Append(records[g], record) \in Seq(S \cup {record})
        /\ Grown(Append(records[g], record), records[g], record)
    BY <1>3, Appended
  <1>5. /\ records'[g] = Append(records[g], record) /\ DOMAIN records' = Gates
        /\ records' = [h \in DOMAIN records' |-> records'[h]]
        /\ \A h \in Gates : h # g => records'[h] = records[h]
    BY <1>1 DEF RestoreInv, RestoreTyped
  <1>6. RestoreTyped'
    BY <1>4, <1>5 DEF RestoreInv, RestoreTyped
  <1>7. ASSUME NEW i \in DOMAIN records'[g] PROVE RecordOk(records'[g], g, i, events)
    <2>1. Grown(records'[g], records[g], record)
      BY <1>4, <1>5
    <2>2. CASE i = Len(records[g]) + 1
      BY <2>1, <2>2
    <2>3. CASE i \in DOMAIN records[g]
      <3>1. RecordOk(records[g], g, i, events)
        BY <2>3 DEF RestoreInv, RecordsOk
      <3>2. Len(records[g]) \in Nat /\ DOMAIN records[g] = 1 .. Len(records[g])
        BY <1>2
      <3>3. \A k \in 1 .. Len(records[g]) : records'[g][k] = records[g][k]
        BY <2>1, <3>2 DEF Grown
      <3> QED BY <2>3, <3>1, <3>2, <3>3, RecordOkKept
    <2> QED BY <2>1, <2>2, <2>3 DEF Grown
  <1>8. RecordsOk'
    BY <1>1, <1>5, <1>7 DEF RestoreInv, RecordsOk
  <1> QED BY <1>1, <1>6, <1>8

\* A record of gate g, by its name.
LEMMA RefOfGate ==
  ASSUME RestoreInv, NEW g \in Gates, NEW type, NEW ref \in Restore!Of(type), Restore!FromGate(g, ref)
  PROVE  /\ ref[2] \in DOMAIN records[g] /\ ref = <<g, ref[2]>> /\ ref[2] \in Nat
         /\ Restore!At(ref) = records[g][ref[2]] /\ records[g][ref[2]].type = type
         /\ RecordOk(records[g], g, ref[2], events)
         /\ Named(g, Len(records[g]) + 1, ref)
  <1>1. ref \in Restore!Refs /\ Restore!At(ref).type = type
    BY DEF Restore!Of
  <1>2. PICK h \in Gates : ref \in {h} \X DOMAIN records[h]
    BY <1>1 DEF Restore!Refs
  <1>3. h = g
    BY <1>2 DEF Restore!FromGate
  <1>4. ref[2] \in DOMAIN records[g] /\ ref = <<g, ref[2]>>
    BY <1>2, <1>3
  <1>5. PICK S : records[g] \in Seq(S)
    BY DEF RestoreInv, RestoreTyped
  <1>6. ref[2] \in 1 .. Len(records[g]) /\ Len(records[g]) \in Nat
    BY <1>4, <1>5
  <1>7. Restore!At(ref) = records[g][ref[2]]
    BY <1>4 DEF Restore!At
  <1>8. Named(g, Len(records[g]) + 1, ref)
    BY <1>4, <1>6 DEF Named
  <1> QED BY <1>1, <1>4, <1>6, <1>7, <1>8 DEF RestoreInv, RecordsOk

\* Which conjunct of RecordOk matters is told by the type of the new record.
LEMMA NewIntentOk ==
  ASSUME NEW g, NEW s, NEW t, NEW record, Grown(t, s, record), NEW evs, record.type = "intent",
         record.source = "event" => record.event \in DOMAIN evs /\ record.lookup = evs[record.event]
  PROVE  RecordOk(t, g, Len(s) + 1, evs)
  BY DEF Grown, RecordOk, RowsOk, PreflightOk, WrapperOk, BridgeOk, IntentOk, RestoreOk

\* The intents, preflights, write executions, flush blockers, wrapper mutation intents and bridges.
LEMMA PrepareKeeps ==
  ASSUME RestoreInv, NEW g \in Gates, Restore!Prepare(g)
  PROVE  RestoreTyped' /\ RecordsOk' /\ UNCHANGED <<history, events, written>>
  <1> DEFINE last == Len(records[g]) + 1
             Goal == RestoreTyped' /\ RecordsOk' /\ UNCHANGED <<history, events, written>>
  <1>0. PICK S : records[g] \in Seq(S)
    BY DEF RestoreInv, RestoreTyped
  <1>1. ASSUME NEW e \in DOMAIN events, Restore!RecordIntentFromEvent(g, e) PROVE Goal
    <2> DEFINE held == Restore!Controls(events[e])
               record == [type |-> "intent", source |-> "event", event |-> e,
                          lookup |-> events[e], kind |-> Kind[events[e][1]], recorded |-> held]
    <2>1. Restore!Sequence(g, record) /\ written' = written
      BY <1>1 DEF Restore!RecordIntentFromEvent, Restore!Record
    <2> HIDE DEF held
    <2>2. record.type = "intent" /\ record.event = e /\ record.lookup = events[e]
      OBVIOUS
    <2> HIDE DEF record
    <2>3. \A t : Grown(t, records[g], record) => RecordOk(t, g, last, events)
      BY <2>2, NewIntentOk
    <2> QED BY <2>1, <2>3, RecordAdded
  <1>2. ASSUME NEW n \in Nodes, NEW changed \in BOOLEAN, NEW lookup \in Restore!Lookups,
               Restore!RecordIntentFromObservation(g, n, changed, lookup)
        PROVE  Goal
    <2> DEFINE held == /\ changed
                       /\ Restore!Controls(lookup)
                       /\ Restore!Control(Kind[lookup[1]]) = Restore!Control(Kind[n])
               record == [type |-> "intent", source |-> "observation", event |-> 0,
                          lookup |-> lookup, kind |-> Kind[n], recorded |-> held]
    <2>1. Restore!Sequence(g, record) /\ written' = written
      BY <1>2 DEF Restore!RecordIntentFromObservation, Restore!Record
    <2> HIDE DEF held
    <2>2. record.type = "intent" /\ record.source = "observation"
      OBVIOUS
    <2> HIDE DEF record
    <2>3. \A t : Grown(t, records[g], record) => RecordOk(t, g, last, events)
      BY <2>2, NewIntentOk
    <2> QED BY <2>1, <2>3, RecordAdded
  <1>3. ASSUME NEW intents \in Restore!Intents, Restore!PreflightWrites(g, intents) PROVE Goal
    <2> DEFINE record == [type |-> "preflight", rows |-> intents]
    <2>1. Restore!Sequence(g, record) /\ written' = written /\ Restore!PreflightAccepts(g, intents)
      BY <1>3 DEF Restore!PreflightWrites, Restore!Record
    <2>2. record.type = "preflight" /\ record.rows = intents
      OBVIOUS
    <2> HIDE DEF record
    <2>3. PICK n \in 0 .. MaxIntents : intents \in [1 .. n -> Restore!Of("intent")]
      BY DEF Restore!Intents
    <2>4. ASSUME NEW k \in DOMAIN intents
          PROVE  Named(g, last, intents[k]) /\ intents[k] \in {g} \X Nat
      <3>1. intents[k] \in Restore!Of("intent") /\ Restore!FromGate(g, intents[k])
        BY <2>1, <2>3, <2>4 DEF Restore!PreflightAccepts
      <3>2. /\ Named(g, last, intents[k]) /\ intents[k] = <<g, intents[k][2]>> /\ intents[k][2] \in Nat
        BY <3>1, RefOfGate
      <3> QED BY <3>2
    <2>5. intents \in Seq({g} \X Nat)
      <3>1. n \in Nat
        BY <2>3, RecordsInstances DEF Restore!ControlledRestoreAssumption
      <3>2. intents \in [1 .. n -> {g} \X Nat]
        BY <2>3, <2>4
      <3> QED BY <3>1, <3>2
    <2>6. \A t : Grown(t, records[g], record) => RecordOk(t, g, last, events)
      BY <2>2, <2>4, <2>5
         DEF Grown, RecordOk, RowsOk, PreflightOk, WrapperOk, BridgeOk, IntentOk, RestoreOk
    <2> QED BY <2>1, <2>6, RecordAdded
  <1>4. ASSUME NEW p \in Restore!Of("preflight"), NEW type \in {"write", "blocker"},
               Restore!FromGate(g, p), Restore!Record(g, [type |-> type, preflight |-> p])
        PROVE  Goal
    <2> DEFINE record == [type |-> type, preflight |-> p]
    <2>1. Restore!Sequence(g, record) /\ written' = written
      BY <1>4 DEF Restore!Record
    <2>2. record.type = type /\ record.preflight = p
      OBVIOUS
    <2> HIDE DEF record
    <2>3. Named(g, last, p) /\ records[g][p[2]].type = "preflight" /\ p[2] \in DOMAIN records[g]
      BY <1>4, RefOfGate
    <2>4. \A t : Grown(t, records[g], record) => RecordOk(t, g, last, events)
      BY <2>2, <2>3
         DEF Grown, RecordOk, RowsOk, PreflightOk, WrapperOk, BridgeOk, IntentOk, RestoreOk
    <2> QED BY <2>1, <2>4, RecordAdded
  <1>5. ASSUME NEW w \in Restore!Of("write"), NEW b \in Restore!Of("blocker"),
               Restore!RecordWrapperMutationIntent(g, w, b)
        PROVE  Goal
    <2> DEFINE record == [type |-> "wrapper", write |-> w, blocker |-> b]
    <2>1. /\ Restore!Sequence(g, record) /\ written' = written
          /\ Restore!FromGate(g, w) /\ Restore!FromGate(g, b)
      BY <1>5 DEF Restore!RecordWrapperMutationIntent, Restore!Record
    <2>2. record.type = "wrapper" /\ record.write = w /\ record.blocker = b
      OBVIOUS
    <2> HIDE DEF record
    <2>3. Named(g, last, w) /\ records[g][w[2]].type = "write" /\ w[2] \in DOMAIN records[g]
      BY <2>1, RefOfGate
    <2>4. Named(g, last, b) /\ records[g][b[2]].type = "blocker" /\ b[2] \in DOMAIN records[g]
      BY <2>1, RefOfGate
    <2>5. \A t : Grown(t, records[g], record) => RecordOk(t, g, last, events)
      BY <2>2, <2>3, <2>4
         DEF Grown, RecordOk, RowsOk, PreflightOk, WrapperOk, BridgeOk, IntentOk, RestoreOk
    <2> QED BY <2>1, <2>5, RecordAdded
  <1>6. ASSUME NEW e \in DOMAIN events, NEW intent \in Restore!Of("intent"),
               NEW p \in Restore!Of("preflight"), Restore!RecordInputChangeBridge(g, e, intent, p)
        PROVE  Goal
    <2> DEFINE record == [type |-> "bridge", event |-> e, intent |-> intent, preflight |-> p]
    <2>1. /\ Restore!Sequence(g, record) /\ written' = written
          /\ Restore!FromGate(g, intent) /\ Restore!At(intent).recorded
          /\ Restore!At(intent).source = "event" /\ Restore!At(intent).event = e
      BY <1>6 DEF Restore!RecordInputChangeBridge, Restore!Record, Restore!SameDispatch
    <2>2. record.type = "bridge" /\ record.event = e /\ record.intent = intent
      OBVIOUS
    <2> HIDE DEF record
    <2>3. /\ Named(g, last, intent) /\ records[g][intent[2]].type = "intent"
          /\ intent[2] \in DOMAIN records[g] /\ Restore!At(intent) = records[g][intent[2]]
      BY <2>1, RefOfGate
    <2>4. \A t : Grown(t, records[g], record) => RecordOk(t, g, last, events)
      BY <2>1, <2>2, <2>3
         DEF Grown, RecordOk, RowsOk, PreflightOk, WrapperOk, BridgeOk, IntentOk, RestoreOk
    <2> QED BY <2>1, <2>4, RecordAdded
  <1> HIDE DEF Goal
  <1>7. ASSUME NEW p \in Restore!Of("preflight"),
               Restore!RecordWriteExecution(g, p) \/ Restore!RecordFlushBlocker(g, p)
        PROVE  Goal
    BY <1>4, <1>7 DEF Restore!RecordWriteExecution, Restore!RecordFlushBlocker
  <1>8. Goal
    BY <1>1, <1>2, <1>3, <1>5, <1>6, <1>7 DEF Restore!Prepare
  <1> QED BY <1>8 DEF Goal

\* What an execution or a live preflight names is one chain of gate g.
LEMMA NewChainOk ==
  ASSUME RestoreInv, NEW g \in Gates, NEW intent \in Restore!Of("intent"),
         NEW w \in Restore!Of("write"), NEW f \in Restore!Of("blocker"),
         NEW x \in Restore!Of("wrapper"), \A ref \in {intent, w, f, x} : Restore!FromGate(g, ref),
         Restore!OneRestore(intent, w, f, x),
         NEW record, NEW t, Grown(t, records[g], record),
         record.intent = intent, record.write = w, record.blocker = f, record.wrapper = x
  PROVE  ChainOk(t, g, Len(records[g]) + 1)
  <1> DEFINE s == records[g]
             last == Len(records[g]) + 1
             p == s[w[2]].preflight
             q == s[f[2]].preflight
  <1>0. Len(s) \in Nat /\ DOMAIN s = 1 .. Len(s)
    BY DEF RestoreInv, RestoreTyped
  <1>1. /\ Named(g, last, intent) /\ intent = <<g, intent[2]>>
        /\ Restore!At(intent) = s[intent[2]] /\ intent[2] \in DOMAIN s
    BY RefOfGate
  <1>2. /\ Named(g, last, w) /\ w = <<g, w[2]>> /\ w[2] \in DOMAIN s
        /\ Restore!At(w) = s[w[2]] /\ s[w[2]].type = "write" /\ RecordOk(s, g, w[2], events)
    BY RefOfGate
  <1>3. /\ Named(g, last, f) /\ f = <<g, f[2]>> /\ f[2] \in DOMAIN s
        /\ Restore!At(f) = s[f[2]] /\ s[f[2]].type = "blocker" /\ RecordOk(s, g, f[2], events)
    BY RefOfGate
  <1>4. /\ Named(g, last, x) /\ x = <<g, x[2]>> /\ x[2] \in DOMAIN s
        /\ Restore!At(x) = s[x[2]] /\ s[x[2]].type = "wrapper" /\ RecordOk(s, g, x[2], events)
    BY RefOfGate
  <1>5. /\ Named(g, w[2], p) /\ s[p[2]].type = "preflight"
        /\ Named(g, f[2], q) /\ s[q[2]].type = "preflight"
    BY <1>2, <1>3 DEF RecordOk, PreflightOk
  <1>6. Named(g, x[2], s[x[2]].write) /\ Named(g, x[2], s[x[2]].blocker)
    BY <1>4 DEF RecordOk, WrapperOk
  <1>7. p = <<g, p[2]>> /\ p[2] \in DOMAIN s /\ Named(g, last, p) /\ q = <<g, q[2]>>
    BY <1>0, <1>2, <1>3, <1>5 DEF Named
  <1>8. /\ p[2] = q[2] /\ s[x[2]].write[2] = w[2] /\ s[x[2]].blocker[2] = f[2]
        /\ Len(Restore!Rows(w)) = 1 /\ Restore!Rows(w)[1][2] = intent[2]
    BY <1>2, <1>3, <1>4 DEF Restore!OneRestore, Restore!RequestId
  <1>9. q = p /\ s[x[2]].write = w /\ s[x[2]].blocker = f
    BY <1>2, <1>3, <1>6, <1>7, <1>8 DEF Named
  <1>10. Restore!Rows(w) = s[p[2]].rows
    BY <1>2, <1>7 DEF Restore!Rows, Restore!At
  <1>11. s[p[2]].rows = <<intent>>
    <2>1. RecordOk(s, g, p[2], events)
      BY <1>7 DEF RestoreInv, RecordsOk
    <2>2. PICK row : row = s[p[2]].rows
      OBVIOUS
    <2>3. row \in Seq({g} \X Nat)
      BY <2>1, <2>2, <1>5 DEF RecordOk, RowsOk
    <2>4. Len(row) = 1 /\ row[1][2] = intent[2]
      BY <2>2, <1>8, <1>10
    <2>5. row[1] \in {g} \X Nat
      BY <2>3, <2>4, ElementOfSeq
    <2>6. row[1] = intent
      BY <2>4, <2>5, <1>1
    <2>7. row = <<row[1]>>
      BY <2>3, <2>4
    <2> QED BY <2>2, <2>6, <2>7
  <1>12. /\ t[last] = record /\ t[w[2]] = s[w[2]] /\ t[f[2]] = s[f[2]] /\ t[x[2]] = s[x[2]]
         /\ t[p[2]] = s[p[2]]
    BY <1>2, <1>3, <1>4, <1>7 DEF Grown
  <1> QED BY <1>1, <1>2, <1>3, <1>4, <1>7, <1>9, <1>11, <1>12 DEF ChainOk

\* A record that restores is good when its chain and what it writes are.
LEMMA NewRestoreOk ==
  ASSUME NEW g, NEW s, NEW t, NEW record, Grown(t, s, record), NEW evs,
         record.type \in {"execution", "live"}, ChainOk(t, g, Len(s) + 1), EditOk(t, Len(s) + 1)
  PROVE  RecordOk(t, g, Len(s) + 1, evs)
  BY DEF Grown, RecordOk, RowsOk, PreflightOk, WrapperOk, BridgeOk, IntentOk, RestoreOk

\* A write of the latest props of a node puts no older props of the node over newer ones.
LEMMA WriteKeeps ==
  ASSUME RestoreInv, UNCHANGED <<history, events>>, NEW target \in Nodes, NEW value \in Nodes \X Nat,
         Restore!LatestPropsFresh(value), written' = written \/ Restore!Write(target, value)
  PROVE  WorldTyped' /\ WrittenOk' /\ GoesNoFurtherBack
  <1>1. value[2] = Len(history[value[1]]) /\ value[1] \in Nodes
    BY DEF Restore!LatestPropsFresh
  <1>2. \A n \in Nodes : Len(history[n]) \in Nat
    BY DEF RestoreInv, WorldTyped
  <1>3. CASE written' = written
    <2>1. WorldTyped' /\ WrittenOk'
      BY <1>3 DEF RestoreInv, WorldTyped, WrittenOk
    <2>2. GoesNoFurtherBack
      BY <1>3 DEF GoesNoFurtherBack, RestoreInv, WrittenOk
    <2> QED BY <2>1, <2>2
  <1>4. CASE written' = [written EXCEPT ![target] = value]
    <2>1. /\ DOMAIN written' = Nodes /\ written' = [n \in DOMAIN written' |-> written'[n]]
          /\ written'[target] = value
          /\ \A n \in Nodes : n # target => written'[n] = written[n]
      BY <1>4 DEF RestoreInv, WorldTyped
    <2>2. WorldTyped'
      BY <2>1 DEF RestoreInv, WorldTyped
    <2>3. WrittenOk'
      BY <2>1, <1>1, <1>2 DEF RestoreInv, WrittenOk
    <2>4. GoesNoFurtherBack
      BY <2>1, <1>1, <1>2 DEF GoesNoFurtherBack, RestoreInv, WrittenOk
    <2> QED BY <2>2, <2>3, <2>4
  <1> QED BY <1>3, <1>4 DEF Restore!Write

\* An execution writes its control, or throws before or after it has written.
LEMMA WriteControlKeeps ==
  ASSUME RestoreInv, NEW g \in Gates, NEW record, Restore!WriteControl(g, record),
         record.target \in Nodes, record.value \in Nodes \X Nat,
         Restore!LatestPropsFresh(record.value),
         \A t : Grown(t, records[g], record) => RecordOk(t, g, Len(records[g]) + 1, events)
  PROVE  RestoreInv' /\ GoesNoFurtherBack
  <1>1. /\ Restore!Sequence(g, record) \/ Restore!Sequence(g, Restore!Lost)
        /\ written' = written \/ Restore!Write(record.target, record.value)
    BY DEF Restore!WriteControl
  <1>2. \A t : Grown(t, records[g], Restore!Lost) => RecordOk(t, g, Len(records[g]) + 1, events)
    <2>1. Restore!Lost.type = "lost"
      BY DEF Restore!Lost
    <2> QED BY <2>1
            DEF Grown, RecordOk, RowsOk, PreflightOk, WrapperOk, BridgeOk, IntentOk, RestoreOk
  <1>3. RestoreTyped' /\ RecordsOk' /\ UNCHANGED <<history, events>>
    BY <1>1, <1>2, RecordAdded
  <1>4. WorldTyped' /\ WrittenOk' /\ GoesNoFurtherBack
    BY <1>1, <1>3, WriteKeeps
  <1> QED BY <1>3, <1>4 DEF RestoreInv

\* The two executions and the live preflight.
LEMMA ExecuteRestoreKeeps ==
  ASSUME RestoreInv, NEW g \in Gates, Restore!Execute(g)
  PROVE  RestoreInv' /\ GoesNoFurtherBack
  <1> DEFINE last == Len(records[g]) + 1
             Goal == RestoreInv' /\ GoesNoFurtherBack
  <1>0. PICK S : records[g] \in Seq(S)
    BY DEF RestoreInv, RestoreTyped
  <1>e. \A e \in DOMAIN events : events[e] \in Nodes \X Nat
    BY DEF RestoreInv, WorldTyped
  <1> HIDE DEF Goal
  \* What a bridge of the gate tells of its intent.
  <1>b. ASSUME NEW b \in Restore!Of("bridge"), Restore!FromGate(g, b)
        PROVE  LET intent == Restore!At(b).intent
               IN  /\ intent \in Restore!Of("intent") /\ Restore!FromGate(g, intent)
                   /\ intent[2] \in DOMAIN records[g]
                   /\ Restore!At(intent) = records[g][intent[2]] /\ Restore!At(intent).recorded
                   /\ Restore!At(intent).source = "event"
                   /\ Restore!At(intent).event = Restore!At(b).event
                   /\ Restore!At(intent).lookup = events[Restore!At(b).event]
    <2> DEFINE intent == Restore!At(b).intent
    <2>1. /\ Restore!At(b) = records[g][b[2]] /\ records[g][b[2]].type = "bridge"
          /\ RecordOk(records[g], g, b[2], events) /\ b[2] \in DOMAIN records[g]
      BY <1>b, RefOfGate
    <2>2. /\ Named(g, b[2], intent) /\ records[g][intent[2]].type = "intent"
          /\ records[g][intent[2]].source = "event"
          /\ records[g][intent[2]].event = Restore!At(b).event /\ records[g][intent[2]].recorded
      BY <2>1 DEF RecordOk, BridgeOk
    <2>3. b[2] \in 1 .. Len(records[g]) /\ Len(records[g]) \in Nat
      BY <2>1, <1>0
    <2>4. intent = <<g, intent[2]>> /\ intent[2] \in DOMAIN records[g]
      BY <2>2, <2>3, <1>0 DEF Named
    <2>5. Restore!At(intent) = records[g][intent[2]]
      BY <2>4 DEF Restore!At
    <2>6. intent \in Restore!Of("intent") /\ Restore!FromGate(g, intent)
      BY <2>2, <2>4, <2>5 DEF Restore!Of, Restore!Refs, Restore!FromGate
    <2>7. IntentOk(records[g], intent[2], events)
      BY <2>4 DEF RestoreInv, RecordsOk, RecordOk
    <2>8. Restore!At(intent).lookup = events[Restore!At(b).event]
      BY <2>2, <2>5, <2>7 DEF IntentOk
    <2> QED BY <2>2, <2>4, <2>5, <2>6, <2>8
  <1>1. ASSUME NEW e \in DOMAIN events, NEW b \in Restore!Of("bridge"), NEW w \in Restore!Of("write"),
               NEW f \in Restore!Of("blocker"), NEW x \in Restore!Of("wrapper"), NEW target \in Nodes,
               Restore!RecordInputChangeExecution(g, e, b, w, f, x, target)
        PROVE  Goal
    <2> DEFINE intent == Restore!At(b).intent
               record == [type |-> "execution", intent |-> intent, write |-> w, blocker |-> f,
                          wrapper |-> x, value |-> events[e], target |-> target]
    <2>1. /\ \A ref \in {b, w, f, x} : Restore!FromGate(g, ref)
          /\ Restore!At(b).event = e /\ Restore!InputChangeAccepts(e, b, w, f, x)
          /\ Restore!WriteControl(g, record)
      BY <1>1 DEF Restore!RecordInputChangeExecution
    <2>2. /\ record.type = "execution" /\ record.intent = intent /\ record.write = w
          /\ record.blocker = f /\ record.wrapper = x /\ record.value = events[e]
          /\ record.target = target
      OBVIOUS
    <2>3. /\ Restore!LatestPropsFresh(events[e]) /\ Restore!OneRestore(intent, w, f, x)
          /\ Kind[events[e][1]] = Restore!At(intent).kind
      BY <2>1 DEF Restore!InputChangeAccepts
    <2>4. /\ intent \in Restore!Of("intent") /\ Restore!FromGate(g, intent)
          /\ intent[2] \in DOMAIN records[g] /\ Restore!At(intent) = records[g][intent[2]]
          /\ Restore!At(intent).recorded /\ Restore!At(intent).lookup = events[e]
      BY <2>1, <1>b
    <2> HIDE DEF record, intent
    <2>5. ASSUME NEW t, Grown(t, records[g], record) PROVE RecordOk(t, g, last, events)
      <3>1. ChainOk(t, g, last)
        BY <2>1, <2>2, <2>3, <2>4, <2>5, NewChainOk
      <3>2. t[last] = record /\ t[intent[2]] = records[g][intent[2]]
        BY <2>4, <2>5 DEF Grown
      <3>3. EditOk(t, last)
        BY <2>2, <2>3, <2>4, <3>2 DEF EditOk
      <3> QED BY <2>2, <2>5, <3>1, <3>3, NewRestoreOk
    <2> QED BY <2>1, <2>2, <2>3, <2>5, <1>e, WriteControlKeeps DEF Goal
  <1>2. ASSUME NEW e \in DOMAIN events, NEW b \in Restore!Of("bridge"), NEW w \in Restore!Of("write"),
               NEW f \in Restore!Of("blocker"), NEW x \in Restore!Of("wrapper"),
               Restore!PreflightLiveMutation(g, e, b, w, f, x)
        PROVE  Goal
    <2> DEFINE intent == Restore!At(b).intent
               record == [type |-> "live", intent |-> intent, write |-> w, blocker |-> f,
                          wrapper |-> x, value |-> events[e]]
    <2>1. /\ \A ref \in {b, w, f, x} : Restore!FromGate(g, ref)
          /\ Restore!InputChangeAccepts(e, b, w, f, x)
          /\ Restore!Sequence(g, record) /\ written' = written
      BY <1>2 DEF Restore!PreflightLiveMutation, Restore!Record
    <2>2. /\ record.type = "live" /\ record.intent = intent /\ record.write = w
          /\ record.blocker = f /\ record.wrapper = x /\ record.value = events[e]
      OBVIOUS
    <2>3. /\ Restore!LatestPropsFresh(events[e]) /\ Restore!OneRestore(intent, w, f, x)
          /\ Kind[events[e][1]] = Restore!At(intent).kind
      BY <2>1 DEF Restore!InputChangeAccepts
    <2>4. /\ intent \in Restore!Of("intent") /\ Restore!FromGate(g, intent)
          /\ intent[2] \in DOMAIN records[g] /\ Restore!At(intent) = records[g][intent[2]]
          /\ Restore!At(intent).recorded
      BY <2>1, <1>b
    <2> HIDE DEF record, intent
    <2>5. ASSUME NEW t, Grown(t, records[g], record) PROVE RecordOk(t, g, last, events)
      <3>1. ChainOk(t, g, last)
        BY <2>1, <2>2, <2>3, <2>4, <2>5, NewChainOk
      <3>2. t[last] = record /\ t[intent[2]] = records[g][intent[2]]
        BY <2>4, <2>5 DEF Grown
      <3>3. EditOk(t, last)
        BY <2>2, <2>3, <2>4, <3>2 DEF EditOk
      <3> QED BY <2>2, <2>5, <3>1, <3>3, NewRestoreOk
    <2>6. RestoreTyped' /\ RecordsOk' /\ UNCHANGED <<history, events>>
      BY <2>1, <2>5, RecordAdded
    <2>7. WorldTyped' /\ WrittenOk' /\ GoesNoFurtherBack
      <3>1. events[e][1] \in Nodes
        BY <1>e
      <3> QED BY <3>1, <2>1, <2>3, <2>6, <1>e, WriteKeeps
    <2> QED BY <2>6, <2>7 DEF Goal, RestoreInv
  <1>3. ASSUME NEW lookup \in Restore!Lookups, NEW intent \in Restore!Of("intent"),
               NEW w \in Restore!Of("write"), NEW f \in Restore!Of("blocker"),
               NEW x \in Restore!Of("wrapper"), NEW target \in Nodes,
               Restore!RecordFakeDomExecution(g, lookup, intent, w, f, x, target)
        PROVE  Goal
    <2> DEFINE record == [type |-> "execution", intent |-> intent, write |-> w, blocker |-> f,
                          wrapper |-> x, value |-> lookup, target |-> target]
    <2>1. /\ \A ref \in {intent, w, f, x} : Restore!FromGate(g, ref)
          /\ Restore!At(intent).source = "observation" /\ Restore!At(intent).recorded
          /\ Restore!LatestPropsFresh(lookup) /\ Kind[lookup[1]] = Restore!At(intent).kind
          /\ Restore!OneRestore(intent, w, f, x) /\ Restore!WriteControl(g, record)
      BY <1>3 DEF Restore!RecordFakeDomExecution
    <2>2. /\ record.type = "execution" /\ record.intent = intent /\ record.write = w
          /\ record.blocker = f /\ record.wrapper = x /\ record.value = lookup
          /\ record.target = target
      OBVIOUS
    <2>3. intent[2] \in DOMAIN records[g] /\ Restore!At(intent) = records[g][intent[2]]
      BY <2>1, RefOfGate
    <2>4. lookup \in Nodes \X Nat
      <3>1. PICK n \in Nodes : lookup \in {n} \X DOMAIN history[n]
        BY DEF Restore!Lookups
      <3>2. history[n] \in Seq(BOOLEAN)
        BY DEF RestoreInv, WorldTyped
      <3> QED BY <3>1, <3>2
    <2> HIDE DEF record
    <2>5. ASSUME NEW t, Grown(t, records[g], record) PROVE RecordOk(t, g, last, events)
      <3>1. ChainOk(t, g, last)
        BY <2>1, <2>2, <2>5, NewChainOk
      <3>2. t[last] = record /\ t[intent[2]] = records[g][intent[2]]
        BY <2>3, <2>5 DEF Grown
      <3>3. EditOk(t, last)
        BY <2>1, <2>2, <2>3, <3>2 DEF EditOk
      <3> QED BY <2>2, <2>5, <3>1, <3>3, NewRestoreOk
    <2> QED BY <2>1, <2>2, <2>4, <2>5, WriteControlKeeps DEF Goal
  <1>4. Goal
    BY <1>1, <1>2, <1>3 DEF Restore!Execute
  <1> QED BY <1>4 DEF Goal

\* Renders, edits, events and the end of listening.
LEMMA WorldKeeps ==
  ASSUME RestoreInv, Restore!World
  PROVE  RestoreInv' /\ GoesNoFurtherBack
  <1>1. records' = records /\ written' = written
    BY DEF Restore!World, Restore!Render, Restore!Edit, Restore!Dispatch, Restore!StopListening
  <1>2. /\ history' \in [Nodes -> Seq(BOOLEAN)]
        /\ \A n \in Nodes : Len(history[n]) <= Len(history'[n])
        /\ events' \in Seq(Nodes \X Nat) /\ DOMAIN events \subseteq DOMAIN events'
        /\ \A e \in DOMAIN events : events'[e] = events[e]
    <2>1. ASSUME NEW n \in Nodes, NEW controlled \in BOOLEAN, Restore!Render(n, controlled)
          PROVE  <1>2!:
      <3>1. history' = [history EXCEPT ![n] = Append(history[n], controlled)] /\ events' = events
        BY <2>1 DEF Restore!Render
      <3>2. history \in [Nodes -> Seq(BOOLEAN)]
        BY DEF RestoreInv, WorldTyped
      <3>3. /\ Append(history[n], controlled) \in Seq(BOOLEAN)
            /\ Grown(Append(history[n], controlled), history[n], controlled)
        BY <3>2, Appended
      <3>4. \A m \in Nodes : Len(history[m]) \in Nat
        BY <3>2
      <3>5. \A m \in Nodes : Len(history[m]) <= Len(history'[m])
        BY <3>1, <3>2, <3>3, <3>4 DEF Grown
      <3>6. history' \in [Nodes -> Seq(BOOLEAN)]
        BY <3>1, <3>2, <3>3
      <3> QED BY <3>1, <3>5, <3>6 DEF RestoreInv, WorldTyped
    <2>2. ASSUME NEW n \in Nodes, Restore!Dispatch(n)
          PROVE  <1>2!:
      <3> DEFINE new == <<n, Len(history[n])>>
      <3>1. events' = Append(events, new) /\ history' = history
        BY <2>2 DEF Restore!Dispatch
      <3>2. new \in Nodes \X Nat /\ \A m \in Nodes : Len(history[m]) \in Nat
        BY DEF RestoreInv, WorldTyped
      <3> HIDE DEF new
      <3>3. events' \in Seq(Nodes \X Nat) /\ Grown(events', events, new)
        BY <3>1, <3>2, Appended DEF RestoreInv, WorldTyped
      <3> QED BY <3>1, <3>2, <3>3 DEF Grown, RestoreInv, WorldTyped
    <2>3. ASSUME UNCHANGED <<history, events>>
          PROVE  <1>2!:
      <3>1. \A m \in Nodes : Len(history[m]) \in Nat
        BY DEF RestoreInv, WorldTyped
      <3> QED BY <2>3, <3>1 DEF RestoreInv, WorldTyped
    <2> QED BY <2>1, <2>2, <2>3 DEF Restore!World, Restore!Edit, Restore!StopListening
  <1>3. RestoreTyped' /\ WorldTyped'
    BY <1>1, <1>2 DEF RestoreInv, RestoreTyped, WorldTyped
  <1>4. RecordsOk'
    <2> SUFFICES ASSUME NEW g \in Gates, NEW i \in DOMAIN records[g]
                 PROVE  RecordOk(records[g], g, i, events')
      BY <1>1 DEF RecordsOk
    <2>1. RecordOk(records[g], g, i, events)
      BY DEF RestoreInv, RecordsOk
    <2>2. Len(records[g]) \in Nat /\ DOMAIN records[g] = 1 .. Len(records[g])
      BY DEF RestoreInv, RestoreTyped
    <2> QED BY <2>1, <2>2, <1>2, RecordOkKept
  <1>5. WrittenOk'
    <2> SUFFICES ASSUME NEW n \in Nodes, written[n] # <<>>
                 PROVE  /\ written[n] \in Nodes \X Nat
                        /\ written[n][2] <= Len(history'[written[n][1]])
      BY <1>1 DEF WrittenOk
    <2>1. written[n] \in Nodes \X Nat /\ written[n][2] <= Len(history[written[n][1]])
      BY DEF RestoreInv, WrittenOk
    <2>2. Len(history[written[n][1]]) \in Nat /\ Len(history'[written[n][1]]) \in Nat
      BY <2>1, <1>2 DEF RestoreInv, WorldTyped
    <2> QED BY <2>1, <2>2, <1>2
  <1>6. GoesNoFurtherBack
    BY <1>1 DEF GoesNoFurtherBack, RestoreInv, WrittenOk
  <1> QED BY <1>3, <1>4, <1>5, <1>6 DEF RestoreInv

\* Every step of the world and of a gate.
LEMMA RestoreStep ==
  ASSUME RestoreInv, Restore!Next
  PROVE  RestoreInv' /\ GoesNoFurtherBack
  <1>1. ASSUME NEW g \in Gates, Restore!Prepare(g) PROVE RestoreInv' /\ GoesNoFurtherBack
    <2>1. RestoreTyped' /\ RecordsOk' /\ UNCHANGED <<history, events, written>>
      BY <1>1, PrepareKeeps
    <2>2. WorldTyped' /\ WrittenOk' /\ GoesNoFurtherBack
      BY <2>1 DEF RestoreInv, WorldTyped, WrittenOk, GoesNoFurtherBack
    <2> QED BY <2>1, <2>2 DEF RestoreInv
  <1> QED BY <1>1, WorldKeeps, ExecuteRestoreKeeps DEF Restore!Next

\* The invariant is what the property says of the records there are.
LEMMA RestoreInvTells ==
  ASSUME RestoreInv
  PROVE  Restore!EachIsOfOneEdit
  <1> SUFFICES ASSUME NEW g \in Gates, NEW i \in DOMAIN records[g],
                      records[g][i].type \in {"execution", "live"}
               PROVE  Restore!OneChain(g, i) /\ Restore!WritesForItsEdit(records[g][i])
    BY DEF Restore!EachIsOfOneEdit, Restore!Restores
  <1> DEFINE s == records[g]
             e == records[g][i]
             p == s[e.write[2]].preflight
  <1>1. Len(s) \in Nat /\ DOMAIN s = 1 .. Len(s)
    BY DEF RestoreInv, RestoreTyped
  <1>2. ChainOk(s, g, i) /\ EditOk(s, i)
    BY DEF RestoreInv, RecordsOk, RecordOk, RestoreOk
  <1>3. ASSUME NEW ref, Named(g, i, ref)
        PROVE  /\ ref \in Restore!Refs /\ ref[1] = g /\ ref[2] < i
               /\ Restore!At(ref) = s[ref[2]]
    <2>1. PICK k \in 1 .. (i - 1) : ref = <<g, k>>
      BY <1>3 DEF Named
    <2>2. k \in DOMAIN s /\ k < i
      BY <2>1, <1>1
    <2> QED BY <2>1, <2>2 DEF Restore!Refs, Restore!At
  <1>4. /\ Named(g, i, e.intent) /\ Named(g, i, e.write) /\ Named(g, i, e.blocker)
        /\ Named(g, i, e.wrapper) /\ Named(g, i, p)
        /\ s[p[2]].rows = <<e.intent>> /\ s[e.blocker[2]].preflight = p
        /\ s[e.wrapper[2]].write = e.write /\ s[e.wrapper[2]].blocker = e.blocker
    BY <1>2 DEF ChainOk
  <1>5. Restore!At(e.write).preflight = p
    BY <1>3, <1>4
  <1> HIDE DEF p
  <1>6. Restore!OneChain(g, i)
    BY <1>3, <1>4, <1>5 DEF Restore!OneChain
  <1>7. Restore!WritesForItsEdit(e)
    BY <1>2, <1>3, <1>4 DEF EditOk, Restore!WritesForItsEdit
  <1> QED BY <1>6, <1>7

\* A restore stands for one edit of one gate, whatever records of other gates, events and preflights
\* were offered with its own, and no restore puts older props of a node over newer ones, whatever
\* renders lie between and whichever executions threw half way, for any gates, nodes, events and
\* records (controlled-restore-queue.js).
THEOREM RestoresAreOneEdit == Restore!Spec => RestoresOneEdit
  <1>1. Restore!Init => RestoreInv
    <2> SUFFICES ASSUME Restore!Init PROVE RestoreInv
      OBVIOUS
    <2>1. <<>> \in Seq({}) /\ <<TRUE>> \in Seq(BOOLEAN) /\ <<FALSE>> \in Seq(BOOLEAN)
      OBVIOUS
    <2>2. RestoreTyped
      BY <2>1 DEF Restore!Init, RestoreTyped
    <2>3. history \in [Nodes -> Seq(BOOLEAN)]
      BY <2>1 DEF Restore!Init
    <2>4. WorldTyped
      BY <2>3 DEF Restore!Init, WorldTyped
    <2>5. RecordsOk /\ WrittenOk
      BY DEF Restore!Init, RecordsOk, WrittenOk, Restore!Unwritten
    <2> QED BY <2>2, <2>4, <2>5 DEF RestoreInv
  <1>2. RestoreInv /\ [Restore!Next]_(Restore!vars)
          => RestoreInv' /\ [GoesNoFurtherBack]_(Restore!vars)
    <2>1. ASSUME RestoreInv, UNCHANGED Restore!vars PROVE RestoreInv'
      BY <2>1 DEF Restore!vars, RestoreInv, RestoreTyped, WorldTyped, RecordsOk, WrittenOk
    <2> QED BY <2>1, RestoreStep
  <1>3. RestoreInv => Restore!EachIsOfOneEdit
    BY RestoreInvTells
  <1>4. Restore!Spec => [][Restore!EachIsOfOneEdit']_(Restore!vars)
                          /\ [][GoesNoFurtherBack]_(Restore!vars)
    BY <1>1, <1>2, <1>3, PTL DEF Restore!Spec
  <1> QED BY <1>4 DEF RestoresOneEdit, Restore!RestoresAreOfOneEdit, Restore!NoRestoreGoesBack,
                      GoesNoFurtherBack, Restore!Unwritten

-----------------------------------------------------------------------------
(***************************************************************************)
(* The bridge of the test renderer                                         *)
(***************************************************************************)
TestEvidence == [create : Renderer!Row, update : Renderer!Row, unmount : Renderer!Row]

RendererTyped ==
  /\ nextSequence \in Nat /\ rootRequests \in [TestRoots -> Seq(Renderer!Request)]
  /\ lifecycle \in [TestRoots -> Renderer!Lifecycles]
  /\ rust \in [TestRoots -> [lifecycle : Renderer!Lifecycles, scheduled : Seq(Nat)]]
  /\ answers \subseteq Renderer!Answer /\ rows \subseteq Renderer!Row
  /\ evidence \in [TestRoots -> {<<>>} \cup TestEvidence]

\* The lifecycle that the bridge predicts for request i of a root: none before the create, and
\* unmounted once an unmount was requested.
Predicts(s, i, status) ==
  /\ status = "None" <=> i = 1
  /\ status = "UnmountScheduled" <=> \E j \in 1 .. (i - 1) : s[j].op = "unmount"

\* The requests s of a root: a create and then others, in the order of their sequences.
RequestsOk(s, next) ==
  /\ \A i \in DOMAIN s :
       /\ s[i].sequence < next
       /\ s[i].op = "create" <=> i = 1
       /\ Predicts(s, i, s[i].before)
       /\ s[i].after = Renderer!LifecycleAfter(s[i].op, s[i].before)
       /\ s[i].outcome = Renderer!PredictedOutcome(s[i].op, s[i].before)
  /\ \A i, j \in DOMAIN s : i < j => s[i].sequence < s[j].sequence

RequestsChained ==
  \A r \in TestRoots :
    /\ RequestsOk(rootRequests[r], nextSequence)
    /\ Predicts(rootRequests[r], Len(rootRequests[r]) + 1, lifecycle[r])

\* An answer is about one of the requests s of its root, and tells what the Rust root did.
AnswersRequest(a, s) ==
  /\ \E i \in DOMAIN s : s[i].sequence = a.sequence /\ s[i].op = a.op
  /\ a.op = "create" <=> a.before = "None"
  /\ a.outcome = Renderer!RustOutcome(a.op, a.before)
  /\ a.after = Renderer!RustAfter(a.op, a.before)
  /\ a.inOrder => \A i \in DOMAIN s : s[i].sequence = a.sequence => a.before = s[i].before

\* A scheduled answer has its place in the log of the Rust root: the create the first one, an
\* unmount the last one and an update one in between.
Placed(a, status, log) ==
  a.outcome = "Scheduled" =>
    /\ a.position \in DOMAIN log /\ log[a.position] = a.sequence
    /\ a.op = "create" => a.position = 1
    /\ a.op = "update" => a.position > 1
    /\ a.op = "unmount" => a.position = Len(log)
    /\ a.op = "update" /\ status = "UnmountScheduled" => a.position < Len(log)

AnswersOk == \A a \in answers : AnswersRequest(a, rootRequests[a.root])
AnswersPlaced == \A a \in answers : Placed(a, rust[a.root].lifecycle, rust[a.root].scheduled)

\* The lifecycle of the Rust root follows from which requests it has executed.
RustFollows ==
  \A r \in TestRoots :
    /\ rust[r].lifecycle = "None" <=> \A a \in answers : a.root # r
    /\ rust[r].lifecycle = "None" <=> rust[r].scheduled = <<>>
    /\ rust[r].lifecycle = "UnmountScheduled" <=>
         \E a \in answers : a.root = r /\ a.op = "unmount"

\* An accepted row holds an answer that agrees with its request, with a source record its own.
RowOk(row) ==
  /\ row.index \in DOMAIN rootRequests[row.root] /\ row.answer \in answers
  /\ Renderer!MatchesRequest(Renderer!RequestOf(row), row.answer)
  /\ row.source => /\ row.answer.root = row.root
                   /\ row.answer.sequence = Renderer!RequestOf(row).sequence
RowsMatch == \A row \in rows : RowOk(row)

\* Evidence is made of the source-owned rows of one root.
EvidenceRow(row, r, op) ==
  /\ row \in rows /\ row.root = r /\ row.source
  /\ Renderer!RequestOf(row).op = op /\ Renderer!RequestOf(row).outcome = "Scheduled"
EvidenceOk(r, e) ==
  /\ EvidenceRow(e.create, r, "create") /\ EvidenceRow(e.update, r, "update")
  /\ EvidenceRow(e.unmount, r, "unmount")
  /\ e.create.index = 1 /\ e.update.index = Renderer!LatestUpdateBefore(r, e.unmount.index)
  /\ 1 < e.update.index /\ e.update.index < e.unmount.index
EvidenceKept == \A r \in TestRoots : evidence[r] # <<>> => EvidenceOk(r, evidence[r])

RendererInv ==
  /\ RendererTyped /\ RequestsChained /\ AnswersOk /\ AnswersPlaced /\ RustFollows /\ RowsMatch
  /\ EvidenceKept

-----------------------------------------------------------------------------
\* The sequences of one root are different.
LEMMA SequencesDiffer ==
  ASSUME RendererInv, NEW r \in TestRoots, NEW i \in DOMAIN rootRequests[r],
         NEW j \in DOMAIN rootRequests[r],
         rootRequests[r][i].sequence = rootRequests[r][j].sequence
  PROVE  i = j
  <1>1. rootRequests[r] \in Seq(Renderer!Request) /\ RequestsOk(rootRequests[r], nextSequence)
    BY DEF RendererInv, RendererTyped, RequestsChained
  <1>2. i \in Nat /\ j \in Nat /\ rootRequests[r][i] \in Renderer!Request
        /\ rootRequests[r][j] \in Renderer!Request
    BY <1>1
  <1>3. rootRequests[r][i].sequence \in Nat
    BY <1>2 DEF Renderer!Request
  <1> QED BY <1>1, <1>2, <1>3 DEF RequestsOk

\* The rows of evidence tell what the Rust root did.
LEMMA EvidenceTold ==
  ASSUME RendererInv, NEW r \in TestRoots, evidence[r] # <<>>
  PROVE  LET e == evidence[r]
             log == rust[r].scheduled
             Own(row) == /\ row.answer.root = r
                         /\ row.answer.sequence = Renderer!RequestOf(row).sequence
                         /\ log[row.answer.position] = Renderer!RequestOf(row).sequence
         IN /\ Own(e.create) /\ Own(e.update) /\ Own(e.unmount)
            /\ e.create.answer.position = 1
            /\ e.update.answer.position > 1
            /\ e.unmount.answer.position > e.update.answer.position
            /\ e.unmount.answer.position = Len(log)
  <1> DEFINE e == evidence[r]
             log == rust[r].scheduled
             Own(row) == /\ row.answer.root = r
                         /\ row.answer.sequence = Renderer!RequestOf(row).sequence
                         /\ log[row.answer.position] = Renderer!RequestOf(row).sequence
  <1>1. EvidenceOk(r, e)
    BY DEF RendererInv, EvidenceKept
  <1> HIDE DEF e
  <1>2. ASSUME NEW row, NEW op, EvidenceRow(row, r, op)
        PROVE  /\ Own(row) /\ row.answer \in answers /\ row.answer.op = op
               /\ row.answer.outcome = "Scheduled"
               /\ Placed(row.answer, rust[r].lifecycle, log)
    <2>1. row \in rows /\ RowOk(row) /\ row.source /\ row.root = r
      BY <1>2 DEF EvidenceRow, RendererInv, RowsMatch
    <2>2. /\ row.answer \in answers /\ row.answer.root = r
          /\ row.answer.sequence = Renderer!RequestOf(row).sequence
          /\ row.answer.op = op /\ row.answer.outcome = "Scheduled"
      BY <1>2, <2>1 DEF EvidenceRow, RowOk, Renderer!MatchesRequest
    <2>3. Placed(row.answer, rust[r].lifecycle, log)
      BY <2>2 DEF RendererInv, AnswersPlaced
    <2> QED BY <2>2, <2>3 DEF Placed
  <1>3. rust[r].lifecycle = "UnmountScheduled"
    BY <1>1, <1>2 DEF EvidenceOk, RendererInv, RustFollows
  <1>4. Own(e.create) /\ Own(e.update) /\ Own(e.unmount)
    BY <1>1, <1>2 DEF EvidenceOk
  <1>5. e.create.answer.position = 1 /\ e.update.answer.position > 1
        /\ e.update.answer.position < Len(log) /\ e.unmount.answer.position = Len(log)
    BY <1>1, <1>2, <1>3 DEF EvidenceOk, Placed
  <1> QED BY <1>4, <1>5 DEF e

\* The two readers of the evidence agree.
LEMMA ReadersAlike ==
  ASSUME RendererInv, NEW r \in TestRoots
  PROVE  Renderer!SerializationAccepts(r) <=>
           \E i \in 1 .. Len(rootRequests[r]) : Renderer!QueriesExposed(r, i)
  <1> DEFINE e == evidence[r]
             s == rootRequests[r]
             last == Len(s)
  <1>s. s \in Seq(Renderer!Request) /\ DOMAIN s = 1 .. last /\ last \in Nat
    BY DEF RendererInv, RendererTyped
  <1>1. ASSUME Renderer!SerializationAccepts(r)
        PROVE  \E i \in 1 .. last : Renderer!QueriesExposed(r, i)
    <2>1. PICK c \in 1 .. last, u \in 1 .. last, m \in 1 .. last :
            m = last /\ s[m].sequence = Renderer!RequestOf(e.unmount).sequence
      BY <1>1 DEF Renderer!SerializationAccepts, Renderer!FindRequest
    <2>2. e # Renderer!NoEvidence
      BY <1>1 DEF Renderer!SerializationAccepts
    <2>3. Renderer!QueriesExposed(r, m)
      BY <2>1, <2>2 DEF Renderer!QueriesExposed
    <2> QED BY <2>3
  <1>2. ASSUME NEW i \in 1 .. last, Renderer!QueriesExposed(r, i)
        PROVE  Renderer!SerializationAccepts(r)
    <2>1. e # <<>> /\ i = last /\ Renderer!RequestOf(e.unmount).sequence = s[i].sequence
      BY <1>2 DEF Renderer!QueriesExposed, Renderer!NoEvidence
    <2>2. EvidenceOk(r, e)
      BY <2>1 DEF RendererInv, EvidenceKept
    <2> DEFINE c == e.create.index
               u == e.update.index
               m == e.unmount.index
    <2> HIDE DEF e
    <2>3. /\ c \in DOMAIN s /\ s[c] = Renderer!RequestOf(e.create)
          /\ u \in DOMAIN s /\ s[u] = Renderer!RequestOf(e.update)
          /\ m \in DOMAIN s /\ s[m] = Renderer!RequestOf(e.unmount)
      BY <2>2 DEF EvidenceOk, EvidenceRow, RendererInv, RowsMatch, RowOk, Renderer!RequestOf
    <2>4. /\ c = 1 /\ u = Renderer!LatestUpdateBefore(r, m) /\ 1 < u /\ u < m
          /\ s[c].op = "create" /\ s[u].op = "update" /\ s[m].op = "unmount"
      BY <2>2, <2>3 DEF EvidenceOk, EvidenceRow
    <2>5. m = last
      BY <2>1, <2>3, <1>s, SequencesDiffer
    <2>6. /\ c \in Renderer!FindRequest(r, "create", Renderer!RequestOf(e.create).sequence)
          /\ u \in Renderer!FindRequest(r, "update", Renderer!RequestOf(e.update).sequence)
          /\ m \in Renderer!FindRequest(r, "unmount", Renderer!RequestOf(e.unmount).sequence)
      BY <2>3, <2>4, <1>s DEF Renderer!FindRequest
    <2>7. e # Renderer!NoEvidence /\ c = 1 /\ m = Len(rootRequests[r])
          /\ u = Renderer!LatestUpdateBefore(r, m) /\ c < u /\ u < m
      BY <2>1, <2>4, <2>5 DEF Renderer!NoEvidence
    <2> HIDE DEF c, u, m, s, last
    <2> QED BY <2>6, <2>7 DEF Renderer!SerializationAccepts, e
  <1> QED BY <1>1, <1>2

\* A finite set of numbers has a greatest one, if any.
LEMMA GreatestIs ==
  ASSUME NEW n \in Nat, NEW T \in SUBSET (1 .. n), T # {}
  PROVE  \E j \in T : \A k \in T : k <= j
  <1> DEFINE U == {n - k : k \in T}
  <1>1. U \subseteq Nat /\ U # {}
    <2>1. ASSUME NEW k \in T PROVE n - k \in Nat
      OBVIOUS
    <2> QED BY <2>1
  <1>2. PICK l \in U : \A k \in U : ~ (<<k, l>> \in OpToRel(<, Nat))
    BY <1>1, WFMin, NatLessThanWellFounded
  <1>3. \A k \in U : ~ (k < l)
    BY <1>1, <1>2, Zenon DEF OpToRel
  <1>4. PICK j \in T : l = n - j
    BY <1>2
  <1>5. ASSUME NEW k \in T PROVE k <= j
    BY <1>3, <1>4
  <1> QED BY <1>5

\* The latest update before a request.
LEMMA LatestIs ==
  ASSUME NEW s \in Seq(Renderer!Request), NEW r, rootRequests[r] = s, NEW m \in DOMAIN s,
         NEW u, u = Renderer!LatestUpdateBefore(r, m), u >= 1
  PROVE  \A j \in 1 .. (m - 1) : s[j].op = "update" => j <= u
  <1> DEFINE updates == {j \in 1 .. (m - 1) : s[j].op = "update"}
  <1> SUFFICES ASSUME updates # {} PROVE \A j \in updates : j <= u
    OBVIOUS
  <1>1. u = CHOOSE j \in updates : \A k \in updates : k <= j
    BY DEF Renderer!LatestUpdateBefore
  <1>2. updates \subseteq 1 .. (m - 1) /\ m \in Nat
    OBVIOUS
  <1> HIDE DEF updates
  <1>3. \E j \in updates : \A k \in updates : k <= j
    <2>1. m - 1 \in Nat
      BY <1>2
    <2> QED BY <2>1, <1>2, GreatestIs
  <1> QED BY <1>1, <1>3

\* Only the last update of a root is open to act.
LEMMA ActIsLatest ==
  ASSUME RendererInv, NEW row \in rows, Renderer!ActUpdateAccepts(row)
  PROVE  /\ \A i \in 1 .. Len(rootRequests[row.root]) :
              rootRequests[row.root][i].op = "update" => i <= row.index
         /\ row.answer.sequence = Renderer!RequestOf(row).sequence
         /\ row.answer.position < Len(rust[row.root].scheduled)
  <1> DEFINE r == row.root
             e == evidence[r]
             s == rootRequests[r]
  <1>r. r \in TestRoots /\ RowOk(row) /\ s \in Seq(Renderer!Request)
    BY DEF RendererInv, RendererTyped, RowsMatch, Renderer!Row
  <1>1. /\ Renderer!RequestOf(row).op = "update" /\ Renderer!RequestOf(row).outcome = "Scheduled"
        /\ row.source /\ Renderer!SerializationAccepts(r)
        /\ Renderer!RequestOf(e.update) = Renderer!RequestOf(row)
    BY DEF Renderer!ActUpdateAccepts, Renderer!SourceOwned, Renderer!Scheduled
  <1>2. e # <<>> /\ \E m \in 1 .. Len(s) : m = Len(s) /\ s[m].op = "unmount"
                       /\ s[m].sequence = Renderer!RequestOf(e.unmount).sequence
    BY <1>1 DEF Renderer!SerializationAccepts, Renderer!NoEvidence, Renderer!FindRequest
  <1>3. EvidenceOk(r, e)
    BY <1>2, <1>r DEF RendererInv, EvidenceKept
  <1> HIDE DEF e, r
  <1>4. /\ e.update.index \in DOMAIN s /\ s[e.update.index] = Renderer!RequestOf(e.update)
        /\ e.unmount.index \in DOMAIN s /\ s[e.unmount.index] = Renderer!RequestOf(e.unmount)
        /\ e.unmount \in rows
    BY <1>3 DEF EvidenceOk, EvidenceRow, RendererInv, RowsMatch, RowOk, Renderer!RequestOf
  <1>5. row.index \in DOMAIN s /\ s[row.index] = Renderer!RequestOf(row)
    BY <1>r DEF RowOk, Renderer!RequestOf, r
  <1>6. row.index = e.update.index
    BY <1>1, <1>4, <1>5, <1>r, SequencesDiffer
  <1>7. e.unmount.index = Len(s) /\ s[Len(s)].op = "unmount"
    BY <1>2, <1>4, <1>r, SequencesDiffer
  <1>8. \A j \in 1 .. (Len(s) - 1) : s[j].op = "update" => j <= row.index
    <2>1. /\ row.index = Renderer!LatestUpdateBefore(r, Len(s)) /\ row.index >= 1
          /\ Len(s) \in DOMAIN s
      BY <1>3, <1>4, <1>6, <1>7, <1>r DEF EvidenceOk
    <2> HIDE DEF s
    <2> QED BY <2>1, <1>r, LatestIs DEF s
  <1>9. \A i \in 1 .. Len(s) : s[i].op = "update" => i <= row.index
    BY <1>7, <1>8, <1>r
  <1>10. /\ row.answer \in answers /\ row.answer.root = r
         /\ row.answer.sequence = Renderer!RequestOf(row).sequence
         /\ row.answer.op = "update" /\ row.answer.outcome = "Scheduled"
    BY <1>1, <1>r DEF RowOk, Renderer!MatchesRequest, r
  <1>11. rust[r].lifecycle = "UnmountScheduled"
    <2>1. RowOk(e.unmount) /\ EvidenceRow(e.unmount, r, "unmount")
      BY <1>3, <1>4 DEF EvidenceOk, RendererInv, RowsMatch
    <2>2. e.unmount.answer \in answers /\ e.unmount.answer.root = r /\ e.unmount.answer.op = "unmount"
      BY <2>1 DEF RowOk, EvidenceRow, Renderer!MatchesRequest
    <2> QED BY <2>2, <1>r DEF RendererInv, RustFollows
  <1>12. row.answer.position < Len(rust[r].scheduled)
    BY <1>10, <1>11 DEF RendererInv, AnswersPlaced, Placed
  <1> QED BY <1>9, <1>10, <1>12 DEF r

\* An answer given in order agrees with the prediction.
LEMMA InOrderMatch ==
  ASSUME RendererInv, NEW a \in answers, a.inOrder,
         NEW i \in Renderer!FindRequest(a.root, a.op, a.sequence)
  PROVE  Renderer!MatchesRequest(rootRequests[a.root][i], a)
  <1> DEFINE r == a.root
             q == rootRequests[r][i]
  <1>1. r \in TestRoots /\ rootRequests[r] \in Seq(Renderer!Request) /\ a.op \in Renderer!Operations
        /\ a.before \in Renderer!Lifecycles
    BY DEF RendererInv, RendererTyped, Renderer!Answer
  <1>2. i \in DOMAIN rootRequests[r] /\ q.op = a.op /\ q.sequence = a.sequence
    BY <1>1 DEF Renderer!FindRequest
  <1>3. a.before = q.before /\ AnswersRequest(a, rootRequests[r])
    BY <1>2 DEF RendererInv, AnswersOk, AnswersRequest
  <1>4. /\ q.after = Renderer!LifecycleAfter(q.op, q.before)
        /\ q.outcome = Renderer!PredictedOutcome(q.op, q.before)
    BY <1>1, <1>2 DEF RendererInv, RequestsChained, RequestsOk
  <1> HIDE DEF q
  <1>5. a.after = q.after /\ a.outcome = q.outcome
    BY <1>1, <1>2, <1>3, <1>4
    DEF AnswersRequest, Renderer!RustOutcome, Renderer!RustAfter, Renderer!PredictedOutcome,
        Renderer!LifecycleAfter, Renderer!Operations, Renderer!Lifecycles
  <1> QED BY <1>2, <1>3, <1>5 DEF Renderer!MatchesRequest, q

\* The invariant implies what the run checks.
LEMMA RendererInvTells ==
  ASSUME RendererInv
  PROVE  EvidenceIsTrue
  <1>1. Renderer!EvidenceIsTrue
    BY EvidenceTold DEF Renderer!EvidenceIsTrue, Renderer!NoEvidence
  <1>2. Renderer!ReadersAgree
    BY ReadersAlike DEF Renderer!ReadersAgree
  <1>3. Renderer!ActUpdateIsLatest
    BY ActIsLatest DEF Renderer!ActUpdateIsLatest
  <1>4. Renderer!InOrderAnswersMatch
    BY InOrderMatch DEF Renderer!InOrderAnswersMatch
  <1> QED BY <1>1, <1>2, <1>3, <1>4 DEF EvidenceIsTrue

-----------------------------------------------------------------------------
\* Requests keep their places.
RequestsGrow ==
  \A r \in TestRoots : \A i \in DOMAIN rootRequests[r] :
    i \in DOMAIN rootRequests'[r] /\ rootRequests'[r][i] = rootRequests[r][i]

\* The greatest number of a set, 0 for none.
GreatestOf(T) == IF T = {} THEN 0 ELSE CHOOSE j \in T : \A k \in T : k <= j

\* The latest update before a request does not change.
LEMMA LatestKept ==
  ASSUME RendererInv, RequestsGrow, NEW r \in TestRoots, NEW m \in DOMAIN rootRequests[r]
  PROVE  Renderer!LatestUpdateBefore(r, m)' = Renderer!LatestUpdateBefore(r, m)
  <1> DEFINE updates == {j \in 1 .. (m - 1) : rootRequests[r][j].op = "update"}
             later == {j \in 1 .. (m - 1) : rootRequests'[r][j].op = "update"}
  <1>1. rootRequests[r] \in Seq(Renderer!Request)
    BY DEF RendererInv, RendererTyped
  <1>2. \A j \in 1 .. (m - 1) : j \in DOMAIN rootRequests[r]
    BY <1>1
  <1>3. updates = later
    BY <1>2 DEF RequestsGrow
  <1>4. /\ Renderer!LatestUpdateBefore(r, m) = GreatestOf(updates)
        /\ Renderer!LatestUpdateBefore(r, m)' = GreatestOf(later)
    BY Zenon DEF Renderer!LatestUpdateBefore, GreatestOf
  <1> HIDE DEF updates, later
  <1> QED BY <1>3, <1>4

\* New requests, answers and rows leave rows and evidence as they are.
LEMMA RowsKept ==
  ASSUME RendererInv, RequestsGrow, rows \subseteq rows', answers \subseteq answers'
  PROVE  /\ \A row \in rows : RowOk(row)' /\ Renderer!RequestOf(row)' = Renderer!RequestOf(row)
         /\ evidence' = evidence => EvidenceKept'
  <1>1. ASSUME NEW row \in rows
        PROVE  RowOk(row)' /\ Renderer!RequestOf(row)' = Renderer!RequestOf(row)
    <2>1. row.root \in TestRoots /\ RowOk(row)
      BY DEF RendererInv, RendererTyped, RowsMatch, Renderer!Row
    <2>2. row.index \in DOMAIN rootRequests[row.root]
      BY <2>1 DEF RowOk
    <2>3. /\ row.index \in DOMAIN rootRequests'[row.root]
          /\ rootRequests'[row.root][row.index] = rootRequests[row.root][row.index]
      BY <2>1, <2>2 DEF RequestsGrow
    <2>4. Renderer!RequestOf(row)' = Renderer!RequestOf(row)
      BY <2>3 DEF Renderer!RequestOf
    <2> QED BY <2>1, <2>3, <2>4 DEF RowOk
  <1>2. ASSUME evidence' = evidence, NEW r \in TestRoots, evidence[r] # <<>>
        PROVE  EvidenceOk(r, evidence[r])'
    <2>1. EvidenceOk(r, evidence[r])
      BY <1>2 DEF RendererInv, EvidenceKept
    <2>2. evidence[r].unmount.index \in DOMAIN rootRequests[r]
      BY <2>1 DEF EvidenceOk, EvidenceRow, RendererInv, RowsMatch, RowOk
    <2>3. /\ EvidenceRow(evidence[r].create, r, "create")' /\ EvidenceRow(evidence[r].update, r, "update")'
          /\ EvidenceRow(evidence[r].unmount, r, "unmount")'
      BY <1>1, <1>2, <2>1 DEF EvidenceOk, EvidenceRow
    <2>4. Renderer!LatestUpdateBefore(r, evidence[r].unmount.index)'
            = Renderer!LatestUpdateBefore(r, evidence[r].unmount.index)
      <3> DEFINE m == evidence[r].unmount.index
      <3>1. evidence'[r].unmount.index = m
        BY <1>2
      <3> HIDE DEF m
      <3>2. \A k \in DOMAIN rootRequests[r] : Renderer!LatestUpdateBefore(r, k)' = Renderer!LatestUpdateBefore(r, k)
        BY LatestKept
      <3> QED BY <3>1, <3>2, <2>2 DEF m
    <2> QED BY <1>2, <2>1, <2>3, <2>4 DEF EvidenceOk
  <1> QED BY <1>1, <1>2 DEF EvidenceKept

\* A request is made: the create is the first one of its root.
LEMMA RequestKeeps ==
  ASSUME RendererInv, NEW r \in TestRoots, NEW op \in Renderer!Operations, NEW ready \in BOOLEAN,
         op = "create" <=> rootRequests[r] = <<>>, Renderer!MakeRequest(r, op, ready)
  PROVE  RendererInv'
  <1> DEFINE s == rootRequests[r]
             new == [op |-> op, sequence |-> nextSequence, before |-> lifecycle[r],
                     after |-> Renderer!LifecycleAfter(op, lifecycle[r]),
                     outcome |-> Renderer!PredictedOutcome(op, lifecycle[r]), ready |-> ready]
             t == Append(s, new)
             then == Renderer!LifecycleAfter(op, lifecycle[r])
  <1>1. /\ nextSequence' = nextSequence + 1 /\ rootRequests' = [rootRequests EXCEPT ![r] = t]
        /\ lifecycle' = [lifecycle EXCEPT ![r] = then]
        /\ UNCHANGED <<rust, answers, rows, evidence>>
    BY DEF Renderer!MakeRequest
  <1>2. /\ nextSequence \in Nat /\ lifecycle[r] \in Renderer!Lifecycles
        /\ s \in Seq(Renderer!Request) /\ Len(s) \in Nat /\ DOMAIN s = 1 .. Len(s)
    BY DEF RendererInv, RendererTyped
  <1>3. then \in Renderer!Lifecycles
    BY <1>2 DEF Renderer!LifecycleAfter, Renderer!Lifecycles
  <1>4. Renderer!PredictedOutcome(op, lifecycle[r]) \in Renderer!Outcomes
    BY DEF Renderer!PredictedOutcome, Renderer!Outcomes
  <1>5. new \in Renderer!Request
    BY <1>2, <1>3, <1>4, Zenon DEF Renderer!Request
  <1>6. t \in Seq(Renderer!Request) /\ Grown(t, s, new)
    BY <1>2, <1>5, Appended
  <1>7. /\ new.op = op /\ new.sequence = nextSequence /\ new.before = lifecycle[r]
        /\ new.after = then /\ new.outcome = Renderer!PredictedOutcome(op, lifecycle[r])
    BY Zenon
  <1> HIDE DEF new, t
  <1>8. /\ rootRequests'[r] = t /\ lifecycle'[r] = then
        /\ \A x \in TestRoots : x # r => rootRequests'[x] = rootRequests[x] /\ lifecycle'[x] = lifecycle[x]
    BY <1>1 DEF RendererInv, RendererTyped
  <1>9. RendererTyped'
    <2>1. rootRequests' \in [TestRoots -> Seq(Renderer!Request)]
      BY <1>1, <1>6 DEF RendererInv, RendererTyped
    <2>2. lifecycle' \in [TestRoots -> Renderer!Lifecycles]
      BY <1>1, <1>3 DEF RendererInv, RendererTyped
    <2> QED BY <2>1, <2>2, <1>1, <1>2 DEF RendererInv, RendererTyped
  <1>10. RequestsGrow
    BY <1>6, <1>8 DEF RequestsGrow, Grown
  <1>11. RequestsOk(s, nextSequence) /\ Predicts(s, Len(s) + 1, lifecycle[r])
    BY DEF RendererInv, RequestsChained
  <1>12. RequestsOk(t, nextSequence') /\ Predicts(t, Len(t) + 1, then)
    <2>1. \A i \in DOMAIN s : /\ t[i] = s[i] /\ s[i].sequence \in Nat
                              /\ s[i].sequence < nextSequence /\ i # Len(s) + 1
      <3>1. \A i \in DOMAIN s : s[i] \in Renderer!Request
        BY <1>2
      <3>2. \A i \in DOMAIN s : s[i].sequence \in Nat
        BY <3>1 DEF Renderer!Request
      <3> QED BY <3>2, <1>2, <1>6, <1>11 DEF Grown, RequestsOk
    <2>2. ASSUME NEW i \in 1 .. (Len(s) + 1), NEW status
          PROVE  Predicts(t, i, status) <=> Predicts(s, i, status)
      <3>1. \A j \in 1 .. (i - 1) : t[j] = s[j]
        BY <2>1, <1>2
      <3> QED BY <3>1 DEF Predicts
    <2>3. s = <<>> <=> Len(s) + 1 = 1
      BY <1>2
    <2>4. ASSUME NEW i \in DOMAIN t
          PROVE  /\ t[i].sequence < nextSequence'
                 /\ t[i].op = "create" <=> i = 1
                 /\ Predicts(t, i, t[i].before)
                 /\ t[i].after = Renderer!LifecycleAfter(t[i].op, t[i].before)
                 /\ t[i].outcome = Renderer!PredictedOutcome(t[i].op, t[i].before)
      <3>1. CASE i \in DOMAIN s
        BY <3>1, <2>1, <2>2, <1>1, <1>2, <1>11 DEF RequestsOk
      <3>2. CASE i = Len(s) + 1
        BY <3>2, <2>2, <2>3, <1>1, <1>2, <1>6, <1>7, <1>11 DEF Grown
      <3> QED BY <3>1, <3>2, <1>6 DEF Grown
    <2>5. ASSUME NEW i \in DOMAIN t, NEW j \in DOMAIN t, i < j
          PROVE  t[i].sequence < t[j].sequence
      <3>1. i \in DOMAIN s
        BY <2>5, <1>2, <1>6 DEF Grown
      <3>2. CASE j \in DOMAIN s
        BY <3>1, <3>2, <2>1, <2>5, <1>11 DEF RequestsOk
      <3>3. CASE j = Len(s) + 1
        BY <3>1, <3>3, <2>1, <1>6, <1>7 DEF Grown
      <3> QED BY <3>2, <3>3, <1>6 DEF Grown
    <2>6. Predicts(t, Len(t) + 1, then)
      <3>1. Len(t) = Len(s) + 1 /\ t[Len(s) + 1].op = op
        BY <1>6, <1>7 DEF Grown
      <3>2. (\E j \in 1 .. (Len(t) + 1 - 1) : t[j].op = "unmount")
              <=> op = "unmount" \/ \E j \in 1 .. (Len(s) + 1 - 1) : s[j].op = "unmount"
        BY <3>1, <2>1, <1>2, SMTT(30)
      <3>3. then # "None"
        BY <2>3, <1>2, <1>11 DEF Predicts, Renderer!LifecycleAfter
      <3>4. then = "UnmountScheduled" <=> op = "unmount" \/ lifecycle[r] = "UnmountScheduled"
        BY <2>3, <1>2, <1>11 DEF Predicts, Renderer!LifecycleAfter
      <3> QED BY <3>1, <3>2, <3>3, <3>4, <1>2, <1>11 DEF Predicts
    <2> QED BY <2>4, <2>5, <2>6 DEF RequestsOk
  <1>13. RequestsChained'
    <2>1. ASSUME NEW x \in TestRoots, x # r
          PROVE  RequestsOk(rootRequests[x], nextSequence + 1)
      <3>1. RequestsOk(rootRequests[x], nextSequence) /\ rootRequests[x] \in Seq(Renderer!Request)
        BY DEF RendererInv, RendererTyped, RequestsChained
      <3>2. \A i \in DOMAIN rootRequests[x] : rootRequests[x][i] \in Renderer!Request
        BY <3>1
      <3>3. \A i \in DOMAIN rootRequests[x] : rootRequests[x][i].sequence \in Nat
        BY <3>2 DEF Renderer!Request
      <3> QED BY <3>1, <3>3, <1>2 DEF RequestsOk
    <2> QED BY <2>1, <1>1, <1>8, <1>12 DEF RendererInv, RequestsChained
  <1>14. AnswersOk'
    <2> SUFFICES ASSUME NEW a \in answers PROVE AnswersRequest(a, rootRequests'[a.root])
      BY <1>1 DEF AnswersOk
    <2>1. AnswersRequest(a, rootRequests[a.root]) /\ a.root \in TestRoots
      BY DEF RendererInv, RendererTyped, AnswersOk, Renderer!Answer
    <2>2. CASE a.root # r
      BY <2>1, <2>2, <1>8
    <2>3. CASE a.root = r
      <3>1. a.sequence # nextSequence
        BY <2>1, <2>3, <1>2, <1>11 DEF AnswersRequest, RequestsOk
      <3>2. \A i \in DOMAIN t : t[i].sequence = a.sequence => i \in DOMAIN s /\ t[i] = s[i]
        BY <3>1, <1>6, <1>7 DEF Grown
      <3>3. \A i \in DOMAIN s : i \in DOMAIN t /\ t[i] = s[i]
        BY <1>6 DEF Grown
      <3>4. AnswersRequest(a, t)
        BY <3>2, <3>3, <2>1, <2>3 DEF AnswersRequest
      <3> QED BY <3>4, <2>3, <1>8
    <2> QED BY <2>2, <2>3
  <1>15. AnswersPlaced' /\ RustFollows'
    BY <1>1 DEF RendererInv, AnswersPlaced, RustFollows
  <1>16. RowsMatch' /\ EvidenceKept'
    BY <1>1, <1>10, RowsKept DEF RowsMatch
  <1> QED BY <1>9, <1>13, <1>14, <1>15, <1>16 DEF RendererInv

\* When exactly the requests before request i were executed, in whatever order and however often,
\* the Rust root has the lifecycle that the bridge predicted.
LEMMA InOrderStatus ==
  ASSUME RendererInv, NEW r \in TestRoots, NEW i \in DOMAIN rootRequests[r],
         Renderer!Executed(r) = {rootRequests[r][j].sequence : j \in 1 .. (i - 1)}
  PROVE  rust[r].lifecycle = rootRequests[r][i].before
  <1> DEFINE s == rootRequests[r]
             before == {s[j].sequence : j \in 1 .. (i - 1)}
  <1>1. s \in Seq(Renderer!Request) /\ RequestsOk(s, nextSequence) /\ i \in Nat
        /\ \A j \in 1 .. (i - 1) : j \in DOMAIN s
    BY DEF RendererInv, RendererTyped, RequestsChained
  <1>2. rust[r].lifecycle \in Renderer!Lifecycles
    BY DEF RendererInv, RendererTyped
  <1>3. s[i] \in Renderer!Request
    BY <1>1
  <1>4. s[i].before \in Renderer!Lifecycles
    BY <1>3 DEF Renderer!Request
  <1>5. Predicts(s, i, s[i].before)
    BY <1>1 DEF RequestsOk
  <1>6. \A n : n \in before <=> \E a \in answers : a.root = r /\ a.sequence = n
    BY DEF Renderer!Executed
  <1>7. \A a \in answers : a.root = r => \E k \in DOMAIN s : s[k].sequence = a.sequence /\ s[k].op = a.op
    BY DEF RendererInv, AnswersOk, AnswersRequest
  <1>8. rust[r].lifecycle = "None" <=> s[i].before = "None"
    <2>1. rust[r].lifecycle = "None" <=> \A a \in answers : a.root # r
      BY DEF RendererInv, RustFollows
    <2>2. i # 1 => s[1].sequence \in before
      BY <1>1
    <2>3. i = 1 => \A n : n \notin before
      OBVIOUS
    <2> HIDE DEF before
    <2>4. (\A a \in answers : a.root # r) <=> i = 1
      BY <2>2, <2>3, <1>6
    <2> QED BY <2>1, <2>4, <1>5 DEF Predicts
  <1>9. rust[r].lifecycle = "UnmountScheduled" <=> s[i].before = "UnmountScheduled"
    <2>1. ASSUME NEW a \in answers, a.root = r, a.op = "unmount"
          PROVE  \E j \in 1 .. (i - 1) : s[j].op = "unmount"
      <3>1. PICK k \in DOMAIN s : s[k].sequence = a.sequence /\ s[k].op = "unmount"
        BY <2>1, <1>7
      <3>2. PICK j \in 1 .. (i - 1) : s[j].sequence = a.sequence
        BY <2>1, <1>6
      <3>3. j = k
        BY <3>1, <3>2, <1>1, SequencesDiffer
      <3> QED BY <3>1, <3>3
    <2>2. ASSUME NEW j \in 1 .. (i - 1), s[j].op = "unmount"
          PROVE  \E a \in answers : a.root = r /\ a.op = "unmount"
      <3>1. PICK a \in answers : a.root = r /\ a.sequence = s[j].sequence
        BY <1>6
      <3>2. PICK k \in DOMAIN s : s[k].sequence = a.sequence /\ s[k].op = a.op
        BY <3>1, <1>7
      <3>3. j = k
        BY <3>1, <3>2, <1>1, SequencesDiffer
      <3> QED BY <2>2, <3>1, <3>2, <3>3
    <2>3. rust[r].lifecycle = "UnmountScheduled" <=> \E j \in 1 .. (i - 1) : s[j].op = "unmount"
      BY <2>1, <2>2 DEF RendererInv, RustFollows
    <2> QED BY <2>3, <1>5 DEF Predicts
  <1> QED BY <1>2, <1>4, <1>8, <1>9 DEF Renderer!Lifecycles

\* The log of the Rust root with or without a new entry.
Logged(log, old, outcome, sequence) ==
  /\ log \in Seq(Nat)
  /\ outcome = "Scheduled" => Grown(log, old, sequence)
  /\ outcome # "Scheduled" => log = old

\* A request is executed.
LEMMA ExecuteKeeps ==
  ASSUME RendererInv, NEW r \in TestRoots, NEW i \in DOMAIN rootRequests[r], NEW source \in BOOLEAN,
         Renderer!Execute(r, i, source)
  PROVE  RendererInv'
  <1> DEFINE s == rootRequests[r]
             q == s[i]
             status == rust[r].lifecycle
             old == rust[r].scheduled
             outcome == Renderer!RustOutcome(q.op, status)
             after == Renderer!RustAfter(q.op, status)
             log == IF outcome = "Scheduled" THEN Append(old, q.sequence) ELSE old
             flag == Renderer!Executed(r) = {s[j].sequence : j \in 1 .. (i - 1)}
             new == [root |-> r, sequence |-> q.sequence, op |-> q.op, before |-> status,
                     after |-> after, outcome |-> outcome, source |-> source,
                     position |-> Len(log), inOrder |-> flag]
             acted == [lifecycle |-> after, scheduled |-> log]
  <1>1. /\ q.op = "create" <=> status = "None"
        /\ rust' = [rust EXCEPT ![r] = acted] /\ answers' = answers \cup {new}
        /\ UNCHANGED <<nextSequence, rootRequests, lifecycle, rows, evidence>>
    BY DEF Renderer!Execute
  <1>2. s \in Seq(Renderer!Request) /\ RequestsOk(s, nextSequence)
    BY DEF RendererInv, RendererTyped, RequestsChained
  <1>3. q \in Renderer!Request
    BY <1>2
  <1>4. q.op \in Renderer!Operations /\ q.sequence \in Nat
    BY <1>3 DEF Renderer!Request
  <1>5. status \in Renderer!Lifecycles /\ old \in Seq(Nat)
    BY DEF RendererInv, RendererTyped
  <1>6. outcome \in Renderer!Outcomes /\ after \in Renderer!Lifecycles
    BY <1>5 DEF Renderer!RustOutcome, Renderer!RustAfter, Renderer!Outcomes, Renderer!Lifecycles
  <1>7. Logged(log, old, outcome, q.sequence)
    BY <1>4, <1>5, Appended DEF Logged
  <1>8. log \in Seq(Nat) /\ Len(log) \in Nat
    BY <1>7 DEF Logged
  <1>9. flag \in BOOLEAN
    OBVIOUS
  <1>10. flag => status = q.before
    BY InOrderStatus
  <1> HIDE DEF log, flag
  <1>11. new \in Renderer!Answer
    BY <1>4, <1>5, <1>6, <1>8, <1>9, Zenon DEF Renderer!Answer
  <1>12. /\ new.root = r /\ new.sequence = q.sequence /\ new.op = q.op /\ new.before = status
         /\ new.after = after /\ new.outcome = outcome /\ new.position = Len(log) /\ new.inOrder = flag
    BY Zenon
  <1> HIDE DEF new
  <1>13. acted \in [lifecycle : Renderer!Lifecycles, scheduled : Seq(Nat)]
         /\ acted.lifecycle = after /\ acted.scheduled = log
    BY <1>6, <1>8
  <1> HIDE DEF acted
  <1>14. /\ rust'[r].lifecycle = after /\ rust'[r].scheduled = log
         /\ \A x \in TestRoots : x # r => rust'[x] = rust[x]
    BY <1>1, <1>13 DEF RendererInv, RendererTyped
  <1>15. RendererTyped'
    <2>1. rust' \in [TestRoots -> [lifecycle : Renderer!Lifecycles, scheduled : Seq(Nat)]]
      BY <1>1, <1>13 DEF RendererInv, RendererTyped
    <2> QED BY <2>1, <1>1, <1>11 DEF RendererInv, RendererTyped
  <1>16. RequestsChained'
    BY <1>1 DEF RendererInv, RequestsChained
  <1>17. AnswersOk'
    <2>1. \A k \in DOMAIN s : s[k].sequence = q.sequence => k = i
      BY SequencesDiffer
    <2>2. new.inOrder => status = q.before
      BY <1>10, <1>12
    <2>3. AnswersRequest(new, s)
      BY <2>1, <2>2, <1>1, <1>12 DEF AnswersRequest
    <2> QED BY <2>3, <1>1, <1>12 DEF RendererInv, AnswersOk
  <1>o. /\ status = "Active" => outcome = "Scheduled"
        /\ status = "None" => q.op = "create" /\ outcome = "Scheduled" /\ after = "Active"
        /\ status = "UnmountScheduled" => outcome # "Scheduled" /\ after = "UnmountScheduled"
        /\ status = "Active" => after = (IF q.op = "unmount" THEN "UnmountScheduled" ELSE "Active")
    BY <1>1, <1>4, <1>5 DEF Renderer!RustOutcome, Renderer!RustAfter, Renderer!Operations, Renderer!Lifecycles
  <1>f. /\ status = "None" <=> \A a \in answers : a.root # r
        /\ status = "None" <=> old = <<>>
        /\ status = "UnmountScheduled" <=> \E a \in answers : a.root = r /\ a.op = "unmount"
    BY DEF RendererInv, RustFollows
  <1> HIDE DEF outcome, after, status, q, old
  <1>18. AnswersPlaced'
    <2>1. Placed(new, after, log)
      <3> SUFFICES ASSUME outcome = "Scheduled" PROVE Placed(new, after, log)
        BY <1>12 DEF Placed
      <3>1. Grown(log, old, q.sequence)
        BY <1>7 DEF Logged
      <3>2. Len(log) \in DOMAIN log /\ log[Len(log)] = q.sequence
        BY <3>1 DEF Grown
      <3>3. q.op = "create" => Len(log) = 1
        BY <3>1, <1>1, <1>f DEF Grown
      <3>4. q.op = "update" => Len(log) > 1 /\ after # "UnmountScheduled"
        <4> SUFFICES ASSUME q.op = "update" PROVE Len(log) > 1 /\ after # "UnmountScheduled"
          OBVIOUS
        <4>1. status = "Active"
          BY <1>1, <1>5, <1>o DEF Renderer!Lifecycles
        <4>2. Len(old) > 0
          BY <4>1, <1>5, <1>f
        <4> QED BY <4>1, <4>2, <3>1, <1>5, <1>o DEF Grown
      <3> QED BY <3>2, <3>3, <3>4, <1>12 DEF Placed
    <2>2. ASSUME NEW a \in answers, a.root = r
          PROVE  Placed(a, after, log)
      <3> SUFFICES ASSUME a.outcome = "Scheduled" PROVE Placed(a, after, log)
        BY DEF Placed
      <3>1. Placed(a, status, old)
        BY <2>2 DEF RendererInv, AnswersPlaced, status, old
      <3>2. CASE status = "UnmountScheduled"
        <4>1. log = old /\ after = status
          BY <3>2, <1>7, <1>o DEF Logged
        <4> QED BY <4>1, <3>1
      <3>3. CASE status = "Active"
        <4>1. Grown(log, old, q.sequence)
          BY <3>3, <1>7, <1>o DEF Logged
        <4>2. a.op # "unmount"
          BY <3>3, <2>2, <1>f
        <4>3. a.position \in DOMAIN old
          BY <3>1 DEF Placed
        <4>4. a.position \in DOMAIN log /\ log[a.position] = old[a.position] /\ a.position < Len(log)
          BY <4>1, <4>3, <1>5 DEF Grown
        <4> QED BY <4>2, <4>4, <3>1 DEF Placed
      <3>4. status # "None"
        BY <2>2, <1>f
      <3> QED BY <3>2, <3>3, <3>4, <1>5 DEF Renderer!Lifecycles
    <2>3. ASSUME NEW a \in answers, a.root # r
          PROVE  Placed(a, rust'[a.root].lifecycle, rust'[a.root].scheduled)
      <3>1. a.root \in TestRoots
        BY DEF RendererInv, RendererTyped, Renderer!Answer
      <3> QED BY <3>1, <2>3, <1>14 DEF RendererInv, AnswersPlaced
    <2>4. \A a \in answers' : Placed(a, rust'[a.root].lifecycle, rust'[a.root].scheduled)
      BY <2>1, <2>2, <2>3, <1>1, <1>12, <1>14
    <2> QED BY <2>4 DEF AnswersPlaced
  <1>19. RustFollows'
    <2>1. new \in answers' /\ new.root = r /\ new.op = q.op /\ answers' = answers \cup {new}
      BY <1>1, <1>12
    <2>2. after # "None" /\ log # <<>>
      <3>1. CASE status = "UnmountScheduled"
        BY <3>1, <1>7, <1>o, <1>f DEF Logged
      <3>2. CASE outcome = "Scheduled" /\ after # "None"
        <4>1. Len(log) = Len(old) + 1 /\ Len(old) \in Nat
          BY <3>2, <1>5, <1>7 DEF Logged, Grown
        <4> QED BY <3>2, <4>1
      <3> QED BY <3>1, <3>2, <1>5, <1>o DEF Renderer!Lifecycles
    <2>3. after = "UnmountScheduled" <=> \E a \in answers' : a.root = r /\ a.op = "unmount"
      <3>1. (\E a \in answers' : a.root = r /\ a.op = "unmount")
              <=> q.op = "unmount" \/ status = "UnmountScheduled"
        BY <2>1, <1>f
      <3>2. after = "UnmountScheduled" <=> q.op = "unmount" \/ status = "UnmountScheduled"
        BY <1>1, <1>5, <1>o DEF Renderer!Lifecycles
      <3> QED BY <3>1, <3>2
    <2>4. ASSUME NEW x \in TestRoots, x # r
          PROVE  /\ rust'[x].lifecycle = "None" <=> \A a \in answers' : a.root # x
                 /\ rust'[x].lifecycle = "None" <=> rust'[x].scheduled = <<>>
                 /\ rust'[x].lifecycle = "UnmountScheduled" <=>
                      \E a \in answers' : a.root = x /\ a.op = "unmount"
      BY <2>1, <2>4, <1>14 DEF RendererInv, RustFollows
    <2> QED BY <2>1, <2>2, <2>3, <2>4, <1>14 DEF RustFollows
  <1>20. RequestsGrow
    BY <1>1 DEF RequestsGrow
  <1>21. RowsMatch' /\ EvidenceKept'
    BY <1>1, <1>20, RowsKept DEF RowsMatch
  <1> QED BY <1>15, <1>16, <1>17, <1>18, <1>19, <1>21 DEF RendererInv

\* An answer is accepted for a request.
LEMMA ConsumeKeeps ==
  ASSUME RendererInv, NEW r \in TestRoots, NEW i, NEW a \in answers,
         Renderer!ConsumeRootExecutionResult(r, i, a)
  PROVE  RendererInv'
  <1> DEFINE new == [root |-> r, index |-> i, source |-> a.source, answer |-> a]
             q == rootRequests[r][i]
  <1>1. /\ i \in 1 .. Len(rootRequests[r]) /\ Renderer!MatchesRequest(q, a)
        /\ a.source => Renderer!SourceAccepted(r, q, a)
        /\ rows' = rows \cup {new}
        /\ UNCHANGED <<nextSequence, rootRequests, lifecycle, rust, answers, evidence>>
    BY DEF Renderer!ConsumeRootExecutionResult
  <1>2. rootRequests[r] \in Seq(Renderer!Request) /\ a \in Renderer!Answer
    BY DEF RendererInv, RendererTyped
  <1>3. a.source \in BOOLEAN
    BY <1>2 DEF Renderer!Answer
  <1>4. new \in Renderer!Row
    BY <1>1, <1>2, <1>3 DEF Renderer!Row
  <1>5. new.root = r /\ new.index = i /\ new.source = a.source /\ new.answer = a
    BY Zenon
  <1>6. i \in DOMAIN rootRequests[r] /\ q.op \in Renderer!Operations
    <2>1. i \in DOMAIN rootRequests[r] /\ q \in Renderer!Request
      BY <1>1, <1>2
    <2> QED BY <2>1 DEF Renderer!Request
  <1>7. a.source => a.root = r /\ a.sequence = q.sequence
    BY <1>1, <1>6
    DEF Renderer!SourceAccepted, Renderer!CreateHandoffAccepted, Renderer!UpdateAdmissionAccepted,
        Renderer!UnmountAdmissionAccepted, Renderer!NamesRequest, Renderer!Operations
  <1> HIDE DEF new
  <1>8. RequestsGrow /\ rows \subseteq rows'
    BY <1>1 DEF RequestsGrow
  <1>9. \A row \in rows : RowOk(row)'
    BY <1>1, <1>8, RowsKept
  <1>10. RowOk(new)'
    <2>1. Renderer!RequestOf(new)' = q
      BY <1>1, <1>5 DEF Renderer!RequestOf
    <2>2. new.index \in DOMAIN rootRequests'[new.root] /\ new.answer \in answers'
      BY <1>1, <1>5, <1>6
    <2>3. Renderer!MatchesRequest(q, new.answer)
      BY <1>1, <1>5
    <2>4. new.source => new.answer.root = new.root /\ new.answer.sequence = q.sequence
      BY <1>5, <1>7
    <2> QED BY <2>1, <2>2, <2>3, <2>4 DEF RowOk
  <1>11. RowsMatch' /\ EvidenceKept'
    BY <1>1, <1>8, <1>9, <1>10, RowsKept DEF RowsMatch
  <1>12. RendererTyped' /\ RequestsChained' /\ AnswersOk' /\ AnswersPlaced' /\ RustFollows'
    BY <1>1, <1>4 DEF RendererInv, RendererTyped, RequestsChained, AnswersOk, AnswersPlaced, RustFollows
  <1> QED BY <1>11, <1>12 DEF RendererInv

\* Three rows become evidence.
LEMMA EvidenceKeeps ==
  ASSUME RendererInv, NEW c \in rows, NEW u \in rows, NEW m \in rows,
         Renderer!ConsumeLifecycleEvidence(c, u, m)
  PROVE  RendererInv'
  <1> DEFINE r == c.root
             e == [create |-> c, update |-> u, unmount |-> m]
  <1>1. /\ Renderer!SourceOwned(c, "create") /\ Renderer!SourceOwned(u, "update")
        /\ Renderer!SourceOwned(m, "unmount") /\ Renderer!ShareOwner(c, u, m)
        /\ Renderer!RowsAreCurrent(c, u, m) /\ c.source /\ u.source /\ m.source
        /\ evidence' = [evidence EXCEPT ![r] = e]
        /\ UNCHANGED <<nextSequence, rootRequests, lifecycle, rust, answers, rows>>
    BY DEF Renderer!ConsumeLifecycleEvidence
  <1>2. r \in TestRoots /\ e \in TestEvidence /\ e.create = c /\ e.update = u /\ e.unmount = m
    BY DEF RendererInv, RendererTyped, TestEvidence, Renderer!Row
  <1> HIDE DEF e
  <1>3. evidence'[r] = e /\ \A x \in TestRoots : x # r => evidence'[x] = evidence[x]
    BY <1>1, <1>2 DEF RendererInv, RendererTyped
  <1>4. EvidenceOk(r, e)
    BY <1>1, <1>2
    DEF EvidenceOk, EvidenceRow, Renderer!SourceOwned, Renderer!Scheduled, Renderer!ShareOwner,
        Renderer!RowsAreCurrent
  <1>5. \A x \in TestRoots : \A f : EvidenceOk(x, f)' <=> EvidenceOk(x, f)
    BY <1>1 DEF EvidenceOk, EvidenceRow, Renderer!RequestOf, Renderer!LatestUpdateBefore
  <1>6. EvidenceKept'
    BY <1>2, <1>3, <1>4, <1>5 DEF RendererInv, EvidenceKept
  <1>7. RendererTyped'
    BY <1>1, <1>2 DEF RendererInv, RendererTyped
  <1>8. RequestsChained' /\ AnswersOk' /\ AnswersPlaced' /\ RustFollows' /\ RowsMatch'
    BY <1>1 DEF RendererInv, RequestsChained, AnswersOk, AnswersPlaced, RustFollows, RowsMatch, RowOk,
                Renderer!RequestOf
  <1> QED BY <1>6, <1>7, <1>8 DEF RendererInv

\* The invariant of the bridge of the test renderer.
LEMMA RendererInvHolds == Renderer!Spec => []RendererInv
  <1>1. Renderer!Init => RendererInv
    <2> SUFFICES ASSUME Renderer!Init PROVE RendererInv
      OBVIOUS
    <2>1. RendererTyped
      BY DEF Renderer!Init, RendererTyped, Renderer!Lifecycles, Renderer!NoEvidence
    <2>2. RequestsChained
      <3>1. \A r \in TestRoots : rootRequests[r] = <<>> /\ lifecycle[r] = "None" /\ Len(<<>>) = 0
        BY DEF Renderer!Init
      <3>2. \A r \in TestRoots : RequestsOk(rootRequests[r], nextSequence)
        BY <3>1 DEF RequestsOk
      <3>3. \A r \in TestRoots : Predicts(rootRequests[r], Len(rootRequests[r]) + 1, lifecycle[r])
        BY <3>1 DEF Predicts
      <3> QED BY <3>2, <3>3 DEF RequestsChained
    <2>3. AnswersOk /\ AnswersPlaced /\ RustFollows /\ RowsMatch /\ EvidenceKept
      BY DEF Renderer!Init, AnswersOk, AnswersPlaced, RustFollows, RowsMatch, EvidenceKept, Renderer!NoEvidence
    <2> QED BY <2>1, <2>2, <2>3 DEF RendererInv
  <1>2. RendererInv /\ [Renderer!Next]_(Renderer!vars) => RendererInv'
    <2> SUFFICES ASSUME RendererInv, [Renderer!Next]_(Renderer!vars) PROVE RendererInv'
      OBVIOUS
    <2>1. CASE UNCHANGED Renderer!vars
      <3>1. UNCHANGED <<nextSequence, rootRequests, lifecycle, rust, answers, rows, evidence>>
        BY <2>1 DEF Renderer!vars
      <3>2. RequestsGrow
        BY <3>1 DEF RequestsGrow
      <3>3. RowsMatch' /\ EvidenceKept'
        BY <3>1, <3>2, RowsKept DEF RowsMatch
      <3> QED BY <3>1, <3>3 DEF RendererInv, RendererTyped, RequestsChained, AnswersOk, AnswersPlaced,
                                RustFollows
    <2>2. ASSUME NEW r \in TestRoots, NEW ready \in BOOLEAN, Renderer!CreateRootRequest(r, ready)
          PROVE  RendererInv'
      <3>1. rootRequests[r] = <<>> /\ Renderer!MakeRequest(r, "create", ready)
        BY <2>2 DEF Renderer!CreateRootRequest
      <3> QED BY <3>1, RequestKeeps DEF Renderer!Operations
    <2>3. ASSUME NEW r \in TestRoots, Renderer!UpdateRootRequest(r) \/ Renderer!UnmountRootRequest(r)
          PROVE  RendererInv'
      <3>1. PICK op \in {"update", "unmount"} : rootRequests[r] # <<>> /\ Renderer!MakeRequest(r, op, TRUE)
        BY <2>3 DEF Renderer!UpdateRootRequest, Renderer!UnmountRootRequest
      <3> QED BY <3>1, RequestKeeps DEF Renderer!Operations
    <2>4. ASSUME NEW r \in TestRoots, NEW i, NEW source \in BOOLEAN,
                 Renderer!ExecuteRootRequest(r, i, source)
          PROVE  RendererInv'
      <3>1. i \in 1 .. Len(rootRequests[r]) /\ Renderer!Execute(r, i, source)
        BY <2>4 DEF Renderer!ExecuteRootRequest
      <3>2. i \in DOMAIN rootRequests[r]
        BY <3>1 DEF RendererInv, RendererTyped
      <3> QED BY <3>1, <3>2, ExecuteKeeps
    <2> QED BY <2>1, <2>2, <2>3, <2>4, ConsumeKeeps, EvidenceKeeps DEF Renderer!Next
  <1> QED BY <1>1, <1>2, PTL DEF Renderer!Spec

\* Lifecycle evidence tells what the Rust root did and its readers decide alike, whatever answers
\* were lost, repeated, reordered or offered for other requests (react-test-renderer/index.js).
THEOREM EvidenceTells == Renderer!Spec => []EvidenceIsTrue
  BY RendererInvHolds, RendererInvTells, PTL

-----------------------------------------------------------------------------
(***************************************************************************)
(* The three of them together                                              *)
(***************************************************************************)

\* What TLC explores is a behaviour of each of the three parts.
LEMMA RecordsAreParts == RecordsSpec => Spec /\ Restore!Spec /\ Renderer!Spec
  <1> DEFINE RecordsNext == FormsNext \/ RestoreNext \/ RendererNext
             all == <<vars, restoreVars, rendererVars, part>>
  <1>1. RecordsInit => Init /\ Restore!Init /\ Renderer!Init
    BY DEF RecordsInit
  <1>2. [RecordsNext]_all => [Next]_vars
    BY DEF FormsNext, RestoreNext, RendererNext
  <1>3. [RecordsNext]_all => [Restore!Next]_(Restore!vars)
    <2>1. UNCHANGED restoreVars => UNCHANGED Restore!vars
      BY DEF restoreVars, Restore!vars
    <2> QED BY <2>1 DEF FormsNext, RestoreNext, RendererNext
  <1>4. [RecordsNext]_all => [Renderer!Next]_(Renderer!vars)
    <2>1. UNCHANGED rendererVars => UNCHANGED Renderer!vars
      BY DEF rendererVars, Renderer!vars
    <2> QED BY <2>1 DEF FormsNext, RestoreNext, RendererNext
  <1> QED BY <1>1, <1>2, <1>3, <1>4, PTL DEF RecordsSpec, Spec, Restore!Spec, Renderer!Spec

\* In what TLC explores no record outlives what it was checked against: a root takes the
\* result of a form action only for the render it belongs to, a restore stands for one edit and
\* undoes no render, and lifecycle evidence tells what the Rust root did (form-actions.js,
\* controlled-restore-queue.js, react-test-renderer/index.js).
THEOREM RecordsStayTrue ==
  RecordsSpec => []EvidenceIsTrue /\ TakenIsCurrent /\ RestoresOneEdit
  BY RecordsAreParts, TakesAreCurrent, RestoresAreOneEdit, EvidenceTells, PTL

=============================================================================
