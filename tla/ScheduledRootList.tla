------------------------- MODULE ScheduledRootList -------------------------
(***************************************************************************)
(* What the list of scheduled roots promises: a first-in first-out order    *)
(* without duplicates, from which single roots may be dropped.              *)
(***************************************************************************)
EXTENDS Integers, Sequences

CONSTANT Root

VARIABLE order

Contains(r) == \E i \in DOMAIN order : order[i] = r

Init == order = <<>>

Schedule(r) ==
  /\ ~ Contains(r)
  /\ order' = Append(order, r)

Drop(i) == order' = SubSeq(order, 1, i - 1) \o SubSeq(order, i + 1, Len(order))

Next == (\E r \in Root : Schedule(r)) \/ (\E i \in DOMAIN order : Drop(i))

Spec == Init /\ [][Next]_order
=============================================================================
