-------------------------- MODULE ReconcilerProofs --------------------------
(***************************************************************************)
(* Proofs about HostRoot and RootScheduler, for every set of lanes, every   *)
(* input set, every finite set of roots and every number of updates and     *)
(* renders.                                                                 *)
(***************************************************************************)
EXTENDS HostRoot, RootScheduler, RootLaneStateProofs, FiniteSetTheorems, SequenceTheorems

-----------------------------------------------------------------------------
(***************************************************************************)
(* The update queue.                                                        *)
(***************************************************************************)
HostUpdates == [id : Nat, lanes : SUBSET Lane, callback : BOOLEAN]

HostQueues ==
  [baseState : Seq(Nat), base : Seq(HostUpdates), pending : Seq(HostUpdates),
   lanes : SUBSET Lane, callbacks : Seq(Nat)]

\* The ids of a sequence of updates.
LEMMA IdsTyped ==
  ASSUME NEW u \in Seq(HostUpdates)
  PROVE  /\ Ids(u) \in Seq(Nat) /\ Len(Ids(u)) = Len(u)
         /\ \A i \in 1..Len(u) : Ids(u)[i] = u[i].id
         /\ LanesOf(u) \in SUBSET Lane
<1>1. DOMAIN u = 1..Len(u) /\ \A i \in 1..Len(u) : u[i] \in HostUpdates
  OBVIOUS
<1>2. Ids(u) = [i \in 1..Len(u) |-> u[i].id]
  BY <1>1 DEF Ids
<1>3. \A i \in 1..Len(u) : u[i].id \in Nat /\ u[i].lanes \in SUBSET Lane
  BY <1>1 DEF HostUpdates
<1> QED BY <1>1, <1>2, <1>3 DEF LanesOf

\* A concatenation, element by element.
LEMMA ConcatElements ==
  ASSUME NEW S, NEW a \in Seq(S), NEW b \in Seq(S)
  PROVE  /\ a \o b \in Seq(S) /\ Len(a \o b) = Len(a) + Len(b)
         /\ Len(a) \in Nat /\ Len(b) \in Nat
         /\ \A i \in 1..Len(a) : (a \o b)[i] = a[i] /\ i \in 1..Len(a \o b)
         /\ \A j \in 1..Len(b) : (a \o b)[Len(a) + j] = b[j] /\ Len(a) + j \in 1..Len(a \o b)
         /\ \A i \in 1..Len(a \o b) : \/ i \in 1..Len(a) /\ (a \o b)[i] = a[i]
                                      \/ i - Len(a) \in 1..Len(b) /\ (a \o b)[i] = b[i - Len(a)]
<1> DEFINE c == a \o b
<1>1. /\ c \in Seq(S) /\ Len(c) = Len(a) + Len(b)
      /\ \A i \in 1..Len(a) + Len(b) : c[i] = IF i <= Len(a) THEN a[i] ELSE b[i - Len(a)]
  BY ConcatProperties, Zenon
<1>2. Len(a) \in Nat /\ Len(b) \in Nat
  OBVIOUS
<1> HIDE DEF c
<1>3. ASSUME NEW i \in 1..Len(a) PROVE c[i] = a[i] /\ i \in 1..Len(c)
  BY <1>1, <1>2
<1>4. ASSUME NEW j \in 1..Len(b) PROVE c[Len(a) + j] = b[j] /\ Len(a) + j \in 1..Len(c)
  <2>1. Len(a) + j \in 1..Len(a) + Len(b) /\ ~ (Len(a) + j <= Len(a)) /\ (Len(a) + j) - Len(a) = j
    BY <1>2
  <2>2. c[Len(a) + j] = b[(Len(a) + j) - Len(a)]
    BY <2>1, <1>1
  <2> QED BY <2>1, <2>2, <1>1
<1>5. ASSUME NEW i \in 1..Len(c)
      PROVE  \/ i \in 1..Len(a) /\ c[i] = a[i]
             \/ i - Len(a) \in 1..Len(b) /\ c[i] = b[i - Len(a)]
  BY <1>1, <1>2
<1> QED BY <1>1, <1>2, <1>3, <1>4, <1>5 DEF c

\* The same for sequences of ids.
LEMMA ConcatIds ==
  ASSUME NEW p \in Seq(Nat), NEW r \in Seq(Nat)
  PROVE  /\ p \o r \in Seq(Nat) /\ Len(p \o r) = Len(p) + Len(r)
         /\ \A i \in 1..Len(p \o r) : \/ i \in 1..Len(p) /\ (p \o r)[i] = p[i]
                                      \/ i - Len(p) \in 1..Len(r) /\ (p \o r)[i] = r[i - Len(p)]
  BY ConcatElements, SMTT(30)

\* Concatenating ids is associative.
LEMMA ConcatIdsAssociative ==
  ASSUME NEW p \in Seq(Nat), NEW r \in Seq(Nat), NEW t \in Seq(Nat)
  PROVE  (p \o r) \o t = p \o (r \o t)
  BY ConcatAssociative, SMTT(30)

\* The lanes and the ids of a concatenation.
LEMMA ConcatUpdates ==
  ASSUME NEW a \in Seq(HostUpdates), NEW b \in Seq(HostUpdates)
  PROVE  /\ a \o b \in Seq(HostUpdates)
         /\ LanesOf(a \o b) = LanesOf(a) \cup LanesOf(b)
         /\ Ids(a \o b) = Ids(a) \o Ids(b)
<1> DEFINE c == a \o b
<1>1. /\ c \in Seq(HostUpdates) /\ Len(c) = Len(a) + Len(b)
      /\ Len(a) \in Nat /\ Len(b) \in Nat
      /\ \A i \in 1..Len(a) : c[i] = a[i] /\ i \in 1..Len(c)
      /\ \A j \in 1..Len(b) : c[Len(a) + j] = b[j] /\ Len(a) + j \in 1..Len(c)
      /\ \A i \in 1..Len(c) : \/ i \in 1..Len(a) /\ c[i] = a[i]
                              \/ i - Len(a) \in 1..Len(b) /\ c[i] = b[i - Len(a)]
  BY ConcatElements
<1>2. DOMAIN a = 1..Len(a) /\ DOMAIN b = 1..Len(b) /\ DOMAIN c = 1..Len(c)
  BY <1>1
<1> HIDE DEF c
<1>3. LanesOf(c) = LanesOf(a) \cup LanesOf(b)
  <2>1. ASSUME NEW l \in LanesOf(c) PROVE l \in LanesOf(a) \cup LanesOf(b)
    BY <1>1, <1>2 DEF LanesOf
  <2>2. ASSUME NEW l \in LanesOf(a) PROVE l \in LanesOf(c)
    <3>1. PICK i \in 1..Len(a) : l \in a[i].lanes
      BY <1>2 DEF LanesOf
    <3>2. i \in DOMAIN c /\ l \in c[i].lanes
      BY <3>1, <1>1, <1>2
    <3> QED BY <3>2 DEF LanesOf
  <2>3. ASSUME NEW l \in LanesOf(b) PROVE l \in LanesOf(c)
    <3>1. PICK j \in 1..Len(b) : l \in b[j].lanes
      BY <1>2 DEF LanesOf
    <3>2. Len(a) + j \in DOMAIN c /\ l \in c[Len(a) + j].lanes
      BY <3>1, <1>1, <1>2
    <3> QED BY <3>2 DEF LanesOf
  <2> QED BY <2>1, <2>2, <2>3
<1>4. Ids(c) = Ids(a) \o Ids(b)
  <2> DEFINE x == Ids(a)
             y == Ids(b)
             z == Ids(c)
             w == x \o y
  <2>1. /\ x \in Seq(Nat) /\ Len(x) = Len(a) /\ \A i \in 1..Len(a) : x[i] = a[i].id
        /\ y \in Seq(Nat) /\ Len(y) = Len(b) /\ \A i \in 1..Len(b) : y[i] = b[i].id
        /\ z \in Seq(Nat) /\ Len(z) = Len(c) /\ \A i \in 1..Len(c) : z[i] = c[i].id
    BY <1>1, IdsTyped
  <2> HIDE DEF x, y, z
  <2>2. /\ w \in Seq(Nat) /\ Len(w) = Len(x) + Len(y)
        /\ \A i \in 1..Len(w) : \/ i \in 1..Len(x) /\ w[i] = x[i]
                                \/ i - Len(x) \in 1..Len(y) /\ w[i] = y[i - Len(x)]
    <3>1. x \in Seq(Nat) /\ y \in Seq(Nat)
      BY <2>1
    <3> QED BY <3>1, ConcatIds, Zenon
  <2> HIDE DEF w
  <2>3. Len(w) = Len(z) /\ Len(z) = Len(c)
    BY <2>1, <2>2, <1>1
  <2>4. ASSUME NEW i \in 1..Len(z) PROVE z[i] = w[i]
    <3>1. i \in 1..Len(c) /\ i \in 1..Len(w) /\ z[i] = c[i].id
      BY <2>1, <2>3
    <3>2. CASE i \in 1..Len(a)
      <4>1. i - Len(x) \notin 1..Len(y)
        BY <3>2, <2>1, <1>1
      <4> QED BY <3>1, <3>2, <4>1, <2>1, <2>2, <1>1
    <3>3. CASE i \notin 1..Len(a)
      <4>1. i - Len(a) \in 1..Len(b) /\ c[i] = b[i - Len(a)]
        BY <3>1, <3>3, <1>1
      <4>2. w[i] = y[i - Len(a)]
        BY <3>1, <3>3, <2>1, <2>2
      <4> QED BY <3>1, <4>1, <4>2, <2>1
    <3> QED BY <3>2, <3>3
  <2>5. z = w
    BY <2>1, <2>2, <2>3, <2>4, SeqEqual
  <2> QED BY <2>5 DEF x, y, z, w
<1> QED BY <1>1, <1>3, <1>4 DEF c

\* When a concatenation is in insertion order.
LEMMA ConcatInOrder ==
  ASSUME NEW a \in Seq(Nat), NEW b \in Seq(Nat)
  PROVE  InInsertionOrder(a \o b) <=>
           /\ InInsertionOrder(a) /\ InInsertionOrder(b)
           /\ \A i \in 1..Len(a), j \in 1..Len(b) : a[i] < b[j]
<1> DEFINE c == a \o b
<1>1. /\ c \in Seq(Nat) /\ Len(c) = Len(a) + Len(b)
      /\ Len(a) \in Nat /\ Len(b) \in Nat
      /\ \A i \in 1..Len(a) : c[i] = a[i] /\ i \in 1..Len(c)
      /\ \A j \in 1..Len(b) : c[Len(a) + j] = b[j] /\ Len(a) + j \in 1..Len(c)
      /\ \A i \in 1..Len(c) : \/ i \in 1..Len(a) /\ c[i] = a[i]
                              \/ i - Len(a) \in 1..Len(b) /\ c[i] = b[i - Len(a)]
  BY ConcatElements
<1>2. DOMAIN a = 1..Len(a) /\ DOMAIN b = 1..Len(b) /\ DOMAIN c = 1..Len(c)
  BY <1>1
<1> HIDE DEF c
<1>3. ASSUME InInsertionOrder(c)
      PROVE  /\ InInsertionOrder(a) /\ InInsertionOrder(b)
             /\ \A i \in 1..Len(a), j \in 1..Len(b) : a[i] < b[j]
  <2>1. InInsertionOrder(a)
    BY <1>1, <1>2, <1>3 DEF InInsertionOrder
  <2>2. ASSUME NEW i \in 1..Len(b), NEW j \in 1..Len(b), i < j PROVE b[i] < b[j]
    <3>1. Len(a) + i < Len(a) + j
      BY <2>2, <1>1
    <3>2. /\ Len(a) + i \in DOMAIN c /\ Len(a) + j \in DOMAIN c
          /\ c[Len(a) + i] = b[i] /\ c[Len(a) + j] = b[j]
      BY <1>1, <1>2
    <3>3. c[Len(a) + i] < c[Len(a) + j]
      BY <3>1, <3>2, <1>3 DEF InInsertionOrder
    <3> QED BY <3>2, <3>3
  <2>3. ASSUME NEW i \in 1..Len(a), NEW j \in 1..Len(b) PROVE a[i] < b[j]
    <3>1. i < Len(a) + j
      BY <1>1
    <3> QED BY <3>1, <1>1, <1>2, <1>3 DEF InInsertionOrder
  <2> QED BY <2>1, <2>2, <2>3, <1>2 DEF InInsertionOrder
<1>4. ASSUME InInsertionOrder(a), InInsertionOrder(b),
             \A i \in 1..Len(a), j \in 1..Len(b) : a[i] < b[j]
      PROVE  InInsertionOrder(c)
  <2> SUFFICES ASSUME NEW i \in 1..Len(c), NEW j \in 1..Len(c), i < j PROVE c[i] < c[j]
    BY <1>2 DEF InInsertionOrder
  <2>1. CASE i \in 1..Len(a) /\ j \in 1..Len(a)
    BY <2>1, <1>1, <1>2, <1>4 DEF InInsertionOrder
  <2>2. CASE i \in 1..Len(a) /\ j - Len(a) \in 1..Len(b)
    <3>1. j \notin 1..Len(a)
      BY <2>2, <1>1
    <3>2. c[i] = a[i] /\ c[j] = b[j - Len(a)]
      BY <2>2, <3>1, <1>1
    <3> QED BY <2>2, <3>2, <1>4
  <2>3. CASE i - Len(a) \in 1..Len(b) /\ j - Len(a) \in 1..Len(b)
    <3>1. i - Len(a) < j - Len(a) /\ i \notin 1..Len(a) /\ j \notin 1..Len(a)
      BY <2>3, <1>1
    <3> QED BY <2>3, <3>1, <1>1, <1>2, <1>4 DEF InInsertionOrder
  <2> QED BY <2>1, <2>2, <2>3, <1>1
<1> QED BY <1>3, <1>4 DEF c

(***************************************************************************)
(* What UpdatesAt returns, by induction on the places it has looked at (no  *)
(* place is the least at which it goes wrong).                              *)
(***************************************************************************)
Takes(u, P, c) ==
  /\ \A k \in 1..Len(c) : \E i \in P : c[k] = u[i]
  /\ \A i \in P : \E k \in 1..Len(c) : c[k] = u[i]
  /\ \A j, k \in 1..Len(c) : j < k => \E a, b \in P : a < b /\ c[j] = u[a] /\ c[k] = u[b]

\* One more place.
LEMMA TakesOneMore ==
  ASSUME NEW U, NEW u \in Seq(U), NEW n \in 1..Len(u), NEW P, P \subseteq 1..(n - 1),
         NEW c \in Seq(U), Takes(u, P, c)
  PROVE  Append(c, u[n]) \in Seq(U) /\ Takes(u, P \cup {n}, Append(c, u[n]))
<1> DEFINE d == Append(c, u[n])
<1>1. u[n] \in U /\ Len(c) \in Nat /\ n \in Nat /\ \A i \in P : i \in Nat /\ i < n
  OBVIOUS
<1>2. /\ d \in Seq(U) /\ Len(d) = Len(c) + 1 /\ d[Len(c) + 1] = u[n]
      /\ \A k \in 1..Len(c) : d[k] = c[k]
  BY <1>1, AppendProperties
<1> HIDE DEF d
<1>3. ASSUME NEW k \in 1..Len(d) PROVE \E i \in P \cup {n} : d[k] = u[i]
  <2>1. CASE k \in 1..Len(c)
    <3>1. PICK i \in P : c[k] = u[i]
      BY <2>1 DEF Takes
    <3>2. d[k] = c[k]
      BY <2>1, <1>2
    <3> QED BY <3>1, <3>2
  <2>2. CASE k = Len(c) + 1
    BY <2>2, <1>2
  <2> QED BY <2>1, <2>2, <1>1, <1>2
<1>4. ASSUME NEW i \in P \cup {n} PROVE \E k \in 1..Len(d) : d[k] = u[i]
  <2>1. CASE i \in P
    <3>1. PICK k \in 1..Len(c) : c[k] = u[i]
      BY <2>1 DEF Takes
    <3>2. k \in 1..Len(d) /\ d[k] = u[i]
      BY <3>1, <1>1, <1>2
    <3> QED BY <3>2
  <2>2. CASE i = n
    BY <2>2, <1>1, <1>2
  <2> QED BY <2>1, <2>2
<1>5. ASSUME NEW j \in 1..Len(d), NEW k \in 1..Len(d), j < k
      PROVE  \E a, b \in P \cup {n} : a < b /\ d[j] = u[a] /\ d[k] = u[b]
  <2>1. j \in 1..Len(c) /\ d[j] = c[j]
    BY <1>1, <1>2, <1>5
  <2>2. CASE k \in 1..Len(c)
    <3>1. d[k] = c[k]
      BY <2>2, <1>2
    <3>2. PICK a \in P, b \in P : a < b /\ c[j] = u[a] /\ c[k] = u[b]
      BY <2>1, <2>2, <1>5 DEF Takes
    <3> QED BY <2>1, <3>1, <3>2
  <2>3. CASE k = Len(c) + 1
    <3>1. PICK a \in P : c[j] = u[a]
      BY <2>1 DEF Takes
    <3>2. a < n /\ d[k] = u[n]
      BY <2>3, <1>1, <1>2
    <3> QED BY <2>1, <3>1, <3>2
  <2> QED BY <2>2, <2>3, <1>1, <1>2
<1>6. Takes(u, P \cup {n}, d)
  BY <1>3, <1>4, <1>5 DEF Takes
<1> QED BY <1>2, <1>6 DEF d

\* UpdatesAt returns the updates at the given places, in their order.
LEMMA UpdatesAtIs ==
  ASSUME NEW U, NEW u \in Seq(U), NEW P \in SUBSET (1..Len(u))
  PROVE  UpdatesAt(u, P) \in Seq(U) /\ Takes(u, P, UpdatesAt(u, P))
<1> DEFINE N == Len(u)
           F(g, n) == IF n = 0 THEN <<>>
                      ELSE IF n \in P THEN Append(g[n - 1], u[n]) ELSE g[n - 1]
           Solves(g, n) == g = [m \in 0..n |-> F(g, m)]
           W == CHOOSE g : g = [m \in 0..N |-> F(g, m)]
           Good(n) == W[n] \in Seq(U) /\ Takes(u, P \cap (1..n), W[n])
<1>1. N \in Nat
  OBVIOUS
<1>2. \A n \in 0..N : \E g : Solves(g, n)
  <2> DEFINE T == {n \in 0..N : ~ \E g : Solves(g, n)}
  <2> SUFFICES ASSUME T # {} PROVE FALSE
    OBVIOUS
  <2>1. T \subseteq Nat
    BY <1>1
  <2>2. PICK l \in T : \A k \in T : ~ (<<k, l>> \in OpToRel(<, Nat))
    BY <2>1, WFMin, NatLessThanWellFounded
  <2>3. \A k \in T : ~ (k < l)
    BY <2>1, <2>2, Zenon DEF OpToRel
  <2>4. CASE l = 0
    <3> DEFINE h == [m \in 0..0 |-> <<>>]
    <3>1. \A m \in 0..0 : h[m] = F(h, m)
      OBVIOUS
    <3>2. Solves(h, 0)
      BY <3>1
    <3> QED BY <2>4, <3>2
  <2>5. CASE l # 0
    <3>1. l - 1 \in 0..N /\ l - 1 < l /\ l \in Nat
      BY <2>5, <1>1
    <3>2. PICK g : Solves(g, l - 1)
      BY <3>1, <2>3
    <3>3. \A m \in 0..(l - 1) : g[m] = F(g, m)
      BY <3>2
    <3> DEFINE h == [m \in 0..l |-> IF m < l THEN g[m] ELSE F(g, l)]
    <3>4. ASSUME NEW m \in 0..l PROVE h[m] = F(h, m)
      <4>1. m # 0 => m - 1 \in 0..l /\ m - 1 < l
        BY <3>1
      <4>2. m # 0 => h[m - 1] = g[m - 1]
        BY <4>1
      <4>3. F(h, m) = F(g, m)
        BY <4>2
      <4>4. CASE m < l
        BY <4>3, <4>4, <3>1, <3>3
      <4>5. CASE m = l
        BY <4>3, <4>5, <3>1
      <4> QED BY <4>4, <4>5, <3>1
    <3>5. Solves(h, l)
      BY <3>4
    <3> QED BY <3>5
  <2> QED BY <2>4, <2>5
<1>3. W = [m \in 0..N |-> F(W, m)]
  <2>1. PICK g : Solves(g, N)
    BY <1>1, <1>2
  <2> QED BY <2>1
<1> HIDE DEF W
<1>4. \A n \in 0..N : W[n] = F(W, n)
  BY <1>3
<1>5. \A n \in 0..N : Good(n)
  <2> DEFINE T == {n \in 0..N : ~ Good(n)}
  <2> SUFFICES ASSUME T # {} PROVE FALSE
    OBVIOUS
  <2>1. T \subseteq Nat
    BY <1>1
  <2>2. PICK l \in T : \A k \in T : ~ (<<k, l>> \in OpToRel(<, Nat))
    BY <2>1, WFMin, NatLessThanWellFounded
  <2>3. \A k \in T : ~ (k < l)
    BY <2>1, <2>2, Zenon DEF OpToRel
  <2>4. CASE l = 0
    <3>1. W[0] = <<>>
      BY <1>1, <1>4
    <3>2. P \cap (1..0) = {} /\ <<>> \in Seq(U) /\ Len(<<>>) = 0
      OBVIOUS
    <3>3. Takes(u, {}, <<>>)
      BY DEF Takes
    <3> QED BY <2>4, <3>1, <3>2, <3>3
  <2>5. CASE l # 0
    <3>1. l - 1 \in 0..N /\ l - 1 < l /\ l \in 1..N
      BY <2>5, <1>1
    <3>2. Good(l - 1)
      BY <3>1, <2>3
    <3>3. CASE l \in P
      <4>1. W[l] = Append(W[l - 1], u[l])
        <5>1. l \in 0..N /\ l # 0
          BY <3>1, <1>1
        <5>2. W[l] = F(W, l)
          BY <5>1, <1>4
        <5> QED BY <5>1, <5>2, <3>3, Zenon
      <4>2. P \cap (1..l) = (P \cap (1..(l - 1))) \cup {l}
        BY <3>1, <3>3
      <4> DEFINE c == W[l - 1]
                 before == P \cap (1..(l - 1))
      <4>3. before \subseteq 1..(l - 1) /\ c \in Seq(U) /\ Takes(u, before, c)
        BY <3>2
      <4> HIDE DEF c, before
      <4>4. Append(c, u[l]) \in Seq(U) /\ Takes(u, before \cup {l}, Append(c, u[l]))
        BY <4>3, <3>1, TakesOneMore
      <4>5. Good(l)
        BY <4>1, <4>2, <4>4 DEF c, before
      <4> QED BY <4>5
    <3>4. CASE l \notin P
      <4>1. W[l] = W[l - 1]
        BY <3>1, <3>4, <1>4
      <4>2. P \cap (1..l) = P \cap (1..(l - 1))
        BY <3>1, <3>4
      <4> QED BY <4>1, <4>2, <3>2
    <3> QED BY <3>3, <3>4
  <2> QED BY <2>4, <2>5
<1>6. UpdatesAt(u, P) = W[N]
  BY DEF UpdatesAt, W
<1>7. P \cap (1..N) = P
  OBVIOUS
<1>8. N \in 0..N
  BY <1>1
<1>9. Good(N)
  BY <1>5, <1>8
<1> HIDE DEF N
<1> QED BY <1>6, <1>7, <1>9

(***************************************************************************)
(* What process_host_root_update_queue leaves.                              *)
(***************************************************************************)
LEMMA FirstSkippedIs ==
  ASSUME NEW u \in Seq(HostUpdates), NEW R
  PROVE  /\ FirstSkipped(u, R) \in 1..(Len(u) + 1)
         /\ \A i \in 1..Len(u) : i < FirstSkipped(u, R) => ~ Skipped(u[i], R)
         /\ FirstSkipped(u, R) <= Len(u) => Skipped(u[FirstSkipped(u, R)], R)
<1> DEFINE T == {i \in DOMAIN u : Skipped(u[i], R)}
<1>1. Len(u) \in Nat /\ DOMAIN u = 1..Len(u)
  OBVIOUS
<1>2. FirstSkipped(u, R) = IF T = {} THEN Len(u) + 1 ELSE Min(T)
  BY DEF FirstSkipped
<1>3. CASE T = {}
  <2>1. \A i \in 1..Len(u) : ~ Skipped(u[i], R)
    BY <1>1, <1>3
  <2>2. FirstSkipped(u, R) = Len(u) + 1
    BY <1>2, <1>3
  <2> QED BY <2>1, <2>2, <1>1
<1>4. CASE T # {}
  <2>1. T \subseteq Nat
    BY <1>1
  <2>2. PICK l \in T : \A k \in T : ~ (<<k, l>> \in OpToRel(<, Nat))
    BY <2>1, <1>4, WFMin, NatLessThanWellFounded
  <2>3. \A k \in T : ~ (k < l)
    BY <2>1, <2>2, Zenon DEF OpToRel
  <2>4. \A k \in T : l <= k
    BY <2>1, <2>3
  <2>5. Min(T) \in T /\ \A k \in T : Min(T) <= k
    BY <2>4 DEF Min
  <2>6. FirstSkipped(u, R) = Min(T)
    BY <1>2, <1>4
  <2> HIDE DEF T
  <2>7. FirstSkipped(u, R) \in T /\ \A k \in T : FirstSkipped(u, R) <= k
    BY <2>5, <2>6
  <2> QED BY <2>7, <1>1 DEF T
<1> QED BY <1>3, <1>4

\* The queue that is kept: the updates from the first skipped one on, rebased.
LEMMA RebasedQueueIs ==
  ASSUME NEW u \in Seq(HostUpdates), NEW R
  PROVE  LET kept == RebasedQueue(u, R)
             skipAt == FirstSkipped(u, R)
         IN  /\ kept \in Seq(HostUpdates) /\ Len(kept) = Len(u) + 1 - skipAt
             /\ \A k \in 1..Len(kept) : /\ skipAt + k - 1 \in 1..Len(u)
                                        /\ kept[k] = Rebase(u[skipAt + k - 1], R)
             /\ \A i \in 1..Len(u) : skipAt <= i => /\ i + 1 - skipAt \in 1..Len(kept)
                                                   /\ kept[i + 1 - skipAt] = Rebase(u[i], R)
<1> DEFINE kept == RebasedQueue(u, R)
           skipAt == FirstSkipped(u, R)
           n == Len(u) + 1 - skipAt
<1>1. Len(u) \in Nat /\ \A i \in 1..Len(u) : u[i] \in HostUpdates
  OBVIOUS
<1>2. skipAt \in 1..(Len(u) + 1)
  BY FirstSkippedIs
<1>3. kept = [k \in 1..n |-> Rebase(u[skipAt + k - 1], R)]
  BY DEF RebasedQueue
<1> HIDE DEF kept, skipAt
<1>4. n \in Nat /\ \A k \in 1..n : skipAt + k - 1 \in 1..Len(u)
  BY <1>1, <1>2
<1>5. \A k \in 1..n : Rebase(u[skipAt + k - 1], R) \in HostUpdates
  <2> TAKE k \in 1..n
  <2>1. u[skipAt + k - 1] \in HostUpdates
    BY <1>1, <1>4
  <2> QED BY <2>1 DEF Rebase, HostUpdates
<1>6. kept \in Seq(HostUpdates) /\ Len(kept) = n
  BY <1>3, <1>4, <1>5
<1>7. \A k \in 1..Len(kept) : /\ skipAt + k - 1 \in 1..Len(u)
                              /\ kept[k] = Rebase(u[skipAt + k - 1], R)
  BY <1>3, <1>4, <1>6
<1>8. ASSUME NEW i \in 1..Len(u), skipAt <= i
      PROVE  /\ i + 1 - skipAt \in 1..Len(kept)
             /\ kept[i + 1 - skipAt] = Rebase(u[i], R)
  <2>1. i + 1 - skipAt \in 1..Len(kept) /\ skipAt + (i + 1 - skipAt) - 1 = i
    BY <1>1, <1>2, <1>6, <1>8
  <2> QED BY <2>1, <1>7
<1> QED BY <1>6, <1>7, <1>8 DEF kept, skipAt

\* What is rendered of a queue and what remains, field by field.
ProcessSkipped(u, R) == {i \in DOMAIN u : Skipped(u[i], R)}
ProcessApplied(u, R) == DOMAIN u \ ProcessSkipped(u, R)
ProcessCalled(u, R) == {i \in ProcessApplied(u, R) : u[i].callback}
ProcessBefore(u, R) == SubSeq(u, 1, FirstSkipped(u, R) - 1)

LEMMA ProcessFields ==
  ASSUME NEW q \in HostQueues, NEW R
  PROVE  LET r == ProcessHostRootUpdateQueue(q, R)
             u == q.base
         IN  /\ r.queue.baseState = q.baseState \o Ids(ProcessBefore(u, R))
             /\ r.queue.base = RebasedQueue(u, R)
             /\ r.queue.pending = q.pending
             /\ r.queue.lanes = IF RebasedQueue(u, R) = <<>> THEN {} ELSE q.lanes
             /\ r.queue.callbacks = q.callbacks \o Ids(UpdatesAt(u, ProcessCalled(u, R)))
             /\ r.memoized = q.baseState \o Ids(UpdatesAt(u, ProcessApplied(u, R)))
             /\ r.remaining = UNION {u[i].lanes : i \in ProcessSkipped(u, R)}
             /\ r.queue = [baseState |-> r.queue.baseState, base |-> r.queue.base,
                           pending |-> r.queue.pending, lanes |-> r.queue.lanes,
                           callbacks |-> r.queue.callbacks]
  BY DEF ProcessHostRootUpdateQueue, ProcessSkipped, ProcessApplied, ProcessCalled, ProcessBefore,
         ApplyRootUpdates, HostQueues

\* The updates before the first skipped one.
LEMMA ProcessBeforeIs ==
  ASSUME NEW u \in Seq(HostUpdates), NEW R
  PROVE  /\ ProcessBefore(u, R) \in Seq(HostUpdates)
         /\ Len(ProcessBefore(u, R)) = FirstSkipped(u, R) - 1
         /\ \A i \in 1..Len(ProcessBefore(u, R)) : i \in 1..Len(u) /\ ProcessBefore(u, R)[i] = u[i]
<1> DEFINE skipAt == FirstSkipped(u, R)
<1>1. skipAt \in 1..(Len(u) + 1) /\ Len(u) \in Nat
  BY FirstSkippedIs
<1>2. /\ 1 \in 1..(Len(u) + 1) /\ skipAt - 1 \in 0..Len(u) /\ skipAt - 1 \in 1-1..Len(u)
      /\ \A i \in 1..(skipAt - 1) : i \in 1..Len(u) /\ 1 + i - 1 = i
  BY <1>1
<1> DEFINE b == SubSeq(u, 1, skipAt - 1)
<1> HIDE DEF skipAt
<1>3. b \in Seq(HostUpdates) /\ Len(b) = skipAt - 1 /\ \A i \in 1..(skipAt - 1) : b[i] = u[i]
  BY <1>1, <1>2, SubSeqProperties
<1>4. ProcessBefore(u, R) = b
  BY DEF ProcessBefore, skipAt
<1> QED BY <1>2, <1>3, <1>4 DEF skipAt

\* process_host_root_update_queue keeps the shape of the queue.
LEMMA ProcessTyped ==
  ASSUME NEW q \in HostQueues, NEW R
  PROVE  LET r == ProcessHostRootUpdateQueue(q, R)
         IN  r.queue \in HostQueues /\ r.memoized \in Seq(Nat) /\ r.remaining \in SUBSET Lane
<1> DEFINE u == q.base
           r == ProcessHostRootUpdateQueue(q, R)
           taken(P) == Ids(UpdatesAt(u, P))
<1>1. /\ u \in Seq(HostUpdates) /\ DOMAIN u = 1..Len(u)
      /\ q.baseState \in Seq(Nat) /\ q.callbacks \in Seq(Nat) /\ q.pending \in Seq(HostUpdates)
      /\ q.lanes \in SUBSET Lane
  BY DEF HostQueues
<1> HIDE DEF u, r
<1>2. ASSUME NEW P \in SUBSET (1..Len(u)) PROVE taken(P) \in Seq(Nat)
  <2>1. UpdatesAt(u, P) \in Seq(HostUpdates)
    BY <1>1, UpdatesAtIs
  <2> QED BY <2>1, IdsTyped
<1>3. /\ ProcessApplied(u, R) \in SUBSET (1..Len(u)) /\ ProcessCalled(u, R) \in SUBSET (1..Len(u))
      /\ ProcessSkipped(u, R) \in SUBSET (1..Len(u))
  BY <1>1 DEF ProcessApplied, ProcessCalled, ProcessSkipped
<1>4. Ids(ProcessBefore(u, R)) \in Seq(Nat)
  BY <1>1, ProcessBeforeIs, IdsTyped
<1>5. RebasedQueue(u, R) \in Seq(HostUpdates)
  BY <1>1, RebasedQueueIs
<1>6. /\ r.queue.baseState = q.baseState \o Ids(ProcessBefore(u, R))
      /\ r.queue.base = RebasedQueue(u, R)
      /\ r.queue.pending = q.pending
      /\ r.queue.lanes = IF RebasedQueue(u, R) = <<>> THEN {} ELSE q.lanes
      /\ r.queue.callbacks = q.callbacks \o taken(ProcessCalled(u, R))
      /\ r.memoized = q.baseState \o taken(ProcessApplied(u, R))
      /\ r.remaining = UNION {u[i].lanes : i \in ProcessSkipped(u, R)}
      /\ r.queue = [baseState |-> r.queue.baseState, base |-> r.queue.base,
                    pending |-> r.queue.pending, lanes |-> r.queue.lanes,
                    callbacks |-> r.queue.callbacks]
  BY ProcessFields, Zenon DEF u, r
<1> HIDE DEF taken
<1>7. /\ q.baseState \o Ids(ProcessBefore(u, R)) \in Seq(Nat)
      /\ q.callbacks \o taken(ProcessCalled(u, R)) \in Seq(Nat)
      /\ q.baseState \o taken(ProcessApplied(u, R)) \in Seq(Nat)
  BY <1>1, <1>2, <1>3, <1>4
<1>8. r.remaining \in SUBSET Lane
  <2>1. \A i \in 1..Len(u) : u[i].lanes \in SUBSET Lane
    <3>1. \A i \in 1..Len(u) : u[i] \in HostUpdates
      BY <1>1
    <3> QED BY <3>1 DEF HostUpdates
  <2> QED BY <2>1, <1>3, <1>6
<1>9. r.queue \in HostQueues
  <2>1. /\ r.queue.baseState \in Seq(Nat) /\ r.queue.base \in Seq(HostUpdates)
        /\ r.queue.pending \in Seq(HostUpdates) /\ r.queue.lanes \in SUBSET Lane
        /\ r.queue.callbacks \in Seq(Nat)
    BY <1>1, <1>5, <1>6, <1>7
  <2> QED BY <2>1, <1>6 DEF HostQueues
<1> QED BY <1>6, <1>7, <1>8, <1>9 DEF r

(***************************************************************************)
(* The lanes that remain are those of the queue that is kept, and lanes of  *)
(* the queue it was; as long as any remains the shared transition lanes do. *)
(***************************************************************************)
LEMMA ProcessLanes ==
  ASSUME NEW q \in HostQueues, NEW R
  PROVE  LET r == ProcessHostRootUpdateQueue(q, R)
         IN  /\ LanesOf(r.queue.base) = r.remaining
             /\ r.remaining \subseteq LanesOf(q.base)
             /\ r.queue.pending = q.pending
             /\ r.remaining # {} => r.queue.lanes = q.lanes
<1> DEFINE u == q.base
           r == ProcessHostRootUpdateQueue(q, R)
           kept == RebasedQueue(u, R)
           skipAt == FirstSkipped(u, R)
<1>1. u \in Seq(HostUpdates) /\ DOMAIN u = 1..Len(u) /\ Len(u) \in Nat
  BY DEF HostQueues
<1> HIDE DEF u, r
<1>2. /\ r.queue.base = kept /\ r.queue.pending = q.pending
      /\ r.queue.lanes = IF kept = <<>> THEN {} ELSE q.lanes
      /\ r.remaining = UNION {u[i].lanes : i \in ProcessSkipped(u, R)}
  BY ProcessFields, Zenon DEF u, r
<1>3. /\ kept \in Seq(HostUpdates)
      /\ \A k \in 1..Len(kept) : /\ skipAt + k - 1 \in 1..Len(u)
                                 /\ kept[k] = Rebase(u[skipAt + k - 1], R)
      /\ \A i \in 1..Len(u) : skipAt <= i => /\ i + 1 - skipAt \in 1..Len(kept)
                                            /\ kept[i + 1 - skipAt] = Rebase(u[i], R)
  BY <1>1, RebasedQueueIs, Zenon
<1>4. skipAt \in 1..(Len(u) + 1) /\ \A i \in 1..Len(u) : i < skipAt => ~ Skipped(u[i], R)
  BY <1>1, FirstSkippedIs
<1> HIDE DEF kept, skipAt
<1>5. DOMAIN kept = 1..Len(kept)
  BY <1>3
<1>6. \A l : l \in r.remaining <=> \E i \in 1..Len(u) : Skipped(u[i], R) /\ l \in u[i].lanes
  BY <1>1, <1>2 DEF ProcessSkipped
<1>7. \A l : l \in LanesOf(kept) <=> \E k \in 1..Len(kept) : l \in kept[k].lanes
  BY <1>5 DEF LanesOf
<1>8. ASSUME NEW l \in LanesOf(kept) PROVE l \in r.remaining
  <2>1. PICK k \in 1..Len(kept) : l \in kept[k].lanes
    BY <1>7
  <2> DEFINE i == skipAt + k - 1
  <2>2. i \in 1..Len(u) /\ kept[k] = Rebase(u[i], R) /\ u[i] \in HostUpdates
    BY <1>1, <1>3
  <2> HIDE DEF i
  <2>3. Skipped(u[i], R)
    BY <2>1, <2>2 DEF Rebase, HostUpdates
  <2>4. kept[k] = u[i]
    BY <2>2, <2>3 DEF Rebase
  <2> QED BY <2>1, <2>2, <2>3, <2>4, <1>6
<1>9. ASSUME NEW l \in r.remaining PROVE l \in LanesOf(kept) /\ l \in LanesOf(u) /\ kept # <<>>
  <2>1. PICK i \in 1..Len(u) : Skipped(u[i], R) /\ l \in u[i].lanes
    BY <1>6
  <2>2. skipAt <= i
    BY <2>1, <1>1, <1>4
  <2> DEFINE k == i + 1 - skipAt
  <2>3. k \in 1..Len(kept) /\ kept[k] = Rebase(u[i], R)
    BY <2>2, <1>3
  <2> HIDE DEF k
  <2>4. kept[k] = u[i]
    BY <2>1, <2>3 DEF Rebase
  <2>5. l \in LanesOf(kept)
    BY <2>1, <2>3, <2>4, <1>7
  <2>6. l \in LanesOf(u)
    BY <2>1, <1>1 DEF LanesOf
  <2> QED BY <2>3, <2>5, <2>6, <1>3
<1> QED BY <1>2, <1>8, <1>9 DEF r, u

-----------------------------------------------------------------------------
(***************************************************************************)
(* The inductive invariant for lanes, queues and render records.  Own is    *)
(* the queue of the current fiber, Spare that of its alternate.             *)
(***************************************************************************)
Own == fibers[current].queue
Spare == fibers[Other(current)].queue

HostFibers == [lanes : SUBSET Lane, queue : Nat, state : Nat]
HostRecords ==
  [current : Fiber, finished : Fiber, lanes : SUBSET Lane, remaining : SUBSET Lane,
   currentQueue : Nat, queue : Nat, memoized : Seq(Nat)]
HostEntries == [update : HostUpdates, fiber : Fiber, queue : Nat]

Typed ==
  /\ lanes \in RootLaneStates
  /\ current \in Fiber
  /\ fibers \in [Fiber -> HostFibers]
  /\ queues \in Seq(HostQueues)
  /\ work \in [fiber : {0} \cup Fiber, lanes : SUBSET Lane]
  /\ records \in Seq(HostRecords)
  /\ staged \in Seq(HostEntries)
  /\ created \in Nat
  /\ enqueued \in Seq(Nat)
  /\ shown \in Seq(Nat)
  /\ fired \in Seq(Nat)
  /\ commits \in Seq(Nat)

\* Handles only grow: a record's queue is younger than the one it was cloned
\* from, and no commit is younger than the current queue.
Handles ==
  /\ Own \in 1..Len(queues)
  /\ Spare \in 1..Len(queues)
  /\ \A i \in DOMAIN records :
       /\ records[i].currentQueue <= Own
       /\ records[i].currentQueue < records[i].queue
       /\ records[i].queue <= Len(queues)
  /\ \A i \in DOMAIN commits : commits[i] <= Own
  /\ CommitsAreFresh

\* A staged transition is stuck behind a tuple that cannot be drained.
Entries ==
  /\ \A i \in DOMAIN staged : /\ staged[i].queue <= Own
                              /\ staged[i].queue = Own => staged[i].fiber = current
  /\ (\E i \in DOMAIN staged : staged[i].update.lanes \cap TransitionLanes # {})
       => \E i \in DOMAIN staged : staged[i].queue # Own

\* What a record that can still be committed leaves is in its queue; if the
\* commit would be of the current queue, nothing of it is new to the root.
RecordRendered(record) ==
  /\ queues[record.queue].pending = <<>>
  /\ LanesOf(queues[record.queue].base) = record.remaining
  /\ record.remaining \cap TransitionLanes \subseteq queues[record.queue].lanes
  /\ record.currentQueue = Own => record.remaining \subseteq LanesOf(QueuedUpdates(CurrentQueue))

Fresh == \A i \in DOMAIN records : records[i].queue > Own => RecordRendered(records[i])

\* Draining marks the fiber of a render under way.
Marks == Spare > Own => LanesOf(CurrentQueue.pending) \subseteq fibers[Other(current)].lanes

Tied(l, m) == l = m \/ (l \in lanes.entangled /\ m \in lanes.entanglements[l])

QueuedTransitions == LanesOf(QueuedUpdates(CurrentQueue)) \cap TransitionLanes

Transitions ==
  /\ QueuedTransitions \subseteq CurrentQueue.lanes
  /\ \A l, m \in QueuedTransitions : Tied(l, m)

LaneInv ==
  /\ Typed
  /\ Handles
  /\ Entries
  /\ Fresh
  /\ Marks
  /\ PendingLanesAreQueued
  /\ Transitions

LEMMA EmptyUpdates == LanesOf(<<>>) = {} /\ <<>> \in Seq(HostUpdates) /\ Ids(<<>>) = <<>>
  BY DEF LanesOf, Ids

LEMMA InitLaneInv == Init => LaneInv
<1> SUFFICES ASSUME Init PROVE LaneInv
  OBVIOUS
<1>1. EmptyQueue \in HostQueues /\ EmptyQueue.base = <<>> /\ EmptyQueue.pending = <<>>
  BY DEF EmptyQueue, HostQueues
<1>2. Own = 1 /\ Spare = 1 /\ Len(queues) = 1 /\ CurrentQueue = EmptyQueue
  BY DEF Init, Own, Spare, Other, Fiber, CurrentQueue
<1>3. Typed
  BY <1>1, NewTyped DEF Init, Typed, Fiber, HostFibers, NoWork
<1>4. Handles /\ Entries /\ Fresh /\ Marks
  BY <1>2 DEF Init, Handles, Entries, Fresh, Marks, CommitsAreFresh
<1>5. QueuedUpdates(CurrentQueue) = <<>>
  BY <1>1, <1>2 DEF QueuedUpdates
<1>6. PendingLanesAreQueued /\ Transitions
  BY <1>5, EmptyUpdates DEF Init, NewRootLaneState, PendingLanesAreQueued, Transitions, QueuedTransitions
<1> QED BY <1>3, <1>4, <1>6 DEF LaneInv

\* The queue of a transfer is the queue it was, all of it in the base.
LEMMA QueueFacts ==
  ASSUME LaneInv
  PROVE  /\ Own \in 1..Len(queues) /\ Spare \in 1..Len(queues) /\ Len(queues) \in Nat
         /\ CurrentQueue = queues[Own] /\ CurrentQueue \in HostQueues
         /\ CurrentQueue.base \in Seq(HostUpdates) /\ CurrentQueue.pending \in Seq(HostUpdates)
         /\ LanesOf(QueuedUpdates(CurrentQueue))
              = LanesOf(CurrentQueue.base) \cup LanesOf(CurrentQueue.pending)
         /\ \A h \in 1..Len(queues) : queues[h] \in HostQueues
         /\ Other(current) \in Fiber /\ Other(current) # current /\ current \in Fiber
         /\ \A f \in Fiber : fibers[f] \in HostFibers
<1>1. /\ Own \in 1..Len(queues) /\ Spare \in 1..Len(queues) /\ Len(queues) \in Nat
      /\ CurrentQueue = queues[Own] /\ \A h \in 1..Len(queues) : queues[h] \in HostQueues
  BY DEF LaneInv, Typed, Handles, CurrentQueue, Own
<1>2. CurrentQueue \in HostQueues
  BY <1>1
<1>3. CurrentQueue.base \in Seq(HostUpdates) /\ CurrentQueue.pending \in Seq(HostUpdates)
  BY <1>2 DEF HostQueues
<1>4. LanesOf(QueuedUpdates(CurrentQueue))
        = LanesOf(CurrentQueue.base) \cup LanesOf(CurrentQueue.pending)
  BY <1>3, ConcatUpdates DEF QueuedUpdates
<1>5. Other(current) \in Fiber /\ Other(current) # current /\ current \in Fiber
  BY DEF LaneInv, Typed, Other, Fiber
<1>6. \A f \in Fiber : fibers[f] \in HostFibers
  BY DEF LaneInv, Typed
<1> QED BY <1>1, <1>2, <1>3, <1>4, <1>5, <1>6

(***************************************************************************)
(* Draining, whether by finish_queueing_concurrent_updates or at the end of *)
(* update_container: the updates us go to the pending ring of the current   *)
(* queue, and their lanes to the root and to both fibers.                   *)
(***************************************************************************)
Appends(us) ==
  /\ lanes' \in RootLaneStates
  /\ lanes'.pending = lanes.pending \cup LanesOf(us)
  /\ queues' \in Seq(HostQueues)
  /\ Len(queues') = Len(queues)
  /\ \A h \in 1..Len(queues) : h # Own => queues'[h] = queues[h]
  /\ queues'[Own].baseState = CurrentQueue.baseState
  /\ queues'[Own].base = CurrentQueue.base
  /\ queues'[Own].pending = CurrentQueue.pending \o us
  /\ queues'[Own].callbacks = CurrentQueue.callbacks
  /\ fibers' = MarkSourceFiberLanes(LanesOf(us))
  /\ staged' = <<>>
  /\ created' \in Nat
  /\ enqueued' = enqueued \o Ids(us)
  /\ UNCHANGED <<current, work, records, shown, fired, commits>>

LEMMA MarkedFibers ==
  ASSUME LaneInv, NEW L \in SUBSET Lane, fibers' = MarkSourceFiberLanes(L), current' = current
  PROVE  /\ fibers' \in [Fiber -> HostFibers]
         /\ Own' = Own /\ Spare' = Spare
         /\ \A f \in Fiber : /\ fibers'[f].lanes = fibers[f].lanes \cup L
                             /\ fibers'[f].queue = fibers[f].queue
                             /\ fibers'[f].state = fibers[f].state
<1>1. \A f \in Fiber : fibers[f] \in HostFibers
  BY QueueFacts
<1>2. ASSUME NEW f \in Fiber
      PROVE  /\ fibers'[f] \in HostFibers
             /\ fibers'[f].lanes = fibers[f].lanes \cup L
             /\ fibers'[f].queue = fibers[f].queue
             /\ fibers'[f].state = fibers[f].state
  BY <1>1 DEF MarkSourceFiberLanes, HostFibers
<1>3. fibers' \in [Fiber -> HostFibers]
  BY <1>2 DEF MarkSourceFiberLanes
<1>4. current \in Fiber /\ Other(current) \in Fiber
  BY QueueFacts
<1>5. Own' = Own /\ Spare' = Spare
  BY <1>2, <1>4 DEF Own, Spare, Other
<1> QED BY <1>2, <1>3, <1>5

\* Draining keeps the invariant, if it keeps the transitions tied.
LEMMA AppendsStep ==
  ASSUME LaneInv, NEW us \in Seq(HostUpdates), Appends(us), Transitions'
  PROVE  LaneInv'
<1> DEFINE L == LanesOf(us)
<1>1. L \in SUBSET Lane /\ Ids(us) \in Seq(Nat)
  BY IdsTyped
<1>2. /\ fibers' \in [Fiber -> HostFibers]
      /\ Own' = Own /\ Spare' = Spare
      /\ \A f \in Fiber : /\ fibers'[f].lanes = fibers[f].lanes \cup L
                          /\ fibers'[f].queue = fibers[f].queue
                          /\ fibers'[f].state = fibers[f].state
  BY <1>1, MarkedFibers DEF Appends
<1>3. /\ Own \in 1..Len(queues) /\ Spare \in 1..Len(queues) /\ Len(queues) \in Nat
      /\ CurrentQueue = queues[Own] /\ CurrentQueue \in HostQueues
      /\ CurrentQueue.base \in Seq(HostUpdates) /\ CurrentQueue.pending \in Seq(HostUpdates)
      /\ LanesOf(QueuedUpdates(CurrentQueue))
           = LanesOf(CurrentQueue.base) \cup LanesOf(CurrentQueue.pending)
      /\ Other(current) \in Fiber /\ current \in Fiber
  BY QueueFacts
<1>4. /\ CurrentQueue'.base = CurrentQueue.base
      /\ CurrentQueue'.pending = CurrentQueue.pending \o us
  BY <1>2, <1>3 DEF Appends, CurrentQueue, Own
<1>5. /\ LanesOf(CurrentQueue'.pending) = LanesOf(CurrentQueue.pending) \cup L
      /\ LanesOf(QueuedUpdates(CurrentQueue)') = LanesOf(QueuedUpdates(CurrentQueue)) \cup L
  <2>1. CurrentQueue.pending \o us \in Seq(HostUpdates)
    BY <1>3, ConcatUpdates
  <2>2. LanesOf(CurrentQueue.pending \o us) = LanesOf(CurrentQueue.pending) \cup L
    BY <1>3, ConcatUpdates
  <2>3. QueuedUpdates(CurrentQueue)' = CurrentQueue.base \o (CurrentQueue.pending \o us)
    BY <1>4 DEF QueuedUpdates
  <2>4. LanesOf(CurrentQueue.base \o (CurrentQueue.pending \o us))
          = LanesOf(CurrentQueue.base) \cup LanesOf(CurrentQueue.pending \o us)
    BY <2>1, <1>3, ConcatUpdates
  <2> QED BY <2>2, <2>3, <2>4, <1>3, <1>4
<1> HIDE DEF L
<1>6. Typed'
  BY <1>1, <1>2 DEF LaneInv, Typed, Appends
<1>7. Handles'
  BY <1>2 DEF LaneInv, Handles, Appends, CommitsAreFresh
<1>8. Entries'
  BY DEF Appends, Entries
<1>9. Fresh'
  <2> SUFFICES ASSUME NEW i \in DOMAIN records, records[i].queue > Own PROVE RecordRendered(records[i])'
    BY <1>2 DEF Fresh, Appends
  <2>1. RecordRendered(records[i]) /\ records[i].queue \in 1..Len(queues) /\ records[i].queue # Own
    <3>1. records[i] \in HostRecords /\ records[i].queue <= Len(queues)
      BY DEF LaneInv, Handles, Typed
    <3>2. records[i].queue \in Nat
      BY <3>1 DEF HostRecords
    <3> QED BY <3>1, <3>2, <1>3 DEF LaneInv, Fresh
  <2>2. queues'[records[i].queue] = queues[records[i].queue]
    BY <2>1 DEF Appends
  <2>3. records' = records
    BY DEF Appends
  <2> QED BY <2>1, <2>2, <2>3, <1>2, <1>5 DEF RecordRendered
<1>10. Marks'
  <2>1. Other(current)' = Other(current)
    BY DEF Appends, Other
  <2> QED BY <2>1, <1>2, <1>3, <1>5 DEF LaneInv, Marks
<1>11. PendingLanesAreQueued'
  BY <1>5 DEF LaneInv, PendingLanesAreQueued, Appends, L
<1> QED BY <1>6, <1>7, <1>8, <1>9, <1>10, <1>11 DEF LaneInv

\* The updates of the staged tuples, and of one more.
LEMMA UpdatesOfIs ==
  ASSUME NEW e \in Seq(HostEntries)
  PROVE  /\ UpdatesOf(e) \in Seq(HostUpdates) /\ Len(UpdatesOf(e)) = Len(e)
         /\ \A i \in 1..Len(e) : UpdatesOf(e)[i] = e[i].update /\ e[i] \in HostEntries
         /\ \A l : l \in LanesOf(UpdatesOf(e)) <=> \E i \in 1..Len(e) : l \in e[i].update.lanes
<1>1. DOMAIN e = 1..Len(e) /\ Len(e) \in Nat /\ \A i \in 1..Len(e) : e[i] \in HostEntries
  OBVIOUS
<1>2. \A i \in 1..Len(e) : e[i].update \in HostUpdates
  BY <1>1 DEF HostEntries
<1>3. UpdatesOf(e) = [i \in 1..Len(e) |-> e[i].update]
  BY <1>1 DEF UpdatesOf
<1>4. UpdatesOf(e) \in Seq(HostUpdates) /\ Len(UpdatesOf(e)) = Len(e)
  BY <1>1, <1>2, <1>3
<1>5. DOMAIN UpdatesOf(e) = 1..Len(e) /\ \A i \in 1..Len(e) : UpdatesOf(e)[i] = e[i].update
  BY <1>3
<1>6. \A l : l \in LanesOf(UpdatesOf(e)) <=> \E i \in 1..Len(e) : l \in e[i].update.lanes
  BY <1>5 DEF LanesOf
<1> QED BY <1>1, <1>4, <1>5, <1>6

LEMMA AppendedEntry ==
  ASSUME NEW e \in Seq(HostEntries), NEW x \in HostEntries
  PROVE  /\ Append(e, x) \in Seq(HostEntries) /\ Len(Append(e, x)) = Len(e) + 1
         /\ \A i \in 1..Len(e) : Append(e, x)[i] = e[i] /\ i \in 1..Len(Append(e, x))
         /\ Append(e, x)[Len(e) + 1] = x
         /\ LanesOf(UpdatesOf(Append(e, x))) = LanesOf(UpdatesOf(e)) \cup x.update.lanes
<1> DEFINE d == Append(e, x)
<1>1. /\ d \in Seq(HostEntries) /\ Len(d) = Len(e) + 1 /\ d[Len(e) + 1] = x /\ Len(e) \in Nat
      /\ \A i \in 1..Len(e) : d[i] = e[i]
  BY AppendProperties
<1> HIDE DEF d
<1>2. \A i \in 1..Len(e) : i \in 1..Len(d)
  BY <1>1
<1>3. \A l : l \in LanesOf(UpdatesOf(d)) <=> \E i \in 1..Len(d) : l \in d[i].update.lanes
  BY <1>1, UpdatesOfIs
<1>4. \A l : l \in LanesOf(UpdatesOf(e)) <=> \E i \in 1..Len(e) : l \in e[i].update.lanes
  BY UpdatesOfIs
<1>5. ASSUME NEW l PROVE l \in LanesOf(UpdatesOf(d)) <=> l \in LanesOf(UpdatesOf(e)) \/ l \in x.update.lanes
  <2>1. ASSUME l \in LanesOf(UpdatesOf(d)) PROVE l \in LanesOf(UpdatesOf(e)) \/ l \in x.update.lanes
    <3>1. PICK i \in 1..Len(d) : l \in d[i].update.lanes
      BY <2>1, <1>3
    <3>2. CASE i \in 1..Len(e)
      BY <3>1, <3>2, <1>1, <1>4
    <3>3. CASE i = Len(e) + 1
      BY <3>1, <3>3, <1>1
    <3> QED BY <3>2, <3>3, <1>1
  <2>2. ASSUME l \in LanesOf(UpdatesOf(e)) PROVE l \in LanesOf(UpdatesOf(d))
    BY <2>2, <1>1, <1>2, <1>3, <1>4
  <2>3. ASSUME l \in x.update.lanes PROVE l \in LanesOf(UpdatesOf(d))
    <3>1. Len(e) + 1 \in 1..Len(d)
      BY <1>1
    <3> QED BY <2>3, <3>1, <1>1, <1>3
  <2> QED BY <2>1, <2>2, <2>3
<1>6. LanesOf(UpdatesOf(d)) = LanesOf(UpdatesOf(e)) \cup x.update.lanes
  BY <1>5
<1> QED BY <1>1, <1>2, <1>6 DEF d

\* When all tuples can be drained none of them is a transition.
LEMMA DrainableEntries ==
  ASSUME LaneInv, \A i \in DOMAIN staged : Drainable(staged[i])
  PROVE  LanesOf(UpdatesOf(staged)) \cap TransitionLanes = {}
<1>1. staged \in Seq(HostEntries) /\ DOMAIN staged = 1..Len(staged)
  BY DEF LaneInv, Typed
<1>2. \A i \in DOMAIN staged : staged[i].queue = Own
  BY DEF Drainable, Own
<1>3. \A i \in DOMAIN staged : staged[i].update.lanes \cap TransitionLanes = {}
  BY <1>2 DEF LaneInv, Entries
<1> QED BY <1>1, <1>3, UpdatesOfIs

\* The queue and the lanes that draining leaves.
LEMMA DrainedIs ==
  ASSUME LaneInv, NEW e \in Seq(HostEntries)
  PROVE  LET q == AppendPendingUpdates(CurrentQueue, UpdatesOf(e))
         IN  /\ Drained(e) = [queues EXCEPT ![Own] = q]
             /\ q \in HostQueues
             /\ q.baseState = CurrentQueue.baseState /\ q.base = CurrentQueue.base
             /\ q.pending = CurrentQueue.pending \o UpdatesOf(e)
             /\ q.callbacks = CurrentQueue.callbacks /\ q.lanes = CurrentQueue.lanes
             /\ DrainedLanes(e) \in RootLaneStates
             /\ DrainedLanes(e).pending = lanes.pending \cup LanesOf(UpdatesOf(e))
             /\ DrainedLanes(e).entangled = lanes.entangled
             /\ DrainedLanes(e).entanglements = lanes.entanglements
<1> DEFINE us == UpdatesOf(e)
           q == AppendPendingUpdates(CurrentQueue, us)
<1>1. us \in Seq(HostUpdates) /\ LanesOf(us) \in SUBSET Lane
  BY UpdatesOfIs, IdsTyped
<1>2. CurrentQueue \in HostQueues /\ CurrentQueue.pending \in Seq(HostUpdates)
  BY QueueFacts
<1>3. CurrentQueue.pending \o us \in Seq(HostUpdates)
  BY <1>1, <1>2, ConcatUpdates
<1>4. Drained(e) = [queues EXCEPT ![Own] = q]
  BY DEF Drained, Own, CurrentQueue
<1>5. /\ DrainedLanes(e) \in RootLaneStates
      /\ DrainedLanes(e).pending = lanes.pending \cup LanesOf(us)
      /\ DrainedLanes(e).entangled = lanes.entangled
      /\ DrainedLanes(e).entanglements = lanes.entanglements
  <2>1. lanes \in RootLaneStates
    BY DEF LaneInv, Typed
  <2>2. DrainedLanes(e) = MarkAllUpdated(lanes, LanesOf(us))
    BY DEF DrainedLanes
  <2> HIDE DEF us
  <2> QED BY <2>1, <2>2, <1>1, AllUpdatedEffect
<1> HIDE DEF us
<1>6. q \in HostQueues
  BY <1>2, <1>3 DEF AppendPendingUpdates, HostQueues
<1>7. /\ q.baseState = CurrentQueue.baseState /\ q.base = CurrentQueue.base
      /\ q.pending = CurrentQueue.pending \o us
      /\ q.callbacks = CurrentQueue.callbacks /\ q.lanes = CurrentQueue.lanes
  BY <1>2 DEF AppendPendingUpdates, HostQueues
<1> QED BY <1>4, <1>5, <1>6, <1>7 DEF us

\* One queue of the store is replaced.
LEMMA OneQueueSet ==
  ASSUME LaneInv, NEW h \in 1..Len(queues), NEW q \in HostQueues
  PROVE  /\ [queues EXCEPT ![h] = q] \in Seq(HostQueues)
         /\ Len([queues EXCEPT ![h] = q]) = Len(queues)
         /\ [queues EXCEPT ![h] = q][h] = q
         /\ \A g \in 1..Len(queues) : g # h => [queues EXCEPT ![h] = q][g] = queues[g]
<1>1. queues \in Seq(HostQueues)
  BY DEF LaneInv, Typed
<1> QED BY <1>1

\* finish_queueing_concurrent_updates drains the staged updates.
LEMMA FinishAppends ==
  ASSUME LaneInv, FinishQueueingConcurrentUpdates
  PROVE  /\ Appends(UpdatesOf(staged))
         /\ lanes'.entangled = lanes.entangled /\ lanes'.entanglements = lanes.entanglements
         /\ queues'[Own].lanes = CurrentQueue.lanes
<1> DEFINE q == AppendPendingUpdates(CurrentQueue, UpdatesOf(staged))
<1>1. staged \in Seq(HostEntries) /\ created \in Nat /\ Own \in 1..Len(queues)
  BY QueueFacts DEF LaneInv, Typed
<1>2. /\ Drained(staged) = [queues EXCEPT ![Own] = q]
      /\ q \in HostQueues
      /\ q.baseState = CurrentQueue.baseState /\ q.base = CurrentQueue.base
      /\ q.pending = CurrentQueue.pending \o UpdatesOf(staged)
      /\ q.callbacks = CurrentQueue.callbacks /\ q.lanes = CurrentQueue.lanes
      /\ DrainedLanes(staged) \in RootLaneStates
      /\ DrainedLanes(staged).pending = lanes.pending \cup LanesOf(UpdatesOf(staged))
      /\ DrainedLanes(staged).entangled = lanes.entangled
      /\ DrainedLanes(staged).entanglements = lanes.entanglements
  BY <1>1, DrainedIs
<1> HIDE DEF q
<1>3. lanes' = DrainedLanes(staged) /\ queues' = [queues EXCEPT ![Own] = q]
  BY <1>2 DEF FinishQueueingConcurrentUpdates
<1>4. /\ queues' \in Seq(HostQueues) /\ Len(queues') = Len(queues) /\ queues'[Own] = q
      /\ \A g \in 1..Len(queues) : g # Own => queues'[g] = queues[g]
  BY <1>1, <1>2, <1>3, OneQueueSet
<1> QED BY <1>1, <1>2, <1>3, <1>4 DEF Appends, FinishQueueingConcurrentUpdates, Drain

\* The transitions of the queue after draining.
LEMMA AppendedTransitions ==
  ASSUME LaneInv, NEW us \in Seq(HostUpdates), Appends(us)
  PROVE  QueuedTransitions' = QueuedTransitions \cup (LanesOf(us) \cap TransitionLanes)
<1>1. /\ CurrentQueue.base \in Seq(HostUpdates) /\ CurrentQueue.pending \in Seq(HostUpdates)
      /\ LanesOf(QueuedUpdates(CurrentQueue))
           = LanesOf(CurrentQueue.base) \cup LanesOf(CurrentQueue.pending)
  BY QueueFacts
<1>2. Own' = Own
  BY MarkedFibers, IdsTyped DEF Appends
<1>3. /\ CurrentQueue'.base = CurrentQueue.base
      /\ CurrentQueue'.pending = CurrentQueue.pending \o us
  BY <1>2 DEF Appends, CurrentQueue, Own
<1>4. /\ CurrentQueue.pending \o us \in Seq(HostUpdates)
      /\ LanesOf(CurrentQueue.pending \o us) = LanesOf(CurrentQueue.pending) \cup LanesOf(us)
  BY <1>1, ConcatUpdates
<1>5. LanesOf(CurrentQueue.base \o (CurrentQueue.pending \o us))
        = LanesOf(CurrentQueue.base) \cup LanesOf(CurrentQueue.pending \o us)
  BY <1>1, <1>4, ConcatUpdates
<1>6. QueuedUpdates(CurrentQueue)' = CurrentQueue.base \o (CurrentQueue.pending \o us)
  BY <1>3 DEF QueuedUpdates
<1> QED BY <1>1, <1>4, <1>5, <1>6 DEF QueuedTransitions

LEMMA FinishStep ==
  ASSUME LaneInv, FinishQueueingConcurrentUpdates
  PROVE  LaneInv'
<1>1. UpdatesOf(staged) \in Seq(HostUpdates)
  BY UpdatesOfIs DEF LaneInv, Typed
<1>2. /\ Appends(UpdatesOf(staged))
      /\ lanes'.entangled = lanes.entangled /\ lanes'.entanglements = lanes.entanglements
      /\ queues'[Own].lanes = CurrentQueue.lanes
  BY FinishAppends
<1>3. QueuedTransitions' = QueuedTransitions
  BY <1>1, <1>2, AppendedTransitions, DrainableEntries DEF FinishQueueingConcurrentUpdates, Drain
<1>4. CurrentQueue'.lanes = CurrentQueue.lanes
  <2>1. Own' = Own
    BY <1>1, <1>2, MarkedFibers, IdsTyped DEF Appends
  <2> QED BY <2>1, <1>2 DEF CurrentQueue, Own
<1>5. Transitions'
  BY <1>2, <1>3, <1>4 DEF LaneInv, Transitions, Tied
<1> QED BY <1>1, <1>2, <1>5, AppendsStep

\* The tuple that staging adds.
NewEntry(lane) ==
  [update |-> NewUpdate(created + 1, lane, (created + 1) \in CallbackIds),
   fiber |-> current, queue |-> Own]

LEMMA NewEntryIs ==
  ASSUME LaneInv, NEW lane \in Lane
  PROVE  /\ NewEntry(lane) \in HostEntries /\ NewEntry(lane).update.lanes = {lane}
         /\ NewEntry(lane).update.id = created + 1
         /\ NewEntry(lane).update.callback = (created + 1 \in CallbackIds)
         /\ NewEntry(lane).queue = Own /\ NewEntry(lane).fiber = current
         /\ staged \in Seq(HostEntries)
<1>1. created + 1 \in Nat /\ current \in Fiber /\ Own \in Nat /\ staged \in Seq(HostEntries)
  BY QueueFacts DEF LaneInv, Typed
<1>2. NewUpdate(created + 1, lane, (created + 1) \in CallbackIds) \in HostUpdates
  BY <1>1 DEF NewUpdate, HostUpdates
<1> QED BY <1>1, <1>2 DEF NewEntry, HostEntries, NewUpdate

\* update_container, when it can drain.
LEMMA ContainerAppends ==
  ASSUME LaneInv, NEW lane \in Lane, UpdateContainer(lane)
  PROVE  LET e == Append(staged, NewEntry(lane))
             shared == (CurrentQueue.lanes \cap lanes'.pending) \cup {lane}
         IN  /\ Appends(UpdatesOf(e))
             /\ created' = created + 1
             /\ IF lane \in TransitionLanes
                THEN /\ lanes' = MarkEntangled(DrainedLanes(e), shared)
                     /\ queues'[Own].lanes = shared
                ELSE /\ lanes'.entangled = lanes.entangled
                     /\ lanes'.entanglements = lanes.entanglements
                     /\ queues'[Own].lanes = CurrentQueue.lanes
<1> DEFINE e == Append(staged, NewEntry(lane))
           us == UpdatesOf(e)
           q == AppendPendingUpdates(CurrentQueue, us)
           marked == DrainedLanes(e)
           tied == EntangleTransitionUpdate(q, marked.pending, lane)
<1>1. created \in Nat /\ Own \in 1..Len(queues) /\ CurrentQueue \in HostQueues
  BY QueueFacts DEF LaneInv, Typed
<1>2. e \in Seq(HostEntries)
  BY NewEntryIs, AppendedEntry
<1>3. StagedWith(NewUpdate(created + 1, lane, created + 1 \in CallbackIds)) = e
  BY DEF StagedWith, NewEntry, Own
<1>4. /\ Drained(e) = [queues EXCEPT ![Own] = q]
      /\ q \in HostQueues
      /\ q.baseState = CurrentQueue.baseState /\ q.base = CurrentQueue.base
      /\ q.pending = CurrentQueue.pending \o us
      /\ q.callbacks = CurrentQueue.callbacks /\ q.lanes = CurrentQueue.lanes
      /\ marked \in RootLaneStates
      /\ marked.pending = lanes.pending \cup LanesOf(us)
      /\ marked.entangled = lanes.entangled
      /\ marked.entanglements = lanes.entanglements
  BY <1>2, DrainedIs
<1>5. us \in Seq(HostUpdates) /\ LanesOf(us) \in SUBSET Lane
  BY <1>2, UpdatesOfIs, IdsTyped
<1>6. /\ created' = created + 1 /\ Drain(e)
      /\ UNCHANGED <<current, work, records, shown, fired, commits>>
  BY <1>3, Zenon DEF UpdateContainer
<1>7. IF lane \in TransitionLanes
      THEN /\ lanes' = MarkEntangled(marked, EntangleTransitionUpdate(Drained(e)[Own], marked.pending, lane))
           /\ queues' = [Drained(e) EXCEPT ![Own].lanes
                           = EntangleTransitionUpdate(Drained(e)[Own], marked.pending, lane)]
      ELSE lanes' = marked /\ queues' = Drained(e)
  BY <1>3, Zenon DEF UpdateContainer, Own
<1> HIDE DEF q, us, marked, e
<1>8. /\ Drained(e) \in Seq(HostQueues) /\ Len(Drained(e)) = Len(queues) /\ Drained(e)[Own] = q
      /\ \A g \in 1..Len(queues) : g # Own => Drained(e)[g] = queues[g]
  BY <1>1, <1>4, OneQueueSet
<1>9. /\ fibers' = MarkSourceFiberLanes(LanesOf(us))
      /\ enqueued' = enqueued \o Ids(us) /\ staged' = <<>>
  BY <1>6 DEF Drain, us
<1>10. CASE lane \notin TransitionLanes
  <2>1. lanes' = marked /\ queues' = Drained(e)
    BY <1>7, <1>10
  <2>2. Appends(us)
    BY <2>1, <1>1, <1>4, <1>6, <1>8, <1>9 DEF Appends
  <2> QED BY <2>1, <2>2, <1>4, <1>6, <1>8, <1>10 DEF us, e
<1>11. CASE lane \in TransitionLanes
  <2>1. lanes' = MarkEntangled(marked, tied) /\ queues' = [Drained(e) EXCEPT ![Own].lanes = tied]
    BY <1>7, <1>8, <1>11
  <2>2. tied = (CurrentQueue.lanes \cap marked.pending) \cup {lane} /\ tied \in SUBSET Lane
    <3>1. CurrentQueue.lanes \in SUBSET Lane
      BY <1>1 DEF HostQueues
    <3> QED BY <3>1, <1>4 DEF EntangleTransitionUpdate
  <2> HIDE DEF tied
  <2>3. lanes' \in RootLaneStates /\ lanes'.pending = marked.pending
    BY <2>1, <2>2, <1>4, EntangledTyped, EntangledEffect
  <2> DEFINE r == [q EXCEPT !.lanes = tied]
  <2>4. r \in HostQueues
    BY <2>2, <1>4 DEF HostQueues
  <2>5. /\ r.baseState = CurrentQueue.baseState /\ r.base = CurrentQueue.base
        /\ r.pending = CurrentQueue.pending \o us /\ r.callbacks = CurrentQueue.callbacks
        /\ r.lanes = tied
    BY <1>4 DEF HostQueues
  <2>6. queues' = [queues EXCEPT ![Own] = r]
    BY <2>1, <1>1, <1>4 DEF LaneInv, Typed
  <2> HIDE DEF r
  <2>7. /\ queues' \in Seq(HostQueues) /\ Len(queues') = Len(queues) /\ queues'[Own] = r
        /\ \A g \in 1..Len(queues) : g # Own => queues'[g] = queues[g]
    BY <2>4, <2>6, <1>1, OneQueueSet
  <2>8. Appends(us)
    BY <2>3, <2>5, <2>7, <1>1, <1>4, <1>6, <1>9 DEF Appends
  <2> QED BY <2>1, <2>2, <2>3, <2>5, <2>7, <2>8, <1>6, <1>11 DEF us, e, marked
<1> QED BY <1>10, <1>11

LEMMA ContainerStep ==
  ASSUME LaneInv, NEW lane \in Lane, UpdateContainer(lane)
  PROVE  LaneInv'
<1> DEFINE e == Append(staged, NewEntry(lane))
           us == UpdatesOf(e)
           shared == (CurrentQueue.lanes \cap lanes'.pending) \cup {lane}
<1>1. /\ Appends(us)
      /\ IF lane \in TransitionLanes
         THEN /\ lanes' = MarkEntangled(DrainedLanes(e), shared)
              /\ queues'[Own].lanes = shared
         ELSE /\ lanes'.entangled = lanes.entangled
              /\ lanes'.entanglements = lanes.entanglements
              /\ queues'[Own].lanes = CurrentQueue.lanes
  BY ContainerAppends
<1>2. e \in Seq(HostEntries) /\ LanesOf(us) = LanesOf(UpdatesOf(staged)) \cup {lane}
  BY NewEntryIs, AppendedEntry
<1>3. us \in Seq(HostUpdates) /\ LanesOf(us) \in SUBSET Lane
  BY <1>2, UpdatesOfIs, IdsTyped
<1>4. LanesOf(UpdatesOf(staged)) \cap TransitionLanes = {}
  BY DrainableEntries DEF UpdateContainer, Drain
<1>5. DrainedLanes(e) \in RootLaneStates
  BY <1>2, DrainedIs
<1>6. CurrentQueue.lanes \in SUBSET Lane
  BY QueueFacts DEF HostQueues
<1> HIDE DEF us, e
<1>7. QueuedTransitions' = QueuedTransitions \cup ({lane} \cap TransitionLanes)
  BY <1>1, <1>2, <1>3, <1>4, AppendedTransitions
<1>8. CurrentQueue'.lanes = queues'[Own].lanes
  <2>1. Own' = Own
    BY <1>1, <1>3, MarkedFibers DEF Appends
  <2> QED BY <2>1 DEF CurrentQueue, Own
<1>9. Transitions' => LaneInv'
  BY <1>1, <1>3, AppendsStep
<1>10. CASE lane \in TransitionLanes
  <2>1. QueuedTransitions \subseteq lanes'.pending
    BY <1>1 DEF LaneInv, PendingLanesAreQueued, QueuedTransitions, Appends
  <2>2. QueuedTransitions' \subseteq shared
    BY <2>1, <1>7 DEF LaneInv, Transitions
  <2>3. shared \in SUBSET Lane
    BY <1>6
  <2> HIDE DEF shared
  <2>4. shared \subseteq lanes'.entangled /\ \A l \in shared : shared \subseteq lanes'.entanglements[l]
    BY <2>3, <1>1, <1>5, <1>10, EntangledEffect
  <2>5. Transitions'
    BY <2>2, <2>4, <1>1, <1>8, <1>10 DEF Transitions, Tied
  <2> QED BY <2>5, <1>9
<1>11. CASE lane \notin TransitionLanes
  <2>1. Transitions'
    BY <1>1, <1>7, <1>8, <1>11 DEF LaneInv, Transitions, Tied
  <2> QED BY <2>1, <1>9
<1> QED BY <1>10, <1>11

\* Staging without draining; a transition only behind a tuple that is stuck.
LEMMA StageStep ==
  ASSUME LaneInv, NEW lane \in Lane, StageUpdate(lane),
         lane \in TransitionLanes => \E i \in DOMAIN staged : ~ Drainable(staged[i])
  PROVE  LaneInv'
<1> DEFINE x == NewEntry(lane)
<1>1. /\ staged \in Seq(HostEntries) /\ DOMAIN staged = 1..Len(staged)
      /\ x \in HostEntries /\ x.update.lanes = {lane} /\ x.queue = Own /\ x.fiber = current
  BY NewEntryIs
<1>2. staged' = Append(staged, x)
  BY DEF StageUpdate, StagedWith, NewEntry, Own
<1> HIDE DEF x
<1>3. /\ staged' \in Seq(HostEntries) /\ Len(staged') = Len(staged) + 1
      /\ \A i \in 1..Len(staged) : staged'[i] = staged[i] /\ i \in 1..Len(staged')
      /\ staged'[Len(staged) + 1] = x /\ Len(staged) \in Nat
  BY <1>1, <1>2, AppendedEntry
<1>4. /\ fibers' \in [Fiber -> HostFibers] /\ Own' = Own /\ Spare' = Spare
      /\ \A f \in Fiber : fibers[f].lanes \subseteq fibers'[f].lanes
  BY MarkedFibers DEF StageUpdate
<1>5. UNCHANGED <<lanes, current, queues, work, records, enqueued, shown, fired, commits>>
  BY DEF StageUpdate
<1>6. CurrentQueue' = CurrentQueue
  BY <1>4, <1>5 DEF CurrentQueue, Own
<1>7. Typed'
  <2>1. created' \in Nat
    BY DEF LaneInv, Typed, StageUpdate
  <2> QED BY <2>1, <1>3, <1>4, <1>5 DEF LaneInv, Typed
<1>8. Handles'
  BY <1>4, <1>5 DEF LaneInv, Handles, CommitsAreFresh
<1>9. Fresh' /\ PendingLanesAreQueued' /\ Transitions'
  BY <1>4, <1>5, <1>6 DEF LaneInv, Fresh, RecordRendered, PendingLanesAreQueued, Transitions,
     QueuedTransitions, Tied
<1>10. Marks'
  <2>1. Other(current)' = Other(current) /\ Other(current) \in Fiber
    BY <1>5, QueueFacts DEF Other
  <2> QED BY <2>1, <1>4, <1>6 DEF LaneInv, Marks
<1>11. Entries'
  <2>1. DOMAIN staged' = 1..Len(staged')
    BY <1>3
  <2>2. ASSUME NEW i \in DOMAIN staged'
        PROVE  /\ staged'[i].queue <= Own
               /\ staged'[i].queue = Own => staged'[i].fiber = current
    <3>1. CASE i \in 1..Len(staged)
      BY <3>1, <1>1, <1>3 DEF LaneInv, Entries
    <3>2. CASE i = Len(staged) + 1
      <4>1. Own \in Nat
        BY QueueFacts
      <4> QED BY <3>2, <4>1, <1>1, <1>3
    <3> QED BY <2>1, <2>2, <3>1, <3>2, <1>3
  <2>3. ASSUME NEW i \in DOMAIN staged', staged'[i].update.lanes \cap TransitionLanes # {}
        PROVE  \E j \in DOMAIN staged : staged[j].queue # Own
    <3>1. CASE i \in 1..Len(staged)
      BY <3>1, <2>3, <1>1, <1>3 DEF LaneInv, Entries
    <3>2. CASE i = Len(staged) + 1
      <4>1. lane \in TransitionLanes
        BY <3>2, <2>3, <1>1, <1>3
      <4>2. PICK j \in DOMAIN staged : ~ Drainable(staged[j])
        BY <4>1
      <4>3. staged[j].queue = Own => staged[j].fiber = current
        BY DEF LaneInv, Entries
      <4>4. staged[j].queue # Own
        BY <4>2, <4>3 DEF Drainable, Own
      <4> QED BY <4>4
    <3> QED BY <2>1, <2>3, <3>1, <3>2, <1>3
  <2>4. (\E j \in DOMAIN staged : staged[j].queue # Own)
          => \E j \in DOMAIN staged' : staged'[j].queue # Own
    BY <2>1, <1>1, <1>3
  <2> QED BY <2>2, <2>3, <2>4, <1>4, <1>5 DEF Entries
<1> QED BY <1>7, <1>8, <1>9, <1>10, <1>11 DEF LaneInv

\* The queue that a render works on: the current one, all of it in the base.
Moved == TransferPendingToBaseQueue(CurrentQueue)
Cloned == CloneHostRootUpdateQueue(Moved)

LEMMA MovedIs ==
  ASSUME LaneInv
  PROVE  /\ Moved \in HostQueues
         /\ Moved.baseState = CurrentQueue.baseState
         /\ Moved.base = QueuedUpdates(CurrentQueue) /\ Moved.pending = <<>>
         /\ Moved.lanes = CurrentQueue.lanes /\ Moved.callbacks = CurrentQueue.callbacks
         /\ QueuedUpdates(Moved) = QueuedUpdates(CurrentQueue)
         /\ Cloned \in HostQueues
         /\ Cloned.baseState = CurrentQueue.baseState
         /\ Cloned.base = QueuedUpdates(CurrentQueue) /\ Cloned.pending = <<>>
         /\ Cloned.lanes = CurrentQueue.lanes /\ Cloned.callbacks = <<>>
         /\ QueuedUpdates(CurrentQueue) \in Seq(HostUpdates)
<1>1. /\ CurrentQueue \in HostQueues
      /\ CurrentQueue.base \in Seq(HostUpdates) /\ CurrentQueue.pending \in Seq(HostUpdates)
  BY QueueFacts
<1>2. QueuedUpdates(CurrentQueue) \in Seq(HostUpdates)
  BY <1>1, ConcatUpdates DEF QueuedUpdates
<1>3. Moved = [CurrentQueue EXCEPT !.base = QueuedUpdates(CurrentQueue), !.pending = <<>>]
  BY <1>1 DEF Moved, TransferPendingToBaseQueue, QueuedUpdates, HostQueues
<1>4. Moved \in HostQueues
  BY <1>1, <1>2, <1>3, EmptyUpdates DEF HostQueues
<1>5. /\ Moved.baseState = CurrentQueue.baseState
      /\ Moved.base = QueuedUpdates(CurrentQueue) /\ Moved.pending = <<>>
      /\ Moved.lanes = CurrentQueue.lanes /\ Moved.callbacks = CurrentQueue.callbacks
  BY <1>1, <1>3 DEF HostQueues
<1>6. Cloned \in HostQueues
  <2>1. <<>> \in Seq(Nat)
    OBVIOUS
  <2> QED BY <2>1, <1>4 DEF Cloned, CloneHostRootUpdateQueue, HostQueues
<1>7. /\ Cloned.baseState = Moved.baseState /\ Cloned.base = Moved.base
      /\ Cloned.pending = Moved.pending /\ Cloned.lanes = Moved.lanes /\ Cloned.callbacks = <<>>
  BY <1>4 DEF Cloned, CloneHostRootUpdateQueue, HostQueues
<1>8. QueuedUpdates(Moved) = QueuedUpdates(CurrentQueue)
  <2>1. QueuedUpdates(CurrentQueue) \o <<>> = QueuedUpdates(CurrentQueue)
    BY <1>2
  <2> QED BY <2>1, <1>5 DEF QueuedUpdates
<1> QED BY <1>2, <1>4, <1>5, <1>6, <1>7, <1>8

\* What a render does to queues, fibers and records.
LEMMA RenderIs ==
  ASSUME LaneInv, NEW R \in SUBSET Lane, RenderHostRootForLanes(R)
  PROVE  LET result == ProcessHostRootUpdateQueue(Cloned, R)
             handle == Len(queues) + 1
             record == [current |-> current, finished |-> Other(current), lanes |-> R,
                        remaining |-> result.remaining, currentQueue |-> Own,
                        queue |-> handle, memoized |-> result.memoized]
         IN  /\ queues' \in Seq(HostQueues) /\ Len(queues') = handle
             /\ queues'[Own] = Moved /\ queues'[handle] = result.queue
             /\ \A h \in 1..Len(queues) : h # Own => queues'[h] = queues[h]
             /\ result.queue \in HostQueues
             /\ record \in HostRecords
             /\ records' = Append(records, record) /\ records' \in Seq(HostRecords)
             /\ fibers' \in [Fiber -> HostFibers]
             /\ fibers'[Other(current)].lanes = result.remaining
             /\ Own' = Own /\ Spare' = handle
<1> DEFINE result == ProcessHostRootUpdateQueue(Cloned, R)
           handle == Len(queues) + 1
           record == [current |-> current, finished |-> Other(current), lanes |-> R,
                      remaining |-> result.remaining, currentQueue |-> Own,
                      queue |-> handle, memoized |-> result.memoized]
           wip == [lanes |-> result.remaining, queue |-> handle, state |-> handle]
           before == [queues EXCEPT ![Own] = Moved]
<1>1. /\ Own \in 1..Len(queues) /\ Len(queues) \in Nat
      /\ Other(current) \in Fiber /\ current \in Fiber /\ Other(current) # current
      /\ records \in Seq(HostRecords) /\ fibers \in [Fiber -> HostFibers]
  BY QueueFacts DEF LaneInv, Typed
<1>2. Moved \in HostQueues /\ Cloned \in HostQueues
  BY MovedIs
<1>3. result.queue \in HostQueues /\ result.memoized \in Seq(Nat) /\ result.remaining \in SUBSET Lane
  BY <1>2, ProcessTyped
<1>4. /\ queues' = Append(before, result.queue)
      /\ fibers' = [fibers EXCEPT ![Other(current)] = wip]
      /\ records' = Append(records, record) /\ current' = current
  BY DEF RenderHostRootForLanes, Moved, Cloned, Own
<1> HIDE DEF result
<1>5. /\ before \in Seq(HostQueues) /\ Len(before) = Len(queues) /\ before[Own] = Moved
      /\ \A h \in 1..Len(queues) : h # Own => before[h] = queues[h]
  BY <1>1, <1>2, OneQueueSet
<1> HIDE DEF before
<1>6. /\ queues' \in Seq(HostQueues) /\ Len(queues') = handle /\ queues'[handle] = result.queue
      /\ \A h \in 1..Len(queues) : queues'[h] = before[h]
  BY <1>3, <1>4, <1>5, AppendProperties
<1>7. record \in HostRecords
  BY <1>1, <1>3 DEF HostRecords
<1>8. wip \in HostFibers
  BY <1>1, <1>3 DEF HostFibers
<1>9. /\ fibers' \in [Fiber -> HostFibers] /\ fibers'[Other(current)] = wip
      /\ fibers'[current] = fibers[current]
  BY <1>1, <1>4, <1>8
<1>10. Own' = Own /\ Spare' = handle
  BY <1>4, <1>9 DEF Own, Spare, Other
<1>11. records' \in Seq(HostRecords)
  <2> HIDE DEF record
  <2> QED BY <1>1, <1>4, <1>7
<1> QED BY <1>1, <1>3, <1>4, <1>5, <1>6, <1>7, <1>9, <1>10, <1>11 DEF result

LEMMA RenderStep ==
  ASSUME LaneInv, NEW R \in SUBSET Lane, RenderHostRootForLanes(R)
  PROVE  LaneInv'
<1> DEFINE result == ProcessHostRootUpdateQueue(Cloned, R)
           handle == Len(queues) + 1
           record == [current |-> current, finished |-> Other(current), lanes |-> R,
                      remaining |-> result.remaining, currentQueue |-> Own,
                      queue |-> handle, memoized |-> result.memoized]
<1>1. /\ queues' \in Seq(HostQueues) /\ Len(queues') = handle
      /\ queues'[Own] = Moved /\ queues'[handle] = result.queue
      /\ \A h \in 1..Len(queues) : h # Own => queues'[h] = queues[h]
      /\ records' = Append(records, record) /\ records' \in Seq(HostRecords)
      /\ fibers' \in [Fiber -> HostFibers]
      /\ Own' = Own /\ Spare' = handle
  BY RenderIs
<1>2. /\ record.remaining = result.remaining /\ record.currentQueue = Own /\ record.queue = handle
      /\ record \in HostRecords
  BY RenderIs
<1>3. /\ Own \in 1..Len(queues) /\ Len(queues) \in Nat /\ Other(current) \in Fiber
      /\ CurrentQueue = queues[Own] /\ records \in Seq(HostRecords)
  BY QueueFacts DEF LaneInv, Typed
<1>4. /\ Moved.pending = <<>> /\ Moved.lanes = CurrentQueue.lanes
      /\ QueuedUpdates(Moved) = QueuedUpdates(CurrentQueue)
      /\ Cloned \in HostQueues /\ Cloned.base = QueuedUpdates(CurrentQueue)
      /\ Cloned.pending = <<>> /\ Cloned.lanes = CurrentQueue.lanes
  BY MovedIs
<1>5. /\ LanesOf(result.queue.base) = result.remaining
      /\ result.remaining \subseteq LanesOf(QueuedUpdates(CurrentQueue))
      /\ result.queue.pending = <<>>
      /\ result.remaining # {} => result.queue.lanes = CurrentQueue.lanes
  BY <1>4, ProcessLanes
<1>6. UNCHANGED <<lanes, current, staged, created, enqueued, shown, fired, commits>>
  BY DEF RenderHostRootForLanes
<1>7. CurrentQueue' = Moved
  BY <1>1 DEF CurrentQueue, Own
<1> HIDE DEF result, record
<1>8. /\ DOMAIN records' = 1..(Len(records) + 1) /\ DOMAIN records = 1..Len(records)
      /\ Len(records) \in Nat /\ records'[Len(records) + 1] = record
      /\ \A i \in 1..Len(records) : records'[i] = records[i] /\ records[i] \in HostRecords
  BY <1>1, <1>2, <1>3, AppendProperties
<1>9. Typed'
  <2>1. work' \in [fiber : {0} \cup Fiber, lanes : SUBSET Lane]
    BY <1>3 DEF RenderHostRootForLanes
  <2> QED BY <2>1, <1>1, <1>6 DEF LaneInv, Typed
<1>10. Handles'
  <2>1. Own' \in 1..Len(queues') /\ Spare' \in 1..Len(queues')
    BY <1>1, <1>3
  <2>2. ASSUME NEW i \in DOMAIN records'
        PROVE  /\ records'[i].currentQueue <= Own /\ records'[i].currentQueue < records'[i].queue
               /\ records'[i].queue <= Len(queues')
    <3>1. CASE i \in 1..Len(records)
      <4>1. /\ records[i].currentQueue <= Own /\ records[i].currentQueue < records[i].queue
            /\ records[i].queue <= Len(queues)
        BY <3>1, <1>8 DEF LaneInv, Handles
      <4>2. records[i].queue \in Nat
        BY <3>1, <1>8 DEF HostRecords
      <4> QED BY <3>1, <4>1, <4>2, <1>1, <1>3, <1>8
    <3>2. CASE i = Len(records) + 1
      BY <3>2, <1>1, <1>2, <1>3, <1>8
    <3> QED BY <2>2, <3>1, <3>2, <1>8
  <2> QED BY <2>1, <2>2, <1>1, <1>6 DEF LaneInv, Handles, CommitsAreFresh
<1>11. Entries'
  BY <1>1, <1>6 DEF LaneInv, Entries
<1>12. Fresh'
  <2> SUFFICES ASSUME NEW i \in DOMAIN records', records'[i].queue > Own
               PROVE  RecordRendered(records[i])'
    BY <1>1 DEF Fresh
  <2>1. CASE i \in 1..Len(records)
    <3>1. /\ RecordRendered(records[i]) /\ records[i].queue \in 1..Len(queues)
          /\ records[i].queue # Own /\ records'[i] = records[i]
      <4>1. records[i].queue <= Len(queues) /\ Own \in Nat
        BY <2>1, <1>3, <1>8 DEF LaneInv, Handles
      <4>2. records[i].queue \in Nat /\ records'[i] = records[i]
        BY <2>1, <1>8 DEF HostRecords
      <4> QED BY <2>1, <4>1, <4>2, <1>3, <1>8 DEF LaneInv, Fresh
    <3>2. queues'[records[i].queue] = queues[records[i].queue]
      BY <3>1, <1>1
    <3> QED BY <3>1, <3>2, <1>1, <1>4, <1>7 DEF RecordRendered
  <2>2. CASE i = Len(records) + 1
    <3>1. records'[i] = record /\ queues'[record.queue] = result.queue
      BY <2>2, <1>1, <1>2, <1>8
    <3>2. result.remaining \cap TransitionLanes \subseteq result.queue.lanes
      BY <1>5 DEF LaneInv, Transitions, QueuedTransitions
    <3> QED BY <3>1, <3>2, <1>1, <1>2, <1>4, <1>5, <1>7 DEF RecordRendered
  <2> QED BY <2>1, <2>2, <1>8
<1>13. Marks'
  BY <1>4, <1>7, EmptyUpdates DEF Marks
<1>14. PendingLanesAreQueued' /\ Transitions'
  BY <1>4, <1>6, <1>7 DEF LaneInv, PendingLanesAreQueued, Transitions, QueuedTransitions, Tied
<1> QED BY <1>9, <1>10, <1>11, <1>12, <1>13, <1>14 DEF LaneInv

\* The elements of the sequences have their types.
LEMMA ElementsTyped ==
  ASSUME LaneInv
  PROVE  /\ \A j \in DOMAIN records : records[j] \in HostRecords
         /\ \A j \in DOMAIN staged : staged[j] \in HostEntries
         /\ \A j \in DOMAIN commits : commits[j] \in Nat
<1>1. records \in Seq(HostRecords) /\ staged \in Seq(HostEntries) /\ commits \in Seq(Nat)
  BY DEF LaneInv, Typed
<1> QED BY <1>1

\* A record that passes the validation is that of the alternate fiber, and fresh.
LEMMA FinishedRecord ==
  ASSUME LaneInv, NEW i \in DOMAIN records, FinishedHostRoot(records[i])
  PROVE  /\ records[i] \in HostRecords
         /\ records[i].finished = Other(current) /\ Other(records[i].finished) = current
         /\ records[i].queue = Spare /\ records[i].currentQueue = Own
         /\ records[i].remaining = fibers[Other(current)].lanes
         /\ Spare > Own /\ Own \in Nat /\ Spare \in 1..Len(queues)
         /\ RecordRendered(records[i])
         /\ records[i].remaining \subseteq lanes.pending
<1>1. records[i] \in HostRecords
  BY DEF LaneInv, Typed
<1>2. records[i].finished = Other(current) /\ Other(records[i].finished) = current
  <2>1. records[i].finished \in Fiber /\ records[i].finished # current /\ current \in Fiber
    BY <1>1, QueueFacts DEF FinishedHostRoot, HostRecords
  <2> QED BY <2>1 DEF Fiber, Other
<1>3. /\ records[i].queue = Spare /\ records[i].currentQueue = Own
      /\ records[i].remaining = fibers[Other(current)].lanes
  BY <1>2 DEF FinishedHostRoot, Own, Spare
<1>4. Own \in Nat /\ Spare \in 1..Len(queues)
  BY QueueFacts
<1>5. Spare > Own
  BY <1>3, <1>4 DEF LaneInv, Handles
<1>6. RecordRendered(records[i])
  BY <1>3, <1>5 DEF LaneInv, Fresh
<1>7. records[i].remaining \subseteq lanes.pending
  BY <1>3, <1>6 DEF RecordRendered, LaneInv, PendingLanesAreQueued
<1> QED BY <1>1, <1>2, <1>3, <1>4, <1>5, <1>6, <1>7

\* What a commit does to queues and fibers.
LEMMA CommitIs ==
  ASSUME LaneInv, NEW i \in DOMAIN records, CommitFinishedHostRoot(records[i])
  PROVE  /\ queues' \in Seq(HostQueues) /\ Len(queues') = Len(queues)
         /\ \A h \in 1..Len(queues) : /\ h # Spare => queues'[h] = queues[h]
                                      /\ queues'[h].baseState = queues[h].baseState
                                      /\ queues'[h].base = queues[h].base
                                      /\ queues'[h].pending = queues[h].pending
                                      /\ queues'[h].lanes = queues[h].lanes
         /\ Own' = Spare /\ Spare' = Own /\ CurrentQueue' = queues'[Spare]
<1>1. /\ records[i].finished = Other(current) /\ Other(records[i].finished) = current
      /\ records[i].queue = Spare /\ Spare \in 1..Len(queues)
  BY FinishedRecord DEF CommitFinishedHostRoot
<1> DEFINE q == [queues[Spare] EXCEPT !.callbacks = <<>>]
<1>2. queues' = [queues EXCEPT ![Spare] = q]
  BY <1>1 DEF CommitFinishedHostRoot, TakeRootUpdateCallbackRecords
<1>3. queues[Spare] \in HostQueues
  BY <1>1, QueueFacts
<1>4. q \in HostQueues
  <2>1. <<>> \in Seq(Nat)
    OBVIOUS
  <2> QED BY <2>1, <1>3 DEF HostQueues
<1>5. /\ q.baseState = queues[Spare].baseState /\ q.base = queues[Spare].base
      /\ q.pending = queues[Spare].pending /\ q.lanes = queues[Spare].lanes
  BY <1>3 DEF HostQueues
<1> HIDE DEF q
<1>6. /\ queues' \in Seq(HostQueues) /\ Len(queues') = Len(queues) /\ queues'[Spare] = q
      /\ \A h \in 1..Len(queues) : h # Spare => queues'[h] = queues[h]
  BY <1>1, <1>2, <1>4, OneQueueSet
<1>7. Own' = Spare /\ Spare' = Own /\ CurrentQueue' = queues'[Spare]
  <2>1. fibers' = fibers /\ current' = records[i].finished
    BY DEF CommitFinishedHostRoot
  <2> QED BY <2>1, <1>1 DEF Own, Spare, Other, CurrentQueue
<1> QED BY <1>5, <1>6, <1>7

LEMMA CommitStep ==
  ASSUME LaneInv, NEW i \in DOMAIN records, CommitFinishedHostRoot(records[i])
  PROVE  LaneInv'
<1> DEFINE record == records[i]
<1>1. /\ record \in HostRecords
      /\ record.finished = Other(current) /\ Other(record.finished) = current
      /\ record.queue = Spare
      /\ Spare > Own /\ Own \in 1..Len(queues) /\ Spare \in 1..Len(queues) /\ Len(queues) \in Nat
      /\ RecordRendered(record) /\ record.currentQueue = Own
      /\ record.remaining \subseteq lanes.pending
  BY FinishedRecord, QueueFacts DEF CommitFinishedHostRoot
<1>2. /\ queues' \in Seq(HostQueues) /\ Len(queues') = Len(queues)
      /\ \A h \in 1..Len(queues) : /\ h # Spare => queues'[h] = queues[h]
                                   /\ queues'[h].base = queues[h].base
                                   /\ queues'[h].pending = queues[h].pending
                                   /\ queues'[h].lanes = queues[h].lanes
      /\ Own' = Spare /\ Spare' = Own /\ CurrentQueue' = queues'[Spare]
  BY CommitIs
<1>3. /\ lanes' = MarkFinished(lanes, record.lanes, record.remaining, NoLane, {}, {})
      /\ current' = record.finished /\ work' = NoWork
      /\ fired' = fired \o queues[Spare].callbacks
      /\ shown' = record.memoized
      /\ commits' = Append(commits, Spare)
      /\ UNCHANGED <<fibers, records, staged, created, enqueued>>
  BY <1>1 DEF CommitFinishedHostRoot, TakeRootUpdateCallbackRecords
<1>4. /\ record.lanes \in SUBSET Lane /\ record.memoized \in Seq(Nat) /\ record.finished \in Fiber
      /\ record.remaining \in SUBSET Lane /\ record.remaining \in SUBSET lanes.pending
  BY <1>1 DEF HostRecords
<1>5. lanes \in RootLaneStates
  BY DEF LaneInv, Typed
<1> HIDE DEF record
<1>6. /\ lanes' \in RootLaneStates
      /\ FinishKeeps(lanes, lanes', record.remaining, NoLane)
  BY <1>3, <1>4, <1>5, FinishedTyped, FinishedEffect
<1>7. /\ lanes'.pending = record.remaining
      /\ lanes'.entangled = lanes.entangled \cap record.remaining
      /\ \A l \in record.remaining : lanes.entanglements[l] \subseteq lanes'.entanglements[l]
  <2>1. {NoLane} \cap Lane = {}
    BY LaneAssumption DEF AllLanes, NoLane
  <2> QED BY <2>1, <1>6 DEF FinishKeeps
<1>8. commits \in Seq(Nat) /\ commits' \in Seq(Nat) /\ Len(commits') = Len(commits) + 1
      /\ Len(commits) \in Nat /\ commits'[Len(commits) + 1] = Spare
      /\ \A j \in 1..Len(commits) : commits'[j] = commits[j]
  <2>1. commits \in Seq(Nat) /\ Spare \in Nat
    BY <1>1 DEF LaneInv, Typed
  <2> QED BY <2>1, <1>3, AppendProperties
<1>9. Typed'
  <2>1. NoWork \in [fiber : {0} \cup Fiber, lanes : SUBSET Lane]
    BY DEF NoWork
  <2>2. fired' \in Seq(Nat)
    <3>1. queues[Spare].callbacks \in Seq(Nat)
      BY <1>1, QueueFacts DEF HostQueues
    <3>2. fired \in Seq(Nat)
      BY DEF LaneInv, Typed
    <3> QED BY <3>1, <3>2, <1>3
  <2> QED BY <2>1, <2>2, <1>2, <1>3, <1>4, <1>6, <1>8 DEF LaneInv, Typed
<1>10. Handles'
  <2>1. ASSUME NEW j \in DOMAIN records
        PROVE  /\ records[j].currentQueue <= Spare /\ records[j].currentQueue < records[j].queue
               /\ records[j].queue <= Len(queues)
    <3>1. records[j].currentQueue \in Nat
      BY ElementsTyped DEF HostRecords
    <3> QED BY <3>1, <1>1 DEF LaneInv, Handles
  <2>2. DOMAIN commits = 1..Len(commits) /\ DOMAIN commits' = 1..(Len(commits) + 1)
    BY <1>8
  <2>3. \A j \in 1..Len(commits) : commits[j] <= Own /\ commits[j] \in Nat
    <3>1. \A j \in DOMAIN commits : commits[j] <= Own /\ commits[j] \in Nat
      BY ElementsTyped DEF LaneInv, Handles
    <3> QED BY <3>1, <2>2
  <2>4. ASSUME NEW j \in DOMAIN commits' PROVE commits'[j] <= Spare
    <3>1. CASE j \in 1..Len(commits)
      <4>1. commits[j] <= Own /\ commits[j] \in Nat /\ commits'[j] = commits[j]
        BY <3>1, <2>3, <1>8
      <4> QED BY <4>1, <1>1
    <3>2. CASE j = Len(commits) + 1
      BY <3>2, <1>1, <1>8
    <3> QED BY <3>1, <3>2, <2>2, <1>8
  <2>5. CommitsAreFresh'
    <3> SUFFICES ASSUME NEW j \in 1..(Len(commits) + 1), NEW k \in 1..(Len(commits) + 1), j < k
                 PROVE  commits'[j] < commits'[k]
      BY <2>2 DEF CommitsAreFresh
    <3>1. CASE k \in 1..Len(commits)
      <4>1. j \in 1..Len(commits)
        BY <3>1, <1>8
      <4> QED BY <3>1, <4>1, <2>2, <1>8 DEF LaneInv, Handles, CommitsAreFresh
    <3>2. CASE k = Len(commits) + 1
      <4>1. j \in 1..Len(commits)
        BY <3>2, <1>8
      <4> QED BY <3>2, <4>1, <2>3, <1>1, <1>8
    <3> QED BY <3>1, <3>2, <1>8
  <2> QED BY <2>1, <2>4, <2>5, <1>1, <1>2, <1>3 DEF Handles
<1>11. Entries'
  <2>1. ASSUME NEW j \in DOMAIN staged PROVE staged[j].queue <= Spare /\ staged[j].queue # Spare
    <3>1. staged[j].queue <= Own
      BY DEF LaneInv, Entries
    <3>2. staged[j].queue \in Nat
      BY ElementsTyped DEF HostEntries
    <3> QED BY <3>1, <3>2, <1>1
  <2> QED BY <2>1, <1>2, <1>3 DEF Entries
<1>12. Fresh'
  <2> SUFFICES ASSUME NEW j \in DOMAIN records, records[j].queue > Spare PROVE RecordRendered(records[j])'
    BY <1>2, <1>3 DEF Fresh
  <2>1. records[j].queue \in Nat /\ records[j].currentQueue \in Nat
    BY ElementsTyped DEF HostRecords
  <2>2. records[j].queue <= Len(queues) /\ records[j].currentQueue <= Own
    BY DEF LaneInv, Handles
  <2>3. /\ records[j].queue \in 1..Len(queues) /\ records[j].queue # Spare
        /\ records[j].queue > Own /\ records[j].currentQueue # Spare
    BY <2>1, <2>2, <1>1
  <2>4. RecordRendered(records[j]) /\ queues'[records[j].queue] = queues[records[j].queue]
    BY <2>3, <1>2 DEF LaneInv, Fresh
  <2> QED BY <2>3, <2>4, <1>2, <1>3 DEF RecordRendered
<1>13. Marks'
  BY <1>1, <1>2 DEF Marks
<1>14. LanesOf(QueuedUpdates(CurrentQueue)') = record.remaining
  <2>1. queues[Spare] \in HostQueues
    BY <1>1, QueueFacts
  <2>2. /\ queues[Spare].base \in Seq(HostUpdates) /\ queues[Spare].pending = <<>>
        /\ LanesOf(queues[Spare].base) = record.remaining
    BY <2>1, <1>1 DEF HostQueues, RecordRendered
  <2>3. QueuedUpdates(CurrentQueue)' = queues[Spare].base \o <<>>
    BY <2>2, <1>1, <1>2 DEF QueuedUpdates
  <2>4. queues[Spare].base \o <<>> = queues[Spare].base
    BY <2>2
  <2> QED BY <2>2, <2>3, <2>4
<1>15. PendingLanesAreQueued'
  BY <1>7, <1>14 DEF PendingLanesAreQueued
<1>16. Transitions'
  <2>1. QueuedTransitions' = record.remaining \cap TransitionLanes
    BY <1>14 DEF QueuedTransitions
  <2>2. CurrentQueue'.lanes = queues[Spare].lanes
    BY <1>1, <1>2
  <2>3. record.remaining \cap TransitionLanes \subseteq queues[Spare].lanes
    BY <1>1 DEF RecordRendered
  <2>4. record.remaining \cap TransitionLanes \subseteq QueuedTransitions
    BY <1>1 DEF RecordRendered, QueuedTransitions
  <2>5. \A l, m \in QueuedTransitions : Tied(l, m)
    BY DEF LaneInv, Transitions
  <2> QED BY <2>1, <2>2, <2>3, <2>4, <2>5, <1>7 DEF Transitions, Tied
<1> QED BY <1>9, <1>10, <1>11, <1>12, <1>13, <1>15, <1>16 DEF LaneInv

\* The lanes the scheduler renders are lanes of the root.
LEMMA RenderChoicesTyped ==
  ASSUME LaneInv, NEW R \in RenderChoices
  PROVE  R \in SUBSET Lane
<1>1. lanes \in RootLaneStates /\ work.lanes \in SUBSET Lane
  BY DEF LaneInv, Typed
<1>2. SelectedNextLanes(lanes, work.lanes, FALSE) \subseteq Lane
  BY <1>1, SelectedTyped
<1>3. SyncFlushLanes(lanes) \subseteq Lane
  <2>1. lanes.pending \in SUBSET Lane /\ \A l \in Lane : lanes.entanglements[l] \in SUBSET Lane
    BY <1>1 DEF RootLaneStates
  <2>2. HighestPriorityLanes(lanes.pending) \subseteq Lane
    BY <2>1, HighestPriorityLanesSubset
  <2> QED BY <2>1, <2>2 DEF SyncFlushLanes, EntangledLanesFor
<1> QED BY <1>2, <1>3 DEF RenderChoices

\* Every step keeps the invariant.
LEMMA LaneInvStep == LaneInv /\ [Next]_vars => LaneInv'
<1> SUFFICES ASSUME LaneInv, [Next]_vars PROVE LaneInv'
  OBVIOUS
<1>1. UpdateInputs \subseteq Lane /\ StageInputs \subseteq Lane \ TransitionLanes
  BY HostRootAssumption
<1>2. ASSUME NEW lane \in UpdateInputs, UpdateContainer(lane) PROVE LaneInv'
  BY <1>1, <1>2, ContainerStep
<1>3. ASSUME NEW lane \in UpdateInputs, UpdateContainerFails(lane) PROVE LaneInv'
  BY <1>1, <1>3, StageStep DEF UpdateContainerFails
<1>4. ASSUME NEW lane \in StageInputs, StageUpdate(lane) PROVE LaneInv'
  BY <1>1, <1>4, StageStep
<1>5. CASE FinishQueueingConcurrentUpdates
  BY <1>5, FinishStep
<1>6. ASSUME NEW R \in RenderChoices, RenderHostRootForLanes(R) PROVE LaneInv'
  BY <1>6, RenderChoicesTyped, RenderStep
<1>7. ASSUME NEW i \in DOMAIN records, CommitFinishedHostRoot(records[i]) PROVE LaneInv'
  BY <1>7, CommitStep
<1>8. CASE UNCHANGED vars
  BY <1>8 DEF vars, LaneInv, Typed, Handles, Entries, Fresh, RecordRendered, Marks, Transitions,
     PendingLanesAreQueued, QueuedTransitions, Tied, CurrentQueue, Own, Spare, Other, CommitsAreFresh
<1> QED BY <1>2, <1>3, <1>4, <1>5, <1>6, <1>7, <1>8 DEF Next, Update, Render, Commit

LEMMA AlwaysLaneInv == Spec => []LaneInv
  BY InitLaneInv, LaneInvStep, PTL DEF Spec

(***************************************************************************)
(* No update waits without a lane that will render it, and no lane is       *)
(* rendered for nothing, whatever comes between a render and its commit     *)
(* (finish_queueing_concurrent_updates, mark_finished): a commit leaves     *)
(* exactly the lanes of the updates its render skipped.                     *)
(***************************************************************************)
THEOREM UpdatesKeepTheirLanes == Spec => []PendingLanesAreQueued
<1>1. LaneInv => PendingLanesAreQueued
  BY DEF LaneInv
<1> QED BY <1>1, AlwaysLaneInv, PTL

(***************************************************************************)
(* Transitions that wait in one queue are entangled with each other, also   *)
(* when one was staged and refused, after a render, and after a commit that *)
(* finished only some of them (entangle_transition_update).                 *)
(***************************************************************************)
THEOREM TransitionsStayTogether == Spec => []QueuedTransitionsEntangled
<1>1. LaneInv => QueuedTransitionsEntangled
  BY DEF LaneInv, Transitions, Tied, QueuedTransitions, QueuedTransitionsEntangled, EntangledLanesFor
<1> QED BY <1>1, AlwaysLaneInv, PTL

(***************************************************************************)
(* A render record is committed at most once and never after a later one,   *)
(* and a commit that passes validate_finished_host_root knows the lane of   *)
(* every update of the current queue.                                       *)
(***************************************************************************)
THEOREM CommitsTakeCurrentRenders == Spec => []CommitsAreCurrent
<1>1. LaneInv => CommitsAreCurrent
  <2> SUFFICES ASSUME LaneInv PROVE CommitsAreFresh /\ CommitRejectsFreshLanes
    BY DEF CommitsAreCurrent
  <2>1. CommitsAreFresh
    BY DEF LaneInv, Handles
  <2>2. ASSUME NEW i \in DOMAIN records, FinishedHostRoot(records[i])
        PROVE  LanesOf(CurrentQueue.pending) \subseteq records[i].remaining
    BY <2>2, FinishedRecord DEF LaneInv, Marks
  <2> QED BY <2>1, <2>2 DEF CommitRejectsFreshLanes
<1> QED BY <1>1, AlwaysLaneInv, PTL

-----------------------------------------------------------------------------
(***************************************************************************)
(* Callbacks and what is on screen.  First about sequences of ids.          *)
(***************************************************************************)
LEMMA InOrderIsInjective ==
  ASSUME NEW a \in Seq(Nat), InInsertionOrder(a)
  PROVE  IsInjective(a)
<1> SUFFICES ASSUME NEW i \in DOMAIN a, NEW j \in DOMAIN a, a[i] = a[j], i # j PROVE FALSE
  BY DEF IsInjective
<1>1. DOMAIN a = 1..Len(a) /\ Len(a) \in Nat /\ a[i] \in Nat /\ a[j] \in Nat
  OBVIOUS
<1>2. i < j => a[i] < a[j]
  BY DEF InInsertionOrder
<1>3. j < i => a[j] < a[i]
  BY DEF InInsertionOrder
<1> QED BY <1>1, <1>2, <1>3

\* Two sequences without duplicates that share no element.
LEMMA ConcatInjective ==
  ASSUME NEW a \in Seq(Nat), NEW b \in Seq(Nat), IsInjective(a), IsInjective(b),
         Range(a) \cap Range(b) = {}
  PROVE  IsInjective(a \o b)
<1> DEFINE c == a \o b
<1>1. /\ c \in Seq(Nat)
      /\ Len(a) \in Nat /\ Len(b) \in Nat
      /\ \A i \in 1..Len(c) : \/ i \in 1..Len(a) /\ c[i] = a[i]
                              \/ i - Len(a) \in 1..Len(b) /\ c[i] = b[i - Len(a)]
  BY ConcatElements
<1>2. DOMAIN a = 1..Len(a) /\ DOMAIN b = 1..Len(b) /\ DOMAIN c = 1..Len(c) /\ Len(c) \in Nat
  BY <1>1
<1> HIDE DEF c
<1>3. \A i \in 1..Len(a), j \in 1..Len(b) : a[i] # b[j]
  BY <1>2 DEF Range
<1> SUFFICES ASSUME NEW i \in 1..Len(c), NEW j \in 1..Len(c), c[i] = c[j] PROVE i = j
  BY <1>2 DEF IsInjective, c
<1>4. CASE i \in 1..Len(a) /\ c[i] = a[i] /\ j \in 1..Len(a) /\ c[j] = a[j]
  BY <1>2, <1>4 DEF IsInjective
<1>5. CASE /\ i - Len(a) \in 1..Len(b) /\ c[i] = b[i - Len(a)]
           /\ j - Len(a) \in 1..Len(b) /\ c[j] = b[j - Len(a)]
  <2>1. i - Len(a) = j - Len(a)
    BY <1>2, <1>5 DEF IsInjective
  <2> QED BY <2>1, <1>1, <1>2
<1>6. CASE i \in 1..Len(a) /\ c[i] = a[i] /\ j - Len(a) \in 1..Len(b) /\ c[j] = b[j - Len(a)]
  BY <1>3, <1>6
<1>7. CASE j \in 1..Len(a) /\ c[j] = a[j] /\ i - Len(a) \in 1..Len(b) /\ c[i] = b[i - Len(a)]
  BY <1>3, <1>7
<1> QED BY <1>1, <1>4, <1>5, <1>6, <1>7

\* The ids at the given places of a queue.
LEMMA TakenIds ==
  ASSUME NEW u \in Seq(HostUpdates), NEW P \in SUBSET (1..Len(u))
  PROVE  LET taken == Ids(UpdatesAt(u, P))
         IN  /\ taken \in Seq(Nat)
             /\ Range(taken) = {u[i].id : i \in P}
             /\ InInsertionOrder(Ids(u)) => InInsertionOrder(taken)
<1> DEFINE c == UpdatesAt(u, P)
           taken == Ids(c)
<1>1. c \in Seq(HostUpdates) /\ Takes(u, P, c)
  BY UpdatesAtIs
<1> HIDE DEF c
<1>2. taken \in Seq(Nat) /\ Len(taken) = Len(c) /\ \A k \in 1..Len(c) : taken[k] = c[k].id
  BY <1>1, IdsTyped
<1> HIDE DEF taken
<1>3. DOMAIN taken = 1..Len(c)
  BY <1>2
<1>4. Range(taken) = {u[i].id : i \in P}
  <2>1. ASSUME NEW x \in Range(taken) PROVE x \in {u[i].id : i \in P}
    <3>1. PICK k \in 1..Len(c) : x = taken[k]
      BY <1>3 DEF Range
    <3>2. PICK i \in P : c[k] = u[i]
      BY <1>1 DEF Takes
    <3> QED BY <3>1, <3>2, <1>2
  <2>2. ASSUME NEW i \in P PROVE u[i].id \in Range(taken)
    <3>1. PICK k \in 1..Len(c) : c[k] = u[i]
      BY <1>1 DEF Takes
    <3> QED BY <3>1, <1>2, <1>3 DEF Range
  <2> QED BY <2>1, <2>2
<1>5. ASSUME InInsertionOrder(Ids(u)) PROVE InInsertionOrder(taken)
  <2>1. DOMAIN Ids(u) = 1..Len(u) /\ \A i \in 1..Len(u) : Ids(u)[i] = u[i].id
    BY IdsTyped DEF Ids
  <2> SUFFICES ASSUME NEW j \in 1..Len(c), NEW k \in 1..Len(c), j < k PROVE taken[j] < taken[k]
    BY <1>3 DEF InInsertionOrder
  <2>2. PICK x \in P, y \in P : x < y /\ c[j] = u[x] /\ c[k] = u[y]
    BY <1>1 DEF Takes
  <2>3. u[x].id < u[y].id
    BY <2>1, <2>2, <1>5 DEF InInsertionOrder
  <2> QED BY <2>2, <2>3, <1>2
<1> QED BY <1>2, <1>4, <1>5 DEF taken, c

(***************************************************************************)
(* Rendering moves ids from the base queue to the base state and loses none *)
(* of them.                                                                 *)
(***************************************************************************)
LEMMA ProcessKeepsIds ==
  ASSUME NEW u \in Seq(HostUpdates), NEW R
  PROVE  Ids(ProcessBefore(u, R)) \o Ids(RebasedQueue(u, R)) = Ids(u)
<1> DEFINE b == Ids(ProcessBefore(u, R))
           k == Ids(RebasedQueue(u, R))
           skipAt == FirstSkipped(u, R)
           w == b \o k
           v == Ids(u)
<1>1. /\ v \in Seq(Nat) /\ Len(v) = Len(u) /\ Len(u) \in Nat
      /\ \A i \in 1..Len(u) : v[i] = u[i].id
  BY IdsTyped
<1>2. /\ ProcessBefore(u, R) \in Seq(HostUpdates) /\ Len(ProcessBefore(u, R)) = skipAt - 1
      /\ \A i \in 1..(skipAt - 1) : i \in 1..Len(u) /\ ProcessBefore(u, R)[i] = u[i]
  BY ProcessBeforeIs
<1>3. /\ RebasedQueue(u, R) \in Seq(HostUpdates) /\ Len(RebasedQueue(u, R)) = Len(u) + 1 - skipAt
      /\ \A j \in 1..Len(RebasedQueue(u, R)) : /\ skipAt + j - 1 \in 1..Len(u)
                                               /\ RebasedQueue(u, R)[j] = Rebase(u[skipAt + j - 1], R)
  BY RebasedQueueIs
<1>4. skipAt \in 1..(Len(u) + 1)
  BY FirstSkippedIs
<1> HIDE DEF skipAt
<1>5. b \in Seq(Nat) /\ Len(b) = skipAt - 1 /\ \A i \in 1..(skipAt - 1) : b[i] = u[i].id
  BY <1>2, IdsTyped
<1>6. /\ k \in Seq(Nat) /\ Len(k) = Len(u) + 1 - skipAt
      /\ \A j \in 1..(Len(u) + 1 - skipAt) : k[j] = u[skipAt + j - 1].id
  <2>1. /\ k \in Seq(Nat) /\ Len(k) = Len(u) + 1 - skipAt
        /\ \A j \in 1..(Len(u) + 1 - skipAt) : k[j] = RebasedQueue(u, R)[j].id
    BY <1>3, IdsTyped
  <2>2. \A i \in 1..Len(u) : Rebase(u[i], R).id = u[i].id
    <3>1. \A i \in 1..Len(u) : u[i] \in HostUpdates
      OBVIOUS
    <3> QED BY <3>1 DEF Rebase, HostUpdates
  <2> QED BY <2>1, <2>2, <1>3
<1> HIDE DEF b, k, v
<1>7. /\ w \in Seq(Nat) /\ Len(w) = Len(b) + Len(k)
      /\ \A i \in 1..Len(w) : \/ i \in 1..Len(b) /\ w[i] = b[i]
                              \/ i - Len(b) \in 1..Len(k) /\ w[i] = k[i - Len(b)]
  <2>1. b \in Seq(Nat) /\ k \in Seq(Nat)
    BY <1>5, <1>6
  <2> QED BY <2>1, ConcatIds, Zenon
<1> HIDE DEF w
<1>8. Len(w) = Len(v)
  BY <1>1, <1>4, <1>5, <1>6, <1>7
<1>9. ASSUME NEW i \in 1..Len(w) PROVE w[i] = v[i]
  <2>1. i \in 1..Len(u) /\ v[i] = u[i].id
    BY <1>1, <1>8
  <2>2. CASE i \in 1..Len(b) /\ w[i] = b[i]
    BY <2>1, <2>2, <1>5
  <2>3. CASE i - Len(b) \in 1..Len(k) /\ w[i] = k[i - Len(b)]
    <3> DEFINE j == i - Len(b)
    <3>1. j \in 1..(Len(u) + 1 - skipAt) /\ skipAt + j - 1 = i
      BY <2>1, <2>3, <1>1, <1>4, <1>5, <1>6
    <3> HIDE DEF j
    <3>2. k[j] = u[i].id
      BY <3>1, <1>6
    <3> QED BY <2>1, <2>3, <3>2 DEF j
  <2> QED BY <2>2, <2>3, <1>7
<1>10. w = v
  BY <1>1, <1>7, <1>8, <1>9, SeqEqual
<1> QED BY <1>10 DEF w, v, b, k

\* The updates of a queue that are on screen when its owner is current.
AppliedIds(q) ==
  Range(q.baseState) \cup {q.base[i].id : i \in {j \in DOMAIN q.base : q.base[j].lanes = {}}}

\* An update waits with its callback; once applied it has none.
UpdateOK(u) == u.callback = (u.lanes # {} /\ u.id \in CallbackIds)

BaseOK(q) ==
  /\ InInsertionOrder(q.baseState \o Ids(q.base))
  /\ \A i \in DOMAIN q.base : UpdateOK(q.base[i])

\* Rendering keeps the order of the queue, and what is kept of it is in shape.
LEMMA ProcessRebases ==
  ASSUME NEW q \in HostQueues, NEW R, BaseOK(q)
  PROVE  LET r == ProcessHostRootUpdateQueue(q, R)
         IN  /\ r.queue.baseState \o Ids(r.queue.base) = q.baseState \o Ids(q.base)
             /\ BaseOK(r.queue)
<1> DEFINE u == q.base
           r == ProcessHostRootUpdateQueue(q, R)
           b == Ids(ProcessBefore(u, R))
           k == Ids(RebasedQueue(u, R))
<1>1. u \in Seq(HostUpdates) /\ q.baseState \in Seq(Nat) /\ DOMAIN u = 1..Len(u)
  BY DEF HostQueues
<1> HIDE DEF u, r
<1>2. r.queue.baseState = q.baseState \o b /\ r.queue.base = RebasedQueue(u, R)
  BY ProcessFields, Zenon DEF u, r
<1>3. b \in Seq(Nat) /\ k \in Seq(Nat) /\ b \o k = Ids(u)
  BY <1>1, ProcessBeforeIs, RebasedQueueIs, IdsTyped, ProcessKeepsIds
<1>4. (q.baseState \o b) \o k = q.baseState \o Ids(u)
  <2> HIDE DEF b, k
  <2>1. (q.baseState \o b) \o k = q.baseState \o (b \o k)
    BY <1>1, <1>3, ConcatIdsAssociative, Zenon
  <2> QED BY <2>1, <1>3
<1>5. ASSUME NEW j \in DOMAIN RebasedQueue(u, R) PROVE UpdateOK(RebasedQueue(u, R)[j])
  <2> DEFINE i == FirstSkipped(u, R) + j - 1
  <2>1. /\ RebasedQueue(u, R) \in Seq(HostUpdates)
        /\ \A m \in 1..Len(RebasedQueue(u, R)) :
             /\ FirstSkipped(u, R) + m - 1 \in 1..Len(u)
             /\ RebasedQueue(u, R)[m] = Rebase(u[FirstSkipped(u, R) + m - 1], R)
    BY <1>1, RebasedQueueIs, Zenon
  <2>2. j \in 1..Len(RebasedQueue(u, R))
    BY <2>1
  <2>3. i \in 1..Len(u) /\ RebasedQueue(u, R)[j] = Rebase(u[i], R)
    BY <2>1, <2>2
  <2> HIDE DEF i
  <2>4. u[i] \in HostUpdates /\ UpdateOK(u[i])
    <3>1. u[i] \in HostUpdates /\ i \in DOMAIN u
      BY <2>3, <1>1
    <3>2. \A m \in DOMAIN u : UpdateOK(u[m])
      BY DEF BaseOK, u
    <3> QED BY <3>1, <3>2
  <2>5. UpdateOK(Rebase(u[i], R))
    <3>1. CASE Skipped(u[i], R)
      BY <3>1, <2>4 DEF Rebase
    <3>2. CASE ~ Skipped(u[i], R)
      <4>1. Rebase(u[i], R).lanes = {} /\ Rebase(u[i], R).callback = FALSE
        BY <3>2, <2>4 DEF Rebase, HostUpdates
      <4> QED BY <4>1 DEF UpdateOK
    <3> QED BY <3>1, <3>2
  <2> QED BY <2>3, <2>5
<1>6. InInsertionOrder(q.baseState \o Ids(u))
  BY DEF BaseOK, u
<1> QED BY <1>2, <1>4, <1>5, <1>6 DEF BaseOK, r, u

(***************************************************************************)
(* The memoized state holds, in insertion order, the base state and every   *)
(* update that was not skipped; so does the queue that is left.             *)
(***************************************************************************)
LEMMA ProcessApplies ==
  ASSUME NEW q \in HostQueues, NEW R, BaseOK(q)
  PROVE  LET r == ProcessHostRootUpdateQueue(q, R)
         IN  /\ Range(r.memoized)
                  = Range(q.baseState) \cup {q.base[i].id : i \in ProcessApplied(q.base, R)}
             /\ InInsertionOrder(r.memoized)
             /\ AppliedIds(r.queue) = Range(r.memoized)
<1> DEFINE u == q.base
           r == ProcessHostRootUpdateQueue(q, R)
           b == Ids(ProcessBefore(u, R))
           kept == RebasedQueue(u, R)
           skipAt == FirstSkipped(u, R)
           P == ProcessApplied(u, R)
           taken == Ids(UpdatesAt(u, P))
<1>1. u \in Seq(HostUpdates) /\ q.baseState \in Seq(Nat) /\ DOMAIN u = 1..Len(u) /\ Len(u) \in Nat
  BY DEF HostQueues
<1>2. InInsertionOrder(q.baseState \o Ids(u))
  BY DEF BaseOK
<1> HIDE DEF u, r
<1>3. /\ r.queue.baseState = q.baseState \o b /\ r.queue.base = kept
      /\ r.memoized = q.baseState \o taken
  BY ProcessFields, Zenon DEF u, r
<1>4. P \in SUBSET (1..Len(u)) /\ \A i \in 1..Len(u) : i \in P <=> ~ Skipped(u[i], R)
  BY <1>1 DEF ProcessApplied, ProcessSkipped
<1>5. /\ Ids(u) \in Seq(Nat) /\ Len(Ids(u)) = Len(u)
      /\ \A i \in 1..Len(u) : Ids(u)[i] = u[i].id /\ u[i] \in HostUpdates
  BY <1>1, IdsTyped
<1>6. /\ InInsertionOrder(q.baseState) /\ InInsertionOrder(Ids(u))
      /\ \A i \in 1..Len(q.baseState), j \in 1..Len(u) : q.baseState[i] < u[j].id
  BY <1>1, <1>2, <1>5, ConcatInOrder
<1> HIDE DEF P
<1>7. taken \in Seq(Nat) /\ Range(taken) = {u[i].id : i \in P} /\ InInsertionOrder(taken)
  BY <1>1, <1>4, <1>6, TakenIds
<1> HIDE DEF taken
<1>8. Range(r.memoized) = Range(q.baseState) \cup {u[i].id : i \in P}
  BY <1>1, <1>3, <1>7, RangeConcatenation
<1>9. InInsertionOrder(r.memoized)
  <2>1. ASSUME NEW i \in 1..Len(q.baseState), NEW j \in 1..Len(taken) PROVE q.baseState[i] < taken[j]
    <3>1. taken[j] \in Range(taken)
      BY <1>7 DEF Range
    <3>2. PICK m \in P : taken[j] = u[m].id
      BY <3>1, <1>7
    <3> QED BY <3>2, <1>4, <1>6
  <2> QED BY <2>1, <1>1, <1>3, <1>6, <1>7, ConcatInOrder
<1>10. /\ b \in Seq(Nat) /\ Len(b) = skipAt - 1
       /\ \A i \in 1..(skipAt - 1) : i \in 1..Len(u) /\ b[i] = u[i].id
  <2>1. /\ ProcessBefore(u, R) \in Seq(HostUpdates) /\ Len(ProcessBefore(u, R)) = skipAt - 1
        /\ \A i \in 1..(skipAt - 1) : i \in 1..Len(u) /\ ProcessBefore(u, R)[i] = u[i]
    BY <1>1, ProcessBeforeIs
  <2> HIDE DEF skipAt
  <2> QED BY <2>1, IdsTyped
<1>11. skipAt \in 1..(Len(u) + 1) /\ \A i \in 1..Len(u) : i < skipAt => ~ Skipped(u[i], R)
  BY <1>1, FirstSkippedIs
<1>12. /\ kept \in Seq(HostUpdates)
       /\ \A k \in 1..Len(kept) : /\ skipAt + k - 1 \in 1..Len(u)
                                  /\ kept[k] = Rebase(u[skipAt + k - 1], R)
       /\ \A i \in 1..Len(u) : skipAt <= i => /\ i + 1 - skipAt \in 1..Len(kept)
                                             /\ kept[i + 1 - skipAt] = Rebase(u[i], R)
  BY <1>1, RebasedQueueIs, Zenon
<1> HIDE DEF b, kept, skipAt
<1>13. \A i \in 1..Len(u) : /\ Rebase(u[i], R).id = u[i].id
                            /\ Rebase(u[i], R).lanes = {} <=> ~ Skipped(u[i], R)
  <2> TAKE i \in 1..Len(u)
  <2>1. u[i] \in HostUpdates
    BY <1>5
  <2>2. CASE Skipped(u[i], R)
    BY <2>2 DEF Rebase, Skipped
  <2>3. CASE ~ Skipped(u[i], R)
    BY <2>1, <2>3 DEF Rebase, HostUpdates
  <2> QED BY <2>2, <2>3
<1>14. DOMAIN kept = 1..Len(kept) /\ DOMAIN b = 1..(skipAt - 1)
  BY <1>10, <1>12
<1>15. Range(r.queue.baseState) = Range(q.baseState) \cup Range(b)
  BY <1>1, <1>3, <1>10, RangeConcatenation
<1>16. ASSUME NEW x \in AppliedIds(r.queue) PROVE x \in Range(r.memoized)
  <2>1. CASE x \in Range(q.baseState)
    BY <2>1, <1>8
  <2>2. CASE x \in Range(b)
    <3>1. PICK i \in 1..(skipAt - 1) : x = u[i].id /\ i \in 1..Len(u)
      BY <2>2, <1>10, <1>14 DEF Range
    <3>2. i \in P
      BY <3>1, <1>1, <1>4, <1>11
    <3> QED BY <3>1, <3>2, <1>8
  <2>3. CASE x \in {kept[k].id : k \in {m \in DOMAIN kept : kept[m].lanes = {}}}
    <3>1. PICK k \in 1..Len(kept) : kept[k].lanes = {} /\ x = kept[k].id
      BY <2>3, <1>14
    <3> DEFINE i == skipAt + k - 1
    <3>2. i \in 1..Len(u) /\ kept[k] = Rebase(u[i], R)
      BY <1>12
    <3> HIDE DEF i
    <3>3. i \in P /\ x = u[i].id
      BY <3>1, <3>2, <1>4, <1>13
    <3> QED BY <3>3, <1>8
  <2> QED BY <2>1, <2>2, <2>3, <1>3, <1>15 DEF AppliedIds
<1>17. ASSUME NEW x \in Range(r.memoized) PROVE x \in AppliedIds(r.queue)
  <2>1. CASE x \in Range(q.baseState)
    BY <2>1, <1>15 DEF AppliedIds
  <2>2. CASE x \in {u[i].id : i \in P}
    <3>1. PICK i \in P : x = u[i].id
      BY <2>2
    <3>2. i \in 1..Len(u) /\ ~ Skipped(u[i], R)
      BY <1>4
    <3>3. CASE i < skipAt
      <4>1. i \in 1..(skipAt - 1)
        BY <3>2, <3>3, <1>1, <1>11
      <4>2. x \in Range(b)
        BY <4>1, <3>1, <1>10, <1>14 DEF Range
      <4> QED BY <4>2, <1>15 DEF AppliedIds
    <3>4. CASE skipAt <= i
      <4> DEFINE k == i + 1 - skipAt
      <4>1. k \in 1..Len(kept) /\ kept[k] = Rebase(u[i], R)
        BY <3>2, <3>4, <1>12
      <4> HIDE DEF k
      <4>2. kept[k].lanes = {} /\ kept[k].id = x
        BY <4>1, <3>1, <3>2, <1>13
      <4> QED BY <4>1, <4>2, <1>3, <1>14 DEF AppliedIds
    <3> QED BY <3>2, <3>3, <3>4, <1>1, <1>11
  <2> QED BY <2>1, <2>2, <1>8
<1> QED BY <1>8, <1>9, <1>16, <1>17 DEF r, u, P

(***************************************************************************)
(* A render applies again what was applied before, and collects the         *)
(* callbacks of what it applies for the first time.                         *)
(***************************************************************************)
LEMMA ProcessCalls ==
  ASSUME NEW q \in HostQueues, NEW R, BaseOK(q), q.callbacks = <<>>
  PROVE  LET r == ProcessHostRootUpdateQueue(q, R)
         IN  /\ AppliedIds(q) \subseteq Range(r.memoized)
             /\ IsInjective(r.queue.callbacks)
             /\ Range(r.queue.callbacks) = (Range(r.memoized) \ AppliedIds(q)) \cap CallbackIds
<1> DEFINE u == q.base
           r == ProcessHostRootUpdateQueue(q, R)
           P == ProcessApplied(u, R)
           C == ProcessCalled(u, R)
           taken == Ids(UpdatesAt(u, C))
<1>1. u \in Seq(HostUpdates) /\ q.baseState \in Seq(Nat) /\ DOMAIN u = 1..Len(u) /\ Len(u) \in Nat
  BY DEF HostQueues
<1>2. InInsertionOrder(q.baseState \o Ids(u)) /\ \A i \in DOMAIN u : UpdateOK(u[i])
  BY DEF BaseOK
<1>3. AppliedIds(q) = Range(q.baseState) \cup {u[i].id : i \in {j \in DOMAIN u : u[j].lanes = {}}}
  BY DEF AppliedIds
<1>4. Range(r.memoized) = Range(q.baseState) \cup {u[i].id : i \in P}
  BY ProcessApplies
<1> HIDE DEF u, r
<1>5. r.queue.callbacks = <<>> \o taken
  BY ProcessFields, Zenon DEF u, r
<1>6. /\ P \in SUBSET (1..Len(u)) /\ C \in SUBSET (1..Len(u))
      /\ \A i \in 1..Len(u) : i \in P <=> ~ Skipped(u[i], R)
      /\ \A i \in 1..Len(u) : i \in C <=> i \in P /\ u[i].callback
  BY <1>1 DEF ProcessApplied, ProcessSkipped, ProcessCalled
<1>7. /\ Ids(u) \in Seq(Nat) /\ DOMAIN Ids(u) = 1..Len(u) /\ Len(Ids(u)) = Len(u)
      /\ \A i \in 1..Len(u) : Ids(u)[i] = u[i].id
  BY <1>1, IdsTyped
<1>8. /\ InInsertionOrder(Ids(u)) /\ IsInjective(Ids(u))
      /\ \A i \in 1..Len(q.baseState), j \in 1..Len(u) : q.baseState[i] < u[j].id
  BY <1>1, <1>2, <1>7, ConcatInOrder, InOrderIsInjective
<1>9. \A i, j \in 1..Len(u) : u[i].id = u[j].id => i = j
  BY <1>7, <1>8 DEF IsInjective
<1>10. \A j \in 1..Len(u) : u[j].id \notin Range(q.baseState)
  <2> SUFFICES ASSUME NEW j \in 1..Len(u), u[j].id \in Range(q.baseState) PROVE FALSE
    OBVIOUS
  <2>0. q.baseState \in Seq(Nat)
    BY <1>1
  <2>1. PICK i \in 1..Len(q.baseState) : u[j].id = q.baseState[i]
    <3>1. DOMAIN q.baseState = 1..Len(q.baseState)
      BY <2>0
    <3>2. PICK i \in DOMAIN q.baseState : u[j].id = q.baseState[i]
      BY Zenon DEF Range
    <3> QED BY <3>1, <3>2
  <2>2. q.baseState[i] < u[j].id /\ q.baseState[i] \in Nat
    BY <2>0, <1>8
  <2> QED BY <2>1, <2>2
<1> HIDE DEF P, C
<1>11. taken \in Seq(Nat) /\ Range(taken) = {u[i].id : i \in C} /\ InInsertionOrder(taken)
  BY <1>1, <1>6, <1>8, TakenIds
<1> HIDE DEF taken
<1>12. r.queue.callbacks = taken
  BY <1>5, <1>11, ConcatEmptySeq
<1>13. IsInjective(r.queue.callbacks)
  BY <1>11, <1>12, InOrderIsInjective
<1>14. \A i \in 1..Len(u) : u[i].lanes = {} => i \in P
  BY <1>6 DEF Skipped
<1>15. AppliedIds(q) \subseteq Range(r.memoized)
  BY <1>1, <1>3, <1>4, <1>14
<1>16. ASSUME NEW i \in 1..Len(u)
       PROVE  u[i].id \in AppliedIds(q) <=> u[i].lanes = {}
  BY <1>1, <1>3, <1>9, <1>10
<1>17. \A i \in 1..Len(u) : u[i].callback = (u[i].lanes # {} /\ u[i].id \in CallbackIds)
  BY <1>1, <1>2 DEF UpdateOK
<1>18. ASSUME NEW x \in Range(taken)
       PROVE  x \in (Range(r.memoized) \ AppliedIds(q)) \cap CallbackIds
  <2>1. PICK i \in C : x = u[i].id
    BY <1>11
  <2>2. i \in 1..Len(u) /\ i \in P /\ u[i].callback
    BY <1>6
  <2>3. u[i].lanes # {} /\ u[i].id \in CallbackIds
    BY <2>2, <1>17
  <2> QED BY <2>1, <2>2, <2>3, <1>4, <1>16
<1>19. ASSUME NEW x \in Range(r.memoized), x \notin AppliedIds(q), x \in CallbackIds
       PROVE  x \in Range(taken)
  <2>1. PICK i \in P : x = u[i].id
    BY <1>3, <1>4, <1>19
  <2>2. i \in 1..Len(u)
    BY <1>6
  <2>3. u[i].lanes # {}
    BY <2>1, <2>2, <1>16, <1>19
  <2>4. u[i].callback
    BY <2>1, <2>2, <2>3, <1>17, <1>19
  <2> QED BY <2>1, <2>2, <2>4, <1>6, <1>11
<1> QED BY <1>12, <1>13, <1>15, <1>18, <1>19 DEF r

-----------------------------------------------------------------------------
(***************************************************************************)
(* The history of a queue.                                                  *)
(***************************************************************************)
LEMMA HistoryTyped ==
  ASSUME NEW q \in HostQueues
  PROVE  /\ q.baseState \in Seq(Nat) /\ Ids(q.base) \in Seq(Nat) /\ Ids(q.pending) \in Seq(Nat)
         /\ q.baseState \o Ids(q.base) \in Seq(Nat)
         /\ History(q) = (q.baseState \o Ids(q.base)) \o Ids(q.pending)
         /\ History(q) \in Seq(Nat)
<1>1. q.baseState \in Seq(Nat) /\ q.base \in Seq(HostUpdates) /\ q.pending \in Seq(HostUpdates)
  BY DEF HostQueues
<1>2. Ids(q.base) \in Seq(Nat) /\ Ids(q.pending) \in Seq(Nat)
  BY <1>1, IdsTyped
<1>3. q.baseState \o Ids(q.base) \in Seq(Nat)
  BY <1>1, <1>2, ConcatIds
<1>4. (q.baseState \o Ids(q.base)) \o Ids(q.pending) \in Seq(Nat)
  BY <1>2, <1>3, ConcatIds
<1> QED BY <1>1, <1>2, <1>3, <1>4 DEF History

\* Draining appends to the history.
LEMMA HistoryAppended ==
  ASSUME NEW q \in HostQueues, NEW r \in HostQueues, NEW us \in Seq(HostUpdates),
         r.baseState = q.baseState, r.base = q.base, r.pending = q.pending \o us
  PROVE  History(r) = History(q) \o Ids(us)
<1> DEFINE x == q.baseState \o Ids(q.base)
           y == Ids(q.pending)
           z == Ids(us)
<1>1. x \in Seq(Nat) /\ y \in Seq(Nat) /\ History(q) = x \o y
  BY HistoryTyped
<1>2. z \in Seq(Nat)
  BY IdsTyped
<1>3. q.pending \in Seq(HostUpdates)
  BY DEF HostQueues
<1>4. Ids(r.pending) = y \o z
  BY <1>3, ConcatUpdates
<1>5. History(r) = x \o (y \o z)
  BY <1>4, HistoryTyped
<1> HIDE DEF x, y, z
<1>6. (x \o y) \o z = x \o (y \o z)
  BY <1>1, <1>2, ConcatIdsAssociative, Zenon
<1> QED BY <1>1, <1>5, <1>6 DEF z

\* Moving the pending ring to the base does not change the history.
LEMMA HistoryMoved ==
  ASSUME NEW q \in HostQueues, NEW r \in HostQueues,
         r.baseState = q.baseState, r.base = q.base \o q.pending, r.pending = <<>>
  PROVE  /\ History(r) = History(q)
         /\ r.baseState \o Ids(r.base) = History(q)
<1> DEFINE x == q.baseState
           y == Ids(q.base)
           z == Ids(q.pending)
<1>1. x \in Seq(Nat) /\ y \in Seq(Nat) /\ z \in Seq(Nat) /\ History(q) = (x \o y) \o z
  BY HistoryTyped
<1>2. q.pending \in Seq(HostUpdates) /\ q.base \in Seq(HostUpdates)
  BY DEF HostQueues
<1>3. Ids(r.base) = y \o z
  BY <1>2, ConcatUpdates
<1>4. (x \o y) \o z = x \o (y \o z)
  <2> HIDE DEF x, y, z
  <2> QED BY <1>1, ConcatIdsAssociative, Zenon
<1>5. r.baseState \o Ids(r.base) = History(q)
  BY <1>1, <1>3, <1>4
<1>6. History(r) = (r.baseState \o Ids(r.base)) \o <<>>
  BY HistoryTyped, EmptyUpdates
<1>7. r.baseState \o Ids(r.base) \in Seq(Nat)
  BY HistoryTyped
<1>8. History(r) = r.baseState \o Ids(r.base)
  BY <1>6, <1>7, ConcatEmptySeq
<1> QED BY <1>5, <1>8

\* A queue without pending updates.
LEMMA HistoryOfBase ==
  ASSUME NEW q \in HostQueues, q.pending = <<>>
  PROVE  History(q) = q.baseState \o Ids(q.base)
<1>1. History(q) = (q.baseState \o Ids(q.base)) \o <<>> /\ q.baseState \o Ids(q.base) \in Seq(Nat)
  BY HistoryTyped, EmptyUpdates
<1> QED BY <1>1, ConcatEmptySeq

(***************************************************************************)
(* The invariant for callbacks and the state on screen.                     *)
(***************************************************************************)
UpdatesOK(q) ==
  /\ \A i \in DOMAIN q.base : UpdateOK(q.base[i])
  /\ \A i \in DOMAIN q.pending : UpdateOK(q.pending[i]) /\ q.pending[i].lanes # {}

\* Ids in insertion order, older than every staged update.
IdsOK(ids, n, entries) ==
  /\ InInsertionOrder(ids)
  /\ \A i \in DOMAIN ids : ids[i] <= n
  /\ \A i \in DOMAIN ids, j \in DOMAIN entries : ids[i] < entries[j].update.id

QueuesOK ==
  \A h \in 1..Len(queues) : /\ UpdatesOK(queues[h])
                            /\ IdsOK(History(queues[h]), created, staged)

StagedOK ==
  /\ InInsertionOrder(Ids(UpdatesOf(staged)))
  /\ \A i \in DOMAIN staged : /\ staged[i].update.id <= created
                              /\ UpdateOK(staged[i].update)
                              /\ staged[i].update.lanes # {}

OnScreen ==
  /\ Range(shown) = AppliedIds(CurrentQueue)
  /\ InInsertionOrder(shown)
  /\ CallbacksMatchShownState

\* What the commit of a record would show and call.
Shows(record) ==
  /\ Range(record.memoized) = AppliedIds(queues[record.queue])
  /\ InInsertionOrder(record.memoized)
  /\ IsInjective(queues[record.queue].callbacks)
  /\ record.currentQueue = Own =>
       /\ Range(shown) \subseteq Range(record.memoized)
       /\ Range(queues[record.queue].callbacks)
            = (Range(record.memoized) \ Range(shown)) \cap CallbackIds

RecordsOK == \A i \in DOMAIN records : records[i].queue > Own => Shows(records[i])

ScreenInv == QueuesOK /\ StagedOK /\ OnScreen /\ RecordsOK

LEMMA InitScreenInv == Init => ScreenInv
<1> SUFFICES ASSUME Init PROVE ScreenInv
  OBVIOUS
<1>1. /\ EmptyQueue.base = <<>> /\ EmptyQueue.pending = <<>> /\ EmptyQueue.baseState = <<>>
      /\ EmptyQueue \in HostQueues
  BY DEF EmptyQueue, HostQueues
<1>2. Len(queues) = 1 /\ queues[1] = EmptyQueue /\ CurrentQueue = EmptyQueue
  BY DEF Init, CurrentQueue, Fiber
<1>3. History(EmptyQueue) = <<>>
  <2>1. History(EmptyQueue) = <<>> \o <<>>
    BY <1>1, HistoryOfBase, EmptyUpdates
  <2> QED BY <2>1
<1>4. QueuesOK
  <2>1. UpdatesOK(EmptyQueue)
    BY <1>1 DEF UpdatesOK
  <2>2. IdsOK(<<>>, created, staged)
    BY DEF IdsOK, InInsertionOrder
  <2> QED BY <2>1, <2>2, <1>2, <1>3 DEF QueuesOK
<1>5. StagedOK
  <2>1. UpdatesOf(<<>>) = <<>>
    BY DEF UpdatesOf
  <2> QED BY <2>1, EmptyUpdates DEF Init, StagedOK, InInsertionOrder
<1>6. OnScreen
  <2>1. Range(<<>>) = {} /\ IsInjective(<<>>) /\ InInsertionOrder(<<>>)
    BY DEF Range, IsInjective, InInsertionOrder
  <2> QED BY <2>1, <1>1, <1>2 DEF Init, OnScreen, AppliedIds, CallbacksMatchShownState
<1>7. RecordsOK
  BY DEF Init, RecordsOK
<1> QED BY <1>4, <1>5, <1>6, <1>7 DEF ScreenInv

\* Draining keeps the screen invariant, if the drained updates are in order.
LEMMA AppendsScreen ==
  ASSUME LaneInv, ScreenInv, NEW us \in Seq(HostUpdates), Appends(us),
         created <= created', InInsertionOrder(Ids(us)),
         \A i \in DOMAIN us : /\ UpdateOK(us[i]) /\ us[i].lanes # {} /\ us[i].id <= created',
         \A i \in DOMAIN History(CurrentQueue), j \in DOMAIN us : History(CurrentQueue)[i] < us[j].id
  PROVE  ScreenInv'
<1>1. /\ Own \in 1..Len(queues) /\ CurrentQueue = queues[Own] /\ CurrentQueue \in HostQueues
      /\ Len(queues) \in Nat /\ \A h \in 1..Len(queues) : queues[h] \in HostQueues
  BY QueueFacts
<1>2. Own' = Own
  BY MarkedFibers, IdsTyped DEF Appends
<1>3. CurrentQueue' = queues'[Own]
  BY <1>2 DEF CurrentQueue, Own
<1>4. /\ Len(queues') = Len(queues) /\ queues'[Own] \in HostQueues
      /\ \A h \in 1..Len(queues) : h # Own => queues'[h] = queues[h]
      /\ queues'[Own].baseState = CurrentQueue.baseState
      /\ queues'[Own].base = CurrentQueue.base
      /\ queues'[Own].pending = CurrentQueue.pending \o us
      /\ queues'[Own].callbacks = CurrentQueue.callbacks
      /\ staged' = <<>> /\ created' \in Nat /\ created \in Nat
      /\ UNCHANGED <<current, records, shown, fired>>
  <2>1. queues' \in Seq(HostQueues) /\ Len(queues') = Len(queues)
    BY DEF Appends
  <2>2. queues'[Own] \in HostQueues
    BY <2>1, <1>1
  <2> QED BY <2>2 DEF Appends, LaneInv, Typed
<1>5. IdsOK(History(queues'[Own]), created', staged')
  <2> DEFINE h == History(CurrentQueue)
             d == Ids(us)
             all == h \o d
  <2>1. History(queues'[Own]) = all
    BY <1>1, <1>4, HistoryAppended
  <2>2. h \in Seq(Nat) /\ d \in Seq(Nat) /\ Len(d) = Len(us) /\ \A i \in 1..Len(us) : d[i] = us[i].id
    BY <1>1, HistoryTyped, IdsTyped
  <2>3. DOMAIN h = 1..Len(h) /\ DOMAIN us = 1..Len(us)
    BY <2>2
  <2>4. InInsertionOrder(h) /\ InInsertionOrder(d) /\ \A i \in DOMAIN h : h[i] <= created
    BY <1>1 DEF ScreenInv, QueuesOK, IdsOK
  <2>5. \A i \in 1..Len(h), j \in 1..Len(d) : h[i] < d[j]
    BY <2>2, <2>3
  <2> HIDE DEF h, d
  <2>6. InInsertionOrder(all)
    BY <2>2, <2>4, <2>5, ConcatInOrder
  <2>7. ASSUME NEW i \in DOMAIN all PROVE all[i] <= created'
    <3>1. /\ all \in Seq(Nat)
          /\ \A m \in 1..Len(all) : \/ m \in 1..Len(h) /\ all[m] = h[m]
                                    \/ m - Len(h) \in 1..Len(d) /\ all[m] = d[m - Len(h)]
      BY <2>2, ConcatIds, Zenon
    <3>2. i \in 1..Len(all)
      BY <3>1
    <3>3. CASE i \in 1..Len(h) /\ all[i] = h[i]
      <4>1. h[i] \in Nat /\ h[i] <= created
        BY <3>3, <2>2, <2>3, <2>4
      <4> QED BY <3>3, <4>1, <1>4
    <3>4. CASE i - Len(h) \in 1..Len(d) /\ all[i] = d[i - Len(h)]
      BY <3>4, <2>2, <2>3
    <3> QED BY <3>1, <3>2, <3>3, <3>4
  <2> HIDE DEF all
  <2> QED BY <2>1, <2>6, <2>7, <1>4 DEF IdsOK
<1>6. UpdatesOK(queues'[Own])
  <2> DEFINE p == CurrentQueue.pending
             all == p \o us
  <2>1. UpdatesOK(CurrentQueue) /\ p \in Seq(HostUpdates)
    BY <1>1, QueueFacts DEF ScreenInv, QueuesOK
  <2>2. /\ all \in Seq(HostUpdates)
        /\ \A m \in 1..Len(all) : \/ m \in 1..Len(p) /\ all[m] = p[m]
                                  \/ m - Len(p) \in 1..Len(us) /\ all[m] = us[m - Len(p)]
    <3>1. ASSUME NEW a \in Seq(HostUpdates), NEW b \in Seq(HostUpdates)
          PROVE  /\ a \o b \in Seq(HostUpdates)
                 /\ \A m \in 1..Len(a \o b) : \/ m \in 1..Len(a) /\ (a \o b)[m] = a[m]
                                              \/ m - Len(a) \in 1..Len(b) /\ (a \o b)[m] = b[m - Len(a)]
      BY ConcatElements
    <3> HIDE DEF p
    <3> QED BY <2>1, <3>1, Zenon
  <2> HIDE DEF all
  <2>3. DOMAIN all = 1..Len(all) /\ DOMAIN p = 1..Len(p) /\ DOMAIN us = 1..Len(us)
    BY <2>1, <2>2
  <2>4. \A m \in DOMAIN all : UpdateOK(all[m]) /\ all[m].lanes # {}
    BY <2>1, <2>2, <2>3 DEF UpdatesOK
  <2>5. queues'[Own].pending = all /\ queues'[Own].base = CurrentQueue.base
    BY <1>4 DEF all
  <2> QED BY <2>1, <2>4, <2>5 DEF UpdatesOK
<1>7. QueuesOK'
  <2> SUFFICES ASSUME NEW h \in 1..Len(queues) PROVE UpdatesOK(queues'[h]) /\ IdsOK(History(queues'[h]), created', staged')
    BY <1>4 DEF QueuesOK
  <2>1. CASE h = Own
    BY <2>1, <1>5, <1>6
  <2>2. CASE h # Own
    <3>1. queues'[h] = queues[h] /\ UpdatesOK(queues[h]) /\ IdsOK(History(queues[h]), created, staged)
      BY <2>2, <1>4 DEF ScreenInv, QueuesOK
    <3> DEFINE ids == History(queues[h])
    <3>2. ids \in Seq(Nat)
      BY <1>1, HistoryTyped
    <3>3. InInsertionOrder(ids) /\ \A i \in DOMAIN ids : ids[i] <= created /\ ids[i] \in Nat
      BY <3>1, <3>2 DEF IdsOK
    <3>4. History(queues'[h]) = ids
      BY <3>1
    <3> HIDE DEF ids
    <3>5. \A i \in DOMAIN ids : ids[i] <= created'
      BY <3>3, <1>4
    <3> QED BY <3>1, <3>3, <3>4, <3>5, <1>4 DEF IdsOK
  <2> QED BY <2>1, <2>2
<1>8. StagedOK'
  <2>1. UpdatesOf(<<>>) = <<>>
    BY DEF UpdatesOf
  <2> QED BY <2>1, <1>4, EmptyUpdates DEF StagedOK, InInsertionOrder
<1>9. OnScreen'
  <2>1. AppliedIds(CurrentQueue') = AppliedIds(CurrentQueue)
    BY <1>3, <1>4 DEF AppliedIds
  <2> QED BY <2>1, <1>4 DEF ScreenInv, OnScreen, CallbacksMatchShownState
<1>10. RecordsOK'
  <2> SUFFICES ASSUME NEW i \in DOMAIN records, records[i].queue > Own PROVE Shows(records[i])'
    BY <1>2, <1>4 DEF RecordsOK
  <2>1. records[i].queue \in Nat /\ records[i].queue <= Len(queues)
    BY ElementsTyped DEF HostRecords, LaneInv, Handles
  <2>2. records[i].queue \in 1..Len(queues) /\ records[i].queue # Own
    BY <2>1, <1>1
  <2>3. queues'[records[i].queue] = queues[records[i].queue]
    BY <2>2, <1>4
  <2> QED BY <2>3, <1>2, <1>4 DEF ScreenInv, RecordsOK, Shows
<1> QED BY <1>7, <1>8, <1>9, <1>10 DEF ScreenInv

\* Staging one more update keeps the staged updates in order.
LEMMA StagedOneMore ==
  ASSUME LaneInv, ScreenInv, NEW lane \in Lane
  PROVE  LET e == Append(staged, NewEntry(lane))
         IN  /\ InInsertionOrder(Ids(UpdatesOf(e)))
             /\ \A i \in DOMAIN e : /\ e[i].update.id <= created + 1
                                    /\ UpdateOK(e[i].update) /\ e[i].update.lanes # {}
             /\ \A ids \in Seq(Nat) : IdsOK(ids, created, staged) => IdsOK(ids, created + 1, e)
<1> DEFINE x == NewEntry(lane)
           e == Append(staged, x)
           n == Len(staged)
<1>1. /\ x \in HostEntries /\ x.update.lanes = {lane} /\ x.update.id = created + 1
      /\ x.update.callback = (created + 1 \in CallbackIds) /\ staged \in Seq(HostEntries)
  BY NewEntryIs
<1>2. created \in Nat /\ n \in Nat /\ DOMAIN staged = 1..n
  BY <1>1 DEF LaneInv, Typed
<1>3. /\ e \in Seq(HostEntries) /\ Len(e) = n + 1 /\ e[n + 1] = x
      /\ \A i \in 1..n : e[i] = staged[i]
  BY <1>1, AppendedEntry
<1> HIDE DEF x, e, n
<1>4. DOMAIN e = 1..(n + 1)
  BY <1>3
<1>5. \A i \in 1..n : /\ staged[i].update.id <= created /\ staged[i].update.id \in Nat
                      /\ UpdateOK(staged[i].update) /\ staged[i].update.lanes # {}
  <2>1. \A i \in 1..n : staged[i] \in HostEntries
    BY <1>1, <1>2
  <2>2. \A i \in 1..n : staged[i].update.id \in Nat
    BY <2>1 DEF HostEntries, HostUpdates
  <2> QED BY <2>2, <1>2 DEF ScreenInv, StagedOK
<1>6. UpdateOK(x.update) /\ x.update.lanes # {}
  BY <1>1 DEF UpdateOK
<1>7. ASSUME NEW i \in DOMAIN e
      PROVE  /\ e[i].update.id <= created + 1 /\ UpdateOK(e[i].update) /\ e[i].update.lanes # {}
  <2>1. CASE i \in 1..n
    <3>1. e[i] = staged[i] /\ staged[i].update.id <= created /\ staged[i].update.id \in Nat
      BY <2>1, <1>3, <1>5
    <3>2. staged[i].update.id <= created + 1
      BY <3>1, <1>2
    <3> QED BY <2>1, <3>1, <3>2, <1>5
  <2>2. CASE i = n + 1
    <3>1. created + 1 <= created + 1
      BY <1>2
    <3> QED BY <2>2, <3>1, <1>1, <1>3, <1>6
  <2> QED BY <2>1, <2>2, <1>2, <1>4
<1>8. /\ DOMAIN Ids(UpdatesOf(e)) = 1..(n + 1)
      /\ \A i \in 1..(n + 1) : Ids(UpdatesOf(e))[i] = e[i].update.id
  <2>1. /\ UpdatesOf(e) \in Seq(HostUpdates) /\ Len(UpdatesOf(e)) = n + 1
        /\ \A i \in 1..(n + 1) : UpdatesOf(e)[i] = e[i].update
    BY <1>3, UpdatesOfIs
  <2>2. /\ Ids(UpdatesOf(e)) \in Seq(Nat) /\ Len(Ids(UpdatesOf(e))) = n + 1
        /\ \A i \in 1..(n + 1) : Ids(UpdatesOf(e))[i] = UpdatesOf(e)[i].id
    BY <2>1, IdsTyped
  <2>3. DOMAIN Ids(UpdatesOf(e)) = 1..(n + 1)
    BY <2>2
  <2> QED BY <2>1, <2>2, <2>3
<1>9. InInsertionOrder(Ids(UpdatesOf(e)))
  <2>1. \A i, j \in 1..n : i < j => staged[i].update.id < staged[j].update.id
    <3>1. /\ UpdatesOf(staged) \in Seq(HostUpdates) /\ Len(UpdatesOf(staged)) = n
          /\ \A i \in 1..n : UpdatesOf(staged)[i] = staged[i].update
      BY <1>1, UpdatesOfIs DEF n
    <3>2. /\ Ids(UpdatesOf(staged)) \in Seq(Nat) /\ Len(Ids(UpdatesOf(staged))) = n
          /\ \A i \in 1..n : Ids(UpdatesOf(staged))[i] = UpdatesOf(staged)[i].id
      BY <3>1, IdsTyped
    <3>3. DOMAIN Ids(UpdatesOf(staged)) = 1..n
      BY <3>2
    <3> QED BY <3>1, <3>2, <3>3 DEF ScreenInv, StagedOK, InInsertionOrder
  <2> SUFFICES ASSUME NEW i \in 1..(n + 1), NEW j \in 1..(n + 1), i < j
               PROVE  e[i].update.id < e[j].update.id
    BY <1>8 DEF InInsertionOrder
  <2>2. i \in 1..n
    BY <1>2
  <2>3. CASE j \in 1..n
    BY <2>1, <2>2, <2>3, <1>3
  <2>4. CASE j = n + 1
    <3>1. e[i] = staged[i] /\ staged[i].update.id <= created /\ staged[i].update.id \in Nat
      BY <2>2, <1>3, <1>5
    <3> QED BY <2>4, <3>1, <1>1, <1>2, <1>3
  <2> QED BY <2>3, <2>4, <1>2
<1>10. ASSUME NEW ids \in Seq(Nat), IdsOK(ids, created, staged) PROVE IdsOK(ids, created + 1, e)
  <2>1. /\ InInsertionOrder(ids) /\ \A i \in DOMAIN ids : ids[i] <= created /\ ids[i] \in Nat
        /\ \A i \in DOMAIN ids, j \in 1..n : ids[i] < staged[j].update.id
    BY <1>2, <1>10 DEF IdsOK
  <2>2. \A i \in DOMAIN ids : ids[i] <= created + 1 /\ ids[i] < created + 1
    BY <2>1, <1>2
  <2>3. ASSUME NEW i \in DOMAIN ids, NEW j \in DOMAIN e PROVE ids[i] < e[j].update.id
    <3>1. CASE j \in 1..n
      BY <3>1, <2>1, <1>3
    <3>2. CASE j = n + 1
      BY <3>2, <2>2, <1>1, <1>3
    <3> QED BY <3>1, <3>2, <1>2, <1>4
  <2> QED BY <2>1, <2>2, <2>3 DEF IdsOK
<1> QED BY <1>7, <1>9, <1>10 DEF e, x

LEMMA ContainerScreen ==
  ASSUME LaneInv, ScreenInv, NEW lane \in Lane, UpdateContainer(lane)
  PROVE  ScreenInv'
<1> DEFINE e == Append(staged, NewEntry(lane))
           us == UpdatesOf(e)
<1>1. Appends(us) /\ created' = created + 1
  BY ContainerAppends
<1>2. e \in Seq(HostEntries) /\ created \in Nat
  BY NewEntryIs, AppendedEntry DEF LaneInv, Typed
<1>3. /\ InInsertionOrder(Ids(us))
      /\ \A i \in DOMAIN e : /\ e[i].update.id <= created + 1
                             /\ UpdateOK(e[i].update) /\ e[i].update.lanes # {}
      /\ \A ids \in Seq(Nat) : IdsOK(ids, created, staged) => IdsOK(ids, created + 1, e)
  BY StagedOneMore
<1> HIDE DEF e
<1>4. us \in Seq(HostUpdates) /\ DOMAIN us = DOMAIN e /\ \A i \in DOMAIN e : us[i] = e[i].update
  BY <1>2, UpdatesOfIs DEF UpdatesOf
<1>5. IdsOK(History(CurrentQueue), created + 1, e)
  <2>1. History(CurrentQueue) \in Seq(Nat)
    BY QueueFacts, HistoryTyped
  <2>2. IdsOK(History(CurrentQueue), created, staged)
    BY QueueFacts DEF ScreenInv, QueuesOK
  <2> QED BY <2>1, <2>2, <1>3
<1>6. \A i \in DOMAIN History(CurrentQueue), j \in DOMAIN us : History(CurrentQueue)[i] < us[j].id
  BY <1>4, <1>5 DEF IdsOK
<1>7. \A i \in DOMAIN us : /\ UpdateOK(us[i]) /\ us[i].lanes # {} /\ us[i].id <= created'
  BY <1>1, <1>3, <1>4
<1>8. created <= created'
  BY <1>1, <1>2
<1> HIDE DEF us
<1> QED BY <1>1, <1>3, <1>4, <1>6, <1>7, <1>8, AppendsScreen DEF us

LEMMA FinishScreen ==
  ASSUME LaneInv, ScreenInv, FinishQueueingConcurrentUpdates
  PROVE  ScreenInv'
<1> DEFINE us == UpdatesOf(staged)
<1>1. Appends(us) /\ created' = created /\ created \in Nat /\ created <= created'
  BY FinishAppends DEF FinishQueueingConcurrentUpdates, LaneInv, Typed
<1>2. us \in Seq(HostUpdates) /\ DOMAIN us = DOMAIN staged /\ \A i \in DOMAIN staged : us[i] = staged[i].update
  <2>1. staged \in Seq(HostEntries)
    BY DEF LaneInv, Typed
  <2> QED BY <2>1, UpdatesOfIs DEF UpdatesOf
<1>3. IdsOK(History(CurrentQueue), created, staged)
  BY QueueFacts DEF ScreenInv, QueuesOK
<1>4. \A i \in DOMAIN History(CurrentQueue), j \in DOMAIN us : History(CurrentQueue)[i] < us[j].id
  BY <1>2, <1>3 DEF IdsOK
<1>5. \A i \in DOMAIN us : /\ UpdateOK(us[i]) /\ us[i].lanes # {} /\ us[i].id <= created'
  BY <1>1, <1>2 DEF ScreenInv, StagedOK
<1>6. InInsertionOrder(Ids(us))
  BY DEF ScreenInv, StagedOK
<1> HIDE DEF us
<1> QED BY <1>1, <1>2, <1>4, <1>5, <1>6, AppendsScreen

LEMMA StageScreen ==
  ASSUME LaneInv, ScreenInv, NEW lane \in Lane, StageUpdate(lane)
  PROVE  ScreenInv'
<1> DEFINE e == Append(staged, NewEntry(lane))
<1>1. staged' = e /\ created' = created + 1
  BY DEF StageUpdate, StagedWith, NewEntry, Own
<1>2. /\ InInsertionOrder(Ids(UpdatesOf(e)))
      /\ \A i \in DOMAIN e : /\ e[i].update.id <= created + 1
                             /\ UpdateOK(e[i].update) /\ e[i].update.lanes # {}
      /\ \A ids \in Seq(Nat) : IdsOK(ids, created, staged) => IdsOK(ids, created + 1, e)
  BY StagedOneMore
<1> HIDE DEF e
<1>3. UNCHANGED <<lanes, current, queues, work, records, enqueued, shown, fired, commits>>
  BY DEF StageUpdate
<1>4. Own' = Own
  BY MarkedFibers DEF StageUpdate
<1>5. CurrentQueue' = CurrentQueue
  BY <1>3, <1>4 DEF CurrentQueue, Own
<1>6. QueuesOK'
  <2> SUFFICES ASSUME NEW h \in 1..Len(queues)
               PROVE  UpdatesOK(queues[h]) /\ IdsOK(History(queues[h]), created + 1, e)
    BY <1>1, <1>3 DEF QueuesOK
  <2>1. History(queues[h]) \in Seq(Nat)
    BY QueueFacts, HistoryTyped
  <2> QED BY <2>1, <1>2 DEF ScreenInv, QueuesOK
<1>7. StagedOK'
  BY <1>1, <1>2 DEF StagedOK
<1>8. OnScreen' /\ RecordsOK'
  BY <1>3, <1>4, <1>5 DEF ScreenInv, OnScreen, CallbacksMatchShownState, RecordsOK, Shows
<1> QED BY <1>6, <1>7, <1>8 DEF ScreenInv

\* The updates of the queue a render works on, and what of them is on screen.
LEMMA MovedScreen ==
  ASSUME LaneInv, ScreenInv
  PROVE  /\ History(Moved) = History(CurrentQueue)
         /\ UpdatesOK(Moved) /\ BaseOK(Cloned)
         /\ Cloned.baseState \o Ids(Cloned.base) = History(CurrentQueue)
         /\ AppliedIds(Moved) = AppliedIds(CurrentQueue)
         /\ AppliedIds(Cloned) = AppliedIds(CurrentQueue)
<1> DEFINE q == CurrentQueue
           all == q.base \o q.pending
<1>1. /\ q \in HostQueues /\ q.base \in Seq(HostUpdates) /\ q.pending \in Seq(HostUpdates)
      /\ Own \in 1..Len(queues) /\ q = queues[Own]
  BY QueueFacts
<1>2. /\ Moved \in HostQueues /\ Moved.baseState = q.baseState /\ Moved.base = all
      /\ Moved.pending = <<>>
      /\ Cloned \in HostQueues /\ Cloned.baseState = q.baseState /\ Cloned.base = all
      /\ Cloned.pending = <<>>
  BY MovedIs DEF QueuedUpdates
<1>3. UpdatesOK(q) /\ IdsOK(History(q), created, staged)
  BY <1>1 DEF ScreenInv, QueuesOK
<1> HIDE DEF q
<1>4. /\ all \in Seq(HostUpdates)
      /\ Len(q.base) \in Nat
      /\ \A i \in 1..Len(q.base) : all[i] = q.base[i] /\ i \in 1..Len(all)
      /\ \A m \in 1..Len(all) : \/ m \in 1..Len(q.base) /\ all[m] = q.base[m]
                                \/ m - Len(q.base) \in 1..Len(q.pending) /\ all[m] = q.pending[m - Len(q.base)]
  <2>1. ASSUME NEW a \in Seq(HostUpdates), NEW b \in Seq(HostUpdates)
        PROVE  /\ a \o b \in Seq(HostUpdates)
               /\ Len(a) \in Nat
               /\ \A i \in 1..Len(a) : (a \o b)[i] = a[i] /\ i \in 1..Len(a \o b)
               /\ \A m \in 1..Len(a \o b) : \/ m \in 1..Len(a) /\ (a \o b)[m] = a[m]
                                            \/ m - Len(a) \in 1..Len(b) /\ (a \o b)[m] = b[m - Len(a)]
    BY ConcatElements
  <2> QED BY <1>1, <2>1, Zenon
<1>5. History(Moved) = History(q) /\ Cloned.baseState \o Ids(Cloned.base) = History(q)
  BY <1>1, <1>2, HistoryMoved
<1> HIDE DEF all
<1>6. DOMAIN all = 1..Len(all) /\ DOMAIN q.base = 1..Len(q.base) /\ DOMAIN q.pending = 1..Len(q.pending)
  BY <1>1, <1>4
<1>7. \A m \in DOMAIN all : UpdateOK(all[m])
  BY <1>3, <1>4, <1>6 DEF UpdatesOK
<1>8. UpdatesOK(Moved)
  BY <1>2, <1>7 DEF UpdatesOK
<1>9. BaseOK(Cloned)
  BY <1>2, <1>3, <1>5, <1>7 DEF BaseOK, IdsOK
<1>10. {all[i].id : i \in {j \in DOMAIN all : all[j].lanes = {}}}
         = {q.base[i].id : i \in {j \in DOMAIN q.base : q.base[j].lanes = {}}}
  <2>1. ASSUME NEW i \in DOMAIN all, all[i].lanes = {}
        PROVE  i \in DOMAIN q.base /\ q.base[i] = all[i]
    <3>1. CASE i - Len(q.base) \in 1..Len(q.pending) /\ all[i] = q.pending[i - Len(q.base)]
      BY <2>1, <3>1, <1>3, <1>6 DEF UpdatesOK
    <3> QED BY <3>1, <1>4, <1>6
  <2>2. ASSUME NEW i \in DOMAIN q.base, q.base[i].lanes = {}
        PROVE  i \in DOMAIN all /\ all[i] = q.base[i]
    BY <1>4, <1>6
  <2> QED BY <2>1, <2>2
<1>11. AppliedIds(Moved) = AppliedIds(q) /\ AppliedIds(Cloned) = AppliedIds(q)
  BY <1>2, <1>10 DEF AppliedIds
<1> QED BY <1>5, <1>8, <1>9, <1>11 DEF q

LEMMA RenderScreen ==
  ASSUME LaneInv, ScreenInv, NEW R \in SUBSET Lane, RenderHostRootForLanes(R)
  PROVE  ScreenInv'
<1> DEFINE result == ProcessHostRootUpdateQueue(Cloned, R)
           handle == Len(queues) + 1
           record == [current |-> current, finished |-> Other(current), lanes |-> R,
                      remaining |-> result.remaining, currentQueue |-> Own,
                      queue |-> handle, memoized |-> result.memoized]
<1>1. /\ queues' \in Seq(HostQueues) /\ Len(queues') = handle
      /\ queues'[Own] = Moved /\ queues'[handle] = result.queue
      /\ \A h \in 1..Len(queues) : h # Own => queues'[h] = queues[h]
      /\ result.queue \in HostQueues
      /\ records' = Append(records, record)
      /\ Own' = Own
  BY RenderIs
<1>2. /\ record.memoized = result.memoized /\ record.currentQueue = Own /\ record.queue = handle
      /\ record \in HostRecords
  BY RenderIs
<1>3. /\ Own \in 1..Len(queues) /\ Len(queues) \in Nat
      /\ CurrentQueue = queues[Own] /\ records \in Seq(HostRecords)
  BY QueueFacts DEF LaneInv, Typed
<1>4. /\ Cloned \in HostQueues /\ Cloned.callbacks = <<>> /\ Cloned.pending = <<>>
  BY MovedIs
<1>5. /\ History(Moved) = History(CurrentQueue)
      /\ UpdatesOK(Moved) /\ BaseOK(Cloned)
      /\ Cloned.baseState \o Ids(Cloned.base) = History(CurrentQueue)
      /\ AppliedIds(Moved) = AppliedIds(CurrentQueue)
      /\ AppliedIds(Cloned) = AppliedIds(CurrentQueue)
  BY MovedScreen
<1>6. /\ result.queue.baseState \o Ids(result.queue.base) = Cloned.baseState \o Ids(Cloned.base)
      /\ BaseOK(result.queue)
  BY <1>4, <1>5, ProcessRebases
<1>7. InInsertionOrder(result.memoized) /\ AppliedIds(result.queue) = Range(result.memoized)
  BY <1>4, <1>5, ProcessApplies
<1>8. /\ AppliedIds(Cloned) \subseteq Range(result.memoized)
      /\ IsInjective(result.queue.callbacks)
      /\ Range(result.queue.callbacks) = (Range(result.memoized) \ AppliedIds(Cloned)) \cap CallbackIds
  BY <1>4, <1>5, ProcessCalls
<1>9. result.queue.pending = <<>>
  BY <1>4, ProcessLanes
<1>10. UNCHANGED <<lanes, current, staged, created, enqueued, shown, fired, commits>>
  BY DEF RenderHostRootForLanes
<1>11. CurrentQueue' = Moved
  BY <1>1 DEF CurrentQueue, Own
<1> HIDE DEF result, record
<1>12. History(result.queue) = History(CurrentQueue)
  BY <1>1, <1>5, <1>6, <1>9, HistoryOfBase
<1>13. /\ DOMAIN records' = 1..(Len(records) + 1) /\ DOMAIN records = 1..Len(records)
       /\ Len(records) \in Nat /\ records'[Len(records) + 1] = record
       /\ \A i \in 1..Len(records) : records'[i] = records[i]
  BY <1>1, <1>2, <1>3, AppendProperties
<1>14. QueuesOK'
  <2> SUFFICES ASSUME NEW h \in 1..handle
               PROVE  UpdatesOK(queues'[h]) /\ IdsOK(History(queues'[h]), created, staged)
    BY <1>1, <1>10 DEF QueuesOK
  <2>1. IdsOK(History(CurrentQueue), created, staged)
    BY <1>3 DEF ScreenInv, QueuesOK
  <2>2. CASE h = Own
    BY <2>1, <2>2, <1>1, <1>5
  <2>3. CASE h = handle
    <3>1. UpdatesOK(result.queue)
      BY <1>6, <1>9 DEF BaseOK, UpdatesOK
    <3> QED BY <2>1, <2>3, <3>1, <1>1, <1>12
  <2>4. CASE h # Own /\ h # handle
    <3>1. h \in 1..Len(queues)
      BY <2>4, <1>3
    <3> QED BY <2>4, <3>1, <1>1 DEF ScreenInv, QueuesOK
  <2> QED BY <2>2, <2>3, <2>4
<1>15. StagedOK'
  BY <1>10 DEF ScreenInv, StagedOK
<1>16. OnScreen'
  BY <1>5, <1>10, <1>11 DEF ScreenInv, OnScreen, CallbacksMatchShownState
<1>17. RecordsOK'
  <2> SUFFICES ASSUME NEW i \in DOMAIN records', records'[i].queue > Own PROVE Shows(records[i])'
    BY <1>1 DEF RecordsOK
  <2>1. CASE i \in 1..Len(records)
    <3>1. records'[i] = records[i] /\ i \in DOMAIN records
      BY <2>1, <1>13
    <3>2. records[i].queue \in Nat /\ records[i].queue <= Len(queues)
      BY <3>1, ElementsTyped DEF HostRecords, LaneInv, Handles
    <3>3. records[i].queue \in 1..Len(queues) /\ records[i].queue # Own /\ records[i].queue > Own
      BY <3>1, <3>2, <1>3
    <3>4. queues'[records[i].queue] = queues[records[i].queue] /\ Shows(records[i])
      BY <3>1, <3>3, <1>1 DEF ScreenInv, RecordsOK
    <3> QED BY <3>1, <3>4, <1>1, <1>10 DEF Shows
  <2>2. CASE i = Len(records) + 1
    <3>1. records'[i] = record /\ queues'[record.queue] = result.queue
      BY <2>2, <1>1, <1>2, <1>13
    <3>2. Range(shown) = AppliedIds(CurrentQueue)
      BY DEF ScreenInv, OnScreen
    <3> QED BY <3>1, <3>2, <1>1, <1>2, <1>5, <1>7, <1>8, <1>10 DEF Shows
  <2> QED BY <2>1, <2>2, <1>13
<1> QED BY <1>14, <1>15, <1>16, <1>17 DEF ScreenInv

LEMMA CommitScreen ==
  ASSUME LaneInv, ScreenInv, NEW i \in DOMAIN records, CommitFinishedHostRoot(records[i])
  PROVE  /\ ScreenInv'
         /\ Range(shown) \subseteq Range(shown') /\ InInsertionOrder(shown')
<1> DEFINE record == records[i]
           calls == queues[Spare].callbacks
<1>1. /\ record \in HostRecords /\ record.queue = Spare /\ record.currentQueue = Own
      /\ Spare > Own /\ Own \in Nat /\ Spare \in 1..Len(queues)
  BY FinishedRecord DEF CommitFinishedHostRoot
<1>2. /\ queues' \in Seq(HostQueues) /\ Len(queues') = Len(queues)
      /\ \A h \in 1..Len(queues) : /\ h # Spare => queues'[h] = queues[h]
                                   /\ queues'[h].baseState = queues[h].baseState
                                   /\ queues'[h].base = queues[h].base
                                   /\ queues'[h].pending = queues[h].pending
      /\ Own' = Spare /\ CurrentQueue' = queues'[Spare]
  BY CommitIs
<1>3. /\ fired' = fired \o calls
      /\ shown' = record.memoized
      /\ UNCHANGED <<records, staged, created>>
  BY <1>1 DEF CommitFinishedHostRoot, TakeRootUpdateCallbackRecords
<1>4. Shows(record)
  BY <1>1 DEF ScreenInv, RecordsOK
<1>5. /\ fired \in Seq(Nat) /\ calls \in Seq(Nat) /\ queues[Spare] \in HostQueues
  <2>1. queues[Spare] \in HostQueues
    BY <1>1, QueueFacts
  <2> QED BY <2>1 DEF LaneInv, Typed, HostQueues
<1> HIDE DEF record
<1>6. /\ Range(record.memoized) = AppliedIds(queues[Spare])
      /\ InInsertionOrder(record.memoized)
      /\ IsInjective(calls)
      /\ Range(shown) \subseteq Range(record.memoized)
      /\ Range(calls) = (Range(record.memoized) \ Range(shown)) \cap CallbackIds
  BY <1>1, <1>4 DEF Shows
<1>7. IsInjective(fired) /\ Range(fired) = Range(shown) \cap CallbackIds
  BY DEF ScreenInv, OnScreen, CallbacksMatchShownState
<1> HIDE DEF calls
<1>8. Range(fired') = Range(shown') \cap CallbackIds
  <2>1. Range(fired \o calls) = Range(fired) \cup Range(calls)
    BY <1>5, RangeConcatenation
  <2> QED BY <2>1, <1>3, <1>6, <1>7
<1>9. IsInjective(fired')
  <2>1. Range(fired) \cap Range(calls) = {}
    BY <1>6, <1>7
  <2> QED BY <2>1, <1>3, <1>5, <1>6, <1>7, ConcatInjective
<1>10. AppliedIds(CurrentQueue') = AppliedIds(queues[Spare])
  BY <1>1, <1>2 DEF AppliedIds
<1>11. OnScreen'
  BY <1>3, <1>6, <1>8, <1>9, <1>10 DEF OnScreen, CallbacksMatchShownState
<1>12. QueuesOK'
  <2> SUFFICES ASSUME NEW h \in 1..Len(queues)
               PROVE  UpdatesOK(queues'[h]) /\ IdsOK(History(queues'[h]), created, staged)
    BY <1>2, <1>3 DEF QueuesOK
  <2>1. UpdatesOK(queues[h]) /\ IdsOK(History(queues[h]), created, staged)
    BY DEF ScreenInv, QueuesOK
  <2>2. /\ queues'[h].baseState = queues[h].baseState /\ queues'[h].base = queues[h].base
        /\ queues'[h].pending = queues[h].pending
    BY <1>2
  <2>3. History(queues'[h]) = History(queues[h])
    BY <2>2 DEF History
  <2> QED BY <2>1, <2>2, <2>3 DEF UpdatesOK
<1>13. StagedOK'
  BY <1>3 DEF ScreenInv, StagedOK
<1>14. RecordsOK'
  <2> SUFFICES ASSUME NEW j \in DOMAIN records, records[j].queue > Spare PROVE Shows(records[j])'
    BY <1>2, <1>3 DEF RecordsOK
  <2>1. records[j].queue \in Nat /\ records[j].currentQueue \in Nat
    BY ElementsTyped DEF HostRecords
  <2>2. records[j].queue <= Len(queues) /\ records[j].currentQueue <= Own
    BY DEF LaneInv, Handles
  <2>3. /\ records[j].queue \in 1..Len(queues) /\ records[j].queue # Spare
        /\ records[j].queue > Own /\ records[j].currentQueue # Spare
    BY <2>1, <2>2, <1>1
  <2>4. Shows(records[j]) /\ queues'[records[j].queue] = queues[records[j].queue]
    BY <2>3, <1>2 DEF ScreenInv, RecordsOK
  <2> QED BY <2>3, <2>4, <1>2, <1>3 DEF Shows
<1>15. Range(shown) \subseteq Range(shown') /\ InInsertionOrder(shown')
  BY <1>3, <1>6
<1> QED BY <1>11, <1>12, <1>13, <1>14, <1>15 DEF ScreenInv

\* Every step keeps the screen invariant and takes nothing off the screen.
LEMMA ScreenInvStep ==
  ASSUME LaneInv, ScreenInv, [Next]_vars
  PROVE  /\ ScreenInv'
         /\ [Range(shown) \subseteq Range(shown') /\ InInsertionOrder(shown')]_vars
<1>1. UpdateInputs \subseteq Lane /\ StageInputs \subseteq Lane
  BY HostRootAssumption
<1>2. ASSUME ScreenInv', shown' = shown
      PROVE  Range(shown) \subseteq Range(shown') /\ InInsertionOrder(shown')
  BY <1>2 DEF ScreenInv, OnScreen
<1>3. ASSUME NEW lane \in UpdateInputs, UpdateContainer(lane) PROVE ScreenInv' /\ shown' = shown
  BY <1>1, <1>3, ContainerScreen DEF UpdateContainer
<1>4. ASSUME NEW lane \in UpdateInputs, UpdateContainerFails(lane) PROVE ScreenInv' /\ shown' = shown
  BY <1>1, <1>4, StageScreen DEF UpdateContainerFails, StageUpdate
<1>5. ASSUME NEW lane \in StageInputs, StageUpdate(lane) PROVE ScreenInv' /\ shown' = shown
  BY <1>1, <1>5, StageScreen DEF StageUpdate
<1>6. ASSUME FinishQueueingConcurrentUpdates PROVE ScreenInv' /\ shown' = shown
  BY <1>6, FinishScreen DEF FinishQueueingConcurrentUpdates
<1>7. ASSUME NEW R \in RenderChoices, RenderHostRootForLanes(R) PROVE ScreenInv' /\ shown' = shown
  BY <1>7, RenderChoicesTyped, RenderScreen DEF RenderHostRootForLanes
<1>8. ASSUME NEW i \in DOMAIN records, CommitFinishedHostRoot(records[i])
      PROVE  ScreenInv' /\ Range(shown) \subseteq Range(shown') /\ InInsertionOrder(shown')
  BY <1>8, CommitScreen
<1>9. ASSUME UNCHANGED vars PROVE ScreenInv'
  BY <1>9 DEF vars, ScreenInv, QueuesOK, StagedOK, OnScreen, RecordsOK, Shows,
     CallbacksMatchShownState, CurrentQueue, Own
<1>10. CASE Next
  BY <1>2, <1>3, <1>4, <1>5, <1>6, <1>7, <1>8, <1>10 DEF Next, Update, Render, Commit
<1> QED BY <1>9, <1>10

LEMMA AlwaysScreenInv == Spec => [](LaneInv /\ ScreenInv)
<1>1. LaneInv /\ ScreenInv /\ [Next]_vars => ScreenInv'
  BY ScreenInvStep
<1> QED BY <1>1, InitLaneInv, InitScreenInv, LaneInvStep, PTL DEF Spec

(***************************************************************************)
(* The callbacks handed out by commits are those of the updates on screen,  *)
(* each once, however often its update was skipped, rebased, or rendered by *)
(* a render that was never committed (process_host_root_update_queue,       *)
(* take_root_update_callback_records).                                      *)
(***************************************************************************)
THEOREM CallbacksFireOnce == Spec => []CallbacksMatchShownState
<1>1. LaneInv /\ ScreenInv => CallbacksMatchShownState
  BY DEF ScreenInv, OnScreen
<1> QED BY <1>1, AlwaysScreenInv, PTL

(***************************************************************************)
(* No step takes an update off the screen, and what is on screen is in      *)
(* insertion order, whichever lanes are rendered in whichever order.        *)
(***************************************************************************)
THEOREM CommitsOnlyAdd == Spec => ShownIsNeverUndone
<1>1. LaneInv /\ ScreenInv /\ [Next]_vars
        => [Range(shown) \subseteq Range(shown') /\ InInsertionOrder(shown')]_vars
  BY ScreenInvStep
<1> QED BY <1>1, AlwaysScreenInv, PTL DEF Spec, ShownIsNeverUndone


-----------------------------------------------------------------------------
(***************************************************************************)
(* The intrusive list: the links of table, start and end thread s.          *)
(***************************************************************************)
Links(table, start, end, s) ==
  /\ s \in Seq(Root)
  /\ \A i, j \in 1..Len(s) : s[i] = s[j] => i = j
  /\ start = IF s = <<>> THEN NoRoot ELSE s[1]
  /\ end = IF s = <<>> THEN NoRoot ELSE s[Len(s)]
  /\ \A i \in 1..Len(s) : table[s[i]].next = IF i = Len(s) THEN NoRoot ELSE s[i + 1]
  /\ \A r \in Root : (\A i \in 1..Len(s) : s[i] # r) => table[r].next = NoRoot

\* A list without duplicates is no longer than the number of roots.
LEMMA LinksShort ==
  ASSUME IsFiniteSet(Root), NEW table, NEW start, NEW end, NEW s, Links(table, start, end, s)
  PROVE  Cardinality(Root) \in Nat /\ Len(s) \in Nat /\ Len(s) <= Cardinality(Root)
<1>1. Cardinality(Root) \in Nat /\ Len(s) \in Nat
  BY FS_CardinalityType DEF Links
<1>2. s \in Injection(1..Len(s), Root)
  <2>1. s \in [1..Len(s) -> Root]
    BY DEF Links
  <2>2. IsInjective(s)
    BY <2>1 DEF Links, IsInjective
  <2> QED BY <2>1, <2>2 DEF Injection
<1>3. Cardinality(1..Len(s)) = Len(s)
  <2>1. 1 \in Int /\ Len(s) \in Int
    BY <1>1
  <2>2. Cardinality(1..Len(s)) = IF 1 > Len(s) THEN 0 ELSE Len(s) - 1 + 1
    BY <2>1, FS_Interval, Zenon
  <2> QED BY <2>2, <1>1
<1>4. Cardinality(1..Len(s)) <= Cardinality(Root)
  BY <1>2, FS_Injection
<1> QED BY <1>1, <1>3, <1>4

(***************************************************************************)
(* scheduled_roots returns the list: by induction on the length of the walk *)
(* (no n is the least at which the walk leaves the prefixes of the list).   *)
(***************************************************************************)
LEMMA WalkIsList ==
  ASSUME IsFiniteSet(Root), NoRoot \notin Root,
         NEW table, NEW start, NEW end, NEW s, Links(table, start, end, s)
  PROVE  WalkFrom(table, start) = s
<1> DEFINE N == Cardinality(Root)
           F(g, n) == IF n = 0 THEN IF start = NoRoot THEN <<>> ELSE <<start>>
                      ELSE LET seen == g[n - 1]
                               next == IF seen = <<>> THEN NoRoot ELSE table[seen[Len(seen)]].next
                           IN  IF next = NoRoot THEN seen ELSE Append(seen, next)
           m(n) == IF n < Len(s) THEN n + 1 ELSE Len(s)
           h == [n \in 0..N |-> SubSeq(s, 1, m(n))]
           W == CHOOSE g : g = [n \in 0..N |-> F(g, n)]
<1>1. N \in Nat /\ Len(s) \in Nat /\ Len(s) <= N
  BY LinksShort
<1>2. \A n \in 0..N : h[n] = F(h, n)
  <2> SUFFICES ASSUME NEW n \in 0..N PROVE h[n] = F(h, n)
    OBVIOUS
  <2>1. CASE s = <<>>
    <3>1. start = NoRoot /\ \A k \in 0..N : h[k] = <<>>
      BY <2>1, <1>1 DEF Links
    <3> QED BY <3>1, <1>1, SMTT(30)
  <2>2. CASE s # <<>>
    <3>1. start = s[1] /\ s[1] \in Root /\ Len(s) > 0 /\ start # NoRoot
      BY <2>2 DEF Links
    <3>2. CASE n = 0
      <4>1. h[n] = SubSeq(s, 1, 1) /\ s \in Seq(Root)
        BY <3>1, <3>2, <1>1 DEF Links
      <4>2. SubSeq(s, 1, 1) = <<s[1]>>
        <5> DEFINE a == SubSeq(s, 1, 1)
                   b == <<s[1]>>
        <5>1. a \in Seq(Root) /\ Len(a) = 1 /\ a[1] = s[1]
          BY <3>1, <4>1
        <5>2. b \in Seq(Root) /\ Len(b) = 1 /\ b[1] = s[1]
          BY <3>1
        <5> HIDE DEF a, b
        <5>3. a = b
          BY <5>1, <5>2
        <5> QED BY <5>3 DEF a, b
      <4> QED BY <3>1, <3>2, <4>1, <4>2
    <3>3. CASE n # 0
      <4> DEFINE seen == h[n - 1]
      <4>1. n - 1 \in 0..N /\ seen = SubSeq(s, 1, m(n - 1)) /\ m(n - 1) \in 1..Len(s)
        BY <3>1, <3>3, <1>1
      <4>2. s \in Seq(Root)
        BY DEF Links
      <4>3. seen # <<>> /\ Len(seen) = m(n - 1) /\ seen[Len(seen)] = s[m(n - 1)]
        BY <4>1, <4>2, <1>1
      <4>4. table[s[m(n - 1)]].next = IF m(n - 1) = Len(s) THEN NoRoot ELSE s[m(n - 1) + 1]
        BY <4>1 DEF Links
      <4>5. CASE m(n - 1) = Len(s)
        BY <4>1, <4>3, <4>4, <4>5, <3>3, <1>1
      <4>6. CASE m(n - 1) < Len(s)
        <5>1. m(n) = m(n - 1) + 1 /\ s[m(n)] \in Root
          BY <4>1, <4>2, <4>6, <3>3, <1>1
        <5>2. SubSeq(s, 1, m(n)) = Append(SubSeq(s, 1, m(n - 1)), s[m(n)])
          BY <5>1, <4>1, <4>2, <1>1
        <5> QED BY <5>1, <5>2, <4>1, <4>3, <4>4, <4>6, <3>3, <1>1
      <4> QED BY <4>5, <4>6, <4>1, SMTT(30)
    <3> QED BY <3>2, <3>3
  <2> QED BY <2>1, <2>2
<1>3. h = [n \in 0..N |-> F(h, n)]
  BY <1>2
<1>4. W = [n \in 0..N |-> F(W, n)]
  BY <1>3
<1> HIDE DEF W, h, N
<1>5. \A n \in 0..N : W[n] = h[n]
  <2> DEFINE T == {n \in 0..N : W[n] # h[n]}
  <2> SUFFICES ASSUME T # {} PROVE FALSE
    OBVIOUS
  <2>1. T \subseteq Nat
    BY <1>1
  <2>2. PICK l \in T : \A k \in T : ~ (<<k, l>> \in OpToRel(<, Nat))
    BY <2>1, WFMin, NatLessThanWellFounded
  <2>3. \A k \in T : ~ (k < l)
    BY <2>1, <2>2, Zenon DEF OpToRel
  <2>4. l # 0 => l - 1 \in 0..N /\ l - 1 < l
    BY <1>1
  <2>6. l # 0 => W[l - 1] = h[l - 1]
    BY <2>3, <2>4
  <2>5. W[l] = F(W, l) /\ h[l] = F(h, l)
    BY <1>2, <1>4
  <2> QED BY <2>4, <2>5, <2>6
<1>6. h[N] = s
  BY <1>1 DEF Links, h
<1>7. W[N] = s
  BY <1>1, <1>5, <1>6
<1> QED BY <1>7 DEF WalkFrom, W, N

\* Links does not look at anything but the links.
LEMMA LinksKept ==
  ASSUME NEW table, NEW start, NEW end, NEW s, Links(table, start, end, s),
         NEW t, \A r \in Root : t[r].next = table[r].next
  PROVE  Links(t, start, end, s)
  BY DEF Links

\* A root is on the list iff it is the last one or has a successor.
LEMMA ListedIffLinked ==
  ASSUME NoRoot \notin Root,
         NEW table, NEW start, NEW end, NEW s, Links(table, start, end, s), NEW r \in Root
  PROVE  (\E i \in 1..Len(s) : s[i] = r) <=> (end = r \/ table[r].next # NoRoot)
  BY DEF Links

\* ensure_root_schedule_entry appends a root that is not on the list.
LEMMA LinksAppended ==
  ASSUME NoRoot \notin Root,
         NEW table, NEW start, NEW end, NEW s, Links(table, start, end, s),
         NEW r \in Root, \A i \in 1..Len(s) : s[i] # r,
         NEW t, \A q \in Root : t[q].next = IF q = end THEN r ELSE table[q].next
  PROVE  Links(t, IF end = NoRoot THEN r ELSE start, r, Append(s, r))
<1> DEFINE u == Append(s, r)
<1>1. s \in Seq(Root) /\ Len(s) \in Nat
  BY DEF Links
<1>2. /\ u \in Seq(Root) /\ Len(u) = Len(s) + 1 /\ u # <<>> /\ u[Len(u)] = r
      /\ \A i \in 1..Len(s) : u[i] = s[i]
  BY <1>1, AppendProperties
<1> HIDE DEF u
<1>3. \A i, j \in 1..Len(u) : u[i] = u[j] => i = j
  BY <1>1, <1>2 DEF Links
<1>4. (IF end = NoRoot THEN r ELSE start) = u[1]
  BY <1>1, <1>2 DEF Links
<1>5. \A i \in 1..Len(u) : t[u[i]].next = IF i = Len(u) THEN NoRoot ELSE u[i + 1]
  <2> SUFFICES ASSUME NEW i \in 1..Len(u)
               PROVE  t[u[i]].next = IF i = Len(u) THEN NoRoot ELSE u[i + 1]
    OBVIOUS
  <2>1. CASE i = Len(u)
    BY <2>1, <1>1, <1>2 DEF Links
  <2>2. CASE i = Len(s)
    <3>1. u[i] = end /\ u[i] \in Root /\ u[i + 1] = r /\ i # Len(u)
      BY <2>2, <1>1, <1>2 DEF Links
    <3> QED BY <3>1
  <2>3. CASE i < Len(s)
    <3>1. /\ u[i] = s[i] /\ s[i] \in Root /\ i \in 1..Len(s) /\ i # Len(s) /\ i # Len(u)
          /\ u[i + 1] = s[i + 1] /\ s # <<>> /\ Len(s) \in 1..Len(s)
      BY <2>3, <1>1, <1>2
    <3>2. s[i] # end /\ table[s[i]].next = s[i + 1]
      BY <3>1 DEF Links
    <3> QED BY <3>1, <3>2
  <2> QED BY <2>1, <2>2, <2>3, <1>1, <1>2
<1>6. \A q \in Root : (\A i \in 1..Len(u) : u[i] # q) => t[q].next = NoRoot
  BY <1>1, <1>2 DEF Links
<1>7. Links(t, IF end = NoRoot THEN r ELSE start, r, u)
  BY <1>2, <1>3, <1>4, <1>5, <1>6 DEF Links
<1> QED BY <1>7 DEF u

Without(s, k) == SubSeq(s, 1, k - 1) \o SubSeq(s, k + 1, Len(s))

\* The list without its k-th root.
LEMMA WithoutIs ==
  ASSUME NEW s \in Seq(Root), NEW k \in 1..Len(s)
  PROVE  LET u == Without(s, k)
         IN  /\ u \in Seq(Root) /\ Len(u) = Len(s) - 1
             /\ \A i \in 1..Len(u) : u[i] = IF i < k THEN s[i] ELSE s[i + 1]
<1> DEFINE u == Without(s, k)
           a == SubSeq(s, 1, k - 1)
           b == SubSeq(s, k + 1, Len(s))
<1>1. Len(s) \in Nat /\ k \in Nat /\ k >= 1 /\ k <= Len(s)
  OBVIOUS
<1>2. /\ a \in Seq(Root) /\ Len(a) = k - 1
      /\ \A i \in 1..Len(a) : a[i] = s[i]
  BY <1>1
<1>3. /\ b \in Seq(Root) /\ Len(b) = Len(s) - k
      /\ \A i \in 1..Len(b) : b[i] = s[k + i]
  BY <1>1
<1>4. u = a \o b
  BY DEF Without
<1> HIDE DEF a, b, u
<1>5. /\ u \in Seq(Root) /\ Len(u) = Len(a) + Len(b)
      /\ \A i \in 1..Len(a) + Len(b) : u[i] = IF i <= Len(a) THEN a[i] ELSE b[i - Len(a)]
  BY <1>2, <1>3, <1>4, ConcatProperties, Zenon
<1>6. Len(u) = Len(s) - 1
  BY <1>1, <1>2, <1>3, <1>5
<1>7. ASSUME NEW i \in 1..Len(u) PROVE u[i] = IF i < k THEN s[i] ELSE s[i + 1]
  <2>1. CASE i < k
    <3>1. i \in 1..Len(a) /\ i <= Len(a) /\ i \in 1..Len(a) + Len(b)
      BY <2>1, <1>1, <1>2, <1>3, <1>5
    <3>2. u[i] = a[i] /\ a[i] = s[i]
      BY <3>1, <1>2, <1>5
    <3> QED BY <3>2, <2>1
  <2>2. CASE i >= k
    <3>1. i - Len(a) \in 1..Len(b) /\ k + (i - Len(a)) = i + 1 /\ u[i] = b[i - Len(a)]
      BY <2>2, <1>1, <1>2, <1>3, <1>5
    <3>2. b[i - Len(a)] = s[k + (i - Len(a))]
      BY <3>1, <1>3
    <3> QED BY <3>1, <3>2, <2>2, <1>1
  <2> QED BY <2>1, <2>2, <1>1
<1> QED BY <1>5, <1>6, <1>7 DEF u

\* The microtask unlinks the root at its cursor.
LEMMA LinksDropped ==
  ASSUME NoRoot \notin Root,
         NEW table, NEW start, NEW end, NEW s, Links(table, start, end, s),
         NEW k \in 1..Len(s), NEW previous, previous = IF k = 1 THEN NoRoot ELSE s[k - 1],
         NEW t, \A q \in Root : t[q].next = IF q = s[k] THEN NoRoot
                                            ELSE IF q = previous THEN table[s[k]].next
                                            ELSE table[q].next
  PROVE  Links(t, IF previous = NoRoot THEN table[s[k]].next ELSE start,
               IF table[s[k]].next = NoRoot THEN previous ELSE end, Without(s, k))
<1> DEFINE u == Without(s, k)
           next == table[s[k]].next
<1>1. s \in Seq(Root) /\ Len(s) \in Nat /\ k \in Nat /\ k >= 1 /\ k <= Len(s)
  BY DEF Links
<1>2. /\ u \in Seq(Root) /\ Len(u) = Len(s) - 1
      /\ \A i \in 1..Len(u) : u[i] = IF i < k THEN s[i] ELSE s[i + 1]
  BY <1>1, WithoutIs
<1>3. /\ next = IF k = Len(s) THEN NoRoot ELSE s[k + 1]
      /\ next = NoRoot <=> k = Len(s)
      /\ previous = NoRoot <=> k = 1
  BY <1>1 DEF Links
<1> HIDE DEF u, next
<1>4. \A i, j \in 1..Len(u) : u[i] = u[j] => i = j
  BY <1>1, <1>2 DEF Links
<1>5. (IF previous = NoRoot THEN next ELSE start) = IF u = <<>> THEN NoRoot ELSE u[1]
  BY <1>1, <1>2, <1>3 DEF Links
<1>6. (IF next = NoRoot THEN previous ELSE end) = IF u = <<>> THEN NoRoot ELSE u[Len(u)]
  BY <1>1, <1>2, <1>3 DEF Links
<1>7. \A i \in 1..Len(u) : t[u[i]].next = IF i = Len(u) THEN NoRoot ELSE u[i + 1]
  <2> SUFFICES ASSUME NEW i \in 1..Len(u)
               PROVE  t[u[i]].next = IF i = Len(u) THEN NoRoot ELSE u[i + 1]
    OBVIOUS
  <2> USE <1>1, <1>2, <1>3
  <2>1. CASE i + 1 = k
    <3>1. u[i] = s[i] /\ i \in 1..Len(s) /\ s[i] \in Root /\ s[i] # s[k] /\ s[i] = previous
      BY <2>1 DEF Links
    <3>2. t[u[i]].next = next
      BY <3>1 DEF next
    <3> QED BY <3>2, <2>1
  <2>2. CASE i + 1 < k
    <3>1. /\ u[i] = s[i] /\ i \in 1..Len(s) /\ s[i] \in Root /\ k - 1 \in 1..Len(s)
          /\ u[i + 1] = s[i + 1] /\ previous = s[k - 1]
      BY <2>2
    <3>2. s[i] # s[k] /\ s[i] # previous
      BY <3>1, <2>2 DEF Links
    <3>3. t[u[i]].next = table[s[i]].next
      BY <3>1, <3>2
    <3>4. table[s[i]].next = s[i + 1]
      BY <3>1, <2>2 DEF Links
    <3> QED BY <3>1, <3>3, <3>4, <2>2
  <2>3. CASE i >= k
    <3>1. u[i] = s[i + 1] /\ i + 1 \in 1..Len(s) /\ s[i + 1] \in Root
      BY <2>3
    <3>2. s[i + 1] # s[k] /\ s[i + 1] # previous
      BY <3>1, <2>3 DEF Links
    <3>3. t[u[i]].next = table[s[i + 1]].next
      BY <3>1, <3>2
    <3>4. table[s[i + 1]].next = IF i + 1 = Len(s) THEN NoRoot ELSE s[i + 2]
      BY <3>1 DEF Links
    <3> QED BY <3>1, <3>3, <3>4, <2>3, SMTT(30)
  <2> QED BY <2>1, <2>2, <2>3
<1>8. \A q \in Root : (\A i \in 1..Len(u) : u[i] # q) => t[q].next = NoRoot
  <2> SUFFICES ASSUME NEW q \in Root, \A i \in 1..Len(u) : u[i] # q, q # s[k]
               PROVE  t[q].next = NoRoot
    OBVIOUS
  <2>1. ASSUME NEW i \in 1..Len(s) PROVE s[i] # q
    <3>1. CASE i < k
      BY <3>1, <1>1, <1>2
    <3>2. CASE i > k
      <4>1. i - 1 \in 1..Len(u) /\ u[i - 1] = s[i]
        BY <3>2, <1>1, <1>2
      <4> QED BY <4>1
    <3> QED BY <3>1, <3>2, <1>1
  <2>2. q # previous
    BY <2>1, <1>1
  <2> QED BY <2>1, <2>2 DEF Links
<1>9. Links(t, IF previous = NoRoot THEN next ELSE start,
            IF next = NoRoot THEN previous ELSE end, u)
  BY <1>2, <1>4, <1>5, <1>6, <1>7, <1>8 DEF Links
<1> QED BY <1>9 DEF u, next

-----------------------------------------------------------------------------
(***************************************************************************)
(* One root.  Nothing suspends it; only transitions are entangled, possibly *)
(* with one that is no longer pending; what a render left is still pending, *)
(* and so is what it rendered, up to such transitions.                      *)
(***************************************************************************)
RootRecord ==
  [lanes : RootLaneStates, work : SUBSET Lane, remaining : SUBSET Lane, wipLanes : SUBSET Lane,
   node : Nat, priority : Lane \cup {NoLane}, next : Root \cup {NoRoot}]

LanesOK(s) ==
  /\ s.pending \subseteq ScheduledInputs
  /\ s.suspended = {}
  /\ \A l \in Lane : s.entanglements[l] \subseteq TransitionLanes

RootOK(root) ==
  /\ root \in RootRecord
  /\ LanesOK(root.lanes)
  /\ root.remaining \subseteq root.lanes.pending
  /\ root.work \ TransitionLanes \subseteq root.lanes.pending

\* A new root.
LEMMA NewRootOK == RootOK(NewRoot)
  BY NewTyped DEF NewRoot, RootOK, RootRecord, LanesOK, NewRootLaneState, NoNode

\* update_container on the lanes of a root.
LEMMA UpdatedOK ==
  ASSUME RootSchedulerAssumption, NEW root, RootOK(root), NEW lane \in ScheduledInputs
  PROVE  LET t == Updated(root, lane)
         IN  /\ RootOK(t)
             /\ t.lanes.pending = root.lanes.pending \cup {lane}
             /\ t.work = root.work /\ t.node = root.node /\ t.next = root.next
<1> DEFINE s == root.lanes
           marked == MarkUpdated(s, lane)
           tied == MarkEntangled(marked, marked.pending \cap TransitionLanes)
<1>1. s \in RootLaneStates /\ lane \in Lane
  BY DEF RootOK, RootRecord, RootSchedulerAssumption
<1>2. /\ marked \in RootLaneStates /\ LanesOK(marked)
      /\ marked.pending = s.pending \cup {lane}
  <2>1. marked \in RootLaneStates
    BY <1>1, UpdatedTyped
  <2>2. /\ marked.pending = s.pending \cup {lane} /\ marked.entanglements = s.entanglements
        /\ marked.suspended \subseteq s.suspended
    BY <1>1 DEF MarkUpdated, MarkAllUpdated, RootLaneStates
  <2> HIDE DEF marked
  <2> QED BY <2>1, <2>2 DEF RootOK, LanesOK
<1> HIDE DEF marked
<1>3. /\ tied \in RootLaneStates /\ LanesOK(tied) /\ tied.pending = marked.pending
  <2>1. marked.pending \cap TransitionLanes \in SUBSET Lane
    BY <1>2 DEF RootLaneStates
  <2>2. tied \in RootLaneStates
    BY <1>2, <2>1, EntangledTyped
  <2>3. /\ tied.pending = marked.pending /\ tied.suspended = marked.suspended
        /\ \A l \in Lane : tied.entanglements[l]
             \subseteq marked.entanglements[l] \cup (marked.pending \cap TransitionLanes)
    BY <1>2 DEF MarkEntangled, RootLaneStates
  <2> HIDE DEF tied
  <2> QED BY <1>2, <2>2, <2>3 DEF LanesOK
<1> HIDE DEF tied
<1> DEFINE t == IF lane \in TransitionLanes THEN tied ELSE marked
           w == IF root.work = {} THEN root.wipLanes ELSE root.wipLanes \cup {lane}
<1>4. Updated(root, lane) = [root EXCEPT !.lanes = t, !.wipLanes = w]
  BY DEF Updated, marked, tied, RootOK, RootRecord
<1>5. t \in RootLaneStates /\ LanesOK(t) /\ t.pending = s.pending \cup {lane}
  BY <1>2, <1>3
<1>6. w \in SUBSET Lane
  BY <1>1 DEF RootOK, RootRecord
<1> HIDE DEF t, w
<1> QED BY <1>4, <1>5, <1>6 DEF RootOK, RootRecord

\* A render of lanes that are pending or entangled.
LEMMA RenderedOK ==
  ASSUME NEW root, RootOK(root), NEW L \in SUBSET Lane, L \ TransitionLanes \subseteq root.lanes.pending
  PROVE  LET t == Rendered(root, L)
         IN  /\ RootOK(t) /\ t.work = L /\ t.lanes = root.lanes
             /\ t.node = root.node /\ t.next = root.next
  BY DEF Rendered, RootOK, RootRecord, RootLaneStates

\* The commit of a render.
LEMMA CommittedOK ==
  ASSUME NEW root, RootOK(root)
  PROVE  LET t == Committed(root)
         IN  /\ RootOK(t) /\ t.work = {} /\ t.lanes.pending = root.remaining
             /\ t.node = NoNode /\ t.next = root.next
<1> DEFINE s == root.lanes
           done == MarkFinished(s, root.work, root.remaining, NoLane, {}, {})
           kr == KeepRemaining(s, root.remaining)
           fl == ForgetLaneSlots(kr, s.pending \ root.remaining)
<1>1. /\ s \in RootLaneStates /\ root.work \in SUBSET Lane /\ root.remaining \in SUBSET s.pending
      /\ root.remaining \in SUBSET Lane
  BY DEF RootOK, RootRecord
<1>2. done \in RootLaneStates
  BY <1>1, FinishedTyped
<1>3. /\ kr \in RootLaneStates /\ kr.pending = root.remaining /\ kr.suspended = {}
      /\ kr.entanglements = s.entanglements
  BY <1>1, FeatureAssumption DEF KeepRemaining, RootLaneStates
<1> HIDE DEF kr
<1>4. /\ fl \in RootLaneStates /\ fl.pending = root.remaining /\ fl.suspended = {}
      /\ \A l \in Lane : fl.entanglements[l] \in {{}, s.entanglements[l]}
  BY <1>1, <1>3 DEF ForgetLaneSlots, RootLaneStates
<1>5. done = [fl EXCEPT !.suspended = @ \cup ({} \ (s.pending \ root.work))]
  BY DEF MarkFinished, kr, MarkSpawnedDeferredLane
<1> HIDE DEF fl
<1>6. done.pending = root.remaining /\ LanesOK(done)
  BY <1>1, <1>4, <1>5 DEF RootLaneStates, LanesOK, RootOK
<1>7. Committed(root) = [root EXCEPT !.lanes = done, !.work = {}, !.remaining = {},
                                     !.wipLanes = {}, !.node = NoNode, !.priority = NoLane]
  BY DEF Committed, RootOK, RootRecord
<1> DEFINE t == Committed(root)
<1> HIDE DEF done
<1>8. t \in RootRecord
  <2>1. root \in RootRecord /\ {} \in SUBSET Lane /\ NoNode \in Nat /\ NoLane \in Lane \cup {NoLane}
    BY DEF RootOK, NoNode
  <2> QED BY <1>2, <1>7, <2>1 DEF RootRecord
<1>9. /\ t.lanes = done /\ t.work = {} /\ t.remaining = {} /\ t.node = NoNode
      /\ t.next = root.next
  BY <1>7 DEF RootOK, RootRecord
<1> HIDE DEF t
<1>10. RootOK(t)
  BY <1>6, <1>8, <1>9 DEF RootOK
<1> QED BY <1>6, <1>9, <1>10 DEF t

\* The link of a root.
LEMMA RelinkedOK ==
  ASSUME NEW root, RootOK(root), NEW next \in Root \cup {NoRoot}
  PROVE  LET t == [root EXCEPT !.next = next]
         IN  /\ RootOK(t) /\ t.next = next /\ t.node = root.node /\ t.priority = root.priority
             /\ t.lanes = root.lanes /\ t.work = root.work
  BY DEF RootOK, RootRecord

-----------------------------------------------------------------------------
(***************************************************************************)
(* What the scheduler selects from a root.                                  *)
(***************************************************************************)
\* The sync lane is always among the most urgent ones.
LEMMA SyncLaneFirst ==
  ASSUME NEW S \in SUBSET Lane, SyncLane \in S
  PROVE  SyncLane \in HighestPriorityLanes(S)
  BY DEF HighestPriorityLanes, SyncUpdateLanes, SyncLane

\* get_next_lanes before it looks at the render in progress, for a root that is not suspended.
LEMMA NextBeforeWip ==
  ASSUME RootSchedulerAssumption, NEW root, RootOK(root)
  PROVE  LET next == NextLanesBeforeWip(root.lanes, FALSE)
         IN  /\ next \subseteq root.lanes.pending
             /\ next = {} <=> root.lanes.pending = {}
             /\ SyncLane \in root.lanes.pending => SyncLane \in next
<1> DEFINE s == root.lanes
           nonIdle == s.pending \cap NonIdleLanes
           pool == IF nonIdle # {} THEN nonIdle ELSE s.pending
<1>1. /\ s \in RootLaneStates /\ s.pending \in SUBSET Lane /\ s.suspended = {}
      /\ DeferredLane \notin s.pending
  BY DEF RootOK, RootRecord, LanesOK, RootSchedulerAssumption, RootLaneStates
<1>2. pool \in SUBSET Lane /\ pool \subseteq s.pending /\ DeferredLane \notin pool
  BY <1>1
<1>3. pool = {} <=> s.pending = {}
  OBVIOUS
<1>4. SyncLane \in s.pending => SyncLane \in pool
  BY DEF SyncLane, NonIdleLanes
<1>5. NextLanesBeforeWip(s, FALSE) = IF s.pending = {} THEN {} ELSE HighestPriorityLanes(pool)
  <2>1. pool \ s.suspended = pool
    BY <1>1
  <2> QED BY <1>3, <2>1 DEF NextLanesBeforeWip
<1> HIDE DEF pool
<1> QED BY <1>1, <1>2, <1>3, <1>4, <1>5, HighestPriorityLanesNonempty,
           HighestPriorityLanesSubset, SyncLaneFirst

\* get_next_lanes: some lanes iff some are pending, the sync lane whenever it is pending.
LEMMA PriorityOK ==
  ASSUME RootSchedulerAssumption, NEW root, RootOK(root)
  PROVE  /\ PriorityLanes(root) \in SUBSET Lane
         /\ PriorityLanes(root) \ TransitionLanes \subseteq root.lanes.pending
         /\ PriorityLanes(root) = {} <=> root.lanes.pending = {}
         /\ IncludesSyncLane(PriorityLanes(root)) <=> SyncLane \in root.lanes.pending
<1> DEFINE s == root.lanes
           next == NextLanesBeforeWip(s, FALSE)
           P == PriorityLanes(root)
<1>1. /\ next \subseteq s.pending
      /\ next = {} <=> s.pending = {}
      /\ SyncLane \in s.pending => SyncLane \in next
  BY NextBeforeWip
<1>2. /\ s.pending \subseteq Lane /\ root.work \in SUBSET Lane
      /\ root.work \ TransitionLanes \subseteq s.pending
      /\ SyncHydrationLane \notin s.pending
  BY DEF RootOK, RootRecord, RootLaneStates, LanesOK, RootSchedulerAssumption
<1>3. P = next \/ (P = root.work /\ root.work # {} /\ next # {}
                   /\ \/ HighestPriorityLane(next) >= HighestPriorityLane(root.work)
                      \/ /\ HighestPriorityLane(next) = DefaultLane
                         /\ HighestPriorityLane(root.work) \in TransitionLanes)
  BY DEF PriorityLanes, GetNextLanes
<1>4. P = {} <=> s.pending = {}
  BY <1>1, <1>3 DEF PriorityLanes, GetNextLanes
<1> HIDE DEF next, P
<1>5. P \in SUBSET Lane /\ P \ TransitionLanes \subseteq s.pending
  BY <1>1, <1>2, <1>3
<1>6. IncludesSyncLane(P) => SyncLane \in s.pending
  BY <1>2, <1>5 DEF IncludesSyncLane, TransitionLanes, TransitionUpdateLanes,
     TransitionDeferredLanes, SyncLane, SyncHydrationLane
<1>7. ASSUME SyncLane \in s.pending, P # next PROVE SyncLane \in P
  <2>1. next \in SUBSET Lane /\ SyncLane \in next
    BY <1>7, <1>1, <1>2
  <2>2. HighestPriorityLane(next) <= SyncLane /\ HighestPriorityLane(next) \in Int
    <3>1. next # {}
      BY <2>1
    <3>2. HighestPriorityLane(next) \in next /\ HighestPriorityLane(next) <= SyncLane
      BY <2>1, <3>1, HighestPriorityLaneIsMinimum
    <3>3. HighestPriorityLane(next) \in AllLanes
      BY <2>1, <3>2, LaneAssumption, Zenon
    <3> QED BY <3>2, <3>3 DEF AllLanes
  <2>3. /\ HighestPriorityLane(root.work) \in root.work
        /\ HighestPriorityLane(root.work) \in 0..30
    BY <1>2, <1>3, <1>7, HighestPriorityLaneIsMinimum, LaneAssumption DEF AllLanes
  <2>4. HighestPriorityLane(root.work) <= SyncLane
    BY <2>2, <2>3, <1>3, <1>7 DEF SyncLane, DefaultLane
  <2>5. HighestPriorityLane(root.work) # 0
    BY <2>3, <1>2 DEF SyncHydrationLane, TransitionLanes, TransitionUpdateLanes,
       TransitionDeferredLanes
  <2> QED BY <2>3, <2>4, <2>5, <1>3, <1>7 DEF SyncLane
<1>8. SyncLane \in s.pending => IncludesSyncLane(P)
  BY <1>1, <1>7 DEF IncludesSyncLane
<1> QED BY <1>4, <1>5, <1>6, <1>8 DEF P

\* Entanglement adds transitions only.
LEMMA EntangledAddsTransitions ==
  ASSUME NEW root, RootOK(root), NEW L \in SUBSET Lane
  PROVE  /\ EntangledLanesFor(root.lanes, L) \in SUBSET Lane
         /\ L \subseteq EntangledLanesFor(root.lanes, L)
         /\ EntangledLanesFor(root.lanes, L) \subseteq L \cup TransitionLanes
  BY DEF EntangledLanesFor, RootOK, RootRecord, LanesOK, RootLaneStates

\* The lanes of a scheduled task.
LEMMA NextLanesOK ==
  ASSUME RootSchedulerAssumption, NEW root, RootOK(root)
  PROVE  /\ NextLanes(root) \in SUBSET Lane
         /\ NextLanes(root) \ TransitionLanes \subseteq root.lanes.pending
         /\ NextLanes(root) = {} <=> root.lanes.pending = {}
         /\ IncludesSyncLane(NextLanes(root)) <=> SyncLane \in root.lanes.pending
<1> DEFINE P == PriorityLanes(root)
           E == EntangledLanesFor(root.lanes, P)
<1>1. /\ P \in SUBSET Lane /\ P \ TransitionLanes \subseteq root.lanes.pending
      /\ P = {} <=> root.lanes.pending = {}
      /\ IncludesSyncLane(P) <=> SyncLane \in root.lanes.pending
  BY PriorityOK
<1>2. NextLanes(root) = IF P = {} THEN {} ELSE E
  BY DEF NextLanes, SelectedNextLanes, PriorityLanes
<1> HIDE DEF P
<1>3. E \in SUBSET Lane /\ P \subseteq E /\ E \subseteq P \cup TransitionLanes
  BY <1>1, EntangledAddsTransitions
<1> HIDE DEF E
<1>4. IncludesSyncLane(E) <=> IncludesSyncLane(P)
  BY <1>3 DEF IncludesSyncLane, TransitionLanes, TransitionUpdateLanes,
     TransitionDeferredLanes, SyncLane, SyncHydrationLane
<1>5. ~ IncludesSyncLane({})
  BY DEF IncludesSyncLane
<1> QED BY <1>1, <1>2, <1>3, <1>4, <1>5

\* The lanes of a sync flush: the sync lane, when it is pending.
LEMMA SyncFlushOK ==
  ASSUME RootSchedulerAssumption, NEW root, RootOK(root)
  PROVE  RootSyncLanes(root) = {SyncLane} \cap root.lanes.pending
<1> DEFINE s == root.lanes
           H == HighestPriorityLanes(s.pending)
<1>1. s.pending \in SUBSET Lane /\ SyncHydrationLane \notin s.pending
  BY DEF RootOK, RootRecord, RootLaneStates, LanesOK, RootSchedulerAssumption
<1>2. H \subseteq s.pending /\ (SyncLane \in s.pending => SyncLane \in H)
  BY <1>1, HighestPriorityLanesSubset, SyncLaneFirst
<1> HIDE DEF H
<1>3. H \subseteq EntangledLanesFor(s, H) /\ EntangledLanesFor(s, H) \subseteq H \cup TransitionLanes
  BY <1>1, <1>2, EntangledAddsTransitions
<1>4. RootSyncLanes(root) = EntangledLanesFor(s, H) \cap {SyncHydrationLane, SyncLane}
  BY DEF RootSyncLanes, H
<1> QED BY <1>1, <1>2, <1>3, <1>4 DEF TransitionLanes, TransitionUpdateLanes,
           TransitionDeferredLanes, SyncLane, SyncHydrationLane

-----------------------------------------------------------------------------
(***************************************************************************)
(* The inductive invariant.  Of the list: the links thread the walk.  Of    *)
(* the callbacks: nodes are never reused and belong to one root.  Of the    *)
(* microtask: the roots before its cursor are served already, and flagged   *)
(* if they have sync work.                                                  *)
(***************************************************************************)
SchedulerTyped ==
  /\ DOMAIN roots = Root /\ \A r \in Root : RootOK(roots[r])
  /\ mightHaveSyncWork \in BOOLEAN
  /\ requests \subseteq [node : Nat, root : Root]
  /\ nextNode \in Nat
  /\ loop \in [kind : {"idle", "microtask", "render", "commit"},
               cursor : Root \cup {NoRoot}, previous : Root \cup {NoRoot}, didWork : BOOLEAN]
  /\ loop.kind = "idle" => loop = Idle

Linked == Links(roots, first, last, ScheduledRoots)

Nodes ==
  /\ \A q \in requests : q.node # NoNode /\ q.node < nextNode
  /\ \A r \in Root : roots[r].node < nextNode
  /\ \A r, q \in Root : roots[r].node # NoNode /\ roots[r].node = roots[q].node => r = q

HasSyncWork(r) == SyncLane \in roots[r].lanes.pending

Flagged == loop.kind # "microtask" => \A r \in Root : HasSyncWork(r) => mightHaveSyncWork

Visited(r) == (Served(r) \/ Overtaken(r)) /\ (HasSyncWork(r) => mightHaveSyncWork)

VisitedBefore(k) ==
  LET s == ScheduledRoots
  IN  /\ loop.cursor = IF k = Len(s) + 1 THEN NoRoot ELSE s[k]
      /\ loop.previous = IF k = 1 THEN NoRoot ELSE s[k - 1]
      /\ \A i \in 1..(k - 1) : Visited(s[i])

Walking ==
  /\ loop.kind = "microtask" => \E k \in 1..(Len(ScheduledRoots) + 1) : VisitedBefore(k)
  /\ loop.kind \in {"render", "commit"} => mightHaveSyncWork

Inv ==
  /\ SchedulerTyped
  /\ Linked
  /\ Nodes
  /\ CallbackIsLive
  /\ PendingRootsAreListed
  /\ Flagged
  /\ Walking

\* The initial state.
LEMMA InitInv == RootSchedulerAssumption /\ SchedulerInit => Inv
<1> SUFFICES ASSUME RootSchedulerAssumption, SchedulerInit PROVE Inv
  OBVIOUS
<1>1. Links(roots, first, last, <<>>)
  BY DEF SchedulerInit, Links, NewRoot
<1>2. ScheduledRoots = <<>>
  BY <1>1, WalkIsList DEF RootSchedulerAssumption, ScheduledRoots
<1>3. SchedulerTyped
  BY NewRootOK DEF SchedulerInit, SchedulerTyped, Idle
<1>4. Linked
  BY <1>1, <1>2 DEF Linked
<1>5. \A r \in Root : roots[r].lanes.pending = {} /\ roots[r].node = NoNode
  BY DEF SchedulerInit, NewRoot, NewRootLaneState
<1>6. Nodes /\ CallbackIsLive
  BY <1>5 DEF SchedulerInit, Nodes, CallbackIsLive, NoNode
<1>7. PendingRootsAreListed /\ Flagged
  BY <1>5 DEF PendingRootsAreListed, Flagged, HasSyncWork
<1>8. Walking
  BY DEF SchedulerInit, Walking, Idle
<1> QED BY <1>3, <1>4, <1>6, <1>7, <1>8 DEF Inv

-----------------------------------------------------------------------------
(***************************************************************************)
(* Facts the steps share.                                                   *)
(***************************************************************************)
\* What a step may do to the list.
ListStep ==
  \/ ScheduledRoots' = ScheduledRoots
  \/ \E r \in Root : /\ \A i \in 1..Len(ScheduledRoots) : ScheduledRoots[i] # r
                    /\ ScheduledRoots' = Append(ScheduledRoots, r)
  \/ \E k \in 1..Len(ScheduledRoots) : ScheduledRoots' = Without(ScheduledRoots, k)

\* The roots on the list.
LEMMA ListedIs ==
  ASSUME Linked
  PROVE  /\ ScheduledRoots \in Seq(Root) /\ Len(ScheduledRoots) \in Nat
         /\ Listed \subseteq Root
         /\ \A r : r \in Listed <=> \E i \in 1..Len(ScheduledRoots) : ScheduledRoots[i] = r
<1>1. ScheduledRoots \in Seq(Root)
  BY DEF Linked, Links
<1> QED BY <1>1 DEF Listed

\* The same of the next state.
LEMMA ListedIsNext ==
  ASSUME Linked'
  PROVE  /\ ScheduledRoots' \in Seq(Root) /\ Len(ScheduledRoots)' \in Nat
         /\ \A r : r \in Listed' <=> \E i \in 1..Len(ScheduledRoots)' : ScheduledRoots[i]' = r
<1>1. ScheduledRoots' \in Seq(Root)
  BY DEF Linked, Links
<1> QED BY <1>1 DEF Listed

\* A list threaded by the next state is what scheduled_roots will return.
LEMMA ListBecomes ==
  ASSUME RootSchedulerAssumption, NEW s, Links(roots', first', last', s)
  PROVE  Linked' /\ ScheduledRoots' = s
<1>1. WalkFrom(roots', first') = s
  BY WalkIsList DEF RootSchedulerAssumption
<1>2. ScheduledRoots' = s
  BY <1>1 DEF ScheduledRoots
<1> QED BY <1>2 DEF Linked

\* A step that leaves the links alone leaves the list alone.
LEMMA ListKept ==
  ASSUME RootSchedulerAssumption, Linked, UNCHANGED <<first, last>>,
         \A r \in Root : roots'[r].next = roots[r].next
  PROVE  Linked' /\ ScheduledRoots' = ScheduledRoots /\ Listed' = Listed
<1>1. Links(roots', first', last', ScheduledRoots)
  BY LinksKept DEF Linked
<1>2. Linked' /\ ScheduledRoots' = ScheduledRoots
  BY <1>1, ListBecomes
<1> QED BY <1>2 DEF Listed

\* Nodes only go away, and so do the requests.
LEMMA NodesKept ==
  ASSUME SchedulerTyped, Nodes, nextNode' = nextNode, requests' \subseteq requests,
         \A r \in Root : roots'[r].node \in {roots[r].node, NoNode}
  PROVE  Nodes'
<1>1. \A r \in Root : NoNode < nextNode /\ roots[r].node \in Nat
  BY DEF SchedulerTyped, Nodes, NoNode, RootOK, RootRecord
<1> QED BY <1>1 DEF Nodes, NoNode

(***************************************************************************)
(* A step outside the microtask that leaves the list and the flag alone and *)
(* adds no pending lanes.                                                   *)
(***************************************************************************)
LEMMA QuietStep ==
  ASSUME RootSchedulerAssumption, Inv, SchedulerTyped', Nodes', CallbackIsLive',
         UNCHANGED <<first, last, mightHaveSyncWork>>,
         \A r \in Root : /\ roots'[r].next = roots[r].next
                         /\ roots'[r].lanes.pending \subseteq roots[r].lanes.pending,
         loop.kind # "microtask", loop'.kind # "microtask",
         loop'.kind \in {"render", "commit"} => mightHaveSyncWork
  PROVE  Inv' /\ ListStep
<1>1. Linked' /\ Listed' = Listed /\ ScheduledRoots' = ScheduledRoots
  BY ListKept DEF Inv
<1>2. PendingRootsAreListed'
  BY <1>1 DEF Inv, PendingRootsAreListed
<1>3. Flagged'
  BY DEF Inv, Flagged, HasSyncWork
<1>4. Walking'
  BY DEF Walking
<1> QED BY <1>1, <1>2, <1>3, <1>4 DEF Inv, ListStep

-----------------------------------------------------------------------------
(***************************************************************************)
(* The steps.                                                               *)
(***************************************************************************)
\* A callback that is not stale renders, or finds nothing to do.
LEMMA ExecuteStep ==
  ASSUME RootSchedulerAssumption, Inv, NEW request \in requests, ExecuteCallback(request)
  PROVE  Inv' /\ ListStep
<1> DEFINE r == request.root
           chosen == NextLanes(roots[r])
<1>1. /\ r \in Root /\ RootOK(roots[r]) /\ DOMAIN roots = Root
      /\ loop = Idle /\ loop' = Idle
  BY DEF Inv, SchedulerTyped, ExecuteCallback
<1>2. chosen \in SUBSET Lane /\ chosen \ TransitionLanes \subseteq roots[r].lanes.pending
  BY <1>1, NextLanesOK
<1>3. ASSUME NEW q \in Root
      PROVE  /\ RootOK(roots'[q])
             /\ roots'[q].next = roots[q].next /\ roots'[q].lanes = roots[q].lanes
             /\ roots'[q].node \in {roots[q].node, NoNode}
             /\ \/ roots'[q] = roots[q] /\ (q = r => IsStale(request))
                \/ roots'[q].node = NoNode
                \/ roots'[q].work # {}
  <2>0. RootOK(roots[q])
    BY DEF Inv, SchedulerTyped
  <2>1. CASE IsStale(request)
    BY <2>0, <2>1 DEF ExecuteCallback
  <2>2. CASE ~ IsStale(request) /\ chosen = {}
    <3>1. roots' = [roots EXCEPT ![r].node = NoNode, ![r].priority = NoLane]
      BY <2>2 DEF ExecuteCallback
    <3>2. q # r => roots'[q] = roots[q]
      BY <3>1, <1>1
    <3>3. q = r => roots'[q] = [roots[q] EXCEPT !.node = NoNode, !.priority = NoLane]
      BY <3>1, <1>1
    <3>4. RootOK([roots[q] EXCEPT !.node = NoNode, !.priority = NoLane])
      BY <2>0 DEF RootOK, RootRecord, NoNode
    <3>5. /\ [roots[q] EXCEPT !.node = NoNode, !.priority = NoLane].node = NoNode
          /\ [roots[q] EXCEPT !.node = NoNode, !.priority = NoLane].next = roots[q].next
          /\ [roots[q] EXCEPT !.node = NoNode, !.priority = NoLane].lanes = roots[q].lanes
      BY <2>0 DEF RootOK, RootRecord
    <3> QED BY <2>0, <3>2, <3>3, <3>4, <3>5
  <2>3. CASE ~ IsStale(request) /\ chosen # {}
    <3>1. roots' = [roots EXCEPT ![r] = Rendered(roots[r], chosen)]
      BY <2>3 DEF ExecuteCallback
    <3> HIDE DEF chosen
    <3> QED BY <2>0, <2>3, <3>1, <1>1, <1>2, RenderedOK
  <2> QED BY <2>1, <2>2, <2>3
<1>4. SchedulerTyped'
  <2>1. DOMAIN roots' = Root
    BY <1>1 DEF ExecuteCallback
  <2> QED BY <1>3, <2>1 DEF Inv, SchedulerTyped, ExecuteCallback
<1>5. Nodes'
  BY <1>3, NodesKept DEF Inv, ExecuteCallback
<1>6. CallbackIsLive'
  <2> SUFFICES ASSUME NEW q \in Root, roots'[q].node # NoNode, roots'[q].work = {}
               PROVE  [node |-> roots'[q].node, root |-> q] \in requests'
    BY DEF CallbackIsLive
  <2>1. roots'[q] = roots[q] /\ (q = r => IsStale(request))
    BY <1>3
  <2>2. [node |-> roots[q].node, root |-> q] \in requests
    BY <2>1 DEF Inv, CallbackIsLive
  <2>3. [node |-> roots[q].node, root |-> q] # request
    BY <2>1 DEF IsStale
  <2> QED BY <2>1, <2>2, <2>3 DEF ExecuteCallback
<1> QED BY <1>1, <1>3, <1>4, <1>5, <1>6, QuietStep DEF ExecuteCallback, Idle

\* The commit of a rendered root.
LEMMA CommitRootStep ==
  ASSUME RootSchedulerAssumption, Inv, NEW r \in Root, CommitRoot(r)
  PROVE  Inv' /\ ListStep
<1>1. DOMAIN roots = Root /\ loop = Idle /\ loop' = Idle /\ \A q \in Root : RootOK(roots[q])
  BY DEF Inv, SchedulerTyped, CommitRoot
<1>2. roots' = [roots EXCEPT ![r] = Committed(roots[r])]
  BY DEF CommitRoot
<1>3. ASSUME NEW q \in Root
      PROVE  /\ RootOK(roots'[q])
             /\ roots'[q].next = roots[q].next
             /\ roots'[q].lanes.pending \subseteq roots[q].lanes.pending
             /\ roots'[q].node = NoNode \/ roots'[q] = roots[q]
  BY <1>1, <1>2, CommittedOK DEF RootOK
<1>4. SchedulerTyped'
  BY <1>1, <1>2, <1>3 DEF Inv, SchedulerTyped, CommitRoot
<1>5. Nodes'
  BY <1>3, NodesKept DEF Inv, CommitRoot
<1>6. CallbackIsLive'
  BY <1>3 DEF Inv, CallbackIsLive, CommitRoot
<1> QED BY <1>1, <1>3, <1>4, <1>5, <1>6, QuietStep DEF CommitRoot, Idle

\* One root of a sync flush.
LEMMA FlushRootStep ==
  ASSUME RootSchedulerAssumption, Inv, FlushStep
  PROVE  Inv' /\ ListStep
<1> DEFINE r == loop.cursor
           chosen == RootSyncLanes(roots[r])
           rendered == Rendered(roots[r], chosen)
<1>1. /\ DOMAIN roots = Root /\ \A q \in Root : RootOK(roots[q])
      /\ loop.kind \in {"render", "commit"} /\ r \in Root /\ mightHaveSyncWork
  BY DEF Inv, SchedulerTyped, FlushStep, Walking
<1>2. chosen \in SUBSET Lane /\ chosen \subseteq roots[r].lanes.pending
  BY <1>1, SyncFlushOK DEF RootOK, RootRecord, RootLaneStates
<1>3. ASSUME NEW q \in Root
      PROVE  /\ RootOK(roots'[q])
             /\ roots'[q].next = roots[q].next
             /\ roots'[q].lanes.pending \subseteq roots[q].lanes.pending
             /\ roots'[q].node \in {roots[q].node, NoNode}
             /\ \/ roots'[q] = roots[q]
                \/ roots'[q].node = NoNode
                \/ roots'[q].work # {}
  <2>1. CASE chosen = {} \/ q # r
    BY <2>1, <1>1 DEF FlushStep
  <2>2. CASE chosen # {} /\ q = r
    <3>1. /\ RootOK(rendered) /\ rendered.work = chosen /\ rendered.lanes = roots[r].lanes
          /\ rendered.node = roots[r].node /\ rendered.next = roots[r].next
      BY <1>1, <1>2, RenderedOK
    <3>2. roots'[q] = IF loop.kind = "render" THEN rendered ELSE Committed(rendered)
      BY <2>2, <1>1 DEF FlushStep
    <3> HIDE DEF rendered
    <3>3. /\ RootOK(Committed(rendered)) /\ Committed(rendered).node = NoNode
          /\ Committed(rendered).next = rendered.next
          /\ Committed(rendered).lanes.pending \subseteq rendered.lanes.pending
      BY <3>1, CommittedOK DEF RootOK
    <3> QED BY <2>2, <3>1, <3>2, <3>3
  <2> QED BY <2>1, <2>2
<1>4. loop' \in [kind : {"idle", "microtask", "render", "commit"},
                 cursor : Root \cup {NoRoot}, previous : Root \cup {NoRoot}, didWork : BOOLEAN]
      /\ loop'.kind = loop.kind
  <2>1. roots[r].next \in Root \cup {NoRoot}
    BY <1>1 DEF RootOK, RootRecord
  <2>2. loop' = [loop EXCEPT !.cursor = roots[r].next, !.previous = NoRoot,
                             !.didWork = loop.didWork \/ chosen # {}]
    BY DEF FlushStep, Advance
  <2>3. (loop.didWork \/ chosen # {}) \in BOOLEAN
    OBVIOUS
  <2> QED BY <2>1, <2>2, <2>3 DEF Inv, SchedulerTyped
<1>5. SchedulerTyped'
  <2>1. DOMAIN roots' = Root
    BY <1>1 DEF FlushStep
  <2> QED BY <1>1, <1>3, <1>4, <2>1 DEF Inv, SchedulerTyped, FlushStep
<1>6. Nodes'
  BY <1>3, NodesKept DEF Inv, FlushStep
<1>7. CallbackIsLive'
  BY <1>3 DEF Inv, CallbackIsLive, FlushStep
<1> QED BY <1>1, <1>3, <1>4, <1>5, <1>6, <1>7, QuietStep DEF FlushStep

\* An update puts its root on the list and announces it.
LEMMA ScheduleStep ==
  ASSUME RootSchedulerAssumption, Inv, NEW r \in Root, NEW lane \in ScheduledInputs,
         ScheduleUpdate(r, lane)
  PROVE  Inv' /\ ListStep
<1> DEFINE table == [roots EXCEPT ![r] = Updated(roots[r], lane)]
           s == ScheduledRoots
<1>1. /\ DOMAIN roots = Root /\ \A q \in Root : RootOK(roots[q])
      /\ loop = Idle /\ loop' = Idle /\ requests' = requests /\ nextNode' = nextNode
      /\ mightHaveSyncWork' = TRUE
      /\ EnsureRootScheduleEntry(table, r)
  BY DEF Inv, SchedulerTyped, ScheduleUpdate, EnsureRootScheduleEntry
<1>2. ASSUME NEW q \in Root
      PROVE  /\ RootOK(table[q]) /\ table[q].next = roots[q].next
             /\ table[q].node = roots[q].node /\ table[q].work = roots[q].work
             /\ q # r => table[q].lanes = roots[q].lanes
  BY <1>1, UpdatedOK
<1>3. DOMAIN table = Root
  BY <1>1
<1> HIDE DEF table
<1>4. Links(roots, first, last, s) /\ NoRoot \notin Root
  BY DEF Inv, Linked, RootSchedulerAssumption
<1>5. /\ \A q \in Root : /\ RootOK(roots'[q])
                         /\ roots'[q].node = roots[q].node /\ roots'[q].work = roots[q].work
                         /\ q # r => roots'[q].lanes = roots[q].lanes
      /\ DOMAIN roots' = Root
      /\ Linked'
      /\ Listed' = Listed \cup {r}
      /\ ListStep
  <2>1. CASE AlreadyScheduled(r)
    <3>1. roots' = table /\ UNCHANGED <<first, last>>
      BY <1>1, <2>1 DEF EnsureRootScheduleEntry
    <3>2. Linked' /\ Listed' = Listed /\ ScheduledRoots' = ScheduledRoots
      BY <3>1, <1>2, ListKept DEF Inv
    <3>3. r \in Listed
      BY <1>4, <2>1, ListedIffLinked, ListedIs DEF AlreadyScheduled, Inv
    <3> QED BY <1>2, <1>3, <3>1, <3>2, <3>3 DEF ListStep
  <2>2. CASE ~ AlreadyScheduled(r)
    <3>1. /\ roots' = IF last = NoRoot THEN table ELSE [table EXCEPT ![last].next = r]
          /\ first' = IF last = NoRoot THEN r ELSE first
          /\ last' = r
      BY <1>1, <2>2 DEF EnsureRootScheduleEntry, AppendScheduledRoot
    <3>2. ASSUME NEW q \in Root
          PROVE  /\ RootOK(roots'[q])
                 /\ roots'[q].node = table[q].node /\ roots'[q].work = table[q].work
                 /\ roots'[q].lanes = table[q].lanes
                 /\ roots'[q].next = IF q = last THEN r ELSE roots[q].next
      <4>1. CASE q # last \/ last = NoRoot
        BY <4>1, <1>2, <1>3, <1>4, <3>1
      <4>2. CASE q = last /\ last # NoRoot
        <5>1. roots'[q] = [table[q] EXCEPT !.next = r]
          BY <4>2, <1>3, <3>1
        <5>2. RootOK(table[q]) /\ r \in Root \cup {NoRoot}
          BY <1>2
        <5> QED BY <4>2, <5>1, <5>2 DEF RootOK, RootRecord
      <4> QED BY <4>1, <4>2
    <3>3. \A i \in 1..Len(s) : s[i] # r
      BY <1>4, <2>2, ListedIffLinked DEF AlreadyScheduled
    <3>4. Links(roots', first', last', Append(s, r))
      <4>1. \A q \in Root : roots'[q].next = IF q = last THEN r ELSE roots[q].next
        BY <3>2
      <4>2. Links(roots', IF last = NoRoot THEN r ELSE first, r, Append(s, r))
        BY <1>4, <3>3, <4>1, LinksAppended, Zenon
      <4> QED BY <3>1, <4>2
    <3>5. Linked' /\ ScheduledRoots' = Append(s, r)
      BY <3>4, ListBecomes
    <3>6. \A q : q \in Listed <=> \E i \in 1..Len(s) : s[i] = q
      BY ListedIs DEF Inv
    <3>7. \A q : q \in Listed' <=> \E i \in 1..Len(Append(s, r)) : Append(s, r)[i] = q
      BY <3>5, ListedIsNext
    <3>8. /\ Len(Append(s, r)) = Len(s) + 1 /\ Append(s, r)[Len(s) + 1] = r /\ Len(s) \in Nat
          /\ \A i \in 1..Len(s) : Append(s, r)[i] = s[i]
      BY AppendProperties, ListedIs DEF Inv
    <3>9. Listed' = Listed \cup {r}
      <4>1. ASSUME NEW q \in Listed' PROVE q \in Listed \cup {r}
        BY <3>6, <3>7, <3>8
      <4>2. ASSUME NEW q \in Listed PROVE q \in Listed'
        <5>1. PICK i \in 1..Len(s) : s[i] = q
          BY <3>6
        <5>2. i \in 1..Len(Append(s, r)) /\ Append(s, r)[i] = q
          BY <5>1, <3>8
        <5> QED BY <5>2, <3>7
      <4>3. r \in Listed'
        BY <3>7, <3>8
      <4> QED BY <4>1, <4>2, <4>3
    <3>10. DOMAIN roots' = Root
      BY <1>3, <3>1
    <3>11. ListStep
      BY <3>3, <3>5 DEF ListStep
    <3> QED BY <1>2, <3>2, <3>5, <3>9, <3>10, <3>11
  <2> QED BY <2>1, <2>2
<1>6. ASSUME NEW q \in Root
      PROVE  /\ RootOK(roots'[q])
             /\ roots'[q].node = roots[q].node /\ roots'[q].work = roots[q].work
             /\ q # r => roots'[q].lanes = roots[q].lanes
  BY <1>5
<1>7. SchedulerTyped'
  BY <1>1, <1>5, <1>6 DEF Inv, SchedulerTyped, Idle
<1>8. Nodes'
  BY <1>1, <1>6 DEF Inv, Nodes
<1>9. CallbackIsLive'
  BY <1>1, <1>6 DEF Inv, CallbackIsLive
<1>10. PendingRootsAreListed'
  BY <1>5, <1>6 DEF Inv, PendingRootsAreListed
<1>11. Flagged' /\ Walking'
  BY <1>1 DEF Flagged, Walking, Idle
<1> QED BY <1>5, <1>7, <1>8, <1>9, <1>10, <1>11 DEF Inv

(***************************************************************************)
(* A step that changes neither the roots nor the list.                      *)
(***************************************************************************)
LEMMA RootsKept ==
  ASSUME RootSchedulerAssumption, Inv, UNCHANGED <<roots, first, last, requests, nextNode>>
  PROVE  /\ Linked' /\ Nodes' /\ CallbackIsLive' /\ PendingRootsAreListed'
         /\ ScheduledRoots' = ScheduledRoots /\ Listed' = Listed
<1>1. Linked' /\ ScheduledRoots' = ScheduledRoots /\ Listed' = Listed
  BY ListKept DEF Inv
<1> QED BY <1>1 DEF Inv, Nodes, CallbackIsLive, PendingRootsAreListed

\* The microtask starts before the first root, having cleared the flag.
LEMMA StartMicrotaskStep ==
  ASSUME RootSchedulerAssumption, Inv, NEW requested \in BOOLEAN, StartMicrotask(requested)
  PROVE  Inv' /\ ListStep
<1> DEFINE s == ScheduledRoots
<1>1. /\ UNCHANGED <<roots, first, last, requests, nextNode>> /\ mightHaveSyncWork' = FALSE
      /\ loop' = IF first = NoRoot THEN Idle
                 ELSE [Idle EXCEPT !.kind = "microtask", !.cursor = first]
  BY DEF StartMicrotask
<1>2. /\ Linked' /\ Nodes' /\ CallbackIsLive' /\ PendingRootsAreListed'
      /\ ScheduledRoots' = s /\ Listed' = Listed /\ ListStep
  BY <1>1, RootsKept DEF ListStep
<1>3. /\ s \in Seq(Root) /\ Len(s) \in Nat
      /\ first = IF s = <<>> THEN NoRoot ELSE s[1]
      /\ NoRoot \notin Root
  BY DEF Inv, Linked, Links, RootSchedulerAssumption
<1>4. CASE first = NoRoot
  <2>1. s = <<>>
    BY <1>3, <1>4
  <2>2. Listed = {}
    BY <2>1, ListedIs DEF Inv
  <2>3. \A r \in Root : ~ HasSyncWork(r)'
    BY <1>1, <2>2 DEF Inv, PendingRootsAreListed, HasSyncWork
  <2>4. SchedulerTyped'
    BY <1>1, <1>4 DEF Inv, SchedulerTyped, Idle
  <2>5. Flagged' /\ Walking'
    BY <1>1, <1>4, <2>3 DEF Flagged, Walking, Idle
  <2> QED BY <1>2, <2>4, <2>5 DEF Inv
<1>5. CASE first # NoRoot
  <2>1. s # <<>> /\ first = s[1] /\ s[1] \in Root /\ 1 \in 1..(Len(s) + 1) /\ 1 # Len(s) + 1
    BY <1>3, <1>5
  <2>2. /\ loop'.kind = "microtask" /\ loop'.cursor = s[1] /\ loop'.previous = NoRoot
        /\ loop' \in [kind : {"idle", "microtask", "render", "commit"},
               cursor : Root \cup {NoRoot}, previous : Root \cup {NoRoot}, didWork : BOOLEAN]
    BY <1>1, <1>5, <2>1 DEF Idle
  <2>3. SchedulerTyped'
    BY <1>1, <2>2 DEF Inv, SchedulerTyped
  <2>4. VisitedBefore(1)'
    BY <1>2, <2>1, <2>2 DEF VisitedBefore
  <2>5. Flagged' /\ Walking'
    BY <1>2, <2>1, <2>2, <2>4 DEF Flagged, Walking
  <2> QED BY <1>2, <2>3, <2>5 DEF Inv
<1> QED BY <1>4, <1>5

\* The place after one in the list.
LEMMA NextPlace ==
  ASSUME NEW n \in Nat, NEW k \in 1..n
  PROVE  k + 1 \in 1..(n + 1) /\ (k = n <=> k + 1 = n + 1) /\ k + 1 # 1 /\ (k + 1) - 1 = k
  OBVIOUS

\* When the microtask ends it has been at every root of the list.
LEMMA VisitedAll ==
  ASSUME RootSchedulerAssumption, SchedulerTyped, Linked, Walking,
         loop.kind = "microtask", loop.cursor = NoRoot
  PROVE  \A r \in Listed : Visited(r)
<1> DEFINE s == ScheduledRoots
<1>1. PICK k \in 1..(Len(s) + 1) : VisitedBefore(k)
  BY DEF Walking
<1>2. s \in Seq(Root) /\ Len(s) \in Nat /\ NoRoot \notin Root
  BY DEF Linked, Links, RootSchedulerAssumption
<1>3. k = Len(s) + 1
  <2>1. CASE k # Len(s) + 1
    <3>1. k \in 1..Len(s) /\ s[k] \in Root /\ loop.cursor = s[k]
      BY <2>1, <1>1, <1>2 DEF VisitedBefore
    <3> QED BY <3>1, <1>2
  <2> QED BY <2>1
<1>4. \A i \in 1..Len(s) : Visited(s[i])
  BY <1>1, <1>2, <1>3 DEF VisitedBefore
<1> QED BY <1>4, ListedIs

\* The end of the microtask.
LEMMA MicrotaskEndStep ==
  ASSUME RootSchedulerAssumption, Inv, MicrotaskEnd
  PROVE  Inv' /\ ListStep
<1>1. /\ UNCHANGED <<roots, first, last, requests, nextNode, mightHaveSyncWork>> /\ loop' = Idle
      /\ loop.kind = "microtask" /\ loop.cursor = NoRoot
  BY DEF MicrotaskEnd
<1>2. Linked' /\ Nodes' /\ CallbackIsLive' /\ PendingRootsAreListed' /\ ListStep
  BY <1>1, RootsKept DEF ListStep
<1>3. \A r \in Listed : HasSyncWork(r) => mightHaveSyncWork
  BY <1>1, VisitedAll DEF Inv, Visited
<1>4. \A r \in Root : HasSyncWork(r) => mightHaveSyncWork
  BY <1>3 DEF Inv, PendingRootsAreListed, HasSyncWork
<1>5. SchedulerTyped'
  BY <1>1 DEF Inv, SchedulerTyped, Idle
<1>6. Flagged' /\ Walking'
  BY <1>1, <1>4 DEF Flagged, Walking, HasSyncWork, Idle
<1> QED BY <1>2, <1>5, <1>6 DEF Inv

\* A flush starts only when the flag is set.
LEMMA StartFlushStep ==
  ASSUME RootSchedulerAssumption, Inv, NEW kind \in {"render", "commit"}, StartFlush(kind)
  PROVE  Inv' /\ ListStep
<1>1. /\ UNCHANGED <<roots, first, last, requests, nextNode, mightHaveSyncWork>>
      /\ mightHaveSyncWork = TRUE /\ loop' = [Idle EXCEPT !.kind = kind, !.cursor = first]
  BY DEF StartFlush, Inv, SchedulerTyped
<1>2. Linked' /\ Nodes' /\ CallbackIsLive' /\ PendingRootsAreListed' /\ ListStep
  BY <1>1, RootsKept DEF ListStep
<1>3. first \in Root \cup {NoRoot}
  BY DEF Inv, Linked, Links
<1>4. SchedulerTyped'
  BY <1>1, <1>3 DEF Inv, SchedulerTyped, Idle
<1>5. Flagged' /\ Walking'
  BY <1>1 DEF Flagged, Walking, Idle
<1> QED BY <1>2, <1>4, <1>5 DEF Inv

\* A flush that found nothing recomputes the flag from the list.
LEMMA FlushEndStep ==
  ASSUME RootSchedulerAssumption, Inv, FlushEnd
  PROVE  Inv' /\ ListStep
<1>1. UNCHANGED <<roots, first, last, requests, nextNode>> /\ loop.kind \in {"render", "commit"}
  BY DEF FlushEnd
<1>2. Linked' /\ Nodes' /\ CallbackIsLive' /\ PendingRootsAreListed' /\ ListStep
  BY <1>1, RootsKept DEF ListStep
<1>3. CASE loop.kind = "commit" /\ loop.didWork
  <2>1. loop' = [Idle EXCEPT !.kind = "commit", !.cursor = first] /\ UNCHANGED mightHaveSyncWork
    BY <1>3 DEF FlushEnd
  <2>2. first \in Root \cup {NoRoot} /\ mightHaveSyncWork = TRUE
    BY <1>1 DEF Inv, Linked, Links, Walking, SchedulerTyped
  <2>3. SchedulerTyped'
    BY <1>1, <2>1, <2>2 DEF Inv, SchedulerTyped, Idle
  <2>4. Flagged' /\ Walking'
    BY <2>1, <2>2 DEF Flagged, Walking, Idle
  <2> QED BY <1>2, <2>3, <2>4 DEF Inv
<1>4. CASE ~ (loop.kind = "commit" /\ loop.didWork)
  <2>1. /\ loop' = Idle
        /\ mightHaveSyncWork' = IF loop.kind = "commit" THEN RecomputeMightHavePendingSyncWork
                                ELSE mightHaveSyncWork
    BY <1>4 DEF FlushEnd
  <2>2. ASSUME NEW r \in Root, HasSyncWork(r) PROVE mightHaveSyncWork'
    <3>1. r \in Listed
      BY <2>2 DEF Inv, PendingRootsAreListed, HasSyncWork
    <3>2. RootSyncLanes(roots[r]) # {}
      BY <2>2, SyncFlushOK DEF Inv, SchedulerTyped, HasSyncWork
    <3>3. mightHaveSyncWork
      BY <1>1 DEF Inv, Walking
    <3> QED BY <2>1, <3>1, <3>2, <3>3 DEF RecomputeMightHavePendingSyncWork
  <2>3. mightHaveSyncWork' \in BOOLEAN
    BY <2>1 DEF Inv, SchedulerTyped, RecomputeMightHavePendingSyncWork
  <2>4. SchedulerTyped'
    BY <1>1, <2>1, <2>3 DEF Inv, SchedulerTyped, Idle
  <2>5. Flagged' /\ Walking'
    BY <1>1, <2>1, <2>2 DEF Flagged, Walking, HasSyncWork, Idle
  <2> QED BY <1>2, <2>4, <2>5 DEF Inv
<1> QED BY <1>3, <1>4

-----------------------------------------------------------------------------
(***************************************************************************)
(* schedule_task_for_root_during_microtask for one root: the callback it    *)
(* leaves is new, reused or none; other roots keep theirs; and a root with  *)
(* work is served.                                                          *)
(***************************************************************************)
Request(r, node) == [node |-> node, root |-> r]

TaskKeeps(r, task) ==
  /\ RootOK(task.root)
  /\ task.root.lanes = roots[r].lanes
  /\ task.root.work = roots[r].work
  /\ task.root.next = roots[r].next
  /\ task.requests \subseteq requests \cup {Request(r, nextNode)}
  /\ \A q \in requests : q.node # roots[r].node => q \in task.requests
  /\ \/ task.root.node = NoNode /\ task.node = nextNode /\ task.requests \subseteq requests
     \/ task.root.node = roots[r].node /\ task.node = nextNode /\ task.requests = requests
     \/ /\ task.root.node = nextNode /\ task.node = nextNode + 1
        /\ Request(r, nextNode) \in task.requests

TaskServes(r, task) ==
  \/ task.root.priority = SyncLane /\ SyncLane \in roots[r].lanes.pending
  \/ /\ task.root.priority = HighestPriorityLane(PriorityLanes(roots[r]))
     /\ Request(r, task.root.node) \in task.requests \/ roots[r].work # {}

\* The task of a root.
LEMMA TaskOK ==
  ASSUME RootSchedulerAssumption, Inv, NEW r \in Root
  PROVE  /\ TaskKeeps(r, ScheduleTask(r))
         /\ roots[r].lanes.pending # {} => TaskServes(r, ScheduleTask(r))
<1> DEFINE root == roots[r]
           P == PriorityLanes(root)
           top == HighestPriorityLane(P)
           isSync == IncludesSyncLane(P) /\ ~ CheckIfRootIsPrerendering(root.lanes, P)
           set(node, priority) == [root EXCEPT !.node = node, !.priority = priority]
           task == ScheduleTask(r)
<1>1. RootOK(root) /\ nextNode \in Nat /\ requests \subseteq [node : Nat, root : Root]
  BY DEF Inv, SchedulerTyped
<1>2. /\ P \in SUBSET Lane /\ (P = {} <=> root.lanes.pending = {})
      /\ IncludesSyncLane(P) <=> SyncLane \in root.lanes.pending
      /\ NextLanes(root) = {} <=> root.lanes.pending = {}
  BY <1>1, PriorityOK, NextLanesOK
<1>3. ASSUME NEW node \in Nat, NEW priority \in Lane \cup {NoLane}
      PROVE  LET t == set(node, priority)
             IN  /\ RootOK(t) /\ t.lanes = root.lanes /\ t.work = root.work
                 /\ t.next = root.next /\ t.node = node /\ t.priority = priority
  BY <1>1 DEF RootOK, RootRecord
<1>4. top \in Lane \cup {NoLane}
  BY <1>2, HighestPriorityLaneIsMinimum DEF HighestPriorityLane
<1>5. /\ NoNode \in Nat /\ NoLane \in Lane \cup {NoLane} /\ SyncLane \in Lane \cup {NoLane}
      /\ \A node : Canceled(node) \subseteq requests
      /\ \A q \in requests : q.node # root.node => q \in Canceled(root.node)
  BY LaneAssumption DEF NoNode, Canceled
<1>6. CASE NextLanes(root) = {}
  <2>1. task = [root |-> set(NoNode, NoLane), requests |-> Canceled(root.node), node |-> nextNode]
    BY <1>6 DEF ScheduleTask
  <2> HIDE DEF task, set
  <2>2. /\ task.root = set(NoNode, NoLane) /\ task.requests = Canceled(root.node)
        /\ task.node = nextNode
    BY <2>1
  <2>3. TaskKeeps(r, task)
    BY <2>2, <1>3, <1>5 DEF TaskKeeps
  <2> QED BY <2>3, <1>2, <1>6 DEF task
<1>7. CASE NextLanes(root) # {} /\ isSync
  <2>1. task = [root |-> set(NoNode, SyncLane), requests |-> Canceled(root.node), node |-> nextNode]
    BY <1>7 DEF ScheduleTask
  <2> HIDE DEF task, set
  <2>2. /\ task.root = set(NoNode, SyncLane) /\ task.requests = Canceled(root.node)
        /\ task.node = nextNode
    BY <2>1
  <2>3. TaskKeeps(r, task)
    BY <2>2, <1>3, <1>5 DEF TaskKeeps
  <2>4. TaskServes(r, task)
    BY <2>2, <1>2, <1>3, <1>5, <1>7 DEF TaskServes
  <2> QED BY <2>3, <2>4 DEF task
<1>8. CASE NextLanes(root) # {} /\ ~ isSync /\ CanReuseCallback(root, top)
  <2>1. task = [root |-> root, requests |-> requests, node |-> nextNode]
    BY <1>8 DEF ScheduleTask
  <2> HIDE DEF task
  <2>2. task.root = root /\ task.requests = requests /\ task.node = nextNode
    BY <2>1
  <2>3. TaskKeeps(r, task)
    BY <2>2, <1>1 DEF TaskKeeps
  <2>4. TaskServes(r, task)
    BY <2>2, <1>8 DEF TaskServes, CanReuseCallback, Inv, CallbackIsLive, Request
  <2> QED BY <2>3, <2>4 DEF task
<1>9. CASE NextLanes(root) # {} /\ ~ isSync /\ ~ CanReuseCallback(root, top)
  <2>1. task = [root |-> set(nextNode, top),
                requests |-> Canceled(root.node) \cup {Request(r, nextNode)},
                node |-> nextNode + 1]
    BY <1>9 DEF ScheduleTask, Request
  <2> HIDE DEF task, set, top
  <2>2. /\ task.root = set(nextNode, top)
        /\ task.requests = Canceled(root.node) \cup {Request(r, nextNode)}
        /\ task.node = nextNode + 1
    BY <2>1
  <2>3. TaskKeeps(r, task)
    BY <2>2, <1>1, <1>3, <1>4, <1>5 DEF TaskKeeps
  <2>4. task.root.priority = top /\ task.root.node = nextNode
    BY <2>2, <1>1, <1>3, <1>4
  <2>5. Request(r, task.root.node) \in task.requests
    BY <2>2, <2>4
  <2>6. top = HighestPriorityLane(PriorityLanes(roots[r]))
    BY DEF top
  <2>7. TaskServes(r, task)
    BY <2>4, <2>5, <2>6 DEF TaskServes
  <2> QED BY <2>3, <2>7 DEF task
<1> QED BY <1>6, <1>7, <1>8, <1>9

\* Nodes stay distinct and callbacks live when one root is given its task.
LEMMA TaskNodes ==
  ASSUME RootSchedulerAssumption, Inv, NEW r \in Root, NEW task, TaskKeeps(r, task),
         requests' = task.requests, nextNode' = task.node,
         roots'[r].node = task.root.node, roots'[r].work = roots[r].work,
         \A q \in Root \ {r} : roots'[q].node = roots[q].node /\ roots'[q].work = roots[q].work
  PROVE  /\ Nodes' /\ CallbackIsLive' /\ nextNode' \in Nat
         /\ requests' \subseteq [node : Nat, root : Root]
         /\ \A q \in Root \ {r} : Request(q, roots[q].node) \in requests
                                   => Request(q, roots[q].node) \in requests'
<1>1. /\ nextNode \in Nat /\ requests \subseteq [node : Nat, root : Root]
      /\ \A q \in Root : roots[q].node \in Nat /\ roots[q].node < nextNode
      /\ \A q \in requests : q.node # NoNode /\ q.node < nextNode
      /\ \A p, q \in Root : roots[p].node # NoNode /\ roots[p].node = roots[q].node => p = q
  BY DEF Inv, SchedulerTyped, Nodes, RootOK, RootRecord
<1>2. /\ Request(r, nextNode) \in [node : Nat, root : Root]
      /\ Request(r, nextNode).node = nextNode /\ nextNode # NoNode
  BY <1>1 DEF Request, NoNode
<1>3. /\ requests' \subseteq requests \cup {Request(r, nextNode)}
      /\ \A q \in requests : q.node # roots[r].node => q \in requests'
      /\ \/ /\ roots'[r].node = NoNode /\ nextNode' = nextNode /\ requests' \subseteq requests
         \/ /\ roots'[r].node = roots[r].node /\ nextNode' = nextNode /\ requests' = requests
         \/ /\ roots'[r].node = nextNode /\ nextNode' = nextNode + 1
            /\ Request(r, nextNode) \in requests'
  BY DEF TaskKeeps
<1>4. nextNode' \in Nat /\ requests' \subseteq [node : Nat, root : Root]
  BY <1>1, <1>2, <1>3
<1>5. ASSUME NEW q \in Root \ {r}, Request(q, roots[q].node) \in requests
      PROVE  Request(q, roots[q].node) \in requests'
  <2>1. Request(q, roots[q].node).node = roots[q].node /\ roots[q].node # NoNode
    BY <1>1, <1>5 DEF Request
  <2>2. roots[q].node # roots[r].node
    BY <2>1, <1>1
  <2> QED BY <2>1, <2>2, <1>3, <1>5
<1>6. \A q \in Root : roots'[q].node < nextNode'
  BY <1>1, <1>3 DEF NoNode
<1>7. \A q \in requests' : q.node # NoNode /\ q.node < nextNode'
  <2>1. CASE requests' \subseteq requests /\ nextNode' = nextNode
    BY <2>1, <1>1
  <2>2. CASE nextNode' = nextNode + 1
    BY <2>2, <1>1, <1>2, <1>3
  <2> QED BY <2>1, <2>2, <1>3
<1>8. \A p, q \in Root : roots'[p].node # NoNode /\ roots'[p].node = roots'[q].node => p = q
  BY <1>1, <1>3
<1>9. Nodes'
  BY <1>6, <1>7, <1>8 DEF Nodes
<1>10. ASSUME NEW q \in Root, roots'[q].node # NoNode, roots'[q].work = {}
       PROVE  Request(q, roots'[q].node) \in requests'
  <2>1. CASE q # r
    <3>1. Request(q, roots[q].node) \in requests
      BY <2>1, <1>10 DEF Inv, CallbackIsLive, Request
    <3> QED BY <2>1, <3>1, <1>5
  <2>2. CASE q = r /\ roots'[r].node = nextNode /\ Request(r, nextNode) \in requests'
    BY <2>2
  <2>3. CASE q = r /\ roots'[r].node = roots[r].node /\ requests' = requests
    BY <2>3, <1>10 DEF Inv, CallbackIsLive, Request
  <2> QED BY <2>1, <2>2, <2>3, <1>3, <1>10
<1>11. CallbackIsLive'
  BY <1>10 DEF CallbackIsLive, Request
<1> QED BY <1>4, <1>5, <1>9, <1>11

\* What serves a root is a matter of its lanes, its render and its callback.
LEMMA ServedKept ==
  ASSUME NEW q \in Root, Visited(q), mightHaveSyncWork => mightHaveSyncWork',
         roots'[q].lanes = roots[q].lanes, roots'[q].work = roots[q].work,
         roots'[q].wipLanes = roots[q].wipLanes, roots'[q].remaining = roots[q].remaining,
         roots'[q].node = roots[q].node, roots'[q].priority = roots[q].priority,
         Request(q, roots[q].node) \in requests => Request(q, roots[q].node) \in requests'
  PROVE  Visited(q)'
<1>1. HasPriorityOfWork(q)' <=> HasPriorityOfWork(q)
  BY DEF HasPriorityOfWork, PriorityLanes
<1>2. CanCommit(roots[q])' <=> CanCommit(roots[q])
  BY DEF CanCommit
<1>3. Served(q) => Served(q)'
  BY <1>1, <1>2 DEF Served, RootSyncLanes, Request
<1>4. Overtaken(q) => Overtaken(q)'
  BY <1>1, <1>2 DEF Overtaken
<1> QED BY <1>3, <1>4 DEF Visited, HasSyncWork

\* One root of the microtask: it is served, or taken off the list.
LEMMA MicrotaskRootStep ==
  ASSUME RootSchedulerAssumption, Inv, MicrotaskStep
  PROVE  Inv' /\ ListStep
<1> SUFFICES ASSUME NEW r, r = loop.cursor, NEW s, s = ScheduledRoots
             PROVE  Inv' /\ ListStep
  OBVIOUS
<1> DEFINE task == ScheduleTask(r)
           chosen == ListedLanes(roots[r])
<1>1. /\ DOMAIN roots = Root /\ \A q \in Root : RootOK(roots[q])
      /\ loop.kind = "microtask" /\ r \in Root /\ mightHaveSyncWork \in BOOLEAN
      /\ requests' = task.requests /\ nextNode' = task.node
      /\ Links(roots, first, last, s) /\ NoRoot \notin Root
      /\ s \in Seq(Root) /\ Len(s) \in Nat
  BY DEF Inv, SchedulerTyped, Linked, Links, MicrotaskStep, RootSchedulerAssumption
<1>2. /\ TaskKeeps(r, task)
      /\ roots[r].lanes.pending # {} => TaskServes(r, task)
  BY <1>1, TaskOK
<1>3. PICK k \in 1..(Len(s) + 1) : VisitedBefore(k)
  BY <1>1 DEF Inv, Walking
<1>4. /\ k \in 1..Len(s) /\ r = s[k]
      /\ loop.previous = IF k = 1 THEN NoRoot ELSE s[k - 1]
      /\ \A i \in 1..(k - 1) : Visited(s[i])
  BY <1>1, <1>3 DEF VisitedBefore
<1>5. /\ chosen = {} <=> roots[r].lanes.pending = {}
      /\ IncludesSyncLane(chosen) <=> SyncLane \in roots[r].lanes.pending
  BY <1>1, NextLanesOK DEF ListedLanes
<1>6. /\ RootOK(task.root) /\ task.root.lanes = roots[r].lanes
      /\ task.root.work = roots[r].work /\ task.root.next = roots[r].next
  BY <1>2 DEF TaskKeeps
<1>7. /\ \A i \in 1..(k - 1) : s[i] \in Root \ {r}
      /\ \A i \in 1..Len(s) : i # k => s[i] # r
      /\ roots[r].next = IF k = Len(s) THEN NoRoot ELSE s[k + 1]
      /\ roots[r].next \in Root \cup {NoRoot}
      /\ loop.previous # r /\ loop.previous \in Root \cup {NoRoot}
  BY <1>1, <1>4 DEF Links
<1> HIDE DEF task, chosen
<1>8. CASE chosen = {}
  <2>1. /\ Unlink(r, loop.previous, task.root) /\ mightHaveSyncWork' = mightHaveSyncWork
        /\ loop' = [loop EXCEPT !.cursor = roots[r].next, !.previous = loop.previous,
                                !.didWork = FALSE]
    BY <1>8 DEF MicrotaskStep, Advance, task, chosen
  <2> DEFINE previous == loop.previous
             next == roots[r].next
             off == [task.root EXCEPT !.next = NoRoot]
             table == [roots EXCEPT ![r] = off]
  <2>2. /\ roots' = IF previous = NoRoot THEN table ELSE [table EXCEPT ![previous].next = next]
        /\ first' = IF previous = NoRoot THEN next ELSE first
        /\ last' = IF next = NoRoot THEN previous ELSE last
    BY <2>1 DEF Unlink
  <2>3. /\ RootOK(off) /\ off.next = NoRoot /\ off.node = task.root.node
        /\ off.lanes = roots[r].lanes /\ off.work = roots[r].work
    BY <1>6, RelinkedOK
  <2> HIDE DEF off
  <2>4. DOMAIN roots' = Root /\ roots'[r] = off
    BY <2>2, <1>1, <1>7
  <2> HIDE DEF table
  <2>5. ASSUME NEW q \in Root \ {r}
        PROVE  /\ RootOK(roots'[q])
               /\ roots'[q].lanes = roots[q].lanes /\ roots'[q].work = roots[q].work
               /\ roots'[q].wipLanes = roots[q].wipLanes
               /\ roots'[q].remaining = roots[q].remaining
               /\ roots'[q].node = roots[q].node /\ roots'[q].priority = roots[q].priority
               /\ roots'[q].next = IF q = previous THEN next ELSE roots[q].next
    <3>1. CASE q # previous
      BY <3>1, <2>2, <1>1 DEF table
    <3>2. CASE q = previous
      <4>1. roots'[q] = [roots[q] EXCEPT !.next = next]
        BY <3>2, <2>2, <1>1 DEF table
      <4>2. RootOK(roots[q]) /\ next \in Root \cup {NoRoot}
        BY <1>1, <1>7
      <4> QED BY <3>2, <4>1, <4>2, RelinkedOK
    <3> QED BY <3>1, <3>2
  <2>6. /\ Nodes' /\ CallbackIsLive' /\ nextNode' \in Nat
        /\ requests' \subseteq [node : Nat, root : Root]
        /\ \A q \in Root \ {r} : Request(q, roots[q].node) \in requests
                                   => Request(q, roots[q].node) \in requests'
    BY <1>1, <1>2, <2>3, <2>4, <2>5, TaskNodes
  <2> DEFINE u == Without(s, k)
  <2>7. Links(roots', first', last', u)
    <3>1. \A q \in Root : roots'[q].next = IF q = s[k] THEN NoRoot
                                           ELSE IF q = previous THEN roots[s[k]].next
                                           ELSE roots[q].next
      BY <1>4, <2>3, <2>4, <2>5
    <3>2. Links(roots', IF previous = NoRoot THEN roots[s[k]].next ELSE first,
                IF roots[s[k]].next = NoRoot THEN previous ELSE last, Without(s, k))
      <4>1. k \in 1..Len(s) /\ previous = IF k = 1 THEN NoRoot ELSE s[k - 1]
        BY <1>4
      <4>2. NoRoot \notin Root /\ Links(roots, first, last, s)
        BY <1>1
      <4> HIDE DEF previous, u, next
      <4> QED BY <3>1, <4>1, <4>2, LinksDropped, SMTT(60)
    <3> QED BY <3>2, <2>2, <1>4
  <2>8. Linked' /\ ScheduledRoots' = u
    BY <2>7, ListBecomes
  <2>9. /\ u \in Seq(Root) /\ Len(u) = Len(s) - 1
        /\ \A i \in 1..Len(u) : u[i] = IF i < k THEN s[i] ELSE s[i + 1]
    BY <1>1, <1>4, WithoutIs
  <2> HIDE DEF u
  <2>10. /\ loop'.kind = "microtask" /\ loop'.cursor = next /\ loop'.previous = previous
         /\ loop' \in [kind : {"idle", "microtask", "render", "commit"},
                cursor : Root \cup {NoRoot}, previous : Root \cup {NoRoot}, didWork : BOOLEAN]
    BY <1>1, <1>7, <2>1 DEF Inv, SchedulerTyped
  <2>11. SchedulerTyped'
    <3>1. \A q \in Root : RootOK(roots'[q])
      BY <2>3, <2>4, <2>5
    <3> QED BY <1>1, <2>1, <2>4, <2>6, <2>10, <3>1 DEF SchedulerTyped
  <2>12. VisitedBefore(k)'
    <3>1. ASSUME NEW i \in 1..(k - 1) PROVE Visited(u[i])'
      <4>1. u[i] = s[i] /\ s[i] \in Root \ {r} /\ Visited(s[i])
        BY <1>1, <1>4, <1>7, <2>9
      <4>2. Visited(s[i])'
        BY <4>1, <2>1, <2>5, <2>6, ServedKept
      <4> QED BY <4>1, <4>2
    <3>2. next = IF k = Len(u) + 1 THEN NoRoot ELSE u[k]
      BY <1>1, <1>4, <1>7, <2>9
    <3>3. previous = IF k = 1 THEN NoRoot ELSE u[k - 1]
      BY <1>1, <1>4, <2>9
    <3> QED BY <3>1, <3>2, <3>3, <2>8, <2>10 DEF VisitedBefore
  <2>13. Walking' /\ Flagged'
    <3>1. k \in 1..(Len(ScheduledRoots') + 1)
      BY <1>1, <1>4, <2>8, <2>9
    <3> QED BY <3>1, <2>10, <2>12 DEF Walking, Flagged
  <2>14. PendingRootsAreListed'
    <3> SUFFICES ASSUME NEW q \in Root, roots'[q].lanes.pending # {} PROVE q \in Listed'
      BY DEF PendingRootsAreListed
    <3>1. q # r
      BY <2>3, <2>4, <1>5, <1>8
    <3>2. q \in Listed
      BY <3>1, <2>5 DEF Inv, PendingRootsAreListed
    <3>3. PICK i \in 1..Len(s) : s[i] = q
      BY <3>2, ListedIs DEF Inv
    <3>4. PICK j \in 1..Len(u) : u[j] = q
      <4>1. CASE i < k
        <5>1. i \in 1..Len(u) /\ u[i] = q
          BY <4>1, <3>3, <1>1, <1>4, <2>9
        <5> QED BY <5>1
      <4>2. CASE i > k
        <5>1. i - 1 \in 1..Len(u) /\ u[i - 1] = q
          BY <4>2, <3>3, <1>1, <1>4, <2>9
        <5> QED BY <5>1
      <4> QED BY <4>1, <4>2, <3>1, <3>3, <1>1, <1>4
    <3> QED BY <3>4, <2>8, ListedIsNext
  <2>15. ListStep
    BY <1>4, <2>8 DEF ListStep, u
  <2> QED BY <2>6, <2>8, <2>11, <2>13, <2>14, <2>15 DEF Inv
<1>9. CASE chosen # {}
  <2>1. /\ roots' = [roots EXCEPT ![r] = task.root]
        /\ mightHaveSyncWork' = (mightHaveSyncWork \/ IncludesSyncLane(chosen))
        /\ loop' = [loop EXCEPT !.cursor = roots[r].next, !.previous = r, !.didWork = FALSE]
        /\ UNCHANGED <<first, last>>
    BY <1>9 DEF MicrotaskStep, Advance, task, chosen
  <2>2. ASSUME NEW q \in Root \ {r} PROVE roots'[q] = roots[q]
    BY <2>1, <1>1
  <2>3. roots'[r] = task.root /\ DOMAIN roots' = Root
    BY <2>1, <1>1
  <2>4. /\ Nodes' /\ CallbackIsLive' /\ nextNode' \in Nat
        /\ requests' \subseteq [node : Nat, root : Root]
        /\ \A q \in Root \ {r} : Request(q, roots[q].node) \in requests
                                   => Request(q, roots[q].node) \in requests'
    BY <1>1, <1>2, <1>6, <2>2, <2>3, TaskNodes
  <2>5. Linked' /\ ScheduledRoots' = s /\ Listed' = Listed
    BY <1>6, <2>1, <2>2, <2>3, ListKept DEF Inv
  <2>6. /\ loop'.kind = "microtask" /\ loop'.cursor = roots[r].next /\ loop'.previous = r
        /\ loop' \in [kind : {"idle", "microtask", "render", "commit"},
               cursor : Root \cup {NoRoot}, previous : Root \cup {NoRoot}, didWork : BOOLEAN]
    BY <1>1, <1>7, <2>1 DEF Inv, SchedulerTyped
  <2>7. SchedulerTyped'
    <3>1. mightHaveSyncWork' \in BOOLEAN
      BY <2>1
    <3>2. \A q \in Root : RootOK(roots'[q])
      BY <1>1, <1>6, <2>2, <2>3
    <3> QED BY <2>3, <2>4, <2>6, <3>1, <3>2 DEF SchedulerTyped
  <2>8. Visited(r)'
    <3>1. TaskServes(r, task)
      BY <1>2, <1>5, <1>9
    <3>2. /\ RootSyncLanes(roots'[r]) = RootSyncLanes(roots[r])
          /\ PriorityLanes(roots'[r]) = PriorityLanes(roots[r])
      BY <1>6, <2>3 DEF RootSyncLanes, PriorityLanes
    <3>3. HasSyncWork(r)' => mightHaveSyncWork'
      BY <1>5, <1>6, <2>1, <2>3 DEF HasSyncWork
    <3>4. CASE task.root.priority = SyncLane /\ SyncLane \in roots[r].lanes.pending
      <4>1. RootSyncLanes(roots[r]) # {}
        BY <3>4, <1>1, SyncFlushOK
      <4>2. mightHaveSyncWork'
        BY <3>4, <1>5, <2>1
      <4> QED BY <3>2, <3>3, <3>4, <4>1, <4>2, <2>3 DEF Visited, Served
    <3>5. CASE /\ task.root.priority = HighestPriorityLane(PriorityLanes(roots[r]))
               /\ Request(r, task.root.node) \in task.requests \/ roots[r].work # {}
      <4>1. HasPriorityOfWork(r)'
        BY <3>2, <3>5, <2>3 DEF HasPriorityOfWork
      <4>2. CASE Request(r, task.root.node) \in task.requests
        BY <4>1, <4>2, <3>3, <2>3, <1>1, <1>6 DEF Visited, Served, Request
      <4>3. CASE roots[r].work # {}
        <5>1. roots'[r].work # {}
          BY <4>3, <1>6, <2>3
        <5> QED BY <4>1, <5>1, <3>3 DEF Visited, Served, Overtaken
      <4> QED BY <3>5, <4>2, <4>3
    <3> QED BY <3>1, <3>4, <3>5 DEF TaskServes
  <2>9. \A i \in 1..((k + 1) - 1) : Visited(s[i])'
    <3>1. ASSUME NEW i \in 1..(k - 1) PROVE Visited(s[i])'
      BY <1>4, <1>7, <2>1, <2>2, <2>4, ServedKept
    <3> QED BY <3>1, <2>8, <1>4
  <2>10. VisitedBefore(k + 1)'
    <3>0. Len(s) \in Nat /\ k \in 1..Len(s)
      BY <1>1, <1>4
    <3>1. k + 1 \in 1..(Len(s) + 1) /\ (k = Len(s) <=> k + 1 = Len(s) + 1) /\ k + 1 # 1
          /\ (k + 1) - 1 = k
      BY <3>0, NextPlace
    <3> QED BY <3>1, <1>4, <1>7, <2>5, <2>6, <2>9 DEF VisitedBefore
  <2>11. Walking' /\ Flagged'
    <3>1. k + 1 \in 1..(Len(ScheduledRoots') + 1)
      BY <1>1, <1>4, <2>5
    <3> QED BY <3>1, <2>6, <2>10 DEF Walking, Flagged
  <2>12. PendingRootsAreListed'
    BY <1>6, <2>2, <2>3, <2>5 DEF Inv, PendingRootsAreListed
  <2> QED BY <2>4, <2>5, <2>7, <2>11, <2>12 DEF Inv, ListStep
<1> QED BY <1>8, <1>9

-----------------------------------------------------------------------------
(***************************************************************************)
(* The theorems.                                                            *)
(***************************************************************************)
\* Every step keeps the invariant, and does to the list what the list may do.
LEMMA NextInv ==
  ASSUME RootSchedulerAssumption, Inv, [SchedulerNext]_schedulerVars
  PROVE  Inv' /\ ListStep
<1>1. ASSUME NEW r \in Root, NEW lane \in ScheduledInputs, ScheduleUpdate(r, lane)
      PROVE  Inv' /\ ListStep
  BY <1>1, ScheduleStep
<1>2. ASSUME NEW request \in requests, ExecuteCallback(request)
      PROVE  Inv' /\ ListStep
  BY <1>2, ExecuteStep
<1>3. ASSUME NEW r \in Root, CommitRoot(r)
      PROVE  Inv' /\ ListStep
  BY <1>3, CommitRootStep
<1>4. ASSUME NEW kind \in {"render", "commit"}, StartFlush(kind)
      PROVE  Inv' /\ ListStep
  BY <1>4, StartFlushStep
<1>5. ASSUME NEW requested \in BOOLEAN, StartMicrotask(requested)
      PROVE  Inv' /\ ListStep
  BY <1>5, StartMicrotaskStep
<1>6. CASE MicrotaskStep
  BY <1>6, MicrotaskRootStep
<1>7. CASE MicrotaskEnd
  BY <1>7, MicrotaskEndStep
<1>8. CASE FlushStep
  BY <1>8, FlushRootStep
<1>9. CASE FlushEnd
  BY <1>9, FlushEndStep
<1>10. CASE UNCHANGED schedulerVars
  <2>1. UNCHANGED <<roots, first, last, requests, nextNode, mightHaveSyncWork, loop>>
    BY <1>10 DEF schedulerVars
  <2>2. Linked' /\ Nodes' /\ CallbackIsLive' /\ PendingRootsAreListed' /\ ScheduledRoots' = ScheduledRoots
    BY <2>1, RootsKept
  <2>3. SchedulerTyped' /\ Flagged'
    BY <2>1 DEF Inv, SchedulerTyped, Flagged, HasSyncWork
  <2>4. Walking'
    BY <2>1, <2>2 DEF Inv, Walking, VisitedBefore, Visited, Served, Overtaken,
                       HasPriorityOfWork, HasSyncWork
  <2> QED BY <2>2, <2>3, <2>4 DEF Inv, ListStep
<1> QED BY <1>1, <1>2, <1>3, <1>4, <1>5, <1>6, <1>7, <1>8, <1>9, <1>10
        DEF SchedulerNext, RunCallback, CommitRendered, Walk

(***************************************************************************)
(* The microtask, which takes roots off the list while it walks it, never   *)
(* drops a root that has pending lanes (process_root_schedule_in_microtask).*)
(***************************************************************************)
THEOREM PendingRootsStayListed == SchedulerSpec => []PendingRootsAreListed
<1>1. SchedulerInit => Inv
  BY RootSchedulerConstants, InitInv
<1>2. Inv /\ [SchedulerNext]_schedulerVars => Inv'
  BY RootSchedulerConstants, NextInv
<1>3. Inv => PendingRootsAreListed
  BY DEF Inv
<1> QED BY <1>1, <1>2, <1>3, PTL DEF SchedulerSpec

(***************************************************************************)
(* might_have_pending_sync_work is set whenever a listed root has lanes a   *)
(* sync flush would take, although the microtask clears it and rebuilds it  *)
(* root by root.                                                            *)
(***************************************************************************)
THEOREM FlushMissesNoSyncWork == SchedulerSpec => []SyncWorkIsFlagged
<1>1. SchedulerInit => Inv
  BY RootSchedulerConstants, InitInv
<1>2. Inv /\ [SchedulerNext]_schedulerVars => Inv'
  BY RootSchedulerConstants, NextInv
<1>3. Inv => SyncWorkIsFlagged
  <2> SUFFICES ASSUME Inv, loop.kind # "microtask",
                      NEW r \in Listed, RootSyncLanes(roots[r]) # {}
               PROVE  mightHaveSyncWork
    BY DEF SyncWorkIsFlagged
  <2>1. r \in Root /\ RootOK(roots[r])
    BY ListedIs DEF Inv, SchedulerTyped
  <2>2. HasSyncWork(r)
    BY <2>1, SyncFlushOK, RootSchedulerConstants DEF HasSyncWork
  <2> QED BY <2>1, <2>2 DEF Inv, Flagged
<1> QED BY <1>1, <1>2, <1>3, PTL DEF SchedulerSpec

(***************************************************************************)
(* A root's callback handle is one the host scheduler will still run, and   *)
(* when the microtask has walked the list every root on it is left to a     *)
(* callback of the right priority, to a flush that is not skipped, or to    *)
(* the commit of its render, which will be accepted; the exception is a     *)
(* root whose render was overtaken by an update that is no more urgent than *)
(* its spent callback (schedule_task_for_root_during_microtask).            *)
(***************************************************************************)
THEOREM EveryRootIsServed == SchedulerSpec => []RootsAreServed
<1>1. SchedulerInit => Inv
  BY RootSchedulerConstants, InitInv
<1>2. Inv /\ [SchedulerNext]_schedulerVars => Inv'
  BY RootSchedulerConstants, NextInv
<1>3. Inv => RootsAreServed
  BY VisitedAll, RootSchedulerConstants DEF Inv, RootsAreServed, MicrotaskServesEveryRoot, Visited
<1> QED BY <1>1, <1>2, <1>3, PTL DEF SchedulerSpec

(***************************************************************************)
(* The links threaded through the roots (first_scheduled_root, the next     *)
(* links, last_scheduled_root) implement a list without duplicates to which *)
(* roots are appended and from which single roots are dropped.              *)
(***************************************************************************)
THEOREM LinksImplementList == SchedulerSpec => ListIsFifo
<1>1. SchedulerInit => Inv /\ List!Init
  <2> SUFFICES ASSUME SchedulerInit PROVE Inv /\ List!Init
    OBVIOUS
  <2>1. Links(roots, first, last, <<>>)
    BY DEF SchedulerInit, Links, NewRoot
  <2>2. ScheduledRoots = <<>>
    BY <2>1, WalkIsList, RootSchedulerConstants DEF RootSchedulerAssumption, ScheduledRoots
  <2> QED BY <2>2, RootSchedulerConstants, InitInv DEF List!Init
<1>2. Inv /\ [SchedulerNext]_schedulerVars => Inv'
  BY RootSchedulerConstants, NextInv
<1>3. Inv /\ [SchedulerNext]_schedulerVars => [List!Next]_ScheduledRoots
  <2> SUFFICES ASSUME Inv, [SchedulerNext]_schedulerVars PROVE [List!Next]_ScheduledRoots
    OBVIOUS
  <2>1. ScheduledRoots \in Seq(Root) /\ DOMAIN ScheduledRoots = 1..Len(ScheduledRoots)
    BY ListedIs, RootSchedulerConstants DEF Inv
  <2>2. ListStep
    BY RootSchedulerConstants, NextInv
  <2> QED BY <2>1, <2>2 DEF ListStep, Without, List!Next, List!Schedule, List!Drop, List!Contains
<1> QED BY <1>1, <1>2, <1>3, PTL DEF SchedulerSpec, ListIsFifo, List!Spec

=============================================================================
