------------------------- MODULE TaskSchedulerProofs -------------------------
(***************************************************************************)
(* Proofs about the scheduler package.  The array heap (MinHeap) is a       *)
(* priority queue; in the browser scheduler (TaskScheduler, on the queues   *)
(* of SchedulerQueues) the most urgent task runs first and work never waits *)
(* for nothing; a flush of the mock scheduler (MockScheduler) leaves        *)
(* nothing that is due; a cancelled callback of the post-task scheduler     *)
(* (PostTask) never runs again; and no call leaks what it sets: for all     *)
(* priorities, timeouts, delays and bounds.                                 *)
(***************************************************************************)
EXTENDS MC_Schedulers, SequenceTheorems, FiniteSetTheorems,
        FunctionTheorems, NaturalsInduction, WellFoundedInduction, TLAPS

-----------------------------------------------------------------------------
(* Induction up to n, for a set of numbers.                                 *)

\* What holds of a number when it holds of all lesser ones holds up to n.
LEMMA UpTo ==
  ASSUME NEW n \in Nat, NEW T,
         \A m \in 0..n : (\A k \in 0..(m - 1) : k \in T) => m \in T
  PROVE  \A m \in 0..n : m \in T
<1> DEFINE Bad == {m \in 0..n : m \notin T}
<1> SUFFICES ASSUME Bad # {} PROVE FALSE
  OBVIOUS
<1>1. Bad \subseteq Nat
  OBVIOUS
<1>2. PICK l \in Bad : \A k \in Bad : ~ (<<k, l>> \in OpToRel(<, Nat))
  BY <1>1, WFMin, NatLessThanWellFounded
<1>3. \A k \in Bad : ~ (k < l)
  BY <1>1, <1>2, Zenon DEF OpToRel
<1>4. l \in 0..n /\ l \notin T
  BY <1>2
<1>5. \A k \in 0..(l - 1) : k \in 0..n /\ k < l
  BY <1>4
<1>6. \A k \in 0..(l - 1) : k \in T
  BY <1>3, <1>5
<1> QED BY <1>4, <1>6

\* The parent of a place of the heap, and the children of a place.
LEMMA Halves ==
  \A i \in Nat : i > 1 =>
    /\ i \div 2 \in Nat /\ i \div 2 >= 1 /\ i \div 2 < i
    /\ i = 2 * (i \div 2) \/ i = 2 * (i \div 2) + 1
OBVIOUS

-----------------------------------------------------------------------------
(* The order of nodes and heaps.                                            *)

HeapNode == [sort : Int, id : Nat]

Before(a, b) == a.sort < b.sort \/ (a.sort = b.sort /\ a.id <= b.id)

Ordered(heap) == \A c \in 2..Len(heap) : Before(heap[c \div 2], heap[c])

Items(heap) == {heap[i] : i \in DOMAIN heap}

\* Compare is the strict part of a total order.
LEMMA CompareIs ==
  /\ \A a, b \in HeapNode : ~ Compare(a, b) <=> Before(b, a)
  /\ \A a, b \in HeapNode : Compare(a, b) => Before(a, b)
  /\ \A a \in HeapNode : Before(a, a)
  /\ \A a, b, c \in HeapNode : Before(a, b) /\ Before(b, c) => Before(a, c)
BY DEF Compare, Before, HeapNode

\* The head of a heap precedes every node of it.
LEMMA HeadIsLeast ==
  ASSUME NEW heap \in Seq(HeapNode), Ordered(heap)
  PROVE  \A i \in 1..Len(heap) : Before(heap[1], heap[i])
<1> DEFINE T == {i \in Nat : i \in 1..Len(heap) => Before(heap[1], heap[i])}
<1>1. Len(heap) \in Nat
  OBVIOUS
<1>2. ASSUME NEW m \in 0..Len(heap), \A k \in 0..(m - 1) : k \in T PROVE m \in T
  <2>1. CASE m <= 1
    BY <2>1, CompareIs
  <2>2. CASE m > 1
    <3>1. m \div 2 \in 1..(m - 1)
      BY <2>2, Halves
    <3>2. Before(heap[1], heap[m \div 2])
      BY <3>1, <1>1, <1>2
    <3>3. Before(heap[m \div 2], heap[m])
      BY <2>2, <1>1 DEF Ordered
    <3>4. heap[1] \in HeapNode /\ heap[m \div 2] \in HeapNode /\ heap[m] \in HeapNode
      BY <3>1, <1>1, <2>2
    <3> QED BY <3>2, <3>3, <3>4, CompareIs
  <2> QED BY <2>1, <2>2
<1> HIDE DEF T
<1>3. \A m \in 0..Len(heap) : m \in T
  BY <1>1, <1>2, UpTo
<1> QED BY <1>1, <1>3 DEF T

-----------------------------------------------------------------------------
(* push.                                                                    *)

ClimbAt(heap, node, f, i) ==
  IF i > 1 /\ Compare(node, heap[i \div 2])
  THEN [f[i \div 2] EXCEPT ![i] = heap[i \div 2]]
  ELSE [Append(heap, node) EXCEPT ![i] = node]

\* The recursion of push is well defined: a node climbs to lesser places only.
LEMMA ClimbExists ==
  ASSUME NEW heap, NEW node, NEW n \in Nat
  PROVE  \E f : f = [i \in 1..n |-> ClimbAt(heap, node, f, i)]
<1> DEFINE Solves(f, m) == f = [i \in 1..m |-> ClimbAt(heap, node, f, i)]
           T == {m \in 0..n : \E f : Solves(f, m)}
<1>1. ASSUME NEW f, NEW g, NEW i \in Nat, i > 1 => f[i \div 2] = g[i \div 2]
      PROVE  ClimbAt(heap, node, f, i) = ClimbAt(heap, node, g, i)
  BY <1>1 DEF ClimbAt
<1>2. ASSUME NEW m \in 0..n, \A k \in 0..(m - 1) : k \in T PROVE m \in T
  <2>1. CASE m = 0
    <3> DEFINE f == [i \in 1..0 |-> 0]
    <3>1. Solves(f, 0)
      OBVIOUS
    <3> QED BY <3>1, <2>1
  <2>2. CASE m > 0
    <3>1. PICK f : Solves(f, m - 1)
      BY <2>2, <1>2
    <3> DEFINE g == [i \in 1..m |-> ClimbAt(heap, node, f, i)]
    <3>2. \A i \in 1..(m - 1) : f[i] = ClimbAt(heap, node, f, i)
      BY <3>1
    <3>3. \A i \in 1..(m - 1) : g[i] = f[i]
      BY <3>2
    <3> HIDE DEF g
    <3>4. ASSUME NEW i \in 1..m PROVE ClimbAt(heap, node, f, i) = ClimbAt(heap, node, g, i)
      <4>1. i > 1 => i \div 2 \in 1..(m - 1)
        BY Halves
      <4> QED BY <4>1, <3>3, <1>1
    <3>5. g = [i \in 1..m |-> ClimbAt(heap, node, g, i)]
      BY <3>4 DEF g
    <3> QED BY <3>5
  <2> QED BY <2>1, <2>2
<1> HIDE DEF T
<1>3. \A m \in 0..n : m \in T
  BY <1>2, UpTo
<1> QED BY <1>3 DEF T

\* push adds the node, loses none, and keeps the heap ordered.
LEMMA PushIs ==
  ASSUME NEW heap \in Seq(HeapNode), NEW node \in HeapNode, Ordered(heap)
  PROVE  /\ Push(heap, node) \in Seq(HeapNode)
         /\ Len(Push(heap, node)) = Len(heap) + 1
         /\ Ordered(Push(heap, node))
         /\ Items(Push(heap, node)) = Items(heap) \cup {node}
<1> DEFINE n == Len(heap) + 1
           app == Append(heap, node)
           climb == CHOOSE f : f = [i \in 1..n |-> ClimbAt(heap, node, f, i)]
<1>1. n \in Nat /\ n >= 1 /\ n - 1 = Len(heap)
  OBVIOUS
<1>2. /\ app \in [1..n -> HeapNode] /\ app[n] = node
      /\ \A k \in 1..(n - 1) : app[k] = heap[k] /\ heap[k] \in HeapNode
  <2>1. app \in Seq(HeapNode) /\ Len(app) = n
    OBVIOUS
  <2>2. app \in [1..n -> HeapNode]
    <3> HIDE DEF app, n
    <3> QED BY <2>1, <1>1
  <2>3. app[n] = node /\ \A k \in 1..Len(heap) : app[k] = heap[k] /\ heap[k] \in HeapNode
    OBVIOUS
  <2> QED BY <2>2, <2>3, <1>1
<1>3. climb = [i \in 1..n |-> ClimbAt(heap, node, climb, i)]
  <2>1. \E f : f = [i \in 1..n |-> ClimbAt(heap, node, f, i)]
    BY <1>1, ClimbExists
  <2> QED BY <2>1
<1>4. Push(heap, node) = climb[n]
  BY DEF Push, ClimbAt
<1> HIDE DEF climb, n
<1>5. \A i \in 1..n : climb[i] = ClimbAt(heap, node, climb, i)
  BY <1>3
<1>6. \A c \in 2..(n - 1) : Before(app[c \div 2], app[c])
  <2> SUFFICES ASSUME NEW c \in 2..(n - 1) PROVE Before(app[c \div 2], app[c])
    OBVIOUS
  <2>1. c \div 2 \in 1..(n - 1) /\ c \in 1..(n - 1)
    BY <1>1, Halves
  <2> QED BY <2>1, <1>1, <1>2 DEF Ordered
<1> HIDE DEF app
<1> DEFINE Typed(f) == f \in [1..n -> HeapNode] /\ \A k \in 1..n : \E m \in 1..n : f[k] = app[m]
           Above(f, i) == \A k \in 1..n : k > i => f[k] = app[k]
           Sorted(f, i) == \A c \in 2..i : Before(f[c \div 2], f[c])
           Lower(f, i) == \A k \in 1..i : k < n => Before(f[k], app[k])
           Holds(f, i) == /\ \A k \in 1..(i - 1) : \E m \in 1..i : f[m] = app[k]
                          /\ \E m \in 1..i : f[m] = node
           Good(i) == /\ Typed(climb[i]) /\ Above(climb[i], i) /\ Sorted(climb[i], i)
                      /\ Lower(climb[i], i) /\ Holds(climb[i], i)
           T == {i \in 0..n : i >= 1 /\ (i < n => Before(node, app[i])) => Good(i)}
<1>7. ASSUME NEW i \in 0..n, \A k \in 0..(i - 1) : k \in T PROVE i \in T
  <2> SUFFICES ASSUME i >= 1, i < n => Before(node, app[i]) PROVE Good(i)
    OBVIOUS
  <2> DEFINE p == i \div 2
             f == climb[i]
  <2>1. CASE ~ (i > 1 /\ Compare(node, heap[p]))
    <3>1. f = [app EXCEPT ![i] = node]
      <4>1. i \in 1..n
        BY <1>1
      <4> QED BY <4>1, <2>1, <1>5 DEF ClimbAt, app
    <3>2. \A k \in 1..n : k # i => f[k] = app[k]
      BY <3>1, <1>2
    <3>3. f[i] = node /\ f \in [1..n -> HeapNode]
      BY <3>1, <1>1, <1>2
    <3> HIDE DEF f
    <3>4. Typed(f)
      BY <3>2, <3>3, <1>1, <1>2
    <3>5. Above(f, i)
      BY <3>2
    <3>6. Sorted(f, i)
      <4> SUFFICES ASSUME NEW c \in 2..i PROVE Before(f[c \div 2], f[c])
        OBVIOUS
      <4>1. c \div 2 \in 1..(n - 1) /\ c \div 2 < i /\ c \in 1..n
        BY <1>1, Halves
      <4>2. f[c \div 2] = app[c \div 2] /\ f[c \div 2] \in HeapNode
        BY <1>1, <4>1, <3>2, <3>3
      <4>3. CASE c < i
        BY <4>1, <4>2, <4>3, <3>2, <1>1, <1>6
      <4>4. CASE c = i
        <5>1. ~ Compare(node, heap[p]) /\ app[p] = heap[p]
          BY <4>1, <4>4, <2>1, <1>2
        <5> QED BY <5>1, <4>2, <4>4, <3>3, CompareIs
      <4> QED BY <4>3, <4>4
    <3>7. Lower(f, i)
      <4> SUFFICES ASSUME NEW k \in 1..i, k < n PROVE Before(f[k], app[k])
        OBVIOUS
      <4>1. app[k] \in HeapNode /\ k \in 1..n
        BY <1>1, <1>2
      <4> QED BY <4>1, <3>2, <3>3, CompareIs
    <3>8. Holds(f, i)
      <4>1. \A k \in 1..(i - 1) : k \in 1..i /\ f[k] = app[k]
        BY <3>2, <1>1
      <4>2. i \in 1..i
        BY <1>1
      <4> QED BY <4>1, <4>2, <3>3
    <3> QED BY <3>4, <3>5, <3>6, <3>7, <3>8 DEF f
  <2>2. CASE i > 1 /\ Compare(node, heap[p])
    <3> DEFINE g == climb[p]
    <3>1. p \in 1..(n - 1) /\ p < i /\ p \in 0..(i - 1)
      BY <1>1, <2>2, Halves
    <3>2. app[p] = heap[p] /\ app[p] \in HeapNode
      BY <3>1, <1>2
    <3>3. Before(node, app[p])
      BY <3>2, <2>2, CompareIs
    <3>4. Good(p)
      <4>1. p \in T
        BY <3>1, <1>7
      <4> HIDE DEF Good, p
      <4>2. \A k \in T : k >= 1 /\ (k < n => Before(node, app[k])) => Good(k)
        BY Zenon
      <4> HIDE DEF T
      <4>3. p >= 1
        BY <3>1, <1>1
      <4> QED BY <4>1, <4>2, <4>3, <3>3
    <3>5. f = [g EXCEPT ![i] = app[p]]
      <4>1. i \in 1..n
        BY <1>1
      <4>2. f = ClimbAt(heap, node, climb, i)
        BY <4>1, <1>5
      <4>3. ClimbAt(heap, node, climb, i) = [climb[p] EXCEPT ![i] = heap[p]]
        BY <2>2, Zenon DEF ClimbAt
      <4> QED BY <4>2, <4>3, <3>2, Zenon
    <3> HIDE DEF g
    <3>6. Typed(g)
      BY <3>4 DEF g
    <3>a. \A k \in 1..n : k > p => g[k] = app[k]
      BY <3>4 DEF g
    <3>s. Sorted(g, p)
      BY <3>4 DEF g
    <3>l. \A k \in 1..p : k < n => Before(g[k], app[k])
      BY <3>4 DEF g
    <3>h. Holds(g, p)
      BY <3>4 DEF g
    <3> HIDE DEF p
    <3>7. \A k \in 1..n : k # i => f[k] = g[k]
      BY <3>5, <3>6
    <3>8. f[i] = app[p] /\ f \in [1..n -> HeapNode]
      BY <3>5, <3>6, <3>2, <1>1
    <3> HIDE DEF f
    <3>9. \A k \in 1..n : k < i => g[k] = f[k] /\ Before(f[k], app[k])
      <4> SUFFICES ASSUME NEW k \in 1..n, k < i PROVE g[k] = f[k] /\ Before(f[k], app[k])
        OBVIOUS
      <4>1. app[k] \in HeapNode /\ g[k] = f[k]
        BY <1>2, <3>7
      <4>2. CASE k <= p
        BY <1>1, <4>1, <4>2, <3>l, <3>1
      <4>3. CASE k > p
        <5>1. g[k] = app[k]
          BY <4>3, <3>a
        <5> QED BY <5>1, <4>1, CompareIs
      <4> QED BY <4>2, <4>3, <3>1
    <3>10. Typed(f)
      <4>1. \A k \in 1..n : k # i => \E m \in 1..n : f[k] = app[m]
        BY <3>7, <3>6
      <4>2. p \in 1..n
        BY <1>1, <3>1
      <4> QED BY <4>1, <4>2, <3>8
    <3>11. Above(f, i)
      BY <1>1, <3>7, <3>a, <3>1
    <3>12. Sorted(f, i)
      <4> SUFFICES ASSUME NEW c \in 2..i PROVE Before(f[c \div 2], f[c])
        OBVIOUS
      <4>1. c \div 2 \in 1..(n - 1) /\ c \div 2 < c /\ c \in 1..n /\ c \div 2 \in 1..n
        BY <1>1, Halves
      <4>2. Before(f[c \div 2], app[c \div 2])
        BY <4>1, <3>9
      <4>3. CASE c = i
        BY <4>2, <4>3, <3>8 DEF p
      <4>4. CASE c <= p
        <5>1. Before(g[c \div 2], g[c])
          BY <4>4, <3>s, <3>1
        <5> QED BY <5>1, <4>1, <4>4, <3>9, <3>1
      <4>5. CASE c > p /\ c < i
        <5>1. f[c] = app[c]
          BY <1>1, <4>5, <4>1, <3>7, <3>a
        <5>2. Before(app[c \div 2], app[c])
          BY <4>5, <1>1, <1>6
        <5>3. f[c \div 2] \in HeapNode /\ app[c \div 2] \in HeapNode /\ app[c] \in HeapNode
          BY <4>1, <3>8, <1>2
        <5> QED BY <5>1, <5>2, <5>3, <4>2, CompareIs
      <4> QED BY <4>3, <4>4, <4>5, <3>1
    <3>13. Lower(f, i)
      <4> SUFFICES ASSUME NEW k \in 1..i, k < n PROVE Before(f[k], app[k])
        OBVIOUS
      <4>1. CASE k < i
        BY <1>1, <4>1, <3>9
      <4>2. CASE k = i
        BY <4>2, <3>8, <1>1, <1>6, <2>2 DEF p
      <4> QED BY <4>1, <4>2
    <3>14. Holds(f, i)
      <4>1. \A m \in 1..p : m \in 1..i /\ m \in 1..n /\ f[m] = g[m]
        BY <1>1, <3>1, <3>7
      <4>2. ASSUME NEW k \in 1..(i - 1) PROVE \E m \in 1..i : f[m] = app[k]
        <5>1. CASE k < p
          <6>1. PICK m \in 1..p : g[m] = app[k]
            BY <1>1, <5>1, <3>1, <3>h
          <6> QED BY <6>1, <4>1
        <5>2. CASE k = p
          BY <5>2, <3>8, <1>1
        <5>3. CASE k > p
          BY <1>1, <5>3, <3>a, <3>7
        <5> QED BY <5>1, <5>2, <5>3, <3>1
      <4>3. PICK m \in 1..p : g[m] = node
        BY <3>h
      <4> QED BY <4>1, <4>2, <4>3
    <3> QED BY <3>10, <3>11, <3>12, <3>13, <3>14 DEF f
  <2> QED BY <2>1, <2>2
<1> HIDE DEF T
<1>8. n \in T
  <2>1. \A i \in 0..n : i \in T
    BY <1>1, <1>7, UpTo
  <2> QED BY <2>1, <1>1
<1> DEFINE h == Push(heap, node)
<1>9. Typed(h) /\ Sorted(h, n) /\ Holds(h, n)
  <2>1. Good(n)
    <3> HIDE DEF Good
    <3> QED BY <1>1, <1>8 DEF T
  <2> QED BY <2>1, <1>4
<1> HIDE DEF h
<1>10. h \in Seq(HeapNode) /\ Len(h) = n
  BY <1>1, <1>9
<1>11. Ordered(h)
  BY <1>9, <1>10 DEF Ordered
<1>12. Items(h) = Items(heap) \cup {node}
  <2>1. DOMAIN h = 1..n /\ DOMAIN heap = 1..(n - 1)
    BY <1>1, <1>10
  <2>2. ASSUME NEW k \in 1..n PROVE h[k] \in Items(heap) \cup {node}
    <3>1. PICK m \in 1..n : h[k] = app[m]
      BY <1>9
    <3>2. CASE m = n
      BY <3>1, <3>2, <1>2
    <3>3. CASE m # n
      <4>1. m \in 1..(n - 1)
        BY <3>3, <1>1
      <4> QED BY <4>1, <3>1, <2>1, <1>2 DEF Items
    <3> QED BY <3>2, <3>3
  <2>3. ASSUME NEW k \in 1..(n - 1) PROVE heap[k] \in Items(h)
    <3>1. PICK m \in 1..n : h[m] = app[k]
      BY <1>9
    <3> QED BY <3>1, <2>1, <1>2 DEF Items
  <2>4. node \in Items(h)
    BY <1>9, <2>1 DEF Items
  <2> QED BY <2>1, <2>2, <2>3, <2>4 DEF Items
<1> QED BY <1>10, <1>11, <1>12 DEF h, n

-----------------------------------------------------------------------------
(* pop.                                                                     *)

\* What holds of a place when it holds of all later ones holds of all.
LEMMA DownFrom ==
  ASSUME NEW n \in Nat, NEW T,
         \A i \in 1..n : (\A k \in (i + 1)..n : k \in T) => i \in T
  PROVE  \A i \in 1..n : i \in T
<1> DEFINE D == {d \in 0..n : d = n \/ n - d \in T}
<1>1. ASSUME NEW d \in 0..n, \A k \in 0..(d - 1) : k \in D PROVE d \in D
  <2>1. CASE d = n
    BY <2>1
  <2>2. CASE d # n
    <3>1. n - d \in 1..n
      BY <2>2
    <3>2. ASSUME NEW k \in (n - d + 1)..n PROVE k \in T
      <4>1. n - k \in 0..(d - 1) /\ n - k # n /\ n - (n - k) = k
        BY <2>2
      <4> QED BY <4>1, <1>1
    <3> QED BY <3>1, <3>2
  <2> QED BY <2>1, <2>2
<1> HIDE DEF D
<1>2. \A d \in 0..n : d \in D
  BY <1>1, UpTo
<1> SUFFICES ASSUME NEW i \in 1..n PROVE i \in T
  OBVIOUS
<1>3. n - i \in 0..n /\ n - i # n /\ n - (n - i) = i
  OBVIOUS
<1> QED BY <1>2, <1>3 DEF D

SinkAt(rest, last, n, f, i) ==
  LET child == SinkTarget(rest, last, i, n)
  IN  IF child = 0 THEN [rest EXCEPT ![i] = last]
      ELSE [f[child] EXCEPT ![i] = rest[child]]

SinksTo(rest, last, i, n, child) ==
  \/ /\ child = 0
     /\ \A c \in {2 * i, 2 * i + 1} : c <= n => Before(last, rest[c])
  \/ /\ child \in {2 * i, 2 * i + 1} /\ child \in 1..n /\ child > i
     /\ Before(rest[child], last)
     /\ \A c \in {2 * i, 2 * i + 1} : c <= n => Before(rest[child], rest[c])

\* A node sinks to the lesser of the children that precede it, if any does.
LEMMA SinkTargetIs ==
  ASSUME NEW n \in Nat, NEW rest \in [1..n -> HeapNode], NEW last \in HeapNode, NEW i \in 1..n
  PROVE  SinksTo(rest, last, i, n, SinkTarget(rest, last, i, n))
<1> DEFINE l == 2 * i
           r == 2 * i + 1
<1>1. l \in Nat /\ r \in Nat /\ l > i /\ r > l /\ i >= 1
  OBVIOUS
<1>2. l <= n => rest[l] \in HeapNode
  BY <1>1
<1>3. r <= n => rest[r] \in HeapNode
  BY <1>1
<1>4. SinkTarget(rest, last, i, n) =
        IF l > n THEN 0
        ELSE IF Compare(rest[l], last)
        THEN IF r <= n /\ Compare(rest[r], rest[l]) THEN r ELSE l
        ELSE IF r <= n /\ Compare(rest[r], last) THEN r ELSE 0
  BY DEF SinkTarget
<1> HIDE DEF l, r
<1>5. CASE l > n
  BY <1>1, <1>4, <1>5 DEF l, r, SinksTo
<1>6. CASE l <= n /\ Compare(rest[l], last)
  <2>1. CASE r <= n /\ Compare(rest[r], rest[l])
    <3>1. SinkTarget(rest, last, i, n) = r /\ r \in 1..n /\ l \in 1..n
      BY <1>1, <1>4, <1>6, <2>1
    <3>2. Before(rest[r], rest[l]) /\ Before(rest[r], rest[r]) /\ Before(rest[r], last)
      BY <1>2, <1>3, <1>6, <2>1, CompareIs
    <3> QED BY <3>1, <3>2, <1>1 DEF l, r, SinksTo
  <2>2. CASE ~ (r <= n /\ Compare(rest[r], rest[l]))
    <3>1. SinkTarget(rest, last, i, n) = l /\ l \in 1..n
      BY <1>1, <1>4, <1>6, <2>2
    <3>2. Before(rest[l], last) /\ Before(rest[l], rest[l])
      BY <1>2, <1>6, CompareIs
    <3>3. r <= n => Before(rest[l], rest[r])
      BY <1>2, <1>3, <1>6, <2>2, CompareIs
    <3> QED BY <3>1, <3>2, <3>3, <1>1 DEF l, r, SinksTo
  <2> QED BY <2>1, <2>2
<1>7. CASE l <= n /\ ~ Compare(rest[l], last)
  <2>0. Before(last, rest[l])
    BY <1>2, <1>7, CompareIs
  <2>1. CASE r <= n /\ Compare(rest[r], last)
    <3>1. SinkTarget(rest, last, i, n) = r /\ r \in 1..n
      BY <1>1, <1>4, <1>7, <2>1
    <3>2. Before(rest[r], last) /\ Before(rest[r], rest[r])
      BY <1>3, <2>1, CompareIs
    <3>3. Before(rest[r], rest[l])
      BY <1>2, <1>3, <1>7, <2>0, <2>1, <3>2, CompareIs
    <3> QED BY <3>1, <3>2, <3>3, <1>1 DEF l, r, SinksTo
  <2>2. CASE ~ (r <= n /\ Compare(rest[r], last))
    <3>1. SinkTarget(rest, last, i, n) = 0
      BY <1>1, <1>4, <1>7, <2>2
    <3>2. r <= n => Before(last, rest[r])
      BY <1>3, <2>2, CompareIs
    <3> QED BY <3>1, <3>2, <2>0, <1>1 DEF l, r, SinksTo
  <2> QED BY <2>1, <2>2
<1> QED BY <1>1, <1>5, <1>6, <1>7

\* The recursion of pop is well defined: a node sinks to later places only.
LEMMA SinkExists ==
  ASSUME NEW n \in Nat, NEW rest \in [1..n -> HeapNode], NEW last \in HeapNode
  PROVE  \E f : f = [i \in 1..n |-> SinkAt(rest, last, n, f, i)]
<1> DEFINE Solves(f, low) == f = [i \in low..n |-> SinkAt(rest, last, n, f, i)]
           T == {low \in 1..n : \E f : Solves(f, low)}
<1>1. ASSUME NEW f, NEW g, NEW i \in 1..n, \A c \in 1..n : c > i => f[c] = g[c]
      PROVE  SinkAt(rest, last, n, f, i) = SinkAt(rest, last, n, g, i)
  <2> DEFINE child == SinkTarget(rest, last, i, n)
  <2>1. child = 0 \/ (child \in 1..n /\ child > i)
    <3>1. SinksTo(rest, last, i, n, child)
      BY SinkTargetIs
    <3> HIDE DEF child
    <3> QED BY <3>1 DEF SinksTo
  <2> HIDE DEF child
  <2>2. child # 0 => f[child] = g[child]
    BY <2>1, <1>1
  <2> QED BY <2>2 DEF SinkAt, child
<1>2. ASSUME NEW low \in 1..n, \A k \in (low + 1)..n : k \in T PROVE low \in T
  <2>1. PICK f : Solves(f, low + 1)
    <3>1. CASE low = n
      <4> DEFINE f == [i \in (n + 1)..n |-> 0]
      <4>1. Solves(f, n + 1)
        OBVIOUS
      <4> QED BY <4>1, <3>1
    <3>2. CASE low < n
      BY <3>2, <1>2
    <3> QED BY <3>1, <3>2
  <2> DEFINE g == [i \in low..n |-> SinkAt(rest, last, n, f, i)]
  <2>2. \A i \in (low + 1)..n : f[i] = SinkAt(rest, last, n, f, i)
    BY <2>1
  <2>3. \A i \in (low + 1)..n : g[i] = f[i]
    BY <2>2
  <2> HIDE DEF g
  <2>4. ASSUME NEW i \in low..n PROVE SinkAt(rest, last, n, f, i) = SinkAt(rest, last, n, g, i)
    <3>1. i \in 1..n /\ \A c \in 1..n : c > i => f[c] = g[c]
      BY <2>3
    <3> QED BY <3>1, <1>1
  <2>5. g = [i \in low..n |-> SinkAt(rest, last, n, g, i)]
    BY <2>4 DEF g
  <2> QED BY <2>5
<1> HIDE DEF T
<1>3. \A low \in 1..n : low \in T
  BY <1>2, DownFrom
<1>4. CASE n = 0
  <2> DEFINE f == [i \in 1..0 |-> 0]
  <2>1. f = [i \in 1..0 |-> SinkAt(rest, last, n, f, i)]
    OBVIOUS
  <2> QED BY <2>1, <1>4
<1>5. CASE n > 0
  BY <1>3, <1>5 DEF T
<1> QED BY <1>4, <1>5

\* pop takes the head and nothing else, and keeps the heap ordered.
LEMMA PopIs ==
  ASSUME NEW heap \in Seq(HeapNode), Ordered(heap), heap # <<>>
  PROVE  /\ Pop(heap) \in Seq(HeapNode)
         /\ Len(Pop(heap)) = Len(heap) - 1
         /\ Ordered(Pop(heap))
         /\ Items(Pop(heap)) \subseteq Items(heap)
         /\ Items(heap) \subseteq Items(Pop(heap)) \cup {heap[1]}
<1> DEFINE n == Len(heap) - 1
           last == heap[n + 1]
           rest == SubSeq(heap, 1, n)
           sink == CHOOSE f : f = [i \in 1..n |-> SinkAt(rest, last, n, f, i)]
<1>1. n \in Nat /\ Len(heap) = n + 1
  OBVIOUS
<1>2. last \in HeapNode
  BY <1>1
<1>3. rest \in Seq(HeapNode) /\ Len(rest) = n
  BY <1>1
<1>4. rest \in [1..n -> HeapNode] /\ \A k \in 1..n : rest[k] = heap[k]
  <2>1. \A k \in 1..n : rest[k] = heap[k]
    BY <1>1
  <2> HIDE DEF n, rest
  <2> QED BY <1>3, <2>1
<1>5. Pop(heap) = IF n = 0 THEN <<>> ELSE sink[1]
  BY DEF Pop, SinkAt
<1> HIDE DEF n, rest, last
<1>6. sink = [i \in 1..n |-> SinkAt(rest, last, n, sink, i)]
  <2>1. \E f : f = [i \in 1..n |-> SinkAt(rest, last, n, f, i)]
    BY <1>1, <1>2, <1>4, SinkExists
  <2> QED BY <2>1
<1> HIDE DEF sink
<1>7. \A i \in 1..n : sink[i] = SinkAt(rest, last, n, sink, i)
  BY <1>6
<1>8. \A c \in 2..n : Before(rest[c \div 2], rest[c])
  <2> SUFFICES ASSUME NEW c \in 2..n PROVE Before(rest[c \div 2], rest[c])
    OBVIOUS
  <2>1. c \div 2 \in 1..n /\ c \in 1..n /\ c \in 2..Len(heap)
    BY <1>1, Halves
  <2> QED BY <2>1, <1>4 DEF Ordered
<1>9. CASE n = 0
  <2>0. Len(heap) = 1
    BY <1>1, <1>9
  <2>1. Pop(heap) = <<>> /\ Len(heap) = 1
    BY <2>0, <1>5, <1>9
  <2>2. Items(heap) = {heap[1]} /\ Items(<<>>) = {}
    BY <2>1 DEF Items
  <2>3. <<>> \in Seq(HeapNode) /\ Len(<<>>) = 0
    OBVIOUS
  <2>4. Ordered(<<>>)
    BY <2>3 DEF Ordered
  <2> QED BY <2>1, <2>2, <2>3, <2>4
<1>10. CASE n > 0
  <2> DEFINE Typed(f) == /\ f \in [1..n -> HeapNode]
                         /\ \A k \in 1..n : f[k] = last \/ \E m \in 1..n : f[k] = rest[m]
             Below(f, i) == \A k \in 1..n : k < i => f[k] = rest[k]
             Higher(f) == \A k \in 1..n : Before(rest[k], f[k])
             Sorted(f, i) == \A c \in 2..n : c \div 2 >= i => Before(f[c \div 2], f[c])
             Holds(f, i) == /\ \A k \in (i + 1)..n : \E m \in i..n : f[m] = rest[k]
                            /\ \E m \in i..n : f[m] = last
             Good(i) == /\ Typed(sink[i]) /\ Below(sink[i], i) /\ Higher(sink[i])
                        /\ Sorted(sink[i], i) /\ Holds(sink[i], i)
             T == {i \in 1..n : Before(rest[i], last) => Good(i)}
  <2>1. ASSUME NEW i \in 1..n, \A k \in (i + 1)..n : k \in T PROVE i \in T
    <3> SUFFICES ASSUME Before(rest[i], last) PROVE Good(i)
      OBVIOUS
    <3> DEFINE child == SinkTarget(rest, last, i, n)
               f == sink[i]
    <3>1. f = IF child = 0 THEN [rest EXCEPT ![i] = last]
              ELSE [sink[child] EXCEPT ![i] = rest[child]]
      BY <1>7 DEF SinkAt
    <3>2. SinksTo(rest, last, i, n, child)
      BY <1>1, <1>2, <1>4, SinkTargetIs
    <3> HIDE DEF child, f
    <3>3. \A c \in 2..n : /\ c \div 2 \in 1..n /\ c \div 2 < c /\ c \in 1..n
                          /\ c \div 2 = i => c \in {2 * i, 2 * i + 1} /\ c <= n
      BY <1>1, Halves
    <3>4. CASE child = 0
      <4>0. \A c \in {2 * i, 2 * i + 1} : c <= n => Before(last, rest[c])
        BY <3>2, <3>4 DEF SinksTo
      <4>1. \A k \in 1..n : k # i => f[k] = rest[k]
        BY <3>1, <3>4, <1>4
      <4>2. f[i] = last /\ f \in [1..n -> HeapNode]
        BY <3>1, <3>4, <1>2, <1>4
      <4>3. Typed(f)
        BY <4>1, <4>2
      <4>4. Below(f, i)
        BY <4>1
      <4>5. Higher(f)
        <5> SUFFICES ASSUME NEW k \in 1..n PROVE Before(rest[k], f[k])
          OBVIOUS
        <5>1. rest[k] \in HeapNode
          BY <1>4
        <5> QED BY <5>1, <4>1, <4>2, CompareIs
      <4>6. Sorted(f, i)
        <5> SUFFICES ASSUME NEW c \in 2..n, c \div 2 >= i PROVE Before(f[c \div 2], f[c])
          OBVIOUS
        <5>1. c \div 2 \in 1..n /\ c \div 2 < c /\ c \in 1..n /\ c # i
          BY <3>3
        <5>2. f[c] = rest[c]
          BY <5>1, <4>1
        <5>3. CASE c \div 2 = i
          <6>1. Before(last, rest[c])
            BY <5>3, <4>0, <3>3
          <6> QED BY <6>1, <5>2, <5>3, <4>2
        <5>4. CASE c \div 2 # i
          BY <5>1, <5>2, <5>4, <4>1, <1>8
        <5> QED BY <5>3, <5>4
      <4>7. Holds(f, i)
        <5>1. \A k \in (i + 1)..n : k \in i..n /\ f[k] = rest[k]
          BY <4>1
        <5>2. i \in i..n
          BY <1>1
        <5> QED BY <5>1, <5>2, <4>2
      <4> QED BY <4>3, <4>4, <4>5, <4>6, <4>7 DEF f
    <3>5. CASE child # 0
      <4> DEFINE g == sink[child]
      <4>1. /\ child \in {2 * i, 2 * i + 1} /\ child \in 1..n /\ child > i
            /\ child \in (i + 1)..n
        BY <3>2, <3>5, <1>1 DEF SinksTo
      <4>2. /\ Before(rest[child], last)
            /\ \A c \in {2 * i, 2 * i + 1} : c <= n => Before(rest[child], rest[c])
        BY <3>2, <3>5 DEF SinksTo
      <4>3. Good(child)
        <5>1. child \in T
          BY <4>1, <2>1
        <5> HIDE DEF Good
        <5> QED BY <5>1, <4>2
      <4>4. f = [g EXCEPT ![i] = rest[child]]
        BY <3>1, <3>5
      <4> HIDE DEF g
      <4>t. Typed(g)
        BY <4>3 DEF g
      <4>b. \A k \in 1..n : k < child => g[k] = rest[k]
        BY <4>3 DEF g
      <4>u. \A k \in 1..n : Before(rest[k], g[k])
        BY <4>3 DEF g
      <4>s. \A c \in 2..n : c \div 2 >= child => Before(g[c \div 2], g[c])
        BY <4>3 DEF g
      <4>h. Holds(g, child)
        BY <4>3 DEF g
      <4>5. \A k \in 1..n : k # i => f[k] = g[k]
        BY <4>4, <4>t
      <4>6. f[i] = rest[child] /\ f \in [1..n -> HeapNode]
        BY <4>4, <4>t, <4>1, <1>4
      <4>7. Typed(f)
        <5>1. \A k \in 1..n : k # i => f[k] = last \/ \E m \in 1..n : f[k] = rest[m]
          BY <4>5, <4>t
        <5> QED BY <5>1, <4>1, <4>6
      <4>8. Below(f, i)
        BY <4>1, <4>5, <4>b
      <4>9. Higher(f)
        <5> SUFFICES ASSUME NEW k \in 1..n PROVE Before(rest[k], f[k])
          OBVIOUS
        <5>1. CASE k # i
          BY <5>1, <4>5, <4>u
        <5>2. CASE k = i
          <6>1. child \in 2..n /\ child \div 2 = i
            BY <4>1, <1>1
          <6> QED BY <6>1, <5>2, <4>6, <1>8
        <5> QED BY <5>1, <5>2
      <4>10. Sorted(f, i)
        <5> SUFFICES ASSUME NEW c \in 2..n, c \div 2 >= i PROVE Before(f[c \div 2], f[c])
          OBVIOUS
        <5>1. c \div 2 \in 1..n /\ c \div 2 < c /\ c \in 1..n /\ c # i
          BY <3>3
        <5>2. f[c] = g[c] /\ Before(rest[c], f[c])
          BY <5>1, <4>5, <4>u
        <5>3. rest[c] \in HeapNode /\ f[c] \in HeapNode
          BY <5>1, <4>6, <1>4
        <5>4. CASE c \div 2 = i
          <6>1. Before(rest[child], rest[c])
            BY <5>4, <4>2, <3>3
          <6>2. rest[child] \in HeapNode
            BY <4>1, <1>4
          <6> QED BY <6>1, <6>2, <5>2, <5>3, <5>4, <4>6, CompareIs
        <5>5. CASE c \div 2 > i /\ c \div 2 < child
          <6>1. f[c \div 2] = rest[c \div 2] /\ rest[c \div 2] \in HeapNode
            BY <5>1, <5>5, <4>5, <4>b, <1>4
          <6>2. Before(rest[c \div 2], rest[c])
            BY <1>8
          <6> QED BY <6>1, <6>2, <5>2, <5>3, CompareIs
        <5>6. CASE c \div 2 >= child
          <6>1. f[c \div 2] = g[c \div 2]
            BY <5>1, <5>6, <4>1, <4>5
          <6> QED BY <6>1, <5>2, <5>6, <4>s
        <5> QED BY <5>1, <5>4, <5>5, <5>6, <4>1
      <4>11. Holds(f, i)
        <5>1. \A m \in child..n : m \in i..n /\ m \in 1..n /\ f[m] = g[m]
          BY <4>1, <4>5
        <5>2. ASSUME NEW k \in (i + 1)..n PROVE \E m \in i..n : f[m] = rest[k]
          <6>1. CASE k > child
            <7>1. PICK m \in child..n : g[m] = rest[k]
              <8>1. k \in (child + 1)..n
                BY <6>1, <4>1
              <8> QED BY <8>1, <4>h
            <7> QED BY <7>1, <5>1
          <6>2. CASE k = child
            BY <6>2, <4>6, <1>1
          <6>3. CASE k < child
            <7>1. k \in 1..n /\ k # i /\ k \in i..n
              OBVIOUS
            <7> QED BY <7>1, <6>3, <4>5, <4>b
          <6> QED BY <6>1, <6>2, <6>3, <4>1
        <5>3. PICK m \in child..n : g[m] = last
          BY <4>h
        <5> QED BY <5>1, <5>2, <5>3
      <4> QED BY <4>7, <4>8, <4>9, <4>10, <4>11 DEF f
    <3> QED BY <3>4, <3>5
  <2> HIDE DEF T
  <2>2. 1 \in T
    <3>1. \A i \in 1..n : i \in T
      BY <1>1, <2>1, DownFrom
    <3> QED BY <3>1, <1>1, <1>10
  <2>3. Before(rest[1], last)
    <3>1. rest[1] = heap[1] /\ n + 1 \in 1..Len(heap)
      BY <1>1, <1>4, <1>10
    <3> QED BY <3>1, HeadIsLeast DEF last
  <2>4. Good(1)
    <3> HIDE DEF Good
    <3> QED BY <2>2, <2>3 DEF T
  <2> DEFINE h == Pop(heap)
  <2>5. h = sink[1]
    BY <1>5, <1>10
  <2>t. Typed(h)
    BY <2>4, <2>5
  <2>s. \A c \in 2..n : c \div 2 >= 1 => Before(h[c \div 2], h[c])
    BY <2>4, <2>5
  <2>h. Holds(h, 1)
    BY <2>4, <2>5
  <2> HIDE DEF h
  <2>6. h \in Seq(HeapNode) /\ Len(h) = n
    <3>1. h \in [1..n -> HeapNode]
      BY <2>t
    <3> QED BY <3>1, <1>1
  <2>7. Ordered(h)
    <3>1. \A c \in 2..n : c \div 2 >= 1
      BY <1>1, Halves
    <3> QED BY <3>1, <2>6, <2>s DEF Ordered
  <2>8. DOMAIN h = 1..n /\ DOMAIN heap = 1..(n + 1) /\ last = heap[n + 1]
    BY <1>1, <2>6 DEF last
  <2>9. ASSUME NEW k \in 1..n PROVE h[k] \in Items(heap)
    <3>1. CASE h[k] = last
      BY <3>1, <2>8, <1>1 DEF Items
    <3>2. CASE \E m \in 1..n : h[k] = rest[m]
      <4>1. PICK m \in 1..n : h[k] = rest[m]
        BY <3>2
      <4>2. m \in 1..(n + 1) /\ h[k] = heap[m]
        BY <4>1, <1>1, <1>4
      <4> QED BY <4>2, <2>8 DEF Items
    <3> QED BY <3>1, <3>2, <2>t
  <2>10. ASSUME NEW k \in 1..(n + 1) PROVE heap[k] \in Items(h) \cup {heap[1]}
    <3>1. CASE k = n + 1
      <4>1. PICK m \in 1..n : h[m] = last
        BY <2>h
      <4> QED BY <4>1, <3>1, <2>8 DEF Items
    <3>2. CASE k \in 2..n
      <4>1. k \in (1 + 1)..n
        BY <3>2
      <4>2. PICK m \in 1..n : h[m] = rest[k]
        BY <4>1, <2>h
      <4>3. rest[k] = heap[k]
        BY <3>2, <1>4
      <4> QED BY <4>2, <4>3, <2>8 DEF Items
    <3>3. k = 1 \/ k \in 2..n \/ k = n + 1
      BY <1>1
    <3> QED BY <3>1, <3>2, <3>3
  <2>11. Items(h) \subseteq Items(heap) /\ Items(heap) \subseteq Items(h) \cup {heap[1]}
    BY <2>8, <2>9, <2>10 DEF Items
  <2> QED BY <2>6, <2>7, <2>11, <1>1 DEF h
<1>11. n = 0 \/ n > 0
  BY <1>1
<1> QED BY <1>9, <1>10, <1>11

-----------------------------------------------------------------------------
(***************************************************************************)
(* The two queues: both are ordered, an entry carries the time of its task, *)
(* and every task whose callback was neither taken nor cancelled is in one  *)
(* of them.                                                                 *)
(***************************************************************************)
Task == [priority : 1..5, start : Nat, expiration : Int, callback : BOOLEAN]

QueueRecord == [tasks : Seq(Task), taskQueue : Seq(HeapNode), timerQueue : Seq(HeapNode)]

HasTask(queues, id) == \E e \in Items(queues.taskQueue) : e.id = id
HasTimer(queues, id) == \E e \in Items(queues.timerQueue) : e.id = id

TasksTimed(queues) ==
  \A e \in Items(queues.taskQueue) :
    e.id \in DOMAIN queues.tasks /\ e.sort = queues.tasks[e.id].expiration
TimersTimed(queues) ==
  \A e \in Items(queues.timerQueue) :
    e.id \in DOMAIN queues.tasks /\ e.sort = queues.tasks[e.id].start

Covered(queues) ==
  \A id \in DOMAIN queues.tasks :
    queues.tasks[id].callback => HasTask(queues, id) \/ HasTimer(queues, id)

QueuesOK(queues) ==
  /\ queues \in QueueRecord
  /\ Ordered(queues.taskQueue) /\ Ordered(queues.timerQueue)
  /\ TasksTimed(queues) /\ TimersTimed(queues) /\ Covered(queues)

\* No timer is due: every live task that should have started is in the task queue.
Ready(queues, time) ==
  \A id \in DOMAIN queues.tasks :
    queues.tasks[id].callback /\ queues.tasks[id].start <= time => HasTask(queues, id)

\* advanceTimers has nothing left to do.
Settled(queues, time) ==
  \/ queues.timerQueue = <<>>
  \/ /\ queues.tasks[Peek(queues.timerQueue).id].callback
     /\ ~ Due(queues.tasks[Peek(queues.timerQueue).id], time)

\* The head of a queue is one of its items and precedes the others.
LEMMA PeekIs ==
  ASSUME NEW heap \in Seq(HeapNode), Ordered(heap), heap # <<>>
  PROVE  /\ Peek(heap) \in Items(heap) /\ Peek(heap) \in HeapNode /\ Peek(heap) = heap[1]
         /\ \A e \in Items(heap) : e \in HeapNode /\ Before(Peek(heap), e)
<1>1. 1 \in 1..Len(heap) /\ DOMAIN heap = 1..Len(heap)
  OBVIOUS
<1>2. \A i \in 1..Len(heap) : heap[i] \in HeapNode /\ Before(heap[1], heap[i])
  BY HeadIsLeast
<1> QED BY <1>1, <1>2 DEF Peek, Items

\* An empty queue has no items, and only an empty one has none.
LEMMA NoItems == \A heap \in Seq(HeapNode) : heap = <<>> <=> Items(heap) = {}
<1> SUFFICES ASSUME NEW heap \in Seq(HeapNode) PROVE heap = <<>> <=> Items(heap) = {}
  OBVIOUS
<1>1. CASE heap = <<>>
  BY <1>1 DEF Items
<1>2. CASE heap # <<>>
  <2>1. 1 \in DOMAIN heap
    BY <1>2
  <2> QED BY <1>2, <2>1 DEF Items
<1> QED BY <1>1, <1>2

\* With no timer left to move, no live task that is due is a timer.
LEMMA SettledIsReady ==
  ASSUME NEW queues, QueuesOK(queues), NEW time \in Nat, Settled(queues, time)
  PROVE  Ready(queues, time)
<1> SUFFICES ASSUME NEW id \in DOMAIN queues.tasks, queues.tasks[id].callback,
                    queues.tasks[id].start <= time, ~ HasTask(queues, id)
             PROVE  FALSE
  BY DEF Ready
<1> DEFINE first == Peek(queues.timerQueue)
<1>1. /\ queues.timerQueue \in Seq(HeapNode) /\ Ordered(queues.timerQueue)
      /\ queues.tasks \in Seq(Task)
  BY DEF QueuesOK, QueueRecord
<1>2. PICK e \in Items(queues.timerQueue) : e.id = id
  BY DEF QueuesOK, Covered, HasTimer
<1>3. queues.timerQueue # <<>>
  BY <1>1, <1>2, NoItems
<1>4. first \in Items(queues.timerQueue) /\ first \in HeapNode /\ e \in HeapNode /\ Before(first, e)
  BY <1>1, <1>2, <1>3, PeekIs
<1>5. /\ first.id \in DOMAIN queues.tasks /\ first.sort = queues.tasks[first.id].start
      /\ e.sort = queues.tasks[id].start
  BY <1>2, <1>4 DEF QueuesOK, TimersTimed
<1>6. ~ (first.sort <= time)
  BY <1>3, <1>5 DEF Settled, Due
<1>7. first.sort \in Int /\ e.sort \in Int
  BY <1>4 DEF HeapNode
<1>8. first.sort <= e.sort
  BY <1>4, <1>7 DEF Before
<1> QED BY <1>5, <1>6, <1>7, <1>8

\* One round of advanceTimers moves the first timer, or there is nothing to move.
LEMMA AdvanceTimerOK ==
  ASSUME NEW queues, QueuesOK(queues), NEW time \in Nat
  PROVE  LET r == AdvanceTimer(queues, time)
         IN  /\ QueuesOK(r) /\ r.tasks = queues.tasks
             /\ \A id : HasTask(queues, id) => HasTask(r, id)
             /\ Settled(queues, time) => r = queues
             /\ ~ Settled(queues, time) => Len(r.timerQueue) = Len(queues.timerQueue) - 1
<1> DEFINE first == Peek(queues.timerQueue)
           timer == queues.tasks[first.id]
           r == AdvanceTimer(queues, time)
           node == Entry(timer.expiration, first.id)
           left == Pop(queues.timerQueue)
           more == Push(queues.taskQueue, node)
<1>1. /\ queues.timerQueue \in Seq(HeapNode) /\ Ordered(queues.timerQueue)
      /\ queues.taskQueue \in Seq(HeapNode) /\ Ordered(queues.taskQueue)
      /\ queues.tasks \in Seq(Task) /\ queues \in QueueRecord
  BY DEF QueuesOK, QueueRecord
<1>2. CASE Settled(queues, time)
  <2>1. r = queues
    BY <1>2 DEF AdvanceTimer, Settled
  <2> QED BY <2>1, <1>2
<1>3. CASE ~ Settled(queues, time)
  <2>1. queues.timerQueue # <<>> /\ (~ timer.callback \/ Due(timer, time))
    BY <1>3 DEF Settled
  <2>2. first \in Items(queues.timerQueue) /\ first \in HeapNode /\ first = queues.timerQueue[1]
    BY <1>1, <2>1, PeekIs
  <2>3. first.id \in DOMAIN queues.tasks /\ timer \in Task
    BY <2>2, <1>1 DEF QueuesOK, TimersTimed
  <2>4. /\ left \in Seq(HeapNode) /\ Len(left) = Len(queues.timerQueue) - 1 /\ Ordered(left)
        /\ Items(left) \subseteq Items(queues.timerQueue)
        /\ Items(queues.timerQueue) \subseteq Items(left) \cup {first}
    BY <1>1, <2>1, <2>2, PopIs
  <2>5. CASE ~ timer.callback
    <3>1. r = [queues EXCEPT !.timerQueue = left]
      BY <2>1, <2>5 DEF AdvanceTimer
    <3>2. /\ r.tasks = queues.tasks /\ r.taskQueue = queues.taskQueue /\ r.timerQueue = left
          /\ r \in QueueRecord
      BY <3>1, <1>1, <2>4 DEF QueueRecord
    <3> HIDE DEF r, left, first
    <3>3. TasksTimed(r) /\ TimersTimed(r)
      BY <3>2, <2>4 DEF QueuesOK, TasksTimed, TimersTimed
    <3>4. \A id : HasTask(queues, id) => HasTask(r, id)
      BY <3>2 DEF HasTask
    <3>5. Covered(r)
      <4> SUFFICES ASSUME NEW id \in DOMAIN r.tasks, r.tasks[id].callback, ~ HasTask(r, id)
                   PROVE  HasTimer(r, id)
        BY DEF Covered
      <4>1. HasTimer(queues, id) /\ id # first.id
        BY <3>2, <3>4, <2>5 DEF QueuesOK, Covered
      <4>2. PICK e \in Items(queues.timerQueue) : e.id = id
        BY <4>1 DEF HasTimer
      <4>3. e \in Items(left)
        BY <4>1, <4>2, <2>4
      <4> QED BY <4>2, <4>3, <3>2 DEF HasTimer
    <3>6. QueuesOK(r)
      BY <3>2, <3>3, <3>5, <1>1, <2>4 DEF QueuesOK
    <3> QED BY <3>2, <3>4, <3>6, <2>4, <1>3 DEF r
  <2>6. CASE timer.callback
    <3>1. r = [queues EXCEPT !.timerQueue = left, !.taskQueue = more]
      BY <2>1, <2>6 DEF AdvanceTimer
    <3>2. node \in HeapNode /\ node.id = first.id /\ node.sort = timer.expiration
      BY <2>2, <2>3 DEF Entry, HeapNode, Task
    <3> HIDE DEF node
    <3>3. /\ more \in Seq(HeapNode) /\ Ordered(more)
          /\ Items(more) = Items(queues.taskQueue) \cup {node}
      BY <3>2, <1>1, PushIs
    <3> HIDE DEF left, more
    <3>4. /\ r.tasks = queues.tasks /\ r.taskQueue = more /\ r.timerQueue = left
          /\ r \in QueueRecord
      BY <3>1, <3>3, <1>1, <2>4 DEF QueueRecord
    <3> HIDE DEF r, first
    <3>5. TimersTimed(r)
      BY <3>4, <2>4 DEF QueuesOK, TimersTimed
    <3>6. TasksTimed(r)
      BY <3>2, <3>3, <3>4, <2>3 DEF QueuesOK, TasksTimed
    <3>7. \A id : HasTask(queues, id) => HasTask(r, id)
      BY <3>3, <3>4 DEF HasTask
    <3>8. HasTask(r, first.id)
      BY <3>2, <3>3, <3>4 DEF HasTask
    <3>9. Covered(r)
      <4> SUFFICES ASSUME NEW id \in DOMAIN r.tasks, r.tasks[id].callback, ~ HasTask(r, id)
                   PROVE  HasTimer(r, id)
        BY DEF Covered
      <4>1. HasTimer(queues, id) /\ id # first.id
        BY <3>4, <3>7, <3>8 DEF QueuesOK, Covered
      <4>2. PICK e \in Items(queues.timerQueue) : e.id = id
        BY <4>1 DEF HasTimer
      <4>3. e \in Items(left)
        BY <4>1, <4>2, <2>4
      <4> QED BY <4>2, <4>3, <3>4 DEF HasTimer
    <3>10. QueuesOK(r)
      BY <3>3, <3>4, <3>5, <3>6, <3>9, <2>4 DEF QueuesOK
    <3> QED BY <3>4, <3>7, <3>10, <2>4, <1>3 DEF r
  <2>7. timer.callback \in BOOLEAN
    BY <2>3 DEF Task
  <2> QED BY <2>5, <2>6, <2>7
<1> QED BY <1>2, <1>3

RoundAt(queues, time, f, m) == IF m = 0 THEN queues ELSE AdvanceTimer(f[m - 1], time)

\* The rounds of advanceTimers are well defined.
LEMMA RoundsExist ==
  ASSUME NEW queues, NEW time, NEW n \in Nat
  PROVE  \E f : f = [m \in 0..n |-> RoundAt(queues, time, f, m)]
<1> DEFINE At(f, m) == RoundAt(queues, time, f, m)
           Solves(f, k) == f = [m \in 0..k |-> At(f, m)]
           T == {k \in 0..n : \E f : Solves(f, k)}
<1>1. ASSUME NEW f, NEW g, NEW m \in Nat, m > 0 => f[m - 1] = g[m - 1] PROVE At(f, m) = At(g, m)
  BY <1>1 DEF RoundAt
<1>2. ASSUME NEW k \in 0..n, \A j \in 0..(k - 1) : j \in T PROVE k \in T
  <2>1. CASE k = 0
    <3> DEFINE f == [m \in 0..0 |-> queues]
    <3>1. Solves(f, 0)
      BY DEF RoundAt
    <3> QED BY <3>1, <2>1
  <2>2. CASE k > 0
    <3>1. PICK f : Solves(f, k - 1)
      BY <2>2, <1>2
    <3> DEFINE g == [m \in 0..k |-> At(f, m)]
    <3> HIDE DEF At
    <3>2. \A m \in 0..(k - 1) : f[m] = At(f, m)
      BY <3>1
    <3>3. \A m \in 0..(k - 1) : g[m] = f[m]
      BY <3>2
    <3> HIDE DEF g
    <3>4. ASSUME NEW m \in 0..k PROVE At(f, m) = At(g, m)
      <4>1. m > 0 => f[m - 1] = g[m - 1]
        BY <3>3
      <4> QED BY <4>1, <1>1
    <3>5. g = [m \in 0..k |-> At(g, m)]
      BY <3>4 DEF g
    <3> QED BY <3>5
  <2> QED BY <2>1, <2>2
<1> HIDE DEF T
<1>3. \A k \in 0..n : k \in T
  BY <1>2, UpTo
<1> QED BY <1>3 DEF T

\* advanceTimers moves every due timer and drops no live task, whatever was queued.
LEMMA AdvanceTimersOK ==
  ASSUME NEW queues, QueuesOK(queues), NEW time \in Nat
  PROVE  LET r == AdvanceTimers(queues, time)
         IN  /\ QueuesOK(r) /\ r.tasks = queues.tasks
             /\ \A id : HasTask(queues, id) => HasTask(r, id)
             /\ Ready(r, time)
<1> DEFINE n == Len(queues.timerQueue)
           round == CHOOSE f : f = [m \in 0..n |-> RoundAt(queues, time, f, m)]
           Good(m) == /\ QueuesOK(round[m]) /\ round[m].tasks = queues.tasks
                      /\ \A id : HasTask(queues, id) => HasTask(round[m], id)
                      /\ Settled(round[m], time) \/ Len(round[m].timerQueue) = n - m
           T == {m \in 0..n : Good(m)}
<1>1. n \in Nat
  BY DEF QueuesOK, QueueRecord
<1>2. AdvanceTimers(queues, time) = round[n]
  BY DEF AdvanceTimers, RoundAt
<1>3. round = [m \in 0..n |-> RoundAt(queues, time, round, m)]
  <2>1. \E f : f = [m \in 0..n |-> RoundAt(queues, time, f, m)]
    BY <1>1, RoundsExist
  <2> QED BY <2>1
<1> HIDE DEF round, n
<1>4. ASSUME NEW m \in 0..n, \A k \in 0..(m - 1) : k \in T PROVE m \in T
  <2>1. CASE m = 0
    <3>1. round[0] = queues
      BY <1>1, <1>3 DEF RoundAt
    <3>2. Len(queues.timerQueue) = n - 0
      BY <1>1 DEF n
    <3> QED BY <3>1, <3>2, <2>1
  <2>2. CASE m > 0
    <3> DEFINE a == round[m - 1]
               b == round[m]
    <3>0. m - 1 \in 0..(m - 1) /\ m # 0 /\ m \in Nat
      BY <2>2, <1>1
    <3>r. round[m] = RoundAt(queues, time, round, m)
      BY <1>3
    <3>1. b = AdvanceTimer(a, time)
      BY <3>0, <3>r DEF RoundAt
    <3>2. Good(m - 1)
      <4>1. m - 1 \in T
        BY <3>0, <1>4
      <4> QED BY <4>1
    <3> HIDE DEF a, b
    <3>3. /\ QueuesOK(a) /\ a.tasks = queues.tasks
          /\ \A id : HasTask(queues, id) => HasTask(a, id)
          /\ Settled(a, time) \/ Len(a.timerQueue) = n - (m - 1)
      BY <3>2 DEF a
    <3>4. /\ QueuesOK(b) /\ b.tasks = a.tasks
          /\ \A id : HasTask(a, id) => HasTask(b, id)
          /\ Settled(a, time) => b = a
          /\ ~ Settled(a, time) => Len(b.timerQueue) = Len(a.timerQueue) - 1
      BY <3>1, <3>3, AdvanceTimerOK
    <3>5. Settled(b, time) \/ Len(b.timerQueue) = n - m
      <4>1. CASE Settled(a, time)
        BY <4>1, <3>4
      <4>2. CASE ~ Settled(a, time)
        <5>1. Len(b.timerQueue) = n - (m - 1) - 1
          BY <4>2, <3>3, <3>4
        <5> QED BY <5>1, <3>0, <1>1
      <4> QED BY <4>1, <4>2
    <3> QED BY <3>3, <3>4, <3>5 DEF b
  <2> QED BY <2>1, <2>2
<1> HIDE DEF T
<1>5. n \in T
  <2>1. \A m \in 0..n : m \in T
    BY <1>1, <1>4, UpTo
  <2> QED BY <2>1, <1>1
<1> DEFINE r == round[n]
<1>6. /\ QueuesOK(r) /\ r.tasks = queues.tasks
      /\ \A id : HasTask(queues, id) => HasTask(r, id)
      /\ Settled(r, time) \/ Len(r.timerQueue) = n - n
  BY <1>5 DEF T
<1> HIDE DEF r
<1>7. Settled(r, time)
  <2>1. CASE Len(r.timerQueue) = 0
    <3>1. r.timerQueue \in Seq(HeapNode)
      BY <1>6 DEF QueuesOK, QueueRecord
    <3>2. r.timerQueue = <<>>
      BY <3>1, <2>1
    <3> QED BY <3>2 DEF Settled
  <2> QED BY <2>1, <1>1, <1>6
<1>8. Ready(r, time)
  BY <1>6, <1>7, SettledIsReady
<1> QED BY <1>2, <1>6, <1>8 DEF r

\* unstable_scheduleCallback queues the new task by its start and keeps the others.
LEMMA EnqueuedOK ==
  ASSUME NEW queues, QueuesOK(queues), NEW task \in Task, NEW time \in Nat
  PROVE  LET r == Enqueued(queues, task, time)
         IN  /\ QueuesOK(r) /\ r.tasks = Append(queues.tasks, task)
             /\ \A id : HasTask(queues, id) => HasTask(r, id)
             /\ \A before \in Nat : before <= time /\ Ready(queues, before) => Ready(r, before)
             /\ task.start > time => /\ r.taskQueue = queues.taskQueue
                                     /\ Items(r.timerQueue) =
                                          Items(queues.timerQueue)
                                            \cup {Entry(task.start, Len(queues.tasks) + 1)}
             /\ ~ (task.start > time) => r.timerQueue = queues.timerQueue
<1> DEFINE n == Len(queues.tasks)
           id1 == n + 1
           tasks == Append(queues.tasks, task)
           r == Enqueued(queues, task, time)
<1>1. /\ queues.timerQueue \in Seq(HeapNode) /\ Ordered(queues.timerQueue)
      /\ queues.taskQueue \in Seq(HeapNode) /\ Ordered(queues.taskQueue)
      /\ queues.tasks \in Seq(Task) /\ queues \in QueueRecord
  BY DEF QueuesOK, QueueRecord
<1>2. /\ n \in Nat /\ DOMAIN queues.tasks = 1..n
      /\ tasks \in Seq(Task) /\ DOMAIN tasks = 1..(n + 1)
      /\ tasks[n + 1] = task /\ \A i \in 1..n : tasks[i] = queues.tasks[i]
  BY <1>1
<1>3. task.start \in Nat /\ task.expiration \in Int /\ task.callback \in BOOLEAN
  BY DEF Task
<1> HIDE DEF n, tasks
<1>4. id1 \in Nat /\ id1 \in DOMAIN tasks /\ id1 \notin DOMAIN queues.tasks
  BY <1>2
<1>5. \A id \in DOMAIN queues.tasks : id \in DOMAIN tasks /\ tasks[id] = queues.tasks[id]
  BY <1>2
<1>6. \A id \in DOMAIN tasks : id = id1 \/ id \in DOMAIN queues.tasks
  BY <1>2
<1>7. tasks[id1] = task
  BY <1>2
<1>8. r = IF task.start > time
          THEN [queues EXCEPT !.tasks = tasks,
                              !.timerQueue = Push(@, Entry(task.start, id1))]
          ELSE [queues EXCEPT !.tasks = tasks,
                              !.taskQueue = Push(@, Entry(task.expiration, id1))]
  BY DEF Enqueued, n, tasks
<1> HIDE DEF id1, r
<1>9. CASE task.start > time
  <2> DEFINE node == Entry(task.start, id1)
             more == Push(queues.timerQueue, node)
  <2>1. r = [queues EXCEPT !.tasks = tasks, !.timerQueue = more]
    BY <1>8, <1>9
  <2>2. node \in HeapNode /\ node.id = id1 /\ node.sort = task.start
    BY <1>3, <1>4 DEF Entry, HeapNode
  <2> HIDE DEF node
  <2>3. /\ more \in Seq(HeapNode) /\ Ordered(more)
        /\ Items(more) = Items(queues.timerQueue) \cup {node}
    BY <2>2, <1>1, PushIs
  <2> HIDE DEF more
  <2>4. /\ r.tasks = tasks /\ r.taskQueue = queues.taskQueue /\ r.timerQueue = more
        /\ r \in QueueRecord
    BY <2>1, <2>3, <1>1, <1>2 DEF QueueRecord
  <2>5. TasksTimed(r)
    BY <2>4, <1>5 DEF QueuesOK, TasksTimed
  <2>6. TimersTimed(r)
    BY <2>2, <2>3, <2>4, <1>4, <1>5, <1>7 DEF QueuesOK, TimersTimed
  <2>7. \A id : HasTask(queues, id) <=> HasTask(r, id)
    BY <2>4 DEF HasTask
  <2>8. HasTimer(r, id1) /\ \A id : HasTimer(queues, id) => HasTimer(r, id)
    BY <2>2, <2>3, <2>4 DEF HasTimer
  <2>9. Covered(r)
    BY <2>4, <2>7, <2>8, <1>5, <1>6 DEF QueuesOK, Covered
  <2>10. ASSUME NEW before \in Nat, before <= time, Ready(queues, before)
         PROVE  Ready(r, before)
    <3> SUFFICES ASSUME NEW id \in DOMAIN r.tasks, r.tasks[id].callback,
                        r.tasks[id].start <= before
                 PROVE  HasTask(r, id)
      BY DEF Ready
    <3>1. id # id1
      BY <2>4, <2>10, <1>3, <1>7, <1>9
    <3> QED BY <3>1, <2>4, <2>7, <2>10, <1>5, <1>6 DEF Ready
  <2>11. QueuesOK(r)
    BY <2>3, <2>4, <2>5, <2>6, <2>9, <1>1 DEF QueuesOK
  <2> QED BY <2>3, <2>4, <2>7, <2>10, <2>11, <1>9 DEF r, tasks, node, id1, n
<1>10. CASE ~ (task.start > time)
  <2> DEFINE node == Entry(task.expiration, id1)
             more == Push(queues.taskQueue, node)
  <2>1. r = [queues EXCEPT !.tasks = tasks, !.taskQueue = more]
    BY <1>8, <1>10
  <2>2. node \in HeapNode /\ node.id = id1 /\ node.sort = task.expiration
    BY <1>3, <1>4 DEF Entry, HeapNode
  <2> HIDE DEF node
  <2>3. /\ more \in Seq(HeapNode) /\ Ordered(more)
        /\ Items(more) = Items(queues.taskQueue) \cup {node}
    BY <2>2, <1>1, PushIs
  <2> HIDE DEF more
  <2>4. /\ r.tasks = tasks /\ r.timerQueue = queues.timerQueue /\ r.taskQueue = more
        /\ r \in QueueRecord
    BY <2>1, <2>3, <1>1, <1>2 DEF QueueRecord
  <2>5. TimersTimed(r)
    BY <2>4, <1>5 DEF QueuesOK, TimersTimed
  <2>6. TasksTimed(r)
    BY <2>2, <2>3, <2>4, <1>4, <1>5, <1>7 DEF QueuesOK, TasksTimed
  <2>7. \A id : HasTimer(queues, id) <=> HasTimer(r, id)
    BY <2>4 DEF HasTimer
  <2>8. HasTask(r, id1) /\ \A id : HasTask(queues, id) => HasTask(r, id)
    BY <2>2, <2>3, <2>4 DEF HasTask
  <2>9. Covered(r)
    BY <2>4, <2>7, <2>8, <1>5, <1>6 DEF QueuesOK, Covered
  <2>10. ASSUME NEW before \in Nat, Ready(queues, before) PROVE Ready(r, before)
    BY <2>4, <2>8, <2>10, <1>5, <1>6 DEF Ready
  <2>11. QueuesOK(r)
    BY <2>3, <2>4, <2>5, <2>6, <2>9, <1>1 DEF QueuesOK
  <2> QED BY <2>4, <2>8, <2>10, <2>11, <1>10 DEF r, tasks
<1> QED BY <1>9, <1>10

\* Cancelling a task, or giving one that is queued its callback back, moves nothing.
LEMMA MarkedOK ==
  ASSUME NEW queues, QueuesOK(queues), NEW id \in DOMAIN queues.tasks, NEW live \in BOOLEAN,
         live => HasTask(queues, id)
  PROVE  LET r == [queues EXCEPT !.tasks[id].callback = live]
         IN  /\ QueuesOK(r) /\ DOMAIN r.tasks = DOMAIN queues.tasks
             /\ \A k \in DOMAIN r.tasks : r.tasks[k].callback =
                                            IF k = id THEN live ELSE queues.tasks[k].callback
             /\ \A k \in DOMAIN r.tasks : /\ r.tasks[k].start = queues.tasks[k].start
                                          /\ r.tasks[k].expiration = queues.tasks[k].expiration
             /\ r.taskQueue = queues.taskQueue /\ r.timerQueue = queues.timerQueue
             /\ \A time \in Nat : Ready(queues, time) => Ready(r, time)
<1> DEFINE r == [queues EXCEPT !.tasks[id].callback = live]
           tasks == [queues.tasks EXCEPT ![id].callback = live]
<1>1. /\ queues.timerQueue \in Seq(HeapNode) /\ queues.taskQueue \in Seq(HeapNode)
      /\ queues.tasks \in Seq(Task) /\ queues \in QueueRecord
  BY DEF QueuesOK, QueueRecord
<1>2. \A k \in DOMAIN queues.tasks : queues.tasks[k] \in Task
  BY <1>1
<1>3. /\ [queues.tasks[id] EXCEPT !.callback = live] \in Task
      /\ [queues.tasks[id] EXCEPT !.callback = live].start = queues.tasks[id].start
      /\ [queues.tasks[id] EXCEPT !.callback = live].expiration = queues.tasks[id].expiration
      /\ [queues.tasks[id] EXCEPT !.callback = live].callback = live
  BY <1>2 DEF Task
<1>4. tasks = [queues.tasks EXCEPT ![id] = [queues.tasks[id] EXCEPT !.callback = live]]
  OBVIOUS
<1>5. /\ DOMAIN tasks = DOMAIN queues.tasks /\ tasks[id] = [queues.tasks[id] EXCEPT !.callback = live]
      /\ \A k \in DOMAIN queues.tasks : k # id => tasks[k] = queues.tasks[k]
  BY <1>4
<1>6. tasks \in Seq(Task)
  <2>1. DOMAIN queues.tasks = 1..Len(queues.tasks) /\ Len(queues.tasks) \in Nat
    BY <1>1
  <2>2. tasks \in [1..Len(queues.tasks) -> Task]
    BY <2>1, <1>2, <1>3, <1>4
  <2> HIDE DEF tasks
  <2> QED BY <2>1, <2>2
<1> HIDE DEF tasks
<1>7. \A k \in DOMAIN tasks :
        /\ tasks[k].start = queues.tasks[k].start
        /\ tasks[k].expiration = queues.tasks[k].expiration
        /\ tasks[k].callback = IF k = id THEN live ELSE queues.tasks[k].callback
  BY <1>3, <1>5
<1>8. r = [queues EXCEPT !.tasks = tasks]
  BY <1>1 DEF tasks, QueueRecord
<1>9. /\ r.tasks = tasks /\ r.taskQueue = queues.taskQueue /\ r.timerQueue = queues.timerQueue
      /\ r \in QueueRecord
  BY <1>8, <1>1, <1>6 DEF QueueRecord
<1> HIDE DEF r
<1>10. TasksTimed(r) /\ TimersTimed(r)
  BY <1>5, <1>7, <1>9 DEF QueuesOK, TasksTimed, TimersTimed
<1>11. \A k : /\ HasTask(r, k) <=> HasTask(queues, k)
              /\ HasTimer(r, k) <=> HasTimer(queues, k)
  BY <1>9 DEF HasTask, HasTimer
<1>12. Covered(r)
  <2> SUFFICES ASSUME NEW k \in DOMAIN r.tasks, r.tasks[k].callback
               PROVE  HasTask(r, k) \/ HasTimer(r, k)
    BY DEF Covered
  <2>1. CASE k = id
    BY <2>1, <1>7, <1>9, <1>11
  <2>2. CASE k # id
    BY <2>2, <1>5, <1>7, <1>9, <1>11 DEF QueuesOK, Covered
  <2> QED BY <2>1, <2>2
<1>13. ASSUME NEW time \in Nat, Ready(queues, time) PROVE Ready(r, time)
  <2> SUFFICES ASSUME NEW k \in DOMAIN r.tasks, r.tasks[k].callback, r.tasks[k].start <= time
               PROVE  HasTask(r, k)
    BY DEF Ready
  <2>1. CASE k = id
    BY <2>1, <1>7, <1>9, <1>11
  <2>2. CASE k # id
    BY <2>2, <1>5, <1>7, <1>9, <1>11, <1>13 DEF Ready
  <2> QED BY <2>1, <2>2
<1>14. QueuesOK(r)
  BY <1>9, <1>10, <1>12 DEF QueuesOK
<1> QED BY <1>5, <1>7, <1>9, <1>13, <1>14 DEF r

\* The head of the task queue leaves it only when its callback is gone.
LEMMA DroppedOK ==
  ASSUME NEW queues, QueuesOK(queues), queues.taskQueue # <<>>,
         ~ queues.tasks[Peek(queues.taskQueue).id].callback
  PROVE  LET r == [queues EXCEPT !.taskQueue = Pop(@)]
         IN  /\ QueuesOK(r) /\ r.tasks = queues.tasks /\ r.timerQueue = queues.timerQueue
             /\ \A time \in Nat : Ready(queues, time) => Ready(r, time)
<1> DEFINE r == [queues EXCEPT !.taskQueue = Pop(@)]
           first == Peek(queues.taskQueue)
           left == Pop(queues.taskQueue)
<1>1. /\ queues.timerQueue \in Seq(HeapNode) /\ queues.taskQueue \in Seq(HeapNode)
      /\ Ordered(queues.taskQueue)
      /\ queues.tasks \in Seq(Task) /\ queues \in QueueRecord
  BY DEF QueuesOK, QueueRecord
<1>2. first = queues.taskQueue[1]
  BY DEF Peek
<1>3. /\ left \in Seq(HeapNode) /\ Ordered(left)
      /\ Items(left) \subseteq Items(queues.taskQueue)
      /\ Items(queues.taskQueue) \subseteq Items(left) \cup {first}
  BY <1>1, <1>2, PopIs
<1>4. r = [queues EXCEPT !.taskQueue = left]
  OBVIOUS
<1> HIDE DEF left
<1>5. /\ r.tasks = queues.tasks /\ r.taskQueue = left /\ r.timerQueue = queues.timerQueue
      /\ r \in QueueRecord
  BY <1>1, <1>3, <1>4 DEF QueueRecord
<1> HIDE DEF r, first
<1>6. TasksTimed(r) /\ TimersTimed(r)
  BY <1>3, <1>5 DEF QueuesOK, TasksTimed, TimersTimed
<1>7. \A id : /\ HasTask(queues, id) /\ id # first.id => HasTask(r, id)
              /\ HasTimer(queues, id) => HasTimer(r, id)
  BY <1>3, <1>5 DEF HasTask, HasTimer
<1>8. \A id \in DOMAIN r.tasks : r.tasks[id].callback => id # first.id
  BY <1>5 DEF first
<1>9. Covered(r)
  BY <1>5, <1>7, <1>8 DEF QueuesOK, Covered
<1>10. ASSUME NEW time \in Nat, Ready(queues, time) PROVE Ready(r, time)
  BY <1>5, <1>7, <1>8, <1>10 DEF Ready
<1>11. QueuesOK(r)
  BY <1>3, <1>5, <1>6, <1>9 DEF QueuesOK
<1> QED BY <1>5, <1>10, <1>11 DEF r

-----------------------------------------------------------------------------
(***************************************************************************)
(* The invariant behind the order of callbacks.  Looked: while the loop     *)
(* runs, no task that was due when it last looked is still a timer.  Taken: *)
(* the task whose callback runs stays in the queue, without its callback,   *)
(* so a continuation finds it there and nothing else is popped for it.      *)
(***************************************************************************)
Times == now \in Nat /\ loopTime \in Nat /\ loopTime <= now

Looked == phase # "idle" => Ready(q, loopTime)

Taken ==
  phase = "callback" =>
    /\ currentTask \in DOMAIN q.tasks
    /\ ~ q.tasks[currentTask].callback
    /\ HasTask(q, currentTask)

QueueInv ==
  /\ phase \in {"idle", "loop", "callback"}
  /\ Times /\ QueuesOK(q) /\ Looked /\ Taken

\* The task object of a call is a task.
LEMMA NewTaskOK ==
  ASSUME NEW priority \in Priorities, NEW start \in Nat
  PROVE  /\ NewTask(priority, start) \in Task
         /\ NewTask(priority, start).start = start
         /\ NewTask(priority, start).callback = TRUE
<1>1. priority \in 1..5 /\ Timeout[priority] \in Int
  BY TaskSchedulerAssumption, TimeoutAssumption
<1> QED BY <1>1 DEF NewTask, Task

\* The invariant holds at first.
LEMMA InitQueueInv == Init => QueueInv
<1> SUFFICES ASSUME Init PROVE QueueInv
  OBVIOUS
<1>1. /\ q.tasks = <<>> /\ q.taskQueue = <<>> /\ q.timerQueue = <<>>
      /\ q \in QueueRecord
  BY DEF Init, NoQueues, QueueRecord
<1>2. Items(q.taskQueue) = {} /\ Items(q.timerQueue) = {} /\ DOMAIN q.tasks = {}
  BY <1>1 DEF Items
<1>3. Ordered(q.taskQueue) /\ Ordered(q.timerQueue)
  <2>1. Len(<<>>) = 0
    OBVIOUS
  <2> QED BY <1>1, <2>1 DEF Ordered
<1>4. QueuesOK(q)
  BY <1>1, <1>2, <1>3 DEF QueuesOK, TasksTimed, TimersTimed, Covered
<1> QED BY <1>4 DEF Init, QueueInv, Times, Looked, Taken

\* unstable_scheduleCallback, from the host or from a callback.
LEMMA ScheduleStep ==
  ASSUME QueueInv, NEW priority \in Priorities, NEW delay \in Delays,
         ScheduleCallback(priority, delay)
  PROVE  QueueInv'
<1> DEFINE task == NewTask(priority, now + delay)
<1>1. now \in Nat /\ loopTime \in Nat /\ loopTime <= now /\ QueuesOK(q) /\ delay \in Nat
  BY TaskSchedulerAssumption DEF QueueInv, Times
<1>0. now + delay \in Nat
  BY <1>1
<1>2. task \in Task
  BY <1>0, NewTaskOK
<1> HIDE DEF task
<1>3. /\ q' = Enqueued(q, task, now)
      /\ UNCHANGED <<now, phase, currentTask, loopTime>>
  BY DEF ScheduleCallback, clockVars, loopVars, task
<1>4. /\ QueuesOK(q') /\ q'.tasks = Append(q.tasks, task)
      /\ \A id : HasTask(q, id) => HasTask(q', id)
      /\ Ready(q, loopTime) => Ready(q', loopTime)
  BY <1>1, <1>2, <1>3, EnqueuedOK
<1>5. q.tasks \in Seq(Task)
  BY <1>1 DEF QueuesOK, QueueRecord
<1>6. \A id \in DOMAIN q.tasks : id \in DOMAIN q'.tasks /\ q'.tasks[id] = q.tasks[id]
  BY <1>2, <1>4, <1>5
<1>7. Looked'
  BY <1>3, <1>4 DEF QueueInv, Looked
<1>8. Taken'
  BY <1>3, <1>4, <1>6 DEF QueueInv, Taken
<1> QED BY <1>1, <1>3, <1>4, <1>7, <1>8 DEF QueueInv, Times

\* A task loses its callback, cancelled or taken.
LEMMA UnmarkedStep ==
  ASSUME QueuesOK(q), loopTime \in Nat, NEW id \in DOMAIN q.tasks,
         q' = [q EXCEPT !.tasks[id].callback = FALSE]
  PROVE  /\ QueuesOK(q') /\ DOMAIN q'.tasks = DOMAIN q.tasks
         /\ \A k \in DOMAIN q'.tasks : q'.tasks[k].callback =
                                         IF k = id THEN FALSE ELSE q.tasks[k].callback
         /\ q'.taskQueue = q.taskQueue
         /\ Ready(q, loopTime) => Ready(q', loopTime)
<1> DEFINE live == FALSE
           r == [q EXCEPT !.tasks[id].callback = live]
<1>1. live \in BOOLEAN /\ (live => HasTask(q, id)) /\ live = FALSE
  OBVIOUS
<1>2. q' = r
  OBVIOUS
<1> HIDE DEF live
<1>3. /\ QueuesOK(r) /\ DOMAIN r.tasks = DOMAIN q.tasks
      /\ \A k \in DOMAIN r.tasks : r.tasks[k].callback =
                                     IF k = id THEN live ELSE q.tasks[k].callback
      /\ r.taskQueue = q.taskQueue
      /\ \A time \in Nat : Ready(q, time) => Ready(r, time)
  BY <1>1, MarkedOK
<1> HIDE DEF r
<1> QED BY <1>1, <1>2, <1>3

\* unstable_cancelCallback.
LEMMA CancelStep ==
  ASSUME QueueInv, NEW id \in DOMAIN q.tasks, CancelCallback(id)
  PROVE  QueueInv'
<1>1. QueuesOK(q) /\ loopTime \in Nat
  BY DEF QueueInv, Times
<1>2. /\ q' = [q EXCEPT !.tasks[id].callback = FALSE]
      /\ UNCHANGED <<now, phase, currentTask, loopTime>>
  BY DEF CancelCallback, Cancelled, clockVars, loopVars
<1>3. /\ QueuesOK(q') /\ DOMAIN q'.tasks = DOMAIN q.tasks
      /\ \A k \in DOMAIN q'.tasks : q'.tasks[k].callback =
                                      IF k = id THEN FALSE ELSE q.tasks[k].callback
      /\ q'.taskQueue = q.taskQueue
      /\ Ready(q, loopTime) => Ready(q', loopTime)
  BY <1>1, <1>2, UnmarkedStep
<1>4. Looked'
  BY <1>2, <1>3 DEF QueueInv, Looked
<1>5. Taken'
  BY <1>2, <1>3 DEF QueueInv, Taken, HasTask
<1> QED BY <1>2, <1>3, <1>4, <1>5 DEF QueueInv, Times

\* Calls and returns that do not touch the queues.
LEMMA QuietStep ==
  ASSUME QueueInv, UNCHANGED <<q, currentTask, loopTime>>, now' \in Nat, now <= now',
         phase' \in {"idle", phase}
  PROVE  QueueInv'
<1>1. Times'
  BY DEF QueueInv, Times
<1>2. Looked' /\ Taken'
  BY DEF QueueInv, Looked, Taken
<1>3. phase' \in {"idle", "loop", "callback"}
  BY DEF QueueInv
<1> QED BY <1>1, <1>2, <1>3 DEF QueueInv

\* performWorkUntilDeadline looks at the timers before its loop.
LEMMA PerformStep ==
  ASSUME QueueInv, PerformWorkUntilDeadline
  PROVE  QueueInv'
<1>1. QueuesOK(q) /\ now \in Nat /\ loopTime \in Nat /\ loopTime <= now
  BY DEF QueueInv, Times
<1>2. CASE isMessageLoopRunning
  <2>1. /\ q' = AdvanceTimers(q, now) /\ loopTime' = now /\ phase' = "loop"
        /\ UNCHANGED now
    BY <1>2 DEF PerformWorkUntilDeadline
  <2>2. QueuesOK(q') /\ Ready(q', now)
    BY <2>1, <1>1, AdvanceTimersOK
  <2> QED BY <2>1, <2>2, <1>1 DEF QueueInv, Times, Looked, Taken
<1>3. CASE ~ isMessageLoopRunning
  <2>1. UNCHANGED <<q, currentTask, loopTime, phase, now>>
    BY <1>3 DEF PerformWorkUntilDeadline
  <2> QED BY <2>1, <1>1, QuietStep
<1> QED BY <1>2, <1>3

\* The loop drops a task whose callback is gone.
LEMMA DropStep ==
  ASSUME QueueInv, DropCancelled
  PROVE  QueueInv'
<1>1. QueuesOK(q) /\ loopTime \in Nat
  BY DEF QueueInv, Times
<1>2. /\ q' = [q EXCEPT !.taskQueue = Pop(@)] /\ q.taskQueue # <<>>
      /\ ~ q.tasks[Peek(q.taskQueue).id].callback
      /\ phase = "loop" /\ UNCHANGED <<now, phase, currentTask, loopTime>>
  BY DEF DropCancelled, clockVars, loopVars, Head1
<1>3. QueuesOK(q') /\ (Ready(q, loopTime) => Ready(q', loopTime))
  BY <1>1, <1>2, DroppedOK
<1> QED BY <1>2, <1>3 DEF QueueInv, Times, Looked, Taken

\* The head of the task queue is the entry of a task.
LEMMA HeadIs ==
  ASSUME QueuesOK(q), q.taskQueue # <<>>
  PROVE  /\ Head1 \in DOMAIN q.tasks /\ HasTask(q, Head1)
         /\ Peek(q.taskQueue) \in HeapNode
         /\ Peek(q.taskQueue).sort = q.tasks[Head1].expiration
         /\ \A e \in Items(q.taskQueue) : e \in HeapNode /\ Before(Peek(q.taskQueue), e)
<1>1. q.taskQueue \in Seq(HeapNode) /\ Ordered(q.taskQueue)
  BY DEF QueuesOK, QueueRecord
<1>2. /\ Peek(q.taskQueue) \in Items(q.taskQueue) /\ Peek(q.taskQueue) \in HeapNode
      /\ \A e \in Items(q.taskQueue) : e \in HeapNode /\ Before(Peek(q.taskQueue), e)
  BY <1>1, PeekIs
<1> QED BY <1>2 DEF Head1, QueuesOK, TasksTimed, HasTask

\* The loop takes the callback of the head and leaves the task in the queue.
LEMMA CallStep ==
  ASSUME QueueInv, CallCallback
  PROVE  QueueInv'
<1>1. QueuesOK(q) /\ loopTime \in Nat
  BY DEF QueueInv, Times
<1>2. /\ q' = [q EXCEPT !.tasks[Head1].callback = FALSE] /\ q.taskQueue # <<>>
      /\ phase = "loop" /\ phase' = "callback" /\ currentTask' = Head1
      /\ UNCHANGED <<now, loopTime>>
  BY DEF CallCallback, Cancelled, clockVars
<1>3. Head1 \in DOMAIN q.tasks /\ HasTask(q, Head1)
  BY <1>1, <1>2, HeadIs
<1> HIDE DEF Head1
<1>4. /\ QueuesOK(q') /\ DOMAIN q'.tasks = DOMAIN q.tasks
      /\ \A k \in DOMAIN q'.tasks : q'.tasks[k].callback =
                                      IF k = Head1 THEN FALSE ELSE q.tasks[k].callback
      /\ q'.taskQueue = q.taskQueue
      /\ Ready(q, loopTime) => Ready(q', loopTime)
  BY <1>1, <1>2, <1>3, UnmarkedStep
<1>5. Taken'
  BY <1>2, <1>3, <1>4 DEF Taken, HasTask
<1>6. Looked'
  BY <1>2, <1>4 DEF QueueInv, Looked
<1> QED BY <1>2, <1>4, <1>5, <1>6 DEF QueueInv, Times

\* A finished task leaves the queue if it is its head, and the timers are looked at.
LEMMA DoneStep ==
  ASSUME QueueInv, CallbackDone
  PROVE  QueueInv'
<1> DEFINE kept == PopFinished(q, currentTask)
<1>1. QueuesOK(q) /\ now \in Nat
  BY DEF QueueInv, Times
<1>2. /\ phase = "callback" /\ phase' = "loop" /\ loopTime' = now
      /\ q' = AdvanceTimers(kept, now) /\ UNCHANGED now
  BY DEF CallbackDone, clockVars
<1>3. ~ q.tasks[currentTask].callback
  BY <1>2 DEF QueueInv, Taken
<1>4. QueuesOK(kept)
  <2>1. CASE q.taskQueue # <<>> /\ Peek(q.taskQueue).id = currentTask
    <3>1. kept = [q EXCEPT !.taskQueue = Pop(@)]
      BY <2>1 DEF PopFinished
    <3> HIDE DEF kept
    <3> QED BY <3>1, <2>1, <1>1, <1>3, DroppedOK
  <2>2. CASE ~ (q.taskQueue # <<>> /\ Peek(q.taskQueue).id = currentTask)
    BY <2>2, <1>1 DEF PopFinished
  <2> QED BY <2>1, <2>2
<1> HIDE DEF kept
<1>5. QueuesOK(q') /\ Ready(q', now)
  BY <1>1, <1>2, <1>4, AdvanceTimersOK
<1> QED BY <1>1, <1>2, <1>5 DEF QueueInv, Times, Looked, Taken

\* A continuation is given to a task that is still queued.
LEMMA ContinueStep ==
  ASSUME QueueInv, CallbackContinues
  PROVE  QueueInv'
<1> DEFINE resumed == [q EXCEPT !.tasks[currentTask].callback = TRUE]
<1>1. QueuesOK(q) /\ now \in Nat
  BY DEF QueueInv, Times
<1>2. /\ phase = "callback" /\ phase' = "idle" /\ loopTime' = now
      /\ q' = AdvanceTimers(resumed, now) /\ UNCHANGED now
  BY DEF CallbackContinues, clockVars, Leave
<1>3. currentTask \in DOMAIN q.tasks /\ HasTask(q, currentTask)
  BY <1>2 DEF QueueInv, Taken
<1>4. QueuesOK(resumed)
  BY <1>1, <1>3, MarkedOK
<1> HIDE DEF resumed
<1>5. QueuesOK(q')
  BY <1>1, <1>2, <1>4, AdvanceTimersOK
<1> QED BY <1>1, <1>2, <1>5 DEF QueueInv, Times, Looked, Taken

\* handleTimeout moves the due timers.
LEMMA TimeoutStep ==
  ASSUME QueueInv, NEW timer \in timeouts, HandleTimeout(timer)
  PROVE  QueueInv'
<1>1. QueuesOK(q) /\ now \in Nat
  BY DEF QueueInv, Times
<1>2. /\ phase = "idle" /\ q' = AdvanceTimers(q, now)
      /\ UNCHANGED <<now, phase, currentTask, loopTime>>
  BY DEF HandleTimeout, clockVars, loopVars
<1>3. QueuesOK(q')
  BY <1>1, <1>2, AdvanceTimersOK
<1> QED BY <1>2, <1>3 DEF QueueInv, Times, Looked, Taken

\* Every step keeps the invariant.
LEMMA NextQueueInv == QueueInv /\ [Next]_vars => QueueInv'
<1> SUFFICES ASSUME QueueInv, [Next]_vars PROVE QueueInv'
  OBVIOUS
<1>1. now \in Nat /\ MaxTime \in Nat
  BY TaskSchedulerAssumption DEF QueueInv, Times
<1>2. CASE CallScheduler
  <2>1. CASE \E priority \in Priorities, delay \in Delays : ScheduleCallback(priority, delay)
    BY <2>1, ScheduleStep
  <2>2. CASE \E id \in DOMAIN q.tasks : CancelCallback(id)
    BY <2>2, CancelStep
  <2>3. CASE RequestPaint
    <3>1. UNCHANGED <<q, currentTask, loopTime, phase, now>>
      BY <2>3 DEF RequestPaint, loopVars
    <3> QED BY <3>1, <1>1, QuietStep
  <2>4. CASE \E level \in Priorities \cup {NextPriority} : EnterPriority(level)
    <3>1. UNCHANGED <<q, currentTask, loopTime, phase, now>>
      BY <2>4 DEF EnterPriority, loopVars, clockVars
    <3> QED BY <3>1, <1>1, QuietStep
  <2> QED BY <1>2, <2>1, <2>2, <2>3, <2>4 DEF CallScheduler
<1>3. CASE ExitPriority
  <2>1. UNCHANGED <<q, currentTask, loopTime, phase, now>>
    BY <1>3 DEF ExitPriority, loopVars, clockVars
  <2> QED BY <2>1, <1>1, QuietStep
<1>4. CASE PerformWorkUntilDeadline
  BY <1>4, PerformStep
<1>5. CASE WorkLoop
  <2>1. CASE Drained
    <3>1. UNCHANGED <<q, loopTime, now>> /\ currentTask' = 0 /\ phase' = "idle"
      BY <2>1 DEF Drained, Leave, clockVars
    <3> QED BY <3>1, <1>1 DEF QueueInv, Times, Looked, Taken
  <2>2. CASE Yield
    <3>1. UNCHANGED <<q, loopTime, now>> /\ currentTask' = 0 /\ phase' = "idle"
      BY <2>2 DEF Yield, Leave, clockVars
    <3> QED BY <3>1, <1>1 DEF QueueInv, Times, Looked, Taken
  <2>3. CASE DropCancelled
    BY <2>3, DropStep
  <2>4. CASE CallCallback
    BY <2>4, CallStep
  <2> QED BY <1>5, <2>1, <2>2, <2>3, <2>4 DEF WorkLoop
<1>6. CASE Return
  <2>1. CASE CallbackDone
    BY <2>1, DoneStep
  <2>2. CASE CallbackContinues
    BY <2>2, ContinueStep
  <2>3. CASE CallbackThrows
    <3>1. UNCHANGED <<q, loopTime, now>> /\ currentTask' = 0 /\ phase' = "idle"
      BY <2>3 DEF CallbackThrows, Leave, clockVars
    <3> QED BY <3>1, <1>1 DEF QueueInv, Times, Looked, Taken
  <2> QED BY <1>6, <2>1, <2>2, <2>3 DEF Return
<1>7. CASE Timers
  BY <1>7, TimeoutStep DEF Timers
<1>8. CASE Tick
  <2>1. UNCHANGED <<q, currentTask, loopTime, phase>> /\ now' = now + 1
    BY <1>8 DEF Tick, loopVars
  <2> QED BY <2>1, <1>1, QuietStep
<1>9. CASE UNCHANGED vars
  <2>1. UNCHANGED <<q, currentTask, loopTime, phase, now>>
    BY <1>9 DEF vars
  <2> QED BY <2>1, <1>1, QuietStep
<1> QED BY <1>2, <1>3, <1>4, <1>5, <1>6, <1>7, <1>8, <1>9 DEF Next

-----------------------------------------------------------------------------
\* The loop is left by draining the queue, by yielding or for a callback.
LEMMA FromLoop ==
  ASSUME phase = "loop", [Next]_vars, phase' # "loop"
  PROVE  Drained \/ Yield \/ CallCallback
<1>1. ~ CallScheduler
  BY DEF CallScheduler, ScheduleCallback, CancelCallback, RequestPaint, EnterPriority,
         CanCallScheduler
<1>2. ~ ExitPriority /\ ~ PerformWorkUntilDeadline /\ ~ Timers
  BY DEF ExitPriority, CanCallScheduler, PerformWorkUntilDeadline, Timers, HandleTimeout
<1>3. ~ Return
  BY DEF Return, CallbackDone, CallbackContinues, CallbackThrows
<1>4. ~ Tick /\ ~ UNCHANGED vars
  BY DEF Tick, loopVars, vars
<1>5. ~ DropCancelled
  BY DEF DropCancelled, loopVars
<1> QED BY <1>1, <1>2, <1>3, <1>4, <1>5 DEF Next, WorkLoop

\* The callback the loop calls is the most urgent of the live tasks that have started.
LEMMA CallIsUrgent ==
  ASSUME QueueInv, CallCallback,
         NEW id \in DOMAIN q.tasks, q.tasks[id].callback, q.tasks[id].start <= loopTime,
         id # currentTask'
  PROVE  Compare(Entry(q.tasks[currentTask'].expiration, currentTask'),
                 Entry(q.tasks[id].expiration, id))
<1>1. /\ currentTask' = Head1 /\ q.taskQueue # <<>> /\ phase = "loop"
  BY DEF CallCallback
<1>2. QueuesOK(q) /\ Ready(q, loopTime)
  BY <1>1 DEF QueueInv, Looked
<1>3. /\ Peek(q.taskQueue) \in HeapNode
      /\ Peek(q.taskQueue).sort = q.tasks[Head1].expiration
      /\ \A e \in Items(q.taskQueue) : e \in HeapNode /\ Before(Peek(q.taskQueue), e)
  BY <1>1, <1>2, HeadIs
<1>4. PICK e \in Items(q.taskQueue) : e.id = id
  BY <1>2 DEF Ready, HasTask
<1>5. e.sort = q.tasks[id].expiration
  BY <1>2, <1>4 DEF QueuesOK, TasksTimed
<1>6. Before(Peek(q.taskQueue), e) /\ e \in HeapNode
  BY <1>3, <1>4
<1>7. /\ Peek(q.taskQueue).sort \in Int /\ Peek(q.taskQueue).id \in Nat
      /\ e.sort \in Int /\ e.id \in Nat
  BY <1>3, <1>6 DEF HeapNode
<1>8. Peek(q.taskQueue).id = currentTask'
  BY <1>1 DEF Head1
<1>9. Peek(q.taskQueue).sort = q.tasks[currentTask'].expiration
  BY <1>1, <1>3
<1>10. \/ q.tasks[currentTask'].expiration < q.tasks[id].expiration
       \/ q.tasks[currentTask'].expiration = q.tasks[id].expiration /\ currentTask' <= id
  BY <1>4, <1>5, <1>6, <1>8, <1>9 DEF Before
<1>11. /\ q.tasks[currentTask'].expiration \in Int /\ q.tasks[id].expiration \in Int
       /\ currentTask' \in Nat /\ id \in Nat
  BY <1>4, <1>5, <1>7, <1>8, <1>9
<1> QED BY <1>10, <1>11 DEF Compare, Entry

\* A yield leaves no expired task behind.
LEMMA YieldIsFair ==
  ASSUME QueueInv, Yield, NEW i \in DOMAIN q.taskQueue
  PROVE  q.tasks[q.taskQueue[i].id].expiration > loopTime
<1> DEFINE e == q.taskQueue[i]
<1>1. QueuesOK(q) /\ loopTime \in Nat /\ q.taskQueue # <<>>
      /\ q.tasks[Head1].expiration > loopTime
  BY DEF QueueInv, Times, Yield, Yields
<1>2. /\ Peek(q.taskQueue) \in HeapNode
      /\ Peek(q.taskQueue).sort = q.tasks[Head1].expiration
      /\ \A x \in Items(q.taskQueue) : x \in HeapNode /\ Before(Peek(q.taskQueue), x)
  BY <1>1, HeadIs
<1>3. e \in Items(q.taskQueue)
  BY DEF Items
<1>4. e \in HeapNode /\ Before(Peek(q.taskQueue), e) /\ e.sort = q.tasks[e.id].expiration
  BY <1>1, <1>2, <1>3 DEF QueuesOK, TasksTimed
<1>5. e.sort \in Int /\ Peek(q.taskQueue).sort \in Int
  BY <1>2, <1>4 DEF HeapNode
<1>6. Peek(q.taskQueue).sort <= e.sort
  BY <1>4, <1>5 DEF Before
<1> HIDE DEF e
<1>7. e.sort > loopTime
  BY <1>1, <1>2, <1>5, <1>6
<1> QED BY <1>4, <1>7 DEF e

(***************************************************************************)
(* Urgency.  For every number of tasks, priorities, delays and timeouts     *)
(* the work loop calls the most urgent live task that has started, timers   *)
(* included that fell due while the loop ran, and it leaves early only when *)
(* nothing in the queue has expired: the two heaps and the moves between    *)
(* them keep every live task where the loop finds it (workLoop,             *)
(* advanceTimers, push, pop).                                               *)
(***************************************************************************)
THEOREM UrgentFirst == Spec => UrgentWorkIsNotDelayed
<1>1. QueueInv /\ [Next]_vars =>
        [phase = "loop" /\ phase' = "callback" =>
           \A id \in DOMAIN q.tasks :
             q.tasks[id].callback /\ q.tasks[id].start <= loopTime /\ id # currentTask' =>
               Compare(Entry(q.tasks[currentTask'].expiration, currentTask'),
                       Entry(q.tasks[id].expiration, id))]_vars
  <2> SUFFICES ASSUME QueueInv, [Next]_vars, phase = "loop", phase' = "callback",
                      NEW id \in DOMAIN q.tasks, q.tasks[id].callback,
                      q.tasks[id].start <= loopTime, id # currentTask'
               PROVE  Compare(Entry(q.tasks[currentTask'].expiration, currentTask'),
                              Entry(q.tasks[id].expiration, id))
    OBVIOUS
  <2>1. Drained \/ Yield \/ CallCallback
    BY FromLoop
  <2>2. ~ Drained /\ ~ Yield
    BY DEF Drained, Yield, Leave
  <2>3. CallCallback
    BY <2>1, <2>2
  <2> QED BY <2>3, CallIsUrgent
<1>2. QueueInv /\ [Next]_vars =>
        [phase = "loop" /\ phase' = "idle" /\ q.taskQueue # <<>> =>
           \A i \in DOMAIN q.taskQueue :
             q.tasks[q.taskQueue[i].id].expiration > loopTime]_vars
  <2> SUFFICES ASSUME QueueInv, [Next]_vars, phase = "loop", phase' = "idle",
                      q.taskQueue # <<>>, NEW i \in DOMAIN q.taskQueue
               PROVE  q.tasks[q.taskQueue[i].id].expiration > loopTime
    OBVIOUS
  <2>1. Drained \/ Yield \/ CallCallback
    BY FromLoop
  <2>2. ~ Drained /\ ~ CallCallback
    BY DEF Drained, CallCallback
  <2>3. Yield
    BY <2>1, <2>2
  <2> QED BY <2>3, YieldIsFair
<1> QED BY <1>1, <1>2, InitQueueInv, NextQueueInv, PTL
        DEF Spec, UrgentWorkIsNotDelayed, MostUrgentFirst, ExpiredTasksDoNotYield

-----------------------------------------------------------------------------
(***************************************************************************)
(* The message loop.  LoopIsArmed is not inductive: scheduling relies on    *)
(* isHostCallbackScheduled, which says that the loop runs and is FALSE      *)
(* while it works.                                                          *)
(***************************************************************************)
Flags ==
  /\ isHostCallbackScheduled \in BOOLEAN /\ isMessageLoopRunning \in BOOLEAN
  /\ isHostCallbackScheduled => isMessageLoopRunning /\ phase = "idle"
  /\ phase # "idle" => isMessageLoopRunning

LoopInv == Flags /\ LoopIsArmed

\* A timeout is armed by requestHostTimeout.
LEMMA ArmsATimeout ==
  ASSUME NEW armed, NEW ms, RequestHostTimeout(armed, ms)
  PROVE  timeouts' # {}
BY DEF RequestHostTimeout

\* Steps that leave the queues and the host alone.
LEMMA QuietLoop ==
  ASSUME LoopInv, UNCHANGED <<isHostCallbackScheduled, isMessageLoopRunning, messages, timeouts,
                              phase, q>>
  PROVE  LoopInv'
BY DEF LoopInv, Flags, LoopIsArmed, OneMessagePerLoop, TimersAreArmed, isPerformingWork

\* requestHostCallback starts the loop with one message unless it is under way.
LEMMA RequestIs ==
  ASSUME LoopInv, phase \in {"idle", "callback"}, RequestHostCallback, UNCHANGED phase
  PROVE  /\ Flags' /\ isMessageLoopRunning'
         /\ messages' = IF isMessageLoopRunning' /\ ~ isPerformingWork' THEN 1 ELSE 0
<1>1. CASE isHostCallbackScheduled \/ isPerformingWork
  <2>1. UNCHANGED <<isHostCallbackScheduled, isMessageLoopRunning, messages>>
    BY <1>1 DEF RequestHostCallback
  <2>2. isMessageLoopRunning
    BY <1>1 DEF LoopInv, Flags, isPerformingWork
  <2> QED BY <2>1, <2>2
          DEF LoopInv, Flags, LoopIsArmed, OneMessagePerLoop, isPerformingWork
<1>2. CASE ~ (isHostCallbackScheduled \/ isPerformingWork)
  <2>1. /\ isHostCallbackScheduled' = TRUE /\ isMessageLoopRunning' = TRUE
        /\ messages' = IF isMessageLoopRunning THEN messages ELSE messages + 1
        /\ phase = "idle"
    BY <1>2 DEF RequestHostCallback, isPerformingWork
  <2> QED BY <2>1
          DEF LoopInv, Flags, LoopIsArmed, OneMessagePerLoop, isPerformingWork
<1> QED BY <1>1, <1>2

\* Leaving with more work posts the next message; leaving without it stops the loop.
LEMMA LeaveIs ==
  ASSUME LoopInv, phase \in {"loop", "callback"}, UNCHANGED isHostCallbackScheduled
  PROVE  /\ Leave(TRUE) => /\ Flags' /\ isMessageLoopRunning' /\ ~ isPerformingWork'
                           /\ messages' = 1
         /\ Leave(FALSE) => /\ Flags' /\ ~ isMessageLoopRunning' /\ messages' = 0
<1>1. /\ isMessageLoopRunning = TRUE /\ isHostCallbackScheduled = FALSE /\ messages = 0
  BY DEF LoopInv, Flags, LoopIsArmed, OneMessagePerLoop, isPerformingWork
<1>2. Leave(TRUE) => /\ phase' = "idle" /\ isMessageLoopRunning' = TRUE /\ messages' = 1
  BY <1>1 DEF Leave
<1>3. Leave(FALSE) => /\ phase' = "idle" /\ isMessageLoopRunning' = FALSE /\ messages' = 0
  BY <1>1 DEF Leave
<1> QED BY <1>1, <1>2, <1>3 DEF Flags, isPerformingWork

\* unstable_scheduleCallback: a delayed task that no timeout is armed for is the first timer.
LEMMA ScheduleLoop ==
  ASSUME QueueInv, LoopInv, NEW priority \in Priorities, NEW delay \in Delays,
         ScheduleCallback(priority, delay)
  PROVE  LoopInv'
<1> DEFINE task == NewTask(priority, now + delay)
<1>1. now \in Nat /\ QueuesOK(q) /\ delay \in Nat
  BY TaskSchedulerAssumption DEF QueueInv, Times
<1>2. now + delay \in Nat
  BY <1>1
<1>3. task \in Task /\ task.start = now + delay
  BY <1>2, NewTaskOK
<1> HIDE DEF task
<1>4. q' = Enqueued(q, task, now) /\ UNCHANGED phase /\ phase \in {"idle", "callback"}
  BY DEF ScheduleCallback, loopVars, CanCallScheduler, task
<1>5. /\ QueuesOK(q') /\ q'.tasks = Append(q.tasks, task)
      /\ task.start > now => /\ q'.taskQueue = q.taskQueue
                             /\ Items(q'.timerQueue) =
                                  Items(q.timerQueue)
                                    \cup {Entry(task.start, Len(q.tasks) + 1)}
      /\ ~ (task.start > now) => q'.timerQueue = q.timerQueue
  BY <1>1, <1>3, <1>4, EnqueuedOK
<1>6. CASE delay > 0
  <2>1. UNCHANGED <<isHostCallbackScheduled, isMessageLoopRunning, messages>>
        /\ ArmFirstTimer(q', delay)
    BY <1>6 DEF ScheduleCallback
  <2>2. task.start > now
    BY <1>1, <1>3, <1>6
  <2>3. /\ q'.taskQueue = q.taskQueue
        /\ Items(q'.timerQueue) = Items(q.timerQueue)
                                    \cup {Entry(task.start, Len(q.tasks) + 1)}
    BY <2>2, <1>5
  <2>4. Flags' /\ OneMessagePerLoop'
    BY <2>1, <2>3, <1>4
       DEF LoopInv, Flags, LoopIsArmed, OneMessagePerLoop, isPerformingWork
  <2>5. isMessageLoopRunning' \/ timeouts' # {}
    <3>1. CASE q'.taskQueue = <<>> /\ Peek(q'.timerQueue).id = Len(q'.tasks)
      BY <3>1, <2>1, ArmsATimeout DEF ArmFirstTimer
    <3>2. CASE q'.taskQueue # <<>>
      BY <3>2, <2>4 DEF OneMessagePerLoop
    <3>3. CASE Peek(q'.timerQueue).id # Len(q'.tasks) /\ q'.taskQueue = <<>>
      <4>1. Len(q'.tasks) = Len(q.tasks) + 1
        BY <1>1, <1>3, <1>5 DEF QueuesOK, QueueRecord
      <4>2. /\ q'.timerQueue \in Seq(HeapNode) /\ Ordered(q'.timerQueue)
            /\ q.timerQueue \in Seq(HeapNode)
        BY <1>1, <1>5 DEF QueuesOK, QueueRecord
      <4>3. Items(q'.timerQueue) # {}
        BY <2>3
      <4>4. q'.timerQueue # <<>>
        BY <4>2, <4>3, NoItems
      <4>5. Peek(q'.timerQueue) \in Items(q'.timerQueue)
        BY <4>2, <4>4, PeekIs
      <4>6. Peek(q'.timerQueue) # Entry(task.start, Len(q.tasks) + 1)
        BY <3>3, <4>1 DEF Entry
      <4>7. Items(q.timerQueue) # {}
        BY <2>3, <4>5, <4>6
      <4>8. q.timerQueue # <<>>
        BY <4>2, <4>7, NoItems
      <4>9. isMessageLoopRunning \/ timeouts # {}
        BY <4>8 DEF LoopInv, LoopIsArmed, TimersAreArmed
      <4>10. UNCHANGED timeouts
        BY <3>3, <2>1 DEF ArmFirstTimer, KeepTimeouts
      <4> QED BY <4>9, <4>10, <2>1
    <3> QED BY <3>1, <3>2, <3>3
  <2> QED BY <2>4, <2>5 DEF LoopInv, LoopIsArmed, TimersAreArmed
<1>7. CASE ~ (delay > 0)
  <2>1. RequestHostCallback
    BY <1>7 DEF ScheduleCallback
  <2>2. /\ Flags' /\ isMessageLoopRunning'
        /\ messages' = IF isMessageLoopRunning' /\ ~ isPerformingWork' THEN 1 ELSE 0
    BY <2>1, <1>4, RequestIs
  <2> QED BY <2>2 DEF LoopInv, LoopIsArmed, OneMessagePerLoop, TimersAreArmed
<1> QED BY <1>6, <1>7

\* handleTimeout rearms, starts the loop or finds it running.
LEMMA TimeoutLoop ==
  ASSUME LoopInv, NEW timer \in timeouts, HandleTimeout(timer)
  PROVE  LoopInv'
<1>1. phase = "idle" /\ UNCHANGED phase
  BY DEF HandleTimeout, loopVars
<1>2. CASE isHostCallbackScheduled
  <2>1. UNCHANGED <<isHostCallbackScheduled, isMessageLoopRunning, messages>>
    BY <1>2 DEF HandleTimeout
  <2>2. isMessageLoopRunning
    BY <1>2 DEF LoopInv, Flags
  <2> QED BY <1>1, <2>1, <2>2
          DEF LoopInv, Flags, LoopIsArmed, OneMessagePerLoop, TimersAreArmed, isPerformingWork
<1>3. CASE ~ isHostCallbackScheduled /\ q'.taskQueue # <<>>
  <2>1. RequestHostCallback
    BY <1>3 DEF HandleTimeout
  <2>2. /\ Flags' /\ isMessageLoopRunning'
        /\ messages' = IF isMessageLoopRunning' /\ ~ isPerformingWork' THEN 1 ELSE 0
    BY <2>1, <1>1, RequestIs
  <2> QED BY <2>2 DEF LoopInv, LoopIsArmed, OneMessagePerLoop, TimersAreArmed
<1>4. CASE ~ isHostCallbackScheduled /\ q'.taskQueue = <<>>
  <2>1. UNCHANGED <<isHostCallbackScheduled, isMessageLoopRunning, messages>>
    BY <1>4 DEF HandleTimeout
  <2>2. Flags' /\ OneMessagePerLoop'
    BY <2>1, <1>1, <1>4
       DEF LoopInv, Flags, LoopIsArmed, OneMessagePerLoop, isPerformingWork
  <2>3. TimersAreArmed'
    <3> SUFFICES ASSUME q'.timerQueue # <<>> PROVE timeouts' # {}
      BY DEF TimersAreArmed
    <3>1. RequestHostTimeout(timeouts \ {timer},
                             q'.tasks[Peek(q'.timerQueue).id].start - now)
      BY <1>4 DEF HandleTimeout
    <3> QED BY <3>1, ArmsATimeout
  <2> QED BY <2>2, <2>3 DEF LoopInv, LoopIsArmed
<1> QED BY <1>2, <1>3, <1>4

\* The work loop and the return of a callback.
LEMMA WorkLoopArmed ==
  ASSUME LoopInv, WorkLoop \/ Return
  PROVE  LoopInv'
<1>1. CASE Drained
  <2>1. /\ phase = "loop" /\ q.taskQueue = <<>> /\ Leave(FALSE)
        /\ UNCHANGED <<q, isHostCallbackScheduled>>
    BY <1>1 DEF Drained
  <2>2. Flags' /\ ~ isMessageLoopRunning' /\ messages' = 0
    BY <2>1, LeaveIs
  <2>3. q.timerQueue # <<>> => timeouts' # {}
    BY <1>1, ArmsATimeout DEF Drained
  <2> QED BY <2>1, <2>2, <2>3
          DEF LoopInv, LoopIsArmed, OneMessagePerLoop, TimersAreArmed
<1>2. CASE Yield \/ CallbackContinues \/ CallbackThrows
  <2>1. phase \in {"loop", "callback"} /\ Leave(TRUE) /\ UNCHANGED isHostCallbackScheduled
    BY <1>2 DEF Yield, CallbackContinues, CallbackThrows
  <2>2. Flags' /\ isMessageLoopRunning' /\ ~ isPerformingWork' /\ messages' = 1
    BY <2>1, LeaveIs
  <2> QED BY <2>2 DEF LoopInv, LoopIsArmed, OneMessagePerLoop, TimersAreArmed
<1>3. CASE DropCancelled \/ CallCallback \/ CallbackDone
  <2>1. /\ phase # "idle" /\ phase' # "idle"
        /\ UNCHANGED <<isHostCallbackScheduled, isMessageLoopRunning, messages>>
    BY <1>3 DEF DropCancelled, CallCallback, CallbackDone, hostVars, loopVars
  <2>2. isMessageLoopRunning = TRUE /\ isHostCallbackScheduled = FALSE /\ messages = 0
    BY <2>1 DEF LoopInv, Flags, LoopIsArmed, OneMessagePerLoop, isPerformingWork
  <2> QED BY <2>1, <2>2
          DEF LoopInv, Flags, LoopIsArmed, OneMessagePerLoop, TimersAreArmed, isPerformingWork
<1> QED BY <1>1, <1>2, <1>3 DEF WorkLoop, Return

\* The host runs the one message of the running loop.
LEMMA PerformLoop ==
  ASSUME LoopInv, PerformWorkUntilDeadline
  PROVE  LoopInv'
<1>1. phase = "idle" /\ messages > 0 /\ messages' = messages - 1
      /\ UNCHANGED isMessageLoopRunning
  BY DEF PerformWorkUntilDeadline
<1>2. isMessageLoopRunning = TRUE /\ messages = 1
  BY <1>1 DEF LoopInv, Flags, LoopIsArmed, OneMessagePerLoop
<1>3. phase' = "loop" /\ isHostCallbackScheduled' = FALSE
  BY <1>2 DEF PerformWorkUntilDeadline
<1>4. messages' = 0 /\ isMessageLoopRunning' = TRUE /\ isPerformingWork'
  BY <1>1, <1>2, <1>3 DEF isPerformingWork
<1>5. Flags'
  BY <1>3, <1>4 DEF Flags
<1>6. OneMessagePerLoop' /\ TimersAreArmed'
  BY <1>4 DEF OneMessagePerLoop, TimersAreArmed
<1> QED BY <1>5, <1>6 DEF LoopInv, LoopIsArmed

\* Every step keeps the loop armed.
LEMMA NextLoopInv == QueueInv /\ LoopInv /\ [Next]_vars => LoopInv'
<1> SUFFICES ASSUME QueueInv, LoopInv, [Next]_vars PROVE LoopInv'
  OBVIOUS
<1>1. CASE CallScheduler
  <2>1. CASE \E priority \in Priorities, delay \in Delays : ScheduleCallback(priority, delay)
    BY <2>1, ScheduleLoop
  <2>2. CASE \E id \in DOMAIN q.tasks : CancelCallback(id)
    <3>1. PICK id \in DOMAIN q.tasks : CancelCallback(id)
      BY <2>2
    <3>2. q'.taskQueue = q.taskQueue /\ q'.timerQueue = q.timerQueue
      <4>1. q \in QueueRecord
        BY DEF QueueInv, QueuesOK
      <4> QED BY <3>1, <4>1 DEF CancelCallback, Cancelled, QueueRecord
    <3>3. UNCHANGED <<isHostCallbackScheduled, isMessageLoopRunning, messages, timeouts, phase>>
      BY <3>1 DEF CancelCallback, hostVars, loopVars
    <3> QED BY <3>2, <3>3
            DEF LoopInv, Flags, LoopIsArmed, OneMessagePerLoop, TimersAreArmed, isPerformingWork
  <2>3. CASE RequestPaint \/ \E level \in Priorities \cup {NextPriority} : EnterPriority(level)
    <3>1. UNCHANGED <<isHostCallbackScheduled, isMessageLoopRunning, messages, timeouts,
                      phase, q>>
      BY <2>3 DEF RequestPaint, EnterPriority, hostVars, loopVars
    <3> QED BY <3>1, QuietLoop
  <2> QED BY <1>1, <2>1, <2>2, <2>3 DEF CallScheduler
<1>2. CASE ExitPriority \/ Tick \/ UNCHANGED vars
  <2>1. UNCHANGED <<isHostCallbackScheduled, isMessageLoopRunning, messages, timeouts, phase, q>>
    BY <1>2 DEF ExitPriority, Tick, hostVars, loopVars, vars
  <2> QED BY <2>1, QuietLoop
<1>3. CASE PerformWorkUntilDeadline
  BY <1>3, PerformLoop
<1>4. CASE WorkLoop \/ Return
  BY <1>4, WorkLoopArmed
<1>5. CASE Timers
  BY <1>5, TimeoutLoop DEF Timers
<1> QED BY <1>1, <1>2, <1>3, <1>4, <1>5 DEF Next

(***************************************************************************)
(* Work never waits for nothing.  Whatever is scheduled, cancelled, thrown  *)
(* or timed out, the running loop has exactly one message and a delayed     *)
(* task has the loop or an armed timeout (requestHostCallback,              *)
(* requestHostTimeout, handleTimeout, performWorkUntilDeadline).            *)
(***************************************************************************)
THEOREM LoopStaysArmed == Spec => []LoopIsArmed
<1>1. Init => LoopInv
  <2> SUFFICES ASSUME Init PROVE LoopInv
    OBVIOUS
  <2>1. q.taskQueue = <<>> /\ q.timerQueue = <<>> /\ messages = 0 /\ phase = "idle"
    BY DEF Init, NoQueues
  <2>2. isHostCallbackScheduled = FALSE /\ isMessageLoopRunning = FALSE
    BY DEF Init
  <2> QED BY <2>1, <2>2
          DEF LoopInv, Flags, LoopIsArmed, OneMessagePerLoop, TimersAreArmed
<1>2. LoopInv => LoopIsArmed
  BY DEF LoopInv
<1> QED BY <1>1, <1>2, InitQueueInv, NextQueueInv, NextLoopInv, PTL DEF Spec

-----------------------------------------------------------------------------
(***************************************************************************)
(* Priorities.  The outermost saved level is the one the host had, and work *)
(* runs only inside it.                                                     *)
(***************************************************************************)
Levels ==
  /\ currentPriorityLevel \in 1..5 /\ saved \in Seq(1..5)
  /\ saved # <<>> => saved[Len(saved)] = NormalPriority
  /\ saved = <<>> => phase = "idle" /\ currentPriorityLevel = NormalPriority

\* A level entered or left keeps the outermost one.
LEMMA LevelsNest ==
  ASSUME NEW levels \in Seq(1..5), NEW level \in 1..5
  PROVE  /\ <<level>> \o levels \in Seq(1..5) /\ <<level>> \o levels # <<>>
         /\ (<<level>> \o levels)[Len(<<level>> \o levels)] =
              IF levels = <<>> THEN level ELSE levels[Len(levels)]
         /\ levels # <<>> => /\ Tail(levels) \in Seq(1..5) /\ Head(levels) \in 1..5
                             /\ Tail(levels) = <<>> => Head(levels) = levels[Len(levels)]
                             /\ Tail(levels) # <<>> =>
                                  Tail(levels)[Len(Tail(levels))] = levels[Len(levels)]
<1>1. <<level>> \o levels \in Seq(1..5) /\ Len(<<level>> \o levels) = Len(levels) + 1
  OBVIOUS
<1>2. CASE levels = <<>>
  BY <1>1, <1>2
<1>3. CASE levels # <<>>
  <2>1. Len(levels) \in Nat /\ Len(levels) > 0
    BY <1>3
  <2>2. (<<level>> \o levels)[Len(levels) + 1] = levels[Len(levels)]
    BY <2>1
  <2>3. Tail(levels) \in Seq(1..5) /\ Head(levels) \in 1..5 /\ Head(levels) = levels[1]
    BY <1>3
  <2>4. Len(Tail(levels)) = Len(levels) - 1
    BY <1>3
  <2>5. Tail(levels) = <<>> => Len(levels) = 1
    BY <2>1, <2>3, <2>4
  <2>6. Tail(levels) # <<>> => Tail(levels)[Len(levels) - 1] = levels[Len(levels)]
    BY <2>1, <2>3, <2>4, <1>3
  <2> QED BY <1>1, <1>3, <2>1, <2>2, <2>3, <2>4, <2>5, <2>6
<1> QED BY <1>2, <1>3

\* Every step keeps the nesting of the levels.
LEMMA NextLevels == QueueInv /\ Levels /\ [Next]_vars => Levels'
<1> SUFFICES ASSUME QueueInv, Levels, [Next]_vars PROVE Levels'
  OBVIOUS
<1>1. CASE \E level \in Priorities \cup {NextPriority} : EnterPriority(level)
  <2>1. PICK level \in Priorities \cup {NextPriority} : EnterPriority(level)
    BY <1>1
  <2>2. /\ saved' = <<currentPriorityLevel>> \o saved /\ currentPriorityLevel' = level
        /\ saved \in Seq(1..5) /\ currentPriorityLevel \in 1..5
    BY <2>1 DEF EnterPriority, Levels
  <2>3. level \in 1..5
    BY <2>2, TaskSchedulerAssumption DEF NextPriority, NormalPriority
  <2>4. /\ saved' \in Seq(1..5) /\ saved' # <<>>
        /\ saved'[Len(saved')] = IF saved = <<>> THEN currentPriorityLevel ELSE saved[Len(saved)]
    BY <2>2, LevelsNest
  <2> QED BY <2>2, <2>3, <2>4 DEF Levels
<1>2. CASE ExitPriority
  <2>1. /\ saved' = Tail(saved) /\ currentPriorityLevel' = Head(saved) /\ UNCHANGED phase
        /\ Len(saved) > (IF isPerformingWork THEN 1 ELSE 0) /\ saved \in Seq(1..5)
    BY <1>2 DEF ExitPriority, loopVars, Levels
  <2>2. saved # <<>> /\ saved[Len(saved)] = NormalPriority
    BY <2>1 DEF Levels
  <2>3. /\ saved' \in Seq(1..5) /\ currentPriorityLevel' \in 1..5
        /\ saved' = <<>> => currentPriorityLevel' = NormalPriority
        /\ saved' # <<>> => saved'[Len(saved')] = NormalPriority
    BY <2>1, <2>2, LevelsNest
  <2>4. saved' = <<>> => phase' = "idle"
    <3>1. Len(saved') = Len(saved) - 1
      BY <2>1, <2>2
    <3>2. saved' = <<>> => Len(saved) = 1
      <4>1. Len(<<>>) = 0 /\ Len(saved) \in Nat
        BY <2>1
      <4> QED BY <4>1, <3>1
    <3>3. Len(saved) = 1 => ~ isPerformingWork
      BY <2>1
    <3> QED BY <3>2, <3>3, <2>1 DEF isPerformingWork
  <2> QED BY <2>3, <2>4 DEF Levels
<1>3. CASE PerformWorkUntilDeadline
  <2>1. CASE isMessageLoopRunning
    <3>1. /\ saved = <<>> /\ saved' = <<currentPriorityLevel>>
          /\ UNCHANGED currentPriorityLevel
      BY <1>3, <2>1 DEF PerformWorkUntilDeadline
    <3> QED BY <3>1 DEF Levels
  <2>2. CASE ~ isMessageLoopRunning
    BY <1>3, <2>2 DEF PerformWorkUntilDeadline, Levels
  <2> QED BY <2>1, <2>2
<1>4. CASE Drained \/ Yield \/ CallbackContinues \/ CallbackThrows
  <2>1. /\ phase # "idle" /\ phase' = "idle" /\ saved' = <<>>
        /\ currentPriorityLevel' = saved[Len(saved)]
    BY <1>4 DEF Drained, Yield, CallbackContinues, CallbackThrows, Leave
  <2> QED BY <2>1 DEF Levels, NormalPriority
<1>5. CASE CallCallback
  <2>1. /\ currentPriorityLevel' = q.tasks[Head1].priority /\ UNCHANGED saved
        /\ phase = "loop" /\ q.taskQueue # <<>>
    BY <1>5 DEF CallCallback
  <2>2. QueuesOK(q)
    BY DEF QueueInv
  <2>3. Head1 \in DOMAIN q.tasks /\ q.tasks \in Seq(Task)
    BY <2>1, <2>2, HeadIs DEF QueuesOK, QueueRecord
  <2>4. q.tasks[Head1].priority \in 1..5
    <3>1. q.tasks[Head1] \in Task
      BY <2>3
    <3> QED BY <3>1 DEF Task
  <2> QED BY <2>1, <2>4 DEF Levels
<1>6. CASE \/ \E priority \in Priorities, delay \in Delays : ScheduleCallback(priority, delay)
           \/ \E id \in DOMAIN q.tasks : CancelCallback(id)
           \/ RequestPaint \/ DropCancelled \/ Timers \/ Tick \/ UNCHANGED vars
  <2>1. UNCHANGED <<phase, saved, currentPriorityLevel>>
    BY <1>6 DEF ScheduleCallback, CancelCallback, RequestPaint, DropCancelled, Timers,
                HandleTimeout, Tick, vars, loopVars, priorityVars
  <2> QED BY <2>1 DEF Levels
<1>7. CASE CallbackDone
  <2>1. phase = "callback" /\ UNCHANGED <<saved, currentPriorityLevel>>
    BY <1>7 DEF CallbackDone, priorityVars
  <2> QED BY <2>1 DEF Levels
<1> QED BY <1>1, <1>2, <1>3, <1>4, <1>5, <1>6, <1>7 DEF Next, CallScheduler, WorkLoop, Return

(***************************************************************************)
(* Priorities come back.  However handlers nest and wherever they throw,    *)
(* the host finds the level it had (unstable_runWithPriority,               *)
(* unstable_next, performWorkUntilDeadline's finally).                      *)
(***************************************************************************)
THEOREM PriorityComesBack == Spec => []PriorityIsRestored
<1>1. Init => Levels
  BY DEF Init, Levels, NormalPriority
<1>2. Levels => PriorityIsRestored
  BY DEF Levels, PriorityIsRestored
<1> QED BY <1>1, <1>2, InitQueueInv, NextQueueInv, NextLevels, PTL DEF Spec

-----------------------------------------------------------------------------
(***************************************************************************)
(* The heap on its own implements the priority queue.  As many nodes as     *)
(* places means that no node is in two of them; without it a popped node    *)
(* could leave a copy behind.                                               *)
(***************************************************************************)
HeapInv ==
  /\ array \in Seq(HeapNode)
  /\ Ordered(array)
  /\ Cardinality(Items(array)) = Len(array)
  /\ \A a, b \in Items(array) : a.id = b.id => a = b

\* A heap has at most as many nodes as places.
LEMMA ItemsAreFew ==
  ASSUME NEW heap \in Seq(HeapNode)
  PROVE  IsFiniteSet(Items(heap)) /\ Cardinality(Items(heap)) \in Nat
         /\ Cardinality(Items(heap)) <= Len(heap)
<1>1. Len(heap) \in Nat /\ DOMAIN heap = 1..Len(heap)
  OBVIOUS
<1>2. heap \in Surjection(1..Len(heap), Items(heap))
  <2>1. heap \in [1..Len(heap) -> Items(heap)]
    <3>1. heap = [i \in 1..Len(heap) |-> heap[i]]
      BY <1>1
    <3>2. \A i \in 1..Len(heap) : heap[i] \in Items(heap)
      BY <1>1 DEF Items
    <3> QED BY <3>1, <3>2, Zenon
  <2>2. \A e \in Items(heap) : \E i \in 1..Len(heap) : heap[i] = e
    BY <1>1 DEF Items
  <2> QED BY <2>1, <2>2 DEF Surjection
<1>3. IsFiniteSet(1..Len(heap)) /\ Cardinality(1..Len(heap)) = Len(heap)
  BY <1>1, FS_Interval
<1>4. IsFiniteSet(Items(heap)) /\ Cardinality(Items(heap)) <= Cardinality(1..Len(heap))
  BY <1>2, <1>3, FS_Surjection
<1> QED BY <1>3, <1>4, FS_CardinalityType

\* A pushed node with a new id is one more.
LEMMA PushAdds ==
  ASSUME HeapInv, NEW node \in HeapNode, \A e \in Items(array) : e.id # node.id
  PROVE  LET r == Push(array, node)
         IN  /\ r \in Seq(HeapNode) /\ Ordered(r) /\ Cardinality(Items(r)) = Len(r)
             /\ \A a, b \in Items(r) : a.id = b.id => a = b
             /\ node \notin Items(array) /\ Items(r) = Items(array) \cup {node}
<1> DEFINE r == Push(array, node)
<1>1. array \in Seq(HeapNode) /\ Ordered(array) /\ Len(array) \in Nat
      /\ Cardinality(Items(array)) = Len(array)
  BY DEF HeapInv
<1>2. /\ r \in Seq(HeapNode) /\ Len(r) = Len(array) + 1 /\ Ordered(r)
      /\ Items(r) = Items(array) \cup {node}
  BY <1>1, PushIs
<1> HIDE DEF r
<1>3. node \notin Items(array)
  OBVIOUS
<1>4. Cardinality(Items(array) \cup {node}) = Cardinality(Items(array)) + 1
  BY <1>1, <1>3, ItemsAreFew, FS_AddElement
<1>5. \A a, b \in Items(r) : a.id = b.id => a = b
  BY <1>2 DEF HeapInv
<1> QED BY <1>1, <1>2, <1>3, <1>4, <1>5 DEF r

\* A popped node is gone and the others are there.
LEMMA PopRemoves ==
  ASSUME HeapInv, array # <<>>
  PROVE  LET r == Pop(array)
         IN  /\ r \in Seq(HeapNode) /\ Ordered(r) /\ Cardinality(Items(r)) = Len(r)
             /\ \A a, b \in Items(r) : a.id = b.id => a = b
             /\ Items(r) = Items(array) \ {Peek(array)}
<1> DEFINE r == Pop(array)
           top == Peek(array)
<1>1. array \in Seq(HeapNode) /\ Ordered(array) /\ Len(array) \in Nat
      /\ Cardinality(Items(array)) = Len(array)
  BY DEF HeapInv
<1>2. top = array[1] /\ top \in Items(array)
  BY <1>1, PeekIs
<1>3. /\ r \in Seq(HeapNode) /\ Len(r) = Len(array) - 1 /\ Ordered(r)
      /\ Items(r) \subseteq Items(array) /\ Items(array) \subseteq Items(r) \cup {top}
  BY <1>1, <1>2, PopIs
<1> HIDE DEF r, top
<1>4. Cardinality(Items(r)) \in Nat /\ Cardinality(Items(r)) <= Len(r)
  BY <1>3, ItemsAreFew
<1>5. top \notin Items(r)
  <2> SUFFICES ASSUME top \in Items(r) PROVE FALSE
    OBVIOUS
  <2>1. Items(r) = Items(array)
    BY <1>3
  <2> QED BY <2>1, <1>1, <1>3, <1>4
<1>6. Items(r) = Items(array) \ {top}
  BY <1>3, <1>5
<1>7. Cardinality(Items(array) \ {top}) = Cardinality(Items(array)) - 1
  BY <1>1, <1>2, ItemsAreFew, FS_RemoveElement
<1>8. \A a, b \in Items(r) : a.id = b.id => a = b
  BY <1>3 DEF HeapInv
<1> QED BY <1>1, <1>3, <1>6, <1>7, <1>8 DEF r, top

\* The head of the array is the least node of the set.
LEMMA HeadIsTheLeast ==
  ASSUME HeapInv, array # <<>>
  PROVE  Queue!Least(InHeap) = Peek(array)
<1> DEFINE top == Peek(array)
<1>1. array \in Seq(HeapNode) /\ Ordered(array)
  BY DEF HeapInv
<1>2. /\ top \in Items(array) /\ top \in HeapNode
      /\ \A e \in Items(array) : e \in HeapNode /\ Before(top, e)
  BY <1>1, PeekIs
<1>3. InHeap = Items(array)
  BY DEF InHeap, Items
<1> HIDE DEF top
<1>4. \A e \in InHeap \ {top} : Queue!Precedes(top, e)
  <2> SUFFICES ASSUME NEW e \in InHeap \ {top} PROVE Queue!Precedes(top, e)
    OBVIOUS
  <2>1. e \in HeapNode /\ Before(top, e) /\ e.id # top.id
    BY <1>2, <1>3 DEF HeapInv
  <2> QED BY <2>1, <1>2 DEF Queue!Precedes, Before, HeapNode
<1>5. \A a \in InHeap : (\A e \in InHeap \ {a} : Queue!Precedes(a, e)) => a = top
  <2> SUFFICES ASSUME NEW a \in InHeap, \A e \in InHeap \ {a} : Queue!Precedes(a, e), a # top
               PROVE  FALSE
    OBVIOUS
  <2>1. Queue!Precedes(a, top) /\ Queue!Precedes(top, a)
    BY <1>2, <1>3, <1>4
  <2>2. a \in HeapNode
    BY <1>2, <1>3
  <2> QED BY <2>1, <2>2, <1>2 DEF Queue!Precedes, HeapNode
<1>6. top \in InHeap
  BY <1>2, <1>3
<1>7. Queue!Least(InHeap) = top
  BY <1>4, <1>5, <1>6 DEF Queue!Least
<1> QED BY <1>7 DEF top

\* Every step is a step of the priority queue.
LEMMA HeapStep ==
  ASSUME HeapInv, [HeapNext]_heapVars
  PROVE  HeapInv' /\ [Queue!Next]_<<InHeap, popped>>
<1>1. InHeap = Items(array) /\ InHeap' = Items(array')
  BY DEF InHeap, Items
<1>2. CASE PopNode
  <2>1. /\ array # <<>> /\ array' = Pop(array) /\ popped' = {Peek(array)}
    BY <1>2 DEF PopNode
  <2>2. /\ array' \in Seq(HeapNode) /\ Ordered(array') /\ Cardinality(Items(array')) = Len(array')
        /\ \A a, b \in Items(array') : a.id = b.id => a = b
        /\ Items(array') = Items(array) \ {Peek(array)}
    BY <2>1, PopRemoves
  <2>3. HeapInv'
    BY <2>2 DEF HeapInv, Items
  <2>4. InHeap # {}
    BY <1>1, <2>1, NoItems DEF HeapInv
  <2>5. Queue!Remove
    BY <1>1, <2>1, <2>2, <2>4, HeadIsTheLeast DEF Queue!Remove
  <2> QED BY <2>3, <2>5 DEF Queue!Next
<1>3. ASSUME NEW node \in Node, PushNode(node)
      PROVE  HeapInv' /\ [Queue!Next]_<<InHeap, popped>>
  <2>1. /\ \A e \in Items(array) : e.id # node.id
        /\ array' = Push(array, node) /\ popped' = {}
    BY <1>1, <1>3 DEF PushNode
  <2>2. node \in HeapNode
    BY NodeAssumption DEF HeapNode
  <2>3. /\ array' \in Seq(HeapNode) /\ Ordered(array') /\ Cardinality(Items(array')) = Len(array')
        /\ \A a, b \in Items(array') : a.id = b.id => a = b
        /\ node \notin Items(array) /\ Items(array') = Items(array) \cup {node}
    BY <2>1, <2>2, PushAdds
  <2>4. HeapInv'
    BY <2>3 DEF HeapInv, Items
  <2>5. Queue!Insert(node)
    BY <1>1, <2>1, <2>3 DEF Queue!Insert
  <2> QED BY <2>4, <2>5 DEF Queue!Next
<1>4. CASE UNCHANGED heapVars
  <2>1. UNCHANGED <<array, popped>>
    BY <1>4 DEF heapVars
  <2>2. UNCHANGED InHeap
    BY <2>1 DEF InHeap
  <2>3. HeapInv'
    BY <2>1 DEF HeapInv, Items
  <2> QED BY <2>1, <2>2, <2>3
<1> QED BY <1>2, <1>3, <1>4 DEF HeapNext

(***************************************************************************)
(* The array heap of the scheduler implements the priority queue for any    *)
(* nodes with unique ids and any number of them: push and pop lose and      *)
(* duplicate none, and the node popped is the least by sort index and then  *)
(* by id (push and pop of scheduler.development.js).                        *)
(***************************************************************************)
THEOREM HeapImplementsQueue == HeapSpec => HeapIsPriorityQueue
<1>1. HeapInit => HeapInv /\ Queue!Init
  <2> SUFFICES ASSUME HeapInit PROVE HeapInv /\ Queue!Init
    OBVIOUS
  <2>1. array = <<>> /\ popped = {} /\ Len(array) = 0 /\ array \in Seq(HeapNode)
    BY DEF HeapInit
  <2>2. Items(array) = {} /\ InHeap = {}
    BY <2>1 DEF Items, InHeap
  <2>3. Cardinality(Items(array)) = 0
    BY <2>2, FS_EmptySet
  <2>4. Ordered(array)
    BY <2>1 DEF Ordered
  <2> QED BY <2>1, <2>2, <2>3, <2>4 DEF HeapInv, Queue!Init
<1>2. HeapInv /\ [HeapNext]_heapVars => HeapInv' /\ [Queue!Next]_<<InHeap, popped>>
  BY HeapStep
<1> QED BY <1>1, <1>2, PTL DEF HeapSpec, HeapIsPriorityQueue, Queue!Spec

-----------------------------------------------------------------------------
(***************************************************************************)
(* The mock scheduler                                                      *)
(***************************************************************************)

\* It has the queues of the browser scheduler.
LEMMA SameQueues ==
  /\ \A heap : Mock!Pop(heap) = Pop(heap) /\ Mock!Peek(heap) = Peek(heap)
  /\ \A priority, start : Mock!NewTask(priority, start) = NewTask(priority, start)
  /\ \A queues, task, time : Mock!Enqueued(queues, task, time) = Enqueued(queues, task, time)
  /\ \A queues, time : Mock!AdvanceTimers(queues, time) = AdvanceTimers(queues, time)
  /\ \A queues, id : Mock!PopFinished(queues, id) = PopFinished(queues, id)
  <1>1. \A heap : Mock!Pop(heap) = Pop(heap)
    BY Zenon DEF Mock!Pop, Pop, Mock!SinkTarget, SinkTarget, Mock!Compare, Compare
  <1>2. \A heap : Mock!Peek(heap) = Peek(heap)
    BY Zenon DEF Mock!Peek, Peek
  <1>3. \A priority, start : Mock!NewTask(priority, start) = NewTask(priority, start)
    BY Zenon DEF Mock!NewTask, NewTask
  <1>4. \A queues, task, time : Mock!Enqueued(queues, task, time) = Enqueued(queues, task, time)
    BY ZenonT(40) DEF Mock!Enqueued, Enqueued, Mock!Push, Push, Mock!Compare, Compare,
                 Mock!Entry, Entry
  <1>5. \A queues, time : Mock!AdvanceTimers(queues, time) = AdvanceTimers(queues, time)
    BY Zenon DEF Mock!AdvanceTimers, AdvanceTimers, Mock!AdvanceTimer, AdvanceTimer,
                 Mock!Due, Due, Mock!Peek, Peek, Mock!Push, Push, Mock!Pop, Pop,
                 Mock!SinkTarget, SinkTarget, Mock!Compare, Compare, Mock!Entry, Entry
  <1>6. \A queues, id : Mock!PopFinished(queues, id) = PopFinished(queues, id)
    BY ZenonT(40) DEF Mock!PopFinished, PopFinished, Mock!Peek, Peek, Mock!Pop, Pop,
                 Mock!SinkTarget, SinkTarget, Mock!Compare, Compare
  <1> QED BY <1>1, <1>2, <1>3, <1>4, <1>5, <1>6

\* Which stop conditions a helper sets.  didStop is noted only where there is one.
StopsOfMode ==
  /\ mode \in {"none", "all", "expired", "yields", "paint"}
  /\ didStop \in BOOLEAN /\ shouldYieldForPaint \in BOOLEAN
  /\ mode # "yields" => expectedNumberOfYields = -1
  /\ mode # "paint" => ~ shouldYieldForPaint
  /\ mode \notin {"yields", "paint"} => ~ didStop

\* A flush is a run of the loop and has its callback until it has drained the queue.
FlushHasWork ==
  /\ mockPhase \in {"idle", "loop", "callback"}
  /\ mockPhase = "idle" <=> mode = "none"
  /\ mode # "none" => scheduledCallback = TRUE

\* While the loop chooses, no live task that is due is still a timer.
MockLooked == mockNow \in Nat /\ (mockPhase = "loop" => Ready(mockQueues, mockNow))

MockTaken ==
  mockPhase = "callback" =>
    /\ mockTask \in DOMAIN mockQueues.tasks
    /\ ~ mockQueues.tasks[mockTask].callback
    /\ HasTask(mockQueues, mockTask)

MockQueueInv == QueuesOK(mockQueues) /\ MockLooked /\ MockTaken
MockInv == StopsOfMode /\ FlushHasWork /\ MockQueueInv

\* A flush that reports no work leaves none that is due.
NothingDue ==
  Mock!isFlushing /\ ~ Mock!isFlushing' /\ ~ scheduledCallback' =>
    \A id \in DOMAIN mockQueues.tasks :
      mockQueues.tasks[id].callback => mockQueues.tasks[id].start > mockNow

\* The modes: calls of a test or a callback.
LEMMA CallModes ==
  ASSUME StopsOfMode, FlushHasWork, Mock!Calls
  PROVE  /\ StopsOfMode' /\ FlushHasWork' /\ mode' = mode /\ mockPhase' = mockPhase
         /\ mockTask' = mockTask
  <1>1. ASSUME NEW priority \in Priorities, NEW delay \in Delays,
               Mock!ScheduleCallback(priority, delay)
        PROVE  /\ UNCHANGED <<mode, mockPhase, mockTask, expectedNumberOfYields, didStop,
                              shouldYieldForPaint>>
               /\ scheduledCallback' \in {scheduledCallback, TRUE}
    BY <1>1 DEF Mock!ScheduleCallback, Mock!RequestHostCallback, Mock!loopVars, Mock!stopVars
  <1>2. ASSUME NEW ms \in Steps, Mock!AdvanceTime(ms)
        PROVE  /\ UNCHANGED <<mode, mockPhase, mockTask, expectedNumberOfYields, didStop,
                              shouldYieldForPaint>>
               /\ scheduledCallback' \in {scheduledCallback, TRUE}
    BY <1>2 DEF Mock!AdvanceTime, Mock!HandleTimeout, Mock!loopVars, Mock!stopVars, Mock!hostVars
  <1>3. ASSUME \/ \E id \in DOMAIN mockQueues.tasks : Mock!CancelCallback(id)
               \/ Mock!RequestPaint \/ Mock!Log \/ Mock!ClearLog
               \/ \E value \in BOOLEAN : Mock!SetDisableYieldValue(value)
        PROVE  UNCHANGED <<mode, mockPhase, mockTask, expectedNumberOfYields, didStop,
                           shouldYieldForPaint, scheduledCallback>>
    BY <1>3 DEF Mock!CancelCallback, Mock!RequestPaint, Mock!Log, Mock!ClearLog,
                Mock!SetDisableYieldValue, Mock!loopVars, Mock!stopVars, Mock!hostVars
  <1>4. CASE Mock!Reset
    <2>1. /\ mode = "none" /\ UNCHANGED <<mode, mockPhase, mockTask, shouldYieldForPaint>>
          /\ expectedNumberOfYields' = -1 /\ didStop' = FALSE
      BY <1>4 DEF Mock!Reset, Mock!isFlushing, Mock!loopVars
    <2> QED BY <2>1 DEF StopsOfMode, FlushHasWork
  <1>5. CASE UNCHANGED <<mode, mockPhase, mockTask, expectedNumberOfYields, didStop,
                         shouldYieldForPaint>>
             /\ scheduledCallback' \in {scheduledCallback, TRUE}
    BY <1>5 DEF StopsOfMode, FlushHasWork
  <1> QED BY <1>1, <1>2, <1>3, <1>4, <1>5 DEF Mock!Calls

\* The modes: a helper starts a flush.
LEMMA FlushModes ==
  ASSUME StopsOfMode, FlushHasWork, Mock!Flushes
  PROVE  StopsOfMode' /\ FlushHasWork' /\ mode = "none" /\ mockPhase' = "loop"
  <1>1. ASSUME NEW helper, Mock!Flush(helper)
        PROVE  /\ mode = "none" /\ mode' = helper /\ mockPhase' = "loop"
               /\ scheduledCallback = TRUE /\ UNCHANGED <<scheduledCallback, didStop>>
    BY <1>1 DEF Mock!Flush, Mock!FlushWork, Mock!isFlushing, FlushHasWork
  <1>2. CASE Mock!FlushAllWithoutAsserting
    <2>1. Mock!Flush("all") /\ UNCHANGED <<expectedNumberOfYields, shouldYieldForPaint>>
      BY <1>2 DEF Mock!FlushAllWithoutAsserting
    <2>2. /\ mode = "none" /\ mode' = "all" /\ mockPhase' = "loop"
          /\ scheduledCallback = TRUE /\ UNCHANGED <<scheduledCallback, didStop>>
      BY <2>1, <1>1
    <2> QED BY <2>1, <2>2 DEF StopsOfMode, FlushHasWork
  <1>3. CASE Mock!FlushExpired
    <2>1. Mock!Flush("expired") /\ UNCHANGED <<expectedNumberOfYields, shouldYieldForPaint>>
      BY <1>3 DEF Mock!FlushExpired
    <2>2. /\ mode = "none" /\ mode' = "expired" /\ mockPhase' = "loop"
          /\ scheduledCallback = TRUE /\ UNCHANGED <<scheduledCallback, didStop>>
      BY <2>1, <1>1
    <2> QED BY <2>1, <2>2 DEF StopsOfMode, FlushHasWork
  <1>4. CASE Mock!FlushUntilNextPaint
    <2>1. Mock!Flush("paint") /\ shouldYieldForPaint' = TRUE /\ UNCHANGED expectedNumberOfYields
      BY <1>4 DEF Mock!FlushUntilNextPaint
    <2>2. /\ mode = "none" /\ mode' = "paint" /\ mockPhase' = "loop"
          /\ scheduledCallback = TRUE /\ UNCHANGED <<scheduledCallback, didStop>>
      BY <2>1, <1>1
    <2> QED BY <2>1, <2>2 DEF StopsOfMode, FlushHasWork
  <1>5. ASSUME NEW count \in Counts, Mock!FlushNumberOfYields(count)
        PROVE  StopsOfMode' /\ FlushHasWork' /\ mode = "none" /\ mockPhase' = "loop"
    <2>1. Mock!Flush("yields") /\ UNCHANGED shouldYieldForPaint
      BY <1>5 DEF Mock!FlushNumberOfYields
    <2>2. /\ mode = "none" /\ mode' = "yields" /\ mockPhase' = "loop"
          /\ scheduledCallback = TRUE /\ UNCHANGED <<scheduledCallback, didStop>>
      BY <2>1, <1>1
    <2> QED BY <2>1, <2>2 DEF StopsOfMode, FlushHasWork
  <1> QED BY <1>2, <1>3, <1>4, <1>5 DEF Mock!Flushes

\* The end of a flush takes its stop condition back.
LEMMA LeaveModes ==
  ASSUME StopsOfMode, FlushHasWork, Mock!LeaveLoop
  PROVE  StopsOfMode' /\ FlushHasWork' /\ mode' = "none" /\ mockPhase' = "idle"
  <1>1. mode' = "none" /\ mockPhase' = "idle"
    BY DEF Mock!LeaveLoop, Mock!ResetStopCondition
  <1>2. expectedNumberOfYields' = -1
    BY DEF Mock!LeaveLoop, Mock!ResetStopCondition, StopsOfMode
  <1>3. shouldYieldForPaint' = FALSE
    BY DEF Mock!LeaveLoop, Mock!ResetStopCondition, StopsOfMode
  <1>4. didStop' = FALSE
    BY DEF Mock!LeaveLoop, Mock!ResetStopCondition, StopsOfMode
  <1> QED BY <1>1, <1>2, <1>3, <1>4 DEF StopsOfMode, FlushHasWork

\* The modes: the loop and the callbacks it calls.
LEMMA LoopModes ==
  ASSUME StopsOfMode, FlushHasWork, Mock!WorkLoop \/ Mock!Callback
  PROVE  StopsOfMode' /\ FlushHasWork'
  <1>1. CASE Mock!Drained \/ Mock!Stop \/ Mock!CallbackThrows
    BY <1>1, LeaveModes DEF Mock!Drained, Mock!Stop, Mock!CallbackThrows
  <1>2. CASE Mock!DropCancelled
    <2>1. UNCHANGED <<mode, mockPhase, expectedNumberOfYields, didStop, shouldYieldForPaint,
                      scheduledCallback>>
      BY <1>2 DEF Mock!DropCancelled, Mock!loopVars, Mock!stopVars, Mock!hostVars
    <2> QED BY <2>1 DEF StopsOfMode, FlushHasWork
  <1>3. CASE Mock!CallCallback \/ Mock!CallbackDone
    <2>1. /\ UNCHANGED <<mode, expectedNumberOfYields, didStop, shouldYieldForPaint,
                         scheduledCallback>>
          /\ mockPhase \in {"loop", "callback"} /\ mockPhase' \in {"loop", "callback"}
      BY <1>3 DEF Mock!CallCallback, Mock!CallbackDone, Mock!stopVars, Mock!hostVars
    <2> QED BY <2>1 DEF StopsOfMode, FlushHasWork
  <1>4. CASE Mock!ShouldYield
    <2>1. /\ UNCHANGED <<mode, mockPhase, expectedNumberOfYields, shouldYieldForPaint,
                         scheduledCallback>>
          /\ didStop' = TRUE /\ Mock!ShouldYieldToHost
      BY <1>4 DEF Mock!ShouldYield, Mock!loopVars, Mock!hostVars
    <2>2. mode \in {"yields", "paint"}
      BY <2>1 DEF Mock!ShouldYieldToHost, StopsOfMode
    <2> QED BY <2>1, <2>2 DEF StopsOfMode, FlushHasWork
  <1>5. CASE Mock!CallbackContinues
    <2>1. CASE ~ shouldYieldForPaint
      <3>1. /\ UNCHANGED <<mode, expectedNumberOfYields, didStop, shouldYieldForPaint,
                           scheduledCallback>>
            /\ mockPhase = "callback" /\ mockPhase' = "loop"
        BY <1>5, <2>1 DEF Mock!CallbackContinues, Mock!stopVars, Mock!hostVars
      <3> QED BY <3>1 DEF StopsOfMode, FlushHasWork
    <2>2. CASE shouldYieldForPaint /\ didStop
      BY <1>5, <2>2, LeaveModes DEF Mock!CallbackContinues
    <2>3. CASE shouldYieldForPaint /\ ~ didStop
      <3>1. /\ UNCHANGED <<mode, expectedNumberOfYields, didStop, shouldYieldForPaint,
                           scheduledCallback>>
            /\ mockPhase = "callback" /\ mockPhase' = "loop"
        BY <1>5, <2>3 DEF Mock!CallbackContinues, Mock!FlushWork, Mock!stopVars
      <3> QED BY <3>1 DEF StopsOfMode, FlushHasWork
    <2> QED BY <2>1, <2>2, <2>3
  <1> QED BY <1>1, <1>2, <1>3, <1>4, <1>5 DEF Mock!WorkLoop, Mock!Callback

\* A call leaves the running task queued and without callback.
LEMMA CallQueues ==
  ASSUME MockInv, Mock!Calls
  PROVE  MockQueueInv'
  <1>c. /\ Priorities \subseteq 1 .. 5 /\ Delays \subseteq Nat /\ Steps \subseteq Nat
    BY MockInstance DEF Mock!MockSchedulerAssumption
  <1>q. QueuesOK(mockQueues) /\ MockLooked /\ MockTaken /\ mockNow \in Nat
    BY DEF MockInv, MockQueueInv, MockLooked
  <1>m. mockPhase' = mockPhase /\ mockTask' = mockTask
    BY CallModes DEF MockInv
  <1>1. ASSUME NEW priority \in Priorities, NEW delay \in Delays,
               Mock!ScheduleCallback(priority, delay)
        PROVE  MockQueueInv'
    <2> DEFINE new == NewTask(priority, mockNow + delay)
    <2>1. mockNow + delay \in Nat
      BY <1>c, <1>q
    <2>2. new \in Task
      BY <2>1, NewTaskOK
    <2>3. mockQueues' = Enqueued(mockQueues, new, mockNow) /\ mockNow' = mockNow
      <3>1. /\ mockQueues' = Mock!Enqueued(mockQueues, Mock!NewTask(priority, mockNow + delay), mockNow)
            /\ mockNow' = mockNow
        BY <1>1 DEF Mock!ScheduleCallback
      <3> QED BY <3>1, SameQueues
    <2>p. mockPhase # "loop"
      BY <1>1 DEF Mock!ScheduleCallback, Mock!CanCall
    <2> HIDE DEF new
    <2>4. /\ QueuesOK(mockQueues') /\ mockQueues'.tasks = Append(mockQueues.tasks, new)
          /\ \A id : HasTask(mockQueues, id) => HasTask(mockQueues', id)
      BY <1>q, <2>2, <2>3, EnqueuedOK
    <2>5. mockQueues.tasks \in Seq(Task)
      BY <1>q DEF QueuesOK, QueueRecord
    <2>6. \A id \in DOMAIN mockQueues.tasks :
            id \in DOMAIN mockQueues'.tasks /\ mockQueues'.tasks[id] = mockQueues.tasks[id]
      BY <2>2, <2>4, <2>5
    <2>7. MockTaken'
      BY <2>4, <2>6, <1>m, <1>q DEF MockTaken
    <2> QED BY <2>3, <2>4, <2>7, <2>p, <1>m, <1>q DEF MockQueueInv, MockLooked
  <1>2. ASSUME NEW id \in DOMAIN mockQueues.tasks, Mock!CancelCallback(id)
        PROVE  MockQueueInv'
    <2> DEFINE live == FALSE
               r == [mockQueues EXCEPT !.tasks[id].callback = live]
    <2>1. mockQueues' = r /\ mockNow' = mockNow /\ mockPhase # "loop"
      BY <1>2 DEF Mock!CancelCallback, Mock!Cancelled, Mock!CanCall
    <2>2. live \in BOOLEAN /\ (live => HasTask(mockQueues, id)) /\ live = FALSE
      OBVIOUS
    <2> HIDE DEF live
    <2>3. /\ QueuesOK(r) /\ DOMAIN r.tasks = DOMAIN mockQueues.tasks
          /\ \A k \in DOMAIN r.tasks : r.tasks[k].callback =
                                         IF k = id THEN live ELSE mockQueues.tasks[k].callback
          /\ r.taskQueue = mockQueues.taskQueue
      BY <2>2, <1>q, MarkedOK
    <2> HIDE DEF r
    <2>4. MockTaken'
      BY <2>1, <2>2, <2>3, <1>m, <1>q DEF MockTaken, HasTask
    <2> QED BY <2>1, <2>3, <2>4, <1>m, <1>q DEF MockQueueInv, MockLooked
  <1>3. ASSUME NEW ms \in Steps, Mock!AdvanceTime(ms)
        PROVE  MockQueueInv'
    <2>1. mockNow' = mockNow + ms /\ mockPhase # "loop" /\ mockNow' \in Nat
      BY <1>3, <1>c, <1>q DEF Mock!AdvanceTime
    <2>2. mockQueues' = mockQueues \/ mockQueues' = AdvanceTimers(mockQueues, mockNow')
      BY <1>3, SameQueues DEF Mock!AdvanceTime, Mock!HandleTimeout
    <2>3. /\ QueuesOK(mockQueues') /\ mockQueues'.tasks = mockQueues.tasks
          /\ \A id : HasTask(mockQueues, id) => HasTask(mockQueues', id)
      BY <2>1, <2>2, <1>q, AdvanceTimersOK
    <2>4. MockTaken'
      BY <2>3, <1>m, <1>q DEF MockTaken
    <2> QED BY <2>1, <2>3, <2>4, <1>m, <1>q DEF MockQueueInv, MockLooked
  <1>4. ASSUME \/ Mock!RequestPaint \/ Mock!Log \/ Mock!ClearLog
               \/ \E value \in BOOLEAN : Mock!SetDisableYieldValue(value)
        PROVE  MockQueueInv'
    <2>1. UNCHANGED <<mockQueues, mockNow>>
      BY <1>4 DEF Mock!RequestPaint, Mock!Log, Mock!ClearLog, Mock!SetDisableYieldValue
    <2> QED BY <2>1, <1>m, <1>q DEF MockQueueInv, MockLooked, MockTaken
  <1>5. CASE Mock!Reset
    <2>1. mockQueues' = mockQueues /\ mockNow' = 0 /\ mode = "none"
      BY <1>5 DEF Mock!Reset, Mock!isFlushing
    <2>2. mockPhase = "idle"
      BY <2>1 DEF MockInv, FlushHasWork
    <2> QED BY <2>1, <2>2, <1>m, <1>q DEF MockQueueInv, MockLooked, MockTaken
  <1> QED BY <1>1, <1>2, <1>3, <1>4, <1>5 DEF Mock!Calls

\* flushWork looks at the timers first.
LEMMA FlushWorkQueues ==
  ASSUME mockNow \in Nat, NEW queues, QueuesOK(queues), Mock!FlushWork(queues),
         mockNow' = mockNow
  PROVE  MockQueueInv'
  <1>1. mockQueues' = AdvanceTimers(queues, mockNow) /\ mockPhase' = "loop"
    BY SameQueues DEF Mock!FlushWork
  <1>2. QueuesOK(mockQueues') /\ Ready(mockQueues', mockNow)
    BY <1>1, AdvanceTimersOK
  <1> QED BY <1>1, <1>2 DEF MockQueueInv, MockLooked, MockTaken

\* The loop and the callbacks keep the queues in order.
LEMMA LoopQueues ==
  ASSUME MockInv, Mock!WorkLoop \/ Mock!Callback
  PROVE  MockQueueInv'
  <1>q. QueuesOK(mockQueues) /\ MockLooked /\ MockTaken /\ mockNow \in Nat
    BY DEF MockInv, MockQueueInv, MockLooked
  <1>h. ASSUME mockQueues.taskQueue # <<>>
        PROVE  /\ Mock!Head1 = Peek(mockQueues.taskQueue).id
               /\ Mock!Head1 \in DOMAIN mockQueues.tasks /\ HasTask(mockQueues, Mock!Head1)
    <2>1. Mock!Head1 = Peek(mockQueues.taskQueue).id
      BY SameQueues DEF Mock!Head1
    <2>2. mockQueues.taskQueue \in Seq(HeapNode) /\ Ordered(mockQueues.taskQueue)
      BY <1>q DEF QueuesOK, QueueRecord
    <2>3. Peek(mockQueues.taskQueue) \in Items(mockQueues.taskQueue)
      BY <2>2, <1>h, PeekIs
    <2> QED BY <2>1, <2>3, <1>q DEF QueuesOK, TasksTimed, HasTask
  <1>1. CASE Mock!Drained \/ Mock!Stop \/ Mock!CallbackThrows
    <2>1. UNCHANGED <<mockQueues, mockNow>> /\ mockPhase' = "idle"
      BY <1>1 DEF Mock!Drained, Mock!Stop, Mock!CallbackThrows, Mock!LeaveLoop
    <2> QED BY <2>1, <1>q DEF MockQueueInv, MockLooked, MockTaken
  <1>2. CASE Mock!DropCancelled
    <2>1. /\ mockQueues' = [mockQueues EXCEPT !.taskQueue = Pop(@)]
          /\ mockQueues.taskQueue # <<>> /\ ~ mockQueues.tasks[Mock!Head1].callback
          /\ mockPhase = "loop" /\ UNCHANGED <<mockNow, mockPhase>>
      BY <1>2, SameQueues DEF Mock!DropCancelled, Mock!loopVars
    <2>2. QueuesOK(mockQueues') /\ Ready(mockQueues', mockNow)
      <3>1. Ready(mockQueues, mockNow) /\ ~ mockQueues.tasks[Peek(mockQueues.taskQueue).id].callback
        BY <2>1, <1>h, <1>q DEF MockLooked
      <3> QED BY <2>1, <3>1, <1>q, DroppedOK
    <2> QED BY <2>1, <2>2, <1>q DEF MockQueueInv, MockLooked, MockTaken
  <1>3. CASE Mock!CallCallback
    <2> DEFINE live == FALSE
               id == Mock!Head1
               r == [mockQueues EXCEPT !.tasks[id].callback = live]
    <2>1. /\ mockQueues' = r /\ mockQueues.taskQueue # <<>> /\ mockPhase' = "callback"
          /\ mockTask' = id /\ UNCHANGED mockNow
      BY <1>3 DEF Mock!CallCallback, Mock!Cancelled
    <2>2. live \in BOOLEAN /\ (live => HasTask(mockQueues, id)) /\ live = FALSE
      OBVIOUS
    <2>3. id \in DOMAIN mockQueues.tasks /\ HasTask(mockQueues, id)
      BY <2>1, <1>h
    <2> HIDE DEF live, id
    <2>4. /\ QueuesOK(r) /\ DOMAIN r.tasks = DOMAIN mockQueues.tasks
          /\ \A k \in DOMAIN r.tasks : r.tasks[k].callback =
                                         IF k = id THEN live ELSE mockQueues.tasks[k].callback
          /\ r.taskQueue = mockQueues.taskQueue
      BY <2>2, <2>3, <1>q, MarkedOK
    <2> HIDE DEF r
    <2>5. MockTaken'
      BY <2>1, <2>2, <2>3, <2>4 DEF MockTaken, HasTask
    <2> QED BY <2>1, <2>4, <2>5, <1>q DEF MockQueueInv, MockLooked
  <1>4. CASE Mock!ShouldYield
    <2>1. UNCHANGED <<mockQueues, mockNow, mockPhase, mockTask>>
      BY <1>4 DEF Mock!ShouldYield, Mock!loopVars
    <2> QED BY <2>1, <1>q DEF MockQueueInv, MockLooked, MockTaken
  <1>5. CASE Mock!CallbackDone
    <2> DEFINE kept == PopFinished(mockQueues, mockTask)
    <2>1. /\ mockPhase = "callback" /\ mockPhase' = "loop" /\ UNCHANGED mockNow
          /\ mockQueues' = AdvanceTimers(kept, mockNow)
      <3>1. /\ mockPhase = "callback" /\ mockPhase' = "loop" /\ UNCHANGED mockNow
            /\ mockQueues' = Mock!AdvanceTimers(Mock!PopFinished(mockQueues, mockTask), mockNow)
        BY <1>5 DEF Mock!CallbackDone
      <3> QED BY <3>1, SameQueues
    <2>2. ~ mockQueues.tasks[mockTask].callback
      BY <2>1, <1>q DEF MockTaken
    <2>3. QueuesOK(kept)
      <3>1. CASE mockQueues.taskQueue # <<>> /\ Peek(mockQueues.taskQueue).id = mockTask
        <4>1. kept = [mockQueues EXCEPT !.taskQueue = Pop(@)]
          BY <3>1 DEF PopFinished
        <4> HIDE DEF kept
        <4> QED BY <4>1, <3>1, <2>2, <1>q, DroppedOK
      <3>2. CASE ~ (mockQueues.taskQueue # <<>> /\ Peek(mockQueues.taskQueue).id = mockTask)
        BY <3>2, <1>q DEF PopFinished
      <3> QED BY <3>1, <3>2
    <2> HIDE DEF kept
    <2>4. QueuesOK(mockQueues') /\ Ready(mockQueues', mockNow)
      BY <2>1, <2>3, <1>q, AdvanceTimersOK
    <2> QED BY <2>1, <2>4, <1>q DEF MockQueueInv, MockLooked, MockTaken
  <1>6. CASE Mock!CallbackContinues
    <2> DEFINE resumed == [mockQueues EXCEPT !.tasks[mockTask].callback = TRUE]
               queues == AdvanceTimers(resumed, mockNow)
    <2>1. mockPhase = "callback" /\ UNCHANGED mockNow
      BY <1>6 DEF Mock!CallbackContinues
    <2>2. mockTask \in DOMAIN mockQueues.tasks /\ HasTask(mockQueues, mockTask)
      BY <2>1, <1>q DEF MockTaken
    <2>3. QueuesOK(resumed)
      BY <2>2, <1>q, MarkedOK
    <2>4. Mock!AdvanceTimers(resumed, mockNow) = queues
      BY SameQueues
    <2>5. \/ mockQueues' = queues /\ mockPhase' = "loop"
          \/ mockQueues' = queues /\ mockPhase' = "idle"
          \/ Mock!FlushWork(queues)
      BY <1>6, <2>4 DEF Mock!CallbackContinues, Mock!LeaveLoop
    <2> HIDE DEF resumed
    <2>6. QueuesOK(queues) /\ Ready(queues, mockNow)
      BY <2>3, <1>q, AdvanceTimersOK
    <2> HIDE DEF queues
    <2>7. CASE mockQueues' = queues /\ mockPhase' \in {"loop", "idle"}
      BY <2>1, <2>6, <2>7, <1>q DEF MockQueueInv, MockLooked, MockTaken
    <2>8. CASE Mock!FlushWork(queues)
      BY <2>1, <2>6, <2>8, <1>q, FlushWorkQueues
    <2> QED BY <2>5, <2>7, <2>8
  <1> QED BY <1>1, <1>2, <1>3, <1>4, <1>5, <1>6 DEF Mock!WorkLoop, Mock!Callback

\* A flush ends only when the task queue is empty or with its callback still scheduled.
LEMMA EndOfFlush ==
  ASSUME MockInv, Mock!Next, mode # "none", mode' = "none", ~ scheduledCallback'
  PROVE  Mock!Drained
  <1>s. scheduledCallback = TRUE
    BY DEF MockInv, FlushHasWork
  <1>1. ~ Mock!Calls
    BY CallModes DEF MockInv
  <1>2. ~ Mock!Flushes
    BY FlushModes DEF MockInv
  <1>3. ASSUME Mock!Stop \/ Mock!DropCancelled \/ Mock!CallCallback PROVE FALSE
    BY <1>3, <1>s DEF Mock!Stop, Mock!DropCancelled, Mock!CallCallback, Mock!hostVars
  <1>4. ASSUME Mock!Callback PROVE FALSE
    <2>1. CASE Mock!ShouldYield \/ Mock!CallbackDone \/ Mock!CallbackThrows
      BY <2>1, <1>s DEF Mock!ShouldYield, Mock!CallbackDone, Mock!CallbackThrows, Mock!hostVars
    <2>2. CASE Mock!CallbackContinues
      <3>1. scheduledCallback' = scheduledCallback
        BY <2>2 DEF Mock!CallbackContinues, Mock!hostVars
      <3> QED BY <3>1, <1>s
    <2> QED BY <1>4, <2>1, <2>2 DEF Mock!Callback
  <1> QED BY <1>1, <1>2, <1>3, <1>4 DEF Mock!Next, Mock!WorkLoop

\* Every step of a test, a flush or a callback keeps the invariant, and a flush that reports no
\* work leaves none that is due.
LEMMA MockStep ==
  ASSUME MockInv, Mock!Next
  PROVE  MockInv' /\ NothingDue
  <1>q. QueuesOK(mockQueues) /\ MockLooked /\ mockNow \in Nat
    BY DEF MockInv, MockQueueInv, MockLooked
  <1>1. MockInv'
    <2>1. CASE Mock!Calls
      BY <2>1, CallModes, CallQueues DEF MockInv
    <2>2. CASE Mock!Flushes
      <3>1. Mock!FlushWork(mockQueues) /\ mockNow' = mockNow
        BY <2>2 DEF Mock!Flushes, Mock!FlushAllWithoutAsserting, Mock!FlushExpired,
                    Mock!FlushUntilNextPaint, Mock!FlushNumberOfYields, Mock!Flush
      <3> QED BY <2>2, <3>1, <1>q, FlushModes, FlushWorkQueues DEF MockInv
    <2>3. CASE Mock!WorkLoop \/ Mock!Callback
      BY <2>3, LoopModes, LoopQueues DEF MockInv
    <2> QED BY <2>1, <2>2, <2>3 DEF Mock!Next
  <1>2. NothingDue
    <2> SUFFICES ASSUME mode # "none", mode' = "none", ~ scheduledCallback',
                        NEW id \in DOMAIN mockQueues.tasks, mockQueues.tasks[id].callback
                 PROVE  mockQueues.tasks[id].start > mockNow
      BY DEF NothingDue, Mock!isFlushing
    <2>1. mockPhase = "loop" /\ mockQueues.taskQueue = <<>>
      BY EndOfFlush DEF Mock!Drained
    <2>2. Items(mockQueues.taskQueue) = {}
      BY <2>1, <1>q, NoItems DEF QueuesOK, QueueRecord
    <2>3. ~ (mockQueues.tasks[id].start <= mockNow)
      BY <2>1, <2>2, <1>q DEF MockLooked, Ready, HasTask
    <2>4. mockQueues.tasks[id].start \in Nat
      <3>1. mockQueues.tasks \in Seq(Task)
        BY <1>q DEF QueuesOK, QueueRecord
      <3>2. mockQueues.tasks[id] \in Task
        BY <3>1
      <3> QED BY <3>2 DEF Task
    <2> QED BY <2>3, <2>4, <1>q
  <1> QED BY <1>1, <1>2

\* The invariant of the mock scheduler.
LEMMA MockInvHolds == Mock!Spec => []MockInv
  <1>1. Mock!Init => MockInv
    <2> SUFFICES ASSUME Mock!Init PROVE MockInv
      OBVIOUS
    <2>1. /\ mockQueues.tasks = <<>> /\ mockQueues.taskQueue = <<>>
          /\ mockQueues.timerQueue = <<>> /\ mockQueues \in QueueRecord
      BY DEF Mock!Init, Mock!NoQueues, QueueRecord
    <2>2. /\ Items(mockQueues.taskQueue) = {} /\ Items(mockQueues.timerQueue) = {}
          /\ DOMAIN mockQueues.tasks = {}
      BY <2>1 DEF Items
    <2>3. Ordered(mockQueues.taskQueue) /\ Ordered(mockQueues.timerQueue)
      <3>1. Len(<<>>) = 0
        OBVIOUS
      <3> QED BY <2>1, <3>1 DEF Ordered
    <2>4. QueuesOK(mockQueues)
      BY <2>1, <2>2, <2>3 DEF QueuesOK, TasksTimed, TimersTimed, Covered
    <2>5. MockLooked /\ MockTaken
      BY DEF Mock!Init, MockLooked, MockTaken
    <2>6. StopsOfMode /\ FlushHasWork
      BY DEF Mock!Init, StopsOfMode, FlushHasWork
    <2> QED BY <2>4, <2>5, <2>6 DEF MockInv, MockQueueInv
  <1>2. MockInv /\ [Mock!Next]_(Mock!vars) => MockInv'
    <2>1. ASSUME MockInv, UNCHANGED Mock!vars PROVE MockInv'
      BY <2>1 DEF Mock!vars, MockInv, MockQueueInv, MockLooked, MockTaken, StopsOfMode, FlushHasWork
    <2> QED BY <2>1, MockStep
  <1> QED BY <1>1, <1>2, PTL DEF Mock!Spec

\* The stop condition of one flush helper never reaches the next
\* (scheduler-unstable_mock.development.js).
THEOREM FlushesAreClean == Mock!Spec => []Mock!FlushModeDoesNotLeak
  <1>1. MockInv => Mock!FlushModeDoesNotLeak
    BY DEF MockInv, StopsOfMode, Mock!FlushModeDoesNotLeak, Mock!isFlushing
  <1> QED BY <1>1, MockInvHolds, PTL

\* A flush of the mock scheduler that reports no work left has run or dropped everything that
\* is due, also what became due while it ran (workLoop and the flush helpers).
THEOREM FlushesDrain == Mock!Spec => DrainedMeansNothingDue
  <1>1. MockInv /\ [Mock!Next]_(Mock!vars) => [NothingDue]_(Mock!vars)
    BY MockStep
  <1>2. Mock!Spec => [][Mock!Next]_(Mock!vars)
    BY DEF Mock!Spec
  <1>3. Mock!Spec => [][NothingDue]_(Mock!vars)
    BY <1>1, <1>2, MockInvHolds, PTL
  <1> QED BY <1>3 DEF DrainedMeansNothingDue, Mock!DrainedMeansNothingDue, NothingDue

-----------------------------------------------------------------------------
(***************************************************************************)
(* The post-task scheduler                                                 *)
(***************************************************************************)
Frames == [node : {<<>>} \cup {<<n>> : n \in PostNodes}, saved : Int, given : Int]

PostTasks ==
  [priority : Int, postTaskPriority : {"none", "user-blocking", "user-visible", "background"}, delay : Nat, aborted : BOOLEAN]

RunStatuses == {"running", "returned", "completed", "scheduled"}
ReturnTypes == {"none", "function", "undefined", "value"}
RunEntries ==
  [event : Nat, priority : Int, atDeadline : BOOLEAN, aborted : BOOLEAN, status : RunStatuses,
   returned : ReturnTypes, runsAtReturn : Int, fallbacksAtReturn : Int, fallback : Int]
AbortEntries ==
  [request : Nat, completion : Nat, runs : Nat, fallbacks : Nat, before : BOOLEAN, after : BOOLEAN]
ContinuationEntries ==
  [event : Nat, source : Int, runsAtSchedule : Nat, yields : BOOLEAN, aborted : BOOLEAN,
   abort : Seq(AbortEntries)]
RouteStatuses == {"pending", "aborted"}
RouteEntries ==
  [index : Int, status : RouteStatuses, handoff : Seq(RouteStatuses),
   execution : [status : RouteStatuses, index : Int, executed : BOOLEAN]]
LogRecords ==
  [events : Nat, runs : Seq(RunEntries), continuations : Seq(ContinuationEntries),
   cancellation : Seq(AbortEntries), route : Seq(RouteEntries)]

\* A sequence with one of its elements replaced.
LEMMA ElementReplaced ==
  ASSUME NEW S, NEW s \in Seq(S), NEW i \in 1 .. Len(s), NEW e \in S
  PROVE  [s EXCEPT ![i] = e] \in Seq(S) /\ Len([s EXCEPT ![i] = e]) = Len(s)
  OBVIOUS

\* The fields of a log have their types.
LEMMA LogTypes ==
  ASSUME NEW r \in LogRecords
  PROVE  /\ r.events \in Nat /\ r.runs \in Seq(RunEntries)
         /\ r.continuations \in Seq(ContinuationEntries)
         /\ r.cancellation \in Seq(AbortEntries) /\ r.route \in Seq(RouteEntries)
  BY DEF LogRecords

\* Changing the later fields of an entry leaves an entry.
LEMMA EntryChanged ==
  /\ \A x \in RunEntries, status \in RunStatuses, type \in ReturnTypes, i, j \in Int :
       [x EXCEPT !.runsAtReturn = i, !.fallbacksAtReturn = j, !.returned = type,
                 !.status = status] \in RunEntries
  /\ \A x \in RunEntries, i \in Int :
       [x EXCEPT !.status = "scheduled", !.fallback = i] \in RunEntries
  /\ \A x \in ContinuationEntries, o \in Seq(AbortEntries) :
       [x EXCEPT !.abort = o] \in ContinuationEntries
  <1>1. ASSUME NEW x \in RunEntries, NEW status \in RunStatuses, NEW type \in ReturnTypes,
               NEW i \in Int, NEW j \in Int
        PROVE  [x EXCEPT !.runsAtReturn = i, !.fallbacksAtReturn = j, !.returned = type,
                         !.status = status] \in RunEntries
    BY DEF RunEntries
  <1>2. ASSUME NEW x \in RunEntries, NEW i \in Int
        PROVE  [x EXCEPT !.status = "scheduled", !.fallback = i] \in RunEntries
    BY DEF RunEntries, RunStatuses
  <1>3. ASSUME NEW x \in ContinuationEntries, NEW o \in Seq(AbortEntries)
        PROVE  [x EXCEPT !.abort = o] \in ContinuationEntries
    BY DEF ContinuationEntries
  <1> QED BY <1>1, <1>2, <1>3

\* A log with some of its fields changed.
Run(r, n, a) == [r EXCEPT !.events = n, !.runs = a]
Continued(r, n, a, c, t) ==
  [r EXCEPT !.events = n, !.runs = a, !.continuations = c, !.route = t]
Aborted(r, n, a) == [r EXCEPT !.events = n, !.cancellation = a]

\* It is a log.
LEMMA LogChanged ==
  ASSUME NEW r \in LogRecords, NEW n \in Nat
  PROVE  /\ \A a \in Seq(RunEntries) : Run(r, n, a) \in LogRecords /\ Run(r, n, a).runs = a
         /\ \A a \in Seq(RunEntries), c \in Seq(ContinuationEntries), t \in Seq(RouteEntries) :
              Continued(r, n, a, c, t) \in LogRecords /\ Continued(r, n, a, c, t).runs = a
         /\ \A a \in Seq(AbortEntries) :
              Aborted(r, n, a) \in LogRecords /\ Aborted(r, n, a).runs = r.runs
  BY DEF LogRecords, Run, Continued, Aborted

\* The route of a continuation.
LEMMA RouteMade ==
  ASSUME NEW i \in Int, NEW status \in RouteStatuses, NEW delayed \in BOOLEAN
  PROVE  <<Post!ExecutionRoute(i, status, delayed)>> \in Seq(RouteEntries)
  <1> DEFINE handoff == Post!ActRootWorkHandoff(status, delayed)
             execution == [status |-> status, index |-> i, executed |-> FALSE]
             e == [index |-> i, status |-> status, handoff |-> handoff, execution |-> execution]
  <1>1. handoff \in Seq(RouteStatuses)
    <2>1. CASE delayed
      <3>1. handoff = <<status>>
        BY <2>1, Zenon DEF Post!ActRootWorkHandoff
      <3> HIDE DEF handoff
      <3> QED BY <3>1
    <2>2. CASE ~ delayed
      <3>1. handoff = <<>>
        BY <2>2, Zenon DEF Post!ActRootWorkHandoff
      <3> HIDE DEF handoff
      <3> QED BY <3>1
    <2> QED BY <2>1, <2>2
  <1>2. execution \in [status : RouteStatuses, index : Int, executed : BOOLEAN]
    OBVIOUS
  <1>3. Post!ExecutionRoute(i, status, delayed) = e
    BY Zenon DEF Post!ExecutionRoute, Post!RootContinuationExecution
  <1> HIDE DEF handoff, execution
  <1>4. e \in RouteEntries
    BY <1>1, <1>2 DEF RouteEntries
  <1> HIDE DEF e
  <1>5. <<e>> \in Seq(RouteEntries)
    BY <1>4
  <1> QED BY <1>3, <1>5, Zenon

\* A run adds one entry to the log.
LEMMA RunLogged ==
  ASSUME NEW r \in LogRecords, NEW p \in Int, NEW late \in BOOLEAN, NEW aborted \in BOOLEAN,
         NEW d, d = Post!RecordCallbackRun(r, p, late, aborted)
  PROVE  /\ d \in LogRecords
         /\ Len(d.runs) = Len(r.runs) + 1
  <1> DEFINE e == [event |-> r.events, priority |-> p, atDeadline |-> late, aborted |-> aborted,
                   status |-> "running", returned |-> "none", runsAtReturn |-> Post!None,
                   fallbacksAtReturn |-> Post!None, fallback |-> Post!None]
             entries == Append(r.runs, e)
             new == Run(r, r.events + 1, entries)
  <1>1. e \in RunEntries
    BY LogTypes DEF RunEntries, RunStatuses, ReturnTypes, Post!None
  <1>2. d = new
    BY DEF Post!RecordCallbackRun, LogRecords, Run
  <1> HIDE DEF e
  <1>3. entries \in Seq(RunEntries) /\ Len(entries) = Len(r.runs) + 1
    BY <1>1, LogTypes
  <1> HIDE DEF entries
  <1>4. r.events + 1 \in Nat
    BY LogTypes
  <1>5. new \in LogRecords /\ new.runs = entries
    BY <1>3, <1>4, LogChanged, Zenon
  <1> HIDE DEF new
  <1> QED BY <1>2, <1>3, <1>5, Zenon

\* The result of a callback changes the entry of its run.
LEMMA ResultLogged ==
  ASSUME NEW r \in LogRecords, NEW type \in ReturnTypes,
         NEW d, d = Post!RecordCallbackResult(r, type)
  PROVE  /\ d \in LogRecords
         /\ Len(d.runs) = Len(r.runs)
  <1> DEFINE last == Len(r.runs)
             status == IF type = "function" THEN "returned" ELSE "completed"
             e == [r.runs[last] EXCEPT !.runsAtReturn = last,
                     !.fallbacksAtReturn = Len(r.continuations), !.returned = type,
                     !.status = status]
             entries == [r.runs EXCEPT ![last] = e]
  <1>1. d = [r EXCEPT !.runs = entries]
    BY DEF Post!RecordCallbackResult
  <1>2. entries \in Seq(RunEntries) /\ Len(entries) = Len(r.runs)
    <2>t. r.runs \in Seq(RunEntries) /\ last \in Int /\ Len(r.continuations) \in Int
      BY LogTypes
    <2>1. CASE last \in 1 .. Len(r.runs)
      <3>1. r.runs[last] \in RunEntries
        BY <2>1, <2>t
      <3>2. e \in RunEntries
        <4>1. status \in RunStatuses
          BY DEF RunStatuses
        <4> HIDE DEF status, last
        <4> QED BY <3>1, <2>t, <4>1, EntryChanged, Zenon
      <3> HIDE DEF e, last
      <3> QED BY <2>1, <2>t, <3>2, ElementReplaced
    <2>2. CASE last \notin 1 .. Len(r.runs)
      <3>1. entries = r.runs
        BY <2>2, <2>t
      <3> QED BY <3>1, <2>t
    <2> QED BY <2>1, <2>2
  <1> HIDE DEF entries
  <1> QED BY <1>1, <1>2 DEF LogRecords

\* A continuation is noted at its run and becomes the route.
LEMMA ContinuationLogged ==
  ASSUME NEW r \in LogRecords, NEW yields \in BOOLEAN, NEW aborted \in BOOLEAN,
         NEW delayed \in BOOLEAN,
         NEW d, d = Post!RecordContinuationFallback(r, yields, aborted, delayed)
  PROVE  /\ d \in LogRecords
         /\ Len(d.runs) = Len(r.runs)
  <1> DEFINE index == Len(r.continuations)
             last == Len(r.runs)
             e == [r.runs[last] EXCEPT !.status = "scheduled", !.fallback = index]
             entries == [r.runs EXCEPT ![last] = e]
             c == [event |-> r.events, source |-> last - 1, runsAtSchedule |-> Len(r.runs),
                   yields |-> yields, aborted |-> aborted, abort |-> <<>>]
             continuations == Append(r.continuations, c)
             route == <<Post!ExecutionRoute(index, "pending", delayed)>>
             new == Continued(r, r.events + 1, entries, continuations, route)
  <1>t. /\ r.runs \in Seq(RunEntries) /\ last \in Nat /\ index \in Int /\ r.events \in Nat
        /\ r.continuations \in Seq(ContinuationEntries) /\ last - 1 + 1 = last
    BY LogTypes
  <1>1. d = new
    BY <1>t DEF Post!RecordContinuationFallback, LogRecords, Continued
  <1>2. entries \in Seq(RunEntries) /\ Len(entries) = Len(r.runs)
    <2>1. CASE last \in 1 .. Len(r.runs)
      <3>1. r.runs[last] \in RunEntries
        BY <2>1, <1>t
      <3>2. e \in RunEntries
        <4> HIDE DEF index, last
        <4> QED BY <3>1, <1>t, EntryChanged, Zenon
      <3> HIDE DEF e, last
      <3> QED BY <2>1, <1>t, <3>2, ElementReplaced
    <2>2. CASE last \notin 1 .. Len(r.runs)
      <3>1. entries = r.runs
        BY <2>2, <1>t
      <3> QED BY <3>1, <1>t
    <2> QED BY <2>1, <2>2
  <1>3. continuations \in Seq(ContinuationEntries)
    <2>1. c \in ContinuationEntries
      BY <1>t DEF ContinuationEntries
    <2> HIDE DEF c
    <2> QED BY <2>1, <1>t
  <1>4. route \in Seq(RouteEntries)
    BY <1>t, RouteMade, Zenon DEF RouteStatuses
  <1> HIDE DEF entries, continuations, route
  <1>5. r.events + 1 \in Nat
    BY <1>t
  <1>6. new \in LogRecords /\ new.runs = entries
    BY <1>2, <1>3, <1>4, <1>5, LogChanged, ZenonT(40)
  <1> HIDE DEF new
  <1> QED BY <1>1, <1>2, <1>6, Zenon

\* A cancellation changes no run.
LEMMA CancellationLogged ==
  ASSUME NEW r \in LogRecords, NEW before \in BOOLEAN, NEW delayed \in BOOLEAN,
         NEW d, d = Post!RecordCancellation(r, before, delayed)
  PROVE  /\ d \in LogRecords
         /\ d.runs = r.runs
  <1> DEFINE ordering == [request |-> r.events, completion |-> r.events + 1,
                          runs |-> Len(r.runs), fallbacks |-> Len(r.continuations),
                          before |-> before, after |-> TRUE]
             s == Aborted(r, r.events + 2, <<ordering>>)
             last == Len(s.continuations)
             e == [s.continuations[last] EXCEPT !.abort = <<ordering>>]
             continuations == [s.continuations EXCEPT ![last] = e]
             noted == [s EXCEPT !.continuations = continuations]
             route == <<Post!ExecutionRoute(last - 1, "aborted", delayed)>>
  <1>t. /\ r.runs \in Seq(RunEntries) /\ r.events \in Nat
        /\ r.continuations \in Seq(ContinuationEntries)
    BY LogTypes
  <1>1. ordering \in AbortEntries
    BY <1>t DEF AbortEntries
  <1>2. d =
          Post!RecordAbortOrdering(s, ordering, delayed)
    BY DEF Post!RecordCancellation, LogRecords, Aborted
  <1> HIDE DEF ordering
  <1>3. s \in LogRecords /\ s.runs = r.runs
    <2>1. r.events + 2 \in Nat /\ <<ordering>> \in Seq(AbortEntries)
      BY <1>1, <1>t
    <2> QED BY <2>1, LogChanged, Zenon
  <1> HIDE DEF s
  <1>4. s.continuations \in Seq(ContinuationEntries) /\ last \in Nat
    BY <1>3, LogTypes
  <1>5. CASE s.continuations = <<>>
    BY <1>2, <1>3, <1>5 DEF Post!RecordAbortOrdering
  <1>6. CASE s.continuations # <<>>
    <2>1. last \in 1 .. Len(s.continuations) /\ s.continuations[last] \in ContinuationEntries
      BY <1>4, <1>6
    <2>2. e \in ContinuationEntries
      <3>1. <<ordering>> \in Seq(AbortEntries)
        BY <1>1
      <3> HIDE DEF last
      <3> QED BY <2>1, <3>1, EntryChanged, Zenon
    <2>3. continuations \in Seq(ContinuationEntries)
      <3> HIDE DEF e, last
      <3> QED BY <2>1, <2>2, <1>4, ElementReplaced
    <2>4. Post!RecordAbortOrdering(s, ordering, delayed) \in {noted, [noted EXCEPT !.route = route]}
      BY <1>6 DEF Post!RecordAbortOrdering
    <2>5. route \in Seq(RouteEntries)
      <3>1. last - 1 \in Int
        BY <1>4
      <3> HIDE DEF last
      <3> QED BY <3>1, RouteMade, Zenon DEF RouteStatuses
    <2> HIDE DEF continuations, route
    <2>6. noted \in LogRecords /\ noted.runs = r.runs
      BY <1>3, <2>3 DEF LogRecords
    <2>7. [noted EXCEPT !.route = route] \in LogRecords /\ [noted EXCEPT !.route = route].runs = r.runs
      <3> HIDE DEF noted
      <3> QED BY <2>5, <2>6 DEF LogRecords
    <2> QED BY <1>2, <2>4, <2>6, <2>7
  <1> QED BY <1>5, <1>6

PostTyped ==
  /\ postPriority \in Int /\ wrapped \subseteq Int
  /\ postTask \in [PostNodes -> PostTasks] /\ postRecord \in [PostNodes -> LogRecords]

\* Whatever waits for the browser was posted with the signal of its task.
AllSignalled == posted \subseteq [node : PostNodes, signalled : {TRUE}]

\* A call saved the level of the call around it, the outermost one the normal level, and the
\* callback of a task runs on an empty stack.
StackOk ==
  /\ postStack \in Seq(Frames)
  /\ Post!PriorityFollowsStack
  /\ postStack # <<>> => postStack[1].saved = Post!NormalPriority
  /\ \A i \in 2 .. Len(postStack) :
       postStack[i].saved = postStack[i - 1].given /\ postStack[i].node = <<>>

PostInv == PostTyped /\ AllSignalled /\ StackOk

\* A cancelled callback does not run.
CancelledStay ==
  \A n \in PostNodes : postTask[n].aborted =>
    Len(postRecord'[n].runs) = Len(postRecord[n].runs)

\* A callback is posted with its signal.
LEMMA Signalled ==
  ASSUME AllSignalled, NEW n \in PostNodes, posted' = posted \cup {[node |-> n, signalled |-> TRUE]}
  PROVE  AllSignalled'
  <1> DEFINE p == [node |-> n, signalled |-> TRUE]
  <1>1. p \in [node : PostNodes, signalled : {TRUE}]
    OBVIOUS
  <1> HIDE DEF p
  <1>2. posted' = posted \cup {p}
    BY DEF p
  <1> QED BY <1>1, <1>2 DEF AllSignalled

\* A nested call.
LEMMA EnterKeeps ==
  ASSUME PostInv, NEW level \in Int, Post!Enter(level)
  PROVE  PostInv' /\ CancelledStay
  <1> DEFINE f == [node |-> <<>>, saved |-> postPriority, given |-> level]
  <1>1. /\ postStack' = Append(postStack, f) /\ postPriority' = level
        /\ UNCHANGED <<sliceLeft, wrapped, postTask, posted, postRecord, postTrace>>
    BY DEF Post!Enter
  <1>2. f \in Frames /\ f.given = level /\ f.saved = postPriority /\ f.node = <<>>
    BY DEF PostInv, PostTyped, Frames
  <1> HIDE DEF f
  <1>3. /\ postStack' \in Seq(Frames) /\ Len(postStack') = Len(postStack) + 1
        /\ postStack'[Len(postStack) + 1] = f
        /\ \A i \in 1 .. Len(postStack) : postStack'[i] = postStack[i]
        /\ Len(postStack) \in Nat
    BY <1>1, <1>2 DEF PostInv, StackOk
  <1>4. StackOk'
    <2>1. postStack' # <<>> /\ Post!PriorityFollowsStack'
      BY <1>1, <1>2, <1>3 DEF Post!PriorityFollowsStack
    <2>2. postStack'[1].saved = Post!NormalPriority
      <3>1. CASE postStack = <<>>
        BY <3>1, <1>2, <1>3 DEF PostInv, StackOk, Post!PriorityFollowsStack
      <3>2. CASE postStack # <<>>
        BY <3>2, <1>3 DEF PostInv, StackOk
      <3> QED BY <3>1, <3>2
    <2>3. ASSUME NEW i \in 2 .. Len(postStack')
          PROVE  postStack'[i].saved = postStack'[i - 1].given /\ postStack'[i].node = <<>>
      <3>1. CASE i \in 2 .. Len(postStack)
        BY <3>1, <1>3 DEF PostInv, StackOk
      <3>2. CASE i = Len(postStack) + 1
        BY <3>2, <1>2, <1>3 DEF PostInv, StackOk, Post!PriorityFollowsStack
      <3> QED BY <2>3, <3>1, <3>2, <1>3
    <2> QED BY <2>1, <2>2, <2>3, <1>3 DEF StackOk
  <1>5. PostTyped' /\ AllSignalled'
    BY <1>1 DEF PostInv, PostTyped, AllSignalled
  <1> QED BY <1>1, <1>4, <1>5 DEF PostInv, CancelledStay

\* The callback of a task is the only call when it returns.
LEMMA TaskEnds ==
  ASSUME PostInv, NEW n \in PostNodes, Post!Running(n), Post!RestorePriority(postStack[1]),
         postStack' = <<>>
  PROVE  StackOk' /\ postPriority' \in Int
  <1>1. postPriority' = Post!NormalPriority
    BY DEF PostInv, StackOk, Post!Running, Post!RestorePriority
  <1> QED BY <1>1 DEF StackOk, Post!PriorityFollowsStack, Post!NormalPriority

\* Every call and every step of the browser keeps the invariant, and no cancelled callback runs.
LEMMA PostStep ==
  ASSUME PostInv, Post!Next
  PROVE  PostInv' /\ CancelledStay
  <1>p. /\ PostPriorities \subseteq Int /\ PostDelays \subseteq Nat /\ HasYield \in BOOLEAN
        /\ SliceLength \in Nat
    BY PostInstance
  <1>t. /\ postPriority \in Int /\ wrapped \subseteq Int
        /\ postTask \in [PostNodes -> PostTasks] /\ postRecord \in [PostNodes -> LogRecords]
        /\ posted \subseteq [node : PostNodes, signalled : {TRUE}]
        /\ StackOk
    BY DEF PostInv, PostTyped, AllSignalled
  <1>k. \A n \in PostNodes :
          /\ postTask[n].aborted \in BOOLEAN /\ postTask[n].priority \in Int
          /\ Post!Delayed(n) \in BOOLEAN /\ postRecord[n] \in LogRecords
    BY <1>t DEF PostTasks, Post!Delayed
  <1>1. ASSUME NEW n \in PostNodes, NEW p \in PostPriorities, NEW d \in PostDelays,
               Post!ScheduleCallback(n, p, d)
        PROVE  PostInv' /\ CancelledStay
    <2> DEFINE new == [priority |-> p, postTaskPriority |-> Post!PostTaskPriority(p),
                       delay |-> d, aborted |-> FALSE]
    <2>1. /\ postTask' = [postTask EXCEPT ![n] = new]
          /\ postRecord' = [postRecord EXCEPT ![n] = Post!NewRecord]
          /\ posted' = posted \cup {[node |-> n, signalled |-> TRUE]}
          /\ UNCHANGED <<postPriority, sliceLeft, postStack, wrapped>>
          /\ postTask[n] = Post!NoTask
      BY <1>1 DEF Post!ScheduleCallback, Post!Scheduled
    <2>2. new \in PostTasks
      <3>1. Post!PostTaskPriority(p) \in {"none", "user-blocking", "user-visible", "background"}
        BY DEF Post!PostTaskPriority
      <3> QED BY <3>1, <1>p DEF PostTasks
    <2>3. Post!NewRecord \in LogRecords
      BY DEF Post!NewRecord, LogRecords
    <2>4. ~ postTask[n].aborted
      BY <2>1 DEF Post!NoTask
    <2> HIDE DEF new
    <2>5. PostTyped' /\ AllSignalled'
      <3>1. AllSignalled'
        BY <2>1, <1>t, Signalled DEF PostInv
      <3>2. PostTyped'
        BY <2>1, <2>2, <2>3, <1>t DEF PostTyped
      <3> QED BY <3>1, <3>2
    <2>6. StackOk'
      BY <2>1, <1>t DEF StackOk, Post!PriorityFollowsStack
    <2>7. CancelledStay
      BY <2>1, <2>4, <1>t DEF CancelledStay
    <2> QED BY <2>5, <2>6, <2>7 DEF PostInv
  <1>2. ASSUME NEW n \in PostNodes, Post!CancelCallback(n)
        PROVE  PostInv' /\ CancelledStay
    <2> DEFINE new == Post!RecordCancellation(postRecord[n], postTask[n].aborted, Post!Delayed(n))
    <2>1. /\ postTask' = [postTask EXCEPT ![n].aborted = TRUE]
          /\ postRecord' = [postRecord EXCEPT ![n] = new]
          /\ UNCHANGED <<postPriority, sliceLeft, postStack, wrapped, posted>>
      BY <1>2 DEF Post!CancelCallback
    <2>2. new \in LogRecords /\ new.runs = postRecord[n].runs
      BY <1>k, CancellationLogged, ZenonT(40)
    <2> HIDE DEF new
    <2>3. postTask' \in [PostNodes -> PostTasks]
      BY <2>1, <1>t DEF PostTasks
    <2>4. PostTyped' /\ AllSignalled'
      BY <2>1, <2>2, <2>3, <1>t DEF PostTyped, AllSignalled
    <2>5. StackOk'
      BY <2>1, <1>t DEF StackOk, Post!PriorityFollowsStack
    <2>6. CancelledStay
      BY <2>1, <2>2, <1>t DEF CancelledStay
    <2> QED BY <2>4, <2>5, <2>6 DEF PostInv
  <1>3. ASSUME NEW n \in PostNodes, Post!RejectAborted(n)
        PROVE  PostInv' /\ CancelledStay
    <2>1. /\ posted' \subseteq posted
          /\ UNCHANGED <<postPriority, sliceLeft, postStack, wrapped, postTask, postRecord>>
      BY <1>3 DEF Post!RejectAborted
    <2>2. PostTyped' /\ AllSignalled'
      BY <2>1, <1>t DEF PostTyped, AllSignalled
    <2>3. StackOk'
      BY <2>1, <1>t DEF StackOk, Post!PriorityFollowsStack
    <2> QED BY <2>1, <2>2, <2>3 DEF PostInv, CancelledStay
  <1>4. ASSUME NEW n \in PostNodes, Post!StartTask(n)
        PROVE  PostInv' /\ CancelledStay
    <2> DEFINE late == sliceLeft' = 0
               new == Post!RecordCallbackRun(postRecord[n], postTask[n].priority, late,
                                             postTask[n].aborted)
               f == [node |-> <<n>>, saved |-> Post!NormalPriority,
                     given |-> postTask[n].priority]
    <2>1. /\ postPriority' = postTask[n].priority /\ postStack' = <<f>>
          /\ postRecord' = [postRecord EXCEPT ![n] = new]
          /\ UNCHANGED <<wrapped, postTask>>
      BY <1>4 DEF Post!StartTask
    <2>2. PICK p \in Post!Ready(n) : posted' = posted \ {p}
      BY <1>4 DEF Post!StartTask
    <2>3. ~ postTask[n].aborted
      BY <2>2, <1>t DEF Post!Ready
    <2>4. new \in LogRecords
      <3>1. late \in BOOLEAN
        OBVIOUS
      <3> HIDE DEF late
      <3> QED BY <3>1, <1>k, RunLogged, Zenon
    <2>5. f \in Frames /\ f.given = postTask[n].priority /\ f.saved = Post!NormalPriority
      BY <1>k DEF Frames, Post!NormalPriority
    <2> HIDE DEF new, f
    <2>6. PostTyped' /\ AllSignalled'
      BY <2>1, <2>2, <2>4, <1>k, <1>t DEF PostTyped, AllSignalled
    <2>7. StackOk'
      BY <2>1, <2>5 DEF StackOk, Post!PriorityFollowsStack
    <2>8. CancelledStay
      BY <2>1, <2>3, <1>t DEF CancelledStay
    <2> QED BY <2>6, <2>7, <2>8 DEF PostInv
  <1>5. ASSUME NEW n \in PostNodes, Post!ReturnContinuation(n)
        PROVE  PostInv' /\ CancelledStay
    <2> DEFINE mid == Post!RecordCallbackResult(postRecord[n], "function")
               new == Post!RecordContinuationFallback(mid, HasYield, postTask[n].aborted,
                                                      Post!Delayed(n))
    <2>1. /\ postRecord' = [postRecord EXCEPT ![n] = new]
          /\ posted' = posted \cup {[node |-> n, signalled |-> TRUE]}
          /\ postStack' = <<>> /\ UNCHANGED <<sliceLeft, wrapped, postTask>>
      BY <1>5 DEF Post!ReturnContinuation, Post!PostContinuation
    <2>2. mid \in LogRecords /\ Len(mid.runs) = Len(postRecord[n].runs)
      <3>1. "function" \in ReturnTypes
        BY DEF ReturnTypes
      <3> QED BY <3>1, <1>k, ResultLogged, Zenon
    <2> HIDE DEF mid
    <2>3. new \in LogRecords /\ Len(new.runs) = Len(mid.runs)
      <3> DEFINE stopped == postTask[n].aborted
                 late == Post!Delayed(n)
      <3>1. HasYield \in BOOLEAN /\ stopped \in BOOLEAN /\ late \in BOOLEAN
        BY <1>p, <1>k
      <3>2. new = Post!RecordContinuationFallback(mid, HasYield, stopped, late)
        OBVIOUS
      <3> HIDE DEF stopped, late, new
      <3> QED BY <2>2, <3>1, <3>2, ContinuationLogged, Zenon
    <2> HIDE DEF new
    <2>4. StackOk' /\ postPriority' \in Int
      BY <1>5, TaskEnds DEF Post!ReturnContinuation
    <2>5. PostTyped' /\ AllSignalled'
      <3>1. AllSignalled'
        BY <2>1, <1>t, Signalled DEF PostInv
      <3>2. PostTyped'
        BY <2>1, <2>3, <2>4, <1>t DEF PostTyped
      <3> QED BY <3>1, <3>2
    <2>6. CancelledStay
      BY <2>1, <2>2, <2>3, <1>t DEF CancelledStay
    <2> QED BY <2>4, <2>5, <2>6 DEF PostInv
  <1>6. ASSUME NEW n \in PostNodes, NEW type \in Post!Results, Post!ReturnResult(n, type)
        PROVE  PostInv' /\ CancelledStay
    <2> DEFINE new == Post!RecordCallbackResult(postRecord[n], type)
    <2>1. /\ postRecord' = [postRecord EXCEPT ![n] = new]
          /\ postStack' = <<>> /\ UNCHANGED <<sliceLeft, wrapped, postTask, posted>>
      BY <1>6 DEF Post!ReturnResult
    <2>2. new \in LogRecords /\ Len(new.runs) = Len(postRecord[n].runs)
      <3>1. type \in ReturnTypes
        BY DEF ReturnTypes, Post!Results
      <3> QED BY <3>1, <1>k, ResultLogged, Zenon
    <2> HIDE DEF new
    <2>3. StackOk' /\ postPriority' \in Int
      BY <1>6, TaskEnds DEF Post!ReturnResult
    <2>4. PostTyped' /\ AllSignalled'
      BY <2>1, <2>2, <2>3, <1>t DEF PostTyped, AllSignalled
    <2>5. CancelledStay
      BY <2>1, <2>2, <1>t DEF CancelledStay
    <2> QED BY <2>3, <2>4, <2>5 DEF PostInv
  <1>7. ASSUME NEW n \in PostNodes, Post!Throw(n)
        PROVE  PostInv' /\ CancelledStay
    <2>1. postStack' = <<>> /\ UNCHANGED <<sliceLeft, wrapped, postTask, posted, postRecord>>
      BY <1>7 DEF Post!Throw
    <2>2. StackOk' /\ postPriority' \in Int
      BY <1>7, TaskEnds DEF Post!Throw
    <2>3. PostTyped' /\ AllSignalled'
      BY <2>1, <2>2, <1>t DEF PostTyped, AllSignalled
    <2> QED BY <2>1, <2>2, <2>3 DEF PostInv, CancelledStay
  <1>8. ASSUME NEW p \in PostPriorities, Post!RunWithPriority(p) \/ Post!CallWrapped(p)
        PROVE  PostInv' /\ CancelledStay
    BY <1>8, <1>p, EnterKeeps DEF Post!RunWithPriority, Post!CallWrapped
  <1>9. ASSUME Post!RunNext PROVE PostInv' /\ CancelledStay
    <2> DEFINE level == IF postPriority \in {1, 2, 3} THEN Post!NormalPriority ELSE postPriority
    <2>1. level \in Int
      BY <1>t DEF Post!NormalPriority
    <2>2. Post!Enter(level)
      BY <1>9 DEF Post!RunNext
    <2> HIDE DEF level
    <2> QED BY <2>1, <2>2, EnterKeeps
  <1>10. ASSUME Post!WrapCallback PROVE PostInv' /\ CancelledStay
    <2>1. /\ wrapped' = wrapped \cup {postPriority}
          /\ UNCHANGED <<postPriority, sliceLeft, postStack, postTask, posted, postRecord>>
      BY <1>10 DEF Post!WrapCallback
    <2>2. PostTyped' /\ AllSignalled'
      BY <2>1, <1>t DEF PostTyped, AllSignalled
    <2>3. StackOk'
      BY <2>1, <1>t DEF StackOk, Post!PriorityFollowsStack
    <2> QED BY <2>1, <2>2, <2>3 DEF PostInv, CancelledStay
  <1>11. ASSUME Post!Leave PROVE PostInv' /\ CancelledStay
    <2> DEFINE n == Len(postStack)
    <2>1. /\ postStack # <<>> /\ postPriority' = postStack[n].saved
          /\ postStack' = SubSeq(postStack, 1, n - 1)
          /\ UNCHANGED <<sliceLeft, wrapped, postTask, posted, postRecord>>
      BY <1>11 DEF Post!Leave, Post!RestorePriority
    <2>2. postStack \in Seq(Frames) /\ n \in Nat \ {0} /\ postStack[n] \in Frames
      BY <2>1, <1>t DEF StackOk
    <2>n. n = Len(postStack)
      OBVIOUS
    <2> HIDE DEF n
    <2>3. /\ postStack' \in Seq(Frames) /\ Len(postStack') = n - 1
          /\ \A i \in 1 .. n - 1 : postStack'[i] = postStack[i]
      BY <2>1, <2>2, <2>n
    <2>4. postPriority' \in Int
      BY <2>1, <2>2 DEF Frames
    <2>5. PostTyped' /\ AllSignalled'
      BY <2>1, <2>4, <1>t DEF PostTyped, AllSignalled
    <2>6. Post!PriorityFollowsStack'
      <3>1. CASE n = 1
        <4>1. postStack' = <<>>
          BY <3>1, <2>3
        <4> QED BY <4>1, <3>1, <2>1, <2>n, <1>t DEF StackOk, Post!PriorityFollowsStack
      <3>2. CASE n > 1
        <4>1. postStack' # <<>> /\ postStack'[Len(postStack')] = postStack[n - 1]
          BY <3>2, <2>2, <2>3
        <4>2. postStack[n].saved = postStack[n - 1].given
          BY <3>2, <2>2, <2>n, <1>t DEF StackOk
        <4> QED BY <4>1, <4>2, <2>1 DEF Post!PriorityFollowsStack
      <3> QED BY <3>1, <3>2, <2>2
    <2>7. StackOk'
      <3>1. postStack' # <<>> => postStack'[1].saved = Post!NormalPriority
        BY <2>1, <2>2, <2>3, <2>n, <1>t DEF StackOk
      <3>2. \A i \in 2 .. Len(postStack') :
              postStack'[i].saved = postStack'[i - 1].given /\ postStack'[i].node = <<>>
        <4> SUFFICES ASSUME NEW i \in 2 .. Len(postStack')
                     PROVE  postStack'[i].saved = postStack'[i - 1].given /\ postStack'[i].node = <<>>
          OBVIOUS
        <4>1. i \in 2 .. n /\ i \in 1 .. n - 1 /\ i - 1 \in 1 .. n - 1
          BY <2>2, <2>3
        <4>2. postStack'[i] = postStack[i] /\ postStack'[i - 1] = postStack[i - 1]
          BY <4>1, <2>3
        <4>3. postStack[i].saved = postStack[i - 1].given /\ postStack[i].node = <<>>
          BY <4>1, <2>n, <1>t DEF StackOk
        <4> QED BY <4>2, <4>3
      <3> QED BY <2>3, <2>6, <3>1, <3>2 DEF StackOk
    <2> QED BY <2>1, <2>5, <2>7 DEF PostInv, CancelledStay
  <1>12. ASSUME Post!Tick PROVE PostInv' /\ CancelledStay
    <2>1. UNCHANGED <<postPriority, postStack, wrapped, postTask, posted, postRecord>>
      BY <1>12 DEF Post!Tick
    <2>2. PostTyped' /\ AllSignalled' /\ StackOk'
      BY <2>1, <1>t DEF PostTyped, AllSignalled, StackOk, Post!PriorityFollowsStack
    <2> QED BY <2>1, <2>2 DEF PostInv, CancelledStay
  <1> QED
    BY <1>1, <1>2, <1>3, <1>4, <1>5, <1>6, <1>7, <1>8, <1>9, <1>10, <1>11, <1>12 DEF Post!Next

\* The initial state and the steps of the browser and its callers keep the invariant.
LEMMA PostInvHolds == Post!Spec => []PostInv
  <1>1. Post!Init => PostInv
    <2> SUFFICES ASSUME Post!Init PROVE PostInv
      OBVIOUS
    <2>1. Post!NoTask \in PostTasks
      BY DEF Post!NoTask, PostTasks, Post!None
    <2>2. Post!NoRecord \in LogRecords
      <3>1. Post!NewRecord \in LogRecords
        BY DEF Post!NewRecord, LogRecords
      <3> QED BY <3>1 DEF Post!NoRecord, LogRecords
    <2>3. PostTyped /\ AllSignalled
      BY <2>1, <2>2 DEF Post!Init, PostTyped, AllSignalled, Post!NormalPriority
    <2>4. StackOk
      BY DEF Post!Init, StackOk, Post!PriorityFollowsStack
    <2> QED BY <2>3, <2>4 DEF PostInv
  <1>2. PostInv /\ [Post!Next]_(Post!vars) => PostInv'
    <2>1. ASSUME PostInv, UNCHANGED Post!vars PROVE PostInv'
      BY <2>1 DEF Post!vars, PostInv, PostTyped, AllSignalled, StackOk, Post!PriorityFollowsStack
    <2> QED BY <2>1, PostStep
  <1> QED BY <1>1, <1>2, PTL DEF Post!Spec

\* Code sees the priority of the innermost call around it, whatever calls, tasks and wrapped
\* callbacks were nested, and the normal one when the browser is in control
\* (scheduler-unstable_post_task.development.js).
THEOREM PriorityFollows == Post!Spec => []Post!PriorityFollowsStack
  <1>1. PostInv => Post!PriorityFollowsStack
    BY DEF PostInv, StackOk
  <1> QED BY <1>1, PostInvHolds, PTL

\* No run of a cancelled callback starts, whether its first run or a continuation was waiting
\* (unstable_cancelCallback).
THEOREM CancelledStop == Post!Spec => CancelledNeverRuns
  <1>1. PostInv /\ [Post!Next]_(Post!vars) => [CancelledStay]_(Post!vars)
    BY PostStep
  <1>2. Post!Spec => [][Post!Next]_(Post!vars)
    BY DEF Post!Spec
  <1>3. Post!Spec => [][CancelledStay]_(Post!vars)
    BY <1>1, <1>2, PostInvHolds, PTL
  <1> QED BY <1>3 DEF CancelledNeverRuns, Post!CancelledNeverRuns, CancelledStay

-----------------------------------------------------------------------------
(***************************************************************************)
(* The log of a post-task callback                                         *)
(***************************************************************************)
TraceSteps == {"schedule", "run", "continue", "cancel", "aborted"}

\* The entry of a run that began as event e: while it runs, when it has completed with a
\* result of the given type, and when it was continued as the i-th run.
LoggedRun(e, p, status, type, returned, fallbacks, fallback) ==
  [event |-> e, priority |-> p, atDeadline |-> FALSE, aborted |-> FALSE, status |-> status,
   returned |-> type, runsAtReturn |-> returned, fallbacksAtReturn |-> fallbacks, fallback |-> fallback]
RunEntry(e, p) == LoggedRun(e, p, "running", "none", Post!None, Post!None, Post!None)
CompletedEntry(e, p, type, i) == LoggedRun(e, p, "completed", type, i, i - 1, Post!None)
ContinuedEntry(e, p, i) == LoggedRun(e, p, "scheduled", "function", i, i - 1, i - 1)

\* Runs and continuations alternate; how says how the last run ended.
Alternate(entries, conts, how) ==
  /\ Len(conts) <= Len(entries) /\ Len(entries) <= Len(conts) + 1
  /\ how # "open" => Len(entries) = Len(conts) + 1

\* The entry x of the i-th run, of a callback that was continued m times.
EntryIs(x, i, m, p, how) ==
  x = IF i <= m THEN ContinuedEntry(x.event, p, i)
      ELSE IF how \in Post!Results THEN CompletedEntry(x.event, p, how, i)
      ELSE RunEntry(x.event, p)
EntriesOk(entries, m, p, how) == \A i \in 1 .. Len(entries) : EntryIs(entries[i], i, m, p, how)

ContinuationIs(c, i) == c.source = i - 1 /\ c.runsAtSchedule = i /\ c.yields = HasYield
ContinuationsOk(conts) == \A i \in 1 .. Len(conts) : ContinuationIs(conts[i], i)

\* Event e of the log is step what of the trace t.
IsStep(t, e, what) == e \in 0 .. Len(t) - 1 /\ t[e + 1] = what

RunsTold(entries, t) == \A i \in 1 .. Len(entries) : IsStep(t, entries[i].event, "run")
ContinuationsTold(conts, t) == \A i \in 1 .. Len(conts) : IsStep(t, conts[i].event, "continue")
CancellationTold(cancellation, t) ==
  cancellation # <<>> => /\ IsStep(t, cancellation[1].request, "cancel")
                         /\ IsStep(t, cancellation[1].completion, "aborted")

\* A continuation comes between the run that returned it and the next one.
Between(entries, conts) ==
  \A i \in 1 .. Len(conts) :
    /\ entries[i].event < conts[i].event
    /\ i + 1 <= Len(entries) => conts[i].event < entries[i + 1].event

LogParts(entries, conts, cancellation, t, how, p) ==
  /\ Alternate(entries, conts, how) /\ EntriesOk(entries, Len(conts), p, how)
  /\ ContinuationsOk(conts) /\ Between(entries, conts)
  /\ RunsTold(entries, t) /\ ContinuationsTold(conts, t) /\ CancellationTold(cancellation, t)

RouteIs(r, status, delayed) ==
  IF r.continuations = <<>> THEN r.route = <<>>
  ELSE r.route = <<Post!ExecutionRoute(Len(r.continuations) - 1, status, delayed)>>

\* The log of a callback that was not cancelled.
PlainLog(entries, conts, t) ==
  /\ Len(t) = 1 + Len(entries) + Len(conts) /\ t[1] = "schedule"
  /\ \A i \in 1 .. Len(entries) : entries[i].event = 2 * i - 1
  /\ \A i \in 1 .. Len(conts) : conts[i].event = 2 * i

\* The route of one that was: unless a continuation was scheduled after the cancellation, it
\* says so.
CancelledRoute(r, delayed) ==
  \/ RouteIs(r, "aborted", delayed)
  \/ RouteIs(r, "pending", delayed) /\ Len(r.continuations) = Len(r.runs)

HasCancel(t) == \E i \in 1 .. Len(t) : t[i] = "cancel"

\* The log r with the trace t, of a callback with priority p whose last run ended as how says.
LogIs(r, t, how, p, stopped, delayed) ==
  /\ LogParts(r.runs, r.continuations, r.cancellation, t, how, p) /\ r.events = Len(t)
  /\ ~ stopped => PlainLog(r.runs, r.continuations, t) /\ RouteIs(r, "pending", delayed)
  /\ stopped => HasCancel(t) /\ CancelledRoute(r, delayed)

LogOk(n) ==
  /\ LogIs(postRecord[n], postTrace[n], postEnding[n], postTask[n].priority,
           postTask[n].aborted, Post!Delayed(n))
  /\ postTask[n].postTaskPriority = Post!PostTaskPriority(postTask[n].priority)

NodeFresh(n) ==
  /\ postTask[n] = Post!NoTask /\ postTrace[n] = <<>>
  /\ postRecord[n] = Post!NoRecord /\ postEnding[n] = "open"

IsPosted(n) == \E p \in posted : p.node = n
OnStack(n) == postStack # <<>> /\ postStack[1].node = <<n>>

\* What waits for the browser is not running, and was continued when it ran before.
NodeWaits(n) ==
  /\ IsPosted(n) =>
       /\ n \in Post!Scheduled /\ postEnding[n] = "open" /\ ~ OnStack(n)
       /\ Len(postRecord[n].runs) = Len(postRecord[n].continuations)
  /\ OnStack(n) =>
       /\ n \in Post!Scheduled /\ postEnding[n] = "open"
       /\ Len(postRecord[n].runs) = Len(postRecord[n].continuations) + 1

NodeOk(n) ==
  /\ NodeWaits(n)
  /\ n \in Post!Scheduled => LogOk(n)
  /\ n \notin Post!Scheduled => NodeFresh(n)

Endings == Post!Results \cup {"open", "throw"}

LogTyped ==
  /\ postTrace \in [PostNodes -> Seq(TraceSteps)]
  /\ postEnding \in [PostNodes -> Endings]

LogInv == LogTyped /\ \A n \in PostNodes : NodeOk(n)

\* The fields of a log after a run began, and of its entry.
LEMMA RunFields ==
  ASSUME NEW r \in LogRecords, NEW p \in Int,
         NEW d, d = Post!RecordCallbackRun(r, p, FALSE, FALSE)
  PROVE  /\ d.events = r.events + 1 /\ d.runs = Append(r.runs, RunEntry(r.events, p))
         /\ d.continuations = r.continuations /\ d.cancellation = r.cancellation
         /\ d.route = r.route
  BY DEF Post!RecordCallbackRun, LogRecords, RunEntry, LoggedRun

\* The fields of an entry.
LEMMA EntryFields ==
  ASSUME NEW e \in Nat, NEW p \in Int, NEW status \in RunStatuses, NEW type \in ReturnTypes,
         NEW a \in Int, NEW b \in Int, NEW f \in Int
  PROVE  /\ LoggedRun(e, p, status, type, a, b, f) \in RunEntries
         /\ LoggedRun(e, p, status, type, a, b, f).event = e
         /\ LoggedRun(e, p, status, type, a, b, f).fallback = f
  BY DEF LoggedRun, RunEntries

\* The fields of the entry of a run.
LEMMA RunEntryFields ==
  ASSUME NEW e \in Nat, NEW p \in Int
  PROVE  RunEntry(e, p) \in RunEntries /\ RunEntry(e, p).event = e
  <1>1. "running" \in RunStatuses /\ "none" \in ReturnTypes /\ Post!None \in Int
    BY DEF RunStatuses, ReturnTypes, Post!None
  <1> QED BY <1>1, EntryFields DEF RunEntry

\* The fields of the entry of a run that returned.
LEMMA ReturnedFields ==
  ASSUME NEW e \in Nat, NEW p \in Int, NEW i \in Nat
  PROVE  /\ \A type \in Post!Results : /\ CompletedEntry(e, p, type, i) \in RunEntries
                                        /\ CompletedEntry(e, p, type, i).event = e
         /\ ContinuedEntry(e, p, i) \in RunEntries /\ ContinuedEntry(e, p, i).event = e
         /\ ContinuedEntry(e, p, i).fallback = i - 1
  <1>1. /\ {"completed", "scheduled"} \subseteq RunStatuses /\ Post!None \in Int
        /\ i \in Int /\ i - 1 \in Int
        /\ "function" \in ReturnTypes /\ \A type \in Post!Results : type \in ReturnTypes
    BY DEF RunStatuses, ReturnTypes, Post!Results, Post!None
  <1> QED BY <1>1, EntryFields DEF CompletedEntry, ContinuedEntry

\* An entry whose run returned, and one whose continuation was scheduled.
Returned(x, c, d, type, u) ==
  [x EXCEPT !.runsAtReturn = c, !.fallbacksAtReturn = d, !.returned = type, !.status = u]
Rescheduled(x, g) == [x EXCEPT !.status = "scheduled", !.fallback = g]

\* What the first is.
LEMMA EntryReturned ==
  ASSUME NEW e, NEW p, NEW s, NEW before, NEW a, NEW b, NEW f, NEW u, NEW c, NEW d, NEW type
  PROVE  Returned(LoggedRun(e, p, s, before, a, b, f), c, d, type, u)
           = LoggedRun(e, p, u, type, c, d, f)
  <1> DEFINE x == LoggedRun(e, p, s, before, a, b, f)
             y == [x EXCEPT !.runsAtReturn = c, !.fallbacksAtReturn = d, !.returned = type,
                            !.status = u]
  <1>1. DOMAIN x = {"event", "priority", "atDeadline", "aborted", "status", "returned",
                    "runsAtReturn", "fallbacksAtReturn", "fallback"}
    BY DEF LoggedRun
  <1>2. y = [field \in DOMAIN x |-> y[field]]
    OBVIOUS
  <1>3. /\ y.event = e /\ y.priority = p /\ y.atDeadline = FALSE /\ y.aborted = FALSE
        /\ y.status = u /\ y.returned = type /\ y.runsAtReturn = c /\ y.fallbacksAtReturn = d /\ y.fallback = f
    BY DEF LoggedRun
  <1> HIDE DEF y
  <1>4. y = LoggedRun(e, p, u, type, c, d, f)
    BY <1>1, <1>2, <1>3 DEF LoggedRun
  <1> QED BY <1>4 DEF y, Returned

\* What the second is.
LEMMA EntryRescheduled ==
  ASSUME NEW e, NEW p, NEW s, NEW type, NEW a, NEW b, NEW f, NEW g
  PROVE  Rescheduled(LoggedRun(e, p, s, type, a, b, f), g)
           = LoggedRun(e, p, "scheduled", type, a, b, g)
  <1> DEFINE x == LoggedRun(e, p, s, type, a, b, f)
             z == [x EXCEPT !.status = "scheduled", !.fallback = g]
  <1>1. DOMAIN x = {"event", "priority", "atDeadline", "aborted", "status", "returned",
                    "runsAtReturn", "fallbacksAtReturn", "fallback"}
    BY DEF LoggedRun
  <1>2. z = [field \in DOMAIN x |-> z[field]]
    OBVIOUS
  <1>3. /\ z.event = e /\ z.priority = p /\ z.atDeadline = FALSE /\ z.aborted = FALSE
        /\ z.status = "scheduled" /\ z.returned = type /\ z.runsAtReturn = a /\ z.fallbacksAtReturn = b
        /\ z.fallback = g
    BY DEF LoggedRun
  <1> HIDE DEF z
  <1>4. z = LoggedRun(e, p, "scheduled", type, a, b, g)
    BY <1>1, <1>2, <1>3 DEF LoggedRun
  <1> QED BY <1>4 DEF z, Rescheduled

\* d is the log r with the entry x for its last run.
ResultIs(d, r, x) ==
  /\ d.events = r.events /\ d.runs = [r.runs EXCEPT ![Len(r.runs)] = x]
  /\ d.continuations = r.continuations /\ d.cancellation = r.cancellation /\ d.route = r.route

\* d is the log r with the entry x for its last run, the continuation c and its route.
ContinueIs(d, r, x, c, delayed) ==
  /\ d.events = r.events + 1 /\ d.runs = [r.runs EXCEPT ![Len(r.runs)] = x]
  /\ d.continuations = Append(r.continuations, c) /\ d.cancellation = r.cancellation
  /\ d.route = <<Post!ExecutionRoute(Len(r.continuations), "pending", delayed)>>

\* The fields of a log after a run completed.
LEMMA ResultFields ==
  ASSUME NEW r \in LogRecords, NEW e \in Nat, NEW p \in Int, Len(r.runs) > 0,
         r.runs[Len(r.runs)] = RunEntry(e, p), Len(r.continuations) = Len(r.runs) - 1,
         NEW type \in Post!Results
  PROVE  ResultIs(Post!RecordCallbackResult(r, type), r,
                  CompletedEntry(e, p, type, Len(r.runs)))
  <1> DEFINE d == Post!RecordCallbackResult(r, type)
             last == Len(r.runs)
             x == [r.runs[last] EXCEPT !.runsAtReturn = last,
                     !.fallbacksAtReturn = Len(r.continuations), !.returned = type,
                     !.status = "completed"]
             entries == [r.runs EXCEPT ![last] = x]
  <1>1. d = [r EXCEPT !.runs = entries]
    BY DEF Post!RecordCallbackResult, Post!Results
  <1>2. x = CompletedEntry(e, p, type, last)
    <2>1. r.runs[last] = LoggedRun(e, p, "running", "none", Post!None, Post!None, Post!None)
      BY DEF RunEntry
    <2>2. Returned(r.runs[last], last, Len(r.continuations), type, "completed")
            = LoggedRun(e, p, "completed", type, last, Len(r.continuations), Post!None)
      <3> HIDE DEF last
      <3>1. Returned(LoggedRun(e, p, "running", "none", Post!None, Post!None, Post!None),
                     last, Len(r.continuations), type, "completed")
              = LoggedRun(e, p, "completed", type, last, Len(r.continuations), Post!None)
        BY EntryReturned
      <3> QED BY <2>1, <3>1
    <2>3. Len(r.continuations) = last - 1
      OBVIOUS
    <2> QED BY <2>2, <2>3 DEF CompletedEntry, Returned
  <1> HIDE DEF x
  <1>3. entries = [r.runs EXCEPT ![last] = CompletedEntry(e, p, type, last)]
    BY <1>2
  <1> HIDE DEF entries, d
  <1>4. /\ d.events = r.events /\ d.runs = entries /\ d.continuations = r.continuations
        /\ d.cancellation = r.cancellation /\ d.route = r.route
    BY <1>1 DEF LogRecords
  <1>5. ResultIs(d, r, CompletedEntry(e, p, type, Len(r.runs)))
    BY <1>3, <1>4 DEF ResultIs
  <1> QED BY <1>5 DEF d

\* The fields of a log after a run was continued.
LEMMA ContinueFields ==
  ASSUME NEW r \in LogRecords, NEW e \in Nat, NEW p \in Int, Len(r.runs) > 0,
         r.runs[Len(r.runs)] = RunEntry(e, p), Len(r.continuations) = Len(r.runs) - 1,
         NEW stopped \in BOOLEAN, NEW delayed \in BOOLEAN, NEW c,
         c = [event |-> r.events, source |-> Len(r.runs) - 1, runsAtSchedule |-> Len(r.runs),
              yields |-> HasYield, aborted |-> stopped, abort |-> <<>>]
  PROVE  ContinueIs(Post!RecordContinuationFallback(
                      Post!RecordCallbackResult(r, "function"), HasYield, stopped, delayed),
                    r, ContinuedEntry(e, p, Len(r.runs)), c, delayed)
  <1> DEFINE d == Post!RecordContinuationFallback(
                    Post!RecordCallbackResult(r, "function"), HasYield, stopped, delayed)
             last == Len(r.runs)
             x == [r.runs[last] EXCEPT !.runsAtReturn = last,
                     !.fallbacksAtReturn = Len(r.continuations), !.returned = "function",
                     !.status = "returned"]
             middle == [r.runs EXCEPT ![last] = x]
             s == [r EXCEPT !.runs = middle]
             y == [x EXCEPT !.status = "scheduled", !.fallback = Len(r.continuations)]
             entries == [r.runs EXCEPT ![last] = y]
             route == <<Post!ExecutionRoute(Len(r.continuations), "pending", delayed)>>
  <1>t. /\ r.runs \in Seq(RunEntries) /\ last \in Nat \ {0} /\ r.events \in Nat
        /\ last \in DOMAIN r.runs
        /\ r.continuations \in Seq(ContinuationEntries) /\ (last - 1) + 1 = last
    BY LogTypes
  <1>1. s = Post!RecordCallbackResult(r, "function")
    BY DEF Post!RecordCallbackResult
  <1>2. y = ContinuedEntry(e, p, last)
    <2>1. r.runs[last] = LoggedRun(e, p, "running", "none", Post!None, Post!None, Post!None)
      BY DEF RunEntry
    <2>2. Returned(r.runs[last], last, Len(r.continuations), "function", "returned")
            = LoggedRun(e, p, "returned", "function", last, Len(r.continuations), Post!None)
      <3> HIDE DEF last
      <3>1. Returned(LoggedRun(e, p, "running", "none", Post!None, Post!None, Post!None),
                     last, Len(r.continuations), "function", "returned")
              = LoggedRun(e, p, "returned", "function", last, Len(r.continuations), Post!None)
        BY EntryReturned
      <3> QED BY <2>1, <3>1
    <2>3. x = LoggedRun(e, p, "returned", "function", last, Len(r.continuations), Post!None)
      BY <2>2 DEF Returned
    <2> HIDE DEF x
    <2>4. Rescheduled(x, Len(r.continuations))
            = LoggedRun(e, p, "scheduled", "function", last, Len(r.continuations), Len(r.continuations))
      <3> HIDE DEF last
      <3>1. Rescheduled(LoggedRun(e, p, "returned", "function", last, Len(r.continuations), Post!None),
                        Len(r.continuations))
              = LoggedRun(e, p, "scheduled", "function", last, Len(r.continuations), Len(r.continuations))
        BY EntryRescheduled
      <3> QED BY <2>3, <3>1
    <2>5. Len(r.continuations) = last - 1
      OBVIOUS
    <2> QED BY <2>4, <2>5 DEF ContinuedEntry, Rescheduled
  <1>3. middle[last] = x /\ Len(middle) = last
    BY <1>t
  <1>4. [middle EXCEPT ![last] = y] = entries
    BY <1>t
  <1> HIDE DEF x, y, middle
  <1>5. /\ s.runs = middle /\ s.continuations = r.continuations /\ s.events = r.events
        /\ s.cancellation = r.cancellation /\ s.route = r.route
    BY DEF LogRecords
  <1>6. DOMAIN s = {"events", "runs", "continuations", "cancellation", "route"}
    BY DEF LogRecords
  <1> HIDE DEF s
  <1>7. d = [s EXCEPT !.events = s.events + 1, !.runs = [s.runs EXCEPT ![last] = y],
                      !.continuations = Append(s.continuations, c), !.route = route]
    <2>1. d = Post!RecordContinuationFallback(s, HasYield, stopped, delayed)
      BY <1>1, Zenon
    <2> HIDE DEF route, d
    <2> QED BY <2>1, <1>t, <1>3, <1>5 DEF Post!RecordContinuationFallback, y, route
  <1> HIDE DEF entries, route, d
  <1>8. /\ d.events = r.events + 1 /\ d.runs = entries
        /\ d.continuations = Append(r.continuations, c) /\ d.cancellation = r.cancellation
        /\ d.route = route
    BY <1>4, <1>5, <1>6, <1>7
  <1>9. ContinueIs(d, r, ContinuedEntry(e, p, Len(r.runs)), c, delayed)
    BY <1>2, <1>8 DEF ContinueIs, entries, route
  <1> QED BY <1>9 DEF d

\* A continuation keeps what it is when a cancellation is noted at it.
SameContinuation(x, y) ==
  /\ x.event = y.event /\ x.source = y.source /\ x.runsAtSchedule = y.runsAtSchedule
  /\ x.yields = y.yields

\* It does.
LEMMA NotedContinuation ==
  ASSUME NEW x \in ContinuationEntries, NEW o
  PROVE  SameContinuation([x EXCEPT !.abort = o], x) /\ SameContinuation(x, x)
  BY DEF ContinuationEntries, SameContinuation

\* d is the log r after a cancellation.
CancelIs(d, r, delayed) ==
  /\ d.events = r.events + 2 /\ d.runs = r.runs
  /\ d.cancellation # <<>> /\ d.cancellation[1].request = r.events
  /\ d.cancellation[1].completion = r.events + 1
  /\ Len(d.continuations) = Len(r.continuations)
  /\ \A i \in 1 .. Len(r.continuations) :
       SameContinuation(d.continuations[i], r.continuations[i])
  /\ RouteIs(d, "aborted", delayed)

\* The fields of a log after a cancellation.
LEMMA CancelFields ==
  ASSUME NEW r \in LogRecords, NEW before \in BOOLEAN, NEW delayed \in BOOLEAN, NEW status,
         RouteIs(r, status, delayed)
  PROVE  CancelIs(Post!RecordCancellation(r, before, delayed), r, delayed)
  <1> DEFINE d == Post!RecordCancellation(r, before, delayed)
             ordering == [request |-> r.events, completion |-> r.events + 1,
                          runs |-> Len(r.runs), fallbacks |-> Len(r.continuations),
                          before |-> before, after |-> TRUE]
             s == Aborted(r, r.events + 2, <<ordering>>)
             last == Len(r.continuations)
             e == [r.continuations[last] EXCEPT !.abort = <<ordering>>]
             continuations == [r.continuations EXCEPT ![last] = e]
             noted == [s EXCEPT !.continuations = continuations]
             route == <<Post!ExecutionRoute(last - 1, "aborted", delayed)>>
             new == [noted EXCEPT !.route = route]
  <1>t. /\ r.runs \in Seq(RunEntries) /\ r.events \in Nat
        /\ r.continuations \in Seq(ContinuationEntries)
    BY LogTypes
  <1>1. ordering.request = r.events /\ ordering.completion = r.events + 1
    OBVIOUS
  <1>2. d = Post!RecordAbortOrdering(s, ordering, delayed)
    BY DEF Post!RecordCancellation, LogRecords, Aborted
  <1> HIDE DEF ordering, d
  <1>3. /\ s.events = r.events + 2 /\ s.runs = r.runs /\ s.cancellation = <<ordering>>
        /\ s.continuations = r.continuations /\ s.route = r.route
        /\ DOMAIN s = {"events", "runs", "continuations", "cancellation", "route"}
    BY DEF LogRecords, Aborted
  <1>4. <<ordering>> # <<>> /\ <<ordering>>[1] = ordering
    OBVIOUS
  <1> HIDE DEF s
  <1>5. CASE r.continuations = <<>>
    <2>1. d = s
      BY <1>2, <1>3, <1>5 DEF Post!RecordAbortOrdering
    <2>2. RouteIs(d, "aborted", delayed)
      BY <2>1, <1>3, <1>5 DEF RouteIs
    <2>3. \A i \in 1 .. Len(r.continuations) :
            SameContinuation(d.continuations[i], r.continuations[i])
      BY <1>5
    <2>4. CancelIs(d, r, delayed)
      BY <2>1, <2>2, <2>3, <1>1, <1>3, <1>4 DEF CancelIs
    <2> QED BY <2>4 DEF d
  <1>6. CASE r.continuations # <<>>
    <2>1. last \in 1 .. Len(r.continuations) /\ r.continuations[last] \in ContinuationEntries
      BY <1>t, <1>6
    <2>2. SameContinuation(e, r.continuations[last])
      BY <2>1, NotedContinuation
    <2>3. \A i \in 1 .. Len(r.continuations) : SameContinuation(r.continuations[i], r.continuations[i])
      BY DEF SameContinuation
    <2> HIDE DEF e
    <2>4. /\ Len(continuations) = Len(r.continuations) /\ continuations # <<>>
          /\ \A i \in 1 .. Len(r.continuations) :
               SameContinuation(continuations[i], r.continuations[i])
      <3>1. \A i \in 1 .. Len(r.continuations) : i # last => continuations[i] = r.continuations[i]
        BY <1>t
      <3>2. continuations[last] = e /\ Len(continuations) = Len(r.continuations)
        BY <1>t, <2>1
      <3> QED BY <3>1, <3>2, <2>1, <2>2, <2>3
    <2>5. r.route # <<>> /\ r.route[1].index = last - 1
      <3>1. r.route = <<Post!ExecutionRoute(last - 1, status, delayed)>>
        BY <1>6 DEF RouteIs
      <3> QED BY <3>1 DEF Post!ExecutionRoute
    <2>6. d = new
      <3> HIDE DEF route
      <3> QED BY <1>2, <1>3, <1>6, <2>5 DEF Post!RecordAbortOrdering, route, e
    <2> HIDE DEF continuations, route
    <2>7. /\ new.events = s.events /\ new.runs = s.runs /\ new.cancellation = s.cancellation
          /\ new.continuations = continuations /\ new.route = route
      BY <1>3
    <2> HIDE DEF new
    <2>8. RouteIs(d, "aborted", delayed)
      BY <2>4, <2>6, <2>7 DEF RouteIs, route
    <2>9. CancelIs(d, r, delayed)
      BY <1>1, <1>3, <1>4, <2>4, <2>6, <2>7, <2>8 DEF CancelIs
    <2> QED BY <2>9 DEF d
  <1> QED BY <1>5, <1>6

\* t is s with e after its last element.
Longer(t, s, e) ==
  /\ Len(t) = Len(s) + 1 /\ Len(s) \in Nat
  /\ \A i \in 1 .. Len(s) : t[i] = s[i]
  /\ t[Len(s) + 1] = e

\* Appending makes a sequence longer.
LEMMA AppendIs ==
  ASSUME NEW S, NEW s \in Seq(S), NEW e \in S
  PROVE  Append(s, e) \in Seq(S) /\ Longer(Append(s, e), s, e)
  BY DEF Longer

\* u begins as t does.
Begins(u, t) ==
  /\ Len(t) \in Nat /\ Len(u) \in Nat /\ Len(u) >= Len(t)
  /\ \A i \in 1 .. Len(t) : u[i] = t[i]

\* Steps keep their places when the trace grows.
LEMMA StepStays ==
  ASSUME NEW t, NEW u, Begins(u, t), NEW e, NEW what, IsStep(t, e, what)
  PROVE  IsStep(u, e, what)
  <1>1. e \in 0 .. Len(t) - 1 /\ t[e + 1] = what
    BY DEF IsStep
  <1>2. e + 1 \in 1 .. Len(t) /\ e \in 0 .. Len(u) - 1
    BY <1>1 DEF Begins
  <1> QED BY <1>1, <1>2 DEF IsStep, Begins

\* A step added to the trace is there.
LEMMA StepAdded ==
  ASSUME NEW t \in Seq(TraceSteps), NEW what \in TraceSteps, NEW u, u = Append(t, what)
  PROVE  /\ u \in Seq(TraceSteps) /\ Longer(u, t, what) /\ Begins(u, t)
         /\ IsStep(u, Len(t), what)
  <1>1. u \in Seq(TraceSteps) /\ Longer(u, t, what)
    BY AppendIs
  <1> QED BY <1>1 DEF Longer, Begins, IsStep

\* What was told stays told when the trace grows.
LEMMA TraceGrows ==
  ASSUME NEW t, NEW u, Begins(u, t)
  PROVE  /\ \A entries : RunsTold(entries, t) => RunsTold(entries, u)
         /\ \A conts : ContinuationsTold(conts, t) => ContinuationsTold(conts, u)
         /\ \A cancellation : CancellationTold(cancellation, t) => CancellationTold(cancellation, u)
  <1>1. ASSUME NEW e, NEW what, IsStep(t, e, what) PROVE IsStep(u, e, what)
    BY <1>1, StepStays
  <1>2. \A entries : RunsTold(entries, t) => RunsTold(entries, u)
    BY <1>1 DEF RunsTold
  <1>3. \A conts : ContinuationsTold(conts, t) => ContinuationsTold(conts, u)
    BY <1>1 DEF ContinuationsTold
  <1>4. \A cancellation : CancellationTold(cancellation, t) => CancellationTold(cancellation, u)
    BY <1>1 DEF CancellationTold
  <1> QED BY <1>2, <1>3, <1>4

\* A cancellation stays in the trace.
LEMMA CancelStays ==
  ASSUME NEW t, NEW u, Begins(u, t), HasCancel(t)
  PROVE  HasCancel(u)
  <1>1. PICK i \in 1 .. Len(t) : t[i] = "cancel"
    BY DEF HasCancel
  <1>2. i \in 1 .. Len(u) /\ u[i] = "cancel"
    BY <1>1 DEF Begins
  <1> QED BY <1>2 DEF HasCancel

\* The log of a callback that was continued, or has not run, and runs.
LEMMA RunKeeps ==
  ASSUME NEW entries \in Seq(RunEntries), NEW conts \in Seq(ContinuationEntries),
         NEW cancellation, NEW t \in Seq(TraceSteps), NEW p \in Int,
         LogParts(entries, conts, cancellation, t, "open", p), Len(entries) = Len(conts),
         NEW new, new = Append(entries, RunEntry(Len(t), p)), NEW u, u = Append(t, "run")
  PROVE  /\ LogParts(new, conts, cancellation, u, "open", p)
         /\ PlainLog(entries, conts, t) => PlainLog(new, conts, u)
         /\ HasCancel(t) => HasCancel(u)
  <1> DEFINE k == Len(entries)
             x == RunEntry(Len(t), p)
  <1>t. k \in Nat /\ Len(conts) = k /\ Len(t) \in Nat
    OBVIOUS
  <1>p. /\ Alternate(entries, conts, "open") /\ EntriesOk(entries, k, p, "open")
        /\ ContinuationsOk(conts) /\ Between(entries, conts)
        /\ RunsTold(entries, t) /\ ContinuationsTold(conts, t)
        /\ CancellationTold(cancellation, t)
    BY DEF LogParts
  <1>u. Longer(u, t, "run") /\ Begins(u, t) /\ IsStep(u, Len(t), "run")
    <2>1. "run" \in TraceSteps
      BY DEF TraceSteps
    <2> QED BY <2>1, StepAdded
  <1>x. x \in RunEntries /\ x.event = Len(t)
    BY <1>t, RunEntryFields
  <1>y. x = RunEntry(x.event, p)
    BY <1>x
  <1> HIDE DEF x
  <1>n. Longer(new, entries, x)
    BY <1>x, AppendIs DEF x
  <1>1. /\ Len(new) = k + 1 /\ new[k + 1] = x
        /\ \A i \in 1 .. k : new[i] = entries[i]
    BY <1>n DEF Longer
  <1>k. k = Len(entries)
    OBVIOUS
  <1> HIDE DEF k
  <1>2. Alternate(new, conts, "open")
    BY <1>t, <1>1 DEF Alternate
  <1>3. EntriesOk(new, k, p, "open")
    <2> SUFFICES ASSUME NEW i \in 1 .. k + 1 PROVE EntryIs(new[i], i, k, p, "open")
      BY <1>1 DEF EntriesOk
    <2>1. CASE i \in 1 .. k
      <3>1. EntryIs(entries[i], i, k, p, "open")
        BY <2>1, <1>p, <1>k DEF EntriesOk
      <3> QED BY <3>1, <2>1, <1>1
    <2>2. CASE i = k + 1
      <3>1. new[i] = x /\ ~ (i <= k)
        BY <2>2, <1>t, <1>1
      <3> QED BY <3>1, <1>y DEF EntryIs, Post!Results
    <2> QED BY <2>1, <2>2, <1>t
  <1>4. Between(new, conts)
    <2> SUFFICES ASSUME NEW i \in 1 .. k
                 PROVE  /\ new[i].event < conts[i].event
                        /\ i + 1 <= k + 1 => conts[i].event < new[i + 1].event
      BY <1>t, <1>1 DEF Between
    <2>1. /\ entries[i].event < conts[i].event
          /\ i + 1 <= k => conts[i].event < entries[i + 1].event
      BY <1>p, <1>t, <1>k DEF Between
    <2>2. IsStep(t, conts[i].event, "continue")
      BY <1>p, <1>t DEF ContinuationsTold
    <2>3. conts[i].event < Len(t)
      BY <2>2, <1>t DEF IsStep
    <2>4. new[i] = entries[i]
      BY <1>1
    <2>5. CASE i = k
      BY <2>1, <2>3, <2>4, <2>5, <1>1, <1>x
    <2>6. CASE i < k
      <3>1. i + 1 \in 1 .. k /\ i + 1 <= k
        BY <2>6, <1>t
      <3>2. new[i + 1] = entries[i + 1]
        BY <3>1, <1>1
      <3> QED BY <2>1, <2>4, <3>1, <3>2
    <2> QED BY <2>5, <2>6, <1>t
  <1>5. RunsTold(new, u)
    <2> SUFFICES ASSUME NEW i \in 1 .. k + 1 PROVE IsStep(u, new[i].event, "run")
      BY <1>1 DEF RunsTold
    <2>1. CASE i \in 1 .. k
      <3>1. IsStep(t, entries[i].event, "run")
        BY <2>1, <1>p, <1>k DEF RunsTold
      <3>2. IsStep(u, entries[i].event, "run")
        BY <3>1, <1>u, StepStays
      <3> QED BY <3>2, <2>1, <1>1
    <2>2. CASE i = k + 1
      BY <2>2, <1>1, <1>x, <1>u
    <2> QED BY <2>1, <2>2, <1>t
  <1>6. ContinuationsTold(conts, u) /\ CancellationTold(cancellation, u)
    BY <1>p, <1>u, TraceGrows
  <1>7. ASSUME PlainLog(entries, conts, t) PROVE PlainLog(new, conts, u)
    <2>1. /\ Len(t) = 1 + k + k /\ t[1] = "schedule"
          /\ \A i \in 1 .. k : entries[i].event = 2 * i - 1
          /\ \A i \in 1 .. k : conts[i].event = 2 * i
      BY <1>7, <1>t, <1>k DEF PlainLog
    <2>2. ASSUME NEW i \in 1 .. k + 1 PROVE new[i].event = 2 * i - 1
      <3>1. CASE i \in 1 .. k
        BY <3>1, <2>1, <1>1
      <3>2. CASE i = k + 1
        BY <3>2, <2>1, <1>t, <1>1, <1>x
      <3> QED BY <3>1, <3>2, <1>t
    <2>3. u[1] = "schedule" /\ Len(u) = 1 + (k + 1) + k
      BY <2>1, <1>t, <1>u DEF Longer
    <2> QED BY <2>1, <2>2, <2>3, <1>t, <1>1 DEF PlainLog
  <1>8. HasCancel(t) => HasCancel(u)
    BY <1>u, CancelStays
  <1> QED BY <1>2, <1>3, <1>4, <1>5, <1>6, <1>7, <1>8, <1>p, <1>t DEF LogParts

\* A sequence whose last element is replaced.
Replaced(new, s, e) ==
  /\ Len(new) = Len(s) /\ new[Len(s)] = e
  /\ \A i \in 1 .. Len(s) - 1 : new[i] = s[i]

\* Replacing the last element does that.
LEMMA ReplacedIs ==
  ASSUME NEW S, NEW s \in Seq(S), s # <<>>, NEW e \in S
  PROVE  Replaced([s EXCEPT ![Len(s)] = e], s, e)
  BY DEF Replaced

\* The entry of the last run changes, and not its event: what tells the events stays.
LEMMA SameEvents ==
  ASSUME NEW entries \in Seq(RunEntries), NEW conts \in Seq(ContinuationEntries), entries # <<>>,
         NEW t, NEW x, x.event = entries[Len(entries)].event,
         NEW new, Replaced(new, entries, x), Len(conts) = Len(entries) - 1
  PROVE  /\ RunsTold(entries, t) => RunsTold(new, t)
         /\ Between(entries, conts) => Between(new, conts)
         /\ PlainLog(entries, conts, t) => PlainLog(new, conts, t)
         /\ \A i \in 1 .. Len(entries) : new[i].event = entries[i].event
         /\ Len(new) = Len(entries)
  <1> DEFINE k == Len(entries)
  <1>t. k \in Nat \ {0} /\ Len(conts) = k - 1 /\ k = Len(entries)
    OBVIOUS
  <1> HIDE DEF k
  <1>1. Len(new) = k /\ new[k] = x /\ \A i \in 1 .. k - 1 : new[i] = entries[i]
    BY <1>t DEF Replaced
  <1>2. \A i \in 1 .. k : new[i].event = entries[i].event
    <2> SUFFICES ASSUME NEW i \in 1 .. k PROVE new[i].event = entries[i].event
      OBVIOUS
    <2>1. CASE i = k
      BY <2>1, <1>1, <1>t
    <2>2. CASE i \in 1 .. k - 1
      BY <2>2, <1>1
    <2> QED BY <2>1, <2>2, <1>t
  <1>3. RunsTold(entries, t) => RunsTold(new, t)
    BY <1>1, <1>2, <1>t DEF RunsTold
  <1>4. ASSUME Between(entries, conts) PROVE Between(new, conts)
    <2> SUFFICES ASSUME NEW i \in 1 .. k - 1
                 PROVE  /\ new[i].event < conts[i].event
                        /\ i + 1 <= k => conts[i].event < new[i + 1].event
      BY <1>t, <1>1 DEF Between
    <2>1. i \in 1 .. k /\ i + 1 \in 1 .. k
      BY <1>t
    <2>2. /\ entries[i].event < conts[i].event
          /\ i + 1 <= k => conts[i].event < entries[i + 1].event
      BY <1>4, <1>t DEF Between
    <2>3. new[i].event = entries[i].event /\ new[i + 1].event = entries[i + 1].event
      BY <2>1, <1>2
    <2> QED BY <2>2, <2>3
  <1>5. PlainLog(entries, conts, t) => PlainLog(new, conts, t)
    BY <1>1, <1>2, <1>t DEF PlainLog
  <1> QED BY <1>1, <1>2, <1>3, <1>4, <1>5, <1>t

\* The entry of a run in progress.
LEMMA RunningEntry ==
  ASSUME NEW entries \in Seq(RunEntries), NEW conts \in Seq(ContinuationEntries), NEW p \in Int,
         EntriesOk(entries, Len(conts), p, "open"), Len(entries) = Len(conts) + 1
  PROVE  /\ entries # <<>> /\ entries[Len(entries)] \in RunEntries
         /\ entries[Len(entries)].event \in Nat
         /\ entries[Len(entries)] = RunEntry(entries[Len(entries)].event, p)
  <1>1. Len(conts) \in Nat /\ Len(entries) \in 1 .. Len(entries) /\ entries # <<>>
        /\ ~ (Len(entries) <= Len(conts))
    OBVIOUS
  <1>2. EntryIs(entries[Len(entries)], Len(entries), Len(conts), p, "open")
    BY <1>1 DEF EntriesOk
  <1>3. entries[Len(entries)] = RunEntry(entries[Len(entries)].event, p)
    BY <1>1, <1>2 DEF EntryIs, Post!Results
  <1>4. entries[Len(entries)] \in RunEntries
    BY <1>1
  <1> DEFINE x == entries[Len(entries)]
  <1> HIDE DEF x
  <1>5. x \in RunEntries => x.event \in Nat
    BY DEF RunEntries
  <1> QED BY <1>1, <1>3, <1>4, <1>5 DEF x

\* The log of a callback whose run completes.
LEMMA CompleteKeeps ==
  ASSUME NEW entries \in Seq(RunEntries), NEW conts \in Seq(ContinuationEntries),
         NEW cancellation, NEW t \in Seq(TraceSteps), NEW p \in Int,
         LogParts(entries, conts, cancellation, t, "open", p), Len(entries) = Len(conts) + 1,
         NEW new, NEW type \in Post!Results,
         new = [entries EXCEPT ![Len(entries)] =
                  CompletedEntry(entries[Len(entries)].event, p, type, Len(entries))]
  PROVE  /\ LogParts(new, conts, cancellation, t, type, p)
         /\ PlainLog(entries, conts, t) => PlainLog(new, conts, t)
  <1> DEFINE k == Len(entries)
             e == entries[k].event
             x == CompletedEntry(e, p, type, k)
  <1>t. k \in Nat \ {0} /\ Len(conts) = k - 1
    OBVIOUS
  <1>p. /\ EntriesOk(entries, Len(conts), p, "open")
        /\ ContinuationsOk(conts) /\ Between(entries, conts)
        /\ RunsTold(entries, t) /\ ContinuationsTold(conts, t)
        /\ CancellationTold(cancellation, t)
    BY DEF LogParts
  <1>1. entries # <<>> /\ e \in Nat
    BY <1>p, RunningEntry
  <1> HIDE DEF e
  <1>x. x \in RunEntries /\ x.event = e
    BY <1>1, <1>t, ReturnedFields
  <1>y. x = CompletedEntry(x.event, p, type, k)
    BY <1>x
  <1> HIDE DEF x
  <1>n. Replaced(new, entries, x)
    BY <1>x, <1>1, ReplacedIs DEF x, e
  <1>2. /\ RunsTold(new, t) /\ Between(new, conts) /\ Len(new) = k
        /\ PlainLog(entries, conts, t) => PlainLog(new, conts, t)
    BY <1>n, <1>1, <1>t, <1>x, <1>p, SameEvents DEF e
  <1>3. new[k] = x /\ \A i \in 1 .. k - 1 : new[i] = entries[i]
    BY <1>n DEF Replaced
  <1>k. k = Len(entries)
    OBVIOUS
  <1> HIDE DEF k
  <1>4. EntriesOk(new, k - 1, p, type)
    <2> SUFFICES ASSUME NEW i \in 1 .. k PROVE EntryIs(new[i], i, k - 1, p, type)
      BY <1>2 DEF EntriesOk
    <2>1. CASE i \in 1 .. k - 1
      <3>1. EntryIs(entries[i], i, k - 1, p, "open") /\ i <= k - 1
        BY <2>1, <1>p, <1>k, <1>t DEF EntriesOk
      <3>2. EntryIs(entries[i], i, k - 1, p, type)
        BY <3>1 DEF EntryIs
      <3> QED BY <3>2, <2>1, <1>3
    <2>2. CASE i = k
      <3>1. new[i] = x /\ ~ (i <= k - 1)
        BY <2>2, <1>t, <1>3
      <3> QED BY <3>1, <1>y, <2>2 DEF EntryIs
    <2> QED BY <2>1, <2>2, <1>t
  <1>5. Alternate(new, conts, type)
    BY <1>2, <1>t DEF Alternate
  <1> QED BY <1>2, <1>4, <1>5, <1>p, <1>t DEF LogParts

\* The log of a callback whose run throws.
LEMMA ThrowKeeps ==
  ASSUME NEW entries, NEW conts, NEW cancellation, NEW t, NEW p, Len(conts) \in Nat,
         LogParts(entries, conts, cancellation, t, "open", p), Len(entries) = Len(conts) + 1
  PROVE  LogParts(entries, conts, cancellation, t, "throw", p)
  <1>1. EntriesOk(entries, Len(conts), p, "throw")
    BY DEF LogParts, EntriesOk, EntryIs, Post!Results
  <1>2. Alternate(entries, conts, "throw")
    BY DEF Alternate
  <1> QED BY <1>1, <1>2 DEF LogParts

\* The log is extended by a continuation c, and stays what it was.
LogContinues(entries, conts, cancellation, t, p, c, new, more, u) ==
  /\ LogParts(new, more, cancellation, u, "open", p)
  /\ Len(new) = Len(more) /\ more # <<>> /\ Len(more) - 1 = Len(conts)
  /\ PlainLog(entries, conts, t) => PlainLog(new, more, u)
  /\ HasCancel(t) => HasCancel(u)

\* The log of a callback that is continued.
LEMMA ContinueKeeps ==
  ASSUME NEW entries \in Seq(RunEntries), NEW conts \in Seq(ContinuationEntries),
         NEW cancellation, NEW t \in Seq(TraceSteps), NEW p \in Int,
         LogParts(entries, conts, cancellation, t, "open", p), Len(entries) = Len(conts) + 1,
         NEW c \in ContinuationEntries, c.event = Len(t), ContinuationIs(c, Len(entries)),
         NEW new,
         new = [entries EXCEPT ![Len(entries)] =
                  ContinuedEntry(entries[Len(entries)].event, p, Len(entries))],
         NEW more, more = Append(conts, c), NEW u, u = Append(t, "continue")
  PROVE  LogContinues(entries, conts, cancellation, t, p, c, new, more, u)
  <1> DEFINE k == Len(entries)
             e == entries[k].event
             x == ContinuedEntry(e, p, k)
  <1>t. k \in Nat \ {0} /\ Len(conts) = k - 1 /\ Len(t) \in Nat
    OBVIOUS
  <1>p. /\ EntriesOk(entries, Len(conts), p, "open")
        /\ ContinuationsOk(conts) /\ Between(entries, conts)
        /\ RunsTold(entries, t) /\ ContinuationsTold(conts, t)
        /\ CancellationTold(cancellation, t)
    BY DEF LogParts
  <1>u. Longer(u, t, "continue") /\ Begins(u, t) /\ IsStep(u, Len(t), "continue")
    <2>1. "continue" \in TraceSteps
      BY DEF TraceSteps
    <2> QED BY <2>1, StepAdded
  <1>1. entries # <<>> /\ e \in Nat
    BY <1>p, RunningEntry
  <1> HIDE DEF e
  <1>x. x \in RunEntries /\ x.event = e
    BY <1>1, <1>t, ReturnedFields
  <1>y. x = ContinuedEntry(x.event, p, k)
    BY <1>x
  <1> HIDE DEF x
  <1>n. Replaced(new, entries, x)
    BY <1>x, <1>1, ReplacedIs DEF x, e
  <1>2. /\ RunsTold(new, t) /\ Between(new, conts) /\ Len(new) = k
        /\ PlainLog(entries, conts, t) => PlainLog(new, conts, t)
    BY <1>n, <1>1, <1>t, <1>x, <1>p, SameEvents DEF e
  <1>3. new[k] = x /\ \A i \in 1 .. k - 1 : new[i] = entries[i]
    BY <1>n DEF Replaced
  <1>m. Longer(more, conts, c)
    BY AppendIs
  <1>4. Len(more) = k /\ more[k] = c /\ \A i \in 1 .. k - 1 : more[i] = conts[i]
    BY <1>m, <1>t DEF Longer
  <1>k. k = Len(entries)
    OBVIOUS
  <1> HIDE DEF k
  <1>5. EntriesOk(new, k, p, "open")
    <2> SUFFICES ASSUME NEW i \in 1 .. k PROVE EntryIs(new[i], i, k, p, "open")
      BY <1>2 DEF EntriesOk
    <2>1. CASE i \in 1 .. k - 1
      <3>1. EntryIs(entries[i], i, k - 1, p, "open") /\ i <= k - 1 /\ i <= k
        BY <2>1, <1>p, <1>k, <1>t DEF EntriesOk
      <3>2. EntryIs(entries[i], i, k, p, "open")
        BY <3>1 DEF EntryIs
      <3> QED BY <3>2, <2>1, <1>3
    <2>2. CASE i = k
      <3>1. new[i] = x /\ i <= k
        BY <2>2, <1>t, <1>3
      <3> QED BY <3>1, <1>y, <2>2 DEF EntryIs
    <2> QED BY <2>1, <2>2, <1>t
  <1>6. Alternate(new, more, "open")
    BY <1>2, <1>4, <1>t DEF Alternate
  <1>7. ContinuationsOk(more)
    <2> SUFFICES ASSUME NEW i \in 1 .. k PROVE ContinuationIs(more[i], i)
      BY <1>4 DEF ContinuationsOk
    <2>1. CASE i \in 1 .. k - 1
      BY <2>1, <1>4, <1>p, <1>t DEF ContinuationsOk
    <2>2. CASE i = k
      BY <2>2, <1>4, <1>k
    <2> QED BY <2>1, <2>2, <1>t
  <1>8. RunsTold(new, u) /\ CancellationTold(cancellation, u)
    BY <1>2, <1>p, <1>u, TraceGrows
  <1>9. ContinuationsTold(more, u)
    <2> SUFFICES ASSUME NEW i \in 1 .. k PROVE IsStep(u, more[i].event, "continue")
      BY <1>4 DEF ContinuationsTold
    <2>1. CASE i \in 1 .. k - 1
      <3>1. IsStep(t, conts[i].event, "continue")
        BY <2>1, <1>p, <1>t DEF ContinuationsTold
      <3>2. IsStep(u, conts[i].event, "continue")
        BY <3>1, <1>u, StepStays
      <3> QED BY <3>2, <2>1, <1>4
    <2>2. CASE i = k
      BY <2>2, <1>4, <1>u
    <2> QED BY <2>1, <2>2, <1>t
  <1>10. Between(new, more)
    <2> SUFFICES ASSUME NEW i \in 1 .. k
                 PROVE  /\ new[i].event < more[i].event
                        /\ i + 1 <= k => more[i].event < new[i + 1].event
      BY <1>2, <1>4 DEF Between
    <2>1. CASE i \in 1 .. k - 1
      <3>1. /\ new[i].event < conts[i].event
            /\ i + 1 <= k => conts[i].event < new[i + 1].event
        BY <2>1, <1>2, <1>t DEF Between
      <3> QED BY <3>1, <2>1, <1>4
    <2>2. CASE i = k
      <3>1. IsStep(t, new[k].event, "run")
        BY <1>2, <1>t DEF RunsTold
      <3>2. new[k].event < Len(t) /\ ~ (k + 1 <= k)
        BY <3>1, <1>t DEF IsStep
      <3> QED BY <2>2, <3>2, <1>4
    <2> QED BY <2>1, <2>2, <1>t
  <1>11. ASSUME PlainLog(entries, conts, t) PROVE PlainLog(new, more, u)
    <2>1. /\ Len(t) = 1 + k + (k - 1) /\ t[1] = "schedule"
          /\ \A i \in 1 .. k : new[i].event = 2 * i - 1
          /\ \A i \in 1 .. k - 1 : conts[i].event = 2 * i
      BY <1>11, <1>2, <1>t DEF PlainLog
    <2>2. ASSUME NEW i \in 1 .. k PROVE more[i].event = 2 * i
      <3>1. CASE i \in 1 .. k - 1
        BY <3>1, <2>1, <1>4
      <3>2. CASE i = k
        BY <3>2, <2>1, <1>t, <1>4
      <3> QED BY <3>1, <3>2, <1>t
    <2>3. u[1] = "schedule" /\ Len(u) = 1 + k + k
      BY <2>1, <1>t, <1>u DEF Longer
    <2> QED BY <2>1, <2>2, <2>3, <1>t, <1>2, <1>4 DEF PlainLog
  <1>12. HasCancel(t) => HasCancel(u)
    BY <1>u, CancelStays
  <1>13. more # <<>> /\ Len(new) = Len(more) /\ Len(more) - 1 = Len(conts)
    BY <1>2, <1>4, <1>t
  <1>14. LogParts(new, more, cancellation, u, "open", p)
    BY <1>4, <1>5, <1>6, <1>7, <1>8, <1>9, <1>10 DEF LogParts
  <1> QED BY <1>11, <1>12, <1>13, <1>14 DEF LogContinues

\* The log and the trace are extended by a cancellation.
LogCancels(entries, conts, cancellation, t, how, p, same, other, u) ==
  LogParts(entries, same, other, u, how, p) /\ HasCancel(u)

\* The log of a callback that is cancelled.
LEMMA CancelKeeps ==
  ASSUME NEW entries \in Seq(RunEntries), NEW conts \in Seq(ContinuationEntries),
         NEW cancellation, NEW t \in Seq(TraceSteps), NEW p \in Int, NEW how,
         LogParts(entries, conts, cancellation, t, how, p),
         NEW same, Len(same) = Len(conts),
         \A i \in 1 .. Len(conts) : SameContinuation(same[i], conts[i]),
         NEW other, other[1].request = Len(t), other[1].completion = Len(t) + 1,
         NEW u, u = t \o <<"cancel", "aborted">>
  PROVE  LogCancels(entries, conts, cancellation, t, how, p, same, other, u)
  <1>p. /\ EntriesOk(entries, Len(conts), p, how) /\ Alternate(entries, conts, how)
        /\ ContinuationsOk(conts) /\ Between(entries, conts)
        /\ RunsTold(entries, t) /\ ContinuationsTold(conts, t)
        /\ CancellationTold(cancellation, t)
    BY DEF LogParts
  <1>t. Len(t) \in Nat /\ Len(conts) \in Nat
    OBVIOUS
  <1>u. /\ Len(u) = Len(t) + 2 /\ u[Len(t) + 1] = "cancel" /\ u[Len(t) + 2] = "aborted"
        /\ \A i \in 1 .. Len(t) : u[i] = t[i]
    <2>1. <<"cancel", "aborted">> \in Seq(TraceSteps)
      BY DEF TraceSteps
    <2> DEFINE s == <<"cancel", "aborted">>
    <2>2. Len(s) = 2 /\ s[1] = "cancel" /\ s[2] = "aborted"
      OBVIOUS
    <2> HIDE DEF s
    <2>3. /\ Len(t \o s) = Len(t) + 2 /\ \A i \in 1 .. Len(t) : (t \o s)[i] = t[i]
          /\ (t \o s)[Len(t) + 1] = s[1] /\ (t \o s)[Len(t) + 2] = s[2]
      BY <2>1, <2>2 DEF s
    <2> QED BY <2>2, <2>3 DEF s
  <1>b. Begins(u, t)
    BY <1>u, <1>t DEF Begins
  <1>1. CancellationTold(other, u)
    BY <1>u, <1>t DEF CancellationTold, IsStep
  <1>2. RunsTold(entries, u) /\ ContinuationsTold(conts, u)
    BY <1>b, <1>p, TraceGrows
  <1>3. ContinuationsTold(same, u)
    BY <1>2 DEF ContinuationsTold, SameContinuation
  <1>4. ContinuationsOk(same)
    BY <1>p DEF ContinuationsOk, ContinuationIs, SameContinuation
  <1>5. Between(entries, same)
    BY <1>p DEF Between, SameContinuation
  <1>6. Alternate(entries, same, how)
    BY <1>p DEF Alternate
  <1>7. HasCancel(u)
    <2>1. Len(t) + 1 \in 1 .. Len(u)
      BY <1>u, <1>t
    <2> QED BY <2>1, <1>u DEF HasCancel
  <1> QED BY <1>1, <1>2, <1>3, <1>4, <1>5, <1>6, <1>7, <1>p DEF LogParts, LogCancels

\* What a run, its result, a continuation and a cancellation make of a log and its trace.
LogRuns(r, t, p, delayed, d, u) ==
  LogIs(d, u, "open", p, FALSE, delayed) /\ Len(d.runs) = Len(d.continuations) + 1
LogCompletes(r, t, type, p, stopped, delayed, d) == LogIs(d, t, type, p, stopped, delayed)
LogGoesOn(r, t, p, stopped, delayed, d, u) ==
  LogIs(d, u, "open", p, stopped, delayed) /\ Len(d.runs) = Len(d.continuations)
LogStops(r, t, how, p, before, delayed, d, u) ==
  /\ LogIs(d, u, how, p, TRUE, delayed)
  /\ Len(d.continuations) = Len(r.continuations) /\ d.runs = r.runs

\* The log after a run began.
LEMMA RunLog ==
  ASSUME NEW r \in LogRecords, NEW t \in Seq(TraceSteps), NEW p \in Int, NEW delayed \in BOOLEAN,
         LogIs(r, t, "open", p, FALSE, delayed), Len(r.runs) = Len(r.continuations),
         NEW d, d = Post!RecordCallbackRun(r, p, FALSE, FALSE), NEW u, u = Append(t, "run")
  PROVE  LogRuns(r, t, p, delayed, d, u)
  <1>t. r.runs \in Seq(RunEntries) /\ r.continuations \in Seq(ContinuationEntries)
        /\ Len(t) \in Nat
    BY LogTypes
  <1>1. /\ LogParts(r.runs, r.continuations, r.cancellation, t, "open", p) /\ r.events = Len(t)
        /\ PlainLog(r.runs, r.continuations, t) /\ RouteIs(r, "pending", delayed)
    BY DEF LogIs
  <1>2. /\ d.events = r.events + 1 /\ d.runs = Append(r.runs, RunEntry(Len(t), p))
        /\ d.continuations = r.continuations /\ d.cancellation = r.cancellation
        /\ d.route = r.route
    BY <1>1, RunFields
  <1>3. /\ LogParts(d.runs, r.continuations, r.cancellation, u, "open", p)
        /\ PlainLog(d.runs, r.continuations, u)
    BY <1>1, <1>2, <1>t, RunKeeps, ZenonT(40)
  <1>4. Len(u) = Len(t) + 1
    <2>1. "run" \in TraceSteps
      BY DEF TraceSteps
    <2> QED BY <2>1
  <1>5. RouteIs(d, "pending", delayed)
    BY <1>1, <1>2 DEF RouteIs
  <1>6. Len(d.runs) = Len(d.continuations) + 1
    <2>1. RunEntry(Len(t), p) \in RunEntries
      BY <1>t, RunEntryFields
    <2> DEFINE x == RunEntry(Len(t), p)
    <2> HIDE DEF x
    <2>2. Len(Append(r.runs, x)) = Len(r.runs) + 1
      BY <1>t, <2>1 DEF x
    <2> QED BY <2>2, <1>2 DEF x
  <1>7. LogIs(d, u, "open", p, FALSE, delayed)
    BY <1>1, <1>2, <1>3, <1>4, <1>5 DEF LogIs
  <1> QED BY <1>6, <1>7 DEF LogRuns

\* The log after a run completed.
LEMMA CompleteLog ==
  ASSUME NEW r \in LogRecords, NEW t \in Seq(TraceSteps), NEW p \in Int, NEW stopped \in BOOLEAN,
         NEW delayed \in BOOLEAN,
         LogIs(r, t, "open", p, stopped, delayed), Len(r.runs) = Len(r.continuations) + 1,
         NEW type \in Post!Results, NEW d, d = Post!RecordCallbackResult(r, type)
  PROVE  LogCompletes(r, t, type, p, stopped, delayed, d)
  <1> DEFINE e == r.runs[Len(r.runs)].event
  <1>t. r.runs \in Seq(RunEntries) /\ r.continuations \in Seq(ContinuationEntries)
    BY LogTypes
  <1>1. LogParts(r.runs, r.continuations, r.cancellation, t, "open", p) /\ r.events = Len(t)
    BY DEF LogIs
  <1>2. e \in Nat /\ r.runs[Len(r.runs)] = RunEntry(e, p)
    BY <1>1, <1>t, RunningEntry DEF LogParts
  <1>3. Len(r.runs) > 0 /\ Len(r.continuations) = Len(r.runs) - 1
    BY <1>t
  <1>4. /\ d.events = r.events
        /\ d.runs = [r.runs EXCEPT ![Len(r.runs)] = CompletedEntry(e, p, type, Len(r.runs))]
        /\ d.continuations = r.continuations /\ d.cancellation = r.cancellation
        /\ d.route = r.route
    <2> HIDE DEF e
    <2>1. ResultIs(Post!RecordCallbackResult(r, type), r, CompletedEntry(e, p, type, Len(r.runs)))
      BY <1>2, <1>3, ResultFields, Zenon
    <2>2. ResultIs(d, r, CompletedEntry(e, p, type, Len(r.runs)))
      BY <2>1, Zenon
    <2> QED BY <2>2 DEF ResultIs
  <1>5. /\ LogParts(d.runs, r.continuations, r.cancellation, t, type, p)
        /\ PlainLog(r.runs, r.continuations, t) => PlainLog(d.runs, r.continuations, t)
    BY <1>1, <1>4, <1>t, CompleteKeeps
  <1>r. \A s : RouteIs(r, s, delayed) => RouteIs(d, s, delayed)
    BY <1>4 DEF RouteIs
  <1>k. Len(d.runs) = Len(r.runs)
    <2>1. \A x : Len([r.runs EXCEPT ![Len(r.runs)] = x]) = Len(r.runs)
      BY <1>t
    <2> QED BY <2>1, <1>4
  <1>6. ASSUME ~ stopped PROVE LogIs(d, t, type, p, stopped, delayed)
    BY <1>6, <1>1, <1>4, <1>5, <1>r DEF LogIs
  <1>7. ASSUME stopped PROVE LogIs(d, t, type, p, stopped, delayed)
    <2>1. HasCancel(t) /\ CancelledRoute(r, delayed)
      BY <1>7 DEF LogIs
    <2>2. CancelledRoute(d, delayed)
      BY <2>1, <1>r, <1>k, <1>4 DEF CancelledRoute
    <2> QED BY <1>7, <1>1, <1>4, <1>5, <2>1, <2>2 DEF LogIs
  <1> QED BY <1>6, <1>7, Zenon DEF LogCompletes

\* The log after a run threw.
LEMMA ThrowLog ==
  ASSUME NEW r \in LogRecords, NEW t, NEW p, NEW stopped, NEW delayed,
         LogIs(r, t, "open", p, stopped, delayed), Len(r.runs) = Len(r.continuations) + 1
  PROVE  LogIs(r, t, "throw", p, stopped, delayed)
  <1>t. Len(r.continuations) \in Nat
    BY LogTypes
  <1>1. LogParts(r.runs, r.continuations, r.cancellation, t, "throw", p)
    BY <1>t, ThrowKeeps DEF LogIs
  <1> QED BY <1>1, Zenon DEF LogIs

\* The log after a run was continued.
LEMMA ContinueLog ==
  ASSUME NEW r \in LogRecords, NEW t \in Seq(TraceSteps), NEW p \in Int, NEW stopped \in BOOLEAN,
         NEW delayed \in BOOLEAN,
         LogIs(r, t, "open", p, stopped, delayed), Len(r.runs) = Len(r.continuations) + 1,
         NEW d, d = Post!RecordContinuationFallback(
                      Post!RecordCallbackResult(r, "function"), HasYield, stopped, delayed),
         NEW u, u = Append(t, "continue")
  PROVE  LogGoesOn(r, t, p, stopped, delayed, d, u)
  <1> DEFINE e == r.runs[Len(r.runs)].event
             c == [event |-> r.events, source |-> Len(r.runs) - 1,
                   runsAtSchedule |-> Len(r.runs), yields |-> HasYield, aborted |-> stopped,
                   abort |-> <<>>]
  <1>t. r.runs \in Seq(RunEntries) /\ r.continuations \in Seq(ContinuationEntries)
        /\ Len(t) \in Nat /\ r.events \in Nat
    BY LogTypes
  <1>1. LogParts(r.runs, r.continuations, r.cancellation, t, "open", p) /\ r.events = Len(t)
    BY DEF LogIs
  <1>2. e \in Nat /\ r.runs[Len(r.runs)] = RunEntry(e, p)
    BY <1>1, <1>t, RunningEntry DEF LogParts
  <1>3. Len(r.runs) > 0 /\ Len(r.continuations) = Len(r.runs) - 1
    BY <1>t
  <1>c. c \in ContinuationEntries /\ c.event = Len(t) /\ ContinuationIs(c, Len(r.runs))
    <2>1. HasYield \in BOOLEAN /\ Len(r.runs) \in Nat
      BY <1>t, PostInstance
    <2> QED BY <2>1, <1>t, <1>1 DEF ContinuationEntries, ContinuationIs
  <1>4. /\ d.events = r.events + 1
        /\ d.runs = [r.runs EXCEPT ![Len(r.runs)] = ContinuedEntry(e, p, Len(r.runs))]
        /\ d.continuations = Append(r.continuations, c) /\ d.cancellation = r.cancellation
        /\ d.route = <<Post!ExecutionRoute(Len(r.continuations), "pending", delayed)>>
    <2>1. c = [event |-> r.events, source |-> Len(r.runs) - 1,
               runsAtSchedule |-> Len(r.runs), yields |-> HasYield, aborted |-> stopped,
               abort |-> <<>>]
      OBVIOUS
    <2> HIDE DEF e, c
    <2>2. ContinueIs(Post!RecordContinuationFallback(
                       Post!RecordCallbackResult(r, "function"), HasYield, stopped, delayed),
                     r, ContinuedEntry(e, p, Len(r.runs)), c, delayed)
      BY <1>2, <1>3, <2>1, ContinueFields, Zenon
    <2>3. ContinueIs(d, r, ContinuedEntry(e, p, Len(r.runs)), c, delayed)
      BY <2>2, Zenon
    <2> QED BY <2>3, Zenon DEF ContinueIs
  <1> HIDE DEF c
  <1>5. /\ LogParts(d.runs, d.continuations, r.cancellation, u, "open", p)
        /\ Len(d.runs) = Len(d.continuations) /\ d.continuations # <<>>
        /\ Len(d.continuations) - 1 = Len(r.continuations)
        /\ PlainLog(r.runs, r.continuations, t) => PlainLog(d.runs, d.continuations, u)
        /\ HasCancel(t) => HasCancel(u)
    <2> DEFINE new == d.runs
               more == d.continuations
    <2>1. /\ new = [r.runs EXCEPT ![Len(r.runs)] =
                      ContinuedEntry(r.runs[Len(r.runs)].event, p, Len(r.runs))]
          /\ more = Append(r.continuations, c)
      BY <1>4
    <2> HIDE DEF new, more
    <2>2. LogContinues(r.runs, r.continuations, r.cancellation, t, p, c, new, more, u)
      BY <1>1, <1>c, <1>t, <2>1, ContinueKeeps, Zenon
    <2> QED BY <2>2, Zenon DEF new, more, LogContinues
  <1>6. Len(u) = Len(t) + 1
    <2>1. "continue" \in TraceSteps
      BY DEF TraceSteps
    <2> QED BY <2>1
  <1>7. RouteIs(d, "pending", delayed)
    BY <1>4, <1>5 DEF RouteIs
  <1>8. ASSUME ~ stopped PROVE LogIs(d, u, "open", p, stopped, delayed)
    BY <1>8, <1>1, <1>4, <1>5, <1>6, <1>7 DEF LogIs
  <1>9. ASSUME stopped PROVE LogIs(d, u, "open", p, stopped, delayed)
    <2>1. HasCancel(t)
      BY <1>9 DEF LogIs
    <2>2. CancelledRoute(d, delayed)
      BY <1>5, <1>7 DEF CancelledRoute
    <2> QED BY <1>9, <1>1, <1>4, <1>5, <1>6, <2>1, <2>2 DEF LogIs
  <1> QED BY <1>5, <1>8, <1>9, Zenon DEF LogGoesOn

\* The log after a cancellation.
LEMMA CancelLog ==
  ASSUME NEW r \in LogRecords, NEW t \in Seq(TraceSteps), NEW p \in Int, NEW before \in BOOLEAN,
         NEW delayed \in BOOLEAN, NEW how, LogIs(r, t, how, p, before, delayed),
         NEW d, d = Post!RecordCancellation(r, before, delayed),
         NEW u, u = t \o <<"cancel", "aborted">>
  PROVE  LogStops(r, t, how, p, before, delayed, d, u)
  <1>t. r.runs \in Seq(RunEntries) /\ r.continuations \in Seq(ContinuationEntries)
        /\ Len(t) \in Nat
    BY LogTypes
  <1>1. LogParts(r.runs, r.continuations, r.cancellation, t, how, p) /\ r.events = Len(t)
    BY DEF LogIs
  <1>2. PICK status : RouteIs(r, status, delayed)
    BY DEF LogIs, CancelledRoute
  <1>3. /\ d.events = r.events + 2 /\ d.runs = r.runs
        /\ d.cancellation # <<>> /\ d.cancellation[1].request = r.events
        /\ d.cancellation[1].completion = r.events + 1
        /\ Len(d.continuations) = Len(r.continuations)
        /\ \A i \in 1 .. Len(r.continuations) :
             SameContinuation(d.continuations[i], r.continuations[i])
        /\ RouteIs(d, "aborted", delayed)
    <2>1. CancelIs(Post!RecordCancellation(r, before, delayed), r, delayed)
      BY <1>2, CancelFields, Zenon
    <2>2. CancelIs(d, r, delayed)
      BY <2>1, Zenon
    <2> QED BY <2>2, Zenon DEF CancelIs
  <1>4. LogParts(r.runs, d.continuations, d.cancellation, u, how, p) /\ HasCancel(u)
    <2> DEFINE same == d.continuations
               other == d.cancellation
    <2>1. /\ Len(same) = Len(r.continuations) /\ other[1].request = Len(t)
          /\ other[1].completion = Len(t) + 1
          /\ \A i \in 1 .. Len(r.continuations) : SameContinuation(same[i], r.continuations[i])
      BY <1>1, <1>3
    <2> HIDE DEF same, other
    <2>2. LogCancels(r.runs, r.continuations, r.cancellation, t, how, p, same, other, u)
      BY <1>1, <1>t, <2>1, CancelKeeps, Zenon
    <2> QED BY <2>2, Zenon DEF same, other, LogCancels
  <1>5. Len(u) = Len(t) + 2
    <2>1. <<"cancel", "aborted">> \in Seq(TraceSteps) /\ Len(<<"cancel", "aborted">>) = 2
      BY DEF TraceSteps
    <2> QED BY <2>1
  <1>6. LogIs(d, u, how, p, TRUE, delayed)
    BY <1>1, <1>3, <1>4, <1>5 DEF LogIs, CancelledRoute
  <1> QED BY <1>3, <1>6 DEF LogStops

\* The log of a callback that was just scheduled.
LEMMA NewLog ==
  ASSUME NEW p \in Int, NEW delayed \in BOOLEAN
  PROVE  /\ LogIs(Post!NewRecord, <<"schedule">>, "open", p, FALSE, delayed)
         /\ Len(Post!NewRecord.runs) = Len(Post!NewRecord.continuations)
  <1> DEFINE r == Post!NewRecord
  <1>1. /\ r.runs = <<>> /\ r.continuations = <<>> /\ r.cancellation = <<>> /\ r.route = <<>>
        /\ r.events = 1
    BY DEF Post!NewRecord
  <1> HIDE DEF r
  <1>2. LogParts(<<>>, <<>>, <<>>, <<"schedule">>, "open", p)
    BY DEF LogParts, Alternate, EntriesOk, ContinuationsOk, Between, RunsTold, ContinuationsTold,
           CancellationTold
  <1>3. PlainLog(<<>>, <<>>, <<"schedule">>) /\ Len(<<"schedule">>) = 1
    BY DEF PlainLog
  <1>4. RouteIs(r, "pending", delayed)
    BY <1>1 DEF RouteIs
  <1>5. LogIs(r, <<"schedule">>, "open", p, FALSE, delayed)
    BY <1>1, <1>2, <1>3, <1>4 DEF LogIs
  <1> QED BY <1>1, <1>5 DEF r

\* A callback that a step does not touch.
LEMMA NodeUntouched ==
  ASSUME NEW n \in PostNodes, NodeOk(n), postTask'[n] = postTask[n],
         postRecord'[n] = postRecord[n], postTrace'[n] = postTrace[n],
         postEnding'[n] = postEnding[n], IsPosted(n)' => IsPosted(n), OnStack(n)' => OnStack(n)
  PROVE  NodeOk(n)'
  <1>1. (n \in Post!Scheduled)' <=> n \in Post!Scheduled
    BY DEF Post!Scheduled
  <1>2. LogOk(n) => LogOk(n)'
    <2>1. Post!Delayed(n)' = Post!Delayed(n)
      BY Zenon DEF Post!Delayed
    <2> QED BY <2>1, Zenon DEF LogOk
  <1>3. NodeFresh(n) => NodeFresh(n)'
    BY DEF NodeFresh
  <1>4. NodeWaits(n)'
    BY <1>1 DEF NodeOk, NodeWaits
  <1> QED BY <1>1, <1>2, <1>3, <1>4 DEF NodeOk

\* The callback that runs is the outermost call.
LEMMA RunningIsOnStack ==
  ASSUME StackOk, NEW n \in PostNodes, Post!Running(n)
  PROVE  OnStack(n)
  <1> DEFINE k == Len(postStack)
  <1>1. postStack # <<>> /\ postStack[k].node = <<n>>
    BY DEF Post!Running
  <1>2. k \in Nat \ {0}
    BY <1>1 DEF StackOk
  <1>3. \A i \in 2 .. k : postStack[i].node = <<>>
    BY DEF StackOk
  <1> HIDE DEF k
  <1>4. <<n>> # <<>>
    OBVIOUS
  <1>5. k = 1
    BY <1>1, <1>2, <1>3, <1>4
  <1> QED BY <1>1, <1>5 DEF OnStack

\* No callback is the outermost call of an empty stack.
LEMMA EmptyStack == ASSUME NEW n \in PostNodes, postStack' = <<>> PROVE ~ OnStack(n)'
  BY DEF OnStack

\* What the facts about one callback are about.
LEMMA NodeTypes ==
  ASSUME PostInv, LogTyped, NEW n \in PostNodes
  PROVE  /\ postRecord[n] \in LogRecords /\ postTrace[n] \in Seq(TraceSteps)
         /\ postTask[n].priority \in Int /\ postTask[n].aborted \in BOOLEAN
         /\ Post!Delayed(n) \in BOOLEAN
  BY DEF PostInv, PostTyped, PostTasks, LogTyped, Post!Delayed

\* A callback is scheduled.
LEMMA ScheduleTells ==
  ASSUME PostInv, LogInv, NEW n \in PostNodes, NEW p \in PostPriorities, NEW delay \in PostDelays,
         Post!ScheduleCallback(n, p, delay)
  PROVE  LogInv'
  <1> DEFINE new == [priority |-> p, postTaskPriority |-> Post!PostTaskPriority(p),
                     delay |-> delay, aborted |-> FALSE]
             late == delay > 0
  <1>t. /\ postTask \in [PostNodes -> PostTasks] /\ postRecord \in [PostNodes -> LogRecords]
        /\ postTrace \in [PostNodes -> Seq(TraceSteps)] /\ p \in Int /\ p # -1
        /\ postEnding \in [PostNodes -> Endings]
    BY PostInstance DEF PostInv, PostTyped, LogInv, LogTyped
  <1>1. /\ postTask' = [postTask EXCEPT ![n] = new]
        /\ postRecord' = [postRecord EXCEPT ![n] = Post!NewRecord]
        /\ posted' = posted \cup {[node |-> n, signalled |-> TRUE]}
        /\ postTrace' = [postTrace EXCEPT ![n] = Append(postTrace[n], "schedule")]
        /\ postEnding' = postEnding /\ postStack' = postStack
        /\ n \notin Post!Scheduled
    BY <1>t DEF Post!ScheduleCallback, Post!Note
  <1>2. NodeFresh(n) /\ NodeWaits(n)
    BY <1>1 DEF LogInv, NodeOk
  <1>3. /\ new.priority = p /\ ~ new.aborted /\ new.delay = delay /\ new.aborted = FALSE
        /\ new.postTaskPriority = Post!PostTaskPriority(p) /\ new # Post!NoTask
    BY <1>t DEF Post!NoTask, Post!None
  <1>4. ~ IsPosted(n) /\ ~ OnStack(n) /\ postEnding[n] = "open"
    BY <1>1, <1>2 DEF NodeWaits, NodeFresh
  <1>5. Append(postTrace[n], "schedule") = <<"schedule">>
    BY <1>2 DEF NodeFresh
  <1> HIDE DEF new
  <1>6. /\ postTask'[n] = new /\ postRecord'[n] = Post!NewRecord
        /\ postTrace'[n] = <<"schedule">> /\ postEnding'[n] = "open"
    BY <1>1, <1>4, <1>5, <1>t
  <1>7. (n \in Post!Scheduled)'
    BY <1>3, <1>6 DEF Post!Scheduled
  <1>8. NodeOk(n)'
    <2>1. Post!Delayed(n)' = late
      BY <1>3, <1>6 DEF Post!Delayed
    <2>2. late \in BOOLEAN
      OBVIOUS
    <2> HIDE DEF late
    <2>3. /\ LogIs(Post!NewRecord, <<"schedule">>, "open", p, FALSE, late)
          /\ Len(Post!NewRecord.runs) = Len(Post!NewRecord.continuations)
      BY <1>t, <2>2, NewLog, Zenon
    <2>4. LogOk(n)'
      <3>1. LogIs(postRecord'[n], postTrace'[n], postEnding'[n], postTask'[n].priority,
                  postTask'[n].aborted, Post!Delayed(n)')
        BY <1>3, <1>6, <2>1, <2>3, Zenon
      <3>2. postTask'[n].postTaskPriority = Post!PostTaskPriority(postTask'[n].priority)
        BY <1>3, <1>6, Zenon
      <3> QED BY <3>1, <3>2, Zenon DEF LogOk
    <2>5. NodeWaits(n)'
      <3>1. ~ OnStack(n)'
        BY <1>1, <1>4 DEF OnStack
      <3>2. Len(postRecord'[n].runs) = Len(postRecord'[n].continuations)
        BY <1>6, <2>3
      <3> QED BY <1>6, <1>7, <3>1, <3>2, Zenon DEF NodeWaits
    <2> QED BY <1>7, <2>4, <2>5, Zenon DEF NodeOk
  <1>9. ASSUME NEW m \in PostNodes, m # n PROVE NodeOk(m)'
    <2>1. /\ postTask'[m] = postTask[m] /\ postRecord'[m] = postRecord[m]
          /\ postTrace'[m] = postTrace[m] /\ postEnding'[m] = postEnding[m]
      BY <1>1, <1>9, <1>t
    <2>2. IsPosted(m)' => IsPosted(m)
      BY <1>1, <1>9 DEF IsPosted
    <2>3. OnStack(m)' => OnStack(m)
      BY <1>1 DEF OnStack
    <2>4. NodeOk(m)
      BY DEF LogInv
    <2> QED BY <2>1, <2>2, <2>3, <2>4, NodeUntouched
  <1>10. LogTyped'
    <2>1. <<"schedule">> \in Seq(TraceSteps)
      BY DEF TraceSteps
    <2> QED BY <1>1, <1>5, <1>t, <2>1 DEF LogTyped
  <1> QED BY <1>8, <1>9, <1>10 DEF LogInv

\* A step that touches one callback only.
LEMMA OneTouched ==
  ASSUME LogInv, NEW n \in PostNodes, NodeOk(n)', LogTyped',
         \A m \in PostNodes \ {n} :
           /\ postTask'[m] = postTask[m] /\ postRecord'[m] = postRecord[m]
           /\ postTrace'[m] = postTrace[m] /\ postEnding'[m] = postEnding[m]
           /\ IsPosted(m)' => IsPosted(m)
           /\ OnStack(m)' => OnStack(m)
  PROVE  LogInv'
  <1>1. ASSUME NEW m \in PostNodes PROVE NodeOk(m)'
    <2>1. CASE m = n
      BY <2>1
    <2>2. CASE m # n
      <3>1. NodeOk(m)
        BY DEF LogInv
      <3> QED BY <2>2, <3>1, NodeUntouched
    <2> QED BY <2>1, <2>2
  <1> QED BY <1>1 DEF LogInv

\* A callback is cancelled.
LEMMA CancelTells ==
  ASSUME PostInv, LogInv, NEW n \in PostNodes, Post!CancelCallback(n)
  PROVE  LogInv'
  <1> DEFINE before == postTask[n].aborted
             late == Post!Delayed(n)
             new == Post!RecordCancellation(postRecord[n], before, late)
             u == postTrace[n] \o <<"cancel", "aborted">>
  <1>t. /\ postTask \in [PostNodes -> PostTasks] /\ postRecord \in [PostNodes -> LogRecords]
        /\ postTrace \in [PostNodes -> Seq(TraceSteps)]
        /\ postEnding \in [PostNodes -> Endings]
    BY DEF PostInv, PostTyped, LogInv, LogTyped
  <1>1. /\ postTask' = [postTask EXCEPT ![n].aborted = TRUE]
        /\ postRecord' = [postRecord EXCEPT ![n] = new]
        /\ postTrace' = [postTrace EXCEPT ![n] = u]
        /\ postEnding' = postEnding /\ postStack' = postStack /\ posted' = posted
        /\ n \in Post!Scheduled
    BY <1>t DEF Post!CancelCallback
  <1>2. LogOk(n) /\ NodeWaits(n)
    BY <1>1 DEF LogInv, NodeOk
  <1>3. /\ postRecord[n] \in LogRecords /\ postTrace[n] \in Seq(TraceSteps)
        /\ postTask[n].priority \in Int /\ before \in BOOLEAN /\ late \in BOOLEAN
    BY NodeTypes DEF LogInv
  <1>4. /\ postTask'[n].priority = postTask[n].priority /\ postTask'[n].aborted = TRUE
        /\ postTask'[n].delay = postTask[n].delay
        /\ postTask'[n].postTaskPriority = postTask[n].postTaskPriority
    BY <1>1, <1>t DEF PostTasks
  <1>5. (n \in Post!Scheduled)'
    BY <1>4 DEF Post!Scheduled, Post!NoTask
  <1>6. Post!Delayed(n)' = late
    BY <1>4 DEF Post!Delayed
  <1>d. LogIs(postRecord[n], postTrace[n], postEnding[n], postTask[n].priority, before, late)
    BY <1>2 DEF LogOk
  <1>e. new = Post!RecordCancellation(postRecord[n], before, late)
        /\ u = postTrace[n] \o <<"cancel", "aborted">>
    OBVIOUS
  <1> HIDE DEF before, late, new, u
  <1>7. /\ LogIs(new, u, postEnding[n], postTask[n].priority, TRUE, late)
        /\ Len(new.continuations) = Len(postRecord[n].continuations)
        /\ new.runs = postRecord[n].runs
    <2>1. LogStops(postRecord[n], postTrace[n], postEnding[n], postTask[n].priority, before,
                   late, new, u)
      BY <1>3, <1>d, <1>e, CancelLog, Zenon
    <2> QED BY <2>1, Zenon DEF LogStops
  <1>8. /\ postRecord'[n] = new /\ postTrace'[n] = u /\ postEnding'[n] = postEnding[n]
    BY <1>1, <1>t
  <1>9. NodeOk(n)'
    <2>1. LogOk(n)'
      <3>1. LogIs(postRecord'[n], postTrace'[n], postEnding'[n], postTask'[n].priority,
                  postTask'[n].aborted, Post!Delayed(n)')
        BY <1>4, <1>6, <1>7, <1>8, Zenon
      <3>2. postTask'[n].postTaskPriority = Post!PostTaskPriority(postTask'[n].priority)
        BY <1>2, <1>4, Zenon DEF LogOk
      <3> QED BY <3>1, <3>2, Zenon DEF LogOk
    <2>2. NodeWaits(n)'
      <3>1. (OnStack(n)' <=> OnStack(n)) /\ (IsPosted(n)' <=> IsPosted(n))
        BY <1>1 DEF OnStack, IsPosted
      <3> QED BY <1>2, <1>5, <1>7, <1>8, <3>1 DEF NodeWaits
    <2> QED BY <1>5, <2>1, <2>2, Zenon DEF NodeOk
  <1>10. LogTyped'
    <2>1. u \in Seq(TraceSteps)
      <3>1. <<"cancel", "aborted">> \in Seq(TraceSteps)
        BY DEF TraceSteps
      <3> QED BY <3>1, <1>3, <1>e
    <2> QED BY <1>1, <1>t, <2>1 DEF LogTyped
  <1>11. ASSUME NEW m \in PostNodes \ {n}
         PROVE  /\ postTask'[m] = postTask[m] /\ postRecord'[m] = postRecord[m]
                /\ postTrace'[m] = postTrace[m] /\ postEnding'[m] = postEnding[m]
                /\ IsPosted(m)' => IsPosted(m)
                /\ OnStack(m)' => OnStack(m)
    <2>1. (IsPosted(m)' => IsPosted(m)) /\ (OnStack(m)' => OnStack(m))
      BY <1>1 DEF OnStack, IsPosted
    <2> QED BY <2>1, <1>1, <1>t
  <1> QED BY <1>9, <1>10, <1>11, OneTouched

\* A run of a callback starts.
LEMMA StartTells ==
  ASSUME PostInv, LogInv, NEW n \in PostNodes, Post!StartTask(n)
  PROVE  LogInv'
  <1> DEFINE late == Post!Delayed(n)
             p == postTask[n].priority
             new == Post!RecordCallbackRun(postRecord[n], p, FALSE, FALSE)
             u == Append(postTrace[n], "run")
             f == [node |-> <<n>>, saved |-> Post!NormalPriority, given |-> p]
  <1>t. /\ postTask \in [PostNodes -> PostTasks] /\ postRecord \in [PostNodes -> LogRecords]
        /\ postTrace \in [PostNodes -> Seq(TraceSteps)]
        /\ postEnding \in [PostNodes -> Endings]
        /\ posted \subseteq [node : PostNodes, signalled : {TRUE}]
    BY DEF PostInv, PostTyped, LogInv, LogTyped, AllSignalled
  <1>1. PICK x \in Post!Ready(n) : posted' = posted \ {x}
    BY DEF Post!StartTask
  <1>2. /\ x \in posted /\ x.node = n /\ postTask[n].aborted # TRUE
        /\ x = [node |-> n, signalled |-> TRUE]
    BY <1>t DEF Post!Ready
  <1>3. postTask[n].aborted = FALSE /\ p \in Int /\ postRecord[n] \in LogRecords
        /\ postTrace[n] \in Seq(TraceSteps) /\ late \in BOOLEAN
    BY <1>2, NodeTypes DEF LogInv
  <1>4. (sliceLeft' = 0) = FALSE
    BY PostInstance DEF Post!StartTask
  <1>5. /\ postRecord' = [postRecord EXCEPT ![n] = new]
        /\ postTrace' = [postTrace EXCEPT ![n] = u]
        /\ postEnding' = postEnding /\ postTask' = postTask /\ postStack' = <<f>>
    <2>1. postRecord' = [postRecord EXCEPT ![n] =
                           Post!RecordCallbackRun(postRecord[n], p, sliceLeft' = 0,
                                                  postTask[n].aborted)]
      BY DEF Post!StartTask
    <2>2. /\ postTrace' = [postTrace EXCEPT ![n] = u] /\ postEnding' = postEnding
          /\ postTask' = postTask /\ postStack' = <<f>>
      BY DEF Post!StartTask, Post!Note
    <2> QED BY <2>1, <2>2, <1>3, <1>4, Zenon
  <1>6. /\ n \in Post!Scheduled /\ postEnding[n] = "open"
        /\ Len(postRecord[n].runs) = Len(postRecord[n].continuations)
    <2>1. IsPosted(n) /\ NodeWaits(n)
      BY <1>2 DEF IsPosted, LogInv, NodeOk
    <2> QED BY <2>1 DEF NodeWaits
  <1>7. LogOk(n)
    BY <1>6 DEF LogInv, NodeOk
  <1>8. LogIs(postRecord[n], postTrace[n], "open", p, FALSE, late)
    BY <1>3, <1>6, <1>7, Zenon DEF LogOk
  <1>e. /\ new = Post!RecordCallbackRun(postRecord[n], p, FALSE, FALSE)
        /\ u = Append(postTrace[n], "run")
    OBVIOUS
  <1>f. <<f>> # <<>> /\ <<f>>[1].node = <<n>>
    OBVIOUS
  <1>g. late = Post!Delayed(n) /\ p = postTask[n].priority
    OBVIOUS
  <1> HIDE DEF late, p, new, u, f
  <1>9. /\ LogIs(new, u, "open", p, FALSE, late)
        /\ Len(new.runs) = Len(new.continuations) + 1
    <2>1. LogRuns(postRecord[n], postTrace[n], p, late, new, u)
      BY <1>3, <1>6, <1>8, <1>e, RunLog, Zenon
    <2> QED BY <2>1, Zenon DEF LogRuns
  <1>10. postRecord'[n] = new /\ postTrace'[n] = u /\ postEnding'[n] = "open"
    BY <1>5, <1>6, <1>t
  <1>11. NodeOk(n)'
    <2>1. (n \in Post!Scheduled)' /\ Post!Delayed(n)' = late
      <3>1. (n \in Post!Scheduled)'
        BY <1>5, <1>6 DEF Post!Scheduled
      <3>2. Post!Delayed(n)' = late
        BY <1>5, <1>g, Zenon DEF Post!Delayed
      <3> QED BY <3>1, <3>2
    <2>2. LogOk(n)'
      <3>1. LogIs(postRecord'[n], postTrace'[n], postEnding'[n], postTask'[n].priority,
                  postTask'[n].aborted, Post!Delayed(n)')
        BY <1>3, <1>5, <1>9, <1>10, <1>g, <2>1, Zenon
      <3>2. postTask'[n].postTaskPriority = Post!PostTaskPriority(postTask'[n].priority)
        BY <1>5, <1>7, Zenon DEF LogOk
      <3> QED BY <3>1, <3>2, Zenon DEF LogOk
    <2>3. ~ IsPosted(n)'
      <3>1. \A y \in posted : y.node = n => y = [node |-> n, signalled |-> TRUE]
        <4> SUFFICES ASSUME NEW y \in posted, y.node = n PROVE y = [node |-> n, signalled |-> TRUE]
          OBVIOUS
        <4>1. y \in [node : PostNodes, signalled : {TRUE}]
          BY <1>t
        <4> QED BY <4>1
      <3>2. \A y \in posted : y.node = n => y = x
        BY <3>1, <1>2
      <3>3. \A y \in posted' : y.node # n
        BY <3>2, <1>1
      <3> QED BY <3>3 DEF IsPosted
    <2>4. Len(postRecord'[n].runs) = Len(postRecord'[n].continuations) + 1
      BY <1>9, <1>10
    <2>5. NodeWaits(n)'
      BY <1>10, <2>1, <2>3, <2>4, Zenon DEF NodeWaits
    <2> QED BY <2>1, <2>2, <2>5, Zenon DEF NodeOk
  <1>12. LogTyped'
    <2>1. u \in Seq(TraceSteps)
      <3>1. "run" \in TraceSteps
        BY DEF TraceSteps
      <3> QED BY <3>1, <1>3, <1>e
    <2> QED BY <1>5, <1>t, <2>1 DEF LogTyped
  <1>13. ASSUME NEW m \in PostNodes \ {n}
         PROVE  /\ postTask'[m] = postTask[m] /\ postRecord'[m] = postRecord[m]
                /\ postTrace'[m] = postTrace[m] /\ postEnding'[m] = postEnding[m]
                /\ IsPosted(m)' => IsPosted(m)
                /\ OnStack(m)' => OnStack(m)
    <2>1. IsPosted(m)' => IsPosted(m)
      BY <1>1 DEF IsPosted
    <2>2. ~ OnStack(m)'
      <3>1. <<n>> # <<m>>
        OBVIOUS
      <3> QED BY <1>5, <1>f, <3>1 DEF OnStack
    <2> QED BY <2>1, <2>2, <1>5, <1>t
  <1> QED BY <1>11, <1>12, <1>13, OneTouched

\* A callback returns a function and is continued.
LEMMA ContinueTells ==
  ASSUME PostInv, LogInv, NEW n \in PostNodes, Post!ReturnContinuation(n)
  PROVE  LogInv'
  <1> DEFINE late == Post!Delayed(n)
             p == postTask[n].priority
             stopped == postTask[n].aborted
             new == Post!RecordContinuationFallback(
                      Post!RecordCallbackResult(postRecord[n], "function"), HasYield, stopped, late)
             u == Append(postTrace[n], "continue")
  <1>t. /\ postTask \in [PostNodes -> PostTasks] /\ postRecord \in [PostNodes -> LogRecords]
        /\ postTrace \in [PostNodes -> Seq(TraceSteps)]
        /\ postEnding \in [PostNodes -> Endings]
    BY DEF PostInv, PostTyped, LogInv, LogTyped
  <1>1. /\ postRecord' = [postRecord EXCEPT ![n] = new]
        /\ postTrace' = [postTrace EXCEPT ![n] = u]
        /\ posted' = posted \cup {[node |-> n, signalled |-> TRUE]}
        /\ postEnding' = postEnding /\ postTask' = postTask /\ postStack' = <<>>
    BY DEF Post!ReturnContinuation, Post!PostContinuation, Post!Note
  <1>2. /\ n \in Post!Scheduled /\ postEnding[n] = "open"
        /\ Len(postRecord[n].runs) = Len(postRecord[n].continuations) + 1
    <2>1. OnStack(n) /\ NodeWaits(n)
      BY RunningIsOnStack DEF Post!ReturnContinuation, PostInv, LogInv, NodeOk
    <2> QED BY <2>1 DEF NodeWaits
  <1>3. /\ stopped \in BOOLEAN /\ p \in Int /\ postRecord[n] \in LogRecords
        /\ postTrace[n] \in Seq(TraceSteps) /\ late \in BOOLEAN
    BY NodeTypes DEF LogInv
  <1>4. LogOk(n)
    BY <1>2 DEF LogInv, NodeOk
  <1>5. LogIs(postRecord[n], postTrace[n], "open", p, stopped, late)
    BY <1>2, <1>4, Zenon DEF LogOk
  <1>e. /\ new = Post!RecordContinuationFallback(
                   Post!RecordCallbackResult(postRecord[n], "function"), HasYield, stopped, late)
        /\ u = Append(postTrace[n], "continue")
    OBVIOUS
  <1>g. late = Post!Delayed(n) /\ p = postTask[n].priority /\ stopped = postTask[n].aborted
    OBVIOUS
  <1> HIDE DEF late, p, stopped, new, u
  <1>6. /\ LogIs(new, u, "open", p, stopped, late)
        /\ Len(new.runs) = Len(new.continuations)
    <2>1. LogGoesOn(postRecord[n], postTrace[n], p, stopped, late, new, u)
      BY <1>2, <1>3, <1>5, <1>e, ContinueLog, Zenon
    <2> QED BY <2>1, Zenon DEF LogGoesOn
  <1>7. postRecord'[n] = new /\ postTrace'[n] = u /\ postEnding'[n] = "open"
    BY <1>1, <1>2, <1>t
  <1>8. NodeOk(n)'
    <2>1. (n \in Post!Scheduled)'
      BY <1>1, <1>2 DEF Post!Scheduled
    <2>2. Post!Delayed(n)' = late
      BY <1>1, <1>g, Zenon DEF Post!Delayed
    <2>3. LogOk(n)'
      <3>1. LogIs(postRecord'[n], postTrace'[n], postEnding'[n], postTask'[n].priority,
                  postTask'[n].aborted, Post!Delayed(n)')
        BY <1>1, <1>6, <1>7, <1>g, <2>2, Zenon
      <3>2. postTask'[n].postTaskPriority = Post!PostTaskPriority(postTask'[n].priority)
        BY <1>1, <1>4, Zenon DEF LogOk
      <3> QED BY <3>1, <3>2, Zenon DEF LogOk
    <2>4. Len(postRecord'[n].runs) = Len(postRecord'[n].continuations) /\ ~ OnStack(n)'
      BY <1>1, <1>6, <1>7, EmptyStack
    <2>5. NodeWaits(n)'
      BY <1>7, <2>1, <2>4, Zenon DEF NodeWaits
    <2> QED BY <2>1, <2>3, <2>5, Zenon DEF NodeOk
  <1>9. LogTyped'
    <2>1. u \in Seq(TraceSteps)
      <3>1. "continue" \in TraceSteps
        BY DEF TraceSteps
      <3> QED BY <3>1, <1>3, <1>e
    <2> QED BY <1>1, <1>t, <2>1 DEF LogTyped
  <1>10. ASSUME NEW m \in PostNodes \ {n}
         PROVE  /\ postTask'[m] = postTask[m] /\ postRecord'[m] = postRecord[m]
                /\ postTrace'[m] = postTrace[m] /\ postEnding'[m] = postEnding[m]
                /\ IsPosted(m)' => IsPosted(m)
                /\ OnStack(m)' => OnStack(m)
    <2>1. IsPosted(m)' => IsPosted(m)
      BY <1>1 DEF IsPosted
    <2>2. ~ OnStack(m)'
      BY <1>1, EmptyStack
    <2> QED BY <2>1, <2>2, <1>1, <1>t
  <1> QED BY <1>8, <1>9, <1>10, OneTouched

\* A callback returns anything else, or throws: its last run has ended.
LEMMA EndTells ==
  ASSUME PostInv, LogInv, NEW n \in PostNodes, Post!Throw(n) \/ \E type \in Post!Results : Post!ReturnResult(n, type)
  PROVE  LogInv'
  <1> DEFINE late == Post!Delayed(n)
             p == postTask[n].priority
             stopped == postTask[n].aborted
             new == postRecord'[n]
             how == postEnding'[n]
  <1>t. /\ postTask \in [PostNodes -> PostTasks] /\ postRecord \in [PostNodes -> LogRecords]
        /\ postTrace \in [PostNodes -> Seq(TraceSteps)]
        /\ postEnding \in [PostNodes -> Endings]
    BY DEF PostInv, PostTyped, LogInv, LogTyped
  <1>1. /\ Post!Running(n) /\ postTrace' = postTrace /\ posted' = posted /\ postTask' = postTask
        /\ postStack' = <<>>
    BY DEF Post!ReturnResult, Post!Throw, Post!End
  <1>2. /\ n \in Post!Scheduled /\ postEnding[n] = "open"
        /\ Len(postRecord[n].runs) = Len(postRecord[n].continuations) + 1 /\ ~ IsPosted(n)
    <2>1. OnStack(n) /\ NodeWaits(n)
      BY <1>1, RunningIsOnStack DEF PostInv, LogInv, NodeOk
    <2> QED BY <2>1 DEF NodeWaits
  <1>3. /\ stopped \in BOOLEAN /\ p \in Int /\ postRecord[n] \in LogRecords
        /\ postTrace[n] \in Seq(TraceSteps) /\ late \in BOOLEAN
    BY NodeTypes DEF LogInv
  <1>4. LogOk(n)
    BY <1>2 DEF LogInv, NodeOk
  <1>5. LogIs(postRecord[n], postTrace[n], "open", p, stopped, late)
    BY <1>2, <1>4, Zenon DEF LogOk
  <1>6. /\ how \in Post!Results \/ how = "throw"
        /\ postEnding' \in [PostNodes -> Endings]
        /\ how \in Post!Results => new = Post!RecordCallbackResult(postRecord[n], how)
        /\ how = "throw" => new = postRecord[n]
        /\ \A m \in PostNodes \ {n} : /\ postRecord'[m] = postRecord[m]
                                      /\ postEnding'[m] = postEnding[m]
    <2>1. ASSUME NEW type \in Post!Results, Post!ReturnResult(n, type) PROVE <1>6!:
      <3>1. /\ postRecord' = [postRecord EXCEPT ![n] =
                                Post!RecordCallbackResult(postRecord[n], type)]
            /\ postEnding' = [postEnding EXCEPT ![n] = type]
        BY <2>1 DEF Post!ReturnResult, Post!End
      <3> QED BY <3>1, <1>t DEF Endings, Post!Results
    <2>2. CASE Post!Throw(n)
      <3>1. postRecord' = postRecord /\ postEnding' = [postEnding EXCEPT ![n] = "throw"]
        BY <2>2 DEF Post!Throw, Post!End
      <3> QED BY <3>1, <1>t DEF Endings, Post!Results
    <2> QED BY <2>1, <2>2
  <1>g. /\ late = Post!Delayed(n) /\ p = postTask[n].priority /\ stopped = postTask[n].aborted
        /\ new = postRecord'[n] /\ how = postEnding'[n]
    OBVIOUS
  <1> HIDE DEF late, p, stopped, new, how
  <1>7. LogIs(new, postTrace[n], how, p, stopped, late)
    <2>1. CASE how \in Post!Results
      <3>1. LogCompletes(postRecord[n], postTrace[n], how, p, stopped, late, new)
        BY <1>2, <1>3, <1>5, <1>6, <2>1, CompleteLog, Zenon
      <3> QED BY <2>1, <3>1, Zenon DEF LogCompletes
    <2>2. CASE how = "throw"
      <3>1. LogIs(postRecord[n], postTrace[n], "throw", p, stopped, late)
        BY <1>2, <1>3, <1>5, ThrowLog, Zenon
      <3> QED BY <1>6, <2>2, <3>1, Zenon
    <2> QED BY <1>6, <2>1, <2>2
  <1>8. NodeOk(n)'
    <2>1. (n \in Post!Scheduled)'
      BY <1>1, <1>2 DEF Post!Scheduled
    <2>2. Post!Delayed(n)' = late
      BY <1>1, <1>g, Zenon DEF Post!Delayed
    <2>3. LogOk(n)'
      <3>1. LogIs(postRecord'[n], postTrace'[n], postEnding'[n], postTask'[n].priority,
                  postTask'[n].aborted, Post!Delayed(n)')
        BY <1>1, <1>7, <1>g, <2>2, Zenon
      <3>2. postTask'[n].postTaskPriority = Post!PostTaskPriority(postTask'[n].priority)
        BY <1>1, <1>4, Zenon DEF LogOk
      <3> QED BY <3>1, <3>2, Zenon DEF LogOk
    <2>4. ~ IsPosted(n)' /\ ~ OnStack(n)'
      BY <1>1, <1>2, EmptyStack DEF IsPosted
    <2>5. NodeWaits(n)'
      BY <2>4, Zenon DEF NodeWaits
    <2> QED BY <2>1, <2>3, <2>5, Zenon DEF NodeOk
  <1>9. LogTyped'
    BY <1>1, <1>6, <1>t DEF LogTyped
  <1>10. ASSUME NEW m \in PostNodes \ {n}
         PROVE  /\ postTask'[m] = postTask[m] /\ postRecord'[m] = postRecord[m]
                /\ postTrace'[m] = postTrace[m] /\ postEnding'[m] = postEnding[m]
                /\ IsPosted(m)' => IsPosted(m)
                /\ OnStack(m)' => OnStack(m)
    <2>1. IsPosted(m)' => IsPosted(m)
      BY <1>1 DEF IsPosted
    <2>2. ~ OnStack(m)'
      BY <1>1, EmptyStack
    <2> QED BY <2>1, <2>2, <1>1, <1>6
  <1> QED BY <1>8, <1>9, <1>10, OneTouched

\* A step that makes no log entry: no callback is posted or begins to run.
LEMMA LogsUntouched ==
  ASSUME LogInv, posted' \subseteq posted, postTask' = postTask, postRecord' = postRecord,
         postTrace' = postTrace, postEnding' = postEnding,
         \A m \in PostNodes : OnStack(m)' => OnStack(m)
  PROVE  LogInv'
  <1>1. ASSUME NEW n \in PostNodes PROVE NodeOk(n)'
    <2>1. IsPosted(n)' => IsPosted(n)
      BY DEF IsPosted
    <2>2. NodeOk(n)
      BY DEF LogInv
    <2> QED BY <2>1, <2>2, NodeUntouched
  <1>2. LogTyped'
    BY DEF LogInv, LogTyped
  <1> QED BY <1>1, <1>2 DEF LogInv

\* A nested call makes no log entry.
LEMMA EnterTells ==
  ASSUME PostInv, LogInv, NEW level, Post!Enter(level)
  PROVE  LogInv'
  <1> DEFINE f == [node |-> <<>>, saved |-> postPriority, given |-> level]
  <1>1. /\ postStack' = Append(postStack, f) /\ posted' = posted
        /\ UNCHANGED <<postTask, postRecord, postTrace, postEnding>>
    BY DEF Post!Enter
  <1>2. f.node = <<>>
    OBVIOUS
  <1> HIDE DEF f
  <1>3. ASSUME NEW n \in PostNodes, OnStack(n)' PROVE OnStack(n)
    <2>1. postStack'[1].node = <<n>> /\ <<n>> # <<>>
      BY <1>3 DEF OnStack
    <2>2. postStack \in Seq(Frames)
      BY DEF PostInv, StackOk
    <2>3. CASE postStack = <<>>
      <3>1. postStack'[1] = f
        BY <2>3, <1>1
      <3> QED BY <2>1, <3>1, <1>2
    <2>4. CASE postStack # <<>>
      <3>1. postStack'[1] = postStack[1]
        BY <2>2, <2>4, <1>1
      <3> QED BY <2>1, <2>4, <3>1 DEF OnStack
    <2> QED BY <2>3, <2>4
  <1> QED BY <1>1, <1>3, LogsUntouched

\* Every step of the browser and its callers keeps what the logs say.
LEMMA LogStep ==
  ASSUME PostInv, LogInv, Post!Next
  PROVE  LogInv'
  <1>1. ASSUME NEW n \in PostNodes, Post!RejectAborted(n) PROVE LogInv'
    <2>1. /\ posted' \subseteq posted /\ postStack' = postStack
          /\ UNCHANGED <<postTask, postRecord, postTrace, postEnding>>
      BY <1>1 DEF Post!RejectAborted
    <2>2. \A m \in PostNodes : OnStack(m)' => OnStack(m)
      BY <2>1 DEF OnStack
    <2> QED BY <2>1, <2>2, LogsUntouched
  <1>2. ASSUME NEW p \in PostPriorities, Post!RunWithPriority(p) \/ Post!CallWrapped(p)
        PROVE  LogInv'
    BY <1>2, EnterTells DEF Post!RunWithPriority, Post!CallWrapped
  <1>3. ASSUME Post!RunNext PROVE LogInv'
    <2> DEFINE level == IF postPriority \in {1, 2, 3} THEN Post!NormalPriority ELSE postPriority
    <2>1. Post!Enter(level)
      BY <1>3 DEF Post!RunNext
    <2> HIDE DEF level
    <2> QED BY <2>1, EnterTells
  <1>4. ASSUME Post!WrapCallback \/ Post!Tick PROVE LogInv'
    <2>1. /\ posted' = posted /\ postStack' = postStack
          /\ UNCHANGED <<postTask, postRecord, postTrace, postEnding>>
      BY <1>4 DEF Post!WrapCallback, Post!Tick
    <2>2. \A m \in PostNodes : OnStack(m)' => OnStack(m)
      BY <2>1 DEF OnStack
    <2> QED BY <2>1, <2>2, LogsUntouched
  <1>5. ASSUME Post!Leave PROVE LogInv'
    <2> DEFINE k == Len(postStack)
    <2>1. /\ posted' = posted /\ postStack # <<>> /\ postStack' = SubSeq(postStack, 1, k - 1)
          /\ UNCHANGED <<postTask, postRecord, postTrace, postEnding>>
      BY <1>5 DEF Post!Leave
    <2>2. postStack \in Seq(Frames) /\ k \in Nat \ {0}
      BY <2>1 DEF PostInv, StackOk
    <2>3. postStack' # <<>> => postStack'[1] = postStack[1]
      BY <2>1, <2>2
    <2>4. \A m \in PostNodes : OnStack(m)' => OnStack(m)
      BY <2>1, <2>3 DEF OnStack
    <2> QED BY <2>1, <2>4, LogsUntouched
  <1> QED
    BY <1>1, <1>2, <1>3, <1>4, <1>5, ScheduleTells, CancelTells, StartTells, ContinueTells, EndTells
    DEF Post!Next

\* The logs tell what happened, in every behaviour.
LEMMA LogInvHolds == Post!Spec => []LogInv
  <1>1. Post!Init => LogInv
    <2> SUFFICES ASSUME Post!Init PROVE LogInv
      OBVIOUS
    <2>1. LogTyped
      <3>1. <<>> \in Seq(TraceSteps)
        OBVIOUS
      <3> QED BY <3>1 DEF Post!Init, LogTyped, Endings
    <2>2. ASSUME NEW n \in PostNodes PROVE NodeOk(n)
      <3>1. NodeFresh(n) /\ n \notin Post!Scheduled
        BY DEF Post!Init, NodeFresh, Post!Scheduled
      <3>2. NodeWaits(n)
        BY DEF Post!Init, NodeWaits, IsPosted, OnStack
      <3> QED BY <3>1, <3>2 DEF NodeOk
    <2> QED BY <2>1, <2>2 DEF LogInv
  <1>2. PostInv /\ LogInv /\ [Post!Next]_(Post!vars) => LogInv'
    <2>1. ASSUME LogInv, UNCHANGED Post!vars PROVE LogInv'
      <3>1. /\ posted' = posted /\ postStack' = postStack /\ postTask' = postTask
            /\ postRecord' = postRecord /\ postTrace' = postTrace /\ postEnding' = postEnding
        BY <2>1 DEF Post!vars
      <3>2. \A m \in PostNodes : OnStack(m)' => OnStack(m)
        BY <3>1 DEF OnStack
      <3> QED BY <2>1, <3>1, <3>2, LogsUntouched
    <2> QED BY <2>1, LogStep
  <1> QED BY <1>1, <1>2, PostInvHolds, PTL DEF Post!Spec

\* What the fields of a task, its log and its trace are when its callback is scheduled.
LEMMA ScheduledLog ==
  ASSUME PostInv, LogInv, NEW n \in Post!Scheduled
  PROVE  /\ n \in PostNodes /\ postRecord[n] \in LogRecords
         /\ LogIs(postRecord[n], postTrace[n], postEnding[n], postTask[n].priority,
                  postTask[n].aborted, Post!Delayed(n))
         /\ postTask[n].postTaskPriority = Post!PostTaskPriority(postTask[n].priority)
  <1>1. n \in PostNodes
    BY DEF Post!Scheduled
  <1>2. LogOk(n)
    BY <1>1 DEF LogInv, NodeOk
  <1>3. postRecord[n] \in LogRecords
    BY <1>1 DEF PostInv, PostTyped
  <1> QED BY <1>1, <1>2, <1>3, Zenon DEF LogOk

\* The log of a callback tells the order.
LEMMA LogsTell ==
  ASSUME PostInv, LogInv
  PROVE  Post!LogTellsTheOrder
  <1> SUFFICES ASSUME NEW n \in Post!Scheduled
               PROVE  LET r == postRecord[n] IN
                 /\ r.events = Len(postTrace[n])
                 /\ \A i \in 1 .. Len(r.runs) : postTrace[n][r.runs[i].event + 1] = "run"
                 /\ \A i \in 1 .. Len(r.continuations) :
                      LET c == r.continuations[i] IN
                      /\ postTrace[n][c.event + 1] = "continue"
                      /\ r.runs[c.source + 1].fallback = i - 1
                      /\ r.runs[c.source + 1].event < c.event
                      /\ c.source + 2 <= Len(r.runs) => c.event < r.runs[c.source + 2].event
                 /\ r.cancellation # <<>> =>
                      /\ postTrace[n][r.cancellation[1].request + 1] = "cancel"
                      /\ postTrace[n][r.cancellation[1].completion + 1] = "aborted"
    BY DEF Post!LogTellsTheOrder
  <1> DEFINE r == postRecord[n]
             t == postTrace[n]
             p == postTask[n].priority
             how == postEnding[n]
             entries == r.runs
             conts == r.continuations
             cancellation == r.cancellation
  <1>1. r.events = Len(t) /\ LogParts(entries, conts, cancellation, t, how, p)
    BY ScheduledLog, Zenon DEF LogIs
  <1>2. r \in LogRecords /\ p \in Int
    BY ScheduledLog, NodeTypes DEF LogInv
  <1>3. entries \in Seq(RunEntries) /\ conts \in Seq(ContinuationEntries)
    BY <1>2, LogTypes
  <1>p. p \in Int
    BY <1>2
  <1> HIDE DEF t, p, how, entries, conts, cancellation
  <1>4. /\ Alternate(entries, conts, how) /\ EntriesOk(entries, Len(conts), p, how)
        /\ ContinuationsOk(conts) /\ Between(entries, conts)
        /\ RunsTold(entries, t) /\ ContinuationsTold(conts, t) /\ CancellationTold(cancellation, t)
    BY <1>1 DEF LogParts
  <1>5. \A i \in 1 .. Len(entries) : t[entries[i].event + 1] = "run"
    BY <1>4 DEF RunsTold, IsStep
  <1>6. ASSUME NEW i \in 1 .. Len(conts)
        PROVE  LET c == conts[i] IN
               /\ t[c.event + 1] = "continue"
               /\ entries[c.source + 1].fallback = i - 1
               /\ entries[c.source + 1].event < c.event
               /\ c.source + 2 <= Len(entries) => c.event < entries[c.source + 2].event
    <2> DEFINE c == conts[i]
    <2>1. c.source = i - 1 /\ i \in Nat \ {0}
      BY <1>3, <1>4 DEF ContinuationsOk, ContinuationIs
    <2>2. t[c.event + 1] = "continue"
      BY <1>4 DEF ContinuationsTold, IsStep
    <2>3. i \in 1 .. Len(entries) /\ i <= Len(conts)
      BY <1>3, <1>4 DEF Alternate
    <2>4. entries[i] \in RunEntries
      BY <1>3, <2>3
    <2>5. entries[i].event \in Nat
      BY <2>4 DEF RunEntries
    <2>6. entries[i] = ContinuedEntry(entries[i].event, p, i)
      <3>1. EntryIs(entries[i], i, Len(conts), p, how)
        BY <2>3, <1>4 DEF EntriesOk
      <3> QED BY <3>1, <2>3 DEF EntryIs
    <2>7. entries[i].fallback = i - 1
      <3> DEFINE e == entries[i].event
      <3>1. e \in Nat /\ entries[i] = ContinuedEntry(e, p, i)
        BY <2>5, <2>6
      <3> HIDE DEF e
      <3>2. ContinuedEntry(e, p, i).fallback = i - 1
        BY <3>1, <1>p, <2>1, ReturnedFields
      <3> QED BY <3>1, <3>2
    <2>8. /\ entries[i].event < c.event
          /\ i + 1 <= Len(entries) => c.event < entries[i + 1].event
      BY <1>4 DEF Between
    <2>9. c.source + 1 = i /\ c.source + 2 = i + 1
      BY <2>1
    <2> HIDE DEF c
    <2>10. /\ t[c.event + 1] = "continue"
           /\ entries[c.source + 1].fallback = i - 1
           /\ entries[c.source + 1].event < c.event
           /\ c.source + 2 <= Len(entries) => c.event < entries[c.source + 2].event
      BY <2>2, <2>7, <2>8, <2>9
    <2> QED BY <2>10 DEF c
  <1>7. cancellation # <<>> => /\ t[cancellation[1].request + 1] = "cancel"
                               /\ t[cancellation[1].completion + 1] = "aborted"
    BY <1>4 DEF CancellationTold, IsStep
  <1> QED BY <1>1, <1>5, <1>6, <1>7, Zenon DEF t, entries, conts, cancellation

\* The fields of an entry that the gate reads.
LEMMA GateFields ==
  ASSUME NEW e, NEW p, NEW type, NEW i
  PROVE  /\ LET x == CompletedEntry(e, p, type, i) IN
              /\ x.event = e /\ x.priority = p /\ ~ x.atDeadline /\ ~ x.aborted
              /\ x.returned = type
              /\ x.status = "completed" /\ x.runsAtReturn = i /\ x.fallbacksAtReturn = i - 1
              /\ x.fallback = Post!None
         /\ LET x == ContinuedEntry(e, p, i) IN
              /\ x.event = e /\ x.priority = p /\ ~ x.atDeadline /\ ~ x.aborted
              /\ x.returned = "function"
              /\ x.status = "scheduled" /\ x.runsAtReturn = i /\ x.fallbacksAtReturn = i - 1
              /\ x.fallback = i - 1
         /\ RunEntry(e, p).status = "running"
  BY DEF CompletedEntry, ContinuedEntry, RunEntry, LoggedRun

\* The gate accepts a route that is pending and belongs to the first continuation of a delayed
\* task.
LEMMA RouteGate ==
  ASSUME NEW status \in RouteStatuses, NEW delayed \in BOOLEAN, NEW i \in Int,
         NEW route, route = <<Post!ExecutionRoute(i, status, delayed)>>
  PROVE  Post!RouteAccepted(route) <=> (status = "pending" /\ i = 0 /\ delayed)
  BY DEF Post!RouteAccepted, Post!ExecutionRoute, Post!HandoffAccepted, Post!ExecutionAccepted,
         Post!ActRootWorkHandoff, Post!RootContinuationExecution, RouteStatuses

\* The log r is that of a callback that was continued once and completed.
LogCompleted(r, t, how, p, stopped, delayed) ==
  t = <<"schedule", "run", "continue", "run">> /\ how = "undefined"

\* Two runs and one continuation.
LEMMA TwoRuns == \A a, b \in Nat : a = b + 1 /\ 4 = 1 + a + b => a = 2 /\ b = 1
  OBVIOUS

\* A log the gate accepts is that of a callback that ran, was continued, ran again and
\* completed, and was not cancelled.
LEMMA AcceptedLog ==
  ASSUME NEW r \in LogRecords, NEW t \in Seq(TraceSteps), NEW p \in Int, NEW stopped \in BOOLEAN,
         NEW delayed \in BOOLEAN, NEW how, LogIs(r, t, how, p, stopped, delayed),
         Post!CallbackRunsAccepted(r.runs), Len(r.continuations) = 1, Post!RouteAccepted(r.route)
  PROVE  LogCompleted(r, t, how, p, stopped, delayed)
  <1> DEFINE entries == r.runs
             conts == r.continuations
  <1>1. /\ Len(entries) = 2 /\ entries[2].status = "completed"
        /\ entries[2].returned = "undefined" /\ conts # <<>> /\ Len(conts) = 1
    <2>1. r.continuations \in Seq(ContinuationEntries)
      BY LogTypes
    <2> QED BY <2>1 DEF Post!CallbackRunsAccepted
  <1>2. ~ stopped
    <2> SUFFICES ASSUME stopped PROVE FALSE
      OBVIOUS
    <2>1. CancelledRoute(r, delayed)
      BY DEF LogIs
    <2>2. RouteIs(r, "aborted", delayed)
      BY <2>1, <1>1 DEF CancelledRoute
    <2>3. r.route = <<Post!ExecutionRoute(0, "aborted", delayed)>>
      BY <2>2, <1>1 DEF RouteIs
    <2>4. "aborted" \in RouteStatuses /\ 0 \in Int
      BY DEF RouteStatuses
    <2>5. Post!RouteAccepted(r.route) <=> ("aborted" = "pending" /\ 0 = 0 /\ delayed)
      BY <2>3, <2>4, RouteGate, Zenon
    <2> QED BY <2>5
  <1>3. LogParts(entries, conts, r.cancellation, t, how, p) /\ PlainLog(entries, conts, t)
    BY <1>2 DEF LogIs
  <1> HIDE DEF entries, conts
  <1>4. /\ Len(t) = 4 /\ t[1] = "schedule" /\ entries[1].event = 1 /\ entries[2].event = 3
        /\ conts[1].event = 2
    BY <1>1, <1>3 DEF PlainLog
  <1>5. t[2] = "run" /\ t[4] = "run" /\ t[3] = "continue"
    <2>1. RunsTold(entries, t) /\ ContinuationsTold(conts, t)
      BY <1>3 DEF LogParts
    <2>2. IsStep(t, 1, "run") /\ IsStep(t, 3, "run") /\ IsStep(t, 2, "continue")
      BY <2>1, <1>1, <1>4 DEF RunsTold, ContinuationsTold
    <2> QED BY <2>2 DEF IsStep
  <1>6. t = <<"schedule", "run", "continue", "run">>
    BY <1>4, <1>5
  <1>7. how = "undefined"
    <2>1. EntryIs(entries[2], 2, 1, p, how)
      BY <1>1, <1>3 DEF LogParts, EntriesOk
    <2> DEFINE e == entries[2].event
    <2>2. entries[2] = IF how \in Post!Results THEN CompletedEntry(e, p, how, 2)
                       ELSE RunEntry(e, p)
      BY <2>1 DEF EntryIs
    <2> HIDE DEF e
    <2>3. /\ RunEntry(e, p).status = "running"
          /\ CompletedEntry(e, p, how, 2).returned = how
      BY GateFields
    <2> QED BY <2>2, <2>3, <1>1
  <1> QED BY <1>6, <1>7 DEF LogCompleted

\* The log of such a callback is accepted.
LEMMA CompletedLog ==
  ASSUME NEW r \in LogRecords, NEW t, NEW stopped \in BOOLEAN, HasYield = TRUE,
         ShimKeys = TRUE, LogIs(r, t, "undefined", 4, stopped, TRUE), t = <<"schedule", "run", "continue", "run">>
  PROVE  /\ Post!CallbackRunsAccepted(r.runs) /\ Len(r.continuations) = 1
         /\ Post!ContinuationAccepted(r.continuations[1]) /\ Post!RouteAccepted(r.route)
  <1> DEFINE entries == r.runs
             conts == r.continuations
  <1>t. entries \in Seq(RunEntries) /\ conts \in Seq(ContinuationEntries)
    BY LogTypes
  <1>1. Len(t) = 4 /\ ~ HasCancel(t)
    <2>1. \A i \in 1 .. 4 : t[i] # "cancel"
      <3> SUFFICES ASSUME NEW i \in 1 .. 4 PROVE t[i] # "cancel"
        OBVIOUS
      <3>1. t[1] = "schedule" /\ t[2] = "run" /\ t[3] = "continue" /\ t[4] = "run"
        OBVIOUS
      <3>2. i = 1 \/ i = 2 \/ i = 3 \/ i = 4
        OBVIOUS
      <3> HIDE DEF entries, conts
      <3> QED BY <3>1, <3>2
    <2>2. Len(t) = 4
      OBVIOUS
    <2> QED BY <2>1, <2>2 DEF HasCancel
  <1>2. /\ LogParts(entries, conts, r.cancellation, t, "undefined", 4)
        /\ PlainLog(entries, conts, t) /\ RouteIs(r, "pending", TRUE)
    BY <1>1 DEF LogIs
  <1>3. Len(conts) = 1 /\ Len(entries) = 2 /\ conts # <<>>
    <2> HIDE DEF entries, conts
    <2>1. Len(conts) \in Nat /\ Len(entries) \in Nat
      BY <1>t
    <2>2. Len(entries) = Len(conts) + 1
      BY <1>2 DEF LogParts, Alternate
    <2>3. 4 = 1 + Len(entries) + Len(conts)
      BY <1>1, <1>2 DEF PlainLog
    <2>4. Len(conts) = 1 /\ Len(entries) = 2
      BY <2>1, <2>2, <2>3, TwoRuns, Zenon
    <2>5. conts # <<>>
      BY <2>4
    <2> QED BY <2>4, <2>5
  <1>4. Post!RouteAccepted(r.route)
    <2>1. r.route = <<Post!ExecutionRoute(0, "pending", TRUE)>>
      <3>1. r.route = <<Post!ExecutionRoute(Len(r.continuations) - 1, "pending", TRUE)>>
        BY <1>2, <1>3, Zenon DEF RouteIs
      <3>2. Len(r.continuations) - 1 = 0
        BY <1>3
      <3> QED BY <3>1, <3>2, Zenon
    <2>2. "pending" \in RouteStatuses /\ 0 \in Int
      BY DEF RouteStatuses
    <2>3. Post!RouteAccepted(r.route) <=> ("pending" = "pending" /\ 0 = 0 /\ TRUE)
      BY <2>1, <2>2, RouteGate, Zenon
    <2> QED BY <2>3
  <1> HIDE DEF entries, conts
  <1>5. Post!ContinuationAccepted(conts[1])
    <2>1. ContinuationIs(conts[1], 1)
      BY <1>2, <1>3 DEF LogParts, ContinuationsOk
    <2> QED BY <2>1 DEF ContinuationIs, Post!ContinuationAccepted
  <1>6. Post!CallbackRunsAccepted(entries)
    <2>1. entries[1].event = 1 /\ entries[2].event = 3
      BY <1>2, <1>3 DEF PlainLog
    <2>2. EntryIs(entries[1], 1, 1, 4, "undefined") /\ EntryIs(entries[2], 2, 1, 4, "undefined")
      BY <1>2, <1>3 DEF LogParts, EntriesOk
    <2>3. entries[1] = ContinuedEntry(1, 4, 1) /\ entries[2] = CompletedEntry(3, 4, "undefined", 2)
      BY <2>1, <2>2 DEF EntryIs, Post!Results
    <2> DEFINE x == entries[1]
               y == entries[2]
    <2>4. /\ x.event = 1 /\ x.priority = 4 /\ ~ x.atDeadline /\ ~ x.aborted
          /\ x.returned = "function" /\ x.status = "scheduled" /\ x.runsAtReturn = 1 /\ x.fallbacksAtReturn = 0
          /\ x.fallback = 0
      BY <2>3, GateFields
    <2>5. /\ y.event = 3 /\ y.priority = 4 /\ ~ y.atDeadline /\ ~ y.aborted
          /\ y.returned = "undefined" /\ y.status = "completed" /\ y.runsAtReturn = 2 /\ y.fallbacksAtReturn = 1
          /\ y.fallback = Post!None
      BY <2>3, GateFields
    <2>6. \A i \in 1 .. 2 : i = 1 \/ i = 2
      OBVIOUS
    <2> QED BY <1>3, <2>4, <2>5, <2>6 DEF Post!CallbackRunsAccepted, Post!LowPriority
  <1> QED BY <1>3, <1>4, <1>5, <1>6 DEF entries, conts

\* The gate accepts exactly the callbacks it should.
LEMMA GateIsExact ==
  ASSUME PostInv, LogInv
  PROVE  Post!GateAcceptsExactly
  <1> DEFINE Good(n) == /\ HasYield /\ ShimKeys
                        /\ n \in Post!Scheduled
                        /\ postTask[n].priority = Post!LowPriority
                        /\ postTask[n].delay = AcceptedDelay
                        /\ postTrace[n] = <<"schedule", "run", "continue", "run">>
                        /\ postEnding[n] = "undefined"
  <1>1. ASSUME NEW n \in PostNodes, Post!GateAccepts(n) PROVE Good(n)
    <2> DEFINE stopped == postTask[n].aborted
               late == Post!Delayed(n)
    <2>1. /\ n \in Post!Scheduled /\ Post!ScheduleAccepted(postTask[n])
          /\ Post!CallbackRunsAccepted(postRecord[n].runs)
          /\ Len(postRecord[n].continuations) = 1 /\ Post!RouteAccepted(postRecord[n].route)
      BY <1>1, Zenon DEF Post!GateAccepts
    <2>2. /\ postRecord[n] \in LogRecords /\ postTrace[n] \in Seq(TraceSteps)
          /\ postTask[n].priority \in Int /\ stopped \in BOOLEAN /\ late \in BOOLEAN
      BY NodeTypes DEF LogInv
    <2>3. LogIs(postRecord[n], postTrace[n], postEnding[n], postTask[n].priority, stopped, late)
      BY <2>1, ScheduledLog, Zenon
    <2> HIDE DEF stopped, late
    <2>4. /\ postTrace[n] = <<"schedule", "run", "continue", "run">>
          /\ postEnding[n] = "undefined"
      <3>1. LogCompleted(postRecord[n], postTrace[n], postEnding[n], postTask[n].priority,
                         stopped, late)
        BY <2>1, <2>2, <2>3, AcceptedLog, Zenon
      <3> QED BY <3>1, Zenon DEF LogCompleted
    <2> QED BY <2>1, <2>4, Zenon DEF Post!ScheduleAccepted
  <1>2. ASSUME NEW n \in PostNodes, Good(n) PROVE Post!GateAccepts(n)
    <2> DEFINE stopped == postTask[n].aborted
    <2>1. /\ HasYield = TRUE /\ ShimKeys = TRUE /\ n \in Post!Scheduled /\ postTask[n].priority = 4
          /\ postTask[n].delay = AcceptedDelay
          /\ postTrace[n] = <<"schedule", "run", "continue", "run">>
          /\ postEnding[n] = "undefined"
      BY <1>2, PostInstance DEF Post!LowPriority
    <2>2. Post!Delayed(n) = TRUE
      BY <2>1, PostInstance DEF Post!Delayed
    <2>3. /\ postRecord[n] \in LogRecords /\ stopped \in BOOLEAN
          /\ postTask[n].postTaskPriority = "user-visible"
      <3>1. postTask[n].postTaskPriority = Post!PostTaskPriority(4)
        BY <2>1, ScheduledLog, Zenon
      <3>2. Post!PostTaskPriority(4) = "user-visible"
        BY DEF Post!PostTaskPriority
      <3> QED BY <3>1, <3>2, NodeTypes DEF LogInv
    <2>4. LogIs(postRecord[n], postTrace[n], "undefined", 4, stopped, TRUE)
      BY <2>1, <2>2, ScheduledLog, Zenon
    <2> HIDE DEF stopped
    <2>5. /\ Post!CallbackRunsAccepted(postRecord[n].runs) /\ Len(postRecord[n].continuations) = 1
          /\ Post!ContinuationAccepted(postRecord[n].continuations[1])
          /\ Post!RouteAccepted(postRecord[n].route)
      BY <2>1, <2>3, <2>4, CompletedLog, Zenon
    <2>6. Post!ScheduleAccepted(postTask[n])
      BY <2>1, <2>3 DEF Post!ScheduleAccepted, Post!LowPriority
    <2> QED BY <2>1, <2>5, <2>6, Zenon DEF Post!GateAccepts
  <1> QED BY <1>1, <1>2, Zenon DEF Post!GateAcceptsExactly

\* The diagnostics of a post-task callback are true, however runs, continuations and
\* cancellations follow each other and for any number of each: every event index is the place
\* of the step that made it, a continuation names the run that returned it, and the act gate
\* takes as evidence exactly the callbacks that ran, yielded, ran again and returned nothing
\* (recordCallbackRun, recordContinuationFallback, recordCancellation,
\* validateSchedulerPostTaskYieldActRootHandoffDiagnostics).
THEOREM LogTells == Post!Spec => []LogIsTrue
  <1>1. PostInv /\ LogInv => LogIsTrue
    BY LogsTell, GateIsExact DEF LogIsTrue
  <1> QED BY <1>1, PostInvHolds, LogInvHolds, PTL


-----------------------------------------------------------------------------
(***************************************************************************)
(* The scheduler package                                                   *)
(***************************************************************************)

\* What TLC explores is a behaviour of each entry point.
LEMMA SchedulersAreParts == SchedulersSpec => HeapSpec /\ Spec /\ Mock!Spec /\ Post!Spec
  <1> DEFINE SchedulersNext == ArrayNext \/ BrowserNext \/ MockNext \/ PostNext
             all == <<heapVars, vars, mockVars, postVars, part>>
  <1>1. SchedulersInit => HeapInit /\ Init /\ Mock!Init /\ Post!Init
    BY DEF SchedulersInit
  <1>2. [SchedulersNext]_all => [HeapNext]_heapVars
    BY DEF ArrayNext, BrowserNext, MockNext, PostNext
  <1>3. [SchedulersNext]_all => [Next]_vars
    BY DEF ArrayNext, BrowserNext, MockNext, PostNext
  <1>4. [SchedulersNext]_all => [Mock!Next]_(Mock!vars)
    <2>1. UNCHANGED mockVars => UNCHANGED Mock!vars
      BY DEF mockVars, Mock!vars
    <2> QED BY <2>1 DEF ArrayNext, BrowserNext, MockNext, PostNext
  <1>5. [SchedulersNext]_all => [Post!Next]_(Post!vars)
    <2>1. UNCHANGED postVars => UNCHANGED Post!vars
      BY DEF postVars, Post!vars
    <2> QED BY <2>1 DEF ArrayNext, BrowserNext, MockNext, PostNext
  <1> QED
    BY <1>1, <1>2, <1>3, <1>4, <1>5, PTL
    DEF SchedulersSpec, HeapSpec, Spec, Mock!Spec, Post!Spec

\* What a call sets for the code it runs is taken back however the call ends: the stop
\* condition of a flush helper, the priority of the browser scheduler and that of the post-task
\* scheduler (scheduler-unstable_mock, scheduler.development.js, scheduler-unstable_post_task).
THEOREM NothingLeaks == Mock!Spec /\ Spec /\ Post!Spec => []NothingLeaksFromCalls
  <1>1. Mock!FlushModeDoesNotLeak /\ PriorityIsRestored /\ Post!PriorityFollowsStack
        => NothingLeaksFromCalls
    BY DEF NothingLeaksFromCalls
  <1> QED BY <1>1, FlushesAreClean, PriorityComesBack, PriorityFollows, PTL

\* The behaviours that TLC explores have these properties, whichever entry point they are of.
THEOREM SchedulersBehave ==
  SchedulersSpec =>
    /\ [](NothingLeaksFromCalls /\ LoopIsArmed /\ LogIsTrue)
    /\ HeapIsPriorityQueue /\ UrgentWorkIsNotDelayed
    /\ DrainedMeansNothingDue /\ CancelledNeverRuns
  BY SchedulersAreParts, NothingLeaks, HeapImplementsQueue, FlushesDrain, CancelledStop,
     LogTells, LoopStaysArmed, UrgentFirst, PTL
=============================================================================
