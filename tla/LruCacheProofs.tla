--------------------------- MODULE LruCacheProofs ---------------------------
(***************************************************************************)
(* Proofs about LruCache, for every set of keys, every capacity and every  *)
(* ttl: the list is whole and sorted by use, and the cache implements the  *)
(* duplicate filter.                                                       *)
(***************************************************************************)
EXTENDS LruCache, FiniteFolds

-----------------------------------------------------------------------------
(* The list, one operator at a time.                                       *)

NodeLists ==
    [cache : SUBSET Keys, next : [Keys -> Pointer], prev : [Keys -> Pointer],
     head : Pointer, tail : Pointer]

\* The nodes of l are the n keys of order, and are linked in that order.
InOrder(l, n, order) ==
    /\ order \in [1..n -> l.cache]
    /\ \A i, j \in 1..n : i # j => order[i] # order[j]
    /\ \A k \in l.cache : \E i \in 1..n : order[i] = k
    /\ Follows(l, n, order)

\* An earlier key of order stands in the relation R to a later one.
Sorted(n, order, R) ==
    \A i, j \in 1..n : i < j => <<order[i], order[j]>> \in R

Ranked(l, R) ==
    \E n \in Nat : \E order \in [1..n -> l.cache] :
        InOrder(l, n, order) /\ Sorted(n, order, R)

LEMMA EmptyListRanked ==
    ASSUME NEW R
    PROVE  EmptyList \in NodeLists /\ Ranked(EmptyList, R)
  <1>1. EmptyList \in NodeLists
    BY DEF EmptyList, NodeLists, Pointer
  <1> DEFINE s == [i \in 1..0 |-> Nil]
  <1>2. s \in [1..0 -> EmptyList.cache]
    OBVIOUS
  <1>3. InOrder(EmptyList, 0, s) /\ Sorted(0, s, R)
    BY <1>2 DEF InOrder, Sorted, Follows, At, EmptyList
  <1> QED
    BY <1>1, <1>2, <1>3 DEF Ranked

\* A new node is in the map before it is linked.
Added(l, k) == [l EXCEPT !.cache = @ \cup {k}]

\* What removeNode leaves in every field.
LEMMA DeleteFields ==
    ASSUME NEW l \in NodeLists, NEW k \in Keys
    PROVE  /\ Delete(l, k) \in NodeLists
           /\ Delete(l, k).cache = l.cache \ {k}
           /\ Delete(l, k).head = (IF l.head = k THEN l.next[k] ELSE l.head)
           /\ Delete(l, k).tail = (IF l.tail = k THEN l.prev[k] ELSE l.tail)
           /\ \A j \in Keys :
                /\ Delete(l, k).next[j] =
                     (IF j = k THEN Nil
                      ELSE IF j = l.prev[k] THEN l.next[k] ELSE l.next[j])
                /\ Delete(l, k).prev[j] =
                     (IF j = k THEN Nil
                      ELSE IF j = l.next[k] THEN l.prev[k] ELSE l.prev[j])
           /\ k \in l.cache => Added(Delete(l, k), k) = RemoveNode(l, k)
  <1> DEFINE next == Link(Link(l.next, l.prev[k], l.next[k]), k, Nil)
             prev == Link(Link(l.prev, l.next[k], l.prev[k]), k, Nil)
             head == IF l.head = k THEN l.next[k] ELSE l.head
             tail == IF l.tail = k THEN l.prev[k] ELSE l.tail
  <1>1. l = [cache |-> l.cache, next |-> l.next, prev |-> l.prev,
             head |-> l.head, tail |-> l.tail]
    BY DEF NodeLists
  <1>2. /\ l.cache \in SUBSET Keys
        /\ l.next \in [Keys -> Pointer]
        /\ l.prev \in [Keys -> Pointer]
        /\ l.head \in Pointer
        /\ l.tail \in Pointer
    BY DEF NodeLists
  <1>3. next \in [Keys -> Pointer] /\ prev \in [Keys -> Pointer]
    BY <1>2 DEF Link, Pointer
  <1>4. head \in Pointer /\ tail \in Pointer
    BY <1>2
  <1>5. \A j \in Keys :
          /\ next[j] = (IF j = k THEN Nil
                        ELSE IF j = l.prev[k] THEN l.next[k] ELSE l.next[j])
          /\ prev[j] = (IF j = k THEN Nil
                        ELSE IF j = l.next[k] THEN l.prev[k] ELSE l.prev[j])
    BY DEF Link
  <1>6. RemoveNode(l, k) = [cache |-> l.cache, next |-> next, prev |-> prev,
                            head |-> head, tail |-> tail]
    <2> DEFINE next0 == l.next
               prev0 == l.prev
               head0 == l.head
               tail0 == l.tail
               c     == l.cache
    <2>1. l = [cache |-> c, next |-> next0, prev |-> prev0, head |-> head0, tail |-> tail0]
      BY <1>1
    <2>2. RemoveNode(l, k) = [l EXCEPT !.next = next, !.prev = prev, !.head = head,
                                       !.tail = tail]
      BY DEF RemoveNode
    <2> HIDE DEF next, prev, head, tail, next0, prev0, head0, tail0, c
    <2>3. RemoveNode(l, k) = [cache |-> c, next |-> next, prev |-> prev,
                              head |-> head, tail |-> tail]
      BY <2>1, <2>2
    <2> QED
      BY <2>3 DEF c
  <1>7. Delete(l, k) = [cache |-> l.cache \ {k}, next |-> next, prev |-> prev,
                        head |-> head, tail |-> tail]
    <2> HIDE DEF next, prev, head, tail
    <2> QED
      BY <1>6 DEF Delete
  <1>8. ASSUME k \in l.cache PROVE Added(Delete(l, k), k) = RemoveNode(l, k)
    <2>1. (l.cache \ {k}) \cup {k} = l.cache
      BY <1>8
    <2> HIDE DEF next, prev, head, tail
    <2> QED
      BY <1>6, <1>7, <2>1 DEF Added
  <1> HIDE DEF next, prev
  <1>9. Delete(l, k) \in NodeLists
    BY <1>2, <1>3, <1>4, <1>7 DEF NodeLists
  <1> QED
    BY <1>5, <1>7, <1>8, <1>9

\* The order without its p-th key.
Without(n, order, p) ==
    [i \in 1..(n - 1) |-> IF i < p THEN order[i] ELSE order[i + 1]]

LEMMA DeleteInOrder ==
    ASSUME NEW l \in NodeLists, NEW n \in Nat, NEW order \in [1..n -> l.cache],
           InOrder(l, n, order), NEW p \in 1..n, Nil \notin Keys
    PROVE  /\ Without(n, order, p) \in [1..(n - 1) -> l.cache \ {order[p]}]
           /\ InOrder(Delete(l, order[p]), n - 1, Without(n, order, p))
  <1> DEFINE k == order[p]
             d == Delete(l, k)
             s == Without(n, order, p)
  <1>0. k \in Keys /\ l.cache \subseteq Keys
    BY DEF NodeLists
  <1>1. \A i, j \in 1..n : i # j => order[i] # order[j]
    BY DEF InOrder
  <1>2. \A j \in l.cache : \E i \in 1..n : order[i] = j
    BY DEF InOrder
  <1>3. \A i \in 1..(n - 1) :
          /\ s[i] = (IF i < p THEN order[i] ELSE order[i + 1])
          /\ s[i] \in l.cache \ {k}
    BY <1>1 DEF Without
  <1>4. s \in [1..(n - 1) -> l.cache \ {k}]
    BY <1>3 DEF Without
  <1>5. \A i, j \in 1..(n - 1) : i # j => s[i] # s[j]
    BY <1>1, <1>3
  <1>6. \A j \in l.cache \ {k} : \E i \in 1..(n - 1) : s[i] = j
    <2> SUFFICES ASSUME NEW j \in l.cache \ {k}
                 PROVE  \E i \in 1..(n - 1) : s[i] = j
      OBVIOUS
    <2>1. PICK i \in 1..n : order[i] = j
      BY <1>2
    <2>2. CASE i < p
      BY <1>3, <2>1, <2>2
    <2>3. CASE i > p
      <3>1. i - 1 \in 1..(n - 1) /\ ~(i - 1 < p) /\ (i - 1) + 1 = i
        BY <2>3
      <3>2. s[i - 1] = j
        BY <1>3, <2>1, <3>1
      <3> QED
        BY <3>1, <3>2
    <2> QED
      BY <2>1, <2>2, <2>3
  <1>7. /\ d.cache = l.cache \ {k}
        /\ d.head = (IF l.head = k THEN l.next[k] ELSE l.head)
        /\ d.tail = (IF l.tail = k THEN l.prev[k] ELSE l.tail)
        /\ \A j \in Keys :
             /\ d.next[j] = (IF j = k THEN Nil
                             ELSE IF j = l.prev[k] THEN l.next[k] ELSE l.next[j])
             /\ d.prev[j] = (IF j = k THEN Nil
                             ELSE IF j = l.next[k] THEN l.prev[k] ELSE l.prev[j])
    BY <1>0, DeleteFields
  <1>8. /\ l.head = At(order, n, 1)
        /\ l.tail = At(order, n, n)
        /\ \A i \in 1..n :
              /\ l.next[order[i]] = At(order, n, i + 1)
              /\ l.prev[order[i]] = At(order, n, i - 1)
        /\ \A j \in Keys \ l.cache : l.next[j] = Nil /\ l.prev[j] = Nil
    BY DEF InOrder, Follows
  <1> HIDE DEF k, d, s
  <1>9. \A i \in 1..n : At(order, n, i) = order[i] /\ order[i] # Nil
    BY <1>0 DEF At
  <1>10. l.next[k] = At(order, n, p + 1) /\ l.prev[k] = At(order, n, p - 1)
    BY <1>8 DEF k
  <1>11. d.head = At(s, n - 1, 1)
    BY <1>1, <1>3, <1>7, <1>8, <1>10 DEF At, k
  <1>12. d.tail = At(s, n - 1, n - 1)
    BY <1>1, <1>3, <1>7, <1>8, <1>10 DEF At, k
  <1>13. ASSUME NEW i \in 1..(n - 1)
         PROVE  /\ d.next[s[i]] = At(s, n - 1, i + 1)
                /\ d.prev[s[i]] = At(s, n - 1, i - 1)
    <2>0. s[i] \in Keys /\ s[i] # k /\ s[i] # Nil
      BY <1>0, <1>3
    <2>1. CASE i < p
      <3>1. s[i] = order[i] /\ l.next[s[i]] = At(order, n, i + 1)
                            /\ l.prev[s[i]] = At(order, n, i - 1)
        BY <1>3, <1>8, <2>1
      <3>2. s[i] # l.next[k]
        BY <1>0, <1>1, <1>10, <2>0, <2>1, <3>1 DEF At
      <3>3. s[i] = l.prev[k] <=> i = p - 1
        BY <1>0, <1>1, <1>10, <2>0, <2>1, <3>1 DEF At
      <3>4. d.prev[s[i]] = At(order, n, i - 1)
        BY <1>7, <2>0, <3>1, <3>2
      <3>5. At(s, n - 1, i - 1) = At(order, n, i - 1)
        BY <1>3, <2>1 DEF At
      <3>6. d.next[s[i]] = (IF i = p - 1 THEN At(order, n, p + 1) ELSE At(order, n, i + 1))
        BY <1>7, <1>10, <2>0, <3>1, <3>3
      <3>7. At(s, n - 1, i + 1) =
              (IF i = p - 1 THEN At(order, n, p + 1) ELSE At(order, n, i + 1))
        BY <1>3, <2>1 DEF At
      <3> QED
        BY <3>4, <3>5, <3>6, <3>7
    <2>2. CASE ~(i < p)
      <3>0. i + 1 \in 1..n
        OBVIOUS
      <3>1. s[i] = order[i + 1] /\ l.next[s[i]] = At(order, n, i + 2)
                                /\ l.prev[s[i]] = At(order, n, i)
        BY <1>3, <1>8, <2>2, <3>0
      <3>2. s[i] # l.prev[k]
        BY <1>0, <1>1, <1>10, <2>0, <2>2, <3>0, <3>1 DEF At
      <3>3. s[i] = l.next[k] <=> i = p
        BY <1>0, <1>1, <1>10, <2>0, <2>2, <3>0, <3>1 DEF At
      <3>4. d.next[s[i]] = At(order, n, i + 2)
        BY <1>7, <2>0, <3>1, <3>2
      <3>5. At(s, n - 1, i + 1) = At(order, n, i + 2)
        BY <1>3, <2>2 DEF At
      <3>6. d.prev[s[i]] = (IF i = p THEN At(order, n, p - 1) ELSE At(order, n, i))
        BY <1>7, <1>10, <2>0, <3>1, <3>3
      <3>7. At(s, n - 1, i - 1) =
              (IF i = p THEN At(order, n, p - 1) ELSE At(order, n, i))
        BY <1>3, <2>2 DEF At
      <3> QED
        BY <3>4, <3>5, <3>6, <3>7
    <2> QED
      BY <2>1, <2>2
  <1>14. ASSUME NEW j \in Keys \ d.cache PROVE d.next[j] = Nil /\ d.prev[j] = Nil
    <2>1. CASE j = k
      BY <1>7, <2>1
    <2>2. CASE j # k
      <3>1. j \in Keys /\ j \notin l.cache /\ j # Nil
        BY <1>0, <1>7, <2>2
      <3>2. j # l.prev[k] /\ j # l.next[k]
        BY <1>10, <3>1 DEF At
      <3> QED
        BY <1>7, <1>8, <2>2, <3>1, <3>2
    <2> QED
      BY <2>1, <2>2
  <1>15. Follows(d, n - 1, s)
    BY <1>11, <1>12, <1>13, <1>14 DEF Follows
  <1>16. InOrder(d, n - 1, s)
    BY <1>4, <1>5, <1>6, <1>7, <1>15 DEF InOrder
  <1> QED
    BY <1>4, <1>16 DEF d, s, k

LEMMA DeleteRanked ==
    ASSUME NEW l \in NodeLists, NEW R, Ranked(l, R), NEW k \in l.cache, Nil \notin Keys
    PROVE  /\ Delete(l, k) \in NodeLists
           /\ Delete(l, k).cache = l.cache \ {k}
           /\ Ranked(Delete(l, k), R)
  <1>1. k \in Keys
    BY DEF NodeLists
  <1>2. PICK n \in Nat : \E order \in [1..n -> l.cache] :
            InOrder(l, n, order) /\ Sorted(n, order, R)
    BY DEF Ranked
  <1>3. PICK order \in [1..n -> l.cache] : InOrder(l, n, order) /\ Sorted(n, order, R)
    BY <1>2
  <1>4. PICK p \in 1..n : order[p] = k
    BY <1>3 DEF InOrder
  <1> DEFINE s == Without(n, order, p)
             d == Delete(l, k)
  <1>5. /\ d \in NodeLists
        /\ d.cache = l.cache \ {k}
    BY <1>1, DeleteFields
  <1>6. /\ s \in [1..(n - 1) -> l.cache \ {k}]
        /\ InOrder(d, n - 1, s)
    BY <1>3, <1>4, DeleteInOrder
  <1>7. Sorted(n - 1, s, R)
    BY <1>3 DEF Sorted, Without
  <1>8. n - 1 \in Nat
    BY <1>4
  <1> HIDE DEF s, d
  <1>9. Ranked(d, R)
    BY <1>5, <1>6, <1>7, <1>8 DEF Ranked
  <1> QED
    BY <1>5, <1>9 DEF d

LEMMA PushFields ==
    ASSUME NEW l \in NodeLists, NEW k \in Keys
    PROVE  /\ PushFront(Added(l, k), k) \in NodeLists
           /\ PushFront(Added(l, k), k).cache = l.cache \cup {k}
           /\ PushFront(Added(l, k), k).head = k
           /\ PushFront(Added(l, k), k).tail = (IF l.tail = Nil THEN k ELSE l.tail)
           /\ \A j \in Keys :
                /\ PushFront(Added(l, k), k).next[j] = (IF j = k THEN l.head ELSE l.next[j])
                /\ PushFront(Added(l, k), k).prev[j] = (IF j = l.head THEN k ELSE l.prev[j])
  <1> DEFINE next == Link(l.next, k, l.head)
             prev == Link(l.prev, l.head, k)
             tail == IF l.tail = Nil THEN k ELSE l.tail
  <1>1. l = [cache |-> l.cache, next |-> l.next, prev |-> l.prev,
             head |-> l.head, tail |-> l.tail]
    BY DEF NodeLists
  <1>2. /\ l.cache \in SUBSET Keys
        /\ l.next \in [Keys -> Pointer]
        /\ l.prev \in [Keys -> Pointer]
        /\ l.head \in Pointer
        /\ l.tail \in Pointer
    BY DEF NodeLists
  <1>3. next \in [Keys -> Pointer] /\ prev \in [Keys -> Pointer]
    BY <1>2 DEF Link, Pointer
  <1>4. k \in Pointer /\ tail \in Pointer
    BY <1>2 DEF Pointer
  <1>5. \A j \in Keys :
          /\ next[j] = (IF j = k THEN l.head ELSE l.next[j])
          /\ prev[j] = (IF j = l.head THEN k ELSE l.prev[j])
    BY DEF Link
  <1>6. Added(l, k) = [cache |-> l.cache \cup {k}, next |-> l.next, prev |-> l.prev,
                       head |-> l.head, tail |-> l.tail]
    BY <1>1 DEF Added
  <1>7. PushFront(Added(l, k), k) =
          [cache |-> l.cache \cup {k}, next |-> next, prev |-> prev, head |-> k, tail |-> tail]
    <2> DEFINE a == Added(l, k)
               c == l.cache \cup {k}
               next0 == l.next
               prev0 == l.prev
               head0 == l.head
               tail0 == l.tail
    <2>1. a = [cache |-> c, next |-> next0, prev |-> prev0, head |-> head0, tail |-> tail0]
      BY <1>6
    <2>2. PushFront(a, k) = [a EXCEPT !.next = next, !.prev = prev, !.head = k, !.tail = tail]
      BY <1>6 DEF PushFront
    <2> HIDE DEF a, c, next0, prev0, head0, tail0, next, prev, tail
    <2>3. PushFront(a, k) =
            [cache |-> c, next |-> next, prev |-> prev, head |-> k, tail |-> tail]
      BY <2>1, <2>2
    <2> QED
      BY <2>3 DEF a, c
  <1> HIDE DEF next, prev
  <1>8. PushFront(Added(l, k), k) \in NodeLists
    BY <1>2, <1>3, <1>4, <1>7 DEF NodeLists
  <1> QED
    BY <1>5, <1>7, <1>8

\* The order with k before its first key.
Preceded(n, order, k) == [i \in 1..(n + 1) |-> IF i = 1 THEN k ELSE order[i - 1]]

LEMMA PushInOrder ==
    ASSUME NEW l \in NodeLists, NEW n \in Nat, NEW order \in [1..n -> l.cache],
           InOrder(l, n, order), NEW k \in Keys \ l.cache, Nil \notin Keys
    PROVE  /\ Preceded(n, order, k) \in [1..(n + 1) -> l.cache \cup {k}]
           /\ InOrder(PushFront(Added(l, k), k), n + 1, Preceded(n, order, k))
  <1> DEFINE d == PushFront(Added(l, k), k)
             s == Preceded(n, order, k)
  <1>0. k \in Keys /\ k # Nil /\ l.cache \subseteq Keys
    BY DEF NodeLists
  <1>1. \A i, j \in 1..n : i # j => order[i] # order[j]
    BY DEF InOrder
  <1>2. \A j \in l.cache : \E i \in 1..n : order[i] = j
    BY DEF InOrder
  <1>3. /\ s[1] = k
        /\ \A i \in 1..n : s[i + 1] = order[i]
        /\ \A i \in 2..(n + 1) : s[i] = order[i - 1] /\ s[i] \in l.cache
    BY DEF Preceded
  <1>4. s \in [1..(n + 1) -> l.cache \cup {k}]
    BY DEF Preceded
  <1>5. \A i, j \in 1..(n + 1) : i # j => s[i] # s[j]
    <2> SUFFICES ASSUME NEW i \in 1..(n + 1), NEW j \in 1..(n + 1), i < j
                 PROVE  s[i] # s[j]
      OBVIOUS
    <2>1. CASE i = 1
      BY <1>3, <2>1
    <2>2. CASE i # 1
      <3>1. s[i] = order[i - 1] /\ s[j] = order[j - 1]
        BY <1>3, <2>2
      <3> QED
        BY <1>1, <2>2, <3>1
    <2> QED
      BY <2>1, <2>2
  <1>6. \A j \in l.cache \cup {k} : \E i \in 1..(n + 1) : s[i] = j
    <2> SUFFICES ASSUME NEW j \in l.cache
                 PROVE  \E i \in 1..(n + 1) : s[i] = j
      BY <1>3
    <2>1. PICK i \in 1..n : order[i] = j
      BY <1>2
    <2> QED
      BY <1>3, <2>1
  <1>7. /\ d.cache = l.cache \cup {k}
        /\ d.head = k
        /\ d.tail = (IF l.tail = Nil THEN k ELSE l.tail)
        /\ \A j \in Keys :
             /\ d.next[j] = (IF j = k THEN l.head ELSE l.next[j])
             /\ d.prev[j] = (IF j = l.head THEN k ELSE l.prev[j])
    BY <1>0, PushFields
  <1>8. /\ l.head = At(order, n, 1)
        /\ l.tail = At(order, n, n)
        /\ \A i \in 1..n :
              /\ l.next[order[i]] = At(order, n, i + 1)
              /\ l.prev[order[i]] = At(order, n, i - 1)
        /\ \A j \in Keys \ l.cache : l.next[j] = Nil /\ l.prev[j] = Nil
    BY DEF InOrder, Follows
  <1> HIDE DEF d, s
  <1>9. d.head = At(s, n + 1, 1)
    BY <1>3, <1>7 DEF At
  <1>10. d.tail = At(s, n + 1, n + 1)
    BY <1>0, <1>3, <1>7, <1>8 DEF At
  <1>11. ASSUME NEW i \in 1..(n + 1)
         PROVE  /\ d.next[s[i]] = At(s, n + 1, i + 1)
                /\ d.prev[s[i]] = At(s, n + 1, i - 1)
    <2>1. CASE i = 1
      <3>1. d.next[k] = At(order, n, 1)
        BY <1>0, <1>7, <1>8
      <3>2. At(s, n + 1, 2) = At(order, n, 1)
        BY <1>3 DEF At
      <3>3. d.prev[k] = Nil
        BY <1>0, <1>7, <1>8 DEF At
      <3> QED
        BY <1>3, <2>1, <3>1, <3>2, <3>3 DEF At
    <2>2. CASE i # 1
      <3>0. i - 1 \in 1..n /\ (i - 1) + 1 = i
        BY <2>2
      <3>1. s[i] = order[i - 1] /\ s[i] \in Keys /\ s[i] # k
        BY <1>0, <1>3, <2>2
      <3>2. d.next[s[i]] = At(order, n, i)
        BY <1>7, <1>8, <3>0, <3>1
      <3>3. At(s, n + 1, i + 1) = At(order, n, i)
        BY <1>3, <2>2 DEF At
      <3>4. l.prev[s[i]] = At(order, n, i - 2)
        BY <1>8, <3>0, <3>1
      <3>5. s[i] = l.head <=> i = 2
        BY <1>0, <1>1, <1>8, <3>0, <3>1 DEF At
      <3>6. d.prev[s[i]] = (IF i = 2 THEN k ELSE At(order, n, i - 2))
        BY <1>7, <3>1, <3>4, <3>5
      <3>7. At(s, n + 1, i - 1) = (IF i = 2 THEN k ELSE At(order, n, i - 2))
        BY <1>3, <2>2 DEF At
      <3> QED
        BY <3>2, <3>3, <3>6, <3>7
    <2> QED
      BY <2>1, <2>2
  <1>12. ASSUME NEW j \in Keys \ d.cache PROVE d.next[j] = Nil /\ d.prev[j] = Nil
    BY <1>0, <1>7, <1>8 DEF At
  <1>13. Follows(d, n + 1, s)
    BY <1>9, <1>10, <1>11, <1>12 DEF Follows
  <1>14. InOrder(d, n + 1, s)
    BY <1>4, <1>5, <1>6, <1>7, <1>13 DEF InOrder
  <1> QED
    BY <1>4, <1>14 DEF d, s

LEMMA PushRanked ==
    ASSUME NEW l \in NodeLists, NEW R, Ranked(l, R), NEW k \in Keys \ l.cache, Nil \notin Keys,
           \A b \in l.cache : <<k, b>> \in R
    PROVE  /\ PushFront(Added(l, k), k) \in NodeLists
           /\ PushFront(Added(l, k), k).cache = l.cache \cup {k}
           /\ Ranked(PushFront(Added(l, k), k), R)
  <1>1. PICK n \in Nat : \E order \in [1..n -> l.cache] :
            InOrder(l, n, order) /\ Sorted(n, order, R)
    BY DEF Ranked
  <1>2. PICK order \in [1..n -> l.cache] : InOrder(l, n, order) /\ Sorted(n, order, R)
    BY <1>1
  <1> DEFINE s == Preceded(n, order, k)
             d == PushFront(Added(l, k), k)
  <1>3. /\ d \in NodeLists
        /\ d.cache = l.cache \cup {k}
    BY PushFields
  <1>4. /\ s \in [1..(n + 1) -> l.cache \cup {k}]
        /\ InOrder(d, n + 1, s)
    BY <1>2, PushInOrder
  <1>5. Sorted(n + 1, s, R)
    <2> SUFFICES ASSUME NEW i \in 1..(n + 1), NEW j \in 1..(n + 1), i < j
                 PROVE  <<s[i], s[j]>> \in R
      BY DEF Sorted
    <2>1. s[j] = order[j - 1] /\ j - 1 \in 1..n /\ s[j] \in l.cache
      BY DEF Preceded
    <2>2. CASE i = 1
      BY <2>1, <2>2 DEF Preceded
    <2>3. CASE i # 1
      <3>1. s[i] = order[i - 1] /\ i - 1 \in 1..n
        BY <2>3 DEF Preceded
      <3> QED
        BY <1>2, <2>1, <3>1 DEF Sorted
    <2> QED
      BY <2>2, <2>3
  <1>6. n + 1 \in Nat
    OBVIOUS
  <1> HIDE DEF s, d
  <1>7. Ranked(d, R)
    BY <1>3, <1>4, <1>5, <1>6 DEF Ranked
  <1> QED
    BY <1>3, <1>7 DEF d

\* Only what R says of two nodes of the list matters.
LEMMA RankedWeaken ==
    ASSUME NEW l, NEW R, Ranked(l, R), NEW S,
           \A a, b \in l.cache : (a # b /\ <<a, b>> \in R) => <<a, b>> \in S
    PROVE  Ranked(l, S)
  <1>1. PICK n \in Nat : \E order \in [1..n -> l.cache] :
            InOrder(l, n, order) /\ Sorted(n, order, R)
    BY DEF Ranked
  <1>2. PICK order \in [1..n -> l.cache] : InOrder(l, n, order) /\ Sorted(n, order, R)
    BY <1>1
  <1>3. Sorted(n, order, S)
    <2> SUFFICES ASSUME NEW i \in 1..n, NEW j \in 1..n, i < j
                 PROVE  <<order[i], order[j]>> \in S
      BY DEF Sorted
    <2>1. order[i] # order[j]
      BY <1>2 DEF InOrder
    <2> QED
      BY <1>2, <2>1 DEF Sorted
  <1> QED
    BY <1>2, <1>3 DEF Ranked

\* The map of an ordered list is finite, its tail is the last of all nodes.
LEMMA RankedFacts ==
    ASSUME NEW l \in NodeLists, NEW R, Ranked(l, R), Nil \notin Keys
    PROVE  /\ IsFiniteSet(l.cache)
           /\ \E order \in SetToSeqs(l.cache) : Follows(l, Cardinality(l.cache), order)
           /\ l.tail = Nil <=> l.cache = {}
           /\ l.tail # Nil => /\ l.tail \in l.cache
                              /\ \A a \in l.cache \ {l.tail} : <<a, l.tail>> \in R
  <1>1. PICK n \in Nat : \E order \in [1..n -> l.cache] :
            InOrder(l, n, order) /\ Sorted(n, order, R)
    BY DEF Ranked
  <1>2. PICK order \in [1..n -> l.cache] : InOrder(l, n, order) /\ Sorted(n, order, R)
    BY <1>1
  <1>3. /\ \A i, j \in 1..n : i # j => order[i] # order[j]
        /\ \A k \in l.cache : \E i \in 1..n : order[i] = k
        /\ l.tail = At(order, n, n)
        /\ Follows(l, n, order)
    BY <1>2 DEF InOrder, Follows
  <1>4. ExistsBijection(1..n, l.cache)
    <2>1. order \in Injection(1..n, l.cache)
      BY <1>3 DEF Injection, IsInjective
    <2>2. order \in Surjection(1..n, l.cache)
      BY <1>3 DEF Surjection
    <2> QED
      BY <2>1, <2>2 DEF ExistsBijection, Bijection
  <1>5. IsFiniteSet(l.cache) /\ Cardinality(l.cache) = n
    BY <1>4, FS_NatBijection, FS_CountingElements
  <1>6. order \in SetToSeqs(l.cache)
    BY <1>3, <1>5 DEF SetToSeqs
  <1>7. l.tail = Nil <=> l.cache = {}
    BY <1>3 DEF At, NodeLists
  <1>8. ASSUME l.tail # Nil
        PROVE  /\ l.tail \in l.cache
               /\ \A a \in l.cache \ {l.tail} : <<a, l.tail>> \in R
    <2>1. n \in 1..n /\ l.tail = order[n]
      BY <1>3, <1>8 DEF At
    <2>2. ASSUME NEW a \in l.cache \ {l.tail} PROVE <<a, l.tail>> \in R
      <3>1. PICK i \in 1..n : order[i] = a
        BY <1>3
      <3>2. i < n
        BY <2>1, <3>1
      <3> QED
        BY <1>2, <2>1, <3>1, <3>2 DEF Sorted
    <2> QED
      BY <2>1, <2>2
  <1> QED
    BY <1>3, <1>5, <1>6, <1>7, <1>8

\* A use keeps the others in their order, behind the key.
LEMMA MoveToFrontRanked ==
    ASSUME NEW l \in NodeLists, NEW R, Ranked(l, R), NEW k \in l.cache, Nil \notin Keys,
           NEW S,
           \A a, b \in l.cache \ {k} : <<a, b>> \in R => <<a, b>> \in S,
           \A b \in l.cache \ {k} : <<k, b>> \in S
    PROVE  /\ MoveToFront(l, k) \in NodeLists
           /\ MoveToFront(l, k).cache = l.cache
           /\ Ranked(MoveToFront(l, k), S)
  <1>1. CASE k = l.head
    <2>1. PICK n \in Nat : \E order \in [1..n -> l.cache] :
              InOrder(l, n, order) /\ Sorted(n, order, R)
      BY DEF Ranked
    <2>2. PICK order \in [1..n -> l.cache] : InOrder(l, n, order) /\ Sorted(n, order, R)
      BY <2>1
    <2>3. 1 \in 1..n /\ order[1] = k
      BY <1>1, <2>2 DEF InOrder, Follows, At, NodeLists
    <2>4. Sorted(n, order, S)
      <3> SUFFICES ASSUME NEW i \in 1..n, NEW j \in 1..n, i < j
                   PROVE  <<order[i], order[j]>> \in S
        BY DEF Sorted
      <3>1. order[i] \in l.cache /\ order[j] \in l.cache /\ order[j] # k
        BY <2>2, <2>3 DEF InOrder
      <3>2. CASE i = 1
        BY <2>3, <3>1, <3>2
      <3>3. CASE i # 1
        <4>1. order[i] # k
          BY <2>2, <2>3, <3>3 DEF InOrder
        <4>2. <<order[i], order[j]>> \in R
          BY <2>2 DEF Sorted
        <4> QED
          BY <3>1, <4>1, <4>2
      <3> QED
        BY <3>2, <3>3
    <2>5. Ranked(l, S)
      BY <2>2, <2>4 DEF Ranked
    <2> QED
      BY <1>1, <2>5 DEF MoveToFront
  <1>2. CASE k # l.head
    <2> DEFINE d == Delete(l, k)
    <2>1. /\ d \in NodeLists
          /\ d.cache = l.cache \ {k}
          /\ Ranked(d, R)
      BY DeleteRanked
    <2>2. Added(d, k) = RemoveNode(l, k)
      BY DeleteFields DEF NodeLists
    <2>3. MoveToFront(l, k) = PushFront(Added(d, k), k)
      BY <1>2, <2>2 DEF MoveToFront
    <2> HIDE DEF d
    <2>4. Ranked(d, S)
      BY <2>1, RankedWeaken
    <2>5. k \in Keys \ d.cache /\ \A b \in d.cache : <<k, b>> \in S
      BY <2>1 DEF NodeLists
    <2>6. /\ PushFront(Added(d, k), k) \in NodeLists
          /\ PushFront(Added(d, k), k).cache = d.cache \cup {k}
          /\ Ranked(PushFront(Added(d, k), k), S)
      BY <2>1, <2>4, <2>5, PushRanked
    <2> QED
      BY <2>1, <2>3, <2>6
  <1> QED
    BY <1>1, <1>2

\* LRU.set evicts the tail of a full list and puts the new key in front.
LEMMA InsertType ==
    ASSUME NEW l \in NodeLists, NEW k \in Keys, Nil \notin Keys
    PROVE  Insert(l, k) \in NodeLists
  <1> DEFINE room == IF HasRoom(l) THEN l ELSE EvictTail(l)
  <1>1. room \in NodeLists
    BY DeleteFields DEF EvictTail, NodeLists, Pointer
  <1>2. Insert(l, k) = PushFront(Added(room, k), k)
    BY DEF Insert, Added
  <1> HIDE DEF room
  <1> QED
    BY <1>1, <1>2, PushFields

Full(l, t, R) ==
    /\ Cardinality(l.cache) = Capacity
    /\ \A a \in l.cache \ {t} : <<a, t>> \in R

LEMMA InsertRanked ==
    ASSUME NEW l \in NodeLists, NEW R, Ranked(l, R), NEW k \in Keys \ l.cache,
           Cardinality(l.cache) <= Capacity, \A b \in l.cache : <<k, b>> \in R
    PROVE  /\ Insert(l, k) \in NodeLists
           /\ Ranked(Insert(l, k), R)
           /\ Cardinality(Insert(l, k).cache) <= Capacity
           /\ k \in Insert(l, k).cache
           /\ Insert(l, k).cache \subseteq l.cache \cup {k}
           /\ \A t \in l.cache \ Insert(l, k).cache : Full(l, t, R)
  <1> DEFINE room == IF HasRoom(l) THEN l ELSE EvictTail(l)
             r == Insert(l, k)
  <1>1. r = PushFront(Added(room, k), k)
    BY DEF Insert, Added
  <1>2. /\ IsFiniteSet(l.cache)
        /\ Cardinality(l.cache) \in Nat
        /\ Cardinality(l.cache) = 0 <=> l.cache = {}
        /\ l.tail = Nil <=> l.cache = {}
        /\ l.tail # Nil => /\ l.tail \in l.cache
                           /\ \A a \in l.cache \ {l.tail} : <<a, l.tail>> \in R
    <2>1. Nil \notin Keys
      BY CacheAssumption
    <2>2. IsFiniteSet(l.cache)
      BY <2>1, RankedFacts
    <2>3. Cardinality(l.cache) \in Nat /\ (Cardinality(l.cache) = 0 <=> l.cache = {})
      BY <2>2, FS_CardinalityType, FS_EmptySet
    <2>4. /\ l.tail = Nil <=> l.cache = {}
          /\ l.tail # Nil => /\ l.tail \in l.cache
                             /\ \A a \in l.cache \ {l.tail} : <<a, l.tail>> \in R
      BY <2>1, RankedFacts
    <2> QED
      BY <2>2, <2>3, <2>4
  <1>3. /\ room \in NodeLists
        /\ Ranked(room, R)
        /\ room.cache \subseteq l.cache
        /\ Cardinality(room.cache) < Capacity
        /\ \A t \in l.cache \ room.cache : Full(l, t, R)
    <2>1. CASE HasRoom(l)
      BY <2>1 DEF HasRoom
    <2>2. CASE ~HasRoom(l)
      <3>1. Cardinality(l.cache) = Capacity
        BY <1>2, <2>2, CacheAssumption DEF HasRoom
      <3>2. l.tail # Nil
        BY <1>2, <3>1, CacheAssumption
      <3>3. room = Delete(l, l.tail)
        BY <2>2, <3>2 DEF EvictTail
      <3>4. /\ room \in NodeLists
            /\ Ranked(room, R)
            /\ room.cache = l.cache \ {l.tail}
        BY <1>2, <3>2, <3>3, DeleteRanked, CacheAssumption
      <3> HIDE DEF room
      <3>5. Cardinality(room.cache) = Cardinality(l.cache) - 1
        <4> DEFINE c == l.cache
                   t == l.tail
        <4>1. IsFiniteSet(c) /\ t \in c
          BY <1>2, <3>2
        <4> HIDE DEF c, t
        <4>2. Cardinality(c \ {t}) = Cardinality(c) - 1
          BY <4>1, FS_RemoveElement
        <4> QED
          BY <3>4, <4>2 DEF c, t
      <3>6. \A t \in l.cache \ room.cache : Full(l, t, R)
        BY <1>2, <3>1, <3>2, <3>4 DEF Full
      <3> QED
        BY <1>2, <3>1, <3>4, <3>5, <3>6, CacheAssumption
    <2> QED
      BY <2>1, <2>2
  <1> HIDE DEF room, r
  <1>4. k \in Keys \ room.cache /\ \A b \in room.cache : <<k, b>> \in R
    BY <1>3
  <1>5. /\ r \in NodeLists
        /\ r.cache = room.cache \cup {k}
        /\ Ranked(r, R)
    BY <1>1, <1>3, <1>4, PushRanked, CacheAssumption
  <1>6. Cardinality(r.cache) <= Capacity
    <2>1. IsFiniteSet(room.cache)
      BY <1>2, <1>3, FS_Subset
    <2>2. Cardinality(room.cache) \in Nat
      BY <2>1, FS_CardinalityType
    <2>3. Cardinality(r.cache) = Cardinality(room.cache) + 1
      BY <1>4, <1>5, <2>1, FS_AddElement
    <2> QED
      BY <1>3, <2>2, <2>3, CacheAssumption
  <1> QED
    BY <1>3, <1>5, <1>6 DEF r

\* pruneExpired deletes the expired nodes and keeps the others in their order,
\* whichever it takes first.
LEMMA PruneRanked ==
    ASSUME NEW l \in NodeLists, NEW R, Ranked(l, R), NEW ages
    PROVE  /\ Prune(l, ages) \in NodeLists
           /\ Prune(l, ages).cache = {k \in l.cache : ~Expired(ages[k])}
           /\ Ranked(Prune(l, ages), R)
  <1> DEFINE X == {k \in l.cache : Expired(ages[k])}
             first(s) == CHOOSE x \in s : TRUE
             Eq(f) == f = [s \in SUBSET X |->
                             IF s = {} THEN l ELSE Delete(f[s \ {first(s)}], first(s))]
             iter == CHOOSE f : Eq(f)
             pick == [s \in SUBSET X |-> first(s)]
             step == [q \in X \X NodeLists |-> Delete(q[2], q[1])]
  <1>1. Prune(l, ages) = iter[X]
    BY DEF Prune, FoldSet, MapThenFoldSet
  <1>2. X \subseteq l.cache /\ l.cache \subseteq Keys /\ Nil \notin Keys
    BY CacheAssumption DEF NodeLists
  <1>3. IsFiniteSet(X)
    <2>1. IsFiniteSet(l.cache)
      BY <1>2, RankedFacts
    <2> QED
      BY <1>2, <2>1, FS_Subset
  <1>4. \A s \in SUBSET X : s # {} => first(s) \in s
    OBVIOUS
  <1>5. Picks(pick, X)
    BY <1>4 DEF Picks
  <1>6. /\ step \in [X \X NodeLists -> NodeLists]
        /\ \A x \in X, v \in NodeLists : step[<<x, v>>] = Delete(v, x)
    BY <1>2, DeleteFields
  <1>7. \E h \in [SUBSET X -> NodeLists] : IsFold(h, X, l, step, pick)
    <2> HIDE DEF X, pick, step
    <2> QED
      BY <1>3, <1>5, <1>6, FoldExists
  <1>8. \E f : Eq(f)
    <2>1. PICK h \in [SUBSET X -> NodeLists] : IsFold(h, X, l, step, pick)
      BY <1>7
    <2>2. ASSUME NEW s \in SUBSET X
          PROVE  h[s] = IF s = {} THEN l ELSE Delete(h[s \ {first(s)}], first(s))
      <3>1. h[s] = IF s = {} THEN l ELSE step[<<pick[s], h[s \ {pick[s]}]>>]
        BY <2>1 DEF IsFold
      <3>2. CASE s = {}
        BY <3>1, <3>2
      <3>3. CASE s # {}
        <4>1. pick[s] = first(s) /\ first(s) \in X /\ s \ {first(s)} \in SUBSET X
          BY <1>4, <3>3
        <4>2. h[s \ {first(s)}] \in NodeLists
          BY <4>1
        <4>3. step[<<first(s), h[s \ {first(s)}]>>] = Delete(h[s \ {first(s)}], first(s))
          BY <1>6, <4>1, <4>2
        <4> QED
          BY <3>1, <3>3, <4>1, <4>3
      <3> QED
        BY <3>2, <3>3
    <2> HIDE DEF X, first
    <2> QED
      BY <2>2
  <1>9. Eq(iter)
    <2> HIDE DEF Eq
    <2> QED
      BY <1>8
  <1> DEFINE Good == {s \in SUBSET X : /\ iter[s] \in NodeLists
                                       /\ iter[s].cache = l.cache \ s
                                       /\ Ranked(iter[s], R)}
  <1>10. ASSUME NEW t \in SUBSET X, \A u \in SUBSET t : u # t => u \in Good
         PROVE  t \in Good
    <2>1. iter[t] = IF t = {} THEN l ELSE Delete(iter[t \ {first(t)}], first(t))
      BY <1>9
    <2>2. CASE t = {}
      BY <2>1, <2>2
    <2>3. CASE t # {}
      <3> DEFINE x == first(t)
                 v == iter[t \ {x}]
      <3>1. x \in t /\ x \in l.cache
        BY <1>2, <1>4, <2>3
      <3>2. t \ {x} \in Good
        BY <1>10, <3>1
      <3>3. v \in NodeLists /\ v.cache = l.cache \ (t \ {x}) /\ Ranked(v, R)
        BY <3>2
      <3>4. iter[t] = Delete(v, x)
        BY <2>1, <2>3
      <3> HIDE DEF x, v, iter
      <3>5. x \in v.cache
        BY <3>1, <3>3
      <3>6. /\ Delete(v, x) \in NodeLists
            /\ Delete(v, x).cache = v.cache \ {x}
            /\ Ranked(Delete(v, x), R)
        BY <1>2, <3>3, <3>5, DeleteRanked
      <3>7. v.cache \ {x} = l.cache \ t
        BY <3>1, <3>3
      <3> QED
        BY <3>4, <3>6, <3>7
    <2> QED
      BY <2>2, <2>3
  <1> HIDE DEF Good, iter
  <1>11. X \in Good
    <2> HIDE DEF X
    <2> QED
      BY <1>3, <1>10, SubsetInduction
  <1>12. l.cache \ X = {k \in l.cache : ~Expired(ages[k])}
    OBVIOUS
  <1> QED
    BY <1>1, <1>11, <1>12 DEF Good

\* loadFromFile inserts the keys of the file one by one, in any order.
LEMMA LoadRanked ==
    ASSUME NEW S \in SUBSET Keys, IsFiniteSet(S), NEW order \in SetToSeqs(S),
           NEW R, Keys \X Keys \subseteq R
    PROVE  /\ FoldLeft(Insert, EmptyList, order) \in NodeLists
           /\ FoldLeft(Insert, EmptyList, order).cache \subseteq S
           /\ Cardinality(FoldLeft(Insert, EmptyList, order).cache) <= Capacity
           /\ Ranked(FoldLeft(Insert, EmptyList, order), R)
  <1> DEFINE n == Cardinality(S)
             X == DOMAIN order
             Eq(f) == f = [s \in SUBSET X |->
                             IF s = {} THEN EmptyList
                             ELSE Insert(f[s \ {Max(s)}], order[Max(s)])]
             iter == CHOOSE f : Eq(f)
             pick == [s \in SUBSET X |-> Max(s)]
             step == [q \in X \X NodeLists |-> Insert(q[2], order[q[1]])]
  <1>1. FoldLeft(Insert, EmptyList, order) = iter[X]
    BY DEF FoldLeft, MapThenFoldSet
  <1>2. /\ n \in Nat
        /\ X = 1..n
        /\ \A i \in X : order[i] \in S
        /\ \A i, j \in X : i # j => order[i] # order[j]
    BY FS_CardinalityType DEF SetToSeqs
  <1>3. IsFiniteSet(X)
    BY <1>2, FS_Interval
  <1>4. \A s \in SUBSET X : s # {} => Max(s) \in s
    BY <1>2, MaxIsThere
  <1>5. Picks(pick, X)
    BY <1>4 DEF Picks
  <1>6. /\ step \in [X \X NodeLists -> NodeLists]
        /\ \A x \in X, v \in NodeLists : step[<<x, v>>] = Insert(v, order[x])
    <2>1. \A x \in X, v \in NodeLists : Insert(v, order[x]) \in NodeLists
      BY <1>2, InsertType, CacheAssumption
    <2> QED
      BY <2>1
  <1>7. \E h \in [SUBSET X -> NodeLists] : IsFold(h, X, EmptyList, step, pick)
    <2>1. EmptyList \in NodeLists
      BY EmptyListRanked
    <2> HIDE DEF X, pick, step
    <2> QED
      BY <1>3, <1>5, <1>6, <2>1, FoldExists
  <1>8. \E f : Eq(f)
    <2>1. PICK h \in [SUBSET X -> NodeLists] : IsFold(h, X, EmptyList, step, pick)
      BY <1>7
    <2>2. ASSUME NEW s \in SUBSET X
          PROVE  h[s] = IF s = {} THEN EmptyList
                        ELSE Insert(h[s \ {Max(s)}], order[Max(s)])
      <3>1. h[s] = IF s = {} THEN EmptyList ELSE step[<<pick[s], h[s \ {pick[s]}]>>]
        BY <2>1 DEF IsFold
      <3>2. CASE s = {}
        BY <3>1, <3>2
      <3>3. CASE s # {}
        <4>1. pick[s] = Max(s) /\ Max(s) \in X /\ s \ {Max(s)} \in SUBSET X
          BY <1>4, <3>3
        <4>2. h[s \ {Max(s)}] \in NodeLists
          BY <4>1
        <4>3. step[<<Max(s), h[s \ {Max(s)}]>>] = Insert(h[s \ {Max(s)}], order[Max(s)])
          BY <1>6, <4>1, <4>2
        <4> QED
          BY <3>1, <3>3, <4>1, <4>3
      <3> QED
        BY <3>2, <3>3
    <2> HIDE DEF X
    <2> QED
      BY <2>2
  <1>9. Eq(iter)
    <2> HIDE DEF Eq
    <2> QED
      BY <1>8
  <1> DEFINE Good == {s \in SUBSET X : /\ iter[s] \in NodeLists
                                       /\ iter[s].cache \subseteq {order[i] : i \in s}
                                       /\ Cardinality(iter[s].cache) <= Capacity
                                       /\ Ranked(iter[s], R)}
  <1>10. ASSUME NEW t \in SUBSET X, \A u \in SUBSET t : u # t => u \in Good
         PROVE  t \in Good
    <2>1. iter[t] = IF t = {} THEN EmptyList ELSE Insert(iter[t \ {Max(t)}], order[Max(t)])
      BY <1>9
    <2>2. CASE t = {}
      <3>1. EmptyList.cache = {} /\ Cardinality(EmptyList.cache) <= Capacity
        BY FS_EmptySet, CacheAssumption DEF EmptyList
      <3> QED
        BY <2>1, <2>2, <3>1, EmptyListRanked
    <2>3. CASE t # {}
      <3> DEFINE x == Max(t)
                 v == iter[t \ {x}]
                 k == order[x]
      <3>1. x \in t /\ x \in X
        BY <1>4, <2>3
      <3>2. t \ {x} \in Good
        BY <1>10, <3>1
      <3>3. /\ v \in NodeLists
            /\ v.cache \subseteq {order[i] : i \in t \ {x}}
            /\ Cardinality(v.cache) <= Capacity
            /\ Ranked(v, R)
        BY <3>2
      <3>4. iter[t] = Insert(v, k)
        BY <2>1, <2>3
      <3>5. k \in S /\ k \notin {order[i] : i \in t \ {x}}
        BY <1>2, <3>1
      <3> HIDE DEF x, v, iter
      <3>6. k \in Keys \ v.cache /\ \A b \in v.cache : <<k, b>> \in R
        BY <3>3, <3>5 DEF NodeLists
      <3>7. /\ Insert(v, k) \in NodeLists
            /\ Ranked(Insert(v, k), R)
            /\ Cardinality(Insert(v, k).cache) <= Capacity
            /\ Insert(v, k).cache \subseteq v.cache \cup {k}
        <4> HIDE DEF k
        <4> QED
          BY <3>3, <3>6, InsertRanked
      <3>8. v.cache \cup {k} \subseteq {order[i] : i \in t}
        BY <3>1, <3>3
      <3> QED
        BY <3>4, <3>7, <3>8
    <2> QED
      BY <2>2, <2>3
  <1> HIDE DEF Good, iter
  <1>11. X \in Good
    <2> HIDE DEF X
    <2> QED
      BY <1>3, <1>10, SubsetInduction
  <1>12. {order[i] : i \in X} \subseteq S
    BY <1>2
  <1> QED
    BY <1>1, <1>11, <1>12 DEF Good

-----------------------------------------------------------------------------
(* The invariant.                                                          *)

\* The pairs <<a, b>> with b used before a: a is among those used since, or b
\* is only loaded.
Recent == {p \in Keys \X Keys : (p[2] \in lost) \/ (p[1] \in since[p[2]])}

\* The list is in the order of the last uses.
ByUse == Ranked(lru, Recent)

\* A node set since the start has the age of its last Set.
Fresh == \A k \in lru.cache \ lost : stamp[k] = heard[k]

\* A key set since the start and not in the map had expired, or as many others
\* as the cache holds were used since.
Forgotten ==
    \A k \in Keys \ (lost \cup lru.cache) :
        \/ TTL > 0 /\ heard[k] > TTL
        \/ Cardinality(since[k]) >= Capacity

FiniteUse == IsFiniteSet(file) /\ (\A k \in Keys : IsFiniteSet(since[k]))

EmptyWhenDown == mode = "down" => lru = EmptyList /\ lost = Keys

CacheInv ==
    /\ TypeOK
    /\ ByUse
    /\ NeverYounger
    /\ Fresh
    /\ Forgotten
    /\ FiniteUse
    /\ EmptyWhenDown

LEMMA LongIsLong == Long \in Nat /\ Long > TTL
  BY CacheAssumption DEF Long

LEMMA CacheInit == Init => CacheInv
  <1> SUFFICES ASSUME Init PROVE CacheInv
    OBVIOUS
  <1>1. /\ lru = EmptyList
        /\ stamp = [k \in Keys |-> Long]
        /\ file = {}
        /\ fileStamp = [k \in Keys |-> Long]
        /\ mode = "ready"
        /\ duplicate = FALSE
        /\ heard = [k \in Keys |-> Long]
        /\ since = [k \in Keys |-> {}]
        /\ lost = Keys
    BY DEF Init
  <1>2. EmptyList \in NodeLists /\ Ranked(EmptyList, Recent)
    BY EmptyListRanked
  <1>3. EmptyList.cache = {}
    BY DEF EmptyList
  <1>4. Cardinality({}) <= Capacity
    BY FS_EmptySet, CacheAssumption
  <1>5. Long \in 0..Long
    BY LongIsLong
  <1>6. duplicate \in BOOLEAN
    BY <1>1
  <1>7. TypeOK
    BY <1>1, <1>2, <1>3, <1>4, <1>5, <1>6 DEF TypeOK, NodeLists
  <1>8. NeverYounger /\ Fresh /\ Forgotten
    BY <1>1, <1>3 DEF NeverYounger, Fresh, Forgotten
  <1>9. FiniteUse /\ EmptyWhenDown
    BY <1>1, FS_EmptySet DEF FiniteUse, EmptyWhenDown
  <1> QED
    BY <1>1, <1>2, <1>7, <1>8, <1>9 DEF CacheInv, ByUse

\* What every step of the cache starts from.
LEMMA CacheFacts ==
    ASSUME CacheInv
    PROVE  /\ lru \in NodeLists
           /\ lru.cache \subseteq Keys
           /\ Cardinality(lru.cache) <= Capacity
           /\ Ranked(lru, Recent)
           /\ IsFiniteSet(lru.cache)
           /\ stamp \in [Keys -> 0..Long] /\ fileStamp \in [Keys -> 0..Long]
           /\ heard \in [Keys -> 0..Long] /\ since \in [Keys -> SUBSET Keys]
           /\ file \subseteq Keys /\ lost \subseteq Keys
           /\ duplicate \in BOOLEAN
           /\ mode \in {"down", "ready", "save", "write"}
           /\ 0 \in 0..Long
  <1>1. /\ lru \in NodeLists
        /\ Cardinality(lru.cache) <= Capacity
        /\ stamp \in [Keys -> 0..Long] /\ fileStamp \in [Keys -> 0..Long]
        /\ heard \in [Keys -> 0..Long] /\ since \in [Keys -> SUBSET Keys]
        /\ file \subseteq Keys /\ lost \subseteq Keys
        /\ duplicate \in BOOLEAN
        /\ mode \in {"down", "ready", "save", "write"}
    BY DEF CacheInv, TypeOK, NodeLists
  <1>2. lru.cache \subseteq Keys
    BY <1>1 DEF NodeLists
  <1>3. Ranked(lru, Recent)
    BY DEF CacheInv, ByUse
  <1>4. IsFiniteSet(lru.cache)
    BY <1>1, <1>3, RankedFacts, CacheAssumption
  <1>5. 0 \in 0..Long
    BY LongIsLong
  <1> QED
    BY <1>1, <1>2, <1>3, <1>4, <1>5

\* The history after a use of k.
LEMMA UseFacts ==
    ASSUME CacheInv, NEW k \in Keys, Use(k), lost' \in {lost, lost \ {k}}
    PROVE  /\ since' \in [Keys -> SUBSET Keys]
           /\ \A j \in Keys : IsFiniteSet(since'[j])
           /\ \A j \in Keys \ {k} : since'[j] = since[j] \cup {k}
           /\ \A a, b \in Keys \ {k} : <<a, b>> \in Recent => <<a, b>> \in Recent'
           /\ \A b \in Keys \ {k} : <<k, b>> \in Recent'
  <1>1. since \in [Keys -> SUBSET Keys] /\ \A j \in Keys : IsFiniteSet(since[j])
    BY CacheFacts DEF CacheInv, FiniteUse
  <1>2. since' = [j \in Keys |-> IF j = k THEN {} ELSE since[j] \cup {k}]
    BY DEF Use
  <1>3. \A j \in Keys : IsFiniteSet(since'[j])
    BY <1>1, <1>2, FS_EmptySet, FS_AddElement
  <1>4. Recent' = {p \in Keys \X Keys : (p[2] \in lost') \/ (p[1] \in since'[p[2]])}
    BY DEF Recent
  <1>5. \A a, b \in Keys \ {k} : <<a, b>> \in Recent => <<a, b>> \in Recent'
    BY <1>2, <1>4 DEF Recent
  <1>6. \A b \in Keys \ {k} : <<k, b>> \in Recent'
    BY <1>2, <1>4
  <1> QED
    BY <1>1, <1>2, <1>3, <1>5, <1>6

\* A key that was not forgotten before stays so however much is used since.
LEMMA ForgottenGrows ==
    ASSUME CacheInv, NEW k \in Keys, Use(k), NEW j \in Keys \ {k},
           Cardinality(since[j]) >= Capacity
    PROVE  Cardinality(since'[j]) >= Capacity
  <1>1. since' = [i \in Keys |-> IF i = k THEN {} ELSE since[i] \cup {k}]
    BY DEF Use
  <1>2. since'[j] = since[j] \cup {k}
    BY <1>1
  <1>3. IsFiniteSet(since[j])
    BY DEF CacheInv, FiniteUse
  <1>4. Cardinality(since[j]) \in Nat
    BY <1>3, FS_CardinalityType
  <1>5. Cardinality(since'[j]) =
          IF k \in since[j] THEN Cardinality(since[j]) ELSE Cardinality(since[j]) + 1
    BY <1>2, <1>3, FS_AddElement
  <1> QED
    BY <1>4, <1>5, CacheAssumption

LEMMA CacheSetDuplicate ==
    ASSUME CacheInv, NEW k \in Keys, SetDuplicate(k)
    PROVE  CacheInv'
  <1>1. /\ mode = "ready"
        /\ k \in lru.cache
        /\ lru' = MoveToFront(lru, k)
        /\ stamp' = [stamp EXCEPT ![k] = 0]
        /\ duplicate' = TRUE
        /\ heard' = [heard EXCEPT ![k] = 0]
        /\ lost' = lost \ {k}
        /\ Use(k)
        /\ UNCHANGED <<file, fileStamp, mode>>
    BY DEF SetDuplicate, Known, Answer, fileVars
  <1>2. /\ since' \in [Keys -> SUBSET Keys]
        /\ \A j \in Keys : IsFiniteSet(since'[j])
        /\ \A a, b \in Keys \ {k} : <<a, b>> \in Recent => <<a, b>> \in Recent'
        /\ \A b \in Keys \ {k} : <<k, b>> \in Recent'
    BY <1>1, UseFacts
  <1>3. /\ lru' \in NodeLists
        /\ lru'.cache = lru.cache
        /\ Ranked(lru', Recent')
    BY <1>1, <1>2, CacheFacts, MoveToFrontRanked, CacheAssumption
  <1>4. duplicate' \in BOOLEAN
    BY <1>1
  <1>5. TypeOK'
    BY <1>1, <1>2, <1>3, <1>4, CacheFacts DEF TypeOK, NodeLists
  <1>6. NeverYounger' /\ Fresh'
    BY <1>1, <1>3, CacheFacts DEF CacheInv, NeverYounger, Fresh
  <1>7. Forgotten'
    <2> SUFFICES ASSUME NEW j \in Keys, j \notin lost', j \notin lru'.cache
                 PROVE  ((TTL > 0 /\ heard'[j] > TTL) \/ (Cardinality(since'[j]) >= Capacity))
      BY DEF Forgotten
    <2>1. j # k /\ heard'[j] = heard[j] /\ j \notin lost /\ j \notin lru.cache
      BY <1>1, <1>3, CacheFacts
    <2> QED
      BY <1>1, <2>1, ForgottenGrows DEF CacheInv, Forgotten
  <1>8. FiniteUse' /\ EmptyWhenDown'
    BY <1>1, <1>2 DEF CacheInv, FiniteUse, EmptyWhenDown
  <1> QED
    BY <1>3, <1>5, <1>6, <1>7, <1>8 DEF CacheInv, ByUse

LEMMA CacheSetNew ==
    ASSUME CacheInv, NEW k \in Keys, SetNew(k)
    PROVE  CacheInv'
  <1> DEFINE kept == Prune(lru, stamp)
  <1>1. /\ mode = "ready"
        /\ ~Known(k)
        /\ lru' = Insert(kept, k)
        /\ stamp' = [stamp EXCEPT ![k] = 0]
        /\ duplicate' = FALSE
        /\ heard' = [heard EXCEPT ![k] = 0]
        /\ lost' = lost \ {k}
        /\ Use(k)
        /\ mode' = "save"
        /\ UNCHANGED <<file, fileStamp>>
    BY DEF SetNew, Answer, fileVars
  <1>2. /\ since' \in [Keys -> SUBSET Keys]
        /\ \A j \in Keys : IsFiniteSet(since'[j])
        /\ \A j \in Keys \ {k} : since'[j] = since[j] \cup {k}
        /\ \A a, b \in Keys \ {k} : <<a, b>> \in Recent => <<a, b>> \in Recent'
        /\ \A b \in Keys \ {k} : <<k, b>> \in Recent'
    BY <1>1, UseFacts
  <1>3. /\ kept \in NodeLists
        /\ kept.cache = {j \in lru.cache : ~Expired(stamp[j])}
        /\ Ranked(kept, Recent)
    BY CacheFacts, PruneRanked
  <1> HIDE DEF kept
  <1>4. k \notin kept.cache /\ kept.cache \subseteq lru.cache /\ kept.cache \subseteq Keys
    BY <1>1, <1>3, CacheFacts DEF Known
  <1>5. Ranked(kept, Recent')
    BY <1>2, <1>3, <1>4, RankedWeaken
  <1>6. IsFiniteSet(kept.cache) /\ Cardinality(kept.cache) <= Capacity
    <2>1. IsFiniteSet(lru.cache) /\ Cardinality(lru.cache) <= Capacity
      BY CacheFacts
    <2>2. /\ IsFiniteSet(kept.cache)
          /\ Cardinality(kept.cache) <= Cardinality(lru.cache)
      BY <1>4, <2>1, FS_Subset
    <2>3. Cardinality(lru.cache) \in Nat /\ Cardinality(kept.cache) \in Nat
      BY <2>1, <2>2, FS_CardinalityType
    <2> QED
      BY <2>1, <2>2, <2>3, CacheAssumption
  <1>7. /\ lru' \in NodeLists
        /\ Ranked(lru', Recent')
        /\ Cardinality(lru'.cache) <= Capacity
        /\ k \in lru'.cache
        /\ lru'.cache \subseteq kept.cache \cup {k}
        /\ \A t \in kept.cache \ lru'.cache : Full(kept, t, Recent')
    <2>1. k \in Keys \ kept.cache /\ \A b \in kept.cache : <<k, b>> \in Recent'
      BY <1>2, <1>4
    <2> QED
      BY <1>1, <1>3, <1>5, <1>6, <2>1, InsertRanked
  <1>8. duplicate' \in BOOLEAN
    BY <1>1
  <1>9. TypeOK'
    BY <1>1, <1>2, <1>7, <1>8, CacheFacts DEF TypeOK, NodeLists
  <1>10. NeverYounger' /\ Fresh'
    BY <1>1, <1>4, <1>7, CacheFacts DEF CacheInv, NeverYounger, Fresh
  <1>11. Forgotten'
    <2> SUFFICES ASSUME NEW j \in Keys, j \notin lost', j \notin lru'.cache
                 PROVE  ((TTL > 0 /\ heard'[j] > TTL) \/ (Cardinality(since'[j]) >= Capacity))
      BY DEF Forgotten
    <2>1. j # k /\ heard'[j] = heard[j] /\ j \notin lost
      BY <1>1, <1>7, CacheFacts
    <2>2. CASE j \notin lru.cache
      BY <1>1, <2>1, <2>2, ForgottenGrows DEF CacheInv, Forgotten
    <2>3. CASE j \in lru.cache /\ j \notin kept.cache
      <3>1. TTL > 0 /\ stamp[j] > TTL
        BY <1>3, <2>3 DEF Expired
      <3>2. stamp[j] = heard[j]
        BY <2>1, <2>3 DEF CacheInv, Fresh
      <3> QED
        BY <2>1, <3>1, <3>2
    <2>4. CASE j \in kept.cache
      <3>1. Full(kept, j, Recent')
        BY <1>7, <2>4
      <3>2. Recent' = {p \in Keys \X Keys : (p[2] \in lost') \/ (p[1] \in since'[p[2]])}
        BY DEF Recent
      <3>3. kept.cache \ {j} \subseteq since[j]
        <4> SUFFICES ASSUME NEW a \in kept.cache \ {j} PROVE a \in since[j]
          OBVIOUS
        <4>1. a \in Keys /\ a # k /\ <<a, j>> \in Recent'
          BY <1>4, <3>1 DEF Full
        <4>2. a \in since'[j]
          BY <3>2, <4>1
        <4> QED
          BY <1>2, <2>1, <4>1, <4>2
      <3> DEFINE rest == kept.cache \ {j}
      <3>4. IsFiniteSet(rest) /\ Cardinality(rest) = Capacity - 1
        BY <1>6, <2>4, <3>1, FS_RemoveElement DEF Full
      <3>5. rest \cup {k} \subseteq since'[j] /\ k \notin rest
        BY <1>2, <1>4, <2>1, <3>3
      <3> HIDE DEF rest
      <3>6. IsFiniteSet(rest \cup {k}) /\ Cardinality(rest \cup {k}) = Capacity
        BY <3>4, <3>5, FS_AddElement, CacheAssumption
      <3>7. Cardinality(rest \cup {k}) <= Cardinality(since'[j])
            /\ Cardinality(since'[j]) \in Nat
        BY <1>2, <3>5, FS_Subset, FS_CardinalityType
      <3> QED
        BY <3>6, <3>7, CacheAssumption
    <2> QED
      BY <2>2, <2>3, <2>4
  <1>12. FiniteUse' /\ EmptyWhenDown'
    BY <1>1, <1>2 DEF CacheInv, FiniteUse, EmptyWhenDown
  <1> QED
    BY <1>7, <1>9, <1>10, <1>11, <1>12 DEF CacheInv, ByUse

LEMMA CacheSave ==
    ASSUME CacheInv, Save
    PROVE  CacheInv'
  <1>1. /\ UNCHANGED <<lru, stamp, duplicate, heard, since, lost>>
        /\ mode # "down" /\ mode' \in {"ready", "write"}
    BY DEF Save, CreateFile, WriteFile, SaveFails, histVars
  <1>2. Recent' = Recent
    BY <1>1 DEF Recent
  <1>3. \/ file' = {} /\ fileStamp' = fileStamp
        \/ file' = lru.cache /\ fileStamp' = [k \in Keys |-> stamp[k]]
        \/ file' = file /\ fileStamp' = fileStamp
    BY DEF Save, CreateFile, WriteFile, SaveFails, fileVars, SavedStamp
  <1>4. TypeOK'
    BY <1>1, <1>3, CacheFacts DEF TypeOK, NodeLists
  <1>5. NeverYounger'
    BY <1>1, <1>3, CacheFacts DEF CacheInv, NeverYounger
  <1>6. FiniteUse'
    BY <1>1, <1>3, CacheFacts, FS_EmptySet DEF CacheInv, FiniteUse
  <1>7. ByUse' /\ Fresh' /\ Forgotten' /\ EmptyWhenDown'
    BY <1>1, <1>2 DEF CacheInv, ByUse, Fresh, Forgotten, EmptyWhenDown
  <1> QED
    BY <1>4, <1>5, <1>6, <1>7 DEF CacheInv

LEMMA CacheGet ==
    ASSUME CacheInv, NEW k \in Keys, Get(k)
    PROVE  CacheInv'
  <1>1. /\ mode = "ready"
        /\ k \in lru.cache
        /\ UNCHANGED <<stamp, file, fileStamp, mode, duplicate, heard, lost>>
    BY DEF Get, fileVars
  <1>2. CASE Expired(stamp[k])
    <2>1. lru' = Delete(lru, k) /\ since' = since
      BY <1>2 DEF Get
    <2>2. Recent' = Recent
      BY <1>1, <2>1 DEF Recent
    <2>3. /\ lru' \in NodeLists
          /\ lru'.cache = lru.cache \ {k}
          /\ Ranked(lru', Recent')
      BY <1>1, <2>1, <2>2, CacheFacts, DeleteRanked, CacheAssumption
    <2>4. Cardinality(lru'.cache) <= Capacity
      <3> DEFINE c == lru.cache
      <3>0. IsFiniteSet(c) /\ k \in c
        BY <1>1, CacheFacts
      <3> HIDE DEF c
      <3>1. Cardinality(c \ {k}) = Cardinality(c) - 1
        BY <3>0, FS_RemoveElement
      <3>2. Cardinality(lru.cache) \in Nat /\ Cardinality(lru.cache) <= Capacity
        BY CacheFacts, FS_CardinalityType
      <3> QED
        BY <2>3, <3>1, <3>2, CacheAssumption DEF c
    <2>5. TypeOK'
      BY <1>1, <2>1, <2>3, <2>4, CacheFacts DEF TypeOK, NodeLists
    <2>6. NeverYounger' /\ Fresh'
      BY <1>1, <2>3, CacheFacts DEF CacheInv, NeverYounger, Fresh
    <2>7. Forgotten'
      <3> SUFFICES ASSUME NEW j \in Keys, j \notin lost', j \notin lru'.cache
                   PROVE  ((TTL > 0 /\ heard'[j] > TTL) \/ (Cardinality(since'[j]) >= Capacity))
        BY DEF Forgotten
      <3>1. CASE j = k
        BY <1>1, <1>2, <3>1 DEF CacheInv, Fresh, Expired
      <3>2. CASE j # k
        BY <1>1, <2>1, <2>3, <3>2 DEF CacheInv, Forgotten
      <3> QED
        BY <3>1, <3>2
    <2>8. FiniteUse' /\ EmptyWhenDown'
      BY <1>1, <2>1 DEF CacheInv, FiniteUse, EmptyWhenDown
    <2> QED
      BY <2>3, <2>5, <2>6, <2>7, <2>8 DEF CacheInv, ByUse
  <1>3. CASE ~Expired(stamp[k])
    <2>1. lru' = MoveToFront(lru, k) /\ Use(k)
      BY <1>3 DEF Get
    <2>2. /\ since' \in [Keys -> SUBSET Keys]
          /\ \A j \in Keys : IsFiniteSet(since'[j])
          /\ \A a, b \in Keys \ {k} : <<a, b>> \in Recent => <<a, b>> \in Recent'
          /\ \A b \in Keys \ {k} : <<k, b>> \in Recent'
      BY <1>1, <2>1, UseFacts
    <2>3. /\ lru' \in NodeLists
          /\ lru'.cache = lru.cache
          /\ Ranked(lru', Recent')
      BY <1>1, <2>1, <2>2, CacheFacts, MoveToFrontRanked, CacheAssumption
    <2>4. TypeOK'
      BY <1>1, <2>2, <2>3, CacheFacts DEF TypeOK, NodeLists
    <2>5. NeverYounger' /\ Fresh'
      BY <1>1, <2>3, CacheFacts DEF CacheInv, NeverYounger, Fresh
    <2>6. Forgotten'
      <3> SUFFICES ASSUME NEW j \in Keys, j \notin lost', j \notin lru'.cache
                   PROVE  ((TTL > 0 /\ heard'[j] > TTL) \/ (Cardinality(since'[j]) >= Capacity))
        BY DEF Forgotten
      <3>1. j # k /\ heard'[j] = heard[j] /\ j \notin lost /\ j \notin lru.cache
        BY <1>1, <2>3
      <3> QED
        BY <2>1, <3>1, ForgottenGrows DEF CacheInv, Forgotten
    <2>7. FiniteUse' /\ EmptyWhenDown'
      BY <1>1, <2>2 DEF CacheInv, FiniteUse, EmptyWhenDown
    <2> QED
      BY <2>3, <2>4, <2>5, <2>6, <2>7 DEF CacheInv, ByUse
  <1> QED
    BY <1>2, <1>3

LEMMA CacheCrash ==
    ASSUME CacheInv, Crash
    PROVE  CacheInv'
  <1>1. /\ mode' = "down"
        /\ lru' = EmptyList
        /\ lost' = Keys
        /\ UNCHANGED <<stamp, file, fileStamp, duplicate, heard, since>>
    BY DEF Crash, fileVars
  <1>2. /\ EmptyList \in NodeLists
        /\ Ranked(EmptyList, Recent')
        /\ EmptyList.cache = {}
    BY EmptyListRanked DEF EmptyList
  <1>3. Cardinality({}) <= Capacity
    BY FS_EmptySet, CacheAssumption
  <1>4. TypeOK'
    BY <1>1, <1>2, <1>3, CacheFacts DEF TypeOK, NodeLists
  <1>5. NeverYounger' /\ Fresh' /\ Forgotten'
    BY <1>1, <1>2 DEF CacheInv, NeverYounger, Fresh, Forgotten
  <1>6. FiniteUse' /\ EmptyWhenDown'
    BY <1>1 DEF CacheInv, FiniteUse, EmptyWhenDown
  <1> QED
    BY <1>1, <1>2, <1>4, <1>5, <1>6 DEF CacheInv, ByUse

LEMMA CacheStart ==
    ASSUME CacheInv, Start
    PROVE  CacheInv'
  <1> DEFINE S == {k \in file : ~Expired(fileStamp[k])}
  <1>1. /\ mode = "down" /\ lost = Keys
        /\ mode' = "ready"
        /\ stamp' = fileStamp
        /\ UNCHANGED <<file, fileStamp, duplicate, heard, since, lost>>
    BY DEF Start, fileVars, histVars, CacheInv, EmptyWhenDown
  <1>2. PICK order \in SetToSeqs(S) : lru' = FoldLeft(Insert, EmptyList, order)
    BY DEF Start
  <1>3. S \in SUBSET Keys /\ S \subseteq file
    BY CacheFacts
  <1>4. IsFiniteSet(S)
    BY <1>3, FS_Subset DEF CacheInv, FiniteUse
  <1>5. Keys \X Keys \subseteq Recent'
    BY <1>1 DEF Recent
  <1> HIDE DEF S
  <1>6. /\ lru' \in NodeLists
        /\ lru'.cache \subseteq S
        /\ Cardinality(lru'.cache) <= Capacity
        /\ Ranked(lru', Recent')
    BY <1>2, <1>3, <1>4, <1>5, LoadRanked
  <1>7. TypeOK'
    BY <1>1, <1>6, CacheFacts DEF TypeOK, NodeLists
  <1>8. NeverYounger'
    BY <1>1, <1>3, <1>6 DEF CacheInv, NeverYounger
  <1>9. Fresh' /\ Forgotten'
    BY <1>1, <1>3, <1>6 DEF Fresh, Forgotten
  <1>10. FiniteUse' /\ EmptyWhenDown'
    BY <1>1 DEF CacheInv, FiniteUse, EmptyWhenDown
  <1> QED
    BY <1>6, <1>7, <1>8, <1>9, <1>10 DEF CacheInv, ByUse

\* Ages keep their order as they grow, and an old one does not become young.
LEMMA OlderFacts ==
    ASSUME NEW f \in [Keys -> 0..Long], NEW g \in [Keys -> 0..Long]
    PROVE  /\ Older(f) \in [Keys -> 0..Long]
           /\ \A k \in Keys : f[k] >= g[k] => Older(f)[k] >= Older(g)[k]
           /\ \A k \in Keys : f[k] = g[k] => Older(f)[k] = Older(g)[k]
           /\ \A k \in Keys : f[k] > TTL => Older(f)[k] > TTL
  <1>1. \A k \in Keys : Older(f)[k] = IF f[k] < Long THEN f[k] + 1 ELSE Long
    BY DEF Older
  <1>2. \A k \in Keys : Older(g)[k] = IF g[k] < Long THEN g[k] + 1 ELSE Long
    BY DEF Older
  <1>3. \A k \in Keys : f[k] \in 0..Long /\ g[k] \in 0..Long
    OBVIOUS
  <1>4. Older(f) \in [Keys -> 0..Long]
    BY <1>3, LongIsLong DEF Older
  <1> QED
    BY <1>1, <1>2, <1>3, <1>4, LongIsLong, CacheAssumption

LEMMA CacheTick ==
    ASSUME CacheInv, Tick
    PROVE  CacheInv'
  <1>1. /\ stamp' = Older(stamp)
        /\ fileStamp' = Older(fileStamp)
        /\ heard' = Older(heard)
        /\ UNCHANGED <<lru, file, mode, duplicate, since, lost>>
    BY DEF Tick
  <1>2. Recent' = Recent
    BY <1>1 DEF Recent
  <1>3. /\ stamp' \in [Keys -> 0..Long] /\ fileStamp' \in [Keys -> 0..Long]
        /\ heard' \in [Keys -> 0..Long]
        /\ \A k \in Keys : stamp[k] >= heard[k] => stamp'[k] >= heard'[k]
        /\ \A k \in Keys : fileStamp[k] >= heard[k] => fileStamp'[k] >= heard'[k]
        /\ \A k \in Keys : stamp[k] = heard[k] => stamp'[k] = heard'[k]
        /\ \A k \in Keys : heard[k] > TTL => heard'[k] > TTL
    BY <1>1, OlderFacts, CacheFacts
  <1>4. TypeOK'
    BY <1>1, <1>3, CacheFacts DEF TypeOK, NodeLists
  <1>5. NeverYounger' /\ Fresh'
    BY <1>1, <1>3, CacheFacts DEF CacheInv, NeverYounger, Fresh
  <1>6. Forgotten'
    BY <1>1, <1>3 DEF CacheInv, Forgotten
  <1>7. ByUse' /\ FiniteUse' /\ EmptyWhenDown'
    BY <1>1, <1>2 DEF CacheInv, ByUse, FiniteUse, EmptyWhenDown
  <1> QED
    BY <1>4, <1>5, <1>6, <1>7 DEF CacheInv

LEMMA CacheStep == CacheInv /\ [Next]_vars => CacheInv'
  <1> SUFFICES ASSUME CacheInv, [Next]_vars PROVE CacheInv'
    OBVIOUS
  <1>1. ASSUME NEW k \in Keys, SetDuplicate(k) PROVE CacheInv'
    BY <1>1, CacheSetDuplicate
  <1>2. ASSUME NEW k \in Keys, SetNew(k) PROVE CacheInv'
    BY <1>2, CacheSetNew
  <1>3. ASSUME NEW k \in Keys, Get(k) PROVE CacheInv'
    BY <1>3, CacheGet
  <1>4. CASE Save
    BY <1>4, CacheSave
  <1>5. CASE Crash
    BY <1>5, CacheCrash
  <1>6. CASE Start
    BY <1>6, CacheStart
  <1>7. CASE Tick
    BY <1>7, CacheTick
  <1>8. CASE UNCHANGED vars
    <2>1. UNCHANGED <<lru, stamp, file, fileStamp, mode, duplicate, heard, since, lost>>
      BY <1>8 DEF vars, fileVars, histVars
    <2>2. Recent' = Recent
      BY <2>1 DEF Recent
    <2>3. TypeOK'
      BY <2>1 DEF CacheInv, TypeOK
    <2>4. ByUse' /\ NeverYounger' /\ Fresh' /\ Forgotten' /\ FiniteUse' /\ EmptyWhenDown'
      BY <2>1, <2>2 DEF CacheInv, ByUse, NeverYounger, Fresh, Forgotten, FiniteUse,
                        EmptyWhenDown
    <2> QED
      BY <2>3, <2>4 DEF CacheInv
  <1> QED
    BY <1>1, <1>2, <1>3, <1>4, <1>5, <1>6, <1>7, <1>8 DEF Next

LEMMA CacheAlways == Spec => []CacheInv
  BY CacheInit, CacheStep, PTL DEF Spec

-----------------------------------------------------------------------------
(* The theorems.                                                           *)

\* Every variable of the cache holds a value of its kind, and the map never
\* outgrows cache-size: each new key of LRU.set evicts the tail of a full list,
\* and so does each key of a file that holds more.
THEOREM CacheTyped == Spec => []TypeOK
  BY CacheAlways, PTL DEF CacheInv

\* After any sequence of uses, evictions, expiries, crashes and starts, the
\* pointers link the nodes of the map into one list, each once, from head to
\* tail and back: removeNode, moveToFront, addToFront and evictLRU keep it so.
THEOREM ListIsWholeAlways == Spec => []ListIsWhole
  <1>1. CacheInv => ListIsWhole
    <2> SUFFICES ASSUME CacheInv PROVE ListIsWhole
      OBVIOUS
    <2>1. lru \in NodeLists /\ Ranked(lru, Recent)
      BY CacheFacts
    <2> QED
      BY <2>1, RankedFacts, CacheAssumption DEF ListIsWhole
  <1> QED
    BY <1>1, CacheAlways, PTL

\* No entry, in memory or in the file, is younger than the last time its key
\* was heard, wherever the program dies and starts again.
THEOREM NeverYoungerAlways == Spec => []NeverYounger
  BY CacheAlways, PTL DEF CacheInv

LEMMA FilterInit == Init => Filter!Init
  BY DEF Init, Filter!Init, Long, Filter!Long

LEMMA FilterSetDuplicate ==
    ASSUME CacheInv, NEW k \in Keys, SetDuplicate(k)
    PROVE  Filter!Ask(k)
  <1>1. k \in lru.cache /\ ~Expired(stamp[k]) /\ Answer(k, TRUE)
    BY DEF SetDuplicate, Known
  <1>2. /\ stamp[k] >= heard[k]
        /\ stamp[k] \in 0..Long /\ heard[k] \in 0..Long
    BY <1>1, CacheFacts DEF CacheInv, NeverYounger
  <1>3. Filter!MayBeDuplicate(k)
    BY <1>1, <1>2, LongIsLong, CacheAssumption DEF Expired, Filter!MayBeDuplicate
  <1> QED
    BY <1>1, <1>3 DEF Answer, Use, Filter!Ask, Filter!Use

LEMMA FilterSetNew ==
    ASSUME CacheInv, NEW k \in Keys, SetNew(k)
    PROVE  Filter!Ask(k)
  <1>1. ~Known(k) /\ Answer(k, FALSE)
    BY DEF SetNew
  <1>2. Filter!MayBeNew(k)
    <2>1. CASE k \in lost
      BY <2>1 DEF Filter!MayBeNew
    <2>2. CASE k \notin lost /\ k \notin lru.cache
      <3>1. Filter!Cardinality(since[k]) = Cardinality(since[k])
        BY DEF Cardinality, Filter!Cardinality
      <3> QED
        BY <2>2, <3>1 DEF CacheInv, Forgotten, Filter!MayBeNew
    <2>3. CASE k \notin lost /\ k \in lru.cache
      BY <1>1, <2>3 DEF CacheInv, Fresh, Known, Expired, Filter!MayBeNew
    <2> QED
      BY <2>1, <2>2, <2>3
  <1> QED
    BY <1>1, <1>2 DEF Answer, Use, Filter!Ask, Filter!Use

LEMMA FilterStep == CacheInv /\ [Next]_vars => [Filter!Next]_(Filter!vars)
  <1> SUFFICES ASSUME CacheInv, [Next]_vars PROVE [Filter!Next]_(Filter!vars)
    OBVIOUS
  <1>1. ASSUME NEW k \in Keys, SetDuplicate(k) PROVE Filter!Next
    BY <1>1, FilterSetDuplicate DEF Filter!Next
  <1>2. ASSUME NEW k \in Keys, SetNew(k) PROVE Filter!Next
    BY <1>2, FilterSetNew DEF Filter!Next
  <1>3. ASSUME NEW k \in Keys, Get(k) PROVE Filter!Next \/ UNCHANGED Filter!vars
    <2>1. UNCHANGED <<heard, lost, duplicate>> /\ (Use(k) \/ UNCHANGED since)
      BY <1>3 DEF Get
    <2> QED
      BY <2>1 DEF Use, Filter!Next, Filter!Look, Filter!Use, Filter!vars
  <1>4. CASE Save
    BY <1>4 DEF Save, CreateFile, WriteFile, SaveFails, histVars, Filter!vars
  <1>5. CASE Crash
    BY <1>5 DEF Crash, Filter!Next, Filter!Restart
  <1>6. CASE Start
    BY <1>6 DEF Start, histVars, Filter!vars
  <1>7. CASE Tick
    BY <1>7 DEF Tick, Older, Long, Filter!Next, Filter!Tick, Filter!Long
  <1>8. CASE UNCHANGED vars
    BY <1>8 DEF vars, histVars, Filter!vars
  <1> QED
    BY <1>1, <1>2, <1>3, <1>4, <1>5, <1>6, <1>7, <1>8 DEF Next

\* The cache implements the duplicate filter: Set calls a packet a duplicate
\* only within the ttl, and new only when the ttl has passed, as many others as
\* the cache holds were used since, or the program restarted since.
THEOREM CacheFilters == Spec => ImplementsFilter
  BY FilterInit, FilterStep, CacheAlways, PTL DEF Spec, ImplementsFilter, Filter!Spec
=============================================================================
