-------------------------- MODULE DigipeaterProofs --------------------------
(***************************************************************************)
(* Proofs about Digipeater, for every set of stations, every traffic, any  *)
(* dedupe window and any number of packets sent.                           *)
(*                                                                         *)
(* That a station signs once rests on its dedupe entry for a frame it has  *)
(* signed: the entry is no older than the time the channel was last        *)
(* silent, so within the window it is still there.  That hops are spent    *)
(* rests on the sum of a path, which rewritePath leaves as it is.          *)
(***************************************************************************)
EXTENDS Digipeater, FiniteFolds, SequenceTheorems

-----------------------------------------------------------------------------
(* Paths. *)

\* What a sequence is after e was put in at i.
Inserted(new, seq, i, e) ==
    /\ new \in Seq(Hops)
    /\ Len(new) = Len(seq) + 1
    /\ \A j \in 1..(Len(seq) + 1) :
         new[j] = IF j < i THEN seq[j] ELSE IF j = i THEN e ELSE seq[j - 1]

\* InsertAt puts one element in and moves those behind it.
LEMMA InsertAtProperties ==
    \A seq \in Seq(Hops), e \in Hops : \A i \in 1..(Len(seq) + 1) :
        Inserted(InsertAt(seq, i, e), seq, i, e)
<1> SUFFICES ASSUME NEW seq \in Seq(Hops), NEW e \in Hops, NEW i \in 1..(Len(seq) + 1)
             PROVE  Inserted(InsertAt(seq, i, e), seq, i, e)
  OBVIOUS
<1> DEFINE front == SubSeq(seq, 1, i - 1)
           back  == SubSeq(seq, i, Len(seq))
<1>0. Len(seq) \in Nat /\ \A j \in 1..Len(seq) : seq[j] \in Hops
  BY LenProperties, ElementOfSeq
<1>1. /\ front \in Seq(Hops)
      /\ Len(front) = i - 1
      /\ \A j \in 1..(i - 1) : front[j] = seq[j]
  <2>1. \A j \in 1..(i - 1) : seq[j] \in Hops
    BY <1>0
  <2>2. i - 1 \in Int
    BY <1>0
  <2> QED BY <1>0, <2>1, <2>2, SubSeqProperties
<1>2. /\ back \in Seq(Hops)
      /\ Len(back) = Len(seq) - i + 1
      /\ \A j \in 1..(Len(seq) - i + 1) : back[j] = seq[i + j - 1]
  <2>1. \A j \in i..Len(seq) : seq[j] \in Hops
    BY <1>0
  <2>2. i \in Int /\ Len(seq) \in Int
    BY <1>0
  <2> QED BY <1>0, <2>1, <2>2, SubSeqProperties
<1> HIDE DEF front, back
<1>3. <<e>> \in Seq(Hops) /\ Len(<<e>>) = 1 /\ <<e>>[1] = e
  OBVIOUS
<1> DEFINE head == front \o <<e>>
<1>4. /\ head \in Seq(Hops)
      /\ Len(head) = i
      /\ \A j \in 1..i : head[j] = IF j < i THEN seq[j] ELSE e
  <2>1. /\ head \in Seq(Hops)
        /\ Len(head) = Len(front) + 1
        /\ \A j \in 1..(Len(front) + 1) :
             head[j] = IF j <= Len(front) THEN front[j] ELSE <<e>>[j - Len(front)]
    BY <1>1, <1>3, ConcatProperties
  <2> HIDE DEF head
  <2> QED BY <1>0, <1>1, <1>3, <2>1
<1> HIDE DEF head
<1>5. /\ head \o back \in Seq(Hops)
      /\ Len(head \o back) = Len(head) + Len(back)
      /\ \A j \in 1..(Len(head) + Len(back)) :
           (head \o back)[j] = IF j <= Len(head) THEN head[j] ELSE back[j - Len(head)]
  BY <1>2, <1>4, ConcatProperties
<1>6. InsertAt(seq, i, e) = head \o back
  BY DEF InsertAt, head, front, back
<1> QED BY <1>0, <1>2, <1>4, <1>5, <1>6 DEF Inserted

\* The next hop is the first unused one.
LEMMA NextHopIsUnused ==
    ASSUME NEW path \in Seq(Hops), FirstUnused(path) # {}
    PROVE  /\ NextHop(path) \in 1..Len(path)
           /\ ~path[NextHop(path)].used
           /\ \A j \in 1..(NextHop(path) - 1) : path[j].used
<1>1. NextHop(path) \in FirstUnused(path)
  BY Zenon DEF NextHop
<1> QED BY <1>1 DEF FirstUnused

\* What rewritePath does to a path: up to the hop it uses nothing changes, there
\* the station signs, what was unused behind it stays so, and a hop that asks for
\* more than one station stays behind the signature with one less.
Rewritten(new, s, path, i) ==
    /\ new \in Seq(Hops)
    /\ Len(new) \in {Len(path), Len(path) + 1}
    /\ new[i] = Mine(s)
    /\ \A j \in 1..(i - 1) : new[j] = path[j]
    /\ (\A j \in i..Len(path) : ~path[j].used)
         => \A j \in (i + 1)..Len(new) : ~new[j].used
    /\ IF path[i].kind \in {"wide", "ssn"} /\ path[i].left > 1
       THEN /\ Len(new) = Len(path) + 1
            /\ new[i + 1] = Decremented(path[i])
            /\ \A j \in (i + 1)..Len(path) : new[j + 1] = path[j]
       ELSE /\ Len(new) = Len(path)
            /\ \A j \in (i + 1)..Len(path) : new[j] = path[j]

LEMMA RewritePathProperties ==
    ASSUME NEW s \in Stations, NEW path \in Seq(Hops), NEW i \in 1..Len(path),
           ~path[i].used
    PROVE  Rewritten(RewritePath(s, path, i), s, path, i)
<1>0. Len(path) \in Nat /\ \A j \in 1..Len(path) : path[j] \in Hops
  BY LenProperties, ElementOfSeq
<1>1. Mine(s) \in Hops
  BY DEF Mine, Hop, Hops
<1>2. CASE path[i].kind \in {"wide", "ssn"} /\ path[i].left > 1
  <2> DEFINE spent == [path EXCEPT ![i] = Decremented(@)]
  <2>1. /\ Decremented(path[i]) \in Hops
        /\ ~Decremented(path[i]).used
        /\ Decremented(path[i]).left = path[i].left - 1
    <3> DEFINE hop == path[i]
    <3>1. /\ hop \in [kind : {"call", "alias", "wide", "ssn", "other"}, left : Nat,
                       who : Stations \cup {Nobody}, used : BOOLEAN]
          /\ hop.kind \in {"wide", "ssn"}
          /\ hop.left > 1
          /\ ~hop.used
      BY <1>0, <1>2 DEF Hops
    <3> HIDE DEF hop
    <3>2. hop.left - 1 \in Nat
      BY <3>1
    <3>3. Decremented(hop) \in [kind : {"call", "alias", "wide", "ssn", "other"},
                                left : Nat, who : Stations \cup {Nobody}, used : BOOLEAN]
      BY <3>1, <3>2 DEF Decremented
    <3>4. /\ ~Decremented(hop).used
          /\ Decremented(hop).kind = hop.kind
          /\ Decremented(hop).left = hop.left - 1
      BY <3>1 DEF Decremented
    <3>5. Decremented(hop) \in Hops
      BY <3>1, <3>3, <3>4 DEF Hops
    <3> QED BY <3>4, <3>5 DEF hop
  <2>2. /\ spent \in Seq(Hops)
        /\ Len(spent) = Len(path)
        /\ \A j \in 1..Len(path) : spent[j] = IF j = i THEN Decremented(path[i]) ELSE path[j]
    BY <2>1, ExceptSeq
  <2>3. RewritePath(s, path, i) = InsertAt(spent, i, Mine(s))
    BY <1>2 DEF RewritePath, InsertMine
  <2> HIDE DEF spent
  <2>4. /\ InsertAt(spent, i, Mine(s)) \in Seq(Hops)
        /\ Len(InsertAt(spent, i, Mine(s))) = Len(path) + 1
        /\ \A j \in 1..(Len(path) + 1) :
             InsertAt(spent, i, Mine(s))[j] = IF j < i THEN spent[j]
                                         ELSE IF j = i THEN Mine(s) ELSE spent[j - 1]
    <3>1. i \in 1..(Len(spent) + 1)
      BY <1>0, <2>2
    <3>2. spent \in Seq(Hops) /\ Mine(s) \in Hops
      BY <1>1, <2>2
    <3>3. Inserted(InsertAt(spent, i, Mine(s)), spent, i, Mine(s))
      BY <3>1, <3>2, InsertAtProperties
    <3> QED BY <2>2, <3>3, Zenon DEF Inserted
  <2> DEFINE new == InsertAt(spent, i, Mine(s))
  <2> HIDE DEF new
  <2>5. ASSUME \A j \in i..Len(path) : ~path[j].used, NEW j \in (i + 1)..Len(new)
        PROVE  ~new[j].used
    <3>1. j - 1 \in i..Len(path) /\ new[j] = spent[j - 1]
      BY <1>0, <2>4, <2>5 DEF new
    <3> QED BY <1>0, <2>1, <2>2, <2>5, <3>1
  <2>6. /\ new[i] = Mine(s)
        /\ new[i + 1] = Decremented(path[i])
        /\ \A j \in 1..(i - 1) : new[j] = path[j]
        /\ \A j \in (i + 1)..Len(path) : new[j + 1] = path[j]
    <3>1. /\ i \in 1..(Len(path) + 1) /\ i + 1 \in 1..(Len(path) + 1)
          /\ new[i] = Mine(s)
          /\ new[i + 1] = spent[i]
      BY <1>0, <2>4 DEF new
    <3>2. ASSUME NEW j \in 1..(i - 1) PROVE new[j] = path[j]
      <4>1. j \in 1..Len(path) /\ j \in 1..(Len(path) + 1) /\ j < i
        BY <1>0
      <4> QED BY <2>2, <2>4, <4>1 DEF new
    <3>3. ASSUME NEW j \in (i + 1)..Len(path) PROVE new[j + 1] = path[j]
      <4>1. /\ j \in 1..Len(path) /\ j + 1 \in 1..(Len(path) + 1)
            /\ j # i /\ j + 1 # i /\ ~(j + 1 < i) /\ (j + 1) - 1 = j
        BY <1>0
      <4> QED BY <2>2, <2>4, <4>1 DEF new
    <3> QED BY <2>2, <3>1, <3>2, <3>3
  <2>7. new \in Seq(Hops) /\ Len(new) = Len(path) + 1
    BY <2>4 DEF new
  <2>8. RewritePath(s, path, i) = new
    BY <2>3 DEF new
  <2> QED BY <1>2, <2>1, <2>5, <2>6, <2>7, <2>8 DEF Rewritten
<1>3. CASE ~(path[i].kind \in {"wide", "ssn"} /\ path[i].left > 1)
  <2>1. RewritePath(s, path, i) = [path EXCEPT ![i] = Mine(s)]
    BY <1>3 DEF RewritePath
  <2>2. /\ [path EXCEPT ![i] = Mine(s)] \in Seq(Hops)
        /\ Len([path EXCEPT ![i] = Mine(s)]) = Len(path)
        /\ \A j \in 1..Len(path) :
             [path EXCEPT ![i] = Mine(s)][j] = IF j = i THEN Mine(s) ELSE path[j]
    BY <1>1, ExceptSeq
  <2> DEFINE new == [path EXCEPT ![i] = Mine(s)]
  <2>3. /\ new \in Seq(Hops)
        /\ Len(new) = Len(path)
        /\ new[i] = Mine(s)
        /\ \A j \in 1..Len(path) : j # i => new[j] = path[j]
    BY <2>2
  <2>4. RewritePath(s, path, i) = new
    BY <2>1
  <2> HIDE DEF new
  <2>5. /\ \A j \in 1..(i - 1) : new[j] = path[j]
        /\ \A j \in (i + 1)..Len(path) : new[j] = path[j]
    <3>1. \A j \in 1..(i - 1) : j \in 1..Len(path) /\ j # i
      BY <1>0
    <3>2. \A j \in (i + 1)..Len(path) : j \in 1..Len(path) /\ j # i
      BY <1>0
    <3> QED BY <2>3, <3>1, <3>2
  <2>6. ASSUME \A j \in i..Len(path) : ~path[j].used, NEW j \in (i + 1)..Len(new)
        PROVE  ~new[j].used
    <3>1. j \in i..Len(path) /\ new[j] = path[j]
      BY <1>0, <2>3, <2>5
    <3> QED BY <2>6, <3>1
  <2> QED BY <1>3, <2>3, <2>4, <2>5, <2>6 DEF Rewritten
<1> QED BY <1>2, <1>3

\* What each hop adds to the two sums of a path.
Lefts(path) == [j \in 1..Len(path) |-> path[j].left]

Rooms(path) == [j \in 1..Len(path) |-> Room(path[j])]

LEMMA WeightsTyped ==
    ASSUME NEW path \in Seq(Hops)
    PROVE  /\ Lefts(path) \in [1..Len(path) -> Nat]
           /\ Rooms(path) \in [1..Len(path) -> Nat \ {0}]
           /\ Rooms(path) \in [1..Len(path) -> Nat]
<1>1. ASSUME NEW j \in 1..Len(path) PROVE path[j].left \in Nat
  BY ElementOfSeq DEF Hops
<1>2. ASSUME NEW j \in 1..Len(path)
      PROVE  Room(path[j]) \in Nat \ {0}
  BY <1>1 DEF Room
<1>3. Lefts(path) \in [1..Len(path) -> Nat]
  BY <1>1 DEF Lefts
<1>4. Rooms(path) \in [1..Len(path) -> Nat \ {0}]
  BY <1>2 DEF Rooms
<1> QED BY <1>3, <1>4

\* The budget of a path is the last of the partial sums of its hops.
LEMMA BudgetSum ==
    ASSUME NEW path \in Seq(Hops)
    PROVE  \E b : Sums(b, Len(path), Lefts(path)) /\ Budget(path) = b[Len(path)]
<1> DEFINE n == Len(path)
           X == DOMAIN path
           v == Lefts(path)
           Eq(f) == f = [t \in SUBSET X |->
                           IF t = {} THEN 0
                           ELSE f[t \ {Max(t)}] + path[Max(t)].left]
           iter == CHOOSE f : Eq(f)
<1>1. Budget(path) = iter[X]
  BY DEF Budget, FoldLeft, MapThenFoldSet
<1>2. n \in Nat /\ X = 1..n /\ v \in [1..n -> Nat]
  BY WeightsTyped, LenProperties
<1>3. \A f : Adds(f, n, v) <=> Eq(f)
  <2>1. ASSUME NEW t \in SUBSET X, t # {}
        PROVE  v[Max(t)] = path[Max(t)].left
    <3>1. Max(t) \in 1..n
      BY <1>2, <2>1, MaxIsThere
    <3> QED BY <3>1 DEF Lefts
  <2> HIDE DEF v, n
  <2>2. ASSUME NEW f
        PROVE  [t \in SUBSET X |-> IF t = {} THEN 0 ELSE f[t \ {Max(t)}] + v[Max(t)]]
                = [t \in SUBSET X |-> IF t = {} THEN 0
                                     ELSE f[t \ {Max(t)}] + path[Max(t)].left]
    <3> HIDE DEF X
    <3> QED BY <2>1
  <2> QED BY <1>2, <2>2 DEF Adds
<1> HIDE DEF v, n
<1>4. \E f : Adds(f, n, v)
  BY <1>2, AddsExists
<1>5. Eq(iter)
  <2>1. \E f : Eq(f)
    BY <1>3, <1>4
  <2> HIDE DEF Eq
  <2> QED BY <2>1
<1>6. Adds(iter, n, v)
  BY <1>3, <1>5
<1> HIDE DEF iter, X
<1>7. \E b : Sums(b, n, v) /\ iter[1..n] = b[n]
  BY <1>2, <1>6, AddsSums
<1> QED BY <1>1, <1>2, <1>7 DEF v, n

\* And so is its extent.
LEMMA ExtentSum ==
    ASSUME NEW path \in Seq(Hops)
    PROVE  \E b : Sums(b, Len(path), Rooms(path)) /\ Extent(path) = b[Len(path)]
<1> DEFINE n == Len(path)
           X == DOMAIN path
           v == Rooms(path)
           Eq(f) == f = [t \in SUBSET X |->
                           IF t = {} THEN 0
                           ELSE f[t \ {Max(t)}] + Room(path[Max(t)])]
           iter == CHOOSE f : Eq(f)
<1>1. Extent(path) = iter[X]
  BY DEF Extent, FoldLeft, MapThenFoldSet
<1>2. n \in Nat /\ X = 1..n /\ v \in [1..n -> Nat]
  BY WeightsTyped, LenProperties
<1>3. \A f : Adds(f, n, v) <=> Eq(f)
  <2>1. ASSUME NEW t \in SUBSET X, t # {}
        PROVE  v[Max(t)] = Room(path[Max(t)])
    <3>1. Max(t) \in 1..n
      BY <1>2, <2>1, MaxIsThere
    <3> QED BY <3>1 DEF Rooms
  <2> HIDE DEF v, n
  <2>2. ASSUME NEW f
        PROVE  [t \in SUBSET X |-> IF t = {} THEN 0 ELSE f[t \ {Max(t)}] + v[Max(t)]]
                = [t \in SUBSET X |-> IF t = {} THEN 0
                                     ELSE f[t \ {Max(t)}] + Room(path[Max(t)])]
    <3> HIDE DEF X
    <3> QED BY <2>1
  <2> QED BY <1>2, <2>2 DEF Adds
<1> HIDE DEF v, n
<1>4. \E f : Adds(f, n, v)
  BY <1>2, AddsExists
<1>5. Eq(iter)
  <2>1. \E f : Eq(f)
    BY <1>3, <1>4
  <2> HIDE DEF Eq
  <2> QED BY <2>1
<1>6. Adds(iter, n, v)
  BY <1>3, <1>5
<1> HIDE DEF iter, X
<1>7. \E b : Sums(b, n, v) /\ iter[1..n] = b[n]
  BY <1>2, <1>6, AddsSums
<1> QED BY <1>1, <1>2, <1>7 DEF v, n

\* No path is longer than its extent.
LEMMA ExtentBoundsLength ==
    ASSUME NEW path \in Seq(Hops)
    PROVE  Len(path) <= Extent(path)
<1>1. PICK b : Sums(b, Len(path), Rooms(path)) /\ Extent(path) = b[Len(path)]
  BY ExtentSum
<1>2. Len(path) <= b[Len(path)]
  BY <1>1, WeightsTyped, LenProperties, SumsAtLeast
<1> QED BY <1>1, <1>2

\* Who repeats a frame asks for no station more or less than the frame did, and
\* leaves it as much room: its signature takes the place of one hop, or of one
\* station that a hop asks for.
LEMMA RewriteKeeps ==
    ASSUME NEW s \in Stations, NEW path \in Seq(Hops), NEW i \in 1..Len(path),
           ~path[i].used, AsksFor(s, path[i])
    PROVE  /\ Budget(RewritePath(s, path, i)) = Budget(path)
           /\ Extent(RewritePath(s, path, i)) = Extent(path)
<1> DEFINE new == RewritePath(s, path, i)
           n == Len(path)
           m == Len(new)
           wide == path[i].kind \in {"wide", "ssn"} /\ path[i].left > 1
<1>1. Rewritten(new, s, path, i)
  BY RewritePathProperties
<1>2. n \in Nat /\ path[i] \in Hops /\ path[i].left \in Nat
  BY LenProperties, ElementOfSeq DEF Hops
<1>3. ~wide => path[i].left = 1
  BY <1>2 DEF AsksFor, MatchesWide, Hops
<1>4. wide => Decremented(path[i]).left = path[i].left - 1
  <2> DEFINE hop == path[i]
  <2>1. hop \in [kind : {"call", "alias", "wide", "ssn", "other"}, left : Nat,
                 who : Stations \cup {Nobody}, used : BOOLEAN]
    BY <1>2 DEF Hops
  <2> HIDE DEF hop
  <2>2. Decremented(hop).left = hop.left - 1
    BY <2>1 DEF Decremented
  <2> QED BY <2>2 DEF hop
<1>5. Mine(s).left = 1
  BY DEF Mine, Hop
<1> HIDE DEF new
<1>6. new \in Seq(Hops)
  BY <1>1 DEF Rewritten
<1>7. PICK b : Sums(b, n, Lefts(path)) /\ Budget(path) = b[n]
  BY BudgetSum
<1>8. PICK c : Sums(c, m, Lefts(new)) /\ Budget(new) = c[m]
  BY <1>6, BudgetSum
<1>9. PICK d : Sums(d, n, Rooms(path)) /\ Extent(path) = d[n]
  BY ExtentSum
<1>10. PICK e : Sums(e, m, Rooms(new)) /\ Extent(new) = e[m]
  BY <1>6, ExtentSum
<1>11. /\ Lefts(path) \in [1..n -> Nat] /\ Lefts(new) \in [1..m -> Nat]
       /\ Rooms(path) \in [1..n -> Nat] /\ Rooms(new) \in [1..m -> Nat]
  BY <1>6, WeightsTyped
<1>12. CASE wide
  <2>1. /\ m = n + 1
        /\ new[i] = Mine(s)
        /\ new[i + 1] = Decremented(path[i])
        /\ \A j \in 1..(i - 1) : new[j] = path[j]
        /\ \A j \in (i + 1)..n : new[j + 1] = path[j]
    BY <1>1, <1>12 DEF Rewritten
  <2>2. /\ i \in 1..m /\ i + 1 \in 1..m
        /\ \A j \in 1..(i - 1) : j \in 1..n /\ j \in 1..m
        /\ \A j \in (i + 1)..n : j \in 1..n /\ j + 1 \in 1..m
    BY <1>2, <2>1
  <2> HIDE DEF n, m
  <2>3. /\ \A j \in 1..(i - 1) : Lefts(new)[j] = Lefts(path)[j]
        /\ \A j \in 1..(i - 1) : Rooms(new)[j] = Rooms(path)[j]
    BY <2>1, <2>2 DEF Lefts, Rooms, Room, n, m
  <2>4. /\ \A j \in (i + 1)..n : Lefts(new)[j + 1] = Lefts(path)[j]
        /\ \A j \in (i + 1)..n : Rooms(new)[j + 1] = Rooms(path)[j]
    BY <2>1, <2>2 DEF Lefts, Rooms, Room, n, m
  <2>5. /\ Lefts(new)[i] = 1 /\ Lefts(new)[i + 1] = path[i].left - 1
        /\ Lefts(path)[i] = path[i].left
    BY <1>4, <1>5, <1>12, <2>1, <2>2 DEF Lefts, n, m
  <2>6. /\ Rooms(new)[i] = 1
        /\ Rooms(new)[i + 1] = IF path[i].left - 1 > 1 THEN path[i].left - 1 ELSE 1
        /\ Rooms(path)[i] = path[i].left
    BY <1>4, <1>5, <1>12, <2>1, <2>2 DEF Rooms, Room, n, m
  <2>7. /\ Lefts(new)[i] + Lefts(new)[i + 1] = Lefts(path)[i]
        /\ Rooms(new)[i] + Rooms(new)[i + 1] = Rooms(path)[i]
    BY <1>2, <1>12, <2>5, <2>6
  <2>8. n \in Nat /\ i \in 1..n
    BY <1>2 DEF n
  <2>9. Split(Lefts(new), Lefts(path), n, i) /\ Split(Rooms(new), Rooms(path), n, i)
    BY <2>3, <2>4, <2>7 DEF Split
  <2> HIDE DEF wide
  <2>10. c[n + 1] = b[n]
    <3>1. Sums(c, n + 1, Lefts(new)) /\ Lefts(new) \in [1..(n + 1) -> Nat]
      BY <1>8, <1>11, <2>1, Zenon
    <3>2. Sums(b, n, Lefts(path)) /\ Lefts(path) \in [1..n -> Nat]
      BY <1>7, <1>11
    <3> QED BY <2>8, <2>9, <3>1, <3>2, SumsSplit
  <2>11. e[n + 1] = d[n]
    <3>1. Sums(e, n + 1, Rooms(new)) /\ Rooms(new) \in [1..(n + 1) -> Nat]
      BY <1>10, <1>11, <2>1, Zenon
    <3>2. Sums(d, n, Rooms(path)) /\ Rooms(path) \in [1..n -> Nat]
      BY <1>9, <1>11
    <3> QED BY <2>8, <2>9, <3>1, <3>2, SumsSplit
  <2> QED BY <1>7, <1>8, <1>9, <1>10, <2>1, <2>10, <2>11 DEF new
<1>13. CASE ~wide
  <2>1. /\ m = n
        /\ new[i] = Mine(s)
        /\ \A j \in 1..(i - 1) : new[j] = path[j]
        /\ \A j \in (i + 1)..n : new[j] = path[j]
    BY <1>1, <1>13 DEF Rewritten
  <2>2. ASSUME NEW j \in 1..n PROVE new[j].left = path[j].left
    BY <1>2, <1>3, <1>5, <1>13, <2>1
  <2>3. Same(Lefts(new), Lefts(path), n) /\ Same(Rooms(new), Rooms(path), n)
    BY <2>1, <2>2 DEF Lefts, Rooms, Room, Same
  <2> HIDE DEF wide, n, m
  <2>4. c[n] = b[n]
    <3>1. Sums(c, n, Lefts(new)) /\ Sums(b, n, Lefts(path)) /\ n \in Nat
      BY <1>2, <1>7, <1>8, <2>1, Zenon DEF n
    <3> QED BY <2>3, <3>1, SumsEqual
  <2>5. e[n] = d[n]
    <3>1. Sums(e, n, Rooms(new)) /\ Sums(d, n, Rooms(path)) /\ n \in Nat
      BY <1>2, <1>9, <1>10, <2>1, Zenon DEF n
    <3> QED BY <2>3, <3>1, SumsEqual
  <2> QED BY <1>7, <1>8, <1>9, <1>10, <2>1, <2>4, <2>5 DEF new
<1> QED BY <1>12, <1>13

-----------------------------------------------------------------------------
(* Types. *)

\* A frame that is repeated is a frame.
LEMMA RepeatedIsFrame ==
    ASSUME NEW s \in Stations, NEW f \in Frames, FirstUnused(f.path) # {}
    PROVE  /\ [f EXCEPT !.path = RewritePath(s, @, NextHop(@))] \in Frames
           /\ f.path \in Seq(Hops)
           /\ NextHop(f.path) \in 1..Len(f.path)
           /\ ~f.path[NextHop(f.path)].used
           /\ \A j \in 1..(NextHop(f.path) - 1) : f.path[j].used
<1>1. f.path \in Seq(Hops)
  BY DEF Frames, FramesOf
<1>2. /\ NextHop(f.path) \in 1..Len(f.path)
      /\ ~f.path[NextHop(f.path)].used
      /\ \A j \in 1..(NextHop(f.path) - 1) : f.path[j].used
  BY <1>1, NextHopIsUnused
<1> DEFINE new == RewritePath(s, f.path, NextHop(f.path))
<1>3. new \in Seq(Hops)
  BY <1>1, <1>2, RewritePathProperties DEF Rewritten
<1> HIDE DEF new
<1>4. [f EXCEPT !.path = new] \in Frames
  BY <1>3 DEF Frames, FramesOf
<1> QED BY <1>1, <1>2, <1>4 DEF new

\* Whatever is heard stays among the frames.
LEMMA HeardByTyped ==
    ASSUME TypeOK, NEW f \in Frames, NEW hearers, HeardBy(hearers, f)
    PROVE  inbox' \in [Stations -> [Parts -> SUBSET Frames]]
<1> SUFFICES ASSUME NEW s \in Stations
             PROVE  Published(s, f) \in [Parts -> SUBSET Frames]
  BY DEF TypeOK, HeardBy
<1> QED BY DEF TypeOK, Published

LEMMA InitTyped == Init => TypeOK
BY DigipeaterAssumption DEF Init, TypeOK

LEMMA OriginateTyped ==
    ASSUME TypeOK, NEW f \in Originals, Originate(f)
    PROVE  TypeOK'
<1>1. f \in Frames
  BY DigipeaterAssumption
<1>2. inbox' \in [Stations -> [Parts -> SUBSET Frames]]
  BY <1>1, HeardByTyped DEF Originate
<1>3. sends' \in 0..MaxSends[config]
  BY DigipeaterAssumption DEF TypeOK, Originate
<1> QED BY <1>2, <1>3 DEF TypeOK, Originate

LEMMA ReceiveTyped ==
    ASSUME TypeOK, NEW s \in Stations, NEW p \in Parts, NEW f, Receive(s, p, f)
    PROVE  inbox' \in [Stations -> [Parts -> SUBSET Frames]] /\ f \in Frames
BY DEF TypeOK, Receive

LEMMA HandleMessageTyped ==
    ASSUME TypeOK, NEW s \in Stations, NEW f, HandleMessage(s, f)
    PROVE  TypeOK'
<1>1. inbox' \in [Stations -> [Parts -> SUBSET Frames]] /\ f \in Frames
  BY ReceiveTyped DEF HandleMessage, Parts
<1>2. CASE Repeats(s, f)
  <2> DEFINE new == [f EXCEPT !.path = RewritePath(s, @, NextHop(@))]
  <2>1. new \in Frames
    BY <1>1, <1>2, RepeatedIsFrame DEF Repeats
  <2>2. outbox' = [outbox EXCEPT ![s] = @ \cup {new}]
    BY <1>2 DEF HandleMessage
  <2> HIDE DEF new
  <2>3. outbox' \in [Stations -> SUBSET Frames]
    BY <2>1, <2>2 DEF TypeOK
  <2>4. entries' \in [Stations -> [Keys -> 0..(Window + 1)]]
    <3>1. entries' = [entries EXCEPT ![s][f.key] = 0]
      BY <1>2 DEF HandleMessage
    <3>2. f.key \in Keys /\ 0 \in 0..(Window + 1)
      BY <1>1, DigipeaterAssumption DEF Frames, FramesOf
    <3> QED BY <3>1, <3>2 DEF TypeOK
  <2> QED BY <1>1, <2>3, <2>4 DEF TypeOK, HandleMessage
<1>3. CASE ~Repeats(s, f)
  BY <1>1, <1>3 DEF TypeOK, HandleMessage
<1> QED BY <1>2, <1>3

LEMMA SendRFTyped ==
    ASSUME TypeOK, NEW s \in Stations, NEW f, SendRF(s, f)
    PROVE  TypeOK'
<1>1. f \in Frames
  BY DEF TypeOK, SendRF
<1>2. inbox' \in [Stations -> [Parts -> SUBSET Frames]]
  BY <1>1, HeardByTyped DEF SendRF
<1> QED BY <1>2 DEF TypeOK, SendRF

LEMMA IgateReceivesTyped ==
    ASSUME TypeOK, NEW s \in Stations, NEW f, IgateReceives(s, f)
    PROVE  TypeOK'
<1>1. inbox' \in [Stations -> [Parts -> SUBSET Frames]]
  BY ReceiveTyped DEF IgateReceives, Parts
<1> QED BY <1>1 DEF TypeOK, IgateReceives

LEMMA TickTyped ==
    ASSUME TypeOK, Tick
    PROVE  TypeOK'
<1>1. entries' \in [Stations -> [Keys -> 0..(Window + 1)]]
  BY DigipeaterAssumption DEF TypeOK, Tick
<1>2. flight' \in 0..(Window + 1)
  BY DigipeaterAssumption DEF TypeOK, Tick
<1> QED BY <1>1, <1>2 DEF TypeOK, Tick

\* Every frame waiting or about to be sent is one of a packet sent, whatever the
\* stations do to its path, and no age leaves its range.
THEOREM TypeCorrect == Spec => []TypeOK
<1>1. TypeOK /\ [Next]_vars => TypeOK'
  <2> SUFFICES ASSUME TypeOK, [Next]_vars PROVE TypeOK'
    OBVIOUS
  <2>1. ASSUME NEW f \in Originals, Originate(f) PROVE TypeOK'
    BY <2>1, OriginateTyped
  <2>2. ASSUME NEW s \in Stations, NEW f, HandleMessage(s, f) PROVE TypeOK'
    BY <2>2, HandleMessageTyped
  <2>3. ASSUME NEW s \in Stations, NEW f, SendRF(s, f) PROVE TypeOK'
    BY <2>3, SendRFTyped
  <2>4. ASSUME NEW s \in Stations, NEW f, IgateReceives(s, f) PROVE TypeOK'
    BY <2>4, IgateReceivesTyped
  <2>5. CASE Tick
    BY <2>5, TickTyped
  <2>6. CASE UNCHANGED vars
    BY <2>6 DEF vars, TypeOK
  <2> QED BY <2>1, <2>2, <2>3, <2>4, <2>5, <2>6 DEF Next, Channel, Repeating
<1> QED BY <1>1, InitTyped, PTL DEF Spec

-----------------------------------------------------------------------------
(* What each step adds to the frames in flight. *)

LEMMA FramesInFlight ==
    /\ \A f : f \in InFlight <=>
            \E s \in Stations : f \in inbox[s]["digipeater"] \/ f \in outbox[s]
    /\ \A f : f \in InFlight' <=>
            \E s \in Stations : f \in inbox'[s]["digipeater"] \/ f \in outbox'[s]
<1>1. \A f : f \in InFlight <=>
            \E s \in Stations : f \in inbox[s]["digipeater"] \/ f \in outbox[s]
  BY DEF InFlight
<1>2. \A f : f \in InFlight' <=>
            \E s \in Stations : f \in inbox'[s]["digipeater"] \/ f \in outbox'[s]
  BY DEF InFlight
<1> QED BY <1>1, <1>2

LEMMA HeardByAdds ==
    ASSUME TypeOK, NEW f, NEW hearers, HeardBy(hearers, f)
    PROVE  \A s \in Stations :
              inbox'[s]["digipeater"] \subseteq inbox[s]["digipeater"] \cup {f}
<1> SUFFICES ASSUME NEW s \in Stations
             PROVE  inbox'[s]["digipeater"] \subseteq inbox[s]["digipeater"] \cup {f}
  OBVIOUS
<1>1. inbox'[s] = IF s \in hearers THEN Published(s, f) ELSE inbox[s]
  BY DEF HeardBy
<1>2. "digipeater" \in Parts
  BY DEF Parts
<1> QED BY <1>1, <1>2 DEF Published

LEMMA OriginateAdds ==
    ASSUME TypeOK, NEW f, Originate(f)
    PROVE  InFlight' \subseteq InFlight \cup {f}
<1>1. \A s \in Stations :
         /\ inbox'[s]["digipeater"] \subseteq inbox[s]["digipeater"] \cup {f}
         /\ outbox'[s] = outbox[s]
  BY HeardByAdds DEF Originate
<1> QED BY <1>1, FramesInFlight

LEMMA ReceiveAdds ==
    ASSUME TypeOK, NEW s \in Stations, NEW p \in Parts, NEW f, Receive(s, p, f)
    PROVE  \A t \in Stations : inbox'[t]["digipeater"] \subseteq inbox[t]["digipeater"]
<1> SUFFICES ASSUME NEW t \in Stations
             PROVE  inbox'[t]["digipeater"] \subseteq inbox[t]["digipeater"]
  OBVIOUS
<1>1. inbox'[t] = IF t = s THEN [inbox[s] EXCEPT ![p] = @ \ {f}] ELSE inbox[t]
  BY DEF TypeOK, Receive
<1>2. "digipeater" \in Parts /\ inbox[t] \in [Parts -> SUBSET Frames]
  BY DEF Parts, TypeOK
<1> QED BY <1>1, <1>2

LEMMA HandleMessageAdds ==
    ASSUME TypeOK, NEW s \in Stations, NEW f, HandleMessage(s, f)
    PROVE  /\ f \in InFlight
           /\ Repeats(s, f) =>
                InFlight' \subseteq
                    InFlight \cup {[f EXCEPT !.path = RewritePath(s, @, NextHop(@))]}
           /\ ~Repeats(s, f) => InFlight' \subseteq InFlight
<1>1. f \in InFlight
  BY FramesInFlight DEF HandleMessage, Receive
<1>2. \A t \in Stations : inbox'[t]["digipeater"] \subseteq inbox[t]["digipeater"]
  BY ReceiveAdds DEF HandleMessage, Parts
<1> DEFINE new == [f EXCEPT !.path = RewritePath(s, @, NextHop(@))]
<1>3. Repeats(s, f) => outbox' = [outbox EXCEPT ![s] = @ \cup {new}]
  BY DEF HandleMessage
<1>4. ~Repeats(s, f) => outbox' = outbox
  BY DEF HandleMessage
<1> HIDE DEF new
<1>5. Repeats(s, f) => \A t \in Stations : outbox'[t] \subseteq outbox[t] \cup {new}
  BY <1>3 DEF TypeOK
<1>6. Repeats(s, f) => InFlight' \subseteq InFlight \cup {new}
  BY <1>2, <1>5, FramesInFlight
<1>7. ~Repeats(s, f) => InFlight' \subseteq InFlight
  BY <1>2, <1>4, FramesInFlight
<1> QED BY <1>1, <1>6, <1>7 DEF new

LEMMA SendRFAdds ==
    ASSUME TypeOK, NEW s \in Stations, NEW f, SendRF(s, f)
    PROVE  InFlight' \subseteq InFlight
<1>1. f \in InFlight
  BY FramesInFlight DEF SendRF
<1>2. \A t \in Stations :
         /\ inbox'[t]["digipeater"] \subseteq inbox[t]["digipeater"] \cup {f}
         /\ outbox'[t] \subseteq outbox[t]
  BY HeardByAdds DEF SendRF, TypeOK
<1> QED BY <1>1, <1>2, FramesInFlight

LEMMA IgateReceivesAdds ==
    ASSUME TypeOK, NEW s \in Stations, NEW f, IgateReceives(s, f)
    PROVE  InFlight' \subseteq InFlight
<1>1. \A t \in Stations :
         /\ inbox'[t]["digipeater"] \subseteq inbox[t]["digipeater"]
         /\ outbox'[t] = outbox[t]
  BY ReceiveAdds DEF IgateReceives, Parts
<1> QED BY <1>1, FramesInFlight

-----------------------------------------------------------------------------
(* What a path may still ask for. *)

\* A path that was repeated has the budget and the room that its source gave it,
\* of which its length follows.
RoomKept ==
    \A f \in InFlight : \E o \in Originals :
        /\ f.key = o.key
        /\ f.src = o.src
        /\ Budget(f.path) = Budget(o.path)
        /\ Extent(f.path) = Extent(o.path)

LEMMA HandleMessageAsks ==
    ASSUME TypeOK, RoomKept, NEW s \in Stations, NEW f, HandleMessage(s, f)
    PROVE  RoomKept'
<1>1. CASE ~Repeats(s, f)
  BY <1>1, HandleMessageAdds DEF RoomKept
<1>2. CASE Repeats(s, f)
  <2> DEFINE i == NextHop(f.path)
             path == RewritePath(s, f.path, i)
             new == [f EXCEPT !.path = path]
  <2>1. f \in InFlight /\ InFlight' \subseteq InFlight \cup {new}
    BY <1>2, HandleMessageAdds
  <2>2. f \in Frames
    BY ReceiveTyped DEF HandleMessage, Parts
  <2>3. new.path = path /\ new.key = f.key /\ new.src = f.src
    BY <2>2 DEF Frames, FramesOf
  <2>4. Budget(path) = Budget(f.path) /\ Extent(path) = Extent(f.path)
    <3>1. AsksFor(s, f.path[i]) /\ FirstUnused(f.path) # {}
      BY <1>2 DEF Repeats
    <3>2. f.path \in Seq(Hops) /\ i \in 1..Len(f.path) /\ ~f.path[i].used
      BY <2>2, <3>1, RepeatedIsFrame
    <3> HIDE DEF i
    <3> QED BY <3>1, <3>2, RewriteKeeps
  <2> HIDE DEF new, path, i
  <2> QED BY <2>1, <2>3, <2>4 DEF RoomKept
<1> QED BY <1>1, <1>2

LEMMA RoomAlways == Spec => []RoomKept
<1>1. Init => RoomKept
  BY FramesInFlight DEF Init, Parts, RoomKept
<1>2. TypeOK /\ RoomKept /\ [Next]_vars => RoomKept'
  <2> SUFFICES ASSUME TypeOK, RoomKept, [Next]_vars PROVE RoomKept'
    OBVIOUS
  <2>1. ASSUME NEW f \in Originals, Originate(f) PROVE RoomKept'
    BY <2>1, OriginateAdds DEF RoomKept
  <2>2. ASSUME NEW s \in Stations, NEW f, HandleMessage(s, f) PROVE RoomKept'
    BY <2>2, HandleMessageAsks
  <2>3. ASSUME NEW s \in Stations, NEW f, SendRF(s, f) PROVE RoomKept'
    BY <2>3, SendRFAdds DEF RoomKept
  <2>4. ASSUME NEW s \in Stations, NEW f, IgateReceives(s, f) PROVE RoomKept'
    BY <2>4, IgateReceivesAdds DEF RoomKept
  <2>5. CASE Tick
    BY <2>5, FramesInFlight DEF Tick, RoomKept
  <2>6. CASE UNCHANGED vars
    BY <2>6, FramesInFlight DEF vars, RoomKept
  <2> QED BY <2>1, <2>2, <2>3, <2>4, <2>5, <2>6 DEF Next, Channel, Repeating
<1> QED BY <1>1, <1>2, TypeCorrect, PTL DEF Spec

\* Whatever repeats a frame, in whatever order, the stations that signed it and
\* those it still asks for are together as many as its source asked for, and the
\* path is never longer than the source left room for.
THEOREM HopsSpentAlways == Spec => []HopsAreSpent
<1>1. TypeOK /\ RoomKept => HopsAreSpent
  <2> SUFFICES ASSUME TypeOK, RoomKept, NEW f \in InFlight
               PROVE  \E o \in Originals : /\ f.key = o.key
                                           /\ f.src = o.src
                                           /\ Budget(f.path) = Budget(o.path)
                                           /\ Len(f.path) <= Extent(o.path)
    BY DEF HopsAreSpent
  <2>1. f.path \in Seq(Hops)
    BY FramesInFlight DEF TypeOK, Frames, FramesOf, Parts
  <2>2. Len(f.path) <= Extent(f.path)
    BY <2>1, ExtentBoundsLength
  <2> QED BY <2>2 DEF RoomKept
<1> QED BY <1>1, RoomAlways, TypeCorrect, PTL

-----------------------------------------------------------------------------
(* Signing once. *)

\* The sources write paths as a station may first hear them: what is used comes
\* first, and nobody has signed for a station of this program.
SourcesUnsigned ==
    \A o \in Originals :
        /\ UsedFirst(o.path)
        /\ \A s \in Stations : SignedAt(s, o.path) = {}

\* The dedupe entry of a frame that a station signed is no older than the time
\* since the channel last was silent.
SignaturesRemembered ==
    flight <= Window =>
        \A f \in InFlight : \A s \in Stations :
            SignedAt(s, f.path) # {} => entries[s][f.key] <= flight

SigningInv == TypeOK /\ UsedHopsComeFirst /\ SignsOnce /\ SignaturesRemembered

\* What a station makes of a path whose used hops come first: they still do, the
\* station has signed at the hop it used, and the signatures of others are where
\* they were.
LEMMA RewriteSigns ==
    ASSUME NEW s \in Stations, NEW path \in Seq(Hops), NEW i \in 1..Len(path),
           ~path[i].used, \A j \in 1..(i - 1) : path[j].used, UsedFirst(path)
    PROVE  LET new == RewritePath(s, path, i)
           IN  /\ UsedFirst(new)
               /\ \A t \in Stations : SignedAt(t, new) =
                    {j \in SignedAt(t, path) : j < i} \cup (IF t = s THEN {i} ELSE {})
<1> DEFINE new == RewritePath(s, path, i)
<1>0. Len(path) \in Nat
  BY LenProperties
<1>1. \A j \in i..Len(path) : ~path[j].used
  BY <1>0 DEF UsedFirst
<1>2. Rewritten(new, s, path, i)
  BY RewritePathProperties
<1> HIDE DEF new
<1>3. /\ new \in Seq(Hops)
      /\ Len(new) \in {Len(path), Len(path) + 1}
      /\ new[i] = Mine(s)
      /\ \A j \in 1..(i - 1) : new[j] = path[j]
      /\ \A j \in (i + 1)..Len(new) : ~new[j].used
  BY <1>1, <1>2, Zenon DEF Rewritten
<1>4. Mine(s).used /\ Mine(s).who = s
  BY DEF Mine, Hop
<1>5. UsedFirst(new)
  BY <1>0, <1>3, <1>4 DEF UsedFirst
<1>6. ASSUME NEW t \in Stations, NEW j
      PROVE  j \in SignedAt(t, new) <=>
                (j \in SignedAt(t, path) /\ j < i) \/ (t = s /\ j = i)
  BY <1>0, <1>3, <1>4 DEF SignedAt
<1>7. \A t \in Stations : SignedAt(t, new) =
         {j \in SignedAt(t, path) : j < i} \cup (IF t = s THEN {i} ELSE {})
  BY <1>6
<1> QED BY <1>5, <1>7 DEF new

\* Once the frames in flight and the entries are known, so is the invariant.
LEMMA NothingNewSigned ==
    ASSUME SigningInv, TypeOK', InFlight' \subseteq InFlight,
           entries' = entries, flight' = flight
    PROVE  SigningInv'
BY DEF SigningInv, UsedHopsComeFirst, SignsOnce, SignaturesRemembered

LEMMA OriginateSigning ==
    ASSUME SourcesUnsigned, SigningInv, NEW f \in Originals, Originate(f)
    PROVE  SigningInv'
<1>1. TypeOK'
  BY OriginateTyped DEF SigningInv
<1>2. InFlight' \subseteq InFlight \cup {f} /\ entries' = entries /\ flight' = flight
  BY OriginateAdds DEF SigningInv, Originate
<1>3. UsedFirst(f.path) /\ \A s \in Stations : SignedAt(s, f.path) = {}
  BY DEF SourcesUnsigned
<1>4. UsedHopsComeFirst'
  BY <1>2, <1>3 DEF SigningInv, UsedHopsComeFirst
<1>5. SignsOnce'
  BY <1>2, <1>3 DEF SigningInv, SignsOnce
<1>6. SignaturesRemembered'
  BY <1>2, <1>3 DEF SigningInv, SignaturesRemembered
<1> QED BY <1>1, <1>4, <1>5, <1>6 DEF SigningInv

LEMMA HandleMessageSigning ==
    ASSUME SigningInv, NEW s \in Stations, NEW f, HandleMessage(s, f)
    PROVE  SigningInv'
<1>1. TypeOK' /\ flight' = flight
  BY HandleMessageTyped DEF SigningInv, HandleMessage
<1>2. CASE ~Repeats(s, f)
  <2>1. InFlight' \subseteq InFlight /\ entries' = entries
    BY <1>2, HandleMessageAdds DEF SigningInv, HandleMessage
  <2> QED BY <1>1, <2>1, NothingNewSigned
<1>3. CASE Repeats(s, f)
  <2> DEFINE i == NextHop(f.path)
             path == RewritePath(s, f.path, i)
             new == [f EXCEPT !.path = path]
  <2>1. f \in InFlight /\ InFlight' \subseteq InFlight \cup {new}
    BY <1>3, HandleMessageAdds DEF SigningInv
  <2>2. f \in Frames
    BY ReceiveTyped DEF SigningInv, HandleMessage, Parts
  <2>3. /\ new.path = path
        /\ new.key = f.key
        /\ f.key \in Keys
    BY <2>2 DEF Frames, FramesOf
  <2>4. UsedFirst(f.path)
    BY <2>1 DEF SigningInv, UsedHopsComeFirst
  <2>5. /\ UsedFirst(path)
        /\ \A t \in Stations : SignedAt(t, path) =
              {j \in SignedAt(t, f.path) : j < i} \cup (IF t = s THEN {i} ELSE {})
    <3>1. FirstUnused(f.path) # {}
      BY <1>3 DEF Repeats
    <3>2. /\ f.path \in Seq(Hops)
          /\ i \in 1..Len(f.path)
          /\ ~f.path[i].used
          /\ \A j \in 1..(i - 1) : f.path[j].used
      BY <2>2, <3>1, RepeatedIsFrame
    <3> HIDE DEF i
    <3> QED BY <2>4, <3>2, RewriteSigns
  <2>6. /\ \A t \in Stations, k \in Keys :
              entries'[t][k] = IF t = s /\ k = f.key THEN 0 ELSE entries[t][k]
        /\ flight \in Nat
        /\ \A t \in Stations, k \in Keys : entries[t][k] \in Nat
    <3>1. entries' = [entries EXCEPT ![s][f.key] = 0]
      BY <1>3 DEF HandleMessage
    <3>2. entries \in [Stations -> [Keys -> Nat]] /\ flight \in Nat
      BY DigipeaterAssumption DEF SigningInv, TypeOK
    <3> QED BY <3>1, <3>2
  <2>7. flight <= Window => SignedAt(s, f.path) = {}
    <3>1. ~(entries[s][f.key] <= Window)
      <4>1. ~Duplicate(s, f.key)
        BY <1>3 DEF Repeats
      <4> QED BY <4>1 DEF Duplicate
    <3>2. SignedAt(s, f.path) # {} /\ flight <= Window => entries[s][f.key] <= flight
      BY <2>1 DEF SigningInv, SignaturesRemembered
    <3> QED BY <2>3, <2>6, <3>1, <3>2, DigipeaterAssumption
  <2> HIDE DEF new, path, i
  <2>8. UsedHopsComeFirst'
    BY <2>1, <2>3, <2>5 DEF SigningInv, UsedHopsComeFirst
  <2>9. SignsOnce'
    <3> SUFFICES ASSUME flight <= Window, NEW g \in InFlight', NEW t \in Stations,
                        NEW j \in SignedAt(t, g.path), NEW k \in SignedAt(t, g.path)
                 PROVE  j = k
      BY <1>1 DEF SignsOnce
    <3>1. CASE g \in InFlight
      BY <3>1 DEF SigningInv, SignsOnce
    <3>2. CASE g = new /\ t # s
      BY <2>1, <2>3, <2>5, <3>2 DEF SigningInv, SignsOnce
    <3>3. CASE g = new /\ t = s
      BY <2>3, <2>5, <2>7, <3>3
    <3> QED BY <2>1, <3>1, <3>2, <3>3
  <2>10. SignaturesRemembered'
    <3> SUFFICES ASSUME flight <= Window, NEW g \in InFlight', NEW t \in Stations,
                        SignedAt(t, g.path) # {}
                 PROVE  entries'[t][g.key] <= flight
      BY <1>1 DEF SignaturesRemembered
    <3>0. \A h \in InFlight : h.key \in Keys
      BY FramesInFlight DEF SigningInv, TypeOK, Frames, FramesOf, Parts
    <3>1. CASE g \in InFlight
      <4>1. entries[t][g.key] <= flight
        BY <3>1 DEF SigningInv, SignaturesRemembered
      <4> QED BY <2>6, <3>0, <3>1, <4>1
    <3>2. CASE g = new /\ t # s
      <4>1. SignedAt(t, f.path) # {}
        BY <2>3, <2>5, <3>2
      <4>2. entries[t][f.key] <= flight
        BY <2>1, <4>1 DEF SigningInv, SignaturesRemembered
      <4> QED BY <2>3, <2>6, <3>2, <4>2
    <3>3. CASE g = new /\ t = s
      BY <2>3, <2>6, <3>3
    <3> QED BY <2>1, <3>1, <3>2, <3>3
  <2> QED BY <1>1, <2>8, <2>9, <2>10 DEF SigningInv
<1> QED BY <1>2, <1>3

LEMMA TickSigning ==
    ASSUME SigningInv, Tick
    PROVE  SigningInv'
<1>1. TypeOK'
  BY TickTyped DEF SigningInv
<1>2. InFlight' = InFlight
  BY FramesInFlight DEF Tick
<1>3. flight \in Nat /\ entries \in [Stations -> [Keys -> Nat]]
  BY DigipeaterAssumption DEF SigningInv, TypeOK
<1>4. CASE Silent
  <2>1. InFlight' = {}
    BY <1>2, <1>4, FramesInFlight DEF Silent
  <2> QED BY <1>1, <2>1 DEF SigningInv, UsedHopsComeFirst, SignsOnce, SignaturesRemembered
<1>5. CASE ~Silent
  <2>1. flight' <= Window => flight <= Window /\ flight' = flight + 1
    BY <1>3, <1>5, DigipeaterAssumption DEF Tick
  <2>2. UsedHopsComeFirst' /\ SignsOnce'
    BY <1>2, <2>1 DEF SigningInv, UsedHopsComeFirst, SignsOnce
  <2>3. SignaturesRemembered'
    <3> SUFFICES ASSUME flight' <= Window, NEW g \in InFlight, NEW t \in Stations,
                        SignedAt(t, g.path) # {}
                 PROVE  entries'[t][g.key] <= flight'
      BY <1>2 DEF SignaturesRemembered
    <3>1. g.key \in Keys
      BY FramesInFlight DEF SigningInv, TypeOK, Frames, FramesOf, Parts
    <3>2. entries[t][g.key] <= flight
      BY <2>1 DEF SigningInv, SignaturesRemembered
    <3>3. entries'[t][g.key] = IF entries[t][g.key] <= Window
                               THEN entries[t][g.key] + 1 ELSE Window + 1
      BY <3>1 DEF Tick
    <3> QED BY <1>3, <2>1, <3>1, <3>2, <3>3, DigipeaterAssumption
  <2> QED BY <1>1, <2>2, <2>3 DEF SigningInv
<1> QED BY <1>4, <1>5

\* The invariant of signing: what is used comes first, a station signs a frame
\* once while its dedupe entry lasts, and it lasts as long as the channel was
\* not silent.
THEOREM SigningInvariant ==
    ASSUME SourcesUnsigned PROVE Spec => []SigningInv
<1>1. Init => SigningInv
  <2> SUFFICES ASSUME Init PROVE SigningInv
    OBVIOUS
  <2>1. InFlight = {}
    BY FramesInFlight DEF Init, Parts
  <2> QED BY <2>1, InitTyped
          DEF SigningInv, UsedHopsComeFirst, SignsOnce, SignaturesRemembered
<1>2. SigningInv /\ [Next]_vars => SigningInv'
  <2> SUFFICES ASSUME SigningInv, [Next]_vars PROVE SigningInv'
    OBVIOUS
  <2>1. ASSUME NEW f \in Originals, Originate(f) PROVE SigningInv'
    BY <2>1, OriginateSigning
  <2>2. ASSUME NEW s \in Stations, NEW f, HandleMessage(s, f) PROVE SigningInv'
    BY <2>2, HandleMessageSigning
  <2>3. ASSUME NEW s \in Stations, NEW f, SendRF(s, f) PROVE SigningInv'
    <3>1. TypeOK' /\ InFlight' \subseteq InFlight /\ entries' = entries /\ flight' = flight
      BY <2>3, SendRFTyped, SendRFAdds DEF SigningInv, SendRF
    <3> QED BY <3>1, NothingNewSigned
  <2>4. ASSUME NEW s \in Stations, NEW f, IgateReceives(s, f) PROVE SigningInv'
    <3>1. TypeOK' /\ InFlight' \subseteq InFlight /\ entries' = entries /\ flight' = flight
      BY <2>4, IgateReceivesTyped, IgateReceivesAdds DEF SigningInv, IgateReceives
    <3> QED BY <3>1, NothingNewSigned
  <2>5. CASE Tick
    BY <2>5, TickSigning
  <2>6. CASE UNCHANGED vars
    <3>1. TypeOK' /\ InFlight' \subseteq InFlight /\ entries' = entries /\ flight' = flight
      BY <2>6 DEF vars, SigningInv, TypeOK, InFlight
    <3> QED BY <3>1, NothingNewSigned
  <2> QED BY <2>1, <2>2, <2>3, <2>4, <2>5, <2>6 DEF Next, Channel, Repeating
<1> QED BY <1>1, <1>2, PTL DEF Spec

\* In every frame on its way the hops still asked for come after those used, so
\* the first unused hop is the one whose turn it is.
THEOREM UsedFirstAlways ==
    ASSUME SourcesUnsigned PROVE Spec => []UsedHopsComeFirst
<1>1. SigningInv => UsedHopsComeFirst
  BY DEF SigningInv
<1> QED BY <1>1, SigningInvariant, PTL

\* While a packet and its repeats have been in the air for no longer than the
\* dedupe window, no station signs it twice, whichever copies it hears.
THEOREM SignedOnce ==
    ASSUME SourcesUnsigned PROVE Spec => []SignsOnce
<1>1. SigningInv => SignsOnce
  BY DEF SigningInv
<1> QED BY <1>1, SigningInvariant, PTL

-----------------------------------------------------------------------------
(* Where frames come from. *)

FromOriginal(f) ==
    \E o \in Originals : f.key = o.key /\ f.src = o.src /\ f.barred = o.barred

\* Whatever waits for any part of a station is a packet of a source, but for
\* its path.
Genuine ==
    \A s \in Stations :
        /\ \A p \in Parts : \A f \in inbox[s][p] : FromOriginal(f)
        /\ \A f \in outbox[s] : FromOriginal(f)

LEMMA HeardByGenuine ==
    ASSUME TypeOK, Genuine, NEW f, FromOriginal(f), NEW hearers, HeardBy(hearers, f)
    PROVE  \A s \in Stations : \A p \in Parts : \A g \in inbox'[s][p] : FromOriginal(g)
<1> SUFFICES ASSUME NEW s \in Stations, NEW p \in Parts, NEW g \in inbox'[s][p]
             PROVE  FromOriginal(g)
  OBVIOUS
<1>1. inbox'[s] = IF s \in hearers THEN Published(s, f) ELSE inbox[s]
  BY DEF HeardBy
<1>2. g \in inbox[s][p] \/ g = f
  BY <1>1 DEF Published
<1> QED BY <1>2 DEF Genuine

LEMMA ReceiveGenuine ==
    ASSUME TypeOK, Genuine, NEW s \in Stations, NEW p \in Parts, NEW f, Receive(s, p, f)
    PROVE  /\ FromOriginal(f)
           /\ \A t \in Stations : \A r \in Parts : \A g \in inbox'[t][r] : FromOriginal(g)
<1>1. FromOriginal(f)
  BY DEF Genuine, Receive
<1>2. ASSUME NEW t \in Stations, NEW r \in Parts, NEW g \in inbox'[t][r]
      PROVE  g \in inbox[t][r]
  <2>1. inbox'[t] = IF t = s THEN [inbox[s] EXCEPT ![p] = @ \ {f}] ELSE inbox[t]
    BY DEF TypeOK, Receive
  <2> QED BY <1>2, <2>1 DEF TypeOK
<1> QED BY <1>1, <1>2 DEF Genuine

\* No station makes up a packet, nor changes one beyond its path.
THEOREM AlwaysGenuine == Spec => []Genuine
<1>1. Init => Genuine
  BY DEF Init, Genuine
<1>2. TypeOK /\ Genuine /\ [Next]_vars => Genuine'
  <2> SUFFICES ASSUME TypeOK, Genuine, [Next]_vars PROVE Genuine'
    OBVIOUS
  <2>1. ASSUME NEW f \in Originals, Originate(f) PROVE Genuine'
    <3>1. FromOriginal(f)
      BY DEF FromOriginal
    <3> QED BY <2>1, <3>1, HeardByGenuine DEF Genuine, Originate
  <2>2. ASSUME NEW s \in Stations, NEW f, HandleMessage(s, f) PROVE Genuine'
    <3> DEFINE new == [f EXCEPT !.path = RewritePath(s, @, NextHop(@))]
    <3>1. /\ FromOriginal(f)
          /\ \A t \in Stations : \A r \in Parts : \A g \in inbox'[t][r] : FromOriginal(g)
      BY <2>2, ReceiveGenuine DEF HandleMessage, Parts
    <3>2. f \in Frames
      BY <2>2, ReceiveTyped DEF HandleMessage, Parts
    <3>3. FromOriginal(new)
      BY <3>1, <3>2 DEF FromOriginal, Frames, FramesOf
    <3>4. outbox' = [outbox EXCEPT ![s] = @ \cup {new}] \/ outbox' = outbox
      BY <2>2 DEF HandleMessage
    <3> HIDE DEF new
    <3>5. \A t \in Stations : \A g \in outbox'[t] : FromOriginal(g)
      BY <3>3, <3>4 DEF Genuine, TypeOK
    <3> QED BY <3>1, <3>5 DEF Genuine
  <2>3. ASSUME NEW s \in Stations, NEW f, SendRF(s, f) PROVE Genuine'
    <3>1. FromOriginal(f)
      BY <2>3 DEF Genuine, SendRF
    <3>2. \A t \in Stations : outbox'[t] \subseteq outbox[t]
      BY <2>3 DEF SendRF, TypeOK
    <3>3. \A t \in Stations : \A p \in Parts : \A g \in inbox'[t][p] : FromOriginal(g)
      BY <2>3, <3>1, HeardByGenuine DEF SendRF
    <3> QED BY <3>2, <3>3 DEF Genuine
  <2>4. ASSUME NEW s \in Stations, NEW f, IgateReceives(s, f) PROVE Genuine'
    BY <2>4, ReceiveGenuine DEF Genuine, IgateReceives, Parts
  <2>5. CASE Tick
    BY <2>5 DEF Tick, Genuine
  <2>6. CASE UNCHANGED vars
    BY <2>6 DEF vars, Genuine
  <2> QED BY <2>1, <2>2, <2>3, <2>4, <2>5, <2>6 DEF Next, Channel, Repeating
<1> QED BY <1>1, <1>2, TypeCorrect, PTL DEF Spec

=============================================================================
