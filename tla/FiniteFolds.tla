---------------------------- MODULE FiniteFolds -----------------------------
(***************************************************************************)
(* Induction on a finite set, and what it says of a fold over one, in a    *)
(* form whose parameters are values: a predicate is the set of those it    *)
(* holds of, the step of a fold is a function.  The cache deletes expired  *)
(* nodes and loads its file by such folds.                                 *)
(***************************************************************************)
EXTENDS Integers, FiniteSetsExt, FiniteSetTheorems, WellFoundedInduction, TLAPS

\* A set of sets that holds S whenever it holds all that is smaller holds S.
LEMMA SubsetInduction ==
    ASSUME NEW S, IsFiniteSet(S), NEW B,
           \A t \in SUBSET S : (\A u \in SUBSET t : u # t => u \in B) => t \in B
    PROVE  \A t \in SUBSET S : t \in B
  <1> DEFINE C == {t \in SUBSET S : t \notin B}
  <1>1. SUFFICES ASSUME C # {} PROVE FALSE
    OBVIOUS
  <1>2. C \subseteq FiniteSubsetsOf(S)
    BY FS_Subset DEF FiniteSubsetsOf
  <1>3. PICK t \in C : \A u \in C : <<u, t>> \notin StrictSubsetOrdering(S)
    <2>1. IsWellFoundedOn(StrictSubsetOrdering(S), FiniteSubsetsOf(S))
      BY FS_StrictSubsetOrderingWellFounded
    <2> HIDE DEF C
    <2>2. \E t \in C : \A u \in C : ~(<<u, t>> \in StrictSubsetOrdering(S))
      BY <1>1, <1>2, <2>1, WFMin
    <2> QED
      BY <2>2
  <1>4. \A u \in SUBSET t : u # t => u \in B
    BY <1>3 DEF StrictSubsetOrdering
  <1> QED
    BY <1>3, <1>4

\* h is the fold of step over the subsets of S, which takes the elements in the
\* order that pick says, the last one first.
IsFold(h, S, base, step, pick) ==
    h = [s \in SUBSET S |->
            IF s = {} THEN base ELSE step[<<pick[s], h[s \ {pick[s]}]>>]]

Picks(pick, S) == \A s \in SUBSET S : s # {} => pick[s] \in s

LEMMA FoldUnique ==
    ASSUME NEW S, IsFiniteSet(S), NEW A, NEW B, S \subseteq A, S \subseteq B,
           NEW base, NEW step, NEW pick, Picks(pick, S),
           NEW g, IsFold(g, A, base, step, pick),
           NEW h, IsFold(h, B, base, step, pick)
    PROVE  g[S] = h[S]
  <1> DEFINE E == {t \in SUBSET S : g[t] = h[t]}
  <1>1. ASSUME NEW t \in SUBSET S, \A u \in SUBSET t : u # t => u \in E
        PROVE  t \in E
    <2>1. CASE t = {}
      BY <2>1 DEF IsFold
    <2>2. CASE t # {}
      <3>1. pick[t] \in t
        BY <2>2 DEF Picks
      <3>2. g[t \ {pick[t]}] = h[t \ {pick[t]}]
        BY <1>1, <3>1
      <3>3. g[t] = step[<<pick[t], g[t \ {pick[t]}]>>]
        BY <2>2, <3>1 DEF IsFold
      <3>4. h[t] = step[<<pick[t], h[t \ {pick[t]}]>>]
        BY <2>2, <3>1 DEF IsFold
      <3> QED
        BY <3>2, <3>3, <3>4
    <2> QED
      BY <2>1, <2>2
  <1> HIDE DEF E
  <1>2. S \in E
    BY <1>1, SubsetInduction
  <1> QED
    BY <1>2 DEF E

\* There is such a fold, and its values are in V.
LEMMA FoldExists ==
    ASSUME NEW S, IsFiniteSet(S), NEW V, NEW base \in V, NEW step \in [S \X V -> V],
           NEW pick, Picks(pick, S)
    PROVE  \E h \in [SUBSET S -> V] : IsFold(h, S, base, step, pick)
  <1> DEFINE Good(t, h) == h \in [SUBSET t -> V] /\ IsFold(h, t, base, step, pick)
             E == {t \in SUBSET S : \E h : Good(t, h)}
  <1>1. ASSUME NEW t \in SUBSET S, \A u \in SUBSET t : u # t => u \in E
        PROVE  t \in E
    <2> DEFINE F(u) == CHOOSE h : Good(u, h)
               h == [u \in SUBSET t |->
                        IF u = {} THEN base
                        ELSE step[<<pick[u], F(u \ {pick[u]})[u \ {pick[u]}]>>]]
    <2>1. ASSUME NEW u \in SUBSET t, u # t PROVE Good(u, F(u))
      BY <1>1, <2>1
    <2>2. ASSUME NEW u \in SUBSET t, u # {}
          PROVE  /\ pick[u] \in u
                 /\ u \ {pick[u]} \in SUBSET t
                 /\ u \ {pick[u]} # t
                 /\ Good(u \ {pick[u]}, F(u \ {pick[u]}))
      BY <2>1, <2>2 DEF Picks
    <2> HIDE DEF F
    <2>3. h \in [SUBSET t -> V]
      <3> SUFFICES ASSUME NEW u \in SUBSET t, u # {}
                   PROVE  step[<<pick[u], F(u \ {pick[u]})[u \ {pick[u]}]>>] \in V
        OBVIOUS
      <3> DEFINE v == u \ {pick[u]}
      <3>1. Good(v, F(v))
        BY <2>2
      <3> HIDE DEF v
      <3>2. F(v) \in [SUBSET v -> V]
        BY <3>1
      <3>3. F(v)[v] \in V
        BY <3>2
      <3>4. pick[u] \in S /\ F(u \ {pick[u]})[u \ {pick[u]}] \in V
        BY <2>2, <3>3 DEF v
      <3> QED
        BY <3>4
    <2>4. ASSUME NEW u \in SUBSET t, u # t PROVE h[u] = F(u)[u]
      <3>1. CASE u = {}
        BY <2>1, <2>4, <3>1 DEF IsFold
      <3>2. CASE u # {}
        <4> DEFINE v == u \ {pick[u]}
        <4>1. IsFiniteSet(v) /\ v \subseteq u /\ Picks(pick, v)
          BY FS_Subset DEF Picks
        <4>2. Good(v, F(v)) /\ Good(u, F(u))
          BY <2>1, <2>2, <2>4, <3>2
        <4> HIDE DEF v
        <4>3. F(v)[v] = F(u)[v]
          BY <4>1, <4>2, FoldUnique
        <4>4. F(u)[u] = step[<<pick[u], F(u)[v]>>]
          BY <3>2, <4>2 DEF IsFold, v
        <4>5. h[u] = step[<<pick[u], F(v)[v]>>]
          BY <3>2 DEF v
        <4> QED
          BY <4>3, <4>4, <4>5
      <3> QED
        BY <3>1, <3>2
    <2>5. IsFold(h, t, base, step, pick)
      <3>1. ASSUME NEW u \in SUBSET t, u # {}
            PROVE  h[u] = step[<<pick[u], h[u \ {pick[u]}]>>]
        BY <2>2, <2>4, <3>1
      <3>2. h[{}] = base
        OBVIOUS
      <3>3. \A u \in SUBSET t :
                h[u] = IF u = {} THEN base ELSE step[<<pick[u], h[u \ {pick[u]}]>>]
        BY <3>1, <3>2
      <3>4. h = [u \in SUBSET t |-> h[u]]
        BY <2>3
      <3> HIDE DEF h
      <3> QED
        BY <3>3, <3>4 DEF IsFold
    <2> HIDE DEF h
    <2> QED
      BY <2>3, <2>5
  <1> HIDE DEF E
  <1>2. S \in E
    BY <1>1, SubsetInduction
  <1> QED
    BY <1>2 DEF E
-----------------------------------------------------------------------------
(* Folds over sequences take the largest index last. *)

LEMMA MaxIsThere ==
    ASSUME NEW n \in Nat, NEW t \in SUBSET (1..n), t # {}
    PROVE  Max(t) \in t
  <1> DEFINE D == {n - i : i \in t}
  <1>1. D \subseteq Nat /\ D # {}
    <2>1. \A i \in t : n - i \in Nat
      OBVIOUS
    <2> QED
      BY <2>1
  <1>2. IsWellFoundedOn(OpToRel(<, Nat), Nat)
    BY NatLessThanWellFounded
  <1>3. \E d \in D : \A e \in D : ~(<<e, d>> \in OpToRel(<, Nat))
    <2> HIDE DEF D
    <2> QED
      BY <1>1, <1>2, WFMin
  <1>4. PICK d \in D : \A e \in D : ~(<<e, d>> \in OpToRel(<, Nat))
    BY <1>3
  <1>5. PICK i \in t : d = n - i
    OBVIOUS
  <1>6. ASSUME NEW j \in t PROVE i >= j
    <2>1. n - j \in D
      OBVIOUS
    <2>2. n - j \in Nat /\ d \in Nat
      BY <1>1, <2>1
    <2>3. ~(n - j < d)
      <3> HIDE DEF D
      <3> QED
        BY <1>4, <2>1, <2>2 DEF OpToRel
    <2> QED
      BY <1>5, <2>3
  <1> QED
    BY <1>6 DEF Max

\* Induction on the numbers up to n.
LEMMA UpToInduction ==
    ASSUME NEW n \in Nat, NEW B, 0 \in B, \A i \in 1..n : i - 1 \in B => i \in B
    PROVE  \A i \in 0..n : i \in B
  <1> DEFINE C == {i \in 0..n : i \notin B}
  <1>1. SUFFICES ASSUME C # {} PROVE FALSE
    OBVIOUS
  <1>2. C \subseteq Nat
    OBVIOUS
  <1>3. \E i \in C : \A j \in C : ~(<<j, i>> \in OpToRel(<, Nat))
    <2>1. IsWellFoundedOn(OpToRel(<, Nat), Nat)
      BY NatLessThanWellFounded
    <2> HIDE DEF C
    <2> QED
      BY <1>1, <1>2, <2>1, WFMin
  <1>4. PICK i \in C : \A j \in C : ~(<<j, i>> \in OpToRel(<, Nat))
    BY <1>3
  <1>5. i \in 1..n /\ i \notin B
    OBVIOUS
  <1>6. i - 1 \notin C
    <2>1. i - 1 \in Nat /\ i \in Nat /\ i - 1 < i
      BY <1>5
    <2> HIDE DEF C
    <2> QED
      BY <1>4, <2>1 DEF OpToRel
  <1> QED
    BY <1>5, <1>6
-----------------------------------------------------------------------------
(* Partial sums. *)

\* What a fold that adds the values of v is, over the sets of its arguments.
Adds(f, n, v) ==
    f = [t \in SUBSET (1..n) |-> IF t = {} THEN 0 ELSE f[t \ {Max(t)}] + v[Max(t)]]

\* b[j] is the sum of the first j values of v.
Sums(b, n, v) ==
    /\ b \in [0..n -> Nat]
    /\ b[0] = 0
    /\ \A j \in 1..n : b[j] = b[j - 1] + v[j]

LEMMA AddsExists ==
    ASSUME NEW n \in Nat, NEW v \in [1..n -> Nat]
    PROVE  \E f : Adds(f, n, v)
  <1> DEFINE X == 1..n
             pick == [t \in SUBSET X |-> Max(t)]
             step == [q \in X \X Nat |-> q[2] + v[q[1]]]
  <1>1. \A t \in SUBSET X : t # {} => Max(t) \in t
    BY MaxIsThere
  <1>2. IsFiniteSet(X) /\ Picks(pick, X)
    <2>1. IsFiniteSet(1..n)
      BY FS_Interval
    <2>2. Picks(pick, X)
      BY <1>1 DEF Picks
    <2> QED
      BY <2>1, <2>2
  <1>3. /\ step \in [X \X Nat -> Nat]
        /\ \A x \in X, a \in Nat : step[<<x, a>>] = a + v[x]
    <2>1. \A x \in X, a \in Nat : a + v[x] \in Nat
      OBVIOUS
    <2> HIDE DEF X
    <2> QED
      BY <2>1
  <1>4. \E h \in [SUBSET X -> Nat] : IsFold(h, X, 0, step, pick)
    <2> HIDE DEF X, pick, step
    <2> QED
      BY <1>2, <1>3, FoldExists
  <1>5. PICK h \in [SUBSET X -> Nat] : IsFold(h, X, 0, step, pick)
    BY <1>4
  <1>6. ASSUME NEW t \in SUBSET X
        PROVE  h[t] = IF t = {} THEN 0 ELSE h[t \ {Max(t)}] + v[Max(t)]
    <2>1. h[t] = IF t = {} THEN 0 ELSE step[<<pick[t], h[t \ {pick[t]}]>>]
      BY <1>5 DEF IsFold
    <2>2. CASE t = {}
      BY <2>1, <2>2
    <2>3. CASE t # {}
      <3>1. pick[t] = Max(t) /\ Max(t) \in X /\ t \ {Max(t)} \in SUBSET X
        BY <1>1, <2>3
      <3>2. h[t \ {Max(t)}] \in Nat
        BY <3>1
      <3> QED
        BY <1>3, <2>1, <2>3, <3>1, <3>2
    <2> QED
      BY <2>2, <2>3
  <1> HIDE DEF X
  <1>7. Adds(h, n, v)
    BY <1>6 DEF Adds, X
  <1> QED
    BY <1>7

LEMMA AddsSums ==
    ASSUME NEW n \in Nat, NEW v \in [1..n -> Nat], NEW f, Adds(f, n, v)
    PROVE  \E b : Sums(b, n, v) /\ f[1..n] = b[n]
  <1> DEFINE b == [j \in 0..n |-> f[1..j]]
  <1>1. \A t \in SUBSET (1..n) :
            f[t] = IF t = {} THEN 0 ELSE f[t \ {Max(t)}] + v[Max(t)]
    BY DEF Adds
  <1>2. ASSUME NEW j \in 1..n
        PROVE  f[1..j] = f[1..(j - 1)] + v[j]
    <2>1. 1..j \in SUBSET (1..n) /\ 1..j # {} /\ (1..j) \ {j} = 1..(j - 1)
      <3>1. \A k \in 1..j : k \in 1..n
        OBVIOUS
      <3>2. j \in 1..j
        OBVIOUS
      <3>3. \A k : k \in (1..j) \ {j} <=> k \in 1..(j - 1)
        OBVIOUS
      <3> QED
        BY <3>1, <3>2, <3>3
    <2>2. Max(1..j) = j
      <3>1. Max(1..j) \in 1..j
        BY <2>1, MaxIsThere
      <3>2. \E m \in 1..j : \A k \in 1..j : m >= k
        OBVIOUS
      <3>3. \A k \in 1..j : Max(1..j) >= k
        BY <3>2 DEF Max
      <3> QED
        BY <3>1, <3>3
    <2> QED
      BY <1>1, <2>1, <2>2
  <1>3. f[1..0] = 0
    <2>1. 1..0 = {} /\ {} \in SUBSET (1..n)
      OBVIOUS
    <2> QED
      BY <1>1, <2>1
  <1>4. b \in [0..n -> Nat]
    <2> DEFINE B == {j \in 0..n : f[1..j] \in Nat}
    <2>1. 0 \in B
      BY <1>3
    <2>2. ASSUME NEW j \in 1..n, j - 1 \in B PROVE j \in B
      <3>1. f[1..(j - 1)] \in Nat /\ v[j] \in Nat /\ j \in 0..n
        BY <2>2
      <3> QED
        BY <1>2, <3>1
    <2> HIDE DEF B
    <2>3. \A j \in 0..n : j \in B
      BY <2>1, <2>2, UpToInduction
    <2> QED
      BY <2>3 DEF B
  <1>5. b[0] = f[1..0] /\ b[n] = f[1..n]
    OBVIOUS
  <1>6. \A j \in 1..n : b[j] = f[1..j] /\ b[j - 1] = f[1..(j - 1)]
    OBVIOUS
  <1> HIDE DEF b
  <1>7. Sums(b, n, v)
    BY <1>2, <1>3, <1>4, <1>5, <1>6 DEF Sums
  <1> QED
    BY <1>5, <1>7

Same(v, u, n) == \A j \in 1..n : v[j] = u[j]

LEMMA SumsEqual ==
    ASSUME NEW n \in Nat, NEW u, NEW v, Same(v, u, n),
           NEW b, Sums(b, n, u), NEW c, Sums(c, n, v)
    PROVE  c[n] = b[n]
  <1> DEFINE B == {j \in 0..n : c[j] = b[j]}
  <1>1. 0 \in B
    BY DEF Sums
  <1>2. ASSUME NEW j \in 1..n, j - 1 \in B PROVE j \in B
    <2>1. c[j] = c[j - 1] + v[j] /\ b[j] = b[j - 1] + u[j] /\ v[j] = u[j]
      BY DEF Sums, Same
    <2>2. c[j - 1] = b[j - 1] /\ j \in 0..n
      BY <1>2
    <2> QED
      BY <2>1, <2>2
  <1> HIDE DEF B
  <1>3. \A j \in 0..n : j \in B
    BY <1>1, <1>2, UpToInduction
  <1> QED
    BY <1>3 DEF B

\* The sum stays what it is when one value is split into two.
Split(v, u, n, i) ==
    /\ \A j \in 1..(i - 1) : v[j] = u[j]
    /\ v[i] + v[i + 1] = u[i]
    /\ \A j \in (i + 1)..n : v[j + 1] = u[j]

LEMMA SumsSplit ==
    ASSUME NEW n \in Nat, NEW i \in 1..n, NEW u \in [1..n -> Nat], NEW v \in [1..(n + 1) -> Nat],
           Split(v, u, n, i),
           NEW b, Sums(b, n, u), NEW c, Sums(c, n + 1, v)
    PROVE  c[n + 1] = b[n]
  <1> DEFINE B == {j \in 0..n : IF j < i THEN c[j] = b[j] ELSE c[j + 1] = b[j]}
  <1>1. 0 \in B
    BY DEF Sums
  <1>2. ASSUME NEW j \in 1..n, j - 1 \in B PROVE j \in B
    <2>1. /\ j \in 0..n /\ j - 1 \in 0..n /\ j \in 1..(n + 1) /\ j + 1 \in 1..(n + 1)
          /\ (j + 1) - 1 = j
      OBVIOUS
    <2>2. /\ b[j] = b[j - 1] + u[j]
          /\ c[j] = c[j - 1] + v[j]
          /\ c[j + 1] = c[j] + v[j + 1]
      BY <2>1 DEF Sums
    <2>3. /\ b[j - 1] \in Nat
          /\ u[j] \in Nat /\ v[j] \in Nat /\ v[j + 1] \in Nat
      BY <2>1 DEF Sums
    <2>4. CASE j < i
      <3>1. c[j - 1] = b[j - 1] /\ j \in 1..(i - 1)
        BY <1>2, <2>4
      <3>2. v[j] = u[j]
        BY <3>1 DEF Split
      <3> QED
        BY <2>1, <2>2, <2>4, <3>1, <3>2
    <2>5. CASE j = i
      <3>1. c[j - 1] = b[j - 1]
        BY <1>2, <2>5
      <3> DEFINE before == b[j - 1]
                 one == v[j]
                 other == v[j + 1]
      <3>2. /\ before \in Nat /\ one \in Nat /\ other \in Nat
            /\ b[j] = before + (one + other)
            /\ c[j] = before + one
            /\ c[j + 1] = c[j] + other
        BY <2>2, <2>3, <2>5, <3>1, Zenon DEF Split
      <3> HIDE DEF before, one, other
      <3>3. c[j + 1] = b[j]
        BY <3>2
      <3> QED
        BY <2>1, <2>5, <3>3
    <2>6. CASE j > i
      <3>1. j \in (i + 1)..n /\ ~(j - 1 < i) /\ (j - 1) + 1 = j
        BY <2>6
      <3>2. c[j] = b[j - 1]
        BY <1>2, <3>1
      <3>3. v[j + 1] = u[j]
        BY <3>1 DEF Split
      <3>4. c[j + 1] = b[j]
        BY <2>2, <3>2, <3>3, Zenon
      <3> QED
        BY <2>1, <2>6, <3>4
    <2> QED
      BY <2>4, <2>5, <2>6
  <1> HIDE DEF B
  <1>3. \A j \in 0..n : j \in B
    BY <1>1, <1>2, UpToInduction
  <1>4. n \in B
    BY <1>3
  <1> QED
    BY <1>4 DEF B

\* So many values, none of them zero, add up to no less.
LEMMA SumsAtLeast ==
    ASSUME NEW n \in Nat, NEW v \in [1..n -> Nat \ {0}], NEW b, Sums(b, n, v)
    PROVE  n <= b[n]
  <1> DEFINE B == {j \in 0..n : j <= b[j]}
  <1>1. 0 \in B
    BY DEF Sums
  <1>2. ASSUME NEW j \in 1..n, j - 1 \in B PROVE j \in B
    <2>1. b[j] = b[j - 1] + v[j] /\ b[j - 1] \in Nat
      BY DEF Sums
    <2>2. j - 1 <= b[j - 1] /\ v[j] >= 1 /\ v[j] \in Nat /\ j \in 0..n
      BY <1>2
    <2> QED
      BY <2>1, <2>2
  <1> HIDE DEF B
  <1>3. \A j \in 0..n : j \in B
    BY <1>1, <1>2, UpToInduction
  <1>4. n \in B
    BY <1>3
  <1> QED
    BY <1>4 DEF B
=============================================================================
