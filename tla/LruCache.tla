------------------------------ MODULE LruCache ------------------------------
(***************************************************************************)
(* internal/cache: a map of nodes on a doubly linked list, most recently   *)
(* used first, saved to a file after every new key and loaded from it at   *)
(* start.  A key has one node at most, so a key stands for its node.       *)
(* Values are never read: they are left out.                               *)
(*                                                                         *)
(* Get and Set hold the mutex to the end, the save included.  Timestamps   *)
(* are ages, in memory and in the file, and all grow together.             *)
(***************************************************************************)
EXTENDS Integers, FiniteSets, Sequences, SequencesExt

CONSTANTS
    Keys,       \* the messages multimon-ng decodes
    Nil,        \* the nil pointer
    Capacity,   \* cache-size
    TTL         \* 60 seconds in the program; 0: nothing expires

ASSUME CacheAssumption ==
    /\ Nil \notin Keys
    /\ Capacity \in Nat \ {0}
    /\ TTL \in Nat

VARIABLES
    lru,        \* the map's keys and the pointers: see EmptyList
    stamp,      \* age of each node's timestamp
    file,       \* the keys in the cache file
    fileStamp,  \* the ages of their timestamps
    mode,       \* "down", "ready", or how far the save is
    duplicate,  \* what the last Set returned
    heard,      \* history: age of the last Set of each key
    since,      \* history: other keys used since the last use of each key
    lost        \* history: keys not set since the latest start

fileVars == <<file, fileStamp>>
histVars == <<heard, since, lost>>
vars == <<lru, stamp, fileVars, mode, duplicate, histVars>>

Long == TTL + 1

Older(ages) == [k \in Keys |-> IF ages[k] < Long THEN ages[k] + 1 ELSE Long]

Expired(age) == TTL > 0 /\ age > TTL

-----------------------------------------------------------------------------
(* The list.  Each operator below is a function of lru.go, from one list   *)
(* to the next.                                                            *)

Pointer == Keys \cup {Nil}

EmptyList ==
    [cache |-> {}, next |-> [k \in Keys |-> Nil], prev |-> [k \in Keys |-> Nil],
     head |-> Nil, tail |-> Nil]

\* An assignment to a field of the node behind a pointer, if it is not nil.
Link(field, node, to) == [k \in Keys |-> IF k = node THEN to ELSE field[k]]

\* Mutant: removing the last node leaves tail pointing at it.
RemoveNode_Tail(l, n) ==
    [l EXCEPT !.next = Link(Link(@, l.prev[n], l.next[n]), n, Nil),
              !.prev = Link(Link(@, l.next[n], l.prev[n]), n, Nil),
              !.head = IF @ = n THEN l.next[n] ELSE @]

RemoveNode(l, n) ==
    [l EXCEPT !.next = Link(Link(@, l.prev[n], l.next[n]), n, Nil),
              !.prev = Link(Link(@, l.next[n], l.prev[n]), n, Nil),
              !.head = IF @ = n THEN l.next[n] ELSE @,
              !.tail = IF @ = n THEN l.prev[n] ELSE @]

\* removeNode, and delete from the map.
Delete(l, n) == [RemoveNode(l, n) EXCEPT !.cache = @ \ {n}]

\* The end of moveToFront, and addToFront.
PushFront(l, n) ==
    [l EXCEPT !.next = Link(@, n, l.head),
              !.prev = Link(@, l.head, n),
              !.head = n,
              !.tail = IF @ = Nil THEN n ELSE @]

\* Mutant: a use leaves the order as it is.
MoveToFront_Not(l, n) == l
MoveToFront(l, n) == IF n = l.head THEN l ELSE PushFront(RemoveNode(l, n), n)

EvictTail(l) == IF l.tail = Nil THEN l ELSE Delete(l, l.tail)

\* Mutant: the list may grow one node past its capacity.
HasRoom_Over(l) == Cardinality(l.cache) <= Capacity
HasRoom(l) == Cardinality(l.cache) < Capacity

\* LRU.set of a key that is not there, and setWithTimestamp.
Insert(l, n) ==
    LET room == IF HasRoom(l) THEN l ELSE EvictTail(l)
    IN  PushFront([room EXCEPT !.cache = @ \cup {n}], n)

\* The expired nodes deleted one by one, in any order.
Prune(l, ages) ==
    FoldSet(LAMBDA n, rest : Delete(rest, n), l, {k \in l.cache : Expired(ages[k])})

-----------------------------------------------------------------------------
Init ==
    /\ lru = EmptyList
    /\ stamp = [k \in Keys |-> Long]
    /\ file = {}
    /\ fileStamp = [k \in Keys |-> Long]
    /\ mode = "ready"
    /\ duplicate = FALSE
    /\ heard = [k \in Keys |-> Long]
    /\ since = [k \in Keys |-> {}]
    /\ lost = Keys

Use(k) == since' = [j \in Keys |-> IF j = k THEN {} ELSE since[j] \cup {k}]

\* What both outcomes of Set(k) do, the history of the answer included.
Answer(k, answer) ==
    /\ stamp' = [stamp EXCEPT ![k] = 0]
    /\ duplicate' = answer
    /\ heard' = [heard EXCEPT ![k] = 0]
    /\ lost' = lost \ {k}
    /\ Use(k)

Known(k) == k \in lru.cache /\ ~Expired(stamp[k])

SetDuplicate(k) ==
    /\ mode = "ready"
    /\ Known(k)
    /\ lru' = MoveToFront(lru, k)
    /\ Answer(k, TRUE)
    /\ UNCHANGED <<fileVars, mode>>

\* An expired node of k goes with the other expired ones.
SetNew(k) ==
    /\ mode = "ready"
    /\ ~Known(k)
    /\ lru' = Insert(Prune(lru, stamp), k)
    /\ Answer(k, FALSE)
    /\ mode' = "save"
    /\ UNCHANGED fileVars

\* saveToFile: os.Create empties the file, then the map is written.
CreateFile ==
    /\ mode = "save"
    /\ file' = {}
    /\ mode' = "write"
    /\ UNCHANGED <<lru, stamp, fileStamp, duplicate, histVars>>

\* Mutant: the timestamps are those of the save.
SavedStamp_Now(k) == 0
SavedStamp(k) == stamp[k]

WriteFile ==
    /\ mode = "write"
    /\ file' = lru.cache
    /\ fileStamp' = [k \in Keys |-> SavedStamp(k)]
    /\ mode' = "ready"
    /\ UNCHANGED <<lru, stamp, duplicate, histVars>>

\* An error of the file system is printed and forgotten.
SaveFails ==
    /\ mode \in {"save", "write"}
    /\ mode' = "ready"
    /\ UNCHANGED <<lru, stamp, fileVars, duplicate, histVars>>

\* Get deletes an expired node, and touches no timestamp.
Get(k) ==
    /\ mode = "ready"
    /\ k \in lru.cache
    /\ IF Expired(stamp[k])
       THEN lru' = Delete(lru, k) /\ UNCHANGED since
       ELSE lru' = MoveToFront(lru, k) /\ Use(k)
    /\ UNCHANGED <<stamp, fileVars, mode, duplicate, heard, lost>>

\* The program dies, in the middle of a save as well: a file that is not a
\* whole JSON object loads as nothing, like an empty one.
Crash ==
    /\ mode # "down"
    /\ mode' = "down"
    /\ lru' = EmptyList
    /\ lost' = Keys
    /\ UNCHANGED <<stamp, fileVars, duplicate, heard, since>>

\* NewCache: loadFromFile inserts what has not expired, in the random order of
\* a Go map.
Start ==
    /\ mode = "down"
    /\ mode' = "ready"
    /\ \E order \in SetToSeqs({k \in file : ~Expired(fileStamp[k])}) :
         lru' = FoldLeft(Insert, EmptyList, order)
    /\ stamp' = fileStamp
    /\ UNCHANGED <<fileVars, duplicate, histVars>>

Tick ==
    /\ stamp' = Older(stamp)
    /\ fileStamp' = Older(fileStamp)
    /\ heard' = Older(heard)
    /\ UNCHANGED <<lru, file, mode, duplicate, since, lost>>

Save == CreateFile \/ WriteFile \/ SaveFails

Next ==
    \/ \E k \in Keys : SetDuplicate(k) \/ SetNew(k) \/ Get(k)
    \/ Save
    \/ Crash
    \/ Start
    \/ Tick

Spec == Init /\ [][Next]_vars

-----------------------------------------------------------------------------
(* Properties. *)

\* Every variable holds a value of its kind, and the map never outgrows
\* cache-size.
TypeOK ==
    /\ lru \in [cache : SUBSET Keys, next : [Keys -> Pointer], prev : [Keys -> Pointer],
                head : Pointer, tail : Pointer]
    /\ Cardinality(lru.cache) <= Capacity
    /\ stamp \in [Keys -> 0..Long]
    /\ file \subseteq Keys
    /\ fileStamp \in [Keys -> 0..Long]
    /\ mode \in {"down", "ready", "save", "write"}
    /\ duplicate \in BOOLEAN
    /\ heard \in [Keys -> 0..Long]
    /\ since \in [Keys -> SUBSET Keys]
    /\ lost \subseteq Keys

\* The i-th of the n keys of an order, Nil before the first and after the last.
At(order, n, i) == IF i \in 1..n THEN order[i] ELSE Nil

\* The pointers link the n keys of an order, from head to tail, and no others.
Follows(l, n, order) ==
    /\ l.head = At(order, n, 1)
    /\ l.tail = At(order, n, n)
    /\ \A i \in 1..n :
          /\ l.next[order[i]] = At(order, n, i + 1)
          /\ l.prev[order[i]] = At(order, n, i - 1)
    /\ \A k \in Keys \ l.cache : l.next[k] = Nil /\ l.prev[k] = Nil

\* The list is one list: forwards from head and backwards from tail it has
\* exactly the nodes of the map, each once, so eviction always finds the last
\* and a node cut out leaves no pointer behind.
ListIsWhole ==
    \E order \in SetToSeqs(lru.cache) : Follows(lru, Cardinality(lru.cache), order)

\* A restart never makes a key younger than the last time it was heard: the
\* file and the memory only ever remember too little.
NeverYounger ==
    /\ \A k \in lru.cache : stamp[k] >= heard[k]
    /\ \A k \in file : fileStamp[k] >= heard[k]

\* The cache answers as the duplicate filter may.
Filter == INSTANCE DuplicateFilter

ImplementsFilter == Filter!Spec
=============================================================================
