-------------------------- MODULE DuplicateFilter --------------------------
(***************************************************************************)
(* What internal/cache promises the multimon reader, which publishes a     *)
(* packet only if Set says that it is no duplicate:                        *)
(*   - a packet called a duplicate was heard within TTL;                   *)
(*   - a packet called new was not heard within TTL, or Capacity other     *)
(*     packets were used since, or the program restarted since.            *)
(***************************************************************************)
EXTENDS Integers, FiniteSets

CONSTANTS Keys, Capacity, TTL

VARIABLES
    heard,      \* age of the last Set of each key, TTL + 1 when longer ago
    since,      \* the other keys used since the last use of each key
    lost,       \* keys not set since the latest restart
    duplicate   \* what the last Set returned

vars == <<heard, since, lost, duplicate>>

Long == TTL + 1

Init ==
    /\ heard = [k \in Keys |-> Long]
    /\ since = [k \in Keys |-> {}]
    /\ lost = Keys
    /\ duplicate = FALSE

\* A use of k: it becomes the most recently used of all keys.
Use(k) == since' = [j \in Keys |-> IF j = k THEN {} ELSE since[j] \cup {k}]

MayBeDuplicate(k) == TTL = 0 \/ heard[k] <= TTL

MayBeNew(k) ==
    \/ TTL > 0 /\ heard[k] > TTL
    \/ Cardinality(since[k]) >= Capacity
    \/ k \in lost

Ask(k) ==
    /\ \/ MayBeDuplicate(k) /\ duplicate' = TRUE
       \/ MayBeNew(k) /\ duplicate' = FALSE
    /\ heard' = [heard EXCEPT ![k] = 0]
    /\ Use(k)
    /\ lost' = lost \ {k}

Look(k) == Use(k) /\ UNCHANGED <<heard, lost, duplicate>>

Tick ==
    /\ heard' = [k \in Keys |-> IF heard[k] < Long THEN heard[k] + 1 ELSE Long]
    /\ UNCHANGED <<since, lost, duplicate>>

Restart == lost' = Keys /\ UNCHANGED <<heard, since, duplicate>>

Next == (\E k \in Keys : Ask(k) \/ Look(k)) \/ Tick \/ Restart

Spec == Init /\ [][Next]_vars
=============================================================================
