------------------------------- MODULE Beacon -------------------------------
(***************************************************************************)
(* RF beacons of internal/igate.  Every beacon, from the schedule, the     *)
(* aprs.fi watchdog or a failed verification, is a goroutine running       *)
(* sendBeaconRf: it waits for a quiet channel, warms up, queues the frame  *)
(* while the channel is quiet, registers what it expects to hear, and      *)
(* judges the attempt by what the listener observes next.                  *)
(*                                                                         *)
(* Sleeps are countdowns that Tick lowers; a sleeping goroutine is woken   *)
(* by its timer or by the stop, whichever comes first.  All beacons send   *)
(* the same frame, so the map beaconWaits holds one entry at most: expect  *)
(* names the goroutine whose result channel it holds.                      *)
(***************************************************************************)
EXTENDS Integers, FiniteSets

CONSTANTS
    Jobs,               \* goroutines running sendBeaconRf
    None,               \* no goroutine
    MaxAttempts,        \* max-rf-attempts
    MaxTries,           \* aprsfi-verification max-attempts
    Verify,             \* scheduleAprsFiVerification goes ahead
    Quiet,              \* beaconChannelQuiet
    Warmup,             \* beaconWarmup
    RetryInterval,      \* beaconRetryInterval
    CollisionWindow,    \* beaconCollisionWindow
    TxCap               \* capacity of Tx.Chan

ASSUME BeaconAssumption ==
    /\ None \notin Jobs
    /\ MaxAttempts \in Nat \ {0}
    /\ MaxTries \in Nat \ {0}
    /\ Verify \in BOOLEAN
    /\ Quiet \in Nat \ {0}
    /\ Warmup \in Nat \ {0}
    /\ RetryInterval \in Nat \ {0}
    /\ CollisionWindow \in Nat
    /\ TxCap \in Nat \ {0}

VARIABLES
    pc,             \* where each goroutine is
    timer,          \* what is left of its sleep
    attempts,       \* its attempts so far
    allowRetry,     \* its last argument: may a failed verification retry
    result,         \* what its current result channel holds
    polls,          \* verification queries still to make for its beacon
    querying,       \* the beacons aprs.fi is being asked about
    rfBeaconMu,     \* the goroutine holding rfBeaconMu, or None
    expect,         \* the goroutine registered in beaconWaits, or None
    expectAge,      \* age of that registration
    lastRx,         \* age of the last reception
    heard,          \* what the listener has marked but not yet observed
    txQueue,        \* the number of frames in Tx.Chan
    stopped,        \* i.stop is closed
    overtaken,      \* history: a beacon was queued since heard was received
    sentAfterStop   \* history: beacon frames queued after the stop

jobVars  == <<pc, timer, attempts, allowRetry, result, polls, querying>>
waitVars == <<expect, expectAge>>
histVars == <<overtaken, sentAfterStop>>
vars == <<jobVars, waitVars, histVars, rfBeaconMu, lastRx, heard, txQueue, stopped>>

\* The program points of sendBeaconRf, with rfBeaconMu held from "quiet" on.
Working == {"quiet", "quietSleep", "warmup", "recheck", "recheckSleep", "admit",
            "slot", "await", "backoff"}

Sleeping == {"quietSleep", "warmup", "recheckSleep", "slot", "backoff"}

ChannelQuiet == lastRx >= Quiet

Init ==
    /\ pc = [j \in Jobs |-> "idle"]
    /\ timer = [j \in Jobs |-> 0]
    /\ attempts = [j \in Jobs |-> 0]
    /\ allowRetry = [j \in Jobs |-> FALSE]
    /\ result = [j \in Jobs |-> "empty"]
    /\ polls = [j \in Jobs |-> 0]
    /\ querying = {}
    /\ rfBeaconMu = None
    /\ expect = None
    /\ expectAge = 0
    /\ lastRx = 0
    /\ heard = "nothing"
    /\ txQueue = 0
    /\ stopped = FALSE
    /\ overtaken = FALSE
    /\ sentAfterStop = 0

-----------------------------------------------------------------------------
(* sendBeaconRf. *)

Goto(j, point) == pc' = [pc EXCEPT ![j] = point]

Sleep(j, time) == timer' = [timer EXCEPT ![j] = time]

\* go i.sendBeaconRf(..., retry)
Launch(j, retry) ==
    /\ pc[j] = "idle"
    /\ Goto(j, "lock")
    /\ allowRetry' = [allowRetry EXCEPT ![j] = retry]

\* The schedule's ticker or the watchdog; neither looks whether an earlier
\* beacon is still under way, and a tick or a query under way at the stop may
\* still start one.
StartBeacon(j) ==
    /\ Launch(j, TRUE)
    /\ UNCHANGED <<timer, attempts, result, polls, querying, waitVars, histVars, rfBeaconMu,
                   lastRx, heard, txQueue, stopped>>

\* Mutant: the mutex is not taken.
RFBeaconFree_Ignored == TRUE
RFBeaconFree == rfBeaconMu = None

\* The lock, and the test of the loop's first turn.
Lock(j) ==
    /\ pc[j] = "lock"
    /\ RFBeaconFree
    /\ rfBeaconMu' = j
    /\ attempts' = [attempts EXCEPT ![j] = 1]
    /\ Goto(j, "quiet")
    /\ UNCHANGED <<timer, allowRetry, result, polls, querying, waitVars, histVars,
                   lastRx, heard, txQueue, stopped>>

\* Mutant: a return that does not unlock.
Return_Locked(j) ==
    /\ Goto(j, "done")
    /\ Sleep(j, 0)
    /\ UNCHANGED rfBeaconMu

\* Every return unlocks.
Return(j) ==
    /\ Goto(j, "done")
    /\ Sleep(j, 0)
    /\ rfBeaconMu' = None

\* waitForQuiet, before the warm-up and again before each try for the queue:
\* it asks how long is left and sleeps that long.
WaitForQuiet(j, check, asleep, after) ==
    /\ pc[j] = check
    /\ IF ChannelQuiet
       THEN Goto(j, after) /\ Sleep(j, IF after = "warmup" THEN Warmup ELSE 0)
       ELSE Goto(j, asleep) /\ Sleep(j, Quiet - lastRx)
    /\ UNCHANGED <<attempts, allowRetry, result, polls, querying, waitVars, histVars,
                   rfBeaconMu, lastRx, heard, txQueue, stopped>>

CheckQuiet(j) ==
    \/ WaitForQuiet(j, "quiet", "quietSleep", "warmup")
    \/ WaitForQuiet(j, "recheck", "recheckSleep", "admit")

\* Mutant: the warm-up sleeps without watching the stop.
TimerWins_Deaf(j) == timer[j] = 0 /\ (stopped => pc[j] = "warmup")
TimerWins(j) == timer[j] = 0 /\ ~stopped

\* sleepWithStop and waitForTransmitQueueSlot, ended by the timer.
Wake(j) ==
    /\ pc[j] \in {"quietSleep", "warmup", "recheckSleep", "slot"}
    /\ TimerWins(j)
    /\ Goto(j, IF pc[j] = "quietSleep" THEN "quiet" ELSE "recheck")
    /\ UNCHANGED <<timer, attempts, allowRetry, result, polls, querying, waitVars,
                   histVars, rfBeaconMu, lastRx, heard, txQueue, stopped>>

\* Mutant: the bound is checked after the attempt it should have prevented.
MayTryAgain_Late(j) == attempts[j] <= MaxAttempts
MayTryAgain(j) == attempts[j] < MaxAttempts

\* The end of the back-off: the head of the loop counts the attempts.
Again(j) ==
    /\ pc[j] = "backoff"
    /\ TimerWins(j)
    /\ IF MayTryAgain(j)
       THEN /\ attempts' = [attempts EXCEPT ![j] = @ + 1]
            /\ Goto(j, "quiet")
            /\ UNCHANGED <<timer, rfBeaconMu>>
       ELSE Return(j) /\ UNCHANGED attempts
    /\ UNCHANGED <<allowRetry, result, polls, querying, waitVars, histVars,
                   lastRx, heard, txQueue, stopped>>

\* The same sleeps, ended by the stop.
StopSleep(j) ==
    /\ pc[j] \in Sleeping
    /\ stopped
    /\ Return(j)
    /\ UNCHANGED <<attempts, allowRetry, result, polls, querying, waitVars, histVars,
                   lastRx, heard, txQueue, stopped>>

\* Mutant: the quiet of the last waitForQuiet is trusted at admission.
QuietAtAdmission_Trusted == TRUE
QuietAtAdmission == ChannelQuiet

\* One try of sendRFFramesWhenQuiet: under rfTxMu and lastRxMu it checks the
\* channel again, queues the frame and registers the expectation.
Admit(j) ==
    /\ pc[j] = "admit"
    /\ QuietAtAdmission
    /\ txQueue < TxCap
    /\ txQueue' = txQueue + 1
    /\ expect' = j
    /\ expectAge' = 0
    /\ result' = [result EXCEPT ![j] = "empty"]
    /\ Goto(j, "await")
    /\ Sleep(j, CollisionWindow)
    /\ overtaken' = (heard # "nothing")
    /\ sentAfterStop' = IF stopped THEN sentAfterStop + 1 ELSE sentAfterStop
    /\ UNCHANGED <<attempts, allowRetry, polls, querying, rfBeaconMu, lastRx, heard, stopped>>

\* The channel became busy again, or the queue is full.
NotAdmitted(j) ==
    /\ pc[j] = "admit"
    /\ \/ ~QuietAtAdmission /\ Goto(j, "recheck")
       \/ QuietAtAdmission /\ txQueue = TxCap /\ Goto(j, "slot")
    /\ UNCHANGED <<timer, attempts, allowRetry, result, polls, querying, waitVars, histVars,
                   rfBeaconMu, lastRx, heard, txQueue, stopped>>

\* waitForBeaconOutcome takes any branch that is ready, so a result may lose
\* to the stop or to the end of the window; clearBeaconExpectation removes the
\* registration only if it is still this goroutine's.
Conclude(j) ==
    /\ pc[j] = "await"
    /\ expect' = IF expect = j THEN None ELSE expect
    /\ \/ /\ stopped
          /\ Return(j)
          /\ UNCHANGED polls
       \/ /\ result[j] = "true" \/ timer[j] = 0
          /\ Return(j)
          /\ polls' = [polls EXCEPT ![j] = IF Verify THEN MaxTries ELSE 0]
       \/ /\ result[j] = "false"
          /\ Goto(j, "backoff")
          /\ Sleep(j, RetryInterval)
          /\ UNCHANGED <<polls, rfBeaconMu>>
    /\ UNCHANGED <<attempts, allowRetry, result, querying, expectAge, histVars,
                   lastRx, heard, txQueue, stopped>>

-----------------------------------------------------------------------------
(* runAprsFiVerification: a goroutine that sleeps, asks aprs.fi whether    *)
(* the beacon of j was seen, and in the end retries a beacon that allows   *)
(* it.  The stop ends its sleep but not a query under way.                 *)

Query(j) ==
    /\ polls[j] > 0
    /\ j \notin querying
    /\ ~stopped
    /\ querying' = querying \cup {j}
    /\ UNCHANGED <<pc, timer, attempts, allowRetry, result, polls, waitVars,
                   histVars, rfBeaconMu, lastRx, heard, txQueue, stopped>>

Confirmed(j) ==
    /\ j \in querying
    /\ querying' = querying \ {j}
    /\ polls' = [polls EXCEPT ![j] = 0]
    /\ UNCHANGED <<pc, timer, attempts, allowRetry, result, waitVars, histVars,
                   rfBeaconMu, lastRx, heard, txQueue, stopped>>

\* Mutant: a retry may itself be retried.
MayRetry_Always(j) == TRUE
MayRetry(j) == allowRetry[j]

NotConfirmed(j) ==
    /\ j \in querying
    /\ querying' = querying \ {j}
    /\ polls' = [polls EXCEPT ![j] = @ - 1]
    /\ IF polls[j] = 1 /\ MayRetry(j)
       THEN \E k \in Jobs : Launch(k, FALSE)
       ELSE UNCHANGED <<pc, allowRetry>>
    /\ UNCHANGED <<timer, attempts, result, waitVars, histVars,
                   rfBeaconMu, lastRx, heard, txQueue, stopped>>

StopVerification(j) ==
    /\ stopped
    /\ polls[j] > 0
    /\ j \notin querying
    /\ polls' = [polls EXCEPT ![j] = 0]
    /\ UNCHANGED <<pc, timer, attempts, allowRetry, result, querying, waitVars,
                   histVars, rfBeaconMu, lastRx, heard, txQueue, stopped>>

-----------------------------------------------------------------------------
(* The listener: markRx on reception, observeBeacon after the packet has   *)
(* been dealt with, which may take as long as the forward queue is full.   *)

Hear(packet) ==
    /\ heard = "nothing"
    /\ lastRx' = 0
    /\ heard' = packet
    /\ overtaken' = FALSE
    /\ UNCHANGED <<jobVars, waitVars, rfBeaconMu, txQueue, stopped, sentAfterStop>>

\* A result is sent only if the channel has room, and the entry is deleted.
Report(verdict) ==
    /\ result' = [j \in Jobs |->
           IF j = expect /\ result[j] = "empty" THEN verdict ELSE result[j]]
    /\ expect' = None

\* observeBeacon: an echo confirms, anything else within the window of the
\* registration is a collision.  Some packets never get this far.
Observe ==
    /\ heard # "nothing"
    /\ heard' = "nothing"
    /\ overtaken' = FALSE
    /\ \/ UNCHANGED <<result, expect>>
       \/ heard = "echo" /\ Report("true")
       \/ heard = "other" /\ expectAge <= CollisionWindow /\ Report("false")
    /\ UNCHANGED <<pc, timer, attempts, allowRetry, polls, querying, expectAge, rfBeaconMu,
                   lastRx, txQueue, stopped, sentAfterStop>>

-----------------------------------------------------------------------------
(* The transmitter, the other users of its queue, the stop and the clock.  *)

Transmit ==
    /\ txQueue > 0
    /\ txQueue' = txQueue - 1
    /\ UNCHANGED <<jobVars, waitVars, histVars, rfBeaconMu, lastRx, heard, stopped>>

OtherFrame ==
    /\ txQueue < TxCap
    /\ txQueue' = txQueue + 1
    /\ UNCHANGED <<jobVars, waitVars, histVars, rfBeaconMu, lastRx, heard, stopped>>

Stop ==
    /\ ~stopped
    /\ stopped' = TRUE
    /\ UNCHANGED <<jobVars, waitVars, histVars, rfBeaconMu, lastRx, heard, txQueue>>

\* cancelPendingBeacon, some time after the stop channel is closed.
CancelPendingBeacon ==
    /\ stopped
    /\ expect # None
    /\ Report("false")
    /\ UNCHANGED <<pc, timer, attempts, allowRetry, polls, querying, expectAge, histVars,
                   rfBeaconMu, lastRx, heard, txQueue, stopped>>

Tick ==
    /\ timer' = [j \in Jobs |-> IF timer[j] > 0 THEN timer[j] - 1 ELSE 0]
    /\ lastRx' = IF lastRx < Quiet THEN lastRx + 1 ELSE Quiet
    /\ expectAge' = IF expectAge <= CollisionWindow /\ expect # None
                    THEN expectAge + 1 ELSE expectAge
    /\ UNCHANGED <<pc, attempts, allowRetry, result, polls, querying, expect, histVars,
                   rfBeaconMu, heard, txQueue, stopped>>

-----------------------------------------------------------------------------
Step(j) ==
    \/ Lock(j) \/ CheckQuiet(j) \/ Wake(j) \/ Again(j) \/ StopSleep(j)
    \/ Admit(j) \/ NotAdmitted(j) \/ Conclude(j)

Verification(j) == Query(j) \/ Confirmed(j) \/ NotConfirmed(j) \/ StopVerification(j)

Listener == (\E packet \in {"echo", "other"} : Hear(packet)) \/ Observe

Environment == Transmit \/ OtherFrame \/ Stop \/ CancelPendingBeacon \/ Tick

Next ==
    \/ \E j \in Jobs : StartBeacon(j) \/ Step(j) \/ Verification(j)
    \/ Listener
    \/ Environment

Spec == Init /\ [][Next]_vars

(***************************************************************************)
(* Fairness.  Every goroutine runs, the clock and the transmitter with     *)
(* them; the Go mutex starves nobody.  Instructions take no time that      *)
(* counts: no tick separates a check from what follows it.                 *)
(***************************************************************************)
Running == {"quiet", "recheck", "admit"}

PromptNext == Next /\ ((\E j \in Jobs : pc[j] \in Running) => ~Tick)

Fairness ==
    /\ WF_vars(Tick)
    /\ WF_vars(Transmit)
    /\ \A j \in Jobs :
        /\ SF_vars(Lock(j))
        /\ WF_vars(CheckQuiet(j) \/ Admit(j) \/ NotAdmitted(j) \/ Wake(j) \/ Again(j)
                       \/ StopSleep(j) \/ Conclude(j))

FairSpec == Init /\ [][PromptNext]_vars /\ Fairness

-----------------------------------------------------------------------------
(* Properties. *)

\* Every variable holds a value of its kind.
TypeOK ==
    /\ pc \in [Jobs -> Working \cup {"idle", "lock", "done"}]
    /\ timer \in [Jobs -> Nat]
    /\ attempts \in [Jobs -> 0..MaxAttempts]
    /\ allowRetry \in [Jobs -> BOOLEAN]
    /\ result \in [Jobs -> {"empty", "true", "false"}]
    /\ polls \in [Jobs -> 0..MaxTries]
    /\ querying \subseteq Jobs
    /\ rfBeaconMu \in Jobs \cup {None}
    /\ expect \in Jobs \cup {None}
    /\ expectAge \in 0..(CollisionWindow + 1)
    /\ lastRx \in 0..Quiet
    /\ heard \in {"nothing", "echo", "other"}
    /\ txQueue \in 0..TxCap
    /\ stopped \in BOOLEAN
    /\ overtaken \in BOOLEAN
    /\ sentAfterStop \in Nat

\* What is registered in beaconWaits belongs to the one goroutine inside
\* sendBeaconRf, which is awaiting an outcome its channel does not hold yet:
\* no registration is overwritten, outlives its beacon or is answered twice.
OneExpectation ==
    expect # None =>
        /\ rfBeaconMu = expect
        /\ pc[expect] = "await"
        /\ result[expect] = "empty"

\* A packet received before the beacon was queued is taken for a collision with
\* it only by a listener that was the quiet time late: whatever is received
\* while the beacon waits to be queued puts it off for that long.
PromptVerdictsHold ==
    [][\A j \in Jobs :
         heard = "other" /\ heard' = "nothing" /\ result[j] = "empty" /\ result'[j] = "false"
             => ~overtaken \/ lastRx = Quiet]_vars

\* Verification never sets off a chain: at most one retry for each scheduled
\* beacon that finished.
OneRetryPerBeacon ==
    Cardinality({j \in Jobs : pc[j] # "idle" /\ ~allowRetry[j]})
        <= Cardinality({j \in Jobs : pc[j] = "done" /\ allowRetry[j]})

\* Of all the goroutines running or waiting for the lock when the stop comes,
\* and all that start later, at most one still queues a beacon, and only one.
OneFrameAfterStop == sentAfterStop <= 1

\* The goroutines are interchangeable, so what is shown of any one of them holds
\* of each.
AnyJob == CHOOSE j \in Jobs : TRUE

\* Every beacon under way, or started later, returns after the stop.
ReturnsAfterStop ==
    stopped /\ pc[AnyJob] \notin {"idle", "done"} ~> pc[AnyJob] = "done"

\* Once the channel falls quiet and the others leave the transmit queue alone,
\* every beacon waiting for the lock is sent, or gives up, in the end.  Neither
\* condition can go: waitForTransmitQueueSlot polls, it takes no place in a line.
ReturnsOnQuietChannel ==
    <>[](lastRx = Quiet) /\ <>[][~OtherFrame]_vars
        => (pc[AnyJob] = "lock" ~> pc[AnyJob] = "done")

\* What TestSendBeaconRfDoesNotTreatReceptionWhileWaitingAsCollision says: a
\* packet received before the beacon was queued is no collision with it.
CollisionHeardAfterSend ==
    [][\A j \in Jobs :
         heard = "other" /\ heard' = "nothing" /\ result[j] = "empty" /\ result'[j] = "false"
             => ~overtaken]_vars
=============================================================================
