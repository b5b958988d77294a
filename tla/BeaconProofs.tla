---------------------------- MODULE BeaconProofs ----------------------------
(***************************************************************************)
(* What holds of the RF beacons whatever the number of goroutines, of      *)
(* attempts and of queries, and whatever the windows and the capacity of   *)
(* the queue.                                                              *)
(*                                                                         *)
(* The inductive invariant says who is inside sendBeaconRf (the holder of  *)
(* the mutex, and nobody else), when a verification may still be running   *)
(* (for a beacon that has returned), and what the stop leaves able to send *)
(* (the holder, if it was past its last sleep).                            *)
(***************************************************************************)
EXTENDS BeaconSchedule, FiniteSetTheorems, TLAPS

\* Between lock and unlock, and only there, a goroutine holds rfBeaconMu.
HolderWorks == \A j \in Jobs : pc[j] \in Working <=> rfBeaconMu = j

\* Queries are made for beacons that have returned.
VerifiedWhenDone ==
    /\ \A j \in Jobs : polls[j] > 0 => pc[j] = "done"
    /\ \A j \in querying : polls[j] > 0

\* No frame before the stop counts; the one after it leaves nobody who could
\* queue another without sleeping first.
LastFrameSent ==
    \/ sentAfterStop = 0
    \/ /\ sentAfterStop = 1
       /\ stopped
       /\ \A j \in Jobs : pc[j] \notin {"recheck", "admit"}

\* The beacons launched by a verification, those that have returned, and those
\* of the latter whose verification is over: it has had its one retry, or none.
Retries  == {j \in Jobs : pc[j] # "idle" /\ ~allowRetry[j]}
Returned == {j \in Jobs : pc[j] = "done"}
Spent    == {j \in Returned : allowRetry[j] /\ polls[j] = 0}

RetriesSpent ==
    /\ IsFiniteSet(Returned)
    /\ IsFiniteSet(Retries)
    /\ Cardinality(Retries) <= Cardinality(Spent)

BeaconInv ==
    /\ TypeOK
    /\ HolderWorks
    /\ VerifiedWhenDone
    /\ OneExpectation
    /\ LastFrameSent
    /\ RetriesSpent

-----------------------------------------------------------------------------
(* Typing. *)

LEMMA BeaconTypeInit == Init => TypeOK
  <1> SUFFICES ASSUME Init PROVE TypeOK
    OBVIOUS
  <1>1. /\ pc \in [Jobs -> Working \cup {"idle", "lock", "done"}]
        /\ timer \in [Jobs -> Nat]
        /\ attempts \in [Jobs -> 0..MaxAttempts]
        /\ allowRetry \in [Jobs -> BOOLEAN]
        /\ result \in [Jobs -> {"empty", "true", "false"}]
        /\ polls \in [Jobs -> 0..MaxTries]
    BY BeaconAssumption DEF Init
  <1>2. stopped \in BOOLEAN /\ overtaken \in BOOLEAN
    BY DEF Init
  <1> QED
    BY <1>1, <1>2, BeaconAssumption DEF Init, TypeOK

\* The steps of sendBeaconRf.
LEMMA BeaconTypeStep ==
    ASSUME TypeOK, NEW j \in Jobs, StartBeacon(j) \/ Step(j)
    PROVE  TypeOK'
  <1> USE BeaconAssumption DEF TypeOK, Goto, Sleep, Working, waitVars, histVars
  <1>1. CASE StartBeacon(j)
    BY <1>1 DEF StartBeacon, Launch
  <1>2. CASE Lock(j)
    BY <1>2 DEF Lock
  <1>3. CASE CheckQuiet(j)
    BY <1>3 DEF CheckQuiet, WaitForQuiet, ChannelQuiet
  <1>4. CASE Wake(j)
    BY <1>4 DEF Wake
  <1>5. CASE Again(j)
    <2>1. attempts' \in [Jobs -> 0..MaxAttempts]
      BY <1>5 DEF Again, MayTryAgain
    <2>2. pc' \in [Jobs -> Working \cup {"idle", "lock", "done"}]
          /\ timer' \in [Jobs -> Nat] /\ rfBeaconMu' \in Jobs \cup {None}
      BY <1>5 DEF Again, Return
    <2> QED
      BY <1>5, <2>1, <2>2 DEF Again
  <1>6. CASE StopSleep(j)
    BY <1>6 DEF StopSleep, Return
  <1>7. CASE Admit(j)
    BY <1>7 DEF Admit
  <1>8. CASE NotAdmitted(j)
    BY <1>8 DEF NotAdmitted
  <1>9. CASE Conclude(j)
    <2>1. polls' \in [Jobs -> 0..MaxTries]
      BY <1>9 DEF Conclude
    <2>2. pc' \in [Jobs -> Working \cup {"idle", "lock", "done"}]
          /\ timer' \in [Jobs -> Nat] /\ rfBeaconMu' \in Jobs \cup {None}
      BY <1>9 DEF Conclude, Return
    <2> QED
      BY <1>9, <2>1, <2>2 DEF Conclude
  <1> QED
    BY <1>1, <1>2, <1>3, <1>4, <1>5, <1>6, <1>7, <1>8, <1>9 DEF Step

LEMMA BeaconTypeVerification ==
    ASSUME TypeOK, VerifiedWhenDone, NEW j \in Jobs, Verification(j)
    PROVE  TypeOK'
  <1> USE BeaconAssumption DEF TypeOK, Working, waitVars, histVars
  <1>1. CASE Query(j)
    BY <1>1 DEF Query
  <1>2. CASE Confirmed(j)
    BY <1>2 DEF Confirmed
  <1>3. CASE NotConfirmed(j)
    <2>1. polls' \in [Jobs -> 0..MaxTries]
      BY <1>3 DEF NotConfirmed, VerifiedWhenDone
    <2>2. pc' \in [Jobs -> Working \cup {"idle", "lock", "done"}]
          /\ allowRetry' \in [Jobs -> BOOLEAN]
      BY <1>3 DEF NotConfirmed, Launch, Goto
    <2> QED
      BY <1>3, <2>1, <2>2 DEF NotConfirmed
  <1>4. CASE StopVerification(j)
    BY <1>4 DEF StopVerification
  <1> QED
    BY <1>1, <1>2, <1>3, <1>4 DEF Verification

\* The listener, the transmitter, the stop and the clock.
LEMMA BeaconTypeOthers == TypeOK /\ (Listener \/ Environment) => TypeOK'
  <1> SUFFICES ASSUME TypeOK, Listener \/ Environment PROVE TypeOK'
    OBVIOUS
  <1> USE BeaconAssumption DEF TypeOK, waitVars, histVars
  <1>1. CASE \E packet \in {"echo", "other"} : Hear(packet)
    <2>1. UNCHANGED <<pc, timer, attempts, allowRetry, result, polls, querying>>
      BY <1>1 DEF Hear, jobVars
    <2>2. stopped' \in BOOLEAN /\ overtaken' \in BOOLEAN
      BY <1>1 DEF Hear
    <2> QED
      BY <1>1, <2>1, <2>2 DEF Hear
  <1>2. CASE Observe
    BY <1>2 DEF Observe, Report
  <1>3. CASE Transmit \/ OtherFrame \/ Stop
    <2>1. UNCHANGED <<pc, timer, attempts, allowRetry, result, polls, querying>>
      BY <1>3 DEF Transmit, OtherFrame, Stop, jobVars
    <2>2. stopped' \in BOOLEAN /\ overtaken' \in BOOLEAN
      BY <1>3 DEF Transmit, OtherFrame, Stop
    <2> QED
      BY <1>3, <2>1, <2>2 DEF Transmit, OtherFrame, Stop
  <1>4. CASE CancelPendingBeacon
    BY <1>4 DEF CancelPendingBeacon, Report
  <1>5. CASE Tick
    BY <1>5 DEF Tick
  <1> QED
    BY <1>1, <1>2, <1>3, <1>4, <1>5 DEF Listener, Environment

-----------------------------------------------------------------------------
(* The mutex, the registration and the verification. *)

\* One goroutine is inside sendBeaconRf, and only it can have registered.
Exclusion == HolderWorks /\ VerifiedWhenDone /\ OneExpectation

LEMMA ExclusionInit == Init => Exclusion
  BY BeaconAssumption
  DEF Init, Exclusion, HolderWorks, VerifiedWhenDone, OneExpectation, Working

LEMMA ExclusionStep ==
    ASSUME TypeOK, Exclusion, NEW j \in Jobs, StartBeacon(j) \/ Step(j)
    PROVE  Exclusion'
  <1> USE BeaconAssumption
      DEF TypeOK, Exclusion, HolderWorks, VerifiedWhenDone, OneExpectation, Goto, Working,
          waitVars
  <1>1. CASE StartBeacon(j)
    BY <1>1 DEF StartBeacon, Launch
  <1>2. CASE Lock(j)
    BY <1>2 DEF Lock, RFBeaconFree
  <1>3. CASE CheckQuiet(j)
    BY <1>3 DEF CheckQuiet, WaitForQuiet
  <1>4. CASE Wake(j)
    BY <1>4 DEF Wake
  <1>5. CASE Again(j)
    BY <1>5 DEF Again, Return
  <1>6. CASE StopSleep(j)
    BY <1>6 DEF StopSleep, Return, Sleeping
  <1>7. CASE Admit(j)
    BY <1>7 DEF Admit
  <1>8. CASE NotAdmitted(j)
    BY <1>8 DEF NotAdmitted
  <1>9. CASE Conclude(j)
    <2>1. expect' = None
      BY <1>9 DEF Conclude
    <2>2. HolderWorks'
      BY <1>9 DEF Conclude, Return
    <2>3. VerifiedWhenDone'
      BY <1>9 DEF Conclude, Return
    <2> QED
      BY <2>1, <2>2, <2>3
  <1> QED
    BY <1>1, <1>2, <1>3, <1>4, <1>5, <1>6, <1>7, <1>8, <1>9 DEF Step

LEMMA ExclusionVerification ==
    ASSUME TypeOK, Exclusion, NEW j \in Jobs, Verification(j)
    PROVE  Exclusion'
  <1> USE BeaconAssumption
      DEF TypeOK, Exclusion, HolderWorks, VerifiedWhenDone, OneExpectation, Working, waitVars
  <1>1. CASE Query(j)
    BY <1>1 DEF Query
  <1>2. CASE Confirmed(j)
    BY <1>2 DEF Confirmed
  <1>3. CASE NotConfirmed(j)
    BY <1>3 DEF NotConfirmed, Launch, Goto
  <1>4. CASE StopVerification(j)
    BY <1>4 DEF StopVerification
  <1> QED
    BY <1>1, <1>2, <1>3, <1>4 DEF Verification

LEMMA ExclusionOthers ==
    ASSUME TypeOK, Exclusion, Listener \/ Environment PROVE Exclusion'
  <1> USE BeaconAssumption
      DEF TypeOK, Exclusion, HolderWorks, VerifiedWhenDone, OneExpectation, jobVars, waitVars
  <1>1. CASE \E packet \in {"echo", "other"} : Hear(packet)
    BY <1>1 DEF Hear
  <1>2. CASE Observe
    BY <1>2 DEF Observe, Report
  <1>3. CASE Transmit \/ OtherFrame \/ Stop
    BY <1>3 DEF Transmit, OtherFrame, Stop
  <1>4. CASE CancelPendingBeacon
    BY <1>4 DEF CancelPendingBeacon, Report
  <1>5. CASE Tick
    BY <1>5 DEF Tick
  <1> QED
    BY <1>1, <1>2, <1>3, <1>4, <1>5 DEF Listener, Environment
-----------------------------------------------------------------------------
(* What is queued after the stop. *)

LEMMA LastFrameInit == Init => LastFrameSent
  BY DEF Init, LastFrameSent

LEMMA LastFrameStep ==
    ASSUME TypeOK, Exclusion, LastFrameSent, NEW j \in Jobs, StartBeacon(j) \/ Step(j)
    PROVE  LastFrameSent'
  <1> USE DEF TypeOK, LastFrameSent, Goto, histVars
  <1>1. CASE StartBeacon(j)
    BY <1>1 DEF StartBeacon, Launch
  <1>2. CASE Lock(j)
    BY <1>2 DEF Lock
  <1>3. CASE CheckQuiet(j)
    BY <1>3 DEF CheckQuiet, WaitForQuiet
  <1>4. CASE Wake(j)
    BY <1>4 DEF Wake, TimerWins
  <1>5. CASE Again(j)
    BY <1>5 DEF Again, Return
  <1>6. CASE StopSleep(j)
    BY <1>6 DEF StopSleep, Return
  <1>7. CASE Admit(j)
    <2>1. sentAfterStop = 0
      BY <1>7 DEF Admit
    <2>2. \A i \in Jobs \ {j} : pc[i] \notin Working /\ pc'[i] = pc[i]
      BY <1>7 DEF Admit, Exclusion, HolderWorks, Working
    <2>3. pc'[j] = "await"
      BY <1>7 DEF Admit
    <2>4. \A i \in Jobs : pc'[i] \notin {"recheck", "admit"}
      BY <2>2, <2>3 DEF Working
    <2> QED
      BY <1>7, <2>1, <2>4 DEF Admit
  <1>8. CASE NotAdmitted(j)
    BY <1>8 DEF NotAdmitted
  <1>9. CASE Conclude(j)
    BY <1>9 DEF Conclude, Return
  <1> QED
    BY <1>1, <1>2, <1>3, <1>4, <1>5, <1>6, <1>7, <1>8, <1>9 DEF Step

LEMMA LastFrameVerification ==
    ASSUME TypeOK, LastFrameSent, NEW j \in Jobs, Verification(j)
    PROVE  LastFrameSent'
  <1> USE DEF TypeOK, LastFrameSent, histVars
  <1>1. CASE Query(j) \/ Confirmed(j) \/ StopVerification(j)
    BY <1>1 DEF Query, Confirmed, StopVerification
  <1>2. CASE NotConfirmed(j)
    BY <1>2 DEF NotConfirmed, Launch, Goto
  <1> QED
    BY <1>1, <1>2 DEF Verification

LEMMA LastFrameOthers ==
    ASSUME LastFrameSent, Listener \/ Environment PROVE LastFrameSent'
  BY DEF LastFrameSent, Listener, Hear, Observe, Environment, Transmit, OtherFrame,
         Stop, CancelPendingBeacon, Tick, jobVars, histVars

-----------------------------------------------------------------------------
(* One retry for each beacon that returned. *)

LEMMA RetriesInit == ASSUME Init PROVE RetriesSpent
  <1>1. Retries = {} /\ Spent = {} /\ Returned = {}
    BY DEF Init, Retries, Spent, Returned
  <1> QED
    BY <1>1, FS_EmptySet DEF RetriesSpent

\* What the other steps do: they launch no retry and reopen no verification.
LEMMA RetriesKept ==
    ASSUME RetriesSpent, NEW j,
           Retries' \subseteq Retries, Spent \subseteq Spent',
           Returned' \subseteq Returned \cup {j}
    PROVE  RetriesSpent'
  <1>1. IsFiniteSet(Returned')
    BY FS_AddElement, FS_Subset DEF RetriesSpent
  <1>2. IsFiniteSet(Retries') /\ Cardinality(Retries') <= Cardinality(Retries)
    BY FS_Subset DEF RetriesSpent
  <1>3. IsFiniteSet(Spent') /\ IsFiniteSet(Spent)
    BY <1>1, FS_Subset DEF Spent, RetriesSpent
  <1>4. Cardinality(Spent) <= Cardinality(Spent')
    BY <1>3, FS_Subset
  <1>5. /\ Cardinality(Retries) \in Nat /\ Cardinality(Retries') \in Nat
        /\ Cardinality(Spent) \in Nat /\ Cardinality(Spent') \in Nat
    BY <1>2, <1>3, FS_CardinalityType DEF RetriesSpent
  <1> QED
    BY <1>1, <1>2, <1>4, <1>5 DEF RetriesSpent

\* The last query of j launches k: one retry more, one verification fewer.
LEMMA RetryLaunched ==
    ASSUME RetriesSpent, NEW j, NEW k,
           j \notin Spent, k \notin Retries,
           Retries' = Retries \cup {k}, Spent \cup {j} \subseteq Spent',
           Returned' = Returned
    PROVE  RetriesSpent'
  <1>1. IsFiniteSet(Retries') /\ Cardinality(Retries') = Cardinality(Retries) + 1
    BY FS_AddElement DEF RetriesSpent
  <1>2. IsFiniteSet(Spent) /\ IsFiniteSet(Spent')
    BY FS_Subset DEF Spent, RetriesSpent
  <1>3. IsFiniteSet(Spent \cup {j}) /\ Cardinality(Spent \cup {j}) = Cardinality(Spent) + 1
    BY <1>2, FS_AddElement
  <1>4. Cardinality(Spent \cup {j}) <= Cardinality(Spent')
    BY <1>2, FS_Subset
  <1>5. /\ Cardinality(Retries) \in Nat /\ Cardinality(Spent) \in Nat
        /\ Cardinality(Spent') \in Nat
    BY <1>2, FS_CardinalityType DEF RetriesSpent
  <1> QED
    BY <1>1, <1>3, <1>4, <1>5 DEF RetriesSpent

LEMMA RetriesStep ==
    ASSUME TypeOK, Exclusion, RetriesSpent, NEW j \in Jobs, StartBeacon(j) \/ Step(j)
    PROVE  RetriesSpent'
  <1> USE DEF TypeOK, Goto, Returned, Retries, Spent
  <1>1. /\ Retries' \subseteq Retries
        /\ Spent \subseteq Spent'
        /\ Returned' \subseteq Returned \cup {j}
    <2>1. CASE StartBeacon(j)
      BY <2>1 DEF StartBeacon, Launch
    <2>2. CASE Lock(j)
      BY <2>2 DEF Lock
    <2>3. CASE CheckQuiet(j)
      BY <2>3 DEF CheckQuiet, WaitForQuiet
    <2>4. CASE Wake(j)
      BY <2>4 DEF Wake
    <2>5. CASE Again(j)
      BY <2>5 DEF Again, Return
    <2>6. CASE StopSleep(j)
      BY <2>6 DEF StopSleep, Return, Sleeping
    <2>7. CASE Admit(j)
      BY <2>7 DEF Admit
    <2>8. CASE NotAdmitted(j)
      BY <2>8 DEF NotAdmitted
    <2>9. CASE Conclude(j)
      BY <2>9 DEF Conclude, Return
    <2> QED
      BY <2>1, <2>2, <2>3, <2>4, <2>5, <2>6, <2>7, <2>8, <2>9 DEF Step
  <1> QED
    BY <1>1, RetriesKept DEF RetriesSpent

LEMMA RetriesVerification ==
    ASSUME TypeOK, Exclusion, RetriesSpent, NEW j \in Jobs, Verification(j)
    PROVE  RetriesSpent'
  <1> USE DEF TypeOK, Exclusion, VerifiedWhenDone, Returned, Retries, Spent
  <1>1. CASE NotConfirmed(j) /\ polls[j] = 1 /\ MayRetry(j)
    <2>1. PICK k \in Jobs : Launch(k, FALSE)
      BY <1>1 DEF NotConfirmed
    <2>2. pc[j] = "done" /\ pc[k] = "idle" /\ allowRetry[j]
      BY <1>1, <2>1 DEF NotConfirmed, Launch, MayRetry
    <2>3. /\ pc' = [pc EXCEPT ![k] = "lock"]
          /\ allowRetry' = [allowRetry EXCEPT ![k] = FALSE]
          /\ polls' = [polls EXCEPT ![j] = @ - 1]
      BY <1>1, <2>1 DEF NotConfirmed, Launch, Goto
    <2>4. j \notin Spent /\ k \notin Retries
      BY <1>1, <2>2
    <2>5. Retries' = Retries \cup {k}
      BY <2>3
    <2>6. Spent \cup {j} \subseteq Spent'
      BY <1>1, <2>2, <2>3
    <2>7. Returned' = Returned
      BY <2>2, <2>3
    <2> HIDE DEF Returned, Retries, Spent
    <2> QED
      BY <2>4, <2>5, <2>6, <2>7, RetryLaunched
  <1>2. CASE ~(NotConfirmed(j) /\ polls[j] = 1 /\ MayRetry(j))
    <2>1. /\ UNCHANGED <<pc, allowRetry>>
          /\ \/ UNCHANGED polls
             \/ polls' = [polls EXCEPT ![j] = 0]
             \/ polls[j] > 0 /\ polls' = [polls EXCEPT ![j] = @ - 1]
      BY <1>2 DEF Verification, Query, Confirmed, StopVerification, NotConfirmed
    <2>2. /\ Retries' \subseteq Retries
          /\ Spent \subseteq Spent'
          /\ Returned' \subseteq Returned \cup {j}
      BY <2>1
    <2> HIDE DEF Returned, Retries, Spent
    <2> QED
      BY <2>2, RetriesKept
  <1> QED
    BY <1>1, <1>2

LEMMA RetriesOthers ==
    ASSUME RetriesSpent, Listener \/ Environment PROVE RetriesSpent'
  <1>1. UNCHANGED <<pc, allowRetry, polls>>
    BY DEF Listener, Hear, Observe, Environment, Transmit, OtherFrame, Stop,
           CancelPendingBeacon, Tick, jobVars
  <1> QED
    BY <1>1 DEF RetriesSpent, Returned, Retries, Spent

-----------------------------------------------------------------------------
(* The invariant, and what follows from it. *)

LEMMA BeaconInvInit == Init => BeaconInv
  BY BeaconTypeInit, ExclusionInit, LastFrameInit, RetriesInit DEF BeaconInv, Exclusion

LEMMA BeaconInvNext == BeaconInv /\ [Next]_vars => BeaconInv'
  <1> SUFFICES ASSUME BeaconInv, [Next]_vars PROVE BeaconInv'
    OBVIOUS
  <1>1. TypeOK /\ Exclusion /\ LastFrameSent /\ RetriesSpent
    BY DEF BeaconInv, Exclusion
  <1>2. ASSUME NEW j \in Jobs, StartBeacon(j) \/ Step(j)
        PROVE  TypeOK' /\ Exclusion' /\ LastFrameSent' /\ RetriesSpent'
    BY <1>1, <1>2, BeaconTypeStep, ExclusionStep, LastFrameStep, RetriesStep
  <1>3. ASSUME NEW j \in Jobs, Verification(j)
        PROVE  TypeOK' /\ Exclusion' /\ LastFrameSent' /\ RetriesSpent'
    BY <1>1, <1>3, BeaconTypeVerification, ExclusionVerification,
       LastFrameVerification, RetriesVerification DEF Exclusion
  <1>4. CASE Listener \/ Environment
    BY <1>1, <1>4, BeaconTypeOthers, ExclusionOthers, LastFrameOthers, RetriesOthers
    DEF BeaconInv, Exclusion
  <1>5. CASE UNCHANGED vars
    BY <1>1, <1>5
    DEF BeaconInv, vars, jobVars, waitVars, histVars, TypeOK, HolderWorks, VerifiedWhenDone,
        OneExpectation, LastFrameSent, RetriesSpent, Returned, Retries, Spent
  <1> QED
    BY <1>2, <1>3, <1>4, <1>5 DEF Next, BeaconInv, Exclusion

\* What the listener has in hand when a beacon is queued is the quiet time old,
\* for nothing is received while it has that in hand, and time only passes.
OvertakenIsOld == overtaken => lastRx = Quiet

LEMMA OvertakenStep ==
    ASSUME TypeOK, OvertakenIsOld, [Next]_vars
    PROVE  OvertakenIsOld'
  <1> USE DEF OvertakenIsOld
  <1>1. ASSUME NEW j \in Jobs, StartBeacon(j) \/ Verification(j)
        PROVE  OvertakenIsOld'
    BY <1>1 DEF StartBeacon, Verification, Query, Confirmed, NotConfirmed,
                StopVerification, histVars
  <1>2. ASSUME NEW j \in Jobs, Step(j), ~Admit(j) PROVE OvertakenIsOld'
    BY <1>2 DEF Step, Lock, CheckQuiet, WaitForQuiet, Wake, Again, StopSleep,
                NotAdmitted, Conclude, histVars
  <1>3. ASSUME NEW j \in Jobs, Admit(j) PROVE OvertakenIsOld'
    BY <1>3, BeaconAssumption DEF Admit, QuietAtAdmission, ChannelQuiet, TypeOK
  <1>4. CASE Listener
    BY <1>4 DEF Listener, Hear, Observe
  <1>5. CASE Tick
    BY <1>5, BeaconAssumption DEF Tick, histVars
  <1>6. CASE Environment /\ ~Tick
    BY <1>6 DEF Environment, Transmit, OtherFrame, Stop, CancelPendingBeacon, histVars
  <1>7. CASE UNCHANGED vars
    BY <1>7 DEF vars, histVars
  <1> QED
    BY <1>1, <1>2, <1>3, <1>4, <1>5, <1>6, <1>7 DEF Next

LEMMA BeaconInvariant == Spec => []BeaconInv
  BY BeaconInvInit, BeaconInvNext, PTL DEF Spec

\* Every variable of the RF beacons keeps its type; in particular no goroutine
\* of sendBeaconRf counts more than max-rf-attempts attempts.
THEOREM BeaconTyped == Spec => []TypeOK
  <1>1. BeaconInv => TypeOK
    BY DEF BeaconInv
  <1> QED
    BY <1>1, BeaconInvariant, PTL

\* What is registered in beaconWaits belongs to the goroutine holding
\* rfBeaconMu, which still awaits its outcome: whatever the number of
\* beacons, no registration is overwritten, orphaned or answered twice.
THEOREM OneExpectationAlways == Spec => []OneExpectation
  <1>1. BeaconInv => OneExpectation
    BY DEF BeaconInv
  <1> QED
    BY <1>1, BeaconInvariant, PTL

\* However many beacons run or wait when i.stop is closed, one frame at most
\* is queued after it.
THEOREM OneFrameAfterStopAlways == Spec => []OneFrameAfterStop
  <1>1. BeaconInv => OneFrameAfterStop
    BY DEF BeaconInv, LastFrameSent, OneFrameAfterStop
  <1> QED
    BY <1>1, BeaconInvariant, PTL

\* However long the verifications of aprs.fi fail, there are no more retries
\* than beacons of the schedule or the watchdog that returned.
THEOREM OneRetryPerBeaconAlways == Spec => []OneRetryPerBeacon
  <1>1. BeaconInv => OneRetryPerBeacon
    <2> SUFFICES ASSUME BeaconInv PROVE OneRetryPerBeacon
      OBVIOUS
    <2> DEFINE Scheduled == {j \in Jobs : pc[j] = "done" /\ allowRetry[j]}
    <2>1. IsFiniteSet(Scheduled) /\ Spent \subseteq Scheduled
      BY FS_Subset DEF BeaconInv, RetriesSpent, Returned, Spent
    <2>2. Cardinality(Spent) <= Cardinality(Scheduled) /\ IsFiniteSet(Spent)
      BY <2>1, FS_Subset
    <2>3. /\ Cardinality(Spent) \in Nat /\ Cardinality(Scheduled) \in Nat
          /\ Cardinality(Retries) \in Nat
      BY <2>1, <2>2, FS_CardinalityType DEF BeaconInv, RetriesSpent
    <2>4. Cardinality(Retries) <= Cardinality(Scheduled)
      BY <2>2, <2>3 DEF BeaconInv, RetriesSpent
    <2> QED
      BY <2>4 DEF OneRetryPerBeacon, Retries
  <1> QED
    BY <1>1, BeaconInvariant, PTL

\* A packet received before the beacon was queued is a collision with it only for
\* a listener that observes it the quiet time late: sendRFFramesWhenQuiet, asking
\* again under lastRxMu, puts the beacon off for a packet still in hand.
THEOREM PromptVerdictsHoldAlways == Spec => PromptVerdictsHold
  <1> DEFINE Verdict ==
        \A j \in Jobs :
          heard = "other" /\ heard' = "nothing" /\ result[j] = "empty" /\ result'[j] = "false"
              => (~overtaken \/ lastRx = Quiet)
  <1>1. Init => OvertakenIsOld
    BY DEF Init, OvertakenIsOld
  <1>2. BeaconInv => TypeOK
    BY DEF BeaconInv
  <1>3. BeaconInv /\ OvertakenIsOld /\ [Next]_vars => OvertakenIsOld'
    BY <1>2, OvertakenStep
  <1>4. OvertakenIsOld /\ [Next]_vars => [Verdict]_vars
    BY DEF OvertakenIsOld
  <1> QED
    BY <1>1, <1>3, <1>4, BeaconInvariant, PTL DEF Spec, PromptVerdictsHold

\* Under the fairness of the liveness runs the beacons are still beacons.
LEMMA FairBeacons == FairSpec => Spec
  <1>1. [PromptNext]_vars => [Next]_vars
    BY DEF PromptNext
  <1> QED
    BY <1>1, PTL DEF FairSpec, Spec
-----------------------------------------------------------------------------
(* The schedule and the watchdog. *)

\* No beacon is verified: see ScheduleInit.
Unverified == ~Verify /\ querying = {} /\ (\A j \in Jobs : polls[j] = 0)

\* Whoever may queue a beacon has slept for a warm-up since the last was queued.
WarmedUp ==
    \A j \in Jobs :
        /\ pc[j] = "warmup" => lastAttempt + timer[j] >= Warmup
        /\ pc[j] \in {"recheck", "recheckSleep", "admit", "slot"} => lastAttempt >= Warmup

\* Once the watchdog added a beacon within the gap of the last attempt, the age it
\* has in hand is of that attempt, and holds it back for the rest of the gap.
HeldBack ==
    /\ added \in {0, 1}
    /\ added = 1 => lastAttempt < Gap /\ (watchdog = "querying" => attemptAge < Gap)

ScheduleInv == ScheduleTypeOK /\ Exclusion /\ Unverified /\ WarmedUp /\ HeldBack

LEMMA OldFacts ==
    /\ Old \in Nat /\ Gap \in Nat /\ MaxAge \in Nat /\ Warmup \in Nat
    /\ Gap <= Old /\ MaxAge <= Old /\ Warmup <= Old
  <1> DEFINE Ages == {Gap, MaxAge, Warmup}
  <1>1. Gap \in Nat /\ MaxAge \in Nat /\ Warmup \in Nat
    BY ScheduleAssumption, BeaconAssumption
  <1>2. \E a \in Ages : \A b \in Ages : a >= b
    BY <1>1
  <1>3. Old \in Ages /\ \A b \in Ages : Old >= b
    <2> HIDE DEF Ages
    <2>1. Max(Ages) \in Ages /\ \A b \in Ages : Max(Ages) >= b
      BY <1>2 DEF Max
    <2> QED
      BY <2>1 DEF Ages, Old
  <1> QED
    BY <1>1, <1>3

LEMMA ScheduleInvInit == ScheduleInit => ScheduleInv
  <1> SUFFICES ASSUME ScheduleInit PROVE ScheduleInv
    OBVIOUS
  <1>1. TypeOK /\ Exclusion
    BY BeaconTypeInit, ExclusionInit DEF ScheduleInit
  <1>2. ScheduleTypeOK
    BY <1>1, OldFacts DEF ScheduleInit, ScheduleTypeOK, Never
  <1>3. Unverified /\ WarmedUp
    BY DEF ScheduleInit, Init, Unverified, WarmedUp
  <1>4. HeldBack
    BY DEF ScheduleInit, HeldBack
  <1> QED
    BY <1>1, <1>2, <1>3, <1>4 DEF ScheduleInv

\* What a step is to the beacons, and what it does to the last attempt.
LEMMA ScheduleSteps ==
    ASSUME [ScheduleNext]_allVars
    PROVE  \/ \E j \in Jobs : Reuse(j)
           \/ (\E j \in Jobs : StartBeacon(j)) /\ lastAttempt' = lastAttempt
           \/ (\E j \in Jobs : Admit(j)) /\ lastAttempt' = 0
           \/ (\E j \in Jobs : Proceed(j))
           \/ Listener /\ lastAttempt' = lastAttempt
           \/ /\ Transmit \/ OtherFrame \/ Stop \/ CancelPendingBeacon
              /\ lastAttempt' = lastAttempt
           \/ Later
           \/ UNCHANGED vars /\ lastAttempt' = lastAttempt
  <1>1. CASE UNCHANGED allVars
    BY <1>1 DEF allVars, scheduleVars
  <1>2. CASE \E j \in Jobs : Attempted(j) \/ Proceed(j)
    BY <1>2 DEF Attempted
  <1>3. CASE BeginUpload \/ FinishUpload \/ ScheduleStops
    BY <1>3 DEF BeginUpload, FinishUpload, ScheduleStops
  <1>4. CASE ReadAge \/ (\E answer \in Answers : Answered(answer)) \/ WatchdogStops
    BY <1>4 DEF ReadAge, Answered, WatchdogStops
  <1>5. CASE Surroundings
    BY <1>5 DEF Surroundings, scheduleVars
  <1> QED
    BY <1>1, <1>2, <1>3, <1>4, <1>5 DEF ScheduleNext

LEMMA ReuseKept ==
    ASSUME TypeOK, Exclusion, Unverified, WarmedUp, NEW j \in Jobs, Reuse(j)
    PROVE  TypeOK' /\ Exclusion' /\ Unverified' /\ WarmedUp'
  <1>1. /\ pc[j] = "done"
        /\ pc' = [pc EXCEPT ![j] = "idle"]
        /\ attempts' = [attempts EXCEPT ![j] = 0]
        /\ allowRetry' = [allowRetry EXCEPT ![j] = FALSE]
        /\ result' = [result EXCEPT ![j] = "empty"]
        /\ UNCHANGED <<timer, polls, querying, expect, expectAge, overtaken, sentAfterStop,
                       rfBeaconMu, lastRx, heard, txQueue, stopped, lastAttempt>>
    BY DEF Reuse, Goto, waitVars, histVars, scheduleVars
  <1>2. TypeOK'
    BY <1>1, BeaconAssumption DEF TypeOK
  <1>3. Exclusion'
    BY <1>1, BeaconAssumption
    DEF TypeOK, Exclusion, HolderWorks, VerifiedWhenDone, OneExpectation, Unverified, Working
  <1>4. Unverified' /\ WarmedUp'
    BY <1>1 DEF TypeOK, Unverified, WarmedUp
  <1> QED
    BY <1>2, <1>3, <1>4

\* The rest of sendBeaconRf, between one frame and the next.
LEMMA ProceedKept ==
    ASSUME TypeOK, Unverified, WarmedUp, lastAttempt \in Nat, NEW j \in Jobs, Proceed(j)
    PROVE  Step(j) /\ Unverified' /\ WarmedUp'
  <1> USE DEF TypeOK, Unverified, WarmedUp, Goto, Sleep
  <1>1. lastAttempt' = lastAttempt
    BY DEF Proceed, scheduleVars
  <1>2. CASE Lock(j)
    BY <1>1, <1>2 DEF Step, Lock
  <1>3. CASE CheckQuiet(j)
    BY <1>1, <1>3, BeaconAssumption DEF Step, CheckQuiet, WaitForQuiet
  <1>4. CASE Wake(j)
    BY <1>1, <1>4 DEF Step, Wake, TimerWins
  <1>5. CASE Again(j)
    BY <1>1, <1>5 DEF Step, Again, Return
  <1>6. CASE StopSleep(j)
    BY <1>1, <1>6 DEF Step, StopSleep, Return
  <1>7. CASE NotAdmitted(j)
    BY <1>1, <1>7 DEF Step, NotAdmitted
  <1>8. CASE Conclude(j)
    <2>1. \A i \in Jobs : polls'[i] = 0
      BY <1>8 DEF Conclude
    <2>2. ~Verify /\ querying' = {}
      BY <1>8 DEF Conclude
    <2>3. WarmedUp'
      BY <1>1, <1>8 DEF Conclude, Return
    <2> QED
      BY <1>8, <2>1, <2>2, <2>3 DEF Step
  <1> QED
    BY <1>2, <1>3, <1>4, <1>5, <1>6, <1>7, <1>8 DEF Proceed

LEMMA ScheduleBeaconsKept ==
    ASSUME ScheduleInv, [ScheduleNext]_allVars
    PROVE  TypeOK' /\ Exclusion' /\ Unverified' /\ WarmedUp'
  <1>0. TypeOK /\ Exclusion /\ Unverified /\ WarmedUp /\ lastAttempt \in 0..Never
    BY DEF ScheduleInv, ScheduleTypeOK
  <1>1. lastAttempt \in Nat
    BY <1>0
  <1>2. ASSUME NEW j \in Jobs, StartBeacon(j), lastAttempt' = lastAttempt
        PROVE  TypeOK' /\ Exclusion' /\ Unverified' /\ WarmedUp'
    <2>1. TypeOK' /\ Exclusion'
      BY <1>0, <1>2, BeaconTypeStep, ExclusionStep
    <2>2. Unverified' /\ WarmedUp'
      BY <1>0, <1>2 DEF StartBeacon, Launch, Goto, TypeOK, Unverified, WarmedUp
    <2> QED
      BY <2>1, <2>2
  <1>3. ASSUME NEW j \in Jobs, Admit(j), lastAttempt' = 0
        PROVE  TypeOK' /\ Exclusion' /\ Unverified' /\ WarmedUp'
    <2>1. TypeOK' /\ Exclusion'
      BY <1>0, <1>3, BeaconTypeStep, ExclusionStep DEF Step
    <2>2. Unverified'
      BY <1>3, <1>0 DEF Admit, Unverified
    <2>3. ASSUME NEW i \in Jobs PROVE pc'[i] \in {"await"} \/ pc'[i] \notin Working
      BY <1>0, <1>3 DEF Admit, Goto, TypeOK, Exclusion, HolderWorks, Working
    <2>4. WarmedUp'
      BY <2>3 DEF WarmedUp, Working
    <2> QED
      BY <2>1, <2>2, <2>4
  <1>4. ASSUME NEW j \in Jobs, Proceed(j)
        PROVE  TypeOK' /\ Exclusion' /\ Unverified' /\ WarmedUp'
    BY <1>0, <1>1, <1>4, ProceedKept, BeaconTypeStep, ExclusionStep
  <1>5. ASSUME Listener \/ Transmit \/ OtherFrame \/ Stop \/ CancelPendingBeacon,
               lastAttempt' = lastAttempt
        PROVE  TypeOK' /\ Exclusion' /\ Unverified' /\ WarmedUp'
    <2>1. TypeOK' /\ Exclusion'
      BY <1>0, <1>5, BeaconTypeOthers, ExclusionOthers DEF Environment
    <2>2. UNCHANGED <<pc, timer, polls, querying>>
      BY <1>5 DEF Listener, Hear, Observe, Transmit, OtherFrame, Stop, CancelPendingBeacon,
                  jobVars
    <2>3. Unverified' /\ WarmedUp'
      BY <1>0, <1>5, <2>2 DEF Unverified, WarmedUp
    <2> QED
      BY <2>1, <2>3
  <1>6. ASSUME Later
        PROVE  TypeOK' /\ Exclusion' /\ Unverified' /\ WarmedUp'
    <2>1. Tick /\ lastAttempt' = IF lastAttempt < Old THEN lastAttempt + 1 ELSE lastAttempt
      BY <1>6 DEF Later
    <2>2. TypeOK' /\ Exclusion'
      BY <1>0, <2>1, BeaconTypeOthers, ExclusionOthers DEF Environment
    <2>3. Unverified'
      BY <1>0, <2>1 DEF Tick, Unverified
    <2>4. WarmedUp'
      BY <1>0, <1>1, <2>1, OldFacts DEF Tick, TypeOK, WarmedUp
    <2> QED
      BY <2>2, <2>3, <2>4
  <1>7. ASSUME UNCHANGED vars, lastAttempt' = lastAttempt
        PROVE  TypeOK' /\ Exclusion' /\ Unverified' /\ WarmedUp'
    BY <1>0, <1>7
    DEF vars, jobVars, waitVars, histVars, TypeOK, Exclusion, HolderWorks, VerifiedWhenDone,
        OneExpectation, Unverified, WarmedUp
  <1>8. ASSUME NEW j \in Jobs, Reuse(j)
        PROVE  TypeOK' /\ Exclusion' /\ Unverified' /\ WarmedUp'
    BY <1>0, <1>8, ReuseKept
  <1> QED
    BY <1>2, <1>3, <1>4, <1>5, <1>6, <1>7, <1>8, ScheduleSteps

LEMMA ScheduleVarsKept ==
    ASSUME ScheduleInv, [ScheduleNext]_allVars
    PROVE  /\ schedule' \in {"initial", "waiting", "uploading", "done"}
           /\ watchdog' \in {"off", "waiting", "querying", "done"}
           /\ watchdog' = "off" <=> schedule' = "initial"
           /\ lastAttempt' \in 0..Never
           /\ attemptAge' \in 0..Never
           /\ attemptAge' # Never => watchdog' = "querying"
           /\ added' \in Nat
  <1> USE OldFacts DEF ScheduleInv, ScheduleTypeOK, Never
  <1>1. CASE UNCHANGED scheduleVars
    BY <1>1 DEF scheduleVars
  <1>2. CASE \E j \in Jobs : Attempted(j)
    BY <1>2 DEF Attempted
  <1>3. CASE BeginUpload \/ ScheduleStops
    BY <1>3 DEF BeginUpload, ScheduleStops
  <1>4. CASE FinishUpload
    BY <1>4 DEF FinishUpload
  <1>5. CASE ReadAge
    BY <1>5 DEF ReadAge
  <1>6. CASE \E answer \in Answers : Answered(answer)
    BY <1>6 DEF Answered
  <1>7. CASE WatchdogStops
    BY <1>7 DEF WatchdogStops
  <1>8. CASE Later
    BY <1>8 DEF Later
  <1> QED
    BY <1>1, <1>2, <1>3, <1>4, <1>5, <1>6, <1>7, <1>8
    DEF ScheduleNext, allVars, Reuse, Proceed, Surroundings, scheduleVars

LEMMA HeldBackStep ==
    ASSUME ScheduleInv, [ScheduleNext]_allVars
    PROVE  HeldBack'
  <1>0. /\ HeldBack /\ lastAttempt \in Nat /\ attemptAge \in Nat
        /\ Gap \in Nat \ {0} /\ Gap <= Old /\ Old \in Nat
    BY OldFacts, ScheduleAssumption DEF ScheduleInv, ScheduleTypeOK, Never
  <1> USE DEF HeldBack
  <1>1. CASE UNCHANGED scheduleVars
    BY <1>0, <1>1 DEF scheduleVars
  <1>2. CASE \E j \in Jobs : Attempted(j)
    BY <1>2 DEF Attempted
  <1>3. CASE BeginUpload \/ ScheduleStops \/ WatchdogStops
    BY <1>0, <1>3 DEF BeginUpload, ScheduleStops, WatchdogStops
  <1>4. CASE FinishUpload
    BY <1>0, <1>4 DEF FinishUpload, ScheduleInv, ScheduleTypeOK
  <1>5. CASE ReadAge
    BY <1>0, <1>5 DEF ReadAge
  <1>6. ASSUME NEW answer \in Answers, Answered(answer) PROVE HeldBack'
    <2>1. watchdog = "querying" /\ watchdog' = "waiting" /\ lastAttempt' = lastAttempt
      BY <1>6 DEF Answered
    <2>2. CASE added = 1
      BY <1>0, <1>6, <2>1, <2>2 DEF Answered, AllowLocalRetry
    <2>3. CASE added = 0
      BY <1>0, <1>6, <2>1, <2>3 DEF Answered
    <2> QED
      BY <1>0, <2>2, <2>3
  <1>7. CASE Later
    BY <1>0, <1>7 DEF Later
  <1> QED
    BY <1>1, <1>2, <1>3, <1>4, <1>5, <1>6, <1>7
    DEF ScheduleNext, allVars, Reuse, Proceed, Surroundings, scheduleVars

LEMMA ScheduleInvNext == ScheduleInv /\ [ScheduleNext]_allVars => ScheduleInv'
  <1> SUFFICES ASSUME ScheduleInv, [ScheduleNext]_allVars PROVE ScheduleInv'
    OBVIOUS
  <1>1. TypeOK' /\ Exclusion' /\ Unverified' /\ WarmedUp'
    BY ScheduleBeaconsKept
  <1>2. ScheduleTypeOK'
    BY <1>1, ScheduleVarsKept DEF ScheduleTypeOK
  <1>3. HeldBack'
    BY HeldBackStep
  <1> QED
    BY <1>1, <1>2, <1>3 DEF ScheduleInv

LEMMA ScheduleInvariant == ScheduleSpec => []ScheduleInv
  BY ScheduleInvInit, ScheduleInvNext, PTL DEF ScheduleSpec

\* The beacons started by startBeacon and the watchdog keep their types, and
\* so do the schedule, the watchdog and the age it holds during a query.
THEOREM ScheduleTyped == ScheduleSpec => []ScheduleTypeOK
  <1>1. ScheduleInv => ScheduleTypeOK
    BY DEF ScheduleInv
  <1> QED
    BY <1>1, ScheduleInvariant, PTL

\* However many beacons the schedule and the watchdog pile up behind a busy
\* channel, two are never queued closer together than beaconWarmup: rfBeaconMu
\* is held from before the warm-up until after the frame is queued.
THEOREM BeaconsSpacedAlways == ScheduleSpec => BeaconsSpaced
  <1> DEFINE Spaced == \A j \in Jobs : pc[j] = "admit" /\ pc'[j] = "await"
                                           => lastAttempt >= Warmup
  <1>1. ScheduleInv /\ [ScheduleNext]_allVars => [Spaced]_allVars
    BY DEF ScheduleInv, WarmedUp
  <1> QED
    BY <1>1, ScheduleInvariant, PTL DEF ScheduleSpec, BeaconsSpaced

\* An age read before the query lets aprsFiWatchdogTick start one beacon too many
\* after an attempt made during the query, and never two within watchdogLocalGap
\* of it, whatever aprs.fi answers and however close together its ticks are.
THEOREM WatchdogAddsOnceAlways == ScheduleSpec => []WatchdogAddsOnce
  <1>1. ScheduleInv => WatchdogAddsOnce
    BY DEF ScheduleInv, HeldBack, WatchdogAddsOnce
  <1> QED
    BY <1>1, ScheduleInvariant, PTL
=============================================================================
