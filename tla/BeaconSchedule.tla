--------------------------- MODULE BeaconSchedule ---------------------------
(***************************************************************************)
(* Who starts the beacons of Beacon, with both destinations configured:    *)
(* startBeacon uploads a beacon to APRS-IS and then starts one on RF,      *)
(* first within Run and later in a goroutine of its own, and the aprs.fi   *)
(* watchdog starts one on RF when its query says that the station has      *)
(* vanished.  Nothing else of the i-gate runs before the first upload      *)
(* returned.                                                               *)
(*                                                                         *)
(* An upload may never return; a query has a deadline.  The intervals are  *)
(* left open: a ticker may tick whenever its goroutine is waiting for it,  *)
(* as it does for one that was held up.  A beacon that has returned gives  *)
(* its name in Jobs to the next one.                                       *)
(***************************************************************************)
EXTENDS Beacon, FiniteSetsExt

CONSTANTS
    Gap,                \* watchdogLocalGap
    MaxAge              \* watchdog-max-age

ASSUME ScheduleAssumption ==
    /\ Gap \in Nat \ {0}
    /\ MaxAge \in Nat \ {0}

\* Ages are told apart up to the longest time one is compared with.
Old == Max({Gap, MaxAge, Warmup})

\* The zero lastBeaconAttempt, which counts as older than any other.
Never == Old + 1

VARIABLES
    schedule,           \* where startBeacon is, and then its goroutine
    watchdog,           \* where runAprsFiWatchdog is
    lastAttempt,        \* age of lastBeaconAttempt
    attemptAge,         \* the age that the watchdog read before its query
    added               \* history: beacons it started within Gap of lastAttempt

scheduleVars == <<schedule, watchdog, lastAttempt, attemptAge, added>>
allVars == <<vars, scheduleVars>>

\* With a beacon on APRS-IS, scheduleAprsFiVerification does nothing.
ScheduleInit ==
    /\ Init
    /\ ~Verify
    /\ schedule = "initial"
    /\ watchdog = "off"
    /\ lastAttempt = Never
    /\ attemptAge = Never
    /\ added = 0

-----------------------------------------------------------------------------
(* startBeacon. *)

\* The ticker, and sendAprsIs as the first part of sendRF.
BeginUpload ==
    /\ schedule = "waiting"
    /\ schedule' = "uploading"
    /\ UNCHANGED <<vars, watchdog, lastAttempt, attemptAge, added>>

\* The second part, whether the upload failed or not.  When it is the initial
\* one, startBeacon returns and Run starts the watchdog.
FinishUpload ==
    /\ schedule \in {"initial", "uploading"}
    /\ schedule' = "waiting"
    /\ watchdog' = IF schedule = "initial" THEN "waiting" ELSE watchdog
    /\ \E j \in Jobs : StartBeacon(j)
    /\ UNCHANGED <<lastAttempt, attemptAge, added>>

ScheduleStops ==
    /\ stopped
    /\ schedule = "waiting"
    /\ schedule' = "done"
    /\ UNCHANGED <<vars, watchdog, lastAttempt, attemptAge, added>>

-----------------------------------------------------------------------------
(* runAprsFiWatchdog and aprsFiWatchdogTick. *)

\* The age is read before the query, and no more after it.
ReadAge ==
    /\ watchdog = "waiting"
    /\ watchdog' = "querying"
    /\ attemptAge' = lastAttempt
    /\ UNCHANGED <<vars, schedule, lastAttempt, added>>

\* Mutant: a recent attempt does not hold the watchdog back.
AllowLocalRetry_Always == TRUE
AllowLocalRetry == attemptAge >= Gap

\* Mutant: a station that aprs.fi has no position of is left alone.
Vanished_Known(answer) ==
    \/ answer = "error" /\ attemptAge >= MaxAge
    \/ answer = "stale"
    \/ answer = "before" /\ attemptAge # Never /\ 2 * attemptAge > MaxAge

\* The query failed, or aprs.fi has no position, an old one, one from before the
\* last attempt, or a recent one.
Vanished(answer) ==
    \/ answer = "error" /\ attemptAge >= MaxAge
    \/ answer \in {"none", "stale"}
    \/ answer = "before" /\ attemptAge # Never /\ 2 * attemptAge > MaxAge

Answers == {"error", "none", "stale", "before", "recent"}

Answered(answer) ==
    /\ watchdog = "querying"
    /\ watchdog' = "waiting"
    /\ attemptAge' = Never
    /\ IF AllowLocalRetry /\ Vanished(answer)
       THEN /\ \E j \in Jobs : StartBeacon(j)
            /\ added' = IF lastAttempt < Gap THEN added + 1 ELSE added
       ELSE UNCHANGED <<vars, added>>
    /\ UNCHANGED <<schedule, lastAttempt>>

WatchdogStops ==
    /\ stopped
    /\ watchdog = "waiting"
    /\ watchdog' = "done"
    /\ UNCHANGED <<vars, schedule, lastAttempt, attemptAge, added>>

-----------------------------------------------------------------------------
(* The beacons: what is queued is recorded under the same locks.           *)

Attempted(j) ==
    /\ Admit(j)
    /\ lastAttempt' = 0
    /\ added' = 0
    /\ UNCHANGED <<schedule, watchdog, attemptAge>>

Proceed(j) ==
    /\ \/ Lock(j) \/ CheckQuiet(j) \/ Wake(j) \/ Again(j) \/ StopSleep(j)
       \/ NotAdmitted(j) \/ Conclude(j)
    /\ UNCHANGED scheduleVars

\* A name is free as soon as its goroutine has returned.
Reuse(j) ==
    /\ pc[j] = "done"
    /\ Goto(j, "idle")
    /\ attempts' = [attempts EXCEPT ![j] = 0]
    /\ allowRetry' = [allowRetry EXCEPT ![j] = FALSE]
    /\ result' = [result EXCEPT ![j] = "empty"]
    /\ UNCHANGED <<timer, polls, querying, waitVars, histVars, rfBeaconMu, lastRx, heard,
                   txQueue, stopped, scheduleVars>>

\* The rest, which may not take time from an instruction (see PromptNext).
Surroundings ==
    /\ \/ schedule # "initial" /\ Listener
       \/ Transmit \/ OtherFrame \/ Stop \/ CancelPendingBeacon
    /\ UNCHANGED scheduleVars

Later ==
    /\ \A j \in Jobs : pc[j] \notin Running
    /\ Tick
    /\ lastAttempt' = IF lastAttempt < Old THEN lastAttempt + 1 ELSE lastAttempt
    /\ added' = IF lastAttempt' < Gap THEN added ELSE 0
    /\ UNCHANGED <<schedule, watchdog, attemptAge>>

ScheduleNext ==
    IF \E j \in Jobs : pc[j] = "done"
    THEN \E j \in Jobs : Reuse(j)
    ELSE \/ \E j \in Jobs : Attempted(j) \/ Proceed(j)
         \/ BeginUpload \/ FinishUpload \/ ScheduleStops
         \/ ReadAge \/ (\E answer \in Answers : Answered(answer)) \/ WatchdogStops
         \/ Surroundings
         \/ Later

(***************************************************************************)
(* Fairness, as in Beacon; the watchdog's ticker ticks and its queries     *)
(* end.  Uploads have none, and the schedule may wait for one for ever.    *)
(***************************************************************************)
ScheduleFairness ==
    /\ WF_allVars(Later)
    /\ WF_allVars(Transmit /\ UNCHANGED scheduleVars)
    /\ WF_allVars(ReadAge)
    /\ WF_allVars(\E answer \in Answers : Answered(answer))
    /\ \A j \in Jobs :
        /\ SF_allVars(Lock(j) /\ UNCHANGED scheduleVars)
        /\ WF_allVars(Attempted(j) \/ Proceed(j) \/ Reuse(j))

ScheduleSpec == ScheduleInit /\ [][ScheduleNext]_allVars /\ ScheduleFairness

-----------------------------------------------------------------------------
(* Properties. *)

\* The variables hold values of their kind; the watchdog starts when the first
\* upload has returned, and has an age in hand only while it is asking.
ScheduleTypeOK ==
    /\ TypeOK
    /\ schedule \in {"initial", "waiting", "uploading", "done"}
    /\ watchdog \in {"off", "waiting", "querying", "done"}
    /\ watchdog = "off" <=> schedule = "initial"
    /\ lastAttempt \in 0..Never
    /\ attemptAge \in 0..Never
    /\ attemptAge # Never => watchdog = "querying"
    /\ added \in Nat

\* A beacon queued while the watchdog is asking is not in the age it decides by,
\* so it may start another at once.  That happens once: until the gap after that
\* beacon is over, or another beacon is queued, it starts no second one, however
\* its queries end and however soon it asks again.
WatchdogAddsOnce == added <= 1

\* Beacons pile up behind a busy channel, from the schedule and the watchdog,
\* yet two are never queued closer together than a warm-up.
BeaconsSpaced ==
    [][\A j \in Jobs : pc[j] = "admit" /\ pc'[j] = "await" => lastAttempt >= Warmup]_allVars

\* A station that aprs.fi does not see, or that cannot ask it, sends a beacon
\* again and again once the channel is quiet and the others leave the queue
\* alone, also when the schedule hangs in an upload; only the first upload,
\* which Run waits for, has to return.
OnTheAir ==
    /\ <>[](lastRx = Quiet /\ ~stopped /\ schedule # "initial")
    /\ <>[][~OtherFrame]_allVars
    /\ <>[][watchdog = "querying" /\ watchdog' = "waiting" =>
              \E answer \in {"error", "none", "stale"} : Answered(answer)]_allVars
    => []<>(lastAttempt = 0)
=============================================================================
