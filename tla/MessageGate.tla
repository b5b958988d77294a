---------------------------- MODULE MessageGate -----------------------------
(***************************************************************************)
(* The APRS-IS to RF message gate of internal/igate: the goroutine of      *)
(* gateMessagesToRF with the goroutines it shares state with, namely the   *)
(* RF listener (listenForMessages), one other RF sender (SendRF) and the   *)
(* transmitter loop that drains Tx.Chan.                                   *)
(*                                                                         *)
(* Time.  The code keeps the moment something was last heard and compares  *)
(* its age with a timeout.  The model keeps the age itself, saturating at  *)
(* the first value every comparison treats as expired: an absent entry, an *)
(* expired one and one already pruned are the same state, as they are for  *)
(* every lookup.  A pending message keeps the time left until it is due.   *)
(* Tick may come between any two steps.                                    *)
(***************************************************************************)
EXTENDS Integers, Sequences, FiniteSets

CONSTANTS
    Stations,       \* callsigns
    MyCall,         \* this station's callsign
    Messages,       \* message keys: "SOURCE>DESTINATION:payload"
    Source,         \* the sender of each message
    Destination,    \* the addressee of each message
    None,           \* no station, no message
    InternetTraffic,\* the packets APRS-IS may deliver, a subset of Packets
    RFTraffic,      \* the frames RF may deliver, a subset of Receptions
    Timeout,        \* local-station-timeout
    Window,         \* message-dedup-window
    GateDelay,      \* message-gate-delay
    Interval,       \* message-rf-interval
    InboundCap,     \* capacity of AprsIs.Inbound
    TxCap           \* capacity of Tx.Chan

(***************************************************************************)
(* An APRS-IS packet, as far as the gate tells packets apart.  "wrapped"   *)
(* is a third-party packet whose inner path shows TCPIP or TCPXX: src is   *)
(* the gateway that sent it and inner the station (and perhaps the         *)
(* message) inside it.                                                     *)
(***************************************************************************)
Plain ==
    [type : {"message"}, msg : Messages, noGate : BOOLEAN]
        \cup [type : {"position", "other"}, src : Stations]

Packets == Plain \cup [type : {"wrapped"}, src : Stations, inner : Plain]

(***************************************************************************)
(* What one decoded RF frame teaches the gate: the station heard directly, *)
(* if it was direct and not third-party, and the message it carried, by    *)
(* itself or wrapped by another i-gate.                                    *)
(***************************************************************************)
Receptions == [station : Stations \cup {None}, msg : Messages \cup {None}]

ASSUME TimeAssumption ==
    /\ Timeout \in Nat
    /\ Window \in Nat
    /\ GateDelay \in Nat
    /\ Interval \in Nat

ASSUME QueueAssumption ==
    /\ InboundCap \in Nat \ {0}
    /\ TxCap \in Nat \ {0}

ASSUME TrafficAssumption ==
    /\ None \notin Stations \cup Messages
    /\ Source \in [Messages -> Stations]
    /\ Destination \in [Messages -> Stations]
    /\ InternetTraffic \subseteq Packets
    /\ RFTraffic \subseteq Receptions

VARIABLES
    localHeard,     \* age of localStations[s]
    rfHeard,        \* age of rfMessages[m]
    inetHeard,      \* age of internetStations[s]
    inetPosition,   \* age of internetPositionTimes[s]
    inetGated,      \* age of internetGatedMessages[m]
    dedupe,         \* age of messageDedupe[m]
    pending,        \* the keys of pendingGatedMessages
    due,            \* time left until a pending message is due
    lastRF,         \* age of lastMessageRF
    listener,       \* the station the listener has yet to remember, or None
    gate,           \* where the gate goroutine is
    key,            \* the message the gate is working on, or None
    frames,         \* the frames of that message still to be queued
    sender,         \* where the goroutine calling SendRF is
    txQueue,        \* the number of frames in Tx.Chan
    txRunning,      \* the transmitter loop is running
    inbound,        \* AprsIs.Inbound
    stopped,        \* i.stop is closed
    sinceAccept,    \* history: age of the last acceptance of each message
    sinceSend       \* history: age of the last message frame queued

trackVars == <<localHeard, rfHeard, inetHeard, inetPosition, inetGated, dedupe>>
timerVars == <<pending, due, lastRF>>
gateVars  == <<gate, key, frames>>
txVars    == <<sender, txQueue, txRunning>>
histVars  == <<sinceAccept, sinceSend>>

vars == <<trackVars, timerVars, gateVars, txVars, histVars,
          listener, inbound, stopped>>

-----------------------------------------------------------------------------
(* Ages and what they decide. *)

Larger(a, b) == IF a > b THEN a ELSE b

Older(age, cap) == IF age < cap THEN age + 1 ELSE cap
Younger(left)   == IF left > 0 THEN left - 1 ELSE 0

StationCap == Timeout + 1
AcceptCap  == Larger(GateDelay, Window)
DueCap     == Larger(GateDelay, Interval)

LocalStationRecentlyHeard(s)    == localHeard[s] <= Timeout
InternetGatedRecentlySeen(m)    == inetGated[m] < Window
InternetStationRecentlyHeard(s) == inetHeard[s] <= Timeout
RecentInternetPosition(s)       == inetPosition[s] <= Timeout
AlreadyGated(m)                 == dedupe[m] < Window

\* Mutant: the window ends one unit early.
RFMessageRecentlyHeard_Short(m) == rfHeard[m] + 1 < Window
RFMessageRecentlyHeard(m)       == rfHeard[m] < Window

\* Mutant: the interval ends one unit early.
IntervalElapsed_Short == lastRF + 1 >= Interval
IntervalElapsed       == lastRF >= Interval

-----------------------------------------------------------------------------
(* What a packet from APRS-IS teaches the gate (observeInternetPacket). *)

PlainSource(p) == IF p.type = "message" THEN Source[p.msg] ELSE p.src

Origin(p) == IF p.type = "wrapped" THEN p.src ELSE PlainSource(p)

ObservedStations(p) ==
    ({Origin(p)} \cup (IF p.type = "wrapped" THEN {PlainSource(p.inner)} ELSE {}))
        \ {MyCall}

\* A position is remembered for the station whose own report it is.
ObservedPositions(p) ==
    (CASE p.type = "position" -> {p.src}
       [] p.type = "wrapped" /\ p.inner.type = "position" -> {p.inner.src}
       [] OTHER -> {}) \ {MyCall}

\* The message another i-gate has gated to RF, if the packet shows one.
ObservedGating(p) ==
    IF p.type = "wrapped" /\ p.inner.type = "message" THEN {p.inner.msg} ELSE {}

Init ==
    /\ localHeard = [s \in Stations |-> StationCap]
    /\ rfHeard = [m \in Messages |-> Window]
    /\ inetHeard = [s \in Stations |-> StationCap]
    /\ inetPosition = [s \in Stations |-> StationCap]
    /\ inetGated = [m \in Messages |-> Window]
    /\ dedupe = [m \in Messages |-> Window]
    /\ pending = {}
    /\ due = [m \in Messages |-> 0]
    /\ lastRF = Interval
    /\ listener = None
    /\ gate = "select"
    /\ key = None
    /\ frames = {}
    /\ sender = "idle"
    /\ txQueue = 0
    /\ txRunning = TRUE
    /\ inbound = <<>>
    /\ stopped = FALSE
    /\ sinceAccept = [m \in Messages |-> AcceptCap]
    /\ sinceSend = Interval

-----------------------------------------------------------------------------
(* The listener.  A message is remembered under rfMessagesMu, then the     *)
(* station under localStationsMu: the gate may run in between.             *)

HearFrame(r) ==
    /\ listener = None
    /\ rfHeard' = [m \in Messages |-> IF m = r.msg THEN 0 ELSE rfHeard[m]]
    /\ listener' = r.station
    /\ UNCHANGED <<localHeard, inetHeard, inetPosition, inetGated, dedupe,
                   timerVars, gateVars, txVars, histVars, inbound, stopped>>

RememberLocalStation ==
    /\ listener # None
    /\ localHeard' = [localHeard EXCEPT ![listener] = 0]
    /\ listener' = None
    /\ UNCHANGED <<rfHeard, inetHeard, inetPosition, inetGated, dedupe,
                   timerVars, gateVars, txVars, histVars, inbound, stopped>>

-----------------------------------------------------------------------------
(* The gate, inbound branch of the select. *)

\* The guards between observeInternetPacket and alreadyGatedMessage.  The
\* destination must not be visible on APRS-IS after the packet is observed.
Eligible(p, heardAfter) ==
    /\ p.type = "message"
    /\ ~p.noGate
    /\ Source[p.msg] # MyCall
    /\ Destination[p.msg] # MyCall
    /\ LocalStationRecentlyHeard(Destination[p.msg])
    /\ ~LocalStationRecentlyHeard(Source[p.msg])
    /\ heardAfter[Destination[p.msg]] > Timeout

\* It takes a packet, observes it and applies those guards.  A wrapped
\* message shows another i-gate was first, which cancels ours.
TakeInbound ==
    /\ gate = "select"
    /\ inbound # <<>>
    /\ inbound' = Tail(inbound)
    /\ LET p == Head(inbound) IN
        /\ inetHeard' = [s \in Stations |->
               IF s \in ObservedStations(p) THEN 0 ELSE inetHeard[s]]
        /\ inetPosition' = [s \in Stations |->
               IF s \in ObservedPositions(p) THEN 0 ELSE inetPosition[s]]
        /\ inetGated' = [m \in Messages |->
               IF m \in ObservedGating(p) THEN 0 ELSE inetGated[m]]
        /\ pending' = pending \ ObservedGating(p)
        /\ due' = [m \in Messages |-> IF m \in ObservedGating(p) THEN 0 ELSE due[m]]
        /\ IF Eligible(p, inetHeard')
           THEN gate' = "accept" /\ key' = p.msg
           ELSE UNCHANGED <<gate, key>>
    /\ UNCHANGED <<localHeard, rfHeard, dedupe, lastRF, frames,
                   txVars, histVars, listener, stopped>>

\* Mutant: another i-gate's copy is not looked for.
CopySeen_RFOnly(m) == RFMessageRecentlyHeard(m)
CopySeen(m) == RFMessageRecentlyHeard(m) \/ InternetGatedRecentlySeen(m)

\* Mutant: a message accepted again keeps the time it was due.
DueOnAccept_Kept(m) == IF m \in pending THEN due[m] ELSE GateDelay
DueOnAccept(m) == GateDelay

\* alreadyGatedMessage marks the delivery whether or not the two checks
\* after it let the message through.
Accept ==
    /\ gate = "accept"
    /\ IF AlreadyGated(key)
       THEN UNCHANGED <<dedupe, pending, due, sinceAccept>>
       ELSE /\ dedupe' = [dedupe EXCEPT ![key] = 0]
            /\ IF CopySeen(key)
               THEN UNCHANGED <<pending, due, sinceAccept>>
               ELSE /\ pending' = pending \cup {key}
                    /\ due' = [due EXCEPT ![key] = DueOnAccept(key)]
                    /\ sinceAccept' = [sinceAccept EXCEPT ![key] = 0]
    /\ gate' = "select"
    /\ key' = None
    /\ UNCHANGED <<localHeard, rfHeard, inetHeard, inetPosition, inetGated,
                   lastRF, frames, txVars, sinceSend, listener, inbound, stopped>>

-----------------------------------------------------------------------------
(* The gate, timer branch of the select. *)

\* The timer runs for the pending message due first, any of them on a tie.
TimerFires(m) ==
    /\ gate = "select"
    /\ m \in pending
    /\ due[m] = 0

\* Mutant: the entry stays in the map.
Forget_Kept(m) == UNCHANGED <<pending, due>>

Forget(m) ==
    /\ pending' = pending \ {m}
    /\ due' = [due EXCEPT ![m] = 0]

\* Mutant: the addressee's visibility is not checked again.
MayGate_Blind(m) == ~InternetGatedRecentlySeen(m)

MayGate(m) ==
    /\ ~InternetGatedRecentlySeen(m)
    /\ ~InternetStationRecentlyHeard(Destination[m])

DropDue(m) ==
    /\ TimerFires(m)
    /\ ~MayGate(m)
    /\ Forget(m)
    /\ UNCHANGED <<trackVars, lastRF, gateVars, txVars, histVars,
                   listener, inbound, stopped>>

Rearm(m) ==
    /\ TimerFires(m)
    /\ MayGate(m)
    /\ ~IntervalElapsed
    /\ due' = [due EXCEPT ![m] = Interval - lastRF]
    /\ UNCHANGED <<trackVars, pending, lastRF, gateVars, txVars, histVars,
                   listener, inbound, stopped>>

StartSend(m) ==
    /\ TimerFires(m)
    /\ MayGate(m)
    /\ IntervalElapsed
    /\ gate' = "admit"
    /\ key' = m
    /\ frames' = IF RecentInternetPosition(Source[m])
                 THEN {"position", "message"}
                 ELSE {"message"}
    /\ UNCHANGED <<trackVars, timerVars, txVars, histVars, listener, inbound, stopped>>

-----------------------------------------------------------------------------
(* sendRFFramesUnlessRFMessage.  Each attempt checks for a copy heard on   *)
(* RF and tries the queue inside rfTxMu and rfMessagesMu, so it is one     *)
(* step, possible only while no other sender holds rfTxMu.                 *)

RFTxFree == sender = "idle"

NextFrame == IF "position" \in frames THEN "position" ELSE "message"

BackToSelect ==
    /\ gate' = "select"
    /\ key' = None
    /\ frames' = {}

Admit ==
    /\ gate = "admit"
    /\ RFTxFree
    /\ ~RFMessageRecentlyHeard(key)
    /\ txQueue < TxCap
    /\ txQueue' = txQueue + 1
    /\ frames' = frames \ {NextFrame}
    /\ gate' = IF frames' = {} THEN "sent" ELSE "admit"
    /\ sinceSend' = IF NextFrame = "message" THEN 0 ELSE sinceSend
    /\ UNCHANGED <<trackVars, timerVars, key, sender, txRunning, sinceAccept,
                   listener, inbound, stopped>>

SkipDuplicate ==
    /\ gate = "admit"
    /\ RFTxFree
    /\ RFMessageRecentlyHeard(key)
    /\ Forget(key)
    /\ BackToSelect
    /\ UNCHANGED <<trackVars, lastRF, txVars, histVars, listener, inbound, stopped>>

QueueFull ==
    /\ gate = "admit"
    /\ RFTxFree
    /\ ~RFMessageRecentlyHeard(key)
    /\ txQueue = TxCap
    /\ gate' = "wait"
    /\ UNCHANGED <<trackVars, timerVars, key, frames, txVars, histVars,
                   listener, inbound, stopped>>

\* waitForTransmitQueueSlot: its timer ends the wait, or the stop does.
Retry ==
    /\ gate = "wait"
    /\ gate' = "admit"
    /\ UNCHANGED <<trackVars, timerVars, key, frames, txVars, histVars,
                   listener, inbound, stopped>>

GiveUp ==
    /\ gate = "wait"
    /\ stopped
    /\ Forget(key)
    /\ BackToSelect
    /\ UNCHANGED <<trackVars, lastRF, txVars, histVars, listener, inbound, stopped>>

FinishSend ==
    /\ gate = "sent"
    /\ lastRF' = 0
    /\ Forget(key)
    /\ BackToSelect
    /\ UNCHANGED <<trackVars, txVars, histVars, listener, inbound, stopped>>

GateStops ==
    /\ gate = "select"
    /\ stopped
    /\ gate' = "done"
    /\ UNCHANGED <<trackVars, timerVars, key, frames, txVars, histVars,
                   listener, inbound, stopped>>

-----------------------------------------------------------------------------
(* The other sender: SendRF holds rfTxMu until its frame is queued or the  *)
(* stop is seen while the queue is full (SendUntil).                       *)

SendRF ==
    /\ sender = "idle"
    /\ sender' = "try"
    /\ UNCHANGED <<trackVars, timerVars, gateVars, txQueue, txRunning, histVars,
                   listener, inbound, stopped>>

QueueFrame ==
    /\ sender \in {"try", "wait"}
    /\ IF txQueue < TxCap
       THEN txQueue' = txQueue + 1 /\ sender' = "idle"
       ELSE sender' = "wait" /\ UNCHANGED txQueue
    /\ UNCHANGED <<trackVars, timerVars, gateVars, txRunning, histVars,
                   listener, inbound, stopped>>

\* Mutant: Send in place of SendUntil, which waits for room and nothing else.
AbandonFrame_Send ==
    /\ sender = "wait"
    /\ stopped
    /\ txQueue < TxCap
    /\ sender' = "idle"
    /\ UNCHANGED <<trackVars, timerVars, gateVars, txQueue, txRunning, histVars,
                   listener, inbound, stopped>>

AbandonFrame ==
    /\ sender = "wait"
    /\ stopped
    /\ sender' = "idle"
    /\ UNCHANGED <<trackVars, timerVars, gateVars, txQueue, txRunning, histVars,
                   listener, inbound, stopped>>

-----------------------------------------------------------------------------
(* The transmitter loop, halted only after the i-gate was told to stop. *)

Transmit ==
    /\ txRunning
    /\ txQueue > 0
    /\ txQueue' = txQueue - 1
    /\ UNCHANGED <<trackVars, timerVars, gateVars, sender, txRunning, histVars,
                   listener, inbound, stopped>>

HaltTransmitter ==
    /\ stopped
    /\ txRunning
    /\ txRunning' = FALSE
    /\ UNCHANGED <<trackVars, timerVars, gateVars, sender, txQueue, histVars,
                   listener, inbound, stopped>>

-----------------------------------------------------------------------------
(* The environment. *)

\* Mutant: one packet too many.
InboundHasRoom_Over == Len(inbound) <= InboundCap
InboundHasRoom == Len(inbound) < InboundCap

\* The AprsIs reader offers a packet; a full Inbound loses it.
Deliver(p) ==
    /\ InboundHasRoom
    /\ inbound' = Append(inbound, p)
    /\ UNCHANGED <<trackVars, timerVars, gateVars, txVars, histVars, listener, stopped>>

Stop ==
    /\ ~stopped
    /\ stopped' = TRUE
    /\ UNCHANGED <<trackVars, timerVars, gateVars, txVars, histVars, listener, inbound>>

Tick ==
    /\ localHeard' = [s \in Stations |-> Older(localHeard[s], StationCap)]
    /\ inetHeard' = [s \in Stations |-> Older(inetHeard[s], StationCap)]
    /\ inetPosition' = [s \in Stations |-> Older(inetPosition[s], StationCap)]
    /\ rfHeard' = [m \in Messages |-> Older(rfHeard[m], Window)]
    /\ inetGated' = [m \in Messages |-> Older(inetGated[m], Window)]
    /\ dedupe' = [m \in Messages |-> Older(dedupe[m], Window)]
    /\ due' = [m \in Messages |-> Younger(due[m])]
    /\ lastRF' = Older(lastRF, Interval)
    /\ sinceAccept' = [m \in Messages |-> Older(sinceAccept[m], AcceptCap)]
    /\ sinceSend' = Older(sinceSend, Interval)
    /\ UNCHANGED <<pending, gateVars, txVars, listener, inbound, stopped>>

-----------------------------------------------------------------------------
Listener == (\E r \in RFTraffic : HearFrame(r)) \/ RememberLocalStation

Timer(m) == DropDue(m) \/ Rearm(m) \/ StartSend(m)

Sending == Admit \/ SkipDuplicate \/ QueueFull \/ Retry \/ GiveUp \/ FinishSend

Gate == TakeInbound \/ Accept \/ (\E m \in Messages : Timer(m)) \/ Sending \/ GateStops

Sender == SendRF \/ QueueFrame \/ AbandonFrame

Transmitter == Transmit \/ HaltTransmitter

Environment == (\E p \in InternetTraffic : Deliver(p)) \/ Stop \/ Tick

Next == Listener \/ Gate \/ Sender \/ Transmitter \/ Environment

Spec == Init /\ [][Next]_vars

(***************************************************************************)
(* Fairness.  Every goroutine keeps running; rfTxMu is a Go mutex, which   *)
(* starves nobody, so an attempt that is possible again and again is made; *)
(* select and the order of a map range are drawn at random, so a ready     *)
(* branch or a message tied with others is not passed over for ever.       *)
(* Nothing is assumed of the traffic, of SendRF's caller or of Stop.       *)
(***************************************************************************)
Attempt == Admit \/ SkipDuplicate \/ QueueFull

Fairness ==
    /\ WF_vars(Tick)
    /\ WF_vars(Transmit)
    /\ WF_vars(QueueFrame \/ AbandonFrame)
    /\ WF_vars(Accept \/ Retry \/ FinishSend)
    /\ \A m \in Messages : SF_vars(DropDue(m) \/ StartSend(m))
    /\ SF_vars(Attempt)
    /\ SF_vars(GiveUp)
    /\ SF_vars(GateStops)

\* The two halves of the inbound branch are microseconds apart, a tick is
\* seconds: a liveness claim may assume that no tick separates them.
PromptNext == Next /\ (gate = "accept" => ~Tick)

FairSpec == Init /\ [][PromptNext]_vars /\ Fairness

-----------------------------------------------------------------------------
(* Properties. *)

\* Every variable holds a value of its kind, and gate, key and frames agree:
\* the gate has a message in hand exactly while it works on one.
TrackTypeOK ==
    /\ localHeard \in [Stations -> 0..StationCap]
    /\ rfHeard \in [Messages -> 0..Window]
    /\ inetHeard \in [Stations -> 0..StationCap]
    /\ inetPosition \in [Stations -> 0..StationCap]
    /\ inetGated \in [Messages -> 0..Window]
    /\ dedupe \in [Messages -> 0..Window]

TimerTypeOK ==
    /\ pending \subseteq Messages
    /\ due \in [Messages -> 0..DueCap]
    /\ lastRF \in 0..Interval
    /\ sinceAccept \in [Messages -> 0..AcceptCap]
    /\ sinceSend \in 0..Interval

GateTypeOK ==
    /\ gate \in {"select", "accept", "admit", "wait", "sent", "done"}
    /\ IF gate \in {"select", "done"} THEN key = None ELSE key \in Messages
    /\ IF gate \in {"admit", "wait"}
       THEN frames \in {{"message"}, {"position", "message"}}
       ELSE frames = {}

QueueTypeOK ==
    /\ listener \in Stations \cup {None}
    /\ sender \in {"idle", "try", "wait"}
    /\ txQueue \in 0..TxCap
    /\ txRunning \in BOOLEAN
    /\ inbound \in Seq(Packets)
    /\ Len(inbound) <= InboundCap
    /\ stopped \in BOOLEAN

TypeOK == TrackTypeOK /\ TimerTypeOK /\ GateTypeOK /\ QueueTypeOK

\* While a message is held, no other i-gate has been seen gating it within
\* the dedup window: the observation cancels it (observeInternetPacket) and
\* bars it (the last check before it is held).
NothingPendingGatedElsewhere == \A m \in pending : ~InternetGatedRecentlySeen(m)

\* From the timer to the last frame queued, through every wait for a slot in
\* the transmit queue, the addressee stays unseen on APRS-IS and the message
\* ungated by others: the checks made at the timer cannot go stale, because
\* the goroutine that would record otherwise is the one that is sending.
SendingStillWanted ==
    gate \in {"admit", "wait"} =>
        /\ key \in pending
        /\ ~InternetStationRecentlyHeard(Destination[key])
        /\ ~InternetGatedRecentlySeen(key)

\* A held message is never due before the gate delay has passed since its
\* acceptance, however often its timer is set anew.
HeldForGateDelay == \A m \in pending : due[m] + sinceAccept[m] >= GateDelay

\* A message frame is queued with the spacing interval behind it: lastMessageRF
\* is written after the send, yet never lets the next one come early.
SpacedWhileSending ==
    gate \in {"admit", "wait"} => sinceSend >= Interval

\* What the four invariants rest on: lastMessageRF is never older than the
\* last message queued except while that send is being finished; a mark in
\* messageDedupe is never older than the acceptance it stands for; and a
\* message being sent has been held for the gate delay.
AgesAgree ==
    /\ gate # "sent" => lastRF <= sinceSend
    /\ \A m \in Messages : dedupe[m] <= sinceAccept[m]
    /\ gate \in {"admit", "wait"} => sinceAccept[key] >= GateDelay

IInv ==
    /\ TypeOK
    /\ NothingPendingGatedElsewhere
    /\ SendingStillWanted
    /\ HeldForGateDelay
    /\ SpacedWhileSending
    /\ AgesAgree

\* The gate implements the abstract relay: each acceptance is sent at most
\* once, not before the gate delay, not within the interval of the message
\* before it and not within the window of a copy heard on RF; deliveries
\* accepted are a window apart.
Held == IF gate = "sent" THEN pending \ {key} ELSE pending

Relay == INSTANCE MessageRelay WITH held <- Held, sinceCopy <- rfHeard

ImplementsRelay == Relay!Spec

\* A held message does not wait for ever: it is sent, dropped or cancelled,
\* or the gate stops, provided the other senders fall silent in the end.
PendingResolved ==
    <>[](sender = "idle") =>
        \A m \in Messages : m \in pending ~> (m \notin pending \/ gate = "done")

\* After Stop the gate goroutine returns, even with the transmitter halted,
\* the queue full and another sender holding rfTxMu.
StopsAfterStop == stopped ~> gate = "done"

\* What the README says of eligibility: a message is gated to a station only
\* while the station remains within local-station-timeout.
GatedOnlyWhileLocal ==
    [][gate = "admit" /\ gate' = "sent"
        => LocalStationRecentlyHeard(Destination[key])]_vars
=============================================================================
