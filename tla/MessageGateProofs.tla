------------------------- MODULE MessageGateProofs --------------------------
(***************************************************************************)
(* Theorems about the message gate, for every value of its constants:      *)
(* type correctness, the safety invariants by one inductive invariant, and *)
(* from it the implementation of the abstract relay.                       *)
(***************************************************************************)
EXTENDS MessageGate, SequenceTheorems, TLAPS

\* A message taken from APRS-IS is one of Messages.
LEMMA PacketMessage ==
    ASSUME NEW p \in Packets, p.type = "message"
    PROVE  p.msg \in Messages
  BY DEF Packets, Plain

\* The message an observed gating names is one of Messages, or there is none.
LEMMA ObservedGatingType ==
    ASSUME NEW p \in Packets
    PROVE  \/ ObservedGating(p) = {}
           \/ \E m \in Messages : ObservedGating(p) = {m}
  BY DEF Packets, Plain, ObservedGating

\* The caps are numbers, and large enough for what they cap.
LEMMA CapTypes ==
    /\ StationCap \in Nat /\ AcceptCap \in Nat /\ DueCap \in Nat
    /\ AcceptCap >= GateDelay /\ AcceptCap >= Window
    /\ DueCap >= GateDelay /\ DueCap >= Interval
    /\ StationCap > Timeout
  BY TimeAssumption DEF StationCap, AcceptCap, DueCap, Larger

\* Ageing stays within its cap and never makes anything younger.
LEMMA OlderType ==
    ASSUME NEW cap \in Nat, NEW age \in 0..cap
    PROVE  Older(age, cap) \in 0..cap /\ Older(age, cap) >= age
  BY DEF Older

-----------------------------------------------------------------------------
(* Type correctness, one step per action. *)

LEMMA TypeInit == Init => TypeOK
  <1> SUFFICES ASSUME Init PROVE TypeOK
    OBVIOUS
  <1> USE CapTypes, TimeAssumption, QueueAssumption DEF Init
  <1>1. TrackTypeOK
    BY DEF TrackTypeOK
  <1>2. TimerTypeOK
    BY DEF TimerTypeOK
  <1>3. GateTypeOK
    BY DEF GateTypeOK
  <1>4. QueueTypeOK
    <2>1. <<>> \in Seq(Packets) /\ Len(<<>>) = 0
      OBVIOUS
    <2>2. txRunning \in BOOLEAN /\ stopped \in BOOLEAN
      OBVIOUS
    <2>3. txQueue \in 0..TxCap /\ Len(inbound) <= InboundCap
      BY <2>1
    <2> QED
      BY <2>1, <2>2, <2>3 DEF QueueTypeOK
  <1> QED
    BY <1>1, <1>2, <1>3, <1>4 DEF TypeOK

\* A group of variables left alone keeps its type.
LEMMA TypeUnchanged ==
    ASSUME TypeOK
    PROVE  /\ UNCHANGED trackVars => TrackTypeOK'
           /\ UNCHANGED <<timerVars, histVars>> => TimerTypeOK'
           /\ UNCHANGED gateVars => GateTypeOK'
           /\ UNCHANGED <<txVars, listener, inbound, stopped>> => QueueTypeOK'
  <1>1. UNCHANGED trackVars => TrackTypeOK'
    BY DEF TypeOK, trackVars, TrackTypeOK
  <1>2. UNCHANGED <<timerVars, histVars>> => TimerTypeOK'
    BY DEF TypeOK, timerVars, histVars, TimerTypeOK
  <1>3. UNCHANGED gateVars => GateTypeOK'
    BY DEF TypeOK, gateVars, GateTypeOK
  <1>4. UNCHANGED <<txVars, listener, inbound, stopped>> => QueueTypeOK'
    BY DEF TypeOK, txVars, QueueTypeOK
  <1> QED
    BY <1>1, <1>2, <1>3, <1>4

\* Dropping a message from pending keeps the type of the timers.
LEMMA TypeForget ==
    ASSUME TypeOK, NEW m \in Messages, Forget(m),
           lastRF' \in 0..Interval, UNCHANGED histVars
    PROVE  TimerTypeOK'
  BY CapTypes DEF TypeOK, TimerTypeOK, Forget, histVars

LEMMA TypeListener == TypeOK /\ Listener => TypeOK'
  <1> SUFFICES ASSUME TypeOK, Listener PROVE TypeOK'
    OBVIOUS
  <1>1. ASSUME NEW r \in RFTraffic, HearFrame(r)
        PROVE  TrackTypeOK' /\ QueueTypeOK' /\ UNCHANGED <<timerVars, histVars, gateVars>>
    <2>1. r.station \in Stations \cup {None}
      BY TrafficAssumption DEF Receptions
    <2>2. TrackTypeOK'
      BY <1>1, TimeAssumption DEF HearFrame, TypeOK, TrackTypeOK
    <2>3. QueueTypeOK'
      BY <1>1, <2>1 DEF HearFrame, TypeOK, QueueTypeOK, txVars
    <2> QED
      BY <1>1, <2>2, <2>3 DEF HearFrame
  <1>2. ASSUME RememberLocalStation
        PROVE  TrackTypeOK' /\ QueueTypeOK' /\ UNCHANGED <<timerVars, histVars, gateVars>>
    <2>1. TrackTypeOK'
      BY <1>2, CapTypes DEF RememberLocalStation, TypeOK, TrackTypeOK, QueueTypeOK
    <2>2. QueueTypeOK'
      BY <1>2 DEF RememberLocalStation, TypeOK, QueueTypeOK, txVars
    <2> QED
      BY <1>2, <2>1, <2>2 DEF RememberLocalStation
  <1> QED
    BY <1>1, <1>2, TypeUnchanged DEF Listener, TypeOK

LEMMA TypeTakeInbound == TypeOK /\ TakeInbound => TypeOK'
  <1> SUFFICES ASSUME TypeOK, TakeInbound PROVE TypeOK'
    OBVIOUS
  <1> DEFINE p == Head(inbound)
  <1>1. inbound \in Seq(Packets) /\ inbound # <<>> /\ Len(inbound) <= InboundCap
    BY DEF TypeOK, QueueTypeOK, TakeInbound
  <1>2. p \in Packets /\ Tail(inbound) \in Seq(Packets) /\ Len(Tail(inbound)) <= InboundCap
    <2>1. p \in Packets /\ Tail(inbound) \in Seq(Packets)
      BY <1>1
    <2>2. Len(Tail(inbound)) = Len(inbound) - 1 /\ Len(inbound) \in Nat
      BY <1>1
    <2> QED
      BY <1>1, <2>1, <2>2, QueueAssumption
  <1>3. TrackTypeOK'
    BY CapTypes, TimeAssumption DEF TakeInbound, TypeOK, TrackTypeOK
  <1>4. TimerTypeOK'
    BY CapTypes DEF TakeInbound, TypeOK, TimerTypeOK, histVars
  <1>5. GateTypeOK'
    <2>1. Eligible(p, inetHeard') => p.msg \in Messages
      BY <1>2, PacketMessage DEF Eligible
    <2> QED
      BY <2>1 DEF TakeInbound, TypeOK, GateTypeOK
  <1>6. QueueTypeOK'
    BY <1>2 DEF TakeInbound, TypeOK, QueueTypeOK, txVars
  <1> QED
    BY <1>3, <1>4, <1>5, <1>6 DEF TypeOK

LEMMA TypeAccept == TypeOK /\ Accept => TypeOK'
  <1> SUFFICES ASSUME TypeOK, Accept PROVE TypeOK'
    OBVIOUS
  <1>1. key \in Messages
    BY DEF TypeOK, GateTypeOK, Accept
  <1>2. TrackTypeOK'
    BY <1>1, TimeAssumption DEF Accept, TypeOK, TrackTypeOK
  <1>3. TimerTypeOK'
    BY <1>1, CapTypes, TimeAssumption DEF Accept, DueOnAccept, TypeOK, TimerTypeOK
  <1>4. GateTypeOK'
    BY DEF Accept, TypeOK, GateTypeOK
  <1>5. QueueTypeOK'
    BY DEF Accept, TypeOK, QueueTypeOK, txVars
  <1> QED
    BY <1>2, <1>3, <1>4, <1>5 DEF TypeOK

LEMMA TypeTimer == TypeOK /\ (\E m \in Messages : Timer(m)) => TypeOK'
  <1> SUFFICES ASSUME TypeOK, NEW m \in Messages, Timer(m) PROVE TypeOK'
    OBVIOUS
  <1>1. CASE DropDue(m)
    <2>1. UNCHANGED <<trackVars, gateVars, txVars, listener, inbound, stopped>>
      BY <1>1 DEF DropDue
    <2>2. TimerTypeOK'
      BY <1>1, TypeForget DEF DropDue, TypeOK, TimerTypeOK
    <2> QED
      BY <2>1, <2>2, TypeUnchanged DEF TypeOK
  <1>2. CASE Rearm(m)
    <2>1. UNCHANGED <<trackVars, gateVars, txVars, listener, inbound, stopped>>
      BY <1>2 DEF Rearm
    <2>2. Interval - lastRF \in 0..DueCap
      BY CapTypes, TimeAssumption DEF TypeOK, TimerTypeOK
    <2>3. TimerTypeOK'
      BY <1>2, <2>2 DEF Rearm, TypeOK, TimerTypeOK, histVars
    <2> QED
      BY <2>1, <2>3, TypeUnchanged DEF TypeOK
  <1>3. CASE StartSend(m)
    <2>1. UNCHANGED <<trackVars, timerVars, histVars, txVars, listener, inbound, stopped>>
      BY <1>3 DEF StartSend
    <2>2. GateTypeOK'
      BY <1>3 DEF StartSend, TypeOK, GateTypeOK
    <2> QED
      BY <2>1, <2>2, TypeUnchanged DEF TypeOK
  <1> QED
    BY <1>1, <1>2, <1>3 DEF Timer

LEMMA TypeSending == TypeOK /\ (Sending \/ GateStops) => TypeOK'
  <1> SUFFICES ASSUME TypeOK, Sending \/ GateStops PROVE TypeOK'
    OBVIOUS
  <1>1. CASE Admit
    <2>1. UNCHANGED trackVars
      BY <1>1 DEF Admit
    <2>2. TimerTypeOK'
      BY <1>1, TimeAssumption DEF Admit, TypeOK, TimerTypeOK, timerVars
    <2>3. GateTypeOK'
      BY <1>1 DEF Admit, NextFrame, TypeOK, GateTypeOK
    <2>4. QueueTypeOK'
      BY <1>1, QueueAssumption DEF Admit, TypeOK, QueueTypeOK
    <2> QED
      BY <2>1, <2>2, <2>3, <2>4, TypeUnchanged DEF TypeOK
  <1>2. CASE QueueFull \/ Retry \/ GateStops
    <2>1. UNCHANGED <<trackVars, timerVars, histVars, txVars, listener, inbound, stopped>>
      BY <1>2 DEF QueueFull, Retry, GateStops
    <2>2. GateTypeOK'
      BY <1>2 DEF QueueFull, Retry, GateStops, TypeOK, GateTypeOK
    <2> QED
      BY <2>1, <2>2, TypeUnchanged DEF TypeOK
  <1>3. CASE SkipDuplicate \/ GiveUp \/ FinishSend
    <2>1. UNCHANGED <<trackVars, histVars, txVars, listener, inbound, stopped>>
      BY <1>3 DEF SkipDuplicate, GiveUp, FinishSend
    <2>2. BackToSelect /\ Forget(key)
      BY <1>3 DEF SkipDuplicate, GiveUp, FinishSend
    <2>3. key \in Messages
      BY <1>3 DEF SkipDuplicate, GiveUp, FinishSend, TypeOK, GateTypeOK
    <2>4. lastRF' \in 0..Interval
      BY <1>3, TimeAssumption
      DEF SkipDuplicate, GiveUp, FinishSend, TypeOK, TimerTypeOK
    <2>5. TimerTypeOK'
      BY <2>1, <2>2, <2>3, <2>4, TypeForget
    <2>6. GateTypeOK'
      BY <2>2 DEF BackToSelect, GateTypeOK
    <2> QED
      BY <2>1, <2>5, <2>6, TypeUnchanged DEF TypeOK
  <1> QED
    BY <1>1, <1>2, <1>3 DEF Sending

LEMMA TypeSender == TypeOK /\ (Sender \/ Transmitter \/ Stop) => TypeOK'
  <1> SUFFICES ASSUME TypeOK, Sender \/ Transmitter \/ Stop PROVE TypeOK'
    OBVIOUS
  <1>1. UNCHANGED <<trackVars, timerVars, histVars, gateVars>>
    BY DEF Sender, SendRF, QueueFrame, AbandonFrame, Transmitter, Transmit,
           HaltTransmitter, Stop
  <1>2. QueueTypeOK'
    <2>1. CASE Sender
      BY <2>1, QueueAssumption
      DEF Sender, SendRF, QueueFrame, AbandonFrame, TypeOK, QueueTypeOK
    <2>2. CASE Transmitter
      <3>1. UNCHANGED <<listener, sender, inbound, stopped>>
        BY <2>2 DEF Transmitter, Transmit, HaltTransmitter
      <3>2. txQueue' \in 0..TxCap
        BY <2>2, QueueAssumption
        DEF Transmitter, Transmit, HaltTransmitter, TypeOK, QueueTypeOK
      <3>3. txRunning' \in BOOLEAN
        BY <2>2 DEF Transmitter, Transmit, HaltTransmitter, TypeOK, QueueTypeOK
      <3> QED
        BY <3>1, <3>2, <3>3 DEF TypeOK, QueueTypeOK
    <2>3. CASE Stop
      BY <2>3 DEF Stop, TypeOK, QueueTypeOK, txVars
    <2> QED
      BY <2>1, <2>2, <2>3
  <1> QED
    BY <1>1, <1>2, TypeUnchanged DEF TypeOK

LEMMA TypeDeliver == TypeOK /\ (\E p \in InternetTraffic : Deliver(p)) => TypeOK'
  <1> SUFFICES ASSUME TypeOK, NEW p \in InternetTraffic, Deliver(p) PROVE TypeOK'
    OBVIOUS
  <1>1. UNCHANGED <<trackVars, timerVars, histVars, gateVars>>
    BY DEF Deliver
  <1>2. /\ Append(inbound, p) \in Seq(Packets)
        /\ Len(Append(inbound, p)) = Len(inbound) + 1
        /\ Len(inbound) \in Nat
    BY TrafficAssumption DEF TypeOK, QueueTypeOK
  <1>3. QueueTypeOK'
    BY <1>2, QueueAssumption DEF Deliver, InboundHasRoom, TypeOK, QueueTypeOK, txVars
  <1> QED
    BY <1>1, <1>3, TypeUnchanged DEF TypeOK

LEMMA TypeTick == TypeOK /\ Tick => TypeOK'
  <1> SUFFICES ASSUME TypeOK, Tick PROVE TypeOK'
    OBVIOUS
  <1>1. TrackTypeOK'
    BY CapTypes, TimeAssumption, OlderType DEF Tick, TypeOK, TrackTypeOK
  <1>2. TimerTypeOK'
    <2>1. due' \in [Messages -> 0..DueCap]
      BY CapTypes DEF Tick, Younger, TypeOK, TimerTypeOK
    <2>2. sinceAccept' \in [Messages -> 0..AcceptCap]
      BY CapTypes, OlderType DEF Tick, TypeOK, TimerTypeOK
    <2>3. pending' \subseteq Messages /\ lastRF' \in 0..Interval /\ sinceSend' \in 0..Interval
      BY TimeAssumption, OlderType DEF Tick, TypeOK, TimerTypeOK
    <2> QED
      BY <2>1, <2>2, <2>3 DEF TimerTypeOK
  <1>3. UNCHANGED <<gateVars, txVars, listener, inbound, stopped>>
    BY DEF Tick
  <1> QED
    BY <1>1, <1>2, <1>3, TypeUnchanged DEF TypeOK

LEMMA TypeNext == TypeOK /\ [Next]_vars => TypeOK'
  <1> SUFFICES ASSUME TypeOK, [Next]_vars PROVE TypeOK'
    OBVIOUS
  <1>1. CASE UNCHANGED vars
    BY <1>1, TypeUnchanged DEF vars, TypeOK
  <1> QED
    BY <1>1, TypeListener, TypeTakeInbound, TypeAccept, TypeTimer, TypeSending,
       TypeSender, TypeDeliver, TypeTick
    DEF Next, Gate, Environment

\* Type correctness: every reachable state of the gate is well formed.
THEOREM TypeCorrect == Spec => []TypeOK
  BY TypeInit, TypeNext, PTL DEF Spec
-----------------------------------------------------------------------------
(* The safety invariants.                                                  *)


SafetyInv ==
    /\ NothingPendingGatedElsewhere
    /\ SendingStillWanted
    /\ HeldForGateDelay
    /\ SpacedWhileSending
    /\ AgesAgree

\* What the invariants read, besides the ages that only a tick makes older.
invVars == <<inetHeard, inetGated, dedupe, pending, due, lastRF, gate, key,
             sinceAccept, sinceSend>>

LEMMA SafetyInit == Init => SafetyInv
  <1> SUFFICES ASSUME Init PROVE SafetyInv
    OBVIOUS
  <1>1. gate = "select" /\ pending = {} /\ lastRF = sinceSend /\ Interval \in Nat
    BY TimeAssumption DEF Init
  <1>2. \A m \in Messages : dedupe[m] <= sinceAccept[m]
    BY CapTypes, TimeAssumption DEF Init
  <1> QED
    BY <1>1, <1>2
    DEF Init, SafetyInv, NothingPendingGatedElsewhere, SendingStillWanted,
        HeldForGateDelay, SpacedWhileSending, AgesAgree

LEMMA SafetyUnchanged == SafetyInv /\ UNCHANGED invVars => SafetyInv'
  BY DEF SafetyInv, invVars, NothingPendingGatedElsewhere, SendingStillWanted,
         HeldForGateDelay, SpacedWhileSending, AgesAgree,
         InternetGatedRecentlySeen, InternetStationRecentlyHeard

LEMMA SafetyQuiet ==
    IInv /\ (Listener \/ Sender \/ Transmitter \/ Stop
                \/ \E p \in InternetTraffic : Deliver(p)) => UNCHANGED invVars
  <1> USE DEF invVars, trackVars, timerVars, gateVars, histVars
  <1>1. Listener => UNCHANGED invVars
    BY DEF Listener, HearFrame, RememberLocalStation
  <1>2. Sender => UNCHANGED invVars
    BY DEF Sender, SendRF, QueueFrame, AbandonFrame
  <1>3. Transmitter \/ Stop => UNCHANGED invVars
    BY DEF Transmitter, Transmit, HaltTransmitter, Stop
  <1>4. (\E p \in InternetTraffic : Deliver(p)) => UNCHANGED invVars
    BY DEF Deliver
  <1> QED
    BY <1>1, <1>2, <1>3, <1>4

\* A packet that shows another gating cancels the message it shows, and the
\* gate is at its select, sending nothing.
LEMMA SafetyTakeInbound == IInv /\ TakeInbound => SafetyInv'
  <1> SUFFICES ASSUME IInv, TakeInbound PROVE SafetyInv'
    OBVIOUS
  <1>1. pending \subseteq Messages
    BY DEF IInv, TypeOK, TimerTypeOK
  <1>2. gate' \notin {"admit", "wait", "sent"}
    BY DEF TakeInbound
  <1>3. UNCHANGED <<lastRF, sinceSend, sinceAccept, dedupe>>
    BY DEF TakeInbound, histVars
  <1>4. \A m \in pending' :
            /\ m \in pending /\ m \in Messages
            /\ inetGated'[m] = inetGated[m]
            /\ due'[m] = due[m]
    BY <1>1 DEF TakeInbound
  <1>5. NothingPendingGatedElsewhere'
    BY <1>4 DEF IInv, NothingPendingGatedElsewhere, InternetGatedRecentlySeen
  <1>6. HeldForGateDelay'
    BY <1>3, <1>4 DEF IInv, HeldForGateDelay
  <1>7. AgesAgree'
    BY <1>2, <1>3 DEF IInv, AgesAgree, TakeInbound
  <1> QED
    BY <1>2, <1>5, <1>6, <1>7 DEF SafetyInv, SendingStillWanted, SpacedWhileSending

\* A message is held only when no gating of it was seen; its clock starts.
LEMMA SafetyAccept == IInv /\ Accept => SafetyInv'
  <1> SUFFICES ASSUME IInv, Accept PROVE SafetyInv'
    OBVIOUS
  <1> USE DEF IInv
  <1>1. key \in Messages
    BY DEF TypeOK, GateTypeOK, Accept
  <1>2. gate' = "select" /\ UNCHANGED <<inetGated, lastRF, sinceSend>>
    BY DEF Accept
  <1>3. \A m \in Messages : sinceAccept[m] \in Nat /\ dedupe[m] \in Nat
    BY CapTypes, TimeAssumption DEF TypeOK, TimerTypeOK, TrackTypeOK
  <1>4. pending' \subseteq pending \cup {key} /\ pending \subseteq Messages
    BY DEF Accept, TypeOK, TimerTypeOK
  <1>5. NothingPendingGatedElsewhere'
    BY <1>2, <1>4 DEF Accept, CopySeen, NothingPendingGatedElsewhere,
                      InternetGatedRecentlySeen
  <1>6. HeldForGateDelay'
    <2>1. due \in [Messages -> 0..DueCap] /\ sinceAccept \in [Messages -> 0..AcceptCap]
      BY DEF TypeOK, TimerTypeOK
    <2> QED
      BY <1>1, <1>3, <1>4, <2>1, TimeAssumption, CapTypes
      DEF Accept, DueOnAccept, HeldForGateDelay
  <1>7. AgesAgree'
    <2>1. \A m \in Messages : dedupe'[m] <= sinceAccept'[m]
      BY <1>1, <1>3 DEF Accept, AgesAgree, TypeOK, TimerTypeOK, TrackTypeOK
    <2>2. lastRF' <= sinceSend'
      BY <1>2 DEF Accept, AgesAgree
    <2> QED
      BY <1>2, <2>1, <2>2 DEF AgesAgree
  <1> QED
    BY <1>2, <1>5, <1>6, <1>7 DEF SafetyInv, SendingStillWanted, SpacedWhileSending

\* At the timer a message is dropped, put off or begun.  It is begun when its
\* time is up and the interval has passed since the last message queued.
LEMMA SafetyTimer == IInv /\ (\E m \in Messages : Timer(m)) => SafetyInv'
  <1> SUFFICES ASSUME IInv, NEW m \in Messages, Timer(m) PROVE SafetyInv'
    OBVIOUS
  <1> USE DEF IInv
  <1>1. gate = "select" /\ m \in pending /\ due[m] = 0
    BY DEF Timer, DropDue, Rearm, StartSend, TimerFires
  <1>2. UNCHANGED <<inetHeard, inetGated, dedupe, lastRF, sinceSend, sinceAccept>>
    BY DEF Timer, DropDue, Rearm, StartSend, trackVars, timerVars, histVars
  <1>3. /\ sinceAccept \in [Messages -> 0..AcceptCap]
        /\ due \in [Messages -> 0..DueCap]
        /\ pending \subseteq Messages
        /\ lastRF \in 0..Interval /\ sinceSend \in 0..Interval
        /\ AcceptCap \in Nat /\ DueCap \in Nat
    BY CapTypes DEF TypeOK, TimerTypeOK
  <1>4. sinceAccept[m] >= GateDelay
    BY <1>1, <1>3, TimeAssumption DEF HeldForGateDelay
  <1>5. CASE DropDue(m)
    <2>1. gate' = "select" /\ pending' = pending \ {m}
          /\ due' = [due EXCEPT ![m] = 0]
      BY <1>1, <1>5 DEF DropDue, Forget, gateVars
    <2>2. HeldForGateDelay'
      BY <1>2, <1>3, <2>1 DEF HeldForGateDelay
    <2>3. NothingPendingGatedElsewhere'
      BY <1>2, <2>1 DEF NothingPendingGatedElsewhere, InternetGatedRecentlySeen
    <2> QED
      BY <1>1, <1>2, <2>1, <2>2, <2>3
      DEF SafetyInv, SendingStillWanted, SpacedWhileSending, AgesAgree
  <1>6. CASE Rearm(m)
    <2>1. gate' = "select" /\ pending' = pending
          /\ due' = [due EXCEPT ![m] = Interval - lastRF]
      BY <1>1, <1>6 DEF Rearm, gateVars
    <2>2. HeldForGateDelay'
      BY <1>2, <1>3, <1>4, <2>1, TimeAssumption DEF HeldForGateDelay
    <2>3. NothingPendingGatedElsewhere'
      BY <1>2, <2>1 DEF NothingPendingGatedElsewhere, InternetGatedRecentlySeen
    <2> QED
      BY <1>1, <1>2, <2>1, <2>2, <2>3
      DEF SafetyInv, SendingStillWanted, SpacedWhileSending, AgesAgree
  <1>7. CASE StartSend(m)
    <2>1. gate' = "admit" /\ key' = m /\ UNCHANGED <<pending, due>>
      BY <1>7 DEF StartSend, timerVars
    <2>2. SendingStillWanted'
      BY <1>1, <1>2, <1>7, <2>1
      DEF StartSend, MayGate, SendingStillWanted, InternetGatedRecentlySeen,
          InternetStationRecentlyHeard
    <2>3. SpacedWhileSending'
      BY <1>1, <1>2, <1>3, <1>7, TimeAssumption
      DEF StartSend, IntervalElapsed, SpacedWhileSending, AgesAgree
    <2>4. AgesAgree'
      BY <1>1, <1>2, <1>4, <2>1 DEF AgesAgree
    <2>5. NothingPendingGatedElsewhere' /\ HeldForGateDelay'
      BY <1>2, <2>1
      DEF NothingPendingGatedElsewhere, HeldForGateDelay, InternetGatedRecentlySeen
    <2> QED
      BY <2>2, <2>3, <2>4, <2>5 DEF SafetyInv
  <1> QED
    BY <1>5, <1>6, <1>7 DEF Timer

\* The message frame is the last to be queued: it ends the sending.
LEMMA LastFrame ==
    ASSUME IInv, Admit
    PROVE  \/ NextFrame = "message" /\ gate' = "sent" /\ sinceSend' = 0
           \/ NextFrame = "position" /\ gate' = "admit" /\ sinceSend' = sinceSend
  <1>1. frames \in {{"message"}, {"position", "message"}}
    BY DEF IInv, TypeOK, GateTypeOK, Admit
  <1>2. CASE frames = {"message"}
    BY <1>2 DEF Admit, NextFrame
  <1>3. CASE frames = {"position", "message"}
    BY <1>3 DEF Admit, NextFrame
  <1> QED
    BY <1>1, <1>2, <1>3

LEMMA SafetySending == IInv /\ (Sending \/ GateStops) => SafetyInv'
  <1> SUFFICES ASSUME IInv, Sending \/ GateStops PROVE SafetyInv'
    OBVIOUS
  <1> USE DEF IInv
  <1>1. UNCHANGED <<inetHeard, inetGated, dedupe, sinceAccept>>
    BY DEF Sending, Admit, SkipDuplicate, QueueFull, Retry, GiveUp, FinishSend,
           GateStops, trackVars, histVars
  <1>2. CASE Admit
    <2>1. UNCHANGED <<pending, due, lastRF, key>> /\ gate = "admit"
      BY <1>2 DEF Admit, timerVars
    <2>2. CASE gate' = "sent"
      BY <1>1, <2>1, <2>2
      DEF SafetyInv, NothingPendingGatedElsewhere, HeldForGateDelay,
          SendingStillWanted, SpacedWhileSending, AgesAgree,
          InternetGatedRecentlySeen
    <2>3. CASE gate' = "admit" /\ sinceSend' = sinceSend
      BY <1>1, <2>1, <2>3, SafetyUnchanged DEF SafetyInv, invVars
    <2> QED
      BY <1>2, <2>2, <2>3, LastFrame
  <1>3. CASE QueueFull \/ Retry \/ GateStops
    <2>1. /\ UNCHANGED <<pending, due, lastRF, key, sinceSend>>
          /\ gate # "sent" /\ gate' # "sent"
          /\ gate' \in {"admit", "wait"} => gate \in {"admit", "wait"}
      BY <1>3 DEF QueueFull, Retry, GateStops, timerVars, histVars
    <2> QED
      BY <1>1, <2>1
      DEF SafetyInv, NothingPendingGatedElsewhere, HeldForGateDelay,
          SendingStillWanted, SpacedWhileSending, AgesAgree,
          InternetGatedRecentlySeen, InternetStationRecentlyHeard
  <1>4. CASE SkipDuplicate \/ GiveUp \/ FinishSend
    <2>1. key \in Messages /\ pending \subseteq Messages
          /\ due \in [Messages -> 0..DueCap] /\ sinceSend \in 0..Interval
      BY <1>4 DEF SkipDuplicate, GiveUp, FinishSend, TypeOK, GateTypeOK, TimerTypeOK
    <2>2. /\ gate' = "select"
          /\ pending' = pending \ {key}
          /\ due' = [due EXCEPT ![key] = 0]
          /\ sinceSend' = sinceSend
      BY <1>4 DEF SkipDuplicate, GiveUp, FinishSend, Forget, BackToSelect, histVars
    <2>3. lastRF' <= sinceSend
      <3>1. CASE FinishSend
        BY <2>1, <3>1 DEF FinishSend
      <3>2. CASE SkipDuplicate \/ GiveUp
        BY <3>2 DEF SkipDuplicate, GiveUp, AgesAgree
      <3> QED
        BY <1>4, <3>1, <3>2
    <2>4. HeldForGateDelay' /\ NothingPendingGatedElsewhere'
      BY <1>1, <2>1, <2>2
      DEF HeldForGateDelay, NothingPendingGatedElsewhere, InternetGatedRecentlySeen
    <2> QED
      BY <1>1, <2>2, <2>3, <2>4
      DEF SafetyInv, SendingStillWanted, SpacedWhileSending, AgesAgree
  <1> QED
    BY <1>2, <1>3, <1>4 DEF Sending

\* A tick makes everything older at the same pace, up to the caps: what had
\* expired stays expired, and a countdown loses no more than its age gains.
LEMMA SafetyTick == IInv /\ Tick => SafetyInv'
  <1> SUFFICES ASSUME IInv, Tick PROVE SafetyInv'
    OBVIOUS
  <1> USE DEF IInv
  <1>1. UNCHANGED <<pending, gate, key>>
    BY DEF Tick, gateVars
  <1>2. pending \subseteq Messages /\ (gate \in {"admit", "wait"} => key \in Messages)
    BY DEF TypeOK, TimerTypeOK, GateTypeOK
  <1>3. \A m \in Messages : inetGated[m] >= Window => inetGated'[m] >= Window
    BY OlderType, TimeAssumption DEF Tick, TypeOK, TrackTypeOK
  <1>4. \A s \in Stations : inetHeard[s] > Timeout => inetHeard'[s] > Timeout
    BY OlderType, CapTypes, TimeAssumption DEF Tick, TypeOK, TrackTypeOK
  <1>5. \A m \in Messages : sinceAccept'[m] >= sinceAccept[m]
    BY OlderType, CapTypes DEF Tick, TypeOK, TimerTypeOK
  <1>6. NothingPendingGatedElsewhere'
    BY <1>1, <1>2, <1>3, TimeAssumption
    DEF NothingPendingGatedElsewhere, InternetGatedRecentlySeen, TypeOK, TrackTypeOK, Tick, Older
  <1>7. SendingStillWanted'
    BY <1>1, <1>2, <1>3, <1>4, TimeAssumption, TrafficAssumption, CapTypes
    DEF SendingStillWanted, InternetGatedRecentlySeen, InternetStationRecentlyHeard,
        TypeOK, TrackTypeOK, Tick, Older
  <1>8. HeldForGateDelay'
    <2> SUFFICES ASSUME NEW m \in pending
                 PROVE  due'[m] + sinceAccept'[m] >= GateDelay
      BY <1>1 DEF HeldForGateDelay
    <2>1. /\ m \in Messages /\ due[m] \in Nat /\ sinceAccept[m] \in 0..AcceptCap
          /\ due[m] + sinceAccept[m] >= GateDelay
      BY <1>2, CapTypes DEF HeldForGateDelay, TypeOK, TimerTypeOK
    <2>2. due'[m] = Younger(due[m]) /\ sinceAccept'[m] = Older(sinceAccept[m], AcceptCap)
      BY <2>1 DEF Tick
    <2> QED
      BY <2>1, <2>2, CapTypes, TimeAssumption DEF Younger, Older
  <1>9. SpacedWhileSending'
    BY <1>1, TimeAssumption DEF SpacedWhileSending, Tick, Older, TypeOK, TimerTypeOK
  <1>10. AgesAgree'
    <2>1. gate # "sent" => lastRF' <= sinceSend'
      BY TimeAssumption DEF AgesAgree, Tick, Older, TypeOK, TimerTypeOK
    <2>2. \A m \in Messages : dedupe'[m] <= sinceAccept'[m]
      BY CapTypes, TimeAssumption DEF AgesAgree, Tick, Older, TypeOK, TimerTypeOK, TrackTypeOK
    <2>3. gate \in {"admit", "wait"} => sinceAccept'[key] >= GateDelay
      BY <1>2, <1>5, CapTypes, TimeAssumption DEF AgesAgree, TypeOK, TimerTypeOK, Tick, Older
    <2> QED
      BY <1>1, <2>1, <2>2, <2>3 DEF AgesAgree
  <1> QED
    BY <1>6, <1>7, <1>8, <1>9, <1>10 DEF SafetyInv

LEMMA InvInit == Init => IInv
  BY TypeInit, SafetyInit DEF IInv, SafetyInv

LEMMA InvNext == IInv /\ [Next]_vars => IInv'
  <1> SUFFICES ASSUME IInv, [Next]_vars PROVE IInv'
    OBVIOUS
  <1>1. TypeOK'
    BY TypeNext DEF IInv
  <1>2. SafetyInv
    BY DEF IInv, SafetyInv
  <1>3. ASSUME UNCHANGED vars PROVE SafetyInv'
    <2>1. UNCHANGED invVars
      BY <1>3 DEF vars, invVars, trackVars, timerVars, gateVars, histVars
    <2> QED
      BY <1>2, <2>1, SafetyUnchanged
  <1>4. SafetyInv'
    BY <1>2, <1>3, SafetyUnchanged, SafetyQuiet, SafetyTakeInbound, SafetyAccept,
       SafetyTimer, SafetySending, SafetyTick
    DEF Next, Gate, Environment
  <1> QED
    BY <1>1, <1>4 DEF IInv, SafetyInv

\* The inductive invariant holds in every reachable state.
THEOREM Invariance == Spec => []IInv
  BY InvInit, InvNext, PTL DEF Spec

\* No message is held that another i-gate was seen gating within the window.
THEOREM NothingGatedTwice == Spec => []NothingPendingGatedElsewhere
  BY Invariance, PTL DEF IInv

\* The checks made at the timer still hold when each frame is queued.
THEOREM ChecksStayTrue == Spec => []SendingStillWanted
  BY Invariance, PTL DEF IInv

\* A message is due no earlier than the gate delay after its acceptance.
THEOREM DelayKept == Spec => []HeldForGateDelay
  BY Invariance, PTL DEF IInv

\* A message frame is queued with the whole interval behind it.
THEOREM SpacingKept == Spec => []SpacedWhileSending
  BY Invariance, PTL DEF IInv

-----------------------------------------------------------------------------
(* The implementation of the relay, one step per action. *)

LEMMA RelayAges ==
    ASSUME IInv
    PROVE  /\ AcceptCap = Relay!AcceptCap
           /\ sinceAccept \in [Messages -> 0..AcceptCap]
           /\ rfHeard \in [Messages -> 0..Window]
           /\ \A age, cap : Older(age, cap) = Relay!Older(age, cap)
  BY DEF IInv, TypeOK, TimerTypeOK, TrackTypeOK, AcceptCap, Larger, Relay!AcceptCap,
         Older, Relay!Older

LEMMA RelayInit == Init => Relay!Init
  BY DEF Init, Relay!Init, Held, AcceptCap, Larger, Relay!AcceptCap

\* To drop a held message while none is being finished is to cancel it.
LEMMA RelayForget ==
    ASSUME NEW m \in Messages, gate # "sent", gate' # "sent",
           pending' = pending \ {m}, UNCHANGED <<sinceAccept, rfHeard, sinceSend>>
    PROVE  Relay!Cancel(m)
  BY DEF Relay!Cancel, Held

\* A frame heard on RF is a copy of the message it carries, if it carries one.
LEMMA RelayListener == IInv /\ Listener => [Relay!Next]_Relay!vars
  <1> SUFFICES ASSUME IInv, Listener PROVE [Relay!Next]_Relay!vars
    OBVIOUS
  <1>1. UNCHANGED <<Held, sinceAccept, sinceSend>>
    BY DEF Listener, HearFrame, RememberLocalStation, timerVars, gateVars, histVars, Held
  <1>2. ASSUME NEW r \in RFTraffic, HearFrame(r)
        PROVE  UNCHANGED rfHeard \/ \E m \in Messages : Relay!HearCopy(m)
    <2>1. CASE r.msg \in Messages
      <3>1. rfHeard' = [rfHeard EXCEPT ![r.msg] = 0]
        BY <1>2, <2>1, RelayAges DEF HearFrame
      <3> QED
        BY <1>1, <2>1, <3>1 DEF Relay!HearCopy
    <2>2. CASE r.msg \notin Messages
      BY <1>2, <2>2, RelayAges DEF HearFrame
    <2> QED
      BY <2>1, <2>2
  <1>3. RememberLocalStation => UNCHANGED rfHeard
    BY DEF RememberLocalStation
  <1> QED
    BY <1>1, <1>2, <1>3 DEF Listener, Relay!Next, Relay!vars

LEMMA RelayTakeInbound == IInv /\ TakeInbound => [Relay!Next]_Relay!vars
  <1> SUFFICES ASSUME IInv, TakeInbound PROVE [Relay!Next]_Relay!vars
    OBVIOUS
  <1> DEFINE p == Head(inbound)
  <1>1. p \in Packets
    BY DEF IInv, TypeOK, QueueTypeOK, TakeInbound
  <1>2. gate # "sent" /\ gate' # "sent" /\ UNCHANGED <<sinceAccept, rfHeard, sinceSend>>
    BY DEF TakeInbound, histVars
  <1>3. pending' = pending \ ObservedGating(p)
    BY DEF TakeInbound
  <1>4. CASE ObservedGating(p) = {}
    BY <1>2, <1>3, <1>4 DEF Held, Relay!vars
  <1>5. ASSUME NEW m \in Messages, ObservedGating(p) = {m}
        PROVE  Relay!Cancel(m)
    BY <1>2, <1>3, <1>5, RelayForget
  <1> QED
    BY <1>1, <1>4, <1>5, ObservedGatingType DEF Relay!Next

\* A delivery is accepted only when its mark is a window old.
LEMMA RelayAccept == IInv /\ Accept => [Relay!Next]_Relay!vars
  <1> SUFFICES ASSUME IInv, Accept PROVE [Relay!Next]_Relay!vars
    OBVIOUS
  <1>1. key \in Messages /\ gate # "sent" /\ gate' # "sent"
        /\ UNCHANGED <<rfHeard, sinceSend>>
    BY DEF IInv, TypeOK, GateTypeOK, Accept
  <1>2. CASE UNCHANGED <<pending, sinceAccept>>
    BY <1>1, <1>2 DEF Held, Relay!vars
  <1>3. CASE /\ ~AlreadyGated(key)
             /\ pending' = pending \cup {key}
             /\ sinceAccept' = [sinceAccept EXCEPT ![key] = 0]
    <2>1. dedupe[key] \in 0..Window /\ sinceAccept[key] \in 0..AcceptCap
          /\ dedupe[key] <= sinceAccept[key] /\ AcceptCap \in Nat
      BY <1>1, CapTypes DEF IInv, TypeOK, TimerTypeOK, TrackTypeOK, AgesAgree
    <2>2. sinceAccept[key] >= Window
      BY <1>3, <2>1, TimeAssumption DEF AlreadyGated
    <2> QED
      BY <1>1, <1>3, <2>2 DEF Relay!Next, Relay!Accept, Held
  <1> QED
    BY <1>2, <1>3 DEF Accept

LEMMA RelayTimer == IInv /\ (\E m \in Messages : Timer(m)) => [Relay!Next]_Relay!vars
  <1> SUFFICES ASSUME IInv, NEW m \in Messages, Timer(m) PROVE [Relay!Next]_Relay!vars
    OBVIOUS
  <1>1. gate # "sent" /\ gate' # "sent" /\ UNCHANGED <<sinceAccept, rfHeard, sinceSend>>
    BY DEF Timer, DropDue, Rearm, StartSend, TimerFires, trackVars, gateVars, histVars
  <1>2. CASE DropDue(m)
    BY <1>1, <1>2, RelayForget DEF DropDue, Forget, Relay!Next
  <1>3. CASE Rearm(m) \/ StartSend(m)
    BY <1>1, <1>3 DEF Rearm, StartSend, timerVars, Held, Relay!vars
  <1> QED
    BY <1>2, <1>3 DEF Timer

\* The message frame is queued after the delay and the interval, and with no
\* copy of the message heard on RF; every other step of a send is silent.
LEMMA RelaySending == IInv /\ (Sending \/ GateStops) => [Relay!Next]_Relay!vars
  <1> SUFFICES ASSUME IInv, Sending \/ GateStops PROVE [Relay!Next]_Relay!vars
    OBVIOUS
  <1>1. UNCHANGED <<sinceAccept, rfHeard>>
    BY DEF Sending, Admit, SkipDuplicate, QueueFull, Retry, GiveUp, FinishSend,
           GateStops, trackVars, histVars
  <1>2. CASE Admit
    <2>1. UNCHANGED <<pending, key>> /\ gate = "admit"
      BY <1>2 DEF Admit, timerVars
    <2>2. CASE gate' = "admit" /\ sinceSend' = sinceSend
      BY <1>1, <2>1, <2>2 DEF Held, Relay!vars
    <2>3. CASE gate' = "sent" /\ sinceSend' = 0
      <3>1. /\ key \in Messages /\ key \in pending
            /\ sinceAccept[key] >= GateDelay
            /\ sinceSend >= Interval
        BY <2>1 DEF IInv, TypeOK, GateTypeOK, SendingStillWanted, AgesAgree,
                    SpacedWhileSending
      <3>2. rfHeard[key] >= Window
        BY <1>2, <3>1, TimeAssumption
        DEF Admit, RFMessageRecentlyHeard, IInv, TypeOK, TrackTypeOK
      <3>3. Held = pending /\ Held' = pending \ {key}
        BY <2>1, <2>3 DEF Held
      <3>4. Relay!Send(key)
        BY <1>1, <2>3, <3>1, <3>2, <3>3 DEF Relay!Send
      <3> QED
        BY <3>1, <3>4 DEF Relay!Next
    <2> QED
      BY <1>2, <2>2, <2>3, LastFrame
  <1>3. CASE QueueFull \/ Retry \/ GateStops
    BY <1>1, <1>3 DEF QueueFull, Retry, GateStops, timerVars, histVars, Held, Relay!vars
  <1>4. CASE SkipDuplicate \/ GiveUp
    <2>1. key \in Messages
      BY <1>4 DEF SkipDuplicate, GiveUp, IInv, TypeOK, GateTypeOK
    <2>2. Relay!Cancel(key)
      BY <1>1, <1>4, <2>1, RelayForget
      DEF SkipDuplicate, GiveUp, Forget, BackToSelect, histVars
    <2> QED
      BY <2>1, <2>2 DEF Relay!Next
  <1>5. CASE FinishSend
    BY <1>1, <1>5 DEF FinishSend, Forget, BackToSelect, histVars, Held, Relay!vars
  <1> QED
    BY <1>2, <1>3, <1>4, <1>5 DEF Sending

LEMMA RelayTick == IInv /\ Tick => Relay!Tick
  <1> SUFFICES ASSUME IInv, Tick PROVE Relay!Tick
    OBVIOUS
  <1>1. UNCHANGED Held
    BY DEF Tick, gateVars, Held
  <1> QED
    BY <1>1, RelayAges DEF Tick, Relay!Tick

LEMMA RelayNext == IInv /\ [Next]_vars => [Relay!Next]_Relay!vars
  <1> SUFFICES ASSUME IInv, [Next]_vars PROVE [Relay!Next]_Relay!vars
    OBVIOUS
  <1>1. CASE Sender \/ Transmitter \/ Stop \/ (\E p \in InternetTraffic : Deliver(p))
             \/ UNCHANGED vars
    <2>1. UNCHANGED <<pending, gate, key, rfHeard, sinceAccept, sinceSend>>
      BY <1>1
      DEF Sender, SendRF, QueueFrame, AbandonFrame, Transmitter, Transmit,
          HaltTransmitter, Stop, Deliver, vars, trackVars, timerVars, gateVars, histVars
    <2> QED
      BY <2>1 DEF Held, Relay!vars
  <1>2. CASE Tick
    BY <1>2, RelayTick DEF Relay!Next
  <1> QED
    BY <1>1, <1>2, RelayListener, RelayTakeInbound, RelayAccept, RelayTimer, RelaySending
    DEF Next, Gate, Environment

\* The gate keeps the promises of the relay: every acceptance is sent at most
\* once, after the gate delay, an interval after the message before it, and
\* never within the window of a copy heard on RF.
THEOREM Implementation == Spec => ImplementsRelay
  <1>1. Init /\ [][Next]_vars /\ []IInv => Relay!Init /\ [][Relay!Next]_Relay!vars
    BY RelayInit, RelayNext, PTL
  <1> QED
    BY <1>1, Invariance, PTL DEF Spec, ImplementsRelay, Relay!Spec
=============================================================================
