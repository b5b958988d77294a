--------------------------- MODULE ShutdownProofs ---------------------------
(***************************************************************************)
(* What holds of the way the program ends, in every configuration and      *)
(* whatever the capacities of the two queues and the number of frames.     *)
(*                                                                         *)
(* The inductive invariant relates the chain of stops to what it has       *)
(* stopped so far: a part not yet reached is still in its loop, a part     *)
(* passed is stopped, and a frame that can meet the closed sendChannel is  *)
(* one that raced was set for.                                             *)
(***************************************************************************)
EXTENDS Shutdown, TLAPS

\* The stops before and behind a point of the chain.
BeforeDigipeater == {"select", "igate", "digipeater"}
BeforeDecoder    == BeforeDigipeater \cup {"capture", "decoder"}
BehindDecoder    == {"soundcard", "transmitter", "done"}

InPlay == IF txLoop \in {"play", "send"} THEN 1 ELSE 0

\* No frame is counted twice on its way from Tx.Chan to the sound card.
FramesCounted == txQueue + InPlay + sendQueue + fresh + parked <= frames

\* DigiGate.Stop hands over once, and whoever the chain has yet to hand over to
\* waits for it, unless it is not configured.
ReceiversWait ==
    /\ signal \in {"none", "stop"} <=> stopper = "select"
    /\ stopper \in BeforeDigipeater /\ config.digi => digi = "select"
    /\ stopper # "done" /\ config.tx => txLoop # "done"
    /\ stopper \in {"soundcard", "transmitter"} => config.tx

\* What the chain has passed is stopped, and what it has not reached is not.
StopsInOrder ==
    /\ stopper \in BeforeDecoder => decoder # "killed"
    /\ stopper \in BehindDecoder => decoder # "running"
    /\ stopper \in BeforeDigipeater \cup {"capture"} /\ config.sdr => rtl # "done"
    /\ stopper \notin BeforeDigipeater \cup {"capture"} \/ ~config.sdr => rtl = "done"

\* Nobody new comes between the check in Play and its send once the channel is
\* closed: who is there was there when it was closed.
LateSendersRaced == sound = "closed" /\ (txLoop = "send" \/ fresh > 0) => raced

ShutdownInv ==
    /\ TypeOK
    /\ FramesCounted
    /\ ReceiversWait
    /\ StopsInOrder
    /\ LateSendersRaced
    /\ PanicsOnlyIf

\* The part of "clean exit" that is so: given the two seconds in which what can
\* be stopped is stopped, an exit on a signal leaves rtl_fm and multimon-ng
\* behind only when the goroutine of the SDR is in its pipe, deaf to the stop.
UncleanOnlyInPipe ==
    process = "exited" =>
        \/ rtl = "pipe" /\ stopper = "capture"
        \/ rtl # "pipe" /\ decoder # "running"

-----------------------------------------------------------------------------
(* Typing, and the count of frames it needs. *)

Typed == TypeOK /\ FramesCounted

LEMMA ShutdownInit == Init => ShutdownInv
  <1> SUFFICES ASSUME Init PROVE ShutdownInv
    OBVIOUS
  <1> USE ShutdownAssumption DEF Init
  <1>1. /\ config \in Configs /\ process = "running" /\ signal = "none" /\ stopper = "select"
        /\ parts \subseteq Parts /\ sound = "open"
        /\ decoder \in {"running", "failed"}
    OBVIOUS
  <1>2. uploading \in BOOLEAN /\ igateStopped \in BOOLEAN /\ raced \in BOOLEAN
    OBVIOUS
  <1>3. /\ igate \in {"starting", "done"}
        /\ digi \in {"select", "done"} /\ (config.digi => digi = "select")
        /\ rtl \in {"select", "done"} /\ (config.sdr <=> rtl = "select")
        /\ txLoop \in {"select", "done"} /\ (config.tx => txLoop = "select")
        /\ player \in {"select", "done"}
    OBVIOUS
  <1>4. txQueue = 0 /\ sendQueue = 0 /\ fresh = 0 /\ parked = 0 /\ frames = 0
    OBVIOUS
  <1> HIDE DEF Init
  <1>5. TypeOK
    BY <1>1, <1>2, <1>3, <1>4 DEF TypeOK
  <1>6. FramesCounted /\ LateSendersRaced
    BY <1>1, <1>3, <1>4 DEF FramesCounted, InPlay, LateSendersRaced
  <1>7. ReceiversWait /\ StopsInOrder /\ PanicsOnlyIf
    BY <1>1, <1>3
    DEF ReceiversWait, StopsInOrder, PanicsOnlyIf, BeforeDigipeater, BeforeDecoder,
        BehindDecoder
  <1> QED
    BY <1>5, <1>6, <1>7 DEF ShutdownInv

\* The way of a frame.  The count bounds the goroutines that carry one.
LEMMA TypedFrames ==
    ASSUME Typed, QueueFrame \/ Transmit \/ Sound PROVE Typed'
  <1> USE ShutdownAssumption
      DEF Typed, TypeOK, FramesCounted, InPlay, stopVars, runVars, capVars, txVars, playVars
  <1>1. CASE QueueFrame
    BY <1>1 DEF QueueFrame
  <1>2. CASE Transmit
    BY <1>2 DEF Transmit
  <1>3. CASE PlayChecks
    BY <1>3 DEF PlayChecks, AfterPlay
  <1>4. CASE PlaySends
    BY <1>4 DEF PlaySends, AfterPlay, Panic, SendHasRoom
  <1>5. CASE Defer
    BY <1>5 DEF Defer, Panic, SendHasRoom
  <1>6. CASE Play
    BY <1>6 DEF Play
  <1>7. CASE PlayerStops
    BY <1>7 DEF PlayerStops
  <1> QED
    BY <1>1, <1>2, <1>3, <1>4, <1>5, <1>6, <1>7 DEF Sound

LEMMA TypedStopper ==
    ASSUME Typed, Signal \/ Main \/ Stopper PROVE Typed'
  <1> USE ShutdownAssumption
      DEF Typed, TypeOK, FramesCounted, InPlay, stopVars, runVars, capVars, txVars, playVars
  <1>1. CASE Signal \/ Stop \/ Exit
    BY <1>1 DEF Signal, Stop, Exit
  <1>2. CASE StopIGate
    <2>1. igateStopped' \in BOOLEAN
      BY <1>2 DEF StopIGate
    <2> QED
      BY <1>2, <2>1 DEF StopIGate
  <1>3. CASE StopDigipeater \/ StopSdr
    BY <1>3 DEF StopDigipeater, StopSdr
  <1>4. CASE CloseStop
    BY <1>4 DEF CloseStop
  <1>5. CASE CloseSendChannel
    <2>1. raced' \in BOOLEAN
      BY <1>5 DEF CloseSendChannel
    <2> QED
      BY <1>5, <2>1 DEF CloseSendChannel, AfterSound
  <1>6. CASE SoundStopped
    BY <1>6 DEF SoundStopped, AfterSound
  <1>7. CASE KillDecoder
    BY <1>7 DEF KillDecoder, Panic
  <1>8. CASE StopTransmitter
    BY <1>8 DEF StopTransmitter
  <1> QED
    BY <1>1, <1>2, <1>3, <1>4, <1>5, <1>6, <1>7, <1>8 DEF Main, Stopper

LEMMA TypedParts == ASSUME Typed, Running PROVE Typed'
  <1> USE ShutdownAssumption
      DEF Typed, TypeOK, FramesCounted, InPlay, stopVars, runVars, capVars, txVars, playVars
  <1>1. CASE Run
    BY <1>1 DEF Run
  <1>2. CASE Upload
    <2>1. uploading' \in BOOLEAN
      BY <1>2 DEF Upload
    <2> QED
      BY <1>2, <2>1 DEF Upload
  <1>3. CASE \E p \in Parts : PartReturns(p)
    BY <1>3 DEF PartReturns
  <1>4. CASE PipeRtlFM
    BY <1>4 DEF PipeRtlFM
  <1> QED
    BY <1>1, <1>2, <1>3, <1>4 DEF Running

-----------------------------------------------------------------------------
(* The chain of stops. *)

Chain == ReceiversWait /\ StopsInOrder

\* What the chain is about, besides the frame between its check and its send.
chainVars == <<config, signal, stopper, digi, rtl, decoder>>

LEMMA ChainUnchanged ==
    ASSUME Chain, UNCHANGED chainVars, txLoop' = "done" => txLoop = "done" PROVE Chain'
  BY DEF Chain, ReceiversWait, StopsInOrder, chainVars

LEMMA ChainFrames ==
    ASSUME Typed, Chain, QueueFrame \/ Transmit \/ Sound PROVE Chain'
  <1>1. UNCHANGED chainVars
    BY DEF QueueFrame, Transmit, Sound, PlayChecks, PlaySends, Defer, Play, PlayerStops,
           stopVars, runVars, capVars, chainVars
  <1>2. txLoop' = "done" => txLoop = "done"
    BY DEF QueueFrame, Transmit, Sound, PlayChecks, PlaySends, Defer, Play, PlayerStops,
           AfterPlay, txVars
  <1> QED
    BY <1>1, <1>2, ChainUnchanged

LEMMA ChainStopper ==
    ASSUME Typed, Chain, Signal \/ Main \/ Stopper PROVE Chain'
  <1> USE DEF Typed, TypeOK, Chain, ReceiversWait, StopsInOrder, BeforeDigipeater,
              BeforeDecoder, BehindDecoder, stopVars, runVars, capVars, txVars
  <1>1. CASE Signal
    BY <1>1 DEF Signal
  <1>2. CASE Stop
    BY <1>2 DEF Stop, StopAccepted
  <1>3. CASE Exit
    BY <1>3 DEF Exit
  <1>4. CASE StopIGate
    BY <1>4 DEF StopIGate
  <1>5. CASE StopDigipeater
    BY <1>5 DEF StopDigipeater
  <1>6. CASE StopSdr
    BY <1>6 DEF StopSdr
  <1>7. CASE CloseStop
    BY <1>7 DEF CloseStop
  <1>8. CASE CloseSendChannel
    BY <1>8 DEF CloseSendChannel, StopsSound, AfterSound
  <1>9. CASE SoundStopped
    BY <1>9 DEF SoundStopped, AfterSound
  <1>10. CASE KillDecoder
    BY <1>10 DEF KillDecoder
  <1>11. CASE StopTransmitter
    BY <1>11 DEF StopTransmitter
  <1> QED
    BY <1>1, <1>2, <1>3, <1>4, <1>5, <1>6, <1>7, <1>8, <1>9, <1>10, <1>11 DEF Main, Stopper

LEMMA ChainParts == ASSUME Typed, Chain, Running PROVE Chain'
  <1>1. CASE PipeRtlFM
    BY <1>1 DEF PipeRtlFM, Typed, TypeOK, Chain, ReceiversWait, StopsInOrder,
                BeforeDigipeater, BeforeDecoder, BehindDecoder, stopVars, runVars, txVars
  <1>2. CASE Run \/ Upload \/ \E p \in Parts : PartReturns(p)
    <2>1. UNCHANGED chainVars /\ txLoop' = txLoop
      BY <1>2 DEF Run, Upload, PartReturns, stopVars, capVars, txVars, chainVars
    <2> QED
      BY <2>1, ChainUnchanged
  <1> QED
    BY <1>1, <1>2 DEF Running

-----------------------------------------------------------------------------
(* What meets the closed channel. *)

Panics == LateSendersRaced /\ PanicsOnlyIf

LEMMA PanicsFrames ==
    ASSUME Typed, Panics, QueueFrame \/ Transmit \/ Sound PROVE Panics'
  <1> USE DEF Typed, TypeOK, Panics, LateSendersRaced, PanicsOnlyIf, capVars, txVars, playVars
  <1>1. CASE QueueFrame \/ Transmit
    BY <1>1 DEF QueueFrame, Transmit
  <1>2. CASE PlayChecks
    BY <1>2 DEF PlayChecks, PlaySeesStop, AfterPlay
  <1>3. CASE PlaySends
    BY <1>3 DEF PlaySends, AfterPlay, Panic
  <1>4. CASE Defer
    BY <1>4 DEF Defer, Panic
  <1>5. CASE Play \/ PlayerStops
    BY <1>5 DEF Play, PlayerStops
  <1> QED
    BY <1>1, <1>2, <1>3, <1>4, <1>5 DEF Sound

LEMMA PanicsStopper ==
    ASSUME Typed, Chain, Panics, Signal \/ Main \/ Stopper PROVE Panics'
  <1> USE DEF Typed, TypeOK, Panics, LateSendersRaced, PanicsOnlyIf, capVars, txVars, playVars
  <1>1. CASE Signal \/ Stop \/ Exit
    BY <1>1 DEF Signal, Stop, Exit
  <1>2. CASE StopIGate \/ StopDigipeater \/ StopSdr
    BY <1>2 DEF StopIGate, StopDigipeater, StopSdr
  <1>3. CASE CloseStop \/ SoundStopped
    BY <1>3 DEF CloseStop, SoundStopped
  <1>4. CASE CloseSendChannel
    BY <1>4 DEF CloseSendChannel, Alive
  <1>5. CASE KillDecoder
    BY <1>5 DEF KillDecoder, Panic, Alive, Chain, StopsInOrder, BeforeDecoder
  <1>6. CASE StopTransmitter
    BY <1>6 DEF StopTransmitter
  <1> QED
    BY <1>1, <1>2, <1>3, <1>4, <1>5, <1>6 DEF Main, Stopper

LEMMA PanicsParts == ASSUME Panics, Running PROVE Panics'
  BY DEF Running, Run, Upload, PartReturns, PipeRtlFM, Panics, LateSendersRaced,
         PanicsOnlyIf, capVars, txVars, playVars

-----------------------------------------------------------------------------
(* The invariant, and what follows from it. *)

LEMMA ShutdownInvNext == ShutdownInv /\ [Next]_vars => ShutdownInv'
  <1> SUFFICES ASSUME ShutdownInv, [Next]_vars PROVE ShutdownInv'
    OBVIOUS
  <1>1. Typed /\ Chain /\ Panics
    BY DEF ShutdownInv, Typed, Chain, Panics
  <1>2. CASE QueueFrame \/ Transmit \/ Sound
    BY <1>1, <1>2, TypedFrames, ChainFrames, PanicsFrames
    DEF ShutdownInv, Typed, Chain, Panics
  <1>3. CASE Signal \/ Main \/ Stopper
    BY <1>1, <1>3, TypedStopper, ChainStopper, PanicsStopper
    DEF ShutdownInv, Typed, Chain, Panics
  <1>4. CASE Running
    BY <1>1, <1>4, TypedParts, ChainParts, PanicsParts DEF ShutdownInv, Typed, Chain, Panics
  <1>5. CASE UNCHANGED vars
    BY <1>5
    DEF vars, stopVars, runVars, capVars, txVars, playVars, ShutdownInv, TypeOK, FramesCounted,
        InPlay, ReceiversWait, StopsInOrder, LateSendersRaced, PanicsOnlyIf
  <1> QED
    BY <1>2, <1>3, <1>4, <1>5 DEF Next

LEMMA ShutdownInvariant == Spec => []ShutdownInv
  BY ShutdownInit, ShutdownInvNext, PTL DEF Spec

\* Every variable keeps its type; the frames queued bound the goroutines that
\* Play starts for a full sendChannel.
THEOREM ShutdownTyped == Spec => []TypeOK
  <1>1. ShutdownInv => TypeOK
    BY DEF ShutdownInv
  <1> QED
    BY <1>1, ShutdownInvariant, PTL

\* In every configuration, the goroutine that stops the parts never sends to a
\* part that has returned, and DigiGate.Stop is received.
THEOREM HandoversHaveReceiversAlways == Spec => []HandoversHaveReceivers
  <1>1. ShutdownInv => HandoversHaveReceivers
    BY DEF ShutdownInv, ReceiversWait, HandoversHaveReceivers, BeforeDigipeater, TypeOK
  <1> QED
    BY <1>1, ShutdownInvariant, PTL

\* Whatever the number of frames and of goroutines sending them, the stop
\* panics only if the decoder never ran or a sender was under way when
\* sendChannel was closed.
THEOREM PanicsOnlyIfAlways == Spec => []PanicsOnlyIf
  <1>1. ShutdownInv => PanicsOnlyIf
    BY DEF ShutdownInv
  <1> QED
    BY <1>1, ShutdownInvariant, PTL

\* When the process exits on a signal no sooner than everything that can be
\* stopped is, only rtl_fm's pipe can have kept it from a clean exit.
THEOREM UncleanOnlyInPipeAlways == PromptSpec => []UncleanOnlyInPipe
  <1> DEFINE Prompt == Next /\ (process' = "exited" => Stuck)
  <1>1. Init => UncleanOnlyInPipe
    BY DEF Init, UncleanOnlyInPipe
  <1>2. [Prompt]_vars => [Next]_vars
    OBVIOUS
  <1>3. ShutdownInv /\ UncleanOnlyInPipe /\ [Prompt]_vars => UncleanOnlyInPipe'
    <2> SUFFICES ASSUME ShutdownInv, UncleanOnlyInPipe, [Prompt]_vars, process' = "exited"
                 PROVE  UncleanOnlyInPipe'
      BY DEF UncleanOnlyInPipe
    <2>1. CASE UNCHANGED vars
      BY <2>1 DEF vars, stopVars, capVars, UncleanOnlyInPipe
    <2>2. CASE Prompt
      <3>1. Exit
        BY <2>2 DEF Next, Main, Stopper, Running, Sound, Panic, Alive, Signal, Stop, StopIGate,
           StopDigipeater, StopSdr, CloseStop, CloseSendChannel, SoundStopped, KillDecoder,
           StopTransmitter, Run, Upload, PartReturns, PipeRtlFM, QueueFrame, Transmit,
           PlayChecks, PlaySends, Defer, Play, PlayerStops
      <3>2. UNCHANGED <<stopper, rtl, decoder>>
        BY <3>1 DEF Exit, stopVars, capVars
      <3>3. Stuck
        BY <2>2
      <3>4. \/ rtl = "pipe" /\ stopper = "capture"
            \/ rtl # "pipe" /\ decoder # "running"
        BY <3>3 DEF ShutdownInv, TypeOK, StopsInOrder, Stuck, BeforeDigipeater, BehindDecoder
      <3> QED
        BY <3>2, <3>4 DEF UncleanOnlyInPipe
    <2> QED
      BY <2>1, <2>2
  <1> QED
    BY <1>1, <1>2, <1>3, ShutdownInit, ShutdownInvNext, PTL DEF PromptSpec
=============================================================================
