------------------------------ MODULE Shutdown ------------------------------
(***************************************************************************)
(* How the program ends: main and app.go, which stop the parts one after   *)
(* the other, the goroutines that have to notice, and the way of a frame   *)
(* from Tx.Chan to the sound card, whose channel is closed on the way.     *)
(*                                                                         *)
(* A send on an unbuffered channel is one step with the goroutine that     *)
(* receives it; a sender with nobody to receive waits.  The configuration  *)
(* is a variable that never changes.                                       *)
(***************************************************************************)
EXTENDS Integers, FiniteSets

CONSTANTS
    Parts,          \* the goroutines of igate.Run
    Forwarder,      \* the one of them that uploads
    TxCap,          \* capacity of Tx.Chan
    SendCap,        \* capacity of sendChannel
    MaxFrames       \* bound: frames queued for the transmitter

ASSUME ShutdownAssumption ==
    /\ Forwarder \in Parts
    /\ TxCap \in Nat \ {0}
    /\ SendCap \in Nat \ {0}
    /\ MaxFrames \in Nat

\* Capture from an SDR or from the sound card; the parts that are configured.
\* A digipeater without a transmitter is not created, and without i-gate and
\* digipeater the program has nothing to do and returns.
Configs ==
    {c \in [sdr : BOOLEAN, igate : BOOLEAN, digi : BOOLEAN, tx : BOOLEAN] :
        (c.digi => c.tx) /\ (c.igate \/ c.digi)}

VARIABLES
    config,
    process,        \* "running", "returned" from main, "exited" or "panicked"
    signal,         \* main's goroutine: "none", "stop" or "sleep"
    stopper,        \* the goroutine of DigiGate.Run: the part it is stopping
    igate,          \* igate.Run: "starting", "running" or "done"
    parts,          \* its goroutines still running
    uploading,      \* an upload is under way
    igateStopped,   \* i.stop is closed
    digi,           \* Digipeater.Run: "select" or "done"
    rtl,            \* SdrCapture's goroutine: "select", "pipe" or "done"
    decoder,        \* multimon-ng: "running", "killed" or "failed" to start
    sound,          \* the sound card's two channels: "open", "stopping", "closed"
    player,         \* its transmit loop: "select" or "done"
    txLoop,         \* the transmitter: "select", in Play ("play", "send"), or "done"
    txQueue,        \* the number of frames in Tx.Chan
    sendQueue,      \* the number of frames in sendChannel
    fresh,          \* goroutines Play started, about to enter their select
    parked,         \* those waiting in it
    frames,         \* frames queued so far
    raced           \* history: a sender was under way when sendChannel was closed

stopVars == <<signal, stopper>>
runVars  == <<igate, parts, uploading, igateStopped, digi>>
capVars  == <<rtl, decoder>>
txVars   == <<txLoop, txQueue, frames>>
playVars == <<player, sendQueue, fresh, parked>>
vars == <<config, process, stopVars, runVars, capVars, sound, txVars, playVars, raced>>

\* The first state is the one in which DigiGate.Run has started everything; the
\* decoder, or the sound card beside an SDR, may have failed to start.
Init ==
    /\ config \in Configs
    /\ process = "running"
    /\ signal = "none"
    /\ stopper = "select"
    /\ igate = IF config.igate THEN "starting" ELSE "done"
    /\ parts = {}
    /\ uploading = FALSE
    /\ igateStopped = FALSE
    /\ digi = IF config.digi THEN "select" ELSE "done"
    /\ rtl = IF config.sdr THEN "select" ELSE "done"
    /\ decoder \in {"running", "failed"}
    /\ sound = "open"
    /\ player \in IF config.sdr THEN {"select", "done"} ELSE {"select"}
    /\ txLoop = IF config.tx THEN "select" ELSE "done"
    /\ txQueue = 0
    /\ sendQueue = 0
    /\ fresh = 0
    /\ parked = 0
    /\ frames = 0
    /\ raced = FALSE

Alive == process = "running"

Panic == process' = "panicked"

-----------------------------------------------------------------------------
(* main: a signal, DigiGate.Stop, two seconds, exit; or Run returns.       *)

Signal ==
    /\ Alive
    /\ signal = "none"
    /\ signal' = "stop"
    /\ UNCHANGED <<config, process, stopper, runVars, capVars, sound, txVars, playVars, raced>>

\* Mutant: DigiGate.Stop waits until everything is stopped.
StopAccepted_Done == stopper = "done"
StopAccepted == stopper = "select"

\* d.stop <- true
Stop ==
    /\ Alive
    /\ signal = "stop"
    /\ StopAccepted
    /\ signal' = "sleep"
    /\ stopper' = IF stopper # "select" THEN stopper
                  ELSE IF config.igate THEN "igate" ELSE "digipeater"
    /\ UNCHANGED <<config, process, runVars, capVars, sound, txVars, playVars, raced>>

\* os.Exit two seconds later, or the return of DigiGate.Run, if that is sooner.
Exit ==
    /\ Alive
    /\ \/ signal = "sleep" /\ process' = "exited"
       \/ igate = "done" /\ digi = "done" /\ process' = "returned"
    /\ UNCHANGED <<config, stopVars, runVars, capVars, sound, txVars, playVars, raced>>

-----------------------------------------------------------------------------
(* The goroutine of DigiGate.Run that stops the parts in order.            *)

\* close(i.stop); the connection is closed, and no wait is involved.
StopIGate ==
    /\ Alive
    /\ stopper = "igate"
    /\ igateStopped' = TRUE
    /\ stopper' = "digipeater"
    /\ UNCHANGED <<config, process, signal, igate, parts, uploading, digi, capVars, sound,
                   txVars, playVars, raced>>

StopDigipeater ==
    /\ Alive
    /\ stopper = "digipeater"
    /\ config.digi => digi = "select"
    /\ digi' = "done"
    /\ stopper' = "capture"
    /\ UNCHANGED <<config, process, signal, igate, parts, uploading, igateStopped, capVars,
                   sound, txVars, playVars, raced>>

\* SdrCapture.Stop.
StopSdr ==
    /\ Alive
    /\ stopper = "capture"
    /\ config.sdr
    /\ rtl = "select"
    /\ rtl' = "done"
    /\ stopper' = "decoder"
    /\ UNCHANGED <<config, process, signal, runVars, decoder, sound, txVars, playVars, raced>>

\* SoundcardCapture.Stop, once: as the capture device, or by Transmitter.Stop.
StopsSound == (stopper = "capture" /\ ~config.sdr) \/ stopper = "soundcard"

AfterSound == IF stopper = "capture" THEN "decoder" ELSE "transmitter"

\* close(s.stop) frees whoever waits in a select with it.
CloseStop ==
    /\ Alive
    /\ StopsSound
    /\ sound = "open"
    /\ sound' = "stopping"
    /\ parked' = 0
    /\ UNCHANGED <<config, process, stopVars, runVars, capVars, txVars, player, sendQueue,
                   fresh, raced>>

CloseSendChannel ==
    /\ Alive
    /\ StopsSound
    /\ sound = "stopping"
    /\ sound' = "closed"
    /\ raced' = (txLoop = "send" \/ fresh > 0)
    /\ stopper' = AfterSound
    /\ UNCHANGED <<config, process, signal, runVars, capVars, txVars, playVars>>

SoundStopped ==
    /\ Alive
    /\ stopper = "soundcard"
    /\ sound = "closed"
    /\ stopper' = AfterSound
    /\ UNCHANGED <<config, process, signal, runVars, capVars, sound, txVars, playVars, raced>>

\* Process is nil if multimon-ng did not start.
KillDecoder ==
    /\ Alive
    /\ stopper = "decoder"
    /\ IF decoder = "running"
       THEN decoder' = "killed" /\ UNCHANGED process
       ELSE Panic /\ UNCHANGED decoder
    /\ stopper' = IF config.tx THEN "soundcard" ELSE "done"
    /\ UNCHANGED <<config, signal, runVars, rtl, sound, txVars, playVars, raced>>

StopTransmitter ==
    /\ Alive
    /\ stopper = "transmitter"
    /\ txLoop = "select"
    /\ txLoop' = "done"
    /\ stopper' = "done"
    /\ UNCHANGED <<config, process, signal, runVars, capVars, sound, txQueue, frames,
                   playVars, raced>>

Stopper ==
    \/ StopIGate \/ StopDigipeater \/ StopSdr \/ CloseStop \/ CloseSendChannel
    \/ SoundStopped \/ KillDecoder \/ StopTransmitter

-----------------------------------------------------------------------------
(* The parts.  An upload may take any time and need not end.               *)

\* IGate.Run: startBeacon, which may upload and may refuse the configuration,
\* then the goroutines, then the wait for all of them.
Run ==
    /\ Alive
    /\ igate = "starting"
    /\ ~uploading
    /\ \/ igate' = "running" /\ parts' = Parts
       \/ igate' = "done" /\ UNCHANGED parts
    /\ UNCHANGED <<config, process, stopVars, uploading, igateStopped, digi, capVars, sound,
                   txVars, playVars, raced>>

Upload ==
    /\ Alive
    /\ igate = "starting" \/ Forwarder \in parts
    /\ uploading' = ~uploading
    /\ UNCHANGED <<config, process, stopVars, igate, parts, igateStopped, digi, capVars, sound,
                   txVars, playVars, raced>>

PartReturns(p) ==
    /\ Alive
    /\ p \in parts
    /\ igateStopped
    /\ p = Forwarder => ~uploading
    /\ parts' = parts \ {p}
    /\ igate' = IF parts = {p} THEN "done" ELSE igate
    /\ UNCHANGED <<config, process, stopVars, uploading, igateStopped, digi, capVars, sound,
                   txVars, playVars, raced>>

\* SdrCapture.Start: the goroutine looks for a stop once, before it reads.
PipeRtlFM ==
    /\ Alive
    /\ rtl = "select"
    /\ rtl' = "pipe"
    /\ UNCHANGED <<config, process, stopVars, runVars, decoder, sound, txVars, playVars, raced>>

-----------------------------------------------------------------------------
(* A frame on its way from Tx.Chan to the sound card.                      *)

QueueFrame ==
    /\ Alive
    /\ config.tx
    /\ frames < MaxFrames
    /\ txQueue < TxCap
    /\ txQueue' = txQueue + 1
    /\ frames' = frames + 1
    /\ UNCHANGED <<config, process, stopVars, runVars, capVars, sound, txLoop, playVars, raced>>

Transmit ==
    /\ Alive
    /\ txLoop = "select"
    /\ txQueue > 0
    /\ txQueue' = txQueue - 1
    /\ txLoop' = "play"
    /\ UNCHANGED <<config, process, stopVars, runVars, capVars, sound, frames, playVars, raced>>

\* Mutant: Play does not look whether the sound card was stopped.
PlaySeesStop_Deaf == FALSE
PlaySeesStop == sound # "open"

\* Mutant: the transmitter ends when the sound card has.
AfterPlay_Ends == IF sound = "open" THEN "select" ELSE "done"
AfterPlay == "select"

PlayChecks ==
    /\ Alive
    /\ txLoop = "play"
    /\ txLoop' = IF PlaySeesStop THEN AfterPlay ELSE "send"
    /\ UNCHANGED <<config, process, stopVars, runVars, capVars, sound, txQueue, frames,
                   playVars, raced>>

\* Mutant: sendChannel takes one frame more.
SendHasRoom_Over == sendQueue <= SendCap
SendHasRoom == sendQueue < SendCap

\* The send of Play: a full channel is left to a goroutine of its own.
PlaySends ==
    /\ Alive
    /\ txLoop = "send"
    /\ txLoop' = AfterPlay
    /\ \/ /\ sound = "closed"
          /\ Panic
          /\ UNCHANGED <<sendQueue, fresh>>
       \/ /\ sound # "closed" /\ SendHasRoom
          /\ sendQueue' = sendQueue + 1
          /\ UNCHANGED <<process, fresh>>
       \/ /\ sound # "closed" /\ ~SendHasRoom
          /\ fresh' = fresh + 1
          /\ UNCHANGED <<process, sendQueue>>
    /\ UNCHANGED <<config, stopVars, runVars, capVars, sound, txQueue, frames, player, parked,
                   raced>>

\* That goroutine enters its select: any ready branch, and a send on a closed
\* channel counts as ready.
Defer ==
    /\ Alive
    /\ fresh > 0
    /\ fresh' = fresh - 1
    /\ \/ sound # "open" /\ UNCHANGED <<process, sendQueue, parked>>
       \/ sound = "closed" /\ Panic /\ UNCHANGED <<sendQueue, parked>>
       \/ /\ sound # "closed" /\ SendHasRoom
          /\ sendQueue' = sendQueue + 1
          /\ UNCHANGED <<process, parked>>
       \/ /\ sound = "open" /\ ~SendHasRoom
          /\ parked' = parked + 1
          /\ UNCHANGED <<process, sendQueue>>
    /\ UNCHANGED <<config, stopVars, runVars, capVars, sound, txVars, player, raced>>

\* The transmit loop takes a frame, and with it the next of a waiting sender.
Play ==
    /\ Alive
    /\ player = "select"
    /\ sendQueue > 0
    /\ IF parked > 0
       THEN parked' = parked - 1 /\ UNCHANGED sendQueue
       ELSE sendQueue' = sendQueue - 1 /\ UNCHANGED parked
    /\ UNCHANGED <<config, process, stopVars, runVars, capVars, sound, txVars, player, fresh,
                   raced>>

PlayerStops ==
    /\ Alive
    /\ player = "select"
    /\ sound # "open"
    /\ player' = "done"
    /\ UNCHANGED <<config, process, stopVars, runVars, capVars, sound, txVars, sendQueue, fresh,
                   parked, raced>>

-----------------------------------------------------------------------------
Main == Stop \/ Exit

Sound == PlayChecks \/ PlaySends \/ Defer \/ Play \/ PlayerStops

Running == Run \/ Upload \/ (\E p \in Parts : PartReturns(p)) \/ PipeRtlFM

Next == Signal \/ Main \/ Stopper \/ Running \/ QueueFrame \/ Transmit \/ Sound

Spec == Init /\ [][Next]_vars

\* Every goroutine runs; nothing is assumed of uploads and of frames to send.
Fairness ==
    /\ WF_vars(Main)
    /\ WF_vars(Stopper)
    /\ WF_vars(Sound)

FairSpec == Spec /\ Fairness

\* What can be stopped is stopped within two seconds: nobody exits before.
Stuck == stopper = "done" \/ (stopper = "capture" /\ config.sdr /\ rtl # "select")

PromptSpec == Init /\ [][Next /\ (process' = "exited" => Stuck)]_vars

-----------------------------------------------------------------------------
(* Properties. *)

\* Every variable holds a value of its kind.
TypeOK ==
    /\ config \in Configs
    /\ process \in {"running", "returned", "exited", "panicked"}
    /\ signal \in {"none", "stop", "sleep"}
    /\ stopper \in {"select", "igate", "digipeater", "capture", "decoder", "soundcard",
                    "transmitter", "done"}
    /\ igate \in {"starting", "running", "done"}
    /\ parts \subseteq Parts
    /\ uploading \in BOOLEAN
    /\ igateStopped \in BOOLEAN
    /\ digi \in {"select", "done"}
    /\ rtl \in {"select", "pipe", "done"}
    /\ decoder \in {"running", "killed", "failed"}
    /\ sound \in {"open", "stopping", "closed"}
    /\ player \in {"select", "done"}
    /\ txLoop \in {"select", "play", "send", "done"}
    /\ txQueue \in 0..TxCap
    /\ sendQueue \in 0..SendCap
    /\ fresh \in 0..MaxFrames
    /\ parked \in 0..MaxFrames
    /\ frames \in 0..MaxFrames
    /\ raced \in BOOLEAN

\* The chain of stops waits for nobody who has gone: whoever is to receive the
\* next handover is still in its loop, except the goroutine of an SDR.
HandoversHaveReceivers ==
    /\ stopper = "digipeater" /\ config.digi => digi # "done"
    /\ stopper = "transmitter" => txLoop # "done"
    /\ signal = "stop" => stopper = "select"

\* The program panics at the stop only if the decoder never ran, or if a frame
\* was between the check in Play and its send when the channel was closed.
PanicsOnlyIf == process = "panicked" => raced \/ decoder = "failed"

\* A signal ends the process, whatever hangs on the way: an upload, an SDR.
ProcessExits == signal # "none" ~> process # "running"

\* What main says: the signal is caught for a clean exit that terminates the
\* processes, rtl_fm and multimon-ng.
CleanExit == process = "exited" => rtl # "pipe" /\ decoder # "running"
=============================================================================
