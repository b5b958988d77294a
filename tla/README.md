# Verification of go-igate

TLA+ models of go-igate, an APRS i-gate and digipeater written in Go, the TLC
configurations that check them, and TLAPS proofs of every safety property that the
passing runs check.
Paths and line numbers refer to the source under `src/`; `PROJECT.json` lists for
every definition the lines it stands for.

- [The system](#the-system)
- [Modules](#modules)
- [Runs, bounds and what they show](#runs-bounds-and-what-they-show)
- [Time and fairness](#time-and-fairness)
- [Findings](#findings)
- [Proofs](#proofs)
- [Not modelled](#not-modelled)
- [Plan](#plan)

## The system

One process joins a radio channel to the APRS-IS network. Audio from an SDR or a
sound card goes through an external decoder (multimon-ng); decoded packets are
published to the i-gate and the digipeater; the i-gate forwards them to APRS-IS,
gates messages back to RF, and sends beacons on both sides; everything sent on RF
goes through one transmitter queue to one sound card.

    capture --pipe--> multimon --cache.Set--> PubSub --chan--> i-gate listener --forwardChan--> AprsIs.Upload
                                                  \--chan--> digipeater --SendRF--\
    AprsIs reader --Inbound--> gateMessagesToRF --------------------------------------> Tx.Chan --> Tx.Start --> sound card
    startBeacon / watchdog / verification --go sendBeaconRf---------------------------/

| Component | State | Operations | Interacts through |
|---|---|---|---|
| **Message gate**, `igate.go` 353-835 | tracking maps (who was heard where, and which messages), pending messages with their times, `lastMessageRF` | `gateMessagesToRF`: timer branch, inbound branch, stop branch; `rememberLocalStation`, `rememberRFMessage…` | the maps under three mutexes, filled by the listener; `Inbound`; `rfTxMu`; `Tx.Chan` |
| **Listener and forwarder**, 277-351, 916-943 | `forwardChan` (capacity 32), `localStations` | `listenForMessages`, `forwardPackets`, q construct, `markRx`, `observeBeacon` | channels from PubSub, `AprsIs.Upload` |
| **RF beacons**, 837-874, 1182-1496 | `rfBeaconMu`, `lastRx`, `beaconWaits`, attempt counters | `sendBeaconRf` and its waits, `observeBeacon`, `cancelPendingBeacon`, verification | one goroutine per beacon; the listener; `Tx.Chan` |
| **Beacon schedule, aprs.fi watchdog**, 1066-1119, 1583-1753 | tickers, age of the last attempt | `startBeacon`, `aprsFiWatchdogTick`, `scheduleAprsFiVerification`, `runAprsFiVerification` | starts beacon goroutines; HTTP |
| **Geo filter**, 1498-1581 | configuration | decides whether a packet is forwarded | the forwarder |
| **APRS-IS client**, `aprs/aprsis.go` | `connected`, `Conn`, `Inbound`, `inboundEnabled`, `stop` | `Connect`, `Disconnect`, `Upload`, `Stop`, the reader goroutine | unguarded fields read and written by the reader, by uploads and by `Stop` |
| **Packet parsing**, `aprs/packet.go` | none | text to record, third-party unwrapping | everyone |
| **Digipeater**, `digipeater/` | dedupe window | `HandleMessage`, `prepare`, `rewritePath` | PubSub; `SendRF`, in a goroutine per frame; other stations by radio |
| **Duplicate cache**, `cache/lru.go` | map, linked list, file | `Get`, `Set`, saving and loading | called by the decoder's reader |
| **PubSub**, `pubsub/pubsub.go` | subscriber channels | `Subscribe`, `Publish` (a goroutine per message and subscriber) | decoder, i-gate, digipeater |
| **Transmitter**, `transmitter/` | `Chan`, stop | `Start`, `TrySend`, `SendUntil`, `Stop` | every sender; the sound card |
| **Decoder**, `multimon/` | pipes, process | reads lines, drops duplicates, publishes | the cache, PubSub |
| **Capture and playback**, `capture/` | audio streams, send channel | `Play`, `Stop`, AX.25 encoding, modulation | devices |
| **Application**, `app.go`, `main.go` | all of the above | `NewDigiGate`, `Run`, `Stop` | order of the stops |

What is hard to test here is concurrency and time: a message is held, re-armed and
retried while four goroutines change what decided that it may go; a beacon is
judged by a packet that may have been received before it was sent; two fields are
written by three goroutines with no lock; a file is emptied before it is written;
copies of one packet reach a digipeater by several ways. The list, at the lines
where each one bites and with the properties that watch it, is `hazards` in
`PROJECT.json`.

For each component, what makes it correct:

- *Message gate*: a message goes out at most once per acceptance, after its delay,
  spaced from the one before, not when a copy was heard on RF or another i-gate was
  seen gating it; it is resolved in the end; the goroutine ends at the stop.
- *Beacons*: one at a time, only into a quiet channel, judged by what was heard
  after it, retried once, at most one after the stop, and each one returns.
- *APRS-IS client*: uploads and the reader only ever use a connection that logged
  in; the reader gets back to a live one; `Stop` ends it.
- *Cache*: a list that stays a list, and the answers of a duplicate filter, also
  across crashes.
- *Digipeater*: hops are spent, paths keep to what their source asked for, a packet does not go in circles, a flood ends.
- *Forwarder*: nothing goes back to APRS-IS that came from there; the q construct of an
  upload tells the truth; the listener keeps up as long as uploads return.
- *Schedule and watchdog*: beacons keep their distance however many pile up, the watchdog adds at
  most one to a beacon just sent, and a station
  that aprs.fi does not see stays on the air although the schedule hangs.
- *Shutdown*: nobody waits for ever on somebody who has gone.

## Modules

| Module | Models | Reads as |
|---|---|---|
| `MessageRelay` | the promise of the message gate | abstract specification |
| `MessageGate` | the gate goroutine, the listener, another RF sender, the transmitter | detailed specification, refines `MessageRelay` |
| `MessageGateProofs` | proofs about `MessageGate` | |
| `Beacon` | beacon goroutines, verification, listener, stop | |
| `BeaconSchedule` | who starts the beacons: schedule and watchdog | composes with `Beacon` (extends it) |
| `BeaconProofs` | proofs about `Beacon` and `BeaconSchedule` | |
| `DuplicateFilter` | the promise of the cache | abstract specification |
| `LruCache` | list, map, file, crash and restart | detailed specification, refines `DuplicateFilter` |
| `LruCacheProofs` | proofs about `LruCache` | |
| `FiniteFolds` | lemmas: induction on finite sets and on numbers, folds, maxima | used by `LruCacheProofs` and `DigipeaterProofs` |
| `AprsIs` | the client's goroutines and the server | |
| `AprsIsProofs` | proofs about `AprsIs` | |
| `Digipeater` | all stations of a channel, their PubSub, their digipeaters | |
| `DigipeaterProofs` | proofs about `Digipeater` | |
| `Forwarder` | the i-gate of one of them, from the listener to the upload | composes with `Digipeater` (extends it), and is proved to implement it |
| `ForwarderProofs` | proofs about `Forwarder` | |
| `Shutdown` | `main`, `app.go`, the stops of all parts, `Play` and the sound card's channel | composes the parts' ends |
| `ShutdownProofs` | proofs about `Shutdown` | |
| `MC…` | small instances and symmetry sets | |

Operators whose names end in `_Something` and are headed *Mutant* are wrong on
purpose: each stands beside the definition it would replace, and is used only to
see that a property notices.

### MessageGate

One variable per map of the code (`localHeard` is `localStations`, `rfHeard` is
`rfMessages`, `inetHeard`, `inetPosition`, `inetGated`, `dedupe`); `pending` and `due`
are `pendingGatedMessages`, `lastRF` is `lastMessageRF`. A program point and the
message in hand (`gate`, `key`, `frames`) are the gate goroutine; `listener` is a frame
remembered as a message but not yet as a station (two locks, so two steps); `sender`
is another caller of `SendRF`, holding `rfTxMu` at `SendUntil`.

`TakeInbound` is the inbound branch up to the last eligibility test, with everything
`observeInternetPacket` records; `Accept` the part after it, under its own lock.
`DropDue`, `Rearm` and `StartSend` are the outcomes of the timer branch for the message
that is due first. `Admit`, `SkipDuplicate` and `QueueFull` are one attempt of
`sendRFFramesUnlessRFMessage` under `rfTxMu` and the RF-message lock; `Retry` and
`GiveUp` are the wait between attempts; `FinishSend` writes `lastMessageRF`.

### Beacon

`pc[j]` is where the goroutine of beacon `j` stands in `sendBeaconRf`; from `quiet` on it
holds `rfBeaconMu`. All beacons of a station send the same frame, so `beaconWaits` has
at most one entry, `expect`. `Admit` is the attempt under `rfTxMu` and `lastRxMu`, with
the registration made before the locks are released. A goroutine that is asleep is
woken by its timer or by the stop. `Hear` is `markRx`; `Observe` is `observeBeacon`, a
separate step because the listener does other work, and may wait for the forward
queue, between the two. Verification (`Query`, `Confirmed`, `NotConfirmed`) is a goroutine
per sent beacon. When a beacon is started is free here: `StartBeacon` at any time. The goroutines
are interchangeable, so the liveness properties speak of one of them, `AnyJob`.

### BeaconSchedule

Who calls `sendBeaconRf` when RF and APRS-IS beacons are both configured. `schedule` is
`startBeacon`, within `Run` until its first upload has returned (`initial`) and a goroutine of
its own afterwards; each of its turns uploads first (`BeginUpload`, `FinishUpload`) and then
starts a beacon, whatever the upload said. An upload has no deadline and may never return. `watchdog` is
`runAprsFiWatchdog`: `ReadAge` and `Answered` are the two halves of `aprsFiWatchdogTick`, with
the query, which has a deadline of its HTTP client, between them; `attemptAge` is what the
first half read and the second decides by, and `added` is a history variable: how many beacons the watchdog started
within `Gap` of the last attempt. `Attempted` adds to `Admit` of `Beacon` that the attempt is
recorded, under the same locks. The intervals of the tickers are left open, so every
shorter or longer one is included, and so is a ticker whose goroutine was held up. A goroutine
that has returned gives its name to the next (`Reuse`), so beacons never run out; that there are two
names bounds how many pile up at once. Verification is off: `scheduleAprsFiVerification`
wants APRS-IS beacons disabled, the opposite of this configuration (`~Verify` in `ScheduleInit`). The two
ages a last attempt is compared with are configured apart, so nothing is assumed of their order; it is counted up to the
longest of them and the warm-up (`Old`), after which only "never" is older.

### LruCache

`lru` is the structure of `lru.go` pointer by pointer (`head`, `tail`, `next`, `prev` and the
map), and `RemoveNode`, `PushFront`, `MoveToFront`, `EvictTail`, `Insert`, `Prune` are its
functions. `Set` holds the mutex while it saves, so its save is a mode of the cache:
`CreateFile` empties the file, `WriteFile` fills it, a `Crash` may come at any point.
`Start` loads the file in any order, Go map iteration being random. `ListIsWhole` asks for an order of the
map's keys in which every `next`, every `prev` and both ends point as they should (`Follows`). `heard`, `since` and
`lost` are history variables for the refinement.

### AprsIs

`connected` and `Conn` are read and written without a lock, so every access is a step of
its own, and the two writes at the end of `Connect` may be seen in either order.
`local[p]` is what a goroutine has in a local variable. `raced` remembers that one of
the two known races happened. The state begins where `New` returns.

### Digipeater

Several stations run PubSub, and on it a digipeater, an i-gate or both (`config`). PubSub
starts a goroutine per message and subscriber: `inbox[s][p]` holds the frames whose goroutine has not
yet handed over to part `p`, which therefore gets them in any order. `outbox` holds the frames that the
goroutine of each is about to send. Any subset of stations may hear any transmission: losses
and hidden stations are included. `RewritePath` stands for the rules in
`digipeater.go` and for those of `rewriter.go`, which are the same ones. How a
pattern matches text is abstracted to the kind of hop; a frame is a key (source and
payload, what `dedupeKey` tells apart), a path (a call sign or an alias asks for one station, so its `left` is 1), and whether it is barred from being repeated or gated.

### Forwarder

One station of `Digipeater` has an i-gate. `Listen` is one turn of `listenForMessages` up to the
send into `forwardChan`: the forbidden path, third-party traffic and what it encloses, what is
learnt about local stations, the rules for own packets, the type and the geo filter as decisions on
the key, and the rewritten path. `Forward` is the send, `ListenerStops` the stop in either
of its selects, which closes the channel. `StartUpload` takes a packet and chooses its q construct at that moment;
`FinishUpload` is the return of the upload, failed or not; a packet is lost with a failed one.
`ForwarderStops` ends the loop at the stop or at the closed channel. What the listener
does for beacons is in `Beacon`, what it teaches the gate in `MessageGate`. `directAge` is a
history variable.

### Shutdown

One variable per goroutine that takes part in the end: `signal` is the one in `main`, `stopper`
the one in `DigiGate.Run`, `igate` and `parts` are `igate.Run` and what it waits for, then `digi`,
`rtl` (the SDR), `txLoop`, `player` (the sound card's transmit loop), `fresh` and `parked` (what `Play`
starts when the channel is full). A handover on an unbuffered channel is one step of both
sides. `config` ranges over every combination of parts, so one run covers them all. The
upload of the forwarder may hang: it has no fairness.

## Runs, bounds and what they show

Ages saturate at the first value every comparison treats as expired, so no run has a
bound on time: clocks run for ever in a finite state space. Deadlock is not checked
anywhere (`CHECK_DEADLOCK FALSE`): every goroutine may return after the stop, the process
ends, and the sources of the digipeater may fall silent; that nobody waits for ever is stated by the
liveness properties instead.

| Run | Instance | Shows |
|---|---|---|
| `gate_one` | one message, all kinds of APRS-IS packets and RF frames, queues of one | `NothingPendingGatedElsewhere`, `SendingStillWanted`, `HeldForGateDelay`; the gate implements `MessageRelay` |
| `gate_two` | two messages, another sender | `SpacedWhileSending`; `PendingResolved`: each held message is sent, dropped or cancelled; `StopsAfterStop`: the gate returns even when the transmitter has halted with its queue full |
| `gate_local` | one message, timeout 2 | *violation*: see findings |
| `beacon` | three beacons | `OneExpectation`, `OneRetryPerBeacon`, `OneFrameAfterStop`; `PromptVerdictsHold`: what was received before a beacon was queued counts as a collision with it only if the listener observes it the quiet time late |
| `beacon_live` | two beacons at once, started by schedule and watchdog for ever | `ReturnsAfterStop`, `ReturnsOnQuietChannel`; `WatchdogAddsOnce`: the age read before the query may be that of an earlier beacon, and then the watchdog adds one within its gap of the last, never two; `BeaconsSpaced`: those that piled up keep a warm-up apart; `OnTheAir`: the watchdog stands in for a schedule that hangs in an upload |
| `beacon_collision` | two beacons | *violation*: see findings |
| `cache` | four keys, capacity three | `ListIsWhole`, `NeverYounger`; the cache implements `DuplicateFilter` |
| `aprsis` | reader and one upload, three connections | `SharedIsLoggedIn`, `Reconnects`, `StopEndsReaderUnraced` |
| `aprsis_stop` | reader alone | *violation*: see findings |
| `shutdown` | every configuration, three frames | `HandoversHaveReceivers`, `PanicsOnlyIf`, `ProcessExits` |
| `shutdown_clean` | every configuration | *violation*: see findings |
| `digipeater` | two repeaters, a repeater and an i-gate, or one station that is both with all options on, and one of eight packets; an i-gate alone, and three of them | `HopsAreSpent`, `UsedHopsComeFirst`, `SignsOnce`, `FloodEnds`; `NothingGoesBack`, `AdvertisedIfLocal`, `CatchesUp`, `ForwardingEnds` |

Every model also has a `TypeOK`, checked once.

Why the bounds are enough. *Queues* of capacity one are full as soon as anything is in
them, so each "queue full" path is taken. *One message* in `gate_one` is the subject of
every per-message check; two messages matter only to what relates them, the
spacing and who is served first, and that is `gate_two`. *Windows* are 2, the least at
which one unit less still differs from nothing (1 in `gate_two`, where a message may come
back as soon as it is due); the gate delay is 1, so that it may
end before, with or after the window. *Timeout* is 0 in the runs about sending (a
station is forgotten at the next tick: eligibility changes as often as it can), 2 where
the timeout itself is the subject. *Three beacons* are one sending, one waiting and one
started by verification; two would not show a chain of retries. In `beacon_live` *two goroutines* are one under way and one that waits, and as each
starts again there is no last beacon; `Gap` and `MaxAge` are both 1, so an attempt is
recent, old or never made, and what differs only between the two ages is not told apart. *Three keys of
capacity with four keys* give a first, a middle and a last node, and an eviction.
*Three connections* let the reader's, the upload's and the shared one be three.
*Three frames* fill the sound card's channel, wait in a goroutine and arrive at `Play`.
*Two stations* let a packet reach each of them from its source, from the other and, by a
receiver beside the transmitter, from itself, in any order; one packet is sent where there is a repeater, because
copies of one packet are the subject (three stations, or a second sending, leave the
reach of a run of minutes: frames may wait for any time).
The four configurations of `digipeater` are a sum and not a product: each is there for
what the others cannot show. Three packets, where nobody repeats, are one being uploaded, one in the queue and one
for which the listener waits. The eight packets have
every kind of hop between them and take each way through the listener: barred or not, named, enclosed by another
station, gated from APRS-IS, from this station. *`forwardChan` of one* is full with
one packet in it. *Timeout 1* lets
a source stop being local while its packet waits in the queue. Bounds that are in the
guards: `MaxSends` (frames sent by sources, for each configuration) in `Digipeater`, `MaxFrames` (frames queued) in `Shutdown`; the numbers of beacons, uploads
and connections are sets.

## Time and fairness

A `Tick` is a unit of time; it may come between any two steps, so a goroutine may
be held up for any time between any two of its statements. Four things restrict that,
each named in its module and used only where it says so, and one property is conditional on time:

- `PromptNext` of `MessageGate`, for liveness only: no tick between the two halves of the
  inbound branch, which are microseconds apart. Without it a message could be accepted
  with a delay that has already run out, over and over.
- `PromptNext` of `Beacon`, for liveness only: no tick between a check and the step after it.
- `Later` of `BeaconSchedule`, for all of its properties: the same, no tick while a beacon goroutine is between
  a check and the step after it.
- `PromptSpec` of `Shutdown`, for the violation only: what can be stopped is stopped within the
  two seconds that `main` waits, so that the exit without it is not a matter of speed.
- `SignsOnce` of `Digipeater` is claimed while a packet and its repeats have been in the air
  for no longer than the dedupe window. The code does not ensure this (the goroutine of
  a frame waits for the transmit queue without a limit), and after a wait longer than the
  window a station may sign a packet twice. `FloodEnds` holds however long the frames wait:
  it rests on the hops being spent, not on the window.

Fairness is what the Go runtime gives: every goroutine that can run does (weak
fairness of its steps), the clock and the transmitter included. Strong fairness is used
for taking a mutex, because Go's `sync.Mutex` hands over to a waiter that has
starved for a millisecond, and for a branch of `select` or an element of a map range,
which are drawn at random. Nothing is assumed about the traffic, the server, other
senders, or whether `Stop` ever comes. Where a property needs the environment to calm
down, it says so in its antecedent. Uploads of the i-gate have no fairness, since `Upload` writes without a deadline;
queries to aprs.fi do, for their client has one. The conditions are in `PendingResolved` (other senders fall silent in the
end), `CatchesUp` and the second half of `ForwardingEnds` (an upload returns in the end, again and again),
`OnTheAir` (the channel is quiet, others leave the queue alone, aprs.fi does not see the station or cannot be asked,
and the first upload has returned, which `Run` waits for), `Reconnects` (the server stays up, nobody stops, uploads pause) and
`ReturnsOnQuietChannel` (the channel falls quiet and others leave the queue alone; a
beacon polls for a slot and has no place in a line, so neither condition can go).

## Findings

1. **A message may be sent after its addressee ceased to be local** (`gate_local`).
   `localStationRecentlyHeard` is asked at acceptance (`igate.go` 740) and never again; the
   gate delay, the spacing interval and a full queue come after it. `README.md` 65 says the
   gate sends only to stations "while they remain within `local-station-timeout`".
2. **A packet received before a beacon was sent may count as a collision with it**
   (`beacon_collision`). `observeBeacon` (1417) takes the time at which the listener gets to
   it. The listener can be behind by as long as the forward queue is full (341-345).
   `PromptVerdictsHold` shows that it takes a listener behind by the whole quiet time.
   `igate_beacon_test.go` 149-194 tests that such a reception is not a collision, with a
   reception that is observed at once.
3. **`Stop` may not end the APRS-IS reader** (`aprsis_stop`). When `Stop` comes while the
   reader reconnects, `Disconnect` finds `connected` false and does nothing; the reader then
   publishes its new connection and reads it for ever. The comment at `aprsis.go` 174 says
   that `Stop` "permanently ends the reader and closes the current connection".
   `StopEndsReaderUnraced` shows that this race and an upload that reconnects are the only ways.

4. **With an SDR the stop hangs half way** (`shutdown_clean`). `SdrCapture.Stop` hands a value to a
   goroutine that looked for it once, at its start (`sdrCapture.go` 65-75), so it waits for ever;
   `app.go` 183-192 then never kills multimon-ng nor stops the transmitter, and rtl_fm is not killed.
   The process ends all the same, two seconds after the signal (`ProcessExits`). `main.go` 32 says
   "Listen for exit signals, set up for a clean exit."

Also met, and not a matter for a run: a frame in `Play` at the moment of the stop, or a decoder
that never started, ends the program with a panic (`PanicsOnlyIf` shows that nothing else does); `README.md` 73 says that `additional-rf-beacons`
"lets you schedule" direct packets, but `startBeacon` ignores them (`igate.go` 999-1001).
With `gate-digipeated-path` the listener rewrites the path by the digipeater's rules but without its dedupe
window (`igate.go` 333-340, `rewriter.go` 55-74), while `config.yml.example` 89 says that it is used "when this
station would digipeat": what is uploaded may claim a repeat that this station did not make. The same packet,
although heard directly, is announced with qAO (`Bidirectional` of `Forwarder`), as is everything heard by way
of a repeater, whereas `README.md` 67 has packets use qAR while gating is enabled. And an initial upload that hangs keeps `Run`
from starting anything else of the i-gate (`schedule = "initial"` of `BeaconSchedule`).

## Proofs

Each proof holds for every value of the constants that the module's named assumptions allow. All invariants
and action properties of the passing runs, and both refinements, are theorems; the liveness properties are
left to TLC. Where an invariant of a run is not inductive, the stronger one was checked by TLC before it was proved.

| Module | Theorems that state properties of runs | Others |
|---|---|---|
| `MessageGateProofs` | `TypeCorrect`, `NothingGatedTwice`, `ChecksStayTrue`, `DelayKept`, `SpacingKept`, `Implementation` | `Invariance` |
| `BeaconProofs` | `BeaconTyped`, `OneExpectationAlways`, `OneFrameAfterStopAlways`, `OneRetryPerBeaconAlways`, `PromptVerdictsHoldAlways`, `ScheduleTyped`, `BeaconsSpacedAlways`, `WatchdogAddsOnceAlways` | |
| `LruCacheProofs` | `CacheTyped`, `ListIsWholeAlways`, `NeverYoungerAlways`, `CacheFilters` | |
| `AprsIsProofs` | `ClientTyped`, `SharedIsLoggedInAlways` | `StopClosesUnracedAlways` |
| `DigipeaterProofs` | `HopsSpentAlways`, `UsedFirstAlways`, `SignedOnce` | `TypeCorrect`, `AlwaysGenuine` |
| `ForwarderProofs` | `ForwarderTypeCorrect`, `NothingComesRound`, `AdvertisedTruly` | `ForwarderOnChannel`, `LocalIsDirect` |
| `ShutdownProofs` | `ShutdownTyped`, `HandoversHaveReceiversAlways`, `PanicsOnlyIfAlways` | `UncleanOnlyInPipeAlways` |

### The message gate

`MessageGateProofs` proves, for every set of stations and
messages, every traffic, every window, delay and interval (zero included) and every
positive capacity:

| Theorem | Says |
|---|---|
| `TypeCorrect` | `Spec => []TypeOK` |
| `Invariance` | `Spec => []IInv` |
| `NothingGatedTwice`, `ChecksStayTrue`, `DelayKept`, `SpacingKept` | the four safety invariants of the runs `gate_one` and `gate_two` |
| `Implementation` | `Spec => ImplementsRelay`: the gate refines `MessageRelay` |

The assumptions are those of the module: `TimeAssumption` (the four times are naturals),
`QueueAssumption` (capacities are positive), `TrafficAssumption` (what the constants range
over; `None` is neither a station nor a message).

The four invariants are not inductive: `SpacedWhileSending` does not say why
`lastMessageRF`, written after the last frame is queued, is a safe stand-in for the time
of that frame, and the refinement needs that a message about to be sent was accepted long
enough ago. `AgesAgree` supplies both: outside the moment between sending and
writing (`gate = "sent"`), `lastRF <= sinceSend`; a dedupe mark is never older than the
acceptance it stands for; a message being sent has waited its delay. `IInv` is `TypeOK`,
the four invariants and `AgesAgree`. Its proof has one lemma per group of actions;
`SafetyQuiet` disposes of the actions that touch none of the variables it reads.
`SendingStillWanted` survives the waits for the queue because the goroutine that would
record the contrary is the one that is waiting.

The refinement maps `held` to the pending messages, less the one just sent (`Held`): the
code deletes it only after `lastMessageRF` is written, but it is sent when its last frame
is queued. `Admit` of the last frame is `Send`; `Accept` is `Accept`; every deletion is
`Cancel`; `HearFrame` with a message is `HearCopy`; all else stutters.

### The beacons

`BeaconProofs` is about any set of beacon goroutines, finite or not, any quiet time, warm-up, retry interval, collision window,
numbers of attempts and of queries, and any capacity of the queue (`BeaconAssumption`), with or without verification.

`OneExpectation` and `OneFrameAfterStop` are not inductive: the former does not say that only one goroutine is between lock and
unlock, the latter not what the stop leaves able to send. `BeaconInv` adds `HolderWorks` (whoever is at work in
`sendBeaconRf` holds `rfBeaconMu`), `LastFrameSent` (nothing was queued since the stop, or one frame was and nobody is past
his last sleep: a sleep ends at the stop, and a beacon that then still sends does so without another), and for
`OneRetryPerBeacon` `VerifiedWhenDone` and `RetriesSpent`: retries are no more than the beacons whose verification
is *over*, which are fewer than those that returned. As each retry moves one beacon from one side to the other,
the step is about cardinalities of finite sets. `PromptVerdictsHold` rests on `OvertakenIsOld`: a packet that the listener had
in hand when a beacon was queued is the quiet time old, from that moment, because the channel is asked about once more
under `lastRxMu`, until it is observed, because the listener marks no other before.

For the schedule and the watchdog (`ScheduleAssumption`: both ages positive, in any order) the invariant `ScheduleInv`
adds that mutual exclusion to `WarmedUp`: who sleeps for the warm-up has at least as much of it before him as is
lacking since the last attempt, and who is past it has nothing lacking. So two frames are a warm-up apart, however many
goroutines were piled up (`BeaconsSpaced`), because the lock is taken before the sleep and given up after the frame is queued.
`WatchdogAddsOnce` rests on `HeldBack`: once a beacon was added within the gap, an age read for the next query is that of the
attempt it was added to, and lets nothing through until the gap is over or another attempt is recorded. The theorems about `Beacon` alone are not inherited, since here a
goroutine that has returned starts again (`Reuse`).

### The cache

`LruCacheProofs` is about any set of keys, any positive capacity and any lifetime, zero included (`CacheAssumption`). It has two layers.

*The list, one operator at a time.* `InOrder(l, n, order)` says that the nodes of `l` are the `n` keys of `order` and linked in that
order; `Sorted` that an earlier key stands in a relation to every later one; `Ranked` that there is such an order. For each of `RemoveNode`,
`PushFront`, `MoveToFront`, `EvictTail` and `Insert` a lemma gives the order afterwards in terms of the order before,
with the cases of a first, last, only or middle node. `Prune` (which deletes every expired node) and loading
(which inserts every key of the file) are folds; what they do follows from `FiniteFolds`.

*The specification.* `CacheInv` is `TypeOK`, `NeverYounger` and, as the list alone does not say why eviction forgets the right node,
`ByUse`: the list is in the order of last uses, that is, an earlier key has been used since the last use of a later one, or the later one not
since the start. Therefore when the tail is evicted all other keys in the list, as many as the cache holds, were used since it was, which
is what the duplicate filter allows (`Forgotten`). `Fresh` says that a node set since the start has the age of its last `Set`: then what the cache answers is
what the filter may. With these, `CacheFilters` maps `SetDuplicate` and `SetNew` to `Ask`, a `Get` to `Look` or, of a node
that is not there or expired, a stutter, `Crash` to `Restart`, `Tick` to `Tick` and all of `Save` and `Start` to stutters.

`FiniteFolds` is why this is possible. The library's induction theorems take the predicate as an operator, which the
provers cannot instantiate; `SubsetInduction` and `UpToInduction` take it as the *set* of values it holds of, and are proved
by the well-foundedness of strict inclusion and of `<`. `FoldExists` and `FoldUnique` are about the function that `MapThenFoldSet`
defines by recursion, with its step as a function: there is one, and no other, so its recursion equation holds. The partial sums that
the digipeater needs are built on the same.

### The APRS-IS client

`AprsIsProofs` is about any number of uploading goroutines and of connections and any capacity of `Inbound` (`ClientAssumption`). Nothing excludes the
goroutines from one another, so the invariant `ClientInv` is about what each holds: `Holding` says how far the connection in
the local variable of a goroutine has got, by its program point, and `SharedLoggedIn` that the shared one, which nobody may be holding,
was logged in. `UnracedInv` is the rest of the case in which neither of the two races of finding 3 has happened: then the reader alone writes the
fields, and `connected` and `Conn` say exactly where it is. `StopClosesUnraced`, which no run checks, is what remains of the comment on `Stop`: when it returns,
the current connection is closed and the reader is past every place from which it could open another. That it then ends is
`StopEndsReaderUnraced`, for TLC.

### The stop

`ShutdownProofs` is about every configuration, all capacities and any number of frames (`ShutdownAssumption`). `ShutdownInv` says of each
point of the chain of stops who still waits for it (`ReceiversWait`), what it has stopped and what it has not reached (`StopsInOrder`), that a frame
behind the check of `Play` when the channel is closed was there before (`LateSendersRaced`), and that no frame is counted twice. `UncleanOnlyInPipe`, which no run checks, is the converse of
finding 4 under `PromptSpec`: rtl_fm or multimon-ng survives an exit on a signal *only* when the goroutine of the SDR is in its pipe, deaf to the stop.

### The channel and the i-gate on it

`DigipeaterProofs` and `ForwarderProofs` prove, for every set of stations with any parts and options,
every traffic, any number of packets, any dedupe window, timeout and capacity:

| Theorem | Says |
|---|---|
| `TypeCorrect`, `ForwarderTypeCorrect` | `Spec => []TypeOK`, `ForwarderSpec => []ForwarderTypeOK` |
| `HopsSpentAlways` | `Spec => []HopsAreSpent` |
| `UsedFirstAlways`, `SignedOnce` | two safety invariants of the run `digipeater`, if the sources' packets are unsigned |
| `AlwaysGenuine` | every frame is one of a source, but for its path |
| `ForwarderOnChannel` | `ForwarderSpec => Spec`: the channel with an i-gate on it is the channel of `Digipeater` |
| `NothingComesRound` | `ForwarderSpec => []NothingGoesBack` |
| `AdvertisedTruly` | `ForwarderSpec => AdvertisedIfLocal` |

`DigipeaterAssumption` and `ForwarderAssumption` type the constants. The latter also says that a packet
from APRS-IS is barred by its path, enclosed or not: that is what formatting for RF writes there
(`ThirdPartyForRF`) and what the listener relies on. `UsedFirstAlways` and `SignedOnce` have `SourcesUnsigned` as hypothesis: in the
packets of sources used hops come first and are not of stations that run the program. Other repeaters may have signed.

`SignsOnce` is not inductive: that a station does not repeat a copy it signed follows from its
dedupe entry, not from the path. `SignaturesRemembered` says so: as long as `flight` is within the
window, the entry of every frame a station signed is no older than `flight`. Time passes for both alike, and when
the channel is silent `flight` starts again with nothing to remember. `UsedHopsComeFirst` is needed beside it, since
a rewritten path keeps the signatures in front of the hop it uses and there are none behind. Together with `TypeOK` they
are `SigningInv`. `RewritePathProperties` is the lemma about paths under it.

`HopsAreSpent` says of every frame that its budget is that of its source's packet, and that its path is no longer than the
`Extent` of that one: the hops it has once every station it asks for has signed. Nothing in the code looks at the eight
repeaters that an AX.25 frame has room for, so whether a path fits is decided by its source alone. The length is not inductive; that the extent stays the same is
(`RoomKept`), and no path is longer than its own extent. What is hard is the sums. `BudgetSum` and `ExtentSum` say that they are the last of
the partial sums over a path (the fold of the model is over the set of indices, largest last), and `RewriteKeeps` that rewriting
leaves them as they are: the signature, which counts as one, takes the place of a hop that asked for one, or stands before
what is left of one that asked for more, and then one value has been split into two (`SumsSplit` of `FiniteFolds`, by induction on the index).

`NothingGoesBack` rests on `AlwaysGenuine`: whether a frame is barred survives any number of repeats, so what the
listener sees in it is what the source wrote. `AdvertisedIfLocal` rests on `LocalIsDirect`: what `localStations`
holds is exactly what was heard directly, since third-party traffic never teaches it.

### Only model-checked

All liveness, for fairness and `ENABLED` are beyond the prover: `PendingResolved`, `StopsAfterStop`, `ReturnsAfterStop`,
`ReturnsOnQuietChannel`, `OnTheAir`, `Reconnects`, `StopEndsReaderUnraced`, `ProcessExits`, `FloodEnds`, `CatchesUp` and `ForwardingEnds`. What they
rest on is proved where it is safety: the hops spent, the handovers that have a receiver, one frame after the stop.

## Not modelled

- *Frames and their text*: formatting of beacons and third-party frames, parsing, matching of
  patterns. Models take the result as a record of what handlers tell apart.
- *The distance of the geo filter*: floating point. That it decides, and on what, is in `Forwarder`.
- *AX.25 encoding*: addresses, frame check sequence and bit stuffing are data. How far a path may grow
  towards the eight repeaters a frame has room for is part of `HopsAreSpent`.
- *Audio*: devices, resampling, modulation. Pure I/O and floating point.
- *Decoder process*: pipes to an external program. What it does with the cache is `LruCache`.
- *Configuration, logging, USB detection*: no behaviour over time.
- *The text of the login exchange* with APRS-IS: only its success or failure.
- *Beacons to APRS-IS without RF beacons*: a ticker that uploads, and shares nothing with the rest but the client.
- *Repeaters that do not run this program*: they are among the sources.
- `forceAprsIsBeacon` (`igate.go` 1852) and `Close` of PubSub while the process runs are called by nobody.

## Plan

Done: 1 `MessageRelay`, `MessageGate`, proofs; 2 `Beacon`, proofs; 3 `DuplicateFilter`, `LruCache`, proofs;
4 `AprsIs`, proofs; 5 `Digipeater`, proofs; 6 `Shutdown`, proofs; 7 `Forwarder`, proofs; 8 `BeaconSchedule`, proofs. To come, in this order:

1. Proofs of the safety half of what is only model-checked: measures that each step of a flood or of the chain of stops lessens.
2. Composition of `LruCache` with the tracking of local stations: a station that repeats
   itself more often than the cache's lifetime is renewed for ever in the cache and forgotten by the gate.
3. The AX.25 encoder: addresses, frame check sequence and bit stuffing against reference definitions over bounded inputs.
