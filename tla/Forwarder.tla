----------------------------- MODULE Forwarder -----------------------------
(***************************************************************************)
(* The i-gate of internal/igate on the channel of Digipeater, from RF to   *)
(* APRS-IS: the listener takes decoded frames from PubSub and puts what    *)
(* may be forwarded in forwardChan; forwardPackets uploads it with the q   *)
(* construct that says whether messages for its source can be gated back.  *)
(*                                                                         *)
(* What a frame is about is a function of its key: how the listener gets   *)
(* from a third-party payload to the packet enclosed, whether the type of  *)
(* a packet is one for APRS-IS, whether its position is in the geo filter. *)
(***************************************************************************)
EXTENDS Digipeater

CONSTANTS
    Igate,          \* the station that may have an i-gate
    Enclosed,       \* the packet in each third-party payload that parses
    Online,         \* the keys of packets from APRS-IS, which say so in their path
    Forwardable,    \* the keys with a payload type for APRS-IS
    Outside,        \* the keys with a position outside the geo filter
    Timeout,        \* local-station-timeout
    ChanCap         \* capacity of forwardChan

Inner == {Enclosed[k] : k \in DOMAIN Enclosed}
AllKeys == Keys \cup {p.key : p \in Inner}
Packets == FramesOf(AllKeys)
Sources == {f.src : f \in Originals} \cup {p.src : p \in Inner}

NoPacket == [key |-> "none", src |-> Nobody, barred |-> FALSE, path |-> <<>>]

ASSUME ForwarderAssumption ==
    /\ Igate \in Stations
    /\ DOMAIN Enclosed \subseteq ThirdParty
    /\ Inner \subseteq Packets
    /\ NoPacket.key \notin AllKeys
    /\ Online \subseteq AllKeys
    /\ Forwardable \subseteq AllKeys
    /\ Outside \subseteq AllKeys
    /\ \A f \in Originals \cup Inner : f.key \in Online => Barred(f)
    /\ \A f, g \in Originals : f.key = g.key => f.src = g.src
    /\ Timeout \in Nat
    /\ ChanCap \in Nat \ {0}

VARIABLES
    listener,       \* where listenForMessages is
    packet,         \* the packet it is about to put in forwardChan
    forwardChan,    \* packets to forward; closed when the listener is done
    forwarder,      \* where forwardPackets is
    upload,         \* what it uploads: the packet and its q construct
    localStations,  \* age of the last direct frame of each source
    stopped,        \* i.stop is closed
    directAge       \* history: time since a frame came straight from a source

listenVars == <<listener, packet, localStations, directAge>>
uploadVars == <<forwarder, upload>>
igateVars  == <<listenVars, uploadVars, forwardChan, stopped>>
allVars    == <<vars, igateVars>>

NoUpload == [packet |-> NoPacket, q |-> "qAO"]

ForwarderInit ==
    /\ Init
    /\ listener = "select"
    /\ packet = NoPacket
    /\ forwardChan = <<>>
    /\ forwarder = "select"
    /\ upload = NoUpload
    /\ localStations = [c \in Sources |-> Timeout + 1]
    /\ stopped = FALSE
    /\ directAge = [c \in Sources |-> Timeout + 1]

-----------------------------------------------------------------------------
(* What listenForMessages decides of a frame.                              *)

\* isDirectRFPacket: no hop has a star.
IsDirect(path) == \A i \in 1..Len(path) : ~path[i].used

\* Mutant: what a third-party frame encloses is not looked at.
Unwraps_Blind(f) == f.key \notin ThirdParty \/ f.key \in DOMAIN Enclosed
Unwraps(f) ==
    \/ f.key \notin ThirdParty
    \/ f.key \in DOMAIN Enclosed /\ ~Barred(Enclosed[f.key])

Unwrapped(f) == IF f.key \in ThirdParty THEN Enclosed[f.key] ELSE f

\* Mutant: a station is heard through a repeater or in a third-party frame too.
TeachesLocal_Any(f) == TRUE
TeachesLocal(f) == f.key \notin ThirdParty /\ IsDirect(f.path)

OwnMayPass(p) == config.forwardSelf /\ p.path # <<>>

ForwardToAprsIs(p) == p.key \in Forwardable

\* allowForward: without a position, or within the range of one.
AllowForward(p) == p.key \notin Outside

\* A packet of this station has rules of its own, and no geo filter.
MayForward(p) ==
    /\ ForwardToAprsIs(p)
    /\ IF p.src = Igate THEN OwnMayPass(p) ELSE AllowForward(p)

\* formatThirdPartyForRF: the path of what the gate sends names TCPIP.
ThirdPartyForRF(p) == [p EXCEPT !.barred = TRUE]

HasSelfHop(path) == \E i \in 1..Len(path) : path[i].kind = "call" /\ path[i].who = Igate

\* Rewriter.Rewrite: the rules of the digipeater, without its dedupe window.
Rewrites(p) ==
    /\ config.digipeatedPath
    /\ HasSelfHop(p.path)
    /\ p.src # Igate
    /\ FirstUnused(p.path) # {}
    /\ AsksFor(Igate, p.path[NextHop(p.path)])

AsForwarded(p) ==
    IF Rewrites(p)
    THEN [p EXCEPT !.path = RewritePath(Igate, @, NextHop(@))]
    ELSE p

-----------------------------------------------------------------------------
(* listenForMessages. *)

Remember(ages, c) == [ages EXCEPT ![c] = 0]

\* One frame up to the blocking send, or back to the select.
Listen(f) ==
    /\ listener = "select"
    /\ IgateReceives(Igate, f)
    /\ LET accepted == ~Barred(f) /\ Unwraps(f)
           p == Unwrapped(f)
       IN  /\ localStations' = IF accepted /\ TeachesLocal(f)
                               THEN Remember(localStations, p.src) ELSE localStations
           /\ directAge' = IF ~Barred(f) /\ f.key \notin ThirdParty /\ IsDirect(f.path)
                           THEN Remember(directAge, f.src) ELSE directAge
           /\ IF accepted /\ MayForward(p)
              THEN listener' = "send" /\ packet' = AsForwarded(p)
              ELSE UNCHANGED <<listener, packet>>
    /\ UNCHANGED <<uploadVars, forwardChan, stopped>>

ForwardChanHasRoom == Len(forwardChan) < ChanCap

\* The send succeeds; observeBeacon follows, which Beacon models.
Forward ==
    /\ listener = "send"
    /\ ForwardChanHasRoom
    /\ forwardChan' = Append(forwardChan, packet)
    /\ listener' = "select"
    /\ packet' = NoPacket
    /\ UNCHANGED <<vars, uploadVars, localStations, directAge, stopped>>

\* Mutant: a listener that waits for room does not see the stop.
ListenerSeesStop_Selecting == listener = "select"
ListenerSeesStop == listener \in {"select", "send"}

\* Either select may take the stop, and the deferred close follows.
ListenerStops ==
    /\ stopped
    /\ ListenerSeesStop
    /\ listener' = "done"
    /\ packet' = NoPacket
    /\ UNCHANGED <<vars, uploadVars, forwardChan, localStations, directAge, stopped>>

-----------------------------------------------------------------------------
(* forwardPackets. *)

LocalStationRecentlyHeard(c) == localStations[c] <= Timeout

Bidirectional(p) ==
    /\ config.messageGating
    /\ IsDirect(p.path)
    /\ LocalStationRecentlyHeard(p.src)

\* formatForAprsIs: no path gets here with an APRS-IS hop, so each is given one.
QConstruct(p) == IF Bidirectional(p) THEN "qAR" ELSE "qAO"

StartUpload ==
    /\ forwarder = "select"
    /\ forwardChan # <<>>
    /\ upload' = [packet |-> Head(forwardChan), q |-> QConstruct(Head(forwardChan))]
    /\ forwardChan' = Tail(forwardChan)
    /\ forwarder' = "upload"
    /\ UNCHANGED <<vars, listenVars, stopped>>

\* Mutant: an upload that fails ends the loop.
AfterUpload_Ends == {"select", "done"}
AfterUpload == {"select"}

\* The upload returns; an error is logged and the packet is lost.
FinishUpload ==
    /\ forwarder = "upload"
    /\ forwarder' \in AfterUpload
    /\ upload' = NoUpload
    /\ UNCHANGED <<vars, listenVars, forwardChan, stopped>>

ForwarderStops ==
    /\ forwarder = "select"
    /\ stopped \/ (listener = "done" /\ forwardChan = <<>>)
    /\ forwarder' = "done"
    /\ UNCHANGED <<vars, listenVars, upload, forwardChan, stopped>>

-----------------------------------------------------------------------------
Stop ==
    /\ ~stopped
    /\ "igate" \in config.parts[Igate]
    /\ stopped' = TRUE
    /\ UNCHANGED <<vars, listenVars, uploadVars, forwardChan>>

Older(ages) == [c \in Sources |-> IF ages[c] <= Timeout THEN ages[c] + 1 ELSE Timeout + 1]

Pass ==
    /\ Tick
    /\ localStations' = Older(localStations)
    /\ directAge' = Older(directAge)
    /\ UNCHANGED <<listener, packet, uploadVars, forwardChan, stopped>>

ListenerStep == (\E f \in inbox[Igate]["igate"] : Listen(f)) \/ Forward \/ ListenerStops

ForwarderStep == StartUpload \/ FinishUpload \/ ForwarderStops

ForwarderNext ==
    \/ Channel /\ UNCHANGED igateVars
    \/ ListenerStep
    \/ ForwarderStep
    \/ Stop
    \/ Pass

ForwarderSpec == ForwarderInit /\ [][ForwarderNext]_allVars

(***************************************************************************)
(* Fairness.  The stations and both goroutines run; an upload returns only *)
(* if the network lets it.  A select with the stop among its branches      *)
(* draws one at random.                                                    *)
(***************************************************************************)
ForwarderFairness ==
    /\ Fairness
    /\ WF_allVars(ListenerStep)
    /\ SF_allVars(ListenerStops)
    /\ WF_allVars(StartUpload \/ ForwarderStops)
    /\ SF_allVars(ForwarderStops)

ForwarderFairSpec == ForwarderSpec /\ ForwarderFairness

-----------------------------------------------------------------------------
(* Properties. *)

Held == (Range(forwardChan) \cup {packet, upload.packet}) \ {NoPacket}

\* The variables hold values of their kind, a packet is in hand exactly while it
\* is being sent or uploaded, and the channel keeps its bound.
ForwarderTypeOK ==
    /\ TypeOK
    /\ listener \in {"select", "send", "done"}
    /\ forwarder \in {"select", "upload", "done"}
    /\ packet = NoPacket <=> listener # "send"
    /\ upload.packet = NoPacket <=> forwarder # "upload"
    /\ packet \in Packets \cup {NoPacket}
    /\ forwardChan \in Seq(Packets)
    /\ Len(forwardChan) <= ChanCap
    /\ upload \in [packet : Packets \cup {NoPacket}, q : {"qAR", "qAO"}]
    /\ localStations \in [Sources -> 0..(Timeout + 1)]
    /\ directAge \in [Sources -> 0..(Timeout + 1)]
    /\ stopped \in BOOLEAN

\* Nothing goes round: what came from APRS-IS is not uploaded again, whoever
\* gated it to RF and however it was repeated there, nor is a packet of this
\* station, alone or enclosed by another, unless forward-self-rf says so.
NothingGoesBack ==
    \A p \in Held : p.key \notin Online /\ (p.src = Igate => config.forwardSelf)

\* qAR tells APRS-IS that messages for the source can be gated: at that moment
\* the source was heard without a repeater within the timeout, whatever has
\* waited in the queue before.  A packet heard so, and not rewritten, says it.
AdvertisedIfLocal ==
    [][forwarder = "select" /\ forwarder' = "upload" =>
         LET p == upload'.packet
             local == config.messageGating /\ directAge[p.src] <= Timeout
         IN  /\ upload'.q = "qAR" => local
             /\ local /\ IsDirect(p.path) => upload'.q = "qAR"]_allVars

\* The listener keeps up as long as uploads return: it gets back to its select
\* and no goroutine of PubSub waits for it for ever, whatever fails on the way.
CatchesUp ==
    []<>(forwarder # "upload") =>
        [](~stopped => <>(stopped \/ (listener = "select" /\ inbox[Igate]["igate"] = {})))

\* After the stop the listener returns, also from a full channel, and so does
\* the forwarder, unless its upload never returns.
ForwardingEnds ==
    /\ stopped ~> listener = "done"
    /\ []<>(forwarder # "upload") => (stopped ~> forwarder = "done")
=============================================================================
