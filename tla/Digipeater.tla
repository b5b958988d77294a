----------------------------- MODULE Digipeater -----------------------------
(***************************************************************************)
(* internal/digipeater on the stations of one radio channel, each with its *)
(* internal/pubsub.  A station repeats a packet whose first unused hop     *)
(* asks it to, once in the dedupe window, and marks in the path that it    *)
(* did.                                                                    *)
(*                                                                         *)
(* A hop is a record: "call" names a station, "alias" matches an alias     *)
(* pattern, "wide" and "ssn" match a wide pattern with left hops to go     *)
(* (an SSn hop wants an allowed prefix), "other" matches nothing; a used   *)
(* hop is one marked with a star.  A frame is what dedupeKey identifies,   *)
(* which has its source and its payload, whether it is barred from being   *)
(* repeated or gated, and its path.                                        *)
(***************************************************************************)
EXTENDS Integers, FiniteSets, Sequences, SequencesExt

CONSTANTS
    Stations,       \* the stations running the program, by call sign
    Nobody,         \* no station
    Originals,      \* the frames sources send
    ThirdParty,     \* the keys whose payload is third-party traffic
    Configurations, \* what the stations may be configured to run
    SSnStations,    \* the stations with the prefixes of SSn hops configured
    Window,         \* dedupe-window
    MaxSends        \* bound: frames sent by the sources, in each configuration

Keys == {f.key : f \in Originals}

\* A used hop is the call sign of a station, of this program or another; a call
\* sign or an alias asks for one station.
Hops ==
    {h \in [kind : {"call", "alias", "wide", "ssn", "other"}, left : Nat,
            who : Stations \cup {Nobody}, used : BOOLEAN] :
        /\ h.used => h.kind \in {"call", "other"}
        /\ h.kind \in {"call", "alias"} => h.left = 1}

FramesOf(keys) ==
    [key : keys, src : Stations \cup {Nobody}, barred : BOOLEAN, path : Seq(Hops)]

Frames == FramesOf(Keys)

\* Who subscribes to the PubSub of a station.
Parts == {"digipeater", "igate"}

ASSUME DigipeaterAssumption ==
    /\ Nobody \notin Stations
    /\ Originals \subseteq Frames
    /\ SSnStations \subseteq Stations
    /\ ThirdParty \subseteq Keys
    /\ \A c \in Configurations : c.parts \in [Stations -> SUBSET Parts]
    /\ Window \in Nat \ {0}
    /\ MaxSends \in [Configurations -> Nat]

VARIABLES
    config,         \* the configuration, of which this module uses the parts
    inbox,          \* for each station and part, the goroutines of Publish still waiting
    outbox,         \* frames each station is about to transmit
    entries,        \* age of each station's dedupe entries
    sends,          \* frames sent by the sources so far
    flight          \* history: time since the channel last was silent

vars == <<config, inbox, outbox, entries, sends, flight>>

Hop(kind, left, who, used) == [kind |-> kind, left |-> left, who |-> who, used |-> used]

\* Mutant: the own call sign is written without the star.
Mine_Unused(s) == Hop("call", 1, s, FALSE)
Mine(s) == Hop("call", 1, s, TRUE)

\* It does not parse, or its path says that it must not go back: NOGATE, RFONLY,
\* TCPIP, TCPXX or a q construct.
Barred(f) == f.barred

-----------------------------------------------------------------------------
(* The rules of rewritePath, in digipeater.go and again in rewriter.go.    *)

\* Where the first unused hop is, if there is one.
FirstUnused(path) ==
    {i \in 1..Len(path) : ~path[i].used /\ \A j \in 1..(i - 1) : path[j].used}

NextHop(path) == CHOOSE i \in FirstUnused(path) : TRUE

MatchesWide(s, hop) ==
    /\ hop.kind \in {"wide", "ssn"}
    /\ hop.left > 0
    /\ hop.kind = "ssn" => s \in SSnStations

AsksFor(s, hop) ==
    \/ hop.kind = "call" /\ hop.who = s
    \/ hop.kind = "alias"
    \/ MatchesWide(s, hop)

\* Mutant: the hop keeps the count it had.
Decremented_Not(hop) == hop
Decremented(hop) == [hop EXCEPT !.left = @ - 1]

\* Mutant: the station signs after the hop it used.
InsertMine_After(s, path, i) == InsertAt(path, i + 1, Mine(s))
InsertMine(s, path, i) == InsertAt(path, i, Mine(s))

\* Mutant: the hop is marked as used, the station does not sign.
RewritePath_Stars(s, path, i) ==
    IF path[i].kind \in {"wide", "ssn"} /\ path[i].left > 1
    THEN InsertMine(s, [path EXCEPT ![i] = Decremented(@)], i)
    ELSE [path EXCEPT ![i].used = TRUE]

RewritePath(s, path, i) ==
    IF path[i].kind \in {"wide", "ssn"} /\ path[i].left > 1
    THEN InsertMine(s, [path EXCEPT ![i] = Decremented(@)], i)
    ELSE [path EXCEPT ![i] = Mine(s)]

\* Mutant: an entry is forgotten one unit early.
Duplicate_Early(s, key) == entries[s][key] < Window
Duplicate(s, key) == entries[s][key] <= Window

\* prepare: everything it returns false for, Check before rewritePath.
Repeats(s, f) ==
    /\ f.src # s
    /\ ~Barred(f)
    /\ f.key \notin ThirdParty
    /\ FirstUnused(f.path) # {}
    /\ ~Duplicate(s, f.key)
    /\ AsksFor(s, f.path[NextHop(f.path)])

-----------------------------------------------------------------------------
Silent == \A s \in Stations : inbox[s]["digipeater"] = {} /\ outbox[s] = {}

Init ==
    /\ config \in Configurations
    /\ inbox = [s \in Stations |-> [p \in Parts |-> {}]]
    /\ outbox = [s \in Stations |-> {}]
    /\ entries = [s \in Stations |-> [k \in Keys |-> Window + 1]]
    /\ sends = 0
    /\ flight = 0

\* Publish: each subscriber gets the frame from a goroutine of its own.
Published(s, f) ==
    [p \in Parts |-> IF p \in config.parts[s] THEN inbox[s][p] \cup {f} ELSE inbox[s][p]]

\* Whoever can hear a transmission decodes it; a receiver beside the
\* transmitter hears its own.
HeardBy(hearers, f) ==
    inbox' = [s \in Stations |-> IF s \in hearers THEN Published(s, f) ELSE inbox[s]]

\* A goroutine of Publish hands its frame over; they do so in any order.
Receive(s, p, f) ==
    /\ f \in inbox[s][p]
    /\ inbox' = [inbox EXCEPT ![s][p] = @ \ {f}]

\* A source, or a source that repeats itself, sends a packet.
Originate(f) ==
    /\ sends < MaxSends[config]
    /\ sends' = sends + 1
    /\ \E hearers \in SUBSET Stations : HeardBy(hearers, f)
    /\ UNCHANGED <<config, outbox, entries, flight>>

\* HandleMessage: Remember is part of prepare, the sending a goroutine.
HandleMessage(s, f) ==
    /\ Receive(s, "digipeater", f)
    /\ IF Repeats(s, f)
       THEN /\ outbox' = [outbox EXCEPT ![s] =
                 @ \cup {[f EXCEPT !.path = RewritePath(s, @, NextHop(@))]}]
            /\ entries' = [entries EXCEPT ![s][f.key] = 0]
       ELSE UNCHANGED <<outbox, entries>>
    /\ UNCHANGED <<config, sends, flight>>

\* The goroutine of sendRF gets its frame on the air, or nobody hears it; what
\* it returns is dropped.
SendRF(s, f) ==
    /\ f \in outbox[s]
    /\ outbox' = [outbox EXCEPT ![s] = @ \ {f}]
    /\ \E hearers \in SUBSET Stations : HeardBy(hearers, f)
    /\ UNCHANGED <<config, entries, sends, flight>>

\* The listener of the i-gate, whose handling is the subject of Forwarder.
IgateReceives(s, f) ==
    /\ Receive(s, "igate", f)
    /\ UNCHANGED <<config, outbox, entries, sends, flight>>

Tick ==
    /\ entries' = [s \in Stations |-> [k \in Keys |->
                     IF entries[s][k] <= Window THEN entries[s][k] + 1 ELSE Window + 1]]
    /\ flight' = IF Silent THEN 0 ELSE IF flight <= Window THEN flight + 1 ELSE flight
    /\ UNCHANGED <<config, inbox, outbox, sends>>

Repeating(s) ==
    \/ \E f \in inbox[s]["digipeater"] : HandleMessage(s, f)
    \/ \E f \in outbox[s] : SendRF(s, f)

Channel ==
    \/ \E f \in Originals : Originate(f)
    \/ \E s \in Stations : Repeating(s)

Next ==
    \/ Channel
    \/ \E s \in Stations : \E f \in inbox[s]["igate"] : IgateReceives(s, f)
    \/ Tick

Spec == Init /\ [][Next]_vars

Fairness == \A s \in Stations : WF_vars(Repeating(s))

FairSpec == Spec /\ Fairness

-----------------------------------------------------------------------------
(* Properties. *)

InFlight == UNION {inbox[s]["digipeater"] \cup outbox[s] : s \in Stations}

\* The stations that a path may still ask for, with those that signed it.
Budget(path) == FoldLeft(LAMBDA sum, hop : sum + hop.left, 0, path)

\* The hops of a path once all of these have signed it.
Room(hop) == IF hop.left > 1 THEN hop.left ELSE 1

Extent(path) == FoldLeft(LAMBDA sum, hop : sum + Room(hop), 0, path)

\* What waits or is about to be sent is a frame of one of the packets sent, its
\* used hops are call signs, never the hop a station was asked by, and no age is
\* counted past the window.
TypeOK ==
    /\ config \in Configurations
    /\ inbox \in [Stations -> [Parts -> SUBSET Frames]]
    /\ outbox \in [Stations -> SUBSET Frames]
    /\ entries \in [Stations -> [Keys -> 0..(Window + 1)]]
    /\ sends \in 0..MaxSends[config]
    /\ flight \in 0..(Window + 1)

\* Nobody asks for more repeaters than the source did: those that signed and
\* those still asked for are together as many as in the packet it sent.  Nor does
\* a path outgrow what the source asked for, although each station inserts a hop
\* and nothing looks at the eight that an AX.25 frame has room for.
HopsAreSpent ==
    \A f \in InFlight : \E o \in Originals :
        /\ f.key = o.key
        /\ f.src = o.src
        /\ Budget(f.path) = Budget(o.path)
        /\ Len(f.path) <= Extent(o.path)

\* The stations that repeated a frame have signed in front of every hop still
\* unused, which is what the choice of the first unused hop relies on.
UsedFirst(path) == \A i, j \in 1..Len(path) : path[i].used /\ ~path[j].used => i < j

UsedHopsComeFirst == \A f \in InFlight : UsedFirst(f.path)

\* No packet goes in circles: each station signs a frame once, whichever
\* copies of the packet it hears in whatever order, as long as the packet and
\* its repeats are off the air within the dedupe window.  The code does not see
\* to that: sendRF may wait for long, and then a station may sign twice.
SignedAt(s, path) == {i \in 1..Len(path) : path[i].used /\ path[i].who = s}

SignsOnce ==
    flight <= Window =>
        \A f \in InFlight : \A s \in Stations :
            \A i, j \in SignedAt(s, f.path) : i = j

\* Repeating ends: the channel falls silent, until a source sends again.  It
\* does so however long the frames wait, thus without help of the window.
FloodEnds == []<>Silent
=============================================================================
