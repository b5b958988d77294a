------------------------------- MODULE AprsIs -------------------------------
(***************************************************************************)
(* The APRS-IS client of internal/aprs: one connection shared by a reader  *)
(* goroutine that reconnects, by uploads from any goroutine that connect   *)
(* when they find the client disconnected, and by Stop.  Nothing guards    *)
(* the fields connected and Conn, so every access to them is a step.       *)
(*                                                                         *)
(* The first state is the one New returns in: connected, the reader about  *)
(* to read.  A connection nothing refers to is closed by the runtime.      *)
(***************************************************************************)
EXTENDS Integers, FiniteSets

CONSTANTS
    Reader,         \* the goroutine New starts
    Uploaders,      \* the goroutines calling Upload
    Conns,          \* connections
    None,           \* no connection
    InboundCap      \* capacity of Inbound

Procs == Uploaders \cup {Reader}

ASSUME ClientAssumption ==
    /\ Reader \notin Uploaders
    /\ None \notin Conns
    /\ Conns # {}
    /\ InboundCap \in Nat \ {0}

VARIABLES
    connected,
    Conn,
    state,          \* each connection: "free", "open", "verified" or "dead"
    pc,             \* where each goroutine is
    local,          \* the connection each goroutine holds in a local variable
    stop,           \* how far Stop is; the channel is closed unless "no"
    inbound,        \* the number of lines in Inbound
    inboundEnabled,
    serverUp,       \* the server accepts and keeps connections
    raced           \* history: an upload dialled, or Stop came during a reconnect

vars == <<connected, Conn, state, pc, local, stop, inbound, inboundEnabled, serverUp, raced>>

stopped == stop # "no"

Reconnecting == {"disconnect", "close", "clear", "connect", "dial", "login", "publish",
                 "setConn", "setConnected"}

Init ==
    /\ connected = TRUE
    /\ Conn \in Conns
    /\ state = [c \in Conns |-> IF c = Conn THEN "verified" ELSE "free"]
    /\ pc = [p \in Procs |-> IF p = Reader THEN "read" ELSE "idle"]
    /\ local = [p \in Procs |-> None]
    /\ stop = "no"
    /\ inbound = 0
    /\ inboundEnabled = FALSE
    /\ serverUp = TRUE
    /\ raced = FALSE

Goto(p, point) == pc' = [pc EXCEPT ![p] = point]

Close(c) == state' = [state EXCEPT ![c] = "dead"]

-----------------------------------------------------------------------------
(* Connect, called by the reader and by Upload. *)

Succeeded(p) == IF p = Reader THEN "read" ELSE "write"
Failed(p) == IF p = Reader THEN "sleep" ELSE "idle"

AlreadyConnected == connected

CheckConnected(p) ==
    /\ pc[p] = "connect"
    /\ Goto(p, IF AlreadyConnected THEN Succeeded(p) ELSE "dial")
    /\ UNCHANGED <<connected, Conn, state, local, stop, inbound, inboundEnabled, serverUp, raced>>

Dial(p) ==
    /\ pc[p] = "dial"
    /\ raced' = (raced \/ p # Reader)
    /\ \/ /\ serverUp
          /\ \E c \in Conns :
               /\ state[c] = "free"
               /\ state' = [state EXCEPT ![c] = "open"]
               /\ local' = [local EXCEPT ![p] = c]
          /\ Goto(p, "login")
       \/ /\ ~serverUp
          /\ Goto(p, Failed(p))
          /\ UNCHANGED <<state, local>>
    /\ UNCHANGED <<connected, Conn, stop, inbound, inboundEnabled, serverUp>>

\* Mutant: the login response is not waited for.
LoginVerified_Early == "open"
LoginVerified == "verified"

\* The user line, and verifyLoginResponse; a connection that fails it is closed.
Login(p) ==
    /\ pc[p] = "login"
    /\ \/ /\ serverUp
          /\ state[local[p]] = "open"
          /\ state' = [state EXCEPT ![local[p]] = LoginVerified]
          /\ Goto(p, "publish")
          /\ UNCHANGED local
       \/ /\ ~serverUp \/ state[local[p]] = "dead"
          /\ Close(local[p])
          /\ local' = [local EXCEPT ![p] = None]
          /\ Goto(p, Failed(p))
    /\ UNCHANGED <<connected, Conn, stop, inbound, inboundEnabled, serverUp, raced>>

\* The two assignments at the end, seen by the others in either order.
Publish(p) ==
    /\ \/ /\ pc[p] \in {"publish", "setConnected"}
          /\ connected' = TRUE
          /\ Goto(p, IF pc[p] = "publish" THEN "setConn" ELSE Succeeded(p))
          /\ UNCHANGED Conn
       \/ /\ pc[p] \in {"publish", "setConn"}
          /\ Conn' = local[p]
          /\ Goto(p, IF pc[p] = "publish" THEN "setConnected" ELSE Succeeded(p))
          /\ UNCHANGED connected
    /\ local' = IF pc[p] = "publish" THEN local ELSE [local EXCEPT ![p] = None]
    /\ UNCHANGED <<state, stop, inbound, inboundEnabled, serverUp, raced>>

Connect(p) == CheckConnected(p) \/ Dial(p) \/ Login(p) \/ Publish(p)

-----------------------------------------------------------------------------
(* The reader. *)

ReadConn ==
    /\ pc[Reader] = "read"
    /\ local' = [local EXCEPT ![Reader] = Conn]
    /\ Goto(Reader, "reading")
    /\ UNCHANGED <<connected, Conn, state, stop, inbound, inboundEnabled, serverUp, raced>>

\* Mutant: the reader hands a line over without looking for room.
InboundHasRoom_Over == TRUE
InboundHasRoom == inbound < InboundCap

\* A line: kept if there is room and somebody wants it, never waited with.
ReadLine ==
    /\ pc[Reader] = "reading"
    /\ state[local[Reader]] = "verified"
    /\ inbound' = IF inboundEnabled /\ InboundHasRoom THEN inbound + 1 ELSE inbound
    /\ local' = [local EXCEPT ![Reader] = None]
    /\ Goto(Reader, "read")
    /\ UNCHANGED <<connected, Conn, state, stop, inboundEnabled, serverUp, raced>>

\* Mutant: the reader does not look whether it was stopped.
ReaderSeesStop_Deaf == FALSE
ReaderSeesStop == stopped

ReadError ==
    /\ pc[Reader] = "reading"
    /\ state[local[Reader]] = "dead"
    /\ local' = [local EXCEPT ![Reader] = None]
    /\ Goto(Reader, IF ReaderSeesStop THEN "done" ELSE "disconnect")
    /\ UNCHANGED <<connected, Conn, state, stop, inbound, inboundEnabled, serverUp, raced>>

\* Mutant: Disconnect leaves connected set.
Disconnected_Kept == connected
Disconnected == FALSE

\* Disconnect: a test, Close and the assignment.
Disconnect ==
    \/ /\ pc[Reader] = "disconnect"
       /\ Goto(Reader, IF connected THEN "close" ELSE "connect")
       /\ UNCHANGED <<connected, state>>
    \/ /\ pc[Reader] = "close"
       /\ Close(Conn)
       /\ Goto(Reader, "clear")
       /\ UNCHANGED connected
    \/ /\ pc[Reader] = "clear"
       /\ connected' = Disconnected
       /\ Goto(Reader, "connect")
       /\ UNCHANGED state

ReaderDisconnects ==
    Disconnect /\ UNCHANGED <<Conn, local, stop, inbound, inboundEnabled, serverUp, raced>>

\* The select after a Connect that failed: the stop ends it, or five seconds.
Sleep ==
    /\ pc[Reader] = "sleep"
    /\ Goto(Reader, IF stopped THEN "done" ELSE "connect")
    /\ UNCHANGED <<connected, Conn, state, local, stop, inbound, inboundEnabled, serverUp, raced>>

-----------------------------------------------------------------------------
(* Upload, from any goroutine, before and after the stop. *)

Upload(u) ==
    /\ pc[u] = "idle"
    /\ Goto(u, IF connected THEN "write" ELSE "connect")
    /\ UNCHANGED <<connected, Conn, state, local, stop, inbound, inboundEnabled, serverUp, raced>>

\* PrintfLine on whatever Conn is now; its error is returned and logged.
Write(u) ==
    /\ pc[u] = "write"
    /\ Goto(u, "idle")
    /\ UNCHANGED <<connected, Conn, state, local, stop, inbound, inboundEnabled, serverUp, raced>>

-----------------------------------------------------------------------------
(* Stop: the channel is closed, then Disconnect. *)

Stop ==
    /\ stop = "no"
    /\ stop' = "disconnect"
    /\ raced' = (raced \/ pc[Reader] \in Reconnecting)
    /\ UNCHANGED <<connected, Conn, state, pc, local, inbound, inboundEnabled, serverUp>>

StopDisconnects ==
    /\ \/ /\ stop = "disconnect"
          /\ stop' = IF connected THEN "close" ELSE "done"
          /\ UNCHANGED <<connected, state>>
       \/ /\ stop = "close"
          /\ Close(Conn)
          /\ stop' = "clear"
          /\ UNCHANGED connected
       \/ /\ stop = "clear"
          /\ connected' = FALSE
          /\ stop' = "done"
          /\ UNCHANGED state
    /\ UNCHANGED <<Conn, pc, local, inbound, inboundEnabled, serverUp, raced>>

-----------------------------------------------------------------------------
(* The i-gate: SetInboundEnabled and the consumer of Inbound.  The server, *)
(* and the runtime, which closes what nothing refers to.                   *)

\* The i-gate's Run enables it, and disables it when it returns after the stop.
SetInboundEnabled ==
    /\ inboundEnabled' = ~stopped
    /\ UNCHANGED <<connected, Conn, state, pc, local, stop, inbound, serverUp, raced>>

TakeInbound ==
    /\ inbound > 0
    /\ inbound' = inbound - 1
    /\ UNCHANGED <<connected, Conn, state, pc, local, stop, inboundEnabled, serverUp, raced>>

ServerChanges ==
    /\ serverUp' = ~serverUp
    /\ UNCHANGED <<connected, Conn, state, pc, local, stop, inbound, inboundEnabled, raced>>

ServerDrops(c) ==
    /\ ~serverUp
    /\ state[c] \in {"open", "verified"}
    /\ Close(c)
    /\ UNCHANGED <<connected, Conn, pc, local, stop, inbound, inboundEnabled, serverUp, raced>>

Collect(c) ==
    /\ state[c] # "free"
    /\ c # Conn
    /\ \A p \in Procs : local[p] # c
    /\ state' = [state EXCEPT ![c] = "free"]
    /\ UNCHANGED <<connected, Conn, pc, local, stop, inbound, inboundEnabled, serverUp, raced>>

-----------------------------------------------------------------------------
ReaderStep ==
    \/ Connect(Reader)
    \/ ReadConn
    \/ ReadLine
    \/ ReadError
    \/ ReaderDisconnects
    \/ Sleep

UploadStep(u) == Connect(u) \/ Write(u)

Environment ==
    \/ SetInboundEnabled
    \/ TakeInbound
    \/ ServerChanges
    \/ \E c \in Conns : ServerDrops(c) \/ Collect(c)

Next ==
    \/ ReaderStep
    \/ \E u \in Uploaders : Upload(u) \/ UploadStep(u)
    \/ Stop
    \/ StopDisconnects
    \/ Environment

Spec == Init /\ [][Next]_vars

\* Every goroutine runs, and the runtime collects.
Fairness ==
    /\ WF_vars(ReaderStep)
    /\ \A u \in Uploaders : WF_vars(UploadStep(u))
    /\ WF_vars(StopDisconnects)
    /\ \A c \in Conns : WF_vars(Collect(c))

FairSpec == Spec /\ Fairness

-----------------------------------------------------------------------------
(* Properties. *)

\* Every variable holds a value of its kind, and Inbound never outgrows its
\* capacity.
TypeOK ==
    /\ connected \in BOOLEAN
    /\ Conn \in Conns
    /\ state \in [Conns -> {"free", "open", "verified", "dead"}]
    /\ pc \in [Procs -> Reconnecting \cup {"read", "reading", "sleep", "idle", "write", "done"}]
    /\ local \in [Procs -> Conns \cup {None}]
    /\ stop \in {"no", "disconnect", "close", "clear", "done"}
    /\ inbound \in 0..InboundCap
    /\ inboundEnabled \in BOOLEAN
    /\ serverUp \in BOOLEAN
    /\ raced \in BOOLEAN

\* Whatever the order in which connects, disconnects and the two unguarded
\* assignments meet, the shared connection, which uploads write to and the
\* reader reads from, is one that logged in: alive or dead, never half open.
SharedIsLoggedIn ==
    /\ state[Conn] \in {"verified", "dead"}
    /\ pc[Reader] = "reading" => state[local[Reader]] \in {"verified", "dead"}

\* When the server stays up and nobody stops the client, the reader reads a
\* live connection for ever from some point on, provided uploads stop racing it.
Reconnects ==
    <>[]serverUp /\ []~stopped /\ <>[](\A u \in Uploaders : pc[u] = "idle")
        => <>[](pc[Reader] \in {"read", "reading"} /\ state[Conn] = "verified")

\* The reader ends after Stop if no upload ever dialled and Stop did not come
\* while the reader was reconnecting: the two races that can defeat it.
StopEndsReaderUnraced == stopped ~> (pc[Reader] = "done" \/ raced)

\* What the comment on Stop says: it permanently ends the reader and closes
\* the current connection.
StopEndsReader == stopped ~> pc[Reader] = "done" /\ state[Conn] = "dead"
=============================================================================
