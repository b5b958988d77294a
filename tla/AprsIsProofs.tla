---------------------------- MODULE AprsIsProofs ----------------------------
(***************************************************************************)
(* What holds of the APRS-IS client whatever the number of uploading       *)
(* goroutines and of connections, and whatever the capacity of Inbound.    *)
(*                                                                         *)
(* Nothing excludes the goroutines from one another, so the invariant is   *)
(* about what each of them holds: a connection in its local variable has   *)
(* got as far as its program point says, and the runtime never takes it    *)
(* back meanwhile.                                                         *)
(***************************************************************************)
EXTENDS AprsIs, TLAPS

LoggedIn == {"verified", "dead"}

Publishing == {"publish", "setConn", "setConnected"}

\* A connection is dialled before the login, verified before it is published,
\* and shared before it is read from.
Holding ==
    \A p \in Procs :
        /\ pc[p] = "login" => local[p] \in Conns /\ state[local[p]] # "free"
        /\ pc[p] \in Publishing \cup {"reading"}
               => local[p] \in Conns /\ state[local[p]] \in LoggedIn

\* The shared connection, which nobody need hold.
SharedLoggedIn == state[Conn] \in LoggedIn

\* As long as no upload has dialled and Stop did not come in the middle of a
\* reconnect, the reader alone sets connected and Conn.
ReaderAlone == \A u \in Uploaders : pc[u] \in {"idle", "connect", "dial", "write"}

\* Before the stop, connected says where the reader is, and the connection it
\* has given up is closed before another one is published.
InStep ==
    /\ connected <=> pc[Reader] \in {"read", "reading", "disconnect", "close", "clear", "setConn"}
    /\ pc[Reader] \in {"clear", "connect", "dial", "login", "publish", "setConn", "sleep"}
           => state[Conn] = "dead"
    /\ pc[Reader] \in Reconnecting \cup {"read", "reading", "sleep"}

\* After it the reader only ends, and the connection is closed, if it is not
\* closed already, by Stop.
Stopping ==
    /\ pc[Reader] \in {"read", "reading", "sleep", "done"}
    /\ ~connected \/ stop \in {"clear", "done"} => state[Conn] = "dead"

UnracedInv ==
    ~raced =>
        /\ ReaderAlone
        /\ pc[Reader] = "reading" => local[Reader] = Conn
        /\ ~stopped => InStep
        /\ stopped => Stopping

\* What is left of the comment on Stop once the two races are set aside, with
\* no fairness: when Stop returns, the current connection is closed, and the
\* reader is at most one read of that connection away from its end.
StopClosesUnraced ==
    stop = "done" /\ ~raced =>
        /\ state[Conn] = "dead"
        /\ pc[Reader] \in {"read", "reading", "sleep", "done"}
        /\ pc[Reader] = "reading" => local[Reader] = Conn

ClientInv ==
    /\ TypeOK
    /\ Holding
    /\ SharedLoggedIn
    /\ UnracedInv

-----------------------------------------------------------------------------
(* The steps, and what each part of the invariant needs of them. *)

LEMMA ClientSteps ==
    ASSUME Next
    PROVE  \/ \E p \in Procs : CheckConnected(p) \/ Dial(p) \/ Login(p) \/ Publish(p)
           \/ ReadConn \/ ReadLine \/ ReadError \/ ReaderDisconnects \/ Sleep
           \/ \E u \in Uploaders : Upload(u) \/ Write(u)
           \/ Stop \/ StopDisconnects
           \/ SetInboundEnabled \/ TakeInbound \/ ServerChanges
           \/ \E c \in Conns : ServerDrops(c) \/ Collect(c)
  BY DEF Next, ReaderStep, UploadStep, Connect, Environment, Procs

LEMMA ClientInit == Init => ClientInv
  <1> SUFFICES ASSUME Init PROVE ClientInv
    OBVIOUS
  <1> USE ClientAssumption DEF Init, Procs
  <1>1. TypeOK
    <2>1. /\ state \in [Conns -> {"free", "open", "verified", "dead"}]
          /\ pc \in [Procs -> Reconnecting \cup
                               {"read", "reading", "sleep", "idle", "write", "done"}]
          /\ local \in [Procs -> Conns \cup {None}]
      OBVIOUS
    <2>2. /\ connected \in BOOLEAN /\ inboundEnabled \in BOOLEAN
          /\ serverUp \in BOOLEAN /\ raced \in BOOLEAN
      OBVIOUS
    <2> QED
      BY <2>1, <2>2 DEF TypeOK
  <1>2. Holding /\ SharedLoggedIn
    BY DEF Holding, SharedLoggedIn, Publishing, LoggedIn
  <1>3. UnracedInv
    BY DEF UnracedInv, ReaderAlone, InStep, Stopping, stopped
  <1> QED
    BY <1>1, <1>2, <1>3 DEF ClientInv

LEMMA ClientTypeNext ==
    ASSUME TypeOK, Holding, [Next]_vars
    PROVE  TypeOK'
  <1> USE ClientAssumption DEF TypeOK, Goto, Close, Procs
  <1>1. ASSUME NEW p \in Procs, CheckConnected(p) PROVE TypeOK'
    BY <1>1 DEF CheckConnected, Succeeded, Reconnecting
  <1>2. ASSUME NEW p \in Procs, Dial(p) PROVE TypeOK'
    <2>1. raced' \in BOOLEAN
      BY <1>2 DEF Dial
    <2> QED
      BY <1>2, <2>1 DEF Dial, Failed, Reconnecting
  <1>3. ASSUME NEW p \in Procs, Login(p) PROVE TypeOK'
    BY <1>3 DEF Login, LoginVerified, Failed, Reconnecting, Holding
  <1>4. ASSUME NEW p \in Procs, Publish(p) PROVE TypeOK'
    <2>1. connected' \in BOOLEAN
      BY <1>4 DEF Publish
    <2>2. Conn' \in Conns
      BY <1>4 DEF Publish, Holding, Publishing
    <2> QED
      BY <1>4, <2>1, <2>2 DEF Publish, Succeeded, Reconnecting
  <1>5. CASE ReadConn
    BY <1>5 DEF ReadConn
  <1>6. CASE ReadLine
    BY <1>6 DEF ReadLine, InboundHasRoom
  <1>7. CASE ReadError
    BY <1>7 DEF ReadError, Reconnecting
  <1>8. CASE ReaderDisconnects
    <2>1. connected' \in BOOLEAN
      BY <1>8 DEF ReaderDisconnects, Disconnect, Disconnected
    <2> QED
      BY <1>8, <2>1 DEF ReaderDisconnects, Disconnect, Reconnecting
  <1>9. CASE Sleep
    BY <1>9 DEF Sleep, Reconnecting
  <1>10. ASSUME NEW u \in Uploaders, Upload(u) \/ Write(u) PROVE TypeOK'
    BY <1>10 DEF Upload, Write, Reconnecting
  <1>11. CASE Stop
    <2>1. raced' \in BOOLEAN
      BY <1>11 DEF Stop
    <2> QED
      BY <1>11, <2>1 DEF Stop
  <1>12. CASE StopDisconnects
    <2>1. connected' \in BOOLEAN
      BY <1>12 DEF StopDisconnects
    <2> QED
      BY <1>12, <2>1 DEF StopDisconnects
  <1>13. CASE SetInboundEnabled
    <2>1. inboundEnabled' \in BOOLEAN
      BY <1>13 DEF SetInboundEnabled
    <2> QED
      BY <1>13, <2>1 DEF SetInboundEnabled
  <1>14. CASE TakeInbound
    BY <1>14 DEF TakeInbound
  <1>15. CASE ServerChanges
    <2>1. serverUp' \in BOOLEAN
      BY <1>15 DEF ServerChanges
    <2> QED
      BY <1>15, <2>1 DEF ServerChanges
  <1>16. ASSUME NEW c \in Conns, ServerDrops(c) \/ Collect(c) PROVE TypeOK'
    BY <1>16 DEF ServerDrops, Collect
  <1>17. CASE UNCHANGED vars
    BY <1>17 DEF vars
  <1> QED
    BY <1>1, <1>2, <1>3, <1>4, <1>5, <1>6, <1>7, <1>8, <1>9, <1>10, <1>11, <1>12,
       <1>13, <1>14, <1>15, <1>16, <1>17, ClientSteps

-----------------------------------------------------------------------------
(* What each goroutine holds. *)

\* A connection in use moves forward only: a step frees it only when nobody
\* refers to it, and a connection that logged in stays so until it is dead.
LEMMA ConnectionsMove ==
    ASSUME TypeOK, Holding, [Next]_vars,
           NEW c \in Conns, c = Conn \/ \E p \in Procs : local[p] = c
    PROVE  /\ state[c] # "free" => state'[c] # "free"
           /\ state[c] \in LoggedIn => state'[c] \in LoggedIn
           /\ state[c] = "dead" => state'[c] = "dead"
  <1> USE DEF TypeOK, Close, LoggedIn
  <1>1. ASSUME NEW p \in Procs, Dial(p) PROVE state[c] # "free" => state'[c] = state[c]
    BY <1>1 DEF Dial
  <1>2. ASSUME NEW p \in Procs, Login(p)
        PROVE  state'[c] \in {state[c], "dead"} \/ (state[c] = "open" /\ state'[c] = "verified")
    <2>1. local[p] \in Conns
      BY <1>2 DEF Login, Holding
    <2>2. \/ state[local[p]] = "open" /\ state' = [state EXCEPT ![local[p]] = "verified"]
          \/ state' = [state EXCEPT ![local[p]] = "dead"]
      BY <1>2 DEF Login, LoginVerified
    <2>3. CASE c = local[p]
      BY <2>1, <2>2, <2>3
    <2>4. CASE c # local[p]
      BY <2>1, <2>2, <2>4
    <2> QED
      BY <2>3, <2>4
  <1>3. CASE ReaderDisconnects \/ StopDisconnects
    BY <1>3 DEF ReaderDisconnects, Disconnect, StopDisconnects
  <1>4. ASSUME NEW d \in Conns, ServerDrops(d) \/ Collect(d)
        PROVE  state'[c] = state[c] \/ (state[c] # "free" /\ state'[c] = "dead")
    <2>1. CASE ServerDrops(d)
      BY <2>1 DEF ServerDrops
    <2>2. CASE Collect(d)
      <3>1. d # c
        BY <2>2 DEF Collect
      <3> QED
        BY <2>2, <3>1 DEF Collect
    <2> QED
      BY <1>4, <2>1, <2>2
  <1>5. CASE \/ \E p \in Procs : CheckConnected(p) \/ Publish(p)
             \/ ReadConn \/ ReadLine \/ ReadError \/ Sleep
             \/ \E u \in Uploaders : Upload(u) \/ Write(u)
             \/ Stop \/ SetInboundEnabled \/ TakeInbound \/ ServerChanges
             \/ UNCHANGED vars
    <2>1. state' = state
      BY <1>5 DEF CheckConnected, Publish, ReadConn, ReadLine, ReadError, Sleep, Upload,
                  Write, Stop, SetInboundEnabled, TakeInbound, ServerChanges, vars
    <2> QED
      BY <2>1
  <1> QED
    BY <1>1, <1>2, <1>3, <1>4, <1>5, ClientSteps

\* What one goroutine holds, as Holding says it of all.
HoldsRight(p) ==
    /\ pc[p] = "login" => local[p] \in Conns /\ state[local[p]] # "free"
    /\ pc[p] \in Publishing \cup {"reading"}
           => local[p] \in Conns /\ state[local[p]] \in LoggedIn

\* A goroutine that holds what it held, at a point that asks no more of it.
LEMMA HoldsOn ==
    ASSUME TypeOK, Holding, [Next]_vars, NEW p \in Procs,
           pc'[p] = "login" => pc[p] = "login",
           pc'[p] \in Publishing \cup {"reading"} => pc[p] \in Publishing \cup {"reading"},
           pc'[p] \in Publishing \cup {"reading", "login"} => local'[p] = local[p]
    PROVE  HoldsRight(p)'
  <1>1. CASE pc'[p] = "login"
    <2>1. local[p] \in Conns /\ state[local[p]] # "free"
      BY <1>1 DEF Holding
    <2>2. state'[local[p]] # "free"
      BY <2>1, ConnectionsMove
    <2> QED
      BY <1>1, <2>1, <2>2 DEF HoldsRight, Publishing
  <1>2. CASE pc'[p] \in Publishing \cup {"reading"}
    <2>1. local[p] \in Conns /\ state[local[p]] \in LoggedIn
      BY <1>2 DEF Holding
    <2>2. state'[local[p]] \in LoggedIn
      BY <2>1, ConnectionsMove
    <2> QED
      BY <1>2, <2>1, <2>2 DEF HoldsRight, Publishing
  <1> QED
    BY <1>1, <1>2 DEF HoldsRight

LEMMA HoldingNext ==
    ASSUME TypeOK, Holding, SharedLoggedIn, [Next]_vars
    PROVE  Holding'
  <1> SUFFICES ASSUME NEW q \in Procs PROVE HoldsRight(q)'
    BY DEF Holding, HoldsRight
  <1> USE ClientAssumption DEF TypeOK, Goto, Publishing, Procs
  <1>1. ASSUME NEW p \in Procs, CheckConnected(p) PROVE HoldsRight(q)'
    BY <1>1, HoldsOn DEF CheckConnected, Succeeded
  <1>2. ASSUME NEW p \in Procs, Dial(p) PROVE HoldsRight(q)'
    <2>1. CASE p = q
      BY <1>2, <2>1 DEF Dial, Failed, HoldsRight
    <2>2. CASE p # q
      BY <1>2, <2>2, HoldsOn DEF Dial
    <2> QED
      BY <2>1, <2>2
  <1>3. ASSUME NEW p \in Procs, Login(p) PROVE HoldsRight(q)'
    <2>1. CASE p = q
      BY <1>3, <2>1 DEF Login, LoginVerified, Failed, HoldsRight, Holding, LoggedIn
    <2>2. CASE p # q
      BY <1>3, <2>2, HoldsOn DEF Login
    <2> QED
      BY <2>1, <2>2
  <1>4. ASSUME NEW p \in Procs, Publish(p) PROVE HoldsRight(q)'
    BY <1>4, HoldsOn DEF Publish, Succeeded
  <1>5. CASE ReadConn
    <2>1. CASE q = Reader
      BY <1>5, <2>1 DEF ReadConn, HoldsRight, SharedLoggedIn
    <2>2. CASE q # Reader
      BY <1>5, <2>2, HoldsOn DEF ReadConn
    <2> QED
      BY <2>1, <2>2
  <1>6. CASE ReadLine \/ ReadError \/ ReaderDisconnects \/ Sleep
    BY <1>6, HoldsOn DEF ReadLine, ReadError, ReaderDisconnects, Disconnect, Sleep
  <1>7. ASSUME NEW u \in Uploaders, Upload(u) \/ Write(u) PROVE HoldsRight(q)'
    BY <1>7, HoldsOn DEF Upload, Write
  <1>8. CASE \/ Stop \/ StopDisconnects
             \/ SetInboundEnabled \/ TakeInbound \/ ServerChanges
             \/ \E c \in Conns : ServerDrops(c) \/ Collect(c)
             \/ UNCHANGED vars
    <2>1. UNCHANGED <<pc, local>>
      BY <1>8 DEF Stop, StopDisconnects, SetInboundEnabled, TakeInbound, ServerChanges,
                  ServerDrops, Collect, vars
    <2> QED
      BY <2>1, HoldsOn
  <1> QED
    BY <1>1, <1>2, <1>3, <1>4, <1>5, <1>6, <1>7, <1>8, ClientSteps

LEMMA SharedNext ==
    ASSUME TypeOK, Holding, SharedLoggedIn, [Next]_vars
    PROVE  SharedLoggedIn'
  <1>1. CASE Conn' = Conn
    BY <1>1, ConnectionsMove DEF SharedLoggedIn, TypeOK
  <1>2. CASE Conn' # Conn
    <2>1. PICK p \in Procs : Publish(p)
      BY <1>2, ClientSteps
      DEF CheckConnected, Dial, Login, ReadConn, ReadLine, ReadError, ReaderDisconnects,
          Sleep, Upload, Write, Stop, StopDisconnects, SetInboundEnabled, TakeInbound,
          ServerChanges, ServerDrops, Collect, vars
    <2>2. Conn' = local[p] /\ state' = state
      BY <1>2, <2>1 DEF Publish
    <2>3. state[local[p]] \in LoggedIn
      BY <2>1 DEF Publish, Holding, Publishing
    <2> QED
      BY <2>2, <2>3 DEF SharedLoggedIn
  <1> QED
    BY <1>1, <1>2
-----------------------------------------------------------------------------
(* The client as long as nothing races the reader. *)

\* UnracedInv without its condition.
Unraced ==
    /\ ReaderAlone
    /\ pc[Reader] = "reading" => local[Reader] = Conn
    /\ ~stopped => InStep
    /\ stopped => Stopping

LEMMA StaysUnraced == ASSUME TypeOK, [Next]_vars, ~raced' PROVE ~raced
  BY ClientSteps
  DEF CheckConnected, Dial, Login, Publish, ReadConn, ReadLine, ReadError, ReaderDisconnects,
      Sleep, Upload, Write, Stop, StopDisconnects, SetInboundEnabled, TakeInbound,
      ServerChanges, ServerDrops, Collect, vars

\* A step that moves no program point keeps what the invariant says of the
\* shared connection, for that connection is in use.
LEMMA SharedStaysDead ==
    ASSUME TypeOK, Holding, [Next]_vars, state[Conn] = "dead"
    PROVE  state'[Conn] = "dead"
  BY ConnectionsMove DEF TypeOK

LEMMA UnracedUploads ==
    ASSUME TypeOK, Holding, [Next]_vars, Unraced, ~raced', NEW u \in Uploaders,
           CheckConnected(u) \/ Dial(u) \/ Login(u) \/ Publish(u) \/ Upload(u) \/ Write(u)
    PROVE  Unraced'
  <1> USE ClientAssumption DEF TypeOK, Procs, Goto
  <1>1. u # Reader /\ pc[u] \in {"idle", "connect", "dial", "write"}
    BY DEF Unraced, ReaderAlone
  <1>2. ~Dial(u) /\ ~Login(u) /\ ~Publish(u)
    BY <1>1 DEF Dial, Login, Publish
  <1>3. pc' = [pc EXCEPT ![u] = pc'[u]] /\ pc'[u] \in {"idle", "connect", "dial", "write"}
    BY <1>1, <1>2 DEF CheckConnected, Upload, Write, Succeeded
  <1>4. UNCHANGED <<connected, Conn, state, local, stop>>
    BY <1>2 DEF CheckConnected, Upload, Write
  <1>5. pc'[Reader] = pc[Reader]
    BY <1>1, <1>3
  <1>6. ReaderAlone'
    BY <1>3 DEF Unraced, ReaderAlone
  <1> QED
    BY <1>4, <1>5, <1>6 DEF Unraced, InStep, Stopping, stopped

LEMMA UnracedReader ==
    ASSUME TypeOK, Holding, [Next]_vars, Unraced,
           \/ CheckConnected(Reader) \/ Dial(Reader) \/ Login(Reader) \/ Publish(Reader)
           \/ ReadConn \/ ReadLine \/ ReadError \/ ReaderDisconnects \/ Sleep
    PROVE  Unraced'
  <1> USE ClientAssumption DEF TypeOK, Procs, Goto
  <1>1. ReaderAlone'
    <2>1. \A u \in Uploaders : pc'[u] = pc[u]
      BY DEF CheckConnected, Dial, Login, Publish, ReadConn, ReadLine, ReadError,
             ReaderDisconnects, Disconnect, Sleep
    <2> QED
      BY <2>1 DEF Unraced, ReaderAlone
  <1>2. stop' = stop
    BY DEF CheckConnected, Dial, Login, Publish, ReadConn, ReadLine, ReadError,
           ReaderDisconnects, Sleep
  <1>3. pc'[Reader] = "reading" => local'[Reader] = Conn'
    BY DEF CheckConnected, Dial, Login, Publish, ReadConn, ReadLine, ReadError,
           ReaderDisconnects, Disconnect, Sleep, Succeeded, Failed
  <1>4. CASE stopped
    <2>1. Stopping
      BY <1>4 DEF Unraced
    <2>2. ReadConn \/ ReadLine \/ ReadError \/ Sleep
      BY <2>1 DEF Stopping, CheckConnected, Dial, Login, Publish, ReaderDisconnects, Disconnect
    <2>3. UNCHANGED <<connected, Conn, state>>
      BY <2>2 DEF ReadConn, ReadLine, ReadError, Sleep
    <2>4. pc'[Reader] \in {"read", "reading", "sleep", "done"}
      BY <1>4, <2>1, <2>2 DEF Stopping, ReadConn, ReadLine, ReadError, ReaderSeesStop, Sleep
    <2> QED
      BY <1>1, <1>2, <1>3, <1>4, <2>1, <2>3, <2>4 DEF Unraced, Stopping, stopped
  <1>5. CASE ~stopped
    <2>1. InStep
      BY <1>5 DEF Unraced
    <2>2. ASSUME CheckConnected(Reader) PROVE InStep'
      BY <2>1, <2>2 DEF CheckConnected, AlreadyConnected, InStep, Reconnecting
    <2>3. ASSUME Dial(Reader) PROVE InStep'
      <3>1. state[Conn] = "dead" /\ UNCHANGED <<connected, Conn>>
        BY <2>1, <2>3 DEF Dial, InStep
      <3>2. pc'[Reader] \in {"login", "sleep"} /\ ~connected
        BY <2>1, <2>3 DEF Dial, InStep, Failed
      <3> QED
        BY <3>1, <3>2, SharedStaysDead DEF InStep, Reconnecting
    <2>4. ASSUME Login(Reader) PROVE InStep'
      <3>1. state[Conn] = "dead" /\ UNCHANGED <<connected, Conn>>
        BY <2>1, <2>4 DEF Login, InStep
      <3>2. pc'[Reader] \in {"publish", "sleep"} /\ ~connected
        BY <2>1, <2>4 DEF Login, InStep, Failed
      <3> QED
        BY <3>1, <3>2, SharedStaysDead DEF InStep, Reconnecting
    <2>5. ASSUME Publish(Reader) PROVE InStep'
      BY <2>1, <2>5 DEF Publish, Succeeded, InStep, Reconnecting
    <2>6. ASSUME ReadConn PROVE InStep'
      BY <2>1, <2>6 DEF ReadConn, InStep, Reconnecting
    <2>7. ASSUME ReadLine PROVE InStep'
      BY <2>1, <2>7 DEF ReadLine, InStep, Reconnecting
    <2>8. ASSUME ReadError PROVE InStep'
      BY <1>5, <2>1, <2>8 DEF ReadError, ReaderSeesStop, InStep, Reconnecting
    <2>9. ASSUME ReaderDisconnects PROVE InStep'
      BY <2>1, <2>9 DEF ReaderDisconnects, Disconnect, Disconnected, Close, InStep, Reconnecting
    <2>10. ASSUME Sleep PROVE InStep'
      BY <1>5, <2>1, <2>10 DEF Sleep, InStep, Reconnecting
    <2>11. InStep'
      BY <2>2, <2>3, <2>4, <2>5, <2>6, <2>7, <2>8, <2>9, <2>10
    <2> QED
      BY <1>1, <1>2, <1>3, <1>5, <2>11 DEF Unraced, stopped
  <1> QED
    BY <1>4, <1>5

LEMMA UnracedOthers ==
    ASSUME TypeOK, Holding, [Next]_vars, Unraced, ~raced',
           \/ Stop \/ StopDisconnects
           \/ SetInboundEnabled \/ TakeInbound \/ ServerChanges
           \/ \E c \in Conns : ServerDrops(c) \/ Collect(c)
           \/ UNCHANGED vars
    PROVE  Unraced'
  <1> USE ClientAssumption DEF TypeOK, Procs
  <1>1. UNCHANGED <<pc, local, Conn>>
    BY DEF Stop, StopDisconnects, SetInboundEnabled, TakeInbound, ServerChanges,
           ServerDrops, Collect, vars
  <1>2. ReaderAlone' /\ (pc'[Reader] = "reading" => local'[Reader] = Conn')
    BY <1>1 DEF Unraced, ReaderAlone
  <1>3. CASE Stop
    <2>1. /\ ~stopped /\ stop' = "disconnect" /\ UNCHANGED <<connected, state>>
          /\ pc[Reader] \notin Reconnecting
      BY <1>3 DEF Stop, stopped
    <2>2. Stopping'
      BY <1>1, <2>1 DEF Unraced, InStep, Stopping, Reconnecting
    <2> QED
      BY <1>2, <2>1, <2>2 DEF Unraced, stopped
  <1>4. CASE StopDisconnects
    <2>1. stopped /\ stopped' /\ Stopping
      BY <1>4 DEF StopDisconnects, stopped, Unraced
    <2>2. Stopping'
      BY <1>1, <1>4, <2>1, SharedStaysDead DEF StopDisconnects, Close, Stopping
    <2> QED
      BY <1>2, <2>1, <2>2 DEF Unraced
  <1>5. CASE ~Stop /\ ~StopDisconnects
    <2>1. UNCHANGED <<connected, stop>>
      BY <1>5 DEF SetInboundEnabled, TakeInbound, ServerChanges, ServerDrops, Collect, vars
    <2> QED
      BY <1>1, <1>2, <2>1, SharedStaysDead DEF Unraced, InStep, Stopping, stopped
  <1> QED
    BY <1>3, <1>4, <1>5

LEMMA UnracedNext ==
    ASSUME TypeOK, Holding, UnracedInv, [Next]_vars
    PROVE  UnracedInv'
  <1> SUFFICES ASSUME ~raced' PROVE Unraced'
    BY DEF UnracedInv, Unraced
  <1>1. Unraced
    BY StaysUnraced DEF UnracedInv, Unraced
  <1>2. Procs = Uploaders \cup {Reader}
    BY DEF Procs
  <1> QED
    BY <1>1, <1>2, UnracedUploads, UnracedReader, UnracedOthers, ClientSteps

-----------------------------------------------------------------------------
(* The invariant, and what follows from it. *)

LEMMA ClientInvNext == ClientInv /\ [Next]_vars => ClientInv'
  BY ClientTypeNext, HoldingNext, SharedNext, UnracedNext DEF ClientInv

LEMMA ClientInvariant == Spec => []ClientInv
  BY ClientInit, ClientInvNext, PTL DEF Spec

\* Every variable of the client keeps its type, and what the reader hands over
\* without waiting never outgrows Inbound.
THEOREM ClientTyped == Spec => []TypeOK
  <1>1. ClientInv => TypeOK
    BY DEF ClientInv
  <1> QED
    BY <1>1, ClientInvariant, PTL

\* However many uploads connect while the reader reconnects and Stop
\* disconnects, with nothing guarding Conn, the connection that uploads write
\* to and the reader reads from is one whose login was verified.
THEOREM SharedIsLoggedInAlways == Spec => []SharedIsLoggedIn
  <1>1. ClientInv => SharedIsLoggedIn
    BY DEF ClientInv, Holding, SharedLoggedIn, SharedIsLoggedIn, LoggedIn, Publishing, Procs
  <1> QED
    BY <1>1, ClientInvariant, PTL

\* Unless an upload dialled or Stop came in the middle of a reconnect, the
\* current connection is closed when Stop returns, and the reader, if it has
\* not ended, has nothing left to read but that connection.
THEOREM StopClosesUnracedAlways == Spec => []StopClosesUnraced
  <1>1. ClientInv => StopClosesUnraced
    BY DEF ClientInv, UnracedInv, Stopping, StopClosesUnraced, stopped
  <1> QED
    BY <1>1, ClientInvariant, PTL
=============================================================================
