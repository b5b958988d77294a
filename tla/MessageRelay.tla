---------------------------- MODULE MessageRelay ----------------------------
(***************************************************************************)
(* What the i-gate promises about gating APRS-IS messages to RF (README,   *)
(* "APRS-IS message gating"), with nothing of how it keeps the promise.    *)
(*                                                                         *)
(* A message is accepted, is held for the gate delay, and is then sent to  *)
(* RF at most once or cancelled.  Ages are saturating clocks: an age at    *)
(* its cap means "at least that long ago, or never".                       *)
(***************************************************************************)
EXTENDS Integers

CONSTANTS
    Messages,       \* message keys: "SOURCE>DESTINATION:payload"
    Window,         \* message-dedup-window
    GateDelay,      \* message-gate-delay
    Interval        \* message-rf-interval

VARIABLES
    held,           \* the accepted messages not yet sent or cancelled
    sinceAccept,    \* age of the last acceptance of each message
    sinceCopy,      \* age of the last RF copy heard of each message
    sinceSend       \* age of the last message queued for RF

vars == <<held, sinceAccept, sinceCopy, sinceSend>>

AcceptCap == IF GateDelay > Window THEN GateDelay ELSE Window

Older(age, cap) == IF age < cap THEN age + 1 ELSE cap

Init ==
    /\ held = {}
    /\ sinceAccept = [m \in Messages |-> AcceptCap]
    /\ sinceCopy = [m \in Messages |-> Window]
    /\ sinceSend = Interval

\* A delivery is accepted only a whole dedup window after the last accepted one.
Accept(m) ==
    /\ sinceAccept[m] >= Window
    /\ held' = held \cup {m}
    /\ sinceAccept' = [sinceAccept EXCEPT ![m] = 0]
    /\ UNCHANGED <<sinceCopy, sinceSend>>

Cancel(m) ==
    /\ held' = held \ {m}
    /\ UNCHANGED <<sinceAccept, sinceCopy, sinceSend>>

\* A message goes out after the gate delay, after the spacing interval, and
\* only if no copy of it was heard on RF within the window.
Send(m) ==
    /\ m \in held
    /\ sinceAccept[m] >= GateDelay
    /\ sinceCopy[m] >= Window
    /\ sinceSend >= Interval
    /\ held' = held \ {m}
    /\ sinceSend' = 0
    /\ UNCHANGED <<sinceAccept, sinceCopy>>

HearCopy(m) ==
    /\ sinceCopy' = [sinceCopy EXCEPT ![m] = 0]
    /\ UNCHANGED <<held, sinceAccept, sinceSend>>

Tick ==
    /\ sinceAccept' = [m \in Messages |-> Older(sinceAccept[m], AcceptCap)]
    /\ sinceCopy' = [m \in Messages |-> Older(sinceCopy[m], Window)]
    /\ sinceSend' = Older(sinceSend, Interval)
    /\ UNCHANGED held

Next ==
    \/ \E m \in Messages : Accept(m) \/ Cancel(m) \/ Send(m) \/ HearCopy(m)
    \/ Tick

Spec == Init /\ [][Next]_vars
=============================================================================
