--------------------------- MODULE MCMessageGate ----------------------------
(* Small instances of the message gate. *)
EXTENDS MessageGate

CONSTANTS alice, bob, me, m1, m2

OneMessage  == {m1}
TwoMessages == {m1, m2}
FromAlice   == [m \in Messages |-> alice]
ToBob       == [m \in Messages |-> bob]

Message(m)    == [type |-> "message", msg |-> m, noGate |-> FALSE]
Position(s)   == [type |-> "position", src |-> s]
Wrapped(s, p) == [type |-> "wrapped", src |-> s, inner |-> p]

\* One message: everything APRS-IS and RF may say about it.
FullInternet == {Message(m1), Position(alice), Position(bob), Wrapped(me, Message(m1))}
FullRF ==
    {[station |-> bob, msg |-> None], [station |-> alice, msg |-> m1],
     [station |-> None, msg |-> m1]}

\* Two messages: deliveries compete for the interval and the queue.
PairInternet == {Message(m) : m \in Messages}
HeardRF      == {[station |-> bob, msg |-> None]}
=============================================================================
