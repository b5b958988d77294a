---------------------------- MODULE MCForwarder ----------------------------
(***************************************************************************)
(* A small instance of Forwarder for TLC: packets whose paths use each     *)
(* kind of rule between them, and one for each way the listener goes.      *)
(***************************************************************************)
EXTENDS Forwarder

CONSTANTS s1, s2

TwoStations == {s1, s2}
OneSSn == {s1}

Asks(kind, left) == Hop(kind, left, Nobody, FALSE)
Frame(key, src, barred, path) == [key |-> key, src |-> src, barred |-> barred, path |-> path]

\* CALL>APRS,DIGI*,WIDE2-2; a packet that comes straight or by a repeater; from
\* a station of the channel, a path that names the other one and an SSn hop;
\* and a packet that comes barred and not.  Then third-party traffic, gated from
\* APRS-IS by this station and enclosed by another, and one of this station's
\* beacons that another enclosed.
Traffic == {
    Frame("far", Nobody, FALSE, <<Hop("other", 1, Nobody, TRUE), Asks("wide", 2)>>),
    Frame("named", s2, FALSE, <<Hop("call", 1, s1, FALSE), Asks("ssn", 2)>>),
    Frame("near", Nobody, TRUE, <<Asks("alias", 1)>>),
    Frame("near", Nobody, FALSE, <<Asks("alias", 1), Asks("wide", 0)>>),
    Frame("gated", s1, FALSE, <<Asks("wide", 1)>>),
    Frame("relayed", Nobody, FALSE, <<>>),
    Frame("echoed", Nobody, FALSE, <<Asks("wide", 1)>>),
    Frame("beacon", s1, FALSE, <<Asks("wide", 2)>>)}

ThirdPartyKeys == {"gated", "relayed", "echoed"}

Contents ==
    [k \in ThirdPartyKeys |->
        CASE k = "gated"   -> ThirdPartyForRF(Frame("online", Nobody, FALSE, <<>>))
          [] k = "relayed" -> Frame("far", Nobody, FALSE, <<>>)
          [] k = "echoed"  -> Frame("beacon", s1, FALSE, <<Asks("wide", 1)>>)]

OnlineKeys == {"online"}
ForwardableKeys == {"far", "near", "named", "online", "beacon"}

\* Two repeaters; a repeater and an i-gate; one station that is both and has
\* every option of the i-gate on; and an i-gate on its own.
Setup(one, two, on) ==
    [parts |-> [s \in TwoStations |-> IF s = s1 THEN one ELSE two],
     forwardSelf |-> on, digipeatedPath |-> on, messageGating |-> TRUE]

Setups == {
    Setup({"digipeater"}, {"digipeater"}, FALSE),
    Setup({"igate"}, {"digipeater"}, FALSE),
    Setup({"digipeater", "igate"}, {}, TRUE),
    Setup({"igate"}, {}, FALSE)}

\* Copies of one packet where there is a repeater; else one to be uploaded, one
\* to wait in forwardChan, and one that finds it full.
Sends ==
    [c \in Setups |->
        IF \E s \in TwoStations : "digipeater" \in c.parts[s] THEN 1 ELSE 3]
=============================================================================
