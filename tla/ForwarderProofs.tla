-------------------------- MODULE ForwarderProofs --------------------------
(***************************************************************************)
(* Proofs about Forwarder, for every traffic, every set of options and     *)
(* stations, any capacity of forwardChan and any timeout.  The channel of  *)
(* Forwarder is that of Digipeater, so what is proved there holds here.    *)
(***************************************************************************)
EXTENDS Forwarder, DigipeaterProofs

\* With an i-gate on it, the channel behaves as Digipeater says: every step is
\* one of its steps, or none of its business.
THEOREM ForwarderOnChannel == ForwarderSpec => Spec
<1>1. ForwarderInit => Init
  BY DEF ForwarderInit
<1>2. [ForwarderNext]_allVars => [Next]_vars
  <2> SUFFICES ASSUME [ForwarderNext]_allVars PROVE [Next]_vars
    OBVIOUS
  <2>1. CASE Channel /\ UNCHANGED igateVars
    BY <2>1 DEF Next
  <2>2. ASSUME NEW f \in inbox[Igate]["igate"], Listen(f) PROVE [Next]_vars
    BY <2>2, ForwarderAssumption DEF Listen, Next
  <2>3. CASE Forward \/ ListenerStops \/ StartUpload \/ FinishUpload \/ ForwarderStops \/ Stop
    BY <2>3 DEF Forward, ListenerStops, StartUpload, FinishUpload, ForwarderStops, Stop
  <2>4. CASE Pass
    BY <2>4 DEF Pass, Next
  <2>5. CASE UNCHANGED allVars
    BY <2>5 DEF allVars
  <2> QED BY <2>1, <2>2, <2>3, <2>4, <2>5
          DEF ForwarderNext, ListenerStep, ForwarderStep
<1> QED BY <1>1, <1>2, PTL DEF ForwarderSpec, Spec

-----------------------------------------------------------------------------
(* Packets and the channel they wait in. *)

\* The packet that the listener makes of a frame keeps its key, its source and
\* whether it is barred.
LEMMA AsForwardedProperties ==
    ASSUME NEW p \in Packets
    PROVE  /\ AsForwarded(p) \in Packets
           /\ AsForwarded(p).key = p.key
           /\ AsForwarded(p).src = p.src
<1>1. CASE Rewrites(p)
  <2> DEFINE new == RewritePath(Igate, p.path, NextHop(p.path))
  <2>1. p.path \in Seq(Hops) /\ FirstUnused(p.path) # {}
    BY <1>1 DEF Packets, FramesOf, Rewrites
  <2>2. NextHop(p.path) \in 1..Len(p.path) /\ ~p.path[NextHop(p.path)].used
    BY <2>1, NextHopIsUnused
  <2>3. new \in Seq(Hops)
    BY <2>1, <2>2, RewritePathProperties, ForwarderAssumption DEF Rewritten
  <2>4. AsForwarded(p) = [p EXCEPT !.path = new]
    BY <1>1 DEF AsForwarded
  <2> HIDE DEF new
  <2> QED BY <2>3, <2>4 DEF Packets, FramesOf
<1>2. CASE ~Rewrites(p)
  BY <1>2 DEF AsForwarded
<1> QED BY <1>1, <1>2

LEMMA UnwrappedProperties ==
    ASSUME NEW f \in Frames, Unwraps(f)
    PROVE  Unwrapped(f) \in Packets
<1>1. CASE f.key \in ThirdParty
  BY <1>1, ForwarderAssumption DEF Unwraps, Unwrapped, Inner
<1>2. CASE f.key \notin ThirdParty
  BY <1>2 DEF Unwrapped, Frames, Packets, FramesOf, AllKeys
<1> QED BY <1>1, <1>2

LEMMA ChannelContents ==
    ASSUME NEW queue \in Seq(Packets)
    PROVE  /\ \A p \in Packets :
                /\ Append(queue, p) \in Seq(Packets)
                /\ Len(Append(queue, p)) = Len(queue) + 1
                /\ Range(Append(queue, p)) = Range(queue) \cup {p}
           /\ queue # <<>> =>
                /\ Head(queue) \in Packets
                /\ Head(queue) \in Range(queue)
                /\ Tail(queue) \in Seq(Packets)
                /\ Len(Tail(queue)) = Len(queue) - 1
                /\ Range(Tail(queue)) \subseteq Range(queue)
<1>0. /\ Len(queue) \in Nat
      /\ DOMAIN queue = 1..Len(queue)
      /\ queue # <<>> => Len(queue) > 0
  BY LenProperties, EmptySeq
<1>1. ASSUME NEW p \in Packets
      PROVE  /\ Append(queue, p) \in Seq(Packets)
             /\ Len(Append(queue, p)) = Len(queue) + 1
             /\ Range(Append(queue, p)) = Range(queue) \cup {p}
  <2>1. /\ Append(queue, p) \in Seq(Packets)
        /\ Len(Append(queue, p)) = Len(queue) + 1
        /\ \A i \in 1..Len(queue) : Append(queue, p)[i] = queue[i]
        /\ Append(queue, p)[Len(queue) + 1] = p
    BY <1>0, AppendProperties
  <2>2. DOMAIN Append(queue, p) = 1..(Len(queue) + 1)
    BY <2>1, LenProperties
  <2> QED BY <1>0, <2>1, <2>2 DEF Range
<1>2. ASSUME queue # <<>>
      PROVE  /\ Head(queue) \in Packets
             /\ Head(queue) \in Range(queue)
             /\ Tail(queue) \in Seq(Packets)
             /\ Len(Tail(queue)) = Len(queue) - 1
             /\ Range(Tail(queue)) \subseteq Range(queue)
  <2>1. /\ Head(queue) \in Packets
        /\ Tail(queue) \in Seq(Packets)
        /\ Len(Tail(queue)) = Len(queue) - 1
        /\ \A i \in 1..Len(Tail(queue)) : Tail(queue)[i] = queue[i + 1]
    BY <1>2, HeadTailProperties
  <2>2. DOMAIN Tail(queue) = 1..(Len(queue) - 1)
    BY <2>1, LenProperties
  <2>3. Head(queue) = queue[1]
    BY <1>2
  <2> QED BY <1>0, <1>2, <2>1, <2>2, <2>3 DEF Range
<1> QED BY <1>1, <1>2

-----------------------------------------------------------------------------
(* Types. *)

\* The conjuncts of ForwarderTypeOK beyond those of the channel.
IgateTypeOK ==
    /\ listener \in {"select", "send", "done"}
    /\ forwarder \in {"select", "upload", "done"}
    /\ packet = NoPacket <=> listener # "send"
    /\ upload.packet = NoPacket <=> forwarder # "upload"
    /\ packet \in Packets \cup {NoPacket}
    /\ forwardChan \in Seq(Packets)
    /\ Len(forwardChan) <= ChanCap
    /\ upload \in [packet : Packets \cup {NoPacket}, q : {"qAR", "qAO"}]
    /\ localStations \in [Sources -> 0..(Timeout + 1)]
    /\ directAge \in [Sources -> 0..(Timeout + 1)]
    /\ stopped \in BOOLEAN

LEMMA NoPacketIsNone == NoPacket \notin Packets
BY ForwarderAssumption DEF NoPacket, Packets, FramesOf

LEMMA IgateInitTyped == ForwarderInit => IgateTypeOK
<1> SUFFICES ASSUME ForwarderInit PROVE IgateTypeOK
  OBVIOUS
<1>1. forwardChan \in Seq(Packets) /\ Len(forwardChan) <= ChanCap
  BY ForwarderAssumption DEF ForwarderInit
<1>2. upload \in [packet : Packets \cup {NoPacket}, q : {"qAR", "qAO"}]
  BY DEF ForwarderInit, NoUpload
<1>3. packet = NoPacket /\ upload.packet = NoPacket
  BY DEF ForwarderInit, NoUpload
<1>4. /\ localStations \in [Sources -> 0..(Timeout + 1)]
      /\ directAge \in [Sources -> 0..(Timeout + 1)]
  BY ForwarderAssumption DEF ForwarderInit
<1> QED BY <1>1, <1>2, <1>3, <1>4 DEF ForwarderInit, IgateTypeOK

LEMMA AgesTyped ==
    ASSUME NEW ages \in [Sources -> 0..(Timeout + 1)]
    PROVE  /\ \A c : Remember(ages, c) \in [Sources -> 0..(Timeout + 1)]
           /\ Older(ages) \in [Sources -> 0..(Timeout + 1)]
<1>1. Timeout \in Nat
  BY ForwarderAssumption
<1>2. ASSUME NEW c PROVE Remember(ages, c) \in [Sources -> 0..(Timeout + 1)]
  <2> DEFINE Ages == 0..(Timeout + 1)
  <2>1. 0 \in Ages /\ ages \in [Sources -> Ages]
    BY <1>1
  <2> HIDE DEF Ages
  <2>2. [ages EXCEPT ![c] = 0] \in [Sources -> Ages]
    BY <2>1
  <2> QED BY <2>2 DEF Remember, Ages
<1>3. Older(ages) \in [Sources -> 0..(Timeout + 1)]
  BY <1>1 DEF Older
<1> QED BY <1>2, <1>3

LEMMA ListenTyped ==
    ASSUME TypeOK, IgateTypeOK, NEW f, Listen(f)
    PROVE  IgateTypeOK'
<1>1. f \in Frames
  BY ForwarderAssumption DEF Listen, IgateReceives, Receive, TypeOK, Parts
<1>2. /\ localStations' \in [Sources -> 0..(Timeout + 1)]
      /\ directAge' \in [Sources -> 0..(Timeout + 1)]
  BY AgesTyped DEF Listen, IgateTypeOK
<1>3. \/ listener' = "send" /\ packet' \in Packets
      \/ UNCHANGED <<listener, packet>>
  <2>1. CASE ~Barred(f) /\ Unwraps(f) /\ MayForward(Unwrapped(f))
    <3>1. listener' = "send" /\ packet' = AsForwarded(Unwrapped(f))
      BY <2>1 DEF Listen
    <3> QED BY <1>1, <2>1, <3>1, UnwrappedProperties, AsForwardedProperties
  <2>2. CASE ~(~Barred(f) /\ Unwraps(f) /\ MayForward(Unwrapped(f)))
    BY <2>2 DEF Listen
  <2> QED BY <2>1, <2>2
<1>4. UNCHANGED <<forwarder, upload, forwardChan, stopped>>
  BY DEF Listen, uploadVars
<1> QED BY <1>2, <1>3, <1>4, NoPacketIsNone DEF IgateTypeOK

LEMMA ForwardTyped ==
    ASSUME IgateTypeOK, Forward
    PROVE  IgateTypeOK'
<1>1. packet \in Packets
  BY DEF IgateTypeOK, Forward
<1>2. forwardChan' \in Seq(Packets) /\ Len(forwardChan') = Len(forwardChan) + 1
  BY <1>1, ChannelContents DEF IgateTypeOK, Forward
<1>3. Len(forwardChan') <= ChanCap
  BY <1>2, LenProperties, ForwarderAssumption DEF IgateTypeOK, Forward, ForwardChanHasRoom
<1> QED BY <1>2, <1>3 DEF IgateTypeOK, Forward, uploadVars

LEMMA StartUploadTyped ==
    ASSUME IgateTypeOK, StartUpload
    PROVE  IgateTypeOK'
<1>1. /\ Head(forwardChan) \in Packets
      /\ forwardChan' \in Seq(Packets)
      /\ Len(forwardChan') = Len(forwardChan) - 1
  BY ChannelContents DEF IgateTypeOK, StartUpload
<1>2. Len(forwardChan') <= ChanCap
  BY <1>1, LenProperties, ForwarderAssumption DEF IgateTypeOK
<1>3. /\ upload' \in [packet : Packets \cup {NoPacket}, q : {"qAR", "qAO"}]
      /\ upload'.packet = Head(forwardChan)
  BY <1>1 DEF StartUpload, QConstruct
<1> QED BY <1>1, <1>2, <1>3, NoPacketIsNone DEF IgateTypeOK, StartUpload, listenVars

LEMMA FinishUploadTyped ==
    ASSUME IgateTypeOK, FinishUpload
    PROVE  IgateTypeOK'
<1>1. /\ upload' \in [packet : Packets \cup {NoPacket}, q : {"qAR", "qAO"}]
      /\ upload'.packet = NoPacket
  BY DEF FinishUpload, NoUpload
<1> QED BY <1>1 DEF IgateTypeOK, FinishUpload, AfterUpload, listenVars

\* The listener has a packet in hand exactly while it waits for forwardChan, the
\* forwarder exactly while it uploads, and the channel keeps its capacity.
THEOREM ForwarderTypeCorrect == ForwarderSpec => []ForwarderTypeOK
<1>1. TypeOK /\ IgateTypeOK /\ [ForwarderNext]_allVars => IgateTypeOK'
  <2> SUFFICES ASSUME TypeOK, IgateTypeOK, [ForwarderNext]_allVars PROVE IgateTypeOK'
    OBVIOUS
  <2>1. CASE Channel /\ UNCHANGED igateVars
    BY <2>1 DEF igateVars, listenVars, uploadVars, IgateTypeOK
  <2>2. ASSUME NEW f, Listen(f) PROVE IgateTypeOK'
    BY <2>2, ListenTyped
  <2>3. CASE Forward
    BY <2>3, ForwardTyped
  <2>4. CASE ListenerStops
    BY <2>4 DEF ListenerStops, uploadVars, IgateTypeOK
  <2>5. CASE StartUpload
    BY <2>5, StartUploadTyped
  <2>6. CASE FinishUpload
    BY <2>6, FinishUploadTyped
  <2>7. CASE ForwarderStops
    BY <2>7 DEF ForwarderStops, listenVars, IgateTypeOK
  <2>8. CASE Stop
    BY <2>8 DEF Stop, listenVars, uploadVars, IgateTypeOK
  <2>9. CASE Pass
    <3>1. /\ localStations' \in [Sources -> 0..(Timeout + 1)]
          /\ directAge' \in [Sources -> 0..(Timeout + 1)]
      BY <2>9, AgesTyped DEF Pass, IgateTypeOK
    <3> QED BY <2>9, <3>1 DEF Pass, uploadVars, IgateTypeOK
  <2>10. CASE UNCHANGED allVars
    BY <2>10 DEF allVars, igateVars, listenVars, uploadVars, IgateTypeOK
  <2> QED BY <2>1, <2>2, <2>3, <2>4, <2>5, <2>6, <2>7, <2>8, <2>9, <2>10
          DEF ForwarderNext, ListenerStep, ForwarderStep
<1>2. TypeOK /\ IgateTypeOK => ForwarderTypeOK
  BY DEF IgateTypeOK, ForwarderTypeOK
<1> QED BY <1>1, <1>2, IgateInitTyped, ForwarderOnChannel, TypeCorrect, PTL
        DEF ForwarderSpec

-----------------------------------------------------------------------------
(* What is forwarded. *)

Harmless(p) == p.key \notin Online /\ (p.src = Igate => config.forwardSelf)

\* What passes the listener did not come from APRS-IS, by itself or enclosed.
LEMMA ListenerKeepsOut ==
    ASSUME NEW f \in Frames, FromOriginal(f), ~Barred(f), Unwraps(f),
           MayForward(Unwrapped(f))
    PROVE  Harmless(AsForwarded(Unwrapped(f)))
<1> DEFINE p == Unwrapped(f)
<1>1. /\ AsForwarded(p).key = p.key
      /\ AsForwarded(p).src = p.src
  BY UnwrappedProperties, AsForwardedProperties
<1>2. p.key \notin Online
  <2>1. CASE f.key \in ThirdParty
    <3>1. Unwrapped(f) \in Inner /\ ~Barred(Unwrapped(f))
      BY <2>1 DEF Unwraps, Unwrapped, Inner
    <3> QED BY <3>1, ForwarderAssumption
  <2>2. CASE f.key \notin ThirdParty
    <3>1. PICK o \in Originals : f.key = o.key /\ f.barred = o.barred
      BY DEF FromOriginal
    <3>2. ~Barred(o)
      BY <3>1 DEF Barred
    <3>3. o.key \notin Online
      BY <3>2, ForwarderAssumption
    <3> QED BY <2>2, <3>1, <3>3 DEF Unwrapped
  <2> QED BY <2>1, <2>2
<1>3. p.src = Igate => config.forwardSelf
  BY DEF MayForward, OwnMayPass
<1> HIDE DEF p
<1>4. Harmless(AsForwarded(p))
  BY <1>1, <1>2, <1>3 DEF Harmless
<1> QED BY <1>4 DEF p

LEMMA NothingGoesBackStep ==
    ASSUME TypeOK, IgateTypeOK, Genuine, NothingGoesBack, [ForwarderNext]_allVars
    PROVE  NothingGoesBack'
<1>0. NothingGoesBack <=> \A p \in Held : Harmless(p)
  BY DEF NothingGoesBack, Harmless
<1>1. config' = config
  <2>1. CASE Channel
    BY <2>1 DEF Channel, Repeating, Originate, HandleMessage, SendRF
  <2>2. ASSUME NEW f, Listen(f) PROVE config' = config
    BY <2>2 DEF Listen, IgateReceives
  <2>3. CASE Pass
    BY <2>3 DEF Pass, Tick
  <2>4. CASE Forward \/ ListenerStops \/ StartUpload \/ FinishUpload \/ ForwarderStops \/ Stop
    BY <2>4 DEF Forward, ListenerStops, StartUpload, FinishUpload, ForwarderStops, Stop, vars
  <2>5. CASE UNCHANGED allVars
    BY <2>5 DEF allVars, vars
  <2> QED BY <2>1, <2>2, <2>3, <2>4, <2>5 DEF ForwarderNext, ListenerStep, ForwarderStep
<1>2. ASSUME Held' \subseteq Held PROVE NothingGoesBack'
  BY <1>1, <1>2 DEF NothingGoesBack
<1>3. ASSUME UNCHANGED <<forwardChan, packet, upload>> PROVE NothingGoesBack'
  BY <1>2, <1>3 DEF Held
<1>4. ASSUME NEW f \in inbox[Igate]["igate"], Listen(f) PROVE NothingGoesBack'
  <2>1. f \in Frames /\ FromOriginal(f)
    BY ForwarderAssumption DEF TypeOK, Genuine, Parts
  <2>2. UNCHANGED <<forwardChan, upload>>
    BY <1>4 DEF Listen, uploadVars
  <2>3. CASE ~Barred(f) /\ Unwraps(f) /\ MayForward(Unwrapped(f))
    <3>1. packet' = AsForwarded(Unwrapped(f))
      BY <1>4, <2>3 DEF Listen
    <3>2. Harmless(packet')
      BY <2>1, <2>3, <3>1, ListenerKeepsOut
    <3>3. Held' \subseteq Held \cup {packet'}
      BY <2>2 DEF Held
    <3>4. \A p \in Held' : p.key \notin Online /\ (p.src = Igate => config.forwardSelf)
      BY <1>0, <3>2, <3>3 DEF Harmless
    <3> QED BY <1>1, <3>4 DEF NothingGoesBack
  <2>4. CASE ~(~Barred(f) /\ Unwraps(f) /\ MayForward(Unwrapped(f)))
    <3>1. UNCHANGED packet
      BY <1>4, <2>4 DEF Listen
    <3> QED BY <1>3, <2>2, <3>1
  <2> QED BY <2>3, <2>4
<1>5. CASE Forward
  <2>1. packet \in Packets
    BY <1>5 DEF IgateTypeOK, Forward
  <2>2. Range(forwardChan') = Range(forwardChan) \cup {packet}
    BY <1>5, <2>1, ChannelContents DEF IgateTypeOK, Forward
  <2> QED BY <1>2, <1>5, <2>2 DEF Held, Forward, uploadVars
<1>6. CASE StartUpload
  <2>1. /\ Head(forwardChan) \in Range(forwardChan)
        /\ Range(forwardChan') \subseteq Range(forwardChan)
    BY <1>6, ChannelContents DEF IgateTypeOK, StartUpload
  <2>2. upload'.packet = Head(forwardChan) /\ packet' = packet
    BY <1>6 DEF StartUpload, listenVars
  <2> QED BY <1>2, <2>1, <2>2 DEF Held
<1>7. CASE FinishUpload
  BY <1>2, <1>7 DEF Held, FinishUpload, NoUpload, listenVars
<1>8. CASE ListenerStops
  BY <1>2, <1>8 DEF Held, ListenerStops, uploadVars
<1>9. CASE ForwarderStops \/ Stop \/ Pass \/ UNCHANGED igateVars
  BY <1>3, <1>9 DEF ForwarderStops, Stop, Pass, igateVars, listenVars, uploadVars
<1> QED BY <1>4, <1>5, <1>6, <1>7, <1>8, <1>9
        DEF ForwarderNext, ListenerStep, ForwarderStep, allVars

\* What this station or another gated from APRS-IS is never uploaded again, by
\* whichever ways it comes back from RF; nor is a packet of this station's own,
\* unless forward-self-rf says so.
THEOREM NothingComesRound == ForwarderSpec => []NothingGoesBack
<1>1. ForwarderInit => NothingGoesBack
  BY DEF ForwarderInit, NothingGoesBack, Held, NoUpload, Range
<1>2. ForwarderTypeOK => TypeOK /\ IgateTypeOK
  BY DEF ForwarderTypeOK, IgateTypeOK
<1> QED BY <1>1, <1>2, NothingGoesBackStep, ForwarderTypeCorrect, AlwaysGenuine,
           ForwarderOnChannel, PTL
        DEF ForwarderSpec

-----------------------------------------------------------------------------
(* What the q construct says. *)

AgesOfDirect == localStations = directAge

\* Only frames heard directly teach the listener what local stations are.
THEOREM LocalIsDirect == ForwarderSpec => []AgesOfDirect
<1>1. ForwarderInit => AgesOfDirect
  BY DEF ForwarderInit, AgesOfDirect
<1>2. AgesOfDirect /\ [ForwarderNext]_allVars => AgesOfDirect'
  <2> SUFFICES ASSUME localStations = directAge, [ForwarderNext]_allVars
               PROVE  localStations' = directAge'
    BY DEF AgesOfDirect
  <2>1. ASSUME NEW f, Listen(f) PROVE localStations' = directAge'
    BY <2>1 DEF Listen, TeachesLocal, Unwraps, Unwrapped
  <2>2. CASE Pass
    BY <2>2 DEF Pass
  <2>3. CASE UNCHANGED <<localStations, directAge>>
    BY <2>3
  <2> QED BY <2>1, <2>2, <2>3
          DEF ForwarderNext, ListenerStep, ForwarderStep, Forward, ListenerStops, StartUpload,
              FinishUpload, ForwarderStops, Stop, allVars, igateVars, listenVars
<1> QED BY <1>1, <1>2, PTL DEF ForwarderSpec

\* However long a packet waited, the q construct it gets is right at the moment
\* of its upload: qAR only for a source heard directly within the timeout, and
\* always for a packet heard so and not rewritten.
THEOREM AdvertisedTruly == ForwarderSpec => AdvertisedIfLocal
<1> DEFINE Truly ==
        forwarder = "select" /\ forwarder' = "upload" =>
            LET p == upload'.packet
                local == config.messageGating /\ directAge[p.src] <= Timeout
            IN  /\ upload'.q = "qAR" => local
                /\ local /\ IsDirect(p.path) => upload'.q = "qAR"
<1>1. AgesOfDirect /\ [ForwarderNext]_allVars => [Truly]_allVars
  <2> SUFFICES ASSUME localStations = directAge, ForwarderNext,
                      forwarder = "select", forwarder' = "upload"
               PROVE  Truly
    BY DEF AgesOfDirect
  <2>1. StartUpload
    BY DEF ForwarderNext, ListenerStep, ForwarderStep, Listen, Forward, ListenerStops,
           FinishUpload, ForwarderStops, Stop, Pass, igateVars, uploadVars
  <2>2. /\ upload'.packet = Head(forwardChan)
        /\ upload'.q = QConstruct(Head(forwardChan))
    BY <2>1 DEF StartUpload
  <2> QED BY <2>2 DEF QConstruct, Bidirectional, LocalStationRecentlyHeard
<1> QED BY <1>1, LocalIsDirect, PTL DEF ForwarderSpec, AdvertisedIfLocal

=============================================================================
