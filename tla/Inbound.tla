------------------------------ MODULE Inbound ------------------------------
(***************************************************************************)
(* What a node does with the packets that reach it: the data, resource and *)
(* group receivers of node.rs, from the channels of the transport to the   *)
(* event queue.  The data receiver of a beacon also serves requests        *)
(* (CoSign), and takes no other packet while it waits for Solana.          *)
(*                                                                         *)
(* The transport is external: it hands a packet to the channel of its kind,*)
(* and a channel overwrites its oldest entry when it is full.  The event   *)
(* queue and the store behind it are those of EventPipeline.               *)
(***************************************************************************)
EXTENDS LxmfWire, CoSign

CONSTANTS
  Msg,       \* inbound messages
  Sent,      \* what each is: channel, wire, and what its sender meant by it
  MyAddr,    \* lxmf address of the node
  GroupKey,  \* keys of the group
  Loads,     \* messages, payments and calls of configuration in one run
  RxCap,     \* capacity of a channel of the transport
  MaxStops   \* bound of the model: calls of stop

Channel == {"data", "resource", "group"}

ASSUME SentAssumption ==
  \A m \in Msg :
    LET w == Sent[m].wire IN
    Sent[m].channel \in Channel /\ w = Wire(w.dest, w.src, w.sig, w.mp)

\* A message is forged if the source it names never signed what it says.
ASSUME ForgedAssumption ==
  \A m \in Msg :
    LET w == Sent[m].wire IN
    Sent[m].channel = "data" /\ ~Sent[m].genuine =>
      /\ w.src = Sent[m].source /\ ~Misread(w)
      /\ \/ w.sig = NoSig
         \/ w.sig.by # w.src
         \/ w.sig.payload \notin {w.mp} \cup ToSet(lxmf_signed_payload(w.mp))

ASSUME LoadsAssumption ==
  \A load \in Loads :
    load.msgs \subseteq Msg /\ load.pays \subseteq Payment /\ load.configs \in 0 .. MaxConfigs
ASSUME InboundBoundsAssumption == RxCap \in Nat \ {0} /\ MaxStops \in Nat

VARIABLES
  mode,            \* the mode of the running node, or "stopped"
  stops,           \* calls of stop so far
  todo,            \* messages that have not arrived
  rx,              \* the channels the receivers read
  peerIdentities,  \* sources whose announce was seen
  groupKey,        \* the key the group is registered with
  events,          \* node.events, restricted to MessageReceived
  dropped          \* history: messages that were not shown, with the reason

inboundVars == <<mode, stops, todo, rx, peerIdentities, groupKey, events, dropped>>
vars == <<cosignVars, inboundVars>>

InChannels == UNION {ToSet(rx[c]) : c \in Channel}

\* A message another node sends, and one it encrypts with the key of a group it
\* has joined.
SentTo(channel, dest, src, ts, c) ==
  [channel |-> channel, source |-> src, content |-> c, genuine |-> TRUE, key |-> None,
   wire |-> lxmf_payload(dest, src, ts, c.body, build_fields_msgpack(c.image, c.files))]

send_group(dest, group_key, src, ts, c) ==
  [SentTo("group", dest, src, ts, c) EXCEPT !.key = Some(group_key)]

\* The messages as they reach the node.
Packet == [m \in Msg |-> Sent[m]]

Mode == {"ble", "client", "beacon"}
Sources == {Packet[m].source : m \in Msg}
ShownMsgs == {e.msg : e \in events}

TypeOK ==
  /\ CoSignTypeOK
  /\ mode \in Mode \cup {"stopped"}
  /\ stops \in 0 .. MaxStops
  /\ todo \subseteq Msg
  /\ \A c \in Channel : Len(rx[c]) <= RxCap
  /\ \A c \in Channel \ {"data"} : rx[c] \in Seq(Msg)
  /\ \A i \in DOMAIN rx.data : rx.data[i] \in Msg \cup sent
  /\ peerIdentities \subseteq Sources
  /\ groupKey \in Option(GroupKey)
  /\ ShownMsgs \subseteq Msg
  /\ \A d \in dropped : d[1] \in Msg

Init ==
  /\ CoSignInit
  /\ mode = "stopped"
  /\ stops = 0
  /\ \E load \in Loads :
       /\ todo = load.msgs
       /\ configs = MaxConfigs - load.configs
       /\ \A p \in Payment : stage[p].at = IF p \in load.pays THEN "new" ELSE "idle"
  /\ rx = [c \in Channel |-> <<>>]
  /\ peerIdentities = {}
  /\ groupKey = None
  /\ events = {}
  /\ dropped = {}

-----------------------------------------------------------------------------
(* The transport and the other tasks                                       *)

Start(new_mode) ==
  /\ mode = "stopped"
  /\ mode' = new_mode
  /\ UNCHANGED <<cosignVars, stops, todo, rx, peerIdentities, groupKey, events, dropped>>

\* The receivers are aborted, with all that is in their channels.
Stop ==
  /\ mode # "stopped"
  /\ stops < MaxStops
  /\ mode' = "stopped"
  /\ stops' = stops + 1
  /\ rx' = [c \in Channel |-> <<>>]
  /\ dropped' = dropped \cup
       {<<m, "stopped">> : m \in InChannels \cap Msg}
  /\ StopServing({r \in sent : Contains(rx.data, r)})
  /\ UNCHANGED <<todo, peerIdentities, groupKey, events>>

\* x enters a channel; a full one overwrites its oldest entry.
\* Mutant of Lagging: one entry too many fits.
LaggingLate(c) == Len(rx[c]) > RxCap
Lagging(c) == Len(rx[c]) = RxCap
Push(c, x) == rx' = [rx EXCEPT ![c] = Append(IF Lagging(c) THEN Tail(@) ELSE @, x)]

Overwritten(c) == IF Lagging(c) THEN {Head(rx[c])} ELSE {}

Arrive(m) ==
  /\ mode # "stopped"
  /\ m \in todo
  /\ todo' = todo \ {m}
  /\ Push(Packet[m].channel, m)
  /\ dropped' = dropped \cup {<<x, "lagged">> : x \in Overwritten(Packet[m].channel) \cap Msg}
  /\ sent' = sent \ Overwritten(Packet[m].channel)
  /\ UNCHANGED <<configVars, clientVars, serverVars, mode, stops, peerIdentities, groupKey, events>>

ArriveRequest(r) ==
  /\ mode # "stopped"
  /\ r \in sent /\ ~Contains(rx.data, r)
  /\ Push("data", r)
  /\ dropped' = dropped \cup {<<x, "lagged">> : x \in Overwritten("data") \cap Msg}
  /\ sent' = sent \ Overwritten("data")
  /\ UNCHANGED <<configVars, clientVars, serverVars,
                 mode, stops, todo, peerIdentities, groupKey, events>>

\* Messages that are still to be read.  Of the announces and of the changes of
\* the group the model has those that can matter to one of them.
UnderWay == todo \cup (InChannels \cap Msg)

\* A source announces itself, on its own or because a receiver asked for a path.
Announce(s) ==
  /\ mode # "stopped"
  /\ \E m \in UnderWay : Packet[m].source = s
  /\ peerIdentities' = peerIdentities \cup {s}
  /\ UNCHANGED <<cosignVars, mode, stops, todo, rx, groupKey, events, dropped>>

\* join_group and create_group, with the node running or not.
GroupMatters == \E m \in UnderWay : Packet[m].channel = "group"

JoinGroup(k) ==
  /\ GroupMatters
  /\ groupKey' = Some(k)
  /\ UNCHANGED <<cosignVars, mode, stops, todo, rx, peerIdentities, events, dropped>>

LeaveGroup ==
  /\ GroupMatters
  /\ groupKey' = None
  /\ UNCHANGED <<cosignVars, mode, stops, todo, rx, peerIdentities, events, dropped>>

-----------------------------------------------------------------------------
(* The receivers                                                           *)

lxmf_event_from_bytes(m, w, check) ==
  LET dec == decode_lxmf_payload(w.mp)
  IN IF dec = None THEN None
     ELSE Some([msg |-> m, source |-> w.src, content |-> dec[1], check |-> check])

Take(c) == rx' = [rx EXCEPT ![c] = Tail(@)]

\* The event is queued, or there is none for the reason given.
Emit(m, event, reason) ==
  /\ IF event # None
       THEN events' = events \cup {event[1]} /\ UNCHANGED dropped
       ELSE dropped' = dropped \cup {<<m, reason>>} /\ UNCHANGED events
  /\ UNCHANGED <<mode, stops, todo, peerIdentities, groupKey>>

\* What the data receiver makes of a message, by whether its source is known.
\* In mode 0 every payload that looks like RPC is ignored; elsewhere one that is
\* no request is looked up among the calls, which an LXMF message cannot match.
DataEvent(m, known) ==
  LET w == Packet[m].wire
      data == normalize_lxmf_wire(w, MyAddr)
      check == verify_lxmf_signature(data[1], IF known THEN {data[1].src} ELSE {})
  IN IF looks_like_rpc_response(w) \/ data = None \/ (data # None /\ check = "invalid")
       THEN None
       ELSE lxmf_event_from_bytes(m, data[1], check)

\* The source a message is checked against.
SourceRead(m) ==
  LET data == normalize_lxmf_wire(Packet[m].wire, MyAddr)
  IN IF data = None THEN Packet[m].wire.src ELSE data[1].src

ResourceEvent(m) ==
  LET data == normalize_lxmf_wire(Packet[m].wire, MyAddr)
  IN IF data = None THEN None ELSE lxmf_event_from_bytes(m, data[1], "none")

\* The group receiver neither normalises nor verifies what it decrypted.
GroupEvent(m) ==
  IF WireLen(Packet[m].wire) < HeaderLen + 1 THEN None
  ELSE lxmf_event_from_bytes(m, Packet[m].wire, "none")

EventOf(m, known) ==
  CASE Packet[m].channel = "data" -> DataEvent(m, known)
    [] Packet[m].channel = "resource" -> ResourceEvent(m)
    [] Packet[m].channel = "group" -> GroupEvent(m)

\* The same as a table, since the state has no other part in it.
Verdicts ==
  {[msg |-> m, known |-> known, event |-> EventOf(m, known)] : m \in Msg, known \in BOOLEAN}

SourcesRead == {<<m, SourceRead(m)>> : m \in Msg}

\* m is read, and shown or not.
Read(m) ==
  \E v \in Verdicts :
    /\ v.msg = m
    /\ v.known = (\E s \in peerIdentities : <<m, s>> \in SourcesRead)
    /\ Emit(m, v.event, "refused")

ReceiverAlive == mode # "stopped" /\ serving = None /\ ~panicked

ReceiveData ==
  /\ ReceiverAlive
  /\ rx.data # <<>> /\ Head(rx.data) \in Msg
  /\ Take("data")
  /\ Read(Head(rx.data))
  /\ UNCHANGED cosignVars

\* A node that is no beacon takes no notice of a request.
ReceiveRequest ==
  /\ ReceiverAlive
  /\ rx.data # <<>> /\ Head(rx.data) \notin Msg
  /\ Take("data")
  /\ IF mode = "beacon" THEN TakeRequest(Head(rx.data)) ELSE LoseRequest(Head(rx.data))
  /\ UNCHANGED <<mode, stops, todo, peerIdentities, groupKey, events, dropped>>

ReceiveResource ==
  /\ mode # "stopped"
  /\ rx.resource # <<>>
  /\ Take("resource")
  /\ Read(Head(rx.resource))
  /\ UNCHANGED cosignVars

\* A wrong key does not decrypt.
ReceiveGroup ==
  /\ mode # "stopped"
  /\ rx.group # <<>>
  /\ Take("group")
  /\ IF groupKey # None /\ groupKey = Packet[Head(rx.group)].key
       THEN Read(Head(rx.group))
       ELSE Emit(Head(rx.group), None, "no key")
  /\ UNCHANGED cosignVars

-----------------------------------------------------------------------------

\* What CoSign does apart from the receiver.
CoSignStep ==
  /\ \/ \E k \in Key : SetKeypair(k)
     \/ SetSolanaRpcUrl
     \/ \E id \in Program : SetProgramId(id)
     \/ ClientNext
     \/ \E r \in sent : ~Contains(rx.data, r) /\ LoseRequest(r)
     \/ HttpNext
  /\ UNCHANGED inboundVars

Next ==
  \/ \E n \in Mode : Start(n)
  \/ Stop
  \/ \E m \in Msg : Arrive(m)
  \/ \E r \in sent : ArriveRequest(r)
  \/ \E s \in Sources : Announce(s)
  \/ \E k \in GroupKey : JoinGroup(k)
  \/ LeaveGroup
  \/ ReceiveData
  \/ ReceiveRequest
  \/ ReceiveResource
  \/ ReceiveGroup
  \/ CoSignStep

Spec == Init /\ [][Next]_vars

\* The runtime polls every receiver, and a call over HTTP ends after 30 s.
Fairness ==
  /\ WF_vars(ReceiveData)
  /\ WF_vars(ReceiveRequest)
  /\ WF_vars(ReceiveResource)
  /\ WF_vars(ReceiveGroup)
  /\ WF_vars(HttpFails /\ UNCHANGED inboundVars)

FairSpec == Spec /\ Fairness

-----------------------------------------------------------------------------
(* Properties                                                              *)

\* A message that is shown has the source, title, body, image and files its
\* sender gave it, whatever client packed it; only a stripped one whose payload
\* looks like a payload 16 bytes later is read at the wrong place.
EventsAreFaithful ==
  \A e \in events :
    \/ e.source = Packet[e.msg].source /\ e.content = Packet[e.msg].content
    \/ Misread(Packet[e.msg].wire)

\* A genuine message that a receiver took is shown, unless it is read at the wrong
\* place.  The data receiver has three more exceptions: the first address begins
\* like JSON; a stripped message is shorter than 97 bytes; or it has more than 15
\* files, so that the signature of a known source seems wrong.
GenuineIsShown ==
  \A d \in dropped :
    LET s == Packet[d[1]] IN
    d[2] = "refused" /\ s.genuine =>
      \/ Misread(s.wire)
      \/ /\ s.channel = "data"
         /\ \/ FirstAddress(s.wire) \in Brace
            \/ s.wire.dest = NoAddr /\ Len(s.wire.mp) <= AddrLen
            \/ Len(s.content.files) > 15 /\ s.source \in peerIdentities

\* The data receiver shows a forged message only while it has not seen the
\* announce of the source it claims.
ForgedNeedsUnknownSource ==
  [][\A e \in events' \ events :
       Packet[e.msg].channel = "data" /\ ~Packet[e.msg].genuine
         => Packet[e.msg].source \notin peerIdentities]_vars

\* Every receiver comes to the end of its channel, however long the calls to
\* Solana take, unless one of their answers killed the data receiver.
ReceiversCatchUp == []<>(panicked \/ (serving = None /\ InChannels = {}))

\* A request the beacon took is answered, unless the node was stopped or the
\* receiver died.
RequestsAreAnswered ==
  \A i \in 1 .. MaxAsks :
    (serving # None /\ serving[1].req.id = i) ~>
      ((\E a \in answers : a.id = i) \/ panicked \/ mode = "stopped")
=============================================================================
