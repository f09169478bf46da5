------------------------------ MODULE BleLink ------------------------------
(***************************************************************************)
(* The BLE interface of rust-core/src/ble_iface.rs between its shared      *)
(* queues and the transport, with the native code that moves the frames    *)
(* (BLEManager.swift, LxmfModule.swift, BleManager.kt): the peers of one   *)
(* receiver segment packets and queue the frames; native code pops and     *)
(* writes them; the receiver limits, queues and reassembles them.          *)
(*                                                                         *)
(* A packet is a model value with a size; a frame is known by its packet,  *)
(* its index and the number of segments.  An HDLC frame starts in the first*)
(* segment and ends in the last, so a reassembled blob is one HDLC frame   *)
(* and the deframer is empty between blobs.                                *)
(***************************************************************************)
EXTENDS Naturals, Sequences, FiniteSets, SequencesExt

CONSTANTS
  Peer,         \* the senders
  Pkt,          \* Reticulum packets of at most BLE_MAX_PACKET bytes: larger
                \* ones are dropped before they are encoded
  NoPkt,        \* not a packet
  Src,          \* the sender of each packet
  Size,         \* the size of each packet after HDLC encoding
  Limits,       \* write limits a connection may negotiate, less the header
  DefaultLimit, \* limit of a peer that negotiated none (247 - 2)
  RxQueueMax,   \* BLE_RX_QUEUE_MAX
  RxPpsLimit,   \* BLE_RX_PPS_LIMIT
  ConnectFirst, \* iOS registers a peer before its MTU, Android after
  MaxLosses,    \* bound of the model: frames refused or lost on a live link
  MaxConnects   \* bound of the model: connections

ASSUME NoPktAssumption == NoPkt \notin Pkt
ASSUME SrcAssumption == Src \in [Pkt -> Peer]
ASSUME SizeAssumption == Size \in [Pkt -> Nat \ {0}]
ASSUME LimitAssumption ==
  Limits \subseteq Nat \ {0} /\ DefaultLimit \in Nat \ {0}
ASSUME BleBoundsAssumption ==
  /\ RxQueueMax \in Nat /\ RxPpsLimit \in Nat
  /\ MaxLosses \in Nat /\ MaxConnects \in Nat
ASSUME ConnectFirstAssumption == ConnectFirst \in BOOLEAN

VARIABLES
  link,       \* write limit of the live connection of each peer; 0 if down
  peerMtu,    \* ble_peer_mtu; 0 if the peer has no entry
  blePeers,   \* ble_peers
  connects,   \* connections so far
  txQueue,    \* ble_tx_queue of each sender
  rxQueue,    \* ble_rx_queue of the receiver
  incoming,   \* frames the poll took from it and has not gone through yet
  rxRate,     \* frames of each peer in its current window
  assembly,   \* segments of each peer's unfinished packet; <<>> if none
  received,   \* blobs handed to the transport, by peer
  sent,       \* history: what each peer segmented for the receiver: the packet,
              \* its segments and the frames of the peer before it
  lost,       \* history: peers that lost a frame
  losses      \* frames refused or lost on a live link so far

connVars == <<link, peerMtu, blePeers, connects>>
rxVars == <<rxQueue, incoming, rxRate>>
asmVars == <<assembly, received>>
vars == <<connVars, txQueue, rxVars, asmVars, sent, lost, losses>>

Frame == [pkt : Pkt, idx : Nat, total : Nat, limit : Nat]
NoFrame == [pkt |-> NoPkt, idx |-> 0, total |-> 0, limit |-> 0]
Cut == [pkt : Pkt, total : Nat, before : Nat]

TypeOK ==
  /\ link \in [Peer -> Limits \cup {0}]
  /\ peerMtu \in [Peer -> Limits \cup {0}]
  /\ blePeers \subseteq Peer
  /\ connects \in 0 .. MaxConnects
  /\ txQueue \in [Peer -> Seq(Frame)]
  /\ rxQueue \in Seq(Frame) /\ Len(rxQueue) <= RxQueueMax
  /\ incoming \in Seq(Frame) /\ Len(incoming) <= RxQueueMax
  /\ rxRate \in [Peer -> 0 .. RxPpsLimit]
  /\ assembly \in [Peer -> Seq(Frame \cup {NoFrame})]
  /\ received \in [Peer -> Seq(Seq(Frame))]
  /\ sent \in [Peer -> Seq(Cut)]
  /\ lost \subseteq Peer
  /\ losses \in 0 .. MaxLosses

Init ==
  /\ link = [p \in Peer |-> 0]
  /\ peerMtu = [p \in Peer |-> 0]
  /\ blePeers = {}
  /\ connects = 0
  /\ txQueue = [p \in Peer |-> <<>>]
  /\ rxQueue = <<>>
  /\ incoming = <<>>
  /\ rxRate = [p \in Peer |-> 0]
  /\ assembly = [p \in Peer |-> <<>>]
  /\ received = [p \in Peer |-> <<>>]
  /\ sent = [p \in Peer |-> <<>>]
  /\ lost = {}
  /\ losses = 0

-----------------------------------------------------------------------------
(* Connections                                                             *)

LinkUp(p) ==
  /\ link[p] = 0
  /\ connects < MaxConnects
  /\ connects' = connects + 1
  /\ \E limit \in Limits : link' = [link EXCEPT ![p] = limit]
  /\ UNCHANGED <<peerMtu, blePeers, txQueue, rxVars, asmVars, sent, lost,
                 losses>>

\* on_mtu_negotiated: after the registration on iOS, before it on Android.
NegotiateMtu(p) ==
  /\ link[p] # 0
  /\ ConnectFirst <=> p \in blePeers
  /\ peerMtu[p] # link[p]
  /\ peerMtu' = [peerMtu EXCEPT ![p] = link[p]]
  /\ UNCHANGED <<link, blePeers, connects, txQueue, rxVars, asmVars, sent,
                 lost, losses>>

\* on_ble_connected
Register(p) ==
  /\ link[p] # 0
  /\ p \notin blePeers
  /\ ConnectFirst \/ peerMtu[p] = link[p]
  /\ blePeers' = blePeers \cup {p}
  /\ UNCHANGED <<link, peerMtu, connects, txQueue, rxVars, asmVars, sent, lost,
                 losses>>

\* on_ble_disconnected.  Queued frames, the assembly and the MTU stay.
LinkDown(p) ==
  /\ link[p] # 0
  /\ link' = [link EXCEPT ![p] = 0]
  /\ blePeers' = blePeers \ {p}
  /\ UNCHANGED <<peerMtu, connects, txQueue, rxVars, asmVars, sent, lost,
                 losses>>

-----------------------------------------------------------------------------
(* The sender                                                              *)

\* segment_with_payload: one frame, or ceil(size / limit) chunks
TotalSegs(size, limit) ==
  IF size <= limit THEN 1 ELSE (size + limit - 1) \div limit

\* The header of a segment counts in one byte (debug_assert of
\* segment_with_payload): 18 bytes of the smallest ATT MTU are enough for that.
ASSUME SegsAssumption ==
  \A k \in Pkt : \A limit \in Limits \cup {DefaultLimit} :
    TotalSegs(Size[k], limit) <= 255

PeerLimit(p) == IF peerMtu[p] = 0 THEN DefaultLimit ELSE peerMtu[p]

\* Frames a peer has cut so far
FramesOf(p) == IF sent[p] = <<>> THEN 0 ELSE Last(sent[p]).before + Last(sent[p]).total

\* A packet of the transport is segmented for a registered peer and queued; the
\* queue has no bound.
SendPacket(k) ==
  LET p == Src[k]
      limit == PeerLimit(p)
      total == TotalSegs(Size[k], limit)
  IN
  /\ p \in blePeers
  /\ \A n \in DOMAIN sent[p] : sent[p][n].pkt # k
  /\ sent' = [sent EXCEPT ![p] =
                 Append(@, [pkt |-> k, total |-> total, before |-> FramesOf(p)])]
  /\ txQueue' = [txQueue EXCEPT ![p] =
                   @ \o [i \in 1 .. total |->
                           [pkt |-> k, idx |-> i, total |-> total,
                            limit |-> IF total = 1 THEN Size[k] ELSE limit]]]
  /\ UNCHANGED <<connVars, rxVars, asmVars, lost, losses>>

\* A frame is lost on a live link: native code pops it before it knows that the
\* buffer of the OS refuses it, or the radio loses a write without response.
RefuseFrame(p) ==
  /\ txQueue[p] # <<>>
  /\ link[p] # 0
  /\ losses < MaxLosses
  /\ losses' = losses + 1
  /\ txQueue' = [txQueue EXCEPT ![p] = Tail(@)]
  /\ lost' = lost \cup {p}
  /\ UNCHANGED <<connVars, rxVars, asmVars, sent>>

\* The frame cannot arrive: the peer is gone, or the frame exceeds the limit of
\* the connection.
LoseFrame(p) ==
  /\ txQueue[p] # <<>>
  /\ link[p] = 0 \/ Head(txQueue[p]).limit > link[p]
  /\ txQueue' = [txQueue EXCEPT ![p] = Tail(@)]
  /\ lost' = lost \cup {p}
  /\ UNCHANGED <<connVars, rxVars, asmVars, sent, losses>>

-----------------------------------------------------------------------------
(* The receiver                                                            *)

\* Mutant: the queue takes one frame too many.
AcceptsOneMore(count) == count <= RxPpsLimit /\ Len(rxQueue) <= RxQueueMax

\* check_ble_rx_rate, then the cap of the queue
Accepts(count) == count <= RxPpsLimit /\ Len(rxQueue) < RxQueueMax

\* The frame arrives in on_ble_rx: the rate limit of its peer, whose window may
\* have ended, then the cap of the queue.
ArriveFrame(p) ==
  LET f == Head(txQueue[p]) IN
  /\ txQueue[p] # <<>>
  /\ link[p] # 0
  /\ f.limit <= link[p]
  /\ txQueue' = [txQueue EXCEPT ![p] = Tail(@)]
  /\ \E count \in {1, rxRate[p] + 1} :
       /\ rxRate' = [rxRate EXCEPT ![p] = Min({count, RxPpsLimit})]
       /\ IF Accepts(count)
            THEN rxQueue' = Append(rxQueue, f) /\ UNCHANGED lost
            ELSE lost' = lost \cup {p} /\ UNCHANGED rxQueue
  /\ UNCHANGED <<connVars, incoming, asmVars, sent, losses>>

Complete(slots) == \A i \in DOMAIN slots : slots[i] # NoFrame

\* Mutant: a changed total extends the slots in place.
KeepSlots(old, total) ==
  IF old # <<>> THEN [i \in 1 .. total |-> IF i <= Len(old) THEN old[i]
                                                            ELSE NoFrame]
                ELSE [i \in 1 .. total |-> NoFrame]

\* Mutant: every segment starts a new assembly.
FreshSlots(old, total) == [i \in 1 .. total |-> NoFrame]

\* PeerAssembly::new, unless the unfinished packet has as many segments
Slots(old, total) ==
  IF Len(old) = total THEN old ELSE [i \in 1 .. total |-> NoFrame]

\* Mutant: one assembly for all peers.
OneAssembly(f) == CHOOSE p \in Peer : TRUE

\* The key of the assembly map is the address of the peer.
AssemblyOf(f) == Src[f.pkt]

\* The 10 ms poll of BleInterface::spawn drains the queue.
PollRx ==
  /\ incoming = <<>>
  /\ rxQueue # <<>>
  /\ incoming' = rxQueue
  /\ rxQueue' = <<>>
  /\ UNCHANGED <<connVars, txQueue, rxRate, asmVars, sent, lost, losses>>

\* One frame of what it drained; between two frames the task may wait for the
\* transport to take a packet.  A single frame discards the unfinished packet of
\* its peer.
ReassembleFrame ==
  LET f == Head(incoming)
      p == AssemblyOf(f)
      slots == IF f.total = 1
                 THEN <<f>>
                 ELSE [Slots(assembly[p], f.total) EXCEPT ![f.idx] = f]
  IN
  /\ incoming # <<>>
  /\ incoming' = Tail(incoming)
  /\ \/ /\ Complete(slots)
        /\ assembly' = [assembly EXCEPT ![p] = <<>>]
        /\ received' = [received EXCEPT ![Src[f.pkt]] = Append(@, slots)]
     \/ /\ ~Complete(slots)
        /\ assembly' = [assembly EXCEPT ![p] = slots]
        /\ UNCHANGED received
  /\ UNCHANGED <<connVars, txQueue, rxQueue, rxRate, sent, lost, losses>>

-----------------------------------------------------------------------------
Next ==
  \/ \E p \in Peer : \/ LinkUp(p) \/ NegotiateMtu(p) \/ Register(p)
                     \/ LinkDown(p)
                     \/ RefuseFrame(p) \/ LoseFrame(p) \/ ArriveFrame(p)
  \/ \E k \in Pkt : SendPacket(k)
  \/ PollRx
  \/ ReassembleFrame

Spec == Init /\ [][Next]_vars

\* The TX drain of the native code and the RX poll run all the time.
FairSpec ==
  /\ Spec
  /\ WF_vars(PollRx)
  /\ WF_vars(ReassembleFrame)
  /\ \A p \in Peer : WF_vars(LoseFrame(p) \/ ArriveFrame(p))

-----------------------------------------------------------------------------
(* Safety                                                                  *)

\* All segments of the packet, each in its place
Whole(blob, packet) ==
  /\ Len(blob) = packet.total
  /\ \A i \in DOMAIN blob : blob[i].pkt = packet.pkt /\ blob[i].idx = i

\* While no frame of a peer was lost, the transport gets the packets of that
\* peer whole, once and in order, whatever the other peers send and lose
\* (per-peer assembly of BleInterface).
InOrderUnlessLost ==
  \A p \in Peer \ lost : \A n \in DOMAIN received[p] :
    n \in DOMAIN sent[p] /\ Whole(received[p][n], sent[p][n])

\* After any loss, reconnection and change of the write limit: a blob has the
\* segments of one peer, each in its place, of packets cut into equally many.
BlobsAreWellFormed ==
  \A p \in Peer : \A n \in DOMAIN received[p] :
    LET blob == received[p][n] IN
    \A i \in DOMAIN blob :
      /\ blob[i].idx = i
      /\ blob[i].total = Len(blob)
      /\ Src[blob[i].pkt] = p

-----------------------------------------------------------------------------
(* Liveness                                                                *)

\* All packets queued so far reach the transport, but those of a peer that lost
\* a frame: frames, assemblies and polls never get stuck (what is sent or lost
\* stays so, hence this says as much as one leads-to per packet).
SentIsReceived ==
  []<>(\A p \in Peer \ lost :
         \A n \in DOMAIN sent[p] : \E i \in DOMAIN received[p] :
           received[p][i][1].pkt = sent[p][n].pkt)
=============================================================================
