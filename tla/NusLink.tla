------------------------------ MODULE NusLink ------------------------------
(***************************************************************************)
(* From RNodes to the transport: the notifications NusManager (AndroidNus) *)
(* hands to on_nus_rx, the queue of nus_iface.rs, and the KISS deframer    *)
(* (Framing) of NusInterface::spawn.                                       *)
(*                                                                         *)
(* An RNode is external.  It sends its KISS frames as one stream of bytes, *)
(* cut into notifications without regard to the frames, and what it sends  *)
(* while nobody is subscribed is gone.  All RNodes share one queue and one *)
(* deframer; the queue is static and outlives the interface.               *)
(***************************************************************************)
EXTENDS AndroidNus, Framing

CONSTANTS
  Traffic,          \* the frames of each RNode: <<command, data>>
  Cuts,             \* lengths a notification may have, one of them in a run
  NUS_MAX_PACKET,
  NUS_RX_QUEUE_MAX

\* Commands are those of the firmware: none is a delimiter, or the sentinel.
ASSUME TrafficAssumption ==
  Traffic \in [RNode -> Seq((Byte \ {KISS_FEND, NoCommand}) \X Seq(Byte))]
ASSUME NusLinkBoundsAssumption ==
  /\ Cuts \subseteq Nat \ {0}
  /\ NUS_MAX_PACKET \in Nat /\ NUS_RX_QUEUE_MAX \in Nat

VARIABLES
  cut,          \* the length of a notification
  pos,          \* bytes each RNode has sent
  nus_rx_queue, \* notifications: an RNode and the positions of its stream
  ifaceUp,      \* NusInterface::spawn runs
  deframer,     \* its KISS deframer
  fed,          \* history: where in the streams each byte of this deframer is from
  received      \* the packets it handed to the transport

linkVars == <<cut, pos, nus_rx_queue, ifaceUp, deframer, fed, received>>
vars == <<nusVars, linkVars, budget>>

Encoded(r) == [i \in DOMAIN Traffic[r] |-> KissFrame(Traffic[r][i][1], Traffic[r][i][2])]
Stream == [r \in RNode |-> FlattenSeq(Encoded(r))]

Notification == [rnode : RNode, first : Nat, last : Nat]

\* A byte of a stream
Place == [rnode : RNode, at : Nat]
Places(n) == [i \in 1 .. n.last + 1 - n.first |-> [rnode |-> n.rnode, at |-> n.first + i - 1]]
Bytes(places) == [i \in DOMAIN places |-> Stream[places[i].rnode][places[i].at]]

TypeOK ==
  /\ NusTypeOK
  /\ cut \in Cuts
  /\ \A r \in RNode : pos[r] \in 0 .. Len(Stream[r])
  /\ nus_rx_queue \in Seq(Notification) /\ Len(nus_rx_queue) <= NUS_RX_QUEUE_MAX
  /\ ifaceUp \in BOOLEAN
  /\ deframer.buf \in Seq(Byte) /\ deframer.command \in Byte
  /\ fed \in Seq(Place)
  /\ received \in Seq(Seq(Byte))
  /\ \A i \in DOMAIN received : Len(received[i]) \in 1 .. NUS_MAX_PACKET

Init ==
  /\ NusInit
  /\ cut \in Cuts
  /\ pos = [r \in RNode |-> 0]
  /\ nus_rx_queue = <<>>
  /\ ifaceUp = FALSE
  /\ deframer = KissDeframer
  /\ fed = <<>>
  /\ received = <<>>

-----------------------------------------------------------------------------

\* Each GATT object that is subscribed hands a notification to Rust.
Subscribed(r) == {g \in OpenGatts(r) : gatts[g].phase = "ready"}

\* Mutant: the queue takes one notification too many.
on_nus_rxLate(q, n) == IF Len(q) <= NUS_RX_QUEUE_MAX THEN Append(q, n) ELSE q

on_nus_rx(q, n) == IF Len(q) < NUS_RX_QUEUE_MAX THEN Append(q, n) ELSE q

\* The RNode sends, to as many objects as are subscribed.
Notify(r) ==
  /\ pos[r] < Len(Stream[r])
  /\ Spend(IF Subscribed(r) = {} THEN "missed" ELSE "notified")
  /\ LET last == IF pos[r] + cut < Len(Stream[r]) THEN pos[r] + cut ELSE Len(Stream[r])
         n == [rnode |-> r, first |-> pos[r] + 1, last |-> last]
         queue[i \in 0 .. Cardinality(Subscribed(r))] ==
           IF i = 0 THEN nus_rx_queue ELSE on_nus_rx(queue[i - 1], n)
     IN /\ pos' = [pos EXCEPT ![r] = last]
        /\ nus_rx_queue' = queue[Cardinality(Subscribed(r))]
  /\ UNCHANGED <<nusVars, cut, ifaceUp, deframer, fed, received>>

\* A start of the node spawns the interface, whose deframer is new.
SpawnIface ==
  /\ ~ifaceUp
  /\ ifaceUp' = TRUE
  /\ deframer' = KissDeframer
  /\ fed' = <<>>
  /\ received' = <<>>
  /\ UNCHANGED <<nusVars, cut, pos, nus_rx_queue, budget>>

CancelIface ==
  /\ ifaceUp
  /\ Spend("ifaceStops")
  /\ ifaceUp' = FALSE
  /\ UNCHANGED <<nusVars, cut, pos, nus_rx_queue, deframer, fed, received>>

IsPacket(frame) == frame[1] = KISS_CMD_DATA /\ Len(frame[2]) <= NUS_MAX_PACKET

\* What the transport gets of these frames
Taken(frames) ==
  LET taken[i \in 0 .. Len(frames)] ==
        CASE i = 0 -> <<>>
          [] i > 0 /\ IsPacket(frames[i]) -> Append(taken[i - 1], frames[i][2])
          [] OTHER -> taken[i - 1]
  IN taken[Len(frames)]

\* The 10 ms poll drains the queue into the deframer.
PollRx ==
  LET places == FlattenSeq([i \in DOMAIN nus_rx_queue |-> Places(nus_rx_queue[i])])
      after == kiss_feed(deframer, Bytes(places))
  IN
  /\ ifaceUp
  /\ nus_rx_queue # <<>>
  /\ nus_rx_queue' = <<>>
  /\ deframer' = [after EXCEPT !.frames = <<>>]
  /\ fed' = fed \o places
  /\ received' = received \o Taken(after.frames)
  /\ UNCHANGED <<nusVars, cut, pos, ifaceUp, budget>>

-----------------------------------------------------------------------------
Next ==
  \/ NusNext /\ UNCHANGED linkVars
  \/ \E r \in RNode : Notify(r)
  \/ SpawnIface
  \/ CancelIface
  \/ PollRx

Spec == Init /\ [][Next]_vars

-----------------------------------------------------------------------------
(* Properties                                                              *)

\* Positions of a stream after which no frame is open
Boundaries ==
  [r \in RNode |-> {Len(FlattenSeq(SubSeq(Encoded(r), 1, i))) : i \in 0 .. Len(Encoded(r))}]

\* q goes on where p was, or the one ends a frame and the other starts one.
Joins(p, q) ==
  \/ p.rnode = q.rnode /\ q.at = p.at + 1
  \/ p.at \in Boundaries[p.rnode] /\ q.at - 1 \in Boundaries[q.rnode]

\* The places where the stream of bytes was damaged: something lost, doubled or
\* put in between, or begun in the middle of a frame.
Seams ==
  {i \in DOMAIN fed : IF i = 1 THEN fed[1].at - 1 \notin Boundaries[fed[1].rnode]
                               ELSE ~Joins(fed[i - 1], fed[i])}

\* Where a whole frame with this packet begins
Intact(packet) ==
  LET frame == kiss_encode(packet)
      bytes == Bytes(fed)
  IN {i \in 1 .. Len(bytes) + 1 - Len(frame) : SubSeq(bytes, i, i + Len(frame) - 1) = frame}

\* The packets that are sent, and not too long for the interface
Packets ==
  {f[2] : f \in {g \in UNION {Range(Traffic[r]) : r \in RNode} : IsPacket(g) /\ g[2] # <<>>}}

\* Damage is local: a packet whose frame came in one piece is received, whatever
\* was lost, doubled or mixed in before it and wherever notifications were cut;
\* and each place of damage yields at most one packet nobody sent.
DamageIsLocal ==
  /\ \A p \in Packets :
       Cardinality(Intact(p)) <= Cardinality({i \in DOMAIN received : received[i] = p})
  /\ Len(received) <= Cardinality(UNION {Intact(p) : p \in Packets}) + Cardinality(Seams)
=============================================================================
