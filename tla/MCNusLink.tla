----------------------------- MODULE MCNusLink -----------------------------
(* Streams and bounds for the checks of NusLink.                           *)
EXTENDS NusLink, TLC

CONSTANTS r1, r2

\* A status frame of the firmware, and packets that have to be escaped.
Streams ==
  r1 :> <<<<0, <<KISS_FEND>>>>, <<\h26, <<0, \h41>>>>, <<0, <<KISS_FESC, \h41>>>>>>
  @@ r2 :> <<<<0, <<\h41, \h42>>>>>>

Bounds(n, stop, unpair, fail, ifaceStop, notify, miss) ==
  [gatts |-> n, stops |-> stop, unpairs |-> unpair, scanFails |-> fail,
   ifaceStops |-> ifaceStop, notified |-> notify, missed |-> miss]

\* Connections alone; the traffic of both over two connections, with a new
\* deframer or something missed; and some over connections that come and go.
AllBudgets ==
  {Bounds(3, 1, 1, 0, 0, 0, 0), Bounds(2, 1, 0, 1, 0, 0, 0), Bounds(2, 0, 0, 0, 1, 6, 0),
   Bounds(2, 0, 0, 0, 0, 7, 1), Bounds(2, 1, 0, 0, 0, 4, 1)}

-----------------------------------------------------------------------------
(* The codec of the phones, on all short payloads.                         *)

Alphabet == {HDLC_FLAG, HDLC_ESC, \h5e, \h41}
Payloads == UNION {[1 .. n -> Alphabet] : n \in 1 .. 3}

\* One deframer may serve all peers: whatever blob a peer sends that begins and
\* ends with a flag, as every reassembled blob does, the blob of another peer
\* behind it is decoded as if the deframer were new.
ASSUME BlobsDecodeAlone ==
  \A junk, p \in Payloads :
    hdlc_feed(hdlc_feed(HdlcDeframer, <<HDLC_FLAG>> \o junk \o <<HDLC_FLAG>>),
              hdlc_encode(p)).frames = <<p>>
=============================================================================
