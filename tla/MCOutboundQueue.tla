-------------------------- MODULE MCOutboundQueue --------------------------
(* Model values and bounds for the checks of OutboundQueue.                *)
EXTENDS OutboundQueue, TLC

CONSTANTS m1, m2, p1, p2

\* One message.
OneMessage == m1 :> p1

\* Two messages to one peer.
OnePeer == m1 :> p1 @@ m2 :> p1

\* One message to each peer.
TwoPeerPair == m1 :> p1 @@ m2 :> p2
=============================================================================
