----------------------------- MODULE MCBleLink -----------------------------
(* Model values and bounds for the checks of BleLink.                      *)
EXTENDS BleLink, TLC

CONSTANTS a, b, k1, k2, k3

\* The last packet from a second peer.
FromAB == [k \in Pkt |-> IF k = k3 THEN b ELSE a]

\* Two, one and one segment at limit 2; three, two and two at limit 1.
MixedSizes == k1 :> 3 @@ k2 :> 2 @@ k3 :> 2
=============================================================================
