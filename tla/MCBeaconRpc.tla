---------------------------- MODULE MCBeaconRpc ----------------------------
(* Model values and bounds for the checks of BeaconRpc.                    *)
EXTENDS BeaconRpc, TLC

CONSTANTS c1, c2, b1, b2

\* All calls to one beacon.
OneBeacon == [c \in Call |-> b1]

\* The first call to one beacon, the others to another.
TwoBeacons == [c \in Call |-> IF c = c1 THEN b1 ELSE b2]
=============================================================================
