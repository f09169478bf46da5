------------------------------ MODULE BlePeers ------------------------------
(* What the native BLE managers of both platforms tell the Rust side, which *)
(* keeps a list of peers (ble_iface.rs).                                    *)

CONSTANT Mac         \* addresses of remote devices

\* The calls into Rust a callback ends with.
Call == {"none", "connected", "disconnected"}

\* What a call makes of the list.
Told(peers, call, m) ==
  CASE call = "connected" -> peers \cup {m}
    [] call = "disconnected" -> peers \ {m}
    [] OTHER -> peers
=============================================================================
