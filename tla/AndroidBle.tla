----------------------------- MODULE AndroidBle -----------------------------
(***************************************************************************)
(* The two BLE roles of BleManager.kt and the list of peers the Rust side  *)
(* keeps (ble_iface.rs).  A phone is a client of the peers it finds and a  *)
(* server for the peers that find it; Rust sends only to peers it was told *)
(* of, and both roles tell it of the same address.                         *)
(*                                                                         *)
(* The callbacks run on binder threads, one at a time for each GATT object *)
(* and for each remote central; stop runs on a thread of its own.  Between *)
(* the update of a map and the call into Rust another thread may run, so   *)
(* these are two steps; the rest of a callback is one.  The radio and the  *)
(* Bluetooth stack are external: they answer each request in either way,   *)
(* and may drop a role at any time.                                        *)
(***************************************************************************)
EXTENDS BlePeers, Naturals, Sequences, FiniteSets

CONSTANTS
  MaxGatts,     \* bound of the model: calls of connectGatt
  MaxStops,     \* bound of the model: calls of stop
  MaxInits,     \* bound of the model: calls of init while BLE may run
  MaxScanFails  \* bound of the model: scans the stack gives up

ASSUME AndroidBleBoundsAssumption ==
  MaxGatts \in Nat /\ MaxStops \in Nat /\ MaxInits \in Nat /\ MaxScanFails \in Nat

VARIABLES
  isRunning,
  isScanning,
  serverOpen,         \* gattServer is not null
  connecting,         \* addresses of pending connectGatt calls
  connections,        \* the GATT object of each address; 0 if it has none
  disconnectedAt,     \* addresses within RECONNECT_COOLDOWN_MS
  serverSubscribers,  \* centrals that enabled notifications
  gatts,              \* every GATT object: its address, how far it is, and the
                      \* call into Rust its callback still has to make
  serverCall,         \* the call into Rust a server callback still has to make
  stopping,           \* stop is between its two halves
  stopCalls,          \* what stop still has to report and close
  scanRestart,        \* a restart of the scan is posted
  blePeers,           \* ble_peers of ble_iface.rs
  stops, inits, scanFails,
  raced,              \* history: addresses whose callback or connection attempt
                      \* was under way when stop came, or init when in use
  mixed               \* history: addresses that had both roles at a time

scanVars == <<isScanning, scanRestart, scanFails>>
clientVars == <<connecting, connections, disconnectedAt, gatts>>
serverVars == <<serverOpen, serverSubscribers, serverCall>>
lifeVars == <<isRunning, stopping, stopCalls, stops, inits>>
vars == <<scanVars, clientVars, serverVars, lifeVars, blePeers, raced, mixed>>

\* "subscribing" waits for the answer to the write of the CCCD; the write may
\* fail, or never be made, which leaves the connection "unsubscribed"; a GATT
\* object "leaving" was asked to disconnect; a "lost" one was told that it is
\* disconnected and is not closed.
Phase == {"connecting", "connected", "requestingMtu", "subscribing", "ready",
          "unsubscribed", "leaving", "lost", "closed"}
Gatt == [mac : Mac, phase : Phase, call : Call]

\* An address is being connected or connected, not both.
TypeOK ==
  /\ isRunning \in BOOLEAN /\ isScanning \in BOOLEAN /\ serverOpen \in BOOLEAN
  /\ connections \in [Mac -> 0 .. Len(gatts)]
  /\ connecting \subseteq {m \in Mac : connections[m] = 0}
  /\ disconnectedAt \subseteq Mac
  /\ serverSubscribers \subseteq Mac
  /\ gatts \in Seq(Gatt) /\ Len(gatts) <= MaxGatts
  /\ serverCall \in [Mac -> Call]
  /\ stopping \in BOOLEAN
  /\ stopCalls \subseteq Mac \X (0 .. MaxGatts)
  /\ scanRestart \in BOOLEAN
  /\ blePeers \subseteq Mac
  /\ stops \in 0 .. MaxStops /\ inits \in 0 .. MaxInits
  /\ scanFails \in 0 .. MaxScanFails
  /\ raced \subseteq Mac /\ mixed \subseteq Mac

Init ==
  /\ isRunning = FALSE /\ isScanning = FALSE /\ serverOpen = FALSE
  /\ connecting = {}
  /\ connections = [m \in Mac |-> 0]
  /\ disconnectedAt = {}
  /\ serverSubscribers = {}
  /\ gatts = <<>>
  /\ serverCall = [m \in Mac |-> "none"]
  /\ stopping = FALSE /\ stopCalls = {}
  /\ scanRestart = FALSE
  /\ blePeers = {}
  /\ stops = 0 /\ inits = 0 /\ scanFails = 0
  /\ raced = {} /\ mixed = {}

\* GATT objects of m the stack still knows.
OpenGatts(m) ==
  {g \in DOMAIN gatts : gatts[g].mac = m /\ gatts[g].phase # "closed"}

\* A callback of the client role about m has not made its call into Rust yet.
InClientCallback(m) ==
  \E g \in DOMAIN gatts : gatts[g].mac = m /\ gatts[g].call # "none"

InCallback(m) == serverCall[m] # "none" \/ InClientCallback(m)

\* m is in use by the one role or the other.
IsServed(m) == m \in serverSubscribers \/ serverCall[m] # "none"
IsClient(m) == OpenGatts(m) # {} \/ InClientCallback(m)

-----------------------------------------------------------------------------
(* start, stop and init                                                    *)

\* start and startBLE: opens the server, which then advertises, and the scan.
Start ==
  /\ ~isRunning
  /\ ~stopping /\ stopCalls = {}
  /\ isRunning' = TRUE
  /\ serverOpen' = TRUE
  /\ isScanning' = TRUE
  /\ UNCHANGED <<scanRestart, scanFails, clientVars, serverSubscribers,
                 serverCall, stopping, stopCalls, stops, inits, blePeers, raced,
                 mixed>>

\* First half of stop, up to the calls of closeGattServer.  stop does not ask
\* whether BLE runs.
StopServer ==
  /\ ~stopping /\ stopCalls = {}
  /\ stops < MaxStops
  /\ stops' = stops + 1
  /\ isRunning' = FALSE
  /\ isScanning' = FALSE
  /\ stopping' = TRUE
  /\ stopCalls' = serverSubscribers \X {0}
  /\ serverSubscribers' = {}
  /\ raced' = raced \cup {m \in Mac : InCallback(m) \/ m \in connecting}
  /\ UNCHANGED <<scanRestart, scanFails, clientVars, serverOpen, serverCall,
                 inits, blePeers, mixed>>

\* Second half: the server is closed, the maps of the client role are cleared.
StopClients ==
  /\ stopping /\ stopCalls = {}
  /\ stopping' = FALSE
  /\ serverOpen' = FALSE
  /\ stopCalls' = {<<m, connections[m]>> : m \in {n \in Mac : connections[n] # 0}}
  /\ connections' = [m \in Mac |-> 0]
  /\ connecting' = {}
  /\ disconnectedAt' = {}
  /\ raced' = raced \cup {m \in Mac : \/ InCallback(m)
                                      \/ m \in connecting \cup serverSubscribers}
  /\ UNCHANGED <<scanVars, gatts, serverSubscribers, serverCall, isRunning,
                 stops, inits, blePeers, mixed>>

\* One call of stop into Rust; for a client, its GATT object is then closed.
StopCall(m, g) ==
  /\ <<m, g>> \in stopCalls
  /\ stopCalls' = stopCalls \ {<<m, g>>}
  /\ blePeers' = blePeers \ {m}
  /\ raced' = IF InCallback(m) THEN raced \cup {m} ELSE raced
  /\ gatts' = IF g = 0 THEN gatts ELSE [gatts EXCEPT ![g].phase = "closed"]
  /\ UNCHANGED <<scanVars, connecting, connections, disconnectedAt, serverVars,
                 isRunning, stopping, stops, inits, mixed>>

\* A remounted hook calls init, which clears the list of peers.
InitNode ==
  /\ inits < MaxInits
  /\ inits' = inits + 1
  /\ blePeers' = {}
  /\ raced' = raced \cup serverSubscribers
                    \cup {m \in Mac : InCallback(m) \/ OpenGatts(m) # {}}
  /\ UNCHANGED <<scanVars, clientVars, serverVars, isRunning, stopping,
                 stopCalls, stops, mixed>>

-----------------------------------------------------------------------------
(* The scan and the client role                                            *)

\* onScanFailed posts a restart after 30 s, which does not ask whether BLE still
\* runs.
ScanFails ==
  /\ isScanning
  /\ scanFails < MaxScanFails
  /\ scanFails' = scanFails + 1
  /\ isScanning' = FALSE
  /\ scanRestart' = TRUE
  /\ UNCHANGED <<clientVars, serverVars, lifeVars, blePeers, raced, mixed>>

RestartScan ==
  /\ scanRestart
  /\ scanRestart' = FALSE
  /\ isScanning' = TRUE
  /\ UNCHANGED <<scanFails, clientVars, serverVars, lifeVars, blePeers, raced,
                 mixed>>

\* Mutant: the addresses being connected are not asked for.
MayConnectTwice(m) == connections[m] = 0 /\ m \notin disconnectedAt

\* Mutant: there is no cooldown.
MayConnectAtOnce(m) == connections[m] = 0 /\ m \notin connecting

MayConnect(m) ==
  connections[m] = 0 /\ m \notin connecting /\ m \notin disconnectedAt

\* onScanResult
ScanResult(m) ==
  /\ isScanning
  /\ isRunning
  /\ MayConnect(m)
  /\ Len(gatts) < MaxGatts
  /\ connecting' = connecting \cup {m}
  /\ gatts' = Append(gatts, [mac |-> m, phase |-> "connecting", call |-> "none"])
  /\ mixed' = IF IsServed(m) THEN mixed \cup {m} ELSE mixed
  /\ UNCHANGED <<scanVars, connections, disconnectedAt, serverVars, lifeVars,
                 blePeers, raced>>

\* RECONNECT_COOLDOWN_MS, 15 s, is over: longer than a callback takes.
EndCooldown(m) ==
  /\ m \in disconnectedAt
  /\ ~InClientCallback(m)
  /\ disconnectedAt' = disconnectedAt \ {m}
  /\ UNCHANGED <<scanVars, connecting, connections, gatts, serverVars, lifeVars,
                 blePeers, raced, mixed>>

\* The callbacks of one GATT object come one after the other.
Callback(g, phase) == gatts[g].phase = phase /\ gatts[g].call = "none"

\* onConnectionStateChange, STATE_CONNECTED
GattConnected(g) ==
  LET m == gatts[g].mac IN
  /\ Callback(g, "connecting")
  /\ connecting' = connecting \ {m}
  /\ IF isRunning
       THEN /\ connections' = [connections EXCEPT ![m] = g]
            /\ gatts' = [gatts EXCEPT ![g].phase = "connected"]
       ELSE /\ gatts' = [gatts EXCEPT ![g].phase = "closed"]
            /\ UNCHANGED connections
  /\ UNCHANGED <<scanVars, disconnectedAt, serverVars, lifeVars, blePeers,
                 raced, mixed>>

\* Mutant: Rust is not told.
CloseGattSilently(g) == gatts' = [gatts EXCEPT ![g].phase = "closed"]

CloseGatt(g) ==
  gatts' = [gatts EXCEPT ![g].phase = "closed", ![g].call = "disconnected"]

\* onConnectionStateChange, STATE_DISCONNECTED: a connection attempt fails, a
\* disconnect is done, or the link is lost.  The guard against a second callback
\* looks the address up, not the object.
GattDisconnected(g) ==
  LET m == gatts[g].mac IN
  /\ gatts[g].phase \notin {"lost", "closed"}
  /\ gatts[g].call = "none"
  /\ IF connections[m] = 0 /\ m \notin connecting
       THEN /\ gatts' = [gatts EXCEPT ![g].phase = "lost"]
            /\ UNCHANGED <<connections, connecting, disconnectedAt>>
       ELSE /\ CloseGatt(g)
            /\ connections' = [connections EXCEPT ![m] = 0]
            /\ connecting' = connecting \ {m}
            /\ disconnectedAt' = disconnectedAt \cup {m}
  /\ UNCHANGED <<scanVars, serverVars, lifeVars, blePeers, raced, mixed>>

Advance(g, from, to) ==
  /\ Callback(g, from)
  /\ gatts' = [gatts EXCEPT ![g].phase = to]
  /\ UNCHANGED <<scanVars, connecting, connections, disconnectedAt, serverVars,
                 lifeVars, blePeers, raced, mixed>>

\* onServicesDiscovered: without our service the object is told to disconnect.
ServicesDiscovered(g) ==
  Advance(g, "connected", "requestingMtu") \/ Advance(g, "connected", "leaving")

\* onMtuChanged
MtuChanged(g) ==
  \/ Advance(g, "requestingMtu", "subscribing")
  \/ Advance(g, "requestingMtu", "unsubscribed")

\* onDescriptorWrite: success makes the peer known, failure keeps the connection.
CccdWritten(g) ==
  \/ /\ Callback(g, "subscribing")
     /\ gatts' = [gatts EXCEPT ![g].phase = "ready", ![g].call = "connected"]
     /\ UNCHANGED <<scanVars, connecting, connections, disconnectedAt,
                    serverVars, lifeVars, blePeers, raced, mixed>>
  \/ Advance(g, "subscribing", "unsubscribed")

\* nativeBleConnected or nativeBleDisconnected at the end of a client callback
TellClient(g) ==
  /\ gatts[g].call # "none"
  /\ blePeers' = Told(blePeers, gatts[g].call, gatts[g].mac)
  /\ gatts' = [gatts EXCEPT ![g].call = "none"]
  /\ UNCHANGED <<scanVars, connecting, connections, disconnectedAt, serverVars,
                 lifeVars, raced, mixed>>

-----------------------------------------------------------------------------
(* The server role                                                         *)

\* onDescriptorWriteRequest, ENABLE_NOTIFICATION_VALUE
Subscribe(m) ==
  /\ serverOpen
  /\ m \notin serverSubscribers
  /\ serverCall[m] = "none"
  /\ serverSubscribers' = serverSubscribers \cup {m}
  /\ serverCall' = [serverCall EXCEPT ![m] = "connected"]
  /\ mixed' = IF IsClient(m) THEN mixed \cup {m} ELSE mixed
  /\ UNCHANGED <<scanVars, clientVars, serverOpen, lifeVars, blePeers, raced>>

\* DISABLE_NOTIFICATION_VALUE, or onConnectionStateChange of the server
Unsubscribe(m) ==
  /\ serverOpen
  /\ m \in serverSubscribers
  /\ serverCall[m] = "none"
  /\ serverSubscribers' = serverSubscribers \ {m}
  /\ serverCall' = [serverCall EXCEPT ![m] = "disconnected"]
  /\ UNCHANGED <<scanVars, clientVars, serverOpen, lifeVars, blePeers, raced,
                 mixed>>

\* nativeBleConnected or nativeBleDisconnected at the end of a server callback
TellServer(m) ==
  /\ serverCall[m] # "none"
  /\ blePeers' = Told(blePeers, serverCall[m], m)
  /\ serverCall' = [serverCall EXCEPT ![m] = "none"]
  /\ UNCHANGED <<scanVars, clientVars, serverOpen, serverSubscribers, lifeVars,
                 raced, mixed>>

-----------------------------------------------------------------------------
Next ==
  \/ Start
  \/ StopServer
  \/ StopClients
  \/ \E c \in stopCalls : StopCall(c[1], c[2])
  \/ InitNode
  \/ ScanFails
  \/ RestartScan
  \/ \E m \in Mac : ScanResult(m) \/ EndCooldown(m)
  \/ \E g \in DOMAIN gatts :
       \/ GattConnected(g) \/ GattDisconnected(g)
       \/ ServicesDiscovered(g) \/ MtuChanged(g) \/ CccdWritten(g)
       \/ TellClient(g)
  \/ \E m \in Mac : Subscribe(m) \/ Unsubscribe(m) \/ TellServer(m)

Spec == Init /\ [][Next]_vars

-----------------------------------------------------------------------------
(* Safety                                                                  *)

\* The role in which drainTxQueue sends a frame for m.
Route(m) ==
  IF m \in serverSubscribers THEN "notify"
  ELSE IF connections[m] # 0 /\ gatts[connections[m]].phase \in
            {"requestingMtu", "subscribing", "ready", "unsubscribed"}
    THEN "write"
    ELSE "drop"

\* No callback and no stop is under way.
Quiet ==
  ~stopping /\ stopCalls = {} /\ \A m \in Mac : ~InCallback(m)

\* A peer Rust sends to has a role that takes its frames: whatever the two roles
\* do and in whatever order their callbacks come, unless stop or init came into
\* one of them.
KnownPeersHaveRoute ==
  Quiet => \A m \in blePeers \ raced : Route(m) # "drop"

\* A peer whose setup is complete is known to Rust, if it had one role at a time.
ReadyPeersAreKnown ==
  Quiet =>
    \A m \in Mac \ (raced \cup mixed) :
      \/ m \in blePeers
      \/ m \notin serverSubscribers
         /\ \A g \in OpenGatts(m) : gatts[g].phase # "ready"

\* No GATT object is lost: each is closed, or is the one its address stands for
\* in connections or connecting, and a phone has at most one to a peer.
GattsAreOwned ==
  Quiet =>
    \A m \in Mac \ raced :
      \/ OpenGatts(m) = {} /\ connections[m] = 0 /\ m \notin connecting
      \/ \E g \in OpenGatts(m) :
           /\ OpenGatts(m) = {g}
           /\ IF gatts[g].phase = "connecting" THEN m \in connecting
                                               ELSE connections[m] = g
=============================================================================
