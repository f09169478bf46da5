------------------------------- MODULE IosBle -------------------------------
(***************************************************************************)
(* BLEManager.swift: the two BLE roles of an iPhone, its connections to    *)
(* RNodes, and the list of peers Rust keeps.                               *)
(*                                                                         *)
(* The central role has a serial queue, the server role another; the drain *)
(* and the delayed reconnections run on the main queue, start and stop on  *)
(* those of JavaScript.  Between the update of a map and the call into     *)
(* Rust another queue may run, so these are two steps; the rest of a       *)
(* callback is one, although the maps are not synchronised in the code.    *)
(* CoreBluetooth is external: it answers each request in either way, to    *)
(* the delegate of the peripheral if it has one, and may end a role.       *)
(***************************************************************************)
EXTENDS BlePeers, Naturals, FiniteSets

CONSTANT TxUpdateFailureThreshold

ASSUME IosBleAssumption == TxUpdateFailureThreshold \in Nat \ {0}

VARIABLES
  rnodes,                    \* the devices that are RNodes; never changes
  bleRunning,                \* isRunning
  late,                      \* stop left a callback in a queue
  toRestore,                 \* what willRestoreState will hand over
  connectedPeripherals, txCharacteristics, nusPeripherals,
  bondedPeripherals,         \* also in the defaults of the user, which persist
  discoveredUnpairedRNodes,
  delegates,                 \* peripherals that have a delegate
  link, setup,               \* how far CoreBluetooth and the setup are
  retries,                   \* posted reconnections
  clientCall,                \* the call into Rust a callback still has to make
  subscribedCentrals,        \* with addrToCentral
  txUpdateFailures,
  subscribers,               \* centrals CoreBluetooth has subscribed
  centralCall,               \* the call into Rust a callback still has to make
  rustPeers,                 \* ble_peers of ble_iface.rs
  overtaken,                 \* history: devices in use when start replaced the
                             \* managers, subscribed when stop came or after it,
                             \* or in use when init came
  dual,                      \* history: devices that had both roles at a time
  revived                    \* history: connections made by a posted reconnection
                             \* or found by the restoration

peripheralVars == <<connectedPeripherals, txCharacteristics, nusPeripherals,
                 delegates, link, setup, clientCall>>
pairVars == <<bondedPeripherals, discoveredUnpairedRNodes, retries>>
centralVars == <<subscribedCentrals, txUpdateFailures, subscribers, centralCall>>
managerVars == <<rnodes, bleRunning, late, toRestore>>
iosHistory == <<overtaken, dual, revived>>
iosVars == <<peripheralVars, pairVars, centralVars, managerVars, rustPeers, iosHistory>>

\* A link is "leaving" when its cancellation was asked for.
Link == {"none", "connecting", "connected", "leaving"}

\* The answer a connection waits for; "none" if nothing was asked, "unset" if an
\* answer ended the setup without success.
Waiting == {"services", "characteristics", "notification"}
Setup == Waiting \cup {"none", "unset", "ready"}

IosTypeOK ==
  /\ rnodes \subseteq Mac
  /\ bleRunning \in BOOLEAN /\ late \in BOOLEAN
  /\ toRestore \subseteq {p \in Mac : link[p] # "none"}
  /\ connectedPeripherals \subseteq Mac /\ txCharacteristics \subseteq Mac
  /\ nusPeripherals \subseteq rnodes /\ discoveredUnpairedRNodes \subseteq rnodes
  /\ bondedPeripherals \subseteq Mac /\ delegates \subseteq Mac
  /\ link \in [Mac -> Link] /\ setup \in [Mac -> Setup]
  /\ retries \subseteq Mac
  /\ clientCall \in [Mac -> Call] /\ centralCall \in [Mac -> Call]
  /\ subscribedCentrals \subseteq Mac \ rnodes
  /\ txUpdateFailures \in [Mac -> 0 .. TxUpdateFailureThreshold - 1]
  /\ subscribers \subseteq Mac \ rnodes
  /\ rustPeers \subseteq Mac \ rnodes
  /\ overtaken \subseteq Mac /\ dual \subseteq Mac /\ revived \subseteq Mac

IosInit ==
  /\ rnodes \in SUBSET Mac
  /\ bleRunning = FALSE /\ late = FALSE /\ toRestore = {}
  /\ connectedPeripherals = {} /\ txCharacteristics = {} /\ nusPeripherals = {}
  /\ bondedPeripherals = {} /\ discoveredUnpairedRNodes = {} /\ delegates = {}
  /\ link = [p \in Mac |-> "none"] /\ setup = [p \in Mac |-> "none"]
  /\ retries = {}
  /\ clientCall = [p \in Mac |-> "none"] /\ centralCall = [p \in Mac |-> "none"]
  /\ subscribedCentrals = {} /\ subscribers = {}
  /\ txUpdateFailures = [p \in Mac |-> 0]
  /\ rustPeers = {}
  /\ overtaken = {} /\ dual = {} /\ revived = {}

\* No callback of the central role is under way.
CentralQueueIdle == \A p \in Mac : clientCall[p] = "none"

InIosCallback(p) == clientCall[p] # "none" \/ centralCall[p] # "none"

HasClientRole(p) == link[p] # "none" \/ clientCall[p] # "none"
HasServerRole(p) == p \in subscribers \cup subscribedCentrals \/ centralCall[p] # "none"

-----------------------------------------------------------------------------
(* start, stop, init and the death of the process                          *)

\* start makes new managers; those it replaces lose their connections and give
\* no callback any more.  A callback under way is over by then.
StartManagers ==
  /\ ~bleRunning
  /\ \A p \in Mac : ~InIosCallback(p)
  /\ bleRunning' = TRUE /\ late' = FALSE
  /\ discoveredUnpairedRNodes' = {}
  /\ retries' = {}
  /\ link' = [p \in Mac |-> IF p \in toRestore THEN link[p] ELSE "none"]
  /\ setup' = [p \in Mac |-> "none"]
  /\ delegates' = {} /\ subscribers' = {}
  /\ overtaken' = overtaken \cup {p \in Mac \ toRestore : link[p] # "none"}
  /\ UNCHANGED <<rnodes, toRestore, connectedPeripherals, txCharacteristics,
                 nusPeripherals, bondedPeripherals, clientCall,
                 subscribedCentrals, txUpdateFailures, centralCall, rustPeers, dual,
                 revived>>

\* willRestoreState, before any other callback
WillRestoreState ==
  /\ bleRunning /\ toRestore # {}
  /\ toRestore' = {}
  /\ connectedPeripherals' = connectedPeripherals \cup toRestore
  /\ delegates' = delegates \cup toRestore
  /\ revived' = revived \cup {p \in toRestore : link[p] = "connected"}
  /\ UNCHANGED <<rnodes, bleRunning, late, txCharacteristics, nusPeripherals, link,
                 setup, clientCall, pairVars, centralVars, rustPeers, overtaken, dual>>

\* stop.  Rust is told of nobody: the callbacks of the cancelled connections do.
StopManagers ==
  LET held == connectedPeripherals \cup nusPeripherals IN
  /\ bleRunning /\ toRestore = {}
  /\ bleRunning' = FALSE /\ late' = TRUE
  /\ delegates' = delegates \ held
  /\ link' = [p \in Mac |-> IF p \in held /\ link[p] # "none" THEN "leaving" ELSE link[p]]
  /\ connectedPeripherals' = {} /\ txCharacteristics' = {} /\ nusPeripherals' = {}
  /\ discoveredUnpairedRNodes' = {}
  /\ subscribedCentrals' = {}
  /\ overtaken' = overtaken \cup subscribedCentrals
  /\ UNCHANGED <<rnodes, toRestore, setup, clientCall, bondedPeripherals, retries,
                 txUpdateFailures, subscribers, centralCall, rustPeers, dual, revived>>

\* A remounted hook calls init, which clears the list of peers.
ClearRustPeers ==
  /\ rustPeers' = {}
  /\ overtaken' = overtaken \cup {p \in Mac : HasClientRole(p) \/ HasServerRole(p)}
  /\ UNCHANGED <<peripheralVars, pairVars, centralVars, managerVars, dual, revived>>

\* The process dies.  What it persists is left, and of its connections those iOS
\* keeps for it.
Die ==
  \E kept \in SUBSET {p \in Mac : link[p] \in {"connecting", "connected"}} :
    /\ toRestore' = kept
    /\ link' = [p \in Mac |-> IF p \in kept THEN link[p] ELSE "none"]
    /\ setup' = [p \in Mac |-> "none"]
    /\ bleRunning' = FALSE /\ late' = FALSE
    /\ connectedPeripherals' = {} /\ txCharacteristics' = {} /\ nusPeripherals' = {}
    /\ discoveredUnpairedRNodes' = {} /\ delegates' = {} /\ retries' = {}
    /\ clientCall' = [p \in Mac |-> "none"] /\ centralCall' = [p \in Mac |-> "none"]
    /\ subscribedCentrals' = {} /\ subscribers' = {}
    /\ txUpdateFailures' = [p \in Mac |-> 0]
    /\ rustPeers' = {} /\ overtaken' = {} /\ dual' = {} /\ revived' = {}
    /\ UNCHANGED <<rnodes, bondedPeripherals>>

-----------------------------------------------------------------------------
(* The central role                                                        *)

\* central.connect; a second request for a link changes nothing.
Connect(p) == link' = [link EXCEPT ![p] = IF @ = "none" THEN "connecting" ELSE @]

\* Mutant: the delegate is not set.
AdoptDeaf(p) ==
  /\ connectedPeripherals' = connectedPeripherals \cup {p}
  /\ revived' = revived \ {p}
  /\ dual' = IF HasServerRole(p) THEN dual \cup {p} ELSE dual
  /\ UNCHANGED delegates

Adopt(p) ==
  /\ connectedPeripherals' = connectedPeripherals \cup {p}
  /\ delegates' = delegates \cup {p}
  /\ revived' = revived \ {p}
  /\ dual' = IF HasServerRole(p) THEN dual \cup {p} ELSE dual

\* didDiscover.  One left in the queue comes after stop: it asks for nothing but
\* the map.
DidDiscover(p) ==
  /\ bleRunning \/ late
  /\ toRestore = {} /\ CentralQueueIdle
  /\ p \notin connectedPeripherals
  /\ late' = FALSE
  /\ IF p \in rnodes /\ p \notin bondedPeripherals
       THEN /\ discoveredUnpairedRNodes' = discoveredUnpairedRNodes \cup {p}
            /\ UNCHANGED <<connectedPeripherals, delegates, link, revived, dual>>
       ELSE /\ Adopt(p) /\ Connect(p)
            /\ UNCHANGED discoveredUnpairedRNodes
  /\ UNCHANGED <<rnodes, bleRunning, toRestore, txCharacteristics, nusPeripherals,
                 setup, clientCall, bondedPeripherals, retries, centralVars, rustPeers,
                 overtaken>>

\* connectRNode
ConnectRNode(p) ==
  /\ p \in discoveredUnpairedRNodes
  /\ p \notin connectedPeripherals
  /\ Adopt(p) /\ Connect(p)
  /\ UNCHANGED <<managerVars, txCharacteristics, nusPeripherals, setup, clientCall,
                 pairVars, centralVars, rustPeers, overtaken>>

\* disconnectRNode: the entry in connectedPeripherals stays for the callback.
DisconnectRNode(p) ==
  /\ p \in nusPeripherals
  /\ bondedPeripherals' = bondedPeripherals \ {p}
  /\ link' = [link EXCEPT ![p] = IF @ = "none" THEN @ ELSE "leaving"]
  /\ nusPeripherals' = nusPeripherals \ {p}
  /\ txCharacteristics' = txCharacteristics \ {p}
  /\ UNCHANGED <<managerVars, connectedPeripherals, delegates, setup, clientCall,
                 discoveredUnpairedRNodes, retries, centralVars, rustPeers, iosHistory>>

\* didConnect
DidConnect(p) ==
  /\ link[p] = "connecting" /\ toRestore = {} /\ CentralQueueIdle
  /\ link' = [link EXCEPT ![p] = "connected"]
  /\ setup' = [setup EXCEPT ![p] = "services"]
  /\ connectedPeripherals' = connectedPeripherals \cup {p}
  /\ UNCHANGED <<managerVars, txCharacteristics, nusPeripherals, delegates,
                 clientCall, pairVars, centralVars, rustPeers, iosHistory>>

\* A bonded device is connected again after 2 s.
Retried(p) == IF bleRunning /\ p \in bondedPeripherals THEN retries \cup {p} ELSE retries

\* didFailToConnect
DidFailToConnect(p) ==
  /\ link[p] = "connecting" /\ toRestore = {} /\ CentralQueueIdle
  /\ link' = [link EXCEPT ![p] = "none"]
  /\ connectedPeripherals' = connectedPeripherals \ {p}
  /\ retries' = Retried(p)
  /\ UNCHANGED <<managerVars, txCharacteristics, nusPeripherals, delegates, setup,
                 clientCall, bondedPeripherals, discoveredUnpairedRNodes,
                 centralVars, rustPeers, iosHistory>>

\* didDisconnectPeripheral, up to the call into Rust.  The peripheral has no
\* delegate any more.  What is not in nusPeripherals is taken for a phone.
DidDisconnect(p) ==
  /\ link[p] \in {"connected", "leaving"} /\ toRestore = {} /\ CentralQueueIdle
  /\ link' = [link EXCEPT ![p] = "none"]
  /\ setup' = [setup EXCEPT ![p] = "none"]
  /\ delegates' = delegates \ {p}
  /\ connectedPeripherals' = connectedPeripherals \ {p}
  /\ IF p \in nusPeripherals
       THEN /\ nusPeripherals' = nusPeripherals \ {p}
            /\ txCharacteristics' = txCharacteristics \ {p}
            /\ retries' = Retried(p)
            /\ UNCHANGED clientCall
       ELSE /\ clientCall' = [clientCall EXCEPT ![p] = "disconnected"]
            /\ UNCHANGED <<nusPeripherals, txCharacteristics, retries>>
  /\ UNCHANGED <<managerVars, bondedPeripherals, discoveredUnpairedRNodes,
                 centralVars, rustPeers, iosHistory>>

\* The reconnection didDisconnectPeripheral or didFailToConnect posted.  It sets
\* no delegate.
RetryConnect(p) ==
  /\ p \in retries
  /\ retries' = retries \ {p}
  /\ IF bleRunning /\ link[p] = "none"
       THEN /\ Connect(p)
            /\ revived' = IF p \in delegates THEN revived ELSE revived \cup {p}
            /\ dual' = IF HasServerRole(p) THEN dual \cup {p} ELSE dual
       ELSE UNCHANGED <<link, revived, dual>>
  /\ UNCHANGED <<managerVars, connectedPeripherals, txCharacteristics,
                 nusPeripherals, delegates, setup, clientCall, bondedPeripherals,
                 discoveredUnpairedRNodes, centralVars, rustPeers, overtaken>>

\* The delegate of a connection gets the answer it waits for.
Answer(p, asked) ==
  /\ link[p] = "connected" /\ setup[p] = asked
  /\ p \in delegates
  /\ CentralQueueIdle

\* The answer ends the setup: no service or no characteristic was found, or the
\* notifications are off.
EndSetup(p) ==
  /\ \E asked \in Waiting : Answer(p, asked)
  /\ setup' = [setup EXCEPT ![p] = "unset"]
  /\ UNCHANGED <<managerVars, connectedPeripherals, txCharacteristics,
                 nusPeripherals, delegates, link, clientCall, pairVars, centralVars,
                 rustPeers, iosHistory>>

\* didDiscoverServices
DidDiscoverServices(p) ==
  /\ Answer(p, "services")
  /\ setup' = [setup EXCEPT ![p] = "characteristics"]
  /\ UNCHANGED <<managerVars, connectedPeripherals, txCharacteristics,
                 nusPeripherals, delegates, link, clientCall, pairVars, centralVars,
                 rustPeers, iosHistory>>

\* didDiscoverCharacteristicsFor: an RNode is ready, a phone when it notifies.
DidDiscoverCharacteristics(p) ==
  /\ Answer(p, "characteristics")
  /\ bondedPeripherals' = bondedPeripherals \cup {p}
  /\ txCharacteristics' = txCharacteristics \cup {p}
  /\ IF p \in rnodes
       THEN /\ nusPeripherals' = nusPeripherals \cup {p}
            /\ discoveredUnpairedRNodes' = discoveredUnpairedRNodes \ {p}
            /\ setup' = [setup EXCEPT ![p] = "ready"]
       ELSE /\ setup' = [setup EXCEPT ![p] = "notification"]
            /\ UNCHANGED <<nusPeripherals, discoveredUnpairedRNodes>>
  /\ UNCHANGED <<managerVars, connectedPeripherals, delegates, link, clientCall,
                 retries, centralVars, rustPeers, iosHistory>>

\* didUpdateNotificationStateFor: an error cancels the connection.
DidUpdateNotificationState(p) ==
  /\ Answer(p, "notification")
  /\ \/ /\ setup' = [setup EXCEPT ![p] = "ready"]
        /\ clientCall' = [clientCall EXCEPT ![p] = "connected"]
        /\ UNCHANGED link
     \/ /\ setup' = [setup EXCEPT ![p] = "unset"]
        /\ link' = [link EXCEPT ![p] = "leaving"]
        /\ UNCHANGED clientCall
  /\ UNCHANGED <<managerVars, connectedPeripherals, txCharacteristics,
                 nusPeripherals, delegates, pairVars, centralVars, rustPeers,
                 iosHistory>>

\* lxmf_ble_connected or lxmf_ble_disconnected, and what a callback does behind it
EndClientCallback(p) ==
  /\ clientCall[p] # "none"
  /\ clientCall' = [clientCall EXCEPT ![p] = "none"]
  /\ rustPeers' = Told(rustPeers, clientCall[p], p)
  /\ IF clientCall[p] = "disconnected"
       THEN /\ txCharacteristics' = txCharacteristics \ {p}
            /\ retries' = Retried(p)
       ELSE UNCHANGED <<txCharacteristics, retries>>
  /\ UNCHANGED <<managerVars, connectedPeripherals, nusPeripherals, delegates, link,
                 setup, bondedPeripherals, discoveredUnpairedRNodes, centralVars,
                 iosHistory>>

-----------------------------------------------------------------------------
(* The server role                                                         *)

\* didSubscribeTo; one left in the queue comes after stop.
DidSubscribe(p) ==
  /\ bleRunning \/ late
  /\ p \notin subscribers \cup rnodes
  /\ centralCall[p] = "none"
  /\ late' = FALSE
  /\ overtaken' = IF late THEN overtaken \cup {p} ELSE overtaken
  /\ subscribers' = subscribers \cup {p}
  /\ IF p \in subscribedCentrals
       THEN UNCHANGED <<subscribedCentrals, txUpdateFailures, centralCall>>
       ELSE /\ subscribedCentrals' = subscribedCentrals \cup {p}
            /\ txUpdateFailures' = [txUpdateFailures EXCEPT ![p] = 0]
            /\ centralCall' = [centralCall EXCEPT ![p] = "connected"]
  /\ dual' = IF HasClientRole(p) THEN dual \cup {p} ELSE dual
  /\ UNCHANGED <<rnodes, bleRunning, toRestore, peripheralVars, pairVars, rustPeers,
                 revived>>

\* didUnsubscribeFrom
DidUnsubscribe(p) ==
  /\ p \in subscribers
  /\ centralCall[p] = "none"
  /\ subscribers' = subscribers \ {p}
  /\ subscribedCentrals' = subscribedCentrals \ {p}
  /\ txUpdateFailures' = [txUpdateFailures EXCEPT ![p] = 0]
  /\ centralCall' = [centralCall EXCEPT ![p] = "disconnected"]
  /\ UNCHANGED <<managerVars, peripheralVars, pairVars, rustPeers, iosHistory>>

\* lxmf_ble_connected or lxmf_ble_disconnected at the end of a server callback
EndServerCallback(p) ==
  /\ centralCall[p] # "none"
  /\ centralCall' = [centralCall EXCEPT ![p] = "none"]
  /\ rustPeers' = Told(rustPeers, centralCall[p], p)
  /\ UNCHANGED <<subscribedCentrals, txUpdateFailures, subscribers, managerVars,
                 peripheralVars, pairVars, iosHistory>>

\* sendToPeerAddr to a central: updateValue takes the frame,
Notified(p) ==
  /\ p \in rustPeers \cap subscribedCentrals
  /\ txUpdateFailures' = [txUpdateFailures EXCEPT ![p] = 0]
  /\ UNCHANGED <<subscribedCentrals, subscribers, centralCall, managerVars,
                 peripheralVars, pairVars, rustPeers, iosHistory>>

\* Mutant: Rust is not told.
DropSilently(p) ==
  /\ txUpdateFailures' = [txUpdateFailures EXCEPT ![p] = 0]
  /\ subscribedCentrals' = subscribedCentrals \ {p}
  /\ UNCHANGED rustPeers

\* Mutant: the list of centrals keeps it.
DropForRustOnly(p) ==
  /\ txUpdateFailures' = [txUpdateFailures EXCEPT ![p] = 0]
  /\ rustPeers' = rustPeers \ {p}
  /\ UNCHANGED subscribedCentrals

DropCentral(p) ==
  /\ txUpdateFailures' = [txUpdateFailures EXCEPT ![p] = 0]
  /\ subscribedCentrals' = subscribedCentrals \ {p}
  /\ rustPeers' = rustPeers \ {p}

\* or refuses it; a central that refused too often in a row is no peer any more,
\* whether or not it still is subscribed.  A refusal ends the drain until the next
\* poll, so that a callback does not last over them.
NotifyRefused(p) ==
  /\ p \in rustPeers \cap subscribedCentrals
  /\ centralCall[p] = "none"
  /\ IF txUpdateFailures[p] + 1 < TxUpdateFailureThreshold
       THEN /\ txUpdateFailures' = [txUpdateFailures EXCEPT ![p] = @ + 1]
            /\ UNCHANGED <<subscribedCentrals, rustPeers>>
       ELSE DropCentral(p)
  /\ UNCHANGED <<subscribers, centralCall, managerVars, peripheralVars, pairVars,
                 iosHistory>>

-----------------------------------------------------------------------------
IosNext ==
  \/ StartManagers \/ WillRestoreState \/ StopManagers \/ ClearRustPeers \/ Die
  \/ \E p \in Mac :
       \/ DidDiscover(p) \/ ConnectRNode(p) \/ DisconnectRNode(p)
       \/ DidConnect(p) \/ DidFailToConnect(p) \/ DidDisconnect(p)
       \/ RetryConnect(p)
       \/ DidDiscoverServices(p) \/ DidDiscoverCharacteristics(p)
       \/ DidUpdateNotificationState(p) \/ EndSetup(p) \/ EndClientCallback(p)
       \/ DidSubscribe(p) \/ DidUnsubscribe(p) \/ EndServerCallback(p)
       \/ Notified(p) \/ NotifyRefused(p)

IosSpec == IosInit /\ [][IosNext]_iosVars

-----------------------------------------------------------------------------
(* Safety                                                                  *)

\* The role in which a frame sendToPeerAddr takes for p gets out.
IosRoute(p) ==
  IF p \in subscribedCentrals
    THEN IF p \in subscribers THEN "notify" ELSE "lost"
  ELSE IF p \in connectedPeripherals \cap txCharacteristics
    THEN IF link[p] = "connected" THEN "write" ELSE "lost"
  ELSE "drop"

\* Nothing about p is under way.
Settled(p) == ~InIosCallback(p) /\ link[p] # "leaving"

\* A peer Rust sends to has a role that takes its frames, whatever the two queues
\* and the drain do, unless stop, start or init came into a role of its own.
IosKnownPeersHaveRoute ==
  \A p \in rustPeers \ overtaken : Settled(p) => IosRoute(p) \in {"notify", "write"}

\* A peer whose setup is complete is known to Rust, if it had one role at a time.
IosReadyPeersAreKnown ==
  \A p \in Mac \ (rnodes \cup overtaken \cup dual) :
    Settled(p) /\ (setup[p] = "ready" \/ p \in subscribedCentrals) => p \in rustPeers

\* didDiscover leaves a device alone that has an entry.  So an entry stands for a
\* link that comes to something: the answer it waits for has a delegate to go to.
\* Not so the connections nobody found: those made by a posted reconnection, and
\* those the restoration found complete.
EntriesComeToSomething ==
  \A p \in (connectedPeripherals \cup nusPeripherals) \ (overtaken \cup revived) :
    /\ link[p] # "none"
    /\ link[p] = "connected" => setup[p] # "none"
    /\ link[p] # "leaving" /\ setup[p] \in Waiting => p \in delegates
=============================================================================
