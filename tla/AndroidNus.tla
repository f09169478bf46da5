----------------------------- MODULE AndroidNus -----------------------------
(***************************************************************************)
(* The connections of NusManager.kt to RNodes, LoRa modems that speak the  *)
(* Nordic UART Service.  A bonded RNode is connected when the scan finds   *)
(* it, when it is bonded or paired, and 3 s after its connection ended.    *)
(*                                                                         *)
(* Scan, bond receiver and reconnection run on the main thread, callbacks  *)
(* of GATT objects on binder threads, stop and pairing on the queue of the *)
(* module.  Each is one step here.  The stack and the radio are external.  *)
(***************************************************************************)
EXTENDS Naturals, Sequences, FiniteSets

CONSTANTS
  RNode,    \* addresses of RNodes
  Budgets   \* bounds of the model, one of them in a run: calls of connectGatt,
            \* stop and unpairRNode, scans the stack gives up, stops of the node,
            \* notifications sent, and those that nobody takes

BoundedKind == {"gatts", "stops", "unpairs", "scanFails", "ifaceStops", "notified", "missed"}

ASSUME BudgetsAssumption == Budgets \subseteq [BoundedKind -> Nat]

VARIABLES
  isRunning, isScanning,
  scanRestart,   \* a restart of the scan is posted
  bonded,        \* RNodes the OS is paired with
  connecting,    \* addresses of pending connectGatt calls
  connections,   \* the GATT object of each address; 0 if it has none
  txChars,       \* addresses whose TX characteristic is known
  reconnects,    \* addresses whose reconnection is posted
  gatts,         \* every GATT object: its address and how far it is
  budget,        \* what is left of the bounds
  raced          \* history: addresses a stop found connecting

scanVars == <<isScanning, scanRestart>>
gattVars == <<connecting, connections, txChars, reconnects, gatts>>
lifeVars == <<isRunning, bonded, raced>>
nusVars == <<scanVars, gattVars, lifeVars>>

Spend(kind) == budget[kind] > 0 /\ budget' = [budget EXCEPT ![kind] = @ - 1]

\* A GATT object "leaving" was told to disconnect; a "lost" one is disconnected
\* and was not closed.
Phase == {"connecting", "connected", "discovering", "subscribing", "ready", "leaving",
          "lost", "closed"}

OpenGatts(m) ==
  {g \in DOMAIN gatts : gatts[g].rnode = m /\ gatts[g].phase \notin {"lost", "closed"}}

NusTypeOK ==
  /\ isRunning \in BOOLEAN /\ isScanning \in BOOLEAN /\ scanRestart \in BOOLEAN
  /\ bonded \subseteq RNode
  /\ gatts \in Seq([rnode : RNode, phase : Phase])
  /\ connections \in [RNode -> 0 .. Len(gatts)]
  /\ connecting \subseteq RNode
  /\ txChars \subseteq RNode
  /\ reconnects \subseteq RNode
  /\ budget \in [BoundedKind -> Nat]
  /\ raced \subseteq RNode

NusInit ==
  /\ isRunning = FALSE /\ isScanning = FALSE /\ scanRestart = FALSE
  /\ bonded = RNode
  /\ connecting = {}
  /\ connections = [m \in RNode |-> 0]
  /\ txChars = {} /\ reconnects = {}
  /\ gatts = <<>>
  /\ budget \in Budgets
  /\ raced = {}

-----------------------------------------------------------------------------
(* start, stop and the scan                                                *)

Start ==
  /\ ~isRunning
  /\ isRunning' = TRUE
  /\ isScanning' = TRUE
  /\ UNCHANGED <<scanRestart, gattVars, bonded, budget, raced>>

\* stop disconnects and closes what it finds in connections.
Stop ==
  /\ Spend("stops")
  /\ isRunning' = FALSE
  /\ isScanning' = FALSE
  /\ gatts' = [g \in DOMAIN gatts |->
       IF connections[gatts[g].rnode] = g THEN [gatts[g] EXCEPT !.phase = "closed"] ELSE gatts[g]]
  /\ connections' = [m \in RNode |-> 0]
  /\ txChars' = {} /\ connecting' = {}
  /\ raced' = raced \cup connecting
  /\ UNCHANGED <<scanRestart, reconnects, bonded>>

\* onScanFailed posts a restart after 30 s, which does not ask isRunning; nor
\* does a result of the scan.
ScanFails ==
  /\ isScanning
  /\ Spend("scanFails")
  /\ isScanning' = FALSE
  /\ scanRestart' = TRUE
  /\ UNCHANGED <<gattVars, lifeVars>>

RestartScan ==
  /\ scanRestart
  /\ scanRestart' = FALSE
  /\ isScanning' = TRUE
  /\ UNCHANGED <<gattVars, lifeVars, budget>>

-----------------------------------------------------------------------------
(* The ways to a connection                                                *)

\* Mutant: the addresses being connected are not asked for.
MayConnectTwice(m) == connections[m] = 0

MayConnect(m) == connections[m] = 0 /\ m \notin connecting

Connect(m) ==
  /\ MayConnect(m)
  /\ m \in bonded
  /\ Spend("gatts")
  /\ connecting' = connecting \cup {m}
  /\ gatts' = Append(gatts, [rnode |-> m, phase |-> "connecting"])
  /\ UNCHANGED <<connections, txChars>>

ScanResult(m) ==
  /\ isScanning
  /\ Connect(m)
  /\ UNCHANGED <<reconnects, scanVars, lifeVars>>

\* pairRNode of a bonded RNode, running or not
PairBonded(m) ==
  /\ Connect(m)
  /\ UNCHANGED <<reconnects, scanVars, lifeVars>>

\* Pairing ends: the bond receiver, registered while the manager runs, connects.
Bond(m) ==
  /\ m \notin bonded
  /\ bonded' = bonded \cup {m}
  /\ IF isRunning /\ MayConnect(m)
       THEN /\ Spend("gatts")
            /\ connecting' = connecting \cup {m}
            /\ gatts' = Append(gatts, [rnode |-> m, phase |-> "connecting"])
       ELSE UNCHANGED <<connecting, gatts, budget>>
  /\ UNCHANGED <<connections, txChars, reconnects, scanVars, isRunning, raced>>

\* The runnable that onConnectionStateChange posted
Reconnect(m) ==
  /\ m \in reconnects
  /\ reconnects' = reconnects \ {m}
  /\ IF isRunning /\ MayConnect(m)
       THEN /\ Spend("gatts")
            /\ connecting' = connecting \cup {m}
            /\ gatts' = Append(gatts, [rnode |-> m, phase |-> "connecting"])
       ELSE UNCHANGED <<connecting, gatts, budget>>
  /\ UNCHANGED <<connections, txChars, scanVars, lifeVars>>

UnpairRNode(m) ==
  /\ connections[m] # 0
  /\ Spend("unpairs")
  /\ bonded' = bonded \ {m}
  /\ gatts' = [gatts EXCEPT ![connections[m]].phase = "leaving"]
  /\ UNCHANGED <<connecting, connections, txChars, reconnects, scanVars,
                 isRunning, raced>>

-----------------------------------------------------------------------------
(* The callbacks of a GATT object                                          *)

\* STATE_CONNECTED, whether the manager runs or not
GattConnected(g) ==
  LET m == gatts[g].rnode IN
  /\ gatts[g].phase = "connecting"
  /\ gatts' = [gatts EXCEPT ![g].phase = "connected"]
  /\ connections' = [connections EXCEPT ![m] = g]
  /\ connecting' = connecting \ {m}
  /\ UNCHANGED <<txChars, reconnects, scanVars, lifeVars, budget>>

Advance(g, from, to) ==
  /\ gatts[g].phase = from
  /\ gatts' = [gatts EXCEPT ![g].phase = to]
  /\ UNCHANGED <<connecting, connections, reconnects, scanVars, lifeVars, budget>>

\* onMtuChanged goes on whatever the outcome.
MtuChanged(g) == Advance(g, "connected", "discovering") /\ UNCHANGED txChars

\* onServicesDiscovered: both characteristics, or the connection is given up.
ServicesDiscovered(g) ==
  \/ /\ Advance(g, "discovering", "subscribing")
     /\ txChars' = txChars \cup {gatts[g].rnode}
  \/ Advance(g, "discovering", "leaving") /\ UNCHANGED txChars

DescriptorWritten(g) ==
  /\ \/ Advance(g, "subscribing", "ready")
     \/ Advance(g, "subscribing", "leaving")
  /\ UNCHANGED txChars

\* STATE_DISCONNECTED.  The guard asks for the address, not for the object.
GattDisconnected(g) ==
  LET m == gatts[g].rnode IN
  /\ g \in OpenGatts(m)
  /\ IF connections[m] = 0 /\ m \notin connecting
       THEN /\ gatts' = [gatts EXCEPT ![g].phase = "lost"]
            /\ UNCHANGED <<connecting, connections, txChars, reconnects>>
       ELSE /\ gatts' = [gatts EXCEPT ![g].phase = "closed"]
            /\ connections' = [connections EXCEPT ![m] = 0]
            /\ connecting' = connecting \ {m}
            /\ txChars' = txChars \ {m}
            /\ reconnects' = IF isRunning /\ m \in bonded THEN reconnects \cup {m} ELSE reconnects
  /\ UNCHANGED <<scanVars, lifeVars, budget>>

NusNext ==
  \/ Start
  \/ Stop
  \/ ScanFails
  \/ RestartScan
  \/ \E m \in RNode :
       ScanResult(m) \/ PairBonded(m) \/ Bond(m) \/ Reconnect(m) \/ UnpairRNode(m)
  \/ \E g \in DOMAIN gatts :
       \/ GattConnected(g) \/ MtuChanged(g) \/ ServicesDiscovered(g)
       \/ DescriptorWritten(g) \/ GattDisconnected(g)

-----------------------------------------------------------------------------

\* An RNode has at most one open GATT object, the one its address stands for:
\* two would hand every notification to Rust twice.  A stop that came while it
\* was connecting is the exception.
OnePipePerRNode ==
  \A m \in RNode \ raced :
    \A g \in OpenGatts(m) :
      /\ OpenGatts(m) = {g}
      /\ IF gatts[g].phase = "connecting" THEN m \in connecting ELSE connections[m] = g
=============================================================================
