-------------------------- MODULE BleManagersProofs --------------------------
(***************************************************************************)
(* Proofs about the BLE managers of both platforms: the safety properties  *)
(* of AndroidBle for any set of phones and any bounds, and those of IosBle *)
(* for any set of devices and any threshold.                               *)
(*                                                                         *)
(* The properties speak of moments at which no callback and no stop is     *)
(* under way.  The inductive invariant of each manager says what holds in  *)
(* between.  On Android: which object an address owns while stop reports   *)
(* it (Owned), what is still to be told to Rust about a peer that lost its *)
(* route (Known, Routed), and why a report about one object cannot hit the *)
(* next one of the same address (CooldownCovers).  On iOS: how far link    *)
(* and setup of a device may be apart (Linked), which report to Rust is    *)
(* still to come (Reported, IosKnown), and to whom an answer goes (Heard). *)
(***************************************************************************)
EXTENDS AndroidBle, IosBle, TLAPS

-----------------------------------------------------------------------------
(* Android                                                                 *)

\* What stop does, in its two halves, and what is off until it is done.
StopOrder ==
  /\ isRunning => ~stopping /\ stopCalls = {}
  /\ stopping => \A c \in stopCalls : c[2] = 0
  /\ ~stopping => \A c \in stopCalls :
       /\ c[2] \in DOMAIN gatts /\ gatts[c[2]].mac = c[1]
       /\ c[1] \notin raced => c[2] \in OpenGatts(c[1])
       /\ connecting = {} /\ \A m \in Mac : connections[m] = 0
       /\ ~serverOpen /\ serverSubscribers \subseteq raced

\* An object that stands for an address is one of that address.
OwnMac == \A m \in Mac : connections[m] # 0 => gatts[connections[m]].mac = m

\* GattsAreOwned in between: stop may have taken the object out of the map and
\* not have closed it yet.
Held(m, g) == connections[m] = g \/ <<m, g>> \in stopCalls

Owned ==
  \A m \in Mac \ raced :
    \/ OpenGatts(m) = {} /\ connections[m] = 0 /\ m \notin connecting
    \/ \E g \in OpenGatts(m) :
         /\ OpenGatts(m) = {g}
         /\ IF gatts[g].phase = "connecting" THEN m \in connecting ELSE Held(m, g)

\* A report that a peer is connected is still true when it is made.
ReportIsTrue ==
  /\ \A g \in DOMAIN gatts :
       gatts[g].call = "connected" /\ gatts[g].mac \notin raced =>
         gatts[g].phase = "ready" /\ Held(gatts[g].mac, g)
  /\ \A m \in Mac \ raced : serverCall[m] = "connected" => m \in serverSubscribers
  /\ \A m \in Mac : serverCall[m] = "disconnected" => m \notin serverSubscribers

\* While a client callback has a disconnection to report, no other object of its
\* address exists: the cooldown goes on.
CooldownCovers ==
  \A g \in DOMAIN gatts :
    gatts[g].call = "disconnected" /\ gatts[g].mac \notin raced =>
      OpenGatts(gatts[g].mac) = {} /\ gatts[g].mac \in disconnectedAt

\* KnownPeersHaveRoute in between: or Rust is about to be told.
Routable == {"requestingMtu", "subscribing", "ready", "unsubscribed"}

Routed(m) ==
  \/ m \in serverSubscribers
  \/ connections[m] # 0 /\ gatts[connections[m]].phase \in Routable
  \/ serverCall[m] = "disconnected"
  \/ \E g \in DOMAIN gatts : gatts[g].mac = m /\ gatts[g].call = "disconnected"
  \/ \E g \in 0 .. MaxGatts : <<m, g>> \in stopCalls

Known == \A m \in blePeers \ raced : Routed(m)

\* One role at a time, also for what stop has to report.
OneRole ==
  \A m \in Mac \ mixed :
    /\ ~(IsServed(m) /\ IsClient(m))
    /\ <<m, 0>> \in stopCalls => OpenGatts(m) = {}

\* ReadyPeersAreKnown in between.
SetUpIsKnown ==
  \A m \in Mac \ (raced \cup mixed) :
    /\ m \in serverSubscribers => m \in blePeers \/ serverCall[m] = "connected" \/ stopping
    /\ \A g \in OpenGatts(m) :
         gatts[g].phase = "ready" => m \in blePeers \/ gatts[g].call = "connected"

\* The inductive invariant.
Between == /\ StopOrder /\ OwnMac /\ Owned
           /\ ReportIsTrue /\ CooldownCovers /\ Known /\ OneRole /\ SetUpIsKnown

IInv == TypeOK /\ Between

-----------------------------------------------------------------------------
(* Objects                                                                 *)

\* The objects are numbered from 1, and each is a Gatt.
LEMMA GattFacts ==
  ASSUME TypeOK
  PROVE  /\ Len(gatts) \in Nat /\ DOMAIN gatts = 1 .. Len(gatts) /\ Len(gatts) <= MaxGatts
         /\ \A g \in DOMAIN gatts :
              /\ gatts[g] \in Gatt /\ g # 0 /\ g \in 0 .. MaxGatts
              /\ gatts[g].mac \in Mac /\ gatts[g].phase \in Phase /\ gatts[g].call \in Call
         /\ \A m \in Mac : connections[m] # 0 => connections[m] \in DOMAIN gatts
         /\ \A m \in Mac : OpenGatts(m) \subseteq DOMAIN gatts
<1>1. gatts \in Seq(Gatt) /\ Len(gatts) <= MaxGatts /\ MaxGatts \in Nat
  BY AndroidBleBoundsAssumption DEF TypeOK
<1>2. \A g \in DOMAIN gatts : gatts[g] \in Gatt
  BY <1>1
<1>3. \A x \in Gatt : x.mac \in Mac /\ x.phase \in Phase /\ x.call \in Call
  BY DEF Gatt
<1>4. Len(gatts) \in Nat /\ DOMAIN gatts = 1 .. Len(gatts)
  BY <1>1
<1>5. \A m \in Mac : connections[m] # 0 => connections[m] \in DOMAIN gatts
  BY <1>4 DEF TypeOK
<1>6. \A m \in Mac : OpenGatts(m) \subseteq DOMAIN gatts
  BY DEF OpenGatts
<1>7. QED
  BY <1>1, <1>2, <1>3, <1>4, <1>5, <1>6

\* The object g gets the phase p and the call c, and the others stay.
Changed(g, p, c) ==
  /\ gatts' \in Seq(Gatt) /\ Len(gatts') = Len(gatts) /\ DOMAIN gatts' = DOMAIN gatts
  /\ gatts'[g].mac = gatts[g].mac /\ gatts'[g].phase = p /\ gatts'[g].call = c
  /\ \A h \in DOMAIN gatts \ {g} : gatts'[h] = gatts[h]

\* The callbacks write an object as a whole, or one or two of its fields.
LEMMA ChangeOne ==
  ASSUME TypeOK, NEW g \in DOMAIN gatts, NEW x \in Gatt, x.mac = gatts[g].mac,
         gatts' = [gatts EXCEPT ![g] = x]
  PROVE  Changed(g, x.phase, x.call)
<1>1. gatts \in Seq(Gatt) /\ Len(gatts) \in Nat /\ DOMAIN gatts = 1 .. Len(gatts)
  BY DEF TypeOK
<1>2. gatts' \in Seq(Gatt) /\ Len(gatts') = Len(gatts) /\ DOMAIN gatts' = DOMAIN gatts
  BY <1>1
<1>3. gatts'[g] = x /\ \A h \in DOMAIN gatts \ {g} : gatts'[h] = gatts[h]
  BY <1>1
<1>4. QED
  BY <1>2, <1>3 DEF Changed

\* A write of the phase.
LEMMA ChangePhase ==
  ASSUME TypeOK, NEW g \in DOMAIN gatts, NEW p \in Phase,
         gatts' = [gatts EXCEPT ![g].phase = p]
  PROVE  Changed(g, p, gatts[g].call)
<1> DEFINE x == [gatts[g] EXCEPT !.phase = p]
<1>1. x \in Gatt /\ x.mac = gatts[g].mac /\ x.phase = p /\ x.call = gatts[g].call
  BY GattFacts DEF Gatt
<1>2. gatts' = [gatts EXCEPT ![g] = x]
  OBVIOUS
<1>3. QED
  BY <1>1, <1>2, ChangeOne

\* A write of the call.
LEMMA ChangeCall ==
  ASSUME TypeOK, NEW g \in DOMAIN gatts, NEW c \in Call,
         gatts' = [gatts EXCEPT ![g].call = c]
  PROVE  Changed(g, gatts[g].phase, c)
<1> DEFINE x == [gatts[g] EXCEPT !.call = c]
<1>1. x \in Gatt /\ x.mac = gatts[g].mac /\ x.phase = gatts[g].phase /\ x.call = c
  BY GattFacts DEF Gatt
<1>2. gatts' = [gatts EXCEPT ![g] = x]
  OBVIOUS
<1>3. QED
  BY <1>1, <1>2, ChangeOne

\* A write of both.
LEMMA ChangeBoth ==
  ASSUME TypeOK, NEW g \in DOMAIN gatts, NEW p \in Phase, NEW c \in Call,
         gatts' = [gatts EXCEPT ![g].phase = p, ![g].call = c]
  PROVE  Changed(g, p, c)
<1> DEFINE x == [[gatts[g] EXCEPT !.phase = p] EXCEPT !.call = c]
<1>1. x \in Gatt /\ x.mac = gatts[g].mac /\ x.phase = p /\ x.call = c
  BY GattFacts DEF Gatt
<1>2. gatts' = [gatts EXCEPT ![g] = x]
  <2>1. DOMAIN gatts' = DOMAIN gatts /\ \A h \in DOMAIN gatts \ {g} : gatts'[h] = gatts[h]
    OBVIOUS
  <2>2. gatts'[g] = x
    OBVIOUS
  <2>3. gatts' = [h \in DOMAIN gatts |-> IF h = g THEN x ELSE gatts[h]]
    BY <2>1, <2>2
  <2>4. QED
    BY <2>3, GattFacts
<1> HIDE DEF x
<1>3. QED
  BY <1>1, <1>2, ChangeOne

\* What a change does to the open objects of an address.
LEMMA OpenChanged ==
  ASSUME NEW g \in DOMAIN gatts, NEW p, NEW c, Changed(g, p, c), NEW m,
         gatts[g].phase # "closed" \/ p = "closed"
  PROVE  OpenGatts(m)' = IF p = "closed" THEN OpenGatts(m) \ {g} ELSE OpenGatts(m)
BY DEF Changed, OpenGatts

\* The inductive invariant holds before BLE is started.
LEMMA InitIInv == Init => IInv
<1> SUFFICES ASSUME Init PROVE IInv
  OBVIOUS
<1> USE AndroidBleBoundsAssumption DEF Init
<1>1. TypeOK
  <2>1. gatts \in Seq(Gatt) /\ Len(gatts) = 0
    OBVIOUS
  <2>2. serverCall \in [Mac -> Call]
    BY DEF Call
  <2>3. connections \in [Mac -> 0 .. Len(gatts)]
    BY <2>1
  <2>4. stopCalls \subseteq Mac \X (0 .. MaxGatts) /\ Len(gatts) <= MaxGatts
    BY <2>1
  <2>5. /\ stops \in 0 .. MaxStops /\ inits \in 0 .. MaxInits
        /\ scanFails \in 0 .. MaxScanFails
    OBVIOUS
  <2>6. QED
    BY <2>1, <2>2, <2>3, <2>4, <2>5 DEF TypeOK
<1>2. StopOrder /\ OwnMac /\ Owned
  BY DEF StopOrder, OwnMac, Owned, OpenGatts
<1>3. ReportIsTrue /\ CooldownCovers /\ Known
  BY DEF ReportIsTrue, CooldownCovers, Known
<1>4. OneRole /\ SetUpIsKnown
  BY DEF OneRole, SetUpIsKnown, OpenGatts, IsServed, IsClient, InClientCallback
<1>5. QED
  BY <1>1, <1>2, <1>3, <1>4 DEF IInv, Between

-----------------------------------------------------------------------------
(* Types                                                                   *)

\* The callbacks of one object: what each does to it, and that none changes
\* what the other roles keep.
LEMMA CallbackFacts ==
  ASSUME TypeOK, NEW g \in DOMAIN gatts,
         \/ GattConnected(g) \/ GattDisconnected(g) \/ ServicesDiscovered(g)
         \/ MtuChanged(g) \/ CccdWritten(g) \/ TellClient(g)
  PROVE  /\ \E p \in Phase, c \in Call : Changed(g, p, c)
         /\ UNCHANGED <<scanVars, serverVars, lifeVars, raced, mixed>>
<1>0. gatts[g].phase \in Phase /\ gatts[g].call \in Call
  BY GattFacts
<1>1. CASE GattConnected(g)
  <2>1. \E p \in Phase : gatts' = [gatts EXCEPT ![g].phase = p]
    BY <1>1 DEF GattConnected, Phase
  <2>2. QED
    BY <1>0, <1>1, <2>1, ChangePhase DEF GattConnected
<1>2. CASE GattDisconnected(g)
  <2>1. CASE gatts' = [gatts EXCEPT ![g].phase = "lost"]
    BY <1>0, <1>2, <2>1, ChangePhase DEF GattDisconnected, Phase
  <2>2. CASE CloseGatt(g)
    BY <1>0, <1>2, <2>2, ChangeBoth DEF GattDisconnected, CloseGatt, Phase, Call
  <2>3. QED
    BY <1>2, <2>1, <2>2 DEF GattDisconnected
<1>3. CASE ServicesDiscovered(g) \/ MtuChanged(g)
  <2>1. \E p \in Phase : gatts' = [gatts EXCEPT ![g].phase = p]
    BY <1>3 DEF ServicesDiscovered, MtuChanged, Advance, Phase
  <2>2. UNCHANGED <<scanVars, serverVars, lifeVars, raced, mixed>>
    BY <1>3 DEF ServicesDiscovered, MtuChanged, Advance
  <2>3. QED
    BY <1>0, <2>1, <2>2, ChangePhase
<1>4. CASE CccdWritten(g)
  <2>1. \/ gatts' = [gatts EXCEPT ![g].phase = "ready", ![g].call = "connected"]
        \/ gatts' = [gatts EXCEPT ![g].phase = "unsubscribed"]
    BY <1>4 DEF CccdWritten, Advance
  <2>2. UNCHANGED <<scanVars, serverVars, lifeVars, raced, mixed>>
    BY <1>4 DEF CccdWritten, Advance
  <2>3. {"ready", "unsubscribed"} \subseteq Phase /\ "connected" \in Call
    BY DEF Phase, Call
  <2>4. QED
    BY <1>0, <2>1, <2>2, <2>3, ChangePhase, ChangeBoth
<1>5. CASE TellClient(g)
  <2>1. gatts' = [gatts EXCEPT ![g].call = "none"] /\ "none" \in Call
    BY <1>5 DEF TellClient, Call
  <2>2. QED
    BY <1>0, <1>5, <2>1, ChangeCall DEF TellClient
<1>6. QED
  BY <1>1, <1>2, <1>3, <1>4, <1>5

\* Every step keeps the types.
LEMMA TypeStep ==
  ASSUME TypeOK, StopOrder, Next
  PROVE  TypeOK'
<1> USE DEF scanVars, clientVars, serverVars, lifeVars
<1> USE AndroidBleBoundsAssumption
<1>1. CASE Start
  BY <1>1 DEF Start, TypeOK
<1>2. CASE StopServer
  <2>1. stopCalls' \subseteq Mac \X (0 .. MaxGatts)
    BY <1>2 DEF StopServer, TypeOK
  <2>2. stops' \in 0 .. MaxStops /\ raced' \subseteq Mac
    BY <1>2 DEF StopServer, TypeOK
  <2>3. QED
    BY <1>2, <2>1, <2>2 DEF StopServer, TypeOK
<1>3. CASE StopClients
  <2>1. stopCalls' \subseteq Mac \X (0 .. MaxGatts)
    <3>1. \A m \in Mac : connections[m] \in 0 .. MaxGatts
      BY DEF TypeOK
    <3>2. QED
      BY <1>3, <3>1 DEF StopClients
  <2>2. connections' = [m \in Mac |-> 0] /\ connecting' = {} /\ raced' \subseteq Mac
    BY <1>3 DEF StopClients, TypeOK
  <2>3. connections' \in [Mac -> 0 .. Len(gatts')]
    BY <1>3, <2>2, GattFacts DEF StopClients
  <2>4. QED
    BY <1>3, <2>1, <2>2, <2>3 DEF StopClients, TypeOK
<1>4. ASSUME NEW c \in stopCalls, StopCall(c[1], c[2]) PROVE TypeOK'
  <2>1. c[1] \in Mac /\ c[2] \in 0 .. MaxGatts /\ c = <<c[1], c[2]>>
    BY DEF TypeOK
  <2>2. c[2] # 0 => c[2] \in DOMAIN gatts
    BY DEF StopOrder
  <2>3. gatts' \in Seq(Gatt) /\ Len(gatts') = Len(gatts)
    BY <1>4, <2>2, ChangePhase DEF StopCall, Changed, Phase, TypeOK
  <2>4. raced' \subseteq Mac /\ stopCalls' \subseteq stopCalls /\ blePeers' \subseteq Mac
    BY <1>4, <2>1 DEF StopCall, TypeOK
  <2>5. QED
    BY <1>4, <2>3, <2>4 DEF StopCall, TypeOK
<1>5. CASE InitNode
  BY <1>5 DEF InitNode, TypeOK
<1>6. CASE ScanFails \/ RestartScan
  <2>1. scanFails' \in 0 .. MaxScanFails
    BY <1>6 DEF ScanFails, RestartScan, TypeOK
  <2>2. /\ isScanning' \in BOOLEAN /\ scanRestart' \in BOOLEAN
        /\ UNCHANGED <<clientVars, serverVars, lifeVars, blePeers, raced, mixed>>
    BY <1>6 DEF ScanFails, RestartScan
  <2>3. QED
    BY <2>1, <2>2 DEF TypeOK
<1>7. ASSUME NEW m \in Mac, ScanResult(m) PROVE TypeOK'
  <2> DEFINE x == [mac |-> m, phase |-> "connecting", call |-> "none"]
  <2>1. x \in Gatt
    BY DEF Gatt, Phase, Call
  <2>2. gatts' \in Seq(Gatt) /\ Len(gatts') = Len(gatts) + 1 /\ Len(gatts) \in Nat
    <3> HIDE DEF x
    <3>1. gatts' = Append(gatts, x)
      BY <1>7 DEF ScanResult, x
    <3>2. QED
      BY <2>1, <3>1 DEF TypeOK
  <2>3. connections' \in [Mac -> 0 .. Len(gatts')] /\ Len(gatts') <= MaxGatts
    BY <1>7, <2>2 DEF ScanResult, TypeOK
  <2>4. connecting' \subseteq {n \in Mac : connections'[n] = 0} /\ mixed' \subseteq Mac
    BY <1>7 DEF ScanResult, MayConnect, TypeOK
  <2>5. QED
    BY <1>7, <2>2, <2>3, <2>4 DEF ScanResult, TypeOK
<1>8. ASSUME NEW m \in Mac, EndCooldown(m) PROVE TypeOK'
  BY <1>8 DEF EndCooldown, TypeOK
<1>9. ASSUME NEW g \in DOMAIN gatts,
             \/ GattConnected(g) \/ GattDisconnected(g) \/ ServicesDiscovered(g)
             \/ MtuChanged(g) \/ CccdWritten(g) \/ TellClient(g)
      PROVE  TypeOK'
  <2>1. /\ gatts' \in Seq(Gatt) /\ Len(gatts') = Len(gatts)
        /\ UNCHANGED <<scanVars, serverVars, lifeVars, raced, mixed>>
    BY <1>9, CallbackFacts DEF Changed
  <2>2. gatts[g].mac \in Mac /\ g \in 0 .. Len(gatts)
    BY GattFacts
  <2>3. \/ UNCHANGED <<connections, connecting>>
        \/ \E v \in {0, g} : /\ connections' = [connections EXCEPT ![gatts[g].mac] = v]
                             /\ connecting' = connecting \ {gatts[g].mac}
        \/ connections' = connections /\ connecting' = connecting \ {gatts[g].mac}
    BY <1>9 DEF GattConnected, GattDisconnected, ServicesDiscovered, MtuChanged,
      CccdWritten, TellClient, Advance
  <2>4. /\ connections' \in [Mac -> 0 .. Len(gatts')]
        /\ connecting' \subseteq {m \in Mac : connections'[m] = 0}
    <3>1. /\ connections \in [Mac -> 0 .. Len(gatts)]
          /\ connecting \subseteq {m \in Mac : connections[m] = 0}
      BY DEF TypeOK
    <3>2. CASE connections' = connections
      BY <2>1, <2>3, <3>1, <3>2
    <3>3. ASSUME NEW v \in {0, g},
                 connections' = [connections EXCEPT ![gatts[g].mac] = v],
                 connecting' = connecting \ {gatts[g].mac}
          PROVE  /\ connections' \in [Mac -> 0 .. Len(gatts)]
                 /\ connecting' \subseteq {m \in Mac : connections'[m] = 0}
      <4>1. v \in 0 .. Len(gatts)
        BY <2>2, GattFacts
      <4>2. \A m \in connecting' : connections'[m] = connections[m]
        BY <3>1, <3>3
      <4>3. QED
        BY <2>2, <3>1, <3>3, <4>1, <4>2
    <3>4. QED
      BY <2>1, <2>3, <3>2, <3>3
  <2>5. disconnectedAt' \subseteq disconnectedAt \cup {gatts[g].mac}
    BY <1>9 DEF GattConnected, GattDisconnected, ServicesDiscovered, MtuChanged,
      CccdWritten, TellClient, Advance
  <2>6. blePeers' \subseteq blePeers \cup {gatts[g].mac}
    BY <1>9 DEF GattConnected, GattDisconnected, ServicesDiscovered, MtuChanged,
      CccdWritten, TellClient, Advance, Told
  <2>7. QED
    BY <2>1, <2>2, <2>4, <2>5, <2>6 DEF TypeOK
<1>10. ASSUME NEW m \in Mac, Subscribe(m) \/ Unsubscribe(m) \/ TellServer(m) PROVE TypeOK'
  <2>1. serverCall' \in [Mac -> Call]
    BY <1>10 DEF Subscribe, Unsubscribe, TellServer, TypeOK, Call
  <2>2. /\ serverSubscribers' \subseteq serverSubscribers \cup {m}
        /\ mixed' \subseteq mixed \cup {m} /\ blePeers' \subseteq blePeers \cup {m}
    BY <1>10 DEF Subscribe, Unsubscribe, TellServer, Told
  <2>3. UNCHANGED <<scanVars, clientVars, lifeVars, raced, serverOpen>>
    BY <1>10 DEF Subscribe, Unsubscribe, TellServer
  <2>4. QED
    BY <2>1, <2>2, <2>3 DEF TypeOK
<1>11. QED
  BY <1>1, <1>2, <1>3, <1>4, <1>5, <1>6, <1>7, <1>8, <1>9, <1>10 DEF Next

-----------------------------------------------------------------------------
(* start, stop, init and the scan                                          *)

\* start, the scan's failures and the end of a cooldown.
LEMMA IdleStep ==
  ASSUME IInv, Start \/ ScanFails \/ RestartScan \/ \E m \in Mac : EndCooldown(m)
  PROVE  Between'
<1> USE DEF IInv, Between
<1>1. /\ UNCHANGED <<gatts, connections, connecting, serverSubscribers, serverCall, stopping,
                     stopCalls, blePeers, raced, mixed>>
      /\ isRunning' # isRunning => ~stopping /\ stopCalls = {}
      /\ serverOpen' # serverOpen => ~stopping /\ stopCalls = {}
  BY DEF Start, ScanFails, RestartScan, EndCooldown, clientVars, serverVars, lifeVars
<1>2. StopOrder' /\ OwnMac'
  BY <1>1 DEF StopOrder, OwnMac, OpenGatts
<1>3. Owned' /\ ReportIsTrue'
  <2>1. Owned'
    BY <1>1 DEF Owned, OpenGatts, Held
  <2>2. ReportIsTrue'
    BY <1>1 DEF ReportIsTrue, Held
  <2>3. QED
    BY <2>1, <2>2
<1>4. CooldownCovers'
  <2>1. \A g \in DOMAIN gatts :
          gatts[g].call = "disconnected" => (gatts[g].mac \in disconnectedAt' <=> gatts[g].mac \in disconnectedAt)
    BY DEF Start, ScanFails, RestartScan, EndCooldown, clientVars, InClientCallback
  <2>2. QED
    BY <1>1, <2>1 DEF CooldownCovers, OpenGatts
<1>5. Known'
  BY <1>1 DEF Known, Routed
<1>6. OneRole'
  BY <1>1 DEF OneRole, IsServed, IsClient, OpenGatts, InClientCallback
<1>7. SetUpIsKnown'
  BY <1>1 DEF SetUpIsKnown, OpenGatts
<1>8. QED
  BY <1>2, <1>3, <1>4, <1>5, <1>6, <1>7

\* The first half of stop takes the centrals out of their set and has each to
\* report.
LEMMA StopServerStep ==
  ASSUME IInv, StopServer
  PROVE  Between'
<1> USE DEF IInv, Between
<1>1. /\ UNCHANGED <<gatts, connections, connecting, disconnectedAt, serverCall, blePeers, mixed>>
      /\ ~isRunning' /\ stopping' /\ stopCalls = {} /\ ~stopping
      /\ stopCalls' = serverSubscribers \X {0} /\ serverSubscribers' = {}
  BY DEF StopServer, clientVars
<1>2. /\ raced \subseteq raced'
      /\ \A m \in Mac \ raced' : serverCall[m] = "none" /\ m \notin connecting
  BY DEF StopServer, InCallback
<1>3. StopOrder'
  BY <1>1 DEF StopOrder
<1>4. OwnMac' /\ Owned'
  BY <1>1, <1>2 DEF OwnMac, Owned, OpenGatts, Held
<1>5. ReportIsTrue'
  <2>1. \A g \in DOMAIN gatts : gatts[g].call # "none" => gatts[g].mac \in raced'
    BY GattFacts DEF StopServer, InCallback, InClientCallback
  <2>2. QED
    BY <1>1, <1>2, <2>1 DEF ReportIsTrue
<1>6. CooldownCovers'
  BY <1>1, <1>2 DEF CooldownCovers, OpenGatts
<1>7. Known'
  <2> SUFFICES ASSUME NEW m \in blePeers \ raced' PROVE Routed(m)'
    BY <1>1 DEF Known
  <2>1. Routed(m) /\ m \in Mac
    BY <1>2 DEF Known, TypeOK
  <2>2. CASE m \in serverSubscribers
    <3>1. <<m, 0>> \in stopCalls' /\ 0 \in 0 .. MaxGatts
      BY <1>1, <2>2, AndroidBleBoundsAssumption
    <3>2. QED
      BY <3>1 DEF Routed
  <2>3. CASE m \notin serverSubscribers
    BY <1>1, <2>1, <2>3 DEF Routed
  <2>4. QED
    BY <2>2, <2>3
<1>8. OneRole'
  BY <1>1 DEF OneRole, IsServed, IsClient, OpenGatts, InClientCallback
<1>9. SetUpIsKnown'
  BY <1>1, <1>2 DEF SetUpIsKnown, OpenGatts
<1>10. QED
  BY <1>3, <1>4, <1>5, <1>6, <1>7, <1>8, <1>9

\* The second half takes the connections out of their map and has each to close.
LEMMA StopClientsStep ==
  ASSUME IInv, StopClients
  PROVE  Between'
<1> USE DEF IInv, Between
<1>1. /\ UNCHANGED <<gatts, serverCall, serverSubscribers, blePeers, mixed, isRunning>>
      /\ stopping /\ ~stopping' /\ stopCalls = {} /\ ~serverOpen'
      /\ stopCalls' = {<<m, connections[m]>> : m \in {n \in Mac : connections[n] # 0}}
      /\ connections' = [m \in Mac |-> 0] /\ connecting' = {}
  BY DEF StopClients
<1>2. /\ raced \subseteq raced' /\ serverSubscribers \cap Mac \subseteq raced'
      /\ \A m \in Mac \ raced' : serverCall[m] = "none" /\ m \notin connecting
      /\ \A m \in Mac \ raced' : ~InClientCallback(m)
  BY DEF StopClients, InCallback
<1>3. \A m \in Mac : connections[m] # 0 => /\ <<m, connections[m]>> \in stopCalls'
                                           /\ connections[m] \in 0 .. MaxGatts
  BY <1>1, GattFacts
<1>4. StopOrder'
  <2>1. \A c \in stopCalls' : c[2] \in DOMAIN gatts /\ gatts[c[2]].mac = c[1]
    BY <1>1, GattFacts DEF OwnMac
  <2>2. serverSubscribers \subseteq raced'
    BY <1>2 DEF TypeOK
  <2>3. \A m \in Mac \ raced' : connections[m] # 0 => connections[m] \in OpenGatts(m)
    BY <1>1, <1>2, GattFacts DEF Owned, Held
  <2>4. \A c \in stopCalls' : c[1] \notin raced' => c[2] \in OpenGatts(c[1])
    BY <1>1, <2>3
  <2>5. QED
    BY <1>1, <2>1, <2>2, <2>4 DEF StopOrder, OpenGatts
<1>5. OwnMac'
  BY <1>1 DEF OwnMac
<1>6. Owned'
  BY <1>1, <1>2, <1>3 DEF Owned, OpenGatts, Held
<1>7. ReportIsTrue' /\ CooldownCovers'
  <2>1. \A g \in DOMAIN gatts : gatts[g].call # "none" => gatts[g].mac \in raced'
    BY <1>2, GattFacts DEF InClientCallback
  <2>2. QED
    BY <1>1, <1>2, <2>1 DEF ReportIsTrue, CooldownCovers
<1>8. Known'
  BY <1>1, <1>2, <1>3 DEF Known, Routed, TypeOK
<1>9. OneRole'
  <2>1. \A m \in Mac : <<m, 0>> \notin stopCalls'
    BY <1>1
  <2>2. QED
    BY <1>1, <2>1 DEF OneRole, IsServed, IsClient, OpenGatts, InClientCallback
<1>10. SetUpIsKnown'
  BY <1>1, <1>2 DEF SetUpIsKnown, OpenGatts
<1>11. QED
  BY <1>4, <1>5, <1>6, <1>7, <1>8, <1>9, <1>10

\* init clears the peers; who was one is raced.
LEMMA InitNodeStep ==
  ASSUME IInv, InitNode
  PROVE  Between'
<1> USE DEF IInv, Between
<1>1. /\ UNCHANGED <<gatts, connections, connecting, disconnectedAt, serverOpen,
                     serverSubscribers, serverCall, isRunning, stopping, stopCalls, mixed>>
      /\ blePeers' = {} /\ raced \subseteq raced'
      /\ \A m \in Mac \ raced' : OpenGatts(m) = {} /\ m \notin serverSubscribers
  BY DEF InitNode, clientVars, serverVars
<1>2. StopOrder' /\ OwnMac'
  BY <1>1 DEF StopOrder, OwnMac, OpenGatts
<1>3. Owned' /\ ReportIsTrue' /\ CooldownCovers'
  BY <1>1 DEF Owned, ReportIsTrue, CooldownCovers, OpenGatts, Held
<1>4. Known'
  BY <1>1 DEF Known
<1>5. OneRole' /\ SetUpIsKnown'
  BY <1>1 DEF OneRole, SetUpIsKnown, IsServed, IsClient, OpenGatts, InClientCallback
<1>6. QED
  BY <1>2, <1>3, <1>4, <1>5

\* A result of the scan makes the one object of an address that has none.
LEMMA ScanResultStep ==
  ASSUME IInv, NEW m \in Mac, ScanResult(m)
  PROVE  Between'
<1> USE DEF IInv, Between
<1> DEFINE n == Len(gatts) + 1
           x == [mac |-> m, phase |-> "connecting", call |-> "none"]
<1>1. /\ UNCHANGED <<connections, disconnectedAt, serverOpen, serverSubscribers, serverCall,
                     isRunning, stopping, stopCalls, blePeers, raced>>
      /\ ~stopping /\ stopCalls = {}
      /\ connections[m] = 0 /\ m \notin connecting /\ m \notin disconnectedAt
      /\ connecting' = connecting \cup {m}
      /\ mixed \subseteq mixed' /\ (m \notin mixed' => ~IsServed(m))
  BY DEF ScanResult, MayConnect, serverVars, lifeVars, StopOrder
<1>2. /\ DOMAIN gatts' = DOMAIN gatts \cup {n} /\ n \notin DOMAIN gatts
      /\ gatts'[n] = x /\ \A g \in DOMAIN gatts : gatts'[g] = gatts[g]
  <2> HIDE DEF x
  <2>1. gatts' = Append(gatts, x) /\ gatts \in Seq(Gatt) /\ x \in Gatt
    BY DEF ScanResult, TypeOK, x, Gatt, Phase, Call
  <2>2. QED
    BY <2>1
<1>3. \A k \in Mac : OpenGatts(k)' = IF k = m THEN OpenGatts(k) \cup {n} ELSE OpenGatts(k)
  BY <1>2 DEF OpenGatts
<1>4. StopOrder' /\ OwnMac'
  BY <1>1, <1>2, GattFacts DEF StopOrder, OwnMac
<1>5. m \notin raced => OpenGatts(m) = {}
  BY <1>1, GattFacts DEF Owned, Held
<1>6. Owned'
  <2> SUFFICES ASSUME NEW k \in Mac \ raced
               PROVE  \/ OpenGatts(k)' = {} /\ connections'[k] = 0 /\ k \notin connecting'
                      \/ \E g \in OpenGatts(k)' :
                           /\ OpenGatts(k)' = {g}
                           /\ IF gatts'[g].phase = "connecting" THEN k \in connecting' ELSE Held(k, g)'
    BY <1>1 DEF Owned
  <2>1. CASE k = m
    BY <1>1, <1>2, <1>3, <1>5, <2>1
  <2>2. CASE k # m
    BY <1>1, <1>2, <1>3, <2>2, GattFacts DEF Owned, Held
  <2>3. QED
    BY <2>1, <2>2
<1>7. ReportIsTrue'
  BY <1>1, <1>2 DEF ReportIsTrue, Held
<1>8. CooldownCovers'
  <2>1. \A g \in DOMAIN gatts' :
          gatts'[g].call = "disconnected" => g \in DOMAIN gatts /\ gatts'[g] = gatts[g]
    BY <1>2
  <2>2. \A g \in DOMAIN gatts : gatts[g].call = "disconnected" /\ gatts[g].mac \notin raced =>
          \A h \in DOMAIN gatts' : gatts'[h].mac = gatts[g].mac => gatts'[h].phase = "closed"
    BY <1>1, <1>2 DEF CooldownCovers, OpenGatts
  <2>3. QED
    BY <1>1, <2>1, <2>2 DEF CooldownCovers, OpenGatts
<1>9. Known'
  BY <1>1, <1>2, GattFacts DEF Known, Routed, TypeOK
<1>10. OneRole'
  <2>1. \A k \in Mac : k # m => (IsClient(k)' <=> IsClient(k))
    BY <1>2, <1>3 DEF IsClient, InClientCallback
  <2>2. QED
    BY <1>1, <1>3, <2>1 DEF OneRole, IsServed
<1>11. SetUpIsKnown'
  BY <1>1, <1>2, <1>3, GattFacts DEF SetUpIsKnown
<1>12. QED
  BY <1>4, <1>6, <1>7, <1>8, <1>9, <1>10, <1>11

\* A report of stop about a central.
LEMMA StopCentralStep ==
  ASSUME IInv, NEW m \in Mac, StopCall(m, 0)
  PROVE  Between'
<1> USE DEF IInv, Between
<1>1. /\ UNCHANGED <<gatts, connections, connecting, disconnectedAt, serverOpen,
                     serverSubscribers, serverCall, isRunning, stopping, mixed>>
      /\ <<m, 0>> \in stopCalls /\ stopCalls' = stopCalls \ {<<m, 0>>}
      /\ blePeers' = blePeers \ {m} /\ raced \subseteq raced'
  BY DEF StopCall, serverVars
<1>2. stopping
  BY <1>1, GattFacts DEF StopOrder
<1>3. StopOrder' /\ OwnMac'
  BY <1>1, <1>2 DEF StopOrder, OwnMac
<1>4. \A k \in Mac, g \in DOMAIN gatts : Held(k, g)' <=> Held(k, g)
  BY <1>1, GattFacts DEF Held
<1>5. Owned' /\ ReportIsTrue' /\ CooldownCovers'
  BY <1>1, <1>4, GattFacts DEF Owned, ReportIsTrue, CooldownCovers, OpenGatts
<1>6. Known'
  BY <1>1 DEF Known, Routed, TypeOK
<1>7. OneRole'
  BY <1>1 DEF OneRole, IsServed, IsClient, OpenGatts, InClientCallback
<1>8. SetUpIsKnown'
  BY <1>1, <1>2 DEF SetUpIsKnown, OpenGatts, OneRole
<1>9. QED
  BY <1>3, <1>5, <1>6, <1>7, <1>8

\* A report of stop about a connection, whose object is then closed.
LEMMA StopConnectionStep ==
  ASSUME IInv, NEW m \in Mac, NEW g \in DOMAIN gatts, StopCall(m, g)
  PROVE  Between'
<1> USE DEF IInv, Between
<1>1. /\ UNCHANGED <<connections, connecting, disconnectedAt, serverOpen,
                     serverSubscribers, serverCall, isRunning, stopping, mixed>>
      /\ <<m, g>> \in stopCalls /\ stopCalls' = stopCalls \ {<<m, g>>}
      /\ blePeers' = blePeers \ {m} /\ raced \subseteq raced' /\ raced' \subseteq Mac
      /\ InClientCallback(m) => m \in raced'
  BY DEF StopCall, serverVars, InCallback, TypeOK
<1>2. Changed(g, "closed", gatts[g].call)
  BY GattFacts, ChangePhase DEF StopCall, Phase
<1>3. \A k : OpenGatts(k)' = OpenGatts(k) \ {g}
  BY <1>2, OpenChanged
<1>4. /\ ~stopping /\ gatts[g].mac = m /\ connecting = {} /\ serverSubscribers \subseteq raced
      /\ \A k \in Mac : connections[k] = 0
      /\ m \notin raced => g \in OpenGatts(m)
  BY <1>1, GattFacts DEF StopOrder
<1>5. m \notin raced => OpenGatts(m) = {g} /\ OpenGatts(m)' = {}
  BY <1>3, <1>4 DEF Owned
<1>6. \A k \in Mac, h \in DOMAIN gatts : /\ k # m => (Held(k, h)' <=> Held(k, h))
                                         /\ h # g => (Held(k, h)' <=> Held(k, h))
  BY <1>1, GattFacts DEF Held
<1>7. \A k \in Mac \ {m} : OpenGatts(k)' = OpenGatts(k) /\ g \notin OpenGatts(k)
  BY <1>3, <1>4 DEF OpenGatts
<1>8. StopOrder'
  <2>1. ASSUME NEW c \in stopCalls', c[1] \notin raced' PROVE c[2] \in OpenGatts(c[1])'
    <3>1. c \in stopCalls /\ c = <<c[1], c[2]>> /\ c # <<m, g>> /\ c[1] \in Mac
      BY <1>1, <2>1 DEF TypeOK
    <3>2. c[2] \in OpenGatts(c[1])
      BY <1>1, <1>4, <2>1, <3>1 DEF StopOrder
    <3>3. c[1] # m
      BY <1>1, <1>5, <2>1, <3>1, <3>2
    <3>4. QED
      BY <1>7, <3>1, <3>2, <3>3
  <2>2. QED
    BY <1>1, <1>2, <1>4, <2>1, SMTT(30) DEF StopOrder, Changed
<1>9. OwnMac'
  BY <1>1, <1>4 DEF OwnMac
<1>10. Owned'
  <2> SUFFICES ASSUME NEW k \in Mac \ raced'
               PROVE  \/ OpenGatts(k)' = {} /\ connections'[k] = 0 /\ k \notin connecting'
                      \/ \E h \in OpenGatts(k)' :
                           /\ OpenGatts(k)' = {h}
                           /\ IF gatts'[h].phase = "connecting" THEN k \in connecting' ELSE Held(k, h)'
    BY DEF Owned
  <2>1. CASE k = m
    BY <1>1, <1>4, <1>5, <2>1
  <2>2. CASE k # m
    BY <1>1, <1>2, <1>6, <1>7, <2>2, GattFacts DEF Owned, Changed
  <2>3. QED
    BY <2>1, <2>2
<1>11. ReportIsTrue'
  <2>1. gatts'[g].call = "connected" => gatts'[g].mac \in raced'
    BY <1>1, <1>2, <1>4 DEF Changed, InClientCallback
  <2>2. QED
    BY <1>1, <1>2, <1>6, <2>1, GattFacts DEF ReportIsTrue, Changed
<1>12. CooldownCovers'
  BY <1>1, <1>2, <1>3, GattFacts DEF CooldownCovers, Changed
<1>13. Known'
  <2> SUFFICES ASSUME NEW k \in blePeers' \ raced' PROVE Routed(k)'
    BY DEF Known
  <2>1. k \in Mac /\ k # m /\ Routed(k)
    BY <1>1 DEF Known, TypeOK
  <2>2. (\E h \in DOMAIN gatts : gatts[h].mac = k /\ gatts[h].call = "disconnected") =>
          \E h \in DOMAIN gatts' : gatts'[h].mac = k /\ gatts'[h].call = "disconnected"
    BY <1>2 DEF Changed
  <2>3. \A h : <<k, h>> \in stopCalls => <<k, h>> \in stopCalls'
    BY <1>1, <2>1
  <2>4. connections[k] = 0
    BY <1>4, <2>1
  <2>5. QED
    BY <1>1, <2>1, <2>2, <2>3, <2>4 DEF Routed
<1>14. OneRole'
  <2>1. \A k \in Mac : IsClient(k)' => IsClient(k)
    BY <1>2, <1>3 DEF IsClient, InClientCallback, Changed
  <2>2. QED
    BY <1>1, <1>3, <2>1 DEF OneRole, IsServed
<1>15. SetUpIsKnown'
  <2> SUFFICES ASSUME NEW k \in Mac \ (raced' \cup mixed)
               PROVE  /\ k \in serverSubscribers =>
                           k \in blePeers' \/ serverCall[k] = "connected" \/ stopping
                      /\ \A h \in OpenGatts(k)' : gatts'[h].phase = "ready" =>
                           k \in blePeers' \/ gatts'[h].call = "connected"
    BY <1>1 DEF SetUpIsKnown
  <2>1. k \notin serverSubscribers
    BY <1>1, <1>4
  <2>2. CASE k = m
    BY <1>1, <1>5, <2>1, <2>2
  <2>3. CASE k # m
    <3>1. OpenGatts(k)' = OpenGatts(k) /\ \A h \in OpenGatts(k) : gatts'[h] = gatts[h]
      BY <1>2, <1>6, <1>7, <2>3, GattFacts DEF Changed
    <3>2. k \in blePeers => k \in blePeers'
      BY <1>1, <2>3
    <3>3. QED
      BY <1>1, <2>1, <3>1, <3>2 DEF SetUpIsKnown
  <2>4. QED
    BY <2>2, <2>3
<1>16. QED
  BY <1>8, <1>9, <1>10, <1>11, <1>12, <1>13, <1>14, <1>15

-----------------------------------------------------------------------------
(* The callbacks of an object                                              *)

\* An object goes on to its next phase, is given up, or is ready and will be
\* reported.
Moves(g, p, c) ==
  /\ gatts[g].phase \in {"connected", "requestingMtu", "subscribing"} /\ gatts[g].call = "none"
  /\ p \in {"requestingMtu", "subscribing", "unsubscribed", "leaving", "ready"}
  /\ gatts[g].phase # "connected" => p \in Routable
  /\ c = IF p = "ready" THEN "connected" ELSE "none"
  /\ Changed(g, p, c)
  /\ UNCHANGED <<scanVars, connecting, connections, disconnectedAt, serverVars, lifeVars,
                 blePeers, raced, mixed>>

LEMMA MovesFacts ==
  ASSUME TypeOK, NEW g \in DOMAIN gatts, ServicesDiscovered(g) \/ MtuChanged(g) \/ CccdWritten(g)
  PROVE  \E p \in Phase, c \in Call : Moves(g, p, c)
<1> USE DEF Moves, Advance, Callback, Phase, Call, Routable
<1>1. CASE ServicesDiscovered(g)
  <2>1. \/ Advance(g, "connected", "requestingMtu")
        \/ Advance(g, "connected", "leaving")
    BY <1>1 DEF ServicesDiscovered
  <2>2. CASE Advance(g, "connected", "requestingMtu")
    <3>1. Changed(g, "requestingMtu", "none")
      BY <2>2, ChangePhase
    <3>2. Moves(g, "requestingMtu", "none")
      BY <2>2, <3>1
    <3>3. QED
      BY <3>2
  <2>3. CASE Advance(g, "connected", "leaving")
    <3>1. Changed(g, "leaving", "none")
      BY <2>3, ChangePhase
    <3>2. Moves(g, "leaving", "none")
      BY <2>3, <3>1
    <3>3. QED
      BY <3>2
  <2>4. QED
    BY <2>1, <2>2, <2>3
<1>2. ASSUME NEW from \in {"requestingMtu", "subscribing"},
             NEW to \in {"subscribing", "unsubscribed"}, Advance(g, from, to)
      PROVE  \E p \in Phase, c \in Call : Moves(g, p, c)
  <2>1. Changed(g, to, "none")
    BY <1>2, ChangePhase
  <2>2. Moves(g, to, "none")
    BY <1>2, <2>1
  <2>3. QED
    BY <2>2
<1>3. CASE MtuChanged(g)
  BY <1>2, <1>3 DEF MtuChanged
<1>4. CASE CccdWritten(g)
  <2>1. CASE Advance(g, "subscribing", "unsubscribed")
    BY <1>2, <2>1
  <2>2. CASE /\ Callback(g, "subscribing")
             /\ gatts' = [gatts EXCEPT ![g].phase = "ready", ![g].call = "connected"]
             /\ UNCHANGED <<scanVars, connecting, connections, disconnectedAt,
                            serverVars, lifeVars, blePeers, raced, mixed>>
    <3>1. Changed(g, "ready", "connected")
      BY <2>2, ChangeBoth
    <3>2. Moves(g, "ready", "connected")
      BY <2>2, <3>1
    <3>3. QED
      BY <3>2
  <2>3. QED
    BY <1>4, <2>1, <2>2 DEF CccdWritten
<1>5. QED
  BY <1>1, <1>3, <1>4

\* The setup of a connection.
LEMMA MovesStep ==
  ASSUME IInv, NEW g \in DOMAIN gatts, NEW p \in Phase, NEW c \in Call, Moves(g, p, c)
  PROVE  Between'
<1> USE DEF IInv, Between
<1>1. /\ UNCHANGED <<connecting, connections, disconnectedAt, serverOpen, serverSubscribers,
                     serverCall, isRunning, stopping, stopCalls, blePeers, raced, mixed>>
      /\ gatts[g].phase \in {"connected", "requestingMtu", "subscribing"}
      /\ gatts[g].call = "none" /\ p \notin {"connecting", "connected", "lost", "closed"}
      /\ c = IF p = "ready" THEN "connected" ELSE "none"
      /\ gatts[g].phase \in Routable => p \in Routable
  BY DEF Moves, serverVars, lifeVars, Routable
<1>2. Changed(g, p, c)
  BY DEF Moves
<1>3. \A k : OpenGatts(k)' = OpenGatts(k)
  BY <1>1, <1>2, OpenChanged
<1>4. PICK m \in Mac : m = gatts[g].mac
  BY GattFacts
<1>5. g \in OpenGatts(m) /\ (m \notin raced => Held(m, g) /\ OpenGatts(m) = {g})
  BY <1>1, <1>4 DEF Owned, OpenGatts
<1>6. StopOrder' /\ OwnMac'
  <2>1. \A h \in DOMAIN gatts : gatts'[h].mac = gatts[h].mac
    BY <1>2 DEF Changed
  <2>2. StopOrder'
    BY <1>1, <1>2, <1>3, <2>1 DEF StopOrder, Changed
  <2>3. OwnMac'
    BY <1>1, <2>1, GattFacts DEF OwnMac
  <2>4. QED
    BY <2>2, <2>3
<1>7. Owned'
  <2>1. \A h \in DOMAIN gatts : gatts'[h].phase = "connecting" <=> gatts[h].phase = "connecting"
    BY <1>1, <1>2 DEF Changed
  <2>2. \A k \in Mac, h \in DOMAIN gatts : Held(k, h)' <=> Held(k, h)
    BY <1>1 DEF Held
  <2>3. QED
    BY <1>1, <1>3, <2>1, <2>2, GattFacts DEF Owned
<1>8. ReportIsTrue'
  BY <1>1, <1>2, <1>4, <1>5 DEF ReportIsTrue, Changed, Held
<1>9. CooldownCovers'
  <2>1. \A h \in DOMAIN gatts' :
          gatts'[h].call = "disconnected" => h \in DOMAIN gatts /\ gatts'[h] = gatts[h]
    BY <1>1, <1>2 DEF Changed
  <2>2. \A h \in DOMAIN gatts : gatts[h].call = "disconnected" /\ gatts[h].mac \notin raced =>
          \A k \in DOMAIN gatts' : gatts'[k].mac = gatts[h].mac => gatts'[k].phase = "closed"
    BY <1>1, <1>2 DEF CooldownCovers, OpenGatts, Changed
  <2>3. QED
    BY <1>1, <2>1, <2>2 DEF CooldownCovers, OpenGatts
<1>10. Known'
  <2> SUFFICES ASSUME NEW k \in blePeers \ raced PROVE Routed(k)'
    BY <1>1 DEF Known
  <2>1. k \in Mac /\ Routed(k)
    BY DEF Known, TypeOK
  <2>2. (\E h \in DOMAIN gatts : gatts[h].mac = k /\ gatts[h].call = "disconnected") =>
          \E h \in DOMAIN gatts' : gatts'[h].mac = k /\ gatts'[h].call = "disconnected"
    BY <1>1, <1>2 DEF Changed
  <2>3. connections[k] # 0 /\ gatts[connections[k]].phase \in Routable =>
          gatts'[connections[k]].phase \in Routable
    BY <1>1, <1>2, <2>1, GattFacts DEF Changed
  <2>4. QED
    BY <1>1, <2>1, <2>2, <2>3 DEF Routed
<1>11. OneRole'
  <2>1. \A k \in Mac : IsClient(k)' => IsClient(k)
    BY <1>2, <1>3, <1>4, <1>5 DEF IsClient, InClientCallback, Changed
  <2>2. QED
    BY <1>1, <1>3, <2>1 DEF OneRole, IsServed
<1>12. SetUpIsKnown'
  BY <1>1, <1>2, <1>3 DEF SetUpIsKnown, Changed, OpenGatts
<1>13. QED
  BY <1>6, <1>7, <1>8, <1>9, <1>10, <1>11, <1>12

\* A client callback tells Rust.
LEMMA TellClientStep ==
  ASSUME IInv, NEW g \in DOMAIN gatts, TellClient(g)
  PROVE  Between'
<1> USE DEF IInv, Between
<1>1. /\ UNCHANGED <<connecting, connections, disconnectedAt, serverOpen, serverSubscribers,
                     serverCall, isRunning, stopping, stopCalls, raced, mixed>>
      /\ gatts[g].call \in {"connected", "disconnected"}
      /\ blePeers' = Told(blePeers, gatts[g].call, gatts[g].mac)
  BY GattFacts DEF TellClient, serverVars, lifeVars, Call
<1>2. Changed(g, gatts[g].phase, "none")
  BY ChangeCall DEF TellClient, Call
<1>3. \A k : OpenGatts(k)' = OpenGatts(k)
  BY <1>2 DEF OpenGatts, Changed
<1>4. PICK m \in Mac : m = gatts[g].mac
  BY GattFacts
<1>5. /\ gatts[g].call = "connected" => blePeers' = blePeers \cup {m}
      /\ gatts[g].call = "disconnected" => blePeers' = blePeers \ {m}
  BY <1>1, <1>4 DEF Told
<1>6. StopOrder' /\ OwnMac'
  <2>1. \A h \in DOMAIN gatts : gatts'[h].mac = gatts[h].mac
    BY <1>2 DEF Changed
  <2>2. StopOrder'
    BY <1>1, <1>2, <1>3, <2>1 DEF StopOrder, Changed
  <2>3. OwnMac'
    BY <1>1, <2>1, GattFacts DEF OwnMac
  <2>4. QED
    BY <2>2, <2>3
<1>7. Owned'
  <2>1. \A h \in DOMAIN gatts : gatts'[h].phase = "connecting" <=> gatts[h].phase = "connecting"
    BY <1>1, <1>2 DEF Changed
  <2>2. \A k \in Mac, h \in DOMAIN gatts : Held(k, h)' <=> Held(k, h)
    BY <1>1 DEF Held
  <2>3. QED
    BY <1>1, <1>3, <2>1, <2>2, GattFacts DEF Owned
<1>8. ReportIsTrue'
  BY <1>1, <1>2 DEF ReportIsTrue, Changed, Held
<1>9. CooldownCovers'
  <2>1. \A h \in DOMAIN gatts' :
          gatts'[h].call = "disconnected" => h \in DOMAIN gatts /\ gatts'[h] = gatts[h]
    BY <1>1, <1>2 DEF Changed
  <2>2. \A h \in DOMAIN gatts : gatts[h].call = "disconnected" /\ gatts[h].mac \notin raced =>
          \A k \in DOMAIN gatts' : gatts'[k].mac = gatts[h].mac => gatts'[k].phase = "closed"
    BY <1>1, <1>2 DEF CooldownCovers, OpenGatts, Changed
  <2>3. QED
    BY <1>1, <2>1, <2>2 DEF CooldownCovers, OpenGatts
<1>10. Known'
  <2> SUFFICES ASSUME NEW k \in blePeers' \ raced PROVE Routed(k)'
    BY <1>1 DEF Known
  <2>1. CASE k = m /\ gatts[g].call = "connected"
    <3>1. gatts[g].phase = "ready" /\ Held(m, g) /\ g \in 0 .. MaxGatts /\ g # 0
      BY <1>4, <2>1, GattFacts DEF ReportIsTrue
    <3>2. gatts'[g].phase \in Routable
      BY <1>2, <3>1 DEF Changed, Routable
    <3>3. QED
      BY <1>1, <2>1, <3>1, <3>2 DEF Routed, Held
  <2>2. CASE k # m \/ gatts[g].call # "connected"
    <3>1. k \in blePeers /\ k # m /\ k \in Mac
      BY <1>1, <1>5, <2>2 DEF TypeOK
    <3>2. Routed(k)
      BY <3>1 DEF Known
    <3>3. (\E h \in DOMAIN gatts : gatts[h].mac = k /\ gatts[h].call = "disconnected") =>
            \E h \in DOMAIN gatts' : gatts'[h].mac = k /\ gatts'[h].call = "disconnected"
      BY <1>2, <1>4, <3>1 DEF Changed
    <3>4. connections[k] # 0 => gatts'[connections[k]].phase = gatts[connections[k]].phase
      BY <1>2, <3>1, GattFacts DEF Changed
    <3>5. QED
      BY <1>1, <3>2, <3>3, <3>4 DEF Routed
  <2>3. QED
    BY <2>1, <2>2
<1>11. OneRole'
  <2>1. \A k \in Mac : IsClient(k)' => IsClient(k)
    BY <1>2, <1>3 DEF IsClient, InClientCallback, Changed
  <2>2. QED
    BY <1>1, <1>3, <2>1 DEF OneRole, IsServed
<1>12. SetUpIsKnown'
  <2> SUFFICES ASSUME NEW k \in Mac \ (raced \cup mixed)
               PROVE  /\ k \in serverSubscribers =>
                           k \in blePeers' \/ serverCall[k] = "connected" \/ stopping
                      /\ \A h \in OpenGatts(k) : gatts'[h].phase = "ready" =>
                           k \in blePeers' \/ gatts'[h].call = "connected"
    BY <1>1, <1>3 DEF SetUpIsKnown
  <2>1. CASE k = m
    <3>1. k \notin serverSubscribers
      BY <1>1, <1>4, <2>1 DEF OneRole, IsServed, IsClient, InClientCallback
    <3>2. gatts[g].call = "disconnected" => OpenGatts(k) = {}
      BY <1>4, <2>1 DEF CooldownCovers
    <3>3. QED
      BY <1>1, <1>5, <2>1, <3>1, <3>2
  <2>2. CASE k # m
    <3>1. k \in blePeers => k \in blePeers'
      BY <1>1, <1>5, <2>2
    <3>2. \A h \in OpenGatts(k) : gatts'[h] = gatts[h]
      BY <1>2, <1>4, <2>2 DEF OpenGatts, Changed
    <3>3. QED
      BY <1>1, <3>1, <3>2 DEF SetUpIsKnown
  <2>3. QED
    BY <2>1, <2>2
<1>13. QED
  BY <1>6, <1>7, <1>8, <1>9, <1>10, <1>11, <1>12

\* A connection is there: the only object of its address comes to stand for it,
\* or is closed if BLE was stopped.
LEMMA GattConnectedStep ==
  ASSUME IInv, NEW g \in DOMAIN gatts, GattConnected(g)
  PROVE  Between'
<1> USE DEF IInv, Between
<1>1. PICK m \in Mac : m = gatts[g].mac
  BY GattFacts
<1>2. /\ UNCHANGED <<disconnectedAt, serverOpen, serverSubscribers, serverCall, isRunning,
                     stopping, stopCalls, blePeers, raced, mixed>>
      /\ gatts[g].phase = "connecting" /\ gatts[g].call = "none"
      /\ connecting' = connecting \ {m}
  BY <1>1 DEF GattConnected, Callback, serverVars, lifeVars
<1>3. PICK p \in {"connected", "closed"} :
        /\ Changed(g, p, "none")
        /\ p = "connected" => isRunning /\ connections' = [connections EXCEPT ![m] = g]
        /\ p = "closed" => connections' = connections
  BY <1>1, <1>2, ChangePhase DEF GattConnected, Phase
<1>4. /\ g \in OpenGatts(m)
      /\ m \notin raced => OpenGatts(m) = {g} /\ m \in connecting /\ connections[m] = 0
  BY <1>1, <1>2 DEF Owned, OpenGatts, TypeOK
<1>5. \A k : OpenGatts(k)' = IF p = "closed" THEN OpenGatts(k) \ {g} ELSE OpenGatts(k)
  BY <1>2, <1>3, OpenChanged
<1>6. \A k \in Mac : k # m => g \notin OpenGatts(k) /\ connections'[k] = connections[k]
  BY <1>1, <1>3 DEF OpenGatts, TypeOK
<1>7. StopOrder'
  <2>1. p = "connected" => stopCalls = {}
    BY <1>3 DEF StopOrder
  <2>2. ~stopping /\ stopCalls # {} => connecting = {} /\ m \in raced
    BY <1>4 DEF StopOrder
  <2>3. \A c \in stopCalls : c[1] \in Mac
    BY DEF TypeOK
  <2>4. \A c \in stopCalls : ~stopping /\ c[1] \notin raced => c[2] \in OpenGatts(c[1])'
    BY <1>5, <1>6, <2>2, <2>3 DEF StopOrder
  <2>5. QED
    BY <1>2, <1>3, <2>1, <2>2, <2>4 DEF StopOrder, Changed
<1>8. OwnMac'
  BY <1>1, <1>2, <1>3, <1>6, GattFacts DEF OwnMac, Changed, TypeOK
<1>9. Owned'
  <2> SUFFICES ASSUME NEW k \in Mac \ raced
               PROVE  \/ OpenGatts(k)' = {} /\ connections'[k] = 0 /\ k \notin connecting'
                      \/ \E h \in OpenGatts(k)' :
                           /\ OpenGatts(k)' = {h}
                           /\ IF gatts'[h].phase = "connecting" THEN k \in connecting' ELSE Held(k, h)'
    BY <1>2 DEF Owned
  <2>1. CASE k = m /\ p = "closed"
    BY <1>2, <1>3, <1>4, <1>5, <2>1
  <2>2. CASE k = m /\ p = "connected"
    BY <1>2, <1>3, <1>4, <1>5, <2>2 DEF Held, Changed, TypeOK
  <2>3. CASE k # m
    <3>1. OpenGatts(k)' = OpenGatts(k) /\ \A h \in OpenGatts(k) : gatts'[h] = gatts[h]
      BY <1>3, <1>5, <1>6, <2>3, GattFacts DEF Changed
    <3>2. \A h : Held(k, h)' <=> Held(k, h)
      BY <1>2, <1>6, <2>3 DEF Held
    <3>3. QED
      BY <1>2, <1>6, <2>3, <3>1, <3>2 DEF Owned
  <2>4. QED
    BY <2>1, <2>2, <2>3
<1>10. ReportIsTrue'
  <2>1. ASSUME NEW h \in DOMAIN gatts', gatts'[h].call = "connected", gatts'[h].mac \notin raced
        PROVE  gatts'[h].phase = "ready" /\ Held(gatts[h].mac, h)' /\ gatts[h].mac = gatts'[h].mac
    <3>1. h # g /\ h \in DOMAIN gatts /\ gatts'[h] = gatts[h]
      BY <1>3, <2>1 DEF Changed
    <3>2. gatts[h].phase = "ready" /\ Held(gatts[h].mac, h) /\ h \in OpenGatts(gatts[h].mac)
      BY <2>1, <3>1 DEF ReportIsTrue, OpenGatts
    <3>3. gatts[h].mac # m /\ gatts[h].mac \in Mac
      BY <1>4, <2>1, <3>1, <3>2, GattFacts
    <3>4. PICK k \in Mac : k = gatts[h].mac
      BY <3>3
    <3>5. Held(k, h)'
      BY <1>2, <1>6, <3>2, <3>3, <3>4 DEF Held
    <3>6. QED
      BY <3>1, <3>2, <3>4, <3>5 DEF Held
  <2>2. QED
    BY <1>2, <2>1 DEF ReportIsTrue, Held
<1>11. CooldownCovers'
  <2>1. \A h \in DOMAIN gatts' :
          gatts'[h].call = "disconnected" => h \in DOMAIN gatts /\ gatts'[h] = gatts[h]
    BY <1>2, <1>3 DEF Changed
  <2>2. \A h \in DOMAIN gatts : gatts[h].call = "disconnected" /\ gatts[h].mac \notin raced =>
          \A k \in DOMAIN gatts' : gatts'[k].mac = gatts[h].mac => gatts'[k].phase = "closed"
    BY <1>2, <1>3 DEF CooldownCovers, OpenGatts, Changed
  <2>3. QED
    BY <1>2, <2>1, <2>2 DEF CooldownCovers, OpenGatts
<1>12. Known'
  <2> SUFFICES ASSUME NEW k \in blePeers \ raced PROVE Routed(k)'
    BY <1>2 DEF Known
  <2>1. k \in Mac /\ Routed(k)
    BY DEF Known, TypeOK
  <2>2. (\E h \in DOMAIN gatts : gatts[h].mac = k /\ gatts[h].call = "disconnected") =>
          \E h \in DOMAIN gatts' : gatts'[h].mac = k /\ gatts'[h].call = "disconnected"
    BY <1>2, <1>3 DEF Changed
  <2>3. connections[k] # 0 => k # m /\ connections'[k] = connections[k]
    BY <1>4, <1>6, <2>1
  <2>4. connections[k] # 0 => gatts'[connections[k]] = gatts[connections[k]]
    BY <1>1, <1>3, <2>1, <2>3, GattFacts DEF Changed, OwnMac
  <2>5. QED
    BY <1>2, <2>1, <2>2, <2>3, <2>4 DEF Routed
<1>13. OneRole'
  <2>1. \A k \in Mac : IsClient(k)' => IsClient(k)
    BY <1>2, <1>3, <1>5 DEF IsClient, InClientCallback, Changed
  <2>2. QED
    BY <1>2, <1>5, <2>1 DEF OneRole, IsServed
<1>14. SetUpIsKnown'
  BY <1>2, <1>3, <1>5, GattFacts DEF SetUpIsKnown, Changed
<1>15. QED
  BY <1>7, <1>8, <1>9, <1>10, <1>11, <1>12, <1>13, <1>14

\* A connection ended: its object is closed and the end will be told, or stop
\* had taken it and will close and tell.
LEMMA GattDisconnectedStep ==
  ASSUME IInv, NEW g \in DOMAIN gatts, GattDisconnected(g)
  PROVE  Between'
<1> USE DEF IInv, Between
<1>1. PICK m \in Mac : m = gatts[g].mac
  BY GattFacts
<1>2. /\ UNCHANGED <<serverOpen, serverSubscribers, serverCall, isRunning,
                     stopping, stopCalls, blePeers, raced, mixed>>
      /\ gatts[g].phase \notin {"lost", "closed"} /\ gatts[g].call = "none"
      /\ disconnectedAt \subseteq disconnectedAt'
      /\ connecting' \subseteq connecting
  BY <1>1 DEF GattDisconnected, serverVars, lifeVars
<1>3. CASE connections[m] = 0 /\ m \notin connecting
  <2>1. Changed(g, "lost", "none") /\ UNCHANGED <<connections, connecting>>
    BY <1>1, <1>2, <1>3, ChangePhase DEF GattDisconnected, Phase
  <2>2. \A k : OpenGatts(k)' = OpenGatts(k)
    BY <1>2, <2>1, OpenChanged
  <2>3. g \in OpenGatts(m)
    BY <1>1, <1>2 DEF OpenGatts
  <2>4. m \notin raced => gatts[g].phase # "connecting"
    BY <1>3, <2>3 DEF Owned
  <2>5. StopOrder' /\ OwnMac'
    BY <1>2, <2>1, <2>2, GattFacts DEF StopOrder, OwnMac, Changed
  <2>6. Owned'
    <3>1. \A k \in Mac \ raced : \A h \in OpenGatts(k) :
            gatts'[h].phase = "connecting" <=> gatts[h].phase = "connecting"
      BY <1>1, <2>1, <2>4, GattFacts DEF Changed, OpenGatts
    <3>2. \A k \in Mac, h \in DOMAIN gatts : Held(k, h)' <=> Held(k, h)
      BY <1>2, <2>1 DEF Held
    <3>3. QED
      BY <1>2, <2>1, <2>2, <3>1, <3>2, GattFacts DEF Owned
  <2>7. ReportIsTrue'
    BY <1>2, <2>1 DEF ReportIsTrue, Changed, Held
  <2>8. CooldownCovers'
    <3>1. \A h \in DOMAIN gatts' :
            gatts'[h].call = "disconnected" => h \in DOMAIN gatts /\ gatts'[h] = gatts[h]
      BY <1>2, <2>1 DEF Changed
    <3>2. \A h \in DOMAIN gatts : gatts[h].call = "disconnected" /\ gatts[h].mac \notin raced =>
            \A k \in DOMAIN gatts' : gatts'[k].mac = gatts[h].mac => gatts'[k].phase = "closed"
      BY <1>2, <2>1 DEF CooldownCovers, OpenGatts, Changed
    <3>3. QED
      BY <1>2, <3>1, <3>2 DEF CooldownCovers, OpenGatts
  <2>9. Known'
    <3> SUFFICES ASSUME NEW k \in blePeers \ raced PROVE Routed(k)'
      BY <1>2 DEF Known
    <3>1. k \in Mac /\ Routed(k)
      BY DEF Known, TypeOK
    <3>2. (\E h \in DOMAIN gatts : gatts[h].mac = k /\ gatts[h].call = "disconnected") =>
            \E h \in DOMAIN gatts' : gatts'[h].mac = k /\ gatts'[h].call = "disconnected"
      BY <1>2, <2>1 DEF Changed
    <3>3. connections[k] # 0 => connections[k] # g
      BY <1>1, <1>3, <3>1 DEF OwnMac
    <3>4. connections[k] # 0 => gatts'[connections[k]] = gatts[connections[k]]
      BY <2>1, <3>1, <3>3, GattFacts DEF Changed
    <3>5. QED
      BY <1>2, <2>1, <3>1, <3>2, <3>4 DEF Routed
  <2>10. OneRole'
    <3>1. \A k \in Mac : IsClient(k)' => IsClient(k)
      BY <1>2, <2>1, <2>2 DEF IsClient, InClientCallback, Changed
    <3>2. QED
      BY <1>2, <2>2, <3>1 DEF OneRole, IsServed
  <2>11. SetUpIsKnown'
    BY <1>2, <2>1, <2>2, GattFacts DEF SetUpIsKnown, Changed
  <2>12. QED
    BY <2>5, <2>6, <2>7, <2>8, <2>9, <2>10, <2>11
<1>4. CASE ~(connections[m] = 0 /\ m \notin connecting)
  <2>1. Changed(g, "closed", "disconnected")
    BY <1>1, <1>4, ChangeBoth DEF GattDisconnected, CloseGatt, Phase, Call
  <2>2. /\ connections' = [connections EXCEPT ![m] = 0] /\ connecting' = connecting \ {m}
        /\ disconnectedAt' = disconnectedAt \cup {m}
    BY <1>1, <1>4 DEF GattDisconnected
  <2>3. \A k : OpenGatts(k)' = OpenGatts(k) \ {g}
    BY <2>1, OpenChanged
  <2>4. g \in OpenGatts(m) /\ (m \notin raced => OpenGatts(m) = {g} /\ OpenGatts(m)' = {})
    BY <1>1, <1>2, <2>3 DEF OpenGatts, Owned
  <2>5. \A k \in Mac : k # m => /\ g \notin OpenGatts(k) /\ connections'[k] = connections[k]
                                /\ connections[k] # g
    BY <1>1, <2>2, GattFacts DEF OpenGatts, OwnMac, TypeOK
  <2>6. connections'[m] = 0
    BY <2>2 DEF TypeOK
  <2>7. StopOrder'
    <3>1. ~stopping => stopCalls = {}
      BY <1>4 DEF StopOrder
    <3>2. QED
      BY <1>2, <3>1 DEF StopOrder
  <2>8. OwnMac'
    BY <2>1, <2>5, <2>6, GattFacts DEF OwnMac, Changed
  <2>9. Owned'
    <3> SUFFICES ASSUME NEW k \in Mac \ raced
                 PROVE  \/ OpenGatts(k)' = {} /\ connections'[k] = 0 /\ k \notin connecting'
                        \/ \E h \in OpenGatts(k)' :
                             /\ OpenGatts(k)' = {h}
                             /\ IF gatts'[h].phase = "connecting" THEN k \in connecting'
                                                                 ELSE Held(k, h)'
      BY <1>2 DEF Owned
    <3>1. CASE k = m
      BY <2>2, <2>4, <2>6, <3>1
    <3>2. CASE k # m
      <4>1. OpenGatts(k)' = OpenGatts(k) /\ \A h \in OpenGatts(k) : gatts'[h] = gatts[h]
        BY <2>1, <2>3, <2>5, <3>2, GattFacts DEF Changed
      <4>2. \A h : Held(k, h)' <=> Held(k, h)
        BY <1>2, <2>5, <3>2 DEF Held
      <4>3. QED
        BY <2>2, <2>5, <3>2, <4>1, <4>2 DEF Owned
    <3>3. QED
      BY <3>1, <3>2
  <2>10. ReportIsTrue'
    <3>1. ASSUME NEW h \in DOMAIN gatts', gatts'[h].call = "connected", gatts'[h].mac \notin raced
          PROVE  gatts'[h].phase = "ready" /\ Held(gatts[h].mac, h)' /\ gatts[h].mac = gatts'[h].mac
      <4>1. h # g /\ h \in DOMAIN gatts /\ gatts'[h] = gatts[h]
        BY <2>1, <3>1 DEF Changed
      <4>2. gatts[h].phase = "ready" /\ Held(gatts[h].mac, h) /\ h \in OpenGatts(gatts[h].mac)
        BY <3>1, <4>1 DEF ReportIsTrue, OpenGatts
      <4>3. gatts[h].mac # m /\ gatts[h].mac \in Mac
        BY <2>4, <3>1, <4>1, <4>2, GattFacts
      <4>4. PICK k \in Mac : k = gatts[h].mac
        BY <4>3
      <4>5. Held(k, h)'
        BY <1>2, <2>5, <4>2, <4>3, <4>4 DEF Held
      <4>6. QED
        BY <4>1, <4>2, <4>4, <4>5 DEF Held
    <3>2. QED
      BY <1>2, <3>1 DEF ReportIsTrue, Held
  <2>11. CooldownCovers'
    <3>1. ASSUME NEW h \in DOMAIN gatts', gatts'[h].call = "disconnected",
                 gatts'[h].mac \notin raced
          PROVE  /\ gatts'[h].mac \in disconnectedAt'
                 /\ \A i \in DOMAIN gatts' : gatts'[i].mac = gatts'[h].mac => gatts'[i].phase = "closed"
      <4>1. CASE h = g
        <5>1. gatts'[h].mac = m /\ OpenGatts(m)' = {}
          BY <1>1, <2>1, <2>4, <3>1, <4>1 DEF Changed
        <5>2. QED
          BY <2>2, <5>1 DEF OpenGatts
      <4>2. CASE h # g
        <5>1. h \in DOMAIN gatts /\ gatts'[h] = gatts[h]
          BY <2>1, <4>2 DEF Changed
        <5>2. /\ gatts[h].mac \in disconnectedAt
              /\ \A i \in DOMAIN gatts : gatts[i].mac = gatts[h].mac => gatts[i].phase = "closed"
          BY <3>1, <5>1 DEF CooldownCovers, OpenGatts
        <5>3. QED
          BY <1>2, <2>1, <5>1, <5>2 DEF Changed
      <4>3. QED
        BY <4>1, <4>2
    <3>2. QED
      BY <1>2, <3>1 DEF CooldownCovers, OpenGatts
  <2>12. Known'
    <3> SUFFICES ASSUME NEW k \in blePeers \ raced PROVE Routed(k)'
      BY <1>2 DEF Known
    <3>1. k \in Mac /\ Routed(k)
      BY DEF Known, TypeOK
    <3>2. CASE k = m
      BY <1>1, <2>1, <3>2 DEF Routed, Changed
    <3>3. CASE k # m
      <4>1. (\E h \in DOMAIN gatts : gatts[h].mac = k /\ gatts[h].call = "disconnected") =>
              \E h \in DOMAIN gatts' : gatts'[h].mac = k /\ gatts'[h].call = "disconnected"
        BY <1>2, <2>1 DEF Changed
      <4>2. connections[k] # 0 => gatts'[connections[k]] = gatts[connections[k]]
        BY <2>1, <2>5, <3>1, <3>3, GattFacts DEF Changed
      <4>3. QED
        BY <1>2, <2>5, <3>1, <3>3, <4>1, <4>2 DEF Routed
    <3>4. QED
      BY <3>2, <3>3
  <2>13. OneRole'
    <3>1. \A k \in Mac : IsClient(k)' => IsClient(k)
      BY <1>1, <2>1, <2>3, <2>4 DEF IsClient, InClientCallback, Changed
    <3>2. QED
      BY <1>2, <2>3, <3>1 DEF OneRole, IsServed
  <2>14. SetUpIsKnown'
    BY <1>2, <2>1, <2>3, GattFacts DEF SetUpIsKnown, Changed
  <2>15. QED
    BY <2>7, <2>8, <2>9, <2>10, <2>11, <2>12, <2>13, <2>14
<1>5. QED
  BY <1>3, <1>4

-----------------------------------------------------------------------------
(* The server callbacks                                                    *)

\* A central subscribes.
LEMMA SubscribeStep ==
  ASSUME IInv, NEW m \in Mac, Subscribe(m)
  PROVE  Between'
<1> USE DEF IInv, Between
<1>1. /\ UNCHANGED <<connecting, connections, disconnectedAt, gatts, serverOpen,
                     isRunning, stopping, stopCalls, blePeers, raced>>
      /\ serverOpen /\ serverCall[m] = "none"
      /\ serverSubscribers' = serverSubscribers \cup {m}
      /\ mixed \subseteq mixed' /\ (m \notin mixed' => ~IsClient(m))
  BY DEF Subscribe, clientVars, lifeVars
<1>2. /\ serverCall'[m] = "connected"
      /\ \A k \in Mac \ {m} : serverCall'[k] = serverCall[k]
  BY DEF Subscribe, TypeOK
<1>3. StopOrder' /\ OwnMac'
  BY <1>1 DEF StopOrder, OwnMac, OpenGatts
<1>4. Owned' /\ CooldownCovers'
  <2>1. \A k : OpenGatts(k)' = OpenGatts(k)
    BY <1>1 DEF OpenGatts
  <2>2. \A k, g : Held(k, g)' <=> Held(k, g)
    BY <1>1 DEF Held
  <2>3. Owned'
    BY <1>1, <2>1, <2>2 DEF Owned
  <2>4. CooldownCovers'
    BY <1>1, <2>1 DEF CooldownCovers
  <2>5. QED
    BY <2>3, <2>4
<1>5. ReportIsTrue'
  BY <1>1, <1>2 DEF ReportIsTrue, Held
<1>6. Known'
  <2> SUFFICES ASSUME NEW k \in blePeers \ raced PROVE Routed(k)'
    BY <1>1 DEF Known
  <2>1. k \in Mac /\ Routed(k)
    BY DEF Known, TypeOK
  <2>2. serverCall[k] = "disconnected" => serverCall'[k] = "disconnected"
    BY <1>1, <1>2, <2>1
  <2>3. QED
    BY <1>1, <2>1, <2>2 DEF Routed
<1>7. OneRole'
  <2> SUFFICES ASSUME NEW k \in Mac \ mixed'
               PROVE  /\ ~(IsServed(k)' /\ IsClient(k)')
                      /\ <<k, 0>> \in stopCalls => OpenGatts(k)' = {}
    BY <1>1 DEF OneRole
  <2>1. OpenGatts(k)' = OpenGatts(k) /\ (IsClient(k)' <=> IsClient(k))
    BY <1>1 DEF IsClient, OpenGatts, InClientCallback
  <2>2. k # m => (IsServed(k)' <=> IsServed(k))
    BY <1>1, <1>2 DEF IsServed
  <2>3. QED
    BY <1>1, <2>1, <2>2 DEF OneRole
<1>8. SetUpIsKnown'
  BY <1>1, <1>2 DEF SetUpIsKnown, OpenGatts
<1>9. QED
  BY <1>3, <1>4, <1>5, <1>6, <1>7, <1>8

\* A central unsubscribes or is gone.
LEMMA UnsubscribeStep ==
  ASSUME IInv, NEW m \in Mac, Unsubscribe(m)
  PROVE  Between'
<1> USE DEF IInv, Between
<1>1. /\ UNCHANGED <<connecting, connections, disconnectedAt, gatts, serverOpen,
                     isRunning, stopping, stopCalls, blePeers, raced, mixed>>
      /\ serverCall[m] = "none" /\ m \in serverSubscribers
      /\ serverSubscribers' = serverSubscribers \ {m}
  BY DEF Unsubscribe, clientVars, lifeVars
<1>2. /\ serverCall'[m] = "disconnected"
      /\ \A k \in Mac \ {m} : serverCall'[k] = serverCall[k]
  BY DEF Unsubscribe, TypeOK
<1>3. StopOrder' /\ OwnMac'
  BY <1>1 DEF StopOrder, OwnMac, OpenGatts
<1>4. Owned' /\ CooldownCovers'
  <2>1. \A k : OpenGatts(k)' = OpenGatts(k)
    BY <1>1 DEF OpenGatts
  <2>2. \A k, g : Held(k, g)' <=> Held(k, g)
    BY <1>1 DEF Held
  <2>3. Owned'
    BY <1>1, <2>1, <2>2 DEF Owned
  <2>4. CooldownCovers'
    BY <1>1, <2>1 DEF CooldownCovers
  <2>5. QED
    BY <2>3, <2>4
<1>5. ReportIsTrue'
  BY <1>1, <1>2 DEF ReportIsTrue, Held
<1>6. Known'
  <2> SUFFICES ASSUME NEW k \in blePeers \ raced PROVE Routed(k)'
    BY <1>1 DEF Known
  <2>1. k \in Mac /\ Routed(k)
    BY DEF Known, TypeOK
  <2>2. CASE k = m
    BY <1>2, <2>2 DEF Routed
  <2>3. CASE k # m
    BY <1>1, <1>2, <2>1, <2>3 DEF Routed
  <2>4. QED
    BY <2>2, <2>3
<1>7. OneRole'
  <2>1. \A k \in Mac : IsServed(k)' => IsServed(k)
    BY <1>1, <1>2 DEF IsServed
  <2>2. \A k \in Mac : OpenGatts(k)' = OpenGatts(k) /\ (IsClient(k)' <=> IsClient(k))
    BY <1>1 DEF IsClient, OpenGatts, InClientCallback
  <2>3. QED
    BY <1>1, <2>1, <2>2 DEF OneRole
<1>8. SetUpIsKnown'
  BY <1>1, <1>2 DEF SetUpIsKnown, OpenGatts
<1>9. QED
  BY <1>3, <1>4, <1>5, <1>6, <1>7, <1>8

\* Rust is told of a central.
LEMMA TellServerStep ==
  ASSUME IInv, NEW m \in Mac, TellServer(m)
  PROVE  Between'
<1> USE DEF IInv, Between
<1>1. /\ UNCHANGED <<connecting, connections, disconnectedAt, gatts, serverOpen,
                     serverSubscribers, isRunning, stopping, stopCalls, raced, mixed>>
      /\ serverCall[m] \in {"connected", "disconnected"}
      /\ serverCall[m] = "connected" => blePeers' = blePeers \cup {m}
      /\ serverCall[m] = "disconnected" => blePeers' = blePeers \ {m}
  BY DEF TellServer, clientVars, lifeVars, TypeOK, Call, Told
<1>2. /\ serverCall'[m] = "none"
      /\ \A k \in Mac \ {m} : serverCall'[k] = serverCall[k]
  BY DEF TellServer, TypeOK
<1>3. StopOrder' /\ OwnMac'
  BY <1>1 DEF StopOrder, OwnMac, OpenGatts
<1>4. Owned' /\ CooldownCovers'
  <2>1. \A k : OpenGatts(k)' = OpenGatts(k)
    BY <1>1 DEF OpenGatts
  <2>2. \A k, g : Held(k, g)' <=> Held(k, g)
    BY <1>1 DEF Held
  <2>3. Owned'
    BY <1>1, <2>1, <2>2 DEF Owned
  <2>4. CooldownCovers'
    BY <1>1, <2>1 DEF CooldownCovers
  <2>5. QED
    BY <2>3, <2>4
<1>5. ReportIsTrue'
  BY <1>1, <1>2 DEF ReportIsTrue, Held
<1>6. Known'
  <2> SUFFICES ASSUME NEW k \in blePeers' \ raced PROVE Routed(k)'
    BY <1>1 DEF Known
  <2>1. k \in Mac
    BY <1>1 DEF TypeOK
  <2>2. CASE k = m
    <3>1. serverCall[m] = "connected"
      BY <1>1, <2>2
    <3>2. m \in serverSubscribers
      BY <2>1, <2>2, <3>1 DEF ReportIsTrue
    <3>3. QED
      BY <1>1, <2>2, <3>2 DEF Routed
  <2>3. CASE k # m
    <3>1. Routed(k) /\ serverCall'[k] = serverCall[k]
      BY <1>1, <1>2, <2>1, <2>3 DEF Known
    <3>2. QED
      BY <1>1, <3>1 DEF Routed
  <2>4. QED
    BY <2>2, <2>3
<1>7. OneRole'
  <2>1. \A k \in Mac : IsServed(k)' => IsServed(k)
    BY <1>1, <1>2 DEF IsServed
  <2>2. \A k \in Mac : OpenGatts(k)' = OpenGatts(k) /\ (IsClient(k)' <=> IsClient(k))
    BY <1>1 DEF IsClient, OpenGatts, InClientCallback
  <2>3. QED
    BY <1>1, <2>1, <2>2 DEF OneRole
<1>8. SetUpIsKnown'
  <2> SUFFICES ASSUME NEW k \in Mac \ (raced \cup mixed)
               PROVE  /\ k \in serverSubscribers =>
                           k \in blePeers' \/ serverCall'[k] = "connected" \/ stopping
                      /\ \A h \in OpenGatts(k) : gatts[h].phase = "ready" =>
                           k \in blePeers' \/ gatts[h].call = "connected"
    BY <1>1 DEF SetUpIsKnown, OpenGatts
  <2>1. CASE k = m
    <3>1. serverCall[m] = "disconnected" => m \notin serverSubscribers
      BY DEF ReportIsTrue
    <3>2. OpenGatts(k) = {}
      BY <1>1, <2>1 DEF OneRole, IsServed, IsClient
    <3>3. QED
      BY <1>1, <2>1, <3>1, <3>2
  <2>2. CASE k # m
    BY <1>1, <1>2, <2>2 DEF SetUpIsKnown
  <2>3. QED
    BY <2>1, <2>2
<1>9. QED
  BY <1>3, <1>4, <1>5, <1>6, <1>7, <1>8

-----------------------------------------------------------------------------
(* The theorems                                                            *)

\* Every step keeps the inductive invariant.
LEMMA StepIInv == IInv /\ [Next]_vars => IInv'
<1> SUFFICES ASSUME IInv, [Next]_vars PROVE IInv'
  OBVIOUS
<1>1. CASE UNCHANGED vars
  <2> USE <1>1 DEF IInv, Between, vars, scanVars, clientVars, serverVars, lifeVars
  <2>1. TypeOK' /\ StopOrder' /\ OwnMac'
    BY DEF TypeOK, StopOrder, OwnMac, OpenGatts
  <2>2. Owned' /\ ReportIsTrue' /\ CooldownCovers'
    <3>1. \A k : OpenGatts(k)' = OpenGatts(k)
      BY DEF OpenGatts
    <3>2. \A k, g : Held(k, g)' <=> Held(k, g)
      BY DEF Held
    <3>3. Owned'
      BY <3>1, <3>2 DEF Owned
    <3>4. ReportIsTrue'
      BY <3>2 DEF ReportIsTrue
    <3>5. CooldownCovers'
      BY <3>1 DEF CooldownCovers
    <3>6. QED
      BY <3>3, <3>4, <3>5
  <2>3. Known' /\ OneRole' /\ SetUpIsKnown'
    BY DEF Known, Routed, OneRole, SetUpIsKnown, IsServed, IsClient, OpenGatts, InClientCallback
  <2>4. QED
    BY <2>1, <2>2, <2>3
<1>2. CASE Next
  <2>1. TypeOK'
    BY <1>2, TypeStep DEF IInv, Between
  <2>2. CASE Start \/ ScanFails \/ RestartScan \/ \E m \in Mac : EndCooldown(m)
    BY <2>1, <2>2, IdleStep DEF IInv
  <2>3. CASE StopServer \/ StopClients \/ InitNode
    BY <2>1, <2>3, StopServerStep, StopClientsStep, InitNodeStep DEF IInv
  <2>4. ASSUME NEW c \in stopCalls, StopCall(c[1], c[2]) PROVE IInv'
    <3>1. c[1] \in Mac
      BY DEF IInv, TypeOK
    <3>2. c[2] = 0 \/ c[2] \in DOMAIN gatts
      BY DEF IInv, Between, StopOrder
    <3>3. QED
      BY <2>1, <2>4, <3>1, <3>2, StopCentralStep, StopConnectionStep DEF IInv
  <2>5. CASE \E m \in Mac : ScanResult(m)
    BY <2>1, <2>5, ScanResultStep DEF IInv
  <2>6. ASSUME NEW g \in DOMAIN gatts,
               ServicesDiscovered(g) \/ MtuChanged(g) \/ CccdWritten(g)
        PROVE  IInv'
    <3>1. \E p \in Phase, c \in Call : Moves(g, p, c)
      BY <2>6, MovesFacts DEF IInv
    <3>2. QED
      BY <2>1, <3>1, MovesStep DEF IInv
  <2>7. CASE \E g \in DOMAIN gatts : GattConnected(g) \/ GattDisconnected(g) \/ TellClient(g)
    BY <2>1, <2>7, GattConnectedStep, GattDisconnectedStep, TellClientStep DEF IInv
  <2>8. CASE \E m \in Mac : Subscribe(m) \/ Unsubscribe(m) \/ TellServer(m)
    BY <2>1, <2>8, SubscribeStep, UnsubscribeStep, TellServerStep DEF IInv
  <2>9. QED
    BY <1>2, <2>2, <2>3, <2>4, <2>5, <2>6, <2>7, <2>8 DEF Next
<1>3. QED
  BY <1>1, <1>2

\* The inductive invariant holds in every reachable state.
LEMMA AlwaysIInv == Spec => []IInv
<1>1. QED
  BY InitIInv, StepIInv, PTL DEF Spec

\* Every variable keeps its type, and an address is connecting or connected, not
\* both.
THEOREM TypeCorrect == Spec => []TypeOK
<1>1. IInv => TypeOK
  BY DEF IInv
<1>2. QED
  BY <1>1, AlwaysIInv, PTL

\* No GATT object is lost by callbacks that come in any order: each is the one of
\* its address, or was closed.
THEOREM NoGattIsLost == Spec => []GattsAreOwned
<1>1. IInv => GattsAreOwned
  BY DEF IInv, Between, Owned, GattsAreOwned, Quiet, Held
<1>2. QED
  BY <1>1, AlwaysIInv, PTL

\* A peer the Rust side sends to has a role that takes its frames.
THEOREM KnownHaveRoute == Spec => []KnownPeersHaveRoute
<1>1. ASSUME IInv, Quiet, NEW m \in blePeers \ raced PROVE Route(m) # "drop"
  <2>1. m \in Mac /\ Routed(m)
    BY <1>1 DEF IInv, Between, TypeOK, Known
  <2>2. \/ m \in serverSubscribers
        \/ connections[m] # 0 /\ gatts[connections[m]].phase \in Routable
    BY <1>1, <2>1 DEF Routed, Quiet, InCallback, InClientCallback
  <2>3. QED
    BY <2>2 DEF Route, Routable
<1>2. IInv => KnownPeersHaveRoute
  BY <1>1 DEF KnownPeersHaveRoute
<1>3. QED
  BY <1>2, AlwaysIInv, PTL

\* A peer whose setup is complete is one the Rust side sends to.
THEOREM ReadyAreKnown == Spec => []ReadyPeersAreKnown
<1>1. ASSUME IInv, Quiet, NEW m \in Mac \ (raced \cup mixed)
      PROVE  \/ m \in blePeers
             \/ m \notin serverSubscribers
                /\ \A g \in OpenGatts(m) : gatts[g].phase # "ready"
  <2>1. serverCall[m] = "none" /\ ~stopping /\ \A g \in OpenGatts(m) : gatts[g].call = "none"
    BY <1>1 DEF Quiet, InCallback, InClientCallback, OpenGatts
  <2>2. QED
    BY <1>1, <2>1 DEF IInv, Between, SetUpIsKnown
<1>2. IInv => ReadyPeersAreKnown
  BY <1>1 DEF ReadyPeersAreKnown
<1>3. QED
  BY <1>2, AlwaysIInv, PTL

-----------------------------------------------------------------------------
(* iOS                                                                     *)

\* Until it is handed over, what iOS kept is all the manager has.
Restoring ==
  toRestore # {} =>
    /\ connectedPeripherals = {} /\ nusPeripherals = {}
    /\ discoveredUnpairedRNodes = {}

\* The setup of a device goes on while it is connected, and connected devices have
\* entries.
Linked(p) ==
  /\ p \in toRestore => link[p] \in {"connecting", "connected"} /\ setup[p] = "none"
  /\ setup[p] # "none" => link[p] \in {"connected", "leaving"}
  /\ link[p] = "connected" => p \in connectedPeripherals \cup toRestore
  /\ link[p] = "connected" /\ setup[p] \in {"notification", "ready"} => p \in txCharacteristics
  /\ p \in nusPeripherals \ overtaken =>
       link[p] = "leaving" \/ (link[p] = "connected" /\ setup[p] = "ready")

\* What a callback is about to report is still so, and is about a phone.
Reported(p) ==
  /\ p \in rnodes => /\ setup[p] # "notification" /\ clientCall[p] # "connected"
                     /\ centralCall[p] = "none"
  /\ clientCall[p] = "connected" => setup[p] = "ready"
  /\ clientCall[p] = "disconnected" => setup[p] = "none"
  /\ centralCall[p] = "connected" => p \in subscribedCentrals \cup overtaken
  /\ centralCall[p] = "disconnected" => p \notin subscribedCentrals
  /\ p \in subscribedCentrals \ overtaken => p \in subscribers /\ bleRunning

\* IosKnownPeersHaveRoute in between: or Rust is about to be told.
IosKnown(p) ==
  p \in rustPeers \ overtaken =>
    \/ p \in subscribedCentrals
    \/ p \in connectedPeripherals \cap txCharacteristics /\ link[p] = "connected"
    \/ link[p] = "leaving" \/ clientCall[p] = "disconnected"
    \/ centralCall[p] = "disconnected"

\* One role at a time.
IosOneRole(p) == p \notin dual => ~(HasClientRole(p) /\ HasServerRole(p))

\* IosReadyPeersAreKnown in between.
SetUp(p) ==
  p \notin rnodes \cup overtaken \cup dual =>
    /\ setup[p] = "ready" =>
         p \in rustPeers \/ clientCall[p] = "connected" \/ link[p] = "leaving"
    /\ p \in subscribedCentrals => p \in rustPeers \/ centralCall[p] = "connected"

\* EntriesComeToSomething in between: a link that is not up yet has a delegate.
Heard(p) ==
  p \notin overtaken \cup revived =>
    /\ p \in connectedPeripherals =>
         link[p] # "none" /\ (link[p] = "connected" => setup[p] # "none")
    /\ p \notin toRestore =>
         /\ link[p] = "connecting" => p \in delegates
         /\ link[p] = "connected" /\ setup[p] \in Waiting => p \in delegates

Device(p) ==
  Linked(p) /\ Reported(p) /\ IosKnown(p) /\ IosOneRole(p) /\ SetUp(p) /\ Heard(p)

\* The inductive invariant.
IosIInv == IosTypeOK /\ Restoring /\ \A p \in Mac : Device(p)

-----------------------------------------------------------------------------
(* The actions                                                             *)

\* The callbacks and requests about one device.
About(q) ==
  \/ DidDiscover(q) \/ ConnectRNode(q) \/ DisconnectRNode(q)
  \/ DidConnect(q) \/ DidFailToConnect(q) \/ DidDisconnect(q) \/ RetryConnect(q)
  \/ DidDiscoverServices(q) \/ DidDiscoverCharacteristics(q)
  \/ DidUpdateNotificationState(q) \/ EndSetup(q) \/ EndClientCallback(q)
  \/ DidSubscribe(q) \/ DidUnsubscribe(q) \/ EndServerCallback(q)
  \/ Notified(q) \/ NotifyRefused(q)

\* Nothing the invariant says of p changes.
Same(p) ==
  /\ link'[p] = link[p] /\ setup'[p] = setup[p]
  /\ clientCall'[p] = clientCall[p] /\ centralCall'[p] = centralCall[p]
  /\ p \in connectedPeripherals' <=> p \in connectedPeripherals
  /\ p \in txCharacteristics' <=> p \in txCharacteristics
  /\ p \in nusPeripherals' <=> p \in nusPeripherals
  /\ p \in delegates' <=> p \in delegates
  /\ p \in subscribedCentrals' <=> p \in subscribedCentrals
  /\ p \in subscribers' <=> p \in subscribers
  /\ p \in rustPeers' <=> p \in rustPeers
  /\ p \in overtaken' <=> p \in overtaken
  /\ p \in dual' <=> p \in dual
  /\ p \in revived' <=> p \in revived

\* A device keeps its part of the invariant if nothing changes for it.
LEMMA SameKeeps ==
  ASSUME NEW p \in Mac, Device(p), Same(p), UNCHANGED <<rnodes, bleRunning, toRestore>>
  PROVE  Device(p)'
<1>1. Linked(p)' /\ Reported(p)'
  BY DEF Device, Same, Linked, Reported
<1>2. IosKnown(p)' /\ IosOneRole(p)' /\ SetUp(p)' /\ Heard(p)'
  BY DEF Device, Same, IosKnown, IosOneRole, SetUp, Heard, HasClientRole, HasServerRole
<1>3. QED
  BY <1>1, <1>2 DEF Device

\* The step of one device changes nothing for the others, nor the life of the
\* manager.
LEMMA OthersStay ==
  ASSUME IosTypeOK, NEW q \in Mac, About(q)
  PROVE  /\ UNCHANGED <<rnodes, bleRunning, toRestore>>
         /\ \A p \in Mac \ {q} : Same(p)
<1>1. UNCHANGED <<rnodes, bleRunning, toRestore>>
  BY DEF About, managerVars, DidDiscover, ConnectRNode, DisconnectRNode, DidConnect,
    DidFailToConnect, DidDisconnect, RetryConnect, DidDiscoverServices,
    DidDiscoverCharacteristics, DidUpdateNotificationState, EndSetup,
    EndClientCallback, DidSubscribe, DidUnsubscribe, EndServerCallback, Notified,
    NotifyRefused
<1>2. ASSUME NEW p \in Mac \ {q} PROVE Same(p)
  <2> USE DEF IosTypeOK, Same, managerVars, peripheralVars, pairVars, centralVars,
        iosHistory, Connect, Adopt
  <2>1. CASE DidDiscover(q) \/ ConnectRNode(q) \/ DisconnectRNode(q)
    BY <2>1 DEF DidDiscover, ConnectRNode, DisconnectRNode
  <2>2. CASE DidConnect(q) \/ DidFailToConnect(q) \/ DidDisconnect(q) \/ RetryConnect(q)
    BY <2>2 DEF DidConnect, DidFailToConnect, DidDisconnect, RetryConnect
  <2>3. CASE DidDiscoverServices(q) \/ DidDiscoverCharacteristics(q) \/ EndSetup(q)
    BY <2>3 DEF DidDiscoverServices, DidDiscoverCharacteristics, EndSetup
  <2>4. CASE DidUpdateNotificationState(q) \/ EndClientCallback(q)
    BY <2>4 DEF DidUpdateNotificationState, EndClientCallback, Told
  <2>5. CASE DidSubscribe(q) \/ DidUnsubscribe(q) \/ EndServerCallback(q)
    BY <2>5 DEF DidSubscribe, DidUnsubscribe, EndServerCallback, Told
  <2>6. CASE Notified(q) \/ NotifyRefused(q)
    BY <2>6 DEF Notified, NotifyRefused, DropCentral
  <2>7. QED
    BY <2>1, <2>2, <2>3, <2>4, <2>5, <2>6 DEF About
<1>3. QED
  BY <1>1, <1>2

\* The finding of a device and the requests of the application.
LEMMA FindStep ==
  ASSUME IosIInv, NEW q \in Mac,
         DidDiscover(q) \/ ConnectRNode(q) \/ DisconnectRNode(q)
  PROVE  Device(q)'
<1> USE DEF IosIInv, IosTypeOK, managerVars, peripheralVars, pairVars, centralVars,
      iosHistory, Connect, Adopt, CentralQueueIdle
<1>1. Device(q)
  OBVIOUS
<1>2. Restoring
  OBVIOUS
<1>3. CASE DidDiscover(q)
  BY <1>1, <1>3 DEF DidDiscover, Device, Linked, Reported, IosKnown, IosOneRole, SetUp, Heard, HasClientRole, HasServerRole
<1>4. CASE ConnectRNode(q)
  BY <1>1, <1>2, <1>4 DEF Restoring, ConnectRNode, Device, Linked, Reported, IosKnown, IosOneRole, SetUp, Heard, HasClientRole, HasServerRole
<1>5. CASE DisconnectRNode(q)
  BY <1>1, <1>2, <1>5 DEF Restoring, DisconnectRNode, Device, Linked, Reported, IosKnown, IosOneRole, SetUp, Heard, HasClientRole, HasServerRole
<1>6. QED
  BY <1>3, <1>4, <1>5

\* The link of a device goes up and down.
LEMMA LinkStep ==
  ASSUME IosIInv, NEW q \in Mac,
         DidConnect(q) \/ DidFailToConnect(q) \/ DidDisconnect(q) \/ RetryConnect(q)
  PROVE  Device(q)'
<1> USE DEF IosIInv, IosTypeOK, managerVars, peripheralVars, pairVars, centralVars,
      iosHistory, Connect, CentralQueueIdle, Device, Linked, Reported, IosKnown, IosOneRole,
      SetUp, Heard, HasClientRole, HasServerRole, Waiting
<1>1. CASE DidConnect(q)
  BY <1>1 DEF DidConnect
<1>2. CASE DidFailToConnect(q)
  BY <1>2 DEF DidFailToConnect
<1>3. CASE DidDisconnect(q)
  BY <1>3 DEF DidDisconnect
<1>4. CASE RetryConnect(q)
  BY <1>4 DEF RetryConnect
<1>5. QED
  BY <1>1, <1>2, <1>3, <1>4

\* The setup of a connection.
LEMMA SetupStep ==
  ASSUME IosIInv, NEW q \in Mac,
         \/ DidDiscoverServices(q) \/ DidDiscoverCharacteristics(q)
         \/ DidUpdateNotificationState(q) \/ EndSetup(q) \/ EndClientCallback(q)
  PROVE  Device(q)'
<1> USE DEF IosIInv, IosTypeOK, managerVars, peripheralVars, pairVars, centralVars,
      iosHistory, Answer, CentralQueueIdle, Device, Linked, Reported, IosKnown, IosOneRole,
      SetUp, Heard, HasClientRole, HasServerRole, Waiting
<1>1. CASE DidDiscoverServices(q) \/ EndSetup(q)
  BY <1>1 DEF DidDiscoverServices, EndSetup
<1>2. CASE DidDiscoverCharacteristics(q)
  BY <1>2 DEF DidDiscoverCharacteristics
<1>3. CASE DidUpdateNotificationState(q)
  BY <1>3 DEF DidUpdateNotificationState
<1>4. CASE EndClientCallback(q)
  BY <1>4 DEF EndClientCallback, Told
<1>5. QED
  BY <1>1, <1>2, <1>3, <1>4

\* The server role.
LEMMA ServerStep ==
  ASSUME IosIInv, NEW q \in Mac,
         \/ DidSubscribe(q) \/ DidUnsubscribe(q) \/ EndServerCallback(q)
         \/ Notified(q) \/ NotifyRefused(q)
  PROVE  Device(q)'
<1> USE DEF IosIInv, IosTypeOK, managerVars, peripheralVars, pairVars, centralVars,
      iosHistory, Device, Linked, Reported, IosKnown, IosOneRole, SetUp, Heard,
      HasClientRole, HasServerRole
<1>1. CASE DidSubscribe(q)
  BY <1>1 DEF DidSubscribe
<1>2. CASE DidUnsubscribe(q)
  BY <1>2 DEF DidUnsubscribe
<1>3. CASE EndServerCallback(q)
  BY <1>3 DEF EndServerCallback, Told
<1>4. CASE Notified(q) \/ NotifyRefused(q)
  BY <1>4 DEF Notified, NotifyRefused, DropCentral
<1>5. QED
  BY <1>1, <1>2, <1>3, <1>4

-----------------------------------------------------------------------------
(* The manager                                                             *)

\* start, stop, init, restoration and the death of the process.
LEMMA ManagerStep ==
  ASSUME IosIInv, NEW p \in Mac,
         StartManagers \/ WillRestoreState \/ StopManagers \/ ClearRustPeers \/ Die
  PROVE  Device(p)'
<1> USE DEF IosIInv, IosTypeOK, managerVars, peripheralVars, pairVars, centralVars,
      iosHistory, Restoring, Device, Linked, Reported, IosKnown, IosOneRole, SetUp, Heard,
      HasClientRole, HasServerRole, InIosCallback, Waiting
<1>1. CASE StartManagers
  BY <1>1 DEF StartManagers
<1>2. CASE WillRestoreState
  BY <1>2 DEF WillRestoreState
<1>3. CASE StopManagers
  BY <1>3 DEF StopManagers
<1>4. CASE ClearRustPeers
  BY <1>4 DEF ClearRustPeers
<1>5. CASE Die
  BY <1>5 DEF Die
<1>6. QED
  BY <1>1, <1>2, <1>3, <1>4, <1>5

\* Every step keeps the types, and Restoring.
LEMMA IosTypeStep == ASSUME IosIInv, IosNext PROVE IosTypeOK' /\ Restoring'
<1> USE IosBleAssumption
      DEF IosIInv, IosTypeOK, Restoring, managerVars, peripheralVars, pairVars,
      centralVars, iosHistory, Connect, Adopt, Link, Setup, Waiting, Call
<1>1. CASE StartManagers \/ WillRestoreState \/ StopManagers \/ ClearRustPeers
  BY <1>1 DEF StartManagers, WillRestoreState, StopManagers, ClearRustPeers
<1>2. CASE Die
  <2>1. txUpdateFailures' \in [Mac -> 0 .. TxUpdateFailureThreshold - 1]
    BY <1>2 DEF Die
  <2>2. PICK kept \in SUBSET {p \in Mac : link[p] \in {"connecting", "connected"}} :
          toRestore' = kept /\ link' = [p \in Mac |-> IF p \in kept THEN link[p] ELSE "none"]
    BY <1>2 DEF Die
  <2>3. toRestore' \subseteq {p \in Mac : link'[p] # "none"} /\ link' \in [Mac -> Link]
    BY <2>2
  <2>4. /\ setup' \in [Mac -> Setup]
        /\ clientCall' \in [Mac -> Call] /\ centralCall' \in [Mac -> Call]
    BY <1>2 DEF Die
  <2>5. /\ connectedPeripherals' = {} /\ txCharacteristics' = {} /\ nusPeripherals' = {}
        /\ discoveredUnpairedRNodes' = {} /\ delegates' = {} /\ retries' = {}
        /\ subscribedCentrals' = {} /\ subscribers' = {} /\ rustPeers' = {}
        /\ overtaken' = {} /\ dual' = {} /\ revived' = {}
        /\ bleRunning' = FALSE /\ late' = FALSE
        /\ UNCHANGED <<rnodes, bondedPeripherals>>
    BY <1>2 DEF Die
  <2>6. QED
    BY <2>1, <2>3, <2>4, <2>5
<1>3. ASSUME NEW q \in Mac, DidDiscover(q) \/ ConnectRNode(q) \/ DisconnectRNode(q)
      PROVE  IosTypeOK' /\ Restoring'
  BY <1>3 DEF DidDiscover, ConnectRNode, DisconnectRNode
<1>4. ASSUME NEW q \in Mac,
             DidConnect(q) \/ DidFailToConnect(q) \/ DidDisconnect(q) \/ RetryConnect(q)
      PROVE  IosTypeOK' /\ Restoring'
  BY <1>4 DEF DidConnect, DidFailToConnect, DidDisconnect, RetryConnect, Retried
<1>5. ASSUME NEW q \in Mac, DidDiscoverServices(q) \/ EndSetup(q)
      PROVE  IosTypeOK' /\ Restoring'
  BY <1>5 DEF DidDiscoverServices, EndSetup
<1>6. ASSUME NEW q \in Mac, DidDiscoverCharacteristics(q) \/ DidUpdateNotificationState(q)
      PROVE  IosTypeOK' /\ Restoring'
  <2>1. toRestore = {}
    BY <1>6 DEF Device, Linked, DidDiscoverCharacteristics, DidUpdateNotificationState, Answer
  <2>2. QED
    BY <1>6, <2>1 DEF DidDiscoverCharacteristics, DidUpdateNotificationState
<1>7. ASSUME NEW q \in Mac, EndClientCallback(q) PROVE IosTypeOK' /\ Restoring'
  <2>1. q \in rnodes => clientCall[q] # "connected"
    BY DEF Device, Reported
  <2>2. QED
    BY <1>7, <2>1 DEF EndClientCallback, Told, Retried
<1>8. ASSUME NEW q \in Mac, DidSubscribe(q) \/ DidUnsubscribe(q) \/ Notified(q)
      PROVE  IosTypeOK' /\ Restoring'
  <2>1. txUpdateFailures' \in [Mac -> 0 .. TxUpdateFailureThreshold - 1]
    BY <1>8 DEF DidSubscribe, DidUnsubscribe, Notified
  <2>2. QED
    BY <1>8, <2>1, ZenonT(30) DEF DidSubscribe, DidUnsubscribe, Notified
<1>9. ASSUME NEW q \in Mac, EndServerCallback(q) PROVE IosTypeOK' /\ Restoring'
  <2>1. q \notin rnodes
    BY <1>9 DEF Device, Reported, EndServerCallback
  <2>2. QED
    BY <1>9, <2>1 DEF EndServerCallback, Told
<1>10. ASSUME NEW q \in Mac, NotifyRefused(q) PROVE IosTypeOK' /\ Restoring'
  BY <1>10 DEF NotifyRefused, DropCentral
<1>11. QED
  BY <1>1, <1>2, <1>3, <1>4, <1>5, <1>6, <1>7, <1>8, <1>9, <1>10 DEF IosNext

-----------------------------------------------------------------------------
(* The invariant, and what follows from it                                 *)

\* The initial state satisfies the invariant.
LEMMA IosInitIInv == IosInit => IosIInv
<1> SUFFICES ASSUME IosInit PROVE IosIInv
  OBVIOUS
<1> USE DEF IosInit
<1>1. IosTypeOK
  <2>1. txUpdateFailures \in [Mac -> 0 .. TxUpdateFailureThreshold - 1]
    BY IosBleAssumption
  <2>2. QED
    BY <2>1 DEF IosTypeOK, Link, Setup, Call
<1>2. Restoring
  BY DEF Restoring
<1>3. ASSUME NEW p \in Mac PROVE Device(p)
  BY DEF Device, Linked, Reported, IosKnown, IosOneRole, SetUp, Heard, HasClientRole, HasServerRole
<1>4. QED
  BY <1>1, <1>2, <1>3 DEF IosIInv

\* Every step keeps the invariant.
LEMMA IosStepIInv == IosIInv /\ [IosNext]_iosVars => IosIInv'
<1> SUFFICES ASSUME IosIInv, [IosNext]_iosVars PROVE IosIInv'
  OBVIOUS
<1>1. CASE UNCHANGED iosVars
  <2>1. IosTypeOK' /\ Restoring'
    BY <1>1 DEF IosIInv, IosTypeOK, Restoring, iosVars, peripheralVars, pairVars,
      centralVars, managerVars, iosHistory
  <2>2. ASSUME NEW p \in Mac PROVE Device(p)'
    <3>1. Same(p) /\ UNCHANGED <<rnodes, bleRunning, toRestore>>
      BY <1>1 DEF Same, iosVars, peripheralVars, pairVars, centralVars, managerVars, iosHistory
    <3>2. QED
      BY <3>1, SameKeeps DEF IosIInv
  <2>3. QED
    BY <2>1, <2>2 DEF IosIInv
<1>2. CASE IosNext
  <2>1. IosTypeOK' /\ Restoring'
    BY <1>2, IosTypeStep
  <2>2. CASE StartManagers \/ WillRestoreState \/ StopManagers \/ ClearRustPeers \/ Die
    BY <2>1, <2>2, ManagerStep DEF IosIInv
  <2>3. ASSUME NEW q \in Mac, About(q) PROVE IosIInv'
    <3>1. Device(q)'
      BY <2>3, FindStep, LinkStep, SetupStep, ServerStep DEF About
    <3>2. ASSUME NEW p \in Mac \ {q} PROVE Device(p)'
      BY <2>3, OthersStay, SameKeeps DEF IosIInv
    <3>3. QED
      BY <2>1, <3>1, <3>2 DEF IosIInv
  <2>4. QED
    BY <1>2, <2>2, <2>3 DEF IosNext, About
<1>3. QED
  BY <1>1, <1>2

\* The inductive invariant holds in every reachable state.
LEMMA IosAlwaysIInv == IosSpec => []IosIInv
<1>1. QED
  BY IosInitIInv, IosStepIInv, PTL DEF IosSpec

\* Every variable keeps its type: Rust never hears of an RNode, and a posted count
\* of refusals stays below the threshold.
THEOREM IosTypeCorrect == IosSpec => []IosTypeOK
<1>1. IosIInv => IosTypeOK
  BY DEF IosIInv
<1>2. QED
  BY <1>1, IosAlwaysIInv, PTL

\* A peer the Rust side sends to has a role of BLEManager that takes its frames.
THEOREM IosKnownHaveRoute == IosSpec => []IosKnownPeersHaveRoute
<1>1. ASSUME IosIInv, NEW p \in rustPeers \ overtaken, Settled(p)
      PROVE  IosRoute(p) \in {"notify", "write"}
  <2>1. p \in Mac /\ Device(p)
    BY <1>1 DEF IosIInv, IosTypeOK
  <2>2. QED
    BY <1>1, <2>1 DEF Device, IosKnown, Reported, Settled, InIosCallback, IosRoute
<1>2. IosIInv => IosKnownPeersHaveRoute
  BY <1>1 DEF IosKnownPeersHaveRoute
<1>3. QED
  BY <1>2, IosAlwaysIInv, PTL

\* A phone whose setup is complete is one the Rust side sends to.
THEOREM IosReadyAreKnown == IosSpec => []IosReadyPeersAreKnown
<1>1. IosIInv => IosReadyPeersAreKnown
  BY DEF IosIInv, IosReadyPeersAreKnown, Device, SetUp, Settled, InIosCallback
<1>2. QED
  BY <1>1, IosAlwaysIInv, PTL

\* An entry that hides a device from the scan stands for a link whose answers are
\* heard.
THEOREM EntriesAreAlive == IosSpec => []EntriesComeToSomething
<1>1. ASSUME IosIInv,
             NEW p \in (connectedPeripherals \cup nusPeripherals) \ (overtaken \cup revived)
      PROVE  /\ link[p] # "none"
             /\ link[p] = "connected" => setup[p] # "none"
             /\ link[p] # "leaving" /\ setup[p] \in Waiting => p \in delegates
  <2>1. p \in Mac /\ Linked(p) /\ Heard(p)
    BY <1>1 DEF IosIInv, IosTypeOK, Device
  <2>2. toRestore = {}
    BY <1>1 DEF IosIInv, Restoring
  <2>3. QED
    BY <1>1, <2>1, <2>2 DEF Linked, Heard, Waiting
<1>2. IosIInv => EntriesComeToSomething
  BY <1>1 DEF EntriesComeToSomething
<1>3. QED
  BY <1>2, IosAlwaysIInv, PTL
=============================================================================
