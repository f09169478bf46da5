---------------------------- MODULE NusLinkProofs ----------------------------
(***************************************************************************)
(* Proofs about NusLink for any set of RNodes, any traffic and any bounds: *)
(* an RNode has at most one connection, and damage to the stream of bytes  *)
(* is local.                                                               *)
(*                                                                         *)
(* OnePipePerRNode asks nothing of an RNode that stop found connecting, and*)
(* unpairRNode disconnects whatever object stands in connections: were that*)
(* one closed already, it would count as open again.  ConnectedIsOpen says *)
(* that it never is.                                                       *)
(*                                                                         *)
(* DamageIsLocal is about the whole history of one deframer.  LinkInv says *)
(* that what was read are bytes of the streams and that the deframer and   *)
(* the packets are what History makes of them, byte by byte, wherever the  *)
(* polls cut them.  The rest is about such a history alone: a frame that   *)
(* lies in the bytes in one piece is completed at its last byte, whatever  *)
(* was read before (Decoded), so its packet is received as often as it     *)
(* lies there (IntactReceived).  Each packet received has a delimiter that *)
(* opened its frame and one that ended it, and no two of these stretches   *)
(* overlap (OneByOne); a stretch without a seam is a frame that was sent   *)
(* (Piece), and the others have a seam each (FewSpurious).                 *)
(*                                                                         *)
(* The last part is about the HDLC deframer that all BLE peers share, for  *)
(* any state of it and any payload.                                        *)
(***************************************************************************)
EXTENDS NusLink, FiniteSetTheorems, SequenceTheorems, WellFoundedInduction, TLAPS

\* The object that stands in connections for an RNode is one of its own, open,
\* and past the attempt to connect.
ConnectedIsOpen ==
  \A m \in RNode :
    connections[m] # 0 => /\ connections[m] \in OpenGatts(m)
                          /\ gatts[connections[m]].phase # "connecting"

\* The inductive invariant.
IInv == NusTypeOK /\ ConnectedIsOpen /\ OnePipePerRNode

\* What a step may do to the objects.
Untouched == UNCHANGED <<gatts, connecting, connections>>

\* One more attempt to connect m, from any of the four ways to a connection.
Attempt(m) ==
  /\ MayConnect(m)
  /\ connecting' = connecting \cup {m}
  /\ gatts' = Append(gatts, [rnode |-> m, phase |-> "connecting"])
  /\ connections' = connections

\* The inductive invariant holds before anything is connected.
LEMMA InitIInv == Init => IInv
<1> SUFFICES ASSUME Init PROVE IInv
  OBVIOUS
<1> USE DEF Init, NusInit
<1>1. NusTypeOK
  <2>1. budget \in [BoundedKind -> Nat]
    BY BudgetsAssumption
  <2>2. gatts \in Seq([rnode : RNode, phase : Phase]) /\ Len(gatts) = 0
    OBVIOUS
  <2>3. connections \in [RNode -> 0 .. Len(gatts)]
    BY <2>2
  <2>4. isRunning \in BOOLEAN /\ isScanning \in BOOLEAN /\ scanRestart \in BOOLEAN
    OBVIOUS
  <2>5. QED
    BY <2>1, <2>2, <2>3, <2>4 DEF NusTypeOK
<1>2. ConnectedIsOpen
  BY DEF ConnectedIsOpen
<1>3. OnePipePerRNode
  BY DEF OnePipePerRNode, OpenGatts
<1>4. QED
  BY <1>1, <1>2, <1>3 DEF IInv

\* A budget that is spent stays a record of natural numbers.
LEMMA SpendType ==
  ASSUME NusTypeOK, NEW kind \in BoundedKind, Spend(kind)
  PROVE  budget' \in [BoundedKind -> Nat]
  BY DEF NusTypeOK, Spend

-----------------------------------------------------------------------------
(* Types                                                                   *)

Object == [rnode : RNode, phase : Phase]

\* The objects are numbered from 1, and each is an Object.
LEMMA ObjectType ==
  ASSUME NusTypeOK
  PROVE  /\ Len(gatts) \in Nat /\ DOMAIN gatts = 1 .. Len(gatts)
         /\ \A g \in DOMAIN gatts : gatts[g] \in Object /\ gatts[g].rnode \in RNode /\ g # 0
<1>1. gatts \in Seq(Object)
  BY DEF NusTypeOK, Object
<1>2. \A g \in DOMAIN gatts : gatts[g] \in Object
  BY <1>1
<1>3. \A x \in Object : x.rnode \in RNode
  BY DEF Object
<1>4. QED
  BY <1>1, <1>2, <1>3

\* A function on 1 .. n is a sequence of length n.
LEMMA IsSeq ==
  ASSUME NEW S, NEW n \in Nat, NEW s \in [1 .. n -> S]
  PROVE  s \in Seq(S) /\ Len(s) = n
  OBVIOUS

\* Objects whose phase changes are objects of the same RNodes.
LEMMA PhaseType ==
  ASSUME NusTypeOK, NEW S \in SUBSET DOMAIN gatts, NEW p \in Phase,
         gatts' = [g \in DOMAIN gatts |->
                     IF g \in S THEN [gatts[g] EXCEPT !.phase = p] ELSE gatts[g]]
  PROVE  /\ gatts' \in Seq(Object) /\ Len(gatts') = Len(gatts)
         /\ \A g \in DOMAIN gatts :
              /\ gatts'[g].rnode = gatts[g].rnode
              /\ gatts'[g].phase = IF g \in S THEN p ELSE gatts[g].phase
<1>1. gatts \in Seq(Object) /\ Len(gatts) \in Nat /\ DOMAIN gatts = 1 .. Len(gatts)
  BY DEF NusTypeOK, Object
<1>2. \A g \in DOMAIN gatts : gatts[g] \in Object
  BY <1>1
<1>3. \A x \in Object : /\ [x EXCEPT !.phase = p] \in Object
                        /\ [x EXCEPT !.phase = p].rnode = x.rnode
                        /\ [x EXCEPT !.phase = p].phase = p
  BY DEF Object
<1>4. gatts' \in [1 .. Len(gatts) -> Object]
  BY <1>1, <1>2, <1>3
<1>5. gatts' \in Seq(Object) /\ Len(gatts') = Len(gatts)
  BY <1>1, <1>4, IsSeq
<1>6. QED
  BY <1>1, <1>2, <1>3, <1>5

\* The same of one object.
LEMMA OnePhaseType ==
  ASSUME NusTypeOK, NEW g \in DOMAIN gatts, NEW p \in Phase,
         gatts' = [gatts EXCEPT ![g].phase = p]
  PROVE  /\ gatts' \in Seq(Object) /\ Len(gatts') = Len(gatts)
         /\ gatts'[g].rnode = gatts[g].rnode /\ gatts'[g].phase = p
         /\ \A h \in DOMAIN gatts \ {g} : gatts'[h] = gatts[h]
<1>1. gatts \in Seq(Object) /\ Len(gatts) \in Nat /\ DOMAIN gatts = 1 .. Len(gatts)
  BY DEF NusTypeOK, Object
<1>2. gatts' = [h \in DOMAIN gatts |->
                  IF h \in {g} THEN [gatts[h] EXCEPT !.phase = p] ELSE gatts[h]]
  BY <1>1
<1>3. {g} \in SUBSET DOMAIN gatts
  OBVIOUS
<1>4. /\ gatts' \in Seq(Object) /\ Len(gatts') = Len(gatts)
      /\ \A h \in DOMAIN gatts :
           /\ gatts'[h].rnode = gatts[h].rnode
           /\ gatts'[h].phase = IF h \in {g} THEN p ELSE gatts[h].phase
  BY <1>2, <1>3, PhaseType, ZenonT(30)
<1>5. \A h \in DOMAIN gatts \ {g} : gatts'[h] = gatts[h]
  BY <1>1
<1>6. QED
  BY <1>4, <1>5, ZenonT(30)

\* One more object.
LEMMA AttemptType ==
  ASSUME NusTypeOK, NEW m \in RNode, Attempt(m)
  PROVE  /\ gatts' \in Seq(Object) /\ Len(gatts') = Len(gatts) + 1
         /\ gatts'[Len(gatts) + 1] = [rnode |-> m, phase |-> "connecting"]
         /\ \A g \in DOMAIN gatts : gatts'[g] = gatts[g]
<1>1. gatts \in Seq(Object) /\ [rnode |-> m, phase |-> "connecting"] \in Object
  BY DEF NusTypeOK, Object, Phase
<1>2. gatts' = Append(gatts, [rnode |-> m, phase |-> "connecting"])
  BY DEF Attempt
<1>3. QED
  BY <1>1, <1>2

\* The steps about one object that change its phase and keep it open, with the
\* phases before and after.
Continues(g, p) ==
  /\ gatts[g].phase \notin {"lost", "closed"} /\ p \notin {"lost", "closed", "connecting"}
  /\ gatts' = [gatts EXCEPT ![g].phase = p]

\* A step of the manager keeps the types.
LEMMA TypeStep ==
  ASSUME NusTypeOK, NusNext
  PROVE  NusTypeOK'
<1> USE DEF scanVars, gattVars, lifeVars
<1>0. /\ {"gatts", "stops", "unpairs", "scanFails"} \subseteq BoundedKind
      /\ {"connecting", "connected", "discovering", "subscribing", "ready", "leaving",
          "lost", "closed"} = Phase
      /\ [rnode : RNode, phase : Phase] = Object
  BY DEF BoundedKind, Phase, Object
<1>1. CASE Start
  BY <1>1 DEF Start, NusTypeOK
<1>2. CASE Stop
  <2>1. budget' \in [BoundedKind -> Nat]
    BY <1>0, <1>2, SpendType DEF Stop
  <2> DEFINE S == {g \in DOMAIN gatts : connections[gatts[g].rnode] = g}
  <2>2. gatts' = [g \in DOMAIN gatts |->
                    IF g \in S THEN [gatts[g] EXCEPT !.phase = "closed"] ELSE gatts[g]]
    BY <1>2 DEF Stop
  <2>3. gatts' \in Seq(Object) /\ Len(gatts') = Len(gatts)
    BY <1>0, <2>2, PhaseType
  <2>4. connections' \in [RNode -> 0 .. Len(gatts')]
    BY <1>2, <2>3 DEF Stop, NusTypeOK
  <2>5. QED
    BY <1>0, <1>2, <2>1, <2>3, <2>4 DEF Stop, NusTypeOK
<1>3. CASE ScanFails
  BY <1>0, <1>3, SpendType DEF ScanFails, NusTypeOK
<1>4. CASE RestartScan
  BY <1>4 DEF RestartScan, NusTypeOK
<1>5. ASSUME NEW m \in RNode,
             ScanResult(m) \/ PairBonded(m) \/ Bond(m) \/ Reconnect(m)
      PROVE  NusTypeOK'
  <2>1. budget' \in [BoundedKind -> Nat]
    BY <1>0, <1>5, SpendType DEF ScanResult, PairBonded, Connect, Bond, Reconnect, NusTypeOK
  <2>2. Untouched \/ Attempt(m)
    BY <1>5 DEF ScanResult, PairBonded, Connect, Bond, Reconnect, Untouched, Attempt
  <2>3. /\ gatts' \in Seq(Object)
        /\ connections' \in [RNode -> 0 .. Len(gatts')] /\ connecting' \subseteq RNode
    <3>1. CASE Untouched
      BY <1>0, <3>1 DEF Untouched, NusTypeOK
    <3>2. CASE Attempt(m)
      BY <1>0, <3>2, AttemptType DEF Attempt, NusTypeOK
    <3>3. QED
      BY <2>2, <3>1, <3>2
  <2>4. QED
    BY <1>0, <1>5, <2>1, <2>3
    DEF ScanResult, PairBonded, Connect, Bond, Reconnect, NusTypeOK
<1>6. ASSUME NEW m \in RNode, UnpairRNode(m) PROVE NusTypeOK'
  <2>1. budget' \in [BoundedKind -> Nat]
    BY <1>0, <1>6, SpendType DEF UnpairRNode
  <2>2. connections[m] \in DOMAIN gatts
    BY <1>6 DEF UnpairRNode, NusTypeOK
  <2>3. gatts' \in Seq(Object) /\ Len(gatts') = Len(gatts)
    BY <1>0, <1>6, <2>2, OnePhaseType DEF UnpairRNode
  <2>4. QED
    BY <1>0, <1>6, <2>1, <2>3 DEF UnpairRNode, NusTypeOK
<1>7. ASSUME NEW g \in DOMAIN gatts,
             \/ GattConnected(g) \/ MtuChanged(g) \/ ServicesDiscovered(g)
             \/ DescriptorWritten(g) \/ GattDisconnected(g)
      PROVE  NusTypeOK'
  <2>1. PICK p \in Phase : gatts' = [gatts EXCEPT ![g].phase = p]
    BY <1>0, <1>7 DEF GattConnected, MtuChanged, ServicesDiscovered, DescriptorWritten,
         GattDisconnected, Advance
  <2>2. gatts' \in Seq(Object) /\ Len(gatts') = Len(gatts)
    BY <2>1, OnePhaseType
  <2>3. gatts[g].rnode \in RNode /\ g \in 0 .. Len(gatts)
    BY ObjectType
  <2>4. /\ connections' \in [RNode -> 0 .. Len(gatts')]
        /\ connecting' \subseteq RNode /\ txChars' \subseteq RNode
        /\ reconnects' \subseteq RNode
    <3>1. CASE GattConnected(g)
      BY <2>2, <2>3, <3>1 DEF GattConnected, NusTypeOK
    <3>2. CASE MtuChanged(g) \/ ServicesDiscovered(g) \/ DescriptorWritten(g)
      <4>1. UNCHANGED <<connections, connecting, reconnects>>
        BY <3>2 DEF MtuChanged, ServicesDiscovered, DescriptorWritten, Advance
      <4>2. txChars' = txChars \/ txChars' = txChars \cup {gatts[g].rnode}
        BY <3>2 DEF MtuChanged, ServicesDiscovered, DescriptorWritten, Advance
      <4>3. QED
        BY <2>2, <2>3, <4>1, <4>2 DEF NusTypeOK
    <3>3. CASE GattDisconnected(g)
      <4>1. \/ UNCHANGED <<connections, connecting, txChars, reconnects>>
            \/ /\ connections' = [connections EXCEPT ![gatts[g].rnode] = 0]
               /\ connecting' \subseteq connecting /\ txChars' \subseteq txChars
               /\ reconnects' \subseteq reconnects \cup {gatts[g].rnode}
        BY <3>3 DEF GattDisconnected
      <4>2. QED
        BY <2>2, <2>3, <4>1 DEF NusTypeOK
    <3>4. QED
      BY <1>7, <3>1, <3>2, <3>3
  <2>5. UNCHANGED <<scanVars, lifeVars, budget>>
    BY <1>7 DEF GattConnected, MtuChanged, ServicesDiscovered,
         DescriptorWritten, GattDisconnected, Advance
  <2>6. QED
    BY <1>0, <2>2, <2>4, <2>5 DEF NusTypeOK
<1>8. QED
  BY <1>1, <1>2, <1>3, <1>4, <1>5, <1>6, <1>7 DEF NusNext

-----------------------------------------------------------------------------
(* The object of an RNode                                                  *)

\* An object that changes its phase and stays open changes no set of open ones.
LEMMA OpenKept ==
  ASSUME NusTypeOK, NEW g \in DOMAIN gatts, NEW p \in Phase, Continues(g, p), NEW m
  PROVE  OpenGatts(m)' = OpenGatts(m)
<1>1. /\ DOMAIN gatts' = DOMAIN gatts
      /\ gatts'[g].rnode = gatts[g].rnode /\ gatts'[g].phase = p
      /\ \A h \in DOMAIN gatts \ {g} : gatts'[h] = gatts[h]
  BY OnePhaseType DEF Continues, NusTypeOK
<1>2. QED
  BY <1>1 DEF OpenGatts, Continues

\* One that is lost or closed leaves its own.
LEMMA OpenLeft ==
  ASSUME NusTypeOK, NEW g \in DOMAIN gatts, NEW p \in {"lost", "closed"},
         gatts' = [gatts EXCEPT ![g].phase = p], NEW m
  PROVE  OpenGatts(m)' = OpenGatts(m) \ {g}
<1>1. p \in Phase
  BY DEF Phase
<1>2. /\ DOMAIN gatts' = DOMAIN gatts
      /\ gatts'[g].rnode = gatts[g].rnode /\ gatts'[g].phase = p
      /\ \A h \in DOMAIN gatts \ {g} : gatts'[h] = gatts[h]
  BY <1>1, OnePhaseType DEF NusTypeOK
<1>3. QED
  BY <1>2 DEF OpenGatts

-----------------------------------------------------------------------------
(* ConnectedIsOpen and OnePipePerRNode, by the kinds of step               *)

\* A connection that goes on or is told to leave stays the one it was.
LEMMA ContinueStep ==
  ASSUME IInv, NEW g \in DOMAIN gatts, NEW p \in Phase, Continues(g, p),
         gatts[g].phase # "connecting", UNCHANGED <<connections, connecting, raced>>
  PROVE  ConnectedIsOpen' /\ OnePipePerRNode'
<1>1. \A m \in RNode : OpenGatts(m)' = OpenGatts(m)
  BY OpenKept DEF IInv
<1>2. /\ gatts'[g].phase = p /\ p # "connecting"
      /\ \A h \in DOMAIN gatts \ {g} : gatts'[h] = gatts[h]
  BY OnePhaseType DEF IInv, Continues
<1>3. \A m \in RNode : OpenGatts(m) \subseteq DOMAIN gatts
  BY DEF OpenGatts
<1>4. ConnectedIsOpen'
  BY <1>1, <1>2, <1>3 DEF IInv, ConnectedIsOpen
<1>5. OnePipePerRNode'
  BY <1>1, <1>2, <1>3 DEF IInv, OnePipePerRNode
<1>6. QED
  BY <1>4, <1>5

\* A new attempt is the only object of its RNode.
LEMMA AttemptStep ==
  ASSUME IInv, NEW m \in RNode, Attempt(m), raced' = raced
  PROVE  ConnectedIsOpen' /\ OnePipePerRNode'
<1> DEFINE n == Len(gatts) + 1
<1>1. /\ DOMAIN gatts' = DOMAIN gatts \cup {n} /\ n \notin DOMAIN gatts
      /\ gatts'[n].rnode = m /\ gatts'[n].phase = "connecting"
      /\ \A g \in DOMAIN gatts : gatts'[g] = gatts[g]
  <2>1. /\ gatts' \in Seq(Object) /\ Len(gatts') = n
        /\ gatts'[n] = [rnode |-> m, phase |-> "connecting"]
        /\ \A g \in DOMAIN gatts : gatts'[g] = gatts[g]
    BY AttemptType DEF IInv
  <2>2. Len(gatts) \in Nat /\ DOMAIN gatts = 1 .. Len(gatts)
    BY ObjectType DEF IInv
  <2>3. QED
    BY <2>1, <2>2
<1>2. \A k \in RNode : OpenGatts(k)' = IF k = m THEN OpenGatts(k) \cup {n} ELSE OpenGatts(k)
  BY <1>1 DEF OpenGatts
<1>3. \A k \in RNode : OpenGatts(k) \subseteq DOMAIN gatts
  BY DEF OpenGatts
<1>4. ConnectedIsOpen'
  BY <1>1, <1>2, <1>3 DEF IInv, ConnectedIsOpen, Attempt
<1>5. m \notin raced => OpenGatts(m) = {}
  BY <1>3, ObjectType DEF IInv, OnePipePerRNode, Attempt, MayConnect
<1>6. ASSUME NEW k \in RNode \ raced, NEW g \in OpenGatts(k)'
      PROVE  /\ OpenGatts(k)' = {g}
             /\ IF gatts'[g].phase = "connecting" THEN k \in connecting' ELSE connections'[k] = g
  <2>1. CASE k = m
    BY <1>1, <1>2, <1>5, <1>6, <2>1 DEF Attempt
  <2>2. CASE k # m
    BY <1>1, <1>2, <1>3, <1>6, <2>2 DEF IInv, OnePipePerRNode, Attempt
  <2>3. QED
    BY <2>1, <2>2
<1>7. QED
  BY <1>4, <1>6 DEF OnePipePerRNode

\* The attempt of an RNode becomes its connection.
LEMMA ConnectedStep ==
  ASSUME IInv, NEW g \in DOMAIN gatts, GattConnected(g)
  PROVE  ConnectedIsOpen' /\ OnePipePerRNode'
<1> DEFINE m == gatts[g].rnode
<1>1. /\ gatts[g].phase = "connecting" /\ gatts' = [gatts EXCEPT ![g].phase = "connected"]
      /\ connections' = [connections EXCEPT ![m] = g] /\ connecting' = connecting \ {m}
      /\ raced' = raced
  BY DEF GattConnected, lifeVars
<1>2. m \in RNode /\ "connected" \in Phase /\ connections \in [RNode -> 0 .. Len(gatts)]
  BY ObjectType DEF IInv, NusTypeOK, Phase
<1>3. \A k \in RNode : OpenGatts(k)' = OpenGatts(k)
  BY <1>1, <1>2, OpenKept DEF IInv, Continues
<1>4. /\ gatts'[g].phase = "connected"
      /\ \A h \in DOMAIN gatts \ {g} : gatts'[h] = gatts[h]
  BY <1>1, <1>2, OnePhaseType DEF IInv
<1>5. /\ g \in OpenGatts(m)
      /\ \A k \in RNode : OpenGatts(k) \subseteq DOMAIN gatts /\ (k # m => g \notin OpenGatts(k))
  BY <1>1 DEF OpenGatts
<1>6. ConnectedIsOpen'
  BY <1>1, <1>2, <1>3, <1>4, <1>5 DEF IInv, ConnectedIsOpen
<1>7. OnePipePerRNode'
  BY <1>1, <1>2, <1>3, <1>4, <1>5 DEF IInv, OnePipePerRNode
<1>8. QED
  BY <1>6, <1>7

\* An object whose connection ended was the only one of its RNode.
LEMMA DisconnectedStep ==
  ASSUME IInv, NEW g \in DOMAIN gatts, GattDisconnected(g)
  PROVE  ConnectedIsOpen' /\ OnePipePerRNode'
<1>0. PICK m \in RNode : m = gatts[g].rnode
  BY ObjectType DEF IInv
<1>1. m \in RNode /\ connections \in [RNode -> 0 .. Len(gatts)] /\ raced' = raced
  BY ObjectType DEF IInv, NusTypeOK, GattDisconnected, lifeVars
<1>2. PICK p \in {"lost", "closed"} : gatts' = [gatts EXCEPT ![g].phase = p]
  BY DEF GattDisconnected
<1>3. \A k \in RNode : OpenGatts(k)' = OpenGatts(k) \ {g}
  BY <1>2, OpenLeft DEF IInv
<1>4. \A h \in DOMAIN gatts \ {g} : gatts'[h] = gatts[h]
  BY <1>2, OnePhaseType DEF IInv, Phase
<1>5. /\ g \in OpenGatts(m)
      /\ \A k \in RNode : OpenGatts(k) \subseteq DOMAIN gatts /\ (k # m => g \notin OpenGatts(k))
  BY <1>0 DEF GattDisconnected, OpenGatts
<1>6. /\ connections'[m] = 0
      /\ \A k \in RNode \ {m} : /\ connections'[k] = connections[k]
                                /\ k \in connecting => k \in connecting'
  BY <1>0, <1>1 DEF GattDisconnected
<1>7. ASSUME NEW k \in RNode, connections'[k] # 0
      PROVE  /\ connections'[k] \in OpenGatts(k)'
             /\ gatts'[connections'[k]].phase # "connecting"
  <2>1. k # m /\ connections'[k] = connections[k]
    BY <1>6, <1>7
  <2>2. connections[k] \in OpenGatts(k) /\ gatts[connections[k]].phase # "connecting"
    BY <1>7, <2>1 DEF IInv, ConnectedIsOpen
  <2>3. connections[k] \in DOMAIN gatts \ {g}
    BY <1>5, <2>1, <2>2
  <2>4. QED
    BY <1>3, <1>4, <2>1, <2>2, <2>3
<1>8. m \notin raced => OpenGatts(m)' = {}
  BY <1>1, <1>3, <1>5 DEF IInv, OnePipePerRNode
<1>9. ASSUME NEW k \in RNode \ raced', NEW h \in OpenGatts(k)'
      PROVE  /\ OpenGatts(k)' = {h}
             /\ IF gatts'[h].phase = "connecting" THEN k \in connecting' ELSE connections'[k] = h
  <2>1. k # m /\ k \notin raced
    BY <1>1, <1>8
  <2>2. OpenGatts(k)' = OpenGatts(k) /\ h \in DOMAIN gatts \ {g}
    BY <1>3, <1>5, <2>1
  <2>3. QED
    BY <1>4, <1>6, <2>1, <2>2 DEF IInv, OnePipePerRNode
<1>10. QED
  BY <1>7, <1>9 DEF ConnectedIsOpen, OnePipePerRNode

\* stop closes the connection of every RNode it did not find connecting.
LEMMA StopStep ==
  ASSUME IInv, Stop
  PROVE  ConnectedIsOpen' /\ OnePipePerRNode'
<1> DEFINE S == {g \in DOMAIN gatts : connections[gatts[g].rnode] = g}
<1>1. gatts' = [g \in DOMAIN gatts |->
                 IF g \in S THEN [gatts[g] EXCEPT !.phase = "closed"] ELSE gatts[g]]
  BY DEF Stop
<1>2. DOMAIN gatts' = DOMAIN gatts
  BY <1>1
<1>3. \A g \in DOMAIN gatts : /\ gatts'[g].rnode = gatts[g].rnode
                              /\ gatts'[g].phase = IF g \in S THEN "closed" ELSE gatts[g].phase
  BY <1>1, PhaseType DEF IInv, Phase
<1>4. ConnectedIsOpen'
  BY DEF Stop, ConnectedIsOpen
<1>5. ASSUME NEW m \in RNode \ raced', NEW g \in OpenGatts(m)' PROVE FALSE
  <2>1. g \in OpenGatts(m) /\ gatts[g].rnode = m /\ g \notin S /\ g \in DOMAIN gatts
    BY <1>2, <1>3, <1>5 DEF OpenGatts
  <2>2. m \notin raced /\ m \notin connecting
    BY DEF Stop
  <2>3. QED
    BY <2>1, <2>2 DEF IInv, OnePipePerRNode
<1>6. QED
  BY <1>4, <1>5 DEF OnePipePerRNode

\* What leaves the objects, their RNodes and raced alone leaves both.
LEMMA UntouchedStep ==
  ASSUME IInv, Untouched, raced' = raced
  PROVE  ConnectedIsOpen' /\ OnePipePerRNode'
BY DEF IInv, Untouched, ConnectedIsOpen, OnePipePerRNode, OpenGatts

-----------------------------------------------------------------------------
(* The invariant                                                           *)

\* Every step keeps the inductive invariant.
LEMMA StepIInv == IInv /\ [Next]_vars => IInv'
<1> SUFFICES ASSUME IInv, [Next]_vars PROVE IInv'
  OBVIOUS
<1>1. CASE NusNext
  <2>1. NusTypeOK'
    BY <1>1, TypeStep DEF IInv
  <2>2. ConnectedIsOpen' /\ OnePipePerRNode'
    <3>1. CASE Start \/ ScanFails \/ RestartScan
      BY <3>1, UntouchedStep DEF Start, ScanFails, RestartScan, Untouched, gattVars, lifeVars
    <3>2. CASE Stop
      BY <3>2, StopStep
    <3>3. ASSUME NEW m \in RNode,
                 ScanResult(m) \/ PairBonded(m) \/ Bond(m) \/ Reconnect(m)
          PROVE  ConnectedIsOpen' /\ OnePipePerRNode'
      <4>1. (Untouched \/ Attempt(m)) /\ raced' = raced
        BY <3>3 DEF ScanResult, PairBonded, Connect, Bond, Reconnect, Untouched, Attempt, lifeVars
      <4>2. QED
        BY <4>1, UntouchedStep, AttemptStep
    <3>4. ASSUME NEW m \in RNode, UnpairRNode(m)
          PROVE  ConnectedIsOpen' /\ OnePipePerRNode'
      <4>1. /\ connections[m] \in DOMAIN gatts
            /\ gatts[connections[m]].phase \notin {"lost", "closed", "connecting"}
        BY <3>4 DEF UnpairRNode, IInv, ConnectedIsOpen, OpenGatts
      <4>2. /\ Continues(connections[m], "leaving") /\ "leaving" \in Phase
            /\ UNCHANGED <<connections, connecting, raced>>
        BY <3>4, <4>1 DEF UnpairRNode, Continues, Phase
      <4>3. QED
        BY <4>1, <4>2, ContinueStep
    <3>5. ASSUME NEW g \in DOMAIN gatts,
                 MtuChanged(g) \/ ServicesDiscovered(g) \/ DescriptorWritten(g)
          PROVE  ConnectedIsOpen' /\ OnePipePerRNode'
      <4>1. PICK p \in Phase : Continues(g, p) /\ gatts[g].phase # "connecting"
        BY <3>5 DEF MtuChanged, ServicesDiscovered, DescriptorWritten, Advance, Continues, Phase
      <4>2. UNCHANGED <<connections, connecting, raced>>
        BY <3>5 DEF MtuChanged, ServicesDiscovered, DescriptorWritten, Advance, lifeVars
      <4>3. QED
        BY <4>1, <4>2, ContinueStep
    <3>6. QED
      BY <1>1, <3>1, <3>2, <3>3, <3>4, <3>5, ConnectedStep, DisconnectedStep DEF NusNext
  <2>3. QED
    BY <2>1, <2>2 DEF IInv
<1>2. ASSUME NEW r \in RNode, Notify(r) PROVE IInv'
  <2>1. budget' \in [BoundedKind -> Nat]
    BY <1>2, SpendType DEF Notify, IInv, BoundedKind
  <2>2. UNCHANGED nusVars
    BY <1>2 DEF Notify
  <2>3. QED
    BY <2>1, <2>2 DEF IInv, NusTypeOK, ConnectedIsOpen, OnePipePerRNode, OpenGatts,
      nusVars, scanVars, gattVars, lifeVars
<1>3. CASE SpawnIface \/ PollRx \/ UNCHANGED vars
  <2>1. UNCHANGED <<nusVars, budget>>
    BY <1>3 DEF SpawnIface, PollRx, vars
  <2>2. QED
    BY <2>1 DEF IInv, NusTypeOK, ConnectedIsOpen, OnePipePerRNode, OpenGatts,
      nusVars, scanVars, gattVars, lifeVars
<1>4. CASE CancelIface
  <2>1. budget' \in [BoundedKind -> Nat]
    BY <1>4, SpendType DEF CancelIface, IInv, BoundedKind
  <2>2. UNCHANGED nusVars
    BY <1>4 DEF CancelIface
  <2>3. QED
    BY <2>1, <2>2 DEF IInv, NusTypeOK, ConnectedIsOpen, OnePipePerRNode, OpenGatts,
      nusVars, scanVars, gattVars, lifeVars
<1>5. QED
  BY <1>1, <1>2, <1>3, <1>4 DEF Next

\* Whatever the order of scans, pairings, reconnections, stops and callbacks, an
\* RNode that no stop found connecting has at most one open GATT object, which
\* NusManager knows: its notifications come to Rust once.
THEOREM OnePipe == Spec => []OnePipePerRNode
<1>1. Spec => []IInv
  BY InitIInv, StepIInv, PTL DEF Spec
<1>2. IInv => OnePipePerRNode
  BY DEF IInv
<1>3. QED
  BY <1>1, <1>2, PTL

-----------------------------------------------------------------------------
(* Induction, and what is defined by recursion                             *)

\* The order of the natural numbers, as the theorems of the library take it.
Below == {p \in Nat \X Nat : p[1] < p[2]}

\* The natural numbers are well founded.
LEMMA BelowWellFounded == IsWellFoundedOn(Below, Nat)
<1>1. Below = OpToRel(<, Nat)
  BY Zenon DEF Below, OpToRel
<1>2. QED
  BY <1>1, NatLessThanWellFounded

\* Every set of natural numbers has a least element.
LEMMA Least ==
  ASSUME NEW T, T \subseteq Nat, T # {}
  PROVE  \E x \in T : \A y \in T : x <= y
<1>1. PICK x \in T : \A y \in T : ~(<<y, x>> \in Below)
  BY BelowWellFounded, WFMin
<1>2. ASSUME NEW y \in T, y < x
      PROVE  FALSE
  <2>1. <<y, x>> \in Nat \X Nat /\ <<y, x>>[1] < <<y, x>>[2]
    BY <1>2
  <2>2. <<y, x>> \in Below
    BY <2>1 DEF Below
  <2>3. QED
    BY <1>1, <1>2, <2>2
<1>3. QED
  BY <1>1, <1>2

\* Induction up to k, for what holds of the numbers of a set T.
LEMMA Induct ==
  ASSUME NEW T, NEW a \in Nat, NEW k \in Nat, a \in T,
         \A i \in a + 1 .. k : i - 1 \in T => i \in T
  PROVE  \A i \in a .. k : i \in T
<1> DEFINE W == (a .. k) \ T
<1>1. SUFFICES ASSUME W # {} PROVE FALSE
  OBVIOUS
<1>2. W \subseteq Nat
  OBVIOUS
<1> HIDE DEF W
<1>3. PICK x \in W : \A y \in W : x <= y
  BY <1>1, <1>2, Least
<1>4. x \in a + 1 .. k /\ x \notin T
  BY <1>3 DEF W
<1>5. x - 1 \in a .. k /\ x - 1 \notin W
  BY <1>2, <1>3, <1>4
<1>6. x - 1 \in T
  BY <1>5 DEF W
<1>7. QED
  BY <1>4, <1>6

\* A step for states of D and inputs of B, and the run from d over the inputs s
Steps(D, B, step, d, s) == step \in [D \X B -> D] /\ d \in D /\ s \in Seq(B)
IsRun(run, D, step, d, s) ==
  /\ run \in [0 .. Len(s) -> D] /\ run[0] = d
  /\ \A n \in 1 .. Len(s) : run[n] = step[<<run[n - 1], s[n]>>]

\* A state that is stepped through the elements of a sequence exists.
LEMMA RunExists ==
  ASSUME NEW D, NEW B, NEW step, NEW d, NEW s, Steps(D, B, step, d, s)
  PROVE  \E run : IsRun(run, D, step, d, s)
<1> DEFINE Run(m, run) ==
             run[0] = d /\ \A n \in 1 .. m : run[n] = step[<<run[n - 1], s[n]>>]
           T == {m \in Nat : \E run \in [0 .. m -> D] : Run(m, run)}
<1>0. step \in [D \X B -> D] /\ d \in D /\ s \in Seq(B)
  BY DEF Steps
<1>1. Len(s) \in Nat /\ \A n \in 1 .. Len(s) : s[n] \in B
  BY <1>0
<1>2. 0 \in T
  <2> DEFINE run == [n \in 0 .. 0 |-> d]
  <2>1. run \in [0 .. 0 -> D] /\ Run(0, run)
    BY <1>0
  <2>2. QED
    BY <2>1
<1>3. ASSUME NEW m \in 0 + 1 .. Len(s), m - 1 \in T
      PROVE  m \in T
  <2>1. PICK run \in [0 .. m - 1 -> D] : Run(m - 1, run)
    BY <1>3
  <2> DEFINE new == [n \in 0 .. m |-> IF n = m THEN step[<<run[m - 1], s[m]>>] ELSE run[n]]
  <2>2. m - 1 \in 0 .. m - 1 /\ run[m - 1] \in D /\ s[m] \in B
    BY <1>1, <2>1
  <2>3. step[<<run[m - 1], s[m]>>] \in D
    BY <1>0, <2>2
  <2>4. new \in [0 .. m -> D]
    BY <2>1, <2>3
  <2>5. new[0] = d
    BY <2>1
  <2>6. ASSUME NEW n \in 1 .. m
        PROVE  new[n] = step[<<new[n - 1], s[n]>>]
    <3>1. CASE n = m
      <4>1. new[m] = step[<<run[m - 1], s[m]>>] /\ new[m - 1] = run[m - 1]
        BY <2>2
      <4>2. QED
        BY <3>1, <4>1
    <3>2. CASE n # m
      <4>1. n \in 1 .. m - 1 /\ n - 1 \in 0 .. m - 1
        BY <3>2
      <4>2. run[n] = step[<<run[n - 1], s[n]>>]
        BY <2>1, <4>1
      <4>3. new[n] = run[n] /\ new[n - 1] = run[n - 1]
        BY <3>2, <4>1
      <4>4. QED
        BY <4>2, <4>3
    <3>3. QED
      BY <3>1, <3>2
  <2> HIDE DEF new
  <2>7. QED
    BY <2>4, <2>5, <2>6
<1> HIDE DEF T
<1>4. Len(s) \in T
  <2>1. \A i \in 0 .. Len(s) : i \in T
    BY <1>1, <1>2, <1>3, Induct
  <2>2. QED
    BY <1>1, <2>1
<1>5. QED
  BY <1>4 DEF T, IsRun

-----------------------------------------------------------------------------
(* Sequences of sequences, end to end                                      *)

\* The concatenation, sequence by sequence.
LEMMA Flatten ==
  ASSUME NEW S, NEW s \in Seq(Seq(S))
  PROVE  \E run \in [0 .. Len(s) -> Seq(S)] :
           /\ run[0] = <<>> /\ run[Len(s)] = FlattenSeq(s)
           /\ \A n \in 1 .. Len(s) : run[n] = run[n - 1] \o s[n]
<1> DEFINE step == [x \in Seq(S) \X Seq(S) |-> x[1] \o x[2]]
<1>1. step \in [Seq(S) \X Seq(S) -> Seq(S)]
  OBVIOUS
<1>2. \A x, y \in Seq(S) : step[<<x, y>>] = x \o y
  OBVIOUS
<1>3. <<>> \in Seq(S) /\ Len(s) \in Nat /\ \A n \in 1 .. Len(s) : s[n] \in Seq(S)
  OBVIOUS
<1> HIDE DEF step
<1>4. PICK run \in [0 .. Len(s) -> Seq(S)] :
        run[0] = <<>> /\ \A n \in 1 .. Len(s) : run[n] = step[<<run[n - 1], s[n]>>]
  <2>1. Steps(Seq(S), Seq(S), step, <<>>, s)
    BY <1>1, <1>3 DEF Steps
  <2>2. \E run : IsRun(run, Seq(S), step, <<>>, s)
    BY <2>1, RunExists
  <2>3. QED
    BY <2>2 DEF IsRun
<1>5. \A n \in 1 .. Len(s) : run[n] = run[n - 1] \o s[n]
  <2>1. ASSUME NEW n \in 1 .. Len(s)
        PROVE  run[n] = run[n - 1] \o s[n]
    <3>1. n - 1 \in 0 .. Len(s) /\ s[n] \in Seq(S)
      BY <1>3
    <3>2. run[n - 1] \in Seq(S)
      BY <3>1, Zenon
    <3>3. QED
      BY <1>2, <1>4, <3>1, <3>2, Zenon
  <2>2. QED
    BY <2>1
<1>6. 1 \in 1 .. Len(s) => run[1] = s[1] /\ s[1] \in Seq(S)
  <2>1. SUFFICES ASSUME 1 \in 1 .. Len(s) PROVE run[1] = s[1] /\ s[1] \in Seq(S)
    OBVIOUS
  <2>2. s[1] \in Seq(S) /\ run[1] = run[1 - 1] \o s[1]
    BY <1>3, <1>5, <2>1, Zenon
  <2>3. run[1 - 1] = <<>>
    <3>1. 1 - 1 = 0
      OBVIOUS
    <3>2. QED
      BY <1>4, <3>1, Zenon
  <2>4. <<>> \o s[1] = s[1]
    BY <2>2, ConcatEmptySeq
  <2>5. QED
    BY <2>2, <2>3, <2>4, Zenon
<1>7. run[Len(s)] = FlattenSeq(s)
  <2>1. CASE Len(s) = 0
    <3>1. s = <<>>
      BY <2>1
    <3>2. FlattenSeq(s) = s
      BY <2>1 DEF FlattenSeq
    <3>3. QED
      BY <1>4, <2>1, <3>1, <3>2
  <2>2. CASE Len(s) # 0
    <3> DEFINE flatten == CHOOSE f : f = [i \in 1 .. Len(s) |->
                                            IF i = 1 THEN s[i] ELSE f[i - 1] \o s[i]]
               g == [i \in 1 .. Len(s) |-> run[i]]
               T == {i \in Nat : flatten[i] = run[i]}
    <3>1. FlattenSeq(s) = flatten[Len(s)]
      BY <2>2 DEF FlattenSeq
    <3>2. g = [i \in 1 .. Len(s) |-> IF i = 1 THEN s[i] ELSE g[i - 1] \o s[i]]
      <4>1. ASSUME NEW i \in 1 .. Len(s)
            PROVE  run[i] = IF i = 1 THEN s[i] ELSE g[i - 1] \o s[i]
        <5>1. CASE i = 1
          BY <1>6, <5>1
        <5>2. CASE i # 1
          <6>1. i - 1 \in 1 .. Len(s)
            BY <1>3, <5>2
          <6>2. QED
            BY <1>5, <5>2, <6>1
        <5>3. QED
          BY <5>1, <5>2
      <4>2. QED
        BY <4>1, Zenon
    <3> HIDE DEF g
    <3>3. flatten = [i \in 1 .. Len(s) |-> IF i = 1 THEN s[i] ELSE flatten[i - 1] \o s[i]]
      <4>1. \E f : f = [i \in 1 .. Len(s) |-> IF i = 1 THEN s[i] ELSE f[i - 1] \o s[i]]
        BY <3>2, Zenon
      <4>2. QED
        BY <4>1, Zenon
    <3> HIDE DEF flatten
    <3>4. 1 \in T
      <4>1. 1 \in 1 .. Len(s)
        BY <1>3, <2>2
      <4>2. flatten[1] = s[1]
        BY <3>3, <4>1
      <4>3. QED
        BY <1>6, <4>1, <4>2
    <3>5. ASSUME NEW i \in 1 + 1 .. Len(s), i - 1 \in T
          PROVE  i \in T
      <4>1. i \in 1 .. Len(s) /\ i # 1 /\ i \in Nat
        BY <1>3
      <4>2. flatten[i] = flatten[i - 1] \o s[i]
        BY <3>3, <4>1
      <4>3. QED
        BY <1>5, <3>5, <4>1, <4>2
    <3>6. \A i \in 1 .. Len(s) : i \in T
      <4> HIDE DEF T
      <4>1. QED
        BY <1>3, <3>4, <3>5, Induct
    <3>7. QED
      BY <1>3, <2>2, <3>1, <3>6
  <2>3. QED
    BY <2>1, <2>2
<1>8. QED
  BY <1>4, <1>5, <1>7, Zenon

\* Where the first n of the sequences end
EndOf(s, n) == Len(FlattenSeq(SubSeq(s, 1, n)))

\* The concatenation of the first n sequences is a prefix of the whole.
LEMMA FlattenPrefix ==
  ASSUME NEW S, NEW s \in Seq(Seq(S)), NEW run,
         run[0] = <<>>, \A n \in 1 .. Len(s) : run[n] = run[n - 1] \o s[n],
         NEW n \in 0 .. Len(s)
  PROVE  FlattenSeq(SubSeq(s, 1, n)) = run[n]
<1> DEFINE t == SubSeq(s, 1, n)
<1>1. t \in Seq(Seq(S)) /\ Len(t) = n /\ \A i \in 1 .. n : t[i] = s[i]
  BY SubSeqProperties
<1> HIDE DEF t
<1>2. PICK other \in [0 .. Len(t) -> Seq(S)] :
        /\ other[0] = <<>> /\ other[Len(t)] = FlattenSeq(t)
        /\ \A i \in 1 .. Len(t) : other[i] = other[i - 1] \o t[i]
  <2>1. \A q \in Seq(Seq(S)) : \E r \in [0 .. Len(q) -> Seq(S)] :
          /\ r[0] = <<>> /\ r[Len(q)] = FlattenSeq(q)
          /\ \A i \in 1 .. Len(q) : r[i] = r[i - 1] \o q[i]
    BY Flatten
  <2>2. QED
    BY <1>1, <2>1, Zenon
<1> DEFINE T == {i \in Nat : other[i] = run[i]}
<1>3. 0 \in T
  BY <1>2
<1>4. ASSUME NEW i \in 0 + 1 .. n, i - 1 \in T
      PROVE  i \in T
  <2>1. i \in 1 .. n /\ i \in 1 .. Len(s) /\ i \in Nat
    OBVIOUS
  <2>2. other[i] = other[i - 1] \o t[i] /\ run[i] = run[i - 1] \o s[i] /\ t[i] = s[i]
    BY <1>1, <1>2, <2>1
  <2>3. QED
    BY <1>4, <2>1, <2>2
<1> HIDE DEF T
<1>5. \A i \in 0 .. n : i \in T
  <2>1. 0 \in Nat /\ n \in Nat
    OBVIOUS
  <2>2. QED
    BY <1>3, <1>4, <2>1, Induct
<1>6. n \in T
  BY <1>5
<1>7. QED
  BY <1>1, <1>2, <1>6 DEF T, t

\* The sequences lie one behind the other.
LEMMA Layout ==
  ASSUME NEW S, NEW s \in Seq(Seq(S))
  PROVE  /\ FlattenSeq(s) \in Seq(S) /\ Len(FlattenSeq(s)) = EndOf(s, Len(s))
         /\ EndOf(s, 0) = 0
         /\ \A n \in 0 .. Len(s) : EndOf(s, n) \in Nat
         /\ \A n \in 1 .. Len(s) : EndOf(s, n) = EndOf(s, n - 1) + Len(s[n])
         /\ \A n \in 1 .. Len(s) : \A j \in 1 .. Len(s[n]) :
              FlattenSeq(s)[EndOf(s, n - 1) + j] = s[n][j]
<1>1. PICK run \in [0 .. Len(s) -> Seq(S)] :
        /\ run[0] = <<>> /\ run[Len(s)] = FlattenSeq(s)
        /\ \A n \in 1 .. Len(s) : run[n] = run[n - 1] \o s[n]
  BY Flatten
<1>2. Len(s) \in Nat /\ \A n \in 1 .. Len(s) : s[n] \in Seq(S)
  OBVIOUS
<1>3. \A n \in 0 .. Len(s) : EndOf(s, n) = Len(run[n]) /\ run[n] \in Seq(S)
  <2>1. ASSUME NEW n \in 0 .. Len(s)
        PROVE  EndOf(s, n) = Len(run[n]) /\ run[n] \in Seq(S)
    <3>1. FlattenSeq(SubSeq(s, 1, n)) = run[n]
      BY <1>1, FlattenPrefix
    <3>2. QED
      BY <3>1 DEF EndOf
  <2>2. QED
    BY <2>1
<1>4. \A n \in 0 .. Len(s) : EndOf(s, n) \in Nat
  BY <1>3
<1>5. ASSUME NEW n \in 1 .. Len(s)
      PROVE  /\ EndOf(s, n) = EndOf(s, n - 1) + Len(s[n])
             /\ Len(s[n]) \in Nat /\ EndOf(s, n - 1) \in Nat
             /\ \A j \in 1 .. EndOf(s, n - 1) : run[n][j] = run[n - 1][j]
             /\ \A j \in 1 .. Len(s[n]) : run[n][EndOf(s, n - 1) + j] = s[n][j]
  <2>1. n - 1 \in 0 .. Len(s) /\ n \in 0 .. Len(s) /\ s[n] \in Seq(S)
    BY <1>2
  <2>2. run[n] = run[n - 1] \o s[n]
    BY <1>1
  <2> DEFINE u == run[n - 1]  v == s[n]
  <2>3. u \in Seq(S) /\ v \in Seq(S) /\ run[n] = u \o v
    BY <1>3, <2>1, <2>2
  <2>4. EndOf(s, n - 1) = Len(u) /\ EndOf(s, n) = Len(u \o v)
    BY <1>3, <2>1, <2>3
  <2> HIDE DEF u, v
  <2>5. /\ Len(u \o v) = Len(u) + Len(v) /\ Len(u) \in Nat /\ Len(v) \in Nat
        /\ \A i \in 1 .. Len(u) + Len(v) :
             (u \o v)[i] = IF i <= Len(u) THEN u[i] ELSE v[i - Len(u)]
    BY <2>3, ConcatProperties
  <2>6. \A j \in 1 .. Len(u) : (u \o v)[j] = u[j]
    BY <2>5
  <2>7. \A j \in 1 .. Len(v) : (u \o v)[Len(u) + j] = v[j]
    BY <2>5
  <2>8. QED
    BY <2>3, <2>4, <2>5, <2>6, <2>7 DEF u, v
<1>6. ASSUME NEW n \in 1 .. Len(s), NEW j \in 1 .. Len(s[n])
      PROVE  FlattenSeq(s)[EndOf(s, n - 1) + j] = s[n][j]
  <2> DEFINE at == EndOf(s, n - 1) + j
             T == {m \in Nat : m \in 1 .. Len(s) /\ at \in 1 .. EndOf(s, m) /\ run[m][at] = s[n][j]}
  <2>1. n \in T
    <3>1. /\ EndOf(s, n) = EndOf(s, n - 1) + Len(s[n])
          /\ Len(s[n]) \in Nat /\ EndOf(s, n - 1) \in Nat /\ run[n][at] = s[n][j]
      BY <1>5
    <3>2. at \in 1 .. EndOf(s, n)
      BY <3>1, SMTT(30)
    <3>3. QED
      BY <3>1, <3>2
  <2>2. ASSUME NEW m \in n + 1 .. Len(s), m - 1 \in T
        PROVE  m \in T
    <3>1. m \in 1 .. Len(s) /\ m \in Nat
      BY <1>2
    <3>2. /\ EndOf(s, m) = EndOf(s, m - 1) + Len(s[m])
          /\ Len(s[m]) \in Nat /\ EndOf(s, m - 1) \in Nat
          /\ \A i \in 1 .. EndOf(s, m - 1) : run[m][i] = run[m - 1][i]
      BY <1>5, <3>1
    <3>3. at \in 1 .. EndOf(s, m - 1) /\ run[m - 1][at] = s[n][j]
      BY <2>2
    <3>4. at \in 1 .. EndOf(s, m) /\ run[m][at] = s[n][j]
      <4> HIDE DEF at
      <4>1. QED
        BY <3>2, <3>3, SMTT(30)
    <3>5. QED
      BY <3>1, <3>4
  <2> HIDE DEF T
  <2>3. \A m \in n .. Len(s) : m \in T
    <3>1. n \in Nat /\ Len(s) \in Nat
      BY <1>2
    <3>2. QED
      BY <2>1, <2>2, <3>1, Induct
  <2>4. Len(s) \in T
    BY <1>2, <2>3
  <2>5. QED
    BY <1>1, <2>4 DEF T
<1>7. FlattenSeq(s) \in Seq(S) /\ Len(FlattenSeq(s)) = EndOf(s, Len(s))
  <2>1. Len(s) \in 0 .. Len(s)
    BY <1>2
  <2>2. QED
    BY <1>1, <1>3, <2>1, Zenon
<1>8. EndOf(s, 0) = 0
  <2>1. 0 \in 0 .. Len(s)
    BY <1>2
  <2>2. QED
    BY <1>1, <1>3, <2>1
<1>9. QED
  BY <1>4, <1>5, <1>6, <1>7, <1>8

\* A sequence ends behind those before it.
LEMMA EndMonotone ==
  ASSUME NEW S, NEW s \in Seq(Seq(S)), NEW m \in 0 .. Len(s), NEW k \in m .. Len(s)
  PROVE  EndOf(s, m) <= EndOf(s, k)
<1> DEFINE T == {i \in 0 .. Len(s) : EndOf(s, m) <= EndOf(s, i)}
<1>1. Len(s) \in Nat /\ \A i \in 1 .. Len(s) : Len(s[i]) \in Nat
  OBVIOUS
<1>2. \A i \in 0 .. Len(s) : EndOf(s, i) \in Nat
  BY Layout
<1>3. \A i \in 1 .. Len(s) : EndOf(s, i) = EndOf(s, i - 1) + Len(s[i])
  BY Layout
<1>4. m \in T
  BY <1>2
<1>5. ASSUME NEW i \in m + 1 .. k, i - 1 \in T
      PROVE  i \in T
  <2>1. i \in 1 .. Len(s) /\ i \in 0 .. Len(s) /\ i - 1 \in 0 .. Len(s)
    BY <1>1
  <2>2. EndOf(s, i) = EndOf(s, i - 1) + Len(s[i]) /\ Len(s[i]) \in Nat
    BY <1>1, <1>3, <2>1
  <2>3. EndOf(s, m) <= EndOf(s, i - 1) /\ EndOf(s, m) \in Nat /\ EndOf(s, i - 1) \in Nat
    BY <1>2, <1>5, <2>1
  <2>4. QED
    BY <2>1, <2>2, <2>3
<1>6. k \in m .. k /\ m \in Nat /\ k \in Nat
  BY <1>1
<1> HIDE DEF T
<1>7. \A i \in m .. k : i \in T
  BY <1>4, <1>5, <1>6, Induct
<1>8. k \in T
  BY <1>6, <1>7
<1>9. QED
  BY <1>8 DEF T

\* Every element of the whole is one of a sequence.
LEMMA Located ==
  ASSUME NEW S, NEW s \in Seq(Seq(S)), NEW x \in 1 .. Len(FlattenSeq(s))
  PROVE  \E n \in 1 .. Len(s) :
           EndOf(s, n - 1) < x /\ x <= EndOf(s, n) /\ x - EndOf(s, n - 1) \in 1 .. Len(s[n])
<1> DEFINE T == {n \in 0 .. Len(s) : x <= EndOf(s, n)}
<1>1. /\ Len(s) \in Nat /\ Len(FlattenSeq(s)) = EndOf(s, Len(s)) /\ EndOf(s, 0) = 0
      /\ \A i \in 1 .. Len(s) : Len(s[i]) \in Nat
  BY Layout
<1>2. /\ \A i \in 0 .. Len(s) : EndOf(s, i) \in Nat
      /\ \A i \in 1 .. Len(s) : EndOf(s, i) = EndOf(s, i - 1) + Len(s[i])
  BY Layout
<1>3. Len(s) \in T
  BY <1>1
<1>4. T \subseteq Nat /\ T # {}
  BY <1>3
<1>5. PICK n \in T : \A m \in T : n <= m
  BY <1>4, Least
<1>6. n \in 1 .. Len(s)
  BY <1>1, <1>5
<1>7. n - 1 \in 0 .. Len(s) /\ n - 1 \notin T
  BY <1>5, <1>6
<1>8. /\ EndOf(s, n - 1) < x /\ x <= EndOf(s, n)
      /\ EndOf(s, n) \in Nat /\ EndOf(s, n - 1) \in Nat /\ x \in Nat
  <2>1. x <= EndOf(s, n) /\ n \in 0 .. Len(s)
    BY <1>5
  <2>2. ~(x <= EndOf(s, n - 1))
    BY <1>7
  <2>3. EndOf(s, n) \in Nat /\ EndOf(s, n - 1) \in Nat /\ x \in Nat
    <3>1. EndOf(s, n) \in Nat /\ EndOf(s, n - 1) \in Nat
      BY <1>2, <1>7, <2>1
    <3>2. QED
      BY <1>1, <3>1
  <2>4. QED
    BY <2>1, <2>2, <2>3
<1>9. x - EndOf(s, n - 1) \in 1 .. Len(s[n])
  <2>1. EndOf(s, n) = EndOf(s, n - 1) + Len(s[n]) /\ Len(s[n]) \in Nat
    BY <1>1, <1>2, <1>6
  <2>2. QED
    BY <1>8, <2>1, SMTT(30)
<1>10. QED
  BY <1>6, <1>8, <1>9

-----------------------------------------------------------------------------
(* The deframer                                                            *)

\* A frame has data; a packet is not too long either.
Frame == Byte \X {q \in Seq(Byte) : q # <<>>}
Packet == {p \in Seq(Byte) : Len(p) \in 1 .. NUS_MAX_PACKET}

Deframer == [buf : Seq(Byte), in_frame : BOOLEAN, escape_next : BOOLEAN, command : Byte,
             frames : Seq(Frame)]

\* The deframer as the next call finds it
Quiet(d) == [d EXCEPT !.frames = <<>>]

\* The byte that ends a frame which the transport gets
Completes(d, byte) ==
  byte = KISS_FEND /\ d.in_frame /\ d.buf # <<>> /\ IsPacket(<<d.command, d.buf>>)

\* The deframer D and the packets R after each of these bytes
History(D, R, bytes) ==
  /\ D \in [0 .. Len(bytes) -> Deframer] /\ D[0] = KissDeframer
  /\ R \in [0 .. Len(bytes) -> Seq(Packet)] /\ R[0] = <<>>
  /\ \A n \in 1 .. Len(bytes) :
       /\ D[n] = Quiet(KissByte(D[n - 1], bytes[n]))
       /\ R[n] = IF Completes(D[n - 1], bytes[n]) THEN Append(R[n - 1], D[n - 1].buf)
                                                  ELSE R[n - 1]

\* What reading these bytes makes of a deframer, and the packets it gives
IsRead(bytes, d, packets) ==
  \E D, R : History(D, R, bytes) /\ d = D[Len(bytes)] /\ packets = R[Len(bytes)]

\* The constants are bytes.
LEMMA Bytewise ==
  /\ KISS_FEND \in Byte /\ KISS_FESC \in Byte /\ KISS_TFEND \in Byte /\ KISS_TFESC \in Byte
  /\ KISS_CMD_DATA \in Byte /\ NoCommand \in Byte
  /\ KISS_FEND # KISS_FESC /\ KISS_FEND # KISS_TFEND /\ KISS_FEND # KISS_TFESC
  /\ KISS_FESC # KISS_TFESC /\ KISS_TFEND # KISS_TFESC
  /\ KISS_CMD_DATA # KISS_FEND /\ KISS_CMD_DATA # NoCommand
BY DEF Byte, KISS_FEND, KISS_FESC, KISS_TFEND, KISS_TFESC, KISS_CMD_DATA, NoCommand

\* A deframer from its fields
Make(buf, in_frame, escape_next, command, frames) ==
  [buf |-> buf, in_frame |-> in_frame, escape_next |-> escape_next, command |-> command,
   frames |-> frames]

\* A deframer has its fields.
LEMMA DeframerFields ==
  ASSUME NEW d \in Deframer
  PROVE  /\ d.buf \in Seq(Byte) /\ d.in_frame \in BOOLEAN /\ d.escape_next \in BOOLEAN
         /\ d.command \in Byte /\ d.frames \in Seq(Frame)
         /\ d = Make(d.buf, d.in_frame, d.escape_next, d.command, d.frames)
BY DEF Deframer, Make

\* A deframer that read nothing
LEMMA NewDeframer == KissDeframer \in Deframer /\ Quiet(KissDeframer) = KissDeframer
BY DEF KissDeframer, Deframer, Quiet, Byte

\* What a delimiter does
LEMMA FendStep ==
  ASSUME NEW d \in Deframer
  PROVE  /\ KissByte(d, KISS_FEND) =
              [buf |-> <<>>, in_frame |-> TRUE, escape_next |-> FALSE, command |-> NoCommand,
               frames |-> KissDone(d)]
         /\ KissDone(d) \in Seq(Frame)
         /\ KissDone(d) = IF d.in_frame /\ d.buf # <<>> THEN Append(d.frames, <<d.command, d.buf>>)
                                                        ELSE d.frames
<1>1. KissByte(d, KISS_FEND) = KissFend(d)
  BY DEF KissByte
<1>2. d.in_frame /\ d.buf # <<>> => <<d.command, d.buf>> \in Frame
  BY DeframerFields DEF Frame
<1>3. QED
  BY <1>1, <1>2, DeframerFields DEF KissFend, KissDone

\* What another byte does to the fields
NextBuf(buf, in_frame, escape_next, command, byte) ==
  CASE ~in_frame \/ command = NoCommand -> buf
    [] in_frame /\ command # NoCommand /\ escape_next -> Append(buf, KissUnescaped(byte))
    [] in_frame /\ command # NoCommand /\ ~escape_next /\ byte = KISS_FESC -> buf
    [] in_frame /\ command # NoCommand /\ ~escape_next /\ byte # KISS_FESC -> Append(buf, byte)
NextEscape(in_frame, escape_next, command, byte) ==
  IF in_frame /\ command # NoCommand THEN ~escape_next /\ byte = KISS_FESC ELSE escape_next
NextCommand(in_frame, command, byte) ==
  IF in_frame /\ command = NoCommand THEN byte ELSE command

\* The same of a deframer made of its fields
LEMMA OtherStepMade ==
  ASSUME NEW buf, NEW in_frame \in BOOLEAN, NEW escape_next \in BOOLEAN, NEW command, NEW frames,
         NEW byte, byte # KISS_FEND
  PROVE  KissByte(Make(buf, in_frame, escape_next, command, frames), byte) =
           Make(NextBuf(buf, in_frame, escape_next, command, byte), in_frame,
                NextEscape(in_frame, escape_next, command, byte),
                NextCommand(in_frame, command, byte), frames)
<1> DEFINE d == Make(buf, in_frame, escape_next, command, frames)
<1>1. /\ d.buf = buf /\ d.in_frame = in_frame /\ d.escape_next = escape_next
      /\ d.command = command /\ d.frames = frames
  BY DEF Make
<1>2. d = Make(buf, in_frame, escape_next, command, frames)
  OBVIOUS
<1> HIDE DEF d
<1> USE DEF NextBuf, NextEscape, NextCommand
<1>3. CASE ~in_frame
  <2>1. KissByte(d, byte) = d
    BY <1>1, <1>3 DEF KissByte
  <2>2. QED
    BY <1>2, <1>3, <2>1
<1>4. CASE in_frame /\ command = NoCommand
  <2>1. KissByte(d, byte) = [d EXCEPT !.command = byte]
    BY <1>1, <1>4 DEF KissByte
  <2>2. [d EXCEPT !.command = byte] = Make(buf, in_frame, escape_next, byte, frames)
    BY <1>2 DEF Make
  <2>3. QED
    BY <1>2, <1>4, <2>1, <2>2
<1>5. CASE in_frame /\ command # NoCommand /\ escape_next
  <2>1. KissByte(d, byte) =
          [d EXCEPT !.buf = Append(d.buf, KissUnescaped(byte)), !.escape_next = FALSE]
    BY <1>1, <1>5 DEF KissByte, KissData
  <2>2. [d EXCEPT !.buf = Append(d.buf, KissUnescaped(byte)), !.escape_next = FALSE] =
          Make(Append(buf, KissUnescaped(byte)), in_frame, FALSE, command, frames)
    <3>1. \A x, y : [d EXCEPT !.buf = x, !.escape_next = y] = Make(x, in_frame, y, command, frames)
      <4>1. ASSUME NEW x, NEW y
            PROVE  [d EXCEPT !.buf = x, !.escape_next = y] = Make(x, in_frame, y, command, frames)
        <5>1. [d EXCEPT !.buf = x, !.escape_next = y] = [[d EXCEPT !.buf = x] EXCEPT !.escape_next = y]
          OBVIOUS
        <5>2. [d EXCEPT !.buf = x] = Make(x, in_frame, escape_next, command, frames)
          BY <1>2 DEF Make
        <5>3. [Make(x, in_frame, escape_next, command, frames) EXCEPT !.escape_next = y] =
                Make(x, in_frame, y, command, frames)
          BY DEF Make
        <5>4. QED
          BY <5>1, <5>2, <5>3, Zenon
      <4>2. QED
        BY <4>1
    <3>2. QED
      BY <1>1, <3>1, Zenon
  <2>3. QED
    BY <1>2, <1>5, <2>1, <2>2
<1>6. CASE in_frame /\ command # NoCommand /\ ~escape_next /\ byte = KISS_FESC
  <2>1. KissByte(d, byte) = [d EXCEPT !.escape_next = TRUE]
    BY <1>1, <1>6, Bytewise DEF KissByte, KissData
  <2>2. [d EXCEPT !.escape_next = TRUE] = Make(buf, in_frame, TRUE, command, frames)
    <3>1. \A x : [d EXCEPT !.escape_next = x] = Make(buf, in_frame, x, command, frames)
      BY <1>2 DEF Make
    <3>2. QED
      BY <3>1, Zenon
  <2>3. QED
    BY <1>2, <1>6, <2>1, <2>2
<1>7. CASE in_frame /\ command # NoCommand /\ ~escape_next /\ byte # KISS_FESC
  <2>1. KissByte(d, byte) = [d EXCEPT !.buf = Append(d.buf, byte)]
    BY <1>1, <1>7 DEF KissByte, KissData
  <2>2. [d EXCEPT !.buf = Append(d.buf, byte)] =
          Make(Append(buf, byte), in_frame, escape_next, command, frames)
    BY <1>1, <1>2 DEF Make
  <2>3. QED
    BY <1>2, <1>7, <2>1, <2>2
<1>8. QED
  BY <1>3, <1>4, <1>5, <1>6, <1>7

\* What another byte does to a deframer
LEMMA OtherStep ==
  ASSUME NEW d \in Deframer, NEW byte \in Byte, byte # KISS_FEND
  PROVE  /\ KissByte(d, byte) \in Deframer
         /\ KissByte(d, byte) =
              Make(NextBuf(d.buf, d.in_frame, d.escape_next, d.command, byte), d.in_frame,
                   NextEscape(d.in_frame, d.escape_next, d.command, byte),
                   NextCommand(d.in_frame, d.command, byte), d.frames)
         /\ Quiet(KissByte(Quiet(d), byte)) = Quiet(KissByte(d, byte))
<1> DEFINE buf == NextBuf(d.buf, d.in_frame, d.escape_next, d.command, byte)
           escape_next == NextEscape(d.in_frame, d.escape_next, d.command, byte)
           command == NextCommand(d.in_frame, d.command, byte)
<1>1. KissUnescaped(byte) \in Byte
  BY Bytewise DEF KissUnescaped
<1>2. buf \in Seq(Byte)
  BY <1>1, DeframerFields DEF NextBuf
<1>3. escape_next \in BOOLEAN
  BY DeframerFields DEF NextEscape
<1>4. command \in Byte
  BY DeframerFields DEF NextCommand
<1>5. KissByte(d, byte) = Make(buf, d.in_frame, escape_next, command, d.frames)
  BY DeframerFields, OtherStepMade
<1>6. Quiet(d) = Make(d.buf, d.in_frame, d.escape_next, d.command, <<>>)
  BY DeframerFields DEF Make, Quiet
<1>7. KissByte(Quiet(d), byte) = Make(buf, d.in_frame, escape_next, command, <<>>)
  BY <1>6, DeframerFields, OtherStepMade
<1> HIDE DEF buf, escape_next, command
<1>8. <<>> \in Seq(Frame)
  OBVIOUS
<1>9. /\ Make(buf, d.in_frame, escape_next, command, d.frames) \in Deframer
      /\ Quiet(Make(buf, d.in_frame, escape_next, command, d.frames)) =
           Quiet(Make(buf, d.in_frame, escape_next, command, <<>>))
  BY <1>2, <1>3, <1>4, <1>8, DeframerFields DEF Make, Deframer, Quiet
<1>10. QED
  BY <1>5, <1>7, <1>9 DEF buf, escape_next, command

\* A byte makes a deframer of a deframer, and appends what it completes.
LEMMA ByteStep ==
  ASSUME NEW d \in Deframer, NEW byte \in Byte
  PROVE  /\ KissByte(d, byte) \in Deframer
         /\ Quiet(KissByte(Quiet(d), byte)) = Quiet(KissByte(d, byte))
         /\ KissByte(d, byte).frames =
              IF byte = KISS_FEND /\ d.in_frame /\ d.buf # <<>>
              THEN Append(d.frames, <<d.command, d.buf>>) ELSE d.frames
<1>1. CASE byte = KISS_FEND
  <2>1. Quiet(d) \in Deframer
    <3>1. <<>> \in Seq(Frame)
      OBVIOUS
    <3>2. \A frames \in Seq(Frame) : [d EXCEPT !.frames = frames] \in Deframer
      BY DEF Deframer
    <3>3. QED
      BY <3>1, <3>2 DEF Quiet
  <2>2. \A x, y \in BOOLEAN, frames \in Seq(Frame) :
          /\ Make(<<>>, x, y, NoCommand, frames) \in Deframer
          /\ Quiet(Make(<<>>, x, y, NoCommand, frames)) = Make(<<>>, x, y, NoCommand, <<>>)
          /\ Make(<<>>, x, y, NoCommand, frames).frames = frames
    <3>1. <<>> \in Seq(Byte)
      OBVIOUS
    <3>2. QED
      BY <3>1, Bytewise DEF Make, Deframer, Quiet
  <2>3. \A e \in Deframer :
          /\ KissByte(e, KISS_FEND) \in Deframer
          /\ Quiet(KissByte(e, KISS_FEND)) = Make(<<>>, TRUE, FALSE, NoCommand, <<>>)
          /\ KissByte(e, KISS_FEND).frames = KissDone(e)
    <3>1. ASSUME NEW e \in Deframer
          PROVE  /\ KissByte(e, KISS_FEND) \in Deframer
                 /\ Quiet(KissByte(e, KISS_FEND)) = Make(<<>>, TRUE, FALSE, NoCommand, <<>>)
                 /\ KissByte(e, KISS_FEND).frames = KissDone(e)
      <4>1. KissByte(e, KISS_FEND) = Make(<<>>, TRUE, FALSE, NoCommand, KissDone(e))
        BY FendStep DEF Make
      <4>2. KissDone(e) \in Seq(Frame)
        BY FendStep
      <4>3. QED
        BY <2>2, <4>1, <4>2, Zenon
    <3>2. QED
      BY <3>1
  <2>4. QED
    BY <1>1, <2>1, <2>3, FendStep
<1>2. CASE byte # KISS_FEND
  <2>1. KissByte(d, byte).frames = d.frames
    BY <1>2, OtherStep DEF Make
  <2>2. QED
    BY <1>2, <2>1, OtherStep
<1>3. QED
  BY <1>1, <1>2

\* Two functions with the same recursion are equal.
LEMMA SameRun ==
  ASSUME NEW f, NEW g, NEW k \in Nat, f[0] = g[0],
         \A n \in 1 .. k : f[n - 1] = g[n - 1] => f[n] = g[n]
  PROVE  \A n \in 0 .. k : f[n] = g[n]
<1> DEFINE T == {n \in Nat : f[n] = g[n]}
<1>1. 0 \in T /\ 0 \in Nat
  OBVIOUS
<1>2. \A i \in 0 + 1 .. k : i - 1 \in T => i \in T
  OBVIOUS
<1> HIDE DEF T
<1>3. \A i \in 0 .. k : i \in T
  BY <1>1, <1>2, Induct
<1>4. QED
  BY <1>3 DEF T

\* The deframer after each byte of one call
IsFeed(after, d, data) ==
  /\ after \in [0 .. Len(data) -> Deframer] /\ after[0] = Quiet(d)
  /\ \A n \in 1 .. Len(data) : after[n] = KissByte(after[n - 1], data[n])
  /\ kiss_feed(d, data) = after[Len(data)]

\* A deframer without frames is one.
LEMMA QuietType ==
  ASSUME NEW d \in Deframer
  PROVE  /\ Quiet(d) \in Deframer /\ Quiet(d).frames = <<>>
         /\ Quiet(d).buf = d.buf /\ Quiet(d).in_frame = d.in_frame
         /\ Quiet(d).escape_next = d.escape_next /\ Quiet(d).command = d.command
         /\ Quiet(Quiet(d)) = Quiet(d)
<1>1. <<>> \in Seq(Frame)
  OBVIOUS
<1>2. \A frames \in Seq(Frame) : [d EXCEPT !.frames = frames] \in Deframer
  BY DEF Deframer
<1>3. Quiet(d) \in Deframer
  BY <1>1, <1>2 DEF Quiet
<1>4. Quiet(d) = Make(d.buf, d.in_frame, d.escape_next, d.command, <<>>)
  BY DeframerFields DEF Make, Quiet
<1>5. Quiet(Quiet(d)) = Make(d.buf, d.in_frame, d.escape_next, d.command, <<>>)
  BY <1>4 DEF Make, Quiet
<1>6. QED
  BY <1>3, <1>4, <1>5 DEF Make

\* kiss_feed goes through the bytes one by one.
LEMMA FeedRun ==
  ASSUME NEW d \in Deframer, NEW data \in Seq(Byte)
  PROVE  \E after : IsFeed(after, d, data)
<1> DEFINE step == [x \in Deframer \X Byte |-> KissByte(x[1], x[2])]
           F(f) == [n \in 0 .. Len(data) |->
                      IF n = 0 THEN [d EXCEPT !.frames = <<>>] ELSE KissByte(f[n - 1], data[n])]
           after == CHOOSE f : f = F(f)
<1>1. step \in [Deframer \X Byte -> Deframer]
  BY ByteStep
<1>2. \A e \in Deframer, byte \in Byte : step[<<e, byte>>] = KissByte(e, byte)
  OBVIOUS
<1> HIDE DEF step
<1>3. Len(data) \in Nat /\ \A n \in 1 .. Len(data) : data[n] \in Byte
  OBVIOUS
<1>4. Steps(Deframer, Byte, step, Quiet(d), data)
  BY <1>1, QuietType DEF Steps
<1>5. PICK run : IsRun(run, Deframer, step, Quiet(d), data)
  BY <1>4, RunExists
<1>6. run \in [0 .. Len(data) -> Deframer] /\ run[0] = Quiet(d)
  BY <1>5 DEF IsRun
<1>7. \A n \in 1 .. Len(data) : run[n] = KissByte(run[n - 1], data[n])
  <2>1. ASSUME NEW n \in 1 .. Len(data)
        PROVE  run[n] = KissByte(run[n - 1], data[n])
    <3>1. n - 1 \in 0 .. Len(data) /\ data[n] \in Byte
      BY <1>3
    <3>2. run[n - 1] \in Deframer
      BY <1>6, <3>1
    <3>3. run[n] = step[<<run[n - 1], data[n]>>]
      BY <1>5 DEF IsRun
    <3>4. QED
      BY <1>2, <3>1, <3>2, <3>3
  <2>2. QED
    BY <2>1
<1>8. run = F(run)
  <2>1. \A n \in 0 .. Len(data) :
          run[n] = IF n = 0 THEN [d EXCEPT !.frames = <<>>] ELSE KissByte(run[n - 1], data[n])
    BY <1>3, <1>6, <1>7 DEF Quiet
  <2>2. QED
    BY <1>6, <2>1
<1>9. kiss_feed(d, data) = after[Len(data)]
  BY DEF kiss_feed
<1>10. after = F(after)
  <2>1. \E f : f = F(f)
    BY <1>8, Zenon
  <2>2. QED
    BY <2>1, Zenon
<1> HIDE DEF after
<1>11. after[0] = run[0]
  BY <1>3, <1>6, <1>10 DEF Quiet
<1>12. \A n \in 1 .. Len(data) : after[n - 1] = run[n - 1] => after[n] = run[n]
  <2>1. ASSUME NEW n \in 1 .. Len(data), after[n - 1] = run[n - 1]
        PROVE  after[n] = run[n]
    <3>1. n \in 0 .. Len(data) /\ n # 0
      BY <1>3
    <3>2. after[n] = KissByte(after[n - 1], data[n])
      BY <1>10, <3>1
    <3>3. QED
      BY <1>7, <2>1, <3>2
  <2>2. QED
    BY <2>1
<1>13. \A n \in 0 .. Len(data) : after[n] = run[n]
  BY <1>3, <1>11, <1>12, SameRun
<1>14. kiss_feed(d, data) = run[Len(data)]
  BY <1>3, <1>9, <1>13
<1>15. QED
  BY <1>6, <1>7, <1>14 DEF IsFeed

\* The packets of the first frames
IsTaken(taken, frames) ==
  /\ taken \in [0 .. Len(frames) -> Seq(Packet)] /\ taken[0] = <<>>
  /\ \A i \in 1 .. Len(frames) :
       taken[i] = IF IsPacket(frames[i]) THEN Append(taken[i - 1], frames[i][2]) ELSE taken[i - 1]
  /\ Taken(frames) = taken[Len(frames)]

\* Taken goes through the frames one by one.
LEMMA TakenRun ==
  ASSUME NEW frames \in Seq(Frame)
  PROVE  \E taken : IsTaken(taken, frames)
<1> DEFINE step == [x \in Seq(Packet) \X Frame |->
                      IF IsPacket(x[2]) THEN Append(x[1], x[2][2]) ELSE x[1]]
           F(f) == [i \in 0 .. Len(frames) |->
                      CASE i = 0 -> <<>>
                        [] i > 0 /\ IsPacket(frames[i]) -> Append(f[i - 1], frames[i][2])
                        [] OTHER -> f[i - 1]]
           taken == CHOOSE f : f = F(f)
<1>1. \A x \in Seq(Packet), f \in Frame :
        IsPacket(f) => f[2] \in Packet /\ Append(x, f[2]) \in Seq(Packet)
  <2>1. ASSUME NEW x \in Seq(Packet), NEW f \in Frame, IsPacket(f)
        PROVE  f[2] \in Packet /\ Append(x, f[2]) \in Seq(Packet)
    <3>1. f[2] \in Seq(Byte) /\ f[2] # <<>> /\ Len(f[2]) <= NUS_MAX_PACKET
      BY <2>1 DEF Frame, IsPacket
    <3>2. Len(f[2]) \in 1 .. NUS_MAX_PACKET
      BY <3>1, NusLinkBoundsAssumption
    <3>3. f[2] \in Packet
      BY <3>1, <3>2 DEF Packet
    <3>4. QED
      BY <3>3
  <2>2. QED
    BY <2>1
<1>2. step \in [Seq(Packet) \X Frame -> Seq(Packet)]
  <2>1. ASSUME NEW x \in Seq(Packet) \X Frame
        PROVE  (IF IsPacket(x[2]) THEN Append(x[1], x[2][2]) ELSE x[1]) \in Seq(Packet)
    <3>1. x[1] \in Seq(Packet) /\ x[2] \in Frame
      OBVIOUS
    <3>2. QED
      BY <1>1, <3>1
  <2>2. QED
    BY <2>1
<1>3. \A x \in Seq(Packet), f \in Frame :
        step[<<x, f>>] = IF IsPacket(f) THEN Append(x, f[2]) ELSE x
  OBVIOUS
<1> HIDE DEF step
<1>4. Len(frames) \in Nat /\ (\A n \in 1 .. Len(frames) : frames[n] \in Frame) /\ <<>> \in Seq(Packet)
  OBVIOUS
<1>5. Steps(Seq(Packet), Frame, step, <<>>, frames)
  BY <1>2, <1>4 DEF Steps
<1>6. PICK run : IsRun(run, Seq(Packet), step, <<>>, frames)
  BY <1>5, RunExists
<1>7. run \in [0 .. Len(frames) -> Seq(Packet)] /\ run[0] = <<>>
  BY <1>6 DEF IsRun
<1>8. \A n \in 1 .. Len(frames) :
        run[n] = IF IsPacket(frames[n]) THEN Append(run[n - 1], frames[n][2]) ELSE run[n - 1]
  <2>1. ASSUME NEW n \in 1 .. Len(frames)
        PROVE  run[n] = IF IsPacket(frames[n]) THEN Append(run[n - 1], frames[n][2]) ELSE run[n - 1]
    <3>1. n - 1 \in 0 .. Len(frames) /\ frames[n] \in Frame
      BY <1>4
    <3>2. run[n - 1] \in Seq(Packet)
      BY <1>7, <3>1
    <3>3. run[n] = step[<<run[n - 1], frames[n]>>]
      BY <1>6 DEF IsRun
    <3>4. QED
      BY <1>3, <3>1, <3>2, <3>3
  <2>2. QED
    BY <2>1
<1>9. run = F(run)
  <2>1. \A i \in 0 .. Len(frames) :
          run[i] = CASE i = 0 -> <<>>
                     [] i > 0 /\ IsPacket(frames[i]) -> Append(run[i - 1], frames[i][2])
                     [] OTHER -> run[i - 1]
    <3>1. ASSUME NEW i \in 0 .. Len(frames)
          PROVE  run[i] = CASE i = 0 -> <<>>
                            [] i > 0 /\ IsPacket(frames[i]) -> Append(run[i - 1], frames[i][2])
                            [] OTHER -> run[i - 1]
      <4>1. CASE i = 0
        BY <1>7, <4>1
      <4>2. CASE i # 0
        <5>1. i \in 1 .. Len(frames) /\ i > 0
          BY <4>2
        <5>2. run[i] = IF IsPacket(frames[i]) THEN Append(run[i - 1], frames[i][2]) ELSE run[i - 1]
          BY <1>8, <5>1
        <5>3. QED
          BY <4>2, <5>1, <5>2
      <4>3. QED
        BY <4>1, <4>2
    <3>2. QED
      BY <3>1
  <2>2. QED
    BY <1>7, <2>1
<1>10. Taken(frames) = taken[Len(frames)]
  BY DEF Taken
<1>11. taken = F(taken)
  <2>1. \E f : f = F(f)
    BY <1>9, Zenon
  <2>2. QED
    BY <2>1, Zenon
<1> HIDE DEF taken
<1>12. taken[0] = run[0]
  BY <1>4, <1>7, <1>11
<1>13. \A n \in 1 .. Len(frames) : taken[n - 1] = run[n - 1] => taken[n] = run[n]
  <2>1. ASSUME NEW n \in 1 .. Len(frames), taken[n - 1] = run[n - 1]
        PROVE  taken[n] = run[n]
    <3>1. n \in 0 .. Len(frames) /\ n > 0 /\ n # 0
      BY <1>4
    <3>2. taken[n] = IF IsPacket(frames[n]) THEN Append(taken[n - 1], frames[n][2])
                                            ELSE taken[n - 1]
      BY <1>11, <3>1
    <3>3. QED
      BY <1>8, <2>1, <3>2
  <2>2. QED
    BY <2>1
<1>14. \A n \in 0 .. Len(frames) : taken[n] = run[n]
  BY <1>4, <1>12, <1>13, SameRun
<1>15. Taken(frames) = run[Len(frames)]
  BY <1>4, <1>10, <1>14
<1>16. QED
  BY <1>7, <1>8, <1>15 DEF IsTaken

\* One more element at the end of a concatenation
LEMMA ConcatAppend ==
  ASSUME NEW S, NEW s \in Seq(S), NEW t \in Seq(S), NEW x \in S
  PROVE  s \o Append(t, x) = Append(s \o t, x)
OBVIOUS

\* The history goes on with what a call to kiss_feed takes.
LEMMA Resumed ==
  ASSUME NEW bytes \in Seq(Byte), NEW state, NEW packets, IsRead(bytes, state, packets),
         NEW more \in Seq(Byte)
  PROVE  LET after == kiss_feed(state, more) IN
         IsRead(bytes \o more, Quiet(after), packets \o Taken(after.frames))
<1>0. PICK D, R : History(D, R, bytes) /\ state = D[Len(bytes)] /\ packets = R[Len(bytes)]
  BY DEF IsRead
<1> DEFINE N == Len(bytes)  M == Len(more)  d == D[N]
<1>1. /\ N \in Nat /\ M \in Nat
      /\ (\A n \in 1 .. N : bytes[n] \in Byte) /\ \A n \in 1 .. M : more[n] \in Byte
  OBVIOUS
<1>2. d \in Deframer /\ R[N] \in Seq(Packet)
  <2>1. N \in 0 .. N
    BY <1>1
  <2>2. D \in [0 .. N -> Deframer] /\ R \in [0 .. N -> Seq(Packet)]
    BY <1>0 DEF History
  <2> HIDE DEF N
  <2>3. QED
    BY <2>1, <2>2
<1>3. /\ bytes \o more \in Seq(Byte) /\ Len(bytes \o more) = N + M
      /\ \A n \in 1 .. N : (bytes \o more)[n] = bytes[n]
      /\ \A n \in 1 .. M : (bytes \o more)[N + n] = more[n]
  <2>1. /\ bytes \o more \in Seq(Byte) /\ Len(bytes \o more) = N + M
        /\ \A i \in 1 .. N + M : (bytes \o more)[i] = IF i <= N THEN bytes[i] ELSE more[i - N]
    BY ConcatProperties
  <2>2. QED
    BY <1>1, <2>1
<1>4. \A n \in 0 .. N : D[n] \in Deframer /\ R[n] \in Seq(Packet)
  BY <1>0 DEF History
<1>5. /\ D[0] = KissDeframer /\ R[0] = <<>>
      /\ \A n \in 1 .. N :
           /\ D[n] = Quiet(KissByte(D[n - 1], bytes[n]))
           /\ R[n] = IF Completes(D[n - 1], bytes[n]) THEN Append(R[n - 1], D[n - 1].buf)
                                                      ELSE R[n - 1]
  BY <1>0 DEF History
<1>6. Quiet(d) = d
  <2>1. CASE N = 0
    BY <1>5, <2>1, NewDeframer
  <2>2. CASE N # 0
    <3>1. N \in 1 .. N /\ N - 1 \in 0 .. N
      BY <1>1, <2>2
    <3>2. d = Quiet(KissByte(D[N - 1], bytes[N]))
      BY <1>5, <3>1
    <3>3. KissByte(D[N - 1], bytes[N]) \in Deframer
      BY <1>1, <1>4, <3>1, ByteStep
    <3>4. QED
      BY <3>2, <3>3, QuietType
  <2>3. QED
    BY <2>1, <2>2
<1> HIDE DEF N, M, d
<1>7. PICK after : IsFeed(after, d, more)
  BY <1>2, FeedRun
<1>8. /\ \A n \in 0 .. M : after[n] \in Deframer
      /\ after[0] = d
      /\ \A n \in 1 .. M : after[n] = KissByte(after[n - 1], more[n])
      /\ kiss_feed(d, more) = after[M]
  BY <1>6, <1>7 DEF IsFeed, M
<1> DEFINE F == after[M].frames
           Size(n) == Len(after[n].frames)
<1>9. F \in Seq(Frame)
  BY <1>1, <1>8, DeframerFields
<1>10. PICK taken : IsTaken(taken, F)
  BY <1>9, TakenRun
<1>11. \A n \in 0 .. M : Size(n) \in Nat
  BY <1>8, DeframerFields
<1>12. ASSUME NEW n \in 1 .. M
       PROVE  /\ n - 1 \in 0 .. M /\ n \in 0 .. M
              /\ after[n].frames =
                   IF more[n] = KISS_FEND /\ after[n - 1].in_frame /\ after[n - 1].buf # <<>>
                   THEN Append(after[n - 1].frames, <<after[n - 1].command, after[n - 1].buf>>)
                   ELSE after[n - 1].frames
              /\ Size(n - 1) <= Size(n)
              /\ \A i \in 1 .. Size(n - 1) : after[n].frames[i] = after[n - 1].frames[i]
  <2>1. n - 1 \in 0 .. M /\ n \in 0 .. M
    BY <1>1
  <2>2. after[n - 1] \in Deframer /\ more[n] \in Byte /\ after[n] = KissByte(after[n - 1], more[n])
    BY <1>1, <1>8, <2>1 DEF M
  <2>3. after[n].frames =
          IF more[n] = KISS_FEND /\ after[n - 1].in_frame /\ after[n - 1].buf # <<>>
          THEN Append(after[n - 1].frames, <<after[n - 1].command, after[n - 1].buf>>)
          ELSE after[n - 1].frames
    BY <2>2, ByteStep
  <2>4. after[n - 1].frames \in Seq(Frame)
    BY <2>2, DeframerFields
  <2>5. QED
    BY <2>1, <2>3, <2>4
<1>13. \A n \in 0 .. M : /\ Size(n) <= Size(M)
                         /\ \A i \in 1 .. Size(n) : F[i] = after[n].frames[i]
  <2> DEFINE T == {k \in Nat : k <= M => /\ Size(M - k) <= Size(M)
                                         /\ \A i \in 1 .. Size(M - k) : F[i] = after[M - k].frames[i]}
  <2>1. 0 \in T /\ 0 \in Nat
    BY <1>1, <1>11
  <2>2. ASSUME NEW k \in 0 + 1 .. M, k - 1 \in T
        PROVE  k \in T
    <3>1. M - k + 1 \in 1 .. M /\ M - k + 1 = M - (k - 1) /\ (M - k + 1) - 1 = M - k /\ k \in Nat
      BY <1>1
    <3> DEFINE n == M - k + 1
    <3>2. /\ Size(n - 1) <= Size(n)
          /\ \A i \in 1 .. Size(n - 1) : after[n].frames[i] = after[n - 1].frames[i]
      BY <1>12, <3>1
    <3>3. Size(n) <= Size(M) /\ \A i \in 1 .. Size(n) : F[i] = after[n].frames[i]
      <4>1. k - 1 <= M
        BY <1>1
      <4>2. Size(M - (k - 1)) <= Size(M) /\ \A i \in 1 .. Size(M - (k - 1)) : F[i] = after[M - (k - 1)].frames[i]
        <5> HIDE DEF Size, F
        <5>1. QED
          BY <2>2, <4>1
      <4>3. n = M - (k - 1)
        BY <3>1
      <4>4. QED
        BY <4>2, <4>3, Zenon
    <3>4. n - 1 \in 0 .. M /\ n \in 0 .. M /\ M \in 0 .. M
      BY <1>1, <3>1
    <3>5. Size(n - 1) \in Nat /\ Size(n) \in Nat /\ Size(M) \in Nat
      BY <1>11, <3>4
    <3> HIDE DEF F, Size, n
    <3>6. Size(n - 1) <= Size(M) /\ \A i \in 1 .. Size(n - 1) : F[i] = after[n - 1].frames[i]
      BY <3>2, <3>3, <3>5
    <3>7. n - 1 = M - k
      BY <3>1 DEF n
    <3>8. QED
      BY <3>1, <3>6, <3>7
  <2> HIDE DEF T
  <2>3. \A k \in 0 .. M : k \in T
    BY <1>1, <2>1, <2>2, Induct
  <2>4. ASSUME NEW n \in 0 .. M
        PROVE  /\ Size(n) <= Size(M)
               /\ \A i \in 1 .. Size(n) : F[i] = after[n].frames[i]
    <3>1. M - n \in 0 .. M /\ M - (M - n) = n /\ M - n <= M
      BY <1>1
    <3>2. M - n \in T
      BY <2>3, <3>1
    <3>3. QED
      BY <3>1, <3>2 DEF T
  <2>5. QED
    BY <2>4
<1> HIDE DEF F
<1>14. /\ \A i \in 0 .. Len(F) : taken[i] \in Seq(Packet)
       /\ taken[0] = <<>> /\ Taken(F) = taken[Len(F)]
       /\ \A i \in 1 .. Len(F) :
            taken[i] = IF IsPacket(F[i]) THEN Append(taken[i - 1], F[i][2]) ELSE taken[i - 1]
  BY <1>10 DEF IsTaken
<1>15. \A n \in 0 .. M : Size(n) \in 0 .. Len(F)
  BY <1>11, <1>13 DEF F
<1> DEFINE D2 == [n \in 0 .. N + M |-> IF n <= N THEN D[n] ELSE Quiet(after[n - N])]
           R2 == [n \in 0 .. N + M |-> IF n <= N THEN R[n] ELSE R[N] \o taken[Size(n - N)]]
<1>16. \A n \in 0 .. M : D2[N + n] = Quiet(after[n]) /\ R2[N + n] = R[N] \o taken[Size(n)]
  <2>1. ASSUME NEW n \in 0 .. M
        PROVE  D2[N + n] = Quiet(after[n]) /\ R2[N + n] = R[N] \o taken[Size(n)]
    <3>1. CASE n = 0
      <4>1. N + n = N /\ N + n \in 0 .. N + M
        BY <1>1, <3>1
      <4>2. D2[N + n] = d /\ R2[N + n] = R[N]
        BY <1>1, <4>1 DEF d
      <4>3. Size(0) = 0
        <5>1. after[0].frames = <<>>
          BY <1>2, <1>6, <1>8, QuietType
        <5>2. QED
          BY <5>1
      <4>4. R[N] \o <<>> = R[N]
        BY <1>2, ConcatEmptySeq
      <4>5. QED
        BY <1>6, <1>8, <1>14, <3>1, <4>2, <4>3, <4>4
    <3>2. CASE n # 0
      <4>1. N + n \in 0 .. N + M /\ ~(N + n <= N) /\ (N + n) - N = n
        BY <1>1, <3>2
      <4>2. QED
        BY <4>1
    <3>3. QED
      BY <3>1, <3>2
  <2>2. QED
    BY <2>1
<1>17. \A n \in 0 .. N : D2[n] = D[n] /\ R2[n] = R[n]
  BY <1>1
<1>18. D2 \in [0 .. N + M -> Deframer] /\ R2 \in [0 .. N + M -> Seq(Packet)]
  <2>1. ASSUME NEW n \in 0 .. N + M
        PROVE  D2[n] \in Deframer /\ R2[n] \in Seq(Packet)
    <3>1. CASE n <= N
      BY <1>1, <1>4, <1>17, <3>1 DEF N
    <3>2. CASE ~(n <= N)
      <4>1. n - N \in 0 .. M /\ N + (n - N) = n
        BY <1>1, <3>2
      <4>2. D2[n] = Quiet(after[n - N]) /\ R2[n] = R[N] \o taken[Size(n - N)]
        BY <1>16, <4>1
      <4>3. Quiet(after[n - N]) \in Deframer /\ taken[Size(n - N)] \in Seq(Packet)
        BY <1>8, <1>14, <1>15, <4>1, QuietType
      <4>4. R[N] \o taken[Size(n - N)] \in Seq(Packet)
        BY <1>2, <4>3, ConcatProperties
      <4>5. QED
        BY <4>2, <4>3, <4>4
    <3>3. QED
      BY <3>1, <3>2
  <2>2. QED
    BY <2>1
<1> DEFINE Goes(n) ==
             /\ D2[n] = Quiet(KissByte(D2[n - 1], (bytes \o more)[n]))
             /\ R2[n] = IF Completes(D2[n - 1], (bytes \o more)[n])
                        THEN Append(R2[n - 1], D2[n - 1].buf) ELSE R2[n - 1]
<1> HIDE DEF D2, R2, Size
<1>19. ASSUME NEW n \in 1 .. N
       PROVE  Goes(n)
  <2>1. n \in 0 .. N /\ n - 1 \in 0 .. N
    BY <1>1
  <2>2. D2[n] = D[n] /\ R2[n] = R[n] /\ D2[n - 1] = D[n - 1] /\ R2[n - 1] = R[n - 1]
    BY <1>17, <2>1
  <2>3. QED
    BY <1>3, <1>5, <2>2
<1>20. ASSUME NEW n \in 1 .. M
       PROVE  Goes(N + n)
  <2> SUFFICES /\ D2[N + n] = Quiet(KissByte(D2[(N + n) - 1], (bytes \o more)[N + n]))
               /\ R2[N + n] = IF Completes(D2[(N + n) - 1], (bytes \o more)[N + n])
                              THEN Append(R2[(N + n) - 1], D2[(N + n) - 1].buf) ELSE R2[(N + n) - 1]
    BY DEF Goes
  <2>1. n \in 0 .. M /\ n - 1 \in 0 .. M /\ (N + n) - 1 = N + (n - 1)
    BY <1>1
  <2> DEFINE e == after[n - 1]
  <2>2. /\ D2[N + n] = Quiet(after[n]) /\ R2[N + n] = R[N] \o taken[Size(n)]
        /\ D2[(N + n) - 1] = Quiet(e) /\ R2[(N + n) - 1] = R[N] \o taken[Size(n - 1)]
        /\ (bytes \o more)[N + n] = more[n]
    BY <1>3, <1>16, <2>1
  <2>3. e \in Deframer /\ more[n] \in Byte /\ after[n] = KissByte(e, more[n])
    BY <1>1, <1>8, <2>1 DEF M
  <2>4. Quiet(KissByte(Quiet(e), more[n])) = Quiet(after[n])
    BY <2>3, ByteStep
  <2>5. /\ Quiet(e).in_frame = e.in_frame /\ Quiet(e).buf = e.buf /\ Quiet(e).command = e.command
    BY <2>3, QuietType
  <2>6. Completes(Quiet(e), more[n]) <=>
          more[n] = KISS_FEND /\ e.in_frame /\ e.buf # <<>> /\ IsPacket(<<e.command, e.buf>>)
    BY <2>5 DEF Completes
  <2>7. after[n].frames = IF more[n] = KISS_FEND /\ e.in_frame /\ e.buf # <<>>
                          THEN Append(e.frames, <<e.command, e.buf>>) ELSE e.frames
    BY <1>12
  <2>8. e.frames \in Seq(Frame)
    BY <2>3, DeframerFields
  <2>9. CASE more[n] = KISS_FEND /\ e.in_frame /\ e.buf # <<>>
    <3>1. after[n].frames = Append(e.frames, <<e.command, e.buf>>)
      BY <2>7, <2>9
    <3>2. Size(n) = Size(n - 1) + 1 /\ after[n].frames[Size(n)] = <<e.command, e.buf>>
      <4>1. \A s \in Seq(Frame) : \A x :
              Len(Append(s, x)) = Len(s) + 1 /\ Append(s, x)[Len(s) + 1] = x
        OBVIOUS
      <4>2. Size(n - 1) = Len(e.frames) /\ Size(n) = Len(after[n].frames)
        BY DEF Size
      <4> HIDE DEF Size, e
      <4>3. QED
        BY <2>8, <3>1, <4>1, <4>2
    <3>3. Size(n) \in 1 .. Len(F) /\ Size(n) - 1 = Size(n - 1) /\ Size(n) \in 1 .. Size(n)
      BY <1>11, <1>15, <2>1, <3>2
    <3>4. F[Size(n)] = <<e.command, e.buf>>
      BY <1>13, <2>1, <3>2, <3>3
    <3>5. taken[Size(n)] = IF IsPacket(<<e.command, e.buf>>) THEN Append(taken[Size(n - 1)], e.buf)
                                                            ELSE taken[Size(n - 1)]
      <4>1. F[Size(n)][2] = e.buf
        BY <3>4
      <4>2. QED
        BY <1>14, <3>3, <3>4, <4>1, Zenon
    <3>6. taken[Size(n - 1)] \in Seq(Packet)
      BY <1>14, <1>15, <2>1
    <3>7. CASE IsPacket(<<e.command, e.buf>>)
      <4>1. R[N] \o Append(taken[Size(n - 1)], e.buf) = Append(R[N] \o taken[Size(n - 1)], e.buf)
        <5>1. e.buf \in Packet
          <6>1. e.buf \in Seq(Byte) /\ Len(e.buf) \in Nat /\ Len(e.buf) # 0
            BY <2>3, <2>9, DeframerFields
          <6>2. Len(e.buf) <= NUS_MAX_PACKET
            BY <3>7 DEF IsPacket
          <6>3. QED
            BY <6>1, <6>2, NusLinkBoundsAssumption DEF Packet
        <5>2. QED
          <6>1. \A s, t \in Seq(Packet), x \in Packet : s \o Append(t, x) = Append(s \o t, x)
            BY ConcatAppend
          <6>2. QED
            BY <1>2, <3>6, <5>1, <6>1, Zenon
      <4>2. Completes(Quiet(e), more[n])
        BY <2>6, <2>9, <3>7
      <4>3. QED
        BY <2>2, <2>4, <2>5, <3>5, <3>7, <4>1, <4>2
    <3>8. CASE ~IsPacket(<<e.command, e.buf>>)
      BY <2>2, <2>4, <2>6, <3>5, <3>8
    <3>9. QED
      BY <3>7, <3>8
  <2>10. CASE ~(more[n] = KISS_FEND /\ e.in_frame /\ e.buf # <<>>)
    <3>1. Size(n) = Size(n - 1)
      BY <2>7, <2>10 DEF Size
    <3>2. QED
      BY <2>2, <2>4, <2>6, <2>10, <3>1
  <2>11. QED
    BY <2>9, <2>10
<1>21. History(D2, R2, bytes \o more)
  <2>1. ASSUME NEW n \in 1 .. N + M
        PROVE  Goes(n)
    <3> HIDE DEF Goes
    <3>1. CASE n <= N
      <4>1. n \in 1 .. N
        BY <1>1, <3>1
      <4>2. QED
        BY <1>19, <4>1, Zenon
    <3>2. CASE ~(n <= N)
      <4>1. n - N \in 1 .. M /\ N + (n - N) = n
        BY <1>1, <3>2
      <4>2. Goes(N + (n - N))
        BY <1>20, <4>1
      <4>3. QED
        BY <4>1, <4>2
    <3>3. QED
      BY <3>1, <3>2
  <2>2. D2[0] = KissDeframer /\ R2[0] = <<>>
    BY <1>1, <1>5, <1>17
  <2>3. QED
    BY <1>3, <1>18, <2>1, <2>2 DEF History
<1>22. D2[N + M] = Quiet(after[M]) /\ R2[N + M] = R[N] \o Taken(F)
  <2>1. M \in 0 .. M /\ Len(F) = Size(M)
    BY <1>1 DEF Size, F
  <2>2. QED
    BY <1>14, <1>16, <2>1
<1>23. QED
  BY <1>0, <1>3, <1>8, <1>21, <1>22 DEF IsRead, d, N, F, M

\* What a history is made of
LEMMA HistoryFacts ==
  ASSUME NEW bytes \in Seq(Byte), NEW D, NEW R, History(D, R, bytes)
  PROVE  /\ Len(bytes) \in Nat /\ D[0] = KissDeframer /\ R[0] = <<>>
         /\ \A n \in 0 .. Len(bytes) : D[n] \in Deframer /\ R[n] \in Seq(Packet) /\ Len(R[n]) \in Nat
         /\ \A n \in 1 .. Len(bytes) :
              /\ n - 1 \in 0 .. Len(bytes) /\ n \in 0 .. Len(bytes) /\ bytes[n] \in Byte
              /\ D[n] = Quiet(KissByte(D[n - 1], bytes[n]))
              /\ R[n] = IF Completes(D[n - 1], bytes[n]) THEN Append(R[n - 1], D[n - 1].buf)
                                                         ELSE R[n - 1]
<1>1. Len(bytes) \in Nat
  OBVIOUS
<1>2. \A n \in 0 .. Len(bytes) : D[n] \in Deframer /\ R[n] \in Seq(Packet)
  BY DEF History
<1>3. \A n \in 0 .. Len(bytes) : Len(R[n]) \in Nat
  BY <1>2
<1>4. \A n \in 1 .. Len(bytes) : n - 1 \in 0 .. Len(bytes) /\ n \in 0 .. Len(bytes) /\ bytes[n] \in Byte
  BY <1>1
<1>5. QED
  BY <1>1, <1>2, <1>3, <1>4 DEF History

\* The packet that a byte completes is a packet.
LEMMA CompletesPacket ==
  ASSUME NEW d \in Deframer, NEW byte, Completes(d, byte)
  PROVE  d.buf \in Packet
<1>1. d.buf \in Seq(Byte) /\ Len(d.buf) \in Nat /\ Len(d.buf) # 0
  BY DeframerFields DEF Completes
<1>2. Len(d.buf) <= NUS_MAX_PACKET
  BY DEF Completes, IsPacket
<1>3. QED
  BY <1>1, <1>2, NusLinkBoundsAssumption DEF Packet

\* What was received stays where it is.
LEMMA Grows ==
  ASSUME NEW bytes \in Seq(Byte), NEW D, NEW R, History(D, R, bytes),
         NEW n \in 0 .. Len(bytes), NEW m \in n .. Len(bytes)
  PROVE  Len(R[n]) <= Len(R[m]) /\ \A k \in 1 .. Len(R[n]) : R[m][k] = R[n][k]
<1> DEFINE Kept(i) == Len(R[n]) <= Len(R[i]) /\ \A k \in 1 .. Len(R[n]) : R[i][k] = R[n][k]
           T == {i \in 0 .. Len(bytes) : Kept(i)}
<1>1. n \in T
  BY HistoryFacts
<1>2. ASSUME NEW i \in n + 1 .. m, i - 1 \in T
      PROVE  i \in T
  <2>1. i \in 1 .. Len(bytes) /\ i - 1 \in 0 .. Len(bytes) /\ i \in 0 .. Len(bytes)
    BY HistoryFacts
  <2>2. D[i - 1] \in Deframer /\ R[i - 1] \in Seq(Packet) /\ R[n] \in Seq(Packet)
    BY <2>1, HistoryFacts
  <2>3. Kept(i - 1)
    BY <1>2
  <2>4. CASE Completes(D[i - 1], bytes[i])
    <3>1. R[i] = Append(R[i - 1], D[i - 1].buf) /\ D[i - 1].buf \in Packet
      BY <2>1, <2>2, <2>4, HistoryFacts, CompletesPacket
    <3>2. Kept(i)
      BY <2>2, <2>3, <3>1
    <3>3. QED
      BY <2>1, <3>2
  <2>5. CASE ~Completes(D[i - 1], bytes[i])
    <3>1. R[i] = R[i - 1]
      BY <2>1, <2>5, HistoryFacts
    <3>2. QED
      BY <2>1, <2>3, <3>1
  <2>6. QED
    BY <2>4, <2>5
<1>3. n \in Nat /\ m \in Nat /\ m \in n .. m
  BY HistoryFacts
<1> HIDE DEF T
<1>4. \A i \in n .. m : i \in T
  BY <1>1, <1>2, <1>3, Induct
<1>5. QED
  BY <1>3, <1>4 DEF T

\* A frame that is completed is the next that is received.
LEMMA AtCompletion ==
  ASSUME NEW bytes \in Seq(Byte), NEW D, NEW R, History(D, R, bytes),
         NEW e \in 1 .. Len(bytes), Completes(D[e - 1], bytes[e])
  PROVE  /\ Len(R[e]) = Len(R[e - 1]) + 1 /\ Len(R[e]) \in 1 .. Len(R[Len(bytes)])
         /\ R[Len(bytes)][Len(R[e])] = D[e - 1].buf
<1>0. /\ e \in 0 .. Len(bytes) /\ e - 1 \in 0 .. Len(bytes)
      /\ Len(bytes) \in 0 .. Len(bytes) /\ Len(bytes) \in e .. Len(bytes)
  BY HistoryFacts
<1>1. /\ D[e - 1] \in Deframer /\ R[e - 1] \in Seq(Packet) /\ R[e] \in Seq(Packet)
      /\ R[e] = Append(R[e - 1], D[e - 1].buf) /\ Len(R[Len(bytes)]) \in Nat
  BY <1>0, HistoryFacts
<1>2. D[e - 1].buf \in Packet
  BY <1>1, CompletesPacket
<1>3. Len(R[e]) = Len(R[e - 1]) + 1 /\ R[e][Len(R[e])] = D[e - 1].buf /\ Len(R[e]) \in Nat \ {0}
  BY <1>1, <1>2
<1>4. Len(R[e]) <= Len(R[Len(bytes)]) /\ \A k \in 1 .. Len(R[e]) : R[Len(bytes)][k] = R[e][k]
  <2>1. \A m \in e .. Len(bytes) :
          Len(R[e]) <= Len(R[m]) /\ \A k \in 1 .. Len(R[e]) : R[m][k] = R[e][k]
    <3>1. ASSUME NEW m \in e .. Len(bytes)
          PROVE  Len(R[e]) <= Len(R[m]) /\ \A k \in 1 .. Len(R[e]) : R[m][k] = R[e][k]
      <4>1. bytes \in Seq(Byte) /\ History(D, R, bytes) /\ e \in 0 .. Len(bytes)
        BY <1>0
      <4>2. QED
        BY ONLY <4>1, m \in e .. Len(bytes), Grows
    <3>2. QED
      BY <3>1, Zenon
  <2>2. QED
    BY <1>0, <2>1, Zenon
<1>5. Len(R[e]) \in 1 .. Len(R[e]) /\ Len(R[e]) \in 1 .. Len(R[Len(bytes)])
  BY <1>1, <1>3, <1>4
<1>6. R[Len(bytes)][Len(R[e])] = R[e][Len(R[e])]
  BY <1>4, <1>5, Zenon
<1>7. QED
  BY <1>3, <1>5, <1>6, Zenon

\* Of two completions, the later one is received later.
LEMMA LaterCompletion ==
  ASSUME NEW bytes \in Seq(Byte), NEW D, NEW R, History(D, R, bytes),
         NEW e \in 1 .. Len(bytes), NEW f \in e + 1 .. Len(bytes), Completes(D[f - 1], bytes[f])
  PROVE  Len(R[e]) < Len(R[f])
<1>1. /\ e \in 0 .. Len(bytes) /\ f \in 1 .. Len(bytes) /\ f - 1 \in e .. Len(bytes)
      /\ f - 1 \in 0 .. Len(bytes) /\ f \in 0 .. Len(bytes)
  BY HistoryFacts
<1>2. Len(R[e]) \in Nat /\ Len(R[f - 1]) \in Nat
  BY <1>1, HistoryFacts
<1>3. Len(R[e]) <= Len(R[f - 1])
  BY <1>1, Grows
<1>4. Len(R[f]) = Len(R[f - 1]) + 1
  BY <1>1, AtCompletion
<1>5. QED
  BY <1>2, <1>3, <1>4

\* Every packet received was completed by some byte.
LEMMA EachReceived ==
  ASSUME NEW bytes \in Seq(Byte), NEW D, NEW R, History(D, R, bytes),
         NEW k \in 1 .. Len(R[Len(bytes)])
  PROVE  \E e \in 1 .. Len(bytes) : Completes(D[e - 1], bytes[e]) /\ Len(R[e]) = k
<1> DEFINE T == {n \in 0 .. Len(bytes) : k <= Len(R[n])}
<1>1. Len(bytes) \in T
  BY HistoryFacts
<1>2. T \subseteq Nat /\ T # {}
  BY <1>1
<1>3. PICK e \in T : \A n \in T : e <= n
  BY <1>2, Least
<1>4. e \in 1 .. Len(bytes)
  <2>1. Len(R[0]) = 0 /\ Len(bytes) \in Nat
    BY HistoryFacts
  <2>2. 0 \notin T
    BY <2>1
  <2>3. e \in 0 .. Len(bytes) /\ e # 0
    BY <1>3, <2>2
  <2>4. QED
    BY <2>1, <2>3
<1>5. e - 1 \in 0 .. Len(bytes) /\ e \in 0 .. Len(bytes) /\ e - 1 \notin T
  <2>1. e - 1 \in 0 .. Len(bytes) /\ e \in 0 .. Len(bytes) /\ ~(e <= e - 1)
    BY <1>4, HistoryFacts
  <2>2. QED
    BY <1>3, <2>1
<1>6. Len(R[e - 1]) < k /\ k <= Len(R[e]) /\ Len(R[e - 1]) \in Nat
  <2>1. k <= Len(R[e]) /\ ~(k <= Len(R[e - 1]))
    BY <1>3, <1>5
  <2>2. Len(R[e - 1]) \in Nat /\ Len(R[Len(bytes)]) \in Nat
    BY <1>5, HistoryFacts
  <2>3. QED
    BY <2>1, <2>2
<1>7. Completes(D[e - 1], bytes[e])
  <2>1. SUFFICES ASSUME ~Completes(D[e - 1], bytes[e]) PROVE FALSE
    OBVIOUS
  <2>2. R[e] = R[e - 1]
    BY <1>4, <2>1, HistoryFacts
  <2>3. QED
    BY <1>6, <2>2
<1>8. Len(R[e]) = Len(R[e - 1]) + 1
  BY <1>4, <1>7, AtCompletion
<1>9. QED
  BY <1>4, <1>6, <1>7, <1>8

\* An open frame was opened by a delimiter, with none since.
LEMMA Opened ==
  ASSUME NEW bytes \in Seq(Byte), NEW D, NEW R, History(D, R, bytes),
         NEW n \in 0 .. Len(bytes), D[n].in_frame
  PROVE  \E s \in 1 .. n : bytes[s] = KISS_FEND /\ \A j \in s + 1 .. n : bytes[j] # KISS_FEND
<1> DEFINE Open(i) == \E s \in 1 .. i : bytes[s] = KISS_FEND /\ \A j \in s + 1 .. i : bytes[j] # KISS_FEND
           T == {i \in 0 .. Len(bytes) : D[i].in_frame => Open(i)}
<1>1. 0 \in T
  <2>1. ~D[0].in_frame /\ 0 \in 0 .. Len(bytes)
    BY HistoryFacts DEF KissDeframer
  <2>2. QED
    BY <2>1
<1>2. ASSUME NEW i \in 0 + 1 .. n, i - 1 \in T
      PROVE  i \in T
  <2>1. i \in 1 .. Len(bytes) /\ i \in 0 .. Len(bytes) /\ i - 1 \in 0 .. Len(bytes)
    BY HistoryFacts
  <2>2. CASE bytes[i] = KISS_FEND
    <3>1. i \in 1 .. i /\ \A j \in i + 1 .. i : bytes[j] # KISS_FEND
      BY <2>1
    <3>2. QED
      BY <2>1, <2>2, <3>1
  <2>3. CASE bytes[i] # KISS_FEND
    <3>1. D[i - 1] \in Deframer /\ bytes[i] \in Byte /\ D[i] = Quiet(KissByte(D[i - 1], bytes[i]))
      BY <2>1, HistoryFacts
    <3>2. D[i].in_frame = D[i - 1].in_frame
      <4>1. KissByte(D[i - 1], bytes[i]) \in Deframer
        BY <3>1, ByteStep
      <4>2. KissByte(D[i - 1], bytes[i]).in_frame = D[i - 1].in_frame
        BY <2>3, <3>1, OtherStep DEF Make
      <4>3. QED
        BY <3>1, <4>1, <4>2, QuietType
    <3>3. SUFFICES ASSUME D[i].in_frame PROVE Open(i)
      BY <2>1
    <3>4. Open(i - 1)
      BY <1>2, <3>2, <3>3
    <3>5. PICK s \in 1 .. i - 1 : bytes[s] = KISS_FEND /\ \A j \in s + 1 .. i - 1 : bytes[j] # KISS_FEND
      BY <3>4
    <3>6. s \in 1 .. i /\ \A j \in s + 1 .. i : j = i \/ j \in s + 1 .. i - 1
      BY <2>1
    <3>7. QED
      BY <2>3, <3>5, <3>6
  <2>4. QED
    BY <2>2, <2>3
<1> HIDE DEF T
<1>3. n \in Nat /\ n \in 0 .. n /\ 0 \in Nat
  BY HistoryFacts
<1>4. \A i \in 0 .. n : i \in T
  BY <1>1, <1>2, <1>3, Induct
<1>5. QED
  BY <1>3, <1>4 DEF T

-----------------------------------------------------------------------------
(* A frame, and what the deframer makes of it                              *)

\* The data of a frame, each byte escaped
Escaped(data) == [i \in DOMAIN data |-> kiss_escape(data[i])]

\* An escaped byte is one or two bytes, none of them a delimiter.
LEMMA EscapeShape ==
  ASSUME NEW byte \in Byte
  PROVE  /\ kiss_escape(byte) \in Seq(Byte) /\ Len(kiss_escape(byte)) \in 1 .. 2
         /\ \A j \in 1 .. Len(kiss_escape(byte)) : kiss_escape(byte)[j] # KISS_FEND
         /\ Len(kiss_escape(byte)) = 1 =>
              kiss_escape(byte)[1] = byte /\ byte # KISS_FEND /\ byte # KISS_FESC
         /\ Len(kiss_escape(byte)) = 2 =>
              /\ kiss_escape(byte)[1] = KISS_FESC
              /\ KissUnescaped(kiss_escape(byte)[2]) = byte
<1>1. CASE byte = KISS_FEND
  <2>1. kiss_escape(byte) = <<KISS_FESC, KISS_TFEND>>
    BY <1>1, Bytewise DEF kiss_escape
  <2>2. KissUnescaped(KISS_TFEND) = byte
    BY <1>1, Bytewise DEF KissUnescaped
  <2>3. QED
    BY <2>1, <2>2, Bytewise
<1>2. CASE byte = KISS_FESC
  <2>1. kiss_escape(byte) = <<KISS_FESC, KISS_TFESC>>
    BY <1>2, Bytewise DEF kiss_escape
  <2>2. KissUnescaped(KISS_TFESC) = byte
    BY <1>2, Bytewise DEF KissUnescaped
  <2>3. QED
    BY <2>1, <2>2, Bytewise
<1>3. CASE byte # KISS_FEND /\ byte # KISS_FESC
  <2>1. kiss_escape(byte) = <<byte>>
    BY <1>3 DEF kiss_escape
  <2>2. QED
    BY <1>3, <2>1
<1>4. QED
  BY <1>1, <1>2, <1>3

\* The layout of a frame
LEMMA FrameShape ==
  ASSUME NEW command \in Byte, NEW data \in Seq(Byte)
  PROVE  LET E == FlattenSeq(Escaped(data))
             frame == KissFrame(command, data)
         IN
         /\ Escaped(data) \in Seq(Seq(Byte)) /\ Len(Escaped(data)) = Len(data) /\ Len(data) \in Nat
         /\ \A i \in 1 .. Len(data) : Escaped(data)[i] = kiss_escape(data[i]) /\ data[i] \in Byte
         /\ E \in Seq(Byte) /\ Len(E) \in Nat
         /\ frame \in Seq(Byte) /\ Len(frame) = Len(E) + 3
         /\ frame[1] = KISS_FEND /\ frame[2] = command /\ frame[Len(E) + 3] = KISS_FEND
         /\ \A j \in 1 .. Len(E) : frame[j + 2] = E[j] /\ E[j] # KISS_FEND
<1> DEFINE E == FlattenSeq(Escaped(data))  frame == KissFrame(command, data)
<1>1. Len(data) \in Nat /\ DOMAIN data = 1 .. Len(data) /\ \A i \in 1 .. Len(data) : data[i] \in Byte
  OBVIOUS
<1>2. \A i \in 1 .. Len(data) : Escaped(data)[i] = kiss_escape(data[i])
  BY <1>1 DEF Escaped
<1>3. Escaped(data) \in [1 .. Len(data) -> Seq(Byte)]
  BY <1>1, EscapeShape DEF Escaped
<1>4. Escaped(data) \in Seq(Seq(Byte)) /\ Len(Escaped(data)) = Len(data)
  BY <1>1, <1>3, IsSeq
<1>5. E \in Seq(Byte)
  BY <1>4, Layout
<1>6. ASSUME NEW j \in 1 .. Len(E)
      PROVE  E[j] # KISS_FEND
  <2>1. PICK n \in 1 .. Len(Escaped(data)) :
          /\ EndOf(Escaped(data), n - 1) < j /\ j <= EndOf(Escaped(data), n)
          /\ j - EndOf(Escaped(data), n - 1) \in 1 .. Len(Escaped(data)[n])
    BY <1>4, Located
  <2> DEFINE at == EndOf(Escaped(data), n - 1)  i == j - at
  <2>2. E[at + i] = Escaped(data)[n][i]
    BY <1>4, <2>1, Layout
  <2>3. at \in Nat
    <3>1. n - 1 \in 0 .. Len(Escaped(data))
      BY <1>1, <1>4
    <3>2. QED
      BY <1>4, <3>1, Layout
  <2>4. at + i = j
    <3> HIDE DEF at
    <3>1. QED
      BY <1>5, <2>3
  <2>5. Escaped(data)[n] = kiss_escape(data[n]) /\ data[n] \in Byte
    BY <1>1, <1>2, <1>4
  <2>6. Escaped(data)[n][i] # KISS_FEND
    BY <2>1, <2>5, EscapeShape, SMTT(30)
  <2>7. QED
    BY <2>2, <2>4, <2>6
<1>7. frame = <<KISS_FEND, command>> \o E \o <<KISS_FEND>>
  BY DEF KissFrame, Escaped
<1> HIDE DEF E, frame
<1> DEFINE open == <<KISS_FEND, command>>  close == <<KISS_FEND>>
<1>8. /\ open \in Seq(Byte) /\ Len(open) = 2 /\ open[1] = KISS_FEND /\ open[2] = command
      /\ close \in Seq(Byte) /\ Len(close) = 1 /\ close[1] = KISS_FEND
  BY Bytewise
<1>9. frame = (open \o E) \o close
  BY <1>7
<1> HIDE DEF open, close
<1>10. /\ open \o E \in Seq(Byte) /\ Len(open \o E) = 2 + Len(E) /\ Len(E) \in Nat
       /\ \A i \in 1 .. 2 + Len(E) : (open \o E)[i] = IF i <= 2 THEN open[i] ELSE E[i - 2]
  <2>1. /\ open \o E \in Seq(Byte) /\ Len(open \o E) = Len(open) + Len(E)
        /\ \A i \in 1 .. Len(open) + Len(E) :
             (open \o E)[i] = IF i <= Len(open) THEN open[i] ELSE E[i - Len(open)]
    BY <1>5, <1>8, ConcatProperties
  <2>2. Len(open) = 2 /\ Len(E) \in Nat
    BY <1>5, <1>8
  <2>3. QED
    BY <2>1, <2>2
<1>11. /\ frame \in Seq(Byte) /\ Len(frame) = Len(E) + 3
       /\ \A i \in 1 .. Len(E) + 3 : frame[i] = IF i <= 2 + Len(E) THEN (open \o E)[i]
                                                ELSE close[i - (2 + Len(E))]
  <2> DEFINE u == open \o E
  <2>1. u \in Seq(Byte) /\ Len(u) = 2 + Len(E) /\ frame = u \o close
    BY <1>9, <1>10
  <2> HIDE DEF u
  <2>2. /\ u \o close \in Seq(Byte) /\ Len(u \o close) = Len(u) + Len(close)
        /\ \A i \in 1 .. Len(u) + Len(close) :
             (u \o close)[i] = IF i <= Len(u) THEN u[i] ELSE close[i - Len(u)]
    BY <1>8, <2>1, ConcatProperties
  <2>3. QED
    BY <1>8, <1>10, <2>1, <2>2 DEF u
<1>12. /\ frame[1] = KISS_FEND /\ frame[2] = command /\ frame[Len(E) + 3] = KISS_FEND
       /\ \A j \in 1 .. Len(E) : frame[j + 2] = E[j]
  <2>1. frame[1] = KISS_FEND /\ frame[2] = command
    BY <1>8, <1>10, <1>11
  <2>2. frame[Len(E) + 3] = KISS_FEND
    <3>1. Len(E) + 3 \in 1 .. Len(E) + 3 /\ ~(Len(E) + 3 <= 2 + Len(E)) /\ Len(E) + 3 - (2 + Len(E)) = 1
      BY <1>10
    <3>2. QED
      BY <1>8, <1>11, <3>1
  <2>3. ASSUME NEW j \in 1 .. Len(E)
        PROVE  frame[j + 2] = E[j]
    <3>1. /\ j + 2 \in 1 .. Len(E) + 3 /\ j + 2 \in 1 .. 2 + Len(E)
          /\ j + 2 <= 2 + Len(E) /\ ~(j + 2 <= 2) /\ (j + 2) - 2 = j
      BY <1>10
    <3>2. frame[j + 2] = (open \o E)[j + 2]
      BY <1>11, <3>1
    <3>3. (open \o E)[j + 2] = E[(j + 2) - 2]
      BY <1>10, <3>1
    <3>4. QED
      BY <3>1, <3>2, <3>3
  <2>4. QED
    BY <2>1, <2>2, <2>3
<1>13. QED
  BY <1>1, <1>2, <1>4, <1>5, <1>6, <1>10, <1>11, <1>12 DEF E, frame

\* A byte of data or of an escape
LEMMA ReadingStep ==
  ASSUME NEW d \in Deframer, d.in_frame, d.command # NoCommand,
         NEW byte \in Byte, byte # KISS_FEND
  PROVE  LET q == Quiet(KissByte(d, byte)) IN
         /\ q.in_frame /\ q.command = d.command
         /\ ~d.escape_next /\ byte # KISS_FESC => q.buf = Append(d.buf, byte) /\ ~q.escape_next
         /\ ~d.escape_next /\ byte = KISS_FESC => q.buf = d.buf /\ q.escape_next
         /\ d.escape_next => q.buf = Append(d.buf, KissUnescaped(byte)) /\ ~q.escape_next
<1> DEFINE k == KissByte(d, byte)  q == Quiet(k)
           buf == NextBuf(d.buf, d.in_frame, d.escape_next, d.command, byte)
           escape == NextEscape(d.in_frame, d.escape_next, d.command, byte)
           command == NextCommand(d.in_frame, d.command, byte)
<1>1. k \in Deframer /\ k = Make(buf, d.in_frame, escape, command, d.frames)
  BY OtherStep
<1>2. command = d.command
  BY DEF NextCommand
<1>3. /\ d.escape_next => buf = Append(d.buf, KissUnescaped(byte))
      /\ ~d.escape_next /\ byte = KISS_FESC => buf = d.buf
      /\ ~d.escape_next /\ byte # KISS_FESC => buf = Append(d.buf, byte)
  BY DEF NextBuf
<1>4. escape <=> ~d.escape_next /\ byte = KISS_FESC
  BY DEF NextEscape
<1> HIDE DEF k, buf, escape, command
<1>5. k.in_frame = d.in_frame /\ k.command = command /\ k.buf = buf /\ k.escape_next = escape
  BY <1>1 DEF Make
<1>6. q.in_frame = k.in_frame /\ q.command = k.command /\ q.buf = k.buf /\ q.escape_next = k.escape_next
  BY <1>1, QuietType
<1> HIDE DEF q
<1>7. /\ q.in_frame /\ q.command = d.command
      /\ ~d.escape_next /\ byte # KISS_FESC => q.buf = Append(d.buf, byte) /\ ~q.escape_next
      /\ ~d.escape_next /\ byte = KISS_FESC => q.buf = d.buf /\ q.escape_next
      /\ d.escape_next => q.buf = Append(d.buf, KissUnescaped(byte)) /\ ~q.escape_next
  BY <1>2, <1>3, <1>4, <1>5, <1>6, Zenon
<1>8. QED
  BY <1>7 DEF q, k

\* A delimiter opens a frame.
LEMMA OpeningStep ==
  ASSUME NEW d \in Deframer
  PROVE  LET q == Quiet(KissByte(d, KISS_FEND)) IN
         q.in_frame /\ q.command = NoCommand /\ ~q.escape_next /\ q.buf = <<>>
<1> DEFINE k == KissByte(d, KISS_FEND)
<1>1. k \in Deframer
  BY ByteStep, Bytewise
<1>2. k.in_frame /\ k.command = NoCommand /\ ~k.escape_next /\ k.buf = <<>>
  BY FendStep
<1> HIDE DEF k
<1>3. Quiet(k).in_frame /\ Quiet(k).command = NoCommand /\ ~Quiet(k).escape_next /\ Quiet(k).buf = <<>>
  BY <1>1, <1>2, QuietType
<1>4. QED
  BY <1>3 DEF k

\* The first byte of a frame is its command.
LEMMA CommandStep ==
  ASSUME NEW d \in Deframer, d.in_frame, d.command = NoCommand, ~d.escape_next,
         NEW byte \in Byte, byte # KISS_FEND
  PROVE  LET q == Quiet(KissByte(d, byte)) IN
         q.in_frame /\ q.command = byte /\ ~q.escape_next /\ q.buf = d.buf
<1> DEFINE k == KissByte(d, byte)
<1>1. /\ k \in Deframer
      /\ k = Make(NextBuf(d.buf, d.in_frame, d.escape_next, d.command, byte), d.in_frame,
                  NextEscape(d.in_frame, d.escape_next, d.command, byte),
                  NextCommand(d.in_frame, d.command, byte), d.frames)
  BY OtherStep
<1>2. /\ NextBuf(d.buf, d.in_frame, d.escape_next, d.command, byte) = d.buf
      /\ ~NextEscape(d.in_frame, d.escape_next, d.command, byte)
      /\ NextCommand(d.in_frame, d.command, byte) = byte
  BY DEF NextBuf, NextEscape, NextCommand
<1> HIDE DEF k
<1>3. /\ k.in_frame = d.in_frame /\ k.command = byte /\ k.buf = d.buf
      /\ k.escape_next = NextEscape(d.in_frame, d.escape_next, d.command, byte)
  BY <1>1, <1>2 DEF Make
<1>4. /\ Quiet(k).in_frame = k.in_frame /\ Quiet(k).command = k.command
      /\ Quiet(k).escape_next = k.escape_next /\ Quiet(k).buf = k.buf
  BY <1>1, QuietType
<1>5. Quiet(k).in_frame /\ Quiet(k).command = byte /\ ~Quiet(k).escape_next /\ Quiet(k).buf = d.buf
  BY <1>2, <1>3, <1>4, Zenon
<1>6. QED
  BY <1>5 DEF k

\* The frame lies in the bytes, behind the first n of them.
LiesAt(bytes, n, frame) ==
  /\ n + Len(frame) <= Len(bytes)
  /\ \A j \in 1 .. Len(frame) : bytes[n + j] = frame[j]

\* Whatever was read before, the deframer reads a frame that comes in one piece.
LEMMA Decoded ==
  ASSUME NEW bytes \in Seq(Byte), NEW D, NEW R, History(D, R, bytes),
         NEW command \in Byte, command # KISS_FEND, command # NoCommand, NEW data \in Seq(Byte),
         NEW n \in 0 .. Len(bytes), LiesAt(bytes, n, KissFrame(command, data))
  PROVE  LET e == n + Len(KissFrame(command, data)) IN
         /\ e \in n + 3 .. Len(bytes) /\ bytes[e] = KISS_FEND
         /\ D[e - 1].in_frame /\ D[e - 1].command = command /\ D[e - 1].buf = data
<1> DEFINE esc == Escaped(data)  E == FlattenSeq(esc)  frame == KissFrame(command, data)
           N == Len(bytes)  K == Len(data)
<1>1. /\ esc \in Seq(Seq(Byte)) /\ Len(esc) = K /\ K \in Nat
      /\ (\A i \in 1 .. K : esc[i] = kiss_escape(data[i]) /\ data[i] \in Byte)
      /\ E \in Seq(Byte) /\ Len(E) \in Nat
      /\ Len(frame) = Len(E) + 3
      /\ frame[1] = KISS_FEND /\ frame[2] = command /\ frame[Len(E) + 3] = KISS_FEND
      /\ \A j \in 1 .. Len(E) : frame[j + 2] = E[j] /\ E[j] # KISS_FEND
  BY FrameShape
<1>2. /\ N \in Nat /\ \A i \in 0 .. N : D[i] \in Deframer
      /\ \A i \in 1 .. N : bytes[i] \in Byte /\ D[i] = Quiet(KissByte(D[i - 1], bytes[i]))
  BY HistoryFacts
<1>3. n + Len(frame) <= N /\ \A j \in 1 .. Len(frame) : bytes[n + j] = frame[j]
  BY DEF LiesAt
<1> DEFINE End(k) == EndOf(esc, k)
<1>4. /\ End(0) = 0 /\ (\A k \in 0 .. K : End(k) \in Nat) /\ End(K) = Len(E)
      /\ \A k \in 1 .. K : End(k) = End(k - 1) + Len(esc[k])
      /\ \A k \in 1 .. K : \A j \in 1 .. Len(esc[k]) : E[End(k - 1) + j] = esc[k][j]
  BY <1>1, Layout
<1>5. \A k \in 0 .. K : End(k) <= Len(E)
  <2>1. ASSUME NEW k \in 0 .. K
        PROVE  End(k) <= Len(E)
    <3>1. k \in 0 .. Len(esc) /\ K \in k .. Len(esc)
      BY <1>1
    <3>2. EndOf(esc, k) <= EndOf(esc, K)
      BY <1>1, <3>1, EndMonotone
    <3>3. QED
      BY <1>4, <3>2
  <2>2. QED
    BY <2>1
<1> HIDE DEF End, E, esc, frame, K, N
<1> DEFINE Reads(i, k) == /\ D[i].in_frame /\ D[i].command = command
                          /\ ~D[i].escape_next /\ D[i].buf = SubSeq(data, 1, k)
           T == {k \in 0 .. K : Reads(n + 2 + End(k), k)}
<1>6. n \in 0 .. N /\ n \in Nat
  BY <1>2 DEF N
<1>7. \A j \in 1 .. Len(E) : n + 2 + j \in 1 .. N /\ bytes[n + 2 + j] = E[j] /\ E[j] # KISS_FEND
  <2>1. ASSUME NEW j \in 1 .. Len(E)
        PROVE  n + 2 + j \in 1 .. N /\ bytes[n + 2 + j] = E[j] /\ E[j] # KISS_FEND
    <3>1. j + 2 \in 1 .. Len(frame) /\ n + (j + 2) = n + 2 + j /\ n + 2 + j \in 1 .. N
      BY <1>1, <1>2, <1>3, <1>6
    <3>2. bytes[n + (j + 2)] = frame[j + 2]
      BY <1>3, <3>1
    <3>3. QED
      BY <1>1, <3>1, <3>2
  <2>2. QED
    BY <2>1
<1>8. 0 \in T
  <2>1. /\ 1 \in 1 .. Len(frame) /\ 2 \in 1 .. Len(frame) /\ n + 1 \in 1 .. N /\ n + 2 \in 1 .. N
        /\ (n + 1) - 1 = n /\ (n + 2) - 1 = n + 1 /\ n + 1 \in 0 .. N
    BY <1>1, <1>2, <1>3, <1>6, SMTT(30)
  <2>2. bytes[n + 1] = KISS_FEND /\ bytes[n + 2] = command
    BY <1>1, <1>3, <2>1
  <2>3. D[n + 1] = Quiet(KissByte(D[n], KISS_FEND)) /\ D[n] \in Deframer
    BY <1>2, <1>6, <2>1, <2>2
  <2>4. /\ D[n + 1].in_frame /\ D[n + 1].command = NoCommand /\ ~D[n + 1].escape_next
        /\ D[n + 1].buf = <<>>
    BY <2>3, OpeningStep
  <2>5. D[n + 2] = Quiet(KissByte(D[n + 1], command)) /\ D[n + 1] \in Deframer
    BY <1>2, <2>1, <2>2
  <2>6. /\ D[n + 2].in_frame /\ D[n + 2].command = command /\ ~D[n + 2].escape_next
        /\ D[n + 2].buf = <<>>
    BY <2>4, <2>5, CommandStep
  <2>7. SubSeq(data, 1, 0) = <<>>
    BY SubSeqEmpty
  <2>8. n + 2 + End(0) = n + 2 /\ 0 \in 0 .. K
    BY <1>1, <1>4, <1>6
  <2>9. QED
    BY <2>6, <2>7, <2>8
<1>9. ASSUME NEW k \in 0 + 1 .. K, k - 1 \in T
      PROVE  k \in T
  <2> DEFINE i == n + 2 + End(k - 1)  x == data[k]
  <2>1. /\ k \in 1 .. K /\ k - 1 \in 0 .. K /\ k \in 0 .. K
        /\ esc[k] = kiss_escape(x) /\ x \in Byte
    BY <1>1
  <2>2. /\ Len(kiss_escape(x)) \in 1 .. 2 /\ End(k) = End(k - 1) + Len(kiss_escape(x))
        /\ End(k - 1) \in Nat /\ End(k) \in Nat /\ End(k) <= Len(E) /\ End(k - 1) <= Len(E)
    BY <1>4, <1>5, <2>1, EscapeShape
  <2>3. Reads(i, k - 1)
    BY <1>9
  <2>4. i \in 0 .. N /\ D[i] \in Deframer
    <3>1. i \in 0 .. N
      <4> DEFINE m == End(k - 1)  l == Len(E)  L == Len(frame)
      <4>1. m \in Nat /\ m <= l /\ l \in Nat /\ L = l + 3 /\ n + L <= N /\ n \in Nat /\ N \in Nat
        BY <1>1, <1>2, <1>3, <1>6, <2>2
      <4> HIDE DEF m, l, L
      <4>2. n + 2 + m \in 0 .. N
        BY <4>1
      <4>3. QED
        BY <4>2 DEF m
    <3>2. QED
      BY <1>2, <3>1
  <2>5. ASSUME NEW j \in 1 .. Len(kiss_escape(x))
        PROVE  /\ i + j \in 1 .. N /\ i + j \in 0 .. N /\ (i + j) - 1 = i + (j - 1)
               /\ bytes[i + j] = kiss_escape(x)[j] /\ bytes[i + j] # KISS_FEND
               /\ bytes[i + j] \in Byte /\ D[i + j] \in Deframer
               /\ D[i + j] = Quiet(KissByte(D[(i + j) - 1], bytes[i + j]))
    <3>1. End(k - 1) + j \in 1 .. Len(E) /\ n + 2 + (End(k - 1) + j) = i + j
      <4> DEFINE m == End(k - 1)  l == Len(E)  c == Len(kiss_escape(x))
      <4>1. m \in Nat /\ l \in Nat /\ n \in Nat /\ c \in 1 .. 2 /\ m + c <= l /\ j \in 1 .. c
        BY <1>1, <1>6, <2>2
      <4> HIDE DEF m, l, c
      <4>2. m + j \in 1 .. l /\ n + 2 + (m + j) = n + 2 + m + j
        BY <4>1
      <4>3. QED
        BY <4>2 DEF m, l
    <3>2. E[End(k - 1) + j] = kiss_escape(x)[j]
      BY <1>4, <2>1
    <3>3. i + j \in 1 .. N /\ bytes[i + j] = kiss_escape(x)[j] /\ bytes[i + j] # KISS_FEND
      BY <1>7, <3>1, <3>2
    <3>4. i + j \in 0 .. N /\ (i + j) - 1 = i + (j - 1)
      <4> HIDE DEF i
      <4>1. i \in Nat /\ N \in Nat /\ j \in Nat
        BY <1>2, <2>2, <2>4
      <4>2. QED
        BY <3>3, <4>1
    <3> HIDE DEF i
    <3>5. QED
      BY <1>2, <3>3, <3>4
  <2>6. SubSeq(data, 1, k) = Append(SubSeq(data, 1, k - 1), x)
    <3>1. k \in 1 .. Len(data) /\ 1 \in 1 .. Len(data)
      BY <1>1, <2>1 DEF K
    <3>2. QED
      BY <3>1
  <2>7. CASE Len(kiss_escape(x)) = 1
    <3>1. kiss_escape(x)[1] = x /\ x # KISS_FEND /\ x # KISS_FESC
      BY <2>1, <2>7, EscapeShape
    <3>2. /\ D[i + 1] = Quiet(KissByte(D[i], x)) /\ (i + 1) - 1 = i
      <4>1. 1 \in 1 .. Len(kiss_escape(x)) /\ i + (1 - 1) = i
        BY <2>4, <2>7
      <4> HIDE DEF i, x
      <4>2. QED
        BY <2>5, <3>1, <4>1
    <3> HIDE DEF i, x
    <3>3. /\ D[i + 1].in_frame /\ D[i + 1].command = command /\ ~D[i + 1].escape_next
          /\ D[i + 1].buf = Append(SubSeq(data, 1, k - 1), x)
      <4>1. /\ D[i] \in Deframer /\ D[i].in_frame /\ D[i].command # NoCommand
            /\ ~D[i].escape_next /\ D[i].buf = SubSeq(data, 1, k - 1) /\ x \in Byte
        BY <2>1, <2>3, <2>4
      <4>2. QED
        <5> DEFINE q == Quiet(KissByte(D[i], x))
        <5>1. /\ q.in_frame /\ q.command = D[i].command /\ ~q.escape_next
              /\ q.buf = Append(D[i].buf, x)
          BY <3>1, <4>1, ReadingStep
        <5> HIDE DEF q
        <5>2. D[i + 1] = q
          BY <3>2 DEF q
        <5>3. QED
          BY <2>3, <4>1, <5>1, <5>2
    <3>4. n + 2 + End(k) = i + 1
      BY <1>6, <2>2, <2>7 DEF i
    <3>5. QED
      BY <2>1, <2>6, <3>3, <3>4
  <2>8. CASE Len(kiss_escape(x)) = 2
    <3>1. kiss_escape(x)[1] = KISS_FESC /\ KissUnescaped(kiss_escape(x)[2]) = x
      BY <2>1, <2>8, EscapeShape
    <3> DEFINE y == kiss_escape(x)[2]
    <3>2. /\ D[i + 1] = Quiet(KissByte(D[i], KISS_FESC)) /\ D[i + 1] \in Deframer
          /\ D[i + 2] = Quiet(KissByte(D[i + 1], y)) /\ y \in Byte /\ y # KISS_FEND
      <4>1. /\ 1 \in 1 .. Len(kiss_escape(x)) /\ 2 \in 1 .. Len(kiss_escape(x))
            /\ i + (1 - 1) = i /\ i + (2 - 1) = i + 1
        BY <2>4, <2>8
      <4> HIDE DEF i, x
      <4>2. /\ D[i + 1] = Quiet(KissByte(D[i], KISS_FESC)) /\ D[i + 1] \in Deframer
        <5>1. /\ (i + 1) - 1 = i + (1 - 1) /\ bytes[i + 1] = kiss_escape(x)[1]
              /\ D[i + 1] \in Deframer /\ D[i + 1] = Quiet(KissByte(D[(i + 1) - 1], bytes[i + 1]))
          BY <2>5, <4>1, Zenon
        <5>2. QED
          BY <3>1, <4>1, <5>1, Zenon
      <4>3. /\ D[i + 2] = Quiet(KissByte(D[i + 1], bytes[i + 2])) /\ bytes[i + 2] = y
            /\ bytes[i + 2] \in Byte /\ bytes[i + 2] # KISS_FEND
        BY <2>5, <4>1
      <4>4. QED
        BY <4>2, <4>3
    <3> HIDE DEF i, x, y
    <3>3. /\ D[i + 1].in_frame /\ D[i + 1].command = command /\ D[i + 1].escape_next
          /\ D[i + 1].buf = SubSeq(data, 1, k - 1)
      BY <2>3, <2>4, <3>2, Bytewise, ReadingStep, SMTT(30)
    <3>4. /\ D[i + 2].in_frame /\ D[i + 2].command = command /\ ~D[i + 2].escape_next
          /\ D[i + 2].buf = Append(SubSeq(data, 1, k - 1), x)
      <4>1. KissUnescaped(y) = x
        BY <3>1 DEF y
      <4>2. QED
        <5>1. D[i + 1].command # NoCommand
          BY <3>3
        <5>2. /\ D[i + 2].in_frame /\ D[i + 2].command = D[i + 1].command /\ ~D[i + 2].escape_next
              /\ D[i + 2].buf = Append(D[i + 1].buf, KissUnescaped(y))
          <6> DEFINE d == D[i + 1]  q == Quiet(KissByte(d, y))
          <6>1. d \in Deframer /\ d.in_frame /\ d.command # NoCommand /\ d.escape_next
            BY <3>2, <3>3, <5>1
          <6> HIDE DEF d
          <6>2. /\ q.in_frame /\ q.command = d.command /\ ~q.escape_next
                /\ q.buf = Append(d.buf, KissUnescaped(y))
            BY <3>2, <6>1, ReadingStep
          <6>3. D[i + 2] = q
            BY <3>2 DEF d
          <6> HIDE DEF q
          <6>4. QED
            BY <6>2, <6>3 DEF d
        <5>3. QED
          BY <3>3, <4>1, <5>2
    <3>5. n + 2 + End(k) = i + 2
      BY <1>6, <2>2, <2>8 DEF i
    <3>6. QED
      BY <2>1, <2>6, <3>4, <3>5
  <2>9. QED
    BY <2>2, <2>7, <2>8
<1>10. K \in T
  <2> HIDE DEF T
  <2>1. \A k \in 0 .. K : k \in T
    BY <1>1, <1>8, <1>9, Induct
  <2>2. QED
    BY <1>1, <2>1, SMTT(30)
<1>11. n + Len(frame) \in n + 3 .. N /\ (n + Len(frame)) - 1 = n + 2 + End(K)
  BY <1>1, <1>3, <1>4, <1>6
<1>12. bytes[n + Len(frame)] = KISS_FEND
  <2>1. Len(frame) \in 1 .. Len(frame)
    BY <1>1
  <2>2. QED
    BY <1>1, <1>3, <2>1
<1>13. SubSeq(data, 1, K) = data
  BY SubSeqFull DEF K
<1>14. Reads(n + 2 + End(K), K)
  BY <1>10
<1>15. QED
  BY <1>11, <1>12, <1>13, <1>14 DEF frame, N

-----------------------------------------------------------------------------
(* What comes in one piece is received                                     *)

\* A piece of the bytes that is the frame
LEMMA PieceLies ==
  ASSUME NEW bytes \in Seq(Byte), NEW frame \in Seq(Byte), frame # <<>>,
         NEW i \in 1 .. Len(bytes) + 1 - Len(frame)
  PROVE  SubSeq(bytes, i, i + Len(frame) - 1) = frame <=> LiesAt(bytes, i - 1, frame)
<1> DEFINE L == Len(frame)  N == Len(bytes)  piece == SubSeq(bytes, i, i + L - 1)
<1>1. L \in Nat \ {0} /\ N \in Nat /\ i \in Nat \ {0} /\ i + L - 1 <= N /\ (i - 1) + L <= N
  OBVIOUS
<1>2. \A j \in i .. i + L - 1 : bytes[j] \in Byte
  BY <1>1
<1>3. /\ piece \in Seq(Byte) /\ Len(piece) = L
      /\ \A j \in 1 .. L : piece[j] = bytes[i + j - 1]
  <2>1. i \in Int /\ i + L - 1 \in Int /\ i <= i + L - 1 /\ (i + L - 1) - i + 1 = L
    BY <1>1
  <2>2. /\ piece \in Seq(Byte)
        /\ Len(piece) = IF i <= i + L - 1 THEN (i + L - 1) - i + 1 ELSE 0
        /\ \A j \in 1 .. (i + L - 1) - i + 1 : piece[j] = bytes[i + j - 1]
    BY <1>2, <2>1, SubSeqProperties
  <2>3. QED
    BY <2>1, <2>2
<1>4. \A j \in 1 .. L : i + j - 1 = (i - 1) + j
  BY <1>1
<1>5. LiesAt(bytes, i - 1, frame) <=> \A j \in 1 .. L : bytes[(i - 1) + j] = frame[j]
  BY <1>1 DEF LiesAt
<1> HIDE DEF piece, L
<1>6. piece = frame <=> \A j \in 1 .. L : piece[j] = frame[j]
  <2>1. Len(piece) = Len(frame)
    BY <1>3 DEF L
  <2>2. QED
    BY <1>3, <2>1, SeqEqual DEF L
<1>7. QED
  BY <1>3, <1>4, <1>5, <1>6 DEF piece, L

\* A data frame that comes in one piece is received at its last byte.
LEMMA IntactCompletes ==
  ASSUME NEW bytes \in Seq(Byte), NEW D, NEW R, History(D, R, bytes), NEW p \in Packet,
         NEW n \in 0 .. Len(bytes), LiesAt(bytes, n, kiss_encode(p))
  PROVE  LET e == n + Len(kiss_encode(p)) IN
         /\ e \in n + 3 .. Len(bytes) /\ Completes(D[e - 1], bytes[e])
         /\ Len(R[e]) \in 1 .. Len(R[Len(bytes)]) /\ R[Len(bytes)][Len(R[e])] = p
<1> DEFINE e == n + Len(kiss_encode(p))
<1>1. kiss_encode(p) = KissFrame(KISS_CMD_DATA, p)
  BY DEF kiss_encode
<1>2. p \in Seq(Byte) /\ p # <<>> /\ Len(p) <= NUS_MAX_PACKET
  BY NusLinkBoundsAssumption DEF Packet
<1>3. /\ e \in n + 3 .. Len(bytes) /\ bytes[e] = KISS_FEND
      /\ D[e - 1].in_frame /\ D[e - 1].command = KISS_CMD_DATA /\ D[e - 1].buf = p
  BY <1>1, <1>2, Bytewise, Decoded
<1> HIDE DEF e
<1>4. Completes(D[e - 1], bytes[e])
  BY <1>2, <1>3 DEF Completes, IsPacket
<1>5. e \in 1 .. Len(bytes)
  BY <1>3
<1>6. Len(R[e]) \in 1 .. Len(R[Len(bytes)]) /\ R[Len(bytes)][Len(R[e])] = p
  BY <1>3, <1>4, <1>5, AtCompletion
<1>7. QED
  BY <1>3, <1>4, <1>6 DEF e

\* Where a frame lies in one piece
PiecesOf(bytes, frame) ==
  {i \in 1 .. Len(bytes) + 1 - Len(frame) : SubSeq(bytes, i, i + Len(frame) - 1) = frame}

\* A packet is received as often as its frame comes in one piece, or more often.
LEMMA IntactReceived ==
  ASSUME NEW bytes \in Seq(Byte), NEW D, NEW R, History(D, R, bytes), NEW p \in Packet
  PROVE  LET last == R[Len(bytes)] IN
         Cardinality(PiecesOf(bytes, kiss_encode(p))) <=
           Cardinality({k \in DOMAIN last : last[k] = p})
<1> DEFINE last == R[Len(bytes)]  frame == kiss_encode(p)  L == Len(frame)  N == Len(bytes)
           I == PiecesOf(bytes, frame)  K == {k \in DOMAIN last : last[k] = p}
<1>1. frame \in Seq(Byte) /\ L \in Nat /\ L >= 3 /\ frame # <<>>
  <2>1. p \in Seq(Byte)
    BY DEF Packet
  <2>2. /\ Len(KissFrame(KISS_CMD_DATA, p)) = Len(FlattenSeq(Escaped(p))) + 3
        /\ Len(FlattenSeq(Escaped(p))) \in Nat /\ KissFrame(KISS_CMD_DATA, p) \in Seq(Byte)
    BY <2>1, Bytewise, FrameShape
  <2>3. frame \in Seq(Byte) /\ L \in Nat /\ L >= 3
    BY <2>2 DEF kiss_encode
  <2>4. QED
    BY <2>3
<1>2. N \in Nat /\ last \in Seq(Packet) /\ Len(last) \in Nat /\ DOMAIN last = 1 .. Len(last)
  <2>1. N \in 0 .. N /\ N \in Nat
    BY HistoryFacts
  <2>2. last \in Seq(Packet)
    BY <2>1, HistoryFacts
  <2>3. QED
    BY <2>1, <2>2
<1> HIDE DEF frame, L, N, last
<1> DEFINE g == [i \in I |-> Len(R[(i - 1) + L])]
<1>3. ASSUME NEW i \in I
      PROVE  /\ i \in 1 .. N /\ i \in Nat
             /\ (i - 1) + L \in 1 .. N /\ Completes(D[((i - 1) + L) - 1], bytes[(i - 1) + L])
             /\ Len(R[(i - 1) + L]) \in 1 .. Len(last) /\ last[Len(R[(i - 1) + L])] = p
  <2>1. i \in 1 .. Len(bytes) + 1 - Len(frame) /\ SubSeq(bytes, i, i + Len(frame) - 1) = frame
    BY DEF PiecesOf
  <2>2. LiesAt(bytes, i - 1, frame)
    BY <1>1, <2>1, PieceLies
  <2>3. i - 1 \in 0 .. N /\ i \in 1 .. N /\ i \in Nat
    BY <1>1, <1>2, <2>1 DEF L, N
  <2>4. /\ (i - 1) + L \in (i - 1) + 3 .. N
        /\ Completes(D[((i - 1) + L) - 1], bytes[(i - 1) + L])
        /\ Len(R[(i - 1) + L]) \in 1 .. Len(last) /\ last[Len(R[(i - 1) + L])] = p
    BY <2>2, <2>3, IntactCompletes DEF frame, L, N, last
  <2>5. (i - 1) + L \in 1 .. N
    BY <1>1, <2>3, <2>4
  <2>6. QED
    BY <2>3, <2>4, <2>5
<1>4. g \in Injection(I, K)
  <2>1. g \in [I -> K]
    <3>1. \A i \in I : Len(R[(i - 1) + L]) \in K
      BY <1>2, <1>3
    <3>2. QED
      BY <3>1
  <2>2. ASSUME NEW i \in I, NEW j \in I, i < j
        PROVE  g[i] # g[j]
    <3> DEFINE e == (i - 1) + L  f == (j - 1) + L
    <3>1. e \in 1 .. N /\ f \in 1 .. N /\ e < f
      BY <1>1, <1>3, <2>2
    <3>2. Completes(D[f - 1], bytes[f])
      BY <1>3
    <3>3. g[i] = Len(R[e]) /\ g[j] = Len(R[f])
      OBVIOUS
    <3>4. Len(R[e]) \in 1 .. Len(last) /\ Len(R[f]) \in 1 .. Len(last)
      BY <1>3
    <3> HIDE DEF e, f, g
    <3>5. f \in e + 1 .. N
      BY <1>2, <3>1
    <3>6. Len(R[e]) < Len(R[f])
      BY <3>1, <3>2, <3>5, LaterCompletion DEF N
    <3>7. QED
      BY <1>2, <3>3, <3>4, <3>6
  <2>3. ASSUME NEW i \in I, NEW j \in I, g[i] = g[j]
        PROVE  i = j
    <3>1. i \in Nat /\ j \in Nat
      BY <1>3
    <3>2. ~(i < j) /\ ~(j < i)
      <4> HIDE DEF g
      <4>1. QED
        BY <2>2, <2>3
    <3>3. QED
      BY <3>1, <3>2
  <2> HIDE DEF g
  <2>4. \A i, j \in DOMAIN g : g[i] = g[j] => i = j
    BY <2>1, <2>3
  <2>5. QED
    BY <2>1, <2>4, Zenon DEF Injection, IsInjective
<1>5. IsFiniteSet(K)
  <2>1. IsFiniteSet(1 .. Len(last))
    BY <1>2, FS_Interval
  <2>2. K \in SUBSET (1 .. Len(last))
    BY <1>2
  <2>3. QED
    BY <2>1, <2>2, FS_Subset
<1>6. Cardinality(I) <= Cardinality(K)
  BY <1>4, <1>5, FS_Injection
<1>7. QED
  BY <1>6 DEF last, frame, N

-----------------------------------------------------------------------------
(* What the RNodes send                                                    *)

\* A byte that its RNode sends
ValidPlace == {q \in Place : q.at \in 1 .. Len(Stream[q.rnode])}

\* The stream of an RNode is its frames, one behind the other.
LEMMA StreamFacts ==
  ASSUME NEW r \in RNode
  PROVE  /\ Len(Traffic[r]) \in Nat /\ DOMAIN Traffic[r] = 1 .. Len(Traffic[r])
         /\ Encoded(r) \in Seq(Seq(Byte)) /\ Len(Encoded(r)) = Len(Traffic[r])
         /\ \A n \in 1 .. Len(Traffic[r]) :
              /\ Traffic[r][n][1] \in Byte \ {KISS_FEND, NoCommand} /\ Traffic[r][n][2] \in Seq(Byte)
              /\ Traffic[r][n] = <<Traffic[r][n][1], Traffic[r][n][2]>>
              /\ Encoded(r)[n] = KissFrame(Traffic[r][n][1], Traffic[r][n][2])
         /\ Stream[r] = FlattenSeq(Encoded(r)) /\ Stream[r] \in Seq(Byte) /\ Len(Stream[r]) \in Nat
         /\ Boundaries[r] = {EndOf(Encoded(r), n) : n \in 0 .. Len(Encoded(r))}
<1> DEFINE t == Traffic[r]
<1>1. t \in Seq((Byte \ {KISS_FEND, NoCommand}) \X Seq(Byte))
  BY TrafficAssumption
<1>2. Len(t) \in Nat /\ DOMAIN t = 1 .. Len(t)
  BY <1>1
<1>3. \A n \in 1 .. Len(t) : t[n] \in (Byte \ {KISS_FEND, NoCommand}) \X Seq(Byte)
  BY <1>1
<1>4. \A n \in 1 .. Len(t) :
        /\ t[n][1] \in Byte \ {KISS_FEND, NoCommand} /\ t[n][2] \in Seq(Byte)
        /\ t[n] = <<t[n][1], t[n][2]>>
  BY <1>3
<1>5. Encoded(r) = [n \in 1 .. Len(t) |-> KissFrame(t[n][1], t[n][2])]
  BY <1>2 DEF Encoded
<1>6. Encoded(r) \in [1 .. Len(t) -> Seq(Byte)]
  <2>1. ASSUME NEW n \in 1 .. Len(t)
        PROVE  KissFrame(t[n][1], t[n][2]) \in Seq(Byte)
    <3>1. t[n][1] \in Byte /\ t[n][2] \in Seq(Byte)
      BY <1>4
    <3>2. QED
      BY <3>1, FrameShape
  <2>2. QED
    BY <1>5, <2>1
<1>7. Encoded(r) \in Seq(Seq(Byte)) /\ Len(Encoded(r)) = Len(t)
  BY <1>2, <1>6, IsSeq
<1>8. Stream[r] = FlattenSeq(Encoded(r))
  BY DEF Stream
<1>9. Stream[r] \in Seq(Byte)
  BY <1>7, <1>8, Layout
<1>10. Len(Stream[r]) \in Nat
  BY <1>9
<1>11. Boundaries[r] = {EndOf(Encoded(r), n) : n \in 0 .. Len(Encoded(r))}
  BY DEF Boundaries, EndOf
<1>12. QED
  BY <1>2, <1>4, <1>5, <1>7, <1>8, <1>9, <1>10, <1>11

\* A delimiter ends a frame or begins one.
LEMMA AtDelimiter ==
  ASSUME NEW r \in RNode, NEW a \in 1 .. Len(Stream[r]), Stream[r][a] = KISS_FEND
  PROVE  a \in Boundaries[r] \/ a - 1 \in Boundaries[r]
<1> DEFINE s == Encoded(r)
<1>1. /\ s \in Seq(Seq(Byte)) /\ Len(s) \in Nat /\ Stream[r] = FlattenSeq(s)
      /\ Boundaries[r] = {EndOf(s, n) : n \in 0 .. Len(s)}
  BY StreamFacts
<1> HIDE DEF s
<1>2. PICK n \in 1 .. Len(s) : a - EndOf(s, n - 1) \in 1 .. Len(s[n])
  BY <1>1, Located
<1>3. n - 1 \in 0 .. Len(s) /\ n \in 0 .. Len(s)
  BY <1>1
<1>4. PICK command \in Byte, data \in Seq(Byte) :
        command # KISS_FEND /\ s[n] = KissFrame(command, data)
  BY StreamFacts DEF s
<1> DEFINE j == a - EndOf(s, n - 1)  E == FlattenSeq(Escaped(data))
<1>5. /\ Len(E) \in Nat /\ Len(s[n]) = Len(E) + 3 /\ s[n][2] = command
      /\ \A i \in 1 .. Len(E) : s[n][i + 2] # KISS_FEND
  <2> DEFINE frame == KissFrame(command, data)
  <2>1. /\ Len(E) \in Nat /\ Len(frame) = Len(E) + 3 /\ frame[2] = command
        /\ \A i \in 1 .. Len(E) : frame[i + 2] = E[i] /\ E[i] # KISS_FEND
    BY FrameShape
  <2>2. s[n] = frame
    BY <1>4
  <2> HIDE DEF frame, E
  <2>3. QED
    BY <2>1, <2>2
<1>6. /\ EndOf(s, n - 1) \in Nat /\ EndOf(s, n) \in Nat /\ EndOf(s, n) = EndOf(s, n - 1) + Len(s[n])
      /\ a \in Nat
  <2>1. EndOf(s, n - 1) \in Nat /\ EndOf(s, n) \in Nat /\ EndOf(s, n) = EndOf(s, n - 1) + Len(s[n])
    BY <1>1, <1>3, Layout
  <2>2. QED
    BY <2>1, StreamFacts
<1>7. j \in Nat /\ EndOf(s, n - 1) + j = a
  BY <1>2, <1>6, SMTT(30)
<1>8. s[n][j] = KISS_FEND
  <2>1. FlattenSeq(s)[EndOf(s, n - 1) + j] = s[n][j]
    BY <1>1, <1>2, Layout, SMTT(30)
  <2>2. QED
    BY <1>1, <1>7, <2>1
<1> HIDE DEF j, E
<1>9. j = 1 \/ j = Len(s[n])
  <2>1. SUFFICES ASSUME j # 1, j # Len(s[n]) PROVE FALSE
    OBVIOUS
  <2>2. j \in 2 .. Len(E) + 2
    BY <1>2, <1>5, <2>1, SMTT(30) DEF j
  <2>3. j # 2
    BY <1>4, <1>5, <1>8
  <2>4. j - 2 \in 1 .. Len(E) /\ (j - 2) + 2 = j
    BY <1>5, <2>2, <2>3
  <2>5. QED
    BY <1>5, <1>8, <2>4
<1>10. a = EndOf(s, n) \/ a - 1 = EndOf(s, n - 1)
  BY <1>6, <1>7, <1>9
<1>11. QED
  BY <1>1, <1>3, <1>10

\* The frame n of the stream begins at position a of it.
Begins(r, a, n) ==
  LET frame == KissFrame(Traffic[r][n][1], Traffic[r][n][2]) IN
  \A j \in 1 .. Len(frame) : /\ Stream[r][a - 1 + j] = frame[j]
                             /\ j # Len(frame) => a - 1 + j \notin Boundaries[r]

\* Behind the end of a frame begins another.
LEMMA NextFrame ==
  ASSUME NEW r \in RNode, NEW a \in 1 .. Len(Stream[r]), a - 1 \in Boundaries[r]
  PROVE  \E n \in 1 .. Len(Traffic[r]) : Begins(r, a, n)
<1> DEFINE s == Encoded(r)
<1>1. /\ s \in Seq(Seq(Byte)) /\ Len(s) \in Nat /\ Len(s) = Len(Traffic[r]) /\ Stream[r] = FlattenSeq(s)
      /\ Boundaries[r] = {EndOf(s, n) : n \in 0 .. Len(s)} /\ Len(Stream[r]) \in Nat
      /\ \A n \in 1 .. Len(s) : s[n] = KissFrame(Traffic[r][n][1], Traffic[r][n][2])
  BY StreamFacts
<1> HIDE DEF s
<1>2. PICK m \in 0 .. Len(s) : a - 1 = EndOf(s, m)
  BY <1>1
<1>3. /\ Len(Stream[r]) = EndOf(s, Len(s))
      /\ \A n \in 0 .. Len(s) : EndOf(s, n) \in Nat
      /\ \A n \in 1 .. Len(s) : EndOf(s, n) = EndOf(s, n - 1) + Len(s[n])
      /\ \A n \in 1 .. Len(s) : \A j \in 1 .. Len(s[n]) : Stream[r][EndOf(s, n - 1) + j] = s[n][j]
  BY <1>1, Layout, SMTT(30)
<1>4. m # Len(s)
  BY <1>1, <1>2, <1>3
<1> DEFINE n == m + 1
<1>5. n \in 1 .. Len(s) /\ n - 1 = m /\ n \in 0 .. Len(s) /\ m \in Nat /\ a \in Nat
  BY <1>1, <1>4, SMTT(30)
<1>6. ASSUME NEW j \in 1 .. Len(s[n])
      PROVE  Stream[r][a - 1 + j] = s[n][j]
  <2>1. Stream[r][EndOf(s, n - 1) + j] = s[n][j]
    BY <1>3, <1>5
  <2>2. QED
    BY <1>2, <1>5, <2>1
<1>7. ASSUME NEW j \in 1 .. Len(s[n]), j # Len(s[n]), a - 1 + j \in Boundaries[r]
      PROVE  FALSE
  <2>1. PICK k \in 0 .. Len(s) : a - 1 + j = EndOf(s, k)
    BY <1>1, <1>7
  <2>2. Len(s[n]) \in Nat
    BY <1>1, <1>5
  <2>3. EndOf(s, n) = EndOf(s, m) + Len(s[n]) /\ EndOf(s, m) \in Nat
    BY <1>3, <1>5
  <2> HIDE DEF n
  <2>4. EndOf(s, m) < EndOf(s, k) /\ EndOf(s, k) < EndOf(s, n)
    BY <1>2, <1>5, <1>7, <2>1, <2>2, <2>3, SMTT(30)
  <2>5. EndOf(s, k) \in Nat /\ EndOf(s, n) \in Nat
    BY <1>3, <1>5
  <2>6. CASE k <= m
    <3>1. m \in k .. Len(s)
      BY <1>5, <2>6
    <3>2. EndOf(s, k) <= EndOf(s, m)
      BY <1>1, <3>1, EndMonotone
    <3>3. QED
      BY <2>3, <2>4, <2>5, <3>2
  <2>7. CASE ~(k <= m)
    <3>1. k \in n .. Len(s)
      BY <1>5, <2>7 DEF n
    <3>2. EndOf(s, n) <= EndOf(s, k)
      BY <1>1, <1>5, <3>1, EndMonotone
    <3>3. QED
      BY <2>4, <2>5, <3>2
  <2>8. QED
    BY <2>6, <2>7
<1>8. Begins(r, a, n)
  <2>1. s[n] = KissFrame(Traffic[r][n][1], Traffic[r][n][2])
    BY <1>1, <1>5
  <2>2. QED
    BY <1>6, <1>7, <2>1, SMTT(30) DEF Begins
<1>9. QED
  BY <1>1, <1>5, <1>8

-----------------------------------------------------------------------------
(* What the deframer completes                                             *)

\* The bytes of valid places
LEMMA BytesOf ==
  ASSUME NEW places \in Seq(ValidPlace)
  PROVE  /\ Bytes(places) \in Seq(Byte) /\ Len(Bytes(places)) = Len(places) /\ Len(places) \in Nat
         /\ \A i \in 1 .. Len(places) :
              /\ places[i].rnode \in RNode /\ places[i].at \in 1 .. Len(Stream[places[i].rnode])
              /\ Bytes(places)[i] = Stream[places[i].rnode][places[i].at]
<1>1. Len(places) \in Nat /\ DOMAIN places = 1 .. Len(places)
  OBVIOUS
<1>2. \A i \in 1 .. Len(places) : places[i] \in ValidPlace
  OBVIOUS
<1>3. \A i \in 1 .. Len(places) :
        places[i].rnode \in RNode /\ places[i].at \in 1 .. Len(Stream[places[i].rnode])
  BY <1>2 DEF ValidPlace, Place
<1>4. \A r \in RNode : \A a \in 1 .. Len(Stream[r]) : Stream[r][a] \in Byte
  <2>1. ASSUME NEW r \in RNode, NEW a \in 1 .. Len(Stream[r])
        PROVE  Stream[r][a] \in Byte
    <3>1. Stream[r] \in Seq(Byte)
      BY StreamFacts
    <3>2. QED
      BY <3>1
  <2>2. QED
    BY <2>1
<1>5. \A i \in 1 .. Len(places) : Stream[places[i].rnode][places[i].at] \in Byte
  BY <1>3, <1>4
<1>6. Bytes(places) = [i \in 1 .. Len(places) |-> Stream[places[i].rnode][places[i].at]]
  BY <1>1 DEF Bytes
<1>7. Bytes(places) \in [1 .. Len(places) -> Byte]
  BY <1>5, <1>6
<1>8. Bytes(places) \in Seq(Byte) /\ Len(Bytes(places)) = Len(places)
  BY <1>1, <1>7, IsSeq
<1>9. QED
  BY <1>1, <1>3, <1>6, <1>8

\* The byte i of the deframer is the one at position a of r's stream.
From(i, r, a) == fed[i].rnode = r /\ fed[i].at = a

\* What follows, without damage, on the delimiter that begins a frame is that frame.
LEMMA Followed ==
  ASSUME fed \in Seq(ValidPlace), NEW r \in RNode, NEW a \in Nat, NEW n \in 1 .. Len(Traffic[r]),
         Begins(r, a, n),
         NEW s \in 1 .. Len(fed), From(s, r, a),
         NEW j \in 1 .. Len(KissFrame(Traffic[r][n][1], Traffic[r][n][2])), s - 1 + j <= Len(fed),
         \A i \in s + 1 .. s - 1 + j : i \notin Seams
  PROVE  /\ From(s - 1 + j, r, a - 1 + j)
         /\ Bytes(fed)[s - 1 + j] = KissFrame(Traffic[r][n][1], Traffic[r][n][2])[j]
<1> DEFINE frame == KissFrame(Traffic[r][n][1], Traffic[r][n][2])
           T == {i \in 1 .. j : From(s - 1 + i, r, a - 1 + i)}
<1>1. Len(frame) \in Nat
  <2>1. Traffic[r][n][1] \in Byte /\ Traffic[r][n][2] \in Seq(Byte)
    BY StreamFacts
  <2>2. frame \in Seq(Byte)
    BY <2>1, FrameShape
  <2>3. QED
    BY <2>2
<1>2. Len(fed) \in Nat /\ s \in Nat /\ j \in Nat /\ DOMAIN fed = 1 .. Len(fed)
  BY <1>1
<1>3. 1 \in T
  <2>1. s - 1 + 1 = s /\ a - 1 + 1 = a /\ 1 \in 1 .. j
    BY <1>2
  <2>2. QED
    BY <2>1
<1>4. ASSUME NEW i \in 1 + 1 .. j, i - 1 \in T
      PROVE  i \in T
  <2> DEFINE p == fed[s - 1 + (i - 1)]  q == fed[s - 1 + i]
  <2>1. /\ s - 1 + i \in s + 1 .. s - 1 + j /\ s - 1 + i \in 1 .. Len(fed) /\ s - 1 + i # 1
        /\ (s - 1 + i) - 1 = s - 1 + (i - 1) /\ i - 1 \in 1 .. Len(frame) /\ i - 1 # Len(frame)
        /\ i \in 1 .. j /\ s - 1 + (i - 1) \in 1 .. Len(fed)
    BY <1>1, <1>2
  <2>2. Joins(p, q)
    <3>1. s - 1 + i \notin Seams
      BY <2>1
    <3>2. Joins(fed[(s - 1 + i) - 1], fed[s - 1 + i])
      BY <1>2, <2>1, <3>1 DEF Seams
    <3>3. QED
      BY <2>1, <3>2
  <2>3. p.rnode = r /\ p.at = a - 1 + (i - 1)
    BY <1>4 DEF From
  <2>4. p.at \notin Boundaries[p.rnode]
    BY <2>1, <2>3 DEF Begins
  <2>5. p.rnode = q.rnode /\ q.at = p.at + 1
    BY <2>2, <2>4 DEF Joins
  <2>6. From(s - 1 + i, r, a - 1 + i)
    <3>1. (a - 1 + (i - 1)) + 1 = a - 1 + i
      BY <1>2, <2>1
    <3>2. QED
      BY <2>3, <2>5, <3>1 DEF From
  <2>7. QED
    BY <2>1, <2>6
<1> HIDE DEF T
<1>5. \A i \in 1 .. j : i \in T
  BY <1>2, <1>3, <1>4, Induct
<1>6. From(s - 1 + j, r, a - 1 + j)
  BY <1>2, <1>5 DEF T
<1>7. s - 1 + j \in 1 .. Len(fed)
  BY <1>2
<1>8. Bytes(fed)[s - 1 + j] = Stream[r][a - 1 + j]
  BY <1>6, <1>7, BytesOf DEF From
<1>9. Stream[r][a - 1 + j] = frame[j]
  BY DEF Begins
<1>10. QED
  BY <1>6, <1>8, <1>9

\* The packet of the frame n of an RNode, which is one of those sent.
LEMMA SentPacket ==
  ASSUME NEW r \in RNode, NEW n \in 1 .. Len(Traffic[r]), IsPacket(Traffic[r][n]),
         Traffic[r][n][2] # <<>>
  PROVE  Traffic[r][n][2] \in Packets
<1>1. Traffic[r][n] \in Range(Traffic[r])
  BY StreamFacts DEF Range
<1>2. QED
  BY <1>1 DEF Packets

\* A packet that is sent is a packet.
LEMMA PacketsArePackets == Packets \subseteq Packet
<1>1. SUFFICES ASSUME NEW r \in RNode, NEW f \in Range(Traffic[r]), IsPacket(f), f[2] # <<>>
               PROVE  f[2] \in Packet
  BY DEF Packets
<1>2. PICK n \in 1 .. Len(Traffic[r]) : f = Traffic[r][n]
  BY StreamFacts DEF Range
<1>3. f[2] \in Seq(Byte)
  BY <1>2, StreamFacts
<1>4. Len(f[2]) \in Nat /\ Len(f[2]) # 0 /\ Len(f[2]) <= NUS_MAX_PACKET
  BY <1>1, <1>3 DEF IsPacket
<1>5. QED
  BY <1>3, <1>4, NusLinkBoundsAssumption DEF Packet

\* What is completed without damage since the delimiter is a packet that was sent,
\* and its frame lies there in one piece.
LEMMA Piece ==
  ASSUME fed \in Seq(ValidPlace), NEW D, NEW R, History(D, R, Bytes(fed)),
         NEW e \in 1 .. Len(fed), Completes(D[e - 1], Bytes(fed)[e]),
         NEW s \in 1 .. e - 1, Bytes(fed)[s] = KISS_FEND,
         \A j \in s + 1 .. e - 1 : Bytes(fed)[j] # KISS_FEND,
         \A i \in s + 1 .. e : i \notin Seams
  PROVE  D[e - 1].buf \in Packets /\ s \in Intact(D[e - 1].buf)
<1> DEFINE bytes == Bytes(fed)  N == Len(bytes)  r == fed[s].rnode  a == fed[s].at
<1>1. /\ bytes \in Seq(Byte) /\ N = Len(fed) /\ N \in Nat /\ DOMAIN fed = 1 .. N
      /\ e \in 1 .. N /\ s \in 1 .. N /\ s \in Nat /\ e \in Nat /\ s < e
  <2>1. bytes \in Seq(Byte) /\ N = Len(fed) /\ N \in Nat /\ DOMAIN fed = 1 .. Len(fed)
    BY BytesOf
  <2> HIDE DEF bytes
  <2>2. QED
    BY <2>1
<1>2. r \in RNode /\ a \in 1 .. Len(Stream[r]) /\ Stream[r][a] = KISS_FEND /\ a \in Nat
  <2>1. r \in RNode /\ a \in 1 .. Len(Stream[r]) /\ bytes[s] = Stream[r][a]
    BY <1>1, BytesOf
  <2>2. Len(Stream[r]) \in Nat
    BY <2>1, StreamFacts
  <2>3. QED
    BY <2>1, <2>2
<1>3. bytes[e] = KISS_FEND /\ D[e - 1].buf # <<>> /\ IsPacket(<<D[e - 1].command, D[e - 1].buf>>)
  BY DEF Completes
<1> HIDE DEF bytes, N
<1>4. CASE a - 1 \in Boundaries[r]
  <2> HIDE DEF r, a
  <2>1. PICK n \in 1 .. Len(Traffic[r]) : Begins(r, a, n)
    BY <1>2, <1>4, NextFrame
  <2> DEFINE command == Traffic[r][n][1]  data == Traffic[r][n][2]
             frame == KissFrame(command, data)  L == Len(frame)  E == FlattenSeq(Escaped(data))
  <2>2. /\ command \in Byte /\ command # KISS_FEND /\ command # NoCommand /\ data \in Seq(Byte)
        /\ Traffic[r][n] = <<command, data>>
    BY <1>2, StreamFacts
  <2> HIDE DEF command, data
  <2>3. /\ frame \in Seq(Byte) /\ Len(E) \in Nat /\ L = Len(E) + 3 /\ L \in Nat
        /\ frame[2] = command /\ frame[L] = KISS_FEND
        /\ \A j \in 1 .. Len(E) : frame[j + 2] # KISS_FEND
    <3>1. /\ frame \in Seq(Byte) /\ Len(E) \in Nat /\ Len(frame) = Len(E) + 3
          /\ frame[2] = command /\ frame[Len(E) + 3] = KISS_FEND
          /\ \A j \in 1 .. Len(E) : frame[j + 2] = E[j] /\ E[j] # KISS_FEND
      BY <2>2, FrameShape
    <3> HIDE DEF frame, E
    <3>2. QED
      BY <3>1, SMTT(30)
  <2>4. From(s, r, a)
    BY DEF From, r, a
  <2>5. ASSUME NEW j \in 1 .. L, s - 1 + j <= e
        PROVE  bytes[s - 1 + j] = frame[j]
    <3>1. s - 1 + j <= Len(fed) /\ \A i \in s + 1 .. s - 1 + j : i \in s + 1 .. e
      BY <1>1, <2>3, <2>5, SMTT(30)
    <3>2. \A i \in s + 1 .. s - 1 + j : i \notin Seams
      BY <3>1
    <3>3. s \in 1 .. Len(fed)
      BY <1>1
    <3>4. QED
      BY <1>2, <2>1, <2>4, <3>1, <3>2, <3>3, Followed, SMTT(30) DEF bytes, command, data
  <2> HIDE DEF frame, L, E
  <2>6. e = s - 1 + L
    <3>1. ASSUME s - 1 + L < e PROVE FALSE
      <4>1. L \in 1 .. L /\ s - 1 + L \in s + 1 .. e - 1 /\ s - 1 + L <= e
        BY <1>1, <2>3, <3>1
      <4>2. bytes[s - 1 + L] = KISS_FEND
        BY <2>3, <2>5, <4>1
      <4>3. QED
        BY <4>1, <4>2 DEF bytes
    <3>2. ASSUME e < s - 1 + L PROVE FALSE
      <4> DEFINE j == e - s + 1
      <4>1. j \in 2 .. L - 1 /\ j \in 1 .. L /\ s - 1 + j = e
        BY <1>1, <2>3, <3>2
      <4> HIDE DEF j
      <4>2. bytes[e] = frame[j]
        BY <1>1, <2>5, <4>1, SMTT(30)
      <4>3. frame[j] # KISS_FEND
        <5>1. CASE j = 2
          BY <2>2, <2>3, <5>1
        <5>2. CASE j # 2
          <6>1. j - 2 \in 1 .. Len(E) /\ (j - 2) + 2 = j
            BY <2>3, <4>1, <5>2
          <6>2. QED
            BY <2>3, <6>1
        <5>3. QED
          BY <5>1, <5>2
      <4>4. QED
        BY <1>3, <4>2, <4>3
    <3>3. ~(s - 1 + L < e) /\ ~(e < s - 1 + L)
      BY <3>1, <3>2
    <3>4. s \in Nat /\ e \in Nat /\ L \in Nat
      BY <1>1, <2>3
    <3>5. QED
      BY <3>3, <3>4
  <2>7. LiesAt(bytes, s - 1, frame)
    <3>1. (s - 1) + Len(frame) <= N
      BY <1>1, <2>3, <2>6 DEF L
    <3>2. ASSUME NEW j \in 1 .. Len(frame)
          PROVE  bytes[(s - 1) + j] = frame[j]
      <4>1. s - 1 + j <= e /\ j \in 1 .. L
        BY <1>1, <2>3, <2>6 DEF L
      <4>2. QED
        BY <2>5, <4>1
    <3>3. QED
      BY <3>1, <3>2 DEF LiesAt, N
  <2>8. D[e - 1].command = command /\ D[e - 1].buf = data
    <3>1. s - 1 \in 0 .. Len(bytes) /\ (s - 1) + Len(frame) = e
      BY <1>1, <2>3, <2>6 DEF L, N
    <3>2. History(D, R, bytes)
      BY DEF bytes
    <3>3. LiesAt(bytes, s - 1, KissFrame(command, data))
      BY <2>7 DEF frame
    <3> DEFINE m == s - 1  x == m + Len(KissFrame(command, data))
    <3>4. m \in 0 .. Len(bytes) /\ LiesAt(bytes, m, KissFrame(command, data)) /\ x = e
      BY <3>1, <3>3 DEF frame
    <3> HIDE DEF m
    <3>5. D[x - 1].command = command /\ D[x - 1].buf = data
      BY <1>1, <2>2, <3>2, <3>4, Decoded, SMTT(30)
    <3> HIDE DEF x
    <3>6. QED
      BY <3>4, <3>5
  <2>9. IsPacket(Traffic[r][n]) /\ data # <<>> /\ command = KISS_CMD_DATA
    BY <1>3, <2>2, <2>8 DEF IsPacket
  <2>10. data \in Packets
    BY <1>2, <2>9, SentPacket DEF data
  <2>11. s \in Intact(data)
    <3>1. kiss_encode(data) = frame
      BY <2>9 DEF kiss_encode, frame
    <3>2. frame # <<>>
      BY <2>3 DEF L
    <3>3. s \in 1 .. Len(bytes) + 1 - Len(frame)
      <4>1. s - 1 + L <= N /\ L \in Nat
        BY <1>1, <2>3, <2>6
      <4>2. s <= N + 1 - L
        BY <1>1, <4>1
      <4>3. QED
        BY <1>1, <4>1, <4>2 DEF N, L
    <3>4. SubSeq(bytes, s, s + Len(frame) - 1) = frame
      BY <1>1, <2>3, <2>7, <3>2, <3>3, PieceLies
    <3>5. QED
      BY <3>1, <3>3, <3>4 DEF Intact, bytes
  <2>12. QED
    BY <2>8, <2>10, <2>11
<1>5. CASE a - 1 \notin Boundaries[r]
  <2> DEFINE q == fed[s + 1]
  <2>1. s + 1 \in 1 .. N /\ (s + 1) - 1 = s /\ s + 1 # 1 /\ s + 1 \in s + 1 .. e
    BY <1>1
  <2>2. Joins(fed[s], q)
    <3>1. s + 1 \notin Seams
      BY <2>1
    <3>2. Joins(fed[(s + 1) - 1], fed[s + 1])
      BY <1>1, <2>1, <3>1 DEF Seams
    <3>3. QED
      BY <2>1, <3>2
  <2>3. q.rnode \in RNode /\ q.at \in 1 .. Len(Stream[q.rnode]) /\ bytes[s + 1] = Stream[q.rnode][q.at]
    BY <1>1, <2>1, BytesOf DEF bytes
  <2>4. q.at - 1 \in Boundaries[q.rnode]
    <3>1. a \in Boundaries[r]
      BY <1>2, <1>5, AtDelimiter
    <3>2. CASE q.rnode = r /\ q.at = a + 1
      <4>1. q.at - 1 = a
        BY <1>2, <3>2
      <4>2. QED
        BY <3>1, <3>2, <4>1
    <3>3. QED
      BY <2>2, <3>2 DEF Joins
  <2> HIDE DEF q
  <2>5. PICK n \in 1 .. Len(Traffic[q.rnode]) : Begins(q.rnode, q.at, n)
    BY <2>3, <2>4, NextFrame
  <2>6. bytes[s + 1] = KISS_FEND
    <3> DEFINE frame == KissFrame(Traffic[q.rnode][n][1], Traffic[q.rnode][n][2])
    <3>1. Traffic[q.rnode][n][1] \in Byte /\ Traffic[q.rnode][n][2] \in Seq(Byte)
      BY <2>3, StreamFacts
    <3>2. frame[1] = KISS_FEND /\ 1 \in 1 .. Len(frame)
      BY <3>1, FrameShape, SMTT(30)
    <3>3. Stream[q.rnode][q.at - 1 + 1] = frame[1]
      BY <2>5, <3>2 DEF Begins
    <3>4. q.at - 1 + 1 = q.at
      <4>1. Len(Stream[q.rnode]) \in Nat
        BY <2>3, StreamFacts
      <4>2. QED
        BY <2>3, <4>1
    <3>5. QED
      BY <2>3, <3>2, <3>3, <3>4
  <2>7. e - 1 = s
    <3>1. s + 1 \notin s + 1 .. e - 1
      BY <2>6 DEF bytes
    <3>2. QED
      BY <1>1, <3>1
  <2>8. D[s] = Quiet(KissByte(D[s - 1], KISS_FEND)) /\ D[s - 1] \in Deframer
    <3>1. History(D, R, bytes) /\ s \in 1 .. Len(bytes) /\ bytes[s] = KISS_FEND
      BY <1>1 DEF bytes, N
    <3>2. QED
      BY <1>1, <3>1, HistoryFacts
  <2>9. D[s].buf = <<>>
    BY <2>8, OpeningStep
  <2>10. QED
    BY <1>3, <2>7, <2>9
<1>6. QED
  BY <1>4, <1>5

-----------------------------------------------------------------------------
(* How much is received                                                    *)

\* A set of numbers that is mapped into a finite one, increasing, is no larger.
LEMMA IncreasingCount ==
  ASSUME NEW T, T \subseteq Nat, NEW U, U \subseteq Nat, IsFiniteSet(U), NEW f \in [T -> U],
         \A i, j \in T : i < j => f[i] < f[j]
  PROVE  Cardinality(T) <= Cardinality(U)
<1>1. \A i, j \in DOMAIN f : f[i] = f[j] => i = j
  <2>1. ASSUME NEW i \in T, NEW j \in T, f[i] = f[j]
        PROVE  i = j
    <3>1. i \in Nat /\ j \in Nat /\ f[i] \in Nat /\ f[j] \in Nat
      OBVIOUS
    <3>2. ~(i < j) /\ ~(j < i)
      BY <2>1, <3>1
    <3>3. QED
      BY <3>1, <3>2
  <2>2. QED
    BY <2>1
<1>2. f \in Injection(T, U)
  BY <1>1, Zenon DEF Injection, IsInjective
<1>3. QED
  BY <1>2, FS_Injection

\* The number k of those received: the byte e that completed it, and the
\* delimiter s that opened its frame
ReceivedAt(D, R, bytes, k, s, e) ==
  /\ e \in 1 .. Len(bytes) /\ Completes(D[e - 1], bytes[e]) /\ Len(R[e]) = k
  /\ s \in 1 .. e - 1 /\ bytes[s] = KISS_FEND /\ \A j \in s + 1 .. e - 1 : bytes[j] # KISS_FEND

\* Every packet received has them.
LEMMA EachReceivedAt ==
  ASSUME NEW bytes \in Seq(Byte), NEW D, NEW R, History(D, R, bytes),
         NEW k \in 1 .. Len(R[Len(bytes)])
  PROVE  \E s, e \in Nat : ReceivedAt(D, R, bytes, k, s, e)
<1>1. PICK e \in 1 .. Len(bytes) : Completes(D[e - 1], bytes[e]) /\ Len(R[e]) = k
  BY EachReceived
<1>2. e - 1 \in 0 .. Len(bytes) /\ D[e - 1].in_frame /\ e \in Nat
  BY <1>1, HistoryFacts DEF Completes
<1> DEFINE n == e - 1
<1>3. n \in 0 .. Len(bytes) /\ D[n].in_frame
  BY <1>2
<1> HIDE DEF n
<1>4. PICK s \in 1 .. n : bytes[s] = KISS_FEND /\ \A j \in s + 1 .. n : bytes[j] # KISS_FEND
  BY <1>3, Opened
<1>5. s \in Nat
  OBVIOUS
<1>6. QED
  BY <1>1, <1>2, <1>4, <1>5 DEF ReceivedAt, n

\* The frame of a packet begins no earlier than the one before it ended.
LEMMA OneByOne ==
  ASSUME NEW bytes \in Seq(Byte), NEW D, NEW R, History(D, R, bytes),
         NEW k \in Nat, NEW s \in Nat, NEW e \in Nat, ReceivedAt(D, R, bytes, k, s, e),
         NEW k2 \in Nat, NEW s2 \in Nat, NEW e2 \in Nat, ReceivedAt(D, R, bytes, k2, s2, e2),
         k < k2
  PROVE  s < e /\ e <= s2 /\ s2 < e2
<1>1. /\ e \in 1 .. Len(bytes) /\ e2 \in 1 .. Len(bytes) /\ e \in 0 .. Len(bytes)
      /\ e2 \in 0 .. Len(bytes) /\ s < e /\ s2 < e2
  BY DEF ReceivedAt
<1>2. e < e2
  <2>1. SUFFICES ASSUME ~(e < e2) PROVE FALSE
    OBVIOUS
  <2>2. e \in e2 .. Len(bytes)
    BY <1>1, <2>1
  <2>3. Len(R[e2]) <= Len(R[e])
    BY <1>1, <2>2, Grows
  <2>4. QED
    BY <2>3 DEF ReceivedAt
<1>3. e <= s2
  <2>1. SUFFICES ASSUME ~(e <= s2) PROVE FALSE
    OBVIOUS
  <2>2. e \in s2 + 1 .. e2 - 1
    BY <1>2, <2>1
  <2>3. bytes[e] = KISS_FEND
    BY DEF ReceivedAt, Completes
  <2>4. QED
    BY <2>2, <2>3 DEF ReceivedAt
<1>4. QED
  BY <1>1, <1>3

\* The pieces of the packets, and the seams, are bytes.
LEMMA FinitelyMany ==
  ASSUME fed \in Seq(ValidPlace)
  PROVE  /\ UNION {Intact(p) : p \in Packets} \subseteq Nat /\ Seams \subseteq Nat
         /\ IsFiniteSet(UNION {Intact(p) : p \in Packets}) /\ IsFiniteSet(Seams)
<1>1. Len(fed) \in Nat /\ Len(Bytes(fed)) = Len(fed) /\ DOMAIN fed = 1 .. Len(fed)
  BY BytesOf
<1>2. IsFiniteSet(1 .. Len(fed)) /\ 1 .. Len(fed) \subseteq Nat
  <2>1. IsFiniteSet(1 .. Len(fed))
    BY <1>1, FS_Interval
  <2>2. QED
    BY <2>1
<1>3. Seams \in SUBSET (1 .. Len(fed))
  BY <1>1 DEF Seams
<1>4. ASSUME NEW p \in Packets
      PROVE  Intact(p) \subseteq 1 .. Len(fed)
  <2>1. p \in Seq(Byte)
    BY PacketsArePackets DEF Packet
  <2>2. Len(kiss_encode(p)) \in Nat /\ Len(kiss_encode(p)) >= 3
    <3>1. Len(KissFrame(KISS_CMD_DATA, p)) = Len(FlattenSeq(Escaped(p))) + 3
          /\ Len(FlattenSeq(Escaped(p))) \in Nat
      BY <2>1, Bytewise, FrameShape
    <3>2. QED
      BY <3>1 DEF kiss_encode
  <2>3. Intact(p) \subseteq 1 .. Len(Bytes(fed)) + 1 - Len(kiss_encode(p))
    BY DEF Intact
  <2>4. QED
    BY <1>1, <2>2, <2>3
<1>5. UNION {Intact(p) : p \in Packets} \in SUBSET (1 .. Len(fed))
  BY <1>4
<1>6. QED
  BY <1>2, <1>3, <1>5, FS_Subset

\* Of the packets received, those whose frame has no seam are whole frames that
\* were sent, each at a place of its own, and the others have a seam each.
LEMMA FewSpurious ==
  ASSUME fed \in Seq(ValidPlace), NEW D, NEW R, History(D, R, Bytes(fed))
  PROVE  Len(R[Len(fed)]) <= Cardinality(UNION {Intact(p) : p \in Packets}) + Cardinality(Seams)
<1> DEFINE bytes == Bytes(fed)  K == Len(R[Len(fed)])  Whole == UNION {Intact(p) : p \in Packets}
           At(k, s, e) == ReceivedAt(D, R, bytes, k, s, e)
           S == [k \in 1 .. K |-> CHOOSE s \in Nat : \E e \in Nat : At(k, s, e)]
           E == [k \in 1 .. K |-> CHOOSE e \in Nat : At(k, S[k], e)]
           Spoilt == {k \in 1 .. K : \E i \in S[k] + 1 .. E[k] : i \in Seams}
           Sound == (1 .. K) \ Spoilt
<1>1. bytes \in Seq(Byte) /\ Len(bytes) = Len(fed) /\ Len(fed) \in Nat
  BY BytesOf
<1>2. K \in Nat
  <2>1. Len(fed) \in 0 .. Len(fed)
    BY <1>1
  <2>2. QED
    BY <1>1, <2>1, HistoryFacts
<1>3. ASSUME NEW k \in 1 .. K
      PROVE  At(k, S[k], E[k]) /\ S[k] \in Nat /\ E[k] \in Nat /\ k \in Nat
  <2>1. \E s \in Nat : \E e \in Nat : At(k, s, e)
    BY <1>1, EachReceivedAt
  <2> HIDE DEF At, K
  <2>2. S[k] \in Nat /\ \E e \in Nat : At(k, S[k], e)
    BY <2>1
  <2>3. E[k] \in Nat /\ At(k, S[k], E[k])
    <3> HIDE DEF S
    <3>1. QED
      BY <2>2
  <2> HIDE DEF S, E
  <2>4. QED
    BY <1>2, <2>2, <2>3
<1> HIDE DEF S, E, bytes
<1>4. ASSUME NEW k \in 1 .. K, NEW l \in 1 .. K, k < l
      PROVE  S[k] < E[k] /\ E[k] <= S[l] /\ S[l] < E[l]
  <2>1. At(k, S[k], E[k]) /\ At(l, S[l], E[l]) /\ History(D, R, bytes)
    BY <1>3 DEF bytes
  <2>2. S[k] \in Nat /\ E[k] \in Nat /\ S[l] \in Nat /\ E[l] \in Nat /\ k \in Nat /\ l \in Nat
    BY <1>3
  <2>3. QED
    BY <1>1, <1>4, <2>1, <2>2, OneByOne
<1>5. Whole \subseteq Nat /\ Seams \subseteq Nat /\ IsFiniteSet(Whole) /\ IsFiniteSet(Seams)
  BY FinitelyMany
<1> HIDE DEF K, At
<1>6. ASSUME NEW k \in Sound
      PROVE  S[k] \in Whole
  <2>1. k \in 1 .. K /\ \A i \in S[k] + 1 .. E[k] : i \notin Seams
    OBVIOUS
  <2> DEFINE s == S[k]  e == E[k]
  <2>2. /\ e \in 1 .. Len(fed) /\ Completes(D[e - 1], bytes[e]) /\ s \in 1 .. e - 1
        /\ bytes[s] = KISS_FEND /\ \A j \in s + 1 .. e - 1 : bytes[j] # KISS_FEND
    BY <1>1, <1>3, <2>1 DEF At, ReceivedAt
  <2>3. \A i \in s + 1 .. e : i \notin Seams
    BY <2>1
  <2> HIDE DEF s, e
  <2>4. D[e - 1].buf \in Packets /\ s \in Intact(D[e - 1].buf)
    BY <2>2, <2>3, Piece DEF bytes
  <2>5. QED
    BY <2>4 DEF s
<1>7. Cardinality(Sound) <= Cardinality(Whole)
  <2> DEFINE f == [k \in Sound |-> S[k]]
  <2>1. f \in [Sound -> Whole]
    BY <1>6
  <2>2. Sound \subseteq Nat
    BY <1>2
  <2>3. ASSUME NEW k \in Sound, NEW l \in Sound, k < l
        PROVE  f[k] < f[l]
    <3>1. k \in 1 .. K /\ l \in 1 .. K
      OBVIOUS
    <3>2. S[k] < E[k] /\ E[k] <= S[l] /\ S[k] \in Nat /\ E[k] \in Nat /\ S[l] \in Nat
      BY <1>3, <1>4, <2>3, <3>1
    <3>3. QED
      BY <3>2
  <2> HIDE DEF f, Sound, Whole
  <2>4. QED
    BY <1>5, <2>1, <2>2, <2>3, IncreasingCount
<1>8. Cardinality(Spoilt) <= Cardinality(Seams)
  <2> DEFINE f == [k \in Spoilt |-> CHOOSE i \in S[k] + 1 .. E[k] : i \in Seams]
  <2>1. ASSUME NEW k \in Spoilt
        PROVE  f[k] \in S[k] + 1 .. E[k] /\ f[k] \in Seams
    <3>1. \E i \in S[k] + 1 .. E[k] : i \in Seams
      OBVIOUS
    <3>2. QED
      BY <3>1
  <2>2. f \in [Spoilt -> Seams]
    <3>1. f = [k \in Spoilt |-> f[k]]
      OBVIOUS
    <3> HIDE DEF f
    <3>2. QED
      BY <2>1, <3>1
  <2>3. Spoilt \subseteq Nat
    BY <1>2
  <2> HIDE DEF f
  <2>4. ASSUME NEW k \in Spoilt, NEW l \in Spoilt, k < l
        PROVE  f[k] < f[l]
    <3>1. k \in 1 .. K /\ l \in 1 .. K
      OBVIOUS
    <3>2. E[k] <= S[l] /\ S[k] \in Nat /\ E[k] \in Nat /\ S[l] \in Nat /\ E[l] \in Nat
      BY <1>3, <1>4, <2>4, <3>1
    <3>3. f[k] \in S[k] + 1 .. E[k] /\ f[l] \in S[l] + 1 .. E[l]
      BY <2>1
    <3>4. f[k] \in Int /\ f[k] <= E[k] /\ f[l] \in Int /\ S[l] < f[l]
      BY <3>2, <3>3
    <3> HIDE DEF Spoilt
    <3>5. QED
      BY <3>2, <3>4
  <2> HIDE DEF Spoilt
  <2>5. QED
    BY <1>5, <2>2, <2>3, <2>4, IncreasingCount
<1>9. K <= Cardinality(Sound) + Cardinality(Spoilt)
  <2>1. IsFiniteSet(1 .. K) /\ Cardinality(1 .. K) = K
    BY <1>2, FS_Interval
  <2>2. Sound \in SUBSET (1 .. K) /\ Spoilt \in SUBSET (1 .. K) /\ Sound \cup Spoilt = 1 .. K
    OBVIOUS
  <2> HIDE DEF Sound, Spoilt
  <2>3. IsFiniteSet(Sound) /\ IsFiniteSet(Spoilt)
    BY <2>1, <2>2, FS_Subset
  <2>4. /\ Cardinality(Sound \cup Spoilt) =
             Cardinality(Sound) + Cardinality(Spoilt) - Cardinality(Sound \cap Spoilt)
        /\ IsFiniteSet(Sound \cap Spoilt)
    <3>1. Sound \cap Spoilt \in SUBSET Sound
      OBVIOUS
    <3>2. QED
      BY <2>3, <3>1, FS_Union, FS_Subset
  <2>5. /\ Cardinality(Sound) \in Nat /\ Cardinality(Spoilt) \in Nat
        /\ Cardinality(Sound \cap Spoilt) \in Nat
    BY <2>3, <2>4, FS_CardinalityType
  <2>6. Cardinality(Sound \cup Spoilt) = K
    BY <2>1, <2>2, Zenon
  <2> DEFINE x == Cardinality(Sound)  y == Cardinality(Spoilt)  z == Cardinality(Sound \cap Spoilt)
  <2>7. x \in Nat /\ y \in Nat /\ z \in Nat /\ K = x + y - z
    BY <2>4, <2>5, <2>6
  <2> HIDE DEF x, y, z
  <2>8. K <= x + y
    BY <1>2, <2>7
  <2>9. QED
    BY <2>8 DEF x, y
<1>10. /\ Cardinality(Sound) \in Nat /\ Cardinality(Spoilt) \in Nat
       /\ Cardinality(Whole) \in Nat /\ Cardinality(Seams) \in Nat
  <2>1. IsFiniteSet(1 .. K)
    BY <1>2, FS_Interval
  <2>2. Sound \in SUBSET (1 .. K) /\ Spoilt \in SUBSET (1 .. K)
    OBVIOUS
  <2> HIDE DEF Sound, Spoilt, Whole
  <2>3. IsFiniteSet(Sound) /\ IsFiniteSet(Spoilt)
    BY <2>1, <2>2, FS_Subset
  <2>4. QED
    BY <1>5, <2>3, FS_CardinalityType
<1> HIDE DEF Sound, Spoilt, Whole
<1>11. K <= Cardinality(Whole) + Cardinality(Seams)
  BY <1>2, <1>7, <1>8, <1>9, <1>10
<1>12. QED
  BY <1>11 DEF K, Whole

-----------------------------------------------------------------------------
(* The invariant of the link                                               *)

ValidNotification ==
  {n \in Notification :
     n.first \in 1 .. n.last /\ n.last \in 1 .. Len(Stream[n.rnode])}
Queues == {q \in Seq(ValidNotification) : Len(q) <= NUS_RX_QUEUE_MAX}

\* What is queued and what was read are bytes that were sent, and what was read
\* made the deframer what it is and the packets what they are.
LinkInv ==
  /\ cut \in Cuts
  /\ pos \in [RNode -> Nat] /\ \A r \in RNode : pos[r] <= Len(Stream[r])
  /\ nus_rx_queue \in Queues
  /\ ifaceUp \in BOOLEAN
  /\ fed \in Seq(ValidPlace)
  /\ IsRead(Bytes(fed), deframer, received)

\* Nothing read yet
LEMMA NothingRead ==
  ASSUME NEW none, none = <<>>
  PROVE  none \in Seq(ValidPlace) /\ IsRead(Bytes(none), KissDeframer, <<>>)
<1> DEFINE D == [n \in 0 .. 0 |-> KissDeframer]  R == [n \in 0 .. 0 |-> <<>>]
<1>1. none \in Seq(ValidPlace) /\ Len(none) = 0
  OBVIOUS
<1>2. Len(Bytes(none)) = 0
  BY <1>1, BytesOf
<1>3. <<>> \in Seq(Packet)
  OBVIOUS
<1>4. /\ D \in [0 .. 0 -> Deframer] /\ R \in [0 .. 0 -> Seq(Packet)]
      /\ D[0] = KissDeframer /\ R[0] = <<>>
  BY <1>3, NewDeframer
<1> HIDE DEF D, R
<1>5. History(D, R, Bytes(none))
  BY <1>2, <1>4 DEF History
<1>6. QED
  BY <1>1, <1>2, <1>4, <1>5 DEF IsRead

\* A queue that takes a notification, however often, is one.
LEMMA Queued ==
  ASSUME NEW q0 \in Queues, NEW n \in ValidNotification, NEW k \in Nat
  PROVE  LET queue[i \in 0 .. k] == IF i = 0 THEN q0 ELSE on_nus_rx(queue[i - 1], n)
         IN queue[k] \in Queues
<1> DEFINE step == [x \in Queues \X {n} |-> on_nus_rx(x[1], n)]
           F(f) == [i \in 0 .. k |-> IF i = 0 THEN q0 ELSE on_nus_rx(f[i - 1], n)]
           queue == CHOOSE f : f = F(f)
           s == [i \in 1 .. k |-> n]
<1>1. \A q \in Queues : on_nus_rx(q, n) \in Queues
  <2>1. ASSUME NEW q \in Queues
        PROVE  on_nus_rx(q, n) \in Queues
    <3>1. q \in Seq(ValidNotification) /\ Len(q) \in Nat /\ Len(q) <= NUS_RX_QUEUE_MAX
      BY DEF Queues
    <3>2. Append(q, n) \in Seq(ValidNotification) /\ Len(Append(q, n)) = Len(q) + 1
      BY <3>1
    <3>3. Len(q) < NUS_RX_QUEUE_MAX => Len(q) + 1 <= NUS_RX_QUEUE_MAX
      BY <3>1, NusLinkBoundsAssumption
    <3>4. QED
      BY <3>1, <3>2, <3>3 DEF on_nus_rx, Queues
  <2>2. QED
    BY <2>1
<1>2. step \in [Queues \X {n} -> Queues] /\ \A q \in Queues : step[<<q, n>>] = on_nus_rx(q, n)
  BY <1>1
<1>3. s \in Seq({n}) /\ Len(s) = k /\ \A i \in 1 .. k : s[i] = n
  <2>1. s \in [1 .. k -> {n}]
    OBVIOUS
  <2>2. QED
    BY <2>1, IsSeq
<1> HIDE DEF step, s, Queues
<1>4. Steps(Queues, {n}, step, q0, s)
  BY <1>2, <1>3 DEF Steps
<1>5. PICK run : IsRun(run, Queues, step, q0, s)
  BY <1>4, RunExists
<1>6. run \in [0 .. k -> Queues] /\ run[0] = q0
  BY <1>3, <1>5 DEF IsRun
<1>7. \A i \in 1 .. k : run[i] = on_nus_rx(run[i - 1], n)
  <2>1. ASSUME NEW i \in 1 .. k
        PROVE  run[i] = on_nus_rx(run[i - 1], n)
    <3>1. run[i - 1] \in Queues
      BY <1>6
    <3>2. run[i] = step[<<run[i - 1], s[i]>>] /\ s[i] = n
      BY <1>3, <1>5 DEF IsRun
    <3>3. QED
      BY <1>2, <3>1, <3>2
  <2>2. QED
    BY <2>1
<1>8. run = F(run)
  <2>1. \A i \in 0 .. k : run[i] = IF i = 0 THEN q0 ELSE on_nus_rx(run[i - 1], n)
    BY <1>6, <1>7
  <2>2. QED
    BY <1>6, <2>1
<1>9. queue = F(queue)
  <2>1. \E f : f = F(f)
    BY <1>8, Zenon
  <2>2. QED
    BY <2>1, Zenon
<1> HIDE DEF queue
<1>10. queue[0] = run[0]
  BY <1>6, <1>9
<1>11. \A i \in 1 .. k : queue[i - 1] = run[i - 1] => queue[i] = run[i]
  <2>1. ASSUME NEW i \in 1 .. k, queue[i - 1] = run[i - 1]
        PROVE  queue[i] = run[i]
    <3>1. i \in 0 .. k /\ i # 0
      OBVIOUS
    <3>2. queue[i] = on_nus_rx(queue[i - 1], n)
      BY <1>9, <3>1
    <3>3. QED
      BY <1>7, <2>1, <3>2
  <2>2. QED
    BY <2>1
<1>12. queue[k] \in Queues
  <2>1. \A i \in 0 .. k : queue[i] = run[i]
    BY <1>10, <1>11, SameRun
  <2>2. QED
    BY <1>6, <2>1
<1>13. QED
  BY <1>12 DEF queue

\* The places of a notification
LEMMA PlacesValid ==
  ASSUME NEW n \in ValidNotification
  PROVE  Places(n) \in Seq(ValidPlace)
<1>1. /\ n.rnode \in RNode /\ n.first \in Nat \ {0} /\ n.last \in Nat /\ n.first <= n.last
      /\ n.last <= Len(Stream[n.rnode])
  BY DEF ValidNotification, Notification
<1>2. Len(Stream[n.rnode]) \in Nat
  BY <1>1, StreamFacts
<1> DEFINE k == n.last + 1 - n.first
<1>3. k \in Nat
  BY <1>1
<1>4. ASSUME NEW i \in 1 .. k
      PROVE  [rnode |-> n.rnode, at |-> n.first + i - 1] \in ValidPlace
  <2>1. n.first + i - 1 \in Nat /\ n.first + i - 1 \in 1 .. Len(Stream[n.rnode])
    BY <1>1, <1>2
  <2>2. QED
    BY <1>1, <2>1 DEF ValidPlace, Place
<1>5. Places(n) \in [1 .. k -> ValidPlace]
  BY <1>4 DEF Places
<1> HIDE DEF k
<1>6. QED
  BY <1>3, <1>5, IsSeq

\* The bytes of places one behind the other
LEMMA BytesConcat ==
  ASSUME NEW p \in Seq(ValidPlace), NEW q \in Seq(ValidPlace)
  PROVE  p \o q \in Seq(ValidPlace) /\ Bytes(p \o q) = Bytes(p) \o Bytes(q)
<1> DEFINE M == Len(p)  N == Len(q)  b == Bytes(p)  c == Bytes(q)
<1>1. /\ p \o q \in Seq(ValidPlace) /\ Len(p \o q) = M + N /\ M \in Nat /\ N \in Nat
      /\ \A i \in 1 .. M + N : (p \o q)[i] = IF i <= M THEN p[i] ELSE q[i - M]
  BY ConcatProperties
<1>2. /\ b \in Seq(Byte) /\ Len(b) = M /\ \A i \in 1 .. M : b[i] = Stream[p[i].rnode][p[i].at]
  BY BytesOf
<1>3. /\ c \in Seq(Byte) /\ Len(c) = N /\ \A i \in 1 .. N : c[i] = Stream[q[i].rnode][q[i].at]
  BY BytesOf
<1> DEFINE pq == p \o q
<1>4. /\ Bytes(pq) \in Seq(Byte) /\ Len(Bytes(pq)) = M + N
      /\ \A i \in 1 .. M + N : Bytes(pq)[i] = Stream[pq[i].rnode][pq[i].at]
  <2>1. pq \in Seq(ValidPlace) /\ Len(pq) = M + N
    BY <1>1
  <2> HIDE DEF pq, M, N
  <2>2. QED
    BY <2>1, BytesOf
<1> HIDE DEF M, N, b, c
<1>5. /\ b \o c \in Seq(Byte) /\ Len(b \o c) = M + N
      /\ \A i \in 1 .. M + N : (b \o c)[i] = IF i <= M THEN b[i] ELSE c[i - M]
  <2>1. b \in Seq(Byte) /\ c \in Seq(Byte)
    BY <1>2, <1>3
  <2>2. /\ b \o c \in Seq(Byte) /\ Len(b \o c) = Len(b) + Len(c)
        /\ \A i \in 1 .. Len(b) + Len(c) : (b \o c)[i] = IF i <= Len(b) THEN b[i] ELSE c[i - Len(b)]
    BY ONLY <2>1, ConcatProperties
  <2>3. QED
    BY <1>2, <1>3, <2>2, Zenon
<1>6. \A i \in 1 .. M + N : Bytes(pq)[i] = (b \o c)[i]
  <2>1. ASSUME NEW i \in 1 .. M + N
        PROVE  Bytes(pq)[i] = (b \o c)[i]
    <3>1. Bytes(pq)[i] = Stream[pq[i].rnode][pq[i].at]
      BY <1>4
    <3>2. CASE i <= M
      <4>1. pq[i] = p[i] /\ (b \o c)[i] = b[i] /\ i \in 1 .. M
        BY <1>1, <1>5, <3>2, SMTT(30)
      <4> HIDE DEF pq
      <4>2. QED
        BY <1>2, <3>1, <4>1
    <3>3. CASE ~(i <= M)
      <4>1. pq[i] = q[i - M] /\ (b \o c)[i] = c[i - M] /\ i - M \in 1 .. N
        <5>1. (p \o q)[i] = q[i - M]
          BY <1>1, <3>3
        <5>2. (b \o c)[i] = c[i - M]
          BY <1>5, <3>3
        <5>3. M \in Nat /\ N \in Nat
          BY <1>1
        <5>4. i - M \in 1 .. N
          BY <3>3, <5>3
        <5>5. QED
          BY <5>1, <5>2, <5>4
      <4> HIDE DEF pq
      <4>2. QED
        BY <1>3, <3>1, <4>1
    <3>4. QED
      BY <3>2, <3>3
  <2>2. QED
    BY <2>1
<1> DEFINE l == Bytes(pq)  bc == b \o c
<1>7. l \in Seq(Byte) /\ bc \in Seq(Byte) /\ Len(l) = Len(bc) /\ \A i \in 1 .. Len(l) : l[i] = bc[i]
  BY <1>4, <1>5, <1>6
<1> HIDE DEF l, bc
<1>8. l = bc
  BY <1>7, SeqEqual
<1>9. QED
  BY <1>1, <1>8 DEF l, bc, b, c

\* The link's invariant holds before anything is sent.
LEMMA InitLinkInv == Init => LinkInv
<1> SUFFICES ASSUME Init PROVE LinkInv
  OBVIOUS
<1>1. cut \in Cuts /\ ifaceUp \in BOOLEAN
  BY DEF Init
<1>2. pos \in [RNode -> Nat] /\ \A r \in RNode : pos[r] <= Len(Stream[r])
  <2>1. \A r \in RNode : Len(Stream[r]) \in Nat
    BY StreamFacts
  <2>2. QED
    BY <2>1 DEF Init
<1>3. nus_rx_queue \in Queues
  <2>1. nus_rx_queue \in Seq(ValidNotification) /\ Len(nus_rx_queue) = 0
    BY DEF Init
  <2>2. QED
    BY <2>1, NusLinkBoundsAssumption DEF Queues
<1>4. fed \in Seq(ValidPlace) /\ IsRead(Bytes(fed), deframer, received)
  <2>1. fed = <<>> /\ deframer = KissDeframer /\ received = <<>>
    BY DEF Init
  <2>2. QED
    BY <2>1, NothingRead
<1>5. QED
  BY <1>1, <1>2, <1>3, <1>4 DEF LinkInv

\* A notification is cut from what was not sent yet.
LEMMA NotifyStep ==
  ASSUME NusTypeOK, LinkInv, NEW r \in RNode, Notify(r)
  PROVE  LinkInv'
<1> DEFINE k == Cardinality(Subscribed(r))
           last == IF pos[r] + cut < Len(Stream[r]) THEN pos[r] + cut ELSE Len(Stream[r])
           n == [rnode |-> r, first |-> pos[r] + 1, last |-> last]
<1>1. k \in Nat
  <2>1. IsFiniteSet(1 .. Len(gatts)) /\ DOMAIN gatts = 1 .. Len(gatts)
    BY ObjectType, FS_Interval
  <2>2. Subscribed(r) \in SUBSET (1 .. Len(gatts))
    BY <2>1 DEF Subscribed, OpenGatts
  <2>3. IsFiniteSet(Subscribed(r))
    BY <2>1, <2>2, FS_Subset
  <2>4. QED
    BY <2>3, FS_CardinalityType
<1>2. /\ pos[r] \in Nat /\ Len(Stream[r]) \in Nat /\ cut \in Nat \ {0} /\ pos[r] < Len(Stream[r])
  BY StreamFacts, NusLinkBoundsAssumption DEF LinkInv, Notify
<1>3. last \in Nat /\ last \in pos[r] + 1 .. Len(Stream[r])
  BY <1>2
<1> HIDE DEF last
<1>4. n \in ValidNotification
  <2>1. pos[r] + 1 \in 1 .. last /\ last \in 1 .. Len(Stream[r]) /\ pos[r] + 1 \in Nat
    BY <1>2, <1>3
  <2>2. QED
    BY <1>3, <2>1 DEF ValidNotification, Notification
<1>5. nus_rx_queue' \in Queues
  <2>1. nus_rx_queue' =
          LET queue[i \in 0 .. k] == IF i = 0 THEN nus_rx_queue ELSE on_nus_rx(queue[i - 1], n)
          IN queue[k]
    BY Zenon DEF Notify, last
  <2>2. nus_rx_queue \in Queues
    BY DEF LinkInv
  <2> HIDE DEF k, n
  <2>3. QED
    BY <1>1, <1>4, <2>1, <2>2, Queued
<1>6. pos' = [pos EXCEPT ![r] = last] /\ UNCHANGED <<cut, ifaceUp, deframer, fed, received>>
  BY DEF Notify, last
<1>7. pos' \in [RNode -> Nat] /\ \A m \in RNode : pos'[m] <= Len(Stream[m])
  <2>1. pos \in [RNode -> Nat] /\ \A m \in RNode : pos[m] <= Len(Stream[m])
    BY DEF LinkInv
  <2>2. last <= Len(Stream[r])
    BY <1>2, <1>3
  <2>3. QED
    BY <1>3, <1>6, <2>1, <2>2
<1>8. QED
  BY <1>5, <1>6, <1>7 DEF LinkInv, Bytes

\* What is read goes on where it was.
LEMMA PollStep ==
  ASSUME LinkInv, PollRx
  PROVE  LinkInv'
<1> DEFINE runs == [i \in DOMAIN nus_rx_queue |-> Places(nus_rx_queue[i])]
           places == FlattenSeq(runs)
           after == kiss_feed(deframer, Bytes(places))
<1>1. /\ deframer' = Quiet(after) /\ fed' = fed \o places
      /\ received' = received \o Taken(after.frames)
      /\ nus_rx_queue' = <<>> /\ UNCHANGED <<cut, pos, ifaceUp>>
  BY DEF PollRx, Quiet
<1>2. places \in Seq(ValidPlace)
  <2>1. nus_rx_queue \in Seq(ValidNotification)
    BY DEF LinkInv, Queues
  <2>2. runs \in [1 .. Len(nus_rx_queue) -> Seq(ValidPlace)] /\ Len(nus_rx_queue) \in Nat
    <3>1. /\ DOMAIN nus_rx_queue = 1 .. Len(nus_rx_queue) /\ Len(nus_rx_queue) \in Nat
          /\ \A i \in 1 .. Len(nus_rx_queue) : nus_rx_queue[i] \in ValidNotification
      BY <2>1
    <3>2. QED
      BY <3>1, PlacesValid
  <2> HIDE DEF runs
  <2>3. runs \in Seq(Seq(ValidPlace))
    BY <2>2, IsSeq
  <2>4. QED
    BY <2>3, Layout
<1> HIDE DEF places
<1>3. fed \in Seq(ValidPlace)
  BY DEF LinkInv
<1>4. IsRead(Bytes(fed), deframer, received)
  BY DEF LinkInv
<1>5. Bytes(fed) \in Seq(Byte) /\ Bytes(places) \in Seq(Byte)
  BY <1>2, <1>3, BytesOf
<1>6. fed' \in Seq(ValidPlace) /\ Bytes(fed') = Bytes(fed) \o Bytes(places)
  BY <1>1, <1>2, <1>3, BytesConcat
<1>7. IsRead(Bytes(fed) \o Bytes(places), Quiet(after), received \o Taken(after.frames))
  BY <1>4, <1>5, Resumed
<1> HIDE DEF after
<1>8. IsRead(Bytes(fed'), deframer', received')
  BY <1>1, <1>6, <1>7
<1>9. Bytes(fed)' = Bytes(fed')
  BY DEF Bytes
<1>10. IsRead(Bytes(fed), deframer, received)'
  BY <1>8, <1>9 DEF IsRead
<1>11. nus_rx_queue' \in Queues
  BY <1>1, NusLinkBoundsAssumption DEF Queues
<1>12. QED
  BY <1>1, <1>6, <1>10, <1>11 DEF LinkInv

\* Every step keeps the link's invariant.
LEMMA StepLinkInv == NusTypeOK /\ LinkInv /\ [Next]_vars => LinkInv'
<1> SUFFICES ASSUME NusTypeOK, LinkInv, [Next]_vars PROVE LinkInv'
  OBVIOUS
<1>1. CASE SpawnIface
  <2>1. fed' = <<>> /\ deframer' = KissDeframer /\ received' = <<>>
    BY <1>1 DEF SpawnIface
  <2>2. fed' \in Seq(ValidPlace) /\ IsRead(Bytes(fed'), deframer', received')
    BY <2>1, NothingRead
  <2>3. Bytes(fed)' = Bytes(fed')
    BY DEF Bytes
  <2>4. IsRead(Bytes(fed), deframer, received)'
    BY <2>2, <2>3 DEF IsRead
  <2>5. QED
    BY <1>1, <2>2, <2>4 DEF SpawnIface, LinkInv
<1>2. CASE CancelIface \/ UNCHANGED linkVars
  BY <1>2 DEF CancelIface, linkVars, LinkInv, IsRead, Bytes
<1>3. UNCHANGED vars => UNCHANGED linkVars
  BY DEF vars
<1>4. QED
  BY <1>1, <1>2, <1>3, NotifyStep, PollStep DEF Next

\* Whatever the RNodes send and however it is cut, lost or doubled, the queue
\* keeps its bound, and what the transport gets has a length it takes.
THEOREM TypeCorrect == Spec => []TypeOK
<1>1. Init => IInv /\ LinkInv
  BY InitIInv, InitLinkInv
<1>2. IInv /\ LinkInv /\ [Next]_vars => (IInv /\ LinkInv)'
  BY StepIInv, StepLinkInv DEF IInv
<1>3. IInv /\ LinkInv => TypeOK
  <2> SUFFICES ASSUME IInv, LinkInv PROVE TypeOK
    OBVIOUS
  <2>1. \A r \in RNode : pos[r] \in 0 .. Len(Stream[r])
    BY StreamFacts DEF LinkInv
  <2>2. nus_rx_queue \in Seq(Notification) /\ Len(nus_rx_queue) <= NUS_RX_QUEUE_MAX
    <3>1. nus_rx_queue \in Seq(ValidNotification) /\ Len(nus_rx_queue) <= NUS_RX_QUEUE_MAX
      BY DEF LinkInv, Queues
    <3>2. ValidNotification \subseteq Notification
      BY DEF ValidNotification
    <3>3. QED
      BY <3>1, <3>2
  <2>3. fed \in Seq(ValidPlace) /\ fed \in Seq(Place) /\ Len(fed) \in Nat
    <3>1. fed \in Seq(ValidPlace)
      BY DEF LinkInv
    <3>2. ValidPlace \subseteq Place
      BY DEF ValidPlace
    <3>3. QED
      BY <3>1, <3>2
  <2>4. Bytes(fed) \in Seq(Byte) /\ Len(Bytes(fed)) = Len(fed) /\ Len(fed) \in 0 .. Len(fed)
    BY <2>3, BytesOf
  <2>5. PICK D, R : History(D, R, Bytes(fed)) /\ deframer = D[Len(fed)] /\ received = R[Len(fed)]
    BY <2>4 DEF LinkInv, IsRead
  <2>6. deframer \in Deframer /\ received \in Seq(Packet)
    BY <2>4, <2>5, HistoryFacts
  <2>7. deframer.buf \in Seq(Byte) /\ deframer.command \in Byte
    BY <2>6, DeframerFields
  <2>8. /\ received \in Seq(Seq(Byte))
        /\ \A i \in DOMAIN received : Len(received[i]) \in 1 .. NUS_MAX_PACKET
    <3>1. Packet \subseteq Seq(Byte) /\ \A p \in Packet : Len(p) \in 1 .. NUS_MAX_PACKET
      BY DEF Packet
    <3>2. QED
      BY <2>6, <3>1
  <2>9. QED
    BY <2>1, <2>2, <2>3, <2>7, <2>8 DEF TypeOK, IInv, LinkInv
<1>4. QED
  BY <1>1, <1>2, <1>3, PTL DEF Spec

\* Damage is local: a packet that is sent and whose frame reached the deframer in
\* one piece is received as often as that happened, whatever was lost, doubled or
\* mixed in elsewhere and however notifications were cut; and no more packets that
\* nobody sent are received than there are places of damage.
THEOREM DamageLocal == Spec => []DamageIsLocal
<1>1. Init => IInv /\ LinkInv
  BY InitIInv, InitLinkInv
<1>2. IInv /\ LinkInv /\ [Next]_vars => (IInv /\ LinkInv)'
  BY StepIInv, StepLinkInv DEF IInv
<1>3. LinkInv => DamageIsLocal
  <2> SUFFICES ASSUME LinkInv PROVE DamageIsLocal
    OBVIOUS
  <2>1. fed \in Seq(ValidPlace)
    BY DEF LinkInv
  <2>2. Bytes(fed) \in Seq(Byte) /\ Len(Bytes(fed)) = Len(fed)
    BY <2>1, BytesOf
  <2>3. PICK D, R : History(D, R, Bytes(fed)) /\ received = R[Len(fed)]
    BY <2>2 DEF LinkInv, IsRead
  <2>4. ASSUME NEW p \in Packets
        PROVE  Cardinality(Intact(p)) <= Cardinality({i \in DOMAIN received : received[i] = p})
    <3>1. p \in Packet
      BY PacketsArePackets
    <3>2. Intact(p) = PiecesOf(Bytes(fed), kiss_encode(p))
      BY DEF Intact, PiecesOf
    <3>3. LET last == R[Len(Bytes(fed))] IN
          Cardinality(PiecesOf(Bytes(fed), kiss_encode(p))) <=
            Cardinality({k \in DOMAIN last : last[k] = p})
      BY <2>2, <2>3, <3>1, IntactReceived
    <3>4. R[Len(Bytes(fed))] = received
      BY <2>2, <2>3
    <3>5. QED
      BY <3>2, <3>3, <3>4, Zenon
  <2>5. Len(received) <= Cardinality(UNION {Intact(p) : p \in Packets}) + Cardinality(Seams)
    BY <2>1, <2>3, FewSpurious
  <2>6. QED
    BY <2>4, <2>5 DEF DamageIsLocal
<1>4. QED
  BY <1>1, <1>2, <1>3, PTL DEF Spec

-----------------------------------------------------------------------------
(* The codec of the phones                                                 *)

\* What an HDLC deframer may be
HdlcState ==
  [buf : Seq(Byte), in_frame : BOOLEAN, escape_next : BOOLEAN, frames : Seq(Seq(Byte))]

\* One from its fields
HdlcMake(buf, in_frame, escape_next, frames) ==
  [buf |-> buf, in_frame |-> in_frame, escape_next |-> escape_next, frames |-> frames]

LEMMA HdlcBytewise ==
  /\ HDLC_FLAG \in Byte /\ HDLC_ESC \in Byte /\ HDLC_FLAG # HDLC_ESC
  /\ Flip(HDLC_FLAG) \in Byte /\ Flip(HDLC_FLAG) # HDLC_FLAG /\ Flip(Flip(HDLC_FLAG)) = HDLC_FLAG
  /\ Flip(HDLC_ESC) \in Byte /\ Flip(HDLC_ESC) # HDLC_FLAG /\ Flip(Flip(HDLC_ESC)) = HDLC_ESC
<1>1. HDLC_FLAG = 126 /\ HDLC_ESC = 125
  BY DEF HDLC_FLAG, HDLC_ESC
<1>2. Flip(126) = 94 /\ Flip(125) = 93 /\ Flip(94) = 126 /\ Flip(93) = 125
  BY DEF Flip
<1>3. QED
  BY <1>1, <1>2 DEF Byte

\* byte ^ 0x20 is a byte.
LEMMA FlipType ==
  ASSUME NEW byte \in Byte
  PROVE  Flip(byte) \in Byte
<1>1. CASE (byte \div 32) % 2 = 0
  <2>1. byte <= 223
    BY <1>1 DEF Byte
  <2>2. QED
    BY <1>1, <2>1 DEF Flip, Byte
<1>2. CASE (byte \div 32) % 2 # 0
  <2>1. byte >= 32
    BY <1>2 DEF Byte
  <2>2. QED
    BY <1>2, <2>1 DEF Flip, Byte
<1>3. QED
  BY <1>1, <1>2

\* A deframer is what its fields say.
LEMMA HdlcFields ==
  ASSUME NEW d \in HdlcState
  PROVE  /\ d = HdlcMake(d.buf, d.in_frame, d.escape_next, d.frames)
         /\ d.buf \in Seq(Byte) /\ d.in_frame \in BOOLEAN /\ d.escape_next \in BOOLEAN
         /\ d.frames \in Seq(Seq(Byte))
         /\ [d EXCEPT !.frames = <<>>] = HdlcMake(d.buf, d.in_frame, d.escape_next, <<>>)
<1>1. /\ d.buf \in Seq(Byte) /\ d.in_frame \in BOOLEAN /\ d.escape_next \in BOOLEAN
      /\ d.frames \in Seq(Seq(Byte))
      /\ d = HdlcMake(d.buf, d.in_frame, d.escape_next, d.frames)
  BY DEF HdlcState, HdlcMake
<1>2. [d EXCEPT !.frames = <<>>] = HdlcMake(d.buf, d.in_frame, d.escape_next, <<>>)
  <2> DEFINE e == [d EXCEPT !.frames = <<>>]
  <2>1. e = [f \in {"buf", "in_frame", "escape_next", "frames"} |->
              IF f = "frames" THEN <<>> ELSE d[f]]
    BY DEF HdlcState
  <2> HIDE DEF e
  <2>2. e = HdlcMake(d.buf, d.in_frame, d.escape_next, <<>>)
    BY <2>1 DEF HdlcMake
  <2>3. QED
    BY <2>2 DEF e
<1>3. QED
  BY <1>1, <1>2

LEMMA HdlcMakeType ==
  ASSUME NEW buf \in Seq(Byte), NEW in_frame \in BOOLEAN, NEW escape_next \in BOOLEAN,
         NEW frames \in Seq(Seq(Byte))
  PROVE  /\ HdlcMake(buf, in_frame, escape_next, frames) \in HdlcState
         /\ HdlcMake(buf, in_frame, escape_next, frames).buf = buf
         /\ HdlcMake(buf, in_frame, escape_next, frames).in_frame = in_frame
         /\ HdlcMake(buf, in_frame, escape_next, frames).escape_next = escape_next
         /\ HdlcMake(buf, in_frame, escape_next, frames).frames = frames
BY DEF HdlcState, HdlcMake

\* The frame that a flag ends, if there is one
Ended(d) == IF d.in_frame /\ d.buf # <<>> THEN <<d.buf>> ELSE <<>>

LEMMA EndedType ==
  ASSUME NEW d \in HdlcState
  PROVE  Ended(d) \in Seq(Seq(Byte))
<1>1. d.buf \in Seq(Byte)
  BY HdlcFields
<1>2. QED
  BY <1>1 DEF Ended

\* A deframer in the midst of a frame, with what it has of it
InFrame(buf, frames) == HdlcMake(buf, TRUE, FALSE, frames)
Escaping(buf, frames) == HdlcMake(buf, TRUE, TRUE, frames)

LEMMA InFrameFields ==
  ASSUME NEW buf \in Seq(Byte), NEW frames \in Seq(Seq(Byte))
  PROVE  /\ InFrame(buf, frames) \in HdlcState /\ InFrame(buf, frames).buf = buf
         /\ InFrame(buf, frames).in_frame /\ ~InFrame(buf, frames).escape_next
         /\ InFrame(buf, frames).frames = frames
         /\ Escaping(buf, frames) \in HdlcState /\ Escaping(buf, frames).buf = buf
         /\ Escaping(buf, frames).in_frame /\ Escaping(buf, frames).escape_next
         /\ Escaping(buf, frames).frames = frames
<1>1. /\ InFrame(buf, frames) =
           [buf |-> buf, in_frame |-> TRUE, escape_next |-> FALSE, frames |-> frames]
      /\ Escaping(buf, frames) =
           [buf |-> buf, in_frame |-> TRUE, escape_next |-> TRUE, frames |-> frames]
  BY DEF InFrame, Escaping, HdlcMake
<1>2. InFrame(buf, frames) \in HdlcState /\ Escaping(buf, frames) \in HdlcState
  BY <1>1 DEF HdlcState
<1>3. QED
  BY <1>1, <1>2

\* One byte, by what it is and by what came before it.
LEMMA HdlcStep ==
  ASSUME NEW d \in HdlcState, NEW byte \in Byte
  PROVE  /\ byte = HDLC_FLAG => HdlcByte(d, byte) = HdlcMake(<<>>, TRUE, FALSE, d.frames \o Ended(d))
         /\ byte # HDLC_FLAG /\ ~d.in_frame => HdlcByte(d, byte) = d
         /\ byte # HDLC_FLAG /\ d.in_frame /\ d.escape_next =>
              HdlcByte(d, byte) = HdlcMake(Append(d.buf, Flip(byte)), TRUE, FALSE, d.frames)
         /\ byte = HDLC_ESC /\ d.in_frame /\ ~d.escape_next =>
              HdlcByte(d, byte) = HdlcMake(d.buf, TRUE, TRUE, d.frames)
         /\ byte \notin {HDLC_FLAG, HDLC_ESC} /\ d.in_frame /\ ~d.escape_next =>
              HdlcByte(d, byte) = HdlcMake(Append(d.buf, byte), TRUE, FALSE, d.frames)
<1>1. HDLC_FLAG # HDLC_ESC
  BY HdlcBytewise
<1>2. /\ d = HdlcMake(d.buf, d.in_frame, d.escape_next, d.frames)
      /\ d.buf \in Seq(Byte) /\ d.in_frame \in BOOLEAN /\ d.escape_next \in BOOLEAN
      /\ d.frames \in Seq(Seq(Byte))
  BY HdlcFields
<1>3. ASSUME byte = HDLC_FLAG
      PROVE  HdlcByte(d, byte) = HdlcMake(<<>>, TRUE, FALSE, d.frames \o Ended(d))
  <2> DEFINE frames == IF d.in_frame /\ d.buf # <<>> THEN Append(d.frames, d.buf) ELSE d.frames
  <2>1. HdlcByte(d, byte) = HdlcMake(<<>>, TRUE, FALSE, frames)
    <3>1. HdlcByte(d, byte) = [buf |-> <<>>, in_frame |-> TRUE, escape_next |-> FALSE,
                               frames |-> frames]
      BY <1>1, <1>3 DEF HdlcByte
    <3>2. QED
      BY <3>1 DEF HdlcMake
  <2>2. frames = d.frames \o Ended(d)
    <3>1. Append(d.frames, d.buf) = d.frames \o <<d.buf>>
      BY <1>2
    <3>2. d.frames \o <<>> = d.frames
      BY <1>2
    <3>3. QED
      BY <3>1, <3>2 DEF Ended
  <2>3. QED
    BY <2>1, <2>2
<1>4. ASSUME byte # HDLC_FLAG, ~d.in_frame
      PROVE  HdlcByte(d, byte) = d
  BY <1>4 DEF HdlcByte
<1>5. ASSUME byte # HDLC_FLAG, d.in_frame, d.escape_next
      PROVE  HdlcByte(d, byte) = HdlcMake(Append(d.buf, Flip(byte)), TRUE, FALSE, d.frames)
  <2>1. HdlcByte(d, byte) = [d EXCEPT !.buf = Append(@, Flip(byte)), !.escape_next = FALSE]
    BY <1>5 DEF HdlcByte
  <2>2. d.in_frame = TRUE
    BY <1>2, <1>5
  <2>3. QED
    BY <1>2, <2>1, <2>2 DEF HdlcMake
<1>6. ASSUME byte = HDLC_ESC, d.in_frame, ~d.escape_next
      PROVE  HdlcByte(d, byte) = HdlcMake(d.buf, TRUE, TRUE, d.frames)
  <2>1. HdlcByte(d, byte) = [d EXCEPT !.escape_next = TRUE]
    BY <1>1, <1>6 DEF HdlcByte
  <2>2. d.in_frame = TRUE
    BY <1>2, <1>6
  <2>3. QED
    BY <1>2, <2>1, <2>2 DEF HdlcMake
<1>7. ASSUME byte \notin {HDLC_FLAG, HDLC_ESC}, d.in_frame, ~d.escape_next
      PROVE  HdlcByte(d, byte) = HdlcMake(Append(d.buf, byte), TRUE, FALSE, d.frames)
  <2>1. HdlcByte(d, byte) = [d EXCEPT !.buf = Append(@, byte)]
    BY <1>7 DEF HdlcByte
  <2>2. d.in_frame = TRUE /\ d.escape_next = FALSE
    BY <1>2, <1>7
  <2>3. QED
    BY <1>2, <2>1, <2>2 DEF HdlcMake
<1>8. QED
  BY <1>3, <1>4, <1>5, <1>6, <1>7

\* A byte makes a deframer of a deframer.
LEMMA HdlcByteType ==
  ASSUME NEW d \in HdlcState, NEW byte \in Byte
  PROVE  HdlcByte(d, byte) \in HdlcState
<1>1. /\ d.buf \in Seq(Byte) /\ d.in_frame \in BOOLEAN /\ d.escape_next \in BOOLEAN
      /\ d.frames \in Seq(Seq(Byte)) /\ Flip(byte) \in Byte
  BY HdlcFields, FlipType
<1>2. /\ <<>> \in Seq(Byte) /\ Append(d.buf, byte) \in Seq(Byte)
      /\ Append(d.buf, Flip(byte)) \in Seq(Byte)
  BY <1>1
<1>3. d.frames \o Ended(d) \in Seq(Seq(Byte))
  <2>1. Ended(d) \in Seq(Seq(Byte))
    BY <1>1 DEF Ended
  <2>2. QED
    BY <1>1, <2>1
<1>4. HdlcMake(<<>>, TRUE, FALSE, d.frames \o Ended(d)) \in HdlcState
  BY <1>2, <1>3, HdlcMakeType
<1>5. /\ HdlcMake(Append(d.buf, Flip(byte)), TRUE, FALSE, d.frames) \in HdlcState
      /\ HdlcMake(d.buf, TRUE, TRUE, d.frames) \in HdlcState
      /\ HdlcMake(Append(d.buf, byte), TRUE, FALSE, d.frames) \in HdlcState
  BY <1>1, <1>2, HdlcMakeType
<1>6. QED
  BY <1>4, <1>5, HdlcStep, Zenon

\* The deframer after each byte of one call
IsHdlcFeed(after, d, data) ==
  /\ after \in [0 .. Len(data) -> HdlcState] /\ after[0] = [d EXCEPT !.frames = <<>>]
  /\ \A n \in 1 .. Len(data) : after[n] = HdlcByte(after[n - 1], data[n])
  /\ hdlc_feed(d, data) = after[Len(data)]

\* hdlc_feed goes through the bytes one by one.
LEMMA HdlcFeedRun ==
  ASSUME NEW d \in HdlcState, NEW data \in Seq(Byte)
  PROVE  \E after : IsHdlcFeed(after, d, data)
<1> DEFINE step == [x \in HdlcState \X Byte |-> HdlcByte(x[1], x[2])]
           first == [d EXCEPT !.frames = <<>>]
           F(f) == [n \in 0 .. Len(data) |->
                      IF n = 0 THEN [d EXCEPT !.frames = <<>>] ELSE HdlcByte(f[n - 1], data[n])]
           after == CHOOSE f : f = F(f)
<1>1. step \in [HdlcState \X Byte -> HdlcState]
  BY HdlcByteType
<1>2. \A e \in HdlcState, byte \in Byte : step[<<e, byte>>] = HdlcByte(e, byte)
  OBVIOUS
<1> HIDE DEF step
<1>3. Len(data) \in Nat /\ \A n \in 1 .. Len(data) : data[n] \in Byte
  OBVIOUS
<1>4. Steps(HdlcState, Byte, step, first, data)
  <2>1. <<>> \in Seq(Seq(Byte))
    OBVIOUS
  <2>2. first \in HdlcState
    <3>1. /\ first = HdlcMake(d.buf, d.in_frame, d.escape_next, <<>>)
          /\ d.buf \in Seq(Byte) /\ d.in_frame \in BOOLEAN /\ d.escape_next \in BOOLEAN
      BY HdlcFields
    <3> HIDE DEF first
    <3>2. QED
      BY <2>1, <3>1, HdlcMakeType
  <2>3. QED
    BY <1>1, <2>2 DEF Steps
<1>5. PICK run : IsRun(run, HdlcState, step, first, data)
  BY <1>4, RunExists
<1>6. run \in [0 .. Len(data) -> HdlcState] /\ run[0] = first
  BY <1>5 DEF IsRun
<1>7. \A n \in 1 .. Len(data) : run[n] = HdlcByte(run[n - 1], data[n])
  <2>1. ASSUME NEW n \in 1 .. Len(data)
        PROVE  run[n] = HdlcByte(run[n - 1], data[n])
    <3>1. n - 1 \in 0 .. Len(data) /\ data[n] \in Byte
      BY <1>3
    <3>2. run[n - 1] \in HdlcState
      BY <1>6, <3>1
    <3>3. run[n] = step[<<run[n - 1], data[n]>>]
      BY <1>5 DEF IsRun
    <3>4. QED
      BY <1>2, <3>1, <3>2, <3>3
  <2>2. QED
    BY <2>1
<1>8. run = F(run)
  <2>1. \A n \in 0 .. Len(data) :
          run[n] = IF n = 0 THEN [d EXCEPT !.frames = <<>>] ELSE HdlcByte(run[n - 1], data[n])
    BY <1>3, <1>6, <1>7
  <2>2. QED
    BY <1>6, <2>1
<1>9. hdlc_feed(d, data) = after[Len(data)]
  BY DEF hdlc_feed
<1>10. after = F(after)
  <2>1. \E f : f = F(f)
    BY <1>8, Zenon
  <2>2. QED
    BY <2>1, Zenon
<1> HIDE DEF after
<1>11. after[0] = run[0]
  BY <1>3, <1>6, <1>10
<1>12. \A n \in 1 .. Len(data) : after[n - 1] = run[n - 1] => after[n] = run[n]
  <2>1. ASSUME NEW n \in 1 .. Len(data), after[n - 1] = run[n - 1]
        PROVE  after[n] = run[n]
    <3>1. n \in 0 .. Len(data) /\ n # 0
      BY <1>3
    <3>2. after[n] = HdlcByte(after[n - 1], data[n])
      BY <1>10, <3>1
    <3>3. QED
      BY <1>7, <2>1, <3>2
  <2>2. QED
    BY <2>1
<1>13. \A n \in 0 .. Len(data) : after[n] = run[n]
  BY <1>3, <1>11, <1>12, SameRun
<1>14. hdlc_feed(d, data) = run[Len(data)]
  BY <1>3, <1>9, <1>13
<1>15. QED
  BY <1>6, <1>7, <1>14 DEF IsHdlcFeed

\* The data of a blob, each byte escaped
HdlcEscaped(data) == [i \in DOMAIN data |-> hdlc_escape(data[i])]

\* An escaped byte is the byte itself, or an escape and the byte flipped.
LEMMA HdlcEscapeShape ==
  ASSUME NEW byte \in Byte
  PROVE  /\ hdlc_escape(byte) \in Seq(Byte) /\ Len(hdlc_escape(byte)) \in 1 .. 2
         /\ Len(hdlc_escape(byte)) = 1 =>
              hdlc_escape(byte)[1] = byte /\ byte \notin {HDLC_FLAG, HDLC_ESC}
         /\ Len(hdlc_escape(byte)) = 2 =>
              /\ hdlc_escape(byte)[1] = HDLC_ESC /\ hdlc_escape(byte)[2] = Flip(byte)
              /\ Flip(byte) \in Byte /\ Flip(byte) # HDLC_FLAG /\ Flip(Flip(byte)) = byte
<1>1. CASE byte \in {HDLC_FLAG, HDLC_ESC}
  <2>1. hdlc_escape(byte) = <<HDLC_ESC, Flip(byte)>>
    BY <1>1 DEF hdlc_escape
  <2>2. Flip(byte) \in Byte /\ Flip(byte) # HDLC_FLAG /\ Flip(Flip(byte)) = byte
    BY <1>1, HdlcBytewise
  <2>3. QED
    BY <2>1, <2>2, HdlcBytewise
<1>2. CASE byte \notin {HDLC_FLAG, HDLC_ESC}
  <2>1. hdlc_escape(byte) = <<byte>>
    BY <1>2 DEF hdlc_escape
  <2>2. QED
    BY <1>2, <2>1
<1>3. QED
  BY <1>1, <1>2

\* The layout of a blob
LEMMA BlobShape ==
  ASSUME NEW data \in Seq(Byte)
  PROVE  LET E == FlattenSeq(HdlcEscaped(data))
             blob == hdlc_encode(data)
         IN
         /\ HdlcEscaped(data) \in Seq(Seq(Byte)) /\ Len(HdlcEscaped(data)) = Len(data)
         /\ Len(data) \in Nat
         /\ \A i \in 1 .. Len(data) : HdlcEscaped(data)[i] = hdlc_escape(data[i]) /\ data[i] \in Byte
         /\ E \in Seq(Byte) /\ Len(E) \in Nat
         /\ blob \in Seq(Byte) /\ Len(blob) = Len(E) + 2
         /\ blob[1] = HDLC_FLAG /\ blob[Len(E) + 2] = HDLC_FLAG
         /\ \A j \in 1 .. Len(E) : blob[j + 1] = E[j]
<1> DEFINE E == FlattenSeq(HdlcEscaped(data))  blob == hdlc_encode(data)  flag == <<HDLC_FLAG>>
<1>1. Len(data) \in Nat /\ DOMAIN data = 1 .. Len(data) /\ \A i \in 1 .. Len(data) : data[i] \in Byte
  OBVIOUS
<1>2. \A i \in 1 .. Len(data) : HdlcEscaped(data)[i] = hdlc_escape(data[i])
  BY <1>1 DEF HdlcEscaped
<1>3. HdlcEscaped(data) \in [1 .. Len(data) -> Seq(Byte)]
  BY <1>1, HdlcEscapeShape DEF HdlcEscaped
<1>4. HdlcEscaped(data) \in Seq(Seq(Byte)) /\ Len(HdlcEscaped(data)) = Len(data)
  BY <1>1, <1>3, IsSeq
<1>5. E \in Seq(Byte) /\ Len(E) \in Nat
  BY <1>4, Layout
<1>6. blob = (flag \o E) \o flag
  BY DEF hdlc_encode, HdlcEscaped
<1>7. flag \in Seq(Byte) /\ Len(flag) = 1 /\ flag[1] = HDLC_FLAG
  BY HdlcBytewise
<1> HIDE DEF E, blob, flag
<1> DEFINE u == flag \o E
<1>8. /\ u \in Seq(Byte) /\ Len(u) = 1 + Len(E)
      /\ \A i \in 1 .. 1 + Len(E) : u[i] = IF i <= 1 THEN flag[i] ELSE E[i - 1]
  <2>1. /\ u \in Seq(Byte) /\ Len(u) = Len(flag) + Len(E)
        /\ \A i \in 1 .. Len(flag) + Len(E) : u[i] = IF i <= Len(flag) THEN flag[i] ELSE E[i - Len(flag)]
    BY <1>5, <1>7, ConcatProperties
  <2>2. QED
    BY <1>5, <1>7, <2>1
<1>9. blob = u \o flag
  BY <1>6
<1> HIDE DEF u
<1>10. /\ blob \in Seq(Byte) /\ Len(blob) = Len(E) + 2
       /\ \A i \in 1 .. Len(E) + 2 : blob[i] = IF i <= 1 + Len(E) THEN u[i] ELSE flag[i - (1 + Len(E))]
  <2>1. /\ blob \in Seq(Byte) /\ Len(blob) = Len(u) + Len(flag)
        /\ \A i \in 1 .. Len(u) + Len(flag) : blob[i] = IF i <= Len(u) THEN u[i] ELSE flag[i - Len(u)]
    BY <1>7, <1>8, <1>9, ConcatProperties
  <2>2. QED
    BY <1>5, <1>7, <1>8, <2>1
<1>11. blob[1] = HDLC_FLAG
  BY <1>5, <1>7, <1>8, <1>10
<1>12. blob[Len(E) + 2] = HDLC_FLAG
  <2>1. /\ Len(E) + 2 \in 1 .. Len(E) + 2 /\ ~(Len(E) + 2 <= 1 + Len(E))
        /\ Len(E) + 2 - (1 + Len(E)) = 1
    BY <1>5
  <2>2. QED
    BY <1>7, <1>10, <2>1
<1>13. ASSUME NEW j \in 1 .. Len(E)
       PROVE  blob[j + 1] = E[j]
  <2>1. /\ j + 1 \in 1 .. Len(E) + 2 /\ j + 1 \in 1 .. 1 + Len(E)
        /\ j + 1 <= 1 + Len(E) /\ ~(j + 1 <= 1) /\ (j + 1) - 1 = j
    BY <1>5
  <2>2. blob[j + 1] = u[j + 1]
    BY <1>10, <2>1
  <2>3. u[j + 1] = E[(j + 1) - 1]
    BY <1>8, <2>1
  <2>4. QED
    BY <2>1, <2>2, <2>3
<1>14. QED
  BY <1>1, <1>2, <1>4, <1>5, <1>10, <1>11, <1>12, <1>13 DEF E, blob

\* Whatever the deframer that all peers share has read before, and from whom, a blob
\* that comes in one piece ends the frame that was left unfinished, which comes out as
\* a frame of its own, is decoded to the payload it was made of, and leaves nothing
\* behind (HdlcDeframer::feed, called by BleInterface::spawn for every peer).
THEOREM BlobsAreDecoded ==
  ASSUME NEW d \in HdlcState, NEW p \in Seq(Byte), p # <<>>
  PROVE  hdlc_feed(d, hdlc_encode(p)) =
           [buf |-> <<>>, in_frame |-> TRUE, escape_next |-> FALSE, frames |-> Append(Ended(d), p)]
<1> DEFINE esc == HdlcEscaped(p)  E == FlattenSeq(esc)  blob == hdlc_encode(p)
           K == Len(p)  End(k) == EndOf(esc, k)  f == Ended(d)
           At(k) == InFrame(SubSeq(p, 1, k), f)
<1>1. /\ esc \in Seq(Seq(Byte)) /\ Len(esc) = K /\ K \in Nat
      /\ (\A i \in 1 .. K : esc[i] = hdlc_escape(p[i]) /\ p[i] \in Byte)
      /\ E \in Seq(Byte) /\ Len(E) \in Nat
      /\ blob \in Seq(Byte) /\ Len(blob) = Len(E) + 2
      /\ blob[1] = HDLC_FLAG /\ blob[Len(E) + 2] = HDLC_FLAG
      /\ \A j \in 1 .. Len(E) : blob[j + 1] = E[j]
  BY BlobShape
<1>2. /\ End(0) = 0 /\ (\A k \in 0 .. K : End(k) \in Nat) /\ End(K) = Len(E)
      /\ \A k \in 1 .. K : End(k) = End(k - 1) + Len(esc[k])
      /\ \A k \in 1 .. K : \A j \in 1 .. Len(esc[k]) : E[End(k - 1) + j] = esc[k][j]
  BY <1>1, Layout
<1>3. \A k \in 0 .. K : End(k) <= Len(E)
  <2>1. ASSUME NEW k \in 0 .. K
        PROVE  End(k) <= Len(E)
    <3>1. k \in 0 .. Len(esc) /\ K \in k .. Len(esc)
      BY <1>1
    <3>2. EndOf(esc, k) <= EndOf(esc, K)
      BY <1>1, <3>1, EndMonotone
    <3>3. QED
      BY <1>2, <3>2
  <2>2. QED
    BY <2>1
<1>4. PICK after : IsHdlcFeed(after, d, blob)
  BY <1>1, HdlcFeedRun
<1>5. /\ after[0] = HdlcMake(d.buf, d.in_frame, d.escape_next, <<>>)
      /\ \A n \in 1 .. Len(blob) : after[n] = HdlcByte(after[n - 1], blob[n])
      /\ hdlc_feed(d, blob) = after[Len(blob)]
  BY <1>4, HdlcFields DEF IsHdlcFeed
<1>6. /\ d.buf \in Seq(Byte) /\ d.in_frame \in BOOLEAN /\ d.escape_next \in BOOLEAN
      /\ f \in Seq(Seq(Byte)) /\ <<>> \in Seq(Seq(Byte))
  <2>1. <<>> \in Seq(Seq(Byte))
    OBVIOUS
  <2>2. QED
    BY <2>1, HdlcFields, EndedType
<1>7. \A k \in 0 .. K : SubSeq(p, 1, k) \in Seq(Byte)
  BY <1>1
<1> HIDE DEF esc, E, blob, K, End
<1> DEFINE T == {k \in 0 .. K : after[1 + End(k)] = At(k)}
<1>8. 0 \in T
  <2> DEFINE a == after[0]
  <2>1. /\ a \in HdlcState /\ a.buf = d.buf /\ a.in_frame = d.in_frame /\ a.frames = <<>>
    <3> DEFINE made == HdlcMake(d.buf, d.in_frame, d.escape_next, <<>>)
    <3>1. a = made
      BY <1>5
    <3>2. /\ made \in HdlcState /\ made.buf = d.buf /\ made.in_frame = d.in_frame
          /\ made.frames = <<>>
      BY <1>6 DEF HdlcMake, HdlcState
    <3> HIDE DEF a, made
    <3>3. QED
      BY <3>1, <3>2
  <2>2. after[1] = HdlcByte(a, HDLC_FLAG)
    <3>1. 1 \in 1 .. Len(blob) /\ 1 - 1 = 0
      BY <1>1
    <3>2. QED
      BY <1>1, <1>5, <3>1
  <2> HIDE DEF a
  <2>3. after[1] = InFrame(<<>>, a.frames \o Ended(a))
    BY <2>1, <2>2, HdlcStep, HdlcBytewise DEF InFrame, Escaping
  <2>4. a.frames \o Ended(a) = f
    <3>1. Ended(a) = f
      BY <2>1 DEF Ended
    <3> HIDE DEF f
    <3>2. <<>> \o f = f
      BY <1>6
    <3>3. QED
      BY <2>1, <3>1, <3>2
  <2>5. SubSeq(p, 1, 0) = <<>>
    BY SubSeqEmpty
  <2>6. 1 + End(0) = 1 /\ 0 \in 0 .. K
    BY <1>1, <1>2
  <2>7. QED
    BY <2>3, <2>4, <2>5, <2>6
<1> HIDE DEF f
<1>9. ASSUME NEW k \in 0 + 1 .. K, k - 1 \in T
      PROVE  k \in T
  <2> DEFINE m == End(k - 1)  x == p[k]  c == Len(hdlc_escape(x))  b == SubSeq(p, 1, k - 1)
  <2>1. /\ k \in 1 .. K /\ k - 1 \in 0 .. K /\ k \in 0 .. K
        /\ esc[k] = hdlc_escape(x) /\ x \in Byte
    BY <1>1
  <2>2. c \in 1 .. 2 /\ End(k) = m + c /\ m \in Nat /\ m + c <= Len(E)
    <3>1. c \in 1 .. 2
      BY <2>1, HdlcEscapeShape
    <3>2. End(k) = m + c /\ m \in Nat /\ End(k) <= Len(E)
      BY <1>2, <1>3, <2>1
    <3>3. QED
      BY <3>1, <3>2
  <2>3. /\ after[1 + m] = InFrame(b, f) /\ b \in Seq(Byte)
    BY <1>7, <1>9, <2>1
  <2>4. SubSeq(p, 1, k) = Append(b, x)
    <3>1. k \in 1 .. Len(p) /\ 1 \in 1 .. Len(p)
      BY <1>1, <2>1 DEF K
    <3>2. QED
      BY <3>1
  <2>5. ASSUME NEW j \in 1 .. c
        PROVE  after[1 + m + j] = HdlcByte(after[m + j], hdlc_escape(x)[j])
    <3> DEFINE l == Len(E)
    <3>1. /\ m \in Nat /\ l \in Nat /\ c \in 1 .. 2 /\ m + c <= l /\ Len(blob) = l + 2
      BY <1>1, <2>2
    <3> HIDE DEF m, c, l
    <3>2. /\ m + j \in 1 .. l /\ (m + j) + 1 \in 1 .. Len(blob) /\ ((m + j) + 1) - 1 = m + j
          /\ (m + j) + 1 = 1 + m + j
      BY <3>1
    <3>3. blob[(m + j) + 1] = E[m + j]
      BY <1>1, <3>2 DEF l
    <3>4. E[m + j] = hdlc_escape(x)[j]
      BY <1>2, <2>1 DEF m, c
    <3>5. after[(m + j) + 1] = HdlcByte(after[((m + j) + 1) - 1], blob[(m + j) + 1])
      BY <1>5, <3>2
    <3>6. QED
      BY <3>2, <3>3, <3>4, <3>5
  <2>6. CASE c = 1
    <3>1. hdlc_escape(x)[1] = x /\ x \notin {HDLC_FLAG, HDLC_ESC}
      BY <2>1, <2>6, HdlcEscapeShape
    <3>2. after[1 + m + 1] = HdlcByte(after[m + 1], x) /\ m + 1 = 1 + m
      BY <2>2, <2>5, <2>6, <3>1
    <3>3. 1 + End(k) = 1 + m + 1
      BY <2>2, <2>6
    <3> DEFINE a == InFrame(b, f)
    <3>4. a \in HdlcState /\ a.buf = b /\ a.in_frame /\ ~a.escape_next /\ a.frames = f
      BY <1>6, <2>3, InFrameFields
    <3>5. after[1 + m + 1] = HdlcByte(a, x)
      BY <2>3, <3>2
    <3> HIDE DEF a, b, x, m, c
    <3>6. HdlcByte(a, x) = InFrame(Append(b, x), f)
      BY <2>1, <3>1, <3>4, HdlcStep DEF InFrame
    <3>7. QED
      BY <2>1, <2>4, <3>3, <3>5, <3>6
  <2>7. CASE c = 2
    <3> DEFINE y == Flip(x)
    <3>1. /\ hdlc_escape(x)[1] = HDLC_ESC /\ hdlc_escape(x)[2] = y
          /\ y \in Byte /\ y # HDLC_FLAG /\ Flip(y) = x
      BY <2>1, <2>7, HdlcEscapeShape
    <3>2. /\ after[1 + m + 1] = HdlcByte(after[m + 1], HDLC_ESC) /\ m + 1 = 1 + m
          /\ after[1 + m + 2] = HdlcByte(after[m + 2], y) /\ m + 2 = 1 + m + 1
      BY <2>2, <2>5, <2>7, <3>1
    <3>3. 1 + End(k) = 1 + m + 2
      BY <2>2, <2>7
    <3> DEFINE a == InFrame(b, f)  e == Escaping(b, f)
    <3>4. /\ a \in HdlcState /\ a.buf = b /\ a.in_frame /\ ~a.escape_next /\ a.frames = f
          /\ e \in HdlcState /\ e.buf = b /\ e.in_frame /\ e.escape_next /\ e.frames = f
      BY <1>6, <2>3, InFrameFields
    <3>5. after[1 + m] = a
      BY <2>3
    <3> HIDE DEF a, e, b, x, y, m, c
    <3>6. HdlcByte(a, HDLC_ESC) = e
      <4>1. HdlcByte(a, HDLC_ESC) = Escaping(b, f)
        BY <3>4, HdlcStep, HdlcBytewise DEF InFrame, Escaping
      <4>2. QED
        BY <4>1 DEF e
    <3>7. after[1 + m + 1] = e
      BY <3>2, <3>5, <3>6
    <3>8. HdlcByte(e, y) = InFrame(Append(b, x), f)
      BY <3>1, <3>4, HdlcStep DEF InFrame
    <3>9. after[1 + m + 2] = InFrame(Append(b, x), f)
      BY <3>2, <3>7, <3>8
    <3>10. QED
      BY <2>1, <2>4, <3>3, <3>9
  <2> HIDE DEF T, c
  <2>8. QED
    BY <2>2, <2>6, <2>7
<1>10. K \in T
  <2> HIDE DEF T
  <2>1. \A k \in 0 .. K : k \in T
    BY <1>1, <1>8, <1>9, Induct
  <2>2. QED
    BY <1>1, <2>1, SMTT(30)
<1>11. after[1 + Len(E)] = InFrame(p, f)
  <2>1. SubSeq(p, 1, K) = p
    BY SubSeqFull DEF K
  <2>2. QED
    BY <1>2, <1>10, <2>1
<1>12. after[Len(E) + 2] = InFrame(<<>>, Append(f, p))
  <2> DEFINE a == InFrame(p, f)
  <2>1. a \in HdlcState /\ a.buf = p /\ a.in_frame /\ a.frames = f
    BY <1>6, InFrameFields
  <2>2. after[Len(E) + 2] = HdlcByte(a, HDLC_FLAG)
    <3>1. Len(E) + 2 \in 1 .. Len(blob) /\ (Len(E) + 2) - 1 = 1 + Len(E)
      BY <1>1
    <3>2. QED
      BY <1>1, <1>5, <1>11, <3>1
  <2> HIDE DEF a
  <2>3. after[Len(E) + 2] = InFrame(<<>>, a.frames \o Ended(a))
    BY <2>1, <2>2, HdlcStep, HdlcBytewise DEF InFrame, Escaping
  <2>4. a.frames \o Ended(a) = Append(f, p)
    <3>1. Ended(a) = <<p>>
      BY <2>1 DEF Ended
    <3>2. f \o <<p>> = Append(f, p)
      BY <1>6
    <3>3. QED
      BY <2>1, <3>1, <3>2
  <2>5. QED
    BY <2>3, <2>4
<1>13. QED
  BY <1>1, <1>5, <1>12 DEF InFrame, HdlcMake, blob, f

\* One deframer may serve all peers: behind any bytes that end with a flag, as the
\* blobs BleInterface reassembles do (BlobsAreWellFormed of BleLink), whole or mixed,
\* a blob is decoded to its payload and to nothing else.
THEOREM BlobDecodesAlone ==
  ASSUME NEW d \in HdlcState, NEW last \in Seq(Byte), last # <<>>, last[Len(last)] = HDLC_FLAG,
         NEW p \in Seq(Byte), p # <<>>
  PROVE  hdlc_feed(hdlc_feed(d, last), hdlc_encode(p)).frames = <<p>>
<1>1. Len(last) \in Nat /\ Len(last) # 0
  OBVIOUS
<1>2. PICK after : IsHdlcFeed(after, d, last)
  BY HdlcFeedRun
<1> DEFINE L == Len(last)  before == after[L - 1]  now == hdlc_feed(d, last)
<1>3. before \in HdlcState /\ now = HdlcByte(before, HDLC_FLAG)
  <2>1. L \in 1 .. L /\ L - 1 \in 0 .. L
    BY <1>1
  <2>2. QED
    BY <1>2, <2>1 DEF IsHdlcFeed
<1> HIDE DEF before, now
<1>4. now \in HdlcState
  BY <1>3, HdlcByteType, HdlcBytewise
<1>5. now.buf = <<>>
  BY <1>3, HdlcStep, HdlcBytewise DEF HdlcMake
<1>6. Ended(now) = <<>>
  BY <1>5 DEF Ended
<1>7. hdlc_feed(now, hdlc_encode(p)).frames = Append(Ended(now), p)
  BY <1>4, BlobsAreDecoded
<1>8. Append(<<>>, p) = <<p>>
  OBVIOUS
<1>9. QED
  BY <1>6, <1>7, <1>8 DEF now
=============================================================================
