------------------------ MODULE EventPipelineProofs ------------------------
(***************************************************************************)
(* Proofs about EventPipeline for every value of its constants: any number *)
(* of messages, any sizes, any caps and poll buffer, any number of polls   *)
(* and log lines.                                                          *)
(*                                                                         *)
(* The properties are not inductive as they stand.  IInv follows a message *)
(* from the queue to the consumer: it is queued once, by a receiver that   *)
(* stored it (Received); what is further on was queued (KnownIsQueued); the*)
(* ids rise along the buffer of the hook, the bridge and EVENT_ID, and     *)
(* what is on the bridge is above the watermark (IdsRise); and what the    *)
(* consumer read was queued before what is in flight, and that before what *)
(* is still in the queue (LineInOrder).                                    *)
(***************************************************************************)
EXTENDS EventPipeline, FiniteSetTheorems, SequenceTheorems, TLAPS

\* The stamped messages the consumer has yet to read: those on the bridge and
\* those above its watermark.
Flight ==
  {e \in ToSet(bridge) \cup {f \in ToSet(jsEvents) : f.id > lastSeen} :
     e.what \in Msg}

\* A receiver queues a message once, and stored it before.
Received ==
  /\ \A m \in Msg : pc[m] = "queued" <=> m \in ToSet(queued)
  /\ IsInjective(queued)
  /\ HasStore => \A m \in Msg : pc[m] \in {"persisted", "queued"} => m \in stored

\* What left a receiver was queued by it.
KnownIsQueued ==
  ToSet(events) \cup InFlight \cup ToSet(seen) \subseteq ToSet(queued)

\* The hook holds its events newest first, all older than those on the bridge.
IdsRise ==
  /\ lastSeen < eventId
  /\ \A i \in DOMAIN bridge : lastSeen < bridge[i].id /\ bridge[i].id < eventId
  /\ \A i, j \in DOMAIN bridge : i < j => bridge[i].id < bridge[j].id
  /\ \A i \in DOMAIN jsEvents : jsEvents[i].id < eventId
  /\ \A i, j \in DOMAIN jsEvents : i < j => jsEvents[j].id < jsEvents[i].id
  /\ \A i \in DOMAIN jsEvents, j \in DOMAIN bridge : jsEvents[i].id < bridge[j].id

\* Messages keep the order in which they were queued, all the way.
LineInOrder ==
  /\ \A i, j \in DOMAIN seen : i < j => Before(seen[i], seen[j])
  /\ \A i \in DOMAIN seen : \A e \in Flight : Before(seen[i], e.what)
  /\ \A i \in DOMAIN seen, k \in DOMAIN events : Before(seen[i], events[k])
  /\ \A e, f \in Flight : e.id < f.id => Before(e.what, f.what)
  /\ \A e \in Flight : \A k \in DOMAIN events : Before(e.what, events[k])
  /\ \A k, l \in DOMAIN events : k < l => Before(events[k], events[l])

\* The inductive invariant.
IInv ==
  /\ TypeOK
  /\ Received
  /\ KnownIsQueued
  /\ IdsRise
  /\ LineInOrder
  /\ QueuedIsAccountedFor

\* What a concatenation holds.
LEMMA ConcatRange ==
  ASSUME NEW S, NEW s \in Seq(S), NEW t \in Seq(S)
  PROVE  ToSet(s \o t) = ToSet(s) \cup ToSet(t)
<1> DEFINE u == s \o t
<1>1. /\ Len(s) \in Nat /\ Len(t) \in Nat
      /\ DOMAIN s = 1 .. Len(s) /\ DOMAIN t = 1 .. Len(t)
  OBVIOUS
<1>2. /\ DOMAIN u = 1 .. Len(s) + Len(t)
      /\ \A i \in DOMAIN u : u[i] = IF i <= Len(s) THEN s[i] ELSE t[i - Len(s)]
  BY ConcatProperties
<1>3. ASSUME NEW i \in DOMAIN s PROVE s[i] \in ToSet(u)
  BY <1>1, <1>2 DEF ToSet
<1>4. ASSUME NEW i \in DOMAIN t PROVE t[i] \in ToSet(u)
  <2>1. i + Len(s) \in DOMAIN u /\ u[i + Len(s)] = t[i]
    BY <1>1, <1>2
  <2>2. QED
    BY <2>1 DEF ToSet
<1>5. ASSUME NEW i \in DOMAIN u PROVE u[i] \in ToSet(s) \cup ToSet(t)
  BY <1>1, <1>2 DEF ToSet
<1>6. QED
  BY <1>3, <1>4, <1>5 DEF ToSet

\* The messages in flight were queued.
LEMMA FlightIsQueued ==
  ASSUME KnownIsQueued, bridge \in Seq(Stamped), jsEvents \in Seq(Stamped)
  PROVE  \A e \in Flight : e.what \in ToSet(queued)
<1>1. ToSet(bridge \o jsEvents) = ToSet(bridge) \cup ToSet(jsEvents)
  BY ConcatRange
<1>2. QED
  BY <1>1 DEF Flight, InFlight, KnownIsQueued

\* Events on the bridge and in the buffer of the hook carry an id.
LEMMA Carried ==
  ASSUME TypeOK
  PROVE  /\ \A i \in DOMAIN bridge : bridge[i] \in Stamped /\ bridge[i].id \in Nat
         /\ \A i \in DOMAIN jsEvents :
              jsEvents[i] \in Stamped /\ jsEvents[i].id \in Nat
<1>1. \A e \in Stamped : e.id \in Nat
  BY DEF Stamped
<1>2. /\ \A i \in DOMAIN bridge : bridge[i] \in Stamped
      /\ \A i \in DOMAIN jsEvents : jsEvents[i] \in Stamped
  BY DEF TypeOK
<1>3. QED
  BY <1>1, <1>2

\* The inductive invariant holds when init starts the node.
LEMMA InitIInv == Init => IInv
<1> SUFFICES ASSUME Init PROVE IInv
  OBVIOUS
<1> USE DEF Init
<1>1. TypeOK
  BY CapsAssumption DEF TypeOK
<1>2. Received /\ KnownIsQueued
  BY DEF Received, KnownIsQueued, InFlight, IsInjective, ToSet
<1>3. IdsRise /\ LineInOrder
  BY DEF IdsRise, LineInOrder, Flight, ToSet
<1>4. QueuedIsAccountedFor
  BY DEF QueuedIsAccountedFor, ToSet
<1>5. QED
  BY <1>1, <1>2, <1>3, <1>4 DEF IInv

-----------------------------------------------------------------------------
(* The receivers                                                           *)

\* Persisting a message moves nothing along the line.
LEMMA PersistStep ==
  ASSUME IInv, NEW m \in Msg, Persist(m)
  PROVE  IInv'
<1> USE DEF IInv, Persist, logVars, jsVars
<1>1. TypeOK'
  BY DEF TypeOK
<1>2. Received'
  BY DEF Received, TypeOK
<1>3. KnownIsQueued' /\ IdsRise' /\ QueuedIsAccountedFor'
  BY DEF KnownIsQueued, InFlight, IdsRise, QueuedIsAccountedFor
<1>4. LineInOrder'
  BY DEF LineInOrder, Flight, Before
<1>5. QED
  BY <1>1, <1>2, <1>3, <1>4

\* What is queued keeps its place when a message is appended, which comes after
\* all of it.
LEMMA BeforeGrows ==
  ASSUME queued \in Seq(Msg), NEW m \in Msg, queued' = Append(queued, m)
  PROVE  /\ \A a, b : Before(a, b) => Before(a, b)'
         /\ \A a \in ToSet(queued) : Before(a, m)'
         /\ ToSet(queued') = ToSet(queued) \cup {m}
<1>1. /\ Len(queued') = Len(queued) + 1
      /\ DOMAIN queued = 1 .. Len(queued) /\ DOMAIN queued' = 1 .. Len(queued')
      /\ Len(queued) \in Nat
      /\ \A i \in DOMAIN queued : queued'[i] = queued[i]
      /\ queued'[Len(queued')] = m
  BY AppendProperties
<1>2. \A a, b : Before(a, b) => Before(a, b)'
  BY <1>1 DEF Before
<1>3. \A a \in ToSet(queued) : Before(a, m)'
  BY <1>1 DEF Before, ToSet
<1>4. ToSet(queued') = ToSet(queued) \cup {m}
  BY <1>1 DEF ToSet
<1>5. QED
  BY <1>2, <1>3, <1>4

\* A receiver queues its message behind all that is on its way.
LEMMA QueueEventStep ==
  ASSUME IInv, NEW m \in Msg, QueueEvent(m)
  PROVE  IInv'
<1> USE DEF IInv, QueueEvent, Ready, logVars, jsVars
<1>1. CASE HasRoom(m)
  <2>1. /\ events' = Append(events, m) /\ queued' = Append(queued, m)
        /\ pc' = [pc EXCEPT ![m] = "queued"]
        /\ UNCHANGED <<stored, logs, logged, eventId, bridge, jsEvents, lastSeen,
                       seen, evicted, overflown>>
    BY <1>1
  <2>2. /\ events \in Seq(Msg) /\ queued \in Seq(Msg) /\ pc[m] = "persisted"
    BY DEF TypeOK
  <2>3. /\ \A a, b : Before(a, b) => Before(a, b)'
        /\ \A a \in ToSet(queued) : Before(a, m)'
        /\ ToSet(queued') = ToSet(queued) \cup {m}
    BY <2>1, <2>2, BeforeGrows
  <2>4. /\ Len(events') = Len(events) + 1 /\ Len(events) \in Nat
        /\ DOMAIN events = 1 .. Len(events) /\ DOMAIN events' = 1 .. Len(events')
        /\ \A i \in DOMAIN events : events'[i] = events[i]
        /\ events'[Len(events')] = m
        /\ \A k \in DOMAIN events' : k \notin DOMAIN events => k = Len(events')
    BY <2>1, <2>2, AppendProperties
  <2>5. ToSet(events') = ToSet(events) \cup {m}
    BY <2>4 DEF ToSet
  <2>6. TypeOK'
    BY <2>1, <2>2, AppendProperties DEF TypeOK
  <2>7. Received'
    <3>1. \A n \in Msg : pc'[n] = "queued" <=> n \in ToSet(queued')
      BY <2>1, <2>3 DEF Received, TypeOK
    <3>2. m \notin ToSet(queued)
      BY <2>2 DEF Received
    <3>3. IsInjective(queued')
      <4>1. /\ Len(queued') = Len(queued) + 1 /\ Len(queued) \in Nat
            /\ DOMAIN queued = 1 .. Len(queued) /\ DOMAIN queued' = 1 .. Len(queued')
            /\ \A i \in DOMAIN queued : queued'[i] = queued[i]
            /\ queued'[Len(queued')] = m
        BY <2>1, <2>2, AppendProperties
      <4>2. QED
        BY <4>1, <3>2 DEF Received, IsInjective, ToSet
    <3>4. QED
      BY <3>1, <3>3, <2>1, <2>2 DEF Received, TypeOK
  <2>8. KnownIsQueued'
    BY <2>1, <2>3, <2>5 DEF KnownIsQueued, InFlight
  <2>9. IdsRise'
    BY <2>1 DEF IdsRise
  <2>10. LineInOrder'
    <3>1. Flight' = Flight
      BY <2>1 DEF Flight
    <3>2. /\ \A i \in DOMAIN seen : seen[i] \in ToSet(queued)
          /\ \A k \in DOMAIN events : events[k] \in ToSet(queued)
      BY DEF KnownIsQueued, ToSet
    <3>3. \A e \in Flight : e.what \in ToSet(queued)
      BY FlightIsQueued DEF TypeOK
    <3>4. /\ \A i, j \in DOMAIN seen' : i < j => Before(seen[i], seen[j])'
          /\ \A i \in DOMAIN seen' : \A e \in Flight' : Before(seen[i], e.what)'
          /\ \A e, f \in Flight' : e.id < f.id => Before(e.what, f.what)'
      BY <2>1, <2>3, <3>1 DEF LineInOrder
    <3>5. \A i \in DOMAIN seen', k \in DOMAIN events' : Before(seen[i], events[k])'
      <4> SUFFICES ASSUME NEW i \in DOMAIN seen, NEW k \in DOMAIN events'
                   PROVE  Before(seen[i], events[k])'
        BY <2>1
      <4>1. CASE k \in DOMAIN events
        BY <2>1, <2>3, <2>4, <4>1 DEF LineInOrder
      <4>2. CASE k \notin DOMAIN events
        BY <2>1, <2>3, <2>4, <3>2, <4>2
      <4>3. QED
        BY <4>1, <4>2
    <3>6. \A e \in Flight' : \A k \in DOMAIN events' : Before(e.what, events[k])'
      <4> SUFFICES ASSUME NEW e \in Flight, NEW k \in DOMAIN events'
                   PROVE  Before(e.what, events[k])'
        BY <3>1
      <4>1. CASE k \in DOMAIN events
        BY <2>3, <2>4, <4>1 DEF LineInOrder
      <4>2. CASE k \notin DOMAIN events
        BY <2>3, <2>4, <3>3, <4>2
      <4>3. QED
        BY <4>1, <4>2
    <3>7. \A k, l \in DOMAIN events' : k < l => Before(events[k], events[l])'
      BY <2>3, <2>4, <3>2 DEF LineInOrder
    <3>8. QED
      BY <3>4, <3>5, <3>6, <3>7 DEF LineInOrder
  <2>11. QueuedIsAccountedFor'
    BY <2>1, <2>3, <2>5 DEF QueuedIsAccountedFor
  <2>12. QED
    BY <2>6, <2>7, <2>8, <2>9, <2>10, <2>11
<1>2. CASE ~HasRoom(m)
  <2>1. /\ pc' = [pc EXCEPT ![m] = "dropped"] /\ pc[m] = "persisted"
        /\ UNCHANGED <<stored, events, queued, logs, logged, eventId, bridge,
                       jsEvents, lastSeen, seen, evicted, overflown>>
    BY <1>2
  <2>2. TypeOK'
    BY <2>1 DEF TypeOK
  <2>3. Received'
    BY <2>1 DEF Received, TypeOK
  <2>4. KnownIsQueued' /\ IdsRise' /\ QueuedIsAccountedFor'
    BY <2>1 DEF KnownIsQueued, InFlight, IdsRise, QueuedIsAccountedFor
  <2>5. LineInOrder'
    BY <2>1 DEF LineInOrder, Flight, Before
  <2>6. QED
    BY <2>2, <2>3, <2>4, <2>5
<1>3. QED
  BY <1>1, <1>2

\* A log line only fills the ring.
LEMMA WriteLogStep ==
  ASSUME IInv, WriteLog
  PROVE  IInv'
<1> USE DEF IInv, WriteLog, nodeVars, jsVars
<1>1. TypeOK'
  BY CapsAssumption DEF TypeOK
<1>2. Received' /\ KnownIsQueued' /\ IdsRise' /\ QueuedIsAccountedFor'
  BY DEF Received, KnownIsQueued, InFlight, IdsRise, QueuedIsAccountedFor
<1>3. LineInOrder'
  BY DEF LineInOrder, Flight, Before
<1>4. QED
  BY <1>1, <1>2, <1>3

-----------------------------------------------------------------------------
(* The poll                                                                *)

\* What a poll takes: the queue, then the log lines, each with the next id.
LEMMA Stamping ==
  ASSUME TypeOK
  PROVE  LET s == Stamp(DrainEvents) IN
         /\ Len(DrainEvents) = Len(events) + logs
         /\ s \in Seq(Stamped)
         /\ Len(s) = Len(events) + logs
         /\ \A i \in 1 .. Len(s) : s[i].id = eventId + i - 1
         /\ \A i \in 1 .. Len(events) : s[i].what = events[i]
         /\ \A i \in Len(events) + 1 .. Len(s) : s[i].what = Log
<1> DEFINE tail == [i \in 1 .. logs |-> Log]
           s == Stamp(DrainEvents)
<1>1. /\ events \in Seq(Msg \cup {Log}) /\ tail \in Seq(Msg \cup {Log})
      /\ Len(tail) = logs /\ logs \in Nat /\ Len(events) \in Nat
      /\ \A i \in 1 .. logs : tail[i] = Log
  BY CapsAssumption DEF TypeOK
<1> HIDE DEF tail
<1>2. /\ DrainEvents \in Seq(Msg \cup {Log})
      /\ Len(DrainEvents) = Len(events) + logs
      /\ \A i \in 1 .. Len(events) + logs :
           DrainEvents[i] = IF i <= Len(events) THEN events[i]
                                                ELSE tail[i - Len(events)]
  BY <1>1, ConcatProperties DEF DrainEvents, tail
<1>3. /\ Len(s) = Len(events) + logs
      /\ s \in [1 .. Len(events) + logs -> Stamped]
      /\ \A i \in 1 .. Len(s) : s[i] = [id |-> eventId + i - 1,
                                        what |-> DrainEvents[i]]
  <2>1. \A i \in 1 .. Len(events) + logs :
          [id |-> eventId + i - 1, what |-> DrainEvents[i]] \in Stamped
    <3>1. eventId \in Nat \ {0}
      BY DEF TypeOK
    <3>2. \A i \in 1 .. Len(events) + logs : DrainEvents[i] \in Msg \cup {Log}
      BY <1>1, <1>2
    <3>3. QED
      BY <1>1, <3>1, <3>2 DEF Stamped
  <2>2. QED
    BY <1>1, <1>2, <2>1 DEF Stamp
<1>4. \A i \in 1 .. Len(s) : /\ s[i].id = eventId + i - 1
                             /\ s[i].what = DrainEvents[i]
  BY <1>3
<1> HIDE DEF s
<1>5. Len(events) + logs \in Nat
  BY <1>1
<1>6. s \in Seq(Stamped)
  BY <1>3, <1>5
<1>7. /\ \A i \in 1 .. Len(events) : s[i].what = events[i]
      /\ \A i \in Len(events) + 1 .. Len(s) : s[i].what = Log
  BY <1>1, <1>2, <1>3, <1>4
<1> USE DEF s
<1>8. QED
  BY <1>2, <1>3, <1>4, <1>6, <1>7

\* A poll puts the whole queue on the bridge, in its order and with rising ids,
\* or loses it whole.
LEMMA PollStep ==
  ASSUME IInv, Poll
  PROVE  IInv'
<1> DEFINE s == Stamp(DrainEvents)
<1> USE DEF IInv
<1>1. /\ events' = <<>> /\ logs' = 0
      /\ eventId' = eventId + Len(DrainEvents)
      /\ UNCHANGED <<pc, stored, queued, logged, jsEvents, lastSeen, seen, evicted>>
  BY DEF Poll, nodeVars, jsVars
<1>2. /\ Len(DrainEvents) = Len(events) + logs
      /\ s \in Seq(Stamped)
      /\ Len(s) = Len(events) + logs
      /\ \A i \in 1 .. Len(s) : s[i].id = eventId + i - 1
      /\ \A i \in 1 .. Len(events) : s[i].what = events[i]
      /\ \A i \in Len(events) + 1 .. Len(s) : s[i].what = Log
      /\ DOMAIN s = 1 .. Len(s)
  BY Stamping
<1> HIDE DEF s
<1>3. /\ events \in Seq(Msg) /\ Len(events) \in Nat /\ logs \in Nat
      /\ DOMAIN events = 1 .. Len(events) /\ DOMAIN events' = {}
      /\ eventId \in Nat \ {0} /\ lastSeen \in Nat
      /\ bridge \in Seq(Stamped) /\ jsEvents \in Seq(Stamped)
  BY <1>1, CapsAssumption DEF TypeOK
<1>4. /\ \A m \in Msg : m # Log
      /\ \A m, n : Before(m, n)' <=> Before(m, n)
  BY <1>1, LogAssumption DEF Before
<1>5. Received'
  BY <1>1 DEF Received
<1>6. CASE bridge' = bridge \o s /\ overflown' = overflown
  <2>1. /\ bridge' \in Seq(Stamped)
        /\ Len(bridge) \in Nat /\ DOMAIN bridge = 1 .. Len(bridge)
        /\ DOMAIN bridge' = 1 .. Len(bridge) + Len(s)
        /\ \A i \in 1 .. Len(bridge) : bridge'[i] = bridge[i]
        /\ \A i \in 1 .. Len(s) : bridge'[Len(bridge) + i] = s[i]
        /\ \A i \in DOMAIN bridge' \ DOMAIN bridge :
             i - Len(bridge) \in 1 .. Len(s) /\ bridge'[i] = s[i - Len(bridge)]
    BY <1>2, <1>3, <1>6, ConcatProperties
  <2>2. \A e \in ToSet(s) : e.what \in Msg =>
          \E k \in DOMAIN events : e.id = eventId + k - 1 /\ e.what = events[k]
    <3> SUFFICES ASSUME NEW i \in DOMAIN s, s[i].what \in Msg
                 PROVE  i \in DOMAIN events
      BY <1>2, <1>3 DEF ToSet
    <3>1. i \notin Len(events) + 1 .. Len(s)
      BY <1>2, <1>4
    <3>2. QED
      BY <1>2, <1>3, <3>1
  <2>3. ToSet(bridge') = ToSet(bridge) \cup ToSet(s)
    BY <1>2, <1>3, <1>6, ConcatRange
  <2>4. TypeOK'
    BY <1>1, <1>2, <1>3, <1>6, <2>1, CapsAssumption DEF TypeOK
  <2>5. KnownIsQueued'
    <3>1. ToSet(events') = {}
      BY <1>3 DEF ToSet
    <3>2. /\ ToSet(bridge \o jsEvents) = ToSet(bridge) \cup ToSet(jsEvents)
          /\ ToSet(bridge' \o jsEvents) = ToSet(bridge') \cup ToSet(jsEvents)
      BY <1>3, <2>1, ConcatRange
    <3>3. \A e \in ToSet(s) : e.what \in Msg => e.what \in ToSet(events)
      BY <2>2 DEF ToSet
    <3>4. InFlight' \subseteq InFlight \cup ToSet(events)
      BY <1>1, <2>3, <3>2, <3>3 DEF InFlight
    <3>5. QED
      BY <1>1, <3>1, <3>4 DEF KnownIsQueued
  <2>6. IdsRise'
    <3>1. eventId' = eventId + Len(s) /\ eventId <= eventId' /\ eventId' \in Nat
      BY <1>1, <1>2, <1>3
    <3>2. \A i \in DOMAIN bridge : bridge[i].id \in Nat
      BY Carried
    <3>3. \A i \in DOMAIN jsEvents : jsEvents[i].id \in Nat
      BY Carried
    <3>4. \A i \in DOMAIN bridge' :
            /\ i \in Nat /\ bridge'[i].id \in Nat
            /\ \/ /\ i <= Len(bridge) /\ bridge'[i] = bridge[i]
                  /\ i \in DOMAIN bridge /\ bridge'[i].id < eventId
               \/ /\ i > Len(bridge) /\ i <= Len(bridge) + Len(s)
                  /\ bridge'[i].id = eventId + (i - Len(bridge)) - 1
      <4> SUFFICES ASSUME NEW i \in DOMAIN bridge'
                   PROVE  /\ i \in Nat /\ bridge'[i].id \in Nat
                          /\ \/ /\ i <= Len(bridge) /\ bridge'[i] = bridge[i]
                                /\ i \in DOMAIN bridge /\ bridge'[i].id < eventId
                             \/ /\ i > Len(bridge) /\ i <= Len(bridge) + Len(s)
                                /\ bridge'[i].id = eventId + (i - Len(bridge)) - 1
        OBVIOUS
      <4>1. CASE i \in DOMAIN bridge
        BY <2>1, <3>2, <4>1 DEF IdsRise
      <4>2. CASE i \notin DOMAIN bridge
        <5>1. i - Len(bridge) \in 1 .. Len(s) /\ bridge'[i] = s[i - Len(bridge)]
          BY <2>1, <4>2
        <5>2. Len(s) \in Nat /\ i \in Nat
          BY <1>2, <1>3, <2>1
        <5>3. bridge'[i].id = eventId + (i - Len(bridge)) - 1
          BY <1>2, <5>1
        <5>4. Len(bridge) \in Nat /\ eventId \in Nat
          BY <1>3, <2>1
        <5>5. i > Len(bridge) /\ i <= Len(bridge) + Len(s)
          BY <5>1, <5>2, <5>4
        <5>6. bridge'[i].id \in Nat
          BY <5>2, <5>3, <5>4, <5>5
        <5>7. QED
          BY <5>2, <5>3, <5>5, <5>6
      <4>3. QED
        BY <4>1, <4>2
    <3>5. \A i \in DOMAIN bridge' : lastSeen < bridge'[i].id /\ bridge'[i].id < eventId'
      <4> SUFFICES ASSUME NEW i \in DOMAIN bridge'
                   PROVE  lastSeen < bridge'[i].id /\ bridge'[i].id < eventId'
        OBVIOUS
      <4>1. Len(bridge) \in Nat /\ Len(s) \in Nat /\ eventId \in Nat
        BY <1>2, <1>3, <2>1
      <4>2. CASE i <= Len(bridge) /\ bridge'[i] = bridge[i] /\ i \in DOMAIN bridge
        BY <1>3, <3>1, <3>2, <4>1, <4>2 DEF IdsRise
      <4>3. CASE /\ i > Len(bridge) /\ i <= Len(bridge) + Len(s)
                 /\ bridge'[i].id = eventId + (i - Len(bridge)) - 1
        <5>1. eventId' = eventId + Len(s) /\ lastSeen < eventId /\ lastSeen \in Nat
          BY <1>3, <3>1, <3>2, <3>3 DEF IdsRise, TypeOK
        <5>2. bridge'[i].id \in Nat /\ i \in Nat
          BY <3>4
        <5>3. QED
          BY <4>1, <4>3, <5>1, <5>2
      <4>4. QED
        BY <3>4, <4>2, <4>3
    <3>6. \A i, j \in DOMAIN bridge' : i < j => bridge'[i].id < bridge'[j].id
      <4> SUFFICES ASSUME NEW i \in DOMAIN bridge', NEW j \in DOMAIN bridge', i < j
                   PROVE  bridge'[i].id < bridge'[j].id
        OBVIOUS
      <4>1. CASE j \in DOMAIN bridge /\ i \in DOMAIN bridge
        BY <2>1, <4>1 DEF IdsRise
      <4>2. Len(bridge) \in Nat /\ Len(s) \in Nat /\ eventId \in Nat
        BY <1>2, <1>3, <2>1
      <4>3. CASE ~(j \in DOMAIN bridge /\ i \in DOMAIN bridge)
        <5>1. /\ i \in Nat /\ j \in Nat
              /\ bridge'[i].id \in Nat /\ bridge'[j].id \in Nat
          BY <3>4
        <5>2. /\ j > Len(bridge)
              /\ bridge'[j].id = eventId + (j - Len(bridge)) - 1
          BY <2>1, <3>4, <4>2, <4>3, <5>1, SMTT(30)
        <5>3. \/ bridge'[i].id < eventId
              \/ /\ i > Len(bridge)
                 /\ bridge'[i].id = eventId + (i - Len(bridge)) - 1
          BY <3>4
        <5>4. QED
          BY <4>2, <5>1, <5>2, <5>3
      <4>4. QED
        BY <4>1, <4>3
    <3>7. /\ \A i \in DOMAIN jsEvents : jsEvents[i].id < eventId'
          /\ \A i \in DOMAIN jsEvents, j \in DOMAIN bridge' :
               jsEvents[i].id < bridge'[j].id
      <4>1. \A i \in DOMAIN jsEvents : jsEvents[i].id < eventId
        BY DEF IdsRise
      <4>2. \A j \in DOMAIN bridge' :
              \/ j \in DOMAIN bridge /\ bridge'[j] = bridge[j]
              \/ eventId <= bridge'[j].id
        BY <1>3, <2>1, <3>4, SMTT(30)
      <4>3. \A i \in DOMAIN jsEvents : jsEvents[i].id < eventId'
        BY <1>3, <3>1, <3>3, <4>1
      <4>4. ASSUME NEW i \in DOMAIN jsEvents, NEW j \in DOMAIN bridge'
            PROVE  jsEvents[i].id < bridge'[j].id
        <5>1. CASE j \in DOMAIN bridge /\ bridge'[j] = bridge[j]
          BY <5>1 DEF IdsRise
        <5>2. CASE eventId <= bridge'[j].id
          BY <1>3, <3>3, <3>4, <4>1, <5>2
        <5>3. QED
          BY <4>2, <5>1, <5>2
      <4>5. QED
        BY <4>3, <4>4
    <3>8. QED
      BY <1>1, <1>3, <3>1, <3>5, <3>6, <3>7 DEF IdsRise
  <2>7. LineInOrder'
    <3>1. \A e \in Flight' :
            \/ e \in Flight
            \/ \E k \in DOMAIN events : e.id = eventId + k - 1 /\ e.what = events[k]
      BY <1>1, <2>2, <2>3 DEF Flight
    <3>2. \A e \in Flight : e.id \in Nat /\ e.id < eventId
      BY Carried DEF Flight, IdsRise, ToSet
    <3>3. \A e, f \in Flight' : e.id < f.id => Before(e.what, f.what)
      BY <1>3, <3>1, <3>2 DEF LineInOrder
    <3>4. \A i \in DOMAIN seen : \A e \in Flight' : Before(seen[i], e.what)
      BY <3>1 DEF LineInOrder
    <3>5. QED
      BY <1>1, <1>3, <1>4, <3>3, <3>4 DEF LineInOrder
  <2>8. QueuedIsAccountedFor'
    <3>1. ASSUME NEW m \in ToSet(events)
          PROVE  m \in {e.what : e \in ToSet(bridge')}
      <4>1. PICK k \in DOMAIN events : events[k] = m
        BY DEF ToSet
      <4>2. k \in DOMAIN s /\ s[k].what = m
        BY <1>2, <1>3, <4>1
      <4>3. s[k] \in ToSet(bridge')
        BY <2>3, <4>2 DEF ToSet
      <4>4. QED
        BY <4>2, <4>3
    <3>2. QED
      BY <1>1, <1>6, <2>3, <3>1 DEF QueuedIsAccountedFor
  <2>9. QED
    BY <1>5, <2>4, <2>5, <2>6, <2>7, <2>8
<1>7. CASE bridge' = bridge /\ overflown' = overflown \cup ToSet(events)
  <2>1. ToSet(events') = {}
    BY <1>3 DEF ToSet
  <2>2. TypeOK'
    <3>1. ToSet(events) \subseteq Msg
      BY <1>3 DEF ToSet
    <3>2. QED
      BY <1>1, <1>2, <1>3, <1>7, <3>1, CapsAssumption DEF TypeOK
  <2>3. KnownIsQueued'
    BY <1>1, <1>7, <2>1 DEF KnownIsQueued, InFlight
  <2>4. IdsRise'
    <3>1. eventId' \in Nat /\ eventId <= eventId'
      BY <1>1, <1>2, <1>3
    <3>2. /\ \A i \in DOMAIN bridge : bridge[i].id \in Nat
          /\ \A i \in DOMAIN jsEvents : jsEvents[i].id \in Nat
      BY Carried
    <3>3. QED
      BY <1>1, <1>3, <1>7, <3>1, <3>2 DEF IdsRise
  <2>5. LineInOrder'
    <3>1. Flight' = Flight
      BY <1>1, <1>7 DEF Flight
    <3>2. QED
      BY <1>1, <1>3, <1>4, <3>1 DEF LineInOrder
  <2>6. QueuedIsAccountedFor'
    BY <1>1, <1>7 DEF QueuedIsAccountedFor
  <2>7. QED
    BY <1>5, <2>2, <2>3, <2>4, <2>5, <2>6
<1>8. QED
  BY <1>6, <1>7 DEF Poll, s

-----------------------------------------------------------------------------
(* JavaScript                                                              *)

\* pushEvent moves the head of the bridge to the front of the buffer; what the
\* cap cuts off is older than all that stays.
LEMMA Pushed ==
  ASSUME TypeOK, PushEvent
  PROVE  /\ bridge # <<>> /\ bridge' = Tail(bridge)
         /\ jsEvents' \in Seq(Stamped) /\ Len(jsEvents') \in 1 .. JsCap
         /\ jsEvents'[1] = bridge[1]
         /\ \A i \in DOMAIN jsEvents' : i # 1 =>
              i - 1 \in DOMAIN jsEvents /\ jsEvents'[i] = jsEvents[i - 1]
         /\ \A i \in DOMAIN jsEvents :
              \/ i + 1 \in DOMAIN jsEvents' /\ jsEvents'[i + 1] = jsEvents[i]
              \/ jsEvents[i].id > lastSeen /\ jsEvents[i].what \in Msg =>
                   jsEvents[i].what \in evicted'
         /\ evicted \subseteq evicted' /\ evicted' \subseteq Msg
<1> DEFINE all == <<Head(bridge)>> \o jsEvents
           cut == IF Len(all) > JsCap THEN SubSeq(all, JsCap + 1, Len(all)) ELSE <<>>
           unread == {e \in ToSet(cut) : e.id > lastSeen /\ e.what \in Msg}
<1>1. /\ bridge # <<>> /\ bridge' = Tail(bridge)
      /\ jsEvents' = KeepNewest(all)
      /\ evicted' = evicted \cup {e.what : e \in unread}
  BY DEF PushEvent
<1>2. /\ bridge \in Seq(Stamped) /\ jsEvents \in Seq(Stamped)
      /\ Len(jsEvents) \in Nat /\ Len(jsEvents) <= JsCap
      /\ JsCap \in Nat \ {0} /\ evicted \subseteq Msg
      /\ DOMAIN jsEvents = 1 .. Len(jsEvents)
  BY CapsAssumption DEF TypeOK
<1>3. <<Head(bridge)>> \in Seq(Stamped) /\ Head(bridge) = bridge[1]
  BY <1>1, <1>2
<1>4. /\ all \in Seq(Stamped) /\ Len(all) = Len(jsEvents) + 1
      /\ all[1] = bridge[1]
      /\ \A i \in 2 .. Len(all) : all[i] = jsEvents[i - 1]
      /\ \A i \in 1 .. Len(all) : all[i] \in Stamped
  BY <1>2, <1>3, ConcatProperties
<1> HIDE DEF all
<1> DEFINE n == IF Len(all) > JsCap THEN JsCap ELSE Len(all)
<1>5. n \in 1 .. JsCap /\ n \in 1 .. Len(all)
  BY <1>2, <1>4
<1>6. jsEvents' = SubSeq(all, 1, n)
  BY <1>1 DEF KeepNewest
<1> HIDE DEF n
<1>7. /\ jsEvents' \in Seq(Stamped) /\ Len(jsEvents') = n
      /\ DOMAIN jsEvents' = 1 .. n
      /\ \A i \in 1 .. n : jsEvents'[i] = all[i]
  BY <1>4, <1>5, <1>6, SubSeqProperties
<1>8. \A i \in DOMAIN jsEvents' : i # 1 =>
        i - 1 \in DOMAIN jsEvents /\ jsEvents'[i] = jsEvents[i - 1]
  BY <1>2, <1>4, <1>5, <1>7
<1>9. ASSUME NEW i \in DOMAIN jsEvents, i + 1 \notin DOMAIN jsEvents',
             jsEvents[i].id > lastSeen, jsEvents[i].what \in Msg
      PROVE  jsEvents[i].what \in evicted'
  <2>1. i + 1 \in JsCap + 1 .. Len(all) /\ Len(all) > JsCap
    BY <1>2, <1>4, <1>5, <1>7, <1>9 DEF n
  <2>2. /\ Len(SubSeq(all, JsCap + 1, Len(all))) = Len(all) - JsCap
        /\ SubSeq(all, JsCap + 1, Len(all)) \in Seq(Stamped)
        /\ SubSeq(all, JsCap + 1, Len(all))[i + 1 - JsCap] = all[i + 1]
    BY <1>2, <1>4, <2>1, SubSeqProperties
  <2>3. all[i + 1] = jsEvents[i]
    BY <1>2, <1>4
  <2>4. i + 1 - JsCap \in DOMAIN cut /\ cut[i + 1 - JsCap] = jsEvents[i]
    BY <1>2, <1>4, <2>1, <2>2, <2>3
  <2>5. jsEvents[i] \in unread
    BY <1>9, <2>4 DEF ToSet
  <2>6. QED
    BY <1>1, <2>5
<1>10. \A i \in DOMAIN jsEvents : i + 1 \in DOMAIN jsEvents' =>
         jsEvents'[i + 1] = jsEvents[i]
  BY <1>2, <1>4, <1>7
<1>11. evicted \subseteq evicted' /\ evicted' \subseteq Msg
  BY <1>1, <1>2
<1>12. jsEvents'[1] = bridge[1]
  BY <1>4, <1>5, <1>7
<1>13. QED
  BY <1>1, <1>5, <1>7, <1>8, <1>9, <1>10, <1>11, <1>12

\* The buffer of the hook stays sorted by id, and nothing overtakes.
LEMMA PushEventStep ==
  ASSUME IInv, PushEvent
  PROVE  IInv'
<1> USE DEF IInv
<1>1. /\ UNCHANGED <<pc, stored, queued, events, logs, logged, eventId, lastSeen,
                     seen, overflown>>
  BY DEF PushEvent, nodeVars, logVars
<1>2. /\ bridge # <<>> /\ bridge' = Tail(bridge)
      /\ jsEvents' \in Seq(Stamped) /\ Len(jsEvents') \in 1 .. JsCap
      /\ jsEvents'[1] = bridge[1]
      /\ \A i \in DOMAIN jsEvents' : i # 1 =>
           i - 1 \in DOMAIN jsEvents /\ jsEvents'[i] = jsEvents[i - 1]
      /\ \A i \in DOMAIN jsEvents :
           \/ i + 1 \in DOMAIN jsEvents' /\ jsEvents'[i + 1] = jsEvents[i]
           \/ jsEvents[i].id > lastSeen /\ jsEvents[i].what \in Msg =>
                jsEvents[i].what \in evicted'
      /\ evicted \subseteq evicted' /\ evicted' \subseteq Msg
  BY Pushed
<1>3. /\ bridge \in Seq(Stamped) /\ Len(bridge) \in Nat \ {0}
      /\ bridge' \in Seq(Stamped) /\ Len(bridge') = Len(bridge) - 1
      /\ DOMAIN bridge = 1 .. Len(bridge) /\ DOMAIN bridge' = 1 .. Len(bridge) - 1
      /\ \A i \in DOMAIN bridge' : i + 1 \in DOMAIN bridge /\ bridge'[i] = bridge[i + 1]
      /\ 1 \in DOMAIN bridge
      /\ jsEvents \in Seq(Stamped) /\ DOMAIN jsEvents = 1 .. Len(jsEvents)
      /\ DOMAIN jsEvents' = 1 .. Len(jsEvents') /\ 1 \in DOMAIN jsEvents'
      /\ Len(jsEvents) \in Nat /\ lastSeen \in Nat /\ JsCap \in Nat
  BY <1>2, HeadTailProperties, CapsAssumption DEF TypeOK
<1>4. \A i \in DOMAIN bridge : i # 1 =>
        i - 1 \in DOMAIN bridge' /\ bridge'[i - 1] = bridge[i]
  BY <1>3
<1>5. TypeOK'
  BY <1>1, <1>2, <1>3 DEF TypeOK
<1>6. Received'
  BY <1>1 DEF Received
<1>7. /\ ToSet(bridge') \subseteq ToSet(bridge)
      /\ ToSet(jsEvents') \subseteq ToSet(jsEvents) \cup {bridge[1]}
      /\ bridge[1] \in ToSet(bridge)
  <2>1. \A i \in DOMAIN bridge' : bridge'[i] \in ToSet(bridge)
    BY <1>3 DEF ToSet
  <2>2. \A i \in DOMAIN jsEvents' : jsEvents'[i] \in ToSet(jsEvents) \cup {bridge[1]}
    BY <1>2 DEF ToSet
  <2>3. QED
    BY <1>3, <2>1, <2>2 DEF ToSet
<1>8. KnownIsQueued'
  <2>1. /\ ToSet(bridge \o jsEvents) = ToSet(bridge) \cup ToSet(jsEvents)
    BY <1>3, ConcatRange
  <2>2. ToSet(bridge' \o jsEvents') = ToSet(bridge') \cup ToSet(jsEvents')
    <3>1. bridge' \in Seq(Stamped) /\ jsEvents' \in Seq(Stamped)
      BY <1>2, <1>3
    <3>2. QED
      BY <3>1, ConcatRange
  <2>3. InFlight' \subseteq InFlight
    BY <1>7, <2>1, <2>2 DEF InFlight
  <2>4. QED
    BY <1>1, <2>3 DEF KnownIsQueued
<1>9. IdsRise'
  <2>1. /\ \A i \in DOMAIN bridge : bridge[i].id \in Nat
        /\ \A i \in DOMAIN jsEvents : jsEvents[i].id \in Nat
    BY Carried
  <2>2. /\ \A i \in DOMAIN bridge' : lastSeen < bridge'[i].id /\ bridge'[i].id < eventId
        /\ \A i, j \in DOMAIN bridge' : i < j => bridge'[i].id < bridge'[j].id
    <3>1. \A i \in DOMAIN bridge' : lastSeen < bridge'[i].id /\ bridge'[i].id < eventId
      BY <1>3 DEF IdsRise
    <3>2. ASSUME NEW i \in DOMAIN bridge', NEW j \in DOMAIN bridge', i < j
          PROVE  bridge'[i].id < bridge'[j].id
      <4>1. i + 1 < j + 1
        BY <1>3, <3>2
      <4>2. QED
        BY <1>3, <4>1 DEF IdsRise
    <3>3. QED
      BY <3>1, <3>2
  <2>3. \A i \in DOMAIN jsEvents' : jsEvents'[i].id < eventId
    BY <1>2, <1>3 DEF IdsRise
  <2>4. ASSUME NEW i \in DOMAIN jsEvents', NEW j \in DOMAIN jsEvents', i < j
        PROVE  jsEvents'[j].id < jsEvents'[i].id
    <3>1. /\ j - 1 \in DOMAIN jsEvents /\ jsEvents'[j] = jsEvents[j - 1]
          /\ i \in Nat /\ j \in Nat
      BY <1>2, <1>3, <2>4
    <3>2. CASE i = 1
      BY <1>2, <1>3, <3>1, <3>2 DEF IdsRise
    <3>3. CASE i # 1
      <4>1. i - 1 \in DOMAIN jsEvents /\ jsEvents'[i] = jsEvents[i - 1]
        BY <1>2, <3>3
      <4>2. i - 1 < j - 1
        BY <2>4, <3>1
      <4>3. QED
        BY <3>1, <4>1, <4>2 DEF IdsRise
    <3>4. QED
      BY <3>2, <3>3
  <2>5. ASSUME NEW i \in DOMAIN jsEvents', NEW j \in DOMAIN bridge'
        PROVE  jsEvents'[i].id < bridge'[j].id
    <3>1. j + 1 \in DOMAIN bridge /\ bridge'[j] = bridge[j + 1] /\ 1 < j + 1
      BY <1>3
    <3>2. CASE i = 1
      BY <1>2, <1>3, <3>1, <3>2 DEF IdsRise
    <3>3. CASE i # 1
      BY <1>2, <3>1, <3>3 DEF IdsRise
    <3>4. QED
      BY <3>2, <3>3
  <2>6. QED
    BY <1>1, <2>2, <2>3, <2>4, <2>5 DEF IdsRise
<1>10. LineInOrder'
  <2>1. Flight' \subseteq Flight
    BY <1>1, <1>7 DEF Flight
  <2>2. \A m, n : Before(m, n)' <=> Before(m, n)
    BY <1>1 DEF Before
  <2>3. QED
    BY <1>1, <2>1, <2>2 DEF LineInOrder
<1>11. QueuedIsAccountedFor'
  <2> SUFFICES ASSUME NEW m \in ToSet(queued)
               PROVE  \/ m \in ToSet(events) \cup ToSet(seen) \cup evicted' \cup overflown
                      \/ m \in {e.what : e \in ToSet(bridge')}
                      \/ \E i \in DOMAIN jsEvents' :
                           jsEvents'[i].what = m /\ jsEvents'[i].id > lastSeen
    BY <1>1 DEF QueuedIsAccountedFor
  <2>1. m \in Msg
    BY DEF TypeOK, ToSet
  <2>2. CASE m \in ToSet(events) \cup ToSet(seen) \cup evicted \cup overflown
    BY <1>2, <2>2
  <2>3. CASE m \in {e.what : e \in ToSet(bridge)}
    <3>1. PICK i \in DOMAIN bridge : bridge[i].what = m
      BY <2>3 DEF ToSet
    <3>2. CASE i = 1
      <4>1. bridge[1].id \in Nat /\ lastSeen < bridge[1].id
        BY <1>3, Carried DEF IdsRise
      <4>2. QED
        BY <1>2, <1>3, <3>1, <3>2, <4>1
    <3>3. CASE i # 1
      <4>1. i - 1 \in DOMAIN bridge' /\ bridge'[i - 1].what = m
        BY <1>4, <3>1, <3>3
      <4>2. QED
        BY <4>1 DEF ToSet
    <3>4. QED
      BY <3>2, <3>3
  <2>4. CASE \E i \in DOMAIN jsEvents : jsEvents[i].what = m /\ jsEvents[i].id > lastSeen
    BY <1>2, <2>1, <2>4
  <2>5. QED
    BY <2>2, <2>3, <2>4 DEF QueuedIsAccountedFor
<1>12. QED
  BY <1>5, <1>6, <1>8, <1>9, <1>10, <1>11

\* What the consumer reads: every unread message of the buffer, in the order of
\* the ids, and its watermark rises above all of them.
LEMMA Reading ==
  ASSUME TypeOK, IdsRise, ReadEvents
  PROVE  \E read \in Seq(Stamped) :
           /\ \A i \in DOMAIN read : read[i] \in Flight /\ read[i] \in ToSet(jsEvents)
           /\ \A i, j \in DOMAIN read : i < j => read[i].id < read[j].id
           /\ \A e \in Flight : e \in ToSet(jsEvents) => e \in ToSet(read) \cup ToSet(bridge)
           /\ seen' = seen \o [i \in DOMAIN read |-> read[i].what]
           /\ lastSeen' \in Nat /\ lastSeen' < eventId
           /\ \A i \in DOMAIN jsEvents : jsEvents[i].id <= lastSeen'
           /\ \A i \in DOMAIN bridge : lastSeen' < bridge[i].id
<1> DEFINE unread == {i \in DOMAIN jsEvents : jsEvents[i].id > lastSeen}
           messages == {i \in unread : jsEvents[i].what \in Msg}
<1>1. PICK newest \in unread :
        (\A i \in unread : newest <= i) /\ lastSeen' = jsEvents[newest].id
  BY DEF ReadEvents
<1>2. PICK order \in [1 .. Cardinality(messages) -> messages] :
        /\ messages \subseteq ToSet(order)
        /\ \A i, j \in DOMAIN order : i < j => order[i] > order[j]
        /\ seen' = seen \o [i \in DOMAIN order |-> jsEvents[order[i]].what]
  BY DEF ReadEvents
<1>3. /\ jsEvents \in Seq(Stamped) /\ Len(jsEvents) \in Nat
      /\ DOMAIN jsEvents = 1 .. Len(jsEvents) /\ lastSeen \in Nat
      /\ \A i \in DOMAIN jsEvents : jsEvents[i] \in Stamped /\ jsEvents[i].id \in Nat
  BY Carried DEF TypeOK
<1>4. Cardinality(messages) \in Nat
  <2>1. IsFiniteSet(DOMAIN jsEvents)
    BY <1>3, FS_Interval
  <2>2. messages \in SUBSET DOMAIN jsEvents
    OBVIOUS
  <2>3. QED
    BY <2>1, <2>2, FS_Subset, FS_CardinalityType
<1> DEFINE read == [i \in DOMAIN order |-> jsEvents[order[i]]]
<1>5. /\ DOMAIN order = 1 .. Cardinality(messages)
      /\ \A i \in DOMAIN order : order[i] \in messages
  BY <1>2
<1>6. read \in Seq(Stamped) /\ DOMAIN read = DOMAIN order
  <2>1. \A i \in DOMAIN order : jsEvents[order[i]] \in Stamped
    BY <1>3, <1>5
  <2>2. read \in [1 .. Cardinality(messages) -> Stamped]
    BY <1>5, <2>1
  <2> HIDE DEF messages
  <2>3. QED
    BY <1>4, <1>5, <2>2
<1>7. \A i \in DOMAIN read : read[i] \in Flight /\ read[i] \in ToSet(jsEvents)
  BY <1>5 DEF Flight, ToSet
<1>8. \A i, j \in DOMAIN read : i < j => read[i].id < read[j].id
  <2> SUFFICES ASSUME NEW i \in DOMAIN order, NEW j \in DOMAIN order, i < j
               PROVE  jsEvents[order[i]].id < jsEvents[order[j]].id
    OBVIOUS
  <2>1. /\ order[i] \in DOMAIN jsEvents /\ order[j] \in DOMAIN jsEvents
        /\ order[j] < order[i]
    BY <1>2, <1>3, <1>5
  <2>2. QED
    BY <2>1 DEF IdsRise
<1>9. \A e \in Flight : e \in ToSet(jsEvents) => e \in ToSet(read) \cup ToSet(bridge)
  <2> SUFFICES ASSUME NEW e \in Flight, e \in ToSet(jsEvents), e \notin ToSet(bridge)
               PROVE  e \in ToSet(read)
    OBVIOUS
  <2>1. e.id > lastSeen /\ e.what \in Msg
    BY DEF Flight
  <2>2. PICK k \in DOMAIN jsEvents : jsEvents[k] = e
    BY DEF ToSet
  <2>3. k \in messages
    BY <2>1, <2>2
  <2>4. PICK i \in DOMAIN order : order[i] = k
    BY <1>2, <2>3 DEF ToSet
  <2>5. QED
    BY <2>2, <2>4 DEF ToSet
<1>10. seen' = seen \o [i \in DOMAIN read |-> read[i].what]
  BY <1>2
<1>11. newest \in DOMAIN jsEvents /\ jsEvents[newest].id > lastSeen
  BY <1>1
<1>12. /\ lastSeen' \in Nat /\ lastSeen' < eventId
       /\ \A i \in DOMAIN bridge : lastSeen' < bridge[i].id
  BY <1>1, <1>3, <1>11 DEF IdsRise
<1>13. ASSUME NEW i \in DOMAIN jsEvents
       PROVE  jsEvents[i].id <= lastSeen'
  <2>1. CASE i \in unread /\ i # newest
    <3>1. newest < i
      BY <1>1, <1>3, <1>11, <2>1
    <3>2. jsEvents[i].id < jsEvents[newest].id
      BY <1>11, <3>1 DEF IdsRise
    <3>3. QED
      BY <1>1, <1>3, <1>11, <3>2
  <2>2. CASE i \notin unread
    BY <1>1, <1>3, <1>11, <2>2
  <2>3. CASE i = newest
    BY <1>1, <1>3, <1>11, <2>3
  <2>4. QED
    BY <2>1, <2>2, <2>3
<1> HIDE DEF read, messages, unread
<1>14. QED
  BY <1>6, <1>7, <1>8, <1>9, <1>10, <1>12, <1>13

\* The consumer reads what was queued next, and leaves only the bridge in flight.
LEMMA ReadEventsStep ==
  ASSUME IInv, ReadEvents
  PROVE  IInv'
<1> USE DEF IInv
<1>1. UNCHANGED <<pc, stored, queued, events, logs, logged, eventId, bridge,
                  jsEvents, evicted, overflown>>
  BY DEF ReadEvents, nodeVars, logVars
<1>2. PICK read \in Seq(Stamped) :
           /\ \A i \in DOMAIN read : read[i] \in Flight /\ read[i] \in ToSet(jsEvents)
           /\ \A i, j \in DOMAIN read : i < j => read[i].id < read[j].id
           /\ \A e \in Flight : e \in ToSet(jsEvents) => e \in ToSet(read) \cup ToSet(bridge)
           /\ seen' = seen \o [i \in DOMAIN read |-> read[i].what]
           /\ lastSeen' \in Nat /\ lastSeen' < eventId
           /\ \A i \in DOMAIN jsEvents : jsEvents[i].id <= lastSeen'
           /\ \A i \in DOMAIN bridge : lastSeen' < bridge[i].id
  BY Reading
<1> DEFINE r == [i \in DOMAIN read |-> read[i].what]
<1>3. /\ r \in Seq(Msg) /\ Len(r) = Len(read) /\ Len(read) \in Nat
      /\ DOMAIN r = 1 .. Len(r) /\ DOMAIN read = 1 .. Len(r)
      /\ \A i \in DOMAIN r : r[i] = read[i].what
  BY <1>2 DEF Flight
<1> HIDE DEF r
<1>4. /\ seen \in Seq(Msg) /\ Len(seen) \in Nat /\ DOMAIN seen = 1 .. Len(seen)
      /\ seen' \in Seq(Msg) /\ DOMAIN seen' = 1 .. Len(seen) + Len(r)
      /\ \A i \in DOMAIN seen : seen'[i] = seen[i]
      /\ \A i \in DOMAIN seen' : i \notin DOMAIN seen =>
           i - Len(seen) \in DOMAIN r /\ seen'[i] = r[i - Len(seen)]
      /\ \A i \in DOMAIN r : Len(seen) + i \in DOMAIN seen' /\ seen'[Len(seen) + i] = r[i]
  <2>1. seen \in Seq(Msg) /\ Len(seen) \in Nat /\ DOMAIN seen = 1 .. Len(seen)
    BY DEF TypeOK
  <2>2. /\ seen' \in Seq(Msg) /\ Len(seen') = Len(seen) + Len(r)
        /\ DOMAIN seen' = 1 .. Len(seen')
        /\ \A i \in 1 .. Len(seen) + Len(r) :
             seen'[i] = IF i <= Len(seen) THEN seen[i] ELSE r[i - Len(seen)]
    BY <1>2, <1>3, <2>1, ConcatProperties DEF r
  <2>3. QED
    BY <1>3, <2>1, <2>2
<1>5. /\ bridge \in Seq(Stamped) /\ jsEvents \in Seq(Stamped) /\ lastSeen \in Nat
      /\ \A i \in DOMAIN bridge : bridge[i].id \in Nat
      /\ \A i \in DOMAIN jsEvents : jsEvents[i].id \in Nat
  BY Carried DEF TypeOK
<1>6. \A e \in Flight' : e \in Flight /\ e \in ToSet(bridge)
  BY <1>1, <1>2, <1>5 DEF Flight, ToSet
<1>7. \A m, n : Before(m, n)' <=> Before(m, n)
  BY <1>1 DEF Before
<1>8. TypeOK'
  BY <1>1, <1>2, <1>4 DEF TypeOK
<1>9. Received'
  BY <1>1 DEF Received
<1>10. KnownIsQueued'
  <2>1. \A i \in DOMAIN read : read[i].what \in ToSet(queued)
    BY <1>2, <1>5, FlightIsQueued
  <2>2. \A i \in DOMAIN seen' : seen'[i] \in ToSet(queued)
    <3>1. \A i \in DOMAIN seen : seen[i] \in ToSet(queued)
      BY DEF KnownIsQueued, ToSet
    <3>2. \A i \in DOMAIN r : r[i] \in ToSet(queued)
      BY <1>3, <2>1
    <3>3. QED
      BY <1>4, <3>1, <3>2
  <2>3. ToSet(seen') \subseteq ToSet(queued)
    BY <2>2 DEF ToSet
  <2>4. QED
    BY <1>1, <2>3 DEF KnownIsQueued, InFlight
<1>11. IdsRise'
  BY <1>1, <1>2 DEF IdsRise
<1>12. LineInOrder'
  <2>1. ASSUME NEW i \in DOMAIN seen', NEW j \in DOMAIN seen', i < j
        PROVE  Before(seen'[i], seen'[j])
    <3>1. CASE i \in DOMAIN seen /\ j \in DOMAIN seen
      BY <1>4, <2>1, <3>1 DEF LineInOrder
    <3>2. CASE i \in DOMAIN seen /\ j \notin DOMAIN seen
      BY <1>2, <1>3, <1>4, <3>2 DEF LineInOrder
    <3>3. CASE i \notin DOMAIN seen
      <4>1. /\ i - Len(seen) \in DOMAIN read /\ j - Len(seen) \in DOMAIN read
            /\ i - Len(seen) < j - Len(seen)
            /\ seen'[i] = read[i - Len(seen)].what
            /\ seen'[j] = read[j - Len(seen)].what
        BY <1>3, <1>4, <2>1, <3>3
      <4>2. QED
        BY <1>2, <4>1 DEF LineInOrder
    <3>4. QED
      BY <3>1, <3>2, <3>3
  <2>2. ASSUME NEW i \in DOMAIN seen', NEW e \in Flight'
        PROVE  Before(seen'[i], e.what)
    <3>1. CASE i \in DOMAIN seen
      BY <1>4, <1>6, <3>1 DEF LineInOrder
    <3>2. CASE i \notin DOMAIN seen
      <4>1. i - Len(seen) \in DOMAIN read /\ seen'[i] = read[i - Len(seen)].what
        BY <1>3, <1>4, <3>2
      <4>2. PICK k \in DOMAIN jsEvents : jsEvents[k] = read[i - Len(seen)]
        BY <1>2, <4>1 DEF ToSet
      <4>3. PICK l \in DOMAIN bridge : bridge[l] = e
        BY <1>6 DEF ToSet
      <4>4. read[i - Len(seen)].id < e.id
        BY <4>2, <4>3 DEF IdsRise
      <4>5. QED
        BY <1>2, <1>6, <4>1, <4>4 DEF LineInOrder
    <3>3. QED
      BY <3>1, <3>2
  <2>3. ASSUME NEW i \in DOMAIN seen', NEW k \in DOMAIN events
        PROVE  Before(seen'[i], events[k])
    <3>1. CASE i \in DOMAIN seen
      BY <1>4, <3>1 DEF LineInOrder
    <3>2. CASE i \notin DOMAIN seen
      BY <1>2, <1>3, <1>4, <3>2 DEF LineInOrder
    <3>3. QED
      BY <3>1, <3>2
  <2>4. /\ \A e, f \in Flight' : e.id < f.id => Before(e.what, f.what)
        /\ \A e \in Flight' : \A k \in DOMAIN events : Before(e.what, events[k])
    BY <1>6 DEF LineInOrder
  <2>5. \A k, l \in DOMAIN events : k < l => Before(events[k], events[l])
    BY DEF LineInOrder
  <2>6. QED
    BY <1>1, <1>7, <2>1, <2>2, <2>3, <2>4, <2>5 DEF LineInOrder
<1>13. QueuedIsAccountedFor'
  <2>1. ToSet(seen) \subseteq ToSet(seen')
    BY <1>4 DEF ToSet
  <2>2. ASSUME NEW i \in DOMAIN jsEvents, jsEvents[i].id > lastSeen,
               jsEvents[i].what \in Msg, jsEvents[i] \notin ToSet(bridge)
        PROVE  jsEvents[i].what \in ToSet(seen')
    <3>1. jsEvents[i] \in Flight /\ jsEvents[i] \in ToSet(jsEvents)
      BY <2>2 DEF Flight, ToSet
    <3>2. PICK k \in DOMAIN read : read[k] = jsEvents[i]
      BY <1>2, <2>2, <3>1 DEF ToSet
    <3>3. r[k] = jsEvents[i].what /\ k \in DOMAIN r
      BY <1>3, <3>2
    <3>4. QED
      BY <1>4, <3>3 DEF ToSet
  <2>3. \A m \in ToSet(queued) : m \in Msg
    BY DEF TypeOK, ToSet
  <2>4. QED
    BY <1>1, <2>1, <2>2, <2>3 DEF QueuedIsAccountedFor
<1>14. QED
  BY <1>8, <1>9, <1>10, <1>11, <1>12, <1>13

-----------------------------------------------------------------------------
(* The theorems                                                            *)

\* Every step keeps the inductive invariant.
LEMMA NextIInv == IInv /\ [Next]_vars => IInv'
<1> SUFFICES ASSUME IInv, [Next]_vars PROVE IInv'
  OBVIOUS
<1>1. ASSUME NEW m \in Msg, Persist(m) PROVE IInv'
  BY <1>1, PersistStep
<1>2. ASSUME NEW m \in Msg, QueueEvent(m) PROVE IInv'
  BY <1>2, QueueEventStep
<1>3. CASE WriteLog
  BY <1>3, WriteLogStep
<1>4. CASE Poll
  BY <1>4, PollStep
<1>5. CASE PushEvent
  BY <1>5, PushEventStep
<1>6. CASE ReadEvents
  BY <1>6, ReadEventsStep
<1>7. CASE UNCHANGED vars
  <2>1. UNCHANGED <<pc, stored, queued, events, logs, logged, eventId, bridge,
                    jsEvents, lastSeen, seen, evicted, overflown>>
    BY <1>7 DEF vars, nodeVars, logVars, jsVars
  <2>2. TypeOK' /\ Received'
    BY <2>1 DEF IInv, TypeOK, Received
  <2>3. KnownIsQueued' /\ IdsRise' /\ QueuedIsAccountedFor'
    BY <2>1 DEF IInv, KnownIsQueued, InFlight, IdsRise, QueuedIsAccountedFor
  <2>4. LineInOrder'
    BY <2>1 DEF IInv, LineInOrder, Flight, Before
  <2>5. QED
    BY <2>2, <2>3, <2>4 DEF IInv
<1>8. QED
  BY <1>1, <1>2, <1>3, <1>4, <1>5, <1>6, <1>7 DEF Next

\* The inductive invariant holds in every reachable state.
LEMMA SpecIInv == Spec => []IInv
  BY InitIInv, NextIInv, PTL DEF Spec

\* Every variable keeps its type, and the buffer of the hook its cap.
THEOREM TypeCorrect == Spec => []TypeOK
<1>1. IInv => TypeOK
  BY DEF IInv
<1>2. QED
  BY <1>1, SpecIInv, PTL

\* Persist before emit: a message JavaScript can know of is in the store.
THEOREM KnownIsStored == Spec => []KnownMessagesAreStored
<1>1. ASSUME IInv PROVE KnownMessagesAreStored
  <2>1. \A m \in ToSet(queued) : m \in Msg
    BY <1>1 DEF IInv, TypeOK, ToSet
  <2>2. HasStore => ToSet(queued) \subseteq stored
    BY <1>1, <2>1 DEF IInv, Received
  <2>3. QED
    BY <1>1, <2>2 DEF IInv, KnownIsQueued, KnownMessagesAreStored
<1>2. QED
  BY <1>1, SpecIInv, PTL

\* The consumer reads every message at most once and in the order the receivers
\* queued them, whatever the caps, the poll buffer and the log lines.
THEOREM ReadsInOrder == Spec => []ReadOnceInOrder
<1>1. ASSUME IInv PROVE ReadOnceInOrder
  <2>1. ToSet(seen) \subseteq ToSet(queued)
    BY <1>1 DEF IInv, KnownIsQueued
  <2>2. \A i, j \in DOMAIN seen : i < j => Before(seen[i], seen[j])
    BY <1>1 DEF IInv, LineInOrder
  <2>3. /\ DOMAIN seen = 1 .. Len(seen) /\ DOMAIN queued = 1 .. Len(queued)
        /\ Len(seen) \in Nat /\ Len(queued) \in Nat
    BY <1>1 DEF IInv, TypeOK
  <2>4. \A m : ~Before(m, m)
    <3>1. IsInjective(queued)
      BY <1>1 DEF IInv, Received
    <3>2. QED
      BY <2>3, <3>1 DEF Before, IsInjective
  <2>5. IsInjective(seen)
    <3> SUFFICES ASSUME NEW i \in DOMAIN seen, NEW j \in DOMAIN seen,
                        seen[i] = seen[j], i # j
                 PROVE  FALSE
      BY DEF IsInjective
    <3>1. i < j \/ j < i
      BY <2>3
    <3>2. QED
      BY <2>2, <2>4, <3>1
  <2>6. QED
    BY <2>1, <2>2, <2>5 DEF ReadOnceInOrder
<1>2. QED
  BY <1>1, SpecIInv, PTL

\* A queued message is in the queue, on its way, unread in the buffer of the
\* hook, read, or was dropped by one of the two buffers.
THEOREM NothingElseIsLost == Spec => []QueuedIsAccountedFor
<1>1. IInv => QueuedIsAccountedFor
  BY DEF IInv
<1>2. QED
  BY <1>1, SpecIInv, PTL
=============================================================================
