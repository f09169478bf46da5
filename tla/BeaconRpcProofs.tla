-------------------------- MODULE BeaconRpcProofs --------------------------
(***************************************************************************)
(* Proofs about BeaconRpc for any number of calls and beacons, any width   *)
(* of the correlation id and any number of stops: its two safety           *)
(* properties and its types.                                               *)
(*                                                                         *)
(* Both rest on what ties the ids to the calls.  Until the ids wrap, the   *)
(* n-th call of queue_rpc has the id n, an entry of in_flight is the call  *)
(* its id was given to (Numbered, Matched), and one that was answered has  *)
(* no entry left.  A staged call waits at one position of one of the two   *)
(* sequences (Staged).                                                     *)
(*                                                                         *)
(* The invariant says nothing of the variables of the JavaScript side: what*)
(* a caller knows decides only whether it makes a call, and a new call is  *)
(* any call without an id.  Their types are an invariant of their own.     *)
(***************************************************************************)
EXTENDS BeaconRpc, FiniteSetTheorems, TLAPS

Issued(c) == \E i \in DOMAIN issued : issued[i] = c
Pending(c) == \E i \in DOMAIN pendingRpcs : pendingRpcs[i] = c
Drained(c) == \E i \in DOMAIN batch : batch[i] = c
NoRepeats(s) == \A i, j \in DOMAIN s : s[i] = s[j] => i = j

\* TypeOK for the node.
NodeTypes ==
  /\ nextRpcId \in Id
  /\ rpcId \in [Call -> Id \cup {0}]
  /\ inFlight \in [Id -> Call \cup {NoCall}]
  /\ pendingRpcs \in Seq(Call) /\ batch \in Seq(Call) /\ issued \in Seq(Call)
  /\ reached \subseteq Call /\ tried \subseteq Call /\ aborted \subseteq Call
  /\ events \in Seq(RpcEvent)
  /\ answersReported \in [Call -> Nat] /\ errorsReported \in [Call -> Nat]

\* A call has an id as soon as queue_rpc saw it, and until the ids wrap the n-th
\* call has the id n.
Numbered ==
  /\ NoRepeats(issued)
  /\ \A c \in Call : rpcId[c] # 0 <=> Issued(c)
  /\ Len(issued) <= MaxId => \A i \in DOMAIN issued : rpcId[issued[i]] = i
  /\ Len(issued) < MaxId => nextRpcId = Len(issued) + 1

\* A staged call is at one place, and was neither settled nor aborted.
Staged ==
  /\ NoRepeats(pendingRpcs) /\ NoRepeats(batch)
  /\ \A c \in Call : ~(Pending(c) /\ Drained(c))
  /\ \A c \in Call : Pending(c) \/ Drained(c) <=> Issued(c) /\ c \notin tried \cup aborted
  /\ \A c \in tried \cup aborted : Issued(c)

\* An entry of in_flight is the call its id was given to, and that call was not
\* answered yet.
Matched ==
  /\ \A c \in reached : Issued(c)
  /\ \A c \in Call : answersReported[c] > 0 => Issued(c)
  /\ Len(issued) <= MaxId =>
       /\ \A i \in Id : inFlight[i] # NoCall =>
            i \in DOMAIN issued /\ inFlight[i] = issued[i] /\ answersReported[issued[i]] = 0
       /\ \A c \in Call : answersReported[c] <= 1
       /\ \A i \in DOMAIN events : events[i].matched = events[i].answerTo

\* Only the dispatch task reports an error, when it settles the call.
OneError ==
  \A c \in Call : errorsReported[c] <= 1 /\ (errorsReported[c] > 0 => c \in tried)

\* The inductive invariant.
IInv == NodeTypes /\ Numbered /\ Staged /\ Matched /\ OneError

\* The inductive invariant holds before the first call.
LEMMA InitIInv == Init => IInv
<1> SUFFICES ASSUME Init PROVE IInv
  OBVIOUS
<1> USE RpcBoundsAssumption DEF Init
<1>1. NodeTypes
  <2>1. 1 \in Id
    BY DEF Id
  <2>2. <<>> \in Seq(Call) /\ <<>> \in Seq(RpcEvent)
    OBVIOUS
  <2>3. QED
    BY <2>1, <2>2 DEF NodeTypes
<1>2. Numbered
  BY DEF Numbered, NoRepeats, Issued
<1>3. Staged
  BY DEF Staged, NoRepeats, Issued, Pending, Drained
<1>4. Matched /\ OneError
  BY DEF Matched, OneError
<1>5. QED
  BY <1>1, <1>2, <1>3, <1>4 DEF IInv

\* The id counter stays within its width, and counts up until it wraps.
LEMMA NextIdFacts ==
  ASSUME nextRpcId \in Id
  PROVE  NextId \in Id /\ (nextRpcId < MaxId => NextId = nextRpcId + 1)
<1> USE RpcBoundsAssumption DEF Id
<1>1. CASE nextRpcId < MaxId
  <2>1. (nextRpcId + 1) % (MaxId + 1) = nextRpcId + 1
    BY <1>1
  <2>2. QED
    BY <1>1, <2>1 DEF NextId
<1>2. CASE nextRpcId = MaxId
  <2>1. (nextRpcId + 1) % (MaxId + 1) = 0
    BY <1>2
  <2>2. QED
    BY <1>2, <2>1 DEF NextId
<1>3. QED
  BY <1>1, <1>2

\* What a response adds to the queue.
LEMMA PushFacts ==
  ASSUME NodeTypes, NEW c \in Call, NEW matched \in Call, NEW local \in BOOLEAN,
         rpcId[c] # 0, PushResponse(c, matched, local)
  PROVE  /\ events' \in Seq(RpcEvent)
         /\ (\A i \in DOMAIN events : events[i].matched = events[i].answerTo) /\ matched = c =>
              \A i \in DOMAIN events' : events'[i].matched = events'[i].answerTo
<1> DEFINE e == [id |-> rpcId[c], answerTo |-> c, matched |-> matched, local |-> local]
<1>1. e \in RpcEvent /\ e.matched = matched /\ e.answerTo = c
  BY DEF NodeTypes, RpcEvent
<1>2. events \in Seq(RpcEvent)
  BY DEF NodeTypes
<1>3. CASE events' = events
  BY <1>2, <1>3
<1>4. CASE events' = Append(events, e)
  <2> HIDE DEF e
  <2>1. events' \in Seq(RpcEvent) /\ DOMAIN events' = 1 .. Len(events) + 1
    BY <1>1, <1>2, <1>4
  <2>2. \A i \in DOMAIN events' :
          events'[i] = IF i \in DOMAIN events THEN events[i] ELSE e
    BY <1>2, <1>4, <2>1
  <2>3. QED
    BY <1>1, <2>1, <2>2
<1>5. QED
  BY <1>3, <1>4 DEF PushResponse

-----------------------------------------------------------------------------
(* The steps                                                               *)

\* A new call gets the next id and is staged behind the others.
LEMMA QueueStep ==
  ASSUME IInv, NEW c \in Call, QueueRpc(c)
  PROVE  IInv'
<1> USE DEF IInv
<1> DEFINE n == Len(issued) + 1
<1>1. /\ UNCHANGED <<reached, tried, aborted, batch, events, answersReported, errorsReported>>
      /\ rpcId[c] = 0 /\ ~Issued(c) /\ nextRpcId \in 1 .. MaxId /\ MaxId \in Nat
      /\ inFlight' = [inFlight EXCEPT ![nextRpcId] = c]
  BY RpcBoundsAssumption DEF QueueRpc, taskVars, eventVars, Numbered, NodeTypes, Id
<1>2. /\ rpcId'[c] = nextRpcId /\ rpcId' \in [Call -> Id \cup {0}]
      /\ \A d \in Call \ {c} : rpcId'[d] = rpcId[d]
  BY <1>1 DEF QueueRpc, NodeTypes, Id
<1>3. /\ issued' \in Seq(Call) /\ DOMAIN issued' = DOMAIN issued \cup {n} /\ n \notin DOMAIN issued
      /\ issued'[n] = c /\ \A i \in DOMAIN issued : issued'[i] = issued[i] /\ issued[i] \in Call
      /\ Len(issued') = n /\ Len(issued) \in Nat /\ DOMAIN issued = 1 .. Len(issued)
  BY SMTT(30) DEF QueueRpc, NodeTypes
<1>4. \A d \in Call : Issued(d)' <=> Issued(d) \/ d = c
  BY <1>3 DEF Issued
<1>5. nextRpcId' \in Id /\ (nextRpcId < MaxId => nextRpcId' = nextRpcId + 1)
  BY NextIdFacts DEF QueueRpc, NodeTypes
<1>6. \E k :
        /\ pendingRpcs' \in Seq(Call) /\ DOMAIN pendingRpcs' = DOMAIN pendingRpcs \cup {k}
        /\ k \notin DOMAIN pendingRpcs /\ pendingRpcs'[k] = c
        /\ \A i \in DOMAIN pendingRpcs : pendingRpcs'[i] = pendingRpcs[i]
  <2>1. pendingRpcs' = Append(pendingRpcs, c) /\ pendingRpcs \in Seq(Call)
    BY DEF QueueRpc, NodeTypes
  <2>2. QED
    BY <2>1
<1>7. NodeTypes'
  BY <1>1, <1>2, <1>3, <1>5, <1>6 DEF NodeTypes, Id
<1>8. Numbered'
  <2>1. NoRepeats(issued')
    BY <1>1, <1>3 DEF Numbered, NoRepeats, Issued
  <2>2. \A d \in Call : rpcId'[d] # 0 <=> Issued(d)'
    BY <1>1, <1>2, <1>4 DEF Numbered
  <2>3. ASSUME n <= MaxId PROVE \A i \in DOMAIN issued' : rpcId'[issued'[i]] = i
    <3>1. Len(issued) < MaxId /\ nextRpcId = n
      BY <1>1, <1>3, <2>3 DEF Numbered
    <3>2. \A i \in DOMAIN issued : issued[i] # c /\ rpcId[issued[i]] = i
      BY <1>1, <1>3, <3>1 DEF Numbered, Issued
    <3>3. QED
      BY <1>2, <1>3, <3>1, <3>2
  <2>4. ASSUME n < MaxId PROVE nextRpcId' = n + 1
    BY <1>1, <1>3, <1>5, <2>4 DEF Numbered
  <2>5. QED
    BY <1>3, <2>1, <2>2, <2>3, <2>4 DEF Numbered
<1>9. Staged'
  <2>1. ~Pending(c) /\ ~Drained(c) /\ c \notin tried \cup aborted
    BY <1>1 DEF Staged
  <2>2. \A d \in Call : Pending(d)' <=> Pending(d) \/ d = c
    BY <1>6 DEF Pending
  <2>3. \A d \in Call : Drained(d)' <=> Drained(d)
    BY <1>1 DEF Drained
  <2>4. NoRepeats(pendingRpcs')
    BY <1>6, <2>1 DEF Staged, NoRepeats, Pending
  <2>5. tried \cup aborted \subseteq Call
    BY DEF NodeTypes
  <2>6. QED
    BY <1>1, <1>4, <2>1, <2>2, <2>3, <2>4, <2>5 DEF Staged, NoRepeats
<1>10. Matched'
  <2>1. \A d \in Call : answersReported[d] > 0 => Issued(d)'
    BY <1>4 DEF Matched
  <2>2. ASSUME n <= MaxId, NEW i \in Id, inFlight'[i] # NoCall
        PROVE  i \in DOMAIN issued' /\ inFlight'[i] = issued'[i] /\ answersReported[issued'[i]] = 0
    <3>1. nextRpcId = n
      BY <1>1, <1>3, <2>2 DEF Numbered
    <3>2. CASE i = n
      <4>1. inFlight'[i] = c /\ issued'[i] = c
        BY <1>1, <1>3, <3>1, <3>2 DEF NodeTypes, Id
      <4>2. answersReported[c] = 0
        BY <1>1 DEF Matched, NodeTypes
      <4>3. QED
        BY <1>3, <3>2, <4>1, <4>2
    <3>3. CASE i # n
      <4>1. inFlight'[i] = inFlight[i]
        BY <1>1, <3>1, <3>3 DEF NodeTypes
      <4>2. Len(issued) <= MaxId
        BY <1>1, <1>3, <2>2
      <4>3. i \in DOMAIN issued /\ inFlight[i] = issued[i] /\ answersReported[issued[i]] = 0
        BY <2>2, <4>1, <4>2 DEF Matched
      <4>4. QED
        BY <1>3, <4>1, <4>3
    <3>4. QED
      BY <3>2, <3>3
  <2>3. reached \subseteq Call
    BY DEF NodeTypes
  <2>4. QED
    BY <1>1, <1>3, <1>4, <2>1, <2>2, <2>3 DEF Matched
<1>11. OneError'
  BY <1>1 DEF OneError
<1>12. QED
  BY <1>7, <1>8, <1>9, <1>10, <1>11

\* An answer takes the entry of its call, so there is no second report.
LEMMA AnswerStep ==
  ASSUME IInv, NEW c \in Call, ReceiveAnswer(c)
  PROVE  IInv'
<1> USE DEF IInv
<1> DEFINE id == rpcId[c]
<1>1. /\ UNCHANGED <<nextRpcId, rpcId, pendingRpcs, issued, batch, reached, tried, aborted,
                     errorsReported>>
      /\ c \in reached /\ inFlight[id] # NoCall
      /\ inFlight' = [inFlight EXCEPT ![id] = NoCall]
      /\ answersReported' = [answersReported EXCEPT ![c] = @ + 1]
      /\ PushResponse(c, inFlight[id], FALSE)
  BY DEF ReceiveAnswer, RemoveInFlight, taskVars
<1>2. Issued(c) /\ id \in Id /\ id # 0 /\ inFlight[id] \in Call
  BY <1>1 DEF Matched, Numbered, NodeTypes
<1>3. /\ events' \in Seq(RpcEvent)
      /\ (\A i \in DOMAIN events : events[i].matched = events[i].answerTo) /\ inFlight[id] = c =>
              \A i \in DOMAIN events' : events'[i].matched = events'[i].answerTo
  BY <1>1, <1>2, PushFacts
<1>4. /\ answersReported'[c] = answersReported[c] + 1
      /\ \A d \in Call \ {c} : answersReported'[d] = answersReported[d]
      /\ inFlight'[id] = NoCall /\ \A i \in Id \ {id} : inFlight'[i] = inFlight[i]
  BY <1>1, <1>2 DEF NodeTypes
<1>5. NodeTypes'
  <2>1. answersReported' \in [Call -> Nat]
    BY <1>1 DEF NodeTypes
  <2>2. inFlight' \in [Id -> Call \cup {NoCall}]
    BY <1>1 DEF NodeTypes
  <2>3. QED
    BY <1>1, <1>3, <2>1, <2>2 DEF NodeTypes
<1>6. Numbered' /\ Staged' /\ OneError'
  BY <1>1 DEF Numbered, Staged, OneError, NoRepeats, Issued, Pending, Drained
<1>7. Matched'
  <2>1. (\A d \in reached : Issued(d)) /\ \A d \in Call : answersReported'[d] > 0 => Issued(d)
    BY <1>2, <1>4 DEF Matched
  <2>2. ASSUME Len(issued) <= MaxId
        PROVE  /\ \A i \in Id : inFlight'[i] # NoCall =>
                    i \in DOMAIN issued /\ inFlight'[i] = issued[i] /\ answersReported'[issued[i]] = 0
               /\ \A d \in Call : answersReported'[d] <= 1
               /\ \A i \in DOMAIN events' : events'[i].matched = events'[i].answerTo
    <3>1. id \in DOMAIN issued /\ inFlight[id] = issued[id] /\ answersReported[issued[id]] = 0
      BY <1>1, <1>2, <2>2 DEF Matched
    <3>2. PICK k \in DOMAIN issued : issued[k] = c
      BY <1>2 DEF Issued
    <3>3. k = id
      BY <2>2, <3>2 DEF Numbered
    <3>4. inFlight[id] = c /\ answersReported[c] = 0
      BY <3>1, <3>2, <3>3
    <3>5. \A i \in DOMAIN issued : i # id => issued[i] # c /\ issued[i] \in Call
      BY <3>2, <3>3 DEF Numbered, NoRepeats, NodeTypes
    <3>6. \A i \in Id : inFlight'[i] # NoCall =>
            i \in DOMAIN issued /\ inFlight'[i] = issued[i] /\ answersReported'[issued[i]] = 0
      BY <1>4, <2>2, <3>5 DEF Matched
    <3>7. \A d \in Call : answersReported'[d] <= 1
      BY <1>4, <2>2, <3>4 DEF Matched
    <3>8. \A i \in DOMAIN events' : events'[i].matched = events'[i].answerTo
      BY <1>3, <2>2, <3>4 DEF Matched
    <3>9. QED
      BY <3>6, <3>7, <3>8
  <2>3. QED
    BY <1>1, <2>1, <2>2 DEF Matched, Issued
<1>8. QED
  BY <1>5, <1>6, <1>7

\* The dispatch task settles the first call of its batch.
LEMMA DispatchStep ==
  ASSUME IInv, DispatchRpc
  PROVE  IInv'
<1> USE DEF IInv
<1>1. PICK c \in Call : c = Head(batch) /\ Drained(c)
  BY DEF DispatchRpc, NodeTypes, Drained
<1>2. /\ UNCHANGED <<nextRpcId, rpcId, inFlight, pendingRpcs, issued, aborted, answersReported>>
      /\ batch # <<>> /\ batch' = Tail(batch) /\ tried' = tried \cup {c}
      /\ reached' \subseteq reached \cup {c}
  BY <1>1 DEF DispatchRpc, managerVars
<1>3. Issued(c) /\ rpcId[c] # 0 /\ c \notin tried \cup aborted
  BY <1>1 DEF Staged, Numbered
<1>4. /\ batch' \in Seq(Call) /\ NoRepeats(batch')
      /\ \A d \in Call : Drained(d)' <=> Drained(d) /\ d # c
  <2>1. batch \in Seq(Call) /\ NoRepeats(batch)
    BY DEF NodeTypes, Staged
  <2>2. /\ batch' \in Seq(Call) /\ Len(batch) \in Nat \ {0} /\ DOMAIN batch = 1 .. Len(batch)
        /\ DOMAIN batch' = 1 .. Len(batch) - 1 /\ batch[1] = c
        /\ \A i \in DOMAIN batch' : batch'[i] = batch[i + 1]
    BY <1>1, <1>2, <2>1
  <2>3. NoRepeats(batch')
    BY <2>1, <2>2 DEF NoRepeats
  <2>4. ASSUME NEW d \in Call, Drained(d)' PROVE Drained(d) /\ d # c
    <3>1. PICK i \in DOMAIN batch' : batch'[i] = d
      BY <2>4 DEF Drained
    <3>2. i + 1 \in DOMAIN batch /\ batch[i + 1] = d /\ i + 1 # 1 /\ 1 \in DOMAIN batch
      BY <2>2, <3>1
    <3>3. QED
      BY <2>1, <2>2, <3>2 DEF NoRepeats, Drained
  <2>5. ASSUME NEW d \in Call, Drained(d), d # c PROVE Drained(d)'
    <3>1. PICK i \in DOMAIN batch : batch[i] = d
      BY <2>5 DEF Drained
    <3>2. i # 1 /\ i - 1 \in DOMAIN batch' /\ (i - 1) + 1 = i
      BY <2>2, <2>5, <3>1
    <3>3. batch'[i - 1] = d
      BY <2>2, <3>1, <3>2
    <3>4. QED
      BY <3>2, <3>3 DEF Drained
  <2>6. QED
    BY <2>2, <2>3, <2>4, <2>5
<1>5. /\ events' \in Seq(RpcEvent)
      /\ (\A i \in DOMAIN events : events[i].matched = events[i].answerTo) =>
              \A i \in DOMAIN events' : events'[i].matched = events'[i].answerTo
      /\ errorsReported' = errorsReported
           \/ errorsReported' = [errorsReported EXCEPT ![c] = @ + 1]
  <2>1. CASE PushResponse(c, c, TRUE) /\ errorsReported' = [errorsReported EXCEPT ![c] = @ + 1]
    BY <1>3, <2>1, PushFacts
  <2>2. CASE UNCHANGED <<events, errorsReported>>
    BY <2>2 DEF NodeTypes
  <2>3. QED
    BY <1>1, <2>1, <2>2 DEF DispatchRpc
<1>6. NodeTypes'
  <2>1. errorsReported' \in [Call -> Nat]
    <3>1. errorsReported \in [Call -> Nat] /\ errorsReported[c] + 1 \in Nat
      BY DEF NodeTypes
    <3>2. QED
      BY <1>5, <3>1
  <2>2. tried' \subseteq Call /\ reached' \subseteq Call
    BY <1>2 DEF NodeTypes
  <2>3. QED
    BY <1>2, <1>4, <1>5, <2>1, <2>2 DEF NodeTypes
<1>7. Numbered'
  BY <1>2 DEF Numbered, Issued
<1>8. Staged'
  <2>1. \A d \in Call : (Issued(d)' <=> Issued(d)) /\ (Pending(d)' <=> Pending(d))
    BY <1>2 DEF Issued, Pending
  <2>2. tried \subseteq Call /\ aborted \subseteq Call
    BY DEF NodeTypes
  <2>3. QED
    BY <1>1, <1>2, <1>3, <1>4, <2>1, <2>2 DEF Staged
<1>9. Matched'
  <2>1. \A d \in reached' : Issued(d)'
    BY <1>2, <1>3 DEF Matched, Issued
  <2>2. QED
    BY <1>2, <1>5, <2>1 DEF Matched, Issued
<1>10. OneError'
  BY <1>2, <1>3, <1>5 DEF OneError, NodeTypes
<1>11. QED
  BY <1>6, <1>7, <1>8, <1>9, <1>10

\* The dispatch task takes all that is staged, a stop drops what it has, and a
\* poll takes the responses.
LEMMA TakeStep ==
  ASSUME IInv, DrainRpcs \/ Stop \/ Poll
  PROVE  IInv'
<1> USE DEF IInv
<1>1. /\ UNCHANGED <<nextRpcId, rpcId, inFlight, issued, tried, answersReported, errorsReported>>
      /\ reached' \subseteq reached /\ (events' = events \/ events' = <<>>)
  BY DEF DrainRpcs, Stop, Poll, nodeVars, managerVars, taskVars, eventVars
<1>2. Numbered' /\ OneError'
  BY <1>1 DEF Numbered, OneError, Issued
<1> DEFINE Rest == /\ pendingRpcs' \in Seq(Call) /\ batch' \in Seq(Call) /\ aborted' \subseteq Call
<1>3. Rest => NodeTypes'
  <2>1. events' \in Seq(RpcEvent)
    <3>1. events \in Seq(RpcEvent) /\ <<>> \in Seq(RpcEvent)
      BY DEF NodeTypes
    <3>2. QED
      BY <1>1, <3>1
  <2>2. reached' \subseteq Call
    BY <1>1 DEF NodeTypes
  <2>3. UNCHANGED <<nextRpcId, rpcId, inFlight, issued, tried, answersReported, errorsReported>>
    BY <1>1
  <2>4. QED
    BY <2>1, <2>2, <2>3 DEF NodeTypes
<1>4. Matched'
  BY <1>1 DEF Matched, Issued, NodeTypes
<1>5. CASE DrainRpcs
  <2>1. /\ batch' = pendingRpcs /\ pendingRpcs' = <<>> /\ batch = <<>> /\ aborted' = aborted
    BY <1>5 DEF DrainRpcs, DrainPending
  <2>2. NodeTypes'
    BY <1>3, <2>1 DEF NodeTypes
  <2>3. \A c \in Call : /\ Issued(c)' <=> Issued(c)
                        /\ ~Pending(c)' /\ ~Drained(c)
                        /\ Drained(c)' <=> Pending(c)
    BY <1>1, <2>1 DEF Issued, Pending, Drained
  <2>4. NoRepeats(pendingRpcs')
    BY <2>1 DEF NoRepeats
  <2>5. Staged'
    BY <1>1, <2>1, <2>3, <2>4 DEF Staged, NodeTypes
  <2>6. QED
    BY <1>2, <1>4, <2>2, <2>5
<1>6. CASE Stop
  <2>1. batch' = <<>> /\ pendingRpcs' = pendingRpcs /\ aborted' = aborted \cup ToSet(batch)
    BY <1>6 DEF Stop, managerVars
  <2>2. \A c \in Call : c \in ToSet(batch) <=> Drained(c)
    BY DEF ToSet, Drained
  <2>3. ToSet(batch) \subseteq Call
    BY DEF ToSet, NodeTypes
  <2>4. NodeTypes'
    BY <1>3, <2>1, <2>3 DEF NodeTypes
  <2>5. \A c \in Call : /\ Issued(c)' <=> Issued(c)
                        /\ Pending(c)' <=> Pending(c)
                        /\ ~Drained(c)'
    BY <1>1, <2>1 DEF Issued, Pending, Drained
  <2>6. NoRepeats(batch')
    BY <2>1 DEF NoRepeats
  <2>7. \A c \in tried \cup aborted' : Issued(c)'
    BY <2>1, <2>2, <2>3, <2>5 DEF Staged, NodeTypes
  <2>8. \A c \in Call : Pending(c)' \/ Drained(c)' <=> Issued(c)' /\ c \notin tried \cup aborted'
    BY <2>1, <2>2, <2>5 DEF Staged
  <2>9. Staged'
    BY <1>1, <2>1, <2>5, <2>6, <2>7, <2>8 DEF Staged
  <2>10. QED
    BY <1>2, <1>4, <2>4, <2>9
<1>7. CASE Poll
  <2>1. UNCHANGED <<pendingRpcs, batch, aborted>> /\ events' = <<>>
    BY <1>7 DEF Poll, managerVars, taskVars
  <2>2. NodeTypes'
    BY <1>3, <2>1 DEF NodeTypes
  <2>3. Staged'
    BY <1>1, <2>1 DEF Staged, NoRepeats, Issued, Pending, Drained
  <2>4. QED
    BY <1>2, <1>4, <2>2, <2>3
<1>8. QED
  BY <1>5, <1>6, <1>7

\* Every step keeps the inductive invariant.
LEMMA StepIInv == IInv /\ [Next]_vars => IInv'
<1> SUFFICES ASSUME IInv, [Next]_vars PROVE IInv'
  OBVIOUS
<1> USE DEF managerVars, taskVars, eventVars
<1>1. ASSUME UNCHANGED <<managerVars, taskVars, eventVars>> PROVE IInv'
  <2>1. NodeTypes' /\ Numbered'
    BY <1>1 DEF IInv, NodeTypes, Numbered, NoRepeats, Issued
  <2>2. Staged' /\ OneError'
    BY <1>1 DEF IInv, Staged, OneError, NoRepeats, Issued, Pending, Drained
  <2>3. Matched'
    BY <1>1 DEF IInv, Matched, Issued
  <2>4. QED
    BY <2>1, <2>2, <2>3 DEF IInv
<1>2. CASE \E c \in Call : QueueRpc(c)
  BY <1>2, QueueStep
<1>3. CASE \E c \in Call : ReceiveAnswer(c)
  BY <1>3, AnswerStep
<1>4. CASE DispatchRpc
  BY <1>4, DispatchStep
<1>5. CASE DrainRpcs \/ Stop \/ Poll
  BY <1>5, TakeStep
<1>6. CASE \E c \in Call : BeaconRpcWait(c) \/ LearnId(c) \/ Timeout(c)
  BY <1>1, <1>6 DEF BeaconRpcWait, LearnId, Timeout
<1>7. CASE HandleEvent \/ PollOther \/ Start \/ \E b \in Beacon : ReceiveAnnounce(b)
  BY <1>1, <1>7 DEF HandleEvent, PollOther, Start, ReceiveAnnounce
<1>8. CASE UNCHANGED vars
  BY <1>1, <1>8 DEF vars
<1>9. QED
  BY <1>2, <1>3, <1>4, <1>5, <1>6, <1>7, <1>8 DEF Next, Caller

\* The inductive invariant holds in every reachable state.
LEMMA AlwaysIInv == Spec => []IInv
<1>1. QED
  BY InitIInv, StepIInv, PTL DEF Spec

-----------------------------------------------------------------------------
(* The theorems                                                            *)

\* A call is staged once until the dispatch task settles it or a stop aborts it.
THEOREM DispatchedOnce == Spec => []EachCallIsDispatchedOnce
<1> DEFINE waiting == pendingRpcs \o batch
           Places(c) == {i \in DOMAIN waiting : waiting[i] = c}
<1>1. ASSUME IInv, NEW c \in ToSet(issued)
      PROVE  Cardinality(Places(c)) = IF c \in tried \cup aborted THEN 0 ELSE 1
  <2>1. c \in Call /\ Issued(c)
    BY <1>1 DEF ToSet, IInv, NodeTypes, Issued
  <2>2. /\ Len(pendingRpcs) \in Nat /\ DOMAIN pendingRpcs = 1 .. Len(pendingRpcs)
        /\ Len(batch) \in Nat /\ DOMAIN batch = 1 .. Len(batch)
        /\ DOMAIN waiting = 1 .. Len(pendingRpcs) + Len(batch)
        /\ \A i \in DOMAIN pendingRpcs : waiting[i] = pendingRpcs[i]
        /\ \A i \in DOMAIN waiting \ DOMAIN pendingRpcs : waiting[i] = batch[i - Len(pendingRpcs)]
        /\ \A i \in DOMAIN batch : waiting[i + Len(pendingRpcs)] = batch[i]
    <3>1. pendingRpcs \in Seq(Call) /\ batch \in Seq(Call)
      BY <1>1 DEF IInv, NodeTypes
    <3>2. /\ Len(pendingRpcs) \in Nat /\ DOMAIN pendingRpcs = 1 .. Len(pendingRpcs)
          /\ Len(batch) \in Nat /\ DOMAIN batch = 1 .. Len(batch)
      BY <3>1
    <3>3. DOMAIN waiting = 1 .. Len(pendingRpcs) + Len(batch)
      BY <3>1
    <3>4. \A i \in DOMAIN waiting : waiting[i] = IF i <= Len(pendingRpcs) THEN pendingRpcs[i]
                                                 ELSE batch[i - Len(pendingRpcs)]
      BY <3>1
    <3> HIDE DEF waiting
    <3>5. \A i \in DOMAIN batch : /\ i + Len(pendingRpcs) \in DOMAIN waiting
                                  /\ ~(i + Len(pendingRpcs) <= Len(pendingRpcs))
                                  /\ (i + Len(pendingRpcs)) - Len(pendingRpcs) = i
      BY <3>2, <3>3
    <3>6. QED
      BY <3>2, <3>3, <3>4, <3>5
  <2> HIDE DEF waiting
  <2>3. CASE ~Pending(c) /\ ~Drained(c)
    <3>1. Places(c) = {}
      BY <2>2, <2>3 DEF Pending, Drained
    <3>2. c \in tried \cup aborted
      BY <1>1, <2>1, <2>3 DEF IInv, Staged
    <3>3. QED
      BY <3>1, <3>2, FS_EmptySet
  <2>4. CASE Pending(c)
    <3>1. PICK i \in DOMAIN pendingRpcs : pendingRpcs[i] = c
      BY <2>4 DEF Pending
    <3>2. ~Drained(c) /\ NoRepeats(pendingRpcs) /\ c \notin tried \cup aborted
      BY <1>1, <2>1, <2>4 DEF IInv, Staged
    <3>3. Places(c) = {i}
      BY <2>2, <3>1, <3>2 DEF NoRepeats, Drained
    <3>4. QED
      BY <3>2, <3>3, FS_Singleton
  <2>5. CASE Drained(c)
    <3>1. PICK i \in DOMAIN batch : batch[i] = c
      BY <2>5 DEF Drained
    <3>2. ~Pending(c) /\ NoRepeats(batch) /\ c \notin tried \cup aborted
      BY <1>1, <2>1, <2>5 DEF IInv, Staged
    <3>3. Places(c) = {i + Len(pendingRpcs)}
      BY <2>2, <3>1, <3>2 DEF NoRepeats, Pending
    <3>4. QED
      BY <3>2, <3>3, FS_Singleton
  <2>6. QED
    BY <2>3, <2>4, <2>5
<1>2. IInv => EachCallIsDispatchedOnce
  BY <1>1 DEF EachCallIsDispatchedOnce
<1>3. QED
  BY <1>2, AlwaysIInv, PTL

\* Until the ids wrap, a call has at most one answer and one error reported, each
\* under its own method.
THEOREM ReportedOnce == Spec => []AnswersAreReportedOnce
<1>1. IInv => AnswersAreReportedOnce
  BY DEF IInv, Matched, OneError, AnswersAreReportedOnce
<1>2. QED
  BY <1>1, AlwaysIInv, PTL

-----------------------------------------------------------------------------
(* Types                                                                   *)

\* TypeOK for the rest: the life of the node, the stamps and JavaScript.
JsTypes ==
  /\ running \in BOOLEAN /\ stops \in 0 .. MaxStops /\ peerIdentities \subseteq Beacon
  /\ eventId \in Nat /\ others \in 0 .. MaxOther
  /\ bridge \in Seq(BridgeEvent)
  /\ promise \in [Call -> PromiseState]
  /\ buffered \in [Call -> Seq(BridgeEvent)]
  /\ outcome \in [Call -> Call \cup {NoCall}]

\* A step of a caller, or of its listener, keeps the types of JavaScript.
LEMMA CallerTypes ==
  ASSUME JsTypes, NEW c \in Call, BeaconRpcWait(c) \/ LearnId(c) \/ Timeout(c)
  PROVE  JsTypes'
<1>0. UNCHANGED <<running, stops, peerIdentities, eventId, others, bridge>>
  BY DEF BeaconRpcWait, LearnId, Timeout, nodeVars, stampVars
<1>1. \/ promise' = [promise EXCEPT ![c] = "calling"]
      \/ promise' = [promise EXCEPT ![c] = "waiting"]
      \/ promise' = [promise EXCEPT ![c] = "resolved"]
      \/ promise' = [promise EXCEPT ![c] = "rejected"]
  BY DEF BeaconRpcWait, LearnId, Timeout
<1>2. promise' \in [Call -> PromiseState]
  BY <1>1 DEF JsTypes, PromiseState
<1>3. buffered' \in [Call -> Seq(BridgeEvent)]
  <2>1. buffered' = buffered \/ buffered' = [buffered EXCEPT ![c] = <<>>]
    BY DEF BeaconRpcWait, LearnId, Timeout
  <2>2. <<>> \in Seq(BridgeEvent) /\ buffered \in [Call -> Seq(BridgeEvent)]
    BY DEF JsTypes
  <2> DEFINE Events == Seq(BridgeEvent)
  <2>3. <<>> \in Events /\ buffered \in [Call -> Events]
    BY <2>2
  <2> HIDE DEF Events
  <2>4. buffered' \in [Call -> Events]
    BY <2>1, <2>3
  <2>5. QED
    BY <2>4 DEF Events
<1>4. outcome' \in [Call -> Call \cup {NoCall}]
  <2>1. CASE outcome' = outcome
    BY <2>1 DEF JsTypes
  <2>2. ASSUME NEW i \in DOMAIN buffered[c],
               outcome' = [outcome EXCEPT ![c] = buffered[c][i].answerTo]
        PROVE  outcome' \in [Call -> Call \cup {NoCall}]
    <3>1. buffered[c][i] \in BridgeEvent
      BY DEF JsTypes
    <3>2. buffered[c][i].answerTo \in Call
      BY <3>1 DEF BridgeEvent
    <3>3. QED
      BY <2>2, <3>2 DEF JsTypes
  <2>3. QED
    BY <2>1, <2>2 DEF BeaconRpcWait, LearnId, Timeout
<1>5. QED
  BY <1>0, <1>2, <1>3, <1>4 DEF JsTypes

\* An event reaches the listeners.
LEMMA EventTypes ==
  ASSUME JsTypes, HandleEvent
  PROVE  JsTypes'
<1>1. /\ UNCHANGED <<running, stops, peerIdentities, eventId, others>>
      /\ bridge' = Tail(bridge) /\ bridge # <<>>
  BY DEF HandleEvent, nodeVars, stampVars
<1>2. Head(bridge) \in BridgeEvent /\ bridge' \in Seq(BridgeEvent)
  BY <1>1 DEF JsTypes
<1>3. Head(bridge).answerTo \in Call
  BY <1>2 DEF BridgeEvent
<1>4. promise' \in [Call -> PromiseState]
  BY DEF HandleEvent, JsTypes, PromiseState
<1>5. outcome' \in [Call -> Call \cup {NoCall}]
  BY <1>3 DEF HandleEvent, JsTypes
<1>6. ASSUME NEW c \in Call
      PROVE  (IF promise[c] = "calling" THEN Append(buffered[c], Head(bridge)) ELSE buffered[c])
               \in Seq(BridgeEvent)
  <2>1. buffered[c] \in Seq(BridgeEvent)
    BY DEF JsTypes
  <2>2. QED
    BY <1>2, <2>1
<1>7. buffered' \in [Call -> Seq(BridgeEvent)]
  BY <1>6 DEF HandleEvent
<1>8. QED
  BY <1>1, <1>2, <1>4, <1>5, <1>7 DEF JsTypes

\* The poll stamps what it drains, and hands it to the bridge.
LEMMA PollTypes ==
  ASSUME NodeTypes, JsTypes, Poll
  PROVE  JsTypes'
<1> DEFINE stamped == [i \in 1 .. Len(events) |->
                         [id |-> eventId + i - 1, answerTo |-> events[i].answerTo]]
<1>1. /\ UNCHANGED <<running, stops, peerIdentities, others, promise, buffered, outcome>>
      /\ bridge' = bridge \o stamped /\ eventId' = eventId + Len(events)
  BY DEF Poll, nodeVars, jsVars
<1>2. events \in Seq(RpcEvent) /\ Len(events) \in Nat
  BY DEF NodeTypes
<1>3. \A e \in RpcEvent : e.answerTo \in Call
  BY DEF RpcEvent
<1>4. ASSUME NEW i \in 1 .. Len(events)
      PROVE  [id |-> eventId + i - 1, answerTo |-> events[i].answerTo] \in BridgeEvent
  <2>1. events[i].answerTo \in Call
    BY <1>2, <1>3
  <2>2. eventId + i - 1 \in Nat
    BY <1>2 DEF JsTypes
  <2>3. QED
    BY <2>1, <2>2 DEF BridgeEvent
<1>5. stamped \in [1 .. Len(events) -> BridgeEvent]
  BY <1>4
<1>6. stamped \in Seq(BridgeEvent)
  <2> HIDE DEF stamped
  <2>1. QED
    BY <1>2, <1>5
<1> HIDE DEF stamped
<1>7. bridge' \in Seq(BridgeEvent) /\ eventId' \in Nat
  BY <1>1, <1>2, <1>6 DEF JsTypes
<1>8. QED
  BY <1>1, <1>7 DEF JsTypes

\* Every step keeps the types of JavaScript.
LEMMA StepJsTypes == NodeTypes /\ JsTypes /\ [Next]_vars => JsTypes'
<1> SUFFICES ASSUME NodeTypes, JsTypes, [Next]_vars PROVE JsTypes'
  OBVIOUS
<1> USE DEF nodeVars, stampVars, jsVars
<1>1. CASE \E c \in Call : BeaconRpcWait(c) \/ LearnId(c) \/ Timeout(c)
  BY <1>1, CallerTypes
<1>2. CASE HandleEvent
  BY <1>2, EventTypes
<1>3. CASE Poll
  BY <1>3, PollTypes
<1>4. CASE PollOther
  BY <1>4, RpcBoundsAssumption DEF PollOther, JsTypes
<1>5. CASE Start \/ \E b \in Beacon : ReceiveAnnounce(b)
  BY <1>5 DEF Start, ReceiveAnnounce, JsTypes
<1>6. CASE Stop
  <2>1. stops' \in 0 .. MaxStops
    BY <1>6, RpcBoundsAssumption DEF Stop, JsTypes
  <2>2. running' \in BOOLEAN
    BY <1>6 DEF Stop
  <2>3. UNCHANGED <<peerIdentities, eventId, others, bridge, promise, buffered, outcome>>
    BY <1>6 DEF Stop
  <2>4. QED
    BY <2>1, <2>2, <2>3 DEF JsTypes
<1>7. CASE DrainRpcs \/ DispatchRpc \/ UNCHANGED vars
           \/ \E c \in Call : QueueRpc(c) \/ ReceiveAnswer(c)
  BY <1>7 DEF DrainRpcs, DispatchRpc, QueueRpc, ReceiveAnswer, vars, JsTypes
<1>8. QED
  BY <1>1, <1>2, <1>3, <1>4, <1>5, <1>6, <1>7 DEF Next, Caller

\* Every variable keeps its type: the ids stay within their width, and whatever
\* settles a promise is the answer to some call.
THEOREM TypeCorrect == Spec => []TypeOK
<1>1. Init => JsTypes
  <2> SUFFICES ASSUME Init PROVE JsTypes
    OBVIOUS
  <2>1. stops \in 0 .. MaxStops /\ eventId \in Nat /\ others \in 0 .. MaxOther
    BY RpcBoundsAssumption DEF Init
  <2>2. running \in BOOLEAN /\ peerIdentities \subseteq Beacon
    BY DEF Init
  <2>3. bridge \in Seq(BridgeEvent) /\ buffered \in [Call -> Seq(BridgeEvent)]
    BY DEF Init
  <2>4. promise \in [Call -> PromiseState] /\ outcome \in [Call -> Call \cup {NoCall}]
    BY DEF Init, PromiseState
  <2>5. QED
    BY <2>1, <2>2, <2>3, <2>4 DEF JsTypes
<1>2. IInv => NodeTypes
  BY DEF IInv
<1>3. NodeTypes /\ JsTypes => TypeOK
  BY DEF NodeTypes, JsTypes, TypeOK
<1>4. QED
  BY <1>1, <1>2, <1>3, AlwaysIInv, StepJsTypes, PTL DEF Spec
=============================================================================
