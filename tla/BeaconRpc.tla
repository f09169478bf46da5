----------------------------- MODULE BeaconRpc -----------------------------
(***************************************************************************)
(* A JSON-RPC call to a beacon, from the promise of beaconRpcWait          *)
(* (expo-module/src/useLxmf.ts) through BeaconManager (beacon.rs), the RPC *)
(* dispatch task and the data receiver (node.rs), the event queue and its  *)
(* serialisation (ffi.rs), back to the JavaScript listener.                *)
(*                                                                         *)
(* A call stands for one beaconRpcWait and for its request.  The beacon and*)
(* the links are external: a request that got out may be answered at any   *)
(* later time, never, or more than once.                                   *)
(***************************************************************************)
EXTENDS Naturals, Sequences, FiniteSets, SequencesExt

CONSTANTS
  Call,         \* beaconRpcWait calls
  NoCall,       \* not a call
  Beacon,       \* destination hashes of beacons
  BeaconOf,     \* the beacon each call goes to
  MaxId,        \* largest correlation id (u32::MAX)
  EventCap,     \* queue length at which an RpcResponse is dropped (1024)
  MaxStops,     \* bound of the model: calls of stop
  MaxOther      \* bound of the model: other events that take an event id

ASSUME NoCallAssumption == NoCall \notin Call
ASSUME BeaconAssumption == BeaconOf \in [Call -> Beacon]
ASSUME RpcBoundsAssumption ==
  /\ MaxId \in Nat \ {0}
  /\ EventCap \in Nat
  /\ MaxStops \in Nat
  /\ MaxOther \in Nat

VARIABLES
  running,         \* node.running
  stops,           \* calls of stop so far
  peerIdentities,  \* beacons whose announce was seen
  nextRpcId,       \* mgr.next_rpc_id
  rpcId,           \* the id each call got; 0 before queue_rpc
  inFlight,        \* mgr.in_flight: the call each id stands for
  pendingRpcs,     \* mgr.pending_rpcs
  batch,           \* calls the dispatch task drained and has not settled
  reached,         \* requests the current transport may see answered
  events,          \* node.events, restricted to RpcResponse
  eventId,         \* EVENT_ID, the next id events_to_json stamps
  others,          \* other events that took an event id so far
  bridge,          \* onRpcResponse events on their way to JavaScript
  promise,         \* the promise of each call
  buffered,        \* events its listener saw before the id was known
  outcome,         \* the call whose answer resolved the promise
  issued,          \* history: calls in the order queue_rpc saw them
  tried,           \* history: calls the dispatch task settled
  aborted,         \* history: calls a stop took from the dispatch task
  answersReported, \* history: answers of the beacon reported, by call
  errorsReported   \* history: local errors reported, by call

nodeVars == <<running, stops, peerIdentities>>
managerVars == <<nextRpcId, rpcId, inFlight, pendingRpcs, issued>>
taskVars == <<batch, reached, tried, aborted>>
eventVars == <<events, answersReported, errorsReported>>
stampVars == <<eventId, others>>
jsVars == <<promise, buffered, outcome>>
vars == <<nodeVars, managerVars, taskVars, eventVars, stampVars, bridge, jsVars>>

Id == 1 .. MaxId
PromiseState == {"new", "calling", "waiting", "resolved", "rejected"}

\* An RpcResponse: the id it is about, the call whose request was answered, and
\* the call whose in_flight entry gave it its method.
RpcEvent == [id : Id, answerTo : Call, matched : Call, local : BOOLEAN]
BridgeEvent == [id : Nat, answerTo : Call]

TypeOK ==
  /\ running \in BOOLEAN
  /\ stops \in 0 .. MaxStops
  /\ peerIdentities \subseteq Beacon
  /\ nextRpcId \in Id
  /\ rpcId \in [Call -> Id \cup {0}]
  /\ inFlight \in [Id -> Call \cup {NoCall}]
  /\ pendingRpcs \in Seq(Call)
  /\ batch \in Seq(Call)
  /\ reached \subseteq Call
  /\ events \in Seq(RpcEvent)
  /\ eventId \in Nat
  /\ others \in 0 .. MaxOther
  /\ bridge \in Seq(BridgeEvent)
  /\ promise \in [Call -> PromiseState]
  /\ buffered \in [Call -> Seq(BridgeEvent)]
  /\ outcome \in [Call -> Call \cup {NoCall}]
  /\ issued \in Seq(Call)
  /\ tried \subseteq Call
  /\ aborted \subseteq Call
  /\ answersReported \in [Call -> Nat]
  /\ errorsReported \in [Call -> Nat]

\* The StatusChanged of the first start takes event id 1, before any response.
Init ==
  /\ running = FALSE
  /\ stops = 0
  /\ peerIdentities = {}
  /\ nextRpcId = 1
  /\ rpcId = [c \in Call |-> 0]
  /\ inFlight = [i \in Id |-> NoCall]
  /\ pendingRpcs = <<>>
  /\ batch = <<>>
  /\ reached = {}
  /\ events = <<>>
  /\ eventId = 2
  /\ others = 0
  /\ bridge = <<>>
  /\ promise = [c \in Call |-> "new"]
  /\ buffered = [c \in Call |-> <<>>]
  /\ outcome = [c \in Call |-> NoCall]
  /\ issued = <<>>
  /\ tried = {}
  /\ aborted = {}
  /\ answersReported = [c \in Call |-> 0]
  /\ errorsReported = [c \in Call |-> 0]

-----------------------------------------------------------------------------
(* The caller                                                              *)

\* beaconRpcWait: the listener and the timer are set, then the native call is
\* made.
BeaconRpcWait(c) ==
  /\ promise[c] = "new"
  /\ promise' = [promise EXCEPT ![c] = "calling"]
  /\ UNCHANGED <<nodeVars, managerVars, taskVars, eventVars, stampVars, bridge,
                 buffered, outcome>>

\* Mutant of the id counter: no .max(1).
NextIdFromZero == (nextRpcId + 1) % (MaxId + 1)

\* wrapping_add(1).max(1) on a u32 of the model's width
NextId == LET sum == (nextRpcId + 1) % (MaxId + 1) IN IF sum = 0 THEN 1 ELSE sum

\* lxmf_beacon_rpc and queue_rpc, on a native thread and under the node lock.
\* It asks neither that the node runs nor that the beacon is known.  The
\* wake-up of the dispatch task is not modelled: the task polls every 500 ms.
QueueRpc(c) ==
  /\ promise[c] # "new"
  /\ rpcId[c] = 0
  /\ rpcId' = [rpcId EXCEPT ![c] = nextRpcId]
  /\ nextRpcId' = NextId
  /\ inFlight' = [inFlight EXCEPT ![nextRpcId] = c]
  /\ pendingRpcs' = Append(pendingRpcs, c)
  /\ issued' = Append(issued, c)
  /\ UNCHANGED <<nodeVars, taskVars, eventVars, stampVars, bridge, jsVars>>

\* The native call's promise resolves with the id; buffered events are replayed,
\* and the first one that matches settles the promise.
LearnId(c) ==
  LET matching == {i \in DOMAIN buffered[c] : buffered[c][i].id = rpcId[c]} IN
  /\ promise[c] = "calling"
  /\ rpcId[c] # 0
  /\ \/ /\ matching = {}
        /\ promise' = [promise EXCEPT ![c] = "waiting"]
        /\ UNCHANGED outcome
     \/ \E i \in matching :
          /\ \A j \in matching : i <= j
          /\ promise' = [promise EXCEPT ![c] = "resolved"]
          /\ outcome' = [outcome EXCEPT ![c] = buffered[c][i].answerTo]
  /\ buffered' = [buffered EXCEPT ![c] = <<>>]
  /\ UNCHANGED <<nodeVars, managerVars, taskVars, eventVars, stampVars, bridge>>

\* The timer of the promise.  It may fire before the native call returned.
Timeout(c) ==
  /\ promise[c] \in {"calling", "waiting"}
  /\ promise' = [promise EXCEPT ![c] = "rejected"]
  /\ buffered' = [buffered EXCEPT ![c] = <<>>]
  /\ UNCHANGED <<nodeVars, managerVars, taskVars, eventVars, stampVars, bridge,
                 outcome>>

\* The listeners see one event: those that know their id compare it, the others
\* keep the event.
HandleEvent ==
  LET e == Head(bridge)
      settled == {c \in Call : promise[c] = "waiting" /\ e.id = rpcId[c]}
  IN
  /\ bridge # <<>>
  /\ bridge' = Tail(bridge)
  /\ promise' = [c \in Call |-> IF c \in settled THEN "resolved" ELSE promise[c]]
  /\ outcome' = [c \in Call |-> IF c \in settled THEN e.answerTo ELSE outcome[c]]
  /\ buffered' = [c \in Call |-> IF promise[c] = "calling"
                                   THEN Append(buffered[c], e) ELSE buffered[c]]
  /\ UNCHANGED <<nodeVars, managerVars, taskVars, eventVars, stampVars>>

-----------------------------------------------------------------------------
(* The event queue and its serialisation                                   *)

\* A full queue drops the response without a trace.
PushResponse(c, matched, local) ==
  events' = IF Len(events) < EventCap
              THEN Append(events, [id |-> rpcId[c], answerTo |-> c,
                                   matched |-> matched, local |-> local])
              ELSE events

\* The poll drains the queue.  events_to_json writes the event id over the
\* field "id" of every event, which for an RpcResponse held the correlation id.
Poll ==
  /\ events # <<>>
  /\ bridge' = bridge \o [i \in 1 .. Len(events) |->
                            [id |-> eventId + i - 1,
                             answerTo |-> events[i].answerTo]]
  /\ eventId' = eventId + Len(events)
  /\ events' = <<>>
  /\ UNCHANGED <<nodeVars, managerVars, taskVars, answersReported,
                 errorsReported, others, jsVars>>

\* Any other event of the node takes an event id too.
PollOther ==
  /\ others < MaxOther
  /\ others' = others + 1
  /\ eventId' = eventId + 1
  /\ UNCHANGED <<nodeVars, managerVars, taskVars, eventVars, bridge, jsVars>>

-----------------------------------------------------------------------------
(* The tasks of the node                                                   *)

ReceiveAnnounce(b) ==
  /\ running
  /\ b \notin peerIdentities
  /\ peerIdentities' = peerIdentities \cup {b}
  /\ UNCHANGED <<running, stops, managerVars, taskVars, eventVars, stampVars,
                 bridge, jsVars>>

\* Mutants: the staged calls are copied, not drained; one is taken and the rest
\* is cleared.
DrainCopy == batch' = pendingRpcs /\ pendingRpcs' = pendingRpcs
DrainHead == batch' = <<Head(pendingRpcs)>> /\ pendingRpcs' = <<>>

\* drain_pending_rpcs
DrainPending == batch' = pendingRpcs /\ pendingRpcs' = <<>>

\* The dispatch task wakes up on rpc_notify, at the latest after 500 ms.
DrainRpcs ==
  /\ running
  /\ batch = <<>>
  /\ pendingRpcs # <<>>
  /\ DrainPending
  /\ UNCHANGED <<nodeVars, nextRpcId, rpcId, inFlight, issued, reached, tried,
                 aborted, eventVars, stampVars, bridge, jsVars>>

\* One call of the batch: an error if the beacon's identity is unknown, else
\* send_via_link, whose failure is an error too; a request that failed by
\* timeout may still have got out.  in_flight keeps the id in every case.
DispatchRpc ==
  LET c == Head(batch)
      known == BeaconOf[c] \in peerIdentities
  IN
  /\ batch # <<>>
  /\ batch' = Tail(batch)
  /\ tried' = tried \cup {c}
  /\ \/ /\ known
        /\ reached' = reached \cup {c}
        /\ UNCHANGED <<events, errorsReported>>
     \/ /\ reached' \in {reached, IF known THEN reached \cup {c} ELSE reached}
        /\ PushResponse(c, c, TRUE)
        /\ errorsReported' = [errorsReported EXCEPT ![c] = @ + 1]
  /\ UNCHANGED <<nodeVars, managerVars, aborted, answersReported, stampVars,
                 bridge, jsVars>>

\* Mutant: the entry is looked up, not removed.
ForgetNothing(id) == inFlight' = inFlight

\* in_flight.remove(&id)
RemoveInFlight(id) == inFlight' = [inFlight EXCEPT ![id] = NoCall]

\* The data receiver: on_rpc_bytes correlates the answer by its id.  An answer
\* nobody waits for is dropped.
ReceiveAnswer(c) ==
  LET id == rpcId[c] IN
  /\ running
  /\ c \in reached
  /\ inFlight[id] # NoCall
  /\ RemoveInFlight(id)
  /\ PushResponse(c, inFlight[id], FALSE)
  /\ answersReported' = [answersReported EXCEPT ![c] = @ + 1]
  /\ UNCHANGED <<nodeVars, nextRpcId, rpcId, pendingRpcs, issued, taskVars,
                 errorsReported, stampVars, bridge, jsVars>>

\* A new transport has no link to any beacon.
Start ==
  /\ ~running
  /\ running' = TRUE
  /\ UNCHANGED <<stops, peerIdentities, managerVars, taskVars, eventVars,
                 stampVars, bridge, jsVars>>

\* The tasks are aborted: what the dispatch task drained is gone, and nobody
\* receives the answers of the old transport's links any more.
Stop ==
  /\ running
  /\ stops < MaxStops
  /\ running' = FALSE
  /\ stops' = stops + 1
  /\ batch' = <<>>
  /\ reached' = {}
  /\ aborted' = aborted \cup ToSet(batch)
  /\ UNCHANGED <<peerIdentities, managerVars, tried, eventVars, stampVars,
                 bridge, jsVars>>

-----------------------------------------------------------------------------
Caller(c) == BeaconRpcWait(c) \/ QueueRpc(c) \/ LearnId(c) \/ Timeout(c)

Next ==
  \/ \E c \in Call : Caller(c)
  \/ HandleEvent
  \/ Poll
  \/ PollOther
  \/ \E b \in Beacon : ReceiveAnnounce(b)
  \/ DrainRpcs
  \/ DispatchRpc
  \/ \E c \in Call : ReceiveAnswer(c)
  \/ Start
  \/ Stop

Spec == Init /\ [][Next]_vars

\* The dispatch task runs until it is aborted, and the application restarts
\* what it stops.  Beacons need not announce nor answer.
FairSpec == Spec /\ WF_vars(DrainRpcs) /\ WF_vars(DispatchRpc) /\ WF_vars(Start)

-----------------------------------------------------------------------------
(* Safety                                                                  *)

\* A call waits in exactly one place until the dispatch task settled it or a
\* stop aborted it, and in none afterwards: no call is forgotten, and none goes
\* out twice, whatever queue_rpc, dispatch, stop and start do in between.
EachCallIsDispatchedOnce ==
  LET waiting == pendingRpcs \o batch IN
  \A c \in ToSet(issued) :
    Cardinality({i \in DOMAIN waiting : waiting[i] = c})
      = IF c \in tried \cup aborted THEN 0 ELSE 1

\* Duplicated answers, late answers and local errors yield at most one answer
\* and one error per call, and every answer is reported under the method of its
\* own call, as long as the ids did not wrap.
AnswersAreReportedOnce ==
  Len(issued) <= MaxId =>
    /\ \A c \in Call : answersReported[c] <= 1 /\ errorsReported[c] <= 1
    /\ \A i \in DOMAIN events : events[i].matched = events[i].answerTo

-----------------------------------------------------------------------------
(* Liveness                                                                *)

\* Every call handed to queue_rpc is tried, or was aborted by a stop: the
\* dispatch task never sits on a call while it runs.
EveryCallIsTried ==
  \A c \in Call : rpcId[c] # 0 ~> c \in tried \cup aborted

-----------------------------------------------------------------------------
(* What the repository says and the code does not do                       *)

\* useLxmf.ts, beaconRpcWait: "Resolves when the matching `onRpcResponse` event
\* arrives".  A promise never resolves with the answer to another call.
ResolvesWithOwnAnswer ==
  \A c \in Call : promise[c] = "resolved" => outcome[c] = c
=============================================================================
