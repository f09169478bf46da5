--------------------------- MODULE EventPipeline ---------------------------
(***************************************************************************)
(* The way of an inbound message to the application: a receiver task of    *)
(* node.rs persists and queues it, a poll of the native module drains the  *)
(* queue and serialises it (ffi.rs, jni_bridge.rs), the hook of useLxmf.ts *)
(* buffers it, and the consumer reads the buffer behind its watermark.     *)
(*                                                                         *)
(* A message stands for one delivery by the transport.  The consumer is    *)
(* external: it reads as the comments of ffi.rs and useLxmf.ts tell it to. *)
(***************************************************************************)
EXTENDS Naturals, Sequences, FiniteSets, SequencesExt

CONSTANTS
  Msg,        \* inbound messages
  Log,        \* stands for every log line
  Kind,       \* the receiver of each message: "data", "resource" or "group"
  Size,       \* length of the JSON of each message, in log lines
  DataCap,    \* queue length at which the data receiver drops (4096)
  GroupCap,   \* queue length at which the group receiver drops (1024)
  LogCap,     \* LOG_BUFFER_CAPACITY
  Capacity,   \* size of the poll buffer of the native module; 0 if unbounded
  JsCap,      \* events the hook keeps (1000)
  HasStore,   \* init got a database path
  MaxLogs     \* bound of the model: log lines

ASSUME LogAssumption == Log \notin Msg
ASSUME KindAssumption == Kind \in [Msg -> {"data", "resource", "group"}]
ASSUME MsgSizeAssumption == Size \in [Msg -> Nat]
ASSUME CapsAssumption ==
  /\ DataCap \in Nat /\ GroupCap \in Nat /\ LogCap \in Nat \ {0}
  /\ Capacity \in Nat /\ JsCap \in Nat \ {0}
  /\ HasStore \in BOOLEAN /\ MaxLogs \in Nat

VARIABLES
  pc,        \* how far the receiver of each message is
  stored,    \* rows of table messages
  events,    \* node.events, restricted to MessageReceived
  logs,      \* lines in the log ring
  logged,    \* log lines written so far
  eventId,   \* EVENT_ID: the next id events_to_json stamps
  bridge,    \* events on their way to JavaScript
  jsEvents,  \* the buffer of the hook, newest first
  lastSeen,  \* watermark of the consumer
  seen,      \* messages the consumer read
  queued,    \* history: messages in the order they were queued
  evicted,   \* history: unread messages the buffer of the hook dropped
  overflown  \* history: messages in a poll that exceeded the poll buffer

nodeVars == <<pc, stored, queued>>
logVars == <<logs, logged>>
jsVars == <<jsEvents, lastSeen, seen, evicted>>
vars == <<nodeVars, events, logVars, eventId, bridge, jsVars, overflown>>

Stamped == [id : Nat \ {0}, what : Msg \cup {Log}]

TypeOK ==
  /\ pc \in [Msg -> {"new", "persisted", "queued", "dropped"}]
  /\ stored \subseteq Msg
  /\ events \in Seq(Msg)
  /\ logs \in 0 .. LogCap
  /\ logged \in 0 .. MaxLogs
  /\ eventId \in Nat \ {0}
  /\ bridge \in Seq(Stamped)
  /\ jsEvents \in Seq(Stamped) /\ Len(jsEvents) <= JsCap
  /\ lastSeen \in Nat
  /\ seen \in Seq(Msg)
  /\ queued \in Seq(Msg)
  /\ evicted \subseteq Msg
  /\ overflown \subseteq Msg

Init ==
  /\ pc = [m \in Msg |-> "new"]
  /\ stored = {}
  /\ events = <<>>
  /\ logs = 0
  /\ logged = 0
  /\ eventId = 1
  /\ bridge = <<>>
  /\ jsEvents = <<>>
  /\ lastSeen = 0
  /\ seen = <<>>
  /\ queued = <<>>
  /\ evicted = {}
  /\ overflown = {}

-----------------------------------------------------------------------------
(* The receivers                                                           *)

\* persist_inbound_message.  One receiver of each kind takes one message at a
\* time.  An error of SQLite is only logged.
Persist(m) ==
  /\ pc[m] = "new"
  /\ \A n \in Msg : Kind[n] = Kind[m] => pc[n] # "persisted"
  /\ pc' = [pc EXCEPT ![m] = "persisted"]
  /\ stored' = IF HasStore THEN stored \cup {m} ELSE stored
  /\ UNCHANGED <<events, queued, logVars, eventId, bridge, jsVars, overflown>>

\* Mutant: a message may be queued before it is persisted.
ReadyEarly(m) == pc[m] \in {"new", "persisted"}

Ready(m) == pc[m] = "persisted"

\* The resource receiver has no cap.
HasRoom(m) ==
  CASE Kind[m] = "data" -> Len(events) < DataCap
    [] Kind[m] = "group" -> Len(events) < GroupCap
    [] OTHER -> TRUE

QueueEvent(m) ==
  /\ Ready(m)
  /\ IF HasRoom(m)
       THEN /\ events' = Append(events, m)
            /\ queued' = Append(queued, m)
            /\ pc' = [pc EXCEPT ![m] = "queued"]
       ELSE /\ pc' = [pc EXCEPT ![m] = "dropped"]
            /\ UNCHANGED <<events, queued>>
  /\ UNCHANGED <<stored, logVars, eventId, bridge, jsVars, overflown>>

\* The log ring drops its oldest line.
WriteLog ==
  /\ logged < MaxLogs
  /\ logged' = logged + 1
  /\ logs' = IF logs = LogCap THEN LogCap ELSE logs + 1
  /\ UNCHANGED <<nodeVars, events, eventId, bridge, jsVars, overflown>>

-----------------------------------------------------------------------------
(* The poll                                                                *)

SizeOf(batch) ==
  FoldLeft(LAMBDA sum, e : sum + (IF e = Log THEN 1 ELSE Size[e]), 0, batch)

\* Mutants: only the head of the queue is serialised; the newest comes first.
DrainHead == SubSeq(events \o <<Log>>, 1, 1) \o [i \in 1 .. logs |-> Log]
DrainLifo == Reverse(events) \o [i \in 1 .. logs |-> Log]

\* drain_events: the queue, then the log lines
DrainEvents == events \o [i \in 1 .. logs |-> Log]

\* Mutant of the stamp: the ids start anew in every batch.
StampFromOne(batch) ==
  [i \in 1 .. Len(batch) |-> [id |-> i, what |-> batch[i]]]

\* events_to_json: every event gets the next id
Stamp(batch) ==
  [i \in 1 .. Len(batch) |-> [id |-> eventId + i - 1, what |-> batch[i]]]

\* The queue is drained and stamped before the size of the result is known: a
\* result that exceeds the buffer of the iOS module is an error and is gone.
Poll ==
  LET batch == DrainEvents
      fits == Capacity = 0 \/ SizeOf(batch) <= Capacity
  IN
  /\ events # <<>> \/ logs > 0
  /\ events' = <<>>
  /\ logs' = 0
  /\ eventId' = eventId + Len(batch)
  /\ bridge' = IF fits THEN bridge \o Stamp(batch) ELSE bridge
  /\ overflown' = IF fits THEN overflown ELSE overflown \cup ToSet(events)
  /\ UNCHANGED <<nodeVars, logged, jsVars>>

-----------------------------------------------------------------------------
(* JavaScript                                                              *)

\* Mutant: the cut is off by one.
KeepOneMore(all) == SubSeq(all, 1, IF Len(all) > JsCap THEN JsCap + 1 ELSE Len(all))

KeepNewest(all) == SubSeq(all, 1, IF Len(all) > JsCap THEN JsCap ELSE Len(all))

\* pushEvent: newest first, cut at the cap.
PushEvent ==
  LET all == <<Head(bridge)>> \o jsEvents
      cut == IF Len(all) > JsCap THEN SubSeq(all, JsCap + 1, Len(all)) ELSE <<>>
      unread == {e \in ToSet(cut) : e.id > lastSeen /\ e.what \in Msg}
  IN
  /\ bridge # <<>>
  /\ bridge' = Tail(bridge)
  /\ jsEvents' = KeepNewest(all)
  /\ evicted' = evicted \cup {e.what : e \in unread}
  /\ UNCHANGED <<nodeVars, events, logVars, eventId, lastSeen, seen, overflown>>

\* The consumer reads what is above its watermark, oldest first: order lists
\* the places of the unread messages in the buffer, the oldest (last) first.
ReadEvents ==
  LET unread == {i \in DOMAIN jsEvents : jsEvents[i].id > lastSeen}
      messages == {i \in unread : jsEvents[i].what \in Msg}
  IN
  /\ \E newest \in unread :
       /\ \A i \in unread : newest <= i
       /\ lastSeen' = jsEvents[newest].id
  /\ \E order \in [1 .. Cardinality(messages) -> messages] :
       /\ messages \subseteq ToSet(order)
       /\ \A i, j \in DOMAIN order : i < j => order[i] > order[j]
       /\ seen' = seen \o [i \in DOMAIN order |-> jsEvents[order[i]].what]
  /\ UNCHANGED <<nodeVars, events, logVars, eventId, bridge, jsEvents, evicted,
                 overflown>>

-----------------------------------------------------------------------------
Next ==
  \/ \E m \in Msg : Persist(m) \/ QueueEvent(m)
  \/ WriteLog
  \/ Poll
  \/ PushEvent
  \/ ReadEvents

Spec == Init /\ [][Next]_vars

\* The receivers run until they are aborted, the poll timer of the native
\* module and the JavaScript thread go on for ever.
FairSpec ==
  /\ Spec
  /\ \A m \in Msg : WF_vars(QueueEvent(m))
  /\ WF_vars(Poll) /\ WF_vars(PushEvent) /\ WF_vars(ReadEvents)

-----------------------------------------------------------------------------
(* Safety                                                                  *)

InFlight == {e.what : e \in ToSet(bridge \o jsEvents)} \cap Msg

\* A message JavaScript can know of is in the history it may fetch at that
\* moment (persist before emit, in every receiver).
KnownMessagesAreStored ==
  HasStore => ToSet(events) \cup InFlight \cup ToSet(seen) \subseteq stored

\* Message m was queued before message n.
Before(m, n) ==
  \E p, q \in DOMAIN queued : p < q /\ queued[p] = m /\ queued[q] = n

\* The consumer reads every message at most once and in the order the receivers
\* queued them, over any number of polls, evictions and log lines in between.
ReadOnceInOrder ==
  /\ IsInjective(seen)
  /\ ToSet(seen) \subseteq ToSet(queued)
  /\ \A i, j \in DOMAIN seen : i < j => Before(seen[i], seen[j])

\* The queue, the poll and the hook lose no message between them but those that
\* a poll too large for its buffer or the cap of the hook dropped.
QueuedIsAccountedFor ==
  \A m \in ToSet(queued) :
    \/ m \in ToSet(events) \cup ToSet(seen) \cup evicted \cup overflown
    \/ m \in {e.what : e \in ToSet(bridge)}
    \/ \E i \in DOMAIN jsEvents : jsEvents[i].what = m /\ jsEvents[i].id > lastSeen

-----------------------------------------------------------------------------
(* Liveness                                                                *)

\* Every message a receiver persisted is read in the end, unless a cap drops it.
PersistedIsRead ==
  \A m \in Msg :
    pc[m] = "persisted" ~>
      pc[m] = "dropped" \/ m \in ToSet(seen) \cup evicted \cup overflown

-----------------------------------------------------------------------------
(* What the repository says and the code does not do                       *)

\* useLxmf.ts, LxmfEvent.id: "a burst that overflows the event buffer can never
\* silently drop or duplicate an unread message".  The first buffer on the way
\* is the one the native module polls into.
BurstIsPolled == overflown = {}
=============================================================================
