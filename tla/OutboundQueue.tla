--------------------------- MODULE OutboundQueue ---------------------------
(***************************************************************************)
(* The opportunistic delivery queue of rust-core/src/node.rs over the      *)
(* SQLite table of rust-core/src/store.rs.                                 *)
(*                                                                         *)
(* Actors that interleave: one thread per send_to call, the announce       *)
(* receiver task (which flushes the queue of the announcing peer), the     *)
(* periodic retry task of the TCP modes, the application's start and stop, *)
(* and the death of the process.  A step ends where the code awaits, or    *)
(* releases a lock another actor takes.                                    *)
(*                                                                         *)
(* A message stands for one send_to call, hence for its payload, for its   *)
(* PendingSend entries and for its AUTOINCREMENT row: send_to inserts at   *)
(* most one row and nothing else inserts any.  pending_sends is a Vec whose*)
(* order no decision depends on, so it is a bag: the number of entries of  *)
(* each message.                                                           *)
(***************************************************************************)
EXTENDS Naturals, FiniteSets, Functions

CONSTANTS
  Msg,            \* send_to calls
  NoMsg,          \* not a message
  Peer,           \* destination hashes
  DestOf,         \* the destination of each message
  Large,          \* messages whose ciphertext exceeds a packet
  MaxAttempts,    \* attempts before a row expires (50)
  PendingCap,     \* bound on pending_sends that send_to applies (1000)
  HasStore,       \* init got a database path
  MaxStoreErrors, \* bound of the model: SQLite writes that return Err
  HasRetryTask,   \* modes 3 and 4 run the periodic retry, mode 0 does not
  MaxStops,       \* bound of the model: calls of stop
  MaxSessions     \* bound of the model: lives of the process

ASSUME NoMsgAssumption == NoMsg \notin Msg
ASSUME DestAssumption == DestOf \in [Msg -> Peer]
ASSUME LargeAssumption == Large \subseteq Msg
ASSUME BoundsAssumption ==
  /\ MaxAttempts \in Nat \ {0}
  /\ PendingCap \in Nat
  /\ MaxStops \in Nat
  /\ MaxStoreErrors \in Nat
  /\ MaxSessions \in Nat \ {0}
ASSUME FlagsAssumption ==
  /\ HasStore \in BOOLEAN
  /\ HasRetryTask \in BOOLEAN

VARIABLES
  running,         \* node.running
  transport,       \* node.transport is Some: start completed in this process
  outboundSent,    \* node.outbound_sent: the next seq
  peerIdentities,  \* node.peer_identities: peers whose announce was seen
  pendingSends,    \* node.pending_sends: entries of each message
  pc,              \* where the send_to call of each message is
  seq,             \* the seq its send_to took
  outboundQueue,   \* rows of table outbound_queue
  attempts,        \* column attempts
  storeId,         \* enqueue_outbound returned Ok: its entries have a store_id
  taskPc,          \* where the announce task and the retry task are
  batch,           \* to_retry / snapshot: entries still to be sent
  cur,             \* the entry whose transmission is settled next
  storeErrors,     \* SQLite writes that failed so far
  stops,           \* calls of stop so far
  session,         \* lives of the process so far
  handed,          \* history: messages the transport ever took
  events,          \* history: events pushed about each message
  overflowed       \* history: entries dropped by PendingCap, not reloaded yet

sendVars == <<pc, seq, outboundSent>>
storeVars == <<outboundQueue, attempts, storeId, storeErrors>>
taskVars == <<taskPc, batch, cur>>
lifeVars == <<running, transport, stops, session>>
vars == <<sendVars, storeVars, taskVars, lifeVars, peerIdentities,
          pendingSends, handed, events, overflowed>>

Task == {"announce", "retry"}

\* Two branches of send_to check the cap of the queue, the two for large
\* payloads do not.  A call that is "done" returned, or died with its process.
SendPc == {"new", "send", "link", "enqueue", "enqueueLarge", "push",
           "pushLarge", "notify", "done"}
TaskPc == {"idle", "lock", "send", "sent", "unsent"}
Event == {"MessageQueued", "MessageDelivered", "MessageFailed"}

NoEntries == [m \in Msg |-> 0]
PendingLen == FoldFunction(LAMBDA n, sum : n + sum, 0, pendingSends)

\* A write to SQLite; the callers turn an Err into "no row" or ignore it.
StoreWrite(ok) ==
  /\ ok \/ (HasStore /\ storeErrors < MaxStoreErrors)
  /\ storeErrors' = IF ok THEN storeErrors ELSE storeErrors + 1

TypeOK ==
  /\ running \in BOOLEAN
  /\ transport \in BOOLEAN
  /\ outboundSent \in Nat
  /\ peerIdentities \subseteq Peer
  /\ pendingSends \in [Msg -> Nat]
  /\ pc \in [Msg -> SendPc]
  /\ seq \in [Msg -> Nat]
  /\ outboundQueue \subseteq Msg
  /\ attempts \in [Msg -> Nat]
  /\ storeId \in [Msg -> BOOLEAN]
  /\ taskPc \in [Task -> TaskPc]
  /\ batch \in [Task -> [Msg -> Nat]]
  /\ cur \in [Task -> Msg \cup {NoMsg}]
  /\ storeErrors \in 0 .. MaxStoreErrors
  /\ stops \in 0 .. MaxStops
  /\ session \in 1 .. MaxSessions
  /\ handed \subseteq Msg
  /\ events \in [Msg -> SUBSET Event]
  /\ overflowed \subseteq Msg

Init ==
  /\ running = FALSE
  /\ transport = FALSE
  /\ outboundSent = 0
  /\ peerIdentities = {}
  /\ pendingSends = NoEntries
  /\ pc = [m \in Msg |-> "new"]
  /\ seq = [m \in Msg |-> 0]
  /\ outboundQueue = {}
  /\ attempts = [m \in Msg |-> 0]
  /\ storeId = [m \in Msg |-> FALSE]
  /\ taskPc = [t \in Task |-> "idle"]
  /\ batch = [t \in Task |-> NoEntries]
  /\ cur = [t \in Task |-> NoMsg]
  /\ storeErrors = 0
  /\ stops = 0
  /\ session = 1
  /\ handed = {}
  /\ events = [m \in Msg |-> {}]
  /\ overflowed = {}

Push(m, event) == events' = [events EXCEPT ![m] = @ \cup {event}]

-----------------------------------------------------------------------------
(* send_to                                                                 *)

Goto(m, label) == pc' = [pc EXCEPT ![m] = label]

\* Takes the next seq under the node lock; works after stop too, since stop
\* keeps node.transport.
BeginSend(m) ==
  /\ pc[m] = "new"
  /\ transport
  /\ Goto(m, "send")
  /\ seq' = [seq EXCEPT ![m] = outboundSent]
  /\ outboundSent' = outboundSent + 1
  /\ UNCHANGED <<storeVars, taskVars, lifeVars, peerIdentities, pendingSends,
                 handed, events, overflowed>>

\* send_packet_with_outcome under the transport lock.  The outcome is the
\* transport's choice, except that only a small payload fits a packet.
\* A send_to that began before a restart uses the replaced transport, so the
\* locks the tasks hold do not delay it.
SendPacket(m) ==
  /\ pc[m] = "send"
  /\ \/ /\ m \notin Large              \* SentDirect, SentBroadcast
        /\ handed' = handed \cup {m}
        /\ Goto(m, "done")
     \/ /\ Goto(m, "enqueue")          \* DroppedMissingDestinationIdentity,
        /\ UNCHANGED handed                                 \* DroppedNoRoute
     \/ /\ m \in Large                 \* DroppedCiphertextTooLarge
        /\ Goto(m, IF DestOf[m] \in peerIdentities THEN "link"
                                                   ELSE "enqueueLarge")
        /\ UNCHANGED handed
     \/ /\ Goto(m, "done")             \* DroppedEncryptFailed
        /\ UNCHANGED handed
  /\ UNCHANGED <<seq, outboundSent, storeVars, taskVars, lifeVars,
                 peerIdentities, pendingSends, events, overflowed>>

\* send_via_link of a large payload.
SendLink(m) ==
  /\ pc[m] = "link"
  /\ \/ handed' = handed \cup {m} /\ Goto(m, "done")
     \/ handed' = handed /\ Goto(m, "enqueueLarge")
  /\ UNCHANGED <<seq, outboundSent, storeVars, taskVars, lifeVars,
                 peerIdentities, pendingSends, events, overflowed>>

\* store.enqueue_outbound(..).ok()
EnqueueOutbound(m) ==
  /\ \/ pc[m] = "enqueue" /\ Goto(m, "push")
     \/ pc[m] = "enqueueLarge" /\ Goto(m, "pushLarge")
  /\ \/ /\ HasStore
        /\ StoreWrite(TRUE)
        /\ outboundQueue' = outboundQueue \cup {m}
        /\ storeId' = [storeId EXCEPT ![m] = TRUE]
     \/ /\ HasStore => StoreWrite(FALSE)
        /\ ~HasStore => UNCHANGED storeErrors
        /\ UNCHANGED <<outboundQueue, storeId>>
  /\ UNCHANGED <<seq, outboundSent, attempts, taskVars, lifeVars,
                 peerIdentities, pendingSends, handed, events, overflowed>>

\* pending_sends.push
PushPending(m) ==
  /\ pc[m] \in {"push", "pushLarge"}
  /\ Goto(m, "notify")
  /\ IF pc[m] = "push" => PendingLen < PendingCap
       THEN /\ pendingSends' = [pendingSends EXCEPT ![m] = @ + 1]
            /\ UNCHANGED overflowed
       ELSE /\ overflowed' = overflowed \cup {m}
            /\ UNCHANGED pendingSends
  /\ UNCHANGED <<seq, outboundSent, storeVars, taskVars, lifeVars,
                 peerIdentities, handed, events>>

\* The MessageQueued event comes after the entry is visible to the tasks.
NotifyQueued(m) ==
  /\ pc[m] = "notify"
  /\ Goto(m, "done")
  /\ Push(m, "MessageQueued")
  /\ UNCHANGED <<seq, outboundSent, storeVars, taskVars, lifeVars,
                 peerIdentities, pendingSends, handed, overflowed>>

-----------------------------------------------------------------------------
(* The background tasks                                                    *)

\* The announce receiver handles one announce at a time.  It caches the
\* peer's identity and drains that peer's entries before it awaits the
\* transport lock.
ReceiveAnnounce(p) ==
  LET matched == [m \in Msg |-> IF DestOf[m] = p THEN pendingSends[m] ELSE 0]
  IN
  /\ running
  /\ taskPc["announce"] = "idle"
  /\ peerIdentities' = peerIdentities \cup {p}
  /\ pendingSends' =
       [m \in Msg |-> IF DestOf[m] = p THEN 0 ELSE pendingSends[m]]
  /\ batch' = [batch EXCEPT !["announce"] = matched]
  /\ taskPc' = [taskPc EXCEPT !["announce"] =
                  IF matched = NoEntries THEN "idle" ELSE "lock"]
  /\ UNCHANGED <<sendVars, storeVars, cur, lifeVars, handed, events,
                 overflowed>>

\* Mutant: an off-by-one gives up one attempt early.
ExpiredEarly == {m \in outboundQueue : attempts[m] + 1 >= MaxAttempts}

\* drain_expired_outbound
Expired == {m \in outboundQueue : attempts[m] >= MaxAttempts}

\* The 60 s timer: expired rows leave the store with a MessageFailed event
\* (their entries stay in memory), then the whole queue is copied.
RetryTick ==
  /\ running
  /\ HasRetryTask
  /\ taskPc["retry"] = "idle"
  /\ \E ok \in BOOLEAN :
       LET expired == IF ok THEN Expired ELSE {} IN
       /\ StoreWrite(ok)
       /\ outboundQueue' = outboundQueue \ expired
       /\ events' = [m \in Msg |-> IF m \in expired
                                     THEN events[m] \cup {"MessageFailed"}
                                     ELSE events[m]]
  /\ batch' = [batch EXCEPT !["retry"] = pendingSends]
  /\ taskPc' = [taskPc EXCEPT !["retry"] =
                  IF pendingSends = NoEntries THEN "idle" ELSE "lock"]
  /\ UNCHANGED <<sendVars, attempts, storeId, cur, lifeVars, peerIdentities,
                 pendingSends, handed, overflowed>>

HoldsTransport(t) == taskPc[t] \in {"send", "sent", "unsent"}

\* transport.lock().await: held until the whole batch is settled.
LockTransport(t) ==
  /\ taskPc[t] = "lock"
  /\ \A u \in Task : ~HoldsTransport(u)
  /\ taskPc' = [taskPc EXCEPT ![t] = "send"]
  /\ UNCHANGED <<sendVars, storeVars, batch, cur, lifeVars, peerIdentities,
                 pendingSends, handed, events, overflowed>>

\* A large payload goes over a link to the announced identity: the announce
\* task has it in hand, the retry task looks it up in the cache.
CanReach(t, m) ==
  m \in Large => t = "announce" \/ DestOf[m] \in peerIdentities

\* send_packet_with_outcome, then send_via_link if the payload is too large.
Transmit(t, m) ==
  /\ taskPc[t] = "send"
  /\ batch[t][m] > 0
  /\ cur' = [cur EXCEPT ![t] = m]
  /\ \/ /\ CanReach(t, m)
        /\ handed' = handed \cup {m}
        /\ taskPc' = [taskPc EXCEPT ![t] = "sent"]
     \/ /\ taskPc' = [taskPc EXCEPT ![t] = "unsent"]
        /\ UNCHANGED handed
  /\ UNCHANGED <<sendVars, storeVars, batch, lifeVars, peerIdentities,
                 pendingSends, events, overflowed>>

\* The for loop goes on to the next entry, or releases the transport.
NextEntry(t) ==
  LET rest == [batch[t] EXCEPT ![cur[t]] = @ - 1] IN
  /\ batch' = [batch EXCEPT ![t] = rest]
  /\ cur' = [cur EXCEPT ![t] = NoMsg]
  /\ taskPc' = [taskPc EXCEPT ![t] =
                  IF rest = NoEntries THEN "idle" ELSE "send"]

\* Mutant: the row is found by its seq.
RemoveBySeq(m) ==
  /\ StoreWrite(TRUE)
  /\ outboundQueue' = {n \in outboundQueue : seq[n] # seq[m]}

\* remove_outbound(store_id), whose result is ignored.
RemoveOutbound(m) ==
  \E ok \in BOOLEAN :
    /\ StoreWrite(ok)
    /\ outboundQueue' = IF ok /\ storeId[m] THEN outboundQueue \ {m}
                                            ELSE outboundQueue

\* The announce task removes the row of a delivered entry; it puts an
\* undelivered one back, whatever the length of the queue.
SettleFlush ==
  LET m == cur["announce"] IN
  /\ \/ /\ taskPc["announce"] = "sent"
        /\ RemoveOutbound(m)
        /\ Push(m, "MessageDelivered")
        /\ UNCHANGED pendingSends
     \/ /\ taskPc["announce"] = "unsent"
        /\ pendingSends' = [pendingSends EXCEPT ![m] = @ + 1]
        /\ UNCHANGED <<outboundQueue, storeErrors, events>>
  /\ NextEntry("announce")
  /\ UNCHANGED <<sendVars, attempts, storeId, lifeVars, peerIdentities,
                 handed, overflowed>>

\* Mutant: attempts is set instead of incremented.
BumpToOne(m) ==
  /\ StoreWrite(TRUE)
  /\ attempts' = IF m \in outboundQueue
                   THEN [attempts EXCEPT ![m] = 1] ELSE attempts

\* bump_outbound_attempts(store_id), whose result is ignored.
BumpAttempts(m) ==
  \E ok \in BOOLEAN :
    /\ StoreWrite(ok)
    /\ attempts' = IF ok /\ m \in outboundQueue
                     THEN [attempts EXCEPT ![m] = @ + 1] ELSE attempts

\* Mutant: the whole queue is cleared once its snapshot got through.
RetainNone(m) == pendingSends' = NoEntries

\* q.retain(|s| s.seq != seq)
RetainOthers(m) ==
  pendingSends' =
    [n \in Msg |-> IF seq[n] = seq[m] THEN 0 ELSE pendingSends[n]]

\* The retry task removes a delivered entry by its seq, from memory and from
\* the store; it counts an attempt of an undelivered one.
SettleRetry ==
  LET m == cur["retry"] IN
  /\ \/ /\ taskPc["retry"] = "sent"
        /\ RetainOthers(m)
        /\ RemoveOutbound(m)
        /\ Push(m, "MessageDelivered")
        /\ UNCHANGED attempts
     \/ /\ taskPc["retry"] = "unsent"
        /\ BumpAttempts(m)
        /\ UNCHANGED <<pendingSends, outboundQueue, events>>
  /\ NextEntry("retry")
  /\ UNCHANGED <<sendVars, storeId, lifeVars, peerIdentities, handed,
                 overflowed>>

-----------------------------------------------------------------------------
(* start, stop, and the death of the process                               *)

\* Mutants of the reload: it loads only rows never tried, or compares attempts
\* the wrong way.
ReloadableUntried ==
  {m \in outboundQueue : attempts[m] = 0 /\ pendingSends[m] = 0}

ReloadableExpired ==
  {m \in outboundQueue : attempts[m] >= MaxAttempts /\ pendingSends[m] = 0}

\* all_outbound_queue, minus the rows whose seq is already in memory.
Reloadable ==
  LET existingSeqs == {seq[n] : n \in {k \in Msg : pendingSends[k] > 0}} IN
  {m \in outboundQueue : attempts[m] < MaxAttempts /\ seq[m] \notin existingSeqs}

Start ==
  /\ ~running
  /\ running' = TRUE
  /\ transport' = TRUE
  /\ pendingSends' = [m \in Msg |-> IF m \in Reloadable
                                      THEN pendingSends[m] + 1
                                      ELSE pendingSends[m]]
  /\ overflowed' = overflowed \ Reloadable
  /\ UNCHANGED <<sendVars, storeVars, taskVars, stops, session,
                 peerIdentities, handed, events>>

\* Aborted tasks drop what they drained or copied.
NoTask ==
  /\ taskPc' = [t \in Task |-> "idle"]
  /\ batch' = [t \in Task |-> NoEntries]
  /\ cur' = [t \in Task |-> NoMsg]

Stop ==
  /\ running
  /\ stops < MaxStops
  /\ stops' = stops + 1
  /\ running' = FALSE
  /\ NoTask
  /\ UNCHANGED <<sendVars, storeVars, transport, session, peerIdentities,
                 pendingSends, handed, events, overflowed>>

\* The process dies at any point and init opens the same database again: only
\* the rows survive, and seq starts at 0.
Crash ==
  /\ session < MaxSessions
  /\ session' = session + 1
  /\ running' = FALSE
  /\ transport' = FALSE
  /\ outboundSent' = 0
  /\ peerIdentities' = {}
  /\ pendingSends' = NoEntries
  /\ pc' = [m \in Msg |-> IF pc[m] = "new" THEN "new" ELSE "done"]
  /\ NoTask
  /\ overflowed' = {}
  /\ UNCHANGED <<seq, storeVars, stops, handed, events>>

-----------------------------------------------------------------------------
SendTo(m) ==
  \/ BeginSend(m) \/ SendPacket(m) \/ SendLink(m)
  \/ EnqueueOutbound(m) \/ PushPending(m) \/ NotifyQueued(m)

Next ==
  \/ \E m \in Msg : SendTo(m)
  \/ \E p \in Peer : ReceiveAnnounce(p)
  \/ RetryTick
  \/ \E t \in Task : LockTransport(t)
  \/ \E t \in Task, m \in Msg : Transmit(t, m)
  \/ SettleFlush
  \/ SettleRetry
  \/ Start
  \/ Stop
  \/ Crash

Spec == Init /\ [][Next]_vars

\* The tasks run on the tokio runtime until they are aborted; the transport
\* mutex is FIFO, so a task that waits for it gets it.  The application
\* restarts what it stops.  Nothing obliges a peer to announce or the transport
\* to accept a packet.
Fairness ==
  /\ \A m \in Msg : WF_vars(SendTo(m))
  /\ \A t \in Task :
       /\ SF_vars(LockTransport(t))
       /\ WF_vars(\E m \in Msg : Transmit(t, m))
  /\ WF_vars(SettleFlush)
  /\ WF_vars(SettleRetry)
  /\ WF_vars(RetryTick)
  /\ WF_vars(Start)

FairSpec == Spec /\ Fairness

\* Every peer announces again and again, and a transport that is asked to send
\* a message again and again takes it in the end.
PeersReachable ==
  /\ \A p \in Peer : SF_vars(ReceiveAnnounce(p))
  /\ \A m \in Msg : SF_vars(Transmit("announce", m)
                            /\ taskPc'["announce"] = "sent")

ReachableSpec == FairSpec /\ PeersReachable

-----------------------------------------------------------------------------
(* Safety                                                                  *)

\* No other send_to call of any session took the seq of m.
SeqIsUnique(m) ==
  \A n \in Msg \ {m} : pc[n] # "new" => seq[n] # seq[m]

\* An entry of m is queued, held by the announce task, or about to be pushed.
Retryable(m) ==
  \/ pendingSends[m] + batch["announce"][m] > 0
  \/ pc[m] \in {"push", "pushLarge"}

\* While the node runs, a durable message that was neither sent nor expired is
\* in memory, where the next announce or retry finds it: no interleaving of
\* send_to, flush, retry, stop and start strands it in the table (node.rs,
\* reload on start and push-back of the announce task).  A message whose seq
\* was reused after a crash, or that overflowed the cap, is not covered.
AcceptedStaysRetryable ==
  running =>
    \A m \in outboundQueue \ overflowed :
      m \notin handed /\ attempts[m] < MaxAttempts /\ SeqIsUnique(m)
        => Retryable(m)

\* The application is told the truth: MessageDelivered only of a message the
\* transport took, MessageFailed only of one that used up its attempts and
\* will not come back from the table after a restart.
ReportsAreTrue ==
  \A m \in Msg :
    /\ "MessageDelivered" \in events[m] => m \in handed
    /\ "MessageFailed" \in events[m] =>
         attempts[m] >= MaxAttempts /\ m \notin outboundQueue

\* What the table promises across stops and crashes.
Outbox == INSTANCE DurableOutbox WITH
  accepted <- {m \in Msg : storeId[m]},
  box <- outboundQueue,
  handed <- handed,
  failed <- {m \in Msg : "MessageFailed" \in events[m]}

\* The queue implements the durable outbox: a row is inserted once, and leaves
\* the table only after the transport took its message or together with its
\* MessageFailed event, through every abort and crash (store.rs).
ImplementsOutbox == Outbox!BoxSpec

-----------------------------------------------------------------------------
(* Liveness                                                                *)

\* With the retry task, every durable message ends: delivered or given up, it
\* leaves the table, though no peer is obliged to announce and the transport to
\* accept anything.  The one exception is a peer that announces for ever while
\* the transport refuses its message: flushes count no attempt, and each may
\* hide the entry from the retry task.
RowsAreResolved ==
  \A m \in Msg :
    \/ m \in outboundQueue ~> m \notin outboundQueue
    \/ []<>(taskPc["announce"] = "unsent" /\ cur["announce"] = m)

\* Without the retry task (mode 0), announces alone empty the table: if the
\* peers keep announcing, every durable message is delivered, whatever start
\* and stop do to the tasks (announce task, reload on start).
AnnouncesEmptyQueue ==
  \A m \in Msg : m \in outboundQueue ~> m \in handed /\ m \notin outboundQueue
=============================================================================
