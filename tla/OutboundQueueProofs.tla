------------------------ MODULE OutboundQueueProofs ------------------------
(***************************************************************************)
(* Proofs about OutboundQueue for every value of its constants: any number *)
(* of messages and peers, any caps, any number of stops, crashes and store *)
(* errors.                                                                 *)
(*                                                                         *)
(* The properties are not inductive as they stand.  IInv adds what links   *)
(* the table, the queue, the tasks and the send_to calls: an entry or a row*)
(* exists only for a call that began (StartedOnly); an idle task holds no  *)
(* entry, one about to settle an entry holds it and, if it is "sent", the  *)
(* transport took it (TaskOK); and a row is inserted once (RowOK).         *)
(***************************************************************************)
EXTENDS OutboundQueue, TLAPS

\* Where a call is once enqueue_outbound returned.
AfterEnqueue == {"push", "pushLarge", "notify", "done"}

\* Only a send_to call that began has a row or an entry anywhere.
StartedOnly ==
  \A m \in Msg : pc[m] = "new" =>
    /\ m \notin outboundQueue
    /\ pendingSends[m] = 0
    /\ \A t \in Task : batch[t][m] = 0

\* An idle task holds nothing; one that settles an entry holds it, and a "sent"
\* entry was taken by the transport.
TaskOK ==
  \A t \in Task :
    /\ taskPc[t] = "idle" => \A m \in Msg : batch[t][m] = 0
    /\ taskPc[t] \in {"sent", "unsent"} =>
         /\ cur[t] \in Msg
         /\ batch[t][cur[t]] > 0
         /\ taskPc[t] = "sent" => cur[t] \in handed

\* A row was inserted by its own call, at most once, and only a message that
\* had a row is ever reported failed.
RowOK ==
  \A m \in Msg :
    /\ m \in outboundQueue => storeId[m]
    /\ storeId[m] => pc[m] \in AfterEnqueue
    /\ "MessageFailed" \in events[m] => storeId[m]

\* The inductive invariant.
IInv ==
  /\ TypeOK
  /\ StartedOnly
  /\ TaskOK
  /\ RowOK
  /\ ReportsAreTrue
  /\ AcceptedStaysRetryable

\* The inductive invariant holds when init has opened an empty database.
LEMMA InitIInv == Init => IInv
<1> SUFFICES ASSUME Init PROVE IInv
  OBVIOUS
<1> USE DEF Init
<1>1. TypeOK
  <2>1. /\ pc \in [Msg -> SendPc] /\ taskPc \in [Task -> TaskPc]
        /\ pendingSends \in [Msg -> Nat]
        /\ batch \in [Task -> [Msg -> Nat]]
        /\ cur \in [Task -> Msg \cup {NoMsg}]
    BY DEF NoEntries, SendPc, TaskPc
  <2>2. /\ storeErrors \in 0 .. MaxStoreErrors
        /\ stops \in 0 .. MaxStops
        /\ session \in 1 .. MaxSessions
    BY BoundsAssumption
  <2>3. QED
    BY <2>1, <2>2 DEF TypeOK
<1>2. StartedOnly /\ TaskOK /\ RowOK
  BY DEF StartedOnly, TaskOK, RowOK, NoEntries
<1>3. ReportsAreTrue /\ AcceptedStaysRetryable
  BY DEF ReportsAreTrue, AcceptedStaysRetryable
<1>4. QED
  BY <1>1, <1>2, <1>3 DEF IInv

-----------------------------------------------------------------------------
(* Types, and the tasks' hold on their entries                             *)

\* What settling an entry does to the task: it drops the entry, and the other
\* task keeps what it holds.
LEMMA NextEntryType ==
  ASSUME TypeOK, TaskOK, NEW t \in Task, NextEntry(t), handed' = handed,
         cur[t] \in Msg, batch[t][cur[t]] > 0
  PROVE  /\ batch' \in [Task -> [Msg -> Nat]]
         /\ cur' \in [Task -> Msg \cup {NoMsg}]
         /\ taskPc' \in [Task -> TaskPc]
         /\ TaskOK'
<1> DEFINE rest == [batch[t] EXCEPT ![cur[t]] = @ - 1]
<1>1. rest \in [Msg -> Nat]
  BY DEF TypeOK
<1>2. /\ batch' = [batch EXCEPT ![t] = rest]
      /\ cur' = [cur EXCEPT ![t] = NoMsg]
      /\ taskPc' = [taskPc EXCEPT ![t] =
                      IF rest = NoEntries THEN "idle" ELSE "send"]
  BY DEF NextEntry
<1> HIDE DEF rest
<1>3. batch' \in [Task -> [Msg -> Nat]]
  BY <1>1, <1>2 DEF TypeOK
<1>4. cur' \in [Task -> Msg \cup {NoMsg}] /\ taskPc' \in [Task -> TaskPc]
  BY <1>2 DEF TypeOK, TaskPc
<1>5. ASSUME NEW u \in Task \ {t}
      PROVE taskPc'[u] = taskPc[u] /\ cur'[u] = cur[u] /\ batch'[u] = batch[u]
  BY <1>2, <1>5 DEF TypeOK
<1>6. /\ taskPc'[t] \notin {"sent", "unsent"}
      /\ taskPc'[t] = "idle" => \A m \in Msg : batch'[t][m] = 0
  <2>1. CASE rest = NoEntries
    BY <1>2, <2>1 DEF TypeOK, NoEntries
  <2>2. CASE rest # NoEntries
    BY <1>2, <2>2 DEF TypeOK
  <2>3. QED
    BY <2>1, <2>2
<1>7. QED
  BY <1>3, <1>4, <1>5, <1>6 DEF TaskOK

\* remove_outbound leaves a set of rows, whether or not SQLite fails.
LEMMA RemoveOutboundType ==
  ASSUME TypeOK, NEW m, RemoveOutbound(m)
  PROVE  outboundQueue' \subseteq Msg /\ storeErrors' \in 0 .. MaxStoreErrors
  BY BoundsAssumption DEF TypeOK, RemoveOutbound, StoreWrite

\* bump_outbound_attempts leaves a count, whether or not SQLite fails.
LEMMA BumpAttemptsType ==
  ASSUME TypeOK, NEW m \in Msg, BumpAttempts(m)
  PROVE  attempts' \in [Msg -> Nat] /\ storeErrors' \in 0 .. MaxStoreErrors
<1>1. PICK ok \in BOOLEAN :
        /\ StoreWrite(ok)
        /\ attempts' = IF ok /\ m \in outboundQueue
                         THEN [attempts EXCEPT ![m] = @ + 1] ELSE attempts
  BY DEF BumpAttempts
<1>2. attempts' \in [Msg -> Nat]
  BY <1>1 DEF TypeOK
<1>3. storeErrors' \in 0 .. MaxStoreErrors
  BY <1>1, BoundsAssumption DEF TypeOK, StoreWrite
<1>4. QED
  BY <1>2, <1>3

\* An abort by stop, and a crash, leave the tasks idle and empty-handed.
LEMMA NoTaskType ==
  ASSUME NoTask
  PROVE  /\ batch' \in [Task -> [Msg -> Nat]]
         /\ cur' \in [Task -> Msg \cup {NoMsg}]
         /\ taskPc' \in [Task -> TaskPc]
         /\ TaskOK'
  BY DEF NoTask, NoEntries, TaskPc, TaskOK

\* Pushing an event keeps a set of events for each message.
LEMMA PushType ==
  ASSUME TypeOK, NEW m \in Msg, NEW event \in Event, Push(m, event)
  PROVE  events' \in [Msg -> SUBSET Event]
  BY DEF TypeOK, Push

\* Every step of send_to, the tasks, start, stop and a crash keeps the types and
\* the tasks' hold on their entries.
LEMMA TypeStep ==
  ASSUME TypeOK, TaskOK, [Next]_vars
  PROVE  TypeOK' /\ TaskOK'
<1> USE DEF TypeOK, TaskOK, sendVars, storeVars, taskVars, lifeVars
<1>1. ASSUME NEW m \in Msg, BeginSend(m) PROVE TypeOK' /\ TaskOK'
  BY <1>1 DEF BeginSend, Goto, SendPc
<1>2. ASSUME NEW m \in Msg, SendPacket(m) PROVE TypeOK' /\ TaskOK'
  BY <1>2 DEF SendPacket, Goto, SendPc
<1>3. ASSUME NEW m \in Msg, SendLink(m) PROVE TypeOK' /\ TaskOK'
  BY <1>3 DEF SendLink, Goto, SendPc
<1>4. ASSUME NEW m \in Msg, EnqueueOutbound(m) PROVE TypeOK' /\ TaskOK'
  <2>1. pc' \in [Msg -> SendPc]
    BY <1>4 DEF EnqueueOutbound, Goto, SendPc
  <2>2. storeErrors' \in 0 .. MaxStoreErrors
    BY <1>4, BoundsAssumption DEF EnqueueOutbound, StoreWrite
  <2>3. outboundQueue' \subseteq Msg /\ storeId' \in [Msg -> BOOLEAN]
    BY <1>4 DEF EnqueueOutbound
  <2>4. QED
    BY <1>4, <2>1, <2>2, <2>3 DEF EnqueueOutbound
<1>5. ASSUME NEW m \in Msg, PushPending(m) PROVE TypeOK' /\ TaskOK'
  BY <1>5 DEF PushPending, Goto, SendPc
<1>6. ASSUME NEW m \in Msg, NotifyQueued(m) PROVE TypeOK' /\ TaskOK'
  BY <1>6 DEF NotifyQueued, Goto, SendPc, Push, Event
<1>7. ASSUME NEW p \in Peer, ReceiveAnnounce(p) PROVE TypeOK' /\ TaskOK'
  <2> DEFINE matched ==
        [m \in Msg |-> IF DestOf[m] = p THEN pendingSends[m] ELSE 0]
  <2>1. /\ pendingSends' \in [Msg -> Nat]
        /\ matched \in [Msg -> Nat]
    BY <1>7 DEF ReceiveAnnounce
  <2>2. /\ batch' = [batch EXCEPT !["announce"] = matched]
        /\ taskPc' = [taskPc EXCEPT !["announce"] =
                        IF matched = NoEntries THEN "idle" ELSE "lock"]
        /\ cur' = cur /\ handed' = handed
    BY <1>7 DEF ReceiveAnnounce
  <2>3. matched = NoEntries => \A m \in Msg : matched[m] = 0
    BY DEF NoEntries
  <2> HIDE DEF matched
  <2>4. batch' \in [Task -> [Msg -> Nat]] /\ taskPc' \in [Task -> TaskPc]
    BY <2>1, <2>2 DEF TaskPc
  <2>5. TaskOK'
    BY <2>2, <2>3 DEF Task
  <2>6. QED
    BY <1>7, <2>1, <2>2, <2>4, <2>5 DEF ReceiveAnnounce
<1>8. CASE RetryTick
  <2>1. storeErrors' \in 0 .. MaxStoreErrors
    BY <1>8, BoundsAssumption DEF RetryTick, StoreWrite
  <2>2. outboundQueue' \subseteq Msg /\ events' \in [Msg -> SUBSET Event]
    BY <1>8 DEF RetryTick, Event
  <2>3. batch' \in [Task -> [Msg -> Nat]] /\ taskPc' \in [Task -> TaskPc]
    BY <1>8 DEF RetryTick, Task, TaskPc
  <2>4. pendingSends = NoEntries => \A m \in Msg : pendingSends[m] = 0
    BY DEF NoEntries
  <2>5. TaskOK'
    BY <1>8, <2>4 DEF RetryTick, Task
  <2>6. QED
    BY <1>8, <2>1, <2>2, <2>3, <2>5 DEF RetryTick
<1>9. ASSUME NEW t \in Task, LockTransport(t) PROVE TypeOK' /\ TaskOK'
  BY <1>9 DEF LockTransport, TaskPc
<1>10. ASSUME NEW t \in Task, NEW m \in Msg, Transmit(t, m)
       PROVE  TypeOK' /\ TaskOK'
  BY <1>10 DEF Transmit, TaskPc
<1>11. CASE SettleFlush
  <2> DEFINE m == cur["announce"]
  <2>0. "announce" \in Task /\ taskPc["announce"] \in {"sent", "unsent"}
    BY <1>11 DEF SettleFlush, Task
  <2>1. m \in Msg /\ batch["announce"][m] > 0
    BY <2>0
  <2>2. /\ batch' \in [Task -> [Msg -> Nat]]
        /\ cur' \in [Task -> Msg \cup {NoMsg}]
        /\ taskPc' \in [Task -> TaskPc]
        /\ TaskOK'
    BY <1>11, <2>1, NextEntryType DEF SettleFlush, Task
  <2>3. outboundQueue' \subseteq Msg /\ storeErrors' \in 0 .. MaxStoreErrors
    BY <1>11, RemoveOutboundType DEF SettleFlush
  <2>4. events' \in [Msg -> SUBSET Event]
    BY <1>11, <2>1, PushType DEF SettleFlush, Event
  <2>5. pendingSends' \in [Msg -> Nat]
    BY <1>11, <2>1 DEF SettleFlush
  <2>6. QED
    BY <1>11, <2>2, <2>3, <2>4, <2>5 DEF SettleFlush
<1>12. CASE SettleRetry
  <2> DEFINE m == cur["retry"]
  <2>0. "retry" \in Task /\ taskPc["retry"] \in {"sent", "unsent"}
    BY <1>12 DEF SettleRetry, Task
  <2>1. m \in Msg /\ batch["retry"][m] > 0
    BY <2>0
  <2>2. /\ batch' \in [Task -> [Msg -> Nat]]
        /\ cur' \in [Task -> Msg \cup {NoMsg}]
        /\ taskPc' \in [Task -> TaskPc]
        /\ TaskOK'
    BY <1>12, <2>1, NextEntryType DEF SettleRetry, Task
  <2>3. /\ outboundQueue' \subseteq Msg
        /\ storeErrors' \in 0 .. MaxStoreErrors
        /\ attempts' \in [Msg -> Nat]
    BY <1>12, <2>1, RemoveOutboundType, BumpAttemptsType DEF SettleRetry
  <2>4. events' \in [Msg -> SUBSET Event]
    BY <1>12, <2>1, PushType DEF SettleRetry, Event
  <2>5. pendingSends' \in [Msg -> Nat]
    BY <1>12, <2>1 DEF SettleRetry, RetainOthers
  <2>6. QED
    BY <1>12, <2>2, <2>3, <2>4, <2>5 DEF SettleRetry
<1>13. CASE Start
  BY <1>13 DEF Start
<1>14. CASE Stop
  <2>1. stops' \in 0 .. MaxStops
    BY <1>14, BoundsAssumption DEF Stop
  <2>2. NoTask
    BY <1>14 DEF Stop
  <2>3. QED
    BY <1>14, <2>1, <2>2, NoTaskType DEF Stop
<1>15. CASE Crash
  <2>1. session' \in 1 .. MaxSessions
    BY <1>15, BoundsAssumption DEF Crash
  <2>2. pc' \in [Msg -> SendPc] /\ pendingSends' \in [Msg -> Nat]
    BY <1>15 DEF Crash, SendPc, NoEntries
  <2>3. NoTask
    BY <1>15 DEF Crash
  <2>4. QED
    BY <1>15, <2>1, <2>2, <2>3, NoTaskType DEF Crash
<1>16. CASE UNCHANGED vars
  BY <1>16 DEF vars
<1>17. QED
  BY <1>1, <1>2, <1>3, <1>4, <1>5, <1>6, <1>7, <1>8, <1>9, <1>10, <1>11,
     <1>12, <1>13, <1>14, <1>15, <1>16 DEF Next, SendTo

-----------------------------------------------------------------------------
(* Entries and rows belong to calls that began; rows are inserted once     *)

\* No step makes a row or an entry of a call that has not begun.
LEMMA StartedStep ==
  ASSUME TypeOK, TaskOK, StartedOnly, [Next]_vars
  PROVE  StartedOnly'
<1> USE DEF TypeOK, StartedOnly, sendVars, storeVars, taskVars, lifeVars
<1>1. ASSUME NEW m \in Msg, SendTo(m) PROVE StartedOnly'
  <2>1. \A n \in Msg : pc'[n] = "new" => n # m /\ pc[n] = "new"
    BY <1>1 DEF SendTo, BeginSend, SendPacket, SendLink, EnqueueOutbound,
         PushPending, NotifyQueued, Goto
  <2>2. /\ outboundQueue' \subseteq outboundQueue \cup {m}
        /\ \A n \in Msg \ {m} : pendingSends'[n] = pendingSends[n]
        /\ batch' = batch
    BY <1>1 DEF SendTo, BeginSend, SendPacket, SendLink, EnqueueOutbound,
         PushPending, NotifyQueued
  <2>3. QED
    BY <2>1, <2>2
<1>2. ASSUME NEW p \in Peer, ReceiveAnnounce(p) PROVE StartedOnly'
  BY <1>2 DEF ReceiveAnnounce, Task
<1>3. CASE RetryTick
  BY <1>3 DEF RetryTick, Task
<1>4. ASSUME NEW t \in Task, LockTransport(t) PROVE StartedOnly'
  BY <1>4 DEF LockTransport
<1>5. ASSUME NEW t \in Task, NEW m \in Msg, Transmit(t, m) PROVE StartedOnly'
  BY <1>5 DEF Transmit
<1>6. ASSUME NEW t \in Task, NextEntry(t), batch[t][cur[t]] > 0,
             cur[t] \in Msg
      PROVE  \A n \in Msg : pc[n] = "new" => \A u \in Task : batch'[u][n] = 0
  BY <1>6 DEF NextEntry
<1>7. CASE SettleFlush
  <2>1. /\ cur["announce"] \in Msg /\ batch["announce"][cur["announce"]] > 0
        /\ NextEntry("announce") /\ "announce" \in Task
    BY <1>7 DEF SettleFlush, TaskOK, Task
  <2>2. outboundQueue' \subseteq outboundQueue /\ pc' = pc
    BY <1>7 DEF SettleFlush, RemoveOutbound
  <2>3. pc[cur["announce"]] # "new"
    BY <2>1
  <2>4. \A n \in Msg : pc[n] = "new" => pendingSends'[n] = 0
    BY <1>7, <2>1, <2>3 DEF SettleFlush
  <2>5. QED
    BY <1>6, <2>1, <2>2, <2>4
<1>8. CASE SettleRetry
  <2>1. /\ cur["retry"] \in Msg /\ batch["retry"][cur["retry"]] > 0
        /\ NextEntry("retry") /\ "retry" \in Task
    BY <1>8 DEF SettleRetry, TaskOK, Task
  <2>2. outboundQueue' \subseteq outboundQueue /\ pc' = pc
    BY <1>8 DEF SettleRetry, RemoveOutbound
  <2>3. \A n \in Msg : pc[n] = "new" => pendingSends'[n] = 0
    BY <1>8 DEF SettleRetry, RetainOthers
  <2>4. QED
    BY <1>6, <2>1, <2>2, <2>3
<1>9. CASE Start
  BY <1>9 DEF Start, Reloadable
<1>10. CASE Stop
  BY <1>10 DEF Stop, NoTask, NoEntries
<1>11. CASE Crash
  BY <1>11 DEF Crash, NoTask, NoEntries
<1>12. CASE UNCHANGED vars
  BY <1>12 DEF vars
<1>13. QED
  BY <1>1, <1>2, <1>3, <1>4, <1>5, <1>7, <1>8, <1>9, <1>10, <1>11, <1>12
  DEF Next

\* send_to pushes no event but MessageQueued.
LEMMA SendToEvents ==
  ASSUME TypeOK, NEW m \in Msg, SendTo(m)
  PROVE  \A n \in Msg : events'[n] \subseteq events[n] \cup {"MessageQueued"}
<1>1. CASE NotifyQueued(m)
  BY <1>1 DEF TypeOK, NotifyQueued, Push
<1>2. CASE ~NotifyQueued(m)
  <2>1. events' = events
    BY <1>2 DEF SendTo, BeginSend, SendPacket, SendLink, EnqueueOutbound,
         PushPending
  <2>2. QED
    BY <2>1
<1>3. QED
  BY <1>1, <1>2

\* No step inserts a row outside enqueue_outbound, or fails a rowless message.
LEMMA RowStep ==
  ASSUME TypeOK, TaskOK, RowOK, [Next]_vars
  PROVE  RowOK'
<1> USE DEF TypeOK, RowOK, AfterEnqueue, sendVars, storeVars, taskVars, lifeVars
<1>1. ASSUME NEW m \in Msg, SendTo(m) PROVE RowOK'
  <2>1. /\ \A n \in Msg : pc[n] \in AfterEnqueue => pc'[n] \in AfterEnqueue
        /\ pc[m] \in {"enqueue", "enqueueLarge"} => pc'[m] \in AfterEnqueue
    BY <1>1 DEF SendTo, BeginSend, SendPacket, SendLink, EnqueueOutbound,
         PushPending, NotifyQueued, Goto
  <2>2. \A n \in Msg :
          "MessageFailed" \in events'[n] => "MessageFailed" \in events[n]
    BY <1>1, SendToEvents
  <2>3. \/ outboundQueue' = outboundQueue /\ storeId' = storeId
        \/ /\ pc[m] \in {"enqueue", "enqueueLarge"}
           /\ outboundQueue' = outboundQueue \cup {m}
           /\ storeId' = [storeId EXCEPT ![m] = TRUE]
    BY <1>1 DEF SendTo, BeginSend, SendPacket, SendLink, EnqueueOutbound,
         PushPending, NotifyQueued
  <2>4. QED
    BY <2>1, <2>2, <2>3
<1>2. ASSUME NEW p \in Peer, ReceiveAnnounce(p) PROVE RowOK'
  BY <1>2 DEF ReceiveAnnounce
<1>3. CASE RetryTick
  BY <1>3 DEF RetryTick, Expired
<1>4. ASSUME NEW t \in Task, LockTransport(t) PROVE RowOK'
  BY <1>4 DEF LockTransport
<1>5. ASSUME NEW t \in Task, NEW m \in Msg, Transmit(t, m) PROVE RowOK'
  BY <1>5 DEF Transmit
<1>6. ASSUME NEW m \in Msg, Push(m, "MessageDelivered")
      PROVE  \A n \in Msg :
               "MessageFailed" \in events'[n] => "MessageFailed" \in events[n]
  BY <1>6 DEF Push
<1>7. CASE SettleFlush
  <2>1. cur["announce"] \in Msg
    BY <1>7 DEF SettleFlush, TaskOK, Task
  <2>2. \A n \in Msg :
          "MessageFailed" \in events'[n] => "MessageFailed" \in events[n]
    BY <1>6, <1>7, <2>1 DEF SettleFlush
  <2>3. outboundQueue' \subseteq outboundQueue /\ pc' = pc /\ storeId' = storeId
    BY <1>7 DEF SettleFlush, RemoveOutbound
  <2>4. QED
    BY <2>2, <2>3
<1>8. CASE SettleRetry
  <2>1. cur["retry"] \in Msg
    BY <1>8 DEF SettleRetry, TaskOK, Task
  <2>2. \A n \in Msg :
          "MessageFailed" \in events'[n] => "MessageFailed" \in events[n]
    BY <1>6, <1>8, <2>1 DEF SettleRetry
  <2>3. outboundQueue' \subseteq outboundQueue /\ pc' = pc /\ storeId' = storeId
    BY <1>8 DEF SettleRetry, RemoveOutbound
  <2>4. QED
    BY <2>2, <2>3
<1>9. CASE Start
  BY <1>9 DEF Start
<1>10. CASE Stop
  BY <1>10 DEF Stop
<1>11. CASE Crash
  BY <1>11 DEF Crash
<1>12. CASE UNCHANGED vars
  BY <1>12 DEF vars
<1>13. QED
  BY <1>1, <1>2, <1>3, <1>4, <1>5, <1>7, <1>8, <1>9, <1>10, <1>11, <1>12
  DEF Next

-----------------------------------------------------------------------------
(* The reports                                                             *)

\* Attempts are only ever counted up.
LEMMA AttemptsGrow ==
  ASSUME TypeOK, [Next]_vars
  PROVE  \A m \in Msg : attempts'[m] >= attempts[m]
<1>1. ASSUME NEW m, BumpAttempts(m)
      PROVE  \A n \in Msg : attempts'[n] >= attempts[n]
  BY <1>1 DEF TypeOK, BumpAttempts
<1>2. CASE SettleRetry
  BY <1>1, <1>2 DEF TypeOK, SettleRetry
<1>3. CASE ~SettleRetry
  <2>1. attempts' = attempts
    BY <1>3 DEF Next, vars, storeVars, SendTo, BeginSend, SendPacket, SendLink,
         EnqueueOutbound, PushPending, NotifyQueued, ReceiveAnnounce, RetryTick,
         LockTransport, Transmit, SettleFlush, Start, Stop, Crash
  <2>2. QED
    BY <2>1 DEF TypeOK
<1>4. QED
  BY <1>2, <1>3

\* The events the tasks push stay true: a delivered entry was taken by the
\* transport, attempts never fall and an expired row never comes back.
LEMMA ReportsStep ==
  ASSUME TypeOK, TaskOK, RowOK, ReportsAreTrue, [Next]_vars
  PROVE  ReportsAreTrue'
<1> USE DEF TypeOK
<1>1. handed \subseteq handed'
  BY DEF Next, vars, SendTo, BeginSend, SendPacket, SendLink, EnqueueOutbound,
     PushPending, NotifyQueued, ReceiveAnnounce, RetryTick, LockTransport,
     Transmit, SettleFlush, SettleRetry, Start, Stop, Crash
<1>2. ASSUME NEW m \in Msg, "MessageFailed" \in events[m]
      PROVE  attempts'[m] >= MaxAttempts /\ m \notin outboundQueue'
  <2>1. attempts[m] >= MaxAttempts /\ attempts'[m] >= attempts[m]
    BY <1>2, AttemptsGrow DEF ReportsAreTrue
  <2>2. attempts[m] \in Nat /\ MaxAttempts \in Nat
    BY BoundsAssumption
  <2>3. attempts'[m] >= MaxAttempts
    <3>1. attempts' \in [Msg -> Nat]
      BY TypeStep
    <3>2. QED
      BY <2>1, <2>2, <3>1
  <2>4. m \notin outboundQueue /\ pc[m] \in AfterEnqueue
    BY <1>2 DEF ReportsAreTrue, RowOK
  <2>5. outboundQueue' \subseteq outboundQueue
          \cup {n \in Msg : pc[n] \in {"enqueue", "enqueueLarge"}}
    BY ZenonT(30) DEF Next, vars, storeVars, SendTo, BeginSend, SendPacket, SendLink,
       EnqueueOutbound, PushPending, NotifyQueued, ReceiveAnnounce, RetryTick,
       LockTransport, Transmit, SettleFlush, SettleRetry, RemoveOutbound,
       Start, Stop, Crash
  <2>6. QED
    BY <2>3, <2>4, <2>5 DEF AfterEnqueue
<1>3. ASSUME NEW m \in Msg, "MessageFailed" \in events'[m],
             "MessageFailed" \notin events[m]
      PROVE  attempts'[m] >= MaxAttempts /\ m \notin outboundQueue'
  <2>1. ~SettleFlush /\ ~SettleRetry
    BY <1>3 DEF SettleFlush, SettleRetry, Push
  <2>2. \A n \in Msg : ~SendTo(n)
    BY <1>3, SendToEvents
  <2>3. RetryTick
    BY <1>3, <2>1, <2>2 DEF Next, vars, ReceiveAnnounce, LockTransport,
       Transmit, Start, Stop, Crash
  <2>4. QED
    BY <1>3, <2>3 DEF RetryTick, Expired, storeVars
<1>4. ASSUME NEW m \in Msg, "MessageDelivered" \in events'[m],
             "MessageDelivered" \notin events[m]
      PROVE  m \in handed
  <2>1. ~RetryTick
    BY <1>4 DEF RetryTick
  <2>2. \A n \in Msg : ~SendTo(n)
    BY <1>4, SendToEvents
  <2>3. SettleFlush \/ SettleRetry
    BY <1>4, <2>1, <2>2 DEF Next, vars, ReceiveAnnounce, LockTransport,
       Transmit, Start, Stop, Crash
  <2>4. CASE SettleFlush
    BY <1>4, <2>4 DEF SettleFlush, Push, TaskOK, Task
  <2>5. CASE SettleRetry
    BY <1>4, <2>5 DEF SettleRetry, Push, TaskOK, Task
  <2>6. QED
    BY <2>3, <2>4, <2>5
<1>5. QED
  BY <1>1, <1>2, <1>3, <1>4 DEF ReportsAreTrue

-----------------------------------------------------------------------------
(* Retryability                                                            *)

\* A call that takes a seq only makes seqs less unique.
LEMMA UniqueBefore ==
  ASSUME TypeOK, [Next]_vars, NEW k \in Msg, SeqIsUnique(k)', pc[k] # "new"
  PROVE  SeqIsUnique(k)
<1> USE DEF TypeOK, SeqIsUnique
<1>1. ASSUME NEW m \in Msg, BeginSend(m) PROVE SeqIsUnique(k)
  BY <1>1 DEF BeginSend, Goto
<1>2. ASSUME \A m \in Msg : ~BeginSend(m) PROVE SeqIsUnique(k)
  <2>1. seq' = seq
    BY <1>2 DEF Next, vars, sendVars, SendTo, SendPacket, SendLink,
       EnqueueOutbound, PushPending, NotifyQueued, ReceiveAnnounce, RetryTick,
       LockTransport, Transmit, SettleFlush, SettleRetry, Start, Stop, Crash
  <2>2. \A n \in Msg : pc[n] # "new" => pc'[n] # "new"
    BY <1>2, ZenonT(30) DEF Next, vars, sendVars, SendTo, SendPacket, SendLink, Goto,
       EnqueueOutbound, PushPending, NotifyQueued, ReceiveAnnounce, RetryTick,
       LockTransport, Transmit, SettleFlush, SettleRetry, Start, Stop, Crash
  <2>3. QED
    BY <2>1, <2>2
<1>3. QED
  BY <1>1, <1>2

\* The step that keeps each message the property covers within reach: what a
\* flush takes it holds, what it could not send it puts back, what retain
\* removes besides its own message has its seq, what start skips is in memory.
LEMMA RetryableStep ==
  ASSUME TypeOK, TaskOK, StartedOnly, AcceptedStaysRetryable, [Next]_vars
  PROVE  AcceptedStaysRetryable'
<1> SUFFICES ASSUME running', NEW k \in Msg, k \in outboundQueue',
                    k \notin overflowed', k \notin handed',
                    attempts'[k] < MaxAttempts, SeqIsUnique(k)'
             PROVE  Retryable(k)'
  BY TypeStep DEF AcceptedStaysRetryable, TypeOK
<1> USE DEF Retryable, TypeOK
<1>a. attempts[k] < MaxAttempts
  <2>1. attempts'[k] \in Nat /\ attempts'[k] >= attempts[k]
    BY TypeStep, AttemptsGrow
  <2>2. QED
    BY <2>1, BoundsAssumption
<1>b. k \notin handed
  BY DEF Next, vars, SendTo, BeginSend, SendPacket, SendLink, EnqueueOutbound,
     PushPending, NotifyQueued, ReceiveAnnounce, RetryTick, LockTransport,
     Transmit, SettleFlush, SettleRetry, Start, Stop, Crash
<1>c. ASSUME running, k \in outboundQueue, k \notin overflowed
      PROVE  Retryable(k)
  <2>1. pc[k] # "new"
    BY <1>c DEF StartedOnly
  <2>2. QED
    BY <1>a, <1>b, <1>c, <2>1, UniqueBefore DEF AcceptedStaysRetryable
<1>1. ASSUME NEW m \in Msg, SendTo(m) PROVE Retryable(k)'
  <2>1. CASE EnqueueOutbound(m) /\ k = m
    BY <2>1 DEF EnqueueOutbound, Goto
  <2>2. CASE EnqueueOutbound(m) /\ k # m
    BY <1>c, <2>2 DEF EnqueueOutbound, Goto, taskVars, lifeVars
  <2>3. CASE PushPending(m) /\ k = m
    <3>1. pendingSends'[k] = pendingSends[k] + 1 /\ batch' = batch
      BY <2>3 DEF PushPending, taskVars
    <3>2. batch["announce"][k] \in Nat
      BY DEF Task
    <3>3. QED
      BY <3>1, <3>2
  <2>4. CASE PushPending(m) /\ k # m
    BY <1>c, <2>4 DEF PushPending, Goto, taskVars, lifeVars, storeVars
  <2>5. CASE BeginSend(m) \/ SendPacket(m) \/ SendLink(m) \/ NotifyQueued(m)
    <3>1. /\ pc[m] \notin {"push", "pushLarge"}
          /\ \A n \in Msg \ {m} : pc'[n] = pc[n]
      BY <2>5 DEF BeginSend, SendPacket, SendLink, NotifyQueued, Goto
    <3>2. /\ running' = running /\ outboundQueue' = outboundQueue
          /\ overflowed' = overflowed
          /\ pendingSends' = pendingSends /\ batch' = batch
      BY <2>5 DEF BeginSend, SendPacket, SendLink, NotifyQueued, lifeVars,
         storeVars, taskVars
    <3>3. QED
      BY <1>c, <3>1, <3>2
  <2>6. QED
    BY <1>1, <2>1, <2>2, <2>3, <2>4, <2>5 DEF SendTo
<1>2. ASSUME NEW p \in Peer, ReceiveAnnounce(p) PROVE Retryable(k)'
  <2>1. Retryable(k)
    BY <1>2, <1>c DEF ReceiveAnnounce, storeVars, lifeVars
  <2>2. batch["announce"][k] = 0
    BY <1>2 DEF ReceiveAnnounce, TaskOK, Task
  <2>3. QED
    BY <1>2, <2>1, <2>2 DEF ReceiveAnnounce, sendVars, Task
<1>3. CASE RetryTick
  BY <1>3, <1>c DEF RetryTick, sendVars, lifeVars, Task
<1>4. ASSUME NEW t \in Task, LockTransport(t) PROVE Retryable(k)'
  BY <1>4, <1>c DEF LockTransport, sendVars, storeVars, lifeVars
<1>5. ASSUME NEW t \in Task, NEW m \in Msg, Transmit(t, m)
      PROVE  Retryable(k)'
  BY <1>5, <1>c DEF Transmit, sendVars, storeVars, lifeVars
<1>6. CASE SettleFlush
  <2> DEFINE m == cur["announce"]
  <2>1. /\ m \in Msg /\ batch["announce"][m] > 0 /\ "announce" \in Task
        /\ taskPc["announce"] = "sent" => m \in handed
    BY <1>6 DEF SettleFlush, TaskOK, Task
  <2>2. batch'["announce"] =
          [batch["announce"] EXCEPT ![m] = batch["announce"][m] - 1]
    BY <1>6, <2>1 DEF SettleFlush, NextEntry
  <2>3. Retryable(k) /\ pc' = pc
    BY <1>6, <1>c DEF SettleFlush, RemoveOutbound, lifeVars, sendVars
  <2>4. CASE taskPc["announce"] = "sent"
    <3>1. k # m /\ pendingSends' = pendingSends
      BY <1>6, <1>b, <2>1, <2>4 DEF SettleFlush
    <3>2. QED
      BY <2>1, <2>2, <2>3, <3>1
  <2>5. CASE taskPc["announce"] = "unsent"
    <3>1. pendingSends' = [pendingSends EXCEPT ![m] = pendingSends[m] + 1]
      BY <1>6, <2>5 DEF SettleFlush
    <3>2. batch["announce"] \in [Msg -> Nat]
      BY <2>1
    <3>3. pendingSends'[k] + batch'["announce"][k]
            = pendingSends[k] + batch["announce"][k]
      <4>1. CASE k = m
        <5>1. /\ pendingSends'[k] = pendingSends[k] + 1
              /\ batch'["announce"][k] = batch["announce"][k] - 1
          BY <2>2, <3>1, <3>2, <4>1
        <5>2. pendingSends[k] \in Nat /\ batch["announce"][k] \in Nat
          BY <3>2
        <5>3. ASSUME NEW a \in Nat, NEW b \in Nat
              PROVE  (a + 1) + (b - 1) = a + b
          OBVIOUS
        <5>4. (pendingSends[k] + 1) + (batch["announce"][k] - 1)
                = pendingSends[k] + batch["announce"][k]
          BY <5>2, <5>3
        <5>5. QED
          BY <5>1, <5>4, Zenon
      <4>2. CASE k # m
        BY <2>2, <3>1, <3>2, <4>2
      <4>3. QED
        BY <4>1, <4>2
    <3>4. QED
      BY <2>3, <3>3
  <2>6. QED
    BY <1>6, <2>4, <2>5 DEF SettleFlush
<1>7. CASE SettleRetry
  <2> DEFINE m == cur["retry"]
  <2>1. /\ m \in Msg /\ batch["retry"][m] > 0 /\ "retry" \in Task
        /\ taskPc["retry"] = "sent" => m \in handed
    BY <1>7 DEF SettleRetry, TaskOK, Task
  <2>2. batch'["announce"] = batch["announce"]
    BY <1>7, <2>1 DEF SettleRetry, NextEntry, Task
  <2>3. Retryable(k) /\ pc' = pc /\ seq' = seq
    BY <1>7, <1>c DEF SettleRetry, RemoveOutbound, lifeVars, sendVars
  <2>4. pendingSends'[k] = pendingSends[k]
    <3>1. CASE taskPc["retry"] = "sent"
      <4>1. k # m /\ pc[m] # "new"
        BY <1>b, <2>1, <3>1 DEF StartedOnly
      <4>2. seq[k] # seq[m]
        BY <2>1, <2>3, <4>1 DEF SeqIsUnique
      <4>3. QED
        BY <1>7, <3>1, <4>2 DEF SettleRetry, RetainOthers
    <3>2. CASE taskPc["retry"] = "unsent"
      BY <1>7, <3>2 DEF SettleRetry
    <3>3. QED
      BY <1>7, <3>1, <3>2 DEF SettleRetry
  <2>5. QED
    BY <2>2, <2>3, <2>4
<1>8. CASE Start
  <2>1. k \in outboundQueue /\ pc' = pc /\ seq' = seq /\ batch' = batch
    BY <1>8 DEF Start, sendVars, storeVars, taskVars
  <2>2. CASE k \in Reloadable
    BY <1>8, <2>1, <2>2, "announce" \in Task DEF Start, Task
  <2>3. CASE k \notin Reloadable
    <3>1. PICK n \in Msg : pendingSends[n] > 0 /\ seq[n] = seq[k]
      BY <1>a, <2>1, <2>3 DEF Reloadable
    <3>2. pc[n] # "new"
      BY <3>1 DEF StartedOnly
    <3>3. n = k
      BY <2>1, <3>1, <3>2 DEF SeqIsUnique
    <3>4. pendingSends'[k] > 0
      BY <1>8, <2>3, <3>1, <3>3 DEF Start
    <3>5. pendingSends'[k] \in Nat /\ batch["announce"][k] \in Nat
      BY TypeStep DEF Task
    <3>6. QED
      BY <2>1, <3>4, <3>5
  <2>4. QED
    BY <2>2, <2>3
<1>9. CASE Stop
  BY <1>9 DEF Stop
<1>10. CASE Crash
  BY <1>10 DEF Crash
<1>11. CASE UNCHANGED vars
  BY <1>11, <1>c DEF vars, sendVars, storeVars, taskVars, lifeVars
<1>12. QED
  BY <1>1, <1>2, <1>3, <1>4, <1>5, <1>6, <1>7, <1>8, <1>9, <1>10, <1>11
  DEF Next

-----------------------------------------------------------------------------
(* Theorems                                                                *)

\* IInv is inductive.
LEMMA Inductive == Spec => []IInv
<1>1. IInv /\ [Next]_vars => IInv'
  BY TypeStep, StartedStep, RowStep, ReportsStep, RetryableStep DEF IInv
<1>2. QED
  BY InitIInv, <1>1, PTL DEF Spec

\* Type correctness of the queue, its store and its tasks (node.rs, store.rs).
THEOREM TypeCorrect == Spec => []TypeOK
<1>1. IInv => TypeOK
  BY DEF IInv
<1>2. QED
  BY Inductive, <1>1, PTL

\* However many messages, peers, restarts and failing writes there are, the
\* events send_to and the tasks push tell the truth: MessageDelivered only of
\* a message the transport took, MessageFailed only of one that used up its
\* attempts and left the table for good.
THEOREM ReportsCorrect == Spec => []ReportsAreTrue
<1>1. IInv => ReportsAreTrue
  BY DEF IInv
<1>2. QED
  BY Inductive, <1>1, PTL

\* No interleaving of send_to, flush, retry, stop, start and crash strands a
\* durable message while the node runs: the row of every message that is
\* neither sent nor expired has an entry an announce or a retry will find,
\* unless its seq was reused or the cap dropped its entry.
THEOREM Retryability == Spec => []AcceptedStaysRetryable
<1>1. IInv => AcceptedStaysRetryable
  BY DEF IInv
<1>2. QED
  BY Inductive, <1>1, PTL

\* Every step of the queue is a step of the abstract outbox or leaves it alone.
LEMMA RefinementStep ==
  ASSUME IInv, [Next]_vars
  PROVE  [Outbox!BoxNext]_(Outbox!boxVars)
<1> USE DEF IInv, TypeOK, Outbox!boxVars
<1>1. ASSUME NEW m \in Msg, SendTo(m)
      PROVE  [Outbox!BoxNext]_(Outbox!boxVars)
  <2>1. \A n \in Msg : "MessageFailed" \in events'[n]
                         <=> "MessageFailed" \in events[n]
    <3>1. CASE NotifyQueued(m)
      BY <3>1 DEF NotifyQueued, Push
    <3>2. CASE ~NotifyQueued(m)
      BY <1>1, <3>2 DEF SendTo, BeginSend, SendPacket, SendLink,
         EnqueueOutbound, PushPending
    <3>3. QED
      BY <3>1, <3>2
  <2>2. CASE EnqueueOutbound(m) /\ outboundQueue' = outboundQueue \cup {m}
                                /\ storeId' = [storeId EXCEPT ![m] = TRUE]
    <3>1. ~storeId[m]
      BY <2>2 DEF EnqueueOutbound, RowOK, AfterEnqueue
    <3>2. {n \in Msg : storeId'[n]} = {n \in Msg : storeId[n]} \cup {m}
      BY <2>2
    <3>3. handed' = handed
      BY <2>2 DEF EnqueueOutbound
    <3>4. Outbox!Put(m)
      BY <2>1, <2>2, <3>1, <3>2, <3>3 DEF Outbox!Put
    <3>5. QED
      BY <3>4 DEF Outbox!BoxNext
  <2>3. CASE outboundQueue' = outboundQueue /\ storeId' = storeId
    <3>1. handed' = handed \/ handed' = handed \cup {m}
      BY <1>1 DEF SendTo, BeginSend, SendPacket, SendLink, EnqueueOutbound,
         PushPending, NotifyQueued
    <3>2. QED
      BY <2>1, <2>3, <3>1 DEF Outbox!BoxNext, Outbox!HandOver
  <2>4. QED
    BY <1>1, <2>2, <2>3 DEF SendTo, BeginSend, SendPacket, SendLink,
       EnqueueOutbound, PushPending, NotifyQueued, storeVars
<1>2. CASE RetryTick
  <2>1. PICK S \in SUBSET outboundQueue :
          /\ outboundQueue' = outboundQueue \ S
          /\ events' = [m \in Msg |-> IF m \in S
                                        THEN events[m] \cup {"MessageFailed"}
                                        ELSE events[m]]
    BY <1>2, ZenonT(30) DEF RetryTick, Expired
  <2>2. handed' = handed /\ storeId' = storeId
    BY <1>2 DEF RetryTick
  <2>3. CASE S = {}
    BY <2>1, <2>2, <2>3
  <2>4. CASE S # {}
    <3>1. Outbox!GiveUp(S)
      BY <2>1, <2>2, <2>4 DEF Outbox!GiveUp
    <3>2. QED
      BY <3>1 DEF Outbox!BoxNext
  <2>5. QED
    BY <2>3, <2>4
<1>3. ASSUME NEW t \in Task, NEW m \in Msg, Transmit(t, m)
      PROVE  [Outbox!BoxNext]_(Outbox!boxVars)
  <2>1. handed' = handed \/ handed' = handed \cup {m}
    BY <1>3 DEF Transmit
  <2>2. outboundQueue' = outboundQueue /\ storeId' = storeId
          /\ events' = events
    BY <1>3 DEF Transmit, storeVars
  <2>3. QED
    BY <2>1, <2>2 DEF Outbox!BoxNext, Outbox!HandOver
<1>4. ASSUME NEW m \in Msg, m \in handed, RemoveOutbound(m),
             Push(m, "MessageDelivered"), handed' = handed, storeId' = storeId
      PROVE  [Outbox!BoxNext]_(Outbox!boxVars)
  <2>1. \A n \in Msg : "MessageFailed" \in events'[n]
                         <=> "MessageFailed" \in events[n]
    BY <1>4 DEF Push
  <2>2. CASE outboundQueue' = outboundQueue
    BY <1>4, <2>1, <2>2
  <2>3. CASE outboundQueue' # outboundQueue
    <3>1. Outbox!Discard(m)
      BY <1>4, <2>1, <2>3 DEF RemoveOutbound, Outbox!Discard
    <3>2. QED
      BY <3>1 DEF Outbox!BoxNext
  <2>4. QED
    BY <2>2, <2>3
<1>5. CASE SettleFlush
  <2>1. CASE taskPc["announce"] = "sent"
    BY <1>4, <1>5, <2>1 DEF SettleFlush, TaskOK, Task
  <2>2. CASE taskPc["announce"] # "sent"
    BY <1>5, <2>2 DEF SettleFlush
  <2>3. QED
    BY <2>1, <2>2
<1>6. CASE SettleRetry
  <2>1. CASE taskPc["retry"] = "sent"
    BY <1>4, <1>6, <2>1 DEF SettleRetry, TaskOK, Task
  <2>2. CASE taskPc["retry"] # "sent"
    BY <1>6, <2>2 DEF SettleRetry
  <2>3. QED
    BY <2>1, <2>2
<1>7. ASSUME \/ \E p \in Peer : ReceiveAnnounce(p)
             \/ \E t \in Task : LockTransport(t)
             \/ Start \/ Stop \/ Crash \/ UNCHANGED vars
      PROVE  [Outbox!BoxNext]_(Outbox!boxVars)
  <2>1. /\ outboundQueue' = outboundQueue /\ storeId' = storeId
        /\ handed' = handed /\ events' = events
    BY <1>7 DEF ReceiveAnnounce, LockTransport, Start, Stop, Crash, vars,
       storeVars
  <2>2. QED
    BY <2>1
<1>8. QED
  BY <1>1, <1>2, <1>3, <1>5, <1>6, <1>7 DEF Next

\* The table keeps its promise across every abort, restart and crash: a row is
\* inserted once, and leaves only after the transport took its message or
\* together with its MessageFailed event.
THEOREM Refinement == Spec => ImplementsOutbox
<1>1. Init => Outbox!BoxInit
  BY DEF Init, Outbox!BoxInit
<1>2. QED
  BY Inductive, RefinementStep, <1>1, PTL
  DEF Spec, ImplementsOutbox, Outbox!BoxSpec
=============================================================================
