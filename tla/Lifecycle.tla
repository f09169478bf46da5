----------------------------- MODULE Lifecycle -----------------------------
(***************************************************************************)
(* init, start and stop of the node (rust-core/src/node.rs), as the hook   *)
(* of expo-module/src/useLxmf.ts calls them through the native module.     *)
(*                                                                         *)
(* start and stop are AsyncFunctions: the native module runs them one at a *)
(* time, in order, on a queue of its own.  init and getStatus are plain    *)
(* Functions: they run on the JavaScript thread, also in the middle of a   *)
(* start, which waits two seconds between reading the node and writing it. *)
(*                                                                         *)
(* A started set of tasks, its transport and its interfaces are known by   *)
(* the number of the start that made them.                                 *)
(***************************************************************************)
EXTENDS Naturals, Sequences, FiniteSets

CONSTANTS
  Modes,      \* modes the application starts: a subset of {0, 3, 4}
  MaxInits,   \* bound of the model: mounts of the hook
  MaxStarts,  \* bound of the model: calls of start
  MaxPending  \* bound of the model: promises of start and stop at one time

ASSUME ModesAssumption == Modes \subseteq {0, 3, 4}
ASSUME LifecycleBoundsAssumption ==
  /\ MaxInits \in Nat \ {0} /\ MaxStarts \in Nat \ {0}
  /\ MaxPending \in Nat \ {0}

VARIABLES
  inits,      \* init calls so far: the number of the current node
  node,       \* the fields of the current node
  starts,     \* start calls the native module began so far
  call,       \* the start under way; NoCall if none
  made,       \* what each start gave its tasks
  alive,      \* starts whose tasks run
  queue,      \* calls the AsyncFunction queue holds
  replies,    \* promises settled on their way to JavaScript
  hook,       \* state "running" of the mounted hook
  statuses,   \* StatusChanged events in the queue of each node
  orderly     \* history: the hook mounted once, and start was only called while
              \* the hook showed a stopped node and nothing was pending

vars == <<inits, node, starts, call, made, alive, queue, replies, hook,
          statuses, orderly>>

Id == 1 .. MaxStarts
Node == [running : BOOLEAN, mode : {0, 3, 4}, isBeacon : BOOLEAN,
         transport : Id \cup {0}, handles : SUBSET Id]
FreshNode == [running |-> FALSE, mode |-> 0, isBeacon |-> FALSE,
              transport |-> 0, handles |-> {}]

\* A call of the hook that was mounted by init number "from".
Call == [op : {"start", "stop"}, mode : {0, 3, 4}, isBeacon : BOOLEAN,
         from : 1 .. MaxInits]
Reply == [op : {"start", "stop"}, ok : BOOLEAN, from : 1 .. MaxInits]

\* The start under way: its arguments, its number, the node whose event queue
\* it took, and whether its tasks were spawned.
NoCall == [id |-> 0]
Starting == [id : Id, mode : {0, 3, 4}, isBeacon : BOOLEAN,
             from : 1 .. MaxInits, events : 1 .. MaxInits, spawned : BOOLEAN]

\* What tasks keep for their whole life: the mode that made them, whether the
\* data receiver answers RPC requests, and the node whose event queue they fill.
Made == [mode : {0, 3, 4}, isBeaconMode : BOOLEAN, events : 0 .. MaxInits]

TypeOK ==
  /\ inits \in 0 .. MaxInits
  /\ node \in Node
  /\ node.handles \subseteq alive
  /\ starts \in 0 .. MaxStarts
  /\ call = NoCall \/ call \in Starting
  /\ made \in [Id -> Made]
  /\ alive \subseteq 1 .. starts
  /\ queue \in Seq(Call) /\ Len(queue) + Len(replies) <= MaxPending
  /\ replies \in Seq(Reply)
  /\ hook \in BOOLEAN
  /\ statuses \in [1 .. MaxInits -> Nat]
  /\ orderly \in BOOLEAN

Init ==
  /\ inits = 0
  /\ node = FreshNode
  /\ starts = 0
  /\ call = NoCall
  /\ made = [i \in Id |-> [mode |-> 0, isBeaconMode |-> FALSE, events |-> 0]]
  /\ alive = {}
  /\ queue = <<>>
  /\ replies = <<>>
  /\ hook = FALSE
  /\ statuses = [n \in 1 .. MaxInits |-> 0]
  /\ orderly = TRUE

\* No call is under way and no promise is pending.
Quiet == queue = <<>> /\ call = NoCall /\ replies = <<>>

-----------------------------------------------------------------------------
(* The hook                                                                *)

\* The init effect of a mounting hook: init replaces the node whatever it does,
\* so isRunning then answers FALSE.  The handles of the old node are dropped,
\* which detaches its tasks.  The promises of the old hook go nowhere.
Mount ==
  /\ inits < MaxInits
  /\ inits' = inits + 1
  /\ orderly' = (inits = 0)
  /\ node' = FreshNode
  /\ hook' = FALSE
  /\ UNCHANGED <<starts, call, made, alive, queue, replies, statuses>>

\* start of the hook: it does not ask whether a node runs.
CallStart(mode, isBeacon) ==
  /\ inits > 0
  /\ Len(queue) + Len(replies) < MaxPending
  /\ orderly' = (orderly /\ Quiet /\ ~hook)
  /\ queue' = Append(queue, [op |-> "start", mode |-> mode,
                             isBeacon |-> isBeacon, from |-> inits])
  /\ UNCHANGED <<inits, node, starts, call, made, alive, replies, hook, statuses>>

CallStop ==
  /\ inits > 0
  /\ Len(queue) + Len(replies) < MaxPending
  /\ queue' = Append(queue, [op |-> "stop", mode |-> 0, isBeacon |-> FALSE,
                             from |-> inits])
  /\ UNCHANGED <<inits, node, starts, call, made, alive, replies, hook, statuses,
                 orderly>>

\* Mutant: a stop leaves the state of the hook as it was.
HookIgnoresStop(reply) ==
  IF reply.op = "start" /\ reply.ok THEN node.running ELSE hook

\* After start the hook asks for the status; after stop it does not.  A start
\* that failed throws on Android and is taken for a success on iOS, where the
\* status then corrects it: both leave the hook with what the node says, or as
\* it was.
HookAfter(reply) ==
  CASE reply.op = "stop" -> FALSE
    [] reply.op = "start" /\ reply.ok -> node.running
    [] OTHER -> hook

HandleReply ==
  /\ replies # <<>>
  /\ replies' = Tail(replies)
  /\ hook' = IF Head(replies).from = inits THEN HookAfter(Head(replies)) ELSE hook
  /\ UNCHANGED <<inits, node, starts, call, made, alive, queue, statuses,
                 orderly>>

\* The poll delivers StatusChanged; the listener asks for the status.
HandleStatus ==
  /\ inits > 0
  /\ statuses[inits] > 0
  /\ statuses' = [statuses EXCEPT ![inits] = 0]
  /\ hook' = node.running
  /\ UNCHANGED <<inits, node, starts, call, made, alive, queue, replies,
                 orderly>>

-----------------------------------------------------------------------------
(* start                                                                   *)

Answer(c, ok) ==
  /\ queue' = Tail(queue)
  /\ replies' = Append(replies, [op |-> c.op, ok |-> ok, from |-> c.from])

\* start_ble alone refuses to start a node that runs.
RefuseStart ==
  LET c == Head(queue) IN
  /\ call = NoCall
  /\ queue # <<>> /\ c.op = "start"
  /\ c.mode = 0 /\ node.running
  /\ Answer(c, FALSE)
  /\ UNCHANGED <<inits, node, starts, call, made, alive, hook, statuses,
                 orderly>>

\* The event queue of the current node is taken, then the transport and its
\* interfaces are made, with a wait of 0.2 to 2.2 s, and no lock is held.
BeginStart ==
  LET c == Head(queue) IN
  /\ call = NoCall
  /\ queue # <<>> /\ c.op = "start"
  /\ ~(c.mode = 0 /\ node.running)
  /\ starts < MaxStarts
  /\ starts' = starts + 1
  /\ call' = [id |-> starts + 1, mode |-> c.mode, isBeacon |-> c.isBeacon,
              from |-> c.from, events |-> inits, spawned |-> FALSE]
  /\ UNCHANGED <<inits, node, made, alive, queue, replies, hook, statuses,
                 orderly>>

\* The tasks of the TCP modes read is_beacon from the node, which the previous
\* start wrote; mode 0 serves no RPC.
SpawnTasks ==
  /\ call # NoCall
  /\ ~call.spawned
  /\ call' = [call EXCEPT !.spawned = TRUE]
  /\ statuses' = [statuses EXCEPT ![call.events] = @ + 1]
  /\ made' = [made EXCEPT ![call.id] =
                [mode |-> call.mode,
                 isBeaconMode |-> call.mode # 0 /\ node.isBeacon,
                 events |-> call.events]]
  /\ alive' = alive \cup {call.id}
  /\ UNCHANGED <<inits, node, starts, queue, replies, hook, orderly>>

\* Update node state: the previous handles are dropped, not aborted.
CommitStart ==
  /\ call # NoCall
  /\ call.spawned
  /\ node' = [running |-> TRUE, mode |-> call.mode, isBeacon |-> call.isBeacon,
              transport |-> call.id, handles |-> {call.id}]
  /\ call' = NoCall
  /\ Answer(Head(queue), TRUE)
  /\ UNCHANGED <<inits, starts, made, alive, hook, statuses, orderly>>

-----------------------------------------------------------------------------
(* stop                                                                    *)

\* Mutants: the tasks are not aborted; the handles are not drained; the node
\* still counts as running.
AbortNothing ==
  /\ UNCHANGED alive
  /\ node' = [node EXCEPT !.handles = {}, !.running = FALSE]
AbortKeepsRunning ==
  /\ alive' = alive \ node.handles
  /\ node' = [node EXCEPT !.handles = {}]

\* Every handle is aborted; the node keeps its transport.
Abort ==
  /\ alive' = alive \ node.handles
  /\ node' = [node EXCEPT !.handles = {}, !.running = FALSE]

Stop ==
  LET c == Head(queue) IN
  /\ call = NoCall
  /\ queue # <<>> /\ c.op = "stop"
  /\ IF node.running THEN Abort ELSE UNCHANGED <<node, alive>>
  /\ Answer(c, TRUE)
  /\ UNCHANGED <<inits, starts, call, made, hook, statuses, orderly>>

-----------------------------------------------------------------------------
Next ==
  \/ Mount
  \/ \E mode \in Modes, isBeacon \in BOOLEAN : CallStart(mode, isBeacon)
  \/ CallStop
  \/ HandleReply
  \/ HandleStatus
  \/ RefuseStart
  \/ BeginStart
  \/ SpawnTasks
  \/ CommitStart
  \/ Stop

Spec == Init /\ [][Next]_vars

-----------------------------------------------------------------------------
(* Safety                                                                  *)

\* A node that says it runs has a live set of tasks, made for its mode, which
\* stop will abort: whatever mounts, starts and stops came before.
RunningNodeIsServed ==
  node.running =>
    /\ node.transport \in alive
    /\ node.handles = {node.transport}
    /\ made[node.transport].mode = node.mode

\* Once nothing is pending, the hook shows what the node is (status sync of
\* useLxmf), if the application uses it in order.
HookAgrees ==
  orderly /\ Quiet /\ (inits > 0 => statuses[inits] = 0) => hook = node.running

\* The transports that exist: a transport lives as long as the node, a start
\* under way or a task holds it.
Transports == alive \cup ({node.transport, call.id} \ {0})
ModeOf(s) == IF call.id = s THEN call.mode ELSE made[s].mode

\* The queues of the BLE and NUS interfaces are shared by the whole process: but
\* while a start is under way, at most one transport polls them.
OneBlePoller ==
  orderly /\ call = NoCall => Cardinality({s \in Transports : ModeOf(s) # 3}) <= 1

\* node.rs, task_handles: "Aborted on stop() to prevent zombie tasks
\* accumulating across Stop/Start cycles and mode switches".  Only the tasks of
\* the running node, or of the start under way, are alive.
NoZombieTasks == orderly => alive \subseteq node.handles \cup {call.id}
=============================================================================
