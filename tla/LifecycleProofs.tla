--------------------------- MODULE LifecycleProofs ---------------------------
(***************************************************************************)
(* Proofs about Lifecycle for any number of mounts, starts and promises:   *)
(* its four safety properties.                                             *)
(*                                                                         *)
(* None is inductive.  That a running node is served rests on what a start *)
(* under way may rely on while it waits (Calls); the other three, about a  *)
(* hook that is used in order, on what promises may be pending together    *)
(* (InOrder): a start is alone until it has been answered, and whatever    *)
(* the hook and the node disagree on is on its way to the hook.            *)
(***************************************************************************)
EXTENDS Lifecycle, FiniteSetTheorems, TLAPS

\* What holds however the hook is used: a start under way is the last one and
\* the head of the queue, no node has its transport yet, and its tasks live once
\* they were spawned.
Calls ==
  /\ call # NoCall => /\ queue # <<>>
                      /\ Head(queue).op = "start" /\ Head(queue).from = call.from
                      /\ call.id = starts /\ call.id # node.transport
                      /\ call.spawned => call.id \in alive /\ made[call.id].mode = call.mode
  /\ node.transport <= starts
  /\ ~node.running => node.handles = {}
  /\ inits = 0 => /\ Quiet /\ alive = {}
                  /\ ~node.running /\ ~hook

\* What holds while the application waits for each start.
InOrder ==
  orderly =>
    /\ inits <= 1
    /\ \A i \in DOMAIN replies : replies[i].from = inits
    /\ \A i \in DOMAIN queue :
         /\ queue[i].from = inits
         /\ queue[i].op = "start" => i = 1 /\ ~node.running /\ ~hook /\ replies = <<>>
    /\ \A i \in DOMAIN replies : replies[i].op = "stop" => ~node.running
    /\ node.running /\ ~hook => /\ replies # <<>>
                                /\ Head(replies).op = "start" /\ Head(replies).ok
    /\ hook /\ ~node.running => \E i \in DOMAIN replies : replies[i].op = "stop"

\* The inductive invariant.
IInv == TypeOK /\ Calls /\ RunningNodeIsServed /\ InOrder /\ NoZombieTasks

-----------------------------------------------------------------------------
(* Sequences                                                               *)

\* What is left of a sequence whose head is taken.
LEMMA TailFacts ==
  ASSUME NEW S, NEW s \in Seq(S), s # <<>>
  PROVE  /\ Len(s) \in Nat /\ Len(s) >= 1 /\ 1 \in DOMAIN s /\ Head(s) = s[1] /\ Head(s) \in S
         /\ Tail(s) \in Seq(S) /\ Len(Tail(s)) = Len(s) - 1
         /\ \A i \in DOMAIN Tail(s) : i + 1 \in DOMAIN s /\ i + 1 # 1 /\ Tail(s)[i] = s[i + 1]
         /\ \A i \in DOMAIN s \ {1} : i - 1 \in DOMAIN Tail(s) /\ Tail(s)[i - 1] = s[i]
OBVIOUS

\* One element more.
LEMMA AppendFacts ==
  ASSUME NEW S, NEW s \in Seq(S), NEW x \in S
  PROVE  /\ Append(s, x) \in Seq(S) /\ Len(Append(s, x)) = Len(s) + 1 /\ Len(s) \in Nat
         /\ Append(s, x) # <<>>
         /\ DOMAIN Append(s, x) = DOMAIN s \cup {Len(s) + 1} /\ Len(s) + 1 \notin DOMAIN s
         /\ \A i \in DOMAIN s : Append(s, x)[i] = s[i]
         /\ Append(s, x)[Len(s) + 1] = x
         /\ s # <<>> => Head(Append(s, x)) = Head(s)
         /\ s = <<>> => Head(Append(s, x)) = x
OBVIOUS

-----------------------------------------------------------------------------
(* The invariant                                                           *)

\* The inductive invariant holds before the hook is mounted.
LEMMA InitIInv == Init => IInv
<1> SUFFICES ASSUME Init PROVE IInv
  OBVIOUS
<1> USE LifecycleBoundsAssumption DEF Init, FreshNode
<1>1. TypeOK
  <2>1. node \in Node /\ inits \in 0 .. MaxInits /\ starts \in 0 .. MaxStarts
    BY DEF Node
  <2>2. made \in [Id -> Made] /\ statuses \in [1 .. MaxInits -> Nat]
    BY DEF Made
  <2>3. queue \in Seq(Call) /\ replies \in Seq(Reply) /\ Len(queue) + Len(replies) <= MaxPending
    BY DEF Call, Reply
  <2>4. QED
    BY <2>1, <2>2, <2>3 DEF TypeOK
<1>2. Calls /\ RunningNodeIsServed /\ InOrder /\ NoZombieTasks
  BY DEF Calls, RunningNodeIsServed, InOrder, NoZombieTasks, Quiet
<1>3. QED
  BY <1>1, <1>2 DEF IInv

\* The fields of the node, as the type invariant gives them.
LEMMA NodeFacts ==
  ASSUME TypeOK
  PROVE  /\ node.running \in BOOLEAN /\ node.mode \in {0, 3, 4} /\ node.isBeacon \in BOOLEAN
         /\ node.transport \in Id \cup {0} /\ node.handles \subseteq alive
         /\ FreshNode \in Node
BY DEF TypeOK, Node, FreshNode

\* The fields of a start under way, likewise.
LEMMA CallFacts ==
  ASSUME TypeOK, call # NoCall
  PROVE  /\ call \in Starting
         /\ call.id \in Id /\ call.mode \in {0, 3, 4} /\ call.isBeacon \in BOOLEAN
         /\ call.from \in 1 .. MaxInits /\ call.events \in 1 .. MaxInits
         /\ call.spawned \in BOOLEAN
BY DEF TypeOK, Starting

\* A call of the hook, at the head of the queue.
LEMMA HeadFacts ==
  ASSUME TypeOK, queue # <<>>
  PROVE  /\ Head(queue) \in Call /\ Head(queue) = queue[1] /\ 1 \in DOMAIN queue
         /\ Head(queue).from \in 1 .. MaxInits
<1>1. Head(queue) \in Call /\ Head(queue) = queue[1] /\ 1 \in DOMAIN queue
  BY TailFacts DEF TypeOK
<1>2. \A c \in Call : c.from \in 1 .. MaxInits
  BY DEF Call
<1>3. QED
  BY <1>1, <1>2

\* The head of the queue is answered: the promise moves on and the rest stays.
LEMMA AnswerFacts ==
  ASSUME TypeOK, queue # <<>>, NEW ok \in BOOLEAN, NEW op \in {"start", "stop"},
         NEW from \in 1 .. MaxInits,
         queue' = Tail(queue), replies' = Append(replies, [op |-> op, ok |-> ok, from |-> from])
  PROVE  /\ queue' \in Seq(Call) /\ replies' \in Seq(Reply)
         /\ Len(queue') + Len(replies') <= MaxPending
<1>1. [op |-> op, ok |-> ok, from |-> from] \in Reply
  BY DEF Reply
<1>2. queue \in Seq(Call) /\ replies \in Seq(Reply) /\ Len(queue) + Len(replies) <= MaxPending
  BY DEF TypeOK
<1>3. Len(queue') = Len(queue) - 1 /\ queue' \in Seq(Call)
  BY <1>2, TailFacts
<1>4. Len(replies') = Len(replies) + 1 /\ replies' \in Seq(Reply)
  BY <1>1, <1>2, AppendFacts
<1>5. QED
  BY <1>2, <1>3, <1>4, LifecycleBoundsAssumption

-----------------------------------------------------------------------------
(* Types                                                                   *)

\* Every step keeps the types.
LEMMA TypeStep ==
  ASSUME TypeOK, Calls, Next
  PROVE  TypeOK'
<1>1. CASE Mount
  <2>1. node' \in Node /\ node'.handles = {} /\ inits' \in 0 .. MaxInits
    BY <1>1, NodeFacts, LifecycleBoundsAssumption DEF Mount, FreshNode, TypeOK
  <2>2. orderly' \in BOOLEAN /\ hook' \in BOOLEAN
    BY <1>1 DEF Mount
  <2>3. QED
    BY <1>1, <2>1, <2>2 DEF Mount, TypeOK
<1>2. ASSUME NEW mode \in Modes, NEW isBeacon \in BOOLEAN, CallStart(mode, isBeacon)
      PROVE  TypeOK'
  <2> DEFINE c == [op |-> "start", mode |-> mode, isBeacon |-> isBeacon, from |-> inits]
  <2>1. c \in Call
    BY <1>2, ModesAssumption DEF CallStart, Call, TypeOK
  <2>2. queue' \in Seq(Call) /\ Len(queue') = Len(queue) + 1
    BY <1>2, <2>1, AppendFacts DEF CallStart, TypeOK
  <2>3. orderly' \in BOOLEAN
    BY <1>2 DEF CallStart, TypeOK, Quiet
  <2>4. QED
    BY <1>2, <2>2, <2>3, LifecycleBoundsAssumption DEF CallStart, TypeOK
<1>3. CASE CallStop
  <2> DEFINE c == [op |-> "stop", mode |-> 0, isBeacon |-> FALSE, from |-> inits]
  <2>1. c \in Call
    BY <1>3 DEF CallStop, Call, TypeOK
  <2>2. queue' \in Seq(Call) /\ Len(queue') = Len(queue) + 1
    BY <1>3, <2>1, AppendFacts DEF CallStop, TypeOK
  <2>3. QED
    BY <1>3, <2>2, LifecycleBoundsAssumption DEF CallStop, TypeOK
<1>4. CASE HandleReply
  <2>1. replies' \in Seq(Reply) /\ Len(replies') = Len(replies) - 1
    BY <1>4, TailFacts DEF HandleReply, TypeOK
  <2>2. hook' \in BOOLEAN
    BY <1>4, NodeFacts DEF HandleReply, HookAfter, TypeOK
  <2>3. QED
    BY <1>4, <2>1, <2>2, LifecycleBoundsAssumption DEF HandleReply, TypeOK
<1>5. CASE HandleStatus
  <2>1. hook' \in BOOLEAN /\ statuses' \in [1 .. MaxInits -> Nat]
    BY <1>5, NodeFacts DEF HandleStatus, TypeOK
  <2>2. QED
    BY <1>5, <2>1 DEF HandleStatus, TypeOK
<1>6. CASE RefuseStart
  <2>1. Head(queue).op = "start" /\ Head(queue).from \in 1 .. MaxInits
    BY <1>6, HeadFacts DEF RefuseStart
  <2>2. /\ queue' \in Seq(Call) /\ replies' \in Seq(Reply)
        /\ Len(queue') + Len(replies') <= MaxPending
    BY <1>6, <2>1, AnswerFacts DEF RefuseStart, Answer
  <2>3. QED
    BY <1>6, <2>2 DEF RefuseStart, TypeOK
<1>7. CASE BeginStart
  <2>1. Head(queue) \in Call /\ inits \in 1 .. MaxInits
    BY <1>7, TailFacts DEF BeginStart, TypeOK, Calls, Quiet
  <2>2. starts' \in 0 .. MaxStarts /\ starts + 1 \in Id
    BY <1>7, LifecycleBoundsAssumption DEF BeginStart, TypeOK, Id
  <2>3. call' \in Starting
    BY <1>7, <2>1, <2>2 DEF BeginStart, Starting, Call
  <2>4. QED
    BY <1>7, <2>2, <2>3, LifecycleBoundsAssumption DEF BeginStart, TypeOK
<1>8. CASE SpawnTasks
  <2>1. call' \in Starting
    BY <1>8, CallFacts DEF SpawnTasks, Starting
  <2>2. statuses' \in [1 .. MaxInits -> Nat]
    BY <1>8, CallFacts DEF SpawnTasks, TypeOK
  <2>3. [mode |-> call.mode, isBeaconMode |-> call.mode # 0 /\ node.isBeacon,
         events |-> call.events] \in Made
    BY <1>8, CallFacts, NodeFacts DEF SpawnTasks, Made
  <2>4. made' \in [Id -> Made]
    BY <1>8, <2>3, CallFacts DEF SpawnTasks, TypeOK
  <2>5. alive' \subseteq 1 .. starts /\ alive \subseteq alive'
    BY <1>8, CallFacts DEF SpawnTasks, TypeOK, Calls, Id
  <2>6. QED
    BY <1>8, <2>1, <2>2, <2>4, <2>5, NodeFacts DEF SpawnTasks, TypeOK
<1>9. CASE CommitStart
  <2>1. node' \in Node /\ node'.handles \subseteq alive
    BY <1>9, CallFacts DEF CommitStart, Node, Calls
  <2>2. Head(queue).op = "start" /\ Head(queue).from \in 1 .. MaxInits /\ queue # <<>>
    BY <1>9, CallFacts DEF CommitStart, Calls
  <2>3. /\ queue' \in Seq(Call) /\ replies' \in Seq(Reply)
        /\ Len(queue') + Len(replies') <= MaxPending
    BY <1>9, <2>2, AnswerFacts DEF CommitStart, Answer
  <2>4. QED
    BY <1>9, <2>1, <2>3 DEF CommitStart, TypeOK
<1>10. CASE Stop
  <2>1. Head(queue).op = "stop" /\ Head(queue).from \in 1 .. MaxInits
    BY <1>10, HeadFacts DEF Stop
  <2>2. /\ queue' \in Seq(Call) /\ replies' \in Seq(Reply)
        /\ Len(queue') + Len(replies') <= MaxPending
    BY <1>10, <2>1, AnswerFacts DEF Stop, Answer
  <2>3. node' \in Node /\ node'.handles \subseteq alive' /\ alive' \subseteq alive
    BY <1>10, NodeFacts, ZenonT(30) DEF Stop, Abort, Node, TypeOK
  <2>4. QED
    BY <1>10, <2>2, <2>3 DEF Stop, TypeOK
<1>11. QED
  BY <1>1, <1>2, <1>3, <1>4, <1>5, <1>6, <1>7, <1>8, <1>9, <1>10 DEF Next

-----------------------------------------------------------------------------
(* A running node is served                                                *)

\* Every step keeps Calls and RunningNodeIsServed.
LEMMA ServedStep ==
  ASSUME TypeOK, Calls, RunningNodeIsServed, Next
  PROVE  Calls' /\ RunningNodeIsServed'
<1>1. CASE Mount
  <2>1. ~node'.running /\ node'.transport = 0 /\ node'.handles = {} /\ inits' # 0
    BY <1>1 DEF Mount, FreshNode, TypeOK
  <2>2. UNCHANGED <<call, made, alive, queue, starts>>
    BY <1>1 DEF Mount
  <2>3. call # NoCall => call.id # 0
    BY CallFacts DEF Id
  <2>4. QED
    BY <2>1, <2>2, <2>3 DEF Calls, RunningNodeIsServed, TypeOK
<1>2. ASSUME NEW c \in Call, queue' = Append(queue, c), inits > 0,
             UNCHANGED <<inits, node, starts, call, made, alive>>
      PROVE  Calls' /\ RunningNodeIsServed'
  <2>1. queue' # <<>> /\ (queue # <<>> => Head(queue') = Head(queue))
    BY <1>2, AppendFacts DEF TypeOK
  <2>2. QED
    BY <1>2, <2>1 DEF Calls, RunningNodeIsServed
<1>3. CASE \E mode \in Modes, isBeacon \in BOOLEAN : CallStart(mode, isBeacon)
  <2>1. PICK mode \in Modes, isBeacon \in BOOLEAN : CallStart(mode, isBeacon)
    BY <1>3
  <2>2. [op |-> "start", mode |-> mode, isBeacon |-> isBeacon, from |-> inits] \in Call
    BY <2>1, ModesAssumption DEF CallStart, Call, TypeOK
  <2>3. QED
    BY <1>2, <2>1, <2>2 DEF CallStart
<1>4. CASE CallStop
  <2>1. [op |-> "stop", mode |-> 0, isBeacon |-> FALSE, from |-> inits] \in Call
    BY <1>4 DEF CallStop, Call, TypeOK
  <2>2. QED
    BY <1>2, <1>4, <2>1 DEF CallStop
<1>5. CASE HandleReply \/ HandleStatus
  <2>1. UNCHANGED <<inits, node, starts, call, made, alive, queue>> /\ inits # 0
    BY <1>5 DEF HandleReply, HandleStatus, Calls, Quiet
  <2>2. QED
    BY <2>1 DEF Calls, RunningNodeIsServed
<1>6. CASE RefuseStart
  <2>1. UNCHANGED <<inits, node, starts, call, made, alive>> /\ call = NoCall /\ inits # 0
    BY <1>6 DEF RefuseStart, Calls, Quiet
  <2>2. QED
    BY <2>1 DEF Calls, RunningNodeIsServed
<1>7. CASE BeginStart
  <2>1. /\ call'.id = starts' /\ starts' = starts + 1 /\ ~call'.spawned
        /\ Head(queue).op = "start" /\ queue # <<>> /\ call'.from = Head(queue).from
        /\ UNCHANGED <<inits, node, made, alive, queue>> /\ inits # 0
    BY <1>7 DEF BeginStart, Calls, Quiet
  <2>2. node.transport <= starts /\ starts \in Nat /\ node.transport \in Nat
    BY NodeFacts DEF Calls, TypeOK, Id
  <2>3. QED
    BY <2>1, <2>2 DEF Calls, RunningNodeIsServed
<1>8. CASE SpawnTasks
  <2>1. /\ call'.id = call.id /\ call'.from = call.from /\ call'.mode = call.mode
        /\ UNCHANGED <<inits, node, starts, queue>> /\ inits # 0
        /\ call # NoCall /\ alive' = alive \cup {call.id}
    BY <1>8, CallFacts DEF SpawnTasks, Starting, Calls, Quiet
  <2>2. /\ made'[call.id].mode = call.mode
        /\ \A i \in Id \ {call.id} : made'[i] = made[i]
    BY <1>8, CallFacts DEF SpawnTasks, TypeOK
  <2>3. call.id # node.transport /\ (node.running => node.transport \in Id)
    BY <2>1, NodeFacts DEF Calls, RunningNodeIsServed, TypeOK, Id
  <2>4. Calls'
    BY <2>1, <2>2 DEF Calls
  <2>5. RunningNodeIsServed'
    BY <2>1, <2>2, <2>3 DEF RunningNodeIsServed
  <2>6. QED
    BY <2>4, <2>5
<1>9. CASE CommitStart
  <2>1. /\ node'.running /\ node'.mode = call.mode /\ node'.transport = call.id
        /\ node'.handles = {call.id} /\ call' = NoCall
        /\ UNCHANGED <<inits, starts, made, alive>>
        /\ call.id \in alive /\ made[call.id].mode = call.mode /\ call.id = starts
        /\ inits # 0
    BY <1>9 DEF CommitStart, Calls, Quiet
  <2>2. QED
    BY <2>1 DEF Calls, RunningNodeIsServed, TypeOK
<1>10. CASE Stop
  <2>1. /\ ~node'.running /\ node'.handles = {} /\ node'.transport = node.transport
        /\ UNCHANGED <<inits, starts, call>> /\ call = NoCall /\ inits # 0
    BY <1>10, NodeFacts DEF Stop, Abort, Calls, Quiet, TypeOK, Node
  <2>2. QED
    BY <2>1 DEF Calls, RunningNodeIsServed
<1>11. QED
  BY <1>1, <1>3, <1>4, <1>5, <1>6, <1>7, <1>8, <1>9, <1>10 DEF Next

-----------------------------------------------------------------------------
(* A hook that is used in order                                            *)

\* The promise of a stop is in the queue or on its way: the node does not run
\* once it has been answered.
LEMMA StopAnswered ==
  ASSUME TypeOK, InOrder, orderly, queue # <<>>, UNCHANGED <<inits, orderly, hook>>,
         NEW ok \in BOOLEAN,
         Answer(Head(queue), ok),
         Head(queue).op = "stop", ~node'.running
  PROVE  InOrder'
<1> DEFINE r == [op |-> "stop", ok |-> ok, from |-> Head(queue).from]
<1>1. r \in Reply /\ r.from = inits /\ r.op = "stop"
  BY HeadFacts DEF Reply, InOrder
<1>2. queue \in Seq(Call) /\ replies \in Seq(Reply)
  BY DEF TypeOK
<1>3. /\ DOMAIN replies' = DOMAIN replies \cup {Len(replies) + 1}
      /\ replies'[Len(replies) + 1] = r /\ \A i \in DOMAIN replies : replies'[i] = replies[i]
  BY <1>1, <1>2, AppendFacts DEF Answer
<1>4. \A i \in DOMAIN queue' : i + 1 \in DOMAIN queue /\ i + 1 # 1 /\ queue'[i] = queue[i + 1]
  BY <1>2, TailFacts DEF Answer
<1>5. \A i \in DOMAIN queue' : queue'[i].from = inits /\ queue'[i].op # "start"
  BY <1>4 DEF InOrder
<1>6. \A i \in DOMAIN replies' : replies'[i].from = inits
  BY <1>1, <1>3 DEF InOrder
<1>7. \E i \in DOMAIN replies' : replies'[i].op = "stop"
  BY <1>1, <1>3
<1>8. QED
  BY <1>5, <1>6, <1>7 DEF InOrder

\* Every step keeps InOrder and NoZombieTasks.
LEMMA InOrderStep ==
  ASSUME IInv, Next
  PROVE  InOrder' /\ NoZombieTasks'
<1> SUFFICES ASSUME orderly' PROVE InOrder' /\ NoZombieTasks'
  BY DEF InOrder, NoZombieTasks
<1> USE DEF IInv
<1>0. queue \in Seq(Call) /\ replies \in Seq(Reply)
  BY DEF TypeOK
<1>1. CASE Mount
  <2>1. inits = 0
    BY <1>1 DEF Mount
  <2>2. inits' = 1 /\ node' = FreshNode /\ ~hook' /\ UNCHANGED <<alive, queue, replies>>
    BY <1>1, <2>1 DEF Mount
  <2>3. alive = {} /\ queue = <<>> /\ replies = <<>>
    BY <2>1 DEF Calls, Quiet
  <2>4. ~node'.running
    BY <2>2 DEF FreshNode
  <2>5. QED
    BY <2>2, <2>3, <2>4 DEF InOrder, NoZombieTasks
<1>2. ASSUME NEW c \in Call, queue' = Append(queue, c), c.from = inits, orderly,
             UNCHANGED <<inits, node, call, alive, replies, hook>>,
             c.op = "start" => Quiet /\ ~hook
      PROVE  InOrder' /\ NoZombieTasks'
  <2>1. /\ DOMAIN queue' = DOMAIN queue \cup {Len(queue) + 1}
        /\ queue'[Len(queue) + 1] = c /\ \A i \in DOMAIN queue : queue'[i] = queue[i]
    BY <1>0, <1>2, AppendFacts
  <2>2. c.op = "start" => Len(queue) + 1 = 1 /\ ~node.running /\ ~hook /\ replies = <<>>
    BY <1>2 DEF Quiet, InOrder
  <2>3. \A i \in DOMAIN queue' :
          /\ queue'[i].from = inits
          /\ queue'[i].op = "start" => i = 1 /\ ~node.running /\ ~hook /\ replies = <<>>
    BY <1>2, <2>1, <2>2 DEF InOrder
  <2>4. InOrder'
    BY <1>2, <2>3 DEF InOrder
  <2>5. QED
    BY <1>2, <2>4 DEF NoZombieTasks
<1>3. CASE \E mode \in Modes, isBeacon \in BOOLEAN : CallStart(mode, isBeacon)
  <2>1. PICK mode \in Modes, isBeacon \in BOOLEAN : CallStart(mode, isBeacon)
    BY <1>3
  <2>2. [op |-> "start", mode |-> mode, isBeacon |-> isBeacon, from |-> inits] \in Call
    BY <2>1, ModesAssumption DEF CallStart, Call, TypeOK
  <2>3. QED
    BY <1>2, <2>1, <2>2 DEF CallStart
<1>4. CASE CallStop
  <2>1. [op |-> "stop", mode |-> 0, isBeacon |-> FALSE, from |-> inits] \in Call
    BY <1>4 DEF CallStop, Call, TypeOK
  <2>2. QED
    BY <1>2, <1>4, <2>1 DEF CallStop
<1>5. CASE HandleReply
  <2>1. /\ replies # <<>> /\ replies' = Tail(replies) /\ orderly
        /\ UNCHANGED <<inits, node, call, alive, queue>>
    BY <1>5 DEF HandleReply
  <2>2. hook' = HookAfter(Head(replies))
    BY <1>0, <1>5, <2>1, TailFacts DEF HandleReply, InOrder
  <2>3. /\ 1 \in DOMAIN replies /\ Head(replies) = replies[1]
        /\ \A i \in DOMAIN replies' : i + 1 \in DOMAIN replies /\ replies'[i] = replies[i + 1]
        /\ \A i \in DOMAIN replies \ {1} : i - 1 \in DOMAIN replies' /\ replies'[i - 1] = replies[i]
    BY <1>0, <2>1, TailFacts
  <2>4. \A i \in DOMAIN queue : queue[i].op # "start"
    BY <2>1 DEF InOrder
  <2>5. \A i \in DOMAIN replies' : /\ replies'[i].from = inits
                                   /\ replies'[i].op = "stop" => ~node.running
    BY <2>1, <2>3 DEF InOrder
  <2>6. ~(node.running /\ ~hook')
    BY <2>1, <2>2, <2>3 DEF HookAfter, InOrder
  <2>7. hook' /\ ~node.running => \E i \in DOMAIN replies' : replies'[i].op = "stop"
    BY <2>1, <2>2, <2>3, ZenonT(30) DEF HookAfter, InOrder
  <2>8. InOrder'
    BY <2>1, <2>4, <2>5, <2>6, <2>7 DEF InOrder
  <2>9. QED
    BY <2>1, <2>8 DEF NoZombieTasks
<1>6. CASE HandleStatus
  <2>1. UNCHANGED <<inits, node, call, alive, queue, replies>> /\ hook' = node.running /\ orderly
    BY <1>6 DEF HandleStatus
  <2>2. QED
    BY <2>1 DEF InOrder, NoZombieTasks
<1>7. CASE RefuseStart
  <2>1. orderly /\ node.running /\ queue # <<>> /\ Head(queue).op = "start"
    BY <1>7 DEF RefuseStart
  <2>2. FALSE
    BY <2>1, HeadFacts DEF InOrder
  <2>3. QED
    BY <2>2
<1>8. CASE BeginStart
  <2>1. UNCHANGED <<inits, node, alive, queue, replies, hook>> /\ orderly /\ call = NoCall
    BY <1>8 DEF BeginStart
  <2>2. 0 \notin alive
    BY DEF TypeOK
  <2>3. alive \subseteq node.handles
    BY <2>1, <2>2 DEF NoZombieTasks, NoCall
  <2>4. QED
    BY <2>1, <2>3 DEF InOrder, NoZombieTasks
<1>9. CASE SpawnTasks
  <2>1. /\ UNCHANGED <<inits, node, queue, replies, hook>> /\ orderly
        /\ call'.id = call.id /\ alive' = alive \cup {call.id}
    BY <1>9, CallFacts DEF SpawnTasks, Starting
  <2>2. QED
    BY <2>1 DEF InOrder, NoZombieTasks
<1>10. CASE CommitStart
  <2> DEFINE r == [op |-> "start", ok |-> TRUE, from |-> Head(queue).from]
  <2>1. /\ orderly /\ queue # <<>> /\ Head(queue).op = "start"
        /\ node'.handles = {call.id} /\ call' = NoCall /\ node'.running
        /\ UNCHANGED <<inits, hook, alive>>
        /\ queue' = Tail(queue) /\ replies' = Append(replies, r)
    BY <1>10 DEF CommitStart, Answer, Calls
  <2>2. ~node.running /\ ~hook /\ replies = <<>> /\ Head(queue).from = inits
    BY <2>1, HeadFacts DEF InOrder
  <2>3. r \in Reply /\ r.op = "start" /\ r.ok /\ r.from = inits
    BY <2>1, <2>2, HeadFacts DEF Reply
  <2>4. replies' # <<>> /\ Head(replies') = r /\ \A i \in DOMAIN replies' : replies'[i] = r
    <3> HIDE DEF r
    <3>1. replies' = <<r>>
      BY <2>1, <2>2
    <3>2. QED
      BY <3>1
  <2>5. \A i \in DOMAIN queue' : queue'[i].from = inits /\ queue'[i].op # "start"
    BY <1>0, <2>1, TailFacts DEF InOrder
  <2>6. InOrder'
    BY <2>1, <2>2, <2>3, <2>4, <2>5 DEF InOrder
  <2>7. node.handles = {}
    BY <2>2 DEF Calls
  <2>8. QED
    BY <2>1, <2>6, <2>7 DEF NoZombieTasks
<1>11. CASE Stop
  <2>1. /\ orderly /\ call = NoCall /\ queue # <<>> /\ Head(queue).op = "stop"
        /\ Answer(Head(queue), TRUE) /\ UNCHANGED <<inits, orderly, hook, call>>
    BY <1>11 DEF Stop
  <2>2. ~node'.running
    BY <1>11, NodeFacts DEF Stop, Abort, TypeOK, Node
  <2>3. InOrder'
    BY <2>1, <2>2, StopAnswered
  <2>4. 0 \notin alive
    BY DEF TypeOK
  <2>5. alive \subseteq node.handles
    BY <2>1, <2>4 DEF NoZombieTasks, NoCall
  <2>6. alive' = {}
    BY <1>11, <2>5 DEF Stop, Abort, Calls
  <2>7. QED
    BY <2>3, <2>6 DEF NoZombieTasks
<1>12. QED
  BY <1>1, <1>3, <1>4, <1>5, <1>6, <1>7, <1>8, <1>9, <1>10, <1>11 DEF Next

-----------------------------------------------------------------------------
(* The theorems                                                            *)

\* Every step keeps the inductive invariant.
LEMMA StepIInv == IInv /\ [Next]_vars => IInv'
<1>1. ASSUME IInv, Next PROVE IInv'
  BY <1>1, TypeStep, ServedStep, InOrderStep DEF IInv
<1>2. ASSUME IInv, UNCHANGED vars PROVE IInv'
  BY <1>2 DEF IInv, vars, TypeOK, Calls, RunningNodeIsServed, InOrder, NoZombieTasks, Quiet
<1>3. QED
  BY <1>1, <1>2

\* The inductive invariant holds in every reachable state.
LEMMA SpecIInv == Spec => []IInv
BY InitIInv, StepIInv, PTL DEF Spec

\* The types of the node, of its calls and of its tasks.
THEOREM TypeCorrect == Spec => []TypeOK
BY SpecIInv, PTL DEF IInv

\* Whatever mounts, starts and stops came before, a node that says it runs has
\* the live tasks of one start, made for its mode, and stop will abort them.
THEOREM RunningIsServed == Spec => []RunningNodeIsServed
BY SpecIInv, PTL DEF IInv

\* No stop, start or change of mode of a hook used in order leaves tasks behind.
THEOREM NoZombies == Spec => []NoZombieTasks
BY SpecIInv, PTL DEF IInv

\* Once nothing is pending, a hook used in order shows what the node is.
THEOREM HookIsRight == Spec => []HookAgrees
<1>1. IInv => HookAgrees
  <2> SUFFICES ASSUME IInv, orderly, Quiet PROVE hook = node.running
    BY DEF HookAgrees
  <2>1. ~(node.running /\ ~hook) /\ ~(hook /\ ~node.running)
    BY DEF IInv, InOrder, Quiet
  <2>2. hook \in BOOLEAN /\ node.running \in BOOLEAN
    BY NodeFacts DEF IInv, TypeOK
  <2>3. QED
    BY <2>1, <2>2
<1>2. QED
  BY <1>1, SpecIInv, PTL

\* At most one transport polls the queues of BLE and NUS, which the process has
\* once, while no start is under way.
THEOREM OnePoller == Spec => []OneBlePoller
<1>1. IInv => OneBlePoller
  <2> SUFFICES ASSUME IInv, orderly, call = NoCall
               PROVE  Cardinality({s \in Transports : ModeOf(s) # 3}) <= 1
    BY DEF OneBlePoller
  <2> DEFINE P == {s \in Transports : ModeOf(s) # 3}
  <2>1. call.id = 0 /\ 0 \notin alive
    BY DEF NoCall, IInv, TypeOK
  <2>2. alive \subseteq node.handles
    BY <2>1 DEF IInv, NoZombieTasks
  <2>3. node.handles \subseteq {node.transport}
    BY DEF IInv, RunningNodeIsServed, Calls
  <2>4. P \subseteq {node.transport}
    BY <2>1, <2>2, <2>3 DEF Transports
  <2>5. Cardinality({node.transport}) = 1 /\ IsFiniteSet({node.transport})
    BY FS_Singleton
  <2>6. Cardinality(P) <= Cardinality({node.transport})
    BY <2>4, <2>5, FS_Subset
  <2>7. QED
    BY <2>5, <2>6
<1>2. QED
  BY <1>1, SpecIInv, PTL
=============================================================================
