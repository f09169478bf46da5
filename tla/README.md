# TLA+ models of react-native-lxmf

`react-native-lxmf` lets a React Native application send LXMF messages over
Reticulum: through TCP hubs, a BLE mesh of phones, or a LoRa modem (RNode) on a
BLE serial link. The core is a Rust library (`rust-core`), wrapped by a native
module for each platform (`expo-module/ios`, `expo-module/android`) and a
TypeScript hook (`expo-module/src/useLxmf.ts`).

This directory holds TLA+ specifications of the parts whose correctness depends
on the order in which threads, tasks, callbacks and messages meet, the TLC
configurations that check them, and proofs about nine of them.

Paths are relative to the repository. "node.rs" and the like stand for
`rust-core/src/node.rs`.

## The system

| Component | Source | State it keeps | Operations |
|---|---|---|---|
| Outbound queue | node.rs, store.rs | `pending_sends` in memory, table `outbound_queue`, `outbound_sent` (seq), `peer_identities` | `send_to`, flush on announce, periodic retry, reload on start |
| Node lifecycle | node.rs, useLxmf.ts, LxmfModule.* | `running`, `transport`, `task_handles`, `is_beacon`, the hook's `isRunning` | `init`, `start` (three modes), `stop`, status sync |
| Beacon RPC, client | beacon.rs, node.rs, ffi.rs, useLxmf.ts | `next_rpc_id`, `in_flight`, `pending_rpcs`, the promises | `queue_rpc`, dispatch task, `on_rpc_bytes`, `beaconRpcWait` |
| Events and inbox | node.rs, ffi.rs, log_bridge.rs, useLxmf.ts | `events`, table `messages`, log ring, `EVENT_ID`, the hook's buffer | persist, push, drain and stamp, poll, `pushEvent` |
| BLE interface | ble_iface.rs | shared RX and TX queues, `ble_peers`, write limits, rate windows, assemblies | connect, disconnect, MTU, RX, segment, reassemble, poll |
| Native BLE managers | BleManager.kt, BLEManager.swift | connections of the two roles, subscribers, cooldowns | scan, connect, GATT callbacks, drain |
| NUS interface (RNode) | nus_iface.rs, NusManager.kt, LxmfModule.swift | two queues, the KISS deframer | connect, RX, TX, `spawn` |
| Framing | framing.rs | HDLC and KISS deframers | `feed`, `encode` |
| Beacon directory | beacon.rs | names of beacons; states, back-off and burst, which nothing uses | `on_announce_received` |
| Beacon server | beacon_server.rs | none | request dispatch, co-signing, instruction checks |
| Group channels | group.rs, node.rs | joined groups and keys | create, join, leave, send, receive |
| LXMF wire | node.rs | none | normalise, encode, decode, verify |
| Solana transactions | solana_tx.rs | none | building of byte strings |
| Store | store.rs | SQLite tables | inserts, queries, pruning |
| FFI and JNI | ffi.rs, jni_bridge.rs | the global node | argument conversion |
| Embedded interface | embedded_iface.rs | handles of an external runtime | start, stop |

How they meet:

- JavaScript calls the native module. `init`, `getStatus` and the getters are
  plain functions on the JavaScript thread. `start`, `stop` and the senders are
  `AsyncFunction`s, which one native queue runs one at a time; an application
  that links the C API of ffi.rs may call them from any thread.
- The Rust node is one global behind a mutex (`parking_lot`), held for short
  sections. What awaits is done by tokio tasks that own clones of the node's
  `Arc`s: the announce receiver, the data, resource and group receivers, the RPC
  dispatch task, the periodic retry, the re-announce. `stop` aborts them; a task
  that drained something and is aborted drops it.
- The transport is the external crate `rns_transport`, behind a tokio mutex that
  tasks hold across a whole batch.
- The BLE and NUS interfaces exchange bytes with native code through process-wide
  static queues that a 10 ms loop polls.
- Events go from the tasks into a queue, which the native module polls and hands
  to the hook; the hook keeps a buffer, and consumers read it behind a watermark
  of event ids.

What is hard about it: the same message is visible to several tasks at once and
each settles memory and table in its own order; the process may die anywhere;
`start` is not atomic and runs beside `init`; radio frames get lost and the
reassembly has no packet ids; answers of beacons come late, twice or never; and
every buffer on the way of an event has a cap of its own.

What makes each component correct:

- *Outbound queue*: a message `send_to` accepted durably is never stranded; it
  leaves the table only by delivery or by a reported failure; reports are true;
  every row is resolved in the end.
- *Lifecycle*: a running node has a live set of tasks, made for its mode, that
  `stop` reaches; hook and node agree when all is quiet; one transport polls BLE.
- *RPC*: each call is dispatched once, answered once, under its own method, and
  settles its own promise.
- *Events*: what the application hears of is stored; it reads every message at
  most once and in order; what is lost is lost by a cap.
- *BLE link*: no peer's loss damages another peer's packets; blobs are
  well-formed; without losses packets arrive whole, once and in order.
- *Native BLE managers*: the set of peers Rust knows is the set of peers with a
  usable role; no connection is lost, and none waits for answers nobody hears.
- *Framing, NUS*: decoding a fragmented, encoded stream yields the packets;
  damage costs at most the frames it hits; no RNode is connected twice.
- *Inbound*: a message is read as its sender meant it; a signature decides as soon
  as the source is known; a receiver always comes back to its channel.
- *Beacon server*: what it submits is signed by its payer and by itself over the
  same bytes and pays what was asked; each request it takes is answered.

## Modules

| Module | What it models |
|---|---|
| `DurableOutbox` | what the table `outbound_queue` promises, across stops and crashes |
| `OutboundQueue` | `send_to`, the announce flush, the retry task, start, stop, crash; implements `DurableOutbox` |
| `BeaconRpc` | a call from `beaconRpcWait` to the beacon and back |
| `Lifecycle` | `init`, `start`, `stop`, the serial queue of the native module, the hook |
| `EventPipeline` | receivers, event queue, poll, hook, consumer |
| `BleLink` | segmentation, native queues, rate limit, reassembly between peers |
| `BlePeers` | what both BLE managers tell Rust |
| `AndroidBle` | the two BLE roles of BleManager.kt and the peers Rust knows |
| `IosBle` | the same of BLEManager.swift, with its connections to RNodes |
| `AndroidNus` | scan, pairing and connections of NusManager.kt |
| `Framing` | the HDLC and KISS codecs, as functions on bytes |
| `NusLink` | notifications of RNodes, their queue, the KISS deframer of the interface; extends `AndroidNus` and `Framing` |
| `LxmfWire` | MessagePack, fields, stripped wires, signed region and signature of a message |
| `LxmfMessages` | no code: the payloads LXMF clients pack, as a grammar on bytes, for the proofs |
| `SolanaTx` | the transactions solana_tx.rs builds, signs and verifies |
| `CoSign` | the payments of clients through a beacon, over Solana |
| `Inbound` | the channels and the data, resource and group receivers; extends `LxmfWire` and `CoSign` |
| `Options` | `Option<T>` |
| `OutboundQueueProofs`, `LifecycleProofs`, `BeaconRpcProofs`, `EventPipelineProofs`, `BleLinkProofs`, `NusLinkProofs` | TLAPS proofs about the module in their name |
| `BleManagersProofs` | proofs about `AndroidBle` and `IosBle` |
| `InboundProofs` | proofs about `CoSign`, `Inbound` and the readers and writers of `LxmfWire` |
| `MC...` | the model values each is checked with |

A step of a model ends where the code awaits, releases a lock another actor
takes, or returns to its caller. A definition named *Mutant* in its comment is
not part of a specification: it is a plausible error, and each property is known
to fail under one.

### OutboundQueue and DurableOutbox

| In the model | In the code |
|---|---|
| `pendingSends`, a bag | `node.pending_sends`, a `Vec<PendingSend>` whose order nothing depends on |
| `outboundQueue`, `attempts` | the rows of table `outbound_queue` and their column `attempts` |
| `storeId[m]` | `enqueue_outbound` returned `Ok(id)` for the call |
| `pc[m]`, `seq[m]` | where the `send_to` call of `m` is, and the counter it took |
| `taskPc`, `batch`, `cur` | the locals of the announce task (`to_retry`) and of the retry task (`snapshot`) |
| `BeginSend` ... `NotifyQueued` | `send_to`: counter under the node lock; direct packet; link for large payloads; insert; push; `MessageQueued` |
| `ReceiveAnnounce`, `LockTransport`, `Transmit`, `SettleFlush` | the flush of the announcing peer: entries leave the queue, are sent under the transport lock, and go back if refused |
| `RetryTick`, ..., `SettleRetry` | the periodic retry: expire rows, snapshot, send, count or remove |
| `Start`, `Stop`, `Crash` | reload of rows whose seq is not in memory; abort of the tasks; death of the process, which keeps the rows and resets the counter |

`handed`, `events` and `overflowed` are history: what the transport took, what
the application was told, what the cap of `pending_sends` dropped.

`DurableOutbox` has neither process nor memory. Its box changes only by `Put`,
`Discard` of what the network took and `GiveUp` with a report; `OutboundQueue`
implements it with the box mapped to the rows of the table.

### BeaconRpc

The life of a call crosses four parts: the promise (`promise`, `buffered`),
`BeaconManager` (`nextRpcId`, `inFlight`, `pendingRpcs`), the dispatch task
(`batch`), and the event queue with its ids (`events`, `eventId`, `bridge`).
`QueueRpc` is `queue_rpc`, `DrainRpcs` and `DispatchRpc` the dispatch task,
`ReceiveAnswer` is `on_rpc_bytes` in the data receiver, `Poll` is
`events_to_json`, `HandleEvent`, `LearnId` and `Timeout` the listener, the
resolved promise and the timer of `beaconRpcWait`. A request that got out may be
answered late, never or several times. Ids are numbers modulo `MaxId + 1` that
skip 0, as `wrapping_add` and the test for 0 make them.

### Lifecycle

A started set of tasks is known by the number of the `start` that made it.
`BeginStart` reads the node and takes its queues, `SpawnTasks` starts the tasks,
`CommitStart` locks the node again and stores flags, transport and handles;
`Stop` is `stop`. `CallStart`, `CallStop`, `HandleReply`, `HandleStatus` and
`Mount` are the hook. `AsyncFunction`s run one at a time (`queue`, `call`), while
`Mount` calls `init` at any time, also within a start. `orderly` is history: one
mount, and no start unless the hook shows a stopped node and nothing is pending.

### EventPipeline

`Persist` and `QueueEvent` are the receivers (data, group, resource, each with
its cap), `WriteLog` the log ring, `Poll` is `lxmf_poll_events` (drain,
serialise, stamp, compare with the buffer), `PushEvent` the hook's buffer of the
newest `JsCap`, `ReadEvents` a consumer with a watermark. `queued` and `seen` are
history: the order in which messages were queued and read, which `Before` compares.

### BleLink

`SendPacket` cuts a packet with the write limit known at that moment;
`RefuseFrame` and `LoseFrame` are frames the OS refuses after they were popped,
and frames lost on the way or without a route; `ArriveFrame` is `on_ble_rx` with
its rate window and cap; `PollRx` drains the queue into `incoming`, and
`ReassembleFrame` takes one frame of it to the assembly of its peer
(`PeerAssembly`): between two frames the task may await the transport, and frames
arrive. `sent` is history: the packets of each peer in their order, with the number of
their segments and of the frames before them. `SegsAssumption` is the `debug_assert`
that the count of segments fits its byte; a packet of 500 bytes has at most 56. `LinkUp`, `NegotiateMtu`, `Register` and `LinkDown` come in the order
of Android or, with `ConnectFirst`, of iOS.

### AndroidBle

`connections`, `connecting`, `disconnectedAt` and `serverSubscribers` are the
maps of the class. `gatts` holds every `BluetoothGatt` that `connectGatt` made,
also those no map knows. Callbacks of one object, and of one central, come one
after the other; those of different objects and roles on different binder
threads. So a callback updates the maps in one step and calls into Rust in
another (`TellClient`, `TellServer`), and `stop`, on a thread of its own, falls in
between; it has two halves and one step for each of its calls into Rust.
`InitNode` is the `clear_ble_peers` of an `init` while BLE runs. The Bluetooth
stack is external: it accepts or refuses each request and may end a role at any
time. The cooldown ends only after the callback that started it returned: it
takes 15 s. `raced` and `mixed` are history, by address: `stop` or `init` came in
the middle of a callback or a connection attempt; the address had both roles.

### IosBle

The maps of the class keep their names; `txCharacteristics` stands also for
`nusTxChars`, and `addrToCentral` goes with `subscribedCentrals`. `link[p]` is how far
CoreBluetooth is with a connection, `setup[p]` which answer the setup waits for.
An answer goes to the delegate of the peripheral, so it never comes to one that is
not in `delegates`. Central and server role have a serial queue each; the drain
(`Notified`, `NotifyRefused`) and the posted reconnections (`retries`,
`RetryConnect`) run on the main queue. So a callback that ends with a call into
Rust has two steps, with the map first and the call (`clientCall`, `centralCall`)
after: `EndClientCallback`, `EndServerCallback`.

`stop` cancels connections and tells Rust of nobody: the callbacks of the
cancelled connections do. `late` is a callback that was in a queue when it came. `start`
makes new managers, and the old ones call back no more. `Die` is the death of
the process in any state; iOS keeps some of its connections (`toRestore`), and
`WillRestoreState` hands them over. Three things are taken of iOS and the
application: `willRestoreState` comes before any other callback of a new manager, a
callback under way is over before the next `start`, and two refused notifications of
one central are a poll apart, longer than a callback.

Three variables are history, by device: `overtaken`, in use when `start` replaced
the managers, subscribed when `stop` came, or in use when `init` cleared the list;
`dual`, both roles at once; `revived`, connections nobody found, because a
posted reconnection or the restoration made them. The properties leave these out,
and fail without any one of the three exceptions.

### AndroidNus, Framing and NusLink

`connections`, `connecting` and `txChars` are the maps of NusManager.kt, and
`gatts` holds every object `connectGatt` made, as in `AndroidBle`. Each callback is
one step: the maps are not synchronised in the code, and what threads do to one
map at the same moment is not modelled. `Connect` is what the four ways to a
connection share: a scan result, `pairRNode`, the end of a pairing and the
reconnection after 3 s. `raced` is history: addresses `stop` found connecting.

In `Framing` a deframer is a record of the fields of its struct; `feed` is a recursive
function on the positions of the bytes, which the prover can unfold. An RNode of
`NusLink` sends one stream of KISS frames, cut into notifications of `cut` bytes without
regard to the frames; `Notify` hands a notification to Rust once for each subscribed
object, and to nobody if there is none; `PollRx` is the 10 ms loop, and `Taken` what its
filter lets through. `fed` is history: the RNode and the position in its stream of each
byte the deframer was given, so that a property can say which frames came in one piece
and where the bytes were damaged. `nus_rx_queue` is static and outlives the interface,
`deframer` does not.

### LxmfWire, SolanaTx, CoSign and Inbound

`LxmfWire` reads and writes the MessagePack part of a message byte by byte, since
what can go wrong is a width or an offset. Addresses and signatures are opaque: a
wire is a record of them and the bytes behind. `mp_skip`, `mp_read_bytes` and the
other readers keep their names; that a stripped wire is read at the offset of a
complete one is `Misread`. `mp_skip_inner` is split into how far a value reaches
without what it contains (`Behind`), and how many values that is (`Inner`); the depth
at which the code gives up is kept. A number of 32 bits above 16 MiB is read as one
more than 16 MiB, since the code refuses all of them (`Num`). Names of files and
types of images are strings in Rust, so `from_utf8` replaces what is not UTF-8;
title and body are bytes.

`LxmfMessages` says what clients may send, which the readers of node.rs do not: a
`Payload` is an array of at least four elements, a number as the timestamp, title and
body as blob or string with any header (`Text`), and a map of fields in any order
(`FieldMap`). A field is an image, files, or one this client ignores (`OtherField`) with
any `Value`: scalars, texts, and arrays and maps of values, nested. A stamp or
anything else may follow. `SignedFor` says which bytes are signed. It bounds what
the readers bound, and only there: blobs of up to 16 MiB, keys of fields below 128,
up to 15 values in a container, nested 15 deep, no string with a 32 bit length, no
extension types, files listed once, names in UTF-8.

`SolanaTx` keeps transactions decoded, and its keys stand for key pairs.
`CoSign` has the clients (`stage`; the hook, another application, one that signs
with a nonce, and one that calls something else), the configuration of the
beacon, which each request reads again, and the request the data receiver waits
for Solana with (`serving`). `PostJson` is the moment a call over HTTP takes
effect; `HttpFails` may come before or after it.

In `Inbound`, `rx` are the broadcast channels of the transport, which overwrite
their oldest entry. `ReceiveData`, `ReceiveRequest`, `ReceiveResource` and
`ReceiveGroup` are the receivers; `mode` is "client" or "beacon" by the `is_beacon`
the data receiver read, and "ble" for mode 0, whose steps differ only in what it
ignores. `EventOf` is what each receiver makes of a message, source known or not,
and `Verdicts` the same as a table. `ForgedAssumption` says what the model calls
forged: the source it names did not sign its signed region.

### How they compose

The models share no variables; each takes from its neighbours what the code lets
it rely on. `OutboundQueue`, `BeaconRpc` and `Lifecycle` have the same `start`
and `stop`: `Lifecycle` checks that a running node has one live set of tasks,
and the two others take that as given. `AndroidBle` and `IosBle` decide which
peers are registered, `BleLink` what happens to the frames of a registered peer, and its
`LinkDown` allows every loss they know. `EventPipeline` takes events
where `OutboundQueue`, `BeaconRpc` and `Inbound` push them: the store and the caps
behind the receivers are in `EventPipeline`, what a receiver accepts is in
`Inbound`. `NusLink` is composed of `AndroidNus`, whose connections decide how
often a notification is handed over, and `Framing`; `Inbound` of `LxmfWire` and
`CoSign`, since one task serves messages and requests. The client of `CoSign`
takes the correlation of answers for granted, which `BeaconRpc` looks at.

## Checks

Run from this directory: `tlc -workers 2 -config <cfg> <module>`.

| Run | Module | Shows |
|---|---|---|
| `OutboundQueueRetry` | `MCOutboundQueue` | with the retry task, a death of the process at any point and two failing writes, nothing accepted is stranded (`AcceptedStaysRetryable`), reports are true (`ReportsAreTrue`), the rows implement `DurableOutbox` (`ImplementsOutbox`) |
| `OutboundQueueLive` | `MCOutboundQueue` | every row is delivered or given up, across a stop and a crash (`RowsAreResolved`) |
| `OutboundQueueAnnounce` | `MCOutboundQueue` | in mode 0, which has no retry task, reachable peers that keep announcing empty the table (`AnnouncesEmptyQueue`) |
| `BeaconRpc` | `MCBeaconRpc` | each call is dispatched once and tried or aborted; duplicated and late answers yield one report, under the right method |
| `Lifecycle` | `MCLifecycle` | a running node has the tasks of its last start (`RunningNodeIsServed`); in orderly use hook and node agree, one transport polls BLE, no task outlives its stop |
| `EventPipeline` | `MCEventPipeline` | messages are stored before they are known, read at most once and in order, lost only to a cap, and read in the end |
| `BleLink` | `MCBleLink` | no loss of one peer damages another; blobs have their segments in place; without losses packets arrive whole, once and in order, and all arrive |
| `BleManagers` | `MCBleManagers` | of either platform: Rust knows each peer that is ready (`ReadyPeersAreKnown`, `IosReadyPeersAreKnown`) and sends to none without a role (`KnownPeersHaveRoute`, `IosKnownPeersHaveRoute`); on Android no connection is lost (`GattsAreOwned`); on iOS no entry keeps a device away whose setup nobody hears (`EntriesComeToSomething`) |
| `NusLink` | `MCNusLink` | a packet whose frame came in one piece is received, whatever was lost, doubled or mixed in around it, and each place of damage yields at most one packet nobody sent (`DamageIsLocal`); an RNode has one open connection (`OnePipePerRNode`) |
| `Inbound` | `MCInbound` | messages are read as they were meant (`EventsAreFaithful`) and shown if genuine (`GenuineIsShown`), with exceptions the properties name; a forged one only while the source is unknown (`ForgedNeedsUnknownSource`); the beacon submits what its payer signed (`SubmittedIsSigned`) and what was asked for (`SubmittedPaysAsAsked`), and accepts what it prepared (`PreparedIsAccepted`); receivers come back (`ReceiversCatchUp`), requests are answered (`RequestsAreAnswered`) |
| `PollOverflow`, `RpcWrongAnswer` | | the findings below: TLC finds the violation |

`MCNusLink` also evaluates, over all payloads of up to three bytes of an alphabet
with both special bytes, that the HDLC deframer all BLE peers share decodes a blob
behind the blob of another peer as a new one would (`BlobsDecodeAlone`); the theorem
`BlobDecodesAlone` says so of all payloads. Blobs begin and end with a flag by
`BlobsAreWellFormed` of `BleLink`.

### Bounds and why they are enough

- *Outbound queue*: two messages to one peer, so that entries of one peer meet in
  a flush, in a snapshot and under one reused seq; a cap of one entry, so that
  it is reached; `MaxAttempts = 1`, so that every failure decides; two lives of
  the process; two failing writes. The proofs hold for all values.
  `OutboundQueueLive` has one message, for which every pair of tasks and every
  place of a stop and a crash remain; two attempts, so that counting
  matters. `OutboundQueueAnnounce` has a peer for each of two messages, one large.
- *RPC*: two calls to two beacons and two ids, so that the ids wrap; an event
  queue of one, so that it overflows; one stop, one other event.
- *Lifecycle*: all modes, two mounts, three starts and two promises at a time: a
  start that meets a mount, a second start, and a third after both.
- *Events*: four messages over the three receivers, caps of 1 and 2, a buffer two
  messages and a log line fit, two log lines.
- *BLE link*: three packets of two peers, of one to three segments, two write
  limits, queue and rate of two frames, one loss, two connections.
- *Android*: one remote phone, since nothing couples two addresses but the Rust
  list, where each has its own entry; three connection attempts (a stale one, a
  live one, a next one), two stops, one late `init`, one failed scan.
- *iOS*: one remote device, a phone or an RNode, any number of starts, stops,
  `init`s and deaths of the process; two refusals in a row for the five of the code,
  so that there is a first and a last one. The proofs hold for any number of
  both.
- *NUS*: two RNodes, four frames with every byte that must be escaped and one of
  the firmware, notifications of 3 and of 4 bytes, a queue of two. The bounds of
  a run are one of five `Budgets`: connections come and go without traffic, or
  all traffic passes with a new deframer or a missed notification, or some of it
  while connections change. The limit of a packet is 4 bytes.
- *Inbound*: fifteen messages, one for each way of packing or each edge (long
  lengths, 16 files, a stamp, nested unknown fields, a body that looks like a
  payload, an address that looks like JSON, an old signature, a forged one); each
  alone, and those that can meet together; channels of one entry. Four kinds of
  clients, two requests, two keys and two programs; one stop.

`CHECK_DEADLOCK FALSE` stands where the bounds on calls let the system stop
legitimately: when no calls are left, a stopped node does nothing. The runs of
the outbound queue check for deadlock.

### Fairness

- Tokio tasks run until they are aborted, and the transport mutex is FIFO: weak
  fairness of each task's steps, strong fairness of taking the lock, which other
  tasks take in between.
- The timers of the native module (poll of events, poll and drain of BLE) and the
  JavaScript thread go on for ever, and so does the task of the BLE interface, whose
  transport takes what it is given; pollers are restarted by `start`.
- `Start` is weakly fair where liveness is asked across a stop: the application
  restarts what it stopped.
- The runtime polls each receiver as long as its node runs, and a call over HTTP
  ends: `post_json` has a timeout of 30 s.
- Peers need not announce, beacons need not answer, the transport need not take a
  packet. Only `ReachableSpec` says that peers announce again and again and that
  the transport takes a message it is asked to send again and again; without
  that, mode 0 has nothing that must empty the queue.
- `RowsAreResolved` exempts a peer that announces for ever while the transport
  refuses its message: flushes do not count attempts, and each may hide the entry
  from the retry task at the moment of its snapshot.

## Proofs

`OutboundQueueProofs` proves, for every set of messages and peers, every
`MaxAttempts >= 1`, every cap, with or without store and retry task, and any
number of failing writes, stops and lives of the process:

| Theorem | Statement |
|---|---|
| `TypeCorrect` | `Spec => []TypeOK` |
| `Retryability` | `Spec => []AcceptedStaysRetryable` |
| `ReportsCorrect` | `Spec => []ReportsAreTrue` |
| `Refinement` | `Spec => ImplementsOutbox` |

The assumptions are those `OutboundQueue` names (`NoMsgAssumption`,
`DestAssumption`, `LargeAssumption`, `BoundsAssumption`, `FlagsAssumption`); TLC
evaluates them in each of its runs.

None of the properties is inductive alone. `IInv` adds three facts:

- `StartedOnly`: a call that has not begun has neither row nor entry. Without it
  a reload or a flush could send a message nobody asked to send, and a seq that
  is unique among the calls that began would not be after the next call.
- `TaskOK`: an idle task holds nothing, one that settles an entry holds it, and
  "sent" means that the transport took it. That is why a row removed after a
  flush or a retry is one the network has.
- `RowOK`: a row was inserted by its own call, and only a message that had a row
  is reported failed. This makes the report final: no later insert can bring the
  row back.

`InitIInv` and one lemma for each conjunct (`TypeStep`, `StartedStep`, `RowStep`,
`ReportsStep`, `RetryableStep`) give `Inductive`. `RetryableStep` is the core: it
follows an entry from the row through memory, the batch of the announce task and
back, and shows that what a task removes by its seq is, for a message with a
seq of its own, that message only. `RefinementStep` maps each step to one of
the abstract box or to a stutter.

### The other proofs

Each names an inductive invariant `IInv` (`IosIInv`), shows that it holds at the
start and that every action keeps it, one lemma or step for each, and derives the
properties. The assumptions are those the modules name on their constants:
bounds are natural numbers, `Modes` are modes of the code, thresholds are not 0.

| Module | Theorem | Statement |
|---|---|---|
| `LifecycleProofs` | `TypeCorrect` | `Spec => []TypeOK` |
| | `RunningIsServed` | `Spec => []RunningNodeIsServed` |
| | `NoZombies` | `Spec => []NoZombieTasks` |
| | `HookIsRight` | `Spec => []HookAgrees` |
| | `OnePoller` | `Spec => []OneBlePoller` |
| `BeaconRpcProofs` | `DispatchedOnce` | `Spec => []EachCallIsDispatchedOnce` |
| | `ReportedOnce` | `Spec => []AnswersAreReportedOnce` |
| | `TypeCorrect` | `Spec => []TypeOK` |
| `EventPipelineProofs` | `KnownIsStored` | `Spec => []KnownMessagesAreStored` |
| | `ReadsInOrder` | `Spec => []ReadOnceInOrder` |
| | `NothingElseIsLost` | `Spec => []QueuedIsAccountedFor` |
| | `TypeCorrect` | `Spec => []TypeOK` |
| `BleLinkProofs` | `InOrder` | `Spec => []InOrderUnlessLost` |
| | `BlobsHoldOnePeer` | `Spec => []BlobsAreWellFormed` |
| | `TypeCorrect` | `Spec => []TypeOK` |
| `InboundProofs` | `ImplementsCoSign` | `Spec => CoSignSpec` |
| | `PaymentsAreSigned` | `Spec => []SubmittedIsSigned` |
| | `PaymentsAreAsAsked` | `Spec => []SubmittedPaysAsAsked` |
| | `PaymentsAreAccepted` | `Spec => []PreparedIsAccepted` |
| | `ForgedIsNotShown` | `Spec => ForgedNeedsUnknownSource` |
| | `MessagesAreFaithful` | `MessagesArePacked` implies `Spec => []EventsAreFaithful` |
| | `GenuineMessagesAreShown` | `MessagesArePacked` implies `Spec => []GenuineIsShown` |
| | `OwnMessagesArePacked` | a wire of `SentTo` is packed, decodes to its content, and is valid with up to 15 files |
| | `TypeCorrect` | `Spec => []TypeOK` |
| `BleManagersProofs` | `TypeCorrect` | `Spec => []TypeOK` |
| | `KnownHaveRoute` | `Spec => []KnownPeersHaveRoute` |
| | `ReadyAreKnown` | `Spec => []ReadyPeersAreKnown` |
| | `NoGattIsLost` | `Spec => []GattsAreOwned` |
| | `IosTypeCorrect` | `IosSpec => []IosTypeOK` |
| | `IosKnownHaveRoute` | `IosSpec => []IosKnownPeersHaveRoute` |
| | `IosReadyAreKnown` | `IosSpec => []IosReadyPeersAreKnown` |
| | `EntriesAreAlive` | `IosSpec => []EntriesComeToSomething` |
| `NusLinkProofs` | `DamageLocal` | `Spec => []DamageIsLocal` |
| | `OnePipe` | `Spec => []OnePipePerRNode` |
| | `BlobsAreDecoded` | in any state of the HDLC deframer, a blob yields the frame left unfinished, if any, then its payload, and leaves nothing behind |
| | `BlobDecodesAlone` | behind any bytes that end with a flag, a blob yields its payload and nothing else |
| | `TypeCorrect` | `Spec => []TypeOK` |

- *Lifecycle*: `Calls` is what a start under way may rely on while it waits: it is
  the head of the queue and the last start, no node has its transport, and its
  tasks live once they were spawned.
  `InOrder` is what orderly use keeps: a start is alone until it was answered, and
  what hook and node disagree on is among the replies.
- *RPC*: a call is in `in_flight` under the id it was given, and until the ids
  wrap the n-th call has id n (`Numbered`, `Matched`); a staged call is at one
  place of one of the two sequences (`Staged`). The two properties do not depend on
  the variables of JavaScript, of which only the types are proved.
- *Events*: `LineInOrder` follows the messages through the queue, the bridge, the
  buffer of the hook and the reads: what is further on was queued earlier.
  `IdsRise` is what makes a watermark enough: the ids rise along the same way.
  `Received` says that a message is queued once, by a receiver that stored it, also
  when the process died in between.
- *BLE link*: `BlobsAreWellFormed` needs that every frame on its way is in its range
  (`FramesAreInRange`) and every filled slot in its place (`SlotsAreInPlace`).
  `InOrderUnlessLost` needs to know where each frame is. The frames a peer cut have
  numbers from 1 on (`Numbered`, `IsFrame`). While none was lost, the first `d`
  of them are in blobs and slots (`Assembled`), those up to `t` in the two queues of
  the receiver, in order, however the frames of others lie between (`Has`), and the
  rest in the queue of the peer (`Waiting`). So the next frame of a peer is the one
  of the first free slot (`Located`, `NextSlot`), and no assembly begins anew before it
  is complete.
- *Inbound*: `CInv` follows a transaction: an answer that carries one has what the
  beacon built, what is served passed the checks with the key and the program of
  its time, and so did what Solana got. `StepRefines` maps each step of the node to
  a step of `CoSign` or to a stutter, so the three properties of payments, proved of
  `CoSign`, hold of the node; it needs that a request in the channel is still on its
  way, and only once (`RxOK`). For forged messages no invariant is needed but the
  types: each verdict on one whose source is known is a refusal (`ForgedIsRefused`).
- *Messages*: the two theorems are about messages of the grammar: each of `Msg` is
  packed as `LxmfMessages` says, by this client or another, or its payload does not look like
  one and nobody calls it genuine (`MessagesArePacked`). The bounds of the
  grammar are where the readers go wrong: a count of an array in 16 bits, for
  instance, is taken for a length (below), so a message with it is not read as it was
  meant. `LiesAt` says that a sequence of bytes lies at an offset of a payload; each
  reader is then followed over the part it reads. `Skips` says that `mp_skip` passes
  some bytes as k values, up to d containers deep; it is closed under putting bytes
  behind each other (`SkipsJoin`) and into a container (`SkipsContainer`), so it holds of
  every value, by induction on its depth (`ValueSkips`). Files and fields are read by
  induction on their number (`FilesLie`, `FieldMapLies`); image and files come
  out the same in any order, since an image field sets only the image, the one
  field of files only the files, and others neither. So a packed payload decodes to its
  content (`PayloadDecodes`), and with up to 15 files the elements its source signed are found
  again, whatever follows them (`PayloadIsSigned`). The first
  property is inductive, since each event is a verdict on its message (`VerdictEvent`);
  for the second, each refusal is one with an excuse (`Excused`), and a source that is
  known stays known (`KnownStays`). `OwnMessagesArePacked` shows the hypothesis
  of the theorems of what this client writes, for every body of up to 16 MiB,
  image and list of fewer than 65536 files: the reader undoes the writer.
- *Android*: the properties speak of moments at which no callback and no stop is
  under way. In between, a lost route is still to be reported (`Known`,
  `Routed`), a stop in progress still owns what it took out of the maps (`Owned`),
  and the report on one object of an address cannot hit the next object, because the
  cooldown covers it (`CooldownCovers`).
- *iOS*: in the same way, for each device on its own: `Linked` (how far link and
  setup may be apart), `Reported` and `Known` (which report is still to come),
  `Heard` (to whom an answer goes). `SameKeeps` and `OthersStay` take a device's part
  over the steps of other devices.
- *NUS*: `ConnectedIsOpen`: the object in `connections` is open, so
  `unpairRNode` never disconnects one that is closed already.
- *KISS deframer*: `LinkInv` says that what is queued and what was read are bytes of
  the streams, and that the deframer and the packets are what `History` makes of the
  bytes in `fed`, one at a time, wherever the polls cut them (`Resumed`). From there
  on the proof is about such a history alone. `Decoded`: a frame that lies in the
  bytes in one piece ends a packet at its last byte, whatever was read before, since its
  first delimiter starts anew. So its packet is received as often as it lies there
  (`IntactReceived`). For what nobody sent: each packet received has a delimiter that
  opened its frame and one that ended it, and no two of these stretches overlap
  (`OneByOne`); one that has no seam inside is a frame that was sent (`Piece`), and so
  each packet is either intact or has a seam of its own (`FewSpurious`). The proof rests on
  `TrafficAssumption`: an RNode sends whole frames whose command is no delimiter
  and not the value the deframer has for "none yet".
- *HDLC deframer*: about `hdlc_feed` alone, for any state of the deframer. Its first
  flag ends what was left; after each escaped byte the buffer holds the payload so far
  (by `Induct` over the payload); the last flag completes it. Bytes that end with a flag
  leave an empty buffer, so the next blob begins as with a new deframer.

`Taken`, `hdlc_feed`, `kiss_feed`, `mp_skip`, `ReadFields` and the concatenation of sequences are
functions defined by recursion. The induction theorems of the library take an operator as a parameter,
which no installed prover can instantiate; `Induct`, in `NusLinkProofs` and `InboundProofs`, states
induction for a set of numbers instead, from the least element of its complement
(`Least`, by `WellFoundedInduction`), and `RunExists` that such functions exist.

The types of all modules with variables are proved; for `OutboundQueue`, `Lifecycle`,
`AndroidBle` and `IosBle` no run checks them any more.

Only model-checked:

- liveness and fairness, which are beyond the prover, as ENABLED is;
- `PendingLen` of `OutboundQueue`, on which no proof depends.

## Where code and text disagree

| Run | Finding |
|---|---|
| `RpcWrongAnswer` | `events_to_json` writes the event id over the key `id`, which held the correlation id of an `rpcResponse`: a promise resolves with the answer to another call, or never (ffi.rs:1104) |
| `PollOverflow` | the poll empties the queue before it finds that the JSON does not fit the buffer, and the batch is gone (ffi.rs:169) |

Behaviour the models contain, which no sentence of the repository forbids but a
reader should know of; it is why some properties have their conditions:

- `seq` restarts at 0 with the process while rows keep theirs. A delivery then
  removes entries of other messages with that seq, and the reload leaves out a
  row whose seq is in memory. `AcceptedStaysRetryable` covers messages whose seq is
  their own.
- A row given up after its attempts leaves its entry in memory, so a message may
  be reported failed and then delivered; `ReportsAreTrue` holds of both reports.
- Two of the five writers of `pending_sends` apply its cap.
- After a lost segment, an assembly completes with segments of the next packet if
  that has as many: a mixture. `BlobsAreWellFormed` allows it, `InOrderUnlessLost`
  excludes peers that lost a frame.
- iOS registers a peer before its write limit is known, although ble_iface.rs:227
  says "MTU is always negotiated before on_ble_connected fires"; frames popped from the TX
  queue are lost when the OS refuses them.
- A `start` on a running node drops the handles of its tasks, which run on; two
  transports then poll the same BLE queues. Hence `orderly`.
- `init` clears the list of BLE peers, also while native BLE keeps their
  connections. A restart of the scan that `onScanFailed` posted happens also after
  `stop`. A failed CCCD write keeps a connection that is no peer, and the
  address is not scanned for again while it lasts. An address whose callback or
  connection attempt `stop` raced with may stay in the list without a route. Hence
  `raced`.

Of the start and of BLE on Android:

- The data receiver reads `is_beacon` (node.rs:483) before `start` writes it (837):
  it has the value of the previous start, so the first start as a beacon ignores
  requests. The field is documented as "Whether this node is running in Beacon
  role" (node.rs:126). Hence `mode` of `Inbound` is what the receiver read.
- The end of the client role removes the peer from Rust (BleManager.kt:468) also
  while it is subscribed to our server, which the comment at line 523 treats as a
  connection of its own. Hence `mixed` in `ReadyPeersAreKnown`.

Of BLE on iOS:

- `didDisconnectPeripheral` takes the delegate away (BLEManager.swift:432), and the
  reconnection it posts for a bonded device ("Auto-reconnect bonded devices only",
  line 451) sets none. The connection comes about and its services are asked for,
  but the answer goes to nobody; and as long as the link lasts, its entry keeps
  `didDiscover` from connecting properly. Hence `revived`.
- Restoration makes an entry for each connection iOS kept and sets the delegate, but
  starts no discovery on one that is connected already: no callback follows,
  until it is disconnected. Hence `revived` again.
- A connection on which no service, no characteristic or no notification is found
  is kept, idle, with its entry.
- `stop` tells Rust of nobody and relies on callbacks; a `start` before they came
  replaces the managers, and no callback comes: Rust keeps the peers, and, if a
  late callback made one, the map an entry for a connection that is gone. Nor does
  `stop` cancel a connection the posted reconnection asked for. Hence `overtaken`.
- After five refused notifications a central is dropped although it may still be
  subscribed; it is not registered again until it unsubscribes and subscribes.
- The end of one role removes the peer from Rust also while the other role lasts.
  Hence `dual`.
- `disconnectRNode` takes the RNode out of `nusPeripherals` at once, so that its
  disconnection is handled as that of a phone and `onRNodeDisconnected` is not
  called; and it forgets the bond only of an RNode that is connected.

Of inbound messages:

- A data payload is taken for RPC by its first byte (node.rs:2316), which in a
  message is the first byte of an address: one of 256 addresses cannot be written
  to, or, stripped, cannot write.
- A stripped message whose payload has less than 17 bytes is dropped; one whose
  body, 16 bytes into the payload, begins like a payload is read at the wrong
  place, with part of itself as the source.
- `mp_skip` takes the 16 or 32 bit count of an array for a length in bytes. More
  than 15 attached files move the end of the signed region, so the message fails
  verification if its source is known.
- The resource and the group receiver check no signature. The data receiver shows a
  message of an unknown source unverified and asks for its path.

Of payments:

- `requestUnsignedTx` (useLxmf.ts:579) looks for `result` in `resultJson`, which is
  that field already: the promise always rejects, and `submitSignedTx` returns the
  empty string. In the model only clients other than the hook get further.
- `rewrap_response` (beacon_server.rs:432) panics on a response that is JSON and no
  object, and the data receiver is gone until the next start.
- Only the first instruction of a transaction is looked at. In a transaction with
  a nonce that is the advance of the nonce, so the beacon refuses all of them.
- A beacon that was given another key between the rounds signs the second slot
  with a key that is not the one the message names.
- A call over HTTP may time out after Solana took the transaction, and the client is
  told of an error. While a call lasts, up to 30 s, no message is received, and
  the channel overwrites what it cannot hold.
- A request to a beacon without an endpoint is not answered; an error in parsing is
  answered under id 0, which no caller waits for; mode 0 discards what looks like RPC.

Of RNodes:

- All RNodes share one queue and one deframer; two that send at once damage each
  other's frames.
- `stop` forgets attempts to connect without closing them; the next scan connects
  again, and both objects hand each notification to Rust. A restart of the scan and
  its results do not ask `isRunning`.
- `pollTxAndWrite` takes a frame from the queue as soon as an RNode is connected, also
  when its characteristic is not known yet (NusManager.kt:193). Not modelled.

## Plan

Done: the outbound queue with its abstract specification, RPC client, lifecycle,
events, BLE link, the BLE managers of both platforms, inbound messages, beacon
server, transactions, framing, the RNode link and its manager of Android; proofs
about the queue, the lifecycle, RPC, events, BLE link, both BLE managers, payments,
forged messages, the reading of packed messages, the RNode link, and the deframers of both codecs.

Left: the way to an RNode, which is the poll of frames, their chunks and refused
writes, on both platforms.

## Not modelled

- *Cryptography*: encryption, hashes and key derivation are external or opaque; a
  signature says who signed what.
- *Message store*: the outbound table and the insert of inbound messages are part
  of `OutboundQueue` and `EventPipeline`; history queries and pruning are SQL.
- *Group channels*: one group, as its key; the list of groups and their names are
  plain maps.
- *Lengths in transactions*: the compact lengths and the Borsh parameters of
  solana_tx.rs are conversions without state; transactions stay decoded.
- *FFI and JNI*: argument conversion; where an entry point orders state changes
  (polling, RPC ids) it is in the module concerned. An application that links the
  C API may call `start` and `stop` from several threads at once; `Lifecycle` has
  the serial queue of the native modules.
- *Embedded interface*: a wrapper of the external runtime.
- *rns_transport*: external; the models say only that a send is taken or refused,
  and that a packet reaches a channel.
- *Beacon directory*: `on_beacon_connected`, `on_beacon_disconnected`,
  `reconnect_delay`, `on_reconnect_attempt`, `should_announce`, `did_announce`,
  `start_announce_schedule`, `connected_beacons`, `remove_beacon` and
  `queue_rpc_broadcast` are called by nothing outside beacon.rs and its tests. So a
  beacon never is connected, nothing backs off and no burst is made; what is
  left, `on_announce_received`, keeps a map of names (node.rs:404, 1003, ffi.rs:220).
- The way out to an RNode: see the plan. On iOS also the filter of own
  advertisements, the eviction of RNodes not seen for ten minutes, and advertising.
- The example application, scripts and archive are not part of the library.
