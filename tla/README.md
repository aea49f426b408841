# TLA+ models of unitree-webrtc-rs

A verification project for the Rust SDK: TLA+ modules translated from
`src/src/`, TLC configurations that check them on small instances, and TLAPS
proofs of the main invariants for every instance. `PROJECT.json` maps each
definition to the lines it models and lists the hazards behind the properties.

Contents: [inventory](#inventory) · [modules](#modules) · [runs](#runs) ·
[fairness](#fairness) · [proofs](#proofs) · [finding](#finding) ·
[not modelled](#what-is-not-modelled)

## Inventory

An application holds a `UnitreeSession`. It owns a `ConnectionService` (one peer
at a time, serialised by a session gate), a `DataChannelService` (the core: a
router thread, heartbeat threads, calls), the RTC engine under both, a bounded
channel of callback events, a pool of LiDAR workers, and the audio playback.

| Component | State | Operations | What makes it hard | Properties |
| --- | --- | --- | --- | --- |
| Core (`datachannel/core/service.rs`) | epoch `session_id`, `pending_callbacks`, chunk storage, subscriptions, `data_channel_opened`, heartbeat flags | publish, guard drop, subscribe, router loop, validation, heartbeat, reset, fault | resets make stores outside `lifecycle_lock`; messages of an old peer; calls that time out while they are answered; threads that outlive their epoch | calls are answered once and only from their epoch; nothing outlives an epoch; readiness is of the current epoch; a fault is never lost; threads end |
| Transport (`rtc_engine/engine.rs`, `state.rs`, `handlers.rs`) | ready state, ingress generation, sticky fault, two bounded queues, command worker | peer callbacks, send, worker step, fault, close, prepare | atomics read without locks; full queues; a worker that fails between epochs | commands go to the peer of their epoch |
| Session (`connection/session.rs`, `lifecycle.rs`, `service.rs`) | gate, disconnect generation and flag, `is_connected`, close task, audio sender and cleanup | connect, reconnect, auto_reconnect, disconnect, play, stop, drop | every await can be the last one: guards hand cleanup to spawned tasks that keep the gate | cleanup never reaches a later peer; disconnect is final; every call returns |
| Attempt (`connection/service.rs`, `rtc_engine/setup.rs`) | the peer and what belongs to it: resources, media tasks, command task, open channel | prepare_offer, apply_answer, on_track, close, rollback, drop | cut off at any await by deadline, cancellation or drop; callbacks of a peer that is already closed | close leaves nothing running; a connected peer is owned; everything begun ends |
| Signaling (`signaling_http.rs`, `security.rs`, `sdp.rs`) | none between exchanges | legacy offer, con_notify, con_ing | a fallback after any failure, within one deadline; four auth modes and a key that may be missing, wrong or malformed | an honest robot is reached; only an answer is taken for one |
| Event channel (`protocol/events.rs`) | two queues, one budget, an epoch | try_send, receive, permit drop, receiver drop | the epoch is stored without the mutex; producers race the drop of the receiver | exact accounting; implements `EventFeed` |
| Python side (`interface/`, `diagnostics.rs`) | callback registry, GIL, dispatcher, failure logs | subscribe, unsubscribe, on_audio, on_frame, clear_callbacks, dispatch | three locks; conversions, callbacks and finalizers run Python code that calls back; resets during a conversion | callbacks are current and subscribed; failures are reported once; no method blocks for ever |
| Chunk assembler (`core/chunks.rs`) | transfers | insert, remove, clear, expire | duplicates, conflicts, budgets at their limits | whole values in order; what is kept can complete; nothing is kept for ever |
| LiDAR workers (`datachannel/lidar/service.rs`) | job queue, threads, handles | start, submit, decode and send, clone, drop | results of different epochs finish in any order; a start that fails half way | results come in the order of their epochs; nothing is kept for ever |
| Parsing and conversion (`framing.rs`, `ingress.rs`, `utils.rs`, codecs, options, throttling) | none | pure functions | limits met from both sides; layouts that resemble each other | budgets are exact; what one side writes the other reads |
| H.264 reassembler (`video/h264_rtp.rs`) | buffer, next sequence and timestamp | process_rtp_packet | loss, duplication, reordering, wrap-around | only whole units, none lost without cause |
| Media handlers (`video/service.rs`, `video/codec.rs`, `audio/receive/`) | encoded queue and its counter, terminal error, frames | read, health poll, decode, end | the streaming thread changes the levels between check and push; a poll beside a pending read | the queue is bounded; no unit is skipped; a failure ends the stream |
| Audio transmit (`audio/transmit/service.rs`) | two atomics, pipeline, RTP queue, RTP task, bus thread | play, pause, stop, shutdown, drop, sample, bus message | every load and store interleaves with the bus thread's; state changes fail | workers are joined; endings return; a failure wins over play |

How they interact: the session task resets the core before and after each
attempt; a reset gives core, engine and event channel a new epoch; the engine's
handlers feed the router through the ingress queue; router and LiDAR workers
feed the event channel, and so do the media handlers of a peer; the dispatcher takes
events out of it and calls Python; the router owns the chunk assembler. Composed in
one module are core and transport (`DataChannelCore`), attempt, engine and signaling
(`ConnectAttempt`), and bridges, dispatcher, logs and the core's lock (`CallbackDispatch`).

## Modules

| Module | Models | Granularity |
| --- | --- | --- |
| `ReadyState` | the state machine of the ready state, shared by the next module and `PeerSetup` | a function of state and event |
| `DataChannelTransport` | the engine as the core sees it | one step per callback, worker step or port method |
| `DataChannelCore` | the core composed with the transport | everything under `lifecycle_lock` is one step, except the epoch bump of a reset, the two stores of `set_ingress_generation` (the new generation, then the closed ready state) and the handling of "Validation Ok.", whose middle other actors can see; the stores of `stop_background_tasks` before the lock are a step each |
| `DataChannelCoreProofs` | theorems about the types and the calls of `DataChannelCore` | |
| `DataChannelLinkProofs` | theorems about the core and its peer | |
| `SessionLifecycle` | the operations of a session | a step is what a future does between two awaits; a dropped future continues in `DropSteps` as its spawned cleanup |
| `PeerSetup` | what `RtcEngine` builds for a peer and takes down again | what a future does between two awaits; a step per callback and per end of a task |
| `Signaling` | the exchange of offer and answer | a step per request and answer; a ciphertext names its key |
| `ConnectAttempt` | `ConnectionService` over `PeerSetup` and `Signaling`, held by a session or used alone, and its drop | as these; time in units of five seconds |
| `ConnectProofs` | theorems about `ConnectAttempt` | |
| `EventFeed` | what the event channel promises: two lossless lanes, bounded, of one epoch | abstract specification |
| `EventChannel` | the callback event channel | separate steps for the unlocked look at the epoch, admission and push |
| `EventChannelProofs` | `EventChannel` implements `EventFeed` and keeps its budget | |
| `CallbackDispatch` | bridges, registry, dispatcher over GIL, registry mutex and `lifecycle_lock` | a step per lock taken and per stretch of Python code, which may call a bridge again |
| `RepeatLog` | the aggregation of repeated failures | functions from a log to a log and a count |
| `ChunkAssembler` | chunk assembly in full | one step per method |
| `LidarWorkerPool` | start, queue and threads of the LiDAR pool; of the event channel only the media queue | a step per look at the epoch, decoding, admission and push; the joins of a failed start are one step that waits |
| `SessionProofs` | theorems about `SessionLifecycle` and about `LidarWorkerPool` | |
| `JsonBudgets` | `parse_json`, `json_size`, `event_size`, `py_any_to_json_value` | functions, each with the budget as a property of the whole value |
| `Conversions` | frames, request keys, the geometry and voxels of a LiDAR bitmap, pictures, sound, padding, options, throttling | functions, each with its reference |
| `H264Reassembler` | FU-A reassembly and a bad network | one step per packet |
| `MediaReceive` | the video and audio handlers and the decoder | a step wherever the streaming thread can step in; GStreamer is external |
| `IngressProofs` | theorems about `ChunkAssembler` and about the decoder queue of `MediaReceive` | |
| `AudioSender` | one playback: owner, streaming thread, RTP task, bus thread | every load or store of an atomic and every state change of the pipeline; GStreamer and `abort` are external |
| `DeliveryProofs` | theorems about `H264Reassembler`, about `AudioSender` and about `CallbackDispatch` | |
| `Sums` | lemmas on sums over finite sets, and that the library's folds compute them | |
| `MCIngress`, `MCMedia` | instances of several components that share no state: a behaviour runs one of them, named by `part` | |
| `MCDataChannelCore`, `MCSessionLifecycle`, `MCConnect` | model values, sets of messages, symmetry | |

State and actions keep the names of the code where TLA+ allows it (`pending`
is `pending_callbacks`, `opened` is `data_channel_opened`). Data is abstracted:
a message body is a record of what the router tells apart (kind, key, topic,
success, outcome of a chunk), a payload is a short sequence, a time is whether
the deadline has passed. In `DataChannelCore` a chunk storage entry is the epoch of
its first chunk; what the assembler does with bytes is in `ChunkAssembler`. In
`SessionLifecycle` the core is its readiness flag, and the state of the engine's
peer is `none`, `connecting`, `open` or `dead`.

History variables (`validEpoch`, `by` of a call, `established`, `arrived`, `last`, `inOrder`,
`owed`, `retired`, `barred`, `converted`, `hindered` and others their comments name) record what properties compare; no
guard reads them, but for the bound on failures, which counts `owed`.

Operators named as mutants in their comments are deliberately wrong variants of
the definition that follows them. Replacing the definition by its mutant must make
TLC report the property `PROJECT.json` names, which shows that the property can fail.

## Runs

| Run | Instance | Shows |
| --- | --- | --- |
| `core_requests` | two calls on one key, plain and chunked responses, three epochs | `WaitersAreRegistered`, `ResponseOfOwnEpoch`, `RetainedStateIsCurrent` |
| `core_messages` | one call, one topic, all other messages, two epochs | `FaultIsRetained` under every handler |
| `core_link` | two heartbeat threads, all peer events, validation messages only, three epochs | `OpenMeansValidated`, `CommandsOfPeerEpoch`, `ValidatedIsWatched` |
| `core_liveness` | one call, two keys, one heartbeat thread, two epochs | `FaultFailsPending`, `SilenceIsDetected`, `ThreadsEnd` |
| `session` | three operations of any kind, two retries | `IdleIsClean`, `CloseHitsNoLaterPeer`, `AudioBelongsToConnection`, `DisconnectIsFinal` |
| `session_liveness` | two operations | `CallsReturn`, `DropReleases` |
| `session_retry` | connect, retry, disconnect | expected violation, see [finding](#finding) |
| `events` | two producers, capacity 2 and 1, three epochs | `BudgetIsExact`, `ImplementsEventFeed`, `DropCompletes` |
| `dispatch` | a Python thread and the dispatcher, a topic and a media key, two registrations, failures and sessions | `RegisteredIsSubscribed`, `FailuresAreReportedOnce`, `CallbacksAreCurrent`, `MethodsReturn` |
| `ingress` | chunks: three keys for two transfers, up to three chunks of 1 or 2 bytes, limits 3 and 4; LiDAR: two workers, one queued job, three epochs; functions: every sample of a small domain | `CompletedIsWhole`, `KeptCanComplete`, `EpochsInOrder`, `BudgetsAreExact`, `ConversionsAgree`, `NothingIsKeptForever` |
| `media` | reassembler: sequence numbers modulo 6, nine packets; handlers: two buffers, seven bytes, five units; sender: two plays, a pause, every ending, in any order | `ReassemblyIsExact`, `EncodedQueueIsBounded`, `NoUnitIsSkipped`, `WorkersAreJoined`, `FirstFailureWins`, `FailureStopsStream`, `EndingsReturn` |
| `connect` | a session or a service alone, two peers, two tracks, twelve pairs of a robot and a device key | `NothingOutlivesClose`, `ConnectedPeerIsOwned`, `HonestRobotIsReached`, `EverythingEnds` |

Why the bounds are enough to be interesting:

- The first epoch has no peer, so three epochs are the fewest in which a message of
  one peer can meet the next one, and the same key a second call; with two epochs
  no stale response exists. Capacity 1 makes every queue full at once.
- `core_liveness` needs the second key: a fault can only be lost when the ingress queue
  is full, and a queued message for the key of the waiting call would settle it anyway.
- `MaxPending = 1` with two calls reaches the limit of pending requests.
- Three operations are a holder of the gate, one that waits behind it, and a
  disconnect; each can be cancelled at any await, and the drop of the session
  adds a fourth.
- In `events` one more event than the channel holds, and one more byte than the
  budget, are both attempted; `MediaSlots = 1` differs from `Capacity = 2`.
- In `dispatch` two registrations let one replace another while the dispatcher
  holds a copy of the first; one finalizer may interrupt a method, which is enough
  to lock the registry twice. Two failures are one reported and one counted.
- In `ingress` numbers of chunks 0 to 4 include zero, the limit and one beyond it;
  the retained limit is below what two transfers of maximal size need. Empty chunks are
  left out, to keep three keys and three chunks within reach without symmetry.
  Two workers can hold jobs of any two of three epochs, and the queue and the admissions
  both fill up. The sets of samples go beyond each limit by one or more: documents and
  Python containers one deeper and one node larger than allowed (containers may contain
  themselves), frames with every length up to one past the end, clocks that are set forward or back.
  JSON texts have blanks up to the last byte that fits and one more. LiDAR coordinates are scaled integers: an f32 counts
  its smallest steps up to `MaxF32`, an f64 thirds of them up to `MaxF64`, so that a resolution can
  become zero, and a coordinate infinite, by the conversion alone. A caller's own request id is
  inside, at and beyond the range of the generated ones.
- In `media` nine packets go one and a half times around the sequence numbers, so a
  packet with the expected number can belong to a later frame. Two buffers and seven
  bytes fill up separately. The second play meets a bus thread that is at work on an error
  of the first; two messages let an error wait behind a warning or the end of
  the stream; the RTP queue fills up with two packets.
- In `connect` a unit of time is five seconds: a request takes up to two, an attempt up to
  three, so that a timeout of the legacy request leaves one for the fallback. Two peers
  are one whose remains could meet the next. `Meetings` pairs each robot with the keys that matter to it:
  the one it needs, another one, a malformed one, none. The last handle goes when no call runs, at rest or while a
  cleanup still closes the peer.

Symmetry is used for calls (`core_requests`, `session`) and heartbeat threads
(`core_link`), only where no temporal property is checked. Deadlock is checked in every run.

`TypeOK` of a module documents its state; no run lists it, because what it says beyond
types is in the other properties. For core and transport and for the event channel it is proved.

The numbers of epochs and sessions (`MaxEpoch`, `MaxGeneration`, `MaxSession`), of sent
packets and units (`MaxPackets`, `MaxUnits`), of registrations and of failures are bounds of the models, not of the code. The wrap-around of the 64-bit epochs is
not modelled.

## Fairness

- Core: the router, each heartbeat thread, a started reset and the recording of
  a fault are weakly fair. They are OS threads or a task that nothing blocks
  for ever, and `lifecycle_lock` is never held across a wait. Robots, peers and
  applications are not fair: nothing has to arrive and no call has to be made.
- Session: each call's next step and the two spawned tasks are weakly fair. This
  assumes a running Tokio runtime and a native close that returns, the prerequisites
  `docs/engineering/resource-policy.md` states. A failing step of an attempt is a
  timeout of the code (15 s for the transport, the validation timeout), so a call
  that waits for a peer is never stuck. `LockSession` needs only weak fairness because
  Tokio's mutex is first in, first out.
- Events: the receiver's own steps, and the push of a producer inside the mutex.
- Attempts: time passes at the awaits of an attempt, the timeouts of the code fire, an
  aborted task is polled, a close that was begun goes on and `RTCPeerConnection::close`
  returns; so do the disconnect that the drop of a session spawns on its remembered runtime (`session.rs:316`)
  and the drop of the last clone of the engine. The robot is not fair. A service has no such
  drop: when its last handle goes outside of a runtime, `PeerResources::drop` cannot
  close the peer (`setup.rs:105`), which is then `left`.
- Python: a thread in a bridge method is strongly fair, because GIL and mutexes are
  passed on to waiting threads; the core gives `lifecycle_lock` back; the dispatcher's own
  steps are weakly fair. Callbacks, conversions and finalizers do not have to return
  control by themselves unless they are in a bridge method.
- Media handlers: the steps of `decode`, a read that has its packet or whose track has ended,
  and the tick of `health_poll`. Packets do not have to arrive, and GStreamer is not fair.
- Chunks: deadlines pass, and the router calls `expire` in each turn of its loop.
- LiDAR: each worker is weakly fair, being an OS thread, and strongly fair for the
  mutex of the event budget, which is held only for a push. The join of a
  failed start is weakly fair. Nobody has to submit, take or drop anything.
- Audio: the owner's started call, the bus thread (its `timed_pop` returns after half
  a second), the push of a sample and the cancellation of an aborted task.
  A state change of the pipeline is assumed to return. Neither samples nor messages
  have to arrive.

## Proofs

Eight modules prove, for all sets of keys, calls, topics, threads, producers, workers, messages
and robots, all capacities, sizes and limits and any number of epochs, attempts, retries, plays,
packets and units:

| Module | Theorem | States |
| --- | --- | --- |
| `DataChannelCoreProofs` | `TypeCorrect` | `Spec => []TypeOK` |
| | `CallsStayRegistered` | `Spec => []WaitersAreRegistered` |
| | `ResponsesMatchEpochs` | `Spec => []ResponseOfOwnEpoch` |
| | `NothingOutlivesItsEpoch` | `Spec => []RetainedStateIsCurrent` |
| `DataChannelLinkProofs` | `OpenCorrect` | `Spec => []OpenMeansValidated` |
| | `CommandsCorrect` | `Spec => []CommandsOfPeerEpoch` |
| | `WatchCorrect` | `Spec => []ValidatedIsWatched` |
| | `FaultCorrect` | `Spec => []FaultIsRetained` |
| `ConnectProofs` | `CloseCorrect` | `Spec => []NothingOutlivesClose` |
| | `ConnectedCorrect` | `Spec => []ConnectedPeerIsOwned` |
| | `ExchangeCorrect` | `Spec => []HonestRobotIsReached` |
| `SessionProofs` | `GateIsLeftClean` | `Spec => []IdleIsClean` |
| | `LaterPeersAreSafe` | `Spec => []CloseHitsNoLaterPeer` |
| | `AudioNeedsConnection` | `Spec => []AudioBelongsToConnection` |
| | `DisconnectsAreFinal` | `Spec => []DisconnectIsFinal` |
| | `ResultsKeepTheirOrder` | `PoolSpec => []EpochsInOrder` |
| `EventChannelProofs` | `ChannelImplementsFeed` | `Spec => ImplementsEventFeed` |
| | `CountsAreExact` | `Spec => []CountIsExact` |
| | `BudgetCorrect` | `Spec => []BudgetIsExact` |
| | `ChannelIsTyped` | `Spec => []TypeOK` |
| `IngressProofs` | `AssemblyIsWhole` | `AssemblerSpec => []CompletedIsWhole` |
| | `KeptIsBounded` | `AssemblerSpec => []KeptCanComplete` |
| | `UnitsReachDecoder` | `MediaSpec => []NoUnitIsSkipped` |
| | `QueueIsBounded` | `MediaSpec => []EncodedQueueIsBounded` |
| `DeliveryProofs` | `UnitsAreWhole` | `ReassemblySpec => []ReassemblyIsExact` |
| | `NobodyLeavesEarly` | `PlaybackSpec => []WorkersAreJoined` |
| | `FailureIsNotOverwritten` | `PlaybackSpec => []FirstFailureWins` |
| | `CallbacksHaveSubscriptions` | `Spec => []RegisteredIsSubscribed` |
| | `NoFailureIsLostOrToldTwice` | `Spec => []FailuresAreReportedOnce` |
| | `NoStaleCallback` | `Spec => CallbacksAreCurrent` |

`Sums`, the eighth, has the lemmas on sums. Components that share no state share a
proof module where their proofs are short. `AssemblerSpec`, `MediaSpec`, `ReassemblySpec`,
`PlaybackSpec` and `PoolSpec` are the parts of `MCIngress` and `MCMedia` without fairness. Every safety
invariant and every action property of a run has its theorem, but for the two on sampled functions.

Assumptions, all evaluated by TLC in the runs of their modules:

- absent values and the names of lock owners are nobody's name (`NoneAssumption`, `ProducersAssumption`,
  `PoolAssumption`, `NameAssumption`, `ThreadsAssumption`, `PeersAssumption`); there are finitely many workers;
- messages and events are of the kinds the code tells apart (`WireAssumption`, `PeerEventsAssumption`,
  `MessagesAssumption`, `MeetingsAssumption`, `EndingsAssumption`);
- capacities and limits are numbers, and positive where a queue needs it (`CapacityAssumption`,
  `BytesAssumption`, `PoolAssumption`, `LimitsAssumption`, `LimitAssumption`, `AttemptAssumption`, `RetriesAssumption`,
  `BoundsAssumption`); `queued_buffers` can count one more than its limit (`DecoderAssumption`);
- no topic is called "video" or "audio" (`KeysAssumption`). The code keeps all callbacks in one table of
  strings, so a topic of such a name would share its entry with the media callback;
- a frame has fewer packets than there are sequence numbers (`WrapAssumption`, `SizeAssumption`). Otherwise
  two of its packets have the same number and timestamp, and no receiver can tell them apart.

Core and transport. `TypeOK` is inductive by itself; it is split into parts
(`LinkType`, `RequestType`, `EventType`, `HeartbeatType`, `PcType`) so that each
action disturbs few of them. The other three are proved together as
`RequestInv`, relative to `TypeOK`. They need each other: a response settles
the registered call of its key, so it is of the call's epoch only because whatever
is registered is of the current epoch (`RetainedStateIsCurrent`) and the router has
compared the epoch of the message under the lock; and failing all registered calls at
a reset leaves no call waiting only because whoever waits is registered
(`WaitersAreRegistered`). While a reset has bumped the epoch and not cleared the
session, retained state is of the old epoch; nobody can register or settle then, since
the resetting actor has the lock. Settling calls, the one operation all
handlers share, has its own lemmas (`SettleEffect`, `SettleCalls`,
`SettleRetained`); each actor has one lemma that covers its steps.

Core and peer. Five epochs are kept in different places and no lock keeps them equal: `session_id`,
the engine's ingress generation, the generation the peer captured when it was prepared, those
of messages and commands, and those of heartbeat threads. `EpochInv` says how far apart they can be: the
engine is behind only between the two stores of a reset, the peer is never ahead of the
engine, and nothing queued or in flight is newer than the peer. With it `PeerInv` follows: a channel
that is not closed belongs to the current generation, or to the one before while a reset is between the two
stores of `set_ingress_generation` (`Swapping`), and if `opened` is set it was validated in its own. The flag alone does
not say so: "Validation Ok." of the old peer may be handled after `stop_background_tasks` has
lowered it, and raise it again; the second store then closes the channel. `WatchInv` is about the
moments no reset disturbs: there the running flag of the heartbeat has a live thread of this
epoch behind it, but for the two steps of the handler of "Validation Ok." that set it up. `FaultIsRetained` is inductive given
these: the router takes the fault out of its slot and keeps it in `routerMsg` until the reset it
causes, and a newer fault cannot arrive before the next peer.

Attempts. An attempt can be dropped at any await, so `ConnectInv` says who owns what is alive at
each of them: a peer is in `resources` or in the hands of the close in progress, a command task in its field,
a media task in the list of the peer that is owned (`AliveIsOwned`, up to the drop of the engine); what the close has already
taken is gone from the fields (`CloseEmpties`); and what the attempt has built so far is in them (`AttemptOwns`).
`AnswerMatches` follows the number of the offer through the exchange, and `ExchangeIsFair` says that
the fallback is only tried, and an error only returned, when the network failed at an endpoint
the robot serves or the robot is not an honest one for the keys of this client: what happens to the
legacy request of a robot that serves `con_notify` excuses nothing.

The refinement. `EventFeed` has no mutex, counters or permits: an event is accepted in one
step into a lane with a free slot, taken, delivered if it is of the current epoch, and
released. The mapping forgets counters, mutex and producers, except that the event of the
producer that has the mutex is already the last of its lane (`Accepted`). So accepting is
the admission under the mutex, the push is no step, and neither is a refusal. That
the push never finds its channel full, and that the lane has a free slot, needs the accounting:
`CountIsExact` says that the counter of a class is what is queued, what is between admission
and push, and what the receiver has. The event accepted is of the current epoch because
`try_send` looks at the epoch again under the mutex. `FeedInv` adds who owns the mutex
(`LockIsPushing`), what the receiver owns at each of its steps (`ReceiverIsConsistent`) and
that a queue has only events of its class (`EventsAreSound`).
`AdmitEffect`, `PushEffect`, `PopEffect` and `PermitDropEffect` say once what each operation
does to the count; `ProducerImplements` and `ReceiverImplements` have one case per action.
The bytes of a class are accounted in the same way (`BytesInv`), as a sum over its events.

Sums. What a fold computes would take an induction over data. `Sums` defines the sum of f over a finite
set as the number of pairs of an element x and a number below f[x], so that the library's theorems on finite
sets and cardinalities do that work. `FoldIsSum` shows that the folds the models use compute it, and
`SumOfUpdate`, `SumOfAppend` and `SumOfTail` what happens to it when an element comes or goes.

The order of results. `EpochsInOrder` of the LiDAR pool is about the queue alone; what makes it
inductive is that a worker between admission and push has the mutex of the budget
(`PushHasLock`), so that nobody else pushes meanwhile, and that everything queued is of its
epoch or an earlier one (`PushIsNewest`). The epoch may move on before the push; the
next worker is admitted only after it, in a later epoch (`EventsHaveBegun`).
The theorem is about `PoolSpec`, which is the pool's part of `MCIngress` without fairness.

The dispatcher. The invariant has four parts. `RegistryInv`: whoever is inside the registry owns
its mutex (`LockIsInside`), and a topic with a callback is subscribed or is the one whose
`unsubscribe` has left the core and not yet the registry (`SubscriptionsMatch`).
`IdsInv` and `DeliveryInv`: ids are given once and a retired one does not come back, so a callback
that was retired when the delivery was taken (`barred`) is not the one copied later; and as sessions only
advance, a delivery that passes the second check was current when its conversion ended. What the second check
cannot stop, a reset between it and `call1`, the property leaves open; the code's comment says so
too. `LogInv`: what is pending
is what is owed, and the log is of the generation of the delivery in progress, because
the dispatcher resets it before anything can fail. `RegistryStep`, `DeliveryStep` and `LogStep` show
that each part is kept. Finalizers enter through `ReleaseReference` and are covered.

The session. Every part of the state but the disconnect generation is changed only by the owner
of `session_gate`, or by a task the owner waits for. `GateInv` says that the owner is the one
call at a step inside the gate, a dropped future's spawned cleanup included. `LinkInv` says what
the session may hold at the owner's step (`Holder`): a close task only in `Closing`, an
audio cleanup only in `Cleaning`, no sender in `Silent`, a peer without a connection only in
`Unfinished`. The free gate is in none of these sets, which is `IdleIsClean`. The generation is
bumped without the gate; `SeenInv` says that the running attempt, and the one the session is
connected through, subscribed after every disconnect that has returned.

The audio sender. `take_native_shutdown` hands out the native part once. `JoinInv` says that once
it is taken, the bus thread is over unless the owner is on its way to the join; so a
later call that finds it taken may skip the join. For `FirstFailureWins`, `FreshInv` says that a
pipeline whose first state change is still to come has an empty bus, so the bus thread cannot
have failed before `is_playing` was stored. In `WorkersAreJoined` a drop within
the runtime is over when the task it spawned has completed, not when `AudioSender::drop` returns.

The decoder queue. `OrderInv` keeps an account: what was received is what was decoded, what is queued,
what the read has consumed and what `decode()` has not yet pushed; the unit in `decode()` has the last
number. `CountInv` and `BytesInv` add what the admission has established before the push: the streaming
thread can only lower the levels in between. So the counter stays between zero and its limit and
never wraps around (`NoWrap`).

Chunks. `AssemblerInv` compares each transfer with the history of what arrived for its key: its chunks are
exactly those, their sizes add up to its counter, and it lacks at least one index. A transfer
completes when the number of its chunks is the announced one; as the indices are below
that number, none is missing. An insert is one step with many outcomes;
`InsertCompletes` and `InsertKeeps` treat those that return a value and those that keep a transfer, and every
rejection either leaves the table alone or removes an entry (`RemovalKeeps`).

The reassembler. `SenderInv` says what the packets that can still arrive, and the last one that did,
have to do with each other: packets of one unit are numbered consecutively, and packets with one timestamp are fewer
than the sequence numbers. So the packet whose sequence number follows that of the last one, with its timestamp, is
its successor and not one that comes a turn later (`FollowerIsNext`). `ReceiverInv` says that the buffer is the unit up to the last fragment
that arrived. The lemmas on remainders are proved from the definition of division.

Only model-checked: all liveness properties (TLAPS does not prove liveness under fairness here), and
`BudgetsAreExact` and `ConversionsAgree`, which compare recursive functions on documents and frames with their
references, for every sample of a bounded domain.

## Finding

`session_retry`: `session.rs:220` says that an explicit disconnect suppresses further
attempts of `auto_reconnect`. The loop sees a disconnect only through
`intentional_disconnect`, which the next `connect` lowers. In the trace a loop fails
once and sleeps; a disconnect returns; another caller connects; the loop wakes up, sees
the flag down and begins a further attempt. `DisconnectIsFinal` shows the part that does
hold: no attempt that was active or queued at the time of a disconnect leaves the session
connected after it.

An observation without a run of its own: `audio/transmit/service.rs:284` says that playing
is published before the state change "so an asynchronous bus failure wins the race". It
does when the bus thread lowers `is_playing` after the store in line 285, and for a sender
that is played once and never paused this is checked (`FirstFailureWins` in `media`; a session
uses its senders so). Without the condition on `plays` and `pauses` TLC finds a trace in
which an error of an earlier play or pause is handled between the check of `bus_running` in
line 275 and the store: play sees the failure in line 290 and returns an error, but leaves
`is_playing` set.

## What is not modelled

- The ciphers (RSA, AES), the loading of keys, URLs and the HTTP client: library code; `Signaling`
  has symbolic ciphertexts. The text of SDP and the tokens of JSON belong to libraries too.
- GStreamer, Opus and LZ4: native code; their outcomes are choices of the models. The
  rounding of LiDAR coordinates, whose ranges are modelled, and the pixels of a picture.
- The construction of the pipelines and of the audio source, and the pacing of packets by
  their RTP timestamps.
- The text of the messages the core builds (wireless controller, channel switches) and of
  errors and log lines. Bridge methods that only delegate, constants and trait declarations.
- The `auto_reconnect` loop of a `ConnectionService` used without a session: a repetition of the
  attempts that `ConnectAttempt` has.
- The drop of the last handle of a session while a call of it runs: the call borrows the session.
- In `LidarWorkerPool` the drop of the receiver of events (see `EventChannel`) and a
  reader that keeps an admission after taking its event.
- Memory orderings weaker than sequential consistency, panics, poisoned mutexes, and the
  wrap-around of 64-bit epochs.

Hazards that the models do not reach, beyond the list in `PROJECT.json`: a heartbeat thread that
cannot be spawned panics while the router holds `lifecycle_lock` (`core/service.rs:1212`);
`validation_key` is kept across sessions, and no rule says which key a reply must use (`:910`);
`disable_traffic_saving` waits under a key without an id, so the answer to any other
`rtc_inner_req` resolves it (`:535`); the 32-bit RTP timestamp of the sender comes round
after a day, which its pacing does not expect (`audio/transmit/service.rs:174`).
