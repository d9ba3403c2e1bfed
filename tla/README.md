# Slipstream SDK: verification project

TLA+ models of the Rust SDK in `src/`, the TLC runs that check them on small
instances, and TLAPS proofs of their safety properties for every instance.
`PROJECT.json` holds the machine-readable side: components, runs, mutants, the map
from every definition to the source lines it stands for, findings, hazards and
theorems. Source paths below are relative to `src/src/`.

## 1. The system

A `SlipstreamClient` picks a worker, connects to it over the first of four
protocols that answers (QUIC, gRPC, WebSocket, HTTP), submits transactions and
receives five kinds of streams. `MultiRegionClient` keeps one such client per
region. Everything runs on tokio: callers, a health monitor, a keepalive task and,
per transport, receiver and forwarding tasks.

| Component | State | Operations | Interacts with |
|---|---|---|---|
| WebSocket transport (`connection/websocket.rs`) | sink, `connected`, sender and receiver of one bounded channel behind a lock | connect, disconnect, submit_transaction, subscribe_* | receiver task feeds the channel; every submit call and subscription task takes from it |
| QUIC transport (`connection/quic.rs`) | connection, endpoint, session, `connected` | connect, disconnect, submit (one stream each), subscribe_*, ping | worker opens one uni stream per subscription; `accept_uni` is shared |
| gRPC transport (`connection/grpc.rs`) | client, config, session, `connected` | connect, disconnect, submit, subscribe_* | tonic drives the streams |
| HTTP transport (`connection/http.rs`) | client, config, `connected` | connect, disconnect, submit, polling subscribe_*, ping | one polling task per subscription |
| Fallback chain (`connection/mod.rs`) | timeouts | connect: the protocol ladder, legacy port retry | callers connect its result a second time |
| Health monitor and client lifetime (`connection/health.rs`, `client.rs`) | slot `Arc<RwLock<Box<dyn Transport>>>`, SubscriptionTracker, keepalive handle | monitor_loop, reconnect, resubscribe, keepalive, submit, subscribe, disconnect | all share the slot's lock |
| Submission with deduplication and metrics (`client.rs`) | DedupCache, counters | is_duplicate, submit, record | concurrent callers |
| Worker selector (`connection/selector.rs`) | latency cache | select_best, in_region, for_leader, measure, invalidate | one HTTP ping task per worker, all writing to the cache |
| Multi-region client (`multi_region.rs`) | map of clients, routing recommendation, cooldown | submit, broadcast, ensure_region_connected, update_routing_from_hint, disconnect_all | leader-hint listener task |
| Discovery (`discovery.rs`) | none | discover, workers_for_region, best_region | REST |
| Configuration (`config.rs`) | values | validate, get_endpoint, with_legacy_endpoint, build | |
| Clock offset and latency window (`client.rs`, TimeSyncState) | window of samples | record, medians | keepalive task |
| REST calls (`client.rs`) | cached tip | webhooks, landing rates, tips, RPC proxy | pure I/O |
| Types and errors | none | | |

What is hard about it, and what makes each part correct:

* **One channel, many consumers** (WebSocket). Replies and events of all streams
  arrive in one channel; each consumer locks it for one `recv()` and discards what is
  not its own. Correct means: answers go to their own request, streams stay in order,
  nothing crosses from an old socket to a new one, nobody waits for ever, nothing is
  lost to a consumer that threw it away.
* **One slot, a transport that is replaced under load** (client). Calls hold a read
  lock for their whole length; the monitor reads a flag, dials for seconds and then
  wants the lock as a writer. Correct means: no call is moved to another transport,
  no healthy transport is replaced, no subscription is forgotten, nobody starves,
  and a lost connection is replaced while a disconnected one is not.
* **Server-opened streams** (QUIC): two subscriptions that wait for a stream together
  must each get their own.
* **Check, await, record** (deduplication): a second copy must not pass between the
  check and the record, and one that got no answer must remain possible.
* **Routing** (multi-region): the hints' order, the cooldown, `u64` slot arithmetic,
  and clients created twice or after `disconnect_all`.
* **Timeouts and retries** (fallback chain, backoff, selector): caches that are fresh
  when read and stale when used, sums of timeouts, boundary values.

`PROJECT.json` lists these as hazards, each at its line.

## 2. The modules, and the plan

| Module | Models | Uses | Proofs |
|---|---|---|---|
| `RequestReply` | what a submission promises over a shared channel (abstract) | | |
| `WsTransport` | the WebSocket transport | implements `RequestReply` | `WsTransport_proofs`, `WsDelivery_proofs` |
| `QuicTransport` | the QUIC transport | | `QuicTransport_proofs` |
| `Subscriptions` | what a subscription promises (abstract) | | |
| `StreamTransports` | the gRPC and the HTTP transport | implements `Subscriptions` | `StreamTransports_proofs` |
| `TransportCell` | what the slot promises to those who use it (abstract) | | |
| `ClientHealth` | the slot, the monitor, the keepalive task | implements `TransportCell` | `ClientHealth_proofs` |
| `Submission` | deduplication and metrics | | `Submission_proofs` |
| `Connecting` | discovery, ranking, the fallback chain, backoff | | `Connecting_proofs` |
| `Selector` | the latency cache and the choice of a worker | | |
| `MultiRegion` | the multi-region client | composes `Selector` | `MultiRegion_proofs` |

Each `MC...` module gives its module small sets; each `.cfg` is one question.
The modules meet where one takes the other's result for granted: `ClientHealth`
reduces a transport to flag, link and requested streams and the fallback chain to
`DialSucceeds` and `DialFails`, which `Connecting` takes apart; `Submission` reduces slot and
transport to a call that returns; `MultiRegion` reduces a client to one that connects,
answers and is disconnected, and runs the actions of `Selector` inside its own.

Left of the plan: a selector of several workers per region under `MultiRegion`; the
latency window.

Instances: two callers (or requests, or subscriptions) are enough for every race named
above, three where one pair shares something the third does not; bounds per run are
given below.

## 3. RequestReply and WsTransport: `connection/websocket.rs`

| TLA+ | Code |
|---|---|
| `sink`, `connected`, `chan`/`queue` | `ws_sink`, `connected`, the channel behind `message_rx` |
| `lock` | the fair tokio lock on `message_rx`: head holds, the rest waits |
| `receiver[g]` | the receiver task spawned by the g-th `connect()` |
| `conn`, `ConnectDial .. ConnectTimeout` | program counter and awaits of `connect()` |
| `call`, `late`, `status`, `SubmitSend .. SubmitRecvTimeout` | `submit_transaction`'s response loop, deadline and local `status` |
| `task`, `hand`, `given`, `Subscribe .. TaskAbandoned` | the five `subscribe_*` and the task each spawns |
| `read`, `reader`, `AppRead`, `AppDrop` | the application's end of a subscription |
| `wire`, `link`, `greeted`, `taken`, `said`, `streaming`, `events` | worker and network (environment) |

An action is the code between two awaits. `connect()`, `disconnect()` and drop need
`&mut self`, hence `Exclusive`; the others `Shared`. Messages are records of kind,
session, addressee and, for replies, what they say; the session of a message and the
number of a reply (`nth`) are history that only properties read. `AllSays` lists the replies
`submit_transaction` tells apart, `Says` those the worker may give to each submission;
`StatusAfter` is the match on them. A worker sends at most one reply of each sort per
submission, none after a final one, and one heartbeat at a time.

`RequestReply` is a submission without channel, lock and session: the peer answers a
request that was made; answers on their way may be lost at any time; a request takes the
oldest of its own that is left, and a final one is the last it takes. `RepliesKeepPromise` is the
refinement: a request is open while its call is in the loop, and the answers it may
still take are the replies to it in the channel and on the wires (`Coming`), by their
numbers. All that connect(), other submissions, subscription tasks and lost sockets do
to it is a loss. It is checked by TLC and proved.

| Run | Instance | Shows |
|---|---|---|
| `ws_submits` | 2 submissions, 2 replies to one and none to the other, 1 subscription without events, heartbeats, queue 1, 1 session, with fairness | `TypeOK`, `LockOnlyToReceive`, `RepliesKeepPromise`, `EverySubmitReturns`, `ConnectReturns`, `HeartbeatAnswered`, `ClosedOnceDropped` |
| `ws_sessions` | 2 subscriptions to 2 streams, 2 events, queue 2, 2 sessions | `OnlyThisSession`, `ConnectedIsWired`, `StreamsInOrder` |
| `ws_outcome` | 1 submission, final updates | `ResultIsOutcome` fails |

The exact constants are in the `.cfg` files. Queue capacities of one or two (256 and 32
in the code) make a full channel and a blocked receiver task common; two sessions are
the least with an old and a new socket; two submissions the least that can take each
other's reply, and the one the worker is silent on stays to take what is not its own; two
subscriptions the least that can take each other's event; the subscription of `ws_submits`
is the quiet one that others wait behind. The safety properties of these runs are theorems
for any number of each, any replies and any events (section 10).

`EverySubmitReturns` and `ConnectReturns` do not say that the calls return: a subscription
task holds the lock on `message_rx` across a `recv()` without a time limit, and a submission
takes that lock outside its own limit (`websocket.rs:605`, `737`). They say that nothing else
keeps a call for ever: where one never returns, from some time on a subscription holds the
lock over an empty channel (`BehindQuiet`). `connect()` runs in that run before there is a
subscription, and there its property says plainly that it returns.

Two formulas of the module do not hold of the code, and no run checks them:
`EventsReachSubscriber`, with two subscriptions to two streams (the one that is first at
the lock discards the event of the other); and `ConnectedIsAccepted`, when the worker
refuses the handshake of a second `connect()` (the flag of the first stays set). TLC finds
each within the instance of `ws_sessions`.

Fairness: `WF` on the steps of each task, since tokio runs a task that is ready; on
timers (`Deadline`, `ConnectTimeout`); on `AppRead`, because nothing returns to a
subscriber that neither reads nor drops its channel. None on the worker, the network or
the application's decisions. The lock is a FIFO queue, so weak fairness suffices.
A second `connect()` replaces the transport's sender before it waits for `message_rx`
(`websocket.rs:458-460`). If the old receiver task has ended, that was the last sender
(`NoSender`): a waiting subscription sees the end of its channel (`TaskClosed`), lets go of
the lock, and `connect()` goes on. While the old socket lives, `connect()` waits for it to
bring a message or to end.

## 4. TransportCell and ClientHealth: `connection/health.rs` and the slot of `client.rs`

| TLA+ | Code |
|---|---|
| `slot`, `flag`, `link`, `requested` | the transport in the slot; per transport `is_connected()`, its connection, the streams asked for on it |
| `mode`, `ahead`, `Request`, `Release`, `Granted` | tokio's fair `RwLock`: readers share, first come first served |
| `call`, `wants`, `on` | calls of submit, subscribe_* and disconnect; each holds its guard until it returns |
| `tracked` | `SubscriptionTracker.active`, set before the lock is asked for |
| `monitor`, `pending`, `MonitorTick .. ResubscribeDone` | `monitor_loop`, `reconnect`, `resubscribe` |
| `keepalive`, `KeepaliveTick .. KeepaliveAborted` | the keepalive task of `finish_connect` and its abort in `disconnect()` |

A transport is reduced to what the slot's users see. All four transports set the flag
in `connect()` and clear it only in `disconnect()`; `DisconnectReturns` is that call.
`DialSucceeds` stands for the whole fallback chain and the second `connect()`;
`DialFails` for any failure of it and the backoff that follows (section 8). Transports are numbered;
`MaxDisconnects` bounds the calls of `disconnect()` and with it the transports; by the
theorem `AlwaysRoomToReconnect` it never keeps the monitor from installing one.
A subscription on a dead link has no effect here.

`TransportCell` is the slot without lock, monitor and keepalive task: a use begins and
ends on the transport in the slot, whoever closes it has it alone, and only a closed
transport that nobody uses is replaced. `SlotKeepsPromise` is the refinement:
a call uses the transport it found while it is inside, the keepalive task while it pings,
and the usable transports are those up to `slot` whose flag is set, so that one dialed
but not installed is not yet in the cell. Asking for the lock, dialing, and resubscribing
are steps of `ClientHealth` alone. It is checked by TLC and proved; that
the monitor resubscribes on the transport it has just installed is in `StreamsFollow`.

| Run | Instance | Shows |
|---|---|---|
| `health` | 2 callers, 1 stream, keepalive, 1 disconnect, with fairness | `TypeOK`, `CallsKeepTheirTransport`, `StreamsFollow`, `SlotKeepsPromise`, `EveryCallReturns` |
| `health_lost_link` | 1 caller, with fairness | `LostLinkReplaced` fails |

Two callers are a subscription or submission that races a disconnect, beside the monitor
and the keepalive task; one disconnect gives one replacement of the transport, under all
of them. Several streams and repeated disconnects are covered by the theorems of
section 10, which hold for any number.

The only flag that is ever clear is that of a transport its user has disconnected, so the
monitor does nothing but connect such a client again (`health.rs:88-92`), where
`client.rs:391` says "Disconnect from the server" and `docs/ARCHITECTURE.md:68` leaves
`Disconnected` by `connect()` alone. `StaysDisconnected` says what they say, and a single
caller refutes it. That the monitor gets through in the end is therefore no property here.

Fairness: `WF` on the steps of monitor, keepalive task and each call in progress. It
assumes that a transport's own calls return: section 3 names one that may
not, in which case everything behind it on the slot waits too. `SF` on `DialSucceeds`
says that a worker dialed again and again is reached in the end: `LostLinkReplaced` is
granted that much and fails all the same. Safety needs neither.

Calls may fail in other ways (timeouts, rejected transactions) without any effect on
the slot; they return all the same. Resubscribed receivers are dropped by the monitor,
as the comment at `health.rs:123-126` says: `StreamsFollow` is about what the worker is
asked for, not about what the application gets.

## 5. QuicTransport: `connection/quic.rs`

| TLA+ | Code |
|---|---|
| `connected`, `connection`, `session` | `connected`, `connection`, `session_id` |
| `dialing`, `ConnectDial .. ConnectRefused` | `connect()` while it dials and authenticates |
| `draining`, `Disconnect`, `DisconnectReturns` | `disconnect()` up to, and in, `wait_idle()` |
| `call`, `on`, `CallStart .. CallFails` | `submit_transaction` and `ping`: a bidirectional stream each |
| `task`, `via`, `reads`, `hand`, `given`, `SubscribeStart .. TaskAbandoned` | the five `subscribe_*`: `subscribe_stream` and the task it spawns |
| `read`, `reader`, `AppRead`, `AppDrop` | the application's end of a subscription |
| `link`, `answered`, `served`, `offered`, `pipe`, `events` | network, worker and quinn's queue of streams not yet accepted (environment) |

A subscription writes its request on a stream of its own; the worker answers on one it
opens, and `accept_uni()` gives a waiting task the oldest stream nobody took
(`offered`), which may have been opened before the task was spawned (`SubscribeSpawn`
follows an await). Messages and streams are named by the subscription the worker meant;
the code sees only the type byte (`Decodes`). `crowded` is history: the subscriptions
that waited together on one connection. A connection lives while the transport or a
task has a handle on it, so one dropped without `disconnect()` outlives the transport
(`Drop`, `Ends`). Calls that fail before they send anything change no state and have no
action; a call may be repeated, a subscription is used once. How an answer is parsed,
and its status mapped, is abstracted.

| Run | Instance | Shows |
|---|---|---|
| `quic` | 2 subscriptions to 2 streams, a submission, 2 messages, channel 1, 2 connections, with fairness | `TypeOK`, `OneConnection`, `OwnTypeInOrder`, `AloneGetsOwn`, `ClosedReleasesAll` |

Two subscriptions are the least that can swap streams; two connections the least with an
old one whose tasks still wait; two messages the least that can change places.
`GetsOwnType`, that a subscription always reads the stream opened for it, is refuted
by two that wait together on one connection; `AloneGetsOwn` is what is left of it.

The worker is assumed to open one stream per request (the comment at `quic.rs:251` says
"per subscription type"; should it open fewer, more tasks wait for ever, which
no property here excludes on a live connection). Fairness: `WF` on the steps of a call,
of a subscription's task and on `AppRead`; none on the worker, so all that is claimed is
that waits end with the connection: nothing on a live one bounds them,
`options.timeout_ms` included.

## 6. Subscriptions and StreamTransports: `connection/grpc.rs`, `connection/http.rs`

`Subscriptions` is what an application may expect of a channel it got from a
`subscribe_*`: events of its type, each at most once, in the order of publication,
from when it is open until it is over, and without gaps if the subscription is `exact`.

| TLA+ (`StreamTransports`) | Code |
|---|---|
| `kind` | which of the two transports; chosen once |
| `connected`, `Connect`, `Disconnect` | the flag, and the two operations by `&mut self` (`Exclusive`) |
| `call`, `CallStart .. CallReturns` | `submit_transaction` of both, `ping` of HTTP |
| `task`, `Subscribe .. Abandoned` | `subscribe_*` and the task it spawns |
| `cursor`, `Later`, `PollAnswered`, `PollFails` | `last_id` of the HTTP loop; for gRPC, how far the stream has been read |
| `hand`, `Forward`, `given` | the message in `tx.send().await`, and the channel |
| `published`, `Publish` | the worker's messages of a type, numbered (environment) |

The tasks hold clones of the tonic or reqwest client. Nothing that happens to the
transport afterwards reaches them, so they go on after `disconnect()`. `orphans` is history:
the subscriptions whose transport was disconnected since they were opened.

`KeepsPromise` is the refinement: with `exact <- kind = "grpc"`, the state of a
subscription read off its task, and `delivered <- given`, every behaviour of
`StreamTransports` is one of `Subscriptions`. It is checked by TLC and proved.

| Run | Instance | Shows |
|---|---|---|
| `streams` | both kinds, 2 subscriptions to 1 type, 1 submission, 3 messages, channel 1, with fairness | `TypeOK`, `KeepsPromise`, `NewsArrive`, `AbandonedStops` |

Three messages let an HTTP poll pass one over between two it delivers; a channel of
one (32 in the code) makes a slow application block the task. Fairness: `WF` on the
steps of each task, except that `PollAnswered` is `SF` - not all polls fail for ever while
a message is there - and `WF` on `AppRead`. `NewsArrive` leaves out what the code does
not do: a gRPC stream that starts after the message, or that breaks, which ends the
channel without a reconnect. It also claims nothing of `orphans`: that their tasks go on
is no promise but a leak, since `health.rs:124` says that the old channels "will have
closed when the old transport was replaced". `OrphansClose` says the same; TLC refutes it,
as an HTTP task polls on and a gRPC task reads on.

Another deviation from the documentation that is no property here: the gRPC submission
takes the first message of the response stream for the final one (`grpc.rs:264`).

## 7. Submission: `submit_transaction_with_options`, `DedupCache`, `ClientMetrics`

| TLA+ | Code |
|---|---|
| `entries`, `Fresh`, `Inserted`, `Pruned` | `DedupCache.entries`, `ttl`, `record()` with its pruning beyond 1000 |
| `Refuse`, `Submit` | `is_duplicate()`, under its own lock, and the way it decides |
| `TransportReturns`, `Answers` | the slot's lock and the transport's call: Ok with a status, or Err |
| `IsOk` | `result.is_ok()` |
| `CountSubmitted`, `CountLatency`, `CountConfirmed`, `Record` | three atomic counters and the cache, one after the other |
| `recorded`, `sent`, `oks`, `spent` | history |

| Run | Instance | Shows |
|---|---|---|
| `submission` | 2 callers, 2 transactions, ttl 2, limit 1, clock to 3, 3 calls | `TypeOK`, `CacheBounded`, `CountersAgree`, `OkStaysRefused`, `RefusedOnlyAfterOk` |

A limit of one (1000 in the code) makes the second record prune; a clock one beyond the
ttl makes entries expire; three calls are one more than the callers, so that a call
meets what an earlier one recorded. `MaxCalls` bounds the calls that reach the transport.

Ok is not acceptance. A refusal that the worker gives as an answer is, over every transport,
`Ok` with status `Failed` or its like (`websocket.rs:662-671`); Err is what has no such answer:
a timeout, a lost connection, an error of HTTP or gRPC itself (401 and 429 included).
The client looks at `is_ok()` alone (`client.rs:453`): it records a refused transaction, so
that the same bytes are refused for the ttl (`RefusedMayRetry`, that they are not, is refuted
by one caller), and counts it as confirmed, as it does `Ok(Sent)`. `types.rs:1046` calls that
counter "Total transactions confirmed"; `CountersAgree` claims only that it is the number of
calls that returned Ok.

`SubmittedOnce` does not hold: the check and the record are apart, so that two
concurrent calls with the same bytes both get to the transport (`client.rs:430`).
What holds is that nobody passes once a submission is recorded. Also, while calls
are under way, `metrics()` may read `submitted` before and `confirmed` after another
call's update (`client.rs:1026-1029`), and `success_rate`, documented as "0.0 - 1.0"
(`types.rs:1050`), may exceed 1; `CountersAgree` is about the state in which no call is.

## 8. Connecting: `client.rs` (connect), `discovery.rs`, `connection/mod.rs`, `health.rs` (reconnect)

| TLA+ | Code |
|---|---|
| `Discover`, `DiscoverNothing`, `BestRegion`, `Regional` | discovery response, `best_region`, `workers_for_region` |
| `Measure`, `Ranked` | `measure_all`, `sort_by_key` |
| `NextWorker`, `GiveUp` | the loop over ranked workers, or the backoff of the monitor |
| `FirstRung`, `NextRung`, `DialPrimary`, `DialLegacy`, `LegacyHelps`, `Descend` | `FallbackChain::connect`, `is_connect_failure`, `with_legacy_endpoint` |
| `AgainOverQuic`, `AgainDials` | the `connect()` the caller makes on the transport it gets |
| `Reconnect`, `Backoff`, `Backoffs` | `reconnect()`, `calculate_backoff` |

A port answers "ok", "down" (what `is_connect_failure` accepts) or "denied", decided at
its first dial and the same for the rest of the attempt; so the protocol's timeout is one
of the ways to be "down". Jitter is reduced to both ends and the middle of its range.

| Run | Instance | Shows |
|---|---|---|
| `connect` | 3 workers in 2 regions, the endpoints of `MCAdverts`, all choices of preference and region, 1 reconnect, 7 failures, with fairness | `TypeOK`, `FirstThatAnswers`, `NoneLeftUntried`, `BackoffGrows`, `ConnectEnds` |

Seven failures are one more than the exponent's limit of six, so that the cap of
60 s is met; three workers are the least with a choice within a region and a region that
is left aside. Fairness: `WF(Next)`: each attempt has a time limit and the loop goes on.

`NoneLeftUntried` has one exception, `Dropped`: a worker that answered on the legacy port
of a protocol other than QUIC, and was lost in the second `connect()`, which dials the primary
port. The caller goes on to the next worker (`client.rs:237-252`), so the protocols after
that one were not dialed on it; those before were, in vain. In the run a worker has legacy
ports of QUIC and gRPC, so the exception arises.

What the model shows beside its properties: `AcceptedIsKept` does not hold, as the second
`connect()` may fail where the first succeeded, and always goes to the primary port, also
if the chain got through on the legacy one; a
preferred protocol that the worker does not offer is dialed on the local host; the first
backoff is of 2 s where the comment says 1 s (`health.rs:163`); and a reconnect stays with the worker
selected once, where `docs/ARCHITECTURE.md:49` says that discovery is repeated.

## 9. Selector and MultiRegion: `connection/selector.rs`, `multi_region.rs`

| TLA+ | Code |
|---|---|
| `cache`, `Ask`, `PingEnds`, `PingStored`, `Measured`, `Best`, `Choose`, `Forget` | `select_best_in_region`, `measure_all` with a task per worker, expiry and `invalidate` |
| `clients`, `readers`, `WriterWaits`, `CanRead`, `CanWrite` | `region_clients` and its `RwLock`: a submission holds it for reading while the client submits, a waiting writer stops later readers |
| `EnsureFinds .. EnsureInserts` | `ensure_region_connected`: look, select, connect without a lock, insert |
| `SubmitStart`, `plan`, `RegionFails`, `SubmitSends .. SubmitErr` | the sequential fallback and `submit_to_region` |
| `Broadcast...`, `fan` | `broadcast_transaction`: clone, spawn, await one by one |
| `HintPasses`, `HintApplied`, `CooldownEnds` | `update_routing_from_hint` and the listener |
| `CloseStart .. CloseReturns` | `disconnect_all` |
| `live`, `created` | the clients that are connected (environment, see `ClientHealth`) |
| `told`, `aim`, `switches` | history |

| Run | Instance | Shows |
|---|---|---|
| `regions` | 2 users, 2 updaters, 3 regions of which 2 have a worker, 3 clients, 3 calls, with fairness | `TypeOK`, `NotCutOff`, `FailsAfterAll`, `SubmitReturns` |
| `regions_orphan` | the same | `NothingLeft` fails |
| `regions_cooldown` | the same | `OneSwitchPerCooldown` fails |

The region without a worker makes the first of a recommendation fail before anything is
connected; three clients let both users connect one region at once, beside the one of
`new()`; `MaxCalls` counts submissions, broadcasts, hints and calls of `disconnect_all`
together. Each region has one worker and there is one round-trip time, so that the
instance exercises the selector's interleavings (expiry, pings of two callers stored in
either order) but leaves its choice no alternative; and `MaxBroadcast`, at two, cuts
nothing off. The theorems hold for any of these.

Fairness: `WF` on what a submission does itself (`Advances`: looking, selecting, pings,
connecting, inserting, returning) and on the locks of `disconnect_all`. None on `Answered`,
the answers of clients, nor on `CloseOne`, which waits for them: a QUIC submission has no
limit (`quic.rs:545`), a WebSocket one may wait behind a quiet subscription, and the client
opens one for leader hints. So `SubmitReturns` does not say that a submission returns, but
what one that never does is waiting for: the answer of its own client; that of the client of
another submission, which holds `region_clients` for reading while a writer waits between
the two (`HeldUp`); or a client that `disconnect_all` is disconnecting. That the pings, the
locks, the expired cache or a region without workers never stop one is what is left, and
what the mutant breaks.

The cooldown is read before the routing lock is taken (`multi_region.rs:371`), so that two
hints may both find it over and both switch, where `types.rs:736` has a "Cooldown between
region switches (ms)": `OneSwitchPerCooldown` fails. What it is worth is `SwitchesBounded`, a
theorem: each updater switches at most once.

## 10. Proofs

Checked by TLAPS for every value of the constants, from the named assumptions of each
module (`ConstantsOK`, `ClientOK`, `RegionsOK`, `DirectoryOK`, `AdvertsOK`: disjoint
names, capacities of at least one, bounds that are numbers, a worker at all, finite sets
where something is counted).

`WsTransport_proofs`
* `Typing`, `TypeCorrect`: `TypeInv` adds to `TypeOK` that sink and channel are in place
  whenever a call can use them (`Wired`) and that a forwarding task carries an event
  (`Carries`). Without the first, `receiver[chan]` and `link[sink]` have no type.
* `WiredWhenConnected`: `ConnectedIsWired` is a part of `Wired`.
* `LockDiscipline`: `LockOnlyToReceive` is inductive over `TypeInv`; lemmas say what
  `Enqueue` and `Release` do to a queue without repetitions.

`WsDelivery_proofs`
* `FreshSession`: the channel holds only messages of its session, because wires do
  (`SessionInv`), and because only the receiver task of the channel's own session
  finds its receiving end alive.
* `ImplementsRequestReply`: a reply on a wire or in the channel is one the worker gave,
  under its number, on the session on which it took the submission (`RepliesSaid`);
  along channel and wire the numbers of the replies to one request grow (`FlowInv`); and
  the channel holds messages of one session (`Provenance`). So the reply at the head of the channel is
  the oldest on its way to its request, and occurs once (`HeadIsOldest`). A call
  that takes it takes a `Take`; whoever else removes messages causes a `Lose` at most
  (`LossIsPromised`, `StepIsPromised`). That the worker has taken no submission before it is
  made (`Asked`) makes every `Answer` one to a request.
* `OwnAnswers`: `AnswerIsOwn`, the status of a call was given for that request and it
  returns only after a final reply of its own, is kept by every step of `RequestReply`
  (`OwnKept`), hence by every step of the transport.
* `OrderedStreams`: along each subscription's path - channel `given`, event in hand,
  `queue`, `wire` - the event numbers grow, by the same `FlowInv`; the argument needs
  that no two sessions feed one channel, hence `OnlyThisSession`.

`QuicTransport_proofs`
* `TypeCorrect`, `SingleConnection`: `TypeInv` adds to `TypeOK` which connections have been
  opened (`Opened`) and which the transport owns (`Owned`).
* `OwnStreamWhenAlone`: `SoloInv` says that a connection has offered no more streams than
  there are tasks still to take one (`Offered`, `Balanced`), so that for a subscription that
  never waited with another (`Alone`) the one stream there is its own.
* `OwnTypeOrdered`: `OrderInv`, message numbers grow along pipe, hand and channel
  (`PipesOK`, `HandsOK`, `GivenOK`), whichever stream was accepted.

`StreamTransports_proofs`
* `TypeCorrect`, `ImplementsSubscriptions`: `StreamInv` says of each subscription that the
  message at hand is the one at the cursor and that the last one given is at or before
  it, for gRPC exactly (`FlowOK`). Then `Forward` is a `Deliver` of the message that may
  follow; opening and ending are `Open` and `Finish`; all other steps leave the promise's
  variables alone (`StepIsPromised`).

`Submission_proofs`
* `TypeCorrect`, `OkIsRefused`, `RefusalFollowsOk`: `CacheInv` relates cache and records
  both ways: each entry stands for an Ok recorded at its instant (`Backed`), and each
  Ok younger than the ttl has its entry or a later one (`Kept`), which pruning respects
  since it removes only what has expired (`PrunedIs`).
* `CacheStaysBounded`: `Bounded` names the instant of the last insertion, which the
  property chooses.
* `CountersComplete`: each counter lacks just what the calls under way have still to add.
  `CountInv` states the debts as cardinalities of sets of calls (`Waiting`, `Uncounted`,
  `Unconfirmed`, `Untimed`) that each step enters or leaves with one call, so no sum
  over the calls, and no induction, is needed.

`Connecting_proofs`
* `TypeCorrect`: rests on lemmas about the operators. `RankedIs`: a ranking holds the
  workers ranked and no others (an injection of a finite set into one of its size is
  onto); `FirstOf`, `NextRungIs`, `FirstRungIs`: the first of a set of rungs exists;
  `BaseIs`, `BackoffsAre`: the delays and what the jitter makes of them.
* `RankingExists`: whatever was measured, the workers can be ranked, so `Measure`
  never stops a client; a worker's place is the number of those not after it, which is
  one-to-one, hence onto.
* `LadderInOrder`, `AllWorkersTried`: `ConnectInv` says that all rungs below the present
  one are closed (`Passed`), what the port at hand has answered (`Answered`), and of each
  healthy worker of the region that it is queued, has its turn, or was tried (`Seen`).
  `Seen` needs the reason why a worker that accepted a connection can fail, `DroppedAt`: the
  second `connect()` goes to the primary port, so only a session over the legacy one is
  lost, and by `Passed` the rungs before it are closed. Answers are never forgotten within an attempt (`DialGrows`, `StaysTried`), so
  that what was tried stays so.
* `BackoffsGrow`: the last wait belongs to the last failure (`Paced`), and the longest
  wait at one delay is shorter than the shortest at the next (`NextIsLonger`).

`ClientHealth_proofs`
* `TypeCorrect`: with `Dialed`, a transport to be installed exists and is connected.
* `NoSwapUnderCall`: `LockInv` says of two parties at the lock that one asked before
  the other (`Ordered`), that each task has the lock as its program counter says
  (`Placed`), and that a call in progress has it granted (`Inside`). Then a granted
  writer is alone, and `Install` cannot happen under a call.
* `OnlyDisconnectedReplaced`: `DialInv`, the flag the monitor read is still clear while
  it dials and installs, and only a `disconnect()` has cleared it.
* `ImplementsCell`: with `LockInv`, `DialInv` and that a ping in progress has the lock
  (`Pinging`), each user has the lock for as long as it uses the transport (`UsesIs`), so a
  writer is alone (`WriterAlone`) and nobody closes beside a reader (`NoCloserBeside`).
  Then `Enter` is a `Begin` or a `BeginClose`, the returns are an `End` or an `EndClose`,
  `Install` is a `Replace`, and all else stutters (`StepIsPromised`).
* `AlwaysRoomToReconnect`: each replacement, each `disconnect()` under way and a closed
  transport in the slot have a call of `disconnect()` of their own (`Accounted`), so that
  the monitor that dials has a number left for the new transport.
* `StreamsKept`: `StreamsFollow` is inductive over the types.

`MultiRegion_proofs`
* `TypeCorrect`: `TypeInv` adds that a routed submission has a region to try (`Planned`).
* `NeverCutOff`: `LockInv`, `disconnect_all` has no readers beside it, and no client is in
  the map twice or both in the map and still to be inserted; so it never disconnects one
  that a submission holds.
* `FailsOnlyAfterAll`: `FlowInv`, what a submission set out for is what it was told of and
  what it has still to try, or has under way.
* `SwitchesAreBounded`: `SwitchInv`, switches and pending hints together are no more than
  the updaters, and off cooldown there are no switches.

Only model-checked: all liveness (`EverySubmitReturns`, `ConnectReturns`,
`HeartbeatAnswered`, `ClosedOnceDropped`, `EveryCallReturns`,
`ClosedReleasesAll`, `NewsArrive`, `AbandonedStops`, `ConnectEnds`, `SubmitReturns`), which
needs fairness and ENABLED, outside what the prover handles. All safety and action
properties of the passing runs are theorems.

## 11. What the runs found

Four runs end in a counterexample, each against a sentence of the documentation or the
source that `PROJECT.json` quotes:

1. `ws_outcome`: a submission that ends on an update returns the status before it.
2. `health_lost_link`: a lost connection is never replaced, since the flag the monitor
   reads stays set.
3. `regions_orphan`: of two submissions that connect the same region, the client that is
   inserted first is lost to the map, and `disconnect_all` leaves it connected.
4. `regions_cooldown`: two hints handled at once both switch the region within one cooldown.

The other formulas that TLC refutes are named, with what they are held against, in sections
3 to 8.

## 12. Not modelled

* Clock offset and latency window: each call is one critical section on a bounded window,
  and the medians are pure functions of it.
* REST calls, and the cached tip, which is set before `connect()` returns and never by a
  subscription (`client.rs:549`).
* `select_for_leader` and `select_for_leader_pubkey`, without a caller in the crate, and
  the fallback strategies Broadcast, Retry and None, which no recommendation ever holds.
* The `u64` arithmetic of slots in hints (`multi_region.rs:387`, `454`), which may underflow;
  its result is read by nobody in the crate.
* `MultiRegionClient` gives the worker's HTTP endpoint to every protocol
  (`multi_region.rs:328`); `Connecting` has that as its direct case.
* Builder and `validate()`, data types and errors, message contents and session
  identifiers, cancelled futures (a caller that drops a submit future between two
  awaits), TCP backpressure on the sink, and the length of delays. `Arc` cycles and the
  fact that the monitor keeps running after the client was dropped are visible in the
  source but have no property.
