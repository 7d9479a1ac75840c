# rzrouter in TLA+

rzrouter is a TCP router. An **edge** router takes client frames and forwards
each to a router of the zone that owns the frame's segment; a **zone** router
forwards to a bridge of the shard that owns it. Topology comes from RzID (a
registry that is polled), host names from RzPoint (a resolver). This directory
models the parts in which concurrency, failure and ordering decide whether the
router is correct, checks them with TLC and proves the most important
invariants with TLAPS. Source paths are relative to the repository, which is
under `src/`; the code is in `src/src/`.

## Inventory

| Part | State | Operations | Interacts with |
|---|---|---|---|
| `connection.rs` | closed flag, corr. id counter, write channel, demux | `send_and_wait`, writer / reader / keepalive task, `close`, `next_corr_id` | demux; called by forwarder and hop |
| `demux.rs` | sharded map id → oneshot sender | `insert`, `remove`, `fail_all` (`cleanup`, `pending_count` have no caller) | calls and both tasks of a connection |
| `forwarder.rs` | none of its own; locals of `forward` | `forward`: two nested retry loops | routing snapshot, hop registry, connection |
| `hop.rs`, `resolver.rs` | health state, cached address, connection set | maintenance loop, `ensure_address`, `shutdown` | connection, RzPoint, hop manager, forwarder |
| `hop_manager.rs` | map id → hop | `get_or_create`, `get`, `retire_unused` | refresh task writes, forwarder reads |
| `routing_state.rs` | the published snapshot | `EdgeState`, `ZoneState` updates and lookups | written by the sync, read by the forwarder |
| `rzid.rs` | recorded versions | `sync_routing_state`, `detect_changes`, edge and zone sync, heartbeat, codecs | RzID over HTTP |
| `lib.rs`, `main.rs` | – | startup, refresh and heartbeat task, cancellation | all of the above |
| `tcp_server.rs` | active counter, per client buffer and timers | accept loop, frame loop | forwarder, protocol |
| `protocol.rs` | – | frame decoding, resynchronisation, own responses | server, forwarder |
| `config.rs`, `api.rs`, `metrics.rs`, `error.rs` | flags, counters | – | – |

What is hard, and which property makes each part correct:

* **connection/demux** – many calls, two tasks that both run `fail_all`, a
  timeout racing a late response, ids that wrap. Correct: nobody waits on a dead
  connection, nobody gets another call's response, nothing leaks, every call
  returns.
* **forwarder** – the snapshot, the hops and the connections change between
  any two of its steps; a result does not say whether a write was executed.
  Correct: it ends, tells the client the truth, and repeats a write only when
  it may.
* **hop** – a maintenance loop, resolver tasks and shutdown share an address, a
  state and a connection set, with awaits between reads and writes. Correct: it
  recovers, follows a move, never keeps too many connections, and lets go of
  all when retired.
* **edge and zone sync** – a dozen requests, each of which may fail, against a
  registry that changes meanwhile. Correct: every published snapshot is
  consistent, what is believed is true, and the router converges.
* **server and startup** – a connection counter that one task increments and
  another decrements, a cancellation at any moment, a registry that forgets the
  router. Correct: the limit is kept and no slot lost, cancellation ends the
  process, a zone router stays registered.
* **client connection and protocol** – lengths chosen by the client, garbage,
  frames cut anywhere, timers. Correct: the frames of the stream are found
  whatever the chunks, each request is answered once and in order, a compliant
  client is not disconnected, the handler ends.

`PROJECT.json` lists the hazards line by line.

## Modules

* `SendAndWait` – what a connection promises a caller: at most one execution
  per call, `ok` only for an executed frame, `timeout` only for an accepted
  one, `validation` only for one that was refused. It is as weak as the code:
  `closed` says nothing about execution.
* `Connection` – `connection.rs` and `demux.rs`. Processes: calls, writer,
  reader, keepalive. A step ends at every await and at every atomic access that
  another task can observe; `fail_all` is one step per shard (each takes its own
  lock) and one to notify. A frame is the call it was built for; a response is
  the call it answers. `wrapped`, `answer`, `sent` and `late` are history.
  External: the hop, which answers in any order, at most once, and may vanish.
* `Forwarder` – `forward`, with each `send_and_wait` a call of `SendAndWait`.
  `RefreshStep` and `MaintenanceStep` stand for everything the other tasks do
  to the snapshot, the registry and the connections: they change them
  arbitrarily. Router lists have no duplicates (an assumption about RzID).
  The retry `sleep` has no state.
* `Hop` – one hop with its maintenance loop, the resolver tasks that the
  forwarder spawns, `shutdown` and the drop. `calm` is an external switch after
  which nothing fails any more; liveness is stated from then on.
  The three tries of `resolve` are one success or failure. A connection that
  `try_reconnect` replaces counts as closed when the set lets go of it; in the
  code its sockets stay until the last call on it has ended.
* `EdgeSync` – the refresh task of an edge router with `sync_edge_state`, one
  action per HTTP request. `HashMap`s are functions on their key sets. `quiet`
  is the external switch after which RzID neither changes nor fails. Versions
  are never reused (an assumption about RzID). `manO` holds the zones that the
  manifest names only by keys that no request of the sync is for
  (`zones/<zone>/shards`): they count as existing, and change detection does not
  see them.
* `ZoneSync` – the refresh task of a zone router with `sync_zone_state` and
  `ZoneState`, in the manner of `EdgeSync`: first the zone's shards with their
  bridges, then the segments of each shard, whose answer also names the shard's
  zone. The manifest usually holds keys that pass the filter of
  `detect_changes` and are never recorded (`zones/<zone>/routers`), so a sync
  may be forced at any time; liveness does not rely on it.
* `TcpServer` – the life of the process: `async_main` from the spawned tasks to
  the exit, the accept loop with its counter and closer task, the heartbeat
  task. It models the binary: when `main` returns, the runtime takes all tasks
  and sockets with it. A caller of `async_main` with a runtime of its own keeps
  the tasks that do not look at the token.
* `RouterProtocol` – `protocol.rs` as operators on sequences of bytes, with the
  code's lengths and offsets; names and texts are cut down to letters.
  `ResponsesIn` is the framing that `reader_task` of `connection.rs` expects.
* `ClientConnection` – `handle_connection`, byte by byte, on top of
  `RouterProtocol`. What `forward` returns is any response or error that
  `Forwarder` allows. The property `FramesFound` compares the frame loop with
  `FramesIn`, a definition on the whole stream that knows neither chunks nor
  the scanning window.
* `ConnectionProofs`, `EdgeSyncProofs`, `ZoneSyncProofs`, `ForwarderProofs`,
  `HopProofs`, `TcpServerProofs`, `ClientConnectionProofs` – the theorems about
  one component each; `ConnectionRefinement` – that `Connection` implements
  `SendAndWait`.
* `MCConnection` – `Connection` with the symmetry of its calls, for TLC.

Operators commented "Mutant" are deliberate bugs, not part of any
specification. `PROJECT.json` pairs each with the property that catches it.

`Connection` implements `SendAndWait` until its counter wraps
(`ImplementsSendAndWait`, model-checked and proved; after the wrap a late
response can be taken for that of another frame) and `Forwarder` uses
`SendAndWait`, so what is known of the forwarder does not depend on the
abstraction hiding something a connection can do.

## Runs

| Run | Shows |
|---|---|
| `connection` | `EarlyCallsNotified`, `NoLeakedEntry`, `NoCrossDelivery`, `SenderNotDropped` and `ImplementsSendAndWait` for two calls, two shards, channel and socket of capacity one |
| `connection_live` | every call returns; a vanished hop is noticed; the writer of a closed connection ends with the next frame |
| `forwarder` | `WriteRetriedOnlyAfterClose`, `OutcomeExplained`, `HopAskedOncePerAttempt` and `ForwardReturns` for a local, read or write request |
| `hop` | never more than `conn_per_hop` connections; recovery once failures stop; a retired hop closes |
| `edge_sync` | `RoutedZonesHaveRouters`, `HopsRegistered`, `BelievedMeansTrue`; router lists converge once RzID is quiet; a published snapshot routes only to zones its manifest named |
| `zone_sync` | the same for shards and bridges; nothing is believed of a shard that belongs to another zone |
| `tcp_server` | at most `max_connections` handlers although the counter lags; no slot lost or given back twice; cancellation ends the process at any stage; a zone router stays registered |
| `client_connection` | `FramesFound`, `CompliantServed`, `AnsweredInOrder`; the handler ends unless a write hangs |

Four further runs expect a **violation**: a sentence of the code or the README
that the code does not keep.

| Run | The code |
|---|---|
| `forwarder_writes` | repeats a write that was executed before its connection closed |
| `hop_move` | with `conn_per_hop = 1`, never resolves the address again after a move |
| `zone_sync_segments` | forgets the segments of a shard that leaves the list and returns, but not their version, and never fetches them again |
| `client_frame_timeout` | measures the frame timeout from the last complete frame: a client that was idle is closed with the first bytes of a frame that comes in two reads, and one whose request took longer than the timeout right after its response |

Other disagreements that the models make visible have no run of their own:

* A call that read `closed = false` can insert itself behind both `fail_all`
  loops and sits out its timeout; `EarlyCallsNotified` therefore speaks of calls
  whose frame was accepted before the close.
* `close()` does not wake an idle writer task, which keeps its half of the
  socket until a frame comes; `ClosedWriterStops` has that frame as its premise.
* `next_corr_id` says it avoids active ids and only avoids 0: after the wrap a
  call is refused because its id is taken.
* The maintenance loop says it will retry an `Unavailable` hop later, and does
  so only if an address is cached, which it never is after a failed first
  resolution; `Recovers` leaves that state out.
* The edge sync records the version of segments that its final check then drops,
  like the zone sync; and a zone that vanishes from the manifest changes no key
  that is still in it, so nothing is synced (`PublishesNamedZones` speaks of the
  syncs that do happen). When the last shard or zone vanishes the new state is
  empty, which is an error, and the old snapshot stays.
* An error response declares a field of four bytes and puts the three bytes of
  its message behind it. The field count of `serialize_get_segments` is a
  `u16`, enough for 32767 segments.
* `Config::parse` accepts `max_frame_size = max_buffer_size`; a client that
  sends only legal frames can then exceed the buffer with one read, which is why
  `CompliantServed` asks for room for a frame and a read.
* A write to a client that does not read has no timeout and does not see the
  cancellation; its slot is taken until the client goes.

### Bounds

* Two calls suffice for every race between two callers (cross delivery, id
  collision, a dropped sender); the third actors are the tasks. Two shards let a
  call insert behind one drain and ahead of the other. Capacity one makes a full
  channel and a blocked socket ordinary. `IdSpace` 4 gives both calls an id
  before the wrap. No run reaches the wrap, where `NoCrossDelivery`,
  `SenderNotDropped` and `ImplementsSendAndWait` end; the theorem `DemuxClean`
  covers it for `NoLeakedEntry`.
* The forwarder has two hops and two attempts, so both loops go round and end,
  and lists in both orders with a walk that starts at the second entry and wraps.
  Concurrent requests influence each other only through `live` and `route`,
  which change arbitrarily anyway, so one request is enough.
* `Hop`: two connections let a set be partly alive while part is created;
  two addresses make a cached one stale; one resolver task suffices to
  overwrite the loop's address.
* `EdgeSync`: two zones let a segment move and a fetch fail in one of them;
  three versions allow a change before, during and after a sync.
* `ZoneSync`: two shards, for the same reasons, and one bridge, which is either
  in the list or not. `zone_sync_segments` has four versions for a shard that
  comes, gets a segment, goes and returns, and no bridges, which it does not
  need.
* `TcpServer`: three clients for two connections, so that one is refused while
  a slot is on its way back; clients come again, so the counter is exercised
  without end.
* `ClientConnection`: two pieces (five kinds of frames, nine of garbage, among
  them one for each error branch of the decoder: a length too small, a segment
  length out of range, a missing magic, a frame cut short) in all chunks up to
  more than a frame, so that every cut and every pair of neighbours occurs; a window of 6 and 2 bytes instead of 64 and 8 lets the
  scan drop bytes on such short streams; a `max_frame_size` that the longest
  legal frame reaches; a buffer for a frame and a read.
  Timers count to one. `client_frame_timeout` has an idle timeout of four so
  that the idle client is well within it.

Deadlock checking is off everywhere: each system may come to rest (all calls
returned, the hop retired, RzID quiet, the process gone, the client closed).

### Fairness

Weak fairness of each task and each call: the runtime polls ready tasks and
timers fire. `LoopEnds` of the hop has strong fairness because `select!` picks
at random between a cancelled token and a due tick. Requests to RzPoint end
because the client has a timeout; RzID requests likewise. The hop of a
connection closes its side once the writer's half is gone. Nothing is assumed
of clients (one may let a write hang), of a handler that should return, of who
calls `close`, of a hop's answers, or of failures stopping –
the latter is the explicit premise `calm` or `quiet`. In `TcpServer`, `calm` also
means that RzID forgets no router whose heartbeats succeed: its expiry is
longer than the heartbeat interval, which nothing in the code checks.

## Proofs

Every safety property that a run checks is also a theorem, for every value of
the constants. The assumptions are the named ones in the component modules:
finiteness where something is counted, lists and timers of the right type,
positive capacities, and what `Config::parse` checks. One theorem,
`CompliantClientServed`, has a hypothesis of its own, named below. The inductive
invariants were checked with TLC on the instances above before they were proved,
except those of `ClientConnectionProofs`, which speak of all streams of bytes.

**`ConnectionProofs`**, for any calls, ids, shards and capacities:

* `TypeCorrect`. Besides `TypeOK` it needs `FrameHeld`: the writer checks
  and writes only a frame it took.
* `DemuxClean` and `EarlyNotified`. `NoLeakedEntry` and `EarlyCallsNotified`
  are not inductive: one must know *where* the sender of a waiting call is. The
  layer `OInv` says that it is in exactly one place (`Exclusive`,
  `WaiterOwned`, `ReaderHands`), that whoever drains has seen or set `closed`
  (`ClosedFirst`), and that a shard already drained holds no early call
  (`ShardsBehind`): a call that sent before `closed` was set had inserted
  itself before any drain began, so no shard already passed can hold it.
* `Delivery` and `SendersKept`, relative to a third layer `UInv`: until the
  counter wraps, ids handed out are below the counter and distinct, a frame in
  the channel, on the wire or in the inbound stream belongs to a call that has
  its id, so the waiter found under an id is the frame's own.

**`ConnectionRefinement`**: `Implements`, step by step. A call begins when it
takes its correlation id, is sent when the channel accepts its frame, executes when
the hop takes the frame off the wire, and ends with its result. The mapping
needs `EInv`, which follows a frame: before it is executed it is in exactly one
of channel, writer and wire (`QueuedOnce`, `FrameOnce`, `WiredOnce`), so it is
executed once; whatever is answered was executed (`Answers`). That an `ok`
belongs to the call's own frame is `UInv`'s part, and holds until the wrap. The
refinement property is a conjunction of the initial state and a step property,
`wrapped` allowing any step.

**`ForwarderProofs`**, while snapshot, registry and connections change
arbitrarily between any two steps. `ForwarderInv` places every call of a request
behind the present position of the two loops (`CallsBehind`), says that only the
call at the position can be open (`OneOpen`), that the calls of the present
attempt were made on the hops that the walk visits at their positions
(`AskedInOrder`), and what each result and each outcome imply about the other
(`ResultsKnown`, `OutcomeKnown`). `WalkVisitsOnce` then rests on the arithmetic
of the walk: positions `(start + k) % n` for `k < n` are distinct, and lists have
no duplicates. The pairwise properties are themselves part of the invariant,
because they also speak of attempts whose snapshot is forgotten.

**`HopProofs`**: `NotOverProvisioned`. The loop computes `to_create`, awaits the
address, and only then collects the live connections. `RoomLeft` says that what
is open and what is still to be created fit together at every point:
connections only die during the await, since nobody but the loop creates them,
and with `OpenHeld` everything that is open is in the set the loop is filling.
`PoolSuffices` shows that the model's supply of connection identities is never
exhausted, so the bound hides nothing.

**`EdgeSyncProofs`** and **`ZoneSyncProofs`**, for any topology, any number of
versions, and any request failing:

* `SnapshotConsistent`: between the final check and the store the state under
  construction already has the property.
* `RegistryCovers`: strengthened by "the hops of the state under construction
  are registered during the whole sync"; `retire_unused` is the only remover.
* `VersionsTruthful`, the most involved of these. `BelievedMeansTrue` speaks of
  the moments between syncs and says nothing of what a sync records on the way,
  so `BInv` says of each recorded version, during a sync, which of the two
  states, published and under construction, has the list. The case that makes it
  delicate is a version recorded for a list that is then dropped with an empty
  state: the proof needs that a zone which keeps its routers is never dropped
  (`RoutersStay`), or that no list was fetched (`TodoHasBridges`). `Fresh`
  says that no recorded version lies in the future; it is where "versions are
  never reused" enters.
* `NoForgottenZones` (edge), an action property: the zones kept, being looked at
  or still to be looked at are in the manifest of the sync under way.
* `TypeCorrect`, with lemmas on what the operations of `EdgeState` and
  `ZoneState` return.

**`TcpServerProofs`**: `CounterCorrect` and `LimitHolds`. The properties count
sets, so the lemma `CountMoves` says how counts change when one connection
changes its state, and `SInv` adds that there are no handlers outside of the
serving phase.

**`ClientConnectionProofs`**, about bytes, for any input, any cut into chunks,
any limits and timeouts, and any scanning window:

* `StreamDecoded`. The invariant `PInv` gives the connection a place `n` in the
  stream: the frames decoded so far, followed by those a scan finds from `n` on,
  are all frames; and the buffer, followed by the wire, is the stream from `n`
  on. Resynchronisation moves `n` over bytes at which no frame begins, which
  leaves what a scan finds as it was (`SkipBytes`), and while the handler waits
  to read, the buffer holds no undecoded frame (`Quiet`). The key
  lemma is `DecodeAgrees`: a decision other than "incomplete" taken on a part of
  the stream is the decision on the whole of it.
* `AnsweredOnceInOrder`. `AInv` says that what has been written *tells* the
  clrids of the answered requests, whatever bytes follow (`Tells`), so that one
  more complete response adds exactly its own clrid. It needs that each response
  is proper, that is, one whose declared length is its length and whose clrid is
  the request's (`ForwardProper`), which comes down to little-endian numbers
  being read back as they were written (`ReadsU32`, `WritesBack`).
* `CompliantClientServed`, for fewer than 2^32 pieces, which is no restriction
  on the code: the model numbers the pieces by their clrids, and a clrid is a
  `u32`. Each frame a client builds, keepalives included, decodes to itself
  (`WellFormedFramed`, byte by byte through `Layout`), and keeps its place when
  others follow (`CompliantLaid`: the stream is `Laid` out as the frames 1 to
  `n`). `CInv` then says that the handler's place is always at the beginning of
  a frame, and that it reads with less than one frame in the buffer. So nothing
  is ever malformed, a frame that is all there is never found incomplete
  (`DecodeEnough`), and a read fits.
* `TypeCorrect`, `RoomForClrid`, `BufferLimited`.

`FramesIn`, `ResponsesIn` and `FlattenSeq` are recursive functions. The provers
cannot take a library theorem about recursion, so the module works with their
defining equations (`Finds`, `Answers`), and shows that solutions exist and what
they compute by induction over a *set* of numbers (`AllNat`), from the
well-ordering of the natural numbers.

Only model-checked:

* All liveness properties – `CallsReturn`, `PeerCloseNoticed`,
  `ClosedWriterStops`, `ForwardReturns`, `Recovers`, `FollowsMove`,
  `RetiredHopCloses`, `RoutersConverge`, `BridgesConverge`, `SegmentsConverge`,
  `SlotsReturn`, `CancelExits`, `StaysRegistered`, `HandlerEnds`: fairness and
  `ENABLED` are beyond the prover.
* The runs that expect a violation.

## Not modelled

* `send_raw`, `Demux::cleanup`, `pending_count`, `with_max_retries`,
  `set_segment_zone`, `set_shard_bridges`, `set_segment_shard`: no caller.
* In `Connection` a frame or response is the call it belongs to: its bytes are
  `RouterProtocol`'s, and the peer is assumed to send well-formed responses
  (partial ones end as `ReaderEof`).
* The end of the refresh task: a sync under way is not interrupted, and the
  process exits.
* Building URLs and parsing JSON in the RzID and RzPoint clients; a request is
  an action with its success and its failure.
* A panic in a task.
* Command line parsing, metrics (counters that only grow), the API that prints
  them, error texts, logging.

## Plan

1. Done: all components that keep state of their own; the proofs above.
2. Left for the proofs: shorter arguments where a component's invariant says
   more than its theorems need. All safety properties of the runs are proved.
