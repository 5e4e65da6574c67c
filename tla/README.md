# destructible-fps: a verification project

TLA+ modules, model-checking runs and machine-checked proofs about the
authority, the replication protocol and the clients of `destructible-fps`
(Rust, `src/`). File names below are relative to the repository root.

## 1. The system

One authority owns a destructible voxel world with rigid bodies and characters
and runs a fixed tick (`AuthorityCore`, `src/network.rs`). Clients send intents;
the authority commits each change of the world as one sequenced *delta* and
sends it to all admitted peers as datagrams. Nothing else changes the world a
client shows, except a *snapshot*.

| component | source | state | operations | talks to |
|---|---|---|---|---|
| authority core, recovery and world stream | `network.rs` | request queue, retained history, one snapshot transfer per peer, snapshot ids, cooldown | ingest a request, serve repair / fragments / acknowledgement, build a snapshot, service transfers, broadcast a delta | clients by datagrams |
| authority core, sessions | `network.rs` | peers, session ids, spawn slots, last seen tick | hello, authenticated admission and disconnect, idle pruning, player recovery | secure server, clients |
| authority core, commands | `network.rs`, `replication.rs`, `replication/rifle.rs` | command queue, watermark per client, rifle state, construction units | enqueue, simulate, reject replays | world, structural runtime |
| delta codec and assembler | `replication.rs` | incomplete packets | encode, decode, push a fragment | inbox |
| delta inbox | `network.rs` | complete future packets, next sequence | push a frame, release a run | client |
| replica | `replication.rs` | world, bodies, expected sequence | receive a delta, install a snapshot | client, renderer |
| snapshot codec and assembler | `snapshot.rs` | the active incomplete snapshot, last completed id | encode, push a fragment, list missing fragments | client |
| graphical client | `bin/multiplayer_demo.rs` | phase, gap timer, request timers, mesh epoch | pump datagrams, request, repair, install, acknowledge | authority |
| players | `character.rs`, `player_replication.rs`, `prediction.rs` | held input, player states, interpolation buffer, pending inputs | accept input, step, broadcast, predict, reconcile, interpolate | authority, client |
| repair timer | `network_timing.rs` | estimate, timeout, probe | send due, record send, observe, clear | client |
| structural runtime and jobs | `structural_runtime.rs`, `structural_jobs.rs` | queue of dirty seeds, one job in flight, latched faults | observe changes, submit, poll, complete, cancel | worker thread, authority |
| structural mechanics | `structural*.rs`, `elasticity.rs`, `mass_properties.rs` | none (functions) | connectivity, failure, elastic solve | structural jobs |
| physics | `physics.rs`, `destruction.rs` | bodies, contacts | integrate, collide, fracture | authority |
| world, volumes, convex solids | `world.rs`, `volume.rs`, `convex.rs` and below | voxels, fingerprints | edit, query | all |
| meshing and rendering | `mesh*.rs`, `render.rs` | mesh jobs, worker phase | submit, poll, upload | client |
| secure server and client | `secure_server.rs`, `secure_transport.rs`, `secure_client.rs` | connections, bounded queues | admit, drain, expire, close | core, OIDC |
| OIDC, configuration, TLS reload | `oidc*.rs`, `server_config.rs` | key set, replay cache, deadlines | verify, replace keys, refresh | secure server |
| deployment policy, attestations | `deployment_policy.rs`, `*_attestation.rs` | none | validate at start | secure server |

What is hard in it: datagrams are lost, repeated and reordered; snapshots take
many ticks during which the world goes on changing; queues and histories are
bounded everywhere; clients and server each wait for the other with timers on
one side only; worker threads assess worlds that have changed since; sessions
are replaced while their work is queued. `PROJECT.json` lists these hazards line
by line with the properties that cover them.

What makes each component correct:

- *delta inbox*: releases each packet once, in order, as soon as it is due.
- *world stream, authority side*: whatever a client has to be sent to reach the
  present world is in the history, in the catch-up queue or on its way; nothing
  is left out silently.
- *world stream, client side*: the world shown is always one the authority has
  been through, never an earlier one than before; no delta is rejected; the
  client catches up in the end.
- *sessions*: one owner per session id and spawn slot; no work of a removed
  session acts later.
- *commands*: each acts at most once, within cadence and ammunition.
- *structural runtime*: no dirty region is forgotten without a visible fault;
  no result for another world is committed.
- *transactions*: a command is committed whole or not at all, leaves nothing
  without support, and the replica that applies its delta has the same world.
- *players*: acknowledged inputs are applied exactly once; states never go back.
- *repair timer*: a round trip is measured from the request that was answered.
- *meshes*: while the client runs, what is drawn is its world or is queued to be
  redrawn.
- *physics*: bodies never overlap, and one that lost its support wakes.
- *world storage*: who reads a world never sees it change; counters and
  fingerprints, adjusted edit by edit, are those of the content; what was saved
  is restored.
- *refined volumes*: equal content has one representation, in memory and on the
  wire, and a closed boundary.
- *wire formats*: each datagram is read back as written, by one decoder, and what
  is committed can be sent.
- *secure server, OIDC, TLS reload*: a session lives exactly as long as its
  connection; a token is used once; withdrawn keys verify nothing; a certificate
  renewed in time, and valid by then, keeps the server up.

## 2. The modules

| module | models | role |
|---|---|---|
| `DeltaInbox` | `OrderedDeltaInbox` over `FrameAssembler` | the ways one frame changes the inbox, as operators on an inbox |
| `InboxFeed` | one inbox and the network | state machine: any frame of a stream at any time |
| `ReplicatedWorld` | - | the abstract specification of world replication |
| `WorldStream` | authority recovery and broadcast, network, clients | the composition; EXTENDS `DeltaInbox` |
| `DamageCommits` | blasts, shots, builds, structural failures and motion as transactions, and the replica that applies their deltas | state machine |
| `WireCodecs` | the layout and the checks of every datagram, the frames of a delta | state machine over one datagram |
| `StructuralScheduler` | `StructuralScheduler`: worker, two channels, busy flag, shared cancellation flag | operators on one scheduler |
| `SchedulerUse` | the scheduler under any owner, and its drop | state machine |
| `Structure` | connectivity, load domains, islands, debris | operators on a set of solid voxels |
| `Queues` | `VecDeque::retain` and filtered lists | an operator used by the queues and the lists that are thinned out |
| `StructuralRuntime` | `StructuralRuntime`, the commands that edit the world, the worker | the composition; EXTENDS `Structure`, `StructuralScheduler` and `Queues` |
| `Rifle` | `RifleState`: magazine, reserve, cadence, reload | operators on one rifle |
| `AuthoritySessions` | sessions, queues and per-session accounts of one authority core behind the loopback adapter, with the clients and the network | state machine; EXTENDS `Rifle` and `Queues` |
| `SecureServer` | `SecureDedicatedServer`: tasks, channels, tick, and the sessions of its core | state machine |
| `OidcTrust` | key sets, refresh, deadline, verification and replay cache | state machine |
| `CertificateReload` | renewal of the TLS identity with the operator who replaces the files | state machine |
| `PlayerStream` | a character between the authority and one client: input, step, broadcast, prediction, reconciliation, interpolation | state machine |
| `RepairTimer` | `AdaptiveRepairTimer` under the calls of the graphical client | state machine |
| `ClientMeshes` | `MeshScheduler`, its worker and the client that feeds and draws | state machine |
| `FallingBodies` | `step_rigid_bodies` over one column of the world | state machine |
| `RefinedPage` | `RefinedVolume`: edits, queries, boundary, encoding | state machine over one page and one parser |
| `GeometryWorld` | `WorldStorage`, uniform and refined: shared chunks, transactions, checkpoints | state machine; EXTENDS `Queues` |
| `ReplicationProofs` | - | theorems about `WorldStream`, `DamageCommits` and `WireCodecs` |
| `StructureProofs`, `RuntimeProofs` | - | lemmas about `Structure`, theorems about `StructuralRuntime` |
| `SessionsProofs` | - | theorems about `AuthoritySessions` |
| `SecureProofs` | - | theorems about `SecureServer`, `OidcTrust` and `CertificateReload` |
| `ClientProofs` | - | theorems about `InboxFeed`, `PlayerStream`, `RepairTimer` and `ClientMeshes` |
| `SharedStateProofs` | - | theorems about `RefinedPage`, `GeometryWorld` and `SchedulerUse` |
| `QueueProofs` | - | lemmas about `Queues` |
| `MC*` | - | instances for TLC |

### State and actions of `WorldStream`

The authority's tick has four stages in the order of `complete_tick`:
*ingest* (datagrams become queued requests), *repairs* (`process_repairs`, one
request at a time), *service* (`service_snapshot_transfers`, one transfer at a
time) and *simulate* (each change of the world is one `Commit`). Clients and
network steps interleave with the tick; an authority step is one request, one
transfer or one commit, which is finer than the code's single thread needs and
allows every order of arrival.

| action | code |
|---|---|
| `Ingest` | `ingest_datagram`, `enqueue_recovery` |
| `BeginRepairs`, `ServeDelta`, `DropRequest`, `StartTransfer`, `ServeFragments`, `ServeAck`, `EndRepairs` | `process_repairs` and the functions it calls |
| `Pace`, `Wait`, `Replay`, `FinishCatchup`, `EndService` | the match of `service_snapshot_transfers` |
| `Commit` | `broadcast`: live frames, `queue_snapshot_catchup`, `retain_delta` |
| `BeginTick` | `begin_tick`: the snapshot cooldown advances |
| `DiscardDelta`, `HoldDelta`, `ApplyDeltas`, `FailDelta` | `receive_world_delta` with the inbox and `ClientReplica::receive` |
| `CollectFrame`, `InstallSnapshot` | `receive_snapshot` with the assembler and `install_snapshot` |
| `RequestRepair`, `RequestSnapshot`, `RequestFragments` | `repair_delta_if_needed`, `request_snapshot`, `repair_snapshot_if_needed` |
| `Lose`, and `Deliver` keeping a datagram | the network |

Abstractions. A delta is its sequence and its number of frames. A world is its
*version*, the sequence of the delta that leads out of it: two worlds with the
same fingerprint are the same version, so `base_fingerprint` and
`base_body_fingerprint` of delta `s` are version `s`. A snapshot is its id, its
fragments and its version. Bytes are counted in frames. `retained_deltas` and
catch-up queues hold sequences. Times on the client are nondeterministic: a
retry may happen at any moment. The authority's clock is kept only as the
cooldown of snapshots.

What a frame refused by the transport does is part of the model (`Attempts`):
none, some or all frames of a packet leave, and the code decides by the result
to keep the packet or to go on. `broadcast` does not look at the result, so a
refused live frame is a lost one.

### State and actions of `StructuralRuntime` and `SchedulerUse`

| action | code |
|---|---|
| `Explode`, `RollBack` | `execute_explosion` and `commit_damage`, then `observe_changes` on the committed delta |
| `Build` | `execute_build`, then `observe_changes` |
| `StartJob` | a tick with nothing in flight: the loop that pops seeds and submits |
| `RetryStale`, `RecordError`, `Assess`, `Collapse` | a tick that takes an answer: `poll`, `complete`, `commit_structural_failure`, then the same loop (`NextJob`) |
| `LoseWorker`, `PassDeadline` | a tick that finds the worker dead, or the job late |
| `Receive`, `Finish`, `GiveUp`, `Panic` | the worker thread and `run_request` |
| `Elapse` | five seconds pass |
| `Submit`, `SubmitToDeadWorker`, `Cancel`, `Poll`, `PollDeadWorker` of `SchedulerUse` | the public functions of `StructuralScheduler` |
| `Drop`, `CloseSender`, `CloseReceiver`, `Exit` of `SchedulerUse` | its drop, field by field, and the end of the thread |

The worker runs between any two steps of the authority. A command is one step,
because the authority's thread runs it to its end before the runtime's tick.

Abstractions. The world is its set of solid voxels. A hit may break a voxel or
leave it standing, damaged; which of the two, which free voxel of a domain the
solver finds overloaded and whether it converges are open choices, so
what holds in the model holds for every material and strength. A chunk is
compared by allocation in the code; the model keeps the chunks written since
the snapshot and whether a chunk appeared or vanished since, which is what those
comparisons tell apart while a job is out. The counters of the status are kept
as the flags `stopped`, `failed` and `overflowed`. Of the limits of a commit only
the number of active bodies is modelled; the others reject in the same place
with the same effect. The configuration (anchors, materials, strengths) is set
at start-up, so the `identity` of an answer always matches. Bodies do not move
and are never removed: the runtime does not look at them otherwise.
`unchecked` is a history variable: the free voxels of load domains that were not
assessed as they now stand.

### State and actions of `AuthoritySessions`

| action | code |
|---|---|
| `BeginTick` | `begin_tick`, `prune_idle_peers` |
| `RenewHello`, `RefuseHello`, `AcceptHello` | `accept_hello` with `remove_peer_state` and `available_player_spawn_slot` |
| `ReceiveInput`, `ReceiveCommand`, `ReceiveRepair` | `accept_player_input`, `enqueue_command`, `enqueue_recovery` |
| `ServeRepair` | `process_repairs`, one request at a time |
| `StepPlayers`, `Recover` | `service_snapshot_transfers` and `simulate_players`; `recover_player`, one session at a time |
| `Apply`, `Reject` | `simulate_commands` with `execute_rifle`, `execute_reload`, `execute_explosion` or `execute_build_with_players`, one command at a time |
| `EndIngest`, `EndPlayers`, `EndTick` | the order of `complete_tick` |

Abstractions. An address is used by several processes in turn, each with its
nonce. Any datagram a client could ever send may arrive in any tick, which
contains loss, repetition and delay over the end of a session. Of a command the
model keeps its number and its kind; what it does to the world is open: it may
be refused for any reason but a reload's (a reload changes no voxel, so its
commit has nothing that could fail), damage may clear a spawn slot and a
placement may fill one. Which players cannot step is open too. A player is its
last accepted input. The accounts of an unknown session are those of a new one,
as the code's maps answer. `applied` is a history variable. What recovery
requests do to a transfer is the matter of `WorldStream`, which in turn keeps
every peer in one session; here a transfer only has an owner. The sessions of
the secure server, which the same core admits by other operations, are those of
`SecureServer`.

### State and actions of `DamageCommits`

| action | code |
|---|---|
| `ExecuteExplosion`, `ExecuteRifle`, `ExecuteReload` | the commands up to `commit_damage`: damage, `analyze_structural_changes`, `prepare_detached_bodies`, limits, then commit or `rollback_changes` |
| `ExecuteBuild` | `execute_build_with_players` |
| `WorkerFinds`, `CommitFailure` | an answer of the structural worker, `commit_structural_failure` |
| `AdvancePhysics` | `advance_physics`: what moved goes out as one delta |
| `ReceiveDeltaPacket` | `ClientReplica::receive` with `rebuild_replicated_bodies` |
| `InstallWorld` | `install_snapshot` with `validate_snapshot` |

Abstractions. The world is a plane of cells over a foundation, numbered in the
order of `IVec3`; a fingerprint is the state it stands for; the limits are a
record that varies over the behaviours. What physics does to a body is open: it
comes to lie anywhere in `Poses`, moved by whole cells and turned by a quarter or
not, also where something static is (`FallingBodies` has the real motion, without
rotation). The placement of a voxel looks at `BoxOf`, the box of
`body_overlaps_voxel`, which moves with the body and does not turn with it;
`CentreOf` and `Meets` say where its voxels are when it has turned, and are used by
`BuildsAvoidBodies` only. How far a shot's energy takes it and where
the player stands to build are open. One delta is on its way at a time:
their order is the matter of `WorldStream`. The analysis after damage is modelled
as the code runs it: `LookedAt` visits one voxel after another and stops at the
foundation or at a voxel known to stand, `Supporting` takes the damaged edge's
neighbours in turn and remembers what each search found (both are recursive
functions). Bodies are numbered by the least corner of their pieces; which of two
pieces with the same corner comes first is open.

### State and actions of `WireCodecs`

A datagram is made of blocks: a number, or the named fields of a layout with
their widths. What is read at a place is what was written there if the
block begins there, has those fields in that order and has all arrived; anything
else is garbage. `Arrive` is a datagram as it was written, or with one value
that its encoder would refuse; `ArriveDamaged` one that is cut off or too long;
`CommitDelta` is a delta under the limits of a commit, at the sizes where the
number of frames or of entries changes. Each decoder runs its checks in the
code's order (prefix, kind, exact length, ranges). Hashes are not computed.

### State and actions of `SecureServer`

| action | code |
|---|---|
| `Connect`, `Reap` | a pass of `accept_connections` |
| `Shaken`, `AdmissionFails`, `AdmissionPasses`, `Report` | the task that shakes hands, admits and announces |
| `Forward`, `DropDatagram`, `Leaves`, `Reprove`, `NoticeEnd`, `ReportEnd` | `receive_session_datagrams` with its rate and drop limits |
| `BeginTick`, `Admit`, `Refuse`, `Disconnect`, `EndControl`, `IgnoreDatagram`, `IngestRequest`, `IngestHello`, `EndGameplay`, `Expire` | one tick: `begin_tick`, `drain_control_events`, `drain_gameplay_and_complete`, `expire_core_sessions`, an event at a time |
| `Shutdown`, `Close` | `shutdown`, the end of the accept loop |
| `LoseConnection`, `SendDatagram` | the clients |

A connection is lost at any moment, also before its admission is announced or
while the announcement waits in the full channel. `allocate_session_id` gives
each connection a number of its own, so the connection stands for peer, session
and connection. `IngestHello` is a step only of `HelloSpec`: the client of the
repository never says Hello on this transport.

### State and actions of `OidcTrust` and `CertificateReload`

| action | code |
|---|---|
| `StartRefresh`, `Answer`, `RefreshFails`, `Receive`, `InstallKeys`, `ExtendDeadline` | the refresh task: fetch, then `replace_jwks`, one effect at a time |
| `Stop` | the tick that finds the deadline passed |
| `CheckDeadline`, `LookUpKey`, `Examine`, `Consume` | a verification, at each of its reads of the clock, the key set and the replay cache |
| `Rotate`, `Issue`, `Elapse` | the identity provider, time |
| `StartReload`, `ReadChain`, `ReadKey`, `StopServing` | a TLS reload, one file at a time, and the tick that stops the server |
| `SpawnRefresh` | the reload interval begins, when `refresh_before_ready` and `start` have returned |
| `ReplaceChain`, `ReplaceKey`, `CertElapse` | the operator, time |

Verifications run on admission tasks, between any two steps of a refresh and
of each other. Time is discrete; requests and reloads end within their limits,
as their timeouts make them; how long the start takes between the load of the
identity and the first interval is open. In `CertificateReload` the wall clock may be
set back or run ahead after the start; monotonic time does not. `OidcTrust` assumes
of the wall clock too that it never goes back: `oidc.rs` reads `SystemTime` at each
verification, and a clock set back after an identifier was purged would make
its token valid again. Of documents, signatures and files the models keep whether
they are valid, a chain from when until when, and which generation they are of.

### State and actions of `PlayerStream`, `RepairTimer` and `ClientMeshes`

| action | code |
|---|---|
| `AcceptPlayerInput`, `SimulateAndBroadcast` | `accept_player_input`; `simulate_players`, `recover_player` and `broadcast_player_states` |
| `Predict` | `fixed_tick`: number, predict, send |
| `ReceiveState` | `receive_player_state`: the interpolation buffer, then `reconcile` with replay |
| `FollowWorld`, `RequestSnapshot`, `InstallSnapshot` | deltas and snapshots, which move the world under the character |
| `KeepDelta`, `ReleaseDelta`, `ReplaceWorld` | `receive_world_delta` and `receive_snapshot`, as the timer sees them |
| `AskForDelta` | `repair_delta_if_needed`: `send_due`, `record_send` |
| `ApplyDelta`, `InstallWorld`, `RefuseWorld`, `Pump` | `receive_world_delta`, `receive_snapshot`, `pump_meshing` |
| `TakeJob`, `AnswerJob` | `mesh_worker` |

A character stands on a cell of a line and moves a cell a tick; a world is one
obstacle at most, which is enough for a prediction to differ from what the
authority does. Inputs and states stay in the network and may arrive any time,
any number of times. The timer's arithmetic (smoothed trip, variance, doubling)
is the code's, in whole units. A mesh is the part of the world it shows: the
chunk and what of its neighbours reaches into it. More chunks waiting than
`MAX_PENDING_NETWORK_MESH_CHUNKS`, after a delta, in a snapshot or when an
answer is queued again, end the client (`ended`), as the code's error does, and with
it what it held. A body
too large for a job is not modelled because none is: a body has at most 16,384
voxels (`BodyLimits::default`, `physics.rs`), which the replica checks, and a job takes
32,768. That a mesh exceeds a limit of the worker or the renderer is left out.

### State and actions of `FallingBodies`

`PhysicsTick` is one `step_rigid_bodies`: waking along supports, integration with
remainders, static sweep, bounce and sleep per body, the broad phase with its
limit of pairs, vertical contacts, settling. `Destroy` and `Place` are the
commands between ticks. A body is a run of voxels of one column, so contacts are
vertical and nothing rotates; of a lateral contact the waking remains
(`Struck`). Heights and velocities are integers, as in the code.

### State and actions of `RefinedPage` and `GeometryWorld`

| action | code |
|---|---|
| `ReplaceBox` | `replace_box` with `Builder` |
| `ReadRecord` | `Parser::push`, on a stream that may be anything |
| `SetVoxel`, `ApplyChecked` | `set_voxel`, `apply_checked` with its rollback |
| `ObserveChunk`, `TakeSnapshot`, `LetGo` | the readers of a uniform world |
| `Promote`, `Demote` | `from_uniform`, `to_uniform` |
| `Prepare`, `Apply` | `GeometryTransaction::prepare`, `GeometryState::apply` |
| `EncodeCheckpoint`, `Restore` | `encode_checkpoint`, `decode_checkpoint` |

A page nests slabs, bands and runs where the code keeps one sorted vector; the
sequences of items, their ends and what they hold are the code's. In
`GeometryWorld` space has one axis; chunks live in a heap by address, so that
sharing, copy on write and the reuse of an address are explicit; a fingerprint
is the set of tokens that the code combines by exclusive or.

## 3. The runs

Most runs explore several components. They share no state: a variable `part`,
chosen at the start and never changed, says which of them moves while the others
keep their initial state. The state graph is then the disjoint sum of the
components' graphs, not their product, and each property speaks of one of them.

| run | part and instance | checks |
|---|---|---|
| `replication` (296,981 states) | *stream*: one peer, 2 deltas, 2 snapshots of 2 fragments, every queue of length 1, redelivery and refusals, one acknowledgement that may be lost for good | `NoReplicaRejection`, `CatchupExact`, `TransferLosesNothing`, `ImplementsReplicatedWorld` |
| | *damage*: six cells, two structures, two commands, what comes off and where it turns, wide and tight limits | `AllOrNothing`, `ReplicaMirrorsAuthority`, `StaticIsSupported` |
| | *structure*: a bridge of two spans, a queue of two seeds, room for a load on the bridge in a chunk of its own, which exceeds the snapshot bound, one body | `DirtyDomainsHaveSeeds`, `NothingFloats` |
| | *wire*: every message, cut, lengthened or with a value out of range; deltas at the boundaries of a frame and of a commit | `DatagramsReadBack`, `CommitsCanBeSent` |
| `lossy_stream` | *join*: snapshot of 2 fragments, one fragment or request lost; *follow*: 2 losses among deltas and requests, history of 1, so that a delta may have to be replaced by a snapshot | `JoinCompletes`, `GapCloses`; without a loss `ConvergesUndisturbed` |
| `structural_settles` (80,427 states) | two posts in chunks of their own, one of which may outgrow the extraction bound; one check per tick | `DirtyWorkSettles`, `SeedsTakeTurns` |
| `sessions` (2,697,005 states) | *sessions*: two interchangeable addresses with two processes each, two slots, three sessions, three ticks of two datagrams; a rifle of two rounds and one in reserve, two units and placements of one and of two | `OneOwnerEach`, `QueuedWorkHasOwner`, `CommandsInOrder`, `CadenceKept`, `AcknowledgementsStay` |
| | *trust*: two tokens, two verifications at a time, one rotation of the keys, a replay cache of one | `TokenUsedOnce`, `WithdrawnKeysEnd` |
| `workers` (105,280 states) | *server*: two connections, channels of one, one datagram per tick, one idle tick | `SessionsMatchCore`, `EndedConnectionsLeave` |
| | *scheduler*: four jobs | `CancellationIsExact`, `WorkerNeverHangs` |
| | *meshes*: three chunks of which two may wait, two bodies, two snapshots, jobs of one chunk or body | `StaleMeshesAreQueued`, `MeshesSettle` |
| `parts` (165,338 states) | *inbox*: packets of 3, 1, 2, 2 frames, limits of 2 packets, 3 pending and 3 complete frames | `ReleasesWhatIsDue` |
| | *certificate*: three chains, of which one is not valid at first, a start that takes any time, a wall clock that runs ahead by one | `RenewalIsInTime` |
| | *players*, *views*: three cells, two inputs, three ticks, two worlds; the inputs of one player, the visits of another | `OnlyTheLimitEnds` |
| | *timer*: three deltas, 12 units of time | `SampleIsUnambiguous` |
| | *bodies*: three bodies in a column of five cells, five edits | `BodiesKeepApart` |
| | *page*, *decoder*: a page of 3 by 2 by 2 units, two edits; any stream of records | `PageIsContent`, `SurfaceIsBoundary`, `OnlyCanonicalDecodes` |
| | *uniform*, *geometry*: three positions over two chunks, readers of a uniform world one at a time; transactions and checkpoints of a refined one | `ReadersKeepWhatTheyTook`, `StorageIsExact`, `EveryStateRestores` |
| `inbox_leak`, `lost_ack`, `second_gap`, `rebuilt_hole`, `legacy_hello`, `turned_bodies` | the smallest instance each | what the documentation says and the code does not do, see below |

**Bounds.** `MaxDeltas`, `MaxSnapshots` and `MaxLosses` bound the run of the
stream and are the only bounds that are not in the code. The code's limits (64
retained deltas, 256 queued, 16 complete packets, 64 incomplete ones, and so on)
are constants, given values of 1 to 3 so that every queue fills and evicts within
two or three commits. Two deltas and two snapshots suffice for the cases that
matter: a snapshot before, between and after deltas; a second snapshot while
frames of the first are on their way; a history that has evicted a delta the
client asks for; a catch-up queue that overflows.

The bridge is the smallest structure on which every case of the runtime occurs:
a domain with two supports, a failure that cuts off a second piece, a load that
can be built on a span while the span is being assessed, a chunk that is absent
when the worker looks and present when its answer arrives, debris that does not
fit (`MaxActiveBodies` 1), and domains that merge and split. Blasts reach one
voxel (`MaxHits`): a larger one is a sequence of them as far as seeds go. The
code's limits (8,192 seeds, 64 checks, 512 chunks, 64 bodies) are small
constants so that each is met. Four jobs let the scheduler's flag be reused after
every outcome of the job before.

In `sessions`, `MaxSessions`, `MaxInput` and `MaxTick` are bounds of the run, the
rest are limits of the code. Three sessions over two slots make a replaced
session's slot the next one's; with one idle tick allowed a peer expires in the
third tick; three ticks are a shot, a reload and a shot that the cadence allows and
the reload, of two ticks, does not. A reload that has ended is seen by the theorems
(`CadenceIsKept`, `RoundsAreAccounted`). The script of commands has two shots around a reload and two
placements of which the supply pays one or the other; an explosion, which only
lacks the supplies a shot needs, adds nothing. In *trust*, `MaxTime` spans an
interval of the refresh, the grace after a withdrawal and a token's life.

The bounds of the other parts: `MaxCommands` (transactions), `Poses` (where a body
may come to lie, one place in each run), `MaxEpoch`
(snapshots that reset the meshes), `MaxPlayerTick`, `MaxWorlds`, `MaxVisits`,
`MaxTimerTime`, `MaxCertTime`, `MaxAhead`, `MaxEdits`, `MaxPageEdits`,
`MaxSequence` (transactions of a world), `MaxDrops` and `MostLost` (what a damaged
datagram lacks). `WireCodecs` has no bound on numbers: its counts are the sizes at
which the code's checks change their answer, with the code's own constants for
header, entry and datagram sizes.

**Network.** With `Redelivery` a datagram stays in the network once sent and may
be delivered again at any time: since nothing forces a delivery, this contains
every loss, repetition and reordering, and safety is checked there. Liveness
is checked with datagrams that are consumed on delivery and lost at most
`MaxLosses` times, in the classes `Losable`. Inputs and states in `PlayerStream`
and frames in `InboxFeed` are redelivered without end.

**Fairness.** Liveness of the stream uses `Fairness` of `WorldStream`. Weak
fairness of the authority's steps: its loop ticks for ever and each tick finishes.
Weak fairness of the delivery of each datagram that stays on its way: sockets are
drained in order. Strong fairness of ingesting a request, because a request can
be delivered only in the ingest stage, which recurs for ever. Weak fairness of
client timers: the window loop polls them. There is no fairness on `Commit`
(nobody has to change the world), on losses or on refusals. `Patience` says that
a client does not repeat a request while the same one is still queued or on its
way (timeouts are longer than a round trip): without it a client may fill the
shared queue of requests for ever.

`StructuralRuntime` assumes weak fairness of its tick, because the server ticks
at a fixed rate, and of the clock while a job stays unanswered. It assumes
nothing of the worker: `DirtyWorkSettles` must hold though the thread hangs or
dies. `SchedulerUse` assumes weak fairness of the worker thread (a job ends,
the channel is received from) and of a drop once begun; nothing obliges its
owner to call anything. `SecureServer` assumes weak fairness of the tick, of the
end of the accept loop and of each task's steps (an admission has a deadline),
and strong fairness of the two sends into the bounded control channel, which
serves its senders in turn. `ClientMeshes` assumes weak fairness of the worker's
thread and of `Pump`, which every frame calls; `MeshesSettle` asks nothing of a client
that has ended. `workers` asks each of the part
that moves only.

**Deadlock** is checked in `lossy_stream`, `lost_ack` and `second_gap`, where the
authority ticks for ever. The other runs say `CHECK_DEADLOCK FALSE`, because
parts of them really stop: `InboxFeed` on a fault, by design; a dropped scheduler
and a closed server have nothing left to do; a structural runtime that stopped
over a world nobody edits is at rest; `AuthoritySessions`, the players, the
clocks and the commands end with their bounds. That they stop only where
they may is what `EndedConnectionsLeave`, `WorkerNeverHangs`, `MeshesSettle` and
`DirtyWorkSettles` say.

### What the runs found

Six runs are expected to find a violation; each states what a document or a
comment of the repository says, and shows a behaviour of the code against it.
`PROJECT.json` quotes the lines.

1. `inbox_leak`: late duplicates of released packets stay in the assembler and
   in the end the missing packet itself is rejected.
2. `lost_ack`: the acknowledgement of a snapshot is sent once; its loss
   silences the stream to that client.
3. `second_gap`: after the first of two gaps closes, the client forgets the
   second.
4. `rebuilt_hole`: a piece falls away and a player builds in its hole; from then
   on no snapshot of the world can be installed, because `validate_snapshot`
   compares the world with the cells the body was cut from, not with where it is.
5. `legacy_hello`: a peer pruned for idleness while its Hello waits in the
   gameplay channel is admitted again in the same tick, without its principal.
6. `turned_bodies`: a bar that has turned upright is not where `body_overlaps_voxel`
   looks, which takes it for as wide and as high as it was cut out; a voxel is built
   in it.

The passing liveness runs stay clear of four more situations from which the
code does not recover. Each shows as soon as its constant is changed.

| situation | code | shown by |
|---|---|---|
| every fragment of a transfer is lost: the client has nothing to repair and repeats its request, which the server drops while it waits for the acknowledgement | `network.rs:809`, `bin/multiplayer_demo.rs:633` | `JoinCompletes` of `lossy_stream` with `SnapshotFrames = 1` |
| the last delta before the world comes to rest is lost: no later one shows a gap | `bin/multiplayer_demo.rs:757` | `Converges` of `lost_ack` with `Losable = {"delta"}` |
| a catch-up queue overflows after the install: live deltas stay withheld from a client that sees no gap | `network.rs:1287` | `GapCloses` under `FairSpec` of `MCWorldStream` with the constants of `lossy_stream`, but `SnapshotFrames = 1`, `MaxCatchupPackets = 1`, `MaxSnapshots = 2`, `Losable = {"delta"}` and `MaxLosses = 1` |
| the recovery queue is full when the acknowledgement arrives | `network.rs:735` | `ConvergesUndisturbed` of `lossy_stream` with `MaxQueuedRepairs = 2` |

Met on the way, and not stated by any document:

- In `FallingBodies` a bouncing body can lift a body that rests on it into a cell
  of the ceiling; bodies that fall by more than their height in a tick pass
  through each other; nothing wakes a body that sleeps on a voxel which is
  destroyed, and a blast does not push bodies that exist already.
  `BodiesKeepApart` therefore says of sleeping bodies only that they are outside
  the cells of the world and lie on something, excepts from the latter by name
  the bodies that lay on a destroyed cell (`undermined`), and its run keeps
  velocities below a body's height.
- A commit is admitted by its size in datagrams of 1,200 bytes and encoded in
  those of the transport. At the 1,100 bytes of the secure server the largest
  commit takes 1,019 of 1,024 fragments; `AuthorityCore` accepts datagrams down to
  256 bytes, in which an encoding could fail after the commit.
- A snapshot of 262,144 static voxels with the voxels of all bodies would exceed
  the 4 MiB of a snapshot.

## 4. The proofs

Every theorem holds for all values of the constants that the named assumptions
of the modules allow; the assumptions are limits being positive and times being
ordered as the code's constants are. Each proof is that of an inductive
invariant: its lemmas say, for each action, what the action leaves of each part,
and the last steps combine them. `PROJECT.json` lists the results; the lemmas
they rest on are in the modules.

### The world stream (`ReplicationProofs`)

`TypeCorrect`, `CatchupIsExact` and `HistoryIsSuffix` are about the authority.
The invariant is `AuthorityInv`: types, `CatchupExact`, `RetainedSuffix` and
`BuiltHere` (the snapshot shared by the requests of this tick holds the present
version). A transfer begins with an empty catch-up queue, which is exact only
because the shared snapshot holds every delta committed so far.

`NeverRejected` (`NoReplicaRejection`) and `NothingIsLost` (`TransferLosesNothing`)
are about the clients, whatever the network repeats, reorders or loses.
`StreamInv` is `AuthorityInv` and, for each peer,

- `Consistent`: replica and inbox wait for the same delta, so what the inbox
  releases is what the replica expects;
- `VersionsInOrder` and `StagesInOrder`: the snapshots that a peer may still be
  sent are ordered by id and by version alike, and one that it has not installed
  is ahead of everything it has, holds or has asked for (`Before`). Without the
  last part an old snapshot that arrives late could set the replica back;
- `AcksInstalled`: an acknowledgement that arrives is of a snapshot which was
  installed, so the catch-up that it starts fits the client;
- `SentSoFar`: up to `SentEnd` every delta that the client still needs has been
  sent, which is `TransferLosesNothing` before the transfer ends.

`Implements` is the refinement `Spec => ImplementsReplicatedWorld`: the world of a
client and the world of the authority, taken as `ReplicatedWorld`'s state, begin
in its initial states, and each step is a commit, an advance of one client to a
version which the authority had, or a stutter. It uses `StreamInv` for the
direction: no client goes back. `StallsAreOverflows` is an action property: a
catch-up is given up only in a commit, and only when the queue is full.

### Transactions of the authority and the replica (`ReplicationProofs`)

`AnalysisFinds` is about the analysis after damage, of any world and any changes: when
it ends without an error, its islands are exactly the pieces around the changes that
no path joins to the foundation. The code does not
search each piece to its end: it stops at the first voxel that is known to stand,
and what one search has seen the next one skips. `Searching` says what holds
between two visits of one search (what is met is joined to the seed, what is
visited has its neighbours met), `KnownFits` and `Learned` what holds between two
searches; both go on by the least length at which they would fail.

`AllOrNothingHolds` and `ReplicaMirrorsAuthorityHolds` follow from `DamageInv`, in four parts:

- *types and limits* (`IsAuthority`, `WithinLimits`). The limits are part of it
  because the replica checks them again: only an authority that kept them sends
  nothing that its own replicas would refuse;
- *what is known* is the public state of the authority, and the mirror is that, or
  the state before it while the delta is under way;
- *the delta under way carries* one to the other (`Carries`): applied to the state
  before, with every check of `ReceiveDeltaPacket`, it gives the state after;
- *the answer of the worker* is debris of the world it was made from (`Cut`). The world may
  have changed since, which is why `CommitFailure` checks it again.

The lemma for each command is that it `Transacts`: it is refused and leaves all as
it was, or it is carried by its delta. For a blast or a shot that needs most:
damage and debris together keep every voxel that was not destroyed
(`TransactionConserves`), what is merged of damage and debris writes each voxel
once (`MergedAreDamage`), and spawned bodies take fresh numbers in order
(`SpawnedAre`, `BodiesAdded`).

`StaticIsSupportedHolds` has a hypothesis on a constant, `ScenesStand`: in the first
state of every scene what is static stands on the foundation, which the scenes of
the `replication` run satisfy (`StaticIsSupported` holds in its first states). Nothing is assumed of where
bodies are, and nothing is claimed of it: a body may be where something is static,
lifted into a ceiling or built into (section 3). A
blast leaves what is joined to the foundation (`BlastLeavesHeld`), a block is placed
only next to something (`BuiltIsHeld`), and what collapses takes all that it held
with it (`CollapseLeavesHeld`), lemmas of `StructureProofs` applied to the plane.

All of this is proved of `DamageSpec`, whatever the order of commands, failures and
motion, for any plane of cells, scenes and positive limits (`SceneAssumption`).

### Commits on the wire (`ReplicationProofs`)

`EveryCommitCanBeSent` (`CommitsCanBeSent`): a world delta within the limits that a commit
checks takes no more frames, and no more datagrams, than the encoder allows, in datagrams of any
size from the 1,100 bytes of the secure server to the 1,200 by which the commit was admitted. The
encoder writes edits, spawned bodies and their voxels each into frames of their own, so what it
takes is a sum of three ceilings, each rounded up by itself, while the commit is
admitted by a sum of bytes. The bound on each is that of the frame's layout
(`NumbersCanBeSent`); at 1,100 bytes the largest commit takes 540 + 365 + 114 = 1,019
of 1,024 frames, which leaves no room for a layout that is longer by a few bytes.
That a blast damages at most 17,077 cells is a count of the cells of a ball and an
assumption of the theorem (`BlastAssumption`), which TLC counts in `parts`.

### The structural jobs and the structural runtime (`SharedStateProofs`, `StructureProofs`, `RuntimeProofs`)

`SchedulerTypes`, `SchedulerHoldsOneJob` and `SchedulerCancelsExactly` are about the
scheduler under any owner. `CancellationIsExact` speaks of what was delivered and
says nothing of a job under way, so it is not inductive: `FlagIsOfThisJob` adds
that while a job is outstanding the shared flag is up exactly if that job was
revoked, and that it was not delivered before. That in turn needs
`OneOutstandingJob`, since `Submit` clears the flag: a second job in the channels
would have its cancellation erased. `DeadWorkerHoldsNothing` lets `PollDeadWorker`
free the slot.

`NoDomainIsForgotten` (`DirtyDomainsHaveSeeds`), `RuntimeTyped`,
`NothingIsLeftHanging` (`NothingFloats`) and `PendingSeedsAreQueued` (`EachSeedOnce`)
are about the runtime over any map, any chunks and any limits. Three things
carry the argument:

- *Domains.* `Reached` is the least closed set, so load domains are classes of an
  equivalence and a domain is determined by the solid voxels next to it
  (`AgreeOff`): an edit changes the domains near it and no other.
  `observe_changed_blocks` enqueues enough seeds to cover those.
- *Answers.* `JobInv` keeps the snapshot that the job was made from: a voxel in
  which it differs from the present world lies in a chunk that was written since,
  and unless a chunk came or went the same chunks exist. An answer that passes
  `result_is_stale` is therefore about the present domain of its seed, though the
  world has changed meanwhile (`AssessmentIsCurrent`).
- *Queues.* `ObservedGrows`: an observed change never drops a seed without raising
  `overflowed`; retained and coalesced seeds go on covering their domains.

`NothingIsLeftHanging` has a hypothesis on a constant, that nothing floats in the
initial world, which the authored maps satisfy and TLC evaluates on the bridge.
`EachSeedOnce` is one half of the agreement between the queue and the set that
suppresses duplicates; it needs that a queue which is thinned out keeps its
elements distinct (`QueueProofs`).

### Sessions and commands (`SessionsProofs`)

`OwnersAreUnique`, `CommandsAreInOrder`, `CadenceIsKept`, `RoundsAreAccounted`,
`AcknowledgementsAreKept`, `QueuedWorkIsOwned` and `SessionsTyped`. The invariants
build on each other:

- `OwnersInv` adds to `OneOwnerEach` that sessions are granted in order, so a new
  one is nobody's, and that only living sessions wait for recovery, so
  `recover_player` revives nobody;
- `CommandsInv` says what the account of a living session remembers of each
  command applied for it (`Remembered`): a watermark not below it, a next shot not
  before its cadence, a reload that has ended or is yet to end in its time. An
  account is given up only with its session, and a granted session has no
  commands behind it: so `CommandsInOrder` survives the end of a session, when its
  watermark is forgotten;
- `WorkInv` says that every queued command, queued request and transfer belongs to
  a session that still has its peer; it holds through removals because both queues
  are thinned out (`QueueProofs`).

### The secure server, trust and certificates (`SecureProofs`)

`SupervisorMatchesCore` (`SessionsMatchCore`) is about the server whose clients send no
Hello over a secure connection (`ServerSpec`); `legacy_hello` shows what happens
otherwise. By `ServerInv` a connection is in one place: its admission is announced at most once
(`AnnouncedOnce`), what the control channel holds of it says where its task is
(`TaskFits`), its end is announced only after its task is over, and a shutdown
leaves nothing open (`ShutdownFits`).

`TokensAreUsedOnce` rests on `UseInv`: a verification that has read the clock ends
before the token expires, and an accepted token stays in the replay cache until
then. `WithdrawnKeysAreDropped` rests on `TrustInv`: each deadline, the one in
force, the one that a refresh under way will set and the one that a verification
under way has checked, is bounded by the withdrawal of its keys. `DeadlineIsHonest`
and `RenewalsAreInTime` rest on `CertInv`, whose part `RenewalPending` says which
reload will read a renewal. A renewal counts from when the server can use it
(`UsableSince`): both files are in place, the chain is valid by the clock the server
started with, and the interval has begun, which a slow start delays. The next reload
begins within an interval of that, and its clock is never behind that of the start, so
it finds the chain valid. It is assumed that a reload takes no longer than the
interval between reloads, of which the code requires at least five seconds.

### The client (`ClientProofs`)

- `SamplesAreUnambiguous`: the probe of the timer is the only request that was made
  for what is expected (`ProbeIsOnlyRequest`).
- `NothingStaleStays`: whatever chunks a mesh depends on and however many may wait, until
  the client ends.
- `InboxReleasesWhatIsDue` and `InboxWaitsBehindGaps`: for any packets and limits,
  as long as no limit was exceeded. By `InboxInv` a frame that has arrived is of a
  released packet or still held, and no packet is held whole among the pending.
- `OnlyTheLimitEndsIt` (`OnlyTheLimitEnds`): what a later state acknowledges is
  never less and never beyond what was produced (`AcknowledgedInOrder`), so
  reconciliation fails only by the limit on pending inputs.

### A refined page (`SharedStateProofs`)

`PageKeepsContent` (`PageIsContent`), `PageOfContent`, `SurfaceIsExact` (`SurfaceIsBoundary`)
and `OnlyPagesDecode` (`OnlyCanonicalDecodes`) hold for a page of any size, any units and any
limits. A page is slabs of bands of runs, each level a partition of an axis by a recursive
function of where its cuts are.

- *One content, one page.* By `PageInv` the page is in `Pages`, that is reduced at all three
  levels (no slab equals the one before it, and so on inwards), and its content is what
  the edits made. Two reduced partitions of one content have the same cuts, so the page of
  a content is unique (`PageOfContent`): equal contents are equal pages, which the
  code relies on when it compares and hashes pages by their representation.
- *Counts.* Solid units are counted through the leaves, which tile the page: no unit is
  counted twice and none is left out.
- *Surface.* Each face that the scan emits lies between a solid leaf and what is beyond it; along
  each axis the layer beyond a leaf is cut by leaves of another slab, and the faces
  of all leaves are exactly the boundary, each unit of it once.
- *Decoding.* By `ReaderInv` a decoder has refused its input, or holds open
  partitions that fit together and whose records are what it has read. What it ends with is
  a page of `Pages`, and the records it accepted are those that the page is written as:
  by the lemmas of reading (record, band, slab, page) every page is read back. So a page has
  one encoding and nothing else decodes to it.

### The storage of a world (`SharedStateProofs`)

`ReadersAreIsolated` (`ReadersKeepWhatTheyTook`), `CountersAreExact`
(`StorageIsExact`) and `EveryStateIsSaved` (`EveryStateRestores`) are about any finite
set of positions, any chunk edge, cells, pages and limits. The first two follow from
`GeometryInv`: memory, world and counters fit
together (`StoredFits`), and so do the snapshot, the observation, the prepared
transaction and the checkpoint that are held. The argument goes from one write to
a whole action:

- *One write* (`WriteFits`). It goes to an address that no reader holds
  (`PlaceIsFree`, which is `Arc::make_mut`), so every snapshot keeps its cells. The
  chunk's counts move with the one cell that changed (`CountMoves`, `LeavesMove`) and
  so does the set of tokens (`TokensMove`): the counters, which the code only ever
  adjusts, stay those of the contents.
- *Observations* (`WriteAges`). An observation is `Gone` when neither its chunk's
  address nor its epoch is the world's any more. A write to the chunk makes it so, and
  nothing makes it match again, because what is observed is held: its address is
  not given to another chunk and its epoch not to another absence. For an absent
  chunk this needs `Watched`: while the chunk is there, the epoch is another one.
  Without it, a chunk that came and went would look as if it had never been.
- *A list of writes* (`AllWrittenFits`), by the least length at which it would fail:
  what holds after the first writes (`Sofar`, `Aged`) goes on to the next.
- *Changes* (`ForthLeads`, `CandidateLeads`). Every write of `ApplyChecked` can be taken
  back in reverse order; a transaction first removes everything it replaces and then inserts,
  and the result is as if each cell had been written once.
- *A transaction applied later* than it was prepared. `Apply` compares sequence and
  fingerprint only; equal fingerprints are equal contents (`TokensTellContents`),
  which is the assumption that fingerprints do not collide.
- *Checkpoints.* A list in order of position exists for every set of cells
  (`OrderExists`), so the records are all of the cells, each once (`RecordsMake`); written
  to an empty world beside the present one, they make those cells and disturb no
  reader (`RecordsAreReadBack`).

That a state can be saved needs one conjunct more, `WithinLimits`: the residency of the
cells of a refined state is allowed. The code never counts cells for it: it adds up what the
chunks count, or moves those sums by a transaction that it has not applied yet.

- *Sums* are sizes of sets: `Total(f)` counts the pairs of an argument and a number up to
  its value, so the laws of sums (`TotalSplits`, `TotalMapped`, `TotalAdds`,
  `TotalOfSizes`) are bijections between such sets and need no induction.
- *By chunk or by cell* (`ChunksAddUp`, `StatsAre`). Positions are pairs of a chunk and a
  place in it, and a chunk has cells only where there are positions (`Placed`), so
  what the chunks count is the residency of the cells, `StatsFor`. A chunk is there
  exactly when one of its cells is solid.
- *Before it is applied* (`StatsLead`). What `validate_changes` works out from the
  present counts and the changes, chunk by chunk, is the residency of the state the
  changes lead to: the sites of the changes are distinct, and nothing else moves.
- *The size of a checkpoint* (`SizeOfState`) is 41 bytes, 15 for each solid cell, 11 more for
  each page and 8 for each of its leaves, which is the sum that
  `GeometryStats::validate` bounds. Without the 11 (the mutant of this property)
  an accepted state may not fit.

### Queues that are thinned out (`QueueProofs`)

`Kept` is a recursive function over the length of the queue. What it keeps is
proved with the least length at which the claim would fail, because the
library's induction rules take a predicate as a parameter. The result has only
wanted elements of the queue, all of them (`KeptIsThinned`), is no longer, and
keeps distinct elements distinct.

### Proved but not listed in a run, and only model-checked

Proved and checked by no run of their own: `RetainedSuffix`,
`StallsOnlyOnOverflow`, `CertificateDeadlineHonest`, `RoundsAccounted`,
`WaitingBehindGap`, `EachSeedOnce` and the types of
`AuthoritySessions` and `StructuralRuntime`.

Model-checked only:

- all liveness, which is outside what the proof system does;
- `DatagramsReadBack`: the layouts of the datagrams are sequences of named fields of any
  length, read by a fold over the blocks of each kind; that each layout is read
  by its own decoder and refused by the others is an induction over that data;
- `BodiesKeepApart`: the bodies of a step are taken in the order of a sort and
  folded over, both opaque to the provers, and it is true only of velocities below a
  body's height (section 3), not of every value of the constants.

## 5. Not modelled

- Convex solids, greedy meshing, rendering and the generation of content: geometry
  without protocol state.
- Rifle ballistics: which cell a ray hits is a choice of `DamageCommits`.
- The elastic solver, the choice of the overloaded voxel and mass properties:
  arithmetic whose outcome the structural modules leave open.
- In-process sessions (`session.rs`) and the secure client (`secure_client.rs`): the
  clients of `SecureServer` are the network's side of a connection only.
- Deployment policy and the attestations: functions evaluated once at start.
- Hashes: two contents have one fingerprint only if they are equal.
- Byte order and compression of integers: `WireCodecs` models the layout, the counts
  and the checks of each datagram, not its bytes.
- Sequence numbers, ticks and ids do not wrap: they have 64 bits, and what the code
  does at their end (`checked_add`) ends the process.

## 6. Plan

Done: the world stream with its refinement; structural runtime and scheduler;
sessions and commands; secure server, trust and certificates; players, timer and
meshes; transactions, storage, refined pages, wire formats and falling bodies;
the theorems of section 4.

Left:

1. `DatagramsReadBack` as a theorem: a layout as a function of the kind and the counts, in
   place of a sequence put together block by block.
2. `BodiesKeepApart` for bodies in any order: an order of the bodies as a constant
   in place of the sort.
3. Authenticated sessions inside `AuthoritySessions`: `SecureServer` models the
   sessions of the core as far as the supervisor sees them.
4. Liveness of the scheduler and of the meshes with the fairness stated in section 3
   stays with TLC.
