# A verification project for the AceStream orchestrator

The orchestrator (`src/app/orchestrator`, Go) runs AceStream engines in Docker
containers behind VPN nodes, and relays the streams they produce to HTTP
clients. This directory models its concurrent core in TLA+, checks it with TLC
on small instances and proves every invariant it checks, the refinement and the
action properties with TLAPS for every instance.

| module | what it models | checked by | proved in |
|---|---|---|---|
| `StreamDispatch` | a request becomes a stream: store accounting, handlers, hub, managers | `MCStreamDispatch` | `StreamDispatchProofs` |
| `StreamBuffer` | ring buffer and the TS clients that read it | `MCStreamBuffer` | `StreamBufferProofs` |
| `EngineProvisioning` | engines come and go: controller, scheduler, ports, breaker, Docker's events | `MCEngineProvisioning` | `EngineProvisioningProofs` |
| `VpnNodes` | VPN containers, credential leases, forwarded ports, restart | `MCVpnNodes` | `VpnNodesProofs` |
| `HlsSegments` (extends `StreamBuffer`) | the HLS segmenter, the second reader of the ring | `MCHlsSegments` | `HlsSegmentsProofs` |
| `Settings`, `SettingsFields` | settings store, live config, handlers, push to engines, startup | `MCSettings` | `SettingsProofs` |
| `SettingsRegister` | abstract specification: what the settings store promises | refined by `Settings` | `SettingsProofs` |
| `VpnServers` | server list, its cache and table, the choice of a server for a node | `MCVpnServers` | `VpnServersProofs` |

`PROJECT.json` holds the machine-readable part: which definition models which
lines, what each run checks, the mutants that show each property can fail, the
hazards and the findings. Paths below are relative to
`src/app/orchestrator/internal/` unless they say otherwise.

## 1. Inventory

### Parts, their state and their operations

| part | state | operations | why it is hard |
|---|---|---|---|
| Store (`state/store.go`) | engines, pending reservations, stream counts, stream records, intents, pending placements, forwarded slots, VPN nodes, desired replicas | short methods, each under one lock | callers combine several of them; two maps count the same stream at different times |
| Proxy handlers (`api/proxy.go`) | one goroutine per HTTP request | select an engine (waiting up to 90 s), start or join a stream, release, stop, swap | six return paths, each with its own undo |
| Hub (`proxy/stream/hub.go`) | key → entry with a manager, a buffer, a client list and a shutdown time | StartStream, GetEntry, StopStream, ScheduleShutdown, eviction, cleanup sweep | entries are addressed by key, which may have been reused |
| Manager (`proxy/stream/manager.go`) | one goroutine per entry | request a stream from the engine, read, recover from a stall, hot swap, end | its reports to the store race with the handlers' |
| Ring buffer and TS clients (`proxy/buffer/ring.go`, `proxy/stream/client.go`) | head, slots, generation, notify channel; a cursor per client | Write, WriteAfterTo, Wait, Reset, Stop | change and broadcast are two steps, so are the two looks of Wait |
| Controller (`controlplane/engine/controller.go`) | desired replicas, queue of intents, circuit breaker | autoscaler tick, NudgeDemand, reconcile, rebalance, intent workers | decides from state that other goroutines are changing |
| Scheduler, ports, ExecuteSpec (`controlplane/engine/provisioner.go`, `ports.go`) | pending placements, forwarded slots, used ports | choose a node, allocate, elect a leader, create and start a container | several reservations, each undone on several failure paths |
| Docker informer (`controlplane/docker`) | Docker's event stream; the listing of Reindex | register and remove engines and nodes | events are late or lost; several parties handle one death |
| Health manager (`controlplane/engine/health.go`) | failure counters per engine | probe, evict, detect starvation | removes engines beside the informer |
| VPN provisioner, credentials, lifecycle (`controlplane/vpn`) | credential pool, leases, port claims, Docker containers | ProvisionNode, DestroyNode, drain, recover, restore after restart | Docker fails between steps, containers outlive the process |
| HLS segmenter (`proxy/hls/segmenter.go`) | cursor, generation, the segment being built, a window of segments | cuts segments from the ring, re-anchors after a reset | a reset between any two of its looks at the ring |
| Settings (`persistence/settings.go`, `config/config.go`, `api/management.go`, `api/orchestrator.go`) | a row of JSON columns, a table of credentials, a cache, the live config, the credential pool | Save (merge, normalize, two transactions, cache), Apply, Configure, import, restart | five copies of one value, changed by two servers without a common lock |
| Settings push (`controlplane/engine/settings_push.go`) | a goroutine per save | patches engines one by one | fails for some, overlaps with the next |
| Server lists (`controlplane/vpn/servers_refresh.go`, `vpn/reputation.go`, `persistence/reputation.go`) | servers.json, a cache entry with an mtime, the table vpn_server with quarantine and pin | refresh, merge, import, mark down, choose | file, cache and table are read at different times by different goroutines |

Views (SSE, metrics, the read-only part of the management API), the reputation
scores, MPEG-TS parsing, the line protocol of the AceStream API and the React
panel keep no state the parts above depend on.

### How they interact

A request claims an engine in the store (`enginePending`), starts a hub entry
and reads from its buffer. The manager of the entry asks the engine for the
stream, turns the reservation into a count, fills the buffer and reports the end
to the store. The controller looks at counts and reservations to choose engines
to stop, and at the number of engines to create some; a creation reserves a VPN
node, ports and perhaps the forwarded slot, and the engine is registered by the
event watcher when Docker says it has started. The lifecycle manager keeps VPN
nodes up and takes their engines down with them. A provision asks the server
lists for a server that the store has of no registered node; a refresh replaces the lists
underneath it. The settings handlers change the live config that all of them
read, the credential pool and the running engines. None of these hold a common
lock over more than one method call.

### What makes it correct

- reservations, ports, slots and leases are given back once, by whoever holds
  them, on every path (`NoReservationLeak`, `PortsExclusive`, `OneLeader`,
  `LeaseIntegrity`, `CredentialExclusive`, `ReservedWhileNeeded`);
- the registry and what it registers agree (`OneLiveManager`, `HubEntriesLive`,
  `RegistryConverges`, `OrphanedLeaseReleased`);
- limits hold under concurrency (`WithinGlobalLimit`, `WithinHardLimit`,
  `NoOverassignment`, `WithinMaxReplicas`);
- nobody waits for ever or misses data (`NoLostWakeup`, `NothingSkipped`,
  `ReadersAdvance`, `StoppedDrains`, `CancelledManagersExit`,
  `ReservationsDrain`, `IntentsResolve`, `ResetNoticed`, `StopEnds`);
- what players are told is true (`WindowInOrder`, `GapsAreMarked`);
- copies of a value agree, also over failures and restarts (`StoreIsRegister`,
  `CacheIsDurable`, `RuntimeFollowsStore`, `EnginesFollowConfig`,
  `SyncImportsWritten`, `TableFollowsCatalog`);
- a server that must not be used is not chosen (`QuarantineHolds`,
  `DistinctServers`, `PickMeetsConstraints`).

## 2. Plan

Done, in this order: `StreamDispatch`, `VpnNodes`, `StreamBuffer`,
`EngineProvisioning`, `HlsSegments` on the ring of `StreamBuffer`, `Settings` with
the refinement of `SettingsRegister`, `VpnServers`; then the proofs of all of them
(section 6).

Next:

1. `CapacityWait`, the abstract specification of `selectEngineWithWait` (a waiter
   gets a slot or gives its demand back), and `StreamDispatch` against it.
2. `VpnLifecycle`: scaling by demand, healing and grace periods as an
   environment for `VpnNodes`; the reputation jobs as one for `VpnServers`.
3. The line protocol with the engine (`proxy/aceapi/client.go`), the segment
   cache (`proxy/hls/cache.go`) and the failure trackers of the health manager.

## 3. The modules and the code

Everywhere: a method that holds one lock from beginning to end is one step;
between two calls of a goroutine anything may happen. A timer that may fire is
an action that may happen. What the environment may do is chosen by the constant
`Env` (or `Faults`), so that a run can look at some causes at a time. A
theorem holds for every choice, except those whose statement excludes some
(section 6), because the property fails with them (section 7).

### StreamDispatch

Requests are slots that may issue one request after another; a program counter
(`rpc`) says between which two calls of `handleGetStream` or
`handleHLSManifest` the handler is, `mpc` the same for `Manager.Run`. `pending`
and `counts` are the store's two counters per engine, `streams` its records,
`hub` the entries. `Arrive`, `Allocate`, `SelectAndClaimEngine`, `SelectFails`,
`GiveUp`, `StartStream`, `StartStreamRefused`, `GetEntryNil`, `GetEntryFound`,
`EndRejected`, `JoinClient`, `LeaveClient`, `CheckLast`, `CloseStream` follow the
handler; `ReleaseFirst`, `ServeManifest`, `ManifestServed` are the HLS paths
(API mode selects an engine, releases it and selects again). `Prebuffer`,
`RequestSucceeds`, `RequestFails`, `Stall`, `HotSwap`, `Restarted`, `EndStream`,
`Exit` are the manager. `CleanupSweep` and `CleanupStop` are two steps because
`runCleanup` chooses under the lock and stops after it. `RemoveEntries` and `Cancel`
are two steps because `StopStream` and `removeStream` delete the entry under the lock
and call its `cancelFn` after it (`doomed` has the managers in between), so that a
`StartStream` may come before the cancellation; the eviction inside `StartStream`
cancels under the lock. The controller's
`EnqueueTerminate` and `StopContainer` are two steps for the same reason.
`Settle` is the five-second settling window. Stream statistics and Redis
keys are left out; nothing reads them back.

### StreamBuffer

A chunk is its index. `seq` maps a slot to the index stored in it. The channel
`notify` is a number that grows with each broadcast: a client that holds an
older number holds a closed channel. `Write` and `Broadcast`, `Stop` and
`Broadcast`, `GrabChannel` and `CheckHead` are separate steps, as in the code.
`phase` tells `sendFirstChunk` (which counts no empty reads) from the main loop.
Reset happens at the start of every session, when the previous reader has
returned. `TakeChunks` and `Sent` are the two halves of WriteAfterTo: the chunks are
collected under the lock (`batch`) and written to the socket without it, while the
writer goes on, so that a reader may be lapped during its write. A partial write to a client's socket ends the client (`Disconnect`).

### EngineProvisioning

A spec stands for the engine it describes, from the intent over the container to
the record; `pc` is how far its creation has come. One port stands for all the
ports of an engine, which are taken under one lock. Load, probes, grace periods
and the breaker's recovery time are nondeterministic. `Reconcile` is one step:
`doReconcile` runs in one goroutine, and each of the sets it chooses from is
narrowed by the code's conditions. `canStopEngine` is an over-approximation
where it depends on load: whatever the code may stop, the model may stop.
`Reindex` is one step, so a list that has aged is not modelled. Two assumptions
about Docker are explicit: without `slowDocker` in `Env` an event is handled
before Reindex's 30 seconds of grace or a node's destruction are over
(`StartSeen`), and nothing is on its way to a node when its engines are removed
(`EmptyNode`). Section 7 says what happens without them. Removals that fail are
the subject of `VpnNodes`. Evictions run in goroutines of their own and may
overlap, as they may in the code while none has finished (`health.go:395-458`).
That MinReplicas is at most MaxReplicas is an assumption about the settings,
which nothing in `config.go` enforces.

### VpnNodes

Each attempt to provision has a container name of its own. `available` is a
sequence because AcquireLease takes its head and ReleaseLease appends; the
ordering after `Configure` is that of a Go map, hence any. `Restart` forgets what
the process knew, keeps what Docker has, restores the leases from labels and
starts `CleanupManaged`. `DestroyBegin`/`DestroyRemove`/`DestroyRelease` are
DestroyNode under `cleanupMu`; `Drain` and the guard `DestroyDue` stand for the
lifecycle manager's decisions, whose timing is free.

### HlsSegments

`EXTENDS StreamBuffer` without TS clients, and adds `Segmenter.run` as a second
reader: `AnchorHead` and `AnchorGeneration` are the two reads at its start,
`ReadChunks` is ReadAfter, `Packet`, `Cut` and `CutBefore` are what the PCR, the
keyframe flag and the discontinuity flag of a packet make of it (which of them
depends on data and is free), `EmptyRead`, `CheckGeneration` and `Reanchor` the
detection of a reset, `SegGrab`, `SegCheckHead`, `SegWake`, `SegFlush`, `SegDone`
the select. A chunk is one packet, so a segment is a set of chunks. `born`,
`lapped` and `lateAnchor` are history variables for the properties; no guard
looks at them. `SegStop` follows the ring's Stop, as in `Hub.removeStream`.

### Settings, SettingsFields, SettingsRegister

`SettingsFields` has the pure part: eight fields that the code treats in different
ways (a zero that stands for a default, a range with a fraction, one of several
names, a number taken as it is, a floor, a name filled in at startup, a flag, a
number that is used only when positive; the module's head lists them and what has no
field), the normalizers, the merge, what a restart reloads, and the five Apply
functions, which convert a value in their own way (`TakenValue`). `Settings` has the processes. A handler holds the mutex from
`SaveMerge` over `SaveRow` and `SaveCredentials` to `SaveCache`; `ApplyLoad` and
`ApplyStore` are C.Load and C.Store, between which another handler may store;
`Configure` is the credential manager, `PushOne` one patch of the push. Requests
come through the management API and the orchestrator API (`surface`), which
shares the store but knows neither the credential manager nor the push. A payload
holds any of the fields with any integers (`RequestsAssumption`); an update of all
settings works through its categories in any order, an import in the order of the
code (`ImportOrder`). A list of credentials may hold some without an id
(`Nameless`): the cache and the credential manager take them, the manager under an
id that it makes up, the table does not. `since`
remembers what excuses a disagreement of the copies (an overlap, a logged
warning, a failed push). `Crash` loses everything but row, table and engines;
`Start` is `main` up to the credentials. EnsureMinimum and the drift marks that
handlers trigger belong to `EngineProvisioning`.

`SettingsRegister` is the abstract specification: one value, changed by whole
writes. The refinement mapping takes the value to be what a restart would load,
`Reload(row)`. A Save is one step of the register when its row is written, all
its other steps, failed Saves and crashes are stuttering.

### VpnServers

`file.ver` stands for the mtime. `RefreshBegin` … `RefreshInvalidate` are
RefreshOfficial; `Merged` keeps an existing Proton section. `loadCatalog` is a
step function used by the refresh and by every provision: look at the mtime,
compare the cached entry, read the file, store the entry. `SyncBegin`,
`SyncUpsert` (which may fail for a row), `MarkServersDown` (one UPDATE for each
source, which may fail as well) and `SyncEnd` are SyncCatalogToDB. `imported`
remembers which rows the last sync wrote and which sources it got through. A
node's `host` is the server of its container, `assigned` the AssignedHostname in
the state store, which is all that a later provision and ResolveServerID see:
`Register` sets it, `StartEvent` (handleVPNStart) wipes it. A restart of the
orchestrator, which this module leaves out, has the same effect, since Reindex
and the lifecycle manager register running containers without the name.
`PickBegin` collects the servers in use, `PickNamed` stands for a credential that
names its server or endpoint, `GetScoredCandidates`
is the query, `PickLoad` and `ProviderServers` are candidateServers (which loads
the catalog and then looks the entry up again), `ChooseScored` and
`getSafeHostnameCatalog` the choice. Scores and jitter make any of the best
candidates possible, so the choice is free among them. `Expired` is SQLite's
comparison of `2006-01-02T15:04:05Z` with `2006-01-02 15:04:05` as text: on the
same day the first is the larger one whatever the time. Nodes are made without
port forwarding.

## 4. Runs

| run | instance | shows |
|---|---|---|
| `dispatch_races` | 1 engine, 2 keys, 2 requests, 2 managers, global limit 1 | `NoReservationLeak`, `OneLiveManager`, `HubEntriesLive`, `WithinGlobalLimit` with failing requests, early leavers, cleanup and stops |
| `dispatch_engines` | 2 engines, HLS in both modes | `NoReservationLeak` while engines are added, drained, stopped, waits given up, streams deleted, stalled, swapped |
| `dispatch_live` | 1 request slot, 2 managers, 1 key, failing requests, stalls, stops, cleanup | `CancelledManagersExit`, `ReservationsDrain` |
| `double_release` | streams may be stopped | violates `NoOverassignment` |
| `vpn_leases` | 3 names, 2 credentials that share a port | leases, credentials and ports stay exclusive over failures and restarts |
| `vpn_orphans` | 2 names, 2 credentials, removals fail, leased credentials are deleted | `LeaseIntegrity`, `OrphanedLeaseReleased` |
| `buffer_readers` | ring of 2, bursts of up to 3, 6 chunks, 3 sessions | `NoLostWakeup`, `NothingSkipped`, `ReadersAdvance`, `StoppedDrains` |
| `engine_failures` | 3 specs, 1 node, 2 ports, queue of 1, breaker opens at the first failure | `PortsExclusive`, `OneLeader`, `WithinHardLimit` |
| `engine_live` | 2 specs, 1 node | `IntentsResolve`, `RegistryConverges` |
| `settings_store` | 2 handlers, 3 credentials of which one has no id, 1 engine, 3 requests or crashes out of ten kinds, writes and pushes fail | `CacheIsDurable`, `RuntimeFollowsStore`, `EnginesFollowConfig`, and the refinement `StoreIsRegister` |
| `vpn_servers` | 3 servers in 2 sections of which one is named by a credential, 2 nodes, 2 versions of the file, a clock of 3 ticks, 2 to a day, rows and UPDATEs fail | `SyncImportsWritten`, `TableFollowsCatalog`, `QuarantineHolds`, `DistinctServers` |
| `hls_segments` | ring of 2, bursts of up to 2, 3 chunks, 2 resets, a window of 2 | `WindowInOrder`, `GapsAreMarked`, `GapIsNoticed`, `ResetNoticed`, `StopEnds` |

Bounds. Managers, names, specs, chunks and sessions are bounds on what is ever
created; a program that has used them up may stop, which is why deadlock is not
checked in the runs where that ends everything (`EngineProvisioning` always has
its ticks and is checked). Two requests and two managers are enough for one race
on a key with its loser and for a key that is used again; that demand ends with the
managers is what lets `ReservationsDrain` ask for zero. That run has one request at a
time; that the loser of a race keeps nothing is `NoReservationLeak`. The double release
needs a third manager that overloads the engine. A ring of two slots with bursts
of three laps a reader in one write; one client suffices because clients do not
write anything that others read. Two credentials and three names give a
replacement while two nodes live. For engines, one node puts all specs into
competition for it; two ports for three specs and a queue of one make both limits
bind; the smallest and largest number of replicas are equal, so that demand moves
only through the paths that clamp it, and the third spec is a replacement.
For settings, three events are two overlapping requests and a third on their
result, or two and a crash between any two of their steps, or requests before and
after a crash; the requests hold two payloads of one category (for a lost
update), one of each kind that is normalized, and both orders of an update of all
settings. For servers, the constraint `Bounded` of `MCVpnServers` leaves out
combinations that do not meet: the clock runs with one node, up to its query, and
one version of the file; two nodes with one version, no refresh under way and no
UPDATE that failed; the second version with one node. Each
property is about one of these. A second version of the file while an old one is
being loaded is the case that a cache can get wrong. For segments, the ring laps
the segmenter in one burst, and two resets allow one to fall into the handling of
the other.
Symmetry is used in checking safety only, over sets the specification does not
tell apart.

Mutants. Each property of a passing run has a variant of a modelled definition,
marked "Mutant" in its module, that a slip in the code could produce (a dropped
release, an unclamped bump, an off-by-one in the ring, a removal that is not
guarded by membership); TLC finds the property violated with it.

## 5. Fairness

- `StreamDispatch`: handlers and managers that can go on do so, whoever removed an
  entry goes on to cancel its manager, a cancelled or
  failed manager leaves its read loop (every read is under its context), the
  settling window ends. Clients need not come, leave or be served; streams need
  not end.
- `StreamBuffer`: goroutines run and the check interval's timer fires. Nobody has
  to write, reset or stop. A write to a socket need not return: `ring.go:303` has no
  deadline and `cmd/main.go:218-221` sets no WriteTimeout. `Sent` and `HoldEnds`
  (which writes null packets) are therefore not fair, and `ReadersAdvance` and
  `StoppedDrains` say what they say of a client whose player reads
  (`PlayerReads` again and again).
- `EngineProvisioning`: the goroutine of an intent, the worker and the event
  loop run on, and the monitor's ticks do not cease (`Reindex(Stale)`: the grace
  period of an engine that stays away is over at some tick). Reconciling is not
  assumed to be fair.
- `HlsSegments`: the goroutine and the pending broadcasts run on and the flush
  timer fires. `SegDone` is strongly fair: Go's select chooses at random among
  the channels that are ready, so a cancelled context that is ready again and
  again is taken. The writer need not pause; `ResetNoticed` relies on the bound of
  chunks for that, as an upstream that always is ahead of the segmenter would
  leave it no empty read.
- `Settings`, `VpnServers`: safety only, no fairness.
- `VpnNodes`: provisioning runs on; the lifecycle manager's loop returns to every
  node, and a removal that is tried again and again is not refused for ever
  (strong fairness of `DestroyBegin` and `DestroyRemove`, because they compete
  for `cleanupMu` and may fail in between).

## 6. Proofs

Every invariant that a passing run checks is a theorem, and so are the action
properties and the refinement. The theorems hold for every value of the
constants that the named assumptions of a module allow (mostly that sets are
finite and limits are positive). Some need a hypothesis on the environment or on
the requests, stated in the theorem; section 7 shows for each that the property
fails without it.

| module | theorems | hypothesis |
|---|---|---|
| `StreamDispatchProofs` | `TypeCorrect`, `ReservationsNeverLeak`, `HubConsistent`, `EntriesAreLive`, `HubWithinLimit` | – |
| `StreamBufferProofs` | `BufferTypeCorrect`, `WakeupsNotLost`, `ReadersSkipNothing` | – |
| `EngineProvisioningProofs` | `EngineTypeCorrect` | – |
| | `EnginePortsAreExclusive`, `LeaderIsUnique`, `NodesWithinLimit` | `Calm`: no `slowDocker` in `Env` |
| `VpnNodesProofs` | `VpnTypeCorrect`, `LeasesPartitionPool` | – |
| | `CredentialStaysReserved`, `CredentialsAreExclusive` | `Tidy`: removals after a failed start succeed, no leased credential is deleted |
| | `PortsAreExclusive` | `Tidy`, and `StablePorts`: a reconfiguration does not change the pool of ports |
| `HlsSegmentsProofs` | `PlaylistInOrder`, `PlaylistMarksGaps`, `GapsAreNoticed` | – |
| `SettingsProofs` | `SettingsTypeCorrect`, `CacheDurable`, `StoreImplementsRegister` | – |
| | `EnginesFollow` | `OwnKeys`: engine_settings does not carry engine_config's key |
| | `RuntimeFollows` | `OwnKeys`; `Booleans`: a flag is a boolean; `Positive`: a port is; `Whole`: seconds have no fraction; `Cased`: a mode is written as the store has it; `Lists`: no list is null |
| `VpnServersProofs` | `ImportsAreCurrent`, `TableIsSynced`, `QuarantineIsKept`, `ServersAreDistinct` | – |

### StreamDispatchProofs

- `TypeCorrect`: `TypeOK` is inductive. The interesting part is that the
  counters stay naturals: every release goes through `Decremented`.
- `ReservationsNeverLeak`: `NoReservationLeak` is inductive relative to
  `TypeOK`. Per engine, the number of reservations is bounded by the handlers
  and managers that still have to release one. An action either leaves the
  counter alone and loses no holder (`FrameLeak`), or releases and loses at most
  the one that releases (`ReleaseByHandler`, `ReleaseByManager`), or claims and
  adds a holder, or hands over from handler to manager. The lemmas about
  cardinalities (`HoldersFinite`, `LoseOne`) come first. It is a bound and not an
  equality because of the double release of section 7.
- `HubConsistent`: `OneLiveManager` and `HubEntriesLive` (`EntriesAreLive`),
  neither of which is inductive alone: that a new entry does not shadow a live
  manager needs that the hub hands out every live one, that a removal by key hits
  the right manager needs that an entry's manager has its key. The invariant allows
  for the managers in `doomed`: between the removal of an entry and the call of its
  `cancelFn` the old manager runs on beside a new one of its key.
- `HubWithinLimit`: `WithinGlobalLimit` needs that only entries are scheduled for
  shutdown (`LimitInv`), so that the eviction that makes room for an entry really
  removes one.

### StreamBufferProofs

- `WakeupsNotLost`: `NoLostWakeup` with `ChannelsPast` (no client holds a channel
  newer than the current one), which makes a broadcast release everybody who has
  taken a channel before it.
- `ReadersSkipNothing`: the action property `NothingSkipped`. `RingInv` says that a
  slot holds a chunk of its residue among the last `Cap`, which a Write keeps by the
  arithmetic of slots (`ModUnique`, `LastInRange`, `LastInSlot`: one it does not reach
  has been written to within the last `Cap`). So what a lapped reader jumps over is
  lost (`ReadIsComplete`). `SendInv` keeps what is being written behind the cursor.

### EngineProvisioningProofs

Three layers, each on the one below.

- `StageInv`, under every environment: the types, the order of Docker's events (no
  start of an engine is queued behind its end) and what the stage of a spec implies
  about its container, its record and its labels. A record without labels would
  free a port it never had.
- `PlaceInv`, under `Calm`: an engine that is being evicted is not registered
  again, and nothing is on its way to a node that has been emptied.
- `ShareInv`: the three properties are about engines that are on their way or
  running, which is not inductive. An engine is *held* as long as anybody relies
  on its labels: its provisioning, its container, its record or a start event that
  will make a record. Ports of held engines are in use and distinct (`PortInv`). A
  leader has the claim to its node's slot or is registered (`LeadInv`). The held
  engines of a node that the store does not show are at most as many as are counted
  as pending, and together with the others at most the hard limit (`CountInv`): the
  scheduler asks the limit for what it sees, and this says that it sees enough.

`ProvisionEffect` sorts the steps of a provisioning by their effect (`Placed`,
`Allocated`, `Elected`, `Submitted`, `Advanced`, `Dropped`), so that each layer
looks at six effects and not at every failure path. `LimitRange` shows that the
effective limit of a node is positive from the arithmetic of its ceiling.

### VpnNodesProofs

- `LeasesPartitionPool`: `LeaseIntegrity` with the types and `UnusedIsFresh` (a name
  that was not tried has nothing). The work is in the list: `OrderingsProperties`,
  `AppendNew` and their like say what taking, appending and reordering leave.
- `CredentialStaysReserved`: needs `ContainerInv`, how far ProvisionNode and
  DestroyNode have come with a container that exists, so that a lease is released
  only after its container is gone, also when a destruction and the cleanup of a
  restart meet. `CredentialsAreExclusive` follows from it with `LeaseIntegrity`.
- `PortsAreExclusive`: `PortInv`, that a container this process has started holds
  the claim to its port.

### HlsSegmentsProofs

- `PlaylistInOrder`: `OrderInv` extends `WindowInOrder` to the segment that is
  being built and the chunks in hand; all are behind the next chunk to be processed.
- `PlaylistMarksGaps`: `GapInv` states the property also for what is not yet cut
  (`PendingGaps`) and for the chunk that comes next (`NextGap`): a gap is
  contiguous, lapped or pending as a discontinuity.
- `GapsAreNoticed`: `FreshInv`. A segmenter whose generation is the current one has
  a cursor after which the ring is complete. A Write keeps this by the arithmetic
  of slots (`LastInSlot` of `StreamBufferProofs`): an index is the last one written to
  its slot as long as it is within the capacity.

### SettingsProofs

- `CacheDurable`: `CacheIsDurable` speaks of moments without a Save. `DurableInv`
  says in between that the holder of the mutex has merged into the present cache and
  which of row, table and cache it has written; fields that nobody has written load
  the same from row and cache. The merge is computed in `SettingsFields` field by
  field, where normalizing twice, and normalizing what was reloaded, are lemmas.
  The table holds the credentials that have an id, of the list in the cache.
- `StoreImplementsRegister`: with `DurableInv`, the step that writes the row is one
  write of the abstract register on its present value, every other step leaves
  `Reload(row)` alone.
- `EnginesFollow`: `SoloInv` (without overlap one handler is at work, and the config
  it has loaded is still the live one) and `PushInv` (the push carries the live
  value, and the engines it has done have it).
- `RuntimeFollows`: `RunInv` follows the handler from its Save to the end of its
  Apply: before the cache is written the live config follows the cache, after it the
  config that is about to be stored does. A restart applies what is stored, and what
  is stored comes from payloads and defaults (`From`), so the hypotheses hold of it.

### VpnServersProofs

- `ImportsAreCurrent`: `CatalogInv`. An entry of the cache is at least as new as the
  mtime it is kept under, because every loader reads the file after it has looked at
  the mtime; so a refresh that looks after its write cannot be served an older list,
  although a provision may store an old entry late.
- `TableIsSynced`: `TableInv`, what a sync has written so far and which sources it
  has got through; a row that a stream adds to such a source later is in
  `resolved`.
- `QuarantineIsKept`: `DayOrder`, the arithmetic of days; an earlier day is an
  earlier time, so the comparison as text never ends a quarantine too early.
- `ServersAreDistinct`: `PickInv`, a statement about pairs of nodes of which one
  could learn the other's server when it began (`blind` is the history of who could
  not): they are not both under way, and as long as one selects, the set it takes
  for in use contains the server of the other, at each of its steps.

### Only model-checked

The liveness properties (`CancelledManagersExit`, `ReservationsDrain`,
`OrphanedLeaseReleased`, `ReadersAdvance`, `StoppedDrains`, `IntentsResolve`,
`RegistryConverges`, `ResetNoticed`, `StopEnds`): they rest on fairness, for which
the proof system has no rules.

## 7. Where code and documentation disagree

With a run (see `findings`): `double_release`. `proxy.go:181` releases a
reservation that the manager releases too, when the entry was stopped right after
StartStream; another request's reservation is lost and the engine is assigned
beyond its limit.

Further counterexamples. Each configuration below checks one property that quotes
the repository, and TLC finds it violated
(`tlc -config <cfg> <module>`):

| configuration | module | property | the repository says | what TLC shows |
|---|---|---|---|---|
| `MCFailedStart.cfg` | `MCStreamDispatch` | `RunningIsCounted` | `state/store.go:33`: "containerID -> active stream count" | `manager.go:149-154`: a stream whose engine request fails is counted out of the engine of its prebuffering record although it was never counted in; a stream that runs there is not counted any more |
| `MCBufferReset.cfg` | `MCStreamBuffer` | `NoDataMeansSilence` | `src/docs/CONFIG.md:301-302`: "Number of consecutive no-data checks before aborting the stream", "Seconds between no-data checks" | `ring.go:386`: a TS client that lags at a Reset finds a cleared slot; Wait returns at once because Head is ahead, all checks pass in one burst and the client is cut off next to new data |
| `MCOverProvision.cfg` | `MCEngineProvisioning` | `WithinMaxReplicas` | `src/docs/CONFIG.md:199`: "Maximum concurrent engine containers." | `controller.go:753`: a reconcile between the removal of an intent and the registration of its engine counts neither and creates one too many |
| `MCZeroTimeout.cfg` | `MCSettings` | `ZeroNeverWorks` | `persistence/settings.go:511-512`: "so a UI save of 0 (field not rendered) can't override the working default" | Save normalizes what it stores, the handlers apply the payload as it came (`management.go:1098`): the live timeout is 0 until the next restart |
| `MCLastCredential.cfg` | `MCSettings` | `CredentialsPersist` | `persistence/settings.go:65-66`: Save "persists it atomically to DB + cache" | deleting the last credential leaves a nil slice, JSON null, for which the table is not rewritten (`settings.go:113`): the credential is gone from the cache and returns with the next restart |
| `MCNamelessCredential.cfg` | `MCSettings` | `CredentialsPersist` | the same line | `settings.go:145-148` skips a list item that has no string id, without a warning: the credential is in the cache and in use, and gone after a restart |
| `MCForeignServer.cfg` | `MCVpnServers` | `PickMeetsConstraints` | `vpn/reputation.go:263`: "Filter by catalog constraints (provider, regions, protocol, port-forwarding)" | a refresh drops the cached catalog between loadCatalog and the lookup in ProviderServers; no candidates count as no constraint, and a server of another provider is chosen |
| `MCSharedServer.cfg` | `MCVpnServers` | `EachOnDistinctServer` | `node_provisioner.go:149`: "so each VPN node lands on a distinct server" | two provisions at the same time collect the servers in use before either is registered, and choose one server |
| `MCForgottenServer.cfg` | `MCVpnServers` | `EachOnDistinctServer` | the same line | `docker/events.go:252` writes the record of a node anew at each start event, without its hostname; after a start event that is handled after the registration (late, or because Docker restarted the container), the server is not among those in use, and the next node gets it too |
| `MCMarkFails.cfg` | `MCVpnServers` | `UnseenAreDown` | `persistence/reputation.go:179`: "MarkServersDown sets status='down' for servers of given source not in seenIDs" | `vpn/reputation.go:547-551`: an UPDATE that fails is logged, the rows of its source stay up until the next sync |
| `MCJoinedSessions.cfg` | `MCHlsSegments` | `SessionsNotJoined` | `segmenter.go:268-269`: "mark a discontinuity so players know to reset their decoding state" | a segmenter that has caught up reads the first chunk of a new session without an empty read before it, and joins both sessions in one segment |

The next configurations drop one hypothesis of a theorem each, to show that it is
needed:

| configuration | module | theorem and hypothesis | what TLC shows |
|---|---|---|---|
| `MCForeignPort.cfg` | `MCVpnNodes` | `PortsAreExclusive`, `StablePorts` | `airvpn_ports.go:32`: "all other claims are preserved so live containers keep their ports". A credential that is deleted takes its ports out of the pool and their claims with them; when it is added again, the port of the container that still runs is free and is given to a second one |
| `MCStrayKey.cfg` | `MCSettings` | `RuntimeFollows`, `OwnKeys` | `config/config.go:297`: ApplyEngineSettings takes buffer_time, which Save drops from engine_settings; the live value is not the stored one |
| `MCPortZero.cfg` | `MCSettings` | `RuntimeFollows`, `Positive` | `config/config.go:418`: a port that is not positive is stored and shown, and the live config keeps the old one; so do preferred_engines_per_vpn, max_engines_per_vpn, the refresh period, and an empty provider |
| `MCFraction.cfg` | `MCSettings` | `RuntimeFollows`, `Whole` | `settings.go:479-487` stores proxy_prebuffer_seconds with its fraction, `config/config.go:229` cuts it off, now and at every restart |
| `MCModeCase.cfg` | `MCSettings` | `RuntimeFollows`, `Cased` | `settings.go:490-493` stores "TS" for a stream_mode "hls", `config/config.go:232` makes it "HLS": the proxy serves HLS until the next restart; control_mode likewise |
| `MCTruthyFlag.cfg` | `MCSettings` | `RuntimeFollows`, `Booleans` | a flag that is no boolean is stored as true and ignored by the live config |
| `MCNullList.cfg` | `MCSettings` | `RuntimeFollows`, `Lists` | "credentials": null empties the cached list, and the credential manager keeps the old one |

`Tidy` and `Calm` are needed for the reasons given below at
`node_provisioner.go:437`, `credentials.go:80` and `slowDocker`.

Reachable in the models, without a run of their own (`proxy.go` and
`management.go` are those of `api/`):

- `proxy.go:158`: a request that gives up its wait ends the record of a stream
  that another request has started meanwhile, with the effect of
  `MCFailedStart.cfg`.
- `state/store.go:1008`: the end of an old manager reported after a new one has
  started under the same key removes the new record; the new count stays.
- `proxy.go:229-234`, `hub.go:137-156`: a client joins between the last leaver's
  check and its ScheduleShutdown; the watched stream counts as idle and may be
  evicted.
- `proxy.go:276-304`: HLS in HTTP mode leaves a record "allocating" when it gives
  up; `manager.go:410-425`: a hot swap does not move the count to the new engine;
  `management.go:371-393`: deleting a stream leaves its hub entry running.
- `controller.go:770`: an engine that was claimed after its terminate intent was
  queued is stopped; `proxy.go:292-294` relies on the contrary.
- `proxy.go:546`: only a new engine wakes a waiter, not a slot that becomes free,
  although `:505` says "blocks until an engine slot becomes available".
- `proxy.go:519`: undoNudge lowers the demand also when the bump had been clamped.
- `ring.go:303`: a player that pauses in a write keeps its handler after a Stop, for
  as long as it does not hang up.
- `client.go:135`: `sendFirstChunk` counts no empty reads; after a Stop only the
  client can end it, after a Reset it may spin.
- `node_provisioner.go:437`: a failed removal after a failed start is ignored, the
  lease is released and may serve a second container (`CredentialExclusive` fails
  with `startFails` and `removeFails` together; `vpn_leases` has the first only).
- `engine/provisioner.go:279`: a container a crash left in state "created" is
  neither listed by the startup cleanup nor tracked; its lease stays taken.
- `credentials.go:80`: a credential deleted while leased and added again is
  available while its container runs (`vpn_leases` deletes unused ones only).
- `cmd/main.go:187-194`, `airvpn_ports.go:14`: port claims of containers that
  outlive a restart are not restored; `PortExclusive` is about one process.
- `controller.go:745`: a worker that the breaker blocks drops the intent without
  ReleaseSpec; `health.go:453`: an eviction removes the record before the die
  event, so nobody releases the ports; if start and die events of an engine are
  both lost, its reservations stay. Ports, pending counts and slots leak; no
  property demands that they come back.
- With `slowDocker`, `PortsExclusive` fails: a start event handled after Reindex or
  DestroyNode removed the engine registers it again and its death frees the port
  a second time, when another engine may have it; the same happens to an engine
  created on a node while DestroyNode empties it (`node_provisioner.go:269-316`).

- `config/config.go:205-267`: C.Load and C.Store are not one step; of two
  overlapping Apply calls one may undo the other, also for other categories.
- `persistence/settings.go:230-274`: a saved 0 is overridden by a positive default
  at the next restart (`RuntimeFollowsStore` compares with the cache of the running
  process, `StoreIsRegister` with the value a restart would load).
- `config/config.go:270`: a payload of engine_settings with keys of engine_config
  changes the live config and is not stored; an empty docker_network replaces the
  detected one until the next restart; a flag given as a truthy value that is no
  boolean is stored as true and not applied; the orchestrator API
  (`api/orchestrator.go`) configures neither the credential manager nor the
  engines.
- `settings_push.go:22`: two pushes that overlap may leave engines with the older
  value; a failed patch is not repeated. Engines that are unhealthy, manual or without a
  token are skipped (`:38-53`): the constant `Engines` is the set of the others.
- `servers_refresh.go:181-199`: what the Proton sidecar writes between
  loadExistingJSON and atomicWriteJSON is lost; a Proton section that came from the
  official list counts as one "from a dedicated Proton refresh" (`:189-190`) and
  is never updated from that list again.
- `vpn/reputation.go:539-551`: a listed server whose upsert fails is marked down;
  the rows of a source whose UPDATE fails are not (`MCMarkFails.cfg`).
- `persistence/reputation.go:819`: a quarantine lasts until the end of its day.
- `node_provisioner.go:143-155`: two provisions at the same time may choose one
  server (`MCSharedServer.cfg`), so may a provision after a start event has wiped
  the record of a node (`MCForgottenServer.cfg`), and a server that a credential names
  is not compared with those in use; `DistinctServers` excuses these three.
- `segmenter.go:149-153`: a Reset between the first reads of Head and Generation
  gives the segmenter the old cursor with the new generation; it spins on empty
  reads until the ring laps it. A gap that comes from lapping is never marked.

## 8. Not modelled

- Demand-driven VPN scaling, the starvation detector and the HLS segment cache:
  planned.
- The reputation jobs (`vpn/reputation_jobs.go`, RefreshReputation,
  SnapshotHistory, FindAutoQuarantineCandidates) and the probe collector: floating
  point statistics over SQL; what they decide is free in `VpnServers` (the order of
  candidates, a quarantine at any time).
- The AceStream line protocol and the upstream reader: I/O with an external
  engine, in `StreamDispatch` a request that succeeds or fails and a session that
  stalls or ends.
- config.load (defaults from the environment), schema migrations, WireGuard
  parsing, MPEG-TS parsing: pure functions of their input without shared state.
- Bitrate and statistics; the separate port ranges of `ports.go` with their
  per-VPN windows, which are never freed (`ports.go:205`); engines without VPN;
  manual mode.
- SSE, metrics and the panel, which hold no state of the core.
