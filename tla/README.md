# actix-raft-scaffold in TLA+

This directory models the scaffolding that `src/` puts around the crate
`actix-raft`: a host's `Network` actor, the `Node` actors by which it reaches
the hosts of its cluster, the routing of Raft's RPCs through them and over
HTTP, several such hosts composed, the sequence that boots one, and the storage
that the tests run Raft on.  TLC checks the modules on small instances; TLAPS
proves the theorems of section 4 for every value of the constants.

    tlc -workers 2 -config HostRegistry.cfg MCHostRegistry
    tlapm HostNetwork_proofs.tla

## 1. The system

One host is one process.  Actors are actix 0.8 actors: each has a mailbox
served first in, first out; a handler runs to its end without interruption;
what a handler returns as a future is polled after the mailbox was drained, so
other messages are handled between a handler and its continuations.

| Component | State | Operations | Talks to |
|---|---|---|---|
| `Network` (`src/network.rs`) | `nodes` (id → info, address of a Node), `state`, `metrics`, `raft`, `server` | `BindEndpoint`, `RegisterRaft`, `RaftMetrics`, `HandleNodeStatusChange`, `ConnectNode`, `DisconnectNode`; the queries `GetNode`, `GetConnectedNodes`, `GetClusterSummary`, `GetCurrentLeader`; `ClientRequest`; three Raft RPCs | starts Nodes, sends them `UpdateProximity`, `ChangeClusterConfig`, RPCs; called by HTTP, Raft, the builder and Nodes |
| `NetworkState` (`network/state.rs`) | `status`, timeline `log`, `connected_nodes`, `isolated_nodes` | `advance`, `isolate_node`, `restore_node` | a field of the Network |
| `Node` (`network/node.rs`) | `proximity` (Local or Remote), `status`, pending timer | `Connect` (on start and three seconds after a failure), `Disconnect`, `UpdateProximity`, `ChangeClusterConfig`, RPCs | reports `HandleNodeStatusChange` to the Network |
| `LocalNode`, `RemoteNode` (`network/node/*`, `raft/network/node/*`) | an address of Raft; an HTTP client | connect, change_cluster_config, the RPCs | the local Raft; the HTTP endpoint of a peer, blocking |
| RPC routing (`raft/network.rs`) | none | AppendEntries, Vote, InstallSnapshot | Network → Node |
| HTTP endpoint (`ports/http`) | none | one route per command, query and RPC | sends to the Network, answers peers |
| Wire entities (`ports/http/entities.rs`) | none | conversions | HTTP, RemoteNode |
| Configuration (`config.rs`) | values | load, merge, convert | boot |
| Boot (`raft/system.rs`) | the builder's settings | `build`: start Network, create Raft, bind endpoint, register Raft; `started`: `InitWithConfig` | Network, Raft |
| Storage (`storage.rs`; `tests/fixtures/memory_storage.rs`) | log, state machine, hard state, snapshot | the storage protocol of actix-raft | Raft, a snapshot actor |
| Unused (`ports/grpc.rs`, `cluster.rs`, `raft/builder.rs`, `tmp/`) | | | not compiled |

### What is hard in it

- *Order.*  A successful connection is reported in two messages: WeaklyConnected
  isolates the node, Connected restores it.  Anything may be handled in between.
- *Replaced actors.*  Registering a node with new information starts a new Node
  and forgets the address of the old one, which lives on while it has a timer or
  a message, and goes on to report under the same identifier.
- *Check, then use.*  InstallSnapshot is checked in the handler and routed in a
  continuation; ConnectNode registers in the handler and looks up the leader in a
  continuation; a snapshot is cut from the log in one message and the log
  shortened in a later one.
- *Boot.*  The endpoint serves, and Raft reports metrics, before RegisterRaft.
- *Failure.*  A panic in a handler or a continuation ends the thread of the
  Network and of all its Nodes.  Replies that are not the JSON expected are such
  panics, or errors.
- *Blocking.*  Requests to peers block the one thread of the host, so hosts can
  wait for each other in a circle until a timeout frees one.
- *Late delivery.*  A request whose sender gave up may be served after all, and
  after requests sent later.

### What makes each component correct

- Network and Nodes: no registered node stays cut off; the registry never
  addresses a replaced Node; the host's own Node proposes to the Raft registered
  last; only what the code itself calls impossible panics.
- NetworkState: a link is connected or isolated but not both; the status agrees
  with the metrics and the timeline with the allowed transitions.
- Leader requests: every caller gets an answer; ConnectNode fails only while the
  host is booting.
- RPC routing: every RPC ends; refusals end when isolation does; a snapshot to a
  registered peer does not panic.
- Several hosts: nobody waits for a reply that nobody owes; hosts that blocked
  each other go on; hosts that join become known; steady hosts stay up.
- Exchange and entities: what arrives is what was sent, at most once, and a
  response belongs to the request it is taken for.
- Boot and configuration: a system that was built is served; an invalid
  configuration never gets that far; the building thread always gets a reply.
- Storage: a snapshot is what its file holds; no committed entry is lost, and none
  is applied over another one, whatever happens between the steps of a snapshot.

## 2. The modules

    NetworkState ── HostNetwork ─── HostRegistry ─┐ INSTANCE
                                                  ▼
            Cluster ───────── INSTANCE ──────▶ Registry ─┬─ LeaderRequests
                                                         └─ RaftRouting
    WireEntities ── RpcExchange ── INSTANCE ──▶ RpcChannel
    MemoryStorage ─ INSTANCE ▶ CompactedLog    Configuration ── Boot

Modules named `MC…` hold constants for TLC, those named `…_proofs` the theorems
about the module they are named for.  A definition whose name is that of the
next one with a suffix (`StartNodeKeepingAddr`, `AskAgainUnchecked`) is a slip
of the code that some property must catch; nothing in the specifications uses
it.

**NetworkState** has the methods of `NetworkState` as functions on a record.
The timeline keeps statuses and whether an entry was closed, not the times.

**HostNetwork** is the core: the Network actor of one host and all Node actors
it ever started.  Correspondence:

| TLA+ | Code |
|---|---|
| `nodes[id]`, a record of `info` and `addr` | `Network.nodes`; an absent entry has `NoInfo`, an absent address is 0 |
| `addr` | the number of a Node among those started for `id` |
| `state`, `metrics`, `raft` | the fields of the same names |
| `mailbox` | the Network's mailbox, a sequence of records with one constructor per message type |
| `actors[id][a].step` | where the a-th Node of `id` stands: Connect pending, between its two reports, done, waiting for its timer, stopped |
| `actors[id][a].proximity` | the Raft a `LocalNode` holds |
| `updates` | `UpdateProximity` on its way: sent in a continuation of RegisterRaft, handled by the Node |
| `boot`, `rafts` | how far `build` got, and how many RegisterRaft were sent |
| `HandleX` | `Handler<X> for Network`, the whole handler |
| `RegisterNode` | `register_node`, with its final `restore_node` |
| `ConnectSucceeds`, `ReportConnected` | `connect` with WeaklyConnected, then `handle_connect_result` with Connected, two messages of one poll (`ThreadFree` keeps the other actors of the thread out) |
| `ConnectFails`, `RetryConnect` | the error branch of `connect`, and its `run_later` |
| `Abandon` | dropping the last address of a Node: an idle one stops |

A Node's `status` is a constant there because the code never assigns it.
A connection to a peer succeeds or fails at will: a peer that
succeeds is one that answers `connect` with the JSON acknowledgement
`RemoteNode.connect` parses, as the mocks of `tests/initialization.rs` do.

**Registry** is what the host promises to those who route by it: per node an
entry (absent, known, running) and a link (untracked, isolated, connected),
whether Raft is known, the last report, whether the thread is gone.  It hides
Nodes, mailboxes, retries and information, and promises by its fairness that a
node does not stay isolated.  **HostRegistry** gives the refinement mapping.

**LeaderRequests** and **RaftRouting** extend Registry, whose steps they
interleave with their own, so they stand on the abstract promise and not on the
thousands of states of the host.  Each continuation is an action of its own.
Both add a way to crash, a panic in a continuation.

**Cluster** composes hosts.  Of each it keeps the variables of Registry, one
Node per peer, the Network's mailbox (`inbox`), requests whose answer comes in a
later poll (`replying`), and the one request its thread is blocked on (`call`,
which names the peer, the reply and the calls that are older).  Here peers are
real: `connect_node_route` answers 201 with an empty body, which
`RemoteNode.connect` cannot parse, so `ConnectFails` is the only end of a
connection to a peer; a refused RPC is answered 200 with an empty body, at which
`RpcPanics`.  A snapshot takes two polls on either side: `CheckSnapshot` and
`HandleSnapshot` look at entry and isolation and keep what they let through in
`checked`; `SendSnapshot` and `HandOver` are the continuation, which takes the Node
from the entry as it is by then, and `HandOverPanics` the `unwrap` that finds none.
A chunk above the JSON limit never reaches the peer's Network, and its sender
panics (`SendLargeChunk`, `RpcPanics`).  `TimesOut` leaves the request in the
peer's mailbox (an orphan, served all the same) or takes it out, as the endpoint
notices or not.

**WireEntities** has each conversion of `entities.rs` that a route or a
RemoteNode uses: messages are records with Rust's field names, entities records
with the names on the wire, a wire Option a field that may be missing.  Data
that does not encode or decode are two sets of constants, whose conversion
panics.

**RpcExchange** takes requests through those conversions: posted by
`send_raft_command` or `RemoteNode.connect`, served by the endpoint's threads in
any order, handed to the Network, answered, and read.  `calls` is every request
posted and how far it got on both sides; `panic` how the sending thread ended.
**RpcChannel** is the abstract channel it implements.

**Configuration** has merging, the schema, and the conversion to actix-raft's
configuration with `as u16` as `% 65536`.  A source file that is not there is
`Missing`; it, and a discovery host that is no member of `Addresses`, is a panic
(`LoadPanics`), where a missing key is an error.  **Boot** is
`RaftSystemBuilder.build`, by the thread that calls it (`main`), with the
Network on its own thread, clients and peers served from the binding on, and
`RaftSystem.started`.  `given` is the settings and the sources, arbitrary.

**MemoryStorage** is the storage of the tests with the Raft that uses it: the
log and state machine as functions on indexes, the snapshot actor with a queue
of jobs (`jobs`) and of results not yet taken up (`done`), and Raft's indexes.
The module's header states what it assumes of actix-raft, among it that while a
leader's snapshot is installed nothing is replicated, committed, fetched or
snapshotted.  Entries fetched earlier are not part of that: they may be applied
before, during or after the installation, when `ApplyEntries` finds the first of
them applied already and ends in its error.  What a log ends in
for Raft is `lastLog`: an entry that replaces another leaves the entries after it
in the storage's map, as the code does.  **CompactedLog** is what it implements: one
log without a gap, which a snapshot shortens, or a leader's replaces, in a single
step.  It hides files, jobs, pointers and what is left behind the log's end; a
snapshot that was installed counts from the moment it is cached, when the state
machine is still to be rebuilt.

## 3. The runs

| Run | Module, configuration | Question |
|---|---|---|
| host | MCHostRegistry, HostRegistry | registrations, removals, replaced Nodes and late reports: no node left isolated, no stale address, no Node that gives up unconnected; the host implements Registry |
| own | MCHostNetwork, HostNetwork_own | two RegisterRaft racing changes of the own entry, and Raft's reports in every order |
| liveness | MCHostRegistry, HostNetwork_liveness | isolation ends; a peer that answers is connected, with three generations of its Node |
| leader | MCLeaderRequests, LeaderRequests | two requests against all changes of registry and leader |
| routing | RaftRouting, RaftRouting | RPCs of three hosts against all changes of the registry |
| cluster | MCCluster, Cluster | two hosts that join, send RPCs and snapshots, time out, remove each other and panic; what happens between a snapshot's check and its use, on both sides |
| cluster_liveness | MCCluster, Cluster_liveness | hosts blocked on each other go on, and joins spread, with RPCs in between |
| exchange | MCRpcExchange, RpcExchange | two requests of every kind, with timeouts and in any order: the exchange implements RpcChannel |
| boot | MCBoot, Boot | every combination of sources and settings, every failure, requests in between |
| storage | MCMemoryStorage, MemoryStorage | snapshots created and installed in steps, with everything else between the steps; the storage implements CompactedLog |
| lookup_panic, cluster_rpc | MCLeaderRequests, MCCluster | two statements of the code about itself that it does not keep (section 6) |

`CHECK_DEADLOCK FALSE` is set everywhere: the environment's sends are bounded,
hosts whose thread panicked stop, a build ends, and a storage that failed stops
its Raft.  Where waiting for ever is a danger, a liveness property says that it
does not happen (`WaitsEnd`, `BuildReturns`, `RequestsEnd`, `RpcsEnd`).  For two of
these, and for `RetriesConnect`, an invariant states the part that needs no
fairness, and is proved: `WaitsCanEnd`, `WaitsAreOwed`, `IdleNodeIsConnected`.

### Properties

| Property | Kind | Rules out |
|---|---|---|
| `IsolationIsTransient` | invariant | a registered node isolated with no restoring report under way |
| `AddressIsCurrent` | invariant | RPCs to a replaced Node or to a previous address |
| `RegisteredHasNode` | invariant | an entry that ConnectNode leaves alone and nobody gives a Node |
| `LocalNodeFollowsRaft` | invariant | a host proposing to a Raft that was replaced |
| `StatusFollowsRaft` | invariant | status, metrics and timeline apart |
| `PanicNeedsOwnEntryGone` | invariant | a report sequence that asks for a forbidden transition |
| `LinksArePartitioned` | invariant | a node connected and isolated, or linked without ever having a Node |
| `IdleNodeIsConnected` | invariant | a Node with nothing left to do, no timer and no message, whose node is not connected and will not be |
| `KeepsRegistryPromise`, `RetriesConnect` | liveness | lasting isolation, retries that lead nowhere |
| `ImplementsRegistry` | refinement | a step no router may see, as a registration or a failed attempt that loses a connection |
| `ConnectFailsOnlyBeforeRaft` | action | ConnectNode failing in normal operation |
| `RequestsEnd`, `RpcsEnd` | liveness | a caller left waiting |
| `SnapshotPanicNeedsRemoval` | action | a snapshot panic by anything but a removal |
| `RefusalsEnd` | liveness | RPCs refused for ever between registered nodes |
| `CallsAreOwed` | invariant | a host blocked on a reply nobody owes it; an orphan answered in the place of its successor |
| `WaitsCanEnd` | invariant | hosts that wait for each other with no timeout that can go off |
| `SteadyStaysUp` | action | a steady host taken down or cut off by anything but the removal of its own entry, the removal of a peer between a snapshot's check and its use, an error of Raft, or a chunk that is too large |
| `HostsImplementRegistry` | refinement | a host that breaks the registry's promise because its thread is blocked |
| `WaitsEnd`, `JoinsSpread` | liveness | hosts in a circle of waits for ever; a host its peers never register, or register under the wrong identifier |
| `ResponsesAreRead` | invariant | a panic of the sender at what a peer's Raft answered |
| `ImplementsRpcChannel` | refinement | a message changed on its way, delivered twice, or taken for the answer to another request |
| `BuiltIsServed` | invariant | a build that succeeds without endpoint, Raft or Network |
| `InvalidNeverServes` | invariant | timeouts in the wrong order, wrapped into it too, a negative rate or a missing directory found after the port is bound (a timeout that wraps to a value in order is served) |
| `WaitsAreOwed` | invariant | a thread that waits for a reply of a Network that is gone, or was never asked |
| `BuildReturns` | liveness | a building thread that waits on a Network that is gone |
| `SnapshotMatchesFile` | invariant | a current snapshot whose file is broken, missing, or of another entry |
| `CleanupIsCovered` | invariant | entries of the log dropped that no snapshot covers |
| `OverwritesOnlyItself` | invariant | entries fetched before an installation, and applied after it, overwriting others |
| `StateMachineFollows` | invariant | uncommitted or overwritten entries applied, applied ones missing |
| `ImplementsCompactedLog` | refinement | an older snapshot in the place of a newer, one seen half made, a log with a gap, an entry taken back after it was committed |
| `TypeOK`, `LeaderTypeOK`, `RoutingTypeOK` | invariant | one type invariant per state machine |

Three more are stated and proved, but in no run, as others that are rule the same
out: `ConnectedOnlyToIsolated` (by `ImplementsRegistry`), `SnapshotOnlyGrows` (by
`ImplementsCompactedLog`), and `KnownOnlyBeforeRaft`, Registry's `RegisteredHasNode`.

### Bounds

- *host, own, liveness.*  This host and one peer (`own`: this one alone): no
  handler relates two peers, every operation is on one entry and one link.
  `MaxStarts` is two or three Nodes per identifier: two make a replaced Node and
  its successor, three two replaced ones.  `MaxPending`: one or two messages from
  outside wait at the same time.  Reports of Nodes are bounded by the Nodes
  themselves: a Node has at most two unserved reports of success, and a failed
  one retries only after its last failure was served, which three seconds in the
  code make the normal case.  `MaxRafts` is 2 in `own`, at most one elsewhere, as
  `build` sends one.  Two `Infos` where a registration may change the
  information.
- *leader.*  `Attempts` is 3, the code's own value.  Two `Requests`, so that one
  may crash the thread under the other.
- *routing.*  One slot of RPCs, which any number pass one after the other: RPCs
  share no state but the registry, which changes at will.
- *cluster.*  Two hosts, the second known to the first but not the other way
  round, so that one joins and then both call each other.  No more than one
  RPC at a time per host, as its thread is blocked, and one chunk of a snapshot per
  peer.  The first host sends snapshots and the second the other RPCs, so each
  serves one kind while it waits for the reply to the other or to a join.  One
  orphan (`MaxOrphans`) of the first host and its successor are the race.  That
  makes a million states; RPCs, snapshots and orphans of every host are in the
  proofs.  In `cluster_liveness` the first host sends RPCs, there are no snapshots,
  and no orphans stay.
- *exchange.*  Two calls, of every kind with each variant of an entry, data that
  does not encode or decode, and a chunk above the JSON limit; a second call is
  what a late reply or an overtaking thread could be confused with.
- *boot.*  One host and one peer; application files with and without the host,
  a missing application or reference file, environments that wrap a 16-bit timeout
  into the wrong order or into another value in order, turn the rate negative, name
  a missing directory or a discovery host that does not parse; `MaxRequests` 2, so
  that a removal and a registration may both wait before RegisterRaft.
- *storage.*  Four indexes in two terms, so that a log is overwritten, two
  snapshots follow each other and one is installed over entries of another term,
  or over entries that were fetched and not applied.

All bounds are in guards of the environment; none stops a handler.

### Fairness

- `HostNetwork`: `WF(NetworkStep)`: the arbiter polls an actor with a message in
  its mailbox.  `WF(NodeStep(id, a))`: it polls a Node with a message or an
  expired timer, and a request to a peer ends, with an answer or an error
  (reqwest's default timeout).  Success is never assumed: `RetriesConnect` has as
  hypothesis that from some time on the attempts do not fail.
- `WF(UpdateProximity)`, `WF(RequestStep(r))`, `WF(RpcStep(c))`: continuations
  that are ready are polled, timers go off.  For RPCs this says more than the
  scheduling does: it has the Raft they reach answer, with a response or an error,
  or the request to the peer end by its timeout.  Raft answers each message it
  handles, and what `RpcsEnd` shows is that the scaffolding loses no RPC on the way.
- `WF(Restore(id))` in Registry is a promise of the host, checked of HostNetwork
  by `KeepsRegistryPromise`.
- `Cluster`: `WF(TimesOut(h))`: the HTTP client's timeout goes off; as all
  requests have the same timeout, the one that waited longest ends first (`after`).
  `WF(Resume(h))`: a blocked poll goes on once it has its reply.  `SF` of
  `Serve(h)` and of a Node's `Connect`: the thread blocks
  again and again, so these are enabled and disabled for ever; when it is free,
  the arbiter polls who is ready in the order of waking, so no one is passed over
  for ever.  Where RPCs arrive, `SF(HandleConnectNode(h))` says the same
  of joins by themselves: without it RPCs could use up the turns of the Network,
  each join timing out before its own.  The answers of the own Node and Raft's have
  no fairness: a request that waits for them ends by its timeout.
- `Boot`: weak fairness of the building thread, of the Network's thread and of
  Raft's answer to InitWithConfig: threads go on.
- Nothing is assumed of requests from outside, of Raft's reports, RPCs and
  answers to proposals, of removals.

## 4. What is proved

The assumptions are those named in the modules: identifiers are positive
naturals and the host is configured (`HostAssumption`), bounds are naturals, in a
cluster every host is among its own seeds (`ClusterAssumption`), the value that
stands for nothing is no message (`NoneAssumption`, `ExchangeAssumption`), the
nodes of all sources, but for a file that is missing, are nodes
(`BootAssumption`), what stands for no file or a
broken one is no log (`StorageAssumption`).  Hosts, contents of messages,
sources, reports and all bounds are arbitrary.  No property below is inductive
as it stands; what follows is what makes it so.

**HostNetwork_proofs** proves nine safety properties of `Spec`, its type
invariant and the refinement of Registry, from five pieces, each preserved by
every action:

- `RegistryInv`, for `AddressIsCurrent` and `RegisteredHasNode`: besides the
  first, exactly which entries have an address (`AddressWhereNode`), and that no
  Node is born with a number above the count in `started` (`BornNodesCounted`),
  so the next number is free and the one started last stays the current one.
- `LinksInv`, for `IsolationIsTransient`, `LinksArePartitioned` and
  `ConnectedOnlyToIsolated`.  The heart is `WeakThenConnected`: in the mailbox a
  report WeaklyConnected is followed by a report Connected of the same node, or
  the Node that sent it is about to send that.  A tail of a mailbox with this
  shape has it again, which is the step for every handler.  `ReportsAreSound`
  says that nobody ever reports Initialized or Disconnected, the other two that
  isolate; it rests on Node.status never being assigned.
- `RaftInv`, for `LocalNodeFollowsRaft`: commands go to Nodes already started,
  and once one goes to the present Node of the host, the last one does and
  carries the present Raft (`UpdatesEndInCurrent`).
- `StatusInv`, for `StatusFollowsRaft` and `PanicNeedsOwnEntryGone`: only the
  chain Joining, Up, Leaving is reachable, so no report asks for more.
- `ReachedOrReported`, for `IdleNodeIsConnected`: a Node past its first report has
  its node among the linked ones, or that report is still in the mailbox.  With
  `IsolationIsTransient` the rest follows: what is linked and not isolated is
  connected.

`ImplementsRegistry` (`HostImplementsRegistry`) needs no more than these: initial
states map to initial states and each action to one of Registry or a stutter.  It uses
`RegisteredHasNode` where a handler starts the host's own Node and
`ReportsAreSound` where a report isolates.

**Registry_proofs, LeaderRequests_proofs, RaftRouting_proofs.**  The invariant
`EntriesInv` (types, and that only the host itself before RegisterRaft is
registered without a Node) is preserved by Registry's steps; both users cite
that, add their own actions, and get `ConnectFailsOnlyBeforeRaft` and
`SnapshotPanicNeedsRemoval` from it: the error and the panic need an entry
without a Node.

**Cluster_proofs** proves `TypeOK`, `CallsAreOwed`, `HostsImplementRegistry` and
`SteadyStaysUp`, for any number of hosts.  The invariant `ClusterInv` joins
`CallsAreOwed`, which is a correspondence between the callers' and the callees'
sides of every call, to three facts: nobody calls itself (`CallsPeers`), a thread
that ended has nothing left to answer or to wait for (`Silent`), and the two
requests of the boot are sent once each and in order (`RaftOnce`), which the
refinement needs at RegisterRaft.  Every handler either moves
a live request from the mailbox to `replying`, or ends it on both sides at once;
the lemmas state what each such move does to the mailbox of a third host,
nothing.  `SteadyStaysUp` needs no more: steady hosts have the Node for every
snapshot they let through, and of all steps only the four it names take one away
or bring a reply that is fatal.  `WaitsCanEnd` is about every circle of waiting
hosts, however long, and needs an argument about order: by `AgesInv` the calls a
host's call is younger than (`after`) are of hosts that wait, and "younger" is
transitive, so the sets `after` grow strictly along it; they are finite, hence
among the hosts any one waits after there is one that is oldest (`OldestExists`,
from the library's well-founded induction), whose timeout is the next to go off.

**RpcExchange_proofs** first proves that each conversion is inverse to its
counterpart (`IdsRoundTrip` to `RequestRoundTrip` and `ResponseRoundTrip`), for
every message, then `ExchangeInv`: every call is `Sound`, its body what its
sender's message converts to, what was handed over what the body means, a reply
in JSON the conversion of a response of the right kind to a request that was
handed over.  `ResponsesAreRead` and `ImplementsRpcChannel` follow: each action
changes one call, so one exchange of the channel.

**Boot_proofs** proves `TypeOK`, `BuiltIsServed`, `InvalidNeverServes` and
`WaitsAreOwed` from `BootInv`, which says for each step of the building thread
which message is its own in the mailbox and what the reply it has, or will get,
entails.  `OwedInv` adds for `RaftSystem.started` that it runs only for a system
that was built, when no message is left that could end the Network it asks.

**MemoryStorage_proofs** proves every property of MemoryStorage, its refinement of
CompactedLog included.  Most are about what two handlers leave when their steps overlap,
so `StorageInv` has to say what each job and each result in the two queues will
find when its turn comes:

- `InOrder`: at most one snapshot is under creation, always ahead of the one that
  is installed, and a file is read for a rebuild with nothing else under way.
- `PendingOK`: what is written is of the committed terms, newer than the current
  snapshot, and of applied entries if it is created (`Writes`); a file that is read
  is the current snapshot's (`Rereads`); a result that succeeded is in its file
  (`ResultOK`), as no later job writes the file of a result not taken up yet.
- `SnapshotOK`, `LogOK`, `AppliedOK`, `PayloadOK`: file, log, state machine and the
  entries fetched agree with the committed prefix.  What was fetched begins right
  after the last applied entry, or was overtaken by a snapshot that covers it
  (`Overtaken`), and a snapshot on its way in goes beyond it (`Beyond`).  With the
  terms of the committed entries on both sides this gives `OverwritesOnlyItself`.
- `CleanupIsCovered` as it stands: it gives `FetchEntries` and the installations
  a log without a gap.

For the refinement, `Base` is the current snapshot's index and the three counters
are taken as at least that; `CompactedLogTyping` shows that the abstract log keeps
its own invariant.

Only model-checked: the liveness properties (`RetriesConnect`, `RequestsEnd`,
`RpcsEnd`, `RefusalsEnd`, `WaitsEnd`, `JoinsSpread`, `BuildReturns`) and
`KeepsRegistryPromise`, because the provers have no rule for fairness here.

## 5. What is not modelled

- What is actix-raft's: elections, logs and terms of Raft itself.  It appears as
  the source of metrics, RPCs, answers to proposals and requests of the storage.
- `ClientRequest`, which needs a handler no Node has; queries that read only; the
  ring, which is never filled; times in the timeline.
- `Node.disconnect`, whose body is guarded by a status that is never reached;
  `RemoteNode.change_cluster_config`, which is `unimplemented!()`.
- Of the storage: `SaveHardState`, and the membership that is copied from what it
  saves into the data of a snapshot, which no property tells apart;
  `GetInitialState`, asked once at start.
- Nodes that a new registration left behind, in Cluster; HostNetwork has them.
- In Boot, a Network that dies of an RPC while its host boots
  (`raft/network/node/remote.rs:102`, `raft/network.rs:151`): there only RegisterRaft
  ends it.  Cluster has those deaths, and not what the builder makes of them.
- A Network given to the builder that runs on the building thread: `wait()` would
  block both for certain.
- The unused files of section 1, the examples, and tests other than the storage.

## 6. Where the code and its words part

Two runs show a statement of the repository violated:

- `lookup_panic`: a leader lookup without a leader panics at its fourth attempt
  instead of answering Ok(None) (`network.rs:738`).
- `cluster_rpc`: "The Raft spec assigns no significance to failures during the
  handling or sending of RPCs" (`entities.rs:492`), but an RPC that a peer refuses
  is answered with an empty body, which panics the sender
  (`raft/network/node/remote.rs:102`).

Others are built into the models as the code has them:

- When body and path of a join name different nodes, the log says of the one in the
  path that it "is used" (`ports/http/routes.rs:37`), and the one in the body is
  registered (line 45).  `JoinsSpread` rests on the code, not on its words: the path
  names the host that is asked, so by the words, which are the slip `RegistersPath`,
  no host would ever learn of another.
- `connect` counts failures in `Node.status`, which nothing assigns, so a peer is
  never given up (`node.rs:159` says it would be).
- Removing the own node between BindEndpoint and RegisterRaft panics a Network
  that was started (`network.rs:385` says it could not).
- A change that Raft refuses is acknowledged as "ackd by leader"
  (`network.rs:1076`).
- The check of a snapshot RPC is weaker than the unwrap it guards, and older
  (`raft/network.rs:151`): removing a peer between the two takes down the host that
  sends it a snapshot, and removing the own entry the host that receives one.
- `connect_node_route` answers with an empty body what `RemoteNode.connect` parses
  as JSON, so real hosts register each other and retry for ever.
- A chunk of a snapshot of the configured size is above the JSON limit of the
  endpoint, and its sender panics at the answer.
- Timeouts are truncated to 16 bits; the configured `max_payload_entries` is not
  passed on; the discovery timeout is read from the initialisation timeout.
- In the storage of the tests, a snapshot installed over an entry that is in the
  log but not applied leaves the state machine behind, and the file of a second
  snapshot starts with a pointer to what no receiver has.  `StateMachineFollows`
  allows for exactly these gaps.

## 7. Plan

Done: all components that keep state.  Left, in this order:

1. `SaveHardState` and the membership of a snapshot, which is the one saved last
   when the snapshot is cached and not the one of its index.
2. LeaderRequests composed with Cluster, so that acknowledgements come from
   leaders that change in the cluster.
3. RaftRouting on HostNetwork in place of Registry.
