# naboscale in TLA+

Specifications, model-checking runs and machine-checked proofs about
[naboscale](../src/README.md), a mesh VPN: a coordinator that hands out mesh
addresses and lists peers, and on every node a daemon whose *tunnel manager*
brings up a Noise tunnel to each peer, directly or through a relay, and keeps
it up with keepalives, retries and rekeys. Paths below are relative to `src/`;
`manager.rs` is `crates/naboscale-tunnel/src/manager.rs`, `cli.rs`, `state.rs` and
`keystore.rs` are in `crates/naboscale-cli/src/`, and `routes.rs`, `db.rs`,
`ip_alloc.rs` and `rate_limit.rs` in `crates/naboscale-coord/src/`.

1. [Inventory](#1-inventory)
2. [Modules, and how they correspond to the code](#2-modules-and-how-they-correspond-to-the-code)
3. [Runs](#3-runs)
4. [What the code does differently](#4-what-the-code-does-differently)
5. [Proofs](#5-proofs)
6. [Limits](#6-limits)
7. [Plan](#7-plan)

To check: `tlc -config MCPair_faults.cfg MCPair` (and so on), `tlapm
TunnelProofs.tla`, and so on with `HandshakeProofs`, `AttributionProofs`,
`PromptProofs`, `StaleProofs`, `CoordinatorProofs`, `LimiterProofs` and `ClientProofs`.

## 1. Inventory

| part | state | operations | talks to |
|---|---|---|---|
| **tunnel manager** (`manager.rs`) | `peers` (a `PeerSession` per public key), `endpoint_to_peer`, `learned_endpoints`, per-session Noise state, timers, INIT rate window | `step()`: receive one datagram, send due INITs, one TUN packet, `maintenance()`; `add_peer` | the other managers, over UDP; the daemon calls it |
| **Noise handshake and transport** (`crypto/src/handshake.rs`, `transport.rs`) | `Initiator` (written INIT, timestamp), `Responder` (usable once), `Transport` (two implicit nonces) | `write_init`, `consume_init`, `consume_response`, `encrypt`, `decrypt` | the manager calls it |
| **daemon** (`cmd_up`, `cli.rs`) | the select loop, the set of known public keys | start, discovery at start and every 60 s, `step()` every 50 ms, stop; who initiates and through which relay | coordinator (HTTP), `state.json`, the manager |
| **heartbeat task** (`cli.rs:575-626`) | its copy of the token | every 20 s: refresh the token if it expires, heartbeat, rewrite `state.json` | coordinator, `state.json` |
| **coordinator** (`naboscale-coord`: `routes.rs`, `db.rs`, `auth.rs`) | tables `nodes` and `tokens` behind one mutex, locked per statement group | `register`, `peers`, `heartbeat`, `refresh_token`, `delete_node` | clients; the address pool; the rate limiter |
| **address pool** (`ip_alloc.rs`) | `used`, in memory only, rebuilt from `nodes` at start | `allocate`, `release` | the coordinator's handlers |
| **rate limiter** (`rate_limit.rs`) | a sliding window of instants per address and bucket | `check` | every handler |
| **local files** (`state.rs`, `config.rs`, `keystore.rs`, `identity.rs`) | `state.json`, `config.toml`, two encrypted keys | load, save, `init --force` | all commands |
| **TUN device, platform, HTTP wiring, scripts** | the operating system's | — | — |

What is hard in it, and what has to hold:

* *Handshakes over a network that loses, delays, duplicates and reorders.* INITs
  are retransmitted verbatim every 2 s, a rekey runs beside the transport it
  replaces, the responder switches first. Two nodes must end up with the two
  sides of one key, must never reuse a nonce, must never decrypt a message
  twice, must never leave `Ready` because of a late message, and must
  reconnect after every loss, failed send, restart or change of address.
* *Nodes behind a relay.* The NAT'd node must be the one that initiates, its
  peers must wait, the relay must forward to an address it has learnt, and a
  message must be attributed to the node that sent it although two peers can
  share one address.
* *Timers.* keepalive (10 s), rekey (120 s), stale (180 s), INIT retry (2 s),
  the replay window of INIT timestamps (120 s) and the one-second rate window
  constrain each other.
* *One loop.* Discovery is awaited inside the loop that calls `step()`
  (`cli.rs:647`), so a slow coordinator stops all timers of a node.
* *Coordinator.* Each handler is several separately locked statements: between
  two of them other handlers run, and any of them may fail. No two live nodes
  may have one address, a token that was revoked must stay useless, an address
  must come back when its node is gone.
* *Rate limiter.* The instant of a request is read before the lock is taken, so
  the window is not ordered; it must neither admit too many nor refuse for long.
* *Token of a running daemon.* It lives a limited time, only its holder can renew
  it, requests and answers get lost, the coordinator restarts, and commands of
  the same device revoke it or write the file the daemon decides by.
* *Local files.* The heartbeat task and every command read, change and write
  `state.json` without a lock, and the write truncates first; two key files are
  replaced one after the other.

The list with lines, and the properties that cover each, is in
`PROJECT.json` under `hazards`.

## 2. Modules, and how they correspond to the code

| module | models |
|---|---|
| `Noise` | the messages and Noise objects, symbolically (no state of its own) |
| `Discovery` | how `cmd_up` turns flags and coordinator entries into `PeerConfig`s |
| `TunnelManager` | one tunnel manager per node, the UDP network, the daemons' start and stop, time |
| `TunnelProperties` | invariants, action properties and liveness properties of the mesh |
| `TunnelProofs` | the inductive invariant of the tables and its theorems |
| `HandshakeProofs` | the inductive invariant of keys, waiting Initiators and messages, and its theorems; whom `Discovery` makes an initiator |
| `AttributionProofs` | whom sessions and learnt addresses belong to, where addresses tell the nodes apart |
| `PromptProofs` | what handshakes can rely on where the network is prompt, and that no INIT exceeds the limit there |
| `StaleProofs` | what a stale session decrypts, and where no session goes stale |
| `MCPair`, `MCNat` | the two topologies the runs check |
| `Coordinator` | the tables, the pool and every handler as a sequence of locked sections |
| `OpenCoordinator` | the coordinator with arbitrary clients; its invariants and its refinement of `Registry` |
| `Registry` | abstract specification: members and the credentials that speak for them |
| `CoordinatorProofs` | the inductive invariant of `OpenCoordinator` and its theorems |
| `MCCoord` | two devices, two addresses, three requests at a time |
| `RateLimiter`, `MCLimiter` | `RateLimiter::check` on several threads |
| `LimiterProofs` | the invariant that relates the window to the record of answers, and its theorems |
| `Client`, `MCClient` | one device: its files, its daemon and its commands, with the coordinator |
| `ClientProofs` | the invariant that relates the daemon's token to the files, the calls and what can still fail, and its theorems |

`TunnelManager` EXTENDS `Noise`; the MC modules of the tunnel EXTEND
`TunnelProperties` and compute the constant `Config` with an INSTANCE of
`Discovery`, so the peers a run has are the ones the daemon would build from the
flags of the run. `OpenCoordinator` and `Client` both EXTEND `Coordinator`: the
one lets anybody ask anything, to check the coordinator itself, the other lets the
daemon and the commands of one device ask, with the tokens and keys they really
have.

### Noise

An *ephemeral* names an `Initiator` object (its timestamp is drawn in
`Initiator::new`, its INIT is written once) or one answer of a `Responder`. The
ephemeral of an answer also names the transport key it makes. So the model
tells apart exactly what the code can: a RESPONSE is readable by the
`Initiator` object it answers and by nothing else; an INIT is readable by the
node it is addressed to, and only while its timestamp is inside
`REPLAY_WINDOW`; a TRANSPORT decrypts only if its nonce is the next one
(`transport.rs` keeps nonces implicit). Ephemerals are reused when nothing refers
to them any more (`Unused`), which stands for drawing a new random value.

### TunnelManager

State: `peers`, `endpoint_to_peer` and `learned_endpoints` are the fields of the
same names, one per node. `peers[n][p]` is the `PeerSession` record or `Absent`.
An `Option<Instant>` is an age: `0` when the code stores `now()`, counting up
with `Tick` to one past the limit it is compared with. A deadline
(`next_init_at`, `next_retry_at`) counts down to 0. Environment: `up` (running
daemons), `addr` (the address each node's datagrams come from), `age` (of the
timestamp in each `Initiator`), `net` (a bag of datagrams), `left` (what is left
of the fault budget).

Actions:

| action | code |
|---|---|
| `ReceiveInit`, `ReceiveResponse`, `ReceiveTransport`, `IgnoreUnknownSource` | `handle_incoming` for the three direct message types: attribute the datagram (`Sender`), refresh endpoint and `last_rx_at` (`Heard`, `Rehome`), then `check_init_cookie` + `handle_init`, `handle_response`, `handle_transport` |
| `ReceiveRelayedInit/Response/Transport`, `ForwardRelay`, `DropStrangersRelay` | `handle_incoming` and `handle_relay` for RELAY: learn the address, refresh, then the inner message or the forwarding |
| `SendInit`, `ClearInitTimer` | the loop over due `next_init_at` in `step` |
| `DispatchTunPacket` | `dispatch_tun_packet` |
| `RetryRekey`, `MarkStale`, `KeepaliveOrRekey` | `maintenance` for one peer |
| `AddPeer`, `Start`, `Stop` | `TunnelManager::new` and `add_peer`, the daemon's start and its end |
| `Tick`, `Lose`, `Duplicate`, `Vanish`, `Rebind` | time and the network |

One `step()` is split into those parts. This is sound and loses nothing: the
parts of a step touch one peer each, and no condition in a later part depends on
an earlier part of the same step except through that peer. A failed send is an
outcome of every action that sends; what the code has changed before the `?`
stays changed (the nonce that was used up, a `Responder` that is spent). When a
datagram's send fails the rest of the `step()` is skipped in the code; in the
model the other peers' actions simply do not have to happen next.

*No COOKIE.* `generate_cookie` (`manager.rs:516`) copies the four octets of an
IPv4 address with `copy_from_slice` into a slice of six bytes, and
`copy_from_slice` panics when lengths differ. It is called before anything of a
COOKIE exists, so a COOKIE is never sent, `received_cookie` is never set and
`mac2` is never attached. The panic is modelled (`ReceiveInit`, first disjunct,
ends the daemon), the unreachable branches behind it are not.

*Two refreshes, one effect.* `handle_incoming` has a second block that refreshes
the endpoint (`manager.rs:719-727`). It never finds anything to do when
`EndpointsCoherent` holds: a datagram whose source is in the index already has
that source as its peer's endpoint, and one identified by mac1 has just been
moved. `Rehome` is both blocks. So the one thing that ever moves a peer is an INIT
from an address the index does not have, whose mac1 fits the key of a peer: an
INIT that another node was meant to get (section 4, Roaming).

### Discovery

`PeerConfigFor(me, entry)` is the loop body of `cmd_up` (`cli.rs:414-482`, repeated
for peers found later): skip an entry without a usable endpoint or relay, use the
placeholder `0.0.0.0:0` behind a relay, `via_relay = theirs or mine`, and
`is_initiator` = I have a relay, else not if they have one, else the larger
public key.

### Coordinator

`nodes` and `tokens` are the tables, `used` is the pool, and `calls[c]` is a handler
with its local variables. No handler awaits anything, but they run on several
threads and take the mutex of the database, or of the pool, once per group of
statements. An action is one such group:

| action | code |
|---|---|
| `Register` | `register` up to `allocate` (routes.rs:49-82): the lowest free address, or an error at once |
| `InsertNode` | `db::insert_node`: two INSERTs without a transaction, each of which may fail |
| `Peers`, `Heartbeat`, `RefreshToken`, `DeleteNode` | the handler's first locked section: find the node of the token, check the signature with its key |
| `ListPeers`, `UpdateHeartbeat`, `RevokeTokens`, `CreateToken`, `DeleteRows` | the statement groups in `db.rs` the handlers go on with |
| `ReleaseAddress` | `IpAllocator::release`, under the other mutex |
| `Respond` | the answer leaves |
| `Restart` | the process dies and `AppState::open` rebuilds the pool from the table |
| `Expire` | a unit of time passes |

Times are kept as what is left of them. A revoked token row is left out, because
every query asks for `revoked = 0`; an expired one stays. Checking a token and
reading the clock are one step. A refused request leaves no trace and is no action,
except where the address pool is exhausted. `DbErrors` lets every statement fail;
`ForeignKeys` says whether SQLite enforces `REFERENCES nodes(node_id)` (the bundled
build does). `MCCoord` has `ForeignKeys = FALSE` and `DbErrors = TRUE`, which covers
both builds: what a foreign key refuses is a statement that fails, which any may.
`update_endpoint` and `get_token` have no caller and are not modelled; the list that
`list_peers` returns is not kept.

`Registry` is what a user of the coordinator counts on: a member joins with an
address and keys nobody else has, in one step; a credential speaks for one member
from the step that issues it to the step that ends it and never again; a member
that leaves takes all its credentials along. `OpenCoordinator` maps `nodes` to its
members and the tokens that would be accepted (`Good`: the query joins the tables,
so a token row without its node does not count) to its credentials. A token row
that a late refresh inserts after the node was deleted is a stutter of `Registry`.

### RateLimiter

`ReadClock` is `Instant::now()` before the lock, `Check` everything under it. The
window is the sequence the code keeps; `Fresh` pops only from the front, so an
expired instant behind a younger one stays, as in the code. `answers` records what
was answered, and when, for the properties. `RetryAfter` includes the division of
routes.rs:25 into whole seconds. `Delay` bounds the time between reading the clock
and getting the lock.

### Client

`disk` has the two key files and `state.json` (`Absent`, `Torn` or a saved state);
`daemon` and `command` are two processes, each with the copy of the state it has
loaded, its keys and its token. A process makes one HTTP call at a time, whose
outcome is `"sent"`, `"ok"` or `"error"` (`Await`): the request may be lost, the
answer may be lost after the coordinator has done its work, the coordinator may
restart in between. `AfterCommand` and `AfterDaemon` are what the code does with the
outcome. `Truncate` and `Write` are the two halves of `fs::write` in `State::save`; a
write on a file another process has written since may leave a text that does not
parse. `Wake` is the heartbeat task after its sleep (cli.rs:585-590): it decides by
the expiry in the *file* whether to refresh the token in its *memory*. `StartInit`
covers `init --force`; `SaveIdentity` and `SaveWg` replace the two keys one after
the other. One unit of time is the task's sleep of 20 s.

`excused` is a history variable: the daemon's session has met one of the four
things nothing in the code recovers from. `Unfit`: `up` was started with a token about
to expire or not accepted. `Withdrawn`: a command refreshed or deleted on the
daemon's node. `LosesToken`: the old token is revoked and the answer with the new one
is lost. `LosesState`: `state.json` is left torn, or is another registration's. What
remains is what the task is there for, and `MCClient_auth` shows what the second of
them means.

## 3. Runs

### Bounds

*Tunnel.* Time is scaled so that the order of the code's limits is kept: INIT retry
2 s → 1 unit, keepalive 10 s → 1, rekey 120 s → 2, reject 180 s → 3 (4 in `MCPair_faults`),
replay window 120 s → 3 (5 in `MCPair_faults`), rate window 1 s → 1, limit 5 → 2 INITs.
In `MCPair_async`, which has only two ticks, rekey, reject and replay window are 1 unit.
Ages saturate one past the limit they are compared with, so with
`EndlessTime = TRUE` the runs cover executions of any length and any number of
rekeys in a finite state space.

`Prompt` says what happens within one unit of time: `"nodes"`: a running loop
serves its due timers (the loop is not blocked); `"network"`: datagrams arrive or
are lost (latency below the smallest timer), and restarts and NAT changes take
longer than a datagram's flight; `"daemons"`: every daemon is running and aware of
its peers before time goes on. With the empty set everything is asynchronous.

| run | question | bounds |
|---|---|---|
| `MCPair_faults` | Do two nodes with working loops and a fast network recover, agree on a key when quiet, stay `Ready`, never go stale and never run into the INIT limit, whatever is lost or fails? | 1 lost datagram, 1 failed send, 1 restart in any combination and phase; endless time |
| `MCPair_async` | With no assumption on timing at all: are nonces fresh and replays refused, does only a peer with an old key go stale, and is nothing decrypted on a stale session? | 2 ticks, in which a session can be rekeyed, or go stale and recover; 1 duplicate, 1 failed send, 1 TUN packet; one datagram may outlast a tick, any number are reordered within one (the network is a bag) |
| `MCNat_relay` | A NAT'd node with its relay: does just the NAT'd node initiate, and does the link come up for every order of start and discovery, with a change of its NAT mapping? | 1 rebind, endless time |
| `MCNat_trio` | A third node joins a NAT'd node and its relay: do all pairs connect, to the right peers? | first handshakes of the third node, no tick, 1 TUN packet; the relay has discovered the third node, or not yet |
| `MCNat_roaming` | Do the address index and the sessions agree while peers move between addresses, also shared ones? | the README's flags; 3 changes of address by any of the three nodes, to a free or abandoned one, 1 restart; handshakes only (`MaxNonce = 0`), no tick; the NAT'd node has discovered its relay, or not yet |
| `MCCoord_registry` | Do the coordinator's tables, tokens and pool keep the promise of `Registry` and never share or lose an address, whatever overlaps, fails or restarts? | 2 devices' keys, 2 addresses, 2 node names and 3 tokens to draw, 3 requests at a time, tokens that live 1 unit; endless |
| `MCClient_session` | Does the daemon keep a good token, is it heard for ever, and does `state.json` come to agree with it, next to commands and with a fault? | 3 commands (two to set the device up, one of any kind), 2 starts of the daemon, 1 fault of any kind anywhere; endless time |
| `MCLimiter_window` | Does the window admit at most its limit, refuse nobody for long, and tell callers how long to wait? | limit 2, window 2 s, half-second units, 3 threads, 5 checks, 10 units |
| `MCPair_slow_network`, `MCNat_shared_endpoint`, `MCClient_auth`, `MCClient_expiry` | disagreements, see section 4 | — |

Why the bounds are enough. A pair has two sessions and one key at a time, or two
during a rekey; every fault of the budget may strike in every phase of every
rekey because time is endless. The combinations of different faults (a restart and
a loss during the handshake after it, a failed send of the retry of a lost INIT)
are the ones in which the two ends can disagree about the phase they are in;
two faults of one kind are outside the runs. `MaxNonce = 4` messages (5 in `MCPair_faults`) per key and
side covers the first message, the one after it and keepalives beside them.
Ephemerals are recycled, and six are enough for all live ones (`Unused` is never
empty where it matters: otherwise `AlwaysReconnects` would fail). Three nodes are
the least with a relay that forwards between two others.

In `MCPair_faults` the replay window is 5 units. In the code it spans 60 retries
of an INIT and the budget's faults (one restart, one loss, one failed send) cost
a few; in model units that means the window has to outlast the three faults.
Five is exact: the INIT that is answered last, after a late start, a restart, a lost
datagram and a failed RESPONSE, is 5 units old. With a window one unit shorter, which
is the mutant of `AlwaysReconnects`, it has expired, and the run shows the late
responder of section 4. The run also gives
`reject_after` 4 units, so that the 2 units of a keepalive and its beat fit in twice, with
the one loss of the budget: the code's 180 s are eighteen keepalives. That and
`MaxNonce = 5` are what the theorem `SessionsNeverStale` asks for (`EnoughTime`), so the
run is an instance of it.

`MCPair_async` has `REKEY_AFTER = REJECT_AFTER`, the most that `RekeyBeforeReject` allows,
because `SilenceMeansOldKey` is hardest there; the theorem `OnlyOldKeysGoStale` covers
the other values, and any number of ticks.

In `MCNat_roaming` an address is left by one node and taken by another, so an INIT for
the first reaches the second, which may not know where it comes from: after a
restart, or because the relay is not discovered yet. Then `Rehome` changes
the index: h files c under its relay's address, adds the relay, with which c now
shares it, and moves c again when the relay has moved, which removes
the relay's entry (`manager.rs:693`). Nothing of that happens in the other runs,
where no datagram identified by mac1 comes from a new address; behind a relay a change of
address is learnt in `learned_endpoints` and moves nobody.
Messages under a key are left out of this run because a TRANSPORT from an unknown address is
ignored and one from a known address moves nothing.

*Coordinator.* The hard cases are pairs of handlers of one node (two refreshes, a
refresh and a deletion, two deletions) with a registration that takes what they
give back: three requests at a time and two addresses. Random values are drawn
once (`drawn`), so a behaviour has at most two registrations and three tokens; the
proofs of section 5 have no such bound.

*Client.* The token lives 5 units and is refreshed in its last 3 (`GRACE`): the code's
60 s are three sleeps of 20 s. So the task has three attempts, and two of them may
fail: one on the fault of the budget, one on a `state.json` that it finds torn
because a command is writing it. With one more fault, or one more command, three
attempts in a row can fail and the token expires, as the code's constants imply;
`DaemonKeepsToken` is about the number of misses the constants allow, and the theorem
`DaemonNeverLosesToken` has exactly this bound as its hypothesis. Assumed: the
clocks of the device and the coordinator agree; the daemon's calls end before it
sleeps again (the HTTP client has no timeout, and a call that hangs for ever
simply ends the heartbeats); no one spends 20 s between truncating a file and
writing it; a process learns that its call was lost when the coordinator is done
with it.

*Limiter.* A limit of two is the least with a front that is not the only instant,
three threads the least that fill it out of order. `Delay = 1` is half a second,
much longer than any wait for this lock (the properties also hold with `Delay = 2`);
the 50 ms of rate_limit.rs:107 are less than a unit.

### Fairness

`TunnelManager`'s: the clock ticks, daemons are started
again, discovery (every 60 s) finally adds every peer, the 50 ms loop serves
timers and maintenance, and the network delivers or loses what is in flight, one
source address at a time: a socket's queue is not served in favour of one
sender for ever. Weak fairness is enough because each of these actions stays
enabled until it happens. Losing, failing, restarting, roaming and TUN packets are
never required; a run with data in its budget also covers idle nodes.

`Client`'s: both processes and the coordinator's handlers run on, and time passes.
Nobody has to give a command or start the daemon, and nothing has to fail. Each
process has at most one step it can take and keeps it until it takes it, so weak
fairness is enough. A call is answered or fails, because its handler runs on. The
conjuncts name `History` because an action of `Next` includes what it does to the
history variable. The coordinator alone and the limiter have safety properties only.

`CHECK_DEADLOCK FALSE` everywhere: with a budget used up, or all random values drawn,
the model really stops, and the stop is not an error of the code.

Every property is paired with a plausible bug in `PROJECT.json` (`mutants`) under
which its run fails.

### Properties

* `TypeOK`, one for each of the tunnel, the coordinator, the client and the limiter.
* `EndpointsCoherent`: the address index leads to the peer with that endpoint, also
  after peers have moved to addresses that others have or had.
* `NoncesFresh`, `ReplaysRejected`: no nonce is used twice, nothing is decrypted
  twice. In a Noise implementation with implicit nonces this depends on a fresh
  answer for every INIT that is answered again.
* `SessionsAttributed`: a session is with the peer it is filed under.
* `NeverStuckInInit`: no session gets into the state nothing leaves.
* `OneSideInitiates`: of the two ends of a link one waits.
* `SilenceMeansOldKey`: a peer that would be marked stale has an old key.
* `NeverStale`: with working loops nobody goes stale.
* `QuietMeansAgreed`: both ready and nothing going on means one common key.
* `LearnedIsOwnAddress`: a relay learns the address of the peer itself.
* `ReadyIsKept`, `StaleDropsData`: what no step may do.
* `DaemonKeepsRunning`: only a stop ends a daemon, no burst of INITs does. The limit of
  two has room for the one restart of `MCPair_faults` and no more.
* `AlwaysReconnects`, `RekeyEnds`: liveness. `TrioReconnects` is the former without a
  single retry (time stands still in `MCNat_trio`); a relay drops a RELAY from a
  stranger, so it is promised only when the relay knows the third node at the start.
* `ReservedAddresses`: the pool and the table agree, also between the deletion of a
  row and the release of its address, after two deletions and after a restart.
* `LostOnlyByFailure`: an address becomes nobody's only by a statement that fails,
  never by handlers that overlap.
* `KeepsPromise`: the coordinator implements `Registry`.
* `NeverOverLimit`, `RefusedOnlyWhenBusy`: the out-of-order window against a count over
  what was answered, from above and from below.
* `RetryAfterAlmostSuffices`: who waits Retry-After and a second more is served, when
  nobody else asked in between.
* `DaemonKeepsToken`, `HeardForever`, `StateFileHeals`: the session of a running daemon.

## 4. What the code does differently

Four runs are expected to be violated. Each checks one property that a document or
comment of the repository states, and TLC's counterexample is an execution of the
code.

1. `MCPair_slow_network` / `ReadyIsKept`. When the RESPONSE takes longer than the
   2 s retry, the initiator sends its INIT again, the responder (now `Ready`)
   answers again, and the second RESPONSE reaches an initiator that is `Ready`
   without a rekey in flight. `handle_response` replaces the state by `Init`
   before it looks at what it was (`manager.rs:1081`), and nothing leaves `Init`.
2. `MCNat_shared_endpoint` / `SessionsAttributed`. With the README's flags a NAT'd
   node advertises its relay's address, so both peers share an entry of
   `endpoint_to_peer`; a handshake with the relay can end up in the session of the
   NAT'd node, because `handle_init` never compares the static key the INIT
   authenticates with the peer it has picked.
3. `MCClient_auth` / `NeverLosesAuth`. The heartbeat task looks at the expiry in
   `state.json` and refreshes the token in its memory, which it never replaces by
   the one in the file. One `naboscale refresh-token` next to it revokes its token
   and puts a fresh expiry into the file: from then on the daemon's heartbeats are
   refused, and when the file's expiry comes near, so is its refresh.
   `README.md:128`: "Long-running `naboscale up` sessions never lose auth".
4. `MCClient_expiry` / `HeartbeatSurvivesExpiry`. `naboscale heartbeat` with an expired
   token refreshes it with the same token, which `get_node_by_token` does not find
   because it has expired. The comment at `cli.rs:268` says the refresh is there "so
   the call doesn't fail with 401".

Four more cases can be shown with the modules as they are:

* *INIT burst.* More INITs in a second than the limit call `generate_cookie`, which
  panics (section 2, No COOKIE); the daemon's own task ends. Where datagrams arrive in
  time this takes more restarts than the limit allows for (`DaemonsRun`, section 5).
  Where they may be delayed it takes no fault at all: `MCPair_faults` with
  `Budget <- NoFaults`, `Prompt = {"nodes", "daemons"}` and `MaxInFlight = 5` violates
  `DaemonKeepsRunning`, by retries that arrive together.
* *Late responder.* The first INIT is cached and retransmitted with its first
  timestamp; if the responder starts, or learns of the initiator, later than the
  replay window, every copy is refused and no new `Initiator` is ever made. `MCPair`
  with no faults and `Prompt = {"nodes", "network"}` violates `AlwaysReconnects`.
* *Roaming.* An INIT's mac1 is keyed with the public key of the node that *receives*
  it; `identify_initiator_by_mac1` tries the keys of the *peers*, so no INIT for this
  node is ever identified and a direct peer whose address changes stays an unknown
  source. `MCPair_faults` with one rebind in
  `Budget` and a roaming `a` violates `AlwaysReconnects`.
* *Rekey through a relay.* A relayed INIT is answered only in
  `HandshakingAsResponder`; the INIT of a rekey finds the session `Ready` and is
  dropped, so a NAT'd node retries its rekey for ever. `MCNat_relay` with
  `Budget <- NoFaults` violates `RekeyEnds`.

Other divergences seen while modelling, without a run of their own:

* Between the responder's swap (`manager.rs:858`) and the arrival of its RESPONSE
  the two ends hold different keys; the comment at 148-150 says the old transport
  stays in use until the new one is ready, which is true of the initiator only.
* A stale peer is skipped by `maintenance()` (1154); the comment at 303-305 says
  the next INIT recovers it, but if the *initiator* holds it stale nobody sends one.
* A relayed TRANSPORT is decrypted on a stale session (766-779) although the
  comment at 110-112 says data is dropped.
* With the README's flags the relay, answering its NAT'd client, uses the
  configured endpoint, its own address, for keepalives and TUN packets (1001-1020)
  although the comment at 81-86 says learnt endpoints are preferred.
* Two nodes that both run with `--relay` both initiate (`cli.rs:466`).
* One lost relayed RESPONSE of a first handshake is never repeated (941-953).
* Two overlapping refreshes leave two tokens that both work, each handler revoking
  before the other inserts, although routes.rs:203-205 says a refresh revokes any
  prior one. `Registry` allows a member several credentials.
* The comment at db.rs:175-177 says the old token is killed once the new one is
  issued; routes.rs:229-232 revokes first. A failure in between, or a lost answer,
  leaves the client without a token (`LosesToken`).
* An address is never released when `insert_node` fails (routes.rs:83), and not when
  the SELECT in `delete_node` fails (db.rs:237): it is free again after a restart.
* A node that stops running with `--relay` keeps its `via_relay` in the table
  (`COALESCE`, db.rs:169). Its peers go on waiting for it, and with the smaller key it
  waits for them: both ends wait, although `OneInitiator` holds of the flags.
* Retry-After is rounded down (routes.rs:25), and may send a client back before the
  window has room.

## 5. Proofs

All proofs are checked by `tlapm` without gaps, for every set of nodes, addresses
and ephemerals, every configuration, all timer values, every fault budget, and for
the coordinator for every set of keys, names and tokens, every pool size, every
number of requests at a time and every token lifetime.

* `TypeCorrect` (`Spec => []TypeOK`): every variable keeps its type. Not trivial:
  it needs that a handler never works on a peer the manager does not have, which is
  a property of the two tables together.
* `EndpointsStayCoherent` (`Spec => []EndpointsCoherent`): the address index and
  the sessions never drift apart, in any order of discovery, endpoint refreshes
  and restarts, and also when two peers share an address.
* `OnlyOldKeysGoStale` (`Spec => []SilenceMeansOldKey`): no peer with a young key
  is ever given up, however long loops are blocked and whatever is lost.
* `NoncesStayFresh`, `ReplaysStayRejected` (in `HandshakeProofs`): `NoncesFresh` and
  `ReplaysRejected`, over any number of losses, duplicates, retransmissions, rekeys and
  restarts, on direct and relayed paths.
* `OneSideWaits` (in `HandshakeProofs`): `OneSideInitiates`, for every set of flags
  with different keys of which no two nodes have `--relay`, and every `Config` whose
  entries `Discovery` makes from them.
* `SessionsStayAttributed` (in `AttributionProofs`): `SessionsAttributed`, for every
  mesh in which a node that is not behind a relay advertises the address it sends
  from (`PlainFlags`), however the others roam.
* `LearnedStaysOwn` (in `AttributionProofs`): `LearnedIsOwnAddress`, in such a mesh
  without NAT changes, as long as whoever knows a peer knows the relay between them
  (`RelaysKnown`).
* `OnlyRelayedDataReachesStale` (in `StaleProofs`): on every mesh, no step decrypts on
  a stale session except the receipt of a TRANSPORT inside a RELAY. Hence
  `StaleSessionsDropData`: `StaleDropsData`, where no peer is behind a relay
  (`Direct`).
* `NeverStuck`, `ReadyStays`, `QuietEndsAgree` (in `PromptProofs`): `NeverStuckInInit`,
  `ReadyIsKept` and `QuietMeansAgreed`, for every mesh with plain flags, on direct and
  relayed links, where a datagram arrives or is lost within a unit of time, is not
  duplicated and the retry interval is not zero (`PromptNetwork`), whatever is lost, fails,
  blocks, restarts or roams; the last one where the peers come from discovery
  (`FromDiscovery`).
* `DaemonsRun` (in `PromptProofs`): `DaemonKeepsRunning`, for every mesh with plain flags
  and a prompt network, where `COOKIE_INIT_RATE_LIMIT` is greater than the number of stops
  and its window no longer than the intervals of retries and rekeys (`RoomForInits`).
* `SessionsNeverStale` (in `StaleProofs`): `NeverStale`, for such a mesh without relays
  whose daemons run and whose loops are not blocked, where the losses of the budget
  leave enough of the beats that fit into `reject_after` (`EnoughTime`).
* `OneInitiator` (in `HandshakeProofs`): of two nodes that do not both run with
  `--relay`, exactly one decides to initiate.
* `CoordTypeCorrect`, `PoolAgrees`, `OnlyFailuresLose` (in `CoordinatorProofs`):
  `TypeOK`, `ReservedAddresses` and `LostOnlyByFailure` of `OpenCoordinator`.
* `ImplementsRegistry`: `Spec => KeepsPromise`, the refinement.
* `LimiterTypeCorrect`, `LimiterNeverOverLimit`, `LimiterRefusesOnlyWhenBusy`,
  `LimiterRetryAfterAlmostSuffices` (in `LimiterProofs`): the four properties of the
  limiter, for every set of keys and threads, every limit, window and delay, any
  number of checks.
* `ClientTypeCorrect`, `DaemonNeverLosesToken` (in `ClientProofs`): `TypeOK` and
  `DaemonKeepsToken` of `Client`, for every token lifetime, grace, set of commands and
  number of starts; the latter where no SQL statement fails and
  `GRACE + 1 >= Budget.faults + Budget.commands`.

### The tunnel

The argument of the first three theorems is one inductive invariant, `IInv`:
`TablesOK` (types of the two tables, every known peer is a configured other node,
`EndpointsCoherent`, and `HeardSinceHandshake` of every session) and `WorldOK`
(types of the rest). `SilenceMeansOldKey` itself is not inductive: a peer can be
one tick short of silent. `HeardSinceHandshake` says that a `Ready` session has
`last_rx_at <= last_handshake_at` unless the latter has already passed
`rekey_after`; every handshake sets both to now, every datagram lowers the former,
a tick raises both. `IInv` was checked with TLC in the instances of
`MCPair_async`, `MCNat_roaming`, `MCNat_trio` and `MCNat_shared_endpoint` first.

The handshake theorems rest on a second invariant, `HandshakesOK`, inductive relative
to `IInv`. Its part `KeysOK` is about three things only: the transports of the `Ready`
sessions, the pairs of a session and the `Initiator` whose RESPONSE it waits for, and
the messages in flight. `NoncesFresh` is not inductive: two copies of one RESPONSE,
both readable, would give one side of one key to two sessions, or give it a second
time with the nonces back at 0. Neither happens, because an `Initiator` is held by one
session, which drops it as it takes the key (`OneWaiter`), a key answers one
`Initiator` (`OneAnswer`), and the key of a RESPONSE that is still waited for has not
been used at the initiator's side (`Unclaimed`). The latter also needs that the
responder, which has the key already, has decrypted nothing with it. Lemmas on these
triples, without any state, say what may end, be drawn, encrypted, decrypted, answered
and consumed; then there is one lemma per handler. `RolesKept`, the other part, says
that only who is configured to initiate ever waits for a first RESPONSE; `OneInitiator`
turns it into `OneSideInitiates`. TLC checked `HandshakesOK` in the instances of
`MCPair_async`, `MCPair_faults`, `MCNat_trio` and `MCNat_shared_endpoint` first.

`AttributionOK`, inductive relative to `IInv`, is about addresses: nobody takes the
address of a node that stays where it is (`AddressesOK`), the session with p has p's
address or the placeholder as its endpoint (`SessionWith`), and a handshake message in
flight names its author and travels from that author's address, or in a RELAY whose
header names the author (`TrueToAddress`). `SessionsAttributed` alone is not inductive:
a RESPONSE in flight may make any session one with its author. mac1 never has a
say: a direct INIT only reaches the node it was written for, and
`identify_initiator_by_mac1` tries the keys of that node's peers (section 4, Roaming). The hypothesis is what `Discovery` makes of plain flags; that the README's own
flags violate it, and the property with it, is `MCNat_shared_endpoint`. For
`LearnedStaysOwn` there is a third part, `Routed`: a RELAY in flight comes from its
author or from a relay between the two it names. A node takes the source of a RELAY
for its author's address unless the index has it, so it must know the relay:
discovery adds them in the coordinator's order, and a node that has added the NAT'd
one before its relay learns the relay's address as the NAT'd node's (TLC: `MCNat_trio`'s
instance from `Settled({<<c, r>>}, TRUE)` violates `LearnedIsOwnAddress`). `RelaysKnown`
is a hypothesis about the behaviour, which `MCNat_trio` satisfies.

`StaleOK` says that no rekey is in flight on a stale session: the RESPONSE of one would
give it a new key without clearing `stale`. With it each handler either leaves a stale
session's replay window alone or replaces its key, except the TRANSPORT branch of
`handle_relay`. That exception is real: in the instance of `MCNat_relay` with blocked
loops (`Prompt = {"network", "daemons"}`) TLC violates `StaleDropsData`, so a theorem
without `Direct` would be false.

`PromptOK` is the argument of `PromptProofs`, that of a single token. An INIT is written
when the retry timer of its `Initiator` is over, and where the network is prompt that
timer is not over while the INIT or the answer to it is under way: a session that asks has
at most one handshake message out (`OneToken`), in one copy, also inside a RELAY, and it
still holds the `Initiator` the message belongs to (`Awaited`). So a RESPONSE that is
delivered is the one its session waits for, and `handle_response`, which puts the session
into `Init` before it looks, always takes it out again. With a second copy, or a RESPONSE
that outlives the retry, the next step violates `NeverStuckInInit` or `ReadyIsKept`
(`MCPair_slow_network`). For `QuietMeansAgreed` the invariant adds that who answered holds
the key of its answer while that is under way (`AnswerHeld`), and that an initiator which
waits for nothing shares its key with its peer (`KeysAgree`): the responder gives its key
up as it answers, and its initiator is then rekeying until it has taken the new one. That
is more than the property says: what is in flight need not be empty.

`PacesOK` is the argument of `DaemonsRun`, on top of the token. What a session has counted
in its window, together with the INIT under way to it, is at most one more than the daemons
that were stopped, and if it is that many, then who asked is silent until the window is
over: `next_init_at`, `next_retry_at` or what `last_handshake_at` leaves until the next
rekey, whichever it waits for (`Silence`). An INIT that is sent ends a silence and begins
another of `INIT_RETRY_INTERVAL`; a RESPONSE begins one of `REKEY_AFTER + 1`; only a
restart cuts one short, and that is what stops are counted for. Both conditions of
`RoomForInits` are needed: `MCPair_faults` with `COOKIE_INIT_RATE_LIMIT = 1`, and with
`RATE_WINDOW = 2`, violates `DaemonKeepsRunning`. In the code the window is 1 s, the
intervals are 2 s and 120 s, and the limit is 5: it takes five restarts of one node within a
second. The theorem is coarser there: it counts every stop of the execution, in whichever
window.

`LivelyOK` is the argument of `SessionsNeverStale`. The two sides of a link are not alike.
Who asks does not depend on what it hears: its `last_rx_at` is at most its
`last_handshake_at`, and it rekeys at `REKEY_AFTER < REJECT_AFTER` (`InTime`). Who is asked
depends on the other's beat: the asking side sends a keepalive, an INIT or its retry every
`Gap = max(KEEPALIVE + 1, INIT_RETRY_INTERVAL)`, and each loss uses up another `Gap`. So
what the one has not heard and the other has still to wait for are together at most
`Room = REJECT_AFTER - (losses left) * Gap` when nothing is under way (`HeardOK`). That the
beat is sent at all needs a nonce for it: keepalives, failed sends and TUN packets must not
use up a key before the rekey, which bounds `MaxNonce` from below (`Spent`); the code's
2^64 is no such bound.

The hypotheses of all three are conditions on constants that `MCPair_faults` satisfies, which
is an instance of all five theorems.

TLC checked each of these invariants first: `PromptOK` in the instances of `MCPair_faults`
and `MCNat_relay`, `PacesOK` in that of `MCPair_faults`, `LivelyOK` there and in variants
with other limits, with two losses and with data, `AttributionOK` and `Routed` in the
instances of `MCNat_trio`, `MCNat_relay`, `MCPair_async` and `MCPair_faults`, `StaleOK`
in those of `MCPair_async` and `MCNat_relay`.

Assumptions used, all evaluated by TLC in the tunnel's runs: `ConfigAssumption` and
`TimingAssumption` (types), `NoneAssumption` (the null values are none of the
values), `ReplayWindowAssumption`, and `RekeyBeforeReject`
(`REKEY_AFTER <= REJECT_AFTER`, 120 s against 180 s in `ManagerTimings::default`),
which only `OnlyOldKeysGoStale` needs.

### The coordinator

`IInv` is `TablesOK`, `CallsOK`, `ReservedAddresses` and `UniqueAddresses`.
`ReservedAddresses` is not inductive alone: when a row is deleted its address passes
from the table into the hands of the handler, and has to be gone from the table, so
no other row may have it (`UniqueAddresses`, which the pool and the column's
uniqueness guarantee). `CallsOK` says that every handler between two sections has
what the next one needs, which is why a deletion in between cannot make it act on
nothing. The action property follows step by step: an address that is used and
nobody's after a step and was not before must have left the table or a handler's
hands without reaching the other, and only the two failing statements do that. For
the refinement each locked section is shown to be a step of `Registry` or a
stutter: `InsertNode` is `Join` (with one credential or with none), `CreateToken` is
`Issue`, or nothing when the node is gone by then, `DeleteRows` is `Leave`, a failed
deletion, a revocation and the clock are `End`, a heartbeat is `Move`.
`CoordinatorAssumption` (types of the constants) is the only assumption; TLC
evaluates it in every run of `MCCoord` and `MCClient`.

### The limiter

The properties count over the record of answers, the code keeps a queue. The
invariant relates the two: `AllRecorded` says that each window's queue is what is left
of the admissions of its key in the order they were made, and that whoever is no
longer in it had expired when it was popped; `LastRefusal` says what the last refusal
saw of the queue. Both are needed because instants enter out of order: an instant that
has expired may stay behind a younger one and take a place, and the front, from which
Retry-After is computed, need not be the oldest. Then a stretch of time with one
admission too many would have had all of its instants in the queue when the last was
let in, and the queue was shorter than the limit. `LimiterAssumption` (types, and a
limit of at least one) is the only assumption.

### The client

Both theorems assume that there are infinitely many keys, node ids and tokens
(`Unlimited`): then there is always a new random value to draw (`AlwaysSpare`), because
the tables stay finite. In the runs, with their finite sets, the bounds see to that.

`ClientTypeCorrect` rests on `TypesOK`, which adds the coordinator's tables and says of
each process in which stages it is what (`DaemonOK`, `CommandOK`), and that an open
call it waits for is at a section of the handler it has called (`CallOf`).

`DaemonKeepsToken` is a matter of counting, and of what the daemon counts by: the expiry
in a file that two processes write. The invariant has two halves.

`OrderOK` holds whatever happens to the daemon. No state, in the file or in anybody's
memory, claims more time for its token than the table grants it (`Honest`). While the
token in `state.json` is good for the device's key, neither the running command nor the
answer it waits for carries a state with more time left (`FilesOrdered`); otherwise that
state could be written over the file, and the task would not look in time. A
registration's node is none the daemon has a token of (`Newcomer`). A refresh takes no
unit of time (`InTime`). And the commands that are left are two fewer when there is a
`state.json`, since `init` and `register` are over by then (`Spending`).

`Kept` says that a running daemon which is not excused is `Sound`: its token is good
(`HoldsToken`), or is being renewed by a refresh about its own node (`Renews`); nothing
that could be in the file when it looks claims more than its token has left (`Covered`);
and `state.json` is whole but while it is written (`FileWhole`). `Lasts` is the count:

    left of the token + Slack >= Margin + 1 + faults left + commands left

where `Margin = GRACE + 2 - Budget.faults - Budget.commands`, and `Slack` is 1 from
waking up until the refresh has failed, and while a command is writing the file, which is
when the daemon may be about to miss a refresh. A tick takes a unit from the token and
wakes the daemon; a missed refresh gives the slack up, and a fault or a command, which
can be what made it miss, is gone from the right. When the task decides not to refresh,
the file says more than `GRACE`, hence so does the token (`Covered` the other way round
is not needed: a file that says too little costs one refresh too many). At a tick the
right-hand side is at least 2, so the token outlives it. TLC checked `OrderOK` and
`Kept` first, also with 4 commands or 2 faults and a `GRACE` of 4, and finds
`DaemonKeepsToken` violated with `GRACE = 3` and one command or fault more than the
hypothesis allows: the bound is exact there.

The hypotheses: `Budget` counts the faults and commands of a whole behaviour, so the
theorem is about behaviours with at most `GRACE + 1` of them, of any length and with any
number of refreshes between them. A statement that fails (`DbErrors`) can fail every
refresh and is no fault of the budget; with it the property is false. `ClientAssumption`,
`CoordinatorAssumption` (types of the constants) and `NoFileAssumption` (no file and a
torn one are no saved state) are evaluated by TLC in the runs of `MCClient`.

### Only model-checked

* Liveness (`AlwaysReconnects`, `TrioReconnects`, `RekeyEnds`, `HeardForever`,
  `StateFileHeals`), which TLAPS cannot prove.
Every safety property of the passing runs is the statement of a theorem; those about
prompt networks and unblocked loops carry that as a hypothesis, without which they are
false (`MCPair_slow_network`).

## 6. Limits

* The cryptography is symbolic: keys, signatures and MACs do what they promise.
* Byte layout, sender ids (a RESPONSE echoes the id of its INIT, so the id check
  rejects nothing the Noise read does not), formatting, logging.
* Packets to unknown mesh addresses and malformed datagrams, which are dropped
  without a change of state.
* All nodes have one clock. An INIT's age is the time since it was made, so
  `handshake.rs:191`, which compares the clock of the responder with the
  initiator's timestamp and refuses differences of more than 120 s either way, never
  refuses an INIT because the two clocks differ. On devices whose clocks are more than
  that apart no handshake succeeds, and a smaller skew takes its part off the
  window; nothing here, theorems included, is about such devices.
* The nonce space (2^64) is not exhausted; `MaxNonce` is a bound of the model.
* The 500 ms throttle of `maintenance()` is below the unit of time.
* SQLite's file is durable: a restart finds every committed row.
* In `Client`: what `state.json` keeps for display, `config.toml`, passphrases, and the
  daemon's discovery arm, which reads the token and changes no file. Its request,
  awaited inside the loop, is a blocked loop in `TunnelManager`.

### Not modelled

The TUN device and the platform set-up (I/O of the operating system, run once at
start), the HTTP wiring, argument parsing, error texts and wire types (no state of
their own), the encryption of key files and the old plain format, the COOKIE branch
behind the panic, and the deployment and test scripts.

## 7. Plan

Done, in the order in which a user depends on it: the tunnel (`Noise`, `Discovery`,
`TunnelManager`, `TunnelProperties`, `TunnelProofs`, `HandshakeProofs`,
`AttributionProofs`, `PromptProofs`, `StaleProofs`), the coordinator (`Coordinator`, `OpenCoordinator`,
`Registry`, `CoordinatorProofs`), the limiter (`RateLimiter`, `LimiterProofs`) and the
device (`Client`, `ClientProofs`).

Left: two devices, their daemons and `Discovery` on top of the coordinator's table, so
that the relay `COALESCE` keeps, and peers that are registered again with other keys,
reach the tunnel configuration.
