# Tamizdat verification

TLA+ models of the concurrent and stateful parts of Tamizdat, model-checked with
TLC on small instances and, for eight of the components, proved with TLAPS for every
value of the constants. `PROJECT.json` lists the components, the runs, the source lines
every definition stands for, the hazards and the theorems.

To check: `tlc -config <file>.cfg <module>` for a run, `tlapm <module>.tla` for a
proof module, both in this directory.

## The system

Tamizdat is a tunnel: a client multiplexes TCP and UDP flows over TLS+HTTP/2
connections that look like those of an ordinary site, and a server dials the
destinations, directly or through outbounds. Two more carriers exist for the same
streams (`fragpoc`, short HTTP exchanges; `vkturn`, KCP over TURN), and a second path
carries WireGuard over many TURN allocations at once (`wgturn`). The server keeps users,
quotas, outbounds and rules in a database that a panel edits, and may also be the router
of a LAN, with a TUN of its own.

| Part | State | Operations that change it | Module |
|---|---|---|---|
| Client transport pool: `connpool.go`, `h2transport.go`, `client.go` | transports, bounds, dials in flight, flags and stream counter of each transport | getTransport, topUp, cleanup, resize, close, openTunnel, stream close, drain, teardown | `ConnPool` |
| Outbound registry: `internal/outbounds/registry.go` | generations of dialers, leases, lazy clients | Reload, Close, Resolve, dial, release | `OutboundRegistry` |
| Balancer: `internal/outbounds/balancer.go` | cooldowns, RTT flags, round-robin counter | DialContext, probes | `Balancer` |
| Rules: `rulesdb.go`, `node/rules.go`, `localtun/policy.go` | rows and folders, compiled rules, kernel classifier | edits of the panel, publication, both evaluations | `RouteRules` |
| Geodata and publication: `node/geodata_updater.go`, `cmd/tamizdat-server` | files, parsed cache, published routing, debounce | refresh, RefreshNow, publishRouting, reconcile | `GeoData` |
| Local TUN: `internal/localtun` | generations, device, nft table, policy rule, ChinaDNS, dnsmasq | Reconcile, supervise, stopLocked, set-up, rollback | `TunManager` |
| TUN dials: `internal/tunengine/dialer_native.go` | gates, slots, flows | dial, evict, reap, close | `TunDialer` |
| FragPoC: `internal/transport/fragpoc`, `fragpoc_dynports.go` | frames, ring, polls; sessions and operations; ports; round robin | produce, poll, Read; OPEN, UP, CLOSE, reap; scale; pick, finish | `FragDown`, `FragServer`, `FragSched` |
| VK TURN: `internal/transport/vkturn` | streams of a session; sessions and credentials | frames, Read, Write, Close; dial, acquire, restart | `VkMux`, `VkClient` |
| Gates: `replay_guard.go`, `handshake_limiter.go`, `handshake_limiter_server.go`, `masquerade_ratelimit.go` | keys, reservations, token buckets, probe times | checkKey, Insert, Wait, Allow, decide, reap | `Gates` |
| Prewarmed connections: `masquerade_prewarmed.go` | channel of connections | replenish, Take, Close | `Prewarm` |
| Server connections: `server.go`, `masquerade.go`, `sessions.go` | handlers, activeConns, session rows, tracker | Serve, handleConnection, KillUser, Close | `ServerConn` |
| Streams: `server.go`, `udp_server.go` | relays, leases, counters, bills | validate, dial, copy, watchdog, release | `StreamRelay` |
| Accounting: `accounting.go`, `registry.go`, hooks of `server.go` | counters, budget, row, connections | Add, Flush, SetUserRemaining, ReloadUsers, KillUser, Close | `Quota` |
| Stream trackers: `user_h2_stream_tracker.go`, `outbound_stream_tracker.go` | live counts, peaks, channel, row, registry copy | acquire, release, persist, Reload | `StreamPeaks` |
| Schema: `schema.go`, `panel/tamizdat-panel.py` | tables and columns | EnsureSchema, ensure_db, sessions, flushes | `SchemaMigration` |
| Bundle: `server.go`, `client.go`, `bundlecache.go` | rows, one-shot messages, ETag, cache on disk | poll, apply, save, start | `BundleDelivery` |
| TURN credentials: `internal/turncreds/manager.go` | settings, cached credentials, timer | run, doFetch, Reload, ForceRefresh, Stop | `TurnCreds` |
| WireGuard bonds: `internal/wgturn/bond.go`, `server.go` | bonds, claims, worker slots, timers, identities | acquireBond, addWorker, removeWorker, removeBond, close, Shutdown | `Bond` |
| Reorder buffers: `wgturn/bond.go`, `wgturnclient/bondv2.go` | held frames, expected number, age of the gap | push, flushExpired | `ServerReorder`, `ClientReorder`, both implementing `OrderedLane` |
| wgturn server: `server.go`, `conn.go`, `wireguard.go`, `outbound_bridge.go`, `usertun.go` | devices, peers, handlers; flows, packets | GETCONF, proxy, Shutdown, restart; forward, copy, Close | `WgDevices`, `WgBridge` |
| wgturn client: `internal/wgturnclient` | claim to the password; groups and credentials; fetches; workers and queues | BIND, recovery; rotate, pause; fetch, ask; register, dispatch | `ConfigBroker`, `WorkerGroup`, `CredFetch`, `WgDispatch` |

How they meet. A dial of the client passes the handshake limiter of `Gates` and ends in
`ConnPool`, or goes over `FragDown`/`FragServer`/`FragSched` or `VkClient`/`VkMux`; on a
router it comes from `TunDialer`. At the server `ServerConn` asks the short id limiter and
the replay guard of `Gates`, then serves streams (`StreamRelay`), whose bytes go to `Quota`,
whose counts go to `StreamPeaks`, and which leave through `OutboundRegistry` and
`Balancer` as `RouteRules` says; whatever is not a client goes through the masquerade limiter
to a connection of `Prewarm`. `Quota` closes connections through the tracker of `ServerConn`.
`GeoData` publishes the rules, and `TunManager` installs them. `Bond` decides which WireGuard
socket serves a device, its workers feed `ServerReorder`, what they carry leaves through
`WgBridge`, and `ClientReorder` is the way back. At the client `ConfigBroker` elects who
presents the password, `WorkerGroup` keeps the workers running on what `CredFetch` brings,
and `WgDispatch` spreads the packets over them.

What is hard to test here: locks that are dropped around a dial or a close; counters
and flags read without the lock; resources that must be given back on every error path
exactly once; settings that change under a fetch; timers that race with what they
watch; commands of which any may fail; frames in any order. The hazards in `PROJECT.json`
name the lines.

## The modules

Conventions. One action stands for one critical section, or for what a goroutine does
between two accesses to shared state. Time is a tick, and a stored time is the age it
has, cut off where no comparison tells it from a greater one; so clocks are unbounded
except those of the replay guard and the short id limiter (`ReplayMaxTime`, `IDMaxTime`).
Payloads, addresses, keys and SQL text are model values. What peers, networks and the
operating system do is a nondeterministic choice. A definition whose comment begins with
"Fault:" is a wrong variant of the next one; it is used only to see that a property
notices it. The head of each module lists its abstractions.

- **`ConnPool`**. `pc` and `hold` say where each goroutine is and which transport it
  holds; `leaked` is a ghost that counts slots nobody will release. Critical sections of
  `p.mu` are atomic except `reserveStreamSlot`, whose test (`ReserveCheck`) and
  compare-and-swap (`ReserveClaim`, `ReserveRetry`) are two steps because flags and
  counter change without the lock. `GetStart` to `AppendOk` are getTransport, `Open*`,
  `Trip*`, `StreamClose` and `LastStreamGone` a tunnel, `TopUp*` the topUp goroutines,
  `GracefulDrainClose` and `ErrorTeardown` the transport's own ends.
- **`OutboundRegistry`**. A tracked dialer is a tag and a generation. `Reload` swaps
  generations, `Retire` is one iteration of the loop after it, `CloseDialer` the close
  outside `t.mu`. A stream holds an outer lease and, inside a balancer, a member's.
  The order of the members is left open here; it is the subject of **`Balancer`**, where
  each dial walks the order computed at its start while members flip, cooldowns end
  and RTTs are measured.
- **`RouteRules`**. Rows as the panel edits them, put in order with their folders, then
  evaluated twice: by the first match of the dispatcher, with its kinds of patterns, and by the
  classifier compiled for the kernel, with its merged rules and the sets ChinaDNS feeds.
- **`GeoData`**. Two refreshers share one temporary name; publishers take the fingerprint,
  load under the lock, store and notify. `ReconcileStep` is the debounced reconcile.
- **`TunManager`**. The manager's three fields and each generation's supervisor, next to
  the host: hook, rule, route, ChinaDNS and dnsmasq. Every command may fail; a crash
  loses the process and keeps the host.
- **`TunDialer`**. The five gates in the order of the code, and the deferred releases.
- **`FragDown`**, **`FragServer`**, **`FragSched`**. One stream's frames; the table of
  sessions, and the ports; the round robin over several streams, whose search is the loop of
  the code and is compared with a plain definition.
- **`VkMux`**, **`VkClient`**. Both ends of a multiplexer over a reliable connection, up to
  the panic of a send on a channel being closed; the sessions of a client and its one
  acquisition of credentials.
- **`Gates`**, **`Prewarm`**, **`TurnCreds`**. One file of the source each, `Gates` four.
  Tokens are integers in units of 1/`Unit`, so fractions of a token are exact.
- **`ServerConn`**. A handler that waits for its peer or a timer is in a place of its
  own. The replay guard is a set here; its data structure is in `Gates`.
- **`StreamRelay`**. A stream is a front and a protocol; what Close of its connection does
  to a parked Read or Write depends on the front. Two goroutines, a watchdog, a deferred bill.
- **`Quota`**. For one user: two steps of Add (count, then charge), the swap,
  transaction, publication and hook of Flush for each flushing goroutine, ReloadUsers,
  a quota reset, and the steps of Close.
- **`StreamPeaks`**. `queued` tells the H2 tracker (channel, persister, fallback
  goroutine) from the relay tracker (the handler writes).
- **`SchemaMigration`**. Each program's migrations as one transaction of several
  statements, next to a server that uses the tables.
- **`BundleDelivery`**. From the panel's rows through serveConfigBundle to the client's disk.
- **`Bond`**. A claim goes through the seven places of acquireBond at which the lock is
  dropped or an error is possible; a bond is named by its claimant. Timer, context
  watcher, takeover and `Shutdown` compete for the close (`sync.Once`).
- **`OrderedLane`** says what a lane's buffer promises: it releases frames that arrived, each
  once, in increasing order. `ServerReorder` holds frames in a ring of `Window` slots and, under
  pressure, hands on what it has; `ClientReorder` keeps a map and gives it up when a frame
  a whole window ahead arrives.
- **`WgDevices`**, **`WgBridge`**. Handlers and the three goroutines of a proxied
  connection, with the device table and its file, whose opening or writing may fail; flows, and the hand-over of packets between
  the netstack and the WireGuard device.
- **`ConfigBroker`**, **`WorkerGroup`**, **`CredFetch`**, **`WgDispatch`**. The runner of
  the wgturn client, one concern each. A session that is up may stay up. A fetch goes through
  the helper or is made in process, and both need a permit.

`MC*` modules give the instances. Where components share no state, one `MC` module
explores several: `part` is chosen at the start, the chosen component runs, the others stand
still. This is a sum of state spaces, not a product, and says about each component exactly
what a run of its own would. Where several invariants belong to such a sum, one definition
joins them (`GatesHold`, `RecordsKept`, `FragSafe`, `VkSafe`, `RunnerSafe`, ...).

## The runs

| Run | Instance | What it shows |
|---|---|---|
| `pool_safety` | 2 dialers, refresher, reaper, one resize helper, 2 transports, 2 streams each, bounds pushed between 1 and 2 | no more usable transports than the cap, every slot owned or known to be abandoned, no connection forgotten, a closed pool stays empty, the lock-free cap on streams holds |
| `pool_liveness` | 2 dialers, no refresher, rotation overlap | close releases all connections; a drained transport leaves the pool |
| `pool_refresh_leak` | a dialer and the refresher | **violation**: see below |
| `routing` | a registry with direct, an upstream and a balancer; 2 dials over 2 members; 2 TUN generations, one fail-closed; 2 refreshers and a SIGHUP; every set of up to 3 of 16 rules | leases exact, no client closed under a stream, the old generation closes; a dial fails only if every member was down, a recovered primary is preferred; TUN generations never overlap, the killswitch and dnsmasq's servers are kept; the cache answers only for files it parsed, what was published reaches the TUN; putting rules together for the kernel changes no verdict on a packet about which the two evaluators agree rule by rule |
| `carriers` | a stream of 2 frames with one lost response; one session, 2 operations; 2 extra ports; 3 streams and 2 workers; one VK stream from its dial to its end, and 2 of which one is not read; 2 VK dialers; 2 TUN dials for one slot | a Read that ends has everything and no poll worker blocks on a stream nobody reads; what was acknowledged arrived once and in order; the round robin passes nobody over; abandoned sessions end, ports settle; open VK streams lose nothing, one acquisition at a time; slots are accounted, no wake-up is lost and a slot is reclaimed |
| `server` | ten parts, see `MCServer.cfg` | no replay within the window, rates kept, a closed prewarmed pool leaves nothing open; a handshake passes once, tracker and rows agree with the handlers; leases, counters and bills of streams exact; peaks, users and sessions survive; floods are dropped, handshakes are let through while somebody waits and everyone is once callers are quiet, the last settings win, Close returns, handlers end unless their client holds a Read or Write no Close wakes |
| `quota` | 2 connections, cap 2 or none, failing commits | no byte lost or counted twice, users without cap never cut off, those over it cut off |
| `bond_takeover` | 3 claimants, 2 runs of one device, socket errors, cancelled contexts, Shutdown | one WireGuard socket per device, slots and counts of workers right, every identity of a finished claim ended, no live bond unlisted |
| `wgserver` | 2 claimants; window 4 and frames 1 to 7 each way; one flow; 2 connections of 2 devices with 2 addresses, one session of a panel user, failing writes of the file and one restart; one proxied connection | empty bonds are collected, workers of a closed bond leave, Shutdown closes all sockets; both buffers implement `OrderedLane`, the server's loses nothing it accepted and holds nothing for ever; flows accounted, devices keep address and key unless their file was lost, the server ends unless a read of the device hangs (below) |
| `runner` | 2 workers and a forgetful server; one group; 3 fetches for 2 permits; 2 workers and 2 frames per lane | one owner of the password, one session per worker, answers used as often as allowed; every sequence number on the wire, queued or gone with a session, drops only when full; a lost Bond comes back unless its owner's session, or every session, stays up, a pause stops the workers, every attempt ends |
| `turn_creds_disabled` | one reload | **violation**: see below |
| `bundle_oneshot` | one message, two starts | **violation**: see below |

Bounds. Two dialers and two transports let a dial, a full pool, a resize and a
drain overlap in every order; the theorems below cover larger instances. The third
claimant of `bond_takeover` is needed for a takeover of a run that is itself being joined.
In that run the server stops only while some connection has not come yet
(`MCTakeoverNext`); without this bound the instance has 18.7 million states, and TLC finds no
violation in them either. A lane of 7 frames passes a window of 4 with a whole window to
spare. `MaxErrs = 4` is the first count with the constant backoff. `IDMaxTime = 4` is the
first clock value with which an uncapped bucket would exceed its burst. Three servers with
room for two make the list of the handshake limiter evict and reorder. RTTs 9 and 11 lie on
both sides of the recovery and of the alarm threshold. The 16 rows of `MCRouting` have
patterns of every kind (full, domain, keyword, regexp, geosite), overlap in their names, differ
in one condition each, lie in the folder or outside, do not compile, or cannot be turned into
a classifier; three at a time give every pair in both orders next to a
third. The registry's instance has one stream, because its theorem covers any number. Two
operations of one FragPoC session are an UP or CLOSE next to an OPEN that was given up.
Two frames and the end fill a channel of 1 and pass a ring of 2, with one response lost. Three
inodes let a file be written, renamed and written again. Two generations of the TUN are
an old one whose stop timed out and its successor. One crash, one restart, one failed response
or one SIGHUP per behaviour is enough to fall between any two steps. In `wgserver` connections
either ask for their device or are proxied (a proxy touches no device), and where devices are
asked for the process ends only in behaviours without a panel user, whose session no file
keeps. Of the three fetches in `runner` one goes every way, one is in process only, and one
uses the helper as long as nobody has answered. Deadlock is not
checked where a system may come to rest (all dialers served, the clock at its bound, the
server closed).

Fairness is stated beside each specification, or in the `MC` module for its parts. Weak
fairness: goroutines that can run do run, dials and fetches end by their timeouts, tickers
tick, and time passes. In particular:

- `ConnPool`: dials, tunnels that are not idle, topUp, drain and teardown; the reaper gets
  `p.mu` (strong: Go's mutex is starvation-free). No application is obliged to dial or to
  close a stream.
- `OutboundRegistry`: the retire loop, the close of a dialer, and the streams but for the end of
  one that is open, whose client may be silent for ever. `Balancer`: a dial goes on, a cooldown ends.
- `GeoData`: publishers and the reconcile loop run; nothing is owed by the network.
- `FragServer`: the server serves an operation that arrived, handlers whose pipe is closed
  end, an unused session grows old, the reaper and the manager's loop tick. Nothing is
  owed by the client.
- `TunDialer`: the reaper ticks, closed flows are unregistered, time passes; nothing is
  owed by the dials or the owners of flows.
- `Gates`, `TurnCreds`: dialers that wait go on and time passes, but nobody has to stop
  calling; the loop and Reload run, and a fetch
  tried again and again does not fail every time (strong).
- `ServerConn`: handlers, KillUser and Close run, but a handshake without a deadline may
  stall for ever (`Stalled`). `StreamRelay`: the handler, its goroutines and the watchdog run;
  nothing is assumed of the two ends, neither that they send nor that they take what
  is written.
- `Quota`: a transaction that is retried for ever succeeds in the end (strong).
- `Bond`, `WgBridge`, `WgDevices`: goroutines run and deadlines pass. Lanes: the writer's ticker is served again
  and again between frames (strong: `select` picks among ready cases at random).
- `ConfigBroker`: sessions do not fail every time before the server has answered, or before
  they have waited long enough (strong); one that is up is not obliged to end.
  `WorkerGroup`: groups run and attempts end; a session ends only when its batch is cancelled.
  `CredFetch`: the helper ends within two minutes (`cmd/tamizdat-tun-openwrt/main.go:300`),
  requests by the client's 20 s, and a channel serves its senders in turn (strong).

The assumptions about fetches, transactions and sessions that are tried again concern the
environment; the others are Go's scheduler, timers and locks.

## Proofs

All are for arbitrary constants under the named assumptions of the modules (finite sets
of goroutines, positive windows and limits, model values that are no members of the sets
they are told from). None of the invariants below is inductive as it stands; each proof
names its strengthening, and has one lemma or step per action.

- **`ConnPoolProofs`**: TypeCorrect, PoolIsBounded, PoolIsOwned, CreatingCounts,
  RemovalIsSafe. `BaseInv` adds to the types that a goroutine holds a transport exactly at
  the places at which it should (`HoldInv`); `OwnInv` that transports and their fresh holders
  are disjoint, so that a dial that returns late owns its connection alone; `CapInv` that the
  value about to be swapped in is below the cap while the lock is held. `PoolInv` combines
  them. `StreamCountExactWithoutRefresh` proves that without the refresh loop the stream
  counter is exact: the loop is the only source of the leak.
- **`RoutingProofs`**, on where a stream goes.
  - RegistryIsSafe, PublishedIsOpen, ClosedIsForGood. `PlaceInv`
    says what a stream holds at each place, `GenInv` orders generations (published, retiring,
    closed); a client can be closed only when its dialer is retired and without lease, and the
    stream's lease excludes that.
  - TunIsSafe (`TunSafe`), for any number of generations and configurations. `TunOwner` is
    the heart of NoOverlap: at most the generation that `m.cancel` belongs to is alive, and none
    once its answer was taken, so a stop that timed out still owns the host. `TunGenInv` says
    what a supervisor knows where it stands (only a fail-closed one is armed, closing and
    finishing follow a stop or an error), `TunDNS` that dnsmasq points at ChinaDNS only while
    its own servers are saved.
  - CacheIsFresh (`CacheFresh`), for any number of chunks, downloads and publishers:
    every fingerprint held anywhere was taken now or earlier (`PrintsTaken`), the target's
    inode only gets newer (`TmpNewer`), and while it is the target its content only grows;
    so a fingerprint that agrees with the files now was never taken of other contents.
- **`ReorderProofs`**: windows, counters and timing of both buffers, NeverLost, and the
  refinement of `OrderedLane` by each. `LaneInv` relates held, received and delivered frames
  to the next number expected. The scan of drain is a lemma of its own, about any ring.
- **`UserProofs`**, on what a user's connections may do.
  - AccountingIsSafe (`QuotaSafe`): `BatchInTx` ties a flusher's batch to its place;
    `Unbudgeted` says that no budget but the sentinel is on its way to a user without a cap.
  - ConnIsSafe (`ConnSafe`), for any number of connections and handshakes: `KeysMarked` says
    that a key outside the window of the replay guard was not used in it, and that a handler
    that comes to the check has a key. Look-up and marking are one step of checkKey.
  - RelayIsExact (`HeldExactly`), for any number of streams of each front and protocol:
    `RelayOrder` says that before the dial has succeeded nothing runs, is released or billed,
    and that after a TCP relay its goroutines have ended and everything is billed; so the
    early release at the target's end and the deferred one are told apart by `released`, and
    the two counters are cardinalities (`RelaysCounted`, `StreamsServed`).
- **`BondProofs`**: BondIsSafe (`BondSafe`), for any connections, runs, devices, tokens
  and slots, every fault and a shutdown at any moment. `ClaimInv`: one
  connection holds the claim of a device, and while the server runs it is in the map of
  claims. `SocketInv`: a socket that is open belongs to a bond being made, to a listed one, or to one that
  the claimant of its device waits for, and nobody past that wait shares the device with
  it. `DoneInv`: where an identity's end is still owed. With them OneSocketPerDevice,
  IdentityEnded and LiveBondListed are inductive; WorkerKeepsSlot is proved apart, from the
  types and the fact that only addWorker and removeWorker touch the slots, and joins them in
  the theorem.
- **`CarrierProofs`**, on the carriers of the client.
  - AdmissionIsSafe (`AdmissionSafe`), for any number of flows and targets and any caps.
    `Linked` says what a dial's place, its outcome, its connection and its slot tell of each
    other; with it the three counters are cardinalities (`Holders`, `Openers`, `Inside`)
    that every step moves by at most one, and a waiter without a timer is always at a
    gate that is in the table and full.
  - DownIsSafe (`DownSafe`), for any number of polls, any sizes of ring, channels and window,
    and any losses. `InFlightCounted` ties the client's count to the polls on their way, so
    that a poll that starts leaves room for every one before it; `EOFKnown` says that
    the end the reader knows is the end the producer read.
- **`RunnerProofs`**: RunnerIsSafe (`RunnerSafe`), the three parts of the runner at once, for
  any number of workers, groups, fetches and answers. `ClaimPlaced`: a worker settles only a
  claim it has, and has none before its session nor once it is settled. `GroupInv`: of
  the two batches of a group the one that is not current is done. `FetchInv`: an answer
  nobody has used or cached yet is in one place (`OnTheWay`: the channel, a file or one
  fetch), and its uses, those under way and those the cache still allows stay within the
  promise (`Spending`).
- **`Counting`**: cardinalities of sets that gain or lose one element, least elements and
  remainders.

CreatingCounts, RemovalIsSafe, PublishedIsOpen, ClosedIsForGood, the windows, counters and
timing of the reorder buffers and StreamCountExactWithoutRefresh are proved and are in
no run; the other theorems state what a run checks as well.

Only model-checked:

- all liveness: the prover has neither fairness nor ENABLED;
- `FailsOnlyIfDown` (`Balancer`): the order of the members is a sorted sequence, whose existence
  takes an induction over the set; `FragSched`, whose search is a recursive operator;
- `KernelAgrees` (`RouteRules`): a comparison of two evaluators over finite row sets rather than
  an invariant;
- `FragSafe`, which speaks of `FragSched` too;
- `GatesHold` and `DispatchSafe`: the limiters and the dispatcher filter sequences with a
  predicate, a parameter the provers do not instantiate;
- `RecordsKept`, `VkSafe` and `WgServerSafe` have no proof yet; nothing in `SchemaMigration`, `StreamPeaks`, `VkClient` or
  `WgDevices` stands in the way of one.

## Disagreements between the code and its documentation

Three are runs:

- `pool_refresh_leak`: `bundleRefreshLoop` (client.go:301) never releases the slot that
  getTransport reserved, so a transport's counter grows with every refresh, it never looks
  idle, and a drained one is never collected.
- `turn_creds_disabled`: a fetch in flight when Reload disables the manager stores its
  credentials afterwards (manager.go:270), although "cached credentials are cleared".
- `bundle_oneshot`: a body with a one-shot message has no ETag so that clients do not cache it,
  but the client keeps it on disk (client.go:618), and the poll after it, with the ETag of the
  body before, is answered 304; the next start applies the one-shot body again.

Others were met while modelling. They are allowed by the models, and no property
above contradicts them.

Client and transports:

- `connpool.go:223`: `creating` is decremented before the transport is appended, so
  two connections may be open with a "hard cap" of one until the late one is closed
  (PoolBounded holds: it never enters the pool).
- `h2transport.go:414`: the stream that read zero closes a draining transport, though
  another stream may have started since.
- `fragpoc/server.go:439`: the replay ring has 32 frames, and the producer may overrun it while
  a lost frame is awaited; `fragpoc_test.go:410-413` asks for its return "within a bounded
  number of DOWN responses". `RequestPorts` opens what a client asks for, whatever the pool and
  MaxPorts say; Close of the server stops the reaper, so sessions left then stay.
- `fragpoc/client.go:858-884`: a Write that fails may have its chunk on the way; the chunk
  arrives late, behind those of later Writes, or never, and the bytes are sent again if the
  caller repeats the Write. AckedArrived is about the chunks that were counted.
- `vkturn/mux.go:264-275`: push chooses between readCh and closed while Close (334-342) or
  remoteClose closes both; the choice may fall on the send, which panics. The model has the
  panic, and nothing moves after it.
- `handshake_limiter.go:62`: Wait keeps no queue; a waiter may be overtaken for ever while
  others keep calling.
- `dialer_native.go:672`: the flow to evict is closed on an idle time measured before the lock
  was dropped; it may have become busy.

Server:

- `server.go:2303-2305`: "Closing both conns makes that Read() return", but Close of
  serverStreamConn (2644) only sets a flag, so a relay whose HTTP/2 client is silent stays
  parked. Nor is a Write woken whose client takes nothing, over HTTP/2 (there also
  `udp_server.go:251-254`) or over VK, whose Close waits for the same writeMu. GoneEnds leaves
  out these two while the client stays.
- `udp_server.go:105-108`: the bill of a UDP stream is read while the other goroutine
  may still count; what it counts afterwards is never billed (HeldExactly asks for at most).
- `accounting.go:209-210`: a budget of exactly -1 reads as "unlimited" until the next
  publication, and a delta flushed between count and charge is charged twice.
- `server.go:1067`: the flush of the cancelled goroutine may take the counters from the one of
  Close and fail on the closed database.
- `server.go:1321`, `1667`: a connection that registers after Close's loop is closed by its
  peer or a timeout only; the handshake has no deadline of its own.
- `user_h2_stream_tracker.go`: peaks that are in the channel when the persister returns are not
  written.
- `userdb/registry.go:187`: a reload can put an older peak back into the registry's copy.
- Bundle: a message posted between the building of a body and the clearing of the flags is
  cleared unread; a crash between saving body and ETag leaves them of different polls.

Routing:

- Two concurrent publishRouting may store the older snapshot last; reconcileLocalTUN takes
  its snapshot before the manager's lock. ReconcileFollows is about what is stored.
- RefreshNow and the loop share one temporary file; a download may be renamed while the
  other writes to it. CacheFresh holds: the fingerprint changes.
- `policy.go`: some rules mean something else to the kernel than to the dispatcher. `full:` and
  bare names become suffixes (349-350); regular expressions and keywords without a dot in a
  geosite are skipped (323-332); a rule on addresses also takes packets whose name resolves
  there, and names that share an address share a verdict; a rule with sources of both families
  loses lines in nft. A name that several rules list is fed to the sets of the first of
  them only. KernelAgrees leaves these packets out (`AloneAgrees`, `Shared`). User names match
  regardless of case in one evaluator and exactly in the other.
- `balancer.go:275`: a dial its caller cancelled counts as a failure of the member it was
  waiting for and puts it into cooldown; PrimaryPreferred excepts callers that keep doing so.

wgturn:

- `bond.go:511`: Shutdown between the last check of a claim and its commit ends the identity
  twice; IdentityEnded asks for at least once.
- `bond.go:675`: a worker that joins between the timer's check and removeBond is attached to a
  bond that closes; it leaves (WorkersLeave).
- `bond.go:446`: another run claims while a bond of the device is being removed, though a
  comment says it waits; the sockets still do not overlap.
- `bond.go:257`: the clock of a gap is inherited by the gap behind it, which is then flushed
  before `hold` has passed.
- `conn.go:85`: "callers must later invoke EndUserSession" (`pkg/tamizdat/server.go:2000-2002`);
  the GETCONF path never does.
- `bond.go:647`, `784-789`, `799-808`, `824-829`: batches released under `b.mu` are handed to
  wgWrite after it, so two may change places, and a full channel drops. The lane's properties
  are about the release.
- `server.go:429-431`: devices.json is truncated and written in place, and an error is only
  logged; after a crash inside the write, or a write that failed, a start does not know
  the devices. ConfigKept excepts those.
- `usertun.go:132`, `217-219`: Close closes the channel of packets and sets the field to nil
  unsynchronised with Read. A Read that loads nil waits for ever; wgDev.Close waits for it, and
  Shutdown for that. ClosedBridgeDrains excepts this case.
- `dispatcher.go`: what is queued for a worker goes down with its session, with sequence
  numbers the other side then waits for in vain until its hold passes.
- `group.go:399-401`: "The server can restart while this runner and its TURN sessions remain
  alive. Re-elect exactly one password-bearing owner". A session that is up passes over read
  timeouts (`session.go:583-585`) and its claim is settled only when it returns, so while
  the owner's stays up nobody else is elected.
- `group.go:234-246`: a batch that does not stop within workerStopTimeout ends its group for
  good. A rotation needs new credentials first (270-306): while they cannot be had the old
  batch stays.
- `wgturnclient/group.go:186-187`: the comment says the old batch is killed after the new one
  has started; the code stops it first.
- `file_solver.go:79-81` calls answers single-use; `creds.go:855` keeps them for four more
  fetches. Invalidating the cached answer may drop a newer one, and a late answer of the
  WebView goes to whoever asks next.

## Not modelled

Cryptography, parsing, TLS fingerprints and byte layouts are data: an outcome of theirs is a
choice of the environment. The panel's pages, scripts and main programs are wiring or outside
the Go program; what they write that the server reads is in `RouteRules`, `SchemaMigration` and
`BundleDelivery`. Requests to VK and captcha solving succeed or fail. KCP, TURN, gVisor,
wireguard-go, SQLite, nft and dnsmasq are external and modelled from how they are used.
`PROJECT.json` lists each part with its reason.

Missing from parts that are otherwise modelled: rolling quota windows and more than one user in
`Quota`; the older GETCONF exchange of the wgturn client (`session.go:485-505`) in
`ConfigBroker`; sniffing and the byte formats
of addresses in `RouteRules`; DialUDP in `TunDialer`; the bodies of blocked users in
`BundleDelivery`; two groups of different rooms in `WorkerGroup`.

Compositions that would say more: `ServerConn` with `Quota` (KillUser closing what Add charges)
and with the replay guard of `Gates`, refining the set by map and heap; `FragDown` refining
`OrderedLane`; `Bond` with `ServerReorder`; `WgDispatch` with `ClientReorder`.
