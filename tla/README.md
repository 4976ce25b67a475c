# A TLA+ verification of the VNT client

VNT is a peer-to-peer VPN. This repository holds a Flutter application (`lib/`,
`ios/`, `android/`), a bridge (`rust/src`), and the library that does the work,
`rust/vnt-fork/vnt`. The library connects to a server over UDP, TCP or web
sockets, registers, gets a virtual address, opens a tun device, punches holes to
other clients and relays packets. Its core logic is concurrent: receiving
threads, a scheduler thread, a tun thread, tokio runtimes and the caller's
threads share a handful of structures behind locks, atomics and bounded
channels. That is what this project models. Paths below are relative to
`src/rust/vnt-fork/vnt/src`.

## 1. Inventory

| Part | State | Operations | Interaction | Hard behaviour | Module |
|---|---|---|---|---|---|
| Route table (`channel/context.rs`, `channel/idle.rs`) | map from virtual ip to a list of routes with metric, latency, time of the last packet | `add_route`, `add_route_if_absent`, `update_read_time`, `remove_route`, `next_idle` | written by every receiving thread, reaped by the scheduler | decisions made under a read lock and executed under a write lock | `RouteTable` |
| Stop manager (`util/notify.rs`), construction (`core/conn.rs`) | listeners and the stopped flag under a mutex, an atomic worker count, parked threads, the stop callback | `add_listener`, `stop`, `wait`, `wait_timeout`, `Worker::stop_all`, `stop_self`, `release0` | every thread of an instance | registration against stop, lost wake-ups, premature zero, listeners called with the lock held, a constructor that fails half way | `StopManager`, `Lifecycle` |
| Scheduler (`util/scheduler.rs`) | a bounded channel, a timer heap, the state | `timeout`, `shutdown_now`, `run` | all periodic tasks; shut down by the stop manager | tasks submit tasks on the thread that drains the channel | `Scheduler` |
| Tun device (`tun_tap_device/tun_create_helper.rs`, `handle/tun_tap`) | the adapter, the stop handle, the device thread | `start`, `stop`, `DeviceStop` | registrations replace the device; the stop manager ends it | polling for the end of a thread that may fail or end by itself | `TunDevice` |
| UDP channel (`channel/udp_channel.rs`, `channel/notify.rs`) | sockets of the loop and of the context, a channel of socket sets, a flag word, a waker | two poll loops, `switch`, `stop` | NAT detection switches the sockets, `send_by_key` uses them | edge-triggered readiness, tokens, one flag word for two messages | `UdpPoll` |
| Session (`handle/recv_data/server.rs`, `handle/handshaker.rs`, `handle/maintain/{idle,heartbeat}.rs`) | status and addresses in one atomic cell, device list and epoch, the server's key | handshake, key upload, registration, Pong, list, Disconnect, `idle_gateway`, `idle_route` | receiving thread and scheduler thread; the server | lost and reordered packets, restarts of the server, two two-step handlers interleaved | `Session` |
| TCP and web socket channels (`channel/{tcp,ws}_channel.rs`) | `packet_map`: one sender for each address; pending connects | connect, accept, handshake, read, write | `send_by_key`; reconnects by `check_gateway_channel` | a connection that replaces another one while the other's tasks end | `StreamChannel` |
| Packets between clients (`handle/recv_data/{mod,client,turn}.rs`) | the route tables of all clients | relay, Ping, Pong, punch packets | route table, server, other clients | ttl arithmetic, routes learned from relayed or late packets | `Relay` |
| Hole punching (`handle/maintain/punch.rs`, `channel/punch.rs`) | records of peers, back-off counters, four threads with unbuffered channels | `punch_request`, answers, `Punch::punch` | both clients of a pair, relay, NAT detection | both sides on their own timers, a busy thread drops requests | `HolePunch`, `NatRules` |
| NAT detection (`nat/`, `handle/maintain/{re_nat_type,addr_request}.rs`) | `NatInfo` | STUN rounds, `update_addr`, `addr_request` | switches the UDP sockets | stale addresses, port arithmetic | `NatRules`, `HolePunch`, `UdpPoll` |
| Tun handler, broadcast, external routes, api sender (`handle/tun_tap/tun_handler.rs`, `channel/sender.rs`, `external_route/`) | tables | where a packet goes | tun thread, callers of the api | decisions written down twice, peers served twice or not at all | `Forward` |
| IP proxies (`ip_proxy/`), mapped ports (`port_mapping/`) | NAT maps, one socket per source | turn a packet to a local socket and its answer back | receiving threads, tokio tasks | tasks that end while the loop opens the next socket | `IpProxy`, `UdpNat` |
| Protocol packets, ciphers, compression (`protocol/`, `cipher/`, `compression/`) | buffers | heads, bodies, encrypt, decrypt, compress | every packet | computed offsets, flags that must agree on both ends | `NetPackets`, `Secret` |
| Packet parsers (crate `packet`), tap end (crate `tun`) | buffers | getters, setters, checksums, arp answers | proxies, tun thread | offsets and lengths given by the packet | `Bytes`, `IpPackets` |
| Names (`util/dns_query.rs`, `domain_request0`) | attempts per address, the server's address | queries with retries, choice among addresses | scheduler, `VntInner::new` | partial failures, a write after seconds of waiting | `Names` |
| Meters and limiter (`util/limit`, `util/counter`) | counters | `try_acquire`, add | senders | rounding | `Limits` |
| Bridge, application, shells, command line clients, vn-link | handles of the library | start, stop, callbacks | | glue | not modelled |

`PROJECT.json` lists every part with its status, and each hazard at its line with
the properties that would catch it.

What makes the parts correct: the route table never holds a route twice, is
bounded and prefers what it promises to prefer; stopping ends every thread and
tells its waiters once and only when everything is gone; no periodic task is
ever lost; one device is live and has the current address; every datagram of
every socket is read; the client always gets back to a session and to the
current device list; a lost stream connection is made again; the hops a route
claims are the hops packets take; two clients that can reach each other
directly come to do so; a packet reaches each of its destinations once, comes
out as it went in, and not at all when it was tampered with.

## 2. Plan

Done, in this order: the shared structures (`RouteTable`, `StopManager`,
`Scheduler`, `TunDevice`, `UdpPoll`), the session with the server (`Session`),
the channels and clients above them (`StreamChannel`, `Relay`, `HolePunch`), the
computing parts (`Bytes` to `UdpNat`), the abstract life cycle (`Lifecycle`) with
the refinement by `StopManager`, and the proofs of section 6.

Left, the most useful first:

1. A *connection status* (offline, connecting, online) as an abstract
   specification that `Session` implements.
2. A change of the server's address (`Names`) interleaved with a running session.
3. The tcp proxy's two copying directions and their half-closed ends.
4. Theorems about the ciphers and about the views of packets (`Secret`,
   `IpPackets`, `IpProxy`).

## 3. Modules

One action is one critical section, one atomic operation, or one step between
two points where another thread can act. Bounds are constants with upper-case
names. Operators whose comment begins with "A ... that ..." right before the
operator they vary are plausible bugs, used to show that each property can fail.

### RouteTable, RouteTableProofs, MCRouteTable
`table[id]` is the `Vec` of routes of an id, with key, metric, latency and ticks
since the last packet. `AddRoute` is `add_route` (one write-locked section);
`AddIfAbsentCheck` and `AddIfAbsentWrite` are the two sections of
`add_route_if_absent`, whose decision is kept in `adding[r]` in between; `UpdateReadTime`,
`NextIdle` and `RemoveRoute` are the calls of the same names, `reaping` being what
`next_idle` returned. `WriteRoute` is the body of the write-locked part: scan,
update or push, sort by latency, truncation with the first direct route saved.
Sorting is a stable order on positions, so that it can be proved about. `Tick`
lets time pass up to `READ_IDLE`.

### StopManager, StopManagerProofs, MCStopManager
Threads are workers that end by `stop_all` (Active), by dropping their worker
when told (Passive), tun devices that share one name and also end by `stop_self`
(Replaceable), threads in `stop` and threads in `wait` or `wait_timeout`.
`stop` holds the lock from `StopBegin` to `StopEnd` and calls one listener per step;
`release0` is `Release`, `Sub`, `Unpark` and the steps of `stop_call`, since the
count, the parked threads and the callback are behind three different locks.
Park tokens and spurious returns of `park` are modelled. `ConstructionFails` is a
`?` in the middle of `VntInner::new`: a worker that does not come, and those that
were to follow it neither. `SpawnFails` is a worker that was registered and whose
thread or runtime cannot be started: its `Worker` is dropped with the closure
(`aborted`), which goes through `release0` like any other and, if it was the only
one, down to the callback.

`Lifecycle` is what the users of the service see of this: who works, whether it
was stopped, who was told that it is over, whether the end was announced.
`StopManager` instantiates it (`Service == INSTANCE Lifecycle WITH` the counted
workers as `alive`, the returned waiters as `told`, the calls of the callback as
`announced`) and `ImplementsService` says that it implements it.

### Scheduler, SchedulerProofs, MCScheduler
`chan` is the bounded channel, `heap` the tasks that are not due, `due` those that
are. `timeout` is `TimeoutCheck` (the state) and `TrySend`; `shutdown_now` is
`ShutdownStore` and the blocking `ShutdownSend`; `run` is the remaining actions.
`MCScheduler` has the task graph of the client: one periodic task, one that runs
once and submits two periodic ones.

### TunDevice, SessionProofs, MCTunDevice
A receiver handles a `RegistrationResponse` from loading `current_device` to
starting the new device (`server.rs` 298-448); the thread of the device may not come
up at all, or fail to make its poll (`NewPoll`); else it registers with the
stop manager, sets its stop function, reads, ends on an error, on a wake-up or
when told. `Outcome` is what becomes of a start; the devices whose reader never
ran (`NeverRan`) leave a stop handle nobody answers. `TunDeviceHelper::stop` keeps the mutex while it polls, as the guard of
an `if let` lives to its end.

### UdpPoll, ChannelProofs, MCUdpPoll
Both poll loops, `loop` saying which one a behaviour is about. Sets of sockets are numbers;
`ready` and `woke` are what the next `poll` reports; `batch` is the events being
handled. `SwitchBegin` ... `SwitchCommit` is `ContextInner::switch` with the write
lock held; `StopStore` and `StopWake` are the stop listener.

### Session, SessionProofs, MCSession
The receiving thread (`rx`) takes a packet with the status loaded at that moment
and handles it; a registration takes three steps: the route, the atomic cell, the
list. The scheduler thread runs `idle_gateway`, `heartbeat` and `idle_route`, the
last in three steps. `secret` says whether the exchange is encrypted and is
chosen in `Init`. `recent` holds the two rate limiters. The server is external
and gives the answers the client is written for: it may crash, forget key and
client, and come back; it keeps its RSA key pair. A request is answered when it
is sent and the answer travels in `net`, where it can be lost, overtaken or
duplicated; a callback that refuses a handshake or registration has the effect
of a loss. A Pong that crosses the wrap of the 16-bit clock is dropped.

### StreamChannel, ChannelProofs, MCStreamChannel
A connection is dialled (tcp or web socket) or accepted; it writes its first
packet, puts its sender into `packet_map`, and goes on as a reader and a writer
that end independently: the writer when its sender was dropped or a write fails,
the reader on an error, whereupon it removes the sender of its address, whose
ever it is. Above it runs the gateway task: it sends a handshake while the client
is offline and asks for a new connection when that fails. The other end and the
TCP stack are external and may fail `MAX_TROUBLE` times.

### Relay, RelayProofs, MCRelay
Every client has a route table whose lists change by the operators of
`RouteTable`. Packets carry the ttl they started with and the ttl left; `Handle`
is `recv_data` with what follows: relaying, answering a Ping, learning a route
from it, from a Pong or from a punch packet. `hops` is a history variable, the
truth the ttl arithmetic is compared with. The server passes packets on as a client does.

### HolePunch, HolePunchProofs, MCHolePunch
Rounds of `punch_request`, the messages between the two clients of a pair, the four
punch threads, each waiting in `recv` or at its one job (the channels have no
buffer, so `try_send` to a busy thread fails), the records with their counters,
and what a client knows of its own address: `update_addr` and `re_test` add the
public addresses they learn and take none away but by a new round. A job counts the
attempt first (`count_punch`), then punches. Whether packets of both sides meet
is the network's choice, except that it does not refuse for ever when not both
networks are symmetric.

### The computing parts, MCAlgorithms, AlgorithmsProofs
These modules have no variables; they are operators, and properties that compare
them with a reference definition or with the operator of the other end.

* `Bytes`, `IpPackets`: packets as views. The getters are bit fields of the buffer,
  the setters the bytes their code writes; setters that pack a field into a byte
  with others are the mask expressions of the code (`set_flags`, `set_qrv`, `set_type`),
  so that what they leave alone is computed and not assumed. The internet checksum; records of
  IGMPv3 reports and their `source_address`; the tap end
  that wraps packets into frames and answers arp. `Bytes` also has what is left of
  a list by `retain` or `filter` (`Kept`), as a recursive function.
* `IpProxy`: `ip_turn` and the proxies: what a packet of a peer is turned into
  for a local socket, and its answer back.
* `Forward`: where a packet of the device or of the api goes.
* `NetPackets`: the head, its ttl byte shared by two numbers and its flags by three
  setters, each by its masks; the broadcast packet.
* `Secret`: every cipher as control round an ideal primitive. A buffer is a
  sequence of pieces with a length and a meaning; a slice that cuts a piece is
  noise. Lengths, reserved space, flags, finger and tag are the code's, and so is
  `check_finger`, which a server without the key applies. `Vouched` is what finger or
  tag of a cipher really cover.
* `NatRules`: which addresses are public, what the STUN rounds decide from the two
  probes of each server, of which the code uses the first answer, the ports
  guessed and swept for a symmetric peer, the targets of a punch.
* `Limits`: token bucket and traffic meters over sequences of calls.
* `Names`: `dns_query_all`, `address_choose` and `domain_request0`, the latter with the device
  info it loaded and the one it finds when it writes.
* `UdpNat`: the loop and the tasks of the udp proxy and of a mapped udp port as a
  machine whose states are records; each step is the set of its outcomes.

`MCAlgorithms` has one variable, the input: `Pick...` actions choose one, the
invariants check it, `Return` puts it back. The machine of `UdpNat` is stepped
inside the input, so that its interleavings are explored like any other.

## 4. Runs

| Run | Bounds | Shows |
|---|---|---|
| `route_hops` | 3 keys, 3 metrics, 2 latencies, 2 channels, 2 receivers | without preference for latency: no key twice, bounded lists, no empty entry (`ListsSound`); paths never get longer (`NeverLonger`) |
| `route_latency` | 4 keys, 1 channel, latency first | the same of the lists when all truncations happen, and the last direct route survives them (`DirectRouteKept`) |
| `stop_service` | 1 active, 1 passive, 2 tun devices, a stopper, both kinds of waiters; the construction may fail | count exact, waiters and callback only when over and once (`EndIsRight`), nobody deaf (`NoDeafWorker`); a stop completes and waiters return (`StopCompletes`, `WaitersReturn`); the stop manager implements `Lifecycle` (`ImplementsService`) |
| `scheduler_tight` | 4 tasks, at most 3 at a time, capacity 3 | no task is lost and the channel is never full when a task is submitted (`TasksKept`); at most one task begins after the shutdown (`OneTaskAfterShutdown`), which completes although its send blocks on a full channel (`ShutdownCompletes`); every task runs (`TasksRun`) |
| `tun_safe` | 1 receiver, 3 devices, 4 registrations, faults | no assertion fails and one device is live (`OneAtATime`), device and address agree (`DeviceHasCurrentIp`); while the service runs a replacement always completes (`ReplacementCompletesInService`) |
| `tun_race` | 2 receivers | *violated* (`NoAssertionFails`): two registrations at once break the assertion "stop before start" |
| `udp_loops` | both loops; 2 sockets, 2 datagrams, 2 switching threads, 2 sets, a channel of one | reader and sender agree on the sockets (`LoopAndContextAgree`); no switch (`SwitchesApplied`), no stop (`StopEndsLoop`) and no datagram of a socket with its own token (`OwnTokenRead`) is lost |
| `session_faults` | with and without key exchange, 2 lists, 4 epochs, one crash and restart, one change, one network fault | a client at the server's epoch has the server's list, however lists are late, duplicated or overtaken; the fields keep their types and the replies in flight their bound (`SessionSound`); the client always gets back to a session, also when the server has lost the key (`SessionReestablished`), and ends up with the server's device list (`ListConverges`) |
| `stream_gateway` | 2 connections, 2 addresses, channels of one, one failure | an entry of `packet_map` has a reader and the handshake is the first packet (`MapIsSound`), replaced connections end (`DetachedEnds`), the gateway is reached again (`Reconnects`) |
| `relay_row` | 3 clients in a row and the server, ttl 2 and 3, one packet at a time, one loss | the hops of a route are the hops taken and a direct route is direct (`RoutesAreTrue`), both ends find it (`DirectBothWays`) |
| `punch_pair` | 2 clients, every pair of NAT types, intervals 1, one event | an answered request was taken (`SidesAgree`), the pair connects (`PairConnects`), its counters start anew (`RecordForgotten`) |
| `algorithms` | see below | the computing parts: `PacketsReadBack`, `ProxiesTransparent`, `ReachedOnce`, `PacketsDelivered`, `ForgeriesRejected`, `PunchAimsRight`, `ServerFound`, `AmountsAddUp`, `UdpProxySound` |

A property that is a conjunction of named parts has one plausible bug for each
part, so that every part is known to be able to fail.

Inputs of `algorithms`: samples of every kind of packet with empty, odd and even
payloads and sums that carry; report records whose lengths fit, are short or run
over; setters on buffers with no, some and all bits set; all tables of up to three external routes out of five; all sets of peers
that are up, direct or WireGuard; every cipher with every payload length to 20
and the lengths round the boundaries of tags, blocks and buffers; addresses round
every boundary of the reserved ranges; ports round 0, 65535 and the guessed
range; five calls of the limiter, four of the meters; answers of name servers that time out, fail, are empty or
come late; for the udp machines 2 sources, 2 hosts, 3 sockets and a queue of one.

Why the bounds are enough: the races are between two or three threads and need
one instance of each kind; the list bounds of the route table are reached with
more keys than `channel_num` allows; the scheduler's channel has exactly as many
places as there are tasks at a time; one reply in flight when a task sends, and
one fault, already make every pair of packet types meet in both orders; with two
connections one replaces the other; three clients in a row and a ttl of two have
the relayed, the direct and the expiring packet; three udp sockets are one per
source and one opened while another ends. Epochs are counted modulo a number
larger than the changes of the run, since 65536 changes during the flight of one
packet are out of the question. `CHECK_DEADLOCK FALSE` is said for the models whose
threads end or whose inputs are bounded.

Fairness: each thread is weakly fair (the operating system schedules it), a
thread that waits for a lock gets it since holders let go, a woken thread leaves
its loop, time passes. In `Session` the periodic tasks are strongly fair, since
they share one thread that returns to them over and over, and a crashed server
comes back only where the run says so. In `StreamChannel` the gateway task, the
tasks of a connection and the other end are weakly fair, failures are not. In
`Relay` packets are handled, and the heartbeat of a client over a watched link is
strongly fair: it is periodic, and the bound on packets in flight, which the code
does not have, may disable it for a while. In `HolePunch` messages and threads
are weakly fair; `Ask`, which competes with the same bound, and `Connect`, a hole
that can open whenever both sides send, are strongly fair. Nothing forces calls
of the user, errors, switches or losses.

## 5. Findings and observed deviations

**With a run.** `tun_race`: service() calls stop() and start() of the tun helper as
two separately locked calls; two registrations over two TCP connections both see
no device, and the second start breaks the assertion that its comment demands.

**Properties that the models refute.** They are stated in the modules, each with a
comment that says why it fails, and are reproduced by adding them to the cfg
named:

* `ReplacementCompletes` (`TunDevice`, `MCTunDevice_safe.cfg`): a receiver hangs
  when the reader of the device to be replaced has never run. Its thread could not be
  started (`tun_tap_device/tun_create_helper.rs:128`), could not make its poll (`handle/tun_tap/unix.rs:41`)
  or was refused by a service that is stopping (`handle/tun_tap/unix.rs:50`); in all three
  cases the handle is set and nobody reports the end for which the next replacement
  polls, where the comment at `tun_create_helper.rs:114` makes sure of the stop.
  What holds is `ReplacementCompletesInService`, which names these cases.
* `DatagramsRead` (`UdpPoll`, `MCUdpPoll_loops.cfg`): datagrams of sub socket 0 are not
  read, because its token is that of the waker (`channel/udp_channel.rs:109`); in the main loop,
  whose tokens begin at 1, every datagram is read (`OwnTokenRead`).
* `DeadServerNoticed` (`Session`, `MCSession_faults.cfg` with `RESTARTS = FALSE` and
  `MAX_LOSSES = 0`): a late second registration that meets `idle_route`
  (`handle/maintain/idle.rs:105`) leaves the client Connected without a gateway
  route, so that a dead server goes unnoticed until it is back.

**Seen while reading, modelled as the code has it.** Where a property is concerned, it
names the exception:

* `address_choose` (`util/dns_query.rs:21`) counts an address as used only when it
  could be connected; when the others have had their turns, an address that
  never can be is the only one left and the choice fails for good in that thread.
* The udp proxy (`ip_proxy/udp_proxy.rs:128`) keeps the socket of a source
  connected to its first destination; a second one is noted but not served.
* The mapping seen from the second address of a STUN server is not used:
  `nat/stun.rs:102` inserts the first one again, which only matters when that was
  ipv6. So a NAT is taken for symmetric by the first probes alone: one that
  gives each destination of a single server its own port is taken for a cone
  (`StunFindsNat` speaks of the first probes).
* `set_flags` (`packet/src/ip/ipv4/packet.rs:82`) keeps the bits it should clear and clears
  the others; it is called on Android only. It writes its field alone where no other
  bit of the byte is set (`FlagsSuit`), which is what that call has.
* `set_type` of IGMPv1 puts 0x11 or 0x12 over the four bits of the type
  (`packet/src/igmp/igmp_v1.rs`); the type is read back for values below 16 only (`TypeSuits`).
* `source_address(index)` of IGMPv3 queries and records (`packet/src/igmp/igmp_v3.rs:282` and `:427`)
  has its guard the wrong way round: it answers `None` for every index that is there.
  The list of all sources is right (`RecordsTile`); nobody calls the other.
* The finger of `Chacha20` covers the data and not the random bytes that
  are part of the nonce (`cipher/chacha20/rs_chacha20.rs:44`). `protocol/body.rs:197` says of the
  finger that server and client both notice a modification; a receiver of `Chacha20` does not notice
  replaced random bytes and gets noise (`NonceReplaced`). And `Finger::check_finger`
  (`cipher/finger.rs:38`), with which one that lacks the key would check, hashes the random bytes too,
  and so rejects every honest packet of `Chacha20` and `Chacha20Poly1305` (`FingerVouches`). Everything
  else the finger is to cover is rejected when changed (`ForgedRejected`).
* On Android the answer of the icmp proxy is put behind a head whose first byte says
  24 bytes (`ip_proxy/icmp_proxy.rs:104`), where the line above says 20.
* When `create_device` fails (`handle/recv_data/server.rs:366`) the address is already in
  `current_device`, so a registration with the same address does not try again.
* An error of `recv_from` other than WouldBlock (`channel/udp_channel.rs:136`) is
  logged and the socket read again at once.
* A name server given as a bare ipv6 address gets ":53" appended
  (`core/mod.rs:105`), which does not parse.

## 6. Proofs

Every safety property of the runs about the shared structures, the session, the
channels and the clients is a theorem that holds for every value of the constants.
Each proof has an inductive invariant, proved of `Init` and of every action, from
which the properties follow. Five of the nine properties of the computing parts
are theorems too, each a consequence of theorems about *all* inputs, of which
those `MCAlgorithms` picks are samples.

| Property of a run | Theorem |
|---|---|
| `ListsSound`, `NeverLonger`, `DirectRouteKept` | `RouteTableProofs`: `ListsAreSound`, `PathsNeverLonger`, `DirectRoutesKept` |
| `EndIsRight`, `NoDeafWorker`, `ImplementsService` | `StopManagerProofs`: `EndsRight`, `NoneDeaf`, `Refinement` |
| `OneTaskAfterShutdown`, `TasksKept` | `SchedulerProofs`: `OneLateTask`, `NoneLost` |
| `OneAtATime`, `DeviceHasCurrentIp` | `SessionProofs`: `OneReader`, `CurrentIp` |
| `SessionSound` | `SessionProofs`: `EpochsTell` |
| `LoopAndContextAgree` | `ChannelProofs`: `ContextAgrees` |
| `MapIsSound` | `ChannelProofs`: `MapSound` |
| `RoutesAreTrue` | `RelayProofs`: `BeliefsAreTrue` |
| `SidesAgree` | `HolePunchProofs`: `BothSidesPunch` |
| `UdpProxySound` | `AlgorithmsProofs`: `UdpSound` |
| `AmountsAddUp` | `AlgorithmsProofs`: `AmountsSound`, from `RateLimited`, `TrafficCounted` |
| `ReachedOnce` | `AlgorithmsProofs`: `EachReachedOnce`, from `BroadcastArrives`, `UnicastArrives`, `NarrowestChosen`, `ServerBroadcastHolds` |
| `PunchAimsRight` | `AlgorithmsProofs`: `PunchAims`, from `Public4`, `Public6`, `StunRight`, `GuessesRight`, `SweepRight`, `PunchTargetsRight`, `ChannelsInTurn` |
| `ServerFound` | `AlgorithmsProofs`: `ServersFound`, from `TurnsTaken`, `NamesFound`, `QueryUndoesNothing` |

`SessionProofs` extends `Session` and `TunDevice`, `ChannelProofs` extends
`StreamChannel` and `UdpPoll`; for that the definitions every component has
carry a prefix in `TunDevice` (`TunInit`, `TunNext`, `TunSpec`, `TunTypeOK`) and in
`UdpPoll` (`PollInit`, `PollNext`, `PollSpec`, `PollTypeOK`).

**Assumptions.** The named `ASSUME`s of the modules, which say what the code's own
constants satisfy: finite sets of workers and tasks, disjoint kinds of threads, at
least one active worker, positive capacities and socket counts; virtual ips are
numbers other than 0 (0.0.0.0 is nobody's, and stands for "no peer"); no packet
starts with a larger ttl than the 4 bits of an answer hold (5 and 6 against 15);
every task of the scheduler is submitted by `VntInner::new` or by a task that it
submits (`core/conn.rs` 304-420); an address has at least five bits, which the
sampled network needs (the program's have 32). Some theorems have a hypothesis
besides:

* `NoneLost` assumes `ChannelFits`: any tasks that may be with the scheduler at the
  same time fit into its channel. The client has nine tasks, the channel 32
  places. With fewer places than tasks the property is false: `timeout` drops what
  it cannot send.
* `OneReader` and `CurrentIp` assume one receiver. That is how one connection to the
  server works; with two they are false, as `tun_race` shows. `TunTypes` is
  proved for any number.
* `EpochsTell` assumes `NoWrap`: the server's epoch, which counts the changes and the
  registrations, does not come round within the behaviour. After 65536 changes
  an old list could have a current epoch.
* `BroadcastArrives`: no external route covers the broadcast address.
  `UnicastArrives`: the gateways of external routes are hosts of the virtual
  network. `ServerBroadcastHolds`: at most 255 peers (the count is one byte; the
  list holds those `broadcast` served itself, at most nine) and a packet that is
  not empty.
* `TrafficCounted`: the history has room for at least one entry. `StunRight`: there was a
  round, and ports that were mapped are not 0.
* `PunchTargetsRight`: the node's own local address is not a public address of the
  peer's. If it were, only the port would tell one from the other.
* `TurnsTaken`: the answers list the same addresses, in whatever order. A new
  address has no uses and may be behind by any number.

**Arguments.**

* `RouteTableProofs`. The inductive invariant is the conjunction of `TypeOK`,
  `UniqueKeys`, `LengthBounded`, `NoEmptyEntry` and `OnlyDirectInP2pMode` (which has no
  run of its own) with the type of what the threads carry between their two
  locks. The work is in the lemmas about the list operations: ranks of a
  total order on positions are a bijection, so what sorting and filtering return
  is an arrangement of the elements kept, which preserves uniqueness, length and
  membership. `PathsNeverLonger` needs uniqueness: the scan of `add_route_` stops at
  the position of the key, and only because there is no second one has it then
  compared every route that matters. `DirectRoutesKept` needs the length bound:
  without preference for latency `truncate_` saves no direct route, but the lists
  are never so long that it cuts.
* `StopManagerProofs`. `TypeOK`, `WorkerNumExact`, `WaitersReturnWhenOver`,
  `CallbackOnceWhenOver`, together `EndIsRight`, and `NoDeafWorker`. None but the count is
  inductive.
  The argument: before anything stops the service no core worker has been told or
  has left (`CoreStays`), except the one whose thread could not be started; a tun device is
  there only after an active worker that was (`ActiveFirst`). So a count of zero means that the
  service was stopped or will never be built (`CoreCounted`, `LastOut`), and nobody registers then
  (`NoneLastOut`); nobody waits before the construction is over (`WaitAfterBuilt`),
  so a waiter that reads zero finds it over; after a stop nobody registers, so it
  stays over (`OverWhenEnded`). `NoDeafWorker` follows from `RegisteredOrTold` and
  `DrainedWhenFree`.
  `Refinement` proves `Spec => ImplementsService` with the same invariant: each
  step is a step of `Lifecycle` or leaves what is seen unchanged. `AddListener` that
  is accepted, or `SpawnFails`, is `Join`, `Sub` is `Part`, the first `StopBegin` is `Stop`, a waiter that
  reads zero is `Tell`, and a `StopCall` that finds the callback is `Announce`; the last two need
  `OverWhenEnded`, `CallsOnce` and that a count of zero read by a waiter means over.
* `SchedulerProofs`. A task that began after the shutdown was already past the test
  of the state, and the thread does not pass it again (`TestedOnce`); hence
  `OneTaskAfterShutdown`. For `TasksKept`: while the scheduler runs a task is in one
  place, once (`Separate`, `Single`), and a task that submits others is gone when
  they come (`Family`). So the entries of the channel and the task that is being
  sent are different tasks that may be present together, and by `ChannelFits` there
  is room.
* `SessionProofs`, the tun device. At each place of the receiver the adapter and the stop handle
  are either the same started device or none (`Holds`); the only device that is
  read is the one that would be stopped or is being stopped (`ReadersHeld`), since
  `is_stopped` is set by the device thread's own end; and the device's address is
  the one in `current_device` outside a change (`Addressed`).
* `ChannelProofs`, the udp loops. `ListFollowsContext` says nothing of a switch under way and is not
  inductive. `SwitchAgrees` adds where the switching thread is: before its send the
  context has the last set of the channel (or of the loop), after it the thread's
  own set is the last one, and the commit makes them equal again.
* `ChannelProofs`, the streams. `EntryHasReader` is inductive, given that only an open
  connection has a writer: the entry of an address is replaced by a connection
  whose reader has not begun to remove, and a reader that removes clears whatever
  is there. That the handshake is the first packet read needs `HandshakeAhead`: it
  was read, or it is the head of the wire, or nothing was written.
* `RelayProofs`. `Honest` says of each packet that its ttl counts its hops unless it
  will be dropped, that without hops it comes from its source, and that punching
  packets have a ttl of 1. So a metric of 1, computed or (for an answer to a punch)
  given, is that of a packet which nobody passed on. That the routes of a list are
  only those written to it comes from the lemmas of `RouteTableProofs`, taken with
  `INSTANCE`; `SameArrange` to `SameWrite` say that both instances have the same
  operators.
* `HolePunchProofs`. `Directed`: requests and punches of who asks go from the smaller
  virtual ip to the larger one, answers back. So what a round forgets, the record of
  the peers it is to ask, is never what `AnsweredIsTaken` rests on. `CountedJobs`: a
  request whose thread has counted it is in the record, so its job may end.

* `SessionProofs`, the session. `EpochTells` speaks of the client and the server,
  but what the client has comes from packets sent earlier. `Told` is what an epoch
  and a list that belong together satisfy: not from the future, and at the
  server's epoch only with the server's list. It holds of the client, of every list
  in flight and of the one the receiving thread holds, and survives a change, a
  restart and a registration, since each of them that changes the list moves the
  epoch on (`Grows`). Overtaking and duplication only rearrange what is told right.
* `AlgorithmsProofs`. Recursive functions (runs of calls, `Kept`, sums, powers of two)
  are reasoned about by a least-number principle, `LeastNat`, from the
  well-foundedness of `<`; `SetInduction` makes it induction for a *set* of numbers,
  which the provers can instantiate, and `RunExists` says that a run of n steps
  exists and so the recursive definition means what it says.
  * `UdpSound`: `Sound` says that `inner_map` and the tasks that have not left it are
    each other's inverse, that a socket is opened for a source that has none, and
    that maps, queue and sockets lead where their source has written to.
  * `RateLimited`: what was let through since a call plus the tokens left is at most
    the capacity plus the refills since, with the rounding of each refill.
    `TrafficCounted`: after any number of calls the totals are the sums of the calls,
    and history and open count add up to a peer's total until an entry is dropped.
  * `BroadcastArrives`: the peers served directly are those listed for the server,
    which serves the others. `NarrowestChosen`: networks are nested or
    disjoint, so of those that contain an address the one that starts last is the
    narrowest. `UnicastArrives` adds that a host is never a broadcast address.
  * `Public4`, `Public6`: each block of the registry, a prefix of some bits, is the
    condition on octets or segments that the code tests. `StunRight`: a cone is reported only if no
    round of first probes showed two ipv4 mappings, and the range reported is the largest
    distance seen in a round. `SweepRight`: what was sent is
    what lies before the index. `PunchTargetsRight`: what `retain` leaves
    (`KeptFacts`) passes the tests, each kind of target adds its own.
  * `TurnsTaken`: after any number of calls each address was chosen three times per
    restart of the counts and once per use noted (`Shared`), and no use count is
    above three. If nothing was chosen, every address that can be tried had
    three turns, and `ThreeEach` counts the calls that takes.
    `NamesFound`: `FirstOf` skips exactly the empty answers.

**Only model-checked.** All liveness properties, since the prover has no fairness
reasoning: `StopCompletes`, `WaitersReturn`, `ShutdownCompletes`, `TasksRun`,
`ReplacementCompletesInService`, `SwitchesApplied`, `StopEndsLoop`, `OwnTokenRead`,
`SessionReestablished`, `ListConverges`, `DetachedEnds`, `Reconnects`, `DirectBothWays`,
`PairConnects`, `RecordForgotten`. Of `algorithms`: `PacketsReadBack` and
`ProxiesTransparent`, whose setters and checksums are arithmetic on single bits of
bytes, and `PacketsDelivered` and `ForgeriesRejected`, which compare buffers cut at
computed offsets for eight ciphers; both are beyond what the provers do in steps
of a readable size.

## 7. Not modelled

* The Flutter application, the platform shells, the generated bindings
  (`rust/src/frb_generated.rs`) and the conversions of `rust/src/api/vnt_api.rs`: they
  hold no state of their own beside a handle of the library, whose life cycle is
  `Lifecycle`. The command line clients and their local command server, `vn-link`
  and `vn-link-cli`, whose network stack is a library.
* The operating system: creation and configuration of tun devices on each
  platform, socket options, UPnP, the main UDP loop with one blocking socket.
* Parsing of the configuration and the wording of reports to the server
  (`up_status`).
* The copying of the tcp proxy and of mapped tcp ports.
* The primitives of cryptography and compression, and a data race inside the
  OpenSSL contexts that are shared by reference.
* Failures of mio's `Waker`, which writes to a descriptor of its own. If `wake` failed in
  `try_add_socket` (`channel/sender.rs:208`), `switch` would return with the set in the channel and
  not in the context, and the two would disagree until the next switch: `LoopAndContextAgree` and
  `SwitchesApplied` assume that it does not.
* A server that comes back with another RSA key, which the client refuses
  (`handle/recv_data/server.rs` 160-176), and one that forgets its epoch: `Crash` keeps both.
* Panics of threads and failures of locks, except the assertions of the tun
  helper; simulated loss and delay, a testing feature.
* The change of the server's address during a session (`Names` has the change alone),
  and the Windows variant of the tun thread.
