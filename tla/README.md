# TLA+ models of Oiwest-core

Oiwest-core is a proxy core in Go (`src/app`): inbound listeners accept
connections, a router picks an outbound, the outbound relays the data over one
of several transports. This directory models the parts of it that keep state
and share it between goroutines, checks them with TLC on small instances and
proves the central invariants of most of them with TLAPS. `PROJECT.json` maps
every definition to the lines it stands for and lists the hazards the
properties are aimed at.

Paths below are relative to `src/app`.

## 1. Inventory

| Component | State | Operations | What is hard |
|---|---|---|---|
| Worker pool `core/worker.go` | task and result channels, `numWorkers`, `active`, `submitted`, `completed`, `running`, `mu`, context, wait group | `Submit`, `SubmitBatch`, the worker loop, `maybeScaleUp`, `Resize`, `Stop`, `Shutdown` | atomics updated one after the other by many goroutines; idle exits race with scale-up; a `Submit` blocked when the pool stops |
| Task scheduler `core/worker.go` | the two lists of pending tasks | `Schedule`, `Flush` | `Flush` goes on without the lock |
| Parallel executor `core/worker.go` | semaphore, wait group | `Execute`, `ExecuteBatch`, `Wait` | one wait group for several callers |
| Core `core/core.go` | `running`, contexts, router, proxy manager, pool | `NewCore`, `Start`, `Stop`, `LoadConfig`, queries | Start, Stop and Start again; `Stop` waits with the lock in hand |
| Router `route/router.go` | configuration, compiled rules, `mu` | `Route`, `ReloadConfig`, `matchRule`, `matchPort`, `selectBalancer` | a reload is two critical sections; 16-bit ports; conditions that cannot be answered yet |
| Proxy manager `proxy/proxy.go`, `proxy/registry.go`, `proxy/constructors.go` | inbounds and outbounds by tag, a semaphore for each inbound, context | `Start`, `startInbound`, `dispatchRequest`, `Close` | limits with connections that are rejected, dropped or cancelled; `Accept` does not see the context |
| Relaying outbounds `proxy/proxy.go`, `proxy/registry.go` | two copying goroutines, a channel of errors | `Process` | both goroutines must end whichever side ends first |
| DCCP transport `transport/transport.go` | connection, handshake, locks for reading and writing | `Dial`, `Read`, `Write`, `Close` | a transport that was never dialled |
| DCCP protocol `transport/dccp` | connection state, attempts, deadline | `ClientHandshake`, `ServerHandshake`, packet codec | any packet at any time; one deadline over all attempts |
| Congestion control `transport/dccp/congestion.go` | windows, round-trip estimate, backoff | `OnPacketSent/Acked/Lost`, `OnRTO`, `CanSend`, `Reset` | reports repeated or late; unsigned counts; doublings |
| BBR `transport/bbr/bbr.go` | mode, rate filter, window, inflight | the same interface, four variants | the same |
| XHTTP `transport/xhttp.go` | streams, condition variables, accept channel, read loop | `Read`, `Write`, `Close` of the wrapper, frame handlers | a condition variable signalled with and without its lock; `Close` that waits for its caller |
| Multiplexer `features/multiplex/mux.go` | streams by id, accept channel, buffers, two loops | `OpenStream`, `AcceptStream`, stream `Read/Write/Close/Reset`, `Close` | wake-ups, Close against the read loop, buffers that are never reused |
| Certificate manager `common/tls/tlsgen.go` | certificates by name, output files, `mu` | `GetCertificate`, `GenerateCertificate`, `renewCertificate`, `LoadFromFile` | a lock taken twice; files written in two steps |
| Dual-stack dialer `common/net/dualstack.go` | preference, lines, their statistics, results of a dial | `DialContext`, `dialParallel`, `AddAddress`, `RemoveAddress`, `ProbeAll` | the lines change between the three times a dial looks at them; the caller gives up |
| Multi-line manager `common/net/dualstack.go` | lines by tag, a probing goroutine | `AddLine`, `RemoveLine`, `StartProbing`, `Stop` | two maps in two critical sections; probes that come back late |
| Buffers `common/buf/buffer.go` | positions, arrays in pools | `New`, `Read`, `Write`, `ReadFullFrom`, `Slice`, `Clone`, `Release` | slices share the array of a pooled buffer; a second `Release` |
| Protocol outbounds `proxy/vmess`, `proxy/vless`, `proxy/trojan` | a connection with a deadline, two copies | `Process` | which of deadline, context, copies and peer ends it, and what is closed in which order |
| Protocol inbounds, same files | users or passwords | `Handshake`, `Process` | both ends must agree on a layout |
| Shadowsocks `proxy/shadowsocks/ss.go` | sealed frames, a rest between reads | encrypting `Write`, decrypting `Read` | lengths of 16 bits, short buffers, several writers |
| gRPC `transport/grpc.go` | one lock, a rest, `closed` | `Read`, `Write`, `Close` | `Read` waits for the network with the lock in hand |
| WebSocket `transport/websocket.go` | the reader of a message, a write lock | `Read`, `Write`, `Close` | messages must not show in the stream |
| QUIC `transport/quic.go` | accept queue, `done` | accept loop, a goroutine per connection, `Accept`, `Close` | a full queue, `Close` at any time |
| mKCP `transport/mkcp.go` | queues of segments, two loops | `Input`, `Recv`, `Send`, `flush`, `Close` | queues shared without a lock |
| Stealth, disguises, crypto, configuration, commands | mostly none | encodings | see section 7 |

How they interact. `Core.Start` makes a `ProxyManager`, registers the outbounds
and starts it; the manager has one goroutine for each inbound and one for each
connection. `dispatchRequest` takes the first routing rule that names an
outbound (it does not ask the `Router`, which only `Core.Start` and
`LoadConfig` touch). The pool runs the tasks of the Core and is shut down by
`Core.Stop`. Inbounds and outbounds over DCCP use `DCCPTransport`, which does a
handshake inside `Dial`. A protocol outbound dials over
one of the transports, writes its request and copies in both directions until
one copy, the context or the deadline ends. Certificates, dialer, multiplexer,
buffers and the transports are libraries that the program calls from goroutines
of its own; the multi-line manager fills the pool of lines that the dialer
dials and probes.

What makes them correct, in one line each: no accepted task is lost or run
twice, counters agree with goroutines, limits hold (pool, executor, inbounds); a
request is routed by one configuration; every accepted connection is closed and
gives its slot back; requests, dials, handshakes and shutdowns end and leave no
goroutine behind; readers are woken; a connection of any transport is a byte
stream; a line is dialled once added and dead only after failures of its own (or of probes
that the code cannot tell from its own); a running Core serves with its current manager;
windows never stall a sender and timeouts fit their type.

## 2. Modules

Every module states in its head comment what its variables and bounds are. A
step is what happens between two points at which another goroutine can see or
change shared state: an atomic operation, a critical section, a channel
operation. Names are those of the source where TLA+ allows it. Definitions
called `X_Something` and commented "Mutant" are variants of `X` with a bug
planted; nothing uses them but the tests of the properties.

| Module | Models | Composed in |
|---|---|---|
| `WorkerPool` | the pool; one member of `Tasks`, `Resizers`, `Closers` for each call of `Submit`, `Resize`, `Shutdown` | `MCWorkerPool`, `MCCore`, `WorkerPoolProofs` |
| `ParallelExecutor` | executor with any number of callers; `sync.WaitGroup` as external | `MCCore`, `CoreProofs` |
| `TaskScheduler` | scheduler over a pool that may be stopped | `MCCore`, `CoreProofs` |
| `RouteMatch` | `matchRule` as operators; regular expressions and networks are the sets of values they accept, port patterns are sequences of digits | `Router`, `RuleMatching`, `RouterProofs` |
| `RuleMatching` | `matchRule` of one rule and one request, before and after DNS has told its address | `MCRouter`, `RouterProofs` |
| `Router` | `Route` and the two halves of `ReloadConfig` | `MCRouter`, `RouterProofs` |
| `AtomicRouter` | abstract specification: a reload is one step | refined by `Router` |
| `ProxyManager` | `Start`, listeners, admission, dispatch, `Close`, with the registration done by Core | `MCProxy`, `ProxyManagerProofs` |
| `Relay` | one request inside `Process` of a relaying outbound, what `ProxyManager` sees as the span from `Dispatch` to `Finish` | `MCProxy`, `ProxyManagerProofs` |
| `Core` | `Start`, `Stop`, `LoadConfig`, managers of all starts, tasks that call the Core | `MCCore`, `CoreProofs` |
| `DCCPHandshake` | client (inside `Dial`) and server handshakes against any peer; packets by their sizes | `MCTransports`, `TransportsProofs` |
| `Congestion` | CCID2, CCID3, CCID4 | `MCTransports`, `TransportsProofs` |
| `BBR` | BBR and its variants | `MCTransports`, `TransportsProofs` |
| `XHTTP` | connection, read loop, wrapper | `MCTransports`, `TransportsProofs` |
| `MuxSession` | one end of a session | `MCMuxSession`, `MuxSessionProofs` |
| `CertificateManager` | cache, renewal, files | `MCCore`, `CoreProofs` |
| `ProtocolOutbound` | one request inside `Process` of a VMess, VLESS or Trojan outbound, over TCP, WebSocket or gRPC | `MCProxy`, `ProxyManagerProofs` |
| `VLESSExchange` | the VLESS outbound at one end and the VLESS inbound at the other, byte by byte | `MCProxy`, and a run of its own |
| `DualStackDialer` | `DialContext` with the four preferences, failover, `dialParallel`, lines, probes | `MCStreams`, `StreamsProofs` |
| `MultiLine` | the manager's lines, the dialer's pool and its statistics, the probing goroutine | `MCStreams`, `StreamsProofs` |
| `ByteStream` | abstract specification: what is read is a prefix of what was written | refined by the next three (`ByteStreamProofs`); violated by `KCPConn` |
| `GRPCConn` | both ends of a gRPC connection, each with a reader, a writer and a closer | `MCStreams`, `ByteStreamProofs` |
| `Shadowsocks` | the encrypting writer and the decrypting reader, with several writers | `MCStreams`, `ByteStreamProofs` |
| `WebSocketConn` | one direction of a WebSocket connection, with several writers | `MCStreams`, `ByteStreamProofs` |
| `QUICListener` | listener, connections, streams, callers of `Accept` | `MCStreams`, `StreamsProofs` |
| `KCPConn` | one end of an mKCP connection | `MCStreams`, and a run of its own |
| `Buffer` | buffers of one size class, their arrays and the pool | `MCStreams`, `StreamsProofs` |

`MCCore`, `MCProxy`, `MCTransports` and `MCStreams` hold several components that
share no state. A behaviour of such a module is a behaviour of one of them,
chosen in the initial state by `part`, which saves the product of their states
and changes nothing else. A liveness property of such a module is stated for one
part and under the fairness of that part: `part = "x" /\ X!Fairness => ...`.
Their components are instances; what a component assumes of its constants
(`XAssumption`) is assumed in the module that has them (`PartsAssumption`,
`StreamsAssumption`, `TransportAssumption`), so that TLC evaluates it and the
proof module that extends it can cite it. Every parameter of an instance that a
proof is about is a CONSTANT whose value is in the cfg.
`MCRouter` does the same with `Router` and `RuleMatching`, which starts in every pair
of a rule and a request and whose one step is the answer of DNS.

Correspondence, where it is not one to one:

- **WorkerPool.** A worker is a program counter `wpc` and the task it `held`.
  The `select` of the worker is `Take`, `IdleTimeout`, `WorkerDone`; the idle
  branch loads `numWorkers` in one step and leaves or stays in the next. `Submit`
  is `SubmitStart` (the test of `running`), `SubmitCheck` (the length of the
  queue), `ScaleDecide` and `ScaleSpawn` under `mu`, then `SubmitSend` or
  `SubmitCancelled`. `SubmitBatch` is a sequence of these. What a task does is
  left open, and it returns. `Shutdown` blocks in `wg.Wait` (`ShutdownWait`), is
  woken by the `Done` that reaches zero and looks at the count once more when it runs
  (`ShutdownWake`): if workers were added in between, it panics.
- **Router.** `compiled` is the configuration the rules come from: the rules are
  a function of it. `Route` is one step, as the read lock is held throughout.
- **ProxyManager.** The router is not consulted, as in the code. Four kinds of
  outbound are registered under the empty tag (`HandlerTag`), so that requests
  for them find no handler. `panicked` is a nil dereference in a goroutine
  without `recover`: the program has ended and nothing moves.
- **Core.** `managers` keeps one record for each successful or failed `Start`,
  because the listeners of an old manager go on until they notice. A task is
  submitted and taken in two steps, and may still be taken after the cancellation.
- **DCCPHandshake.** Sizes decide whether the codec indexes past a slice:
  `EncodePanics`, `Decodes`, `CookieData`, and `DecodePanics` for a packet whose data
  offset is below 3. The deadline may pass at any moment; from then on reads and
  writes fail.
- **Congestion, BBR.** Floating-point windows are hundredths of a packet,
  rounded down. CCID3's window is kept as its square. A timeout is a base and a
  number of doublings, so that overflow of `time.Duration` can be told exactly.
- **MuxSession.** `Close` is called by the program and by the deferred call of
  the read loop, and both run the same steps (`cpc`). A stream's buffer takes
  `BufCap` frames in its whole life, as `Buffer.Write` never takes back space.
- **XHTTP.** A reader in `gap` has checked its condition and holds the stream's
  lock, but is not yet in the list of waiters. Frames that need the lock wait
  for it; `handleClose` does not take it.
- **CertificateManager.** A key pair is a number; its two halves are written to
  the files in two steps, each of which may fail and leave its file as it was or
  useless. Generation may fail, and then unlocks if it was a renewal.
- **DualStackDialer.** `Open` sizes the channel, `Launch` starts the goroutines,
  `Count` computes how many results to wait for: three looks at the lines. The
  preferences that dial one family after the other are `Prefer`, `TryConnects`,
  `TryRefused` and `FamilyFails`. A probe is one step that leaves a line alive or
  dead; `MultiLine` has the counting.
- **MultiLine.** An entry of the pool has an identity and remembers how often a
  probe of it has failed (`failed`), which the code keeps by tag in the statistics:
  the property compares the two. A probe under way (`todo`) keeps the entry that it
  was made from, as `ProbeAll` does, and books by tag, as `probeAddr` does. `late` is
  the number of probes of earlier lines of the tag that were under way when the entry
  was added, `twin` says that another entry of the tag was in the pool with it.
  `overlapped` are the tags for which two calls were under way at once.
- **ProtocolOutbound.** One definition stands for the same lines in
  `vless.go`, `vmess.go` and `trojan.go`; `PROJECT.json` names one of the three
  for each. What differs is in guards on `protocol`: VLESS waits for a response,
  and only VMess and Trojan close the TCP connection of a WebSocket handshake
  that fails. `network = "grpc"` brings in the one thing about `GRPCConn` that
  matters here, its lock, for which `Close` waits behind a `Read` or a `Write`. A
  copy reads and writes in steps of their own, and a Write need never be taken.
- **VLESSExchange.** A byte is the name of the field it belongs to. Where a byte
  of an address is taken for a command or a type it may or may not have a value
  that passes.
- **GRPCConn, Shadowsocks, WebSocketConn, KCPConn.** Bytes are numbered by their
  writers, so that order and completeness of what is read can be told. What the
  libraries under them do (gorilla/websocket's messages, the socket) is marked
  external. A Shadowsocks frame carries its length modulo `LenMod`, which stands
  for 2^16. A reader that is out of step with the frames takes any number for a
  length. `overlong` is history: a writer with the method `none` has sent a length
  cut short.
- **KCPConn.** A data race is a load and a store with other goroutines in
  between.
- **Buffer.** Buffers point to arrays; `data` and `source` are history: what a
  buffer should hold, and whose slice it is. A slice whose parent was released
  is no longer in use.

## 3. Runs

All runs but `pool` say `CHECK_DEADLOCK FALSE`, as the system may stop: a finite
number of calls was made and returned, or a process waits for a peer that owes
nothing. `pool` checks deadlock; the pool has an explicit stuttering step once
everything has returned.

| Run | Properties | Instance and why it is enough |
|---|---|---|
| `pool` | `AcceptedOnce`, `CountersAgree`, `WorkersCounted`, `WithinLimit` | two `Submit`, a `Resize` to 1 or 4, a `Shutdown`; three workers above the minimum of two, limit 4, queue of one. One submitter fills the queue and the next scales up; one worker can leave idle; the limit can be reached by the scale-up or by `Resize`. Symmetric in tasks and workers |
| `core` | `Bounded`, `BatchComplete`, `NoneLostOrDoubled`, `RunningServes`, `NoOldManager`, `NamesMatch`, `CallsReturn`, `ShutdownReturns`, `StopReturns` | a batch of three and a batch of one on two slots, so that the longer batch blocks on the semaphore and the wait group is shared; three scheduled tasks, two flushers; two `Submit`, three workers and a queue of one, so that a `Submit` may block when the pool stops; two callers of the Core, two starts, four configurations, two tasks of which one calls the Core; two goroutines, two names and two key pairs that grow due and expire |
| `router` | `SettledConsistent`, `PortRange`, `ReloadsAtomically`, `LearningKeepsRefusal` | two reloaders, two callers, three configurations with the same balancers that answer by balancer, by outbound and by default; every combination of network, port, source, domain and address conditions over small sets, with ports at both ends of 16 bits and patterns that are reversed, padded and of three parts |
| `router_mixed` | `AnsweredByOne`, violated | the same with configurations whose balancers differ |
| `proxy` | `OneSlotEach`, `NothingHeld`, `ManagerLetsGo`, `NoneLeftBehind`, `RequestEnds` | two inbounds on one port with an unregistered outbound, an unsupported inbound behind a supported one, and the default DCCP inbound; one slot and three clients, so that connections are rejected; ports that another program may hold. One request through a relaying outbound and one through each protocol and network. A request's Writes need not be taken by either side. VLESS targets of every kind, with names that end before, at and after the byte that is taken for the command |
| `proxy_dccp` | `KeepsRunning`, violated | the DCCP inbound alone |
| `vless` | `Served`, violated | the exchange alone, the same targets |
| `mux` | `NoLostWakeup`, `StreamInOrder`, `NoStreamOutlivesClose` | three frames of a peer on a buffer of two: the buffer overflows; ids of both parities, so that the read loop creates streams too; `OpenStream`, `AcceptStream` and `Close` at any time |
| `mux_close` | `CloseEndsWaits` | one frame and one write, buffer of one, so that the liveness check stays small |
| `transports` | `OpenAfterExchange`, `NeverStalled`, `RTOFits`, `NoLostWakeup`, `HandshakeReturns`, `XHTTPCloseReturns` | two attempts and two packets of any type; two packets sent, four acknowledgements and up to eight losses, reported in any order and repeated; two XHTTP streams, one of each parity, two frames, an accept channel of one |
| `streams` | `ConnOrError`, `DeadAfterThree`, `LinesDialled`, `NoneForgotten`, `ContentKept`, `IsByteStream`, `DialReturns`, `ClosesReturn` | an address of each family and a line that is added, removed, dead and alive again during a dial; two callers of the manager, two tags, three calls and three rounds of probes, which is what makes a line dead, with removals and additions in the middle of a round; writes of three bytes in frames of two, buffers of one and two, two writers; Shadowsocks writes of one, two and four bytes with lengths modulo four, so that a sealed Write and one with `none` can be too long; two QUIC connections with three streams for a queue of one; two buffers and two arrays, so that an array is used again |
| `mkcp` | `Reliable`, violated | segments of up to two bytes and buffers of one |

What the runs show:

- **Pool.** `AcceptedOnce`: a task whose `Submit` returned is in the queue, in
  the hands of exactly one worker, or was run once. `CountersAgree`: `active`,
  `submitted` and `completed` differ from the true numbers only by the workers
  that are between the two updates. `WorkersCounted`: `numWorkers` is the number
  of goroutines until a `Resize` stores a target or the pool is cancelled.
  `WithinLimit` says that scaling up never passes `maxWorkers`. It is about what
  `maybeScaleUp` adds: `Resize` itself is not limited by `maxWorkers`.
  `ShutdownReturns` (run `core`): `Shutdown` comes to an end and nobody is left
  blocked in `Submit`, also when the queue is full and no worker reads it any more.
  It returns, unless a `Submit` is scaling the pool up at the cancellation: then it
  may panic instead (section 6).
- **Router.** With equal balancers `Router` implements `AtomicRouter`, the rules in
  force being `compiled`. With different balancers it does not (`router_mixed`): between
  the halves of `ReloadConfig` an old rule names a balancer that is looked up in the new
  configuration, and the request goes to an outbound to which no configuration sends it
  (`AnsweredByOne`). `route/README.md:34` calls the reload thread-safe; it is free of
  data races but not atomic. `PortRange`: a pattern of one or two 16-bit numbers means
  what it says; other patterns mean what the digits in them make.
  `LearningKeepsRefusal`: a refusal stays one when DNS answers, unless the rule names
  the address and could not have asked about the domain.
- **Proxy.** Slots are returned on every path. On a plain inbound every accepted
  connection is closed, except while its outbound relays and neither the relay nor
  the context ends: relays have no timeout, and `Close` ends them all. Listeners
  notice `Close` only with their next connection, which is all that `ManagerLetsGo`
  can promise. `proxy_dccp` shows
  the state in which the program ends: the handler of a DCCP stream dispatches a
  new, unconnected `DCCPTransport`, and the outbound's first read dereferences
  its nil connection.
- **Requests.** `RequestEnds`, for a relaying outbound: a request ends, and both
  its connections are closed, when the context ends, and when either side does
  unless what that side sent last stays in a Write that the other side does not
  take. For a protocol outbound: `Process` returns by its deadline whatever the peer
  does, with two exceptions. A link that does not read holds one copy in a Write,
  where the deadline of the connection does not reach it, and if it also neither
  sends nor ends, the other copy and `Process` wait too, until the context ends. And
  over gRPC the deadline is cleared before `Close`, which then waits for a `Read` or
  a `Write` that only the peer can end. `NothingHeld`: whichever copy ends first, and also when
  `Process` took the context and reads no error, `errCh` has room for what a copy
  reports; and `Process` leaves no connection open, except the TCP connection of a
  WebSocket handshake that fails under VLESS. `NoneLeftBehind`: both copies
  end, in a relay of themselves and else with the link. `vless`: the inbound
  refuses what the outbound of the same file sends (section 6); in `proxy`,
  `RequestEnds` shows that both ends still return, by their deadlines.
- **Mux, XHTTP.** `NoLostWakeup` for both: the multiplexer leaves a token in a channel,
  XHTTP signals under the lock. Data arrive in order up to the capacity.
  `NoStreamOutlivesClose`: once `Close` has gone over the map no stream that the program
  holds or may accept is open, although `OpenStream`, `AcceptStream` and the read loop
  go on beside it. `CloseEndsWaits`: the peer's Close or Reset of a stream wakes its
  reader (`RemoteCloseWakes`), and a program that is the first to close the session gets
  to the end of it once the peer has gone (`UserCloseReturns`).
- **Core.** `NoOldManager`: after Stop and Start no port is held by a manager
  that was not told to leave, other than one whose `Start` failed: its inbounds
  before the unsupported one listen and nothing ends them.
  `StopReturns` excepts a task that waits for the
  Core's lock, which is a deadlock of the code.
  `CallsReturn` is about batches, and about callers without a certificate: a
  renewal waits for the lock it holds.
- **Dialer and lines.** `ConnOrError`: a dial returns an open connection, or an
  error only when every address refused that preference and failover let it use.
  It holds, as `DialReturns` does, while the lines stay as they were (`steady`)
  and none is dead; otherwise the numbers computed at three moments disagree.
  What is left then is that a dial of at least one address returns a connection
  or an error, and even that is not so of a dial of lines alone (section 6).
  `DeadAfterThree`: what failed before a line was added is not held against it, as
  `AddAddress` starts new statistics, also where a late probe made some for a line
  that was gone. A probe of an earlier line of the tag that is still under way then
  is booked under the tag, though, and counts against the new line: one failure for
  each such probe, which is what the property allows. It says nothing of two lines
  that are in the pool under one tag. `LinesDialled` excepts tags for which two
  calls overlapped.
- **Streams.** gRPC (both directions), Shadowsocks and WebSocket connections
  implement `ByteStream`. A sealed Shadowsocks write that is too long for its
  length field ends the stream and hands over nothing wrong. With the method `none`
  nothing is sealed and the reader does hand over wrong bytes after such a write:
  `IsByteStream` is about the time before it. `ClosesReturn`: a
  gRPC `Close` waits for the reader of its own end, and returns once the other
  end has closed; closing a WebSocket, a QUIC listener or connection ends what
  waits for it; mKCP's `Close` returns once one more datagram has come.
  `NoneForgotten`: a QUIC stream is in the queue, accepted once, or closed.
  `ContentKept`: what is in a buffer survives all use of the pool, a second
  `Release` included. `mkcp` shows bytes lost between `Input` and `Recv`.
- **Transports.** `OpenAfterExchange` against any order of packets;
  `NeverStalled` for CCID2, CCID4 and the BBR variants: with nothing outstanding
  `CanSend` holds, even after reports for packets that were reported before or
  sent before a `Reset`. `RTOFits`: the retransmission
  timeout is positive and fits its type, up to seven losses since `Reset`; the run has
  `MaxLost` = 8, where it no longer does.

Every property has a mutant in `PROJECT.json`: a plausible bug in one mapped
definition under which TLC finds the property violated.

## 4. Fairness

Invariants and action properties assume none. Liveness properties assume weak
fairness of the steps that a goroutine takes by itself once it can: the Go
scheduler does not starve a runnable goroutine, and a mutex or channel that
stays available is obtained.
No fairness is assumed of clients (`Connect`, `PeerSend`), of further calls by
the program (`Submit`, `Read`, `Close`), of failures (`AcceptError`, `Cancel`)
or of garbage collection (`Collect`).

- `WorkerPool`: workers, submitters, resizers and closers. The `select` of a
  worker is fair as a whole and not branch by branch: Go chooses at random among
  ready branches but nothing here relies on that. Tasks return.
- `ParallelExecutor`: callers and task goroutines. `Router`: a started reload
  gets to its second half.
- `ProxyManager`: the loop of `Start`, inbounds and connections, which includes that
  outbounds other than relays finish. A relay finishes when it likes (`RelayEnds`, not
  fair) and, fairly, once the context has ended, as `Relay` has it.
- `Relay`: `Process`, the end of a copy whose source or context has ended, its report,
  and the failure of a Write to a closed connection. A Write to an open one is not
  fair: it may wait for ever.
- `MuxSession`, `XHTTP`: the loops, readers and closers; the peer owes nothing
  but its properties assume that it has gone (`~peerOpen`) where they need it.
- `DCCPHandshake`: the deadline of the connection passes at some time.
- `Core`: `Stop` goes on, tasks that are not waiting end.
- `CertificateManager`, `DualStackDialer`: calls go on; a dial gets an answer or
  a refusal, since it has a timeout.
- `ProtocolOutbound`, `VLESSExchange`: both goroutines go on and deadlines pass;
  peer, link and context owe nothing, so that a Write to the peer or to the link need
  not return (`WriteUp` and `WriteDown` are not fair). Close gets the lock of a gRPC
  connection if it keeps being released (strong fairness of `sync.Mutex`).
- `MultiLine`, `KCPConn`: strong fairness of the branch of a `select` that ends
  the loop, as Go chooses at random between it and the ticker.
- `GRPCConn`, `WebSocketConn`, `QUICListener`: readers, writers and closers that
  have begun; nobody has to write, connect, accept or close.

## 5. Proofs

TLAPS checks all of the following, for every value of the constants that
satisfies the named assumptions.

**`WorkerPoolProofs`** from `PoolAssumption` (positive sizes, distinct names)
and `WorkersAssumption` (finitely many goroutines at once). None of the
properties is inductive alone. `PoolInv` adds `ScaleInv`, that whoever is in the
middle of scaling up holds `mu` and all that is left to start fits under the
limit, and `TaskInv`, which says where a task can be: queued tasks are
distinct, sent, not run and in nobody's hands; a worker holds a task exactly in
the states between taking and reporting; no two hold the same; it has run
exactly when the worker is past `executeTask`. `PoolInvariant` proves it;
`TypeCorrect`, `LimitRespected`, `TasksAcceptedOnce` follow. `StatisticsAgree`
and `WorkersAreCounted` are inductive relative to it: each step changes a
counter and the set it counts together, which rests on lemmas about the
cardinality of a set that gains or loses one member.

**`RouterProofs`**, without assumptions on the constants. `RouterInv`: compiled
and stored configuration differ only while some reload is between its halves.
It gives `ReloadsSettle` for any number of reloads. `AtomicWithFixedBalancers`:
if all configurations have the same balancers then `Router` implements
`AtomicRouter`; `StoreConfig` maps to a stutter, `CompileRules` to the reload.
That hypothesis is needed, as `router_mixed` shows.

About `matchRule` there are two theorems, for any rules, requests and addresses
(`MatchAssumption` gives a rule's patterns and a request their types).
`RefusalKept` rests on `RefusalStands`, a lemma about one rule and one context.
`PortRangeHolds` compares `parsePort`, which drops what is not a digit and computes
modulo 2^16, with the number that the digits denote. Both are recursive functions;
the comparison goes along the prefixes of a numeral (`ParseOfPrefixes`), by induction
stated for a set of numbers (`SetInduction`, from the well-foundedness of `<`). That a
prefix of a number below 2^16 is below it too (`NumeralOfPrefixes`) is why nothing wraps.

**`ProxyManagerProofs`** from `ProxyAssumption` (a positive limit, the ports of the
configurations are ports). `OneSlotEach` relates the semaphore of an inbound to
its connections; `ProxyInv` adds that goroutines and connections belong to
inbounds of the configuration (`Placed`), that the semaphore counts the
connections in service, finitely many of however many clients there are
(`SlotsCounted`), and that only the handler of a DCCP transport leaves one open
(`AbandonedWrapped`). `SlotsRespected` follows for any configurations.

`OutboundsHoldNothing` (`NothingHeld`) is about one request in an outbound. What makes
it inductive is where an error in `errCh` comes from: there are never more of them than
copies that have reported, so that a copy about to report finds room whether or not
anybody reads (`RelayInv`, `OutboundInv`); that copies are started once, with the
channel empty; and which connections are open at which point of `Process`.

**`MuxSessionProofs`** from `MuxAssumption` (ids and bounds are numbers). `NoLostWakeup`
and `StreamInOrder` are inductive together with the types and with `FrameInHand`, what
the read loop holds between its lookup and its signal. `MapGone` says that a stream in
somebody's hands is in the map or was closed by `Close`, and that the map is gone only
after the flag was set; `ClosedWithSession` (`NoStreamOutlivesClose`) follows from it.
`OddPeerNoPanic` draws the consequence that matters between two ends of this code, which
number their streams 1, 3, 5...: there the read loop does not panic at all, however
`Close` falls into `handleData`.

**`TransportsProofs`** from `HandshakeAssumption` and `TransportAssumption` (bounds and
round trips are numbers, the window's limit is at least 2). `HandshakeInv` adds to the
types which packets the server has taken and answered at each of its steps
(`ServerProgress`). `ControlInv` and `BbrInv`: what the sender takes to be in flight
never exceeds what is really outstanding, and windows do not fall below what one packet
needs. For BBR this is the point of the comparison in front of the unsigned subtraction,
and the proof goes through for any modulus. From it `SendersNeverStall`. `XHTTPInv`: who
holds the wrapper's lock, and that a reader in `gap` or waiting has found its buffer
empty; no frame gets past the lock meanwhile, hence `XHTTPWakeupKept`.

`TimeoutBounded` says how far `OnRTO` can get, for any number of losses and round trips up
to any `r`: a base of at most a second or five times `r` (`Longest`), doubled at most six
times in CCID4, not at all in CCID3, and in CCID2 at most 1 + 2 + ... + 6 + 6 + ... times,
one term for each loss since `Reset` (`Doublings`), and six times more. `TimeoutInv` bounds
the estimate by the round trips and the backoff by the losses; an acknowledgement starts the
doublings afresh but leaves the backoff. It promises no timeout that fits: the code limits
neither losses nor round trips, the sum grows with every loss, and the run finds that the
eighth overflows (section 6). `RTOFits`, about up to seven losses and the round trips of the
run, stays with TLC.

**`CoreProofs`**, first about the executor, from `ExecutorAssumption` (finitely many
tasks, a positive number of slots, every task in one batch once). `ExecutorInv`
says that semaphore and wait group are the cardinalities of the sets of tasks they
stand for and how far each caller has got with its batch. `ConcurrencyBounded` follows
since running tasks hold a slot; `BatchesComplete` since a caller returns when
the counter is zero and all its tasks were counted before it waited.

The rest of it is from `PartsAssumption` (`SchedulerAssumption`,
`CoreAssumption`, `CertificateAssumption`: distinct names, ports of the
configurations are ports). `SchedulerInv` says that the pending tasks, the
batches in the hands of flushers, the submitted and the dropped tasks are apart
(`Apart`), none holds a task twice (`NoneTwice`), and a task is somewhere if and
only if it was scheduled (`Somewhere`). `CoreInv`: a Core that runs has a manager,
cancelled only by the `Stop` that holds the lock (`Served`); every other manager
was cancelled or failed to start (`Ended`); a `Start` that panics is the last
thing that happens (`PanicLast`). `CertInv`: a cached key pair was
made for the name it is cached under (`Named`), what a call holds at each of its
steps (`CallHolds`), and who holds the lock during a renewal (`RenewLocks`).

**`StreamsProofs`** from `StreamsAssumption` (finitely many addresses and tags, apart
from each other). `LinesInv`: `CountedSince`, that the statistics of a tag, with the
probes of earlier lines of the tag that are still to come back, never count more
failures than the entry of that tag in the pool has had and such probes as were under
way when it was added, which is the reason a line added again inherits nothing else;
`CallsAgree`, that table and pool agree but for the calls in progress. `QuicInv`: the
queue holds no stream twice and a stream is where its state says (`StreamPlaced`).
`DialerInv`: a result is in the channel once, and a connection that was taken out is the
one that is kept or was closed (`ResultsKept`); every address that may be used is still
to be tried or has refused (`TriedInTurn`); while the lines are steady the number still
to wait for is the number of dials that have not reported (`Waits`). `LinesDieOfThree`,
`LinesInPool`, `StreamsFound` and `DialAnswers` follow. `BufferInv`: the pool holds an
array once and only arrays of the pool's size (`PoolKept`); a buffer that will give its
array back is in use and no slice, a buffer in use shows its content in an array that is
not in the pool, a slice shows part of the array of a buffer in use (`Kept`); two
buffers in use share an array only if one of them is a slice (`OneOwner`). It gives
`BuffersHold`, with the assumption that "no array" is neither a buffer nor a content.
`DialAnswers` was first stated without its exception and could not be proved: the
missing case is the dial that returns nothing (section 6).

**`ByteStreamProofs`** from the same assumption, which says of the three connections
that sizes and bounds are numbers, that a length is taken modulo a positive number,
and that "nobody" is no writer. Every step of a connection is a `Write`, a `Read` or a
stutter of `ByteStream`, whose two streams are what was written and what was read
(`GrpcIsByteStream`, `WebSocketIsByteStream`, `ShadowsocksIsByteStream`;
`ConnectionsAreByteStreams` is the property of the run). As bytes are numbered in the
order in which they were written, the invariants say which numbers are where. What the
wire holds is cut into frames by a function that gives the number of bytes before each
frame or cell (`Framed`, `Counted`) and, for sealed frames, by what is left of the
wire behind each of them (`Chained`). A frame is put behind the others and taken from the
front, which needs no induction over the wire.

- gRPC, `Arrives`: what an end has read, what is left over and the frames on their way
  to it are what the other end wrote; `Read` takes a frame only with nothing left over.
- WebSocket, `UpTo`: what is on its way leads up to some byte; while the socket is open it
  is the last byte written, or the one before the rest of the message of whoever holds the
  lock. A closed socket may lose that rest but nothing in front of it. The reader keeps
  `c.reader` exactly within a message, so that `NextReader` never skips anything.
- Shadowsocks, as long as no Write with `none` was too long (`UpToOverlong`),
  `Continues`: until the reader has met an error, the wire is whole
  frames, perhaps with a last length whose data its writer is about to send. What a
  reader takes by a length that was cut modulo `LenMod` is a proper part of a sealed
  frame and does not open (`OpensWhole`), so that the stream ends there and nothing false
  is read. With `none` every part opens; there the theorem says nothing after the first
  Write that is too long, which `overlong` records (`OverlongStays`).

The invariants of these proofs were checked with TLC on the instances of the runs
before they were proved, except those of `ByteStreamProofs`, whose functions TLC does
not enumerate (TLC checks the refinements themselves, `IsByteStream`), and `RelayInv`
and `OutboundInv`, which the prover corrected: both were first stated without where the
copies are before they are started, and the second without `reading`.

Only model-checked:

- all liveness properties (`ManagerLetsGo`, `NoneLeftBehind` and those named after what
  returns, ends or wakes), as fairness is beyond the prover;
- the violated properties of section 6, and with them `VLESSExchange` and `KCPConn`,
  the two modules about which nothing else but liveness is stated.

Every `TypeOK` of a module with proofs is a theorem or part of the proved
invariant, and therefore in no run.

## 6. What the models bring to light

Four disagreements between code and documents are runs: `router_mixed`,
`proxy_dccp`, `mkcp` (`transport/README.md:10` calls mKCP "Reliable UDP with
FEC"; `Recv` drops the segments that do not fit and those that `Input` appends
meanwhile) and `vless` (`README.md:519` promises full compatibility; the
outbound sends the command as its last byte, the inbound looks for it 17 bytes
behind the user). Further behaviour of the code that a reader should know, and that
the properties are worded around:

- Pool: two workers may leave on one reading of `numWorkers` and the pool falls
  below `minWorkers` (`worker.go:121`); `Resize` can take it above `maxWorkers`;
  a `Resize` concurrent with `Shutdown` starts a worker that is not waited for.
  `Shutdown` panics ("WaitGroup is reused", `worker.go:242-245`) if a `Submit` in
  `maybeScaleUp`, or a `Resize`, adds to the wait group between the `Done` that
  wakes `wg.Wait` and the moment at which it runs.
  A `Submit` of a stopped pool returns nil without a task.
- Scheduler: a priority is only looked at for its sign.
- Executor: a wait group reused while a waiter is on its way out panics; both
  ends of `BatchEnds` are allowed for that reason.
- Manager: `Start` succeeds although an inbound cannot listen. `Close` leaves
  the ports taken until a client comes. Outbounds of vmess, vless, trojan and
  shadowsocks are registered under the empty tag. A failed `Start` leaves the
  inbounds before the unsupported one listening.
- Core: a second `Start` after `Stop` uses a context that is cancelled, for
  background tasks and pool; a reload does not reach the requests.
- Multiplexer and XHTTP: both ends number their streams 1, 3, 5..., and only even
  ids are accepted, so that between two ends of this code no stream is ever
  accepted. If the peer ends first, the deferred `Close` of the read loop waits
  for the wait group it is counted in, and the socket is never closed. `GoAway`
  is understood and never sent. A frame of data with a new even id that falls into
  the multiplexer's `Close` panics: `handleData` writes into a map that is nil or
  sends on the accept channel that is closed (`mux.go:302-307`). No peer that runs
  this code sends one.
- Certificates: `renewCertificate` calls a function that takes the lock it
  holds. Two generations at once can leave files that do not match.
- Dialer: a dead line is counted among the results to wait for; connections that come
  after the first one are not closed by anybody when the caller has given up.
  `dialParallel` reads the lines under another lock than the one under which
  `AddAddress` changes them. If there is no address and the last line is removed after
  the test for lines and before the count, `dialParallel` waits for no result and
  returns nil and nil. It also does when its context ends before any result has come: no
  error was seen by then (`dualstack.go:381-385`), so that a dial that is given up may
  report success without a connection. `dialStrategy` and the strategies it chooses from
  are called by nobody.
- Lines: `AddLine` twice and one `RemoveLine` leave an entry in the pool that no
  call removes; an `AddLine` and a `RemoveLine` that overlap can leave a managed
  line that is not dialled. A failed probe of an address that was removed counts
  against a line added under its tag meanwhile, which may be another address.
- Protocol outbounds: see `RequestEnds` and `NoneLeftBehind` in section 3. Relays
  have no timeout at all: one whose two sides stay open and silent keeps its
  connection, and its slot of the inbound, until the manager is closed.
- Shadowsocks: with the method `none` a Write of 65536 bytes or more is announced by
  its length modulo 65536, and the reader takes payload for the next length and hands
  over wrong bytes (`ss.go:176-194`). The sealed methods end with an error there.
- QUIC: `CHANGELOG.md:18` and `transport/README.md:13` speak of an accept queue
  of 64, `quic.go:155` makes one of 16.
- WebSocket: the listener's `Accept` upgrades a response writer that cannot be
  hijacked and always fails. mKCP: nothing that is written is sent, `Close`
  leaves the socket open, the listener's accept channel is never filled.
- Buffers: `ReadFullFrom` on a buffer that was partly read leaves as many zero
  bytes in it as had been read.
- Stealth: `StreamObfuscator.Read` stores what did not fit at the start of its
  buffer and reads on from the middle; the counter's 8-byte nonce makes the
  sealed methods panic.
- DCCP: `Ack` and `Close` packets are encoded into 12 bytes and the encoder
  writes past them, which panics; the client's Response handling reads `[2:6]`
  of a cookie without looking at its length. A `Dial` therefore never succeeds. A
  packet whose data offset is below 3 makes the decoder slice backwards, which
  panics (`packet.go:104-109`) instead of returning an error.
- Congestion: CCID3's rate is zero until the first report, so that the first
  packet may not be sent. CCID2 doubles `rto` with every loss, up to six times each,
  and nothing limits it: the eighth loss in a row overflows the `time.Duration`. BBR never
  leaves Drain, since modes are advanced in Startup only.

## 7. Not modelled, and the plan

Done, in this order: worker pool with proofs, router with its abstract
specification and proofs, executor with proofs, scheduler, proxy manager and
relay, multiplexer, Core, certificates, DCCP handshake, congestion control,
BBR, XHTTP; then dialer and lines, byte streams over gRPC, Shadowsocks and
WebSocket, QUIC's listener, mKCP, buffers, the protocol outbounds and the VLESS
exchange.

Parts of modelled components that are left out:

- the connected `DCCPTransport` and its locks (`transport/transport.go`): no
  `Dial` succeeds, see section 6; `transport/dccp/transport.go` is a second
  version that nothing uses;
- the inbounds of VMess and Trojan, which the manager never constructs: it has
  handlers of its own that pass connections on;
- mKCP's acknowledgements, windows and probes, which `Input` ignores or nobody
  reads, and its listener; the gRPC and WebSocket listeners;
- other size classes of buffers, `Resize` and multi-buffers, which work alike or
  without a pool.

Left out for good: stealth (`features/stealth`), which nothing outside the package
constructs and whose sealed methods cannot seal; cryptography and byte layouts
(`common/crypto`, disguises, encodings of the codecs), which have no state to
interleave; sniffing in `common/protocol`; JSON configuration, platform paths, signals
and command lines (`config`, `common/platform`, `cmd`), which are input and output; log
lines and statistics that nothing reads.
