# proxyhub: specifications, model checking and proofs

proxyhub lets machines behind NAT (*nodes*) lend their network to *clients*. A
node dials the *hub* over a WebSocket, runs a yamux session on it and announces
itself over gRPC. A client asks the hub for a connection through a node; the hub
opens a yamux stream to the node and copies bytes between the two. The hub also
publishes a live catalog of its nodes.

This directory models the parts of that program in which goroutines meet, checks
them with TLC on small instances and proves the central facts with TLAPS for
instances of any size.

## 1. The system and its parts

| Part (source) | State | Operations | Hard about it |
|---|---|---|---|
| `entevents.Manager` (`entevents/entevents.go`) | catalog `snapshot`, subscribers' channels, shutdown flag, error and channels | `Add`, `Del`, `Update`, `Subscribe`, `ServeSnapshot`, `ServeSSE`, `Close`, the goroutine `run` | slow subscribers are evicted in a broadcast; four ways to remove the same subscriber; `run` may leave with its context and close nothing |
| `Proxy` (`proxyhub/proxy.go`) | flag, error, `shutdownCh`, `closedCh`, the WaitGroup of its connections | `CloseWithError`, `exitErr`, `QueueConn`, `Wait`, the goroutine `run` | up to five callers close it at once; flag and error are under different mutexes; `run` drains while it is being closed |
| `bridgeConn` (`proxyhub/proxy.go`) | two copying goroutines, two half-open ends | copy, half close, drain timeout, interrupts | the end of one direction closes what the other reads; a timer races the second result |
| `Proxyhub` (`proxyhub/proxyhub.go`, `removal.go`) | registry ID -> proxy, flag, channels | `HandleJoinProxy`, replacement, removal, `Close`, the goroutine `run`, one watcher per proxy | a newcomer replaces a proxy that may be ending already; late removals; joins racing the shutdown; `run` waits for a remote answer |
| handlers (`proxyhub/handler_grpc.go`) | information of a node, channel that announces its next change | `Hello`, `UpdatedEgressWhitelist`, `Info`, `Disconnect`, `SendDisconnect` | value and channel must be read together |
| publishers (`cmd/proxyhub/main.go`, `OnProxyAdded`) | one goroutine per proxy | publish, republish, delete | the goroutines of two proxies with one ID are not ordered |
| `ClientTransportHandler` (`proxyhub/client_transport.go`) | one session per client, a goroutine per stream, the control server | accept, read the header, serve gRPC or queue at a proxy, shut down | a stream no proxy takes holds up the end of the session |
| catalog service (`proxyhub/client_catalog_grpc.go`) | a subscription per stream | `WatchProxies` | a subscriber that is evicted or lost |
| `Proxynode` (`proxynode/proxynode.go`, `handler_grpc.go`) | one connection, flag, error and channels, the gRPC client | `CloseWithError`, `exitErr`, `UpdateEgressWhitelist`, `Disconnect`, the goroutine `run` | flag and error are set apart from each other; the Disconnect handler waits for the `run` that serves it |
| `cmd/proxynode` (`main.go`, `reconnect.go`) | configuration and its change channel, back-off, stage of the interrupt | connect again, send a new whitelist, stop | callbacks assigned after `New`; changes that arrive before the client exists; two channels that tell of one session |
| `proxyclient.Transport` (`proxyclient/transport.go`), `proxytunnel` | shared session, control client, flag, error, Onces | `CloseWithError`, `cleanup`, `ensureControlClient`, `OpenProxyStream` | three locks and a Once, held over waits |
| `proxycatalog.Client` | a connection at a time, the bounded `eventsCh` | connect, receive, `Close` | sends without an alternative; reconnection loses events |
| `cmd/proxyclient` | | the `list` and `proxy` commands | they read channels that are being closed |
| `WSStream`, `proxydialer`, `socks`, `util.Copy2` | pipes, pumps, two Onces | read, write, close, copy both ways | bytes in flight at close; a Once spent on the wrong connection |
| `transport` (`header.go`) | none | header of a stream | which headers reach the other end |
| configuration, logging, metrics, `pb` | none of their own | | parsing, output, generated code |

How they interact: `/join` builds a `Proxy` and hands it to the hub's `run`; the
hub calls `CloseWithError` on a proxy it replaces or stops, and learns of its end
from a watcher blocked in `Wait`; `OnProxyAdded` starts the publisher, which waits
on the proxy's `CloseChan` and the handler's change channel and calls the manager;
the manager's subscribers are HTTP and gRPC handlers. A client's request looks the
proxy up in the registry and calls `QueueConn`; the proxy's `run` starts one
goroutine per connection, which runs `bridgeConn`. At the other end of the stream
the node's handler runs the SOCKS server, which dials the target and runs `Copy2`.
A client reaches the hub over one session: its control stream carries the catalog,
its other streams are tunnels to proxies.

What makes each part correct is listed with the runs below; what is hard to test
in it is the list `hazards` of `PROJECT.json`, each at its line.

## 2. The modules

| Module | Models | State and actions in the code's terms |
|---|---|---|
| `EntityEvents` | the values of `entevents` | catalogs and events; `Ignored` and `Processed` are the switch of `processEvent`; `Replay` and `Knows` are the reader's side |
| `EntEvents` | `entevents.Manager` | one action per case of `run`'s select with everything the case calls (a broadcast with its evictions is one step: only `run` touches the maps, and a reader only its own channel); `QueueEvent...` is `queueEvent`; `SubscribeCall` to `SnapshotEnd` are the handlers and the two goroutines `Subscribe` starts; `CloseMark`, `CloseSignal`, `CloseWait` are `Close` between its points of interleaving |
| `ProxyLife` | what a proxy promises | a life (open, ending, over), one reason, the connections served |
| `Proxy` | `proxyhub.Proxy` | `CloseWithError` in four steps per caller, `exitErr`, the phases of `run`, each connection from `QueueConn` to the end of its bridge |
| `Bridge` | `bridgeConn` | both copies in units, each a read and then a write, the two ends as readable and writable flags, `closeConn`, `closeStream`, `closeBoth`, the drain timer. `halfClose` says which kind of connection the client has: a yamux stream, whose `Close` ends one direction, or a WebSocket or pipe, whose `Close` ends both |
| `Hub` | `Proxyhub` | `run` by its program counter (`lookup`, `disconnect`, `closeOld`, `waitOld`: the replacement loop blocks twice), the watchers, the stop goroutines, `Close`. A proxy is seen through `ProxyLife`, plus the flag that decides which caller of `CloseWithError` has to wait |
| `HubCatalog` | registry, handlers, publishers and catalog together | extends `Hub`; the manager is reduced to `Ignored` and `Processed` of `EntityEvents` |
| `Node` | `Proxynode` | `run` by its phases (`dial`, `control`, `hello`, `accept`, `drain`, `done`) with the failure of each, `CloseWithError` for its three callers, `exitErr`; `HubHello` is the hub's handler. Whitelists are the number of the configuration they come from |
| `NodeMain` | `cmd/proxynode` | extends `Node`; `main` is the place of the loop: `top`, `hooks` (between `New` and the callbacks), `select`, `update`, the two ways to close, `backoff`. One action per case of the select; the interrupt goroutine is `Interrupt`, `ForceStop`, `Kill` |
| `ClientSession` | `Transport` and `Tunnel`, the `proxy` command, `HandleSession` | the two ends of one session. `pc` is the place of `run`, of the goroutine that waits for the context and of the user's `Close` in their common sequence store, signal, cleanup, wait; the proxy command ends when its listener is closed or fails (`LoopBreaks`); `handler[s]` is the hub's goroutine of stream `s` |
| `CatalogClient` | `proxycatalog.Client`, the `list` command, `WatchProxies` | extends `EntityEvents`; `wire` is what the hub has sent, `eventsCh` the client's channel, `view` what a reader that applies every event holds. `legacy` chooses between the control stream and server-sent events |
| `Splice` | `Copy2`, `Socks5Server.ServeConn`, the legacy dialer, `WSStream` | `owner` chooses the caller; `copy[d]` are the two `io.Copy`, `pump` the write pump of the WSStream, `seen` the cases the select has been through, `closeA` and `closeB` its Onces |
| `EntEventsProofs`, `ProxyProofs`, `HubProofs`, `BridgeProofs`, `SpliceProofs`, `NodeProofs`, `ClientSessionProofs`, `CatalogClientProofs` | theorems about the modules they extend (`HubProofs`: `Hub` and `HubCatalog`; `NodeProofs`: `Node` and `NodeMain`) | see section 5 |
| `MC...` | instances for TLC | |

`Hub` relies on `ProxyLife`, and `Proxy` is shown to implement it, by TLC and by
proof. `HubCatalog` and `EntEvents` share the meaning of events through
`EntityEvents`: the first is about what reaches the manager's catalog, the second
about what reaches its subscribers, `CatalogClient` about what a client that comes
and goes makes of it.

Definitions that are named `Something_Variant` are deliberately wrong variants of
`Something`: each stands for a plausible mistake in that code and is used to see
that a property notices it. No specification uses them.

Abstractions: message contents are model values; the context of the process, the
sessions, the clients and the nodes act on their own. A rendezvous on an
unbuffered channel is one step. In `Proxy`, the goroutines `exitErr` starts are
represented by one: all of them make the same call, and the ones that lose the
race return. In `Hub`, setting the flag and the error of a proxy is one step; an
error recorded in between by `exitErr` is the order in which `NoticeSession` comes
first. In `Node`, the second step of `CloseWithError` stores the error and closes
the channel: nobody reads one between the two. In `CatalogClient`, `Close` is one
step up to its wait, because it holds `shutdownMu` all along. The jitter of the
back-off is left out: it does not change the base delay. In `Splice` the stages of
the SOCKS handshake are kept, not its bytes.

## 3. The runs

All instances are small because the code treats nodes, clients and connections
alike, and its conflicts need two or three of them; where a theorem covers the same
property, it holds for any number.

| Run | Instance | What it shows |
|---|---|---|
| `entevents_safety` | 2 ids, 1 stream, buffer 2, 1 publisher, 2 closers | `NoLostUpdate`: a registered subscriber that reads on ends with the manager's catalog; `NoPanic`: no send on or close of a closed channel; `ServedOrClosed`: nobody is forgotten; `CloseOrder` |
| `entevents_live` | 1 stream, 1 request, 1 publisher, 1 closer, buffer 1 | `CallersReturn`: publishers and snapshot requests are answered; `CancelReachesReader`, `CloseEndsEveryStream`. The content of events cannot matter to who waits for whom, so there are no entities: publications are ignored and evictions come from pings |
| `proxy` | 2 outside closers with different errors, `exitErr`, 2 connections | `NoDoubleClose`, `RefusalHasError`, `DrainedBeforeClose`, `ImplementsLife` (refinement), `SessionEndNoticed`, `CloseTerminates`: with the context even if the connections never end, with the session if none is being bridged, and when all have ended, `QueueConnReturns` |
| `bridge` | 2 units each way, both kinds of connection | `DrainsInTime`: what was sent before the end of input arrives in both directions, as far as the connection can be half closed, and is counted exactly; `BridgeReturns`, with no copy left behind: when the context or a direction ends, and when one side is lost and the other reads |
| `bridge_localdrain` | the same | expected violation, finding 2 |
| `hub` | 2 nodes with one ID, 1 closer | `SoleOpenPerID`, `RemovedOnce`, `NoneLeftOpen`, `ErrorMeansTeardown`, `LosesEntryForCause`; `DeadNodeIsReplaced` and `CloseReturns`, both as long as no proxy drains for ever (`CloseReturns` also without, once the context ends); `JoinAnswered`, `OverIsUnregistered` |
| `catalog_settled` | 2 nodes with one ID, 2 values of their information | `ListedIsCurrent`: once everything is settled no entry is stale; `SoleIsListed`: a proxy that never had a rival is listed with its current information |
| `catalog_replaced` | the same | expected violation, finding 1 |
| `node` | any number of connections, 1 stream at a time, 2 configurations, delays 1, 2, 3 | `WhitelistReaches`: the hub has the current whitelist when nothing is pending; `StopsOnlyWhenAsked`; `BackoffJustified`; `InterruptStops`: no kill is needed; `Reconnects`: after every loss, once the handlers of the streams have ended |
| `client` | 2 streams, 4 kinds of header, 2 callers of `CloseWithError` | `LossIsReported`: the command never takes for success a loss of the transport that has been signalled; `TransportCloses`; `SessionReturns` |
| `catalogclient` | 1 id, 2 values, `eventsCh` 2, wire 1, both forms | `ViewIsCurrent`: right again after every reconnection; `NoNilEvent`; `CatalogCloseReturns` |
| `splice` | 3 units each way, both callers | `LossBound`: at most the unit in the pump is lost; `SpliceEnds`: always once both connections are closed, and after a first end if no peer stays without reading |

Bounds: `Buffer` (32 in the code) is 1 or 2, the values at which a channel is full
after a step or two; `MaxUnits` 2 is the least at which something is copied and
something is left. Two nodes under one ID are the least at which a replaced proxy's
late removal can meet its successor. `MaxConfig` 2 lets a change meet every phase of
a connection, and `MaxDelay` 3 makes the third delay the capped one (30 s against
1, 2, 4, 8, 16 in the code); connections and reconnections are not bounded.
`MaxStreams` 2 gives a duplicate control stream, or a tunnel beside the control
stream. `EventsCap` 2 (128) and `WireCap` 1 fill both channels. `Units` 3 is one more
than a queue of two would hold. Deadlock is not checked: all of these components may
stop.

Type invariants are proved for every module (section 5); the runs spend their
properties on behaviour.

### What the code does not guarantee

Some properties carry a condition; the condition is the code's.

* When `run` of the manager leaves with its context, channels stay open and callers
  without a context of their own wait until somebody calls `Close`.
* `SessionEndNoticed` needs the node's `Hello`: the first wait of `Proxy.run` does
  not select on the session.
* `SendDisconnect` has no deadline, so `Hub.run` can wait as long as a live node
  does not answer; `JoinAnswered` and `OverIsUnregistered` assume (`NotStuck`) that
  this wait and the drain of the old proxy end again and again.
* When the context of the process ends, a watcher may unregister a proxy nobody has
  closed (`NoneLeftOpen`, `SoleOpenPerID` exclude it).
* A node's connection can end without an error when the hub's `Disconnect` has set
  the flag of `CloseWithError` and not yet its error; the reconnect loop takes that
  for a wanted shutdown and the node stays away (`StopsOnlyWhenAsked` names exactly
  this case).
* A configuration change that comes before `Hello` has returned may be dropped, or
  be overwritten by `Hello`, until the next change or connection (`early` in
  `WhitelistReaches`).
* A session established before `OnConnected` is assigned does not reset the back-off:
  the loop takes it for a failed attempt (`missed` in `BackoffJustified`).
* A peer that stays connected and does not read is noticed by nobody. When a node's
  session is lost while `bridgeConn` is writing to such a client, and the client sends
  nothing, neither copy touches the dead stream: no result comes, the drain timer is
  never started and the bridge stays until the context ends (`Stalled` in
  `BridgeReturns`). `Proxy.run` waits for it (`CloseTerminates` asks that nothing be
  bridged), the hub's `run` waits for that proxy when it replaces it and `Close` when it
  stops (`Drains` in `DeadNodeIsReplaced` and `CloseReturns`). At the other end a handler
  that writes to a target that does not read keeps a node whose session is lost in its
  drain, so that it does not connect again (`conns = 0` in `Reconnects`).
* An `Accept` of the `proxy` command's listener that fails by itself is only logged, and
  the command ends with success (`LossIsReported` allows it while `shutdownCh` is open).
* A control client opened in the gap of `cleanup` is never closed, and a legacy
  catalog client waits in `Close` for a request that is not answered
  (`CatalogCloseReturns` excludes the latter).
* The `list` command may take the first event before it looks at `Ready` and then
  fails; `--watch` ignores the init event of a reconnection.
* `Copy2` guards the close of each connection with the Once of the other: when the
  context ends between the two copies, one connection is left open. The SOCKS server
  closes both itself; the legacy dialer leaks one (`OnceCrossed` in `SpliceEnds`). If the
  peer on the connection left open does not read, the copy that writes to it is never
  ended, and `Copy2` does not return for either caller (`Stalled` in `SpliceEnds`).
* `WSStream.Write` returns before the bytes are on the WebSocket, so `Close` may lose
  one unit (`LossBound`).

### Findings

1. *A live proxy can be missing from the catalog* (`catalog_replaced`). A node
   reconnects under its ID. The new publisher's `Add` is ignored while the old entry
   is there, then the old publisher's `Del` removes it; later updates of the new
   proxy are ignored too. `cmd/proxyclient/main.go:59` calls the list made from this
   catalog "List available proxies".
2. *Client data is cut after the node's end of input* (`bridge_localdrain`). For a
   connection that cannot be half closed, `closeConn` at `proxyhub/proxy.go:291`
   ends the direction that is supposed to drain. The test
   `TestBridgeConnAllowsLocalDrainAfterRemoteEOF` (`proxyhub/proxy_test.go:43`) uses
   such a connection and expects the data to arrive.

## 4. Fairness

Weak fairness on every step a goroutine can take by itself: the Go scheduler runs
it, and a select with several ready cases draws at random. Strong fairness only on
`RunNew` and `RunRemoval` of the hub: `run` comes back to its select again and again,
and senders on an unbuffered channel are served in order. Nothing is assumed of the
environment: no client reads, no node answers, nobody closes anything or ends a
context unless the property's premise says so. Two steps depend on a remote peer and
are fair only when the peer is known to be gone (`Unreachable` in `Hub`; `OpenStream`
with the session closed in `Proxy`): that is when the library calls return an error. A
bridge in `Proxy`, and with it the end of a proxy in `Hub`, is fair only when the context
is done. In `Bridge` the timer fires, a copy reads what has arrived and notices an error
of the call it is in, and no write is assumed to succeed.

In `NodeMain` the loop's select is strongly fair to the interrupt and to the end of
the connection: other cases may be ready as well, and select draws at random. The
timers of the interrupt fire; a dial and a call end with their context; no handler of a
stream has to end, no connection has to come up, no hub has to answer, and
the process is never assumed to be killed. In `ClientSession` one end of a session
learns in time that the other is gone (yamux sends keep-alives), a header is read or
times out, and no proxy has to take a stream. In `CatalogClient` the end of `run` is
strongly fair against the ticker for the same reason as above; connecting gives up
with the context, or with the shutdown in the newer form. In `Splice` no peer has to read,
send, finish a handshake or close. Where a property needs peers that read, its premise
says so (`[]<>~Stalled`, `Drains`).

## 5. The proofs

`ProxyProofs`: for any set of callers of `CloseWithError`, any errors they pass and
any finite set of connections,

* `TypeCorrect`, `ClosesOnce`, `RefusesWithError`, `DrainsFirst`: the invariants of
  run `proxy`;
* `Refinement`: `Spec => ImplementsLife`.

None of the invariants is inductive. `IInv` adds `OneCloser` (at most one caller is
past the flag, and what has been stored and closed at each of its steps) and
`Counted` (the WaitGroup equals the number of connections being served; once the
drain is over there are none, or the context is done). The refinement takes each
step to one step of `ProxyLife` or to a stutter under `IInv`.

`EntEventsProofs`: for any ids, entities, publishers, subscribers and closers and any
buffer of at least one event, `TypeCorrect`, `Complete` (`NoLostUpdate`),
`StartsWithInit` (the init event comes first in every channel), `NeverPanics`, `NobodyForgotten` (`ServedOrClosed`)
and `ClosesInOrder`. `IInv` adds `Channels` (a subscriber that was not taken has an
untouched channel; a registered one has its init event in the channel or behind it;
an init event carries a catalog) and `Closing` (the holder of `shutdownMu`). The core
is three lemmas about `Knows`: a new event about an id settles it (`KnowsNew`), one
about something else leaves it (`KnowsOther`), and reading the next event changes
nothing (`KnowsRead`). `BroadcastDelivers` combines them for everyone at once: whoever
is still registered has the event, whoever is not has a closed channel.

`HubProofs`: for any proxies, any assignment of IDs to them and any callers of
`Close`, `TypeCorrect`, `SoleOpen` (`SoleOpenPerID`), `RemovedAtMostOnce`
(`RemovedOnce`), `NothingLeftOpen` (`NoneLeftOpen`), `ErrorOnlyAtTeardown`
(`ErrorMeansTeardown`) and the action property `EntryLostForCause`
(`LosesEntryForCause`). The registry alone says too little: an open proxy is not in it
while `run` replaces it. `IInv` follows a proxy through the goroutines that can end it:
`Roster` (added, watched, joined and registered, related), `Replacing` (the ID of a proxy
being replaced has no entry), `OpenIsKept` (an added, open proxy is registered or is the
one being replaced), `Watched`, `Stopping` (the goroutines of the shutdown are exactly
those of the proxies left in the registry), `Reasons` (which errors a proxy can have) and
`RemovedBy` (who reported a removal is done). On top of it `CatalogIInv` proves
`ListedAreCurrent` (`ListedIsCurrent`) and `SoleAreListed` (`SoleIsListed`), with
`Published` (how far each publisher is, and that what it sent is current unless a change
is announced) and `Listed` (every entry has a publisher that will delete it; an entry can
be spoilt only by a rival whose `Del` is still to come). That a *replaced* proxy is listed
is false, which is finding 1.

`BridgeProofs`: for any number of units, `TypeCorrect` and `Drains` (`DrainsInTime`).
`OpenEnds` says which of the four half connections is open at each point of `bridgeConn`,
so that a copy that ends did so at its end of input; `EndedWhole` keeps that it was
complete, `Recorded` that it was counted.

`SpliceProofs`: for any number of units and both callers, `TypeCorrect` and `LossBounded`
(`LossBound`). `Owes`: as long as its output is there, a copy owes what it and the pump
hold; `NothingClosed`: `Copy2` closes nothing before a case of its select.

`NodeProofs`: for any number of configurations and streams and any delays, `TypeCorrect`
(the delay within its cap), `WhitelistIsCurrent` (`WhitelistReaches`) and the action
properties `StopsForCause` (`StopsOnlyWhenAsked`) and `BackoffIsJustified`
(`BackoffJustified`). `Asked` and `Ended` say which errors a connection can end with
and who has been there before, `Reset` when the callback has run and what the two channels of a session tell the loop,
`Current` where the newest whitelist is in each phase of a connection.

`ClientSessionProofs`: for any number of streams, `TypeCorrect` (with `Headers`: the hub
reads only headers it has a case for), the action property `LossReported` (`LossIsReported`), from `Stored`
(an error is stored before the channel is closed, and after its cause), and
`LocksExclude`: one call of `CloseWithError` past its guard, one goroutine in the Once of
`cleanup`, `controlMu` held exactly while one stream waits for its header.

`CatalogClientProofs`: for any ids, entities and capacities, `TypeCorrect`, `ViewCurrent`
(`ViewIsCurrent`) and `NeverNil` (`NoNilEvent`). `ViewIsCurrent` speaks of moments when
nothing is on its way; `Follows` says at every moment of a live connection that the last
word about an id, on the wire, in `run`'s hands, in the channel or in the reader's
catalog, is the hub's. The lemmas `AppendSays`, `TailSays` and `KnowsRead` say what
putting an event in and taking one out do to the last word. `Unread` carries `NoNilEvent`:
`run` pauses only after it has put an event in, and nobody takes one before the command
leaves its first selects.

Each inductive invariant was checked with TLC on a small instance before it was proved
(that of `HubCatalog` on a part of its states only, which are many).

Assumptions: the ones named in the modules, nothing else. `None` is neither an entity, an
id nor a catalog; capacities and bounds are positive; streams and requests are different
calls; `IdOf` gives every proxy an ID; the initial delay does not exceed its cap; finitely
many connections of a `Proxy`, whose callers pass errors. TLC evaluates all of them in the
runs.

Only model-checked: every liveness property (the prover does not treat fairness). The two
expected violations are counterexamples, which need no proof. Every invariant and every
action property of a passing run is proved.

## 6. What is not modelled, and the plan

Not modelled, and why:

* configuration, logging, metrics, authentication, printing and the commands' flags:
  parsing and output without state that anything else depends on; matching a target
  against the whitelist is a lookup in a glob library;
* the protocol buffers and the gRPC stubs: generated code; gRPC, yamux, WebSocket and
  the SOCKS5 client are libraries and appear through what this code relies on;
* encodings: server-sent events, the JSON of a stream header (what passes the limits is
  modelled, `Writable`), the bytes of the SOCKS handshake;
* in `cmd/proxyhub`, the setup of `/join` before `NewProxy` (it leaks goroutines when it
  fails half way, see the hazards), the routes that only look a proxy up and queue a
  connection (`QueueConn` is in `Proxy`), and the shutdown sequence of `main`, which
  calls the `Close` methods modelled here in goroutines of their own;
* the reload of the hub's configuration, a plain assignment that the handlers read without
  a lock: the race is the whole behaviour, and no property follows from it;
* the fallback of `util.DialProxyContext` for dialers without a context: nothing in the
  repository passes one;
* the legacy proxy handler and the message of the day, which change nothing.

Next, proofs: abstract specifications for two more components, with the refinement
proved as for `Proxy`. What a subscriber promises (`view` is some earlier catalog and
catches up) could be shared by `EntEvents` and `CatalogClient`; the hub's registry could
be shown to implement a map from IDs to lives.
