# A TLA+ development for airpc

airpc publishes private services through a public *edge*. A *connector* beside
the services holds no listening port: it subscribes to NATS subjects and dials
one WebSocket, the *data tunnel*, to the edge. This project models the parts in
which goroutines, links and messages interleave, checks them with TLC on small
instances, and proves the safety properties with TLAPS for every instance.

## The system

| Part | State it keeps | Operations | Works with |
|------|----------------|------------|------------|
| `datatunnel.Session` | send credit, receive queue, consumed counter, done | SendData, SendEOF, AckData, Close | its Link, one consumer goroutine, one reader goroutine |
| `datatunnel.Link` | WebSocket, session table | Run/dispatch, Open, Accept, WriteFrame, Close | all sessions of one tunnel |
| `RelayConn`, `RelayWebSocket` | EOF flags, idle guard | select loop and reader goroutine | a session and a socket |
| edge `tunnelRegistry`, `dataHandler` | connector ID to link | register, unregister, get, closeAll | one handler goroutine per tunnel |
| edge `openDataSession` | none | NATS draw, open, retry until the timeout | NATS, registry, Link.Open |
| edge `serveUnary`, `serveStreamedResponse` | the request context | request over NATS, cancel, claim and relay a stream | NATS, registry, sessions |
| connector `tunnelClient` | current link, backoff | dial, redial, handleOpen | the edge's dataHandler |
| connector `httpProxy` | in-flight table | forward, cancel, streamResponse (pump, watcher) | NATS callbacks, backend, link |
| NATS client | | request-reply, publish, (queue) subscribe | external service |
| configuration, route matching, limits, envelopes | the loaded routes | Validate, matchRoute, readBounded, targetURL | every request, at both ends |
| `grpcobs.Observer`, edge `observedConn` | two bounded feeds, table of RPCs in flight | ClientBytes, BackendBytes, two parsers, Close | the goroutines of RelayConn, metrics |
| headers, metrics, CLI | mostly static | pure functions and I/O | |

What is hard here: flow control between four goroutines and two read loops;
half-close against close; a link lost at one end first; an HTTP reply over NATS
racing the stream over the tunnel; a cancel racing its request; timers racing
completions; reconnects whose old and new handlers overlap; an open racing the
close of its link; a WebSocket close frame racing the messages of both sides; two
parsers behind queues that drop. `PROJECT.json` lists each of them under `hazards`, at its line.

What makes each part correct:

* session, link, relay: the bytes out are a prefix of the bytes in, complete
  after a graceful end; the queue bound is never hit by a correct peer; the
  window never becomes a standstill; everything is released at the end;
* HTTP: a clean end means a complete body; every request is answered; cancels and
  disconnects stop the backend; the deadline binds headers and, once forward has
  returned, not streams; no request blocks its route for good;
* tunnels: connector and edge agree in the end on a live link; the registry is
  never stale; no session waits on a link nobody reads; every open is decided;
* WebSocket: messages keep their order and kind; a close status passed on is the
  original one and comes after every message;
* gRPC observer: never a misread byte, an invented RPC or one counted twice; it is
  over when its connection is;
* routing: a request reaches the backend of the route it matched, with the rest of
  its path, its query and its whole body, or is refused for a known reason.

## Modules

| Module | Models |
|--------|--------|
| `DuplexStream` | abstract: two ordered byte streams with ends, which may be cut |
| `TunnelSession` | one TCP/gRPC session: Session, Link and RelayConn at both ends |
| `TunnelSessionProofs` | its theorems on types, flow control and waiting for credit |
| `TunnelStreamProofs` | its theorems on the bytes: order, graceful ends, the refinement of `DuplexStream` |
| `WebSocketRelay` | one WebSocket session: RelayWebSocket at both ends, with close statuses |
| `WebSocketRelayProofs` | its theorems |
| `GrpcObserver` | observedConn, the two feeds, both parsers and the table of RPCs |
| `GrpcObserverProofs` | its theorems |
| `HttpExchange` | HTTP requests of a route: edge handler, connector callback, streamed bodies |
| `HttpExchangeProofs` | its theorems on calls, cancels and deadlines |
| `HttpBodyProofs` | its theorems on streamed bodies |
| `TunnelLinks` | tunnel clients, registry and handlers, session opens, session tables |
| `TunnelLinksProofs` | its theorems |
| `Routing` | configurations, route matching, envelopes, target URLs, body limits |
| `RoutingProofs` | its theorems |
| `MCTunnelSession`, `MCWebSocketRelay`, `MCGrpcObserver`, `MCHttpExchange`, `MCTunnelLinks`, `MCRouting` | instances for TLC |

**TunnelSession.** `sess`, `recv`, `credit`, `consumed` are the Session of each
end; `wire` and `linkOpen` the Link; `rd` is where the reader goroutine of
RelayConn stands, `main` where the select loop stands. Every blocking point is a
state, and each step between two blocking points is one action (`TakeCredit` and
`SendClosed` are the two cases of SendData's select, `ConnWriteOK` is conn.Write
with the touch and AckData that follow). Session.Close is two actions, since the
close frame is on its way before the session leaves the table. Chunks are
numbered, so order, loss and repetition are visible. `SkipCredit` in `RogueNext`
is a peer that ignores its window; it makes dispatch's `default` branch
(`Overrun`) reachable.

**WebSocketRelay.** Each end is one record of `end`: `main` and `rd` are the select
loop and the reader goroutine as above, `ws` the socket, `nread` and `out` the
messages read and written, `status` the status of the CloseError that ended
reading, `seen` what the application behind the socket was told. There is no
half-close here: the first end, whichever it is, ends both directions. The receive
queue and the wire are one sequence `chan[e]`, since TunnelSession's `NoOverrun`
says that dispatch never drops; window frames act when they are written. What
gorilla/websocket does is external and modelled from what the relay relies on: a
received close frame is answered at once, after which WriteMessage returns
ErrCloseSent, and a connection that just ends is a CloseError of 1006.

**GrpcObserver.** Bytes are units, two to a frame, so that a chunk can end inside a
frame; `put`, `fetched` and `parsed` are how far the relay, the feed and the framer
have come, and a queued chunk is the interval it holds, which makes a gap visible.
The preface, HPACK and framing are the library's: a frame decodes or is `bad`. The
two parsers share `started`, each under its own pace, and `Close` can come between
the relay's Read and its ClientBytes. `Atoi` gives the strings strconv.Atoi accepts:
statusCode hands on the string it was given, so `7` and `007` are two labels.

**HttpExchange.** `handler` is the goroutine of serveUnary and
serveStreamedResponse, `call` the position of forward in the route's serial NATS
callback, `pump` the goroutine of streamResponse. Reply, cancel message and
frames travel independently. A session is `lost` when its link was closed and
`closed` when only the session was; the difference decides whether its frames
still leave. The claim timer checks and closes in two steps, as the code does. So
does the deadline timer (`DeadlineFires`, `DeadlineCancels`): streamResponse starts pump
and watcher (`StreamOpens`) before forward's deferred Stop (`StreamReturns`), and Stop
does not recall a timer that has fired. A chunk for the client is taken from the queue
(`StreamData`) and written later or never (`StreamWritten`): w.Write has no deadline.
`Streamed` are the requests whose response may be one for shouldStream.
The window's arithmetic repeats that of `TunnelSession`; the connector's
receive queue is not a variable because nothing reads it.

**TunnelLinks.** Each successful dial makes a fresh link, whose edge handler goes
on by itself: a connector may redial while handlers of its older links have yet to
register or unregister. Link.Close at the edge is two steps (connection, table),
Link.Open is two (table, frame). Fresh links are alike, so a dial takes one of them by
CHOOSE.

**Routing.** One request at a time passes through both processes: `req` and
`match` are the handler's, `msg` the unary envelope or the open request, `backend`
the call the connector makes. Edge and connector load their own configuration
(`LoadEdge`, `LoadConnector`); a process whose configuration is refused exits, so
the run may stop. Paths are sequences over a tiny alphabet because matchRoute
compares strings, `MaxInt` stands for the largest int64 so that `parseBytes` and
`limit+1` wrap within reach. A path arrives as net/http has decoded it; targetURL's
ParseRequestURI, which is net/url's, parses it again: it ends the path at a `?`, decodes
what follows a `%` (`Unescape`, by the table `Hex`) and refuses control characters and
escapes that are none (`RefusePath`). Stable sorting and first match are one choice:
the matching route that no other matching one is sorted before.

## Runs

| Run | Result | Shows |
|-----|--------|-------|
| `session_live` | pass | no overrun, delivery of 7 chunks through a window of 4; graceful ends are complete |
| `session_teardown` | pass | refinement of DuplexStream; every end of a relay, by any of six causes, releases everything |
| `session_rogue` | pass | an overrunning peer loses the session, never a chunk in the middle |
| `ws_relay` | pass | messages in order and of their kind; a status passed on is the original, after every message; teardown |
| `ws_close` | violation | an application's close status is lost when a message for it is written first |
| `grpc_observer` | pass | parsers stay in step through overflow; RPCs are genuine and counted once; queued bytes are drained, parsers released |
| `http_request` | pass | clean end is complete, tracking, queue bound, what the deadline may still cut; handlers settle, readers see the end, link loss stops the backend read |
| `http_pair` | pass | the serial callback gets to every queued request |
| `http_disconnect` | violation | a client leaving mid-stream does not stop the backend read |
| `links` | pass | registry never stale, no orphaned session; reconnects converge, late registrations included; every open is decided |
| `routing` | pass | the matched route's backend gets the rest of the path, the query and the whole body, within the limit |
| `routing_vhost` | violation | the guide's virtual hosts with `public_prefix: /` refuse every path but `/` |

Each property of a passing run has a mutant of the code (operators commented
"Mutant") that breaks it. The three violations are described under `findings`,
with the sentence of the documentation they contradict.

**Bounds.** `Chunks`, `Messages` and `Body` bound the data and exceed the window
wherever blocking on credit matters: window 4 with 7 chunks against 1 in
`session_live` (two acknowledgement rounds and a remainder, no faults), 2 with 6 in
`session_rogue` (the queue's capacity of 4 is exceeded), 2 with 3 in `ws_relay` and
in the HTTP runs. `session_teardown` relays one chunk: its subject is the order of
closes under six faults. `http_pair` has empty bodies and one response that may stream: its subject is the
queue.
`ws_relay` has two statuses, so that a wrong one shows, and seven faults; `ws_close`
one message each way and no fault at all. `grpc_observer` has a queue of 2 and
chunks of up to 3 units, so that queues overflow and frames of 2 units are split
between chunks, and three connections: HTTP/2 with trailers and RST_STREAM on
several streams, one that becomes undecodable, and one that is not HTTP/2.
`MaxBreaks` = 1 with three links lets the old link's handler register late
and displace the new link, which takes a third dial; more breaks repeat the
pattern. Backoff bounds of 2 and 3 make the cap one that doubling does not meet.
`sendWindow` is 32 in the code; the proofs cover it. `routing` takes every pair of
13 routes (prefixes that are string prefixes but not segment prefixes of each
other, with and without a final slash, exact paths, hosts, both modes, equal and
different names), sizes at each edge of a 4-bit int64, paths with an escape that decodes
to a slash, two that do not decode and a control character, and connectors with another
configuration. `routing_vhost` has the configuration of the guide and two paths.

**Fairness.** Weak fairness stands for the Go scheduler and for timers: a
goroutine that can run runs, a timer that is armed fires, a read loop takes what
has arrived and notices a dead peer. Sockets, clients, the backend and NATS get
none, but for the writes named next: they may fall silent for good. `FairSpec` of TunnelSession adds that
conn.Write returns (the socket reads on or fails), and that of WebSocketRelay the
same for WriteMessage, that opens and dials are decided by their timeouts, and that
a read from a socket closed by the relay itself returns; whether an application
sends or closes is left to it. The parsers of GrpcObserver are goroutines that run;
the connection need not send or end. In HttpExchange `StreamWritten` has none: a client that stays connected and
does not read keeps its handler in w.Write, and `ReaderSeesEnd` says so. The callback has
fairness although it waits for the backend only
where its context is cancelled or the call has returned: headers arrive by an
action without fairness, and the deadline timer bounds both the wait for them and
the inline body read. Strong fairness on DialOK says
that of infinitely many dials to an edge that is up one succeeds.

## Proofs

`TunnelSessionProofs` assumes a window of at least two, a slack of at least two,
any amount of data and any faults (`WindowAssumption`, `SlackAssumption`,
`ChunksAssumption`, `FaultsAssumption`).

* `TypeCorrect`: `Spec => []TypeOK`.
* `FlowControl`: `Spec => []FlowInv`. `NoOverrun` is not inductive: the length of a
  receive queue says nothing about what is under way to it. `FlowInv` counts for
  each direction all the places a credit token can be (`CreditConserved`), the
  control frames written and still to be written (`ControlBounded`), and the facts
  that keep these counts: the session opens once, the reader starts after the dial,
  only data and control frames are queued, window frames carry exactly one
  acknowledgement unit. Each action moves a token from one place to another;
  lemmas on `Count` say what appending, taking and clearing do to the counts.
* `Unreachable`: `Spec => []NoOverrun`. A queue that were full would hold
  `SendWindow + RecvSlack` frames beside the one arriving, more than the tokens and
  the two control frames allow.
* `NeverStandsStill`: `Spec => []NoStandstill`, the safety half of `Delivered`. While both
  links are up and both sessions registered (`Intact`), a reader that waits for credit,
  with a peer that has not left its select loop, has a data frame or a window frame under
  way. `CreditConserved` says that tokens are never made; here `NothingLost` says that
  none disappears: WriteFrame succeeds, addSendCredit's cap is not reached, and dispatch
  drops nothing, because a session not yet in the table has its open frame first
  (`OpenAhead`) and one that was removed does not come back (`Unopened`). AckData
  withholds less than `AckThreshold`, which is at most the window.

`TunnelStreamProofs` adds, from the same assumptions, what the sockets receive:

* `StreamOrder`, `RogueOrder`: `Spec => []InOrder`, and the same for `RogueSpec`, where a
  peer ignores its window. `InOrder` speaks of what was written and says nothing of
  the frames that come next. `StreamInv` takes, for each direction, the receive queue
  and the wire behind it as one queue (`Pipe`), numbers its data and eof frames, and
  says that they continue what the relay has taken without a gap (`Chain`) and, while
  the sender can still write, that none is missing at the end (`Full`). Every action
  leaves the queue, appends the next item, takes the first frame, drops a frame that is
  no item or cuts the queue off; one lemma for each says that a chain stays one.
  `Overrun` is the last kind: dispatch removes the session with the frame.
* `Refinement`: `Spec => ImplementsStream`, the steps of RelayConn mapped to those of
  `DuplexStream` or to stuttering. A step that sees the end of a stream maps to the
  abstract one because `StreamInv` says that everything was written before it.
* `GracefulEnd`: `Spec => []GracefulComplete`. `GraceInv` says that without faults a socket
  is closed only by a relay that has ended, which has seen both ends, and that a
  close frame is under way only from a relay that has ended and with no data or eof
  behind it.

`TunnelLinksProofs` holds for any finite sets of connectors, links and sessions (`SetsAssumption`):

* `LinksInvariant`: `Spec => []LinkInv`. `NoOrphan` needs `ClosedFirst` (a handler
  that is closing has closed its connection, so no later open can write) and `Held`
  (a session is in its table until it is marked done).
* `RegistryNeverStale`, `NoSessionOrphaned`: the two parts a reader wants.
* `LinksTypeCorrect`: `Spec => []TypeOK`, the bounds of the backoff included.

`GrpcObserverProofs` holds for every queue size, every cutting into chunks and every
connection that uses a stream identifier once (`StreamAssumption`):

* `TypeCorrect`: `Spec => []TypeOK`. Its content is the labels: a method is `other` or
  matches the pattern; a code is `invalid`, `canceled` or a string that Atoi reads as 0 to
  16, in the backend's spelling. The codes are therefore not a bounded set, and nothing
  claims that they are: docs/guides/observability.md:58 bounds the method label only.
* `ObserverInvariant`: `Spec => []ObserverInv`. `InStep` speaks of the head of a queue
  only; `FeedInv` says that all queued chunks are consecutive and that, until a feed
  is dead, the last one ends where the relay stands. `TableInv` says of the table
  what `Genuine` and `CountedOnce` say of the records: an entry was opened with its
  method, and its stream has not been counted. The backend's parser uses it when it
  moves an entry from the table to the records.
* `ParserInStep`, `RpcsGenuine`, `RpcsCountedOnce`, `DrainedAtEnd`: the four parts.

`HttpExchangeProofs` holds for any number of requests, any window, body and faults:

* `CallsTracked`: `Spec => []CallTracked`. It is not inductive: a request delivered
  twice would leave its callback while it is still pumping. `CallInv` adds that the
  queue holds a request at most once and only before its call, that the pump starts
  when forward is about to return, and that a deadline is armed only inside the callback.
* `DeadlineDetached`: `Spec => StreamOutlivesDeadline`, an action property: once forward
  has returned its timer does not expire, by `CallInv`; each step that cancels a running
  pump is looked at, and the deadline's is one only where the timer had fired before.

`HttpBodyProofs` holds for any finite number of requests that share a link, any window
of at least two, any body and faults:

* `BodyInvariant`: `Spec => []BodyInv`. `CleanEndComplete` looks at the end only;
  nothing in it says what is under way. `BodyInv` counts the frames of each request in
  every queue: credit, data frames, chunks written and not acknowledged (`Unacked`, the
  one in w.Write included) and returned windows never exceed the window, the
  eof, the close or error frame and the open are each under way at most once
  (`Counted`); a chunk read is in the pump's hands, under way or with the client as
  long as the session is reachable (`Whole`); nothing of a session is before its open
  frame (`OpenFirst`) or, but for a close or error, behind its eof (`EofLast`).
  `SessionOf` and `LinkFrames` tie sessions to pumps, frames to sessions and queues to
  links; `CallInv` says that a session opens once.
* `CleanEndWhole`, `ReceiveBounded`, `ExchangeTypes`: the handler that takes the eof finds
  no data behind it, so all chunks read are with the client; the counts bound the receive
  queue; `EdgeTypes` adds the types of the handler's other variables.

`WebSocketRelayProofs` holds for every window of at least two, any messages and
statuses of the two applications and any faults:

* `RelayInvariant`: `Spec => []RelayInv`. The properties speak of what has reached a
  socket; they need to know what is under way. For each direction, `Channel` says that
  up to the first close or error frame the channel holds the messages that continue
  those taken out (the open frame leads it until the connector takes it), that a
  close frame with a status carries the sender's and that all its messages were
  before it, and that a plain close frame is never first after `CloseWithCode`.
  `UpToDate` says that nothing is missing while frames get through: the last message
  under way is the last one read, less the one waiting for credit. `Right`, `Silent`,
  `Ending` and `Passed` say the same of the message held, of an end that has not
  started, of how an end ends and of what it was told. `TakeClose` uses all of them:
  the close frame it finds first is the sender's status, with every message written.
* `RelayTypeCorrect`, `MessagesInOrder`, `StatusLast`, `StatusNeverLost`: the types and
  the three safety properties. The proof has a lemma for what each action does to the
  two records and channels, then one for the direction in which the acting end sends
  and one for the direction in which it receives.

`RoutingProofs` holds for every configuration, request and answer of the types YAML and
net/http give them, and for integers of every width (`MaxIntAssumption`):

* `RoutingInvariant`: `Spec => []RoutingInv`. The properties compare the two ends of a
  request's way; the invariant says where each variable came from: a process that is up
  has validated its configuration, `match` is a route of it that matches and that no
  matching one exceeds (`ChosenFor`), `msg` has its name, mode, the
  rest of the request's path and, below the limit, the request's body (`Carries`),
  `backend` is the connector's route of that name with the path and query targetURL makes
  of `msg` (`CallOf`).
* `PathPreserved` (`Spec => []PathKept`): for a request that a prefix matched, without
  `?` and `%` in its decoded path, the path the backend is called with has the
  segments of its target's base followed by those the client sent after the route's
  prefix, and the query is the client's. A position of a path belongs to the segment
  with as many slashes up to it (`SegmentNo`); the lemmas show that the segments of a path
  followed by one that starts with a slash are those of the two (`SegmentsConcat`), that
  trimming the slashes at the end of a base takes off its last empty segments
  (`TrimmedSegments`), that targetURL undoes
  withQuery for a path without `?` and `%` (`TargetOfQuery`), and that what routing cuts off is the
  prefix's segments (`SuffixSegments`). A target's base path is taken to be empty or
  to start with a slash: `url.Parse` gives no other to a URL with a host.
* `RoutingTypes`, `BackendOfMatch`, `LongestWins`, `RefusedForCause`, `WholeBodies`,
  `LimitEnforced`: the consequences. The lemmas under them are about the code's
  functions: that a stable sort has a first match among any matching routes
  (`FirstOfFound`), that a limit is positive and `readBounded` whole below the largest
  integer (`ReadBoundedWhole`), that a product that wraps to zero exceeds every
  int64 and one that wraps to more than zero is a smaller limit (`WrapBelow`,
  `ParseBytesRange`), that the rest of a matched path starts with a slash
  (`SuffixRefused`), that a validated name has one route (`NamesUnique`). What is
  induction over the routes is done with least elements (`LeastNatural`). `RefusedForCause` is about
  `RefusedCause`, which is `RefusedOnly` and the one further cause that `routing_vhost`
  shows: there is no other.

`FlowInv`, `TokenInv`, `StreamInv`, `GraceInv`, `LinkInv`, `ObserverInv`, `CallInv`,
`BodyInv`, `RelayInv` and `RoutingInv` are the inductive invariants. Each was checked with TLC
before its proof; the runs check what follows from them.

Only model-checked: liveness (`Delivered`, `Teardown`, `Released`, `HandlerSettles`,
`ReaderSeesEnd`, `LinkLossStopsPump`, `QueueDrains`, `Converges`, `OpenSettles`),
which rests on fairness and is out of the prover's reach (of `Delivered` the safety half
is `NeverStandsStill`). Every invariant the passing runs check is a theorem. `RefusedOnly`,
`CloseRelayed` and `DisconnectStopsBackend` do not hold.

## Where the code and its texts differ, without a run

The passing properties carry these as explicit exceptions:

* `LongestPrefix`: "Longest prefix wins across routes" (docs/configuration.md:92) holds
  within a mode and for routes with one pattern. WebSocket routes are tried first
  whatever their length, and a route with both patterns is sorted by their sum.
* `PathKept`: an escaped `?` in the path becomes the start of the query, and an escaped
  `%` is decoded twice: `/%2541` arrives as `/A`, and `/%25zz` is answered with 502, or with
  the close of the WebSocket (connector/proxy.go:230). A match by `public_path` calls the
  target's path with a `/` behind it: `/rpc/` and `/ws/`, where docs/guides/expose-http.md:60
  says "hit `/rpc` on the backend" and docs/guides/expose-websocket.md:18 has a target
  `/ws`. Line 43 of the former, "forwards it as `/`", is what the code does.
* `StreamOutlivesDeadline`: a streamed body is under the deadline until forward has
  returned, and a timer that has fired by then may cancel it afterwards. The comment at
  connector/proxy.go:114 lets a body "detach from the deadline once headers have been sent",
  and docs/guides/expose-http.md:84 lets it "run as long as it likes".
* `ReaderSeesEnd`: a client that stays connected and does not read keeps its handler, and
  the session with it, for as long as it likes (edge/edge.go:371).
* `BodiesWhole`: a limit of the largest int64 makes every body empty.
* `WriteOpenFails` in TunnelLinks: an open on a dead link that is still registered fails at
  once, although the comment at edge/data.go:165 says a tunnel that "dropped between
  accept and open" is retried.

These are left to a sentence because the models show them without a property:

* The idle timeout does not bind while conn.Write blocks: the timer's channel is
  read by the select loop that is in the Write (datatunnel/relay.go:67 and 81;
  docs/architecture.md:76 promises the close of idle sessions).
* A cancel message that overtakes its queued request finds no entry in the in-flight
  table and is lost, so the backend is called for a client that has left
  (connector/proxy.go:83; docs/guides/expose-http.md:89).
* The two parsers of the gRPC observer are not ordered: trailers parsed before the
  headers of their stream leave the RPC unrecorded, or recorded as canceled if an
  RST_STREAM follows, and its entry stays in `started` until the connection ends
  (docs/guides/observability.md:46 counts completed RPCs). An overflow silences only its own direction
  (docs/guides/observability.md:56 speaks of the connection).
* A WebSocket that ends without a close frame is relayed as a close frame with 1006,
  a status that RFC 6455 reserves for reporting.
* The edge opens a WebSocket session under the context of the request, which the
  upgrade has taken over: only the open's timeout ends it.

## Not modelled, and the plan

What later work would add, in this order:

1. safety parts of the other liveness properties that hold in every state (what a
   released relay, pump or parser no longer holds) as theorems;
2. connector shutdown, and the window between the upgrade and register in
   HttpExchange, where redialling is one step.

Left out for good: encodings (frames and envelopes are records), header filtering
(a pure function of names), metrics, TLS, YAML decoding, and the command line with
its end-to-end driver: static or pure output. The HTTP/2 and HPACK parsing of the
observer and the WebSocket protocol itself belong to libraries.
