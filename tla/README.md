# A TLA+ model of node-dubbo

node-dubbo is a TypeScript implementation of RPC over HTTP: a core
(`src/packages/dubbo`) with three protocols (Triple, gRPC, gRPC-web), a client
and server runtime for Node.js (`dubbo-node`, with plugins for Express, Fastify
and Next.js), transports for browsers (`dubbo-web`), counters
(`dubbo-observable`), and code generators.  This directory models the parts of
it that are hard to test: the HTTP/2 connection that all calls share, the life
of one HTTP request, the life of one streaming or unary call from end to end,
chains of asynchronous iterables, the reading of enveloped messages from
arbitrary chunks, the way of a request to its handler, the way of an error
through servers, calls from a browser, and the counters.

Paths below are relative to `src/packages/` unless they start with `src/`.

Contents: [inventory](#inventory) · [modules](#modules) · [runs](#runs) ·
[fairness](#fairness) · [assumptions about the outside](#assumptions-about-the-outside) ·
[proofs](#proofs) · [where code and documentation disagree](#where-code-and-documentation-disagree) ·
[not modelled](#what-is-not-modelled) · [plan](#plan)

## Inventory

### HTTP/2 session manager (`dubbo-node/src/http2-session-manager.ts`)

*State.* `this.s`: closed, error, connecting (a promise of a session), verifying
(a promise of a ready or connecting state) or ready (the session, `streamCount`,
`lastAliveAt`, the timers of the ping interval, of the ping timeout and of
idleness, listeners on the session, and the hooks `onClose` / `onError` through
which a ready state moves the manager).
*Operations.* `request()`, `connect()`, `abort()`, `state()`, `error()`,
`notifyResponseByteRead()`; inside, `gotoReady()`, `setState()`, `verify()`,
`ping()` and the listeners.
*Interaction.* `node-universal-client.ts` asks it for a stream for each request
and tells it of each byte read.  node's session, timers and streams call back.
*Hard.* Calls that wait for one promise while another call, a timer, a GOAWAY
or `abort()` moves the state; promise reactions run a microtask later than what
settled the promise and do not look at the state again; timers of a connection
the manager has left; a verification that times out.
*Correct when* one connection is shared, no call waits for what nobody will do,
`streamCount` and the idle timer follow the streams, a dead session is noticed,
and a too_many_pings answer slows the pings down.

### Universal client of Node.js (`dubbo-node/src/node-universal-client.ts`)

*State.* Per request a *sentinel*, a promise that settles when the request is
over, and the stream, the promise of the response, the loop that writes the
request (`sinkRequest`), and the iterator of the response
(`h2ResponseIterable`).
*Hard.* An abort, a reset, a failed write, the end of the response and the
answer of the session manager in any order; node reports them by different
events in different phases.
*Correct when* a response that ended without an error is complete, a failure
reaches whoever waits, a failed request releases its stream and stops asking its
source, and a server that answers early is not punished for it.

### Run call, signals and deadlines (`dubbo/src/protocol/run-call.ts`, `signals.ts`, `dubbo/src/interceptor.ts`)

*State.* An abort controller linked to the caller's signal and to the deadline,
and the iterators of the request and response it wraps.
*Hard.* Deadline, abort, a failing source and the answer race.
*Correct when* the first of them decides, the failure reaches the transport and
nothing is left armed.

### Implementation and handler context (`dubbo/src/implementation.ts`, `dubbo/src/protocol/invoke-implementation.ts`)

*State.* The handler context with its signal and deadline; for the kinds with a
single request message, whether a further message arrived.
*Correct when* the implementation is told that its caller is gone and a
server-streaming method sees exactly one message.

### Protocols (`dubbo/src/protocol-triple`, `protocol-grpc`, `protocol-grpc-web`)

Each has a client transport and a handler.  They differ in how the status of the
call travels: in an end-of-stream envelope (Triple), in HTTP trailers (gRPC),
in a last envelope with the trailers (gRPC-web).
*Correct when* a client reports success only if the implementation succeeded
and every message arrived, and every way out of the handler writes an end.

### Envelopes and compression (`dubbo/src/protocol/envelope.ts`, `async-iterable.ts:965-1075`, `compression.ts`, `limit-io.ts`, `dubbo-node/src/compression.ts`)

*State.* A buffer, and the header at its front.
*Hard.* Chunks that know nothing of envelopes, bodies that end anywhere, sizes
that a peer may lie about.
*Correct when* whole messages come out in order, a fault of the body is an
error, and a limit holds before memory is spent.

### Async iterable combinators (`dubbo/src/protocol/async-iterable.ts`)

`pipe`, `pipeTo`, the transformations, `makeIterableAbortable`,
`WritableIterable`, `untilFirst`, `readAllBytes`.
*State.* Where each generator of a chain is suspended, and the queue of the
writable iterable with the promises of its writes.
*Hard.* Three ways in (`next`, `throw`, `return`) and two out, at every stage;
a stage above may fail while the one below leaves.
*Correct when* messages keep their order, writers are told, and the end of a
response is told once and truly.

### Adapters (`dubbo-node/src/node-universal-handler.ts`, `dubbo-node-adapter.ts`, `dubbo-express`, `dubbo-fastify`, `dubbo-next`)

Turn a node request into a universal one, whose signal aborts when the request
closes, and write the universal response.  The plugins only route.

### Universal handler and negotiation (`universal-handler.ts`, `router.ts`)

*State.* A table of handlers made from services, options of the router and of
services, and what is counted.
*Hard.* Options that inherit, keys that adapters make of path, version and
group, protocols told apart by method, HTTP version, verb and content type.
*Correct when* a request reaches the implementation registered for it, and the
client can read the answer.

### Clients and browser transports (`dubbo/src/promise-client.ts`, `callback-client.ts`, `dubbo-web`)

*State.* The loop over a response, the stream of envelopes with its buffer of whole
chunks, an abort controller.
*Hard.* A user who cancels, a deadline, the end of the body and its breaking in
any order, and callbacks that throw.
*Correct when* success means a complete response, callers are told one end, and
nothing holds the connection afterwards.

### Errors, codes, HTTP mappings (`dubbo-error.ts`, `protocol-*/error-json.ts`, `trailer-status.ts`, `http-status.ts`, `dubbo-node/src/node-error.ts`)

*State.* The error itself, on its way.
*Hard.* Every hop translates it, and a gateway throws what it received.
*Correct when* a failure never looks like success, an error says at the end what
it said at the start, and nothing is called "unavailable" that may have had its
effect, as far as the client can tell.

### Observability (`dubbo-observable`)

*State.* Counters, a window of seconds, an interval, an SDK.
*Correct when* counters agree with each other and with what happened.

### Others

Serialization delegates to protobuf-es; the code generators print source text.

### How the parts interact

```
 caller ──> client ──> Transport.stream() ──> runStreamingCall ──> pipe (serialize,
   ^                                                               compress, join)
   │                                                                   │
   │                                                        node-universal-client
   │                                                        (one sentinel per request)
   │                                                                   │ request()
   │                                                        Http2SessionManager ── one session
   │                                                                   │
   └── pipe (split, decompress, parse) <── response body <──────── HTTP/2
                                                                       │
   implementation <── invoke-implementation <── pipe <── node-universal-handler
```

The hazards this makes are listed with their lines under `hazards` in
`PROJECT.json`; each names the properties that watch it, or says why none does.

## Modules

| module | models | extends / composed with |
| --- | --- | --- |
| `SharedConnection` | *abstract*: what the session manager promises its calls | — |
| `Http2Session` | the session manager | `INSTANCE SharedConnection` as a refinement |
| `MCHttp2Session` | symmetry for the runs | `Http2Session` |
| `Http2SessionProofs` | proofs, with the refinement | `Http2Session` |
| `ClientRequest` | one request of the client, over HTTP/2 or HTTP/1.1 | — |
| `ClientRequestProofs` | proofs | `ClientRequest` |
| `RpcCall` | *abstract*: what a streaming call promises | — |
| `StreamingCall` | a streaming call, both sides, three protocols | `INSTANCE RpcCall` as a refinement |
| `StreamingCallProofs` | proofs, with the refinement | `StreamingCall` |
| `UnaryCall` | a unary call, both sides, three protocols | `INSTANCE RpcCall` as a refinement |
| `UnaryCallProofs` | proofs, with the refinement | `UnaryCall` |
| `EnvelopeReader` | reading envelopes from chunks | — |
| `Iterables` | a writable iterable, pipes of transforms, a consumer | — |
| `AsyncIterableProofs` | proofs | `EnvelopeReader`, `Iterables` |
| `Dispatch` | from a call to the handler that serves it, and the answer | — |
| `ErrorRelay` | an error through servers of all protocols | — |
| `ErrorRelayProofs` | proofs | `ErrorRelay` |
| `BrowserCall` | a call by the clients over the browser transports | — |
| `BrowserCallProofs` | proofs | `BrowserCall` |
| `Meters` | the counters of handlers and interceptors | — |
| `HandlerProofs` | proofs | `Dispatch`, `Meters` |

`PROJECT.json` maps each definition to the lines it stands for.  Names that
start with `Mut_` are deliberate faults: each is what a plausible bug would make
of the definition below it, and the property named beside it in `PROJECT.json`
fails when it is put in place.

### `SharedConnection` and `Http2Session`

The grain is that of the JavaScript event loop.  A handler runs to completion,
so it is one action.  What a settled promise sets off waits in `jobs`, in order,
and runs before any further event.  User code runs for as long as `turn` holds
and may make several calls in one turn: that is how `abort(); request()` comes
before the reactions to `abort()`.

| variable | code |
| --- | --- |
| `mgr` | `this.s`, its type and the connection it is about |
| `conns[c].life, err, mute` | node's session: not yet used, connecting, open, closing after GOAWAY or `close()`, destroyed (events outstanding, with an error or not), gone |
| `conns[c].prom`, `.ping` | the promises of `connect()` and of `ping()` |
| `conns[c].lst` | the groups of listeners on the session |
| `conns[c].hook` | `onClose` / `onError` are set |
| `conns[c].tmr` | the three timers that are armed |
| `conns[c].streams` | `streamCount` |
| `conns[c].stale` | `lastAliveAt` is longer ago than `pingIntervalMs` |
| `call[r]` | a call of `request()` or `connect()`: new, waiting for a promise, going on, with a stream, done, failed |
| `calmed`, `doubled` | GOAWAYs with too_many_pings, and doublings of the interval |
| `dead` | the process ended: an uncaught error event, a ping that throws in a timer, or a spinning loop |

Actions: user code `CallReady`, `CallVerify`, `CallConnect`, `CallWait`,
`Abort`, `EndTurn`; reactions `RunConn`, `RunPing`, `RunVerified`, `RunWait`,
`RunGo`, `RunUser`; events `OnConnect`, `ConnectFails`, `SocketEnds`,
`PeerMute`, `Goaway`, `GoawayCalm`, `EndEvent`, the answers to pings, the three
timers, and those of streams.

`SharedConnection` has neither callbacks nor promises, only connections (`link`) and
calls (`use`, `on`).  A connection is opened by a call that finds none (`Ask`), or in
place of one that calls wait for and that is lost (`Replace`); calls wait, are moved
to another connection only when theirs is lost (`Move`), and are answered in groups
(`Answer`): with a stream on a connection that is open, with the news that there
was one, or with the failure of the connection that they wait for.  Once abort()
was called, there may be several connections, and calls may be moved and fail
without a loss.  `Http2Session` maps `life` to `link` (`LinkOf`), the steps of
a call to `use` (`UseOf`) and its `c` to `on`; timers, PINGs, listeners and the
reactions of `setState()` are stutters.

### `ClientRequest`

One request over HTTP/2 or HTTP/1.1 (`http`).  node may deliver several frames of one read and run
several callbacks before promise reactions, so here reactions are actions that
any event may precede.  `sentinel`, `why`, `result`, `stream`, `guard` (the
reaction that resets the stream), `sink` and `reader` are the promises and loops
of the code; `peer`, `unread`, `arrived`, `taken` are what the server has sent
and where it is.  The session manager is reduced to its promise: it delivers a
stream or an error (`RequestResolved`, `RequestRejected`), or the session fails
later.  Over HTTP/1.1 `stream` is the request object with its connection:
`SocketConnects`, `ConnectFails`, `ServerResponds`, `ConnectionCloses`,
`DestroyRuns` and `DestroyedWriteFails` take the place of the actions of the session
and of resets; the sentinel, the loop that writes and the reader are shared.

### `RpcCall`, `StreamingCall` and `UnaryCall`

`RpcCall` is the promise: messages are received in order and without gaps
(their number is enough to say so), and the call succeeds only if the
implementation did and every message was received, unless the channel is "cut",
that is, ended the response in a way the protocol cannot tell from an end.

`StreamingCall` is a call of kind server, client or bidi streaming over any of
the protocols, with the client's side (`src`, `deadline`, `app`, `why`, `got`,
`endSeen`), the exchange (`http`, `up`, `wire`, `tail`, `trailer`, `ended`) and
the server's side (`hnd`, `outcome`, `taken`, `made`, `ctx`).  The refinement
maps `outcome` to `server`, `app` to `client`, and the channel is "cut" only for
gRPC over a truncated exchange, whose client takes missing trailers for success.

`UnaryCall` is a call of kind unary.  Its gRPC halves are the pipes of
`StreamingCall` with one message; its Triple half has plain bodies on both
sides, the status in the head of the response and a GET request without a body.
The transport goes through `step`: "before" (interceptors, compression),
"wait" (for the head), "body", "unpack" (decompression, Triple), "over".  Its
promise is not raced with the signal of the call, so an interruption acts
through the HTTP client, and only while `step` is "wait" or "body".  Messages
and bodies are "none", "part" or "whole": a part is what is left when an
exchange breaks.

### `EnvelopeReader`

A byte is its offset; a message is its size, its size on the wire and whether it
is compressed.  `transformSplitEnvelope()` with `transformDecompressEnvelope()`
and `createEnvelopeReadableStream()` read the same bodies in chunks of every
size, with the body ending at any byte.  Data are ranges of offsets, so that an
envelope that is short, doubled or shifted by a header is told from a whole one.

### `Iterables`

A chain is the sequence of its stages: transforms and the pipes that hold them,
behind a writable iterable.  Six chains are modelled: the request and the response of
a streaming call, the responses of the handlers of Triple and gRPC-web and of
gRPC, and one each for `transformCatch()` and `transformAppend()`, which the
protocols do not use.  `token` is the call (`next`, `throw`, `return`) or the
result (value, done, error) that is under way between two stages; `pos[i]` is the `yield` or
`await` at which generator `i` is suspended, `held` the completion of a
generator that first closes its source.  One action moves the token over one
stage (`Microtask` is all of them), and `Write`, `Close`, `ConsumerNext`,
`ConsumerThrow` and `ConsumerLeave` are user code.

### `Dispatch`

A run registers services (`Register`), then makes one call with a client of the library
(`Call`) or sends a request of a foreign client (`ForeignRequest`); `Serve` is
adapter, negotiation and protocol handler, `Receive` the client.  Paths,
versions and groups are sequences because adapters concatenate them into keys.
A timeout of `l * 10^e` milliseconds is the number `10 * e + l`: comparing and
counting digits, which is all that the code does with it, are kept.  A unary Triple
call that is refused is answered in JSON and with an error status, whatever its format
(`TripleUnaryAnswer`), and its client reads such an answer as JSON (`ReadsBinary`).

### `ErrorRelay`

An implementation throws; `Serve` writes the error into a response of the
protocol of the hop; the network may do something to it (`ProxyAnswers`,
`EndLost`, `TrailersOnly`, `ConnectionFails`, `StreamReset`); the client reads an
error from it (`ReceiveError`), cannot parse it (`ReceiveUnparsable`) or takes it for
success (`ReceiveEnd`).  The answer of a proxy has any status, 200 included, and a
page, or no body where the status does not tell of an error.  `Relay` is the implementation of the next server,
which made that call and lets the error pass.  An error is its code, whether its
text is still its own, a detail, and what of its metadata matters.

### `BrowserCall`

`setup` picks the client (promise or callback), the transport and the kind of
method (unary or server streaming).  The body is a sequence of envelopes; the stream
of envelopes takes a chunk of any number of them from the network when it has none left
(`Pull`), and serves its reader from what it has (`ahead`), also when the call is
aborted: `AbortSignal` loses what is still in the network and no more.  The network
closes, cuts or breaks the body.  A unary Triple call reads its body as one, also to
find the error of a response that it refuses (`TripleUnaryResponse`).  `told` is what
the caller was told, in order, and `known` the envelopes that had been read when it
canceled.

### `Meters`

The handler of one method with its `provider` metrics and its window of seconds
(`counter`), several transports that share an array of interceptors (`lists`)
and the `consumer` metrics these add to.  Time is a number of seconds that
passes by `Tick`; the interval that cleans up may run late by `MaxLag` seconds,
or be stopped.

## Runs

| run | instance | distinct states | shows |
| --- | --- | --- | --- |
| `session_all` | 2 connections, 3 calls, all faults, keep-alive, pings when idle, 1 abort, 2 pings | 2.2 million | implements `SharedConnection`, so one connection is shared until an abort; hooks follow the state; `streamCount` is right; the loop does not spin; no call is stranded (until an abort); the end of a session is noticed, and the idle timer is right (until a verification) |
| `session_live` | 2 connections, 2 calls, all faults, keep-alive, no abort | 66 thousand | every call is answered, or waits for a verification; a mute peer loses its streams |
| `request_all` | 2 chunks, 2 messages, both versions of HTTP | 31 thousand | a completed response is complete; early answers are kept; failures reach the caller and release the stream; the promise of the response settles |
| `call_all` | 2 messages each way, every protocol and kind | 370 thousand | implements `RpcCall`; one input message; failed calls release their exchange; the server is told; the deadline ends the call |
| `unary_all` | every protocol, POST and GET, with and without compression | 18 thousand | implements `RpcCall`; the whole request was seen; the caller is told, whether the handler ends or the deadline passes |
| `envelope_all` | 2 messages of 0, 1 or 3 bytes, packed into 1 or 2, limit 2 | 26 thousand | whole envelopes within the limit; every fault of a body is the right error |
| `iterable_all` | 6 chains, 3 writes, 2 faults | 79 thousand | order of messages, the end of a response, writers are told of a reader that failed |
| `dispatch_all` | 5 adapters, 2 registrations, 4 timeouts | 3.8 million | the right handler, an answer that the client can read, the same deadline on both sides, and success where nothing known hinders it |
| `relay_all` | up to 3 servers, 1 intervention, 3 codes | 2.0 million | failures stay failures, errors survive, "unavailable" is true |
| `browser_all` | up to 3 envelopes, both clients and transports | 168 thousand | success means complete, one end is told, responses are released, aborted calls end |
| `meters_all` | 2 transports, 3 requests, 2 calls, 5 seconds, 2 retained | 1.7 million | counters agree, requests per second are exact |
| `session_verify_hangs` | 2 × 2, a silent peer | *violation* | a verification may never end |

Seven more configurations lie beside the modules.  Each checks one property that TLC
finds violated, and can be run to see how (see
[below](#where-code-and-documentation-disagree)): `session_verify_lost`,
`session_abort_connect`, `request_early_clean`, `request_early_http1`, `call_left`, `envelope_cut` and
`dispatch_disabled`.

*Why these bounds.*  The session manager relates at most two connections at a
time: the one it has and the one it opens after it (a third would need a third
verification or loss, which starts from the same states as the second).  Three
calls are one that owns a stream, one that waits and one that arrives; the
liveness runs use two, as TLC cannot use symmetry there.  One `abort()` suffices
for each window it opens; a limit of two pings makes node drop the third, as its
limit of ten drops the eleventh.  Two chunks or messages distinguish first, last
and neither of a stream, and both counters of a request may be zero.  For
envelopes the sizes are empty, within the limit and beyond it, and compression
may make a message smaller or larger; with two envelopes each boundary has one
on both sides.  `CHECK_DEADLOCK FALSE` is set throughout as every one of these
systems comes to rest when all calls are over.

Three writes are a first one (which `untilFirst()` pulls), one that a stage fails on
or skips and one behind it; two faults let the two stages with a fault of
their own fail in either order.  An error that passes three servers has passed
one that received it and threw it on with others on both sides; the network
intervenes once, as what it makes of a response does not depend on what it did
before (the proofs have no such bound).  The three codes thrown are one that
HTTP statuses keep, the one that they confuse with "unavailable", and that one.
Two registrations of the same address, or of addresses that one adapter
confuses, are what one request can tell apart; the timeouts lie below and beyond
the smaller limit of the server, beyond the eight digits that gRPC may have, the
largest timer (2^31 ms), and the ten digits of Triple.  The three envelopes of a response are a
message, an end, and something behind it, in any order.  `Retained` is 5 in the code and 2
in the run; `HandlerProofs` has it as a parameter.

Connection identities are never reused, so a state with `Conns` exhausted opens
no further connection.  Without an abort every connection is opened on behalf of
one call, at most one per call, so that in `session_live`,
with as many connections as calls, they are never exhausted where a call waits
for one.

## Fairness

*Session manager* (`FairSpec`): jobs and the turn of user code go on (the event
loop); a connection attempt has an outcome, a destroyed session emits its events
and closes its streams, a due timer fires (node); a peer that is not mute
answers a PING (HTTP/2).  Nothing obliges the network to fail or not to, a peer
to end a stream, or users to call.

*Request* (`FairSpec`): reactions run, node reports the close of a stream it has
closed, a write to a destroyed stream of HTTP/2 fails.  Nothing is assumed of the server,
the session manager or the caller: `CallerTold` and `ResponseSettles` hold
nonetheless since they start from a failure or a stream that is gone.

*Call* (`FairSpec`): the caller goes on reading and the request of a broken
exchange closes on the server.  `ServedSpec`, for `call_left`, adds that the
pipe of the handler goes on, except that the implementation may wait: the
violation is not due to a server that sits still.

*Unary call* (`FairSpec`): interceptors and compression come to an end, the client
reads, a request that was begun is sent, the request of a broken exchange closes
on the server, and its handler goes on once the implementation has returned or
thrown.  The implementation itself may take for ever: of the two parts of
`CallSettles`, `DeadlineEnds` does not rely on it and `CallerAnswered` starts
from its outcome.

*Iterables* (`Spec`): promise reactions run, that is, the token moves on.  Nobody
is obliged to write, to close or to read.

*Browser* (`Spec`): the stream of envelopes and the loop over it go on, and
`fetch()` rejects once its signal is aborted; the body that it had given fails
then.  Nothing is assumed of the server
or the network.

*Envelopes, dispatch, errors, counters*: safety only.

## Assumptions about the outside

Not in the repository, and taken from how its code uses them:

- node's HTTP/2 session: `destroy(error)` emits "error" and "close" later, after
  the "close" of its streams; without an error only "close".  A failing
  connection attempt emits "error" at once.  `ping()` on a destroyed session
  throws; on a closing one, or beyond `maxOutstandingPings`, its callback gets an
  error.  GOAWAY with NO_ERROR closes gracefully; with another code it destroys
  the session after the "goaway" listeners ran.  A session that is destroyed
  cancels its pings.
- node's HTTP/1.1 requests: one that is destroyed before it has a connection never
  gets one; a connection that closes before the response is an "error" of the request,
  within it one of the response; a reset is one of the request at any time; a
  response that is complete can be read when the connection is closed; a write
  to a closed connection fails with ERR_STREAM_DESTROYED, and a write that node
  still buffered is forgotten without a word, so its failing is not fair.
- node's HTTP/2 streams: a reset with NO_ERROR ends the readable side; CANCEL
  gives "close" only; writes under way when the stream is destroyed fail in a
  later phase; several frames and ticks may come before promise reactions.
- Calls that wait for one promise are resumed by consecutive reactions, which do
  not change the manager; one job stands for them.
- HTTP keeps the order of what is sent; when an exchange breaks the server's
  request emits "close"; data that was buffered may still be read.
- A body of `fetch()` may end anywhere without an error when a proxy or a server
  cuts it; an aborted `fetch()` rejects, and so does reading its body.
- Express, Fastify and Next.js look a path up as their documentation says; what
  they do with requests that are for none of our paths is left out.
- A timer longer than 2^31 - 1 ms fires at once (node, browsers).
- A proxy answers with an HTTP status of its own, 200 included, and with a page that
  is neither a message, nor JSON, nor an envelope, or with no body at all; or it passes
  on a response without its end.
- Compression gives back what it was given, or an error when that is larger than
  the limit it was handed.

## Proofs

TLAPS checks the following for every value of the constants that meets the
named assumptions (`ConfigAssumption` of `Http2Session`, `ReaderAssumption` of
`EnvelopeReader`, `MetersAssumption` of `Meters`, `BoundsAssumption` of the
others), with no bound on calls, connections, chunks or messages.  Every safety
invariant that a passing run checks is a theorem.

`Http2SessionProofs`
- `TypeCorrect`: `Spec => []TypeOK`, which includes that the manager is
  connecting, verifying or ready only with a session and that the pings
  of a session stay within node's limit.
- `HooksCorrect`: `Spec => []HooksFollowState`.  No older connection, whose
  timers and stream listeners go on firing, can move the manager.

- `CountsCorrect`: `[]StreamsCounted`; `LoopAwaits`: `[]NoSpin`; `NoCallStranded`:
  `[]NoStrandedCall`; `OneConnection`: `[]SingleConnection`; `EndIsNoticed`:
  `[]EndNoticed`; `IdleTimed`: `[]IdleIsTimed`.
  (`SingleConnection` is stated of the manager's state; the runs check the promise
  that rests on it, `ImplementsShared`.)

  For the first two the inductive invariant is `TypeOK /\ HooksFollowState`.  Only
  `SetState` and the three places that leave a ready state touch the hooks; the
  lemmas say so of every function on a connection, then of `SetState`, then of each
  action.

  The others rest on `SessionInv`, which adds three groups of facts, each needed by
  the next.  `QueueInv` is about the order of jobs: the job of the calls that wait
  for a promise directly follows the reaction of `setState()` to it (`Paired`), and
  finds the state that this has set (`FrontWait`); a connection that was
  established is handled before anything else (`ConnectedFirst`); a call goes on in
  one job (`GoJobs`).  `StateInv` relates connections to what uses them: only an
  established one is used (`UsedEstablished`), its streams are counted, and a manager
  that never verified it listens to it (`UnverifiedAttended`).  `PromiseInv` holds
  the properties themselves and, until an abort, that queue and listeners belong
  to the state of the manager (`Unaborted`): the reaction that is queued is the
  first one and about the manager's connection, at most one verification is
  going on, and who waits for a PING or a connection is attended.  An abort breaks these,
  as `session_abort_connect` shows: `NoStrandedCall` and `SingleConnection` speak of
  the time before one, the other properties of all times.

- `Sharing`: `Spec => ImplementsShared`, the refinement of `SharedConnection`.

  `SessionInv` is not enough for it.  `SharedInv` adds that the calls whose promise
  settled find the manager in a state about their connection, or that connection lost
  (`FrontOwn`), without which a call could fail for the fate of another, and that a
  connection is verified for a call that waits (`VerificationWanted`), without
  which a failed PING could open one for nobody.  Then every action is a step of
  `SharedConnection` or a stutter: `UserShared`, `MicroShared` and `EventsShared` say
  so of user code, of reactions and of events.

`ClientRequestProofs`
- `TypeCorrect`; `ReadingSound`: `Spec => []CompleteOrFailed`;
  `EarlyResponses`: `Spec => []EarlyResponseKept`; `PullsEnd`:
  `Spec => NoPullAfterReject`.

  `CompleteOrFailed` is not inductive.  It needs `Accounted` (each chunk that
  arrived is buffered, handed out or between the two), `EndIsLast` (the end is
  seen only behind the last chunk, and reported only with a resolved sentinel)
  and `Causes` (a write fails the request only when the stream is gone; over HTTP/2
  the response had not been read to its end then).

`StreamingCallProofs`
- `TypeCorrect`, and `Implementation`: `Spec => ImplementsRpc`, the refinement.
  The invariant says how messages are counted (`Counted`: what is received and
  on the wire was made, and is all of it while the exchange is open), where the
  handler is when the outcome is known (`HandlerOrder`), and that the end
  carries the outcome behind the last message (`EndCarriesOutcome`).  With it
  each action maps to a step of `RpcCall` or a stutter; `Quiet` collects the
  steps that touch nothing that `RpcCall` sees.
- `EndNeverMissing`: `[]ProtocolErrorMeansCut`; `OneMessage`: `[]OneInput`;
  `FailedCallsRelease`: `[]FailureReleases`, from a second invariant `Safe` that
  adds how requests are counted (`RequestCounted`) and that an end that was
  written stays until it is read (`EndIsKept`).

`UnaryCallProofs`
- `TypeCorrect`; `Implementation`: `Spec => ImplementsRpc`; `InputIsWhole`:
  `[]WholeInput`; `ReasonsAreTrue`: `[]ReasonTold`; `FailedCallsRelease`:
  `[]FailureReleases`.  The invariant relates the steps of the transport to the
  exchange (`Phases`), those of the handler to what it has taken and made
  (`HandlerOrder`), and the response to the outcome (`ResponseCarries`, and for
  bodies and envelopes `TripleCarries` and `EnvelopesCarry`).  `UnaryCall` has no
  parameters: the proofs replace its enumeration by an argument.

`ErrorRelayProofs` (for any number of servers and interventions, and any codes)
- `FailuresFail`: `[]NoFalseSuccess`; `ErrorsSurvive`: `[]ErrorSurvives`;
  `RetryIsSafe`: `[]UnavailableIsTrue`; `TypeCorrect`.

  The inductive invariant has the three properties and two facts.  `SentInv`:
  what is on its way was written by the server from the error it holds, or lost
  its end (`Cut`), or is the answer of a proxy with a page or a status that tells
  (`Page`), or one with status 200 or 204 and nothing else (`Blank`).  `History`: before the first hop the error
  is the one thrown, and behind it a detail comes with an object or nothing for
  debugging, never again with a plain value.  The lemmas `GrpcRoundTrip` and
  `TripleRoundTrip` say what reading gives of what was written, and `LostIsRead`
  what a client makes of the rest.

`HandlerProofs`, the counters of `Meters` (for any number of requests and seconds,
and any lag)
- `QpsIsExact`: `[]QpsExact`; `WindowIsBounded`: while the interval runs the
  counter remembers no more seconds than it retains and the interval is late.

  `QpsExact` needs `Remembered`: each second that the window still has, and each
  that is recent enough to be in it, has as many requests as arrived in it.

- `CountersAgree`: `[]CountersBalanced`.  It is inductive with the types
  (`CInv`); what the consumer has pending is the number of the pairs of a call and a
  transport in `Waiting`, of which each answer removes one.

`HandlerProofs`, on `Dispatch` (for any set of adapters, any number of
registrations, any timeouts)
- `RightImplementation`: `[]RightHandler`; `AnswersReadable`: `[]ResponseReadable`;
  `DeadlinePassedOn`: `[]TimeoutKept`; `CallsSucceed`: `[]CallSucceeds`.

  The work is in lemmas about one state: keys are equal only for one
  address, or for two that the adapter takes for one (`KeyTells`); the handler found is the
  last with the key (`LookupIs`); a protocol that is selected matches verb and content
  type (`SelectedIs`), and the one selected for a call of the library is that of the call
  (`CallSelects`), as no content type of a client belongs to two protocols
  (`RequestTypeIs`); a call that nothing hinders is found, selected and accepted
  (`MeantIsFound`, `CallIsSelected`, `CallIsAccepted`).  The invariant `Inv` carries
  what follows for the answer to what the caller is told.

`BrowserCallProofs` (for any number of envelopes)
- `SuccessComplete`: `[]SuccessMeansComplete`; `CallersTold`: `[]CallerTold`;
  `ResponsesReleased`: `[]ResponseReleased`.

  The invariant says where the envelopes of a response are: those not yet read are
  ahead and in the body, in order (`Delivery`), and what a stream has told, or a unary
  call has kept, is exactly what was read (`StreamTold`, `UnaryKept`).  These hold
  until an abort or a fault loses what is in the network; from then on the stream of
  envelopes ends with an error, behind what it has read, and no success is possible
  (`Aborts`, `Succeeded`).  `Canceled`: what is told was read, and
  what the stream of envelopes had read when the call was canceled (`known`) is all
  that will be.

`AsyncIterableProofs`, on `EnvelopeReader` (for bodies of any number of envelopes of
any size, cut into chunks of any size)
- `ReaderTypes`; `EnvelopesWhole`: `[]WholeEnvelopes`; `SplitResultRight`:
  `[]SplitResult`.

  `Starts`, where each envelope of a body begins, is a recursive function; that it
  has the values its definition says, and that they grow, is shown by a least
  counterexample (`LeastOf`, from `WellFoundedInduction`): a shortest beginning of a
  body for which the equations had no solution would have one, made from that
  of the beginning before it (`StartsUpTo`, `StartsIs`, `StartsGrow`).
  The invariant is `Aligned`: while it reads, the buffer begins where the envelope behind those
  that were taken off begins, so that the header at its front is that envelope's
  (`HeaderIs`).  It holds for bodies that are whole, and for the reader
  "split" wherever a body ends (`Intact`): what the reader "stream" does with a body that is cut is
  the divergence that `envelope_cut` shows.

`AsyncIterableProofs`, on `Iterables` (for any number of writes and failures, in
every chain)
- `IterInvariance`: `[]IterInv`, the inductive invariant; `MessagesInOrder`:
  `[]ReadInOrder`; `FinallyTold`: `[]FinalTold`; `IterTypes`.

  Neither property is inductive, as a message may be anywhere in the chain.
  `IterInv` adds:
  - `Writes`: writes are taken in the order in which they were queued, the close
    behind all of them, and the promise of each says where it is.
  - `Shape`: while the consumer waits exactly one thing is under way.  It is a call of
    `next()` that goes up (`NextAsked`), a result that comes down (`ResultGiven`),
    a stage that failed and closes its sources (`SourcesClose`), or a reader that
    the writable iterable keeps (`Waits`); the stages below it wait, and those
    above rest.  A stage that has failed never goes on (`BrokenStay`).
  - `Content`: as long as no stage has failed the wanted messages that were taken
    are those the consumer has seen and the one on its way, which is the last; an
    end is on its way, or has passed a stage, only if the close was taken; after a failure
    no message is on its way.
  - `FinalInv`: no end gets past the stage "finally" that it was not told of,
    unless a stage below has failed (`FinalKnown`, `FinalAhead`); it is told once,
    and of an error if and only if a stage above it has failed (`FinalCalled`).

*Only model-checked*: all liveness (`CallsAnswered`, `MuteStreamsClose`,
`StreamReleased`, `CallerTold` and `ResponseSettles` of `ClientRequest`,
`ServerTold`, `DeadlineEnds`, `CallSettles`, `AbortSettles`, `WritersSettle`),
which is beyond the prover under fairness.

## Where code and documentation disagree

Each is a configuration that TLC finds violated.  The first is a run of
`PROJECT.json`, which quotes the lines.

1. A verification whose PING is not answered never ends: the timeout is set and
   then cleared by leaving the ready state (`session_verify_hangs`; doc
   `http2-session-manager.ts:111-113`).
2. After a verification the ready state has no listeners and no timers any more:
   the end of the session is missed, and it is never closed for being idle
   (`session_verify_lost`, `ReadyNotGone`; doc `http2-session-manager.ts:75-107`).
3. `abort()` and a call in the same turn: the reaction to the aborted attempt
   removes the listeners of the new one (`session_abort_connect`,
   `CallsAnswered`; doc `http2-session-manager.ts:187`).
4. A stream reset with NO_ERROR before the response leaves the promise of the
   response pending (`request_early_clean`, `ResponseSettles`; tests
   `node-universal-client.spec.ts:89,98,206,220`, which close with CANCEL only).
5. Over HTTP/1.1 a server that answers early and closes the connection turns
   its response into an error: node fails the next write with
   ERR_STREAM_DESTROYED, not with the ERR_STREAM_WRITE_AFTER_END that the code
   expects (`request_early_http1`, `EarlyHttp1ResponseKept`; comment
   `node-universal-client.ts:417-420`).
6. A caller that leaves the iteration of a response releases nothing
   (`call_left`, `LeftReleases`; comment `run-call.ts:134-135`).
7. In the browser, an envelope whose payload was cut off is handed on
   (`envelope_cut`, `PrematureEndFails`; `envelope.ts:39,89`).
8. A protocol that the router disables is enabled again by a service with options
   of its own, whatever they say of it (`dispatch_disabled`,
   `DisabledStaysDisabled`; comment `router.ts:74-77`).

Seen while modelling, with no run as no text of the repository promises the
opposite:

- Session manager: `abort()` while verifying opens a connection nobody asked
  for; `abort()` with an open stream and `pingIdleConnection` lets a timer ping
  a destroyed session, which throws; there is a window in which a session's
  "error" finds no listener; a GOAWAY with NO_ERROR leaves the manager ready with
  a session that takes no request.
- Request: a write that fails otherwise than "after end" once the response was
  read neither continues the source nor tells it; the listener for "error" on
  the session stays when the stream is destroyed first.
- Call: a gRPC client accepts a response without `grpc-status`; when a write of
  the adapter fails the pipe of the handler is dropped, so that its finally part
  does not run (the context is still aborted by the "close" of the request).
- Unary Triple over HTTP/2: a request that is reset in the middle may look to the
  handler like one that ended, so that an implementation may be called with the
  beginning of a message (`input = "part"` in `UnaryCall`; `WholeInput` says that
  no caller is told of success then).
- `negotiateProtocol()` returns the error of a handler that rejects as if it were
  its response (`universal-handler.ts:332-345`), so that the request is not
  answered; the handlers of the three protocols turn errors into responses and
  do not normally reject.
- `createTransport()` of Triple appends its counter to the array of interceptors
  it was given (`protocol-triple/transport.ts:91`), so that transports that share
  options count each call several times.
- Errors: a Triple error with a detail whose JSON is a plain value (a Timestamp,
  a wrapper) cannot be read by the client, which falls back to the HTTP status
  (`PlainDetailLost`); a gateway that rethrows a Triple error copies the
  `content-encoding` it came with into a response that is not compressed
  (`EncodingStale`); gRPC and gRPC-web drop the metadata of errors; an answer with
  status 200 and no body, of a proxy, is an empty stream for a gRPC client and an
  empty message for a unary call of binary Triple (`NoFalseSuccess` says that nothing
  else is, but a gRPC stream that lost its end); a 502 or 504 of a proxy becomes
  "unavailable" as a 503 does, although the call may have had its effect.
- Dispatch: version and group go with unary Triple calls only, so that a service
  that has them cannot be reached otherwise; by GET the server does not hear
  what the client accepts; a client that compresses and accepts
  nothing gets compressed answers, which it refuses (`AcceptUnheard`); a gRPC
  client sends timeouts of 10^8 ms and more, which the server of the same library
  refuses; timeouts of 2^31 ms and more expire at once; adapters put path,
  version and group into one key without a separator, and calls in memory look
  at the path alone (`Confusable`).
- Counters: a request that is refused, or has no content type and one handler
  for its method (GET), is counted in the total and never as succeeded or failed; error
  responses count as succeeded; the time of a response is taken before it is
  awaited; the interval is neither `unref()`ed nor stopped; "retains the last 5
  seconds" keeps six.
- Browser: a gRPC-web trailer that is cut inside a line may lose `grpc-status`,
  and is success; a Triple stream goes on behind its end-of-stream envelope and
  may have several; an `onClose` that throws is called again; leaving a stream
  leaves its response open; the messages of the chunks that were read before
  `cancel()` are told after it, however many these are, and so is the success if the
  body had ended by then (`CancelStops` says that nothing else is).
- Iterables: `throw()` before the first `next()` never reaches the source; a
  transform that fails, or a consumer that leaves, tells the writable iterable
  nothing, so that promises of writes stay pending (`WritersSettle` therefore
  speaks of consumers that throw); `makeIterableAbortable()` offers `return()`
  exactly if the inner iterator has none; `pipe()` and `transformCatch()` never
  call `return()` of their source; a second `next()` on a writable iterable
  forgets the first.
- `nodeResponse.once("end", …)` in `node-universal-handler.ts` never fires, and
  a length of 2^31 or more is read as a negative number by
  `createEnvelopeReadableStream()`.

## What is not modelled

- Chains of interceptors that change requests or call again; those of the
  counters are in `Meters`.
- Contents: the bytes of headers (what is decided by them is in `Dispatch`), serialization, the texts and codes of errors beyond what
  distinguishes outcomes, JSON, compression algorithms.  Lengths of envelopes
  stay below 2^31.
- Time is reduced to order: a timer that is armed may fire.  The size of
  `pingIntervalMs` is reduced to how often it doubled.
- Serialization, which is protobuf-es, and the code generators, which print text
  in one pass: they keep no state.
- The reading loops of two readers of one iterable, and an abort of
  `makeIterableAbortable()` while its inner iterator waits: no code of the
  repository does so.
- What Express, Fastify and Next.js do with requests that are for none of our
  paths; client- and bidi-streaming calls of the browser, which its transports
  refuse.
- In `ClientRequest` a request body without `throw()`, and in `StreamingCall`
  an implementation that ignores its iterator protocol.

## Plan

Done, in this order: `Http2Session` (every call depends on it; later
`SharedConnection`, which it implements), `ClientRequest`
(what each call does with its stream), `RpcCall` / `StreamingCall` (what users
are promised), `EnvelopeReader` (what carries the messages), `UnaryCall`,
`ErrorRelay`, `Dispatch`, `Meters`, `BrowserCall`, `Iterables`; the proofs named
above.

What is left, to extend the model:

1. `pipeTo()` with an abort and the writable iterable composed with the loop that
   writes a request; chains of interceptors around a call that retry or change
   it.
2. The shutdown of handlers, as one signal shared by many calls.
