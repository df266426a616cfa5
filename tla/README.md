# TLA+ models of rpc_ts

rpc_ts is a TypeScript framework for remote procedure calls: typed services, unary and
server-stream methods, contexts that travel beside requests and responses, a gRPC-Web protocol
over HTTP, and a client with retries. This directory holds TLA+ models of its concurrent core,
the TLC configurations that check them and machine-checked proofs. Paths below are relative to
`src/src/`.

## 1. Inventory

| Component | Source | State | Operations | What is hard |
|---|---|---|---|---|
| gRPC-Web client stream | `protocol/grpc_web/client/client.ts` | `state`, `pendingChunkBytes`, response context, transport | `start`, `cancel`; `onHeaders`, `onChunk`, `onEnd` of the transport; the promises of the contexts | four asynchronous parties; chunks before and after the headers are decoded; cancel at any time, from inside a listener too |
| Chunk parser, framing | `protocol/grpc_web/client/private/chunk_parser.ts`, `encodeFrame` in `server/server.ts` | `buffer`, `position` | `parse`, `encodeFrame` | any cut of the bytes |
| Stream retrier, backoff | `client/stream_retrier.ts`, `client/backoff.ts` | `state`, `retriesSinceLastReady`, current stream | `start`, `cancel`, listeners of each attempt, sleeps | all attempts share one state; timers race events |
| Service client, stream utilities | `client/service.ts`, `client/stream.ts` | a promise per call | `call`, `stream`, `withRetry`, `methodMap`; `transformStream`, `streamAsPromise` | a promise fed by a stream that may be retried, and by a function that may throw |
| gRPC-Web server | `protocol/grpc_web/server/server.ts` | per request: `status`, response, promises | route handler, `processUnary`, `processServerStream`, `onReady`, `onMessage`, close | handler and route run side by side; handlers that break the protocol; errors before and after the first byte |
| Token authentication, client | `context/client/token_auth.ts` | `tokenInfo`, `timeout` | `authenticate`, `clearAutoRefresh`, `forceRefreshToken`, `provideRequestContext`, auto refresh | four writers of one field, all with an await in between |
| Token authentication, server | `context/server/token_auth*.ts` | cache of JWKS and keys | `decodeRequestContext`, handler of claims | caches filled by concurrent requests, never emptied; an issuer that rotates its keys |
| Errors | `protocol/grpc_web/private/grpc.ts`, `http_status.ts`, `server/errors.ts`, `client/errors.ts`, `DEFAULT_SHOULD_RETRY` | none of their own | tables, metadata of errors, what the client makes of an answer | the tables are not inverse to each other; intermediaries strip or replace answers |
| Codecs, other contexts, facade, mock, examples | `protocol/grpc_web/common`, `context`, `protocol`, `examples` | none | | |

They interact by calls and events. A service client asks the protocol client for a
`GrpcWebStream` per call or attempt; the retrier starts one stream after the other and forwards
its events; `Service.call` turns events into a promise. Over HTTP the server's route decodes the
contexts, runs the handler and writes frames, which the network cuts into chunks for the parser
of the client. Everything runs on JavaScript event loops: a handler or listener runs to its end,
and interleaving happens at `await`, timers, callbacks, and inside listeners that call back.

What makes each part correct:

* client stream: messages in order and whole before `complete`; one outcome; no event for a
  settled stream; a started stream finishes;
* parser: the frames come out as they went in, wherever the bytes are cut;
* retrier: bounded attempts, one live stream, concatenation of the messages, one outcome, no
  attempt after the end, it ends;
* promises of `call` and `streamAsPromise`: all that was emitted, and all of the attempt that
  completed; they are settled; the retries that are reported are those that were made, and the
  sleeps between them grow up to the limit;
* a call end to end: success is never told of a handler that failed or of a response cut short,
  nor an error of a handler that succeeded over a connection that held; the client is told some
  day; an error that reaches it is on record on the server; a handler hears of a cancel;
* server: one well-formed answer per request; failures are visible to the client exactly when
  they are reported; every request is answered, those apart whose error cannot be encoded and
  reaches the route as it is;
* errors: an error arrives as it was thrown; a permanent one is not repeated, a transient one is
  retried;
* JWT handler: only genuine tokens are accepted, good ones are not refused, and a failure stays
  with its request;
* token connector: one auto refresh at a time unless `authenticate()` overtakes a refresh, a
  session that is over stays over, and an auto refresh stops when told to and only then.

The hazards of each part are listed with their lines in `PROJECT.json`.

## 2. Modules

| Module | Models | Remarks |
|---|---|---|
| `StreamContract` | what a `Stream` promises to its listeners | the abstract specification |
| `GrpcWebStream` | class `GrpcWebStream` | implements `StreamContract` |
| `GrpcWebStreamProofs` | | theorems about `GrpcWebStream` |
| `RetryingStream` | class `RetryingStreamImpl` over streams that keep `StreamContract` | |
| `Backoff` | `getBackoffMs` and the timer that is set with it | |
| `ServiceCall` | `Service.call()`, `streamAsPromise`, `transformStream`, the retrying service | extends `RetryingStream` and `Backoff`; its listeners are part of each step |
| `ServiceCallProofs` | | theorems about `RetryingStream`, `Backoff` and `ServiceCall` |
| `GrpcWebServer` | the route and `processServerStream`/`processUnary` for one call | |
| `GrpcWebServerProofs` | | theorems about `GrpcWebServer` |
| `RpcContract` | what a call promises end to end | the abstract specification |
| `Rpc` | client, connection and server of one call | composes `GrpcWebStream` and `GrpcWebServer`; implements `RpcContract` |
| `RpcProofs` | | theorems about `Rpc`, by way of the invariants of both components |
| `Framing` | `encodeFrame` and `ChunkParser` on bytes | reference: the frames whose last byte has arrived |
| `FramingProofs` | | theorems about `Framing` |
| `TokenAuthClient` | `TokenAuthClientContextConnector` | |
| `TokenAuthClientProofs` | | theorems about `TokenAuthClient` |
| `RpcErrors` | the tables of errors and the life of an error with retries | abstracts what the modules above do within an attempt |
| `RpcErrorsProofs` | | theorems about `RpcErrors` |
| `JwtHandler` | `decodeRequestContext` and the JWT handler | concurrent requests |
| `JwtHandlerProofs` | | theorems about `JwtHandler` |
| `MC*` | instances for TLC | |

### GrpcWebStream

`state` is the field of the class. `reqCtx` and `headers` are the promises that `start()` and
`onHeaders` leave behind, `transport` the low-level transport, `pending` is `pendingChunkBytes`.
A synchronous loop over frames (in `onChunk()` or in the flush of `ready()`) is on the stack
while `run` is not `idle`; it takes one step per frame, because the listener that an emission
calls (`inListener`) may call `cancel()`. Everything else is one action per handler: `Start`,
`ContextProvided`/`ContextRejected` (the `.then`/`.catch` at l. 277-301), `OnHeaders`,
`HeadersDecoded`/`HeadersRejected`, `OnChunk`, `OnEnd`, `OnEndWithError`, `Cancel`. `delivered`,
`emitted` and `threw` are history. Frame *f* is message *f*; the frame after the last message is
the trailers. A transport that was canceled may still call back: the library gives no guarantee.
Trailers that cannot be parsed and frames cut by chunks are in `Framing`.

### RetryingStream and ServiceCall

`streams` holds the attempts, each as a phase of `StreamContract`; `accepted` and `sleeping` are
the attempts whose `cb()` was called or waits for its timer; `loop` is `asyncStart()`, which
goes on in a microtask of its own (`LoopContinues`). What `StreamContract` leaves open is the
constant `Late` (may a stream emit after it failed or was canceled? a `GrpcWebStream` may), and
`EmitsReady` tells streams that never emit `ready`, such as those of `streamFromArray()`, from
the others. `sinceReady` counts the attempts since the last `ready`. Each attempt may have its
own number of messages: what the server sends is up to it.

`ServiceCall` adds what the user of a retrying service holds (`user`): the promise of `call()`
or that of `streamAsPromise()`, over a stream that goes through the function of
`transformStream()`, as those of a `methodMap()` do. Their listeners run within the step that
emits (`CallNext == Next /\ Listen`) and are defined by what it emits: `OneMessage` and
`CallCompletes` for `call()`, `TransformedMessage` (the function may throw) and
`PromiseCompletes` for the other, `Rejected` for both. `kept` is the variable `message` or
`messages`, `outcome` the promise. `RetriesSinceLastReady` is what `retryingError`, and behind
it `serviceError`, is given; `slept` is the last sleep in milliseconds, from `Backoff`, where
`TimeoutMs` is `setTimeout()`: a delay that it cannot hold becomes one of a millisecond.
`withRetry()` merges its options over the defaults, which only gives the constants their values.

### GrpcWebServer

`pc` is where the route awaits; `promise` is what `processServerStream` awaits and `handler` the
promise of the method handler. `HandlerResolves`, `SuccessTrailer` (its `.then`) and
`StreamContinues` (the route) are steps of their own, since they are microtasks of different
promises. Callbacks are used while their handler runs. `lost` counts frames written after the
end.

`err` is the error in hand. It is `untellable` if its message for the client is one that
`encodeURIComponent()` refuses (headers.ts:14): `getMetadataFromGrpcWebError()` then throws. The
error clause of a stream catches that, as it does a failing `codec.encodeTrailer()`
(`CodecFails`), and throws an error without a message in its place (`StreamFails`); the route
builds the metadata outside its `try` (server.ts:236) and throws itself, leaving the response
open (`RouteThrows`, `pc = "thrown"`). `processUnary()` writes the message before it encodes the
trailer, so that the route may find a response that is begun (`ResponseFails`) and tells the
error by a trailer then (`FailureSent`).

### Rpc

`Server` and `Client` are instances of `GrpcWebServer` and `GrpcWebStream`; each action of the
composition is one or more of theirs, constrained by what the other side has done: the request
arrives once the client has sent it (`RequestArrives`), the headers once the server has written
or ended (`HeadersArrive`), the frames as far as they are written (`FramesArrive`), the end
after the last frame (`EndArrives`). Frame *f* of the client is frame *f* of `wire`; `response`,
which for `GrpcWebStream` is any response, is defined by `wire`, whose last frame may be
trailers (`HasTrailers`; no other frame is, by `NoMessageAfterTrailer` and `OneAnswer`). `Cut`
breaks the connection at any moment; what has not arrived is lost (`EndArrives` and
`FailureArrives` then come early), and the server's `close` fires (`ServerCloses`). `fault` is
history: a cancel, a cut, a context that failed on the client; it is what excuses an error,
never a false success. Handlers keep to the protocol (`~broke'`) and need not return; listeners
do not throw, and the codec does not fail (`CodecFails <- FALSE`): the others are in the
components' own modules. A frame is delivered whole: chunks
that cut frames are in `Framing`.

`RpcContract` knows the number of messages sent and emitted, what became of the handler, and
what the client was told. The refinement maps the handler's verdict to the trailers of `wire` or
the HTTP status, and what the client was told to the first of its events `complete` and `error`.

### Framing

Bytes are numbers; headers have their five bytes with a big-endian length. One call of `parse()`
is one action. A `Turn` is a turn of its loop, and `ParseFrom` repeats it by a recursive function
as often as the buffer can hold a header. `Written` is what the server has written of a list of
frames; `Fits` says that a length has its four bytes.

### TokenAuthClient

All timers ever set are kept; the field `timeout` is the last one. A timer that fires becomes
the refresh that it started: it is `waiting` for the handler, with a token of some session, then
has `stored` the answer and is to set the next timer in a microtask of its own
(`TimerSetAgain`), and then `over`. A timer that is not over is a loop of auto refresh
(`Loops`). The other refreshes that await the handler are counted by kind (`detached`, `reauth`,
`call`) and session.

`clearTimeout()` reaches only a last timer that is still armed. `missed` counts the calls of
`authenticate()` that began an auto refresh while a refresh of a timer went on, which the call
misses: the old answer overwrites the new token, and a second timer is set. `LoopsAreCounted`
says that this is the only way to a second loop, `SessionStaysOver` that the old session comes
back through a refresh under way only. `ClearStops` is stated for an auto refresh that is
cleared while nothing of it goes on.

### RpcErrors

One call with its attempts. `Throw` is the route's `catch` (or the one of `processServerStream`,
if the headers are sent); the `Arrive*` actions are what the network does with the answer, each
with the client's `onHeaders()`, `onChunk()` and `end()` (`Read`) and the retrier's listener
(`Fail`) in the same step. The tables are functions; `FromPairs` is `_.fromPairs`, where the
last pair wins: 500 means `internal` and 400 `failedPrecondition`. A message is `transmitted`
(`unsafeTransmittedMessage`), `private` (the error's own), `generic` (made by the client) or
none.

### JwtHandler

A request is interleaved where the code awaits: `fetching` (served by the issuer and answered in
two steps, so that answers overtake each other), `importing`, `verifying`, `decoding`. `jwks`
and `verify` are the variables of the closure. A JSON document without keys (`NoJwks`) is
possible: `fetchJwks()` does not look at it. A slot in `Requests` takes one request after the
other (`Arrive`).

## 3. Runs

| Run | Shows | Bounds, and why they are enough |
|---|---|---|
| `stream` | order, wholeness, one outcome, no unexpected state, finality, it finishes, refinement of `StreamContract` | 3 messages: some pending, some flushed, some direct; 2 cancels; listeners may throw |
| `retrier_dropped` (violation) | a late error of an earlier attempt drops messages | |
| `call` | the properties of the retrier, and of the promises and the service over it | 2 retries, so that the second sleep reaches the limit of the backoff; 2 messages per attempt, each attempt with its own number; 3 attempts that become ready, 1 cancel. At most 5 attempts can be made (the third may be ready, then 2 retries), 7 are allowed |
| `call_retried` (violation) | a unary method whose attempt fails after its message is refused as if it were a stream | |
| `server` | framing, one answer, visible failures, no stream left open for an error that cannot be encoded, every request answered or thrown out by the route | a codec that may fail; 5 calls of `onReady`/`onMessage`: each order of the wrong ones and the right ones, twice |
| `rpc` | refinement of `RpcContract`, the verdict is told, errors are on record | `onReady` and 3 messages: some arrive before the headers are decoded, some after, some are lost; 1 cancel |
| `rpc_cancel` (violation) | a handler does not hear of a cancel | |
| `framing` | cuts do not matter, a chunk is the frames it completes | 2 messages out of an empty one, one that looks like a header and one of 257 bytes; chunks of 0, 1, 4, 50 bytes or all that is left |
| `token` | loops are counted, sessions stay over, stopping, going on | 2 sessions, one overtaking the other; 3 timers, so that a loop that was missed and a new one both set theirs; 2 waiting refreshes besides those of the timers; 3 clock values |
| `token_due` (violation) | the auto refresh fires at once | |
| `errors` | errors arrive as thrown, and the decision to retry is right | all 12 types and other errors, with and without message, in headers and trailers; 2 retries; six statuses of gateways, one of them unknown to the tables |
| `jwt` | genuine tokens, no refusal of good ones, failures of one request, the frozen cache | 2 requests at a time and any number after each other; 2 keys that rotate at will; tokens that are wrong in one way each; a clock before and after the expiry |

The type invariants are not listed in the runs: they are proved (section 5).

Deadlock is not checked: all of these systems may stop (a stream that has ended, a request that
is answered, a clock at its bound).

Fairness. `GrpcWebStream`: promises settle, loops run, a transport that is open ends some day;
nothing is assumed of arriving frames, canceled transports or users. `RetryingStream`: timers
fire, microtasks run, and a stream that is started ends, which is `StartedFinishes` of
`GrpcWebStream`. `ServiceCall`: that, and that promises start their stream, which they do at
once. `GrpcWebServer`: context promises settle, handlers return or throw, microtasks run. `Rpc`:
what was written arrives some day over a connection that is neither cut nor closed, the server
learns that the client closed one, promises settle and microtasks run; nothing is assumed of the
handler, of cuts or of cancels. `Framing`, `TokenAuthClient`, `RpcErrors` and `JwtHandler` are
checked for safety only.

## 4. Findings

Each has a run, listed in `PROJECT.json` with the line it quotes. Further deviations that the
models show but no run is spent on:

* `cancel()` while the request context is pending, or from inside a listener, does not stop the
  stream: the continuation of the context promise sets the state to `started` and sends the
  request all the same (client.ts:277-298), and the loop over the frames goes on
  (client.ts:355), against "The stream has been canceled" (stream.ts:55): `Cancel` followed by
  `ContextProvided`, or by `ProcessMessage`;
* a `ready` stream that was canceled reports the clean end of its response as an error
  (client.ts:413-420): `OnEnd` after `Cancel`;
* a handler that broke the protocol and returns right away has its success trailers written
  before those of the error (server.ts:388, against "Send an error 'trailer' to the client" at
  :410), and what the client is told then depends on how the body is cut into chunks:
  `SuccessTrailer` before `StreamContinues`;
* `cancel()` of a retrier before `start()` or after the end emits nothing, though stream.ts:46
  says it will: second disjunct of `Cancel`;
* with `Late`, an error after the end revives the retrier (stream_retrier.ts:155):
  `ProviderStops` fails;
* streams that never emit `ready` have all their messages dropped by a retrier (`EmitsReady =
  FALSE` violates `CompletedIsWhole`): the example of `retryStream()` (stream_retrier.ts:36-37),
  which uses `streamFromArray()`, prints nothing (stream_retrier.ts:138, stream.ts:102-126);
* the response context is decoded before the error is looked at (client.ts:327), and the answer
  of a proxy does not have it: with the timestamp context, 413 is then retried as a
  `ResponseContextDecodingError` (`NotSent`, `ArriveUnreadable`; `PermanentIsNotRepeated`
  excludes it). A `cut` or `replaced` answer may also run a handler again that failed for good
  or even succeeded;
* an error in the trailers comes after `ready`, which resets the count of the retries: a stream
  that always fails there is retried without end, whatever `maxRetries` says (`Read`, third
  disjunct);
* `unknown` and `canceled` have the HTTP status of `internal`; stripped to it, they are not
  retried (http_status.ts:16-25: premise of `TransientIsTriedAgain`);
* a JWKS document without keys is kept for ever and fails all later requests
  (token_auth_jwt_handler.ts:84, against the comment at :64): `poisoned` in `FailureIsItsOwn`;
* a token whose header or signed payload is JSON but no object is answered with `internal`,
  though the doc announces a `TokenValidationError` (token_auth_jwt_handler.ts:57, 103, 110):
  `Refuse`, `Verified`;
* a second `onReady` builds its error without throwing it (server.ts:311-314): `OnReady`;
* `onMessage` used after the handler has resolved and before `resp.end()` would write behind the
  success trailers, since `status` becomes `end` on errors only (server.ts:344, 405);
* a connection closed before `onReady` never calls the close callback (server.ts:295);
* `streamAsPromise()` of a stream that was canceled before hangs (stream.ts:205: nothing is
  emitted any more);
* the response context of an error is made by `provideResponseContext(err)`, but a composite
  connector does not hand `err` on (context/server/composite.ts:48-57);
* an error whose message for the client cannot be encoded, thrown before a stream begins or by a
  unary handler, makes the route throw and leaves the response open: the client waits for ever
  (server.ts:236, outside the `try` below it): `RouteThrows`. So does a codec that fails on the
  trailer of a response that is begun (server.ts:241-254);
* a refresh that was overtaken by `authenticate()` or `clearAutoRefresh()` brings the old token
  back and the timer too (token_auth.ts:99-106, 144): `missed` in `LoopsAreCounted`, the second
  conjunct of `IsOver`, `Quiet` behind `ClearStops`.

## 5. Proofs

Checked by TLAPS for every value of the constants, under the named assumptions of the modules
(`BoundsAssumption`, `RetryAssumption`, `BackoffAssumption`, `ServerAssumption`,
`RpcAssumption`, `TokenAssumption`: the constants are natural numbers, the bounds of `Rpc`, the
lifetimes of tokens, and the base and the unit of the backoff positive ones, `MaxRetries` and
`maxBackoffMs` any integers; `ErrorsAssumption`, `JwtAssumption`, `FramingAssumption`: statuses
are statuses, tokens have their fields, payloads are bytes whose length fits in its four bytes).
Each invariant is proved from an inductive one that TLC checked first: it holds initially, every
action keeps it, and it implies the property.

Liveness needs fairness and ENABLED, which stay with TLC. What the code could get wrong about it
is mostly a matter of safety, though: a step after which nobody is left to go on. One theorem for
each liveness property says that there is no such step, for every value of the constants:

| Liveness (TLC) | Theorem | While it has not come, |
|---|---|---|
| `StartedFinishes` | `NothingIsForgotten` | a promise, the loop or an open transport is waited for |
| `StartedEnds` | `RetrierGoesOn` | the loop has an attempt, and will accept it |
| `CallSettles` | `PendingMeansUnderWay` | the stream has not ended, and its loop goes on |
| `Answered` | `RouteIsNeverLeft` | the route, a promise it awaits or the handler has a step left |
| `VerdictIsTold` | `VerdictIsNotLost` | the server or the client has a step left |

**`GrpcWebStreamProofs`** (the inductive invariant is `IInv`): `TypeCorrect`, `Invariance`,
`OrderPreserved` (`MessagesInOrder`), `CompleteMeansWhole`, `CompleteOrError`,
`UnexpectedStateIsUnreachable`, `SettledStaysSettled` (an action property) and `Implementation`
(`GrpcWebStream` refines `StreamContract`). `MessagesInOrder` alone is not inductive: one must
know that the frames of a running loop are the last ones that arrived (`WorkIsSuffix`), that
`pendingChunkBytes` still holds everything while the stream is not ready (`PendingIsAll`), and
that what was delivered ends right before the loop's next frame (`DeliveredUpTo`).
`ContextFirst`, `HeadersFirst` and `StateOfTransport` order the promises and callbacks;
`ReadyOnce`, `CompleteIsLast` and `ErrorIsLast` say what no later event can follow.
`NothingIsForgotten` (`NeverStranded`) adds `EndIsTold`: a transport that was closed without an
event has a canceled or failed stream behind it, or a loop that is still to tell.

**`ServiceCallProofs`**, the retrier. For any provider: `TypeCorrect`, `LimitKept`
(`AttemptsAreLimited`) and `RetrierGoesOn` (`AttemptGoesOn`). `LimitKept` rests on
`RetriesCounted`: every attempt was paid for by a retry, up to the one that is still running;
late events may count retries that start nothing, never the reverse. `RetrierGoesOn` rests on
`LoopInv`, which says for each place of the loop what the attempt is doing there (`EmitEnds`:
what one event of it can change). For quiet streams (`~Late /\ EmitsReady`: `ready` comes first,
nothing after an error or a cancel): `OneAttemptAtATime`, `ConcatenationKept`,
`OutcomeIsUnique`, `ProviderIsLeftAlone`. The invariant says that only the current attempt can
emit, and only while the state is not terminal (`TerminalIsOver`, `SettledFailed`, lemma
`EmitterIsLive`), and that the last message forwarded is the last one that attempt got
(`LastForwarded`). Without quietness the violated run `retrier_dropped` shows that the
concatenation fails.

**`ServiceCallProofs`**, the promises and the backoff. A `ServiceCall` is a `RetryingStream`
(`CallIsRetried`), so that the invariants above hold of it; `TypeCorrectCall` and
`PendingMeansUnderWay` hold for any provider (`OneEvent`: a step that ends the stream emits the
one event that settles the promise). So does `SleepsOnlyGrow` (`SleepsGrow`, an action
property), whenever there is a limit that a timer can hold: the last sleep was no longer than
the delay of the current number of retries (`SleepsInv`), the next one counts one more
(`SleepingCounts`), and the schedule is monotonic below its cap (`BackoffGrows`, over `power`).
For quiet streams `AcceptedMeansWhole` (`AcceptedIsWhole`): a pending promise has kept all that
was forwarded (`PendingKeepsAll`), and an accepted one is over with its retrier, so that nothing
is emitted behind its back (`AcceptedIsOver`); and `ReportsAreRight` (`RetriesAreReported`, an
action property): the counter of the retrier, which is reset after `ready` and incremented for
the sleep, never strays from the attempts that were started (`RetriesFollow`).

**`GrpcWebServerProofs`**: `TypeCorrect`, `TrailersAreLast`, `AnsweredOnce`, `VisibleFailure`,
`StreamFailuresAreTold` (`StreamFailureIsTold`), `RouteIsNeverLeft` (`RouteGoesOn`). The
invariant describes the body at each stage of the route (`NothingSentYet`, `BodyWhileStreaming`,
`HandedOver` for a response that is begun when the error reaches the route, `BodyWhenDone`,
`StatusOnly`, `UnaryIsWhole`) and ties the promise that the route awaits to the one of the
handler (`PromiseFollowsHandler`): a handler that outlives its response has broken the protocol.
`ErrorInHand` follows the error from where it was thrown to the route.

**`JwtHandlerProofs`**: `TypeCorrect`, `OnlyGenuineTokens`, `GoodTokensPass`, `FailuresStay` and
the action property `CacheFreezes`, for any number of requests. The invariant says for each
place where a request awaits what is known of it there (`RequestInv`: it has a published key
once a key was found, and a genuine token once that was verified), and that every document,
cached or on its way, is `Truthful`: it holds only keys that were published and all those that
always are. That is what makes the order of the answers irrelevant. `OwnStep` treats the steps
that touch one request only; `KeyFound` is `getKey()`.

**`RpcErrorsProofs`**: `TypeCorrect`, `ErrorArrives`, `TransientIsRetried` and
`PermanentFailsOnce`. First the tables: gRPC statuses determine the type (`GrpcInverse`), and a
type guessed from the HTTP status of another is as permanent as that one, or more
(`StatusTells`). Then the invariant: an answer on its way carries the error of the attempt
(`AnswerIsTheError`), and a call that is about to be made again failed for the time being
(`RetriedIsTransient`). `KnownFate` and `UnknownFate` split the failures by whether the client
learned what happened.

**`RpcProofs`**: `Implementation` (`ImplementsRpcContract`) and `ErrorsAreOnRecord`
(`ErrorIsOnRecord`), for any number of messages and cancels. The inductive invariants of
`GrpcWebServerProofs` and `GrpcWebStreamProofs` are taken over as they are: `ServerSteps` and
`ClientSteps` show that each step of `Rpc` is one of theirs. For the client `response` is a
constant, and here it grows: `WritesOnce` shows that the server writes only as long as there are
neither trailers nor a status, and `ServerSpares` that the client's invariant survives that.
Three invariants of the connection complete the argument. `ReadInv`: what arrived was written, a
completed stream has read the trailers and a `ready` one has not. `CauseInv`: a cut or closed
transport has a fault, a failure of the handler or the whole response behind it, and so has an
error. `CountInv` bounds the response by the calls of the handler. `EndStep` is the heart: an
end before the trailers is never taken for one after them. For
`VerdictIsNotLost` (`VerdictOnItsWay`), `EndIsTold` is taken over from the client, and `LinkInv`
says what the ends of the connection know of each other.

**`FramingProofs`**: `TypeCorrect`, `ReturnsWhatArrived` (`CutsDoNotMatter`),
`RetainsLessThanAFrame` (`NothingIsRetained`), `ThrowsAtTheEnd` (`GarbledTrailersThrow`) and the
action property `EachCallReturnsItsFrames` (`ChunkIsItsFrames`), for any payloads up to four
gigabytes, any number of messages and chunks of any size. The invariant: what is left of the
buffer ends with the last byte that arrived and begins where the last whole frame ends
(`BufferInv`), and the frames returned are those whose last byte arrived (`ChunksInv`). The
buffer is then a window onto the wire (`Window`, `WindowBytes`), at whose start a frame begins:
`HeaderIsRead`, where `LengthSurvives` shows that `readLengthFromHeader` undoes `UInt32BE`, and
`FrameIsRead`. A turn returns the next frame if it is whole (`TurnReads`) and otherwise nothing
(`TurnStops`), so that a call returns the frames it made whole (`ParseReads`), and leaves the
rest for the next one (`RestIsLeft`). `ChunkIsItsFrames` is what `GrpcWebStream` takes from here:
there a chunk (`OnChunk`) is a number of frames, and none of its properties depends on the bytes
between them.

Where the code loops or takes powers, the modules define functions by recursion over the natural
numbers (`ParseFrom`, `power`, and `FlattenSeq` of the community modules). That these do what
their equations say is proved as well, from the library's minimal elements of well-founded
relations on: a least element gives induction over sets (`SetInduction`), hence uniqueness
(`RecursionUnique`) and existence (`Recursion`).

**`TokenAuthClientProofs`**: `TypeCorrect` (a timer is due at a natural number, whatever the
dates), `LoopsStayCounted` (`LoopsAreCounted`), `SessionsStayOver` (`SessionStaysOver`, an action
property), `StoppedIsStopped` and `AutoRefreshLasts`, for any number of concurrent refreshes.
`LoopsAreCounted` is not inductive alone: `authenticate()` adds a timer, and the bound survives
because `clearTimeout()` reached the last loop (it is armed), or missed one (which is counted),
or there was room for one more (`LoopInv`; `ClearedLoops` and `SetLoops` are the two halves of
`authenticate()`). The same invariant makes a quiet auto refresh one that clearing ends, hence
`StoppedIsStopped`. For `SessionsStayOver`, a step takes the sessions of the next state from the
token, the timers and the refreshes that wait in this one, or from the application (`Known`,
`NextKnown`).

Only model-checked: liveness (`StartedFinishes`, `StartedEnds`, `CallSettles`, `Answered`,
`VerdictIsTold`, under the fairness above), because it needs ENABLED. Every invariant and every
action property of the passing runs is proved, those that are stated for quiet streams under
that hypothesis.

## 6. Not modelled

* Codecs: JSON and UTF-8 encoding of one message by library functions, without state. That
  encoding or decoding may fail is in `GrpcWebServer` (`OnMessage`), `GrpcWebStream` (`Throws`)
  and `RpcErrors`.
* Composite, timestamp and empty contexts: they merge or decode independent maps, without state;
  the promise of a context is a party of `GrpcWebStream` and of `GrpcWebServer`, and may fail
  there.
* The facade (`protocol/client`, `protocol/server`), the mock, the examples and the site: wiring
  and demonstrations.
* In the modelled parts: a stream provider or a listener that throws inside the retrier
  (stream_retrier.ts:194: its loop then ends silently), listeners that act from inside
  `retryingError`/`canceled`, the options of the router, and what Express does below `write()`
  and `end()`.
