--------------------------- MODULE GrpcWebStream ---------------------------
(***************************************************************************)
(* The client side of one gRPC-Web call: the class GrpcWebStream of        *)
(* src/src/protocol/grpc_web/client/client.ts.                             *)
(*                                                                         *)
(* The stream is an event emitter driven by four asynchronous parties: the *)
(* promise of the request context, the transport (onHeaders, onChunk,      *)
(* onEnd), the promise that decodes the response context out of the        *)
(* headers, and the user of the stream, who may call cancel() at any       *)
(* moment, from inside one of its own event listeners included.  The       *)
(* JavaScript event loop runs one handler at a time, so a handler is one   *)
(* action, except that the loops which emit one event per frame are one    *)
(* action per frame: the listener that an emission calls may cancel.       *)
(*                                                                         *)
(* Frame f of the response is its f-th message if f <= response.count; the *)
(* frame that follows the last message is the trailers.  The transport     *)
(* hands over chunks of one frame or more.                                 *)
(***************************************************************************)
EXTENDS Integers, Sequences

CONSTANTS
  MaxMessages,  \* bound: messages in the response of the server
  MaxCancels,   \* bound: calls of cancel()
  Throws        \* whether decodeMessage and the listeners of the user may throw

ASSUME BoundsAssumption == /\ MaxMessages \in Nat
                           /\ MaxCancels \in Nat
                           /\ Throws \in BOOLEAN

VARIABLES
  state,       \* GrpcWebStream.state
  transport,   \* the low-level transport, as the stream sees it
  reqCtx,      \* the promise of provideRequestContext()
  headers,     \* the promise of onHeaders(): response context and rejection
  response,    \* what the server answers: number of messages, kind of trailers
  arrived,     \* number of frames the transport handed to onChunk so far
  pending,     \* frames in pendingChunkBytes
  work,        \* frames the running loop of onChunk() or ready() has yet to process
  run,         \* which synchronous loop is on the stack
  inListener,  \* whether that loop is inside a listener of the user
  delivered,   \* history: the messages emitted, in order
  emitted,     \* history: how often each other event was emitted
  threw        \* history: whether decodeMessage or a listener threw

vars == <<state, transport, reqCtx, headers, response, arrived, pending, work,
          run, inListener, delivered, emitted, threw>>

States == {"initial", "waitingForRequest", "started", "ready", "canceled",
           "error", "trailersReceived", "complete", "endedBeforeReady"}
Events == {"ready", "error", "complete", "canceled"}
Responses == [count : 0..MaxMessages, trailer : {"ok", "error"}]

LastFrame == response.count + 1
FramesFrom(a, k) == [i \in 1..k |-> a + i]

Emit(event) == emitted' = [emitted EXCEPT ![event] = @ + 1]
Idle == run = "idle"

TypeOK ==
  /\ state \in States
  /\ transport \in {"none", "created", "open", "canceled", "ended"}
  /\ reqCtx \in {"none", "pending", "settled"}
  /\ headers \in {"none", "decoding", "settled"}
  /\ response \in Responses
  /\ arrived \in 0..LastFrame
  /\ pending \in Seq(Nat)
  /\ work \in Seq(Nat)
  /\ run \in {"idle", "chunk", "flush", "flushEnd"}
  /\ inListener \in BOOLEAN
  /\ delivered \in Seq(Nat)
  /\ emitted \in [Events -> Nat]
  /\ threw \in BOOLEAN

Init ==
  /\ state = "initial"
  /\ transport = "none"
  /\ reqCtx = "none"
  /\ headers = "none"
  /\ response \in Responses
  /\ arrived = 0
  /\ pending = <<>>
  /\ work = <<>>
  /\ run = "idle"
  /\ inListener = FALSE
  /\ delivered = <<>>
  /\ emitted = [event \in Events |-> 0]
  /\ threw = FALSE

(***************************************************************************)
(* start(), and what follows the promise of the request context.           *)
(***************************************************************************)
Start ==
  /\ state = "initial"
  /\ \/ /\ state' = "waitingForRequest"
        /\ transport' = "created"
        /\ reqCtx' = "pending"
        /\ UNCHANGED emitted
     \/ /\ state' = "error"              \* getTransport() returned an Error
        /\ Emit("error")
        /\ UNCHANGED <<transport, reqCtx>>
  /\ UNCHANGED <<headers, response, arrived, pending, work, run, inListener,
                 delivered, threw>>

\* Mutant: the state is not advanced when the transport starts.
ContextProvidedNotStarted ==
  /\ reqCtx = "pending"
  /\ reqCtx' = "settled"
  /\ transport' = "open"
  /\ UNCHANGED <<state, headers, response, arrived, pending, work, run, inListener,
                 delivered, emitted, threw>>

\* The request is sent whatever became of the stream since start().
ContextProvided ==
  /\ reqCtx = "pending"
  /\ reqCtx' = "settled"
  /\ transport' = "open"
  /\ state' = "started"
  /\ UNCHANGED <<headers, response, arrived, pending, work, run, inListener,
                 delivered, emitted, threw>>

\* The promise is rejected or transport.start() throws; or, with the transport
\* open already, the request function or encodeRequest() throws.
ContextRejected ==
  /\ reqCtx = "pending"
  /\ reqCtx' = "settled"
  /\ transport' \in {"created", "open"}
  /\ state' = "error"
  /\ Emit("error")
  /\ UNCHANGED <<headers, response, arrived, pending, work, run, inListener,
                 delivered, threw>>

(***************************************************************************)
(* The headers.  A transport that was canceled may still call back.        *)
(***************************************************************************)
CanCallBack == Idle /\ transport \in {"open", "canceled"}

OnHeaders ==
  /\ CanCallBack
  /\ headers = "none"
  /\ headers' = "decoding"
  /\ UNCHANGED <<state, transport, reqCtx, response, arrived, pending, work, run,
                 inListener, delivered, emitted, threw>>

\* Mutants of ready(): it forgets the chunks received so far; it forgets end(); it
\* does not mind being canceled or failed.
ReadyAs(states, frames, loop) ==
  /\ state \in states
  /\ state' = "ready"
  /\ Emit("ready")
  /\ work' = frames
  /\ run' = loop
  /\ inListener' = TRUE
NotYetReady == {"started", "endedBeforeReady"}
ReadyDropsPending == ReadyAs(NotYetReady, <<>>, "flush")
ReadyForgetsEnd == ReadyAs(NotYetReady, pending, "flush")
ReadyAfterCancel == ReadyAs(NotYetReady \union {"canceled"}, pending, "flush")
ReadyAfterError == ReadyAs(NotYetReady \union {"error"}, pending, "flush")

\* ready(): emits 'ready' and starts the loop over pendingChunkBytes.
Ready ==
  /\ state \in {"started", "endedBeforeReady"}
  /\ state' = "ready"
  /\ Emit("ready")
  /\ work' = pending
  /\ run' = IF state = "endedBeforeReady" THEN "flushEnd" ELSE "flush"
  /\ inListener' = TRUE

HeadersDecoded ==
  /\ Idle
  /\ headers = "decoding"
  /\ headers' = "settled"
  /\ \/ Ready
     \/ /\ state \in {"canceled", "error"}
        /\ UNCHANGED <<state, emitted, work, run, inListener>>
  /\ UNCHANGED <<transport, reqCtx, response, arrived, pending, delivered, threw>>

\* An undecodable context, a grpc-status in the headers (which cancels the
\* transport) or an HTTP status that is not 200.  The state is left alone.
HeadersRejected ==
  /\ Idle
  /\ headers = "decoding"
  /\ headers' = "settled"
  /\ \/ UNCHANGED transport
     \/ transport' = IF transport = "open" THEN "canceled" ELSE transport
  /\ Emit("error")
  /\ UNCHANGED <<state, reqCtx, response, arrived, pending, work, run,
                 inListener, delivered, threw>>

(***************************************************************************)
(* The body.                                                               *)
(***************************************************************************)
CanReceive == CanCallBack /\ headers /= "none" /\ arrived < LastFrame

OnChunk(k) ==
  /\ CanReceive
  /\ arrived + k <= LastFrame
  /\ arrived' = arrived + k
  /\ \/ /\ state = "started"
        /\ pending' = pending \o FramesFrom(arrived, k)
        /\ UNCHANGED <<work, run>>
     \/ /\ state = "ready"
        /\ work' = FramesFrom(arrived, k)
        /\ run' = "chunk"
        /\ UNCHANGED pending
     \/ /\ state \in {"canceled", "error"}
        /\ UNCHANGED <<pending, work, run>>
  /\ UNCHANGED <<state, transport, reqCtx, headers, response, inListener,
                 delivered, emitted, threw>>

ProcessMessage ==
  /\ work /= <<>>
  /\ Head(work) <= response.count
  /\ delivered' = Append(delivered, Head(work))
  /\ work' = Tail(work)
  /\ inListener' = TRUE
  /\ UNCHANGED <<state, transport, reqCtx, headers, response, arrived, pending,
                 run, emitted, threw>>

\* Mutants: the status in the trailers is not looked at; the `break' after the
\* error of the trailers is missing.
ProcessTrailersUnchecked ==
  /\ work /= <<>>
  /\ Head(work) = LastFrame
  /\ work' = Tail(work)
  /\ state' = "trailersReceived"
  /\ inListener' = FALSE
  /\ UNCHANGED <<transport, reqCtx, headers, response, arrived, pending, run,
                 delivered, emitted, threw>>
ProcessTrailersFallsThrough ==
  /\ work /= <<>>
  /\ Head(work) = LastFrame
  /\ work' = Tail(work)
  /\ state' = "trailersReceived"
  /\ inListener' = (response.trailer = "error")
  /\ IF response.trailer = "error" THEN Emit("error") ELSE UNCHANGED emitted
  /\ UNCHANGED <<transport, reqCtx, headers, response, arrived, pending, run,
                 delivered, threw>>

ProcessTrailers ==
  /\ work /= <<>>
  /\ Head(work) = LastFrame
  /\ work' = Tail(work)
  /\ \/ /\ response.trailer = "ok"
        /\ state' = "trailersReceived"
        /\ inListener' = FALSE
        /\ UNCHANGED emitted
     \/ /\ response.trailer = "error"
        /\ state' = "error"
        /\ inListener' = TRUE
        /\ Emit("error")
  /\ UNCHANGED <<transport, reqCtx, headers, response, arrived, pending, run,
                 delivered, threw>>

End ==
  \/ /\ state = "trailersReceived"
     /\ state' = "complete"
     /\ Emit("complete")
  \/ /\ state \notin {"trailersReceived", "error"}
     /\ Emit("error")
     /\ UNCHANGED state
  \/ /\ state = "error"
     /\ UNCHANGED <<state, emitted>>

\* The loop has run to its end.  If the transport has ended before, ready() goes
\* on with end(), whose listener is still called from ready().
RunEnds ==
  /\ run /= "idle"
  /\ work = <<>>
  /\ \/ /\ run = "flushEnd"
        /\ End
        /\ run' = "flush"
        /\ inListener' = (state /= "error")
     \/ /\ run /= "flushEnd"
        /\ run' = "idle"
        /\ inListener' = FALSE
        /\ UNCHANGED <<state, emitted>>
  /\ UNCHANGED <<transport, reqCtx, headers, response, arrived, pending, work,
                 delivered, threw>>

\* The listener on the stack, or the decoding of the next message, throws: the
\* rest of the loop is lost.  Out of ready() the exception ends in the catch()
\* of the headers' promise; out of a chunk it escapes into the transport.
RunThrows ==
  /\ Throws
  /\ run /= "idle"
  /\ inListener \/ (work /= <<>> /\ Head(work) <= response.count)
  /\ run' = "idle"
  /\ work' = <<>>
  /\ inListener' = FALSE
  /\ threw' = TRUE
  /\ IF run = "chunk" THEN UNCHANGED emitted ELSE Emit("error")
  /\ UNCHANGED <<state, transport, reqCtx, headers, response, arrived, pending,
                 delivered>>

OnEndWithError ==
  /\ CanCallBack
  /\ transport' = "ended"
  /\ state' = "error"
  /\ IF state = "error" THEN UNCHANGED emitted ELSE Emit("error")
  /\ UNCHANGED <<reqCtx, headers, response, arrived, pending, work, run,
                 inListener, delivered, threw>>

\* A clean end, possibly before the trailers if the connection was cut.
OnEnd ==
  /\ CanCallBack
  /\ headers /= "none"
  /\ transport' = "ended"
  /\ \/ /\ state = "started"
        /\ state' = "endedBeforeReady"
        /\ UNCHANGED emitted
     \/ /\ state /= "started"
        /\ End
  /\ UNCHANGED <<reqCtx, headers, response, arrived, pending, work, run,
                 inListener, delivered, threw>>

(***************************************************************************)
(* cancel(), between two handlers or from inside a listener.               *)
(***************************************************************************)
Cancel ==
  /\ Idle \/ inListener
  /\ emitted["canceled"] < MaxCancels
  /\ state' = "canceled"
  /\ transport' = IF state = "started" /\ transport = "open"
                  THEN "canceled" ELSE transport
  /\ Emit("canceled")
  /\ UNCHANGED <<reqCtx, headers, response, arrived, pending, work, run,
                 inListener, delivered, threw>>

ContextSettles == ContextProvided \/ ContextRejected
HeadersSettle == HeadersDecoded \/ HeadersRejected
RunStep == ProcessMessage \/ ProcessTrailers \/ RunEnds \/ RunThrows
TransportEnds == OnEndWithError \/ OnEnd

Next ==
  \/ Start
  \/ ContextSettles
  \/ OnHeaders
  \/ HeadersSettle
  \/ \E k \in 1..LastFrame : OnChunk(k)
  \/ RunStep
  \/ TransportEnds
  \/ Cancel

Spec == Init /\ [][Next]_vars

(***************************************************************************)
(* Fairness: promises settle, a synchronous loop runs to its end, and a    *)
(* transport that was not canceled ends some day.  Nothing forces the      *)
(* frames to arrive, a canceled transport to call back, or anyone to start *)
(* or cancel the stream.                                                   *)
(***************************************************************************)
Fairness ==
  /\ WF_vars(ContextSettles)
  /\ WF_vars(HeadersSettle)
  /\ WF_vars(RunStep)
  /\ WF_vars(transport = "open" /\ TransportEnds)

FairSpec == Spec /\ Fairness

-----------------------------------------------------------------------------
(***************************************************************************)
(* Properties.                                                             *)
(***************************************************************************)

\* Whatever the interleaving of chunks, header decoding, flushing and cancels,
\* the messages emitted are a prefix of those the server sent: none is lost,
\* repeated or reordered where pendingChunkBytes hands over to direct
\* processing (client.ts:209-217, 395-401), unless the user's code threw; even
\* then they come in increasing order.
MessagesInOrder ==
  \A i \in 1..Len(delivered) :
    /\ ~threw => delivered[i] = i
    /\ i > 1 => delivered[i - 1] < delivered[i]
    /\ delivered[i] \in 1..response.count

\* 'complete' (client.ts:410-412) promises that the whole response was
\* delivered: every message was emitted and the trailers reported success.
CompleteIsWhole ==
  emitted["complete"] > 0 =>
    /\ emitted["ready"] = 1
    /\ response.trailer = "ok"
    /\ ~threw => Len(delivered) = response.count

\* 'complete' is emitted at most once, and never on a stream that emitted
\* 'error', be it from the request context, the headers, the trailers or the
\* transport (client.ts:244-267, 368-383, 409-421).
CompleteExcludesError ==
  /\ emitted["complete"] <= 1
  /\ ~threw => ~(emitted["complete"] > 0 /\ emitted["error"] > 0)

\* The branches that call unexpectedState() (client.ts:186-197, 223-233), which
\* the source excludes from its test coverage, cannot be reached by any order of
\* callbacks, decoding and cancels.
NoUnexpectedState ==
  /\ Idle /\ headers = "decoding" =>
       state \in {"started", "endedBeforeReady", "canceled", "error"}
  /\ CanReceive => state \in {"started", "ready", "canceled", "error"}

\* A canceled or failed stream whose request context is settled and that is not
\* in the middle of a loop stays so: no later callback makes it emit 'ready', a
\* message or 'complete' (client.ts:199-201, 219-221, 241-243, 307-315).
Settled == Idle /\ reqCtx /= "pending" /\ state \in {"canceled", "error"}
SettledIsFinal ==
  [][Settled => /\ Settled'
                /\ delivered' = delivered
                /\ emitted'["ready"] = emitted["ready"]
                /\ emitted'["complete"] = emitted["complete"]]_vars

\* Every stream that is started emits 'complete', 'error' or 'canceled' some day,
\* an end of the transport that overtakes the decoding of the headers included
\* (client.ts:261-264, 403-405).
Finished == \E event \in {"complete", "error", "canceled"} : emitted[event] > 0
StartedFinishes == (state = "waitingForRequest") ~> Finished

\* As long as nothing throws, the stream keeps the contract of StreamContract.
ContractPhase ==
  IF emitted["error"] > 0 THEN "failed"
  ELSE IF emitted["complete"] > 0 THEN "complete"
  ELSE IF emitted["ready"] > 0 THEN "ready"
  ELSE "waiting"

Contract == INSTANCE StreamContract WITH
  total <- response.count, phase <- ContractPhase, got <- Len(delivered),
  faulty <- threw

\* The stream implements StreamContract: in particular nothing but further
\* errors follows an error, wherever it came from (client.ts:166-422).
ImplementsContract == Contract!Spec
=============================================================================
