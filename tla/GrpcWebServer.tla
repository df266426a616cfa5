--------------------------- MODULE GrpcWebServer ---------------------------
(***************************************************************************)
(* The server side of one gRPC-Web call: the route handler,                *)
(* processServerStream() and processUnary() of                             *)
(* src/src/protocol/grpc_web/server/server.ts.                             *)
(*                                                                         *)
(* The route awaits the request context, the method handler and the        *)
(* response context in turn.  A handler of a server stream runs beside it: *)
(* its calls of onReady and onMessage reject the promise that the route    *)
(* awaits when they break the protocol, yet the handler goes on.  The      *)
(* callback of its own promise and the continuation of the route are       *)
(* microtasks, which may come in either order.  The connection may close   *)
(* at any moment.                                                          *)
(*                                                                         *)
(* The frames of the body are "message", "ok" (trailers without an error)  *)
(* and "error" (trailers with one).  Writing to the response does not      *)
(* throw, a frame written after its end is lost, and the first frame sends *)
(* the headers.  The codec is supplied by the user and may fail; its       *)
(* errors carry no message for the client.                                 *)
(*                                                                         *)
(* An error is "tellable" unless it carries a message for the client that  *)
(* cannot be encoded (encodeURIComponent() throws of a lone surrogate).    *)
(***************************************************************************)
EXTENDS Integers, Sequences

CONSTANTS
  MaxCalls,   \* bound: calls of onReady and onMessage
  CodecFails  \* whether codec.encodeTrailer() may throw

ASSUME ServerAssumption == MaxCalls \in Nat /\ CodecFails \in BOOLEAN

VARIABLES
  kind,        \* the type of the method
  pc,          \* where the route handler is
  status,      \* StreamStatus; "none" before processServerStream() declares it
  handler,     \* the promise of the method handler
  promise,     \* the promise that processServerStream() awaits
  err,         \* the error caught last, or the reason of the promise
  registered,  \* whether onReady registered a close callback
  closed,      \* whether the response emitted 'close'
  closeCalls,  \* history: calls of the close callback
  wire,        \* frames written to the body of the response
  http,        \* how the HTTP status alone answers: refused, error, or not
  ended,       \* resp.finished
  reported,    \* history: calls of reportError
  calls,       \* history: calls of onReady and onMessage
  broke,       \* history: whether a callback rejected the promise
  lost         \* history: frames written after the end

vars == <<kind, pc, status, handler, promise, err, registered, closed, closeCalls,
          wire, http, ended, reported, calls, broke, lost>>

routeVars == <<kind, pc, http, reported>>
closeVars == <<registered, closed, closeCalls>>

Trailers == {"ok", "error"}
Errors == {"tellable", "untellable"}

TypeOK ==
  /\ kind \in {"unary", "stream"}
  /\ pc \in {"received", "decoding", "handling", "providing", "streaming",
             "failing", "thrown", "done"}
  /\ status \in {"none", "notReady", "ready", "end"}
  /\ handler \in {"none", "running", "resolved", "settled"}
  /\ promise \in {"none", "pending", "resolved", "rejected"}
  /\ err \in {"none"} \union Errors
  /\ {registered, closed, ended, broke} \subseteq BOOLEAN
  /\ wire \in Seq({"message"} \union Trailers)
  /\ http \in {"none", "refused", "error"}
  /\ {closeCalls, reported, lost} \subseteq Nat
  /\ calls \in 0..MaxCalls

Init ==
  /\ kind \in {"unary", "stream"}
  /\ pc = "received"
  /\ status = "none"
  /\ handler = "none"
  /\ promise = "none"
  /\ err = "none"
  /\ registered = FALSE
  /\ closed = FALSE
  /\ closeCalls = 0
  /\ wire = <<>>
  /\ http = "none"
  /\ ended = FALSE
  /\ reported = 0
  /\ calls = 0
  /\ broke = FALSE
  /\ lost = 0

Write(frames) ==
  IF ended THEN /\ lost' = lost + Len(frames)
                /\ UNCHANGED wire
           ELSE /\ wire' = wire \o frames
                /\ UNCHANGED lost

(***************************************************************************)
(* The route handler.                                                      *)
(***************************************************************************)
\* Not a POST, or from a client that does not accept the codec's content type.
Refuse ==
  /\ pc = "received"
  /\ pc' = "done"
  /\ http' = "refused"
  /\ ended' = TRUE
  /\ UNCHANGED <<kind, status, handler, promise, err, closeVars, wire, reported,
                 calls, broke, lost>>

Accept ==
  /\ pc = "received"
  /\ pc' = "decoding"
  /\ UNCHANGED <<kind, status, handler, promise, err, closeVars, wire, http, ended,
                 reported, calls, broke, lost>>

\* The request context and the request are decoded; a unary handler is called.
Decoded ==
  /\ pc = "decoding"
  /\ IF kind = "unary" THEN pc' = "handling" /\ handler' = "running"
                       ELSE pc' = "providing" /\ UNCHANGED handler
  /\ UNCHANGED <<kind, status, promise, err, closeVars, wire, http, ended, reported,
                 calls, broke, lost>>

UnaryHandled ==
  /\ pc = "handling"
  /\ pc' = "providing"
  /\ handler' = "settled"
  /\ UNCHANGED <<kind, status, promise, err, closeVars, wire, http, ended, reported,
                 calls, broke, lost>>

\* The response context is set: a stream starts its handler, a unary method sends
\* its response, all of it at once.
ContextProvided ==
  /\ pc = "providing"
  /\ \/ /\ kind = "stream"
        /\ pc' = "streaming"
        /\ status' = "notReady"
        /\ handler' = "running"
        /\ promise' = "pending"
        /\ UNCHANGED <<wire, ended, lost>>
     \/ /\ kind = "unary"
        /\ pc' = "done"
        /\ Write(<<"message", "ok">>)
        /\ ended' = TRUE
        /\ UNCHANGED <<status, handler, promise>>
  /\ UNCHANGED <<kind, err, closeVars, http, reported, calls, broke>>

\* Mutant: the route does not report.
FailsUnreported ==
  /\ pc \in {"decoding", "handling", "providing"}
  /\ pc' = "failing"
  /\ err' \in Errors
  /\ handler' = IF pc = "handling" THEN "settled" ELSE handler
  /\ UNCHANGED <<kind, status, promise, closeVars, wire, http, ended, reported, calls,
                 broke, lost>>

\* Decoding fails, the unary handler rejects, or no response context is provided.
Fails ==
  /\ pc \in {"decoding", "handling", "providing"}
  /\ pc' = "failing"
  /\ err' \in Errors
  /\ handler' = IF pc = "handling" THEN "settled" ELSE handler
  /\ reported' = reported + 1
  /\ UNCHANGED <<kind, status, promise, closeVars, wire, http, ended, calls, broke,
                 lost>>

\* The codec fails on the response of a unary method, or on the trailer when the
\* response is written already; processUnary() reports it before the route does.
ResponseFails ==
  /\ pc = "providing" /\ kind = "unary"
  /\ pc' = "failing"
  /\ err' = "tellable"
  /\ reported' = reported + 2
  /\ \/ UNCHANGED <<wire, lost>>
     \/ CodecFails /\ Write(<<"message">>)
  /\ UNCHANGED <<kind, status, handler, promise, closeVars, http, ended, calls, broke>>

(***************************************************************************)
(* The error clause of the route, after the context for the error, whose   *)
(* failure is reported.  It tells the error by the status as long as no    *)
(* frame is written, by a trailer afterwards; no error gets there once the *)
(* response is finished (EndedWhenDone, which GrpcWebServerProofs proves). *)
(***************************************************************************)
ContextForError == reported' \in {reported, reported + 1}

FailureSent ==
  /\ pc = "failing" /\ err = "tellable"
  /\ pc' = "done"
  /\ ContextForError
  /\ \/ /\ wire = <<>>
        /\ http' = "error"
        /\ UNCHANGED <<wire, lost>>
     \/ /\ wire /= <<>> /\ ~ended
        /\ Write(<<"error">>)
        /\ UNCHANGED http
  /\ ended' = TRUE
  /\ UNCHANGED <<kind, status, handler, promise, err, closeVars, calls, broke>>

\* The route throws, and the response is left open: the message of the error cannot
\* be encoded, or there is no trailer for it, which is reported.
RouteThrows ==
  /\ pc = "failing"
  /\ pc' = "thrown"
  /\ \/ /\ err = "untellable"
        /\ ContextForError
     \/ /\ err = "tellable" /\ wire /= <<>> /\ ~ended /\ CodecFails
        /\ reported' \in {reported + 1, reported + 2}
  /\ UNCHANGED <<kind, status, handler, promise, err, closeVars, wire, http, ended,
                 calls, broke, lost>>

(***************************************************************************)
(* The handler of a server stream.                                         *)
(***************************************************************************)
\* The callbacks are used by the handler only, as long as it runs.
MayCall ==
  /\ kind = "stream"
  /\ handler = "running"
  /\ calls < MaxCalls

\* reject(e): the first settlement of the promise is the one that counts.
RejectWith(e) ==
  /\ promise' = IF promise = "pending" THEN "rejected" ELSE promise
  /\ err' = IF promise = "pending" THEN e ELSE err

BreakProtocol ==
  /\ RejectWith("tellable")
  /\ broke' = (broke \/ promise = "pending")

\* A second onReady is not refused: its error is built, not thrown.
OnReady ==
  /\ MayCall
  /\ calls' = calls + 1
  /\ \/ /\ status = "end"
        /\ BreakProtocol
        /\ UNCHANGED <<status, registered>>
     \/ /\ status /= "end"
        /\ status' = "ready"
        /\ registered' = TRUE
        /\ UNCHANGED <<promise, err, broke>>
  /\ UNCHANGED <<routeVars, handler, closed, closeCalls, wire, ended, lost>>

OnMessage(encodable) ==
  /\ MayCall
  /\ calls' = calls + 1
  /\ \/ /\ status /= "ready" \/ ~encodable \/ ended
        /\ BreakProtocol
        /\ UNCHANGED <<wire, lost>>
     \/ /\ status = "ready" /\ encodable /\ ~ended
        /\ Write(<<"message">>)
        /\ UNCHANGED <<promise, err, broke>>
  /\ UNCHANGED <<routeVars, status, handler, closeVars, ended>>

HandlerResolves ==
  /\ kind = "stream" /\ handler = "running"
  /\ handler' = "resolved"
  /\ UNCHANGED <<routeVars, status, promise, err, closeVars, wire, ended, calls,
                 broke, lost>>

HandlerRejects ==
  /\ kind = "stream" /\ handler = "running"
  /\ handler' = "settled"
  /\ \E e \in Errors : RejectWith(e)
  /\ UNCHANGED <<routeVars, status, closeVars, wire, ended, calls, broke, lost>>

\* Mutant: the trailer is forgotten.
SuccessWithoutTrailer ==
  /\ handler = "resolved"
  /\ handler' = "settled"
  /\ promise' = IF promise = "pending" THEN "resolved" ELSE promise
  /\ UNCHANGED <<routeVars, status, err, closeVars, wire, ended, calls, broke, lost>>

\* The callback of the handler's promise, whatever became of the response.
SuccessTrailer ==
  /\ handler = "resolved"
  /\ handler' = "settled"
  /\ \/ /\ Write(<<"ok">>)
        /\ promise' = IF promise = "pending" THEN "resolved" ELSE promise
        /\ UNCHANGED err
     \/ /\ CodecFails
        /\ RejectWith("tellable")
        /\ UNCHANGED <<wire, lost>>
  /\ UNCHANGED <<routeVars, status, closeVars, ended, calls, broke>>

(***************************************************************************)
(* The end of processServerStream().                                       *)
(***************************************************************************)
StreamSucceeds ==
  /\ promise = "resolved"
  /\ pc' = "done"
  /\ ended' = TRUE
  /\ UNCHANGED <<status, err, reported, wire, lost>>

\* The error clause tells the error by a trailer.
StreamFails ==
  /\ promise = "rejected"
  /\ status' = "end"
  /\ \/ /\ err = "tellable"
        /\ pc' = "done"
        /\ reported' = reported + 1
        /\ Write(<<"error">>)
        /\ ended' = TRUE
        /\ UNCHANGED err
     \/ /\ err = "untellable" \/ CodecFails
        \* There is no trailer: that is reported as well, and left to the route,
        \* as an error that carries no message.
        /\ pc' = "failing"
        /\ reported' = reported + 3
        /\ err' = "tellable"
        /\ UNCHANGED <<wire, ended, lost>>

\* Mutants: the error clause neither closes the stream nor ends the response; there
\* is no error clause; it leaves the error to the route as it is.
StreamContinuesOpen ==
  /\ pc = "streaming"
  /\ \/ StreamSucceeds
     \/ /\ promise = "rejected"
        /\ pc' = "done"
        /\ reported' = reported + 1
        /\ Write(<<"error">>)
        /\ UNCHANGED <<status, err, ended>>
  /\ UNCHANGED <<kind, handler, promise, closeVars, http, calls, broke>>
StreamContinuesUncaught ==
  /\ pc = "streaming"
  /\ StreamSucceeds
  /\ UNCHANGED <<kind, handler, promise, closeVars, http, calls, broke>>
StreamRethrows ==
  /\ pc = "streaming"
  /\ \/ StreamSucceeds
     \/ /\ promise = "rejected"
        /\ pc' = "failing"
        /\ status' = "end"
        /\ reported' = reported + 2
        /\ UNCHANGED <<err, wire, ended, lost>>
  /\ UNCHANGED <<kind, handler, promise, closeVars, http, calls, broke>>

StreamContinues ==
  /\ pc = "streaming"
  /\ StreamSucceeds \/ StreamFails
  /\ UNCHANGED <<kind, handler, promise, closeVars, http, calls, broke>>

Close ==
  /\ ~closed
  /\ closed' = TRUE
  /\ closeCalls' = IF registered THEN closeCalls + 1 ELSE closeCalls
  /\ UNCHANGED <<routeVars, status, handler, promise, err, registered, wire, ended,
                 calls, broke, lost>>

Next ==
  \/ Refuse
  \/ Accept
  \/ Decoded
  \/ UnaryHandled
  \/ ContextProvided
  \/ Fails
  \/ ResponseFails
  \/ FailureSent
  \/ RouteThrows
  \/ OnReady
  \/ \E encodable \in BOOLEAN : OnMessage(encodable)
  \/ HandlerResolves
  \/ HandlerRejects
  \/ SuccessTrailer
  \/ StreamContinues
  \/ Close

Spec == Init /\ [][Next]_vars

(***************************************************************************)
(* Fairness: the promises of the contexts settle, handlers return or throw *)
(* some day, and microtasks run.  Handlers need not call anything, and the *)
(* connection need not close.                                              *)
(***************************************************************************)
Fairness ==
  /\ WF_vars(Refuse \/ Accept)
  /\ WF_vars(Decoded \/ UnaryHandled \/ ContextProvided \/ Fails \/ ResponseFails)
  /\ WF_vars(FailureSent \/ RouteThrows)
  /\ WF_vars(HandlerResolves \/ HandlerRejects)
  /\ WF_vars(SuccessTrailer)
  /\ WF_vars(StreamContinues)

FairSpec == Spec /\ Fairness

-----------------------------------------------------------------------------
(***************************************************************************)
(* Properties.                                                             *)
(***************************************************************************)

\* No message follows trailers in the body, even if the handler goes on calling
\* onMessage after it broke the protocol
\* (server.ts:336-383, 404-429).
NoMessageAfterTrailer ==
  \A i, j \in 1..Len(wire) :
    i < j /\ wire[i] \in Trailers => wire[j] /= "message"

\* A response that was ended in reply to a handler that kept to the protocol has
\* either a status or a body with one trailer, its last frame, never both; nothing
\* is written after the end, and the body of a unary method is one message with one
\* trailer, which tells an error when the one of the success cannot be encoded
\* (server.ts:241-247, 386-401, 442-449, 478-497).
OneAnswer ==
  ended /\ ~broke /\ pc = "done" =>
    /\ lost = 0
    /\ http = "none" => /\ wire /= <<>> /\ wire[Len(wire)] \in Trailers
                        /\ \A i \in 1..(Len(wire) - 1) : wire[i] = "message"
    /\ http /= "none" => wire = <<>>
    /\ kind = "unary" /\ http = "none" =>
         wire \in {<<"message", "ok">>, <<"message", "error">>}

\* A call fails visibly for the client if and only if it was reported to
\* reportError, and one that the route leaves open was reported
\* (server.ts:225-255, 404-440, 486-497).
FailureIsReported ==
  /\ pc = "done" =>
       (reported > 0 <=> http = "error" \/ \E i \in 1..Len(wire) : wire[i] = "error")
  /\ pc = "thrown" => reported > 0

\* A response is left open for want of an error whose message can be encoded only if
\* that error precedes the stream: one of a stream is told, since its error clause
\* hands the route another error when it has no trailer for its own
\* (server.ts:422-440 with 225-247).
StreamFailureIsTold ==
  pc = "thrown" /\ err = "untellable" => status = "none" /\ wire = <<>>

\* Every request is answered, its response ends some day, unless the error clause of
\* the route throws (server.ts:147-257).
Answered == <>(ended \/ pc = "thrown")
=============================================================================
