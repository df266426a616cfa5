-------------------------------- MODULE Rpc --------------------------------
(***************************************************************************)
(* One call end to end: a GrpcWebStream and the route of a GrpcWebServer,  *)
(* with the connection between them.  The components are those of the two  *)
(* modules; this one says what each of them sees of the other.             *)
(*                                                                         *)
(* The request arrives once the client has sent it, the headers once the   *)
(* server has written a frame or ended the response, the frames in the     *)
(* order in which they were written, cut into chunks anyhow, and the end   *)
(* after the last frame.  The connection may be cut at any moment, which   *)
(* loses what has not arrived, and either side learns of it on its own.    *)
(*                                                                         *)
(* The handler keeps to the protocol and the codec encodes its trailers    *)
(* (GrpcWebServer has those that do not), the listeners do not throw       *)
(* (GrpcWebStream has those that do).  A handler need not return: it may   *)
(* wait for its close callback.                                            *)
(***************************************************************************)
EXTENDS Integers, Sequences

CONSTANTS
  MaxCalls,    \* bound: calls of onReady and onMessage
  MaxCancels   \* bound: calls of cancel()

\* A unary method sends one message.
ASSUME RpcAssumption == MaxCalls \in Nat \ {0} /\ MaxCancels \in Nat

VARIABLES
  \* the server, see GrpcWebServer
  kind, pc, status, handler, promise, err, registered, closed, closeCalls, wire,
  http, ended, reported, calls, broke, lost,
  \* the client, see GrpcWebStream
  state, transport, reqCtx, headers, arrived, pending, work, run, inListener,
  delivered, emitted, threw,
  \* between them
  link,   \* the connection: not yet open, open with the request sent, cut
  fault   \* history: a cancel(), or something but the handler went wrong

serverVars == <<kind, pc, status, handler, promise, err, registered, closed,
                closeCalls, wire, http, ended, reported, calls, broke, lost>>
clientVars == <<state, transport, reqCtx, headers, arrived, pending, work, run,
                inListener, delivered, emitted, threw>>
vars == <<serverVars, clientVars, link, fault>>

\* The response as the client will see it, as far as it is written; trailers are
\* its last frame (NoMessageAfterTrailer, OneAnswer).
HasTrailers == wire /= <<>> /\ wire[Len(wire)] /= "message"
response == [count |-> IF HasTrailers THEN Len(wire) - 1 ELSE Len(wire),
             trailer |-> IF HasTrailers THEN wire[Len(wire)] ELSE "ok"]

Server == INSTANCE GrpcWebServer WITH CodecFails <- FALSE
Client == INSTANCE GrpcWebStream WITH MaxMessages <- MaxCalls, Throws <- FALSE

Init ==
  /\ Server!Init
  /\ link = "closed"
  /\ fault = FALSE
  /\ state = "initial"
  /\ transport = "none"
  /\ reqCtx = "none"
  /\ headers = "none"
  /\ arrived = 0
  /\ pending = <<>>
  /\ work = <<>>
  /\ run = "idle"
  /\ inListener = FALSE
  /\ delivered = <<>>
  /\ emitted = [event \in Client!Events |-> 0]
  /\ threw = FALSE

(***************************************************************************)
(* The server, once it has the request.                                    *)
(***************************************************************************)
Serves(A) == UNCHANGED <<clientVars, link, fault>> /\ A

RequestArrives == link = "open" /\ Serves(Server!Refuse \/ Server!Accept)

RouteContinues ==
  \/ Serves(Server!Decoded)
  \/ Serves(Server!ContextProvided)
  \/ Serves(Server!Fails)
  \/ Serves(Server!ResponseFails)
  \/ Serves(Server!FailureSent)
  \/ Serves(Server!RouteThrows)
  \/ Serves(Server!SuccessTrailer)
  \/ Serves(Server!StreamContinues)

HandlerActs ==
  /\ Serves(\/ Server!UnaryHandled
            \/ Server!OnReady
            \/ \E encodable \in BOOLEAN : Server!OnMessage(encodable)
            \/ Server!HandlerResolves
            \/ Server!HandlerRejects)
  /\ ~broke'

\* The response emits 'close' when the connection is gone.
ConnectionGone == link = "cut" \/ transport \in {"canceled", "ended"}
ServerCloses == pc /= "received" /\ (ConnectionGone \/ ended) /\ Serves(Server!Close)

(***************************************************************************)
(* The client.                                                             *)
(***************************************************************************)
Runs(A) == UNCHANGED serverVars /\ A

Start ==
  /\ Runs(Client!Start)
  /\ fault' = (fault \/ state' = "error")
  /\ UNCHANGED link

ContextProvided ==
  /\ Runs(Client!ContextProvided)
  /\ link' = "open"
  /\ UNCHANGED fault

\* Nothing is sent, or not all of the request.
ContextRejected ==
  /\ Runs(Client!ContextRejected)
  /\ fault' = TRUE
  /\ UNCHANGED link

Cancel ==
  /\ Runs(Client!Cancel)
  /\ fault' = TRUE
  /\ UNCHANGED link

RunStep == Runs(Client!RunStep) /\ UNCHANGED <<link, fault>>

HeadersDecoded ==
  /\ http = "none"
  /\ Runs(Client!HeadersDecoded)
  /\ UNCHANGED <<link, fault>>

HeadersRejected ==
  /\ Runs(Client!HeadersRejected)
  /\ fault' = (fault \/ http = "none")   \* the response context is undecodable
  /\ UNCHANGED link

(***************************************************************************)
(* The connection.                                                         *)
(***************************************************************************)
HeadersArrive ==
  /\ wire /= <<>> \/ ended
  /\ Runs(Client!OnHeaders)
  /\ UNCHANGED <<link, fault>>

FramesArrive(k) ==
  /\ arrived + k <= Len(wire)
  /\ Runs(Client!OnChunk(k))
  /\ UNCHANGED <<link, fault>>

EndArrives ==
  /\ \/ ended /\ arrived = Len(wire)
     \/ link = "cut"
     \/ transport = "canceled"
  /\ Runs(Client!OnEnd)
  /\ UNCHANGED <<link, fault>>

FailureArrives ==
  /\ link = "cut" \/ transport = "canceled"
  /\ Runs(Client!OnEndWithError)
  /\ UNCHANGED <<link, fault>>

Cut ==
  /\ link = "open" /\ transport = "open"
  /\ link' = "cut"
  /\ fault' = TRUE
  /\ UNCHANGED <<serverVars, clientVars>>

Arrivals ==
  \/ HeadersArrive
  \/ \E k \in 1..Len(wire) : FramesArrive(k)
  \/ EndArrives
  \/ FailureArrives

Next ==
  \/ RequestArrives
  \/ RouteContinues
  \/ HandlerActs
  \/ ServerCloses
  \/ Start
  \/ ContextProvided
  \/ ContextRejected
  \/ Cancel
  \/ RunStep
  \/ HeadersDecoded
  \/ HeadersRejected
  \/ Arrivals
  \/ Cut

Spec == Init /\ [][Next]_vars

(***************************************************************************)
(* Fairness: what was written arrives some day unless the connection is    *)
(* cut, promises settle, a route goes on when it can, and the server       *)
(* learns that the client closed a connection that was not cut.  A handler *)
(* need not return.                                                        *)
(***************************************************************************)
Fairness ==
  /\ WF_vars(RequestArrives)
  /\ WF_vars(RouteContinues)
  /\ WF_vars(ContextProvided \/ ContextRejected)
  /\ WF_vars(RunStep)
  /\ WF_vars(HeadersDecoded \/ HeadersRejected)
  /\ WF_vars(transport = "open" /\ Arrivals)
  /\ WF_vars(transport \in {"canceled", "ended"} /\ link = "open" /\ ServerCloses)

FairSpec == Spec /\ Fairness

-----------------------------------------------------------------------------
(***************************************************************************)
(* Properties.                                                             *)
(***************************************************************************)

Verdict ==
  IF http /= "none" THEN "error"
  ELSE IF HasTrailers THEN wire[Len(wire)]
  ELSE "open"

Result ==
  IF emitted["error"] > 0 THEN "error"
  ELSE IF emitted["complete"] > 0 THEN "ok"
  ELSE "pending"

Contract == INSTANCE RpcContract WITH
  MaxMessages <- MaxCalls, sent <- response.count, verdict <- Verdict,
  got <- Len(delivered), result <- Result

\* Client, connection and server together implement RpcContract: success is never
\* told of a handler that failed or of a response cut short, nor an error of a
\* handler that succeeded over a connection that held
\* (server.ts:385-450 with client.ts:240-267, 354-422).
ImplementsRpcContract == Contract!Spec

\* The client is told the verdict of the handler some day, unless there was a
\* fault: neither a slow decoding of the headers nor an end that comes before it
\* loses the trailers (client.ts:209-211, 261-264, 395-406).
VerdictIsTold == Verdict /= "open" ~> (Result = Verdict \/ fault)

\* An error that reaches the client over a connection that held is on record on the
\* server: it was reported to reportError, unless it is a refusal of the request
\* (server.ts:153-161, 225-255, 404-408).
ErrorIsOnRecord ==
  Result = "error" /\ ~fault => reported > 0 \/ http = "refused"

\* What the close callback is for ("'onReady' allows us to pass a callback for early
\* cancellation", src/src/examples/server_stream/handler.ts:27): a handler that has
\* registered it, over a connection that is open, hears of a cancel() on the client,
\* unless it ends, or the connection is cut, first.
CancelIsHeard ==
  (registered /\ ~closed /\ state = "canceled")
    ~> (closeCalls > 0 \/ handler /= "running" \/ link = "cut")
=============================================================================
