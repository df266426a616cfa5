----------------------------- MODULE RpcProofs -----------------------------
(***************************************************************************)
(* Proofs about Rpc, for any number of messages and cancels: client,       *)
(* connection and server together implement RpcContract, and an error that *)
(* reaches the client is on record on the server.                          *)
(*                                                                         *)
(* The invariants of GrpcWebServerProofs and GrpcWebStreamProofs hold of   *)
(* the two components here.  A step of the client leaves the response      *)
(* alone and is one of GrpcWebStream; a step of the server leaves the      *)
(* client alone and makes the response longer, unless it is complete,      *)
(* which none of the client's invariants minds.                            *)
(***************************************************************************)
EXTENDS Rpc, TLAPS

S == INSTANCE GrpcWebServerProofs WITH CodecFails <- FALSE
C == INSTANCE GrpcWebStreamProofs WITH MaxMessages <- MaxCalls, Throws <- FALSE

-----------------------------------------------------------------------------
(***************************************************************************)
(* The two components.                                                     *)
(***************************************************************************)
LEMMA ClientAssumption == C!BoundsAssumption
BY RpcAssumption DEF C!BoundsAssumption

LEMMA ServerInitial == Server!Init => S!IInv
<1>1. S!ServerAssumption
  BY RpcAssumption DEF S!ServerAssumption
<1>2. Server!Init => S!Init
  BY DEF Server!Init, S!Init
<1> QED
  BY <1>1, <1>2, S!InitInv

LEMMA ServerInductive == S!IInv /\ [S!Next]_(S!vars) => S!IInv'
<1>1. S!ServerAssumption
  BY RpcAssumption DEF S!ServerAssumption
<1> QED
  BY <1>1, S!Induction

LEMMA ClientInductive == C!IInv /\ [C!Next]_(C!vars) => C!IInv'
BY ClientAssumption, C!StepIInv

\* The server's part of a step is one of GrpcWebServer.
ServerStep ==
  /\ UNCHANGED <<clientVars, link, fault>>
  /\ S!Next
  /\ ~broke => ~broke'

LEMMA ServerSteps ==
  RequestArrives \/ RouteContinues \/ HandlerActs \/ ServerCloses => ServerStep
<1>1. RequestArrives => ServerStep
  BY DEF RequestArrives, ServerStep, Serves, S!Next, Server!Refuse, S!Refuse, Server!Accept,
     S!Accept, S!closeVars, Server!closeVars
<1>2. ASSUME Serves(Server!Decoded) PROVE ServerStep
  BY <1>2 DEF ServerStep, Serves, S!Next, Server!Decoded, S!Decoded, S!closeVars,
     Server!closeVars
<1>3. ASSUME Serves(Server!ContextProvided) PROVE ServerStep
  <2>1. Server!ContextProvided => S!ContextProvided
    BY DEF Server!ContextProvided, S!ContextProvided, S!closeVars, Server!closeVars,
       Server!Write, S!Write
  <2>2. Server!ContextProvided => broke' = broke
    BY DEF Server!ContextProvided
  <2> QED
    BY <1>3, <2>1, <2>2 DEF ServerStep, Serves, S!Next
<1>4. ASSUME Serves(Server!Fails) PROVE ServerStep
  <2>1. Server!Fails => S!Fails /\ broke' = broke
    BY DEF Server!Fails, S!Fails, S!closeVars, Server!closeVars, Server!Errors, S!Errors
  <2> QED
    BY <1>4, <2>1 DEF ServerStep, Serves, S!Next
<1>4a. ASSUME Serves(Server!ResponseFails) PROVE ServerStep
  <2>1. Server!ResponseFails => S!ResponseFails /\ broke' = broke
    BY DEF Server!ResponseFails, S!ResponseFails, S!closeVars, Server!closeVars
  <2> QED
    BY <1>4a, <2>1 DEF ServerStep, Serves, S!Next
<1>5. ASSUME Serves(Server!FailureSent) PROVE ServerStep
  <2>1. Server!FailureSent => S!FailureSent /\ broke' = broke
    BY DEF Server!FailureSent, S!FailureSent, S!closeVars, Server!closeVars,
       Server!ContextForError, S!ContextForError, Server!Write, S!Write
  <2> QED
    BY <1>5, <2>1 DEF ServerStep, Serves, S!Next
<1>5a. ASSUME Serves(Server!RouteThrows) PROVE ServerStep
  <2>1. Server!RouteThrows => S!RouteThrows /\ broke' = broke
    BY DEF Server!RouteThrows, S!RouteThrows, S!closeVars, Server!closeVars,
       Server!ContextForError, S!ContextForError
  <2> QED
    BY <1>5a, <2>1 DEF ServerStep, Serves, S!Next
<1>6. ASSUME Serves(Server!SuccessTrailer) PROVE ServerStep
  <2>1. Server!SuccessTrailer => S!SuccessTrailer /\ broke' = broke
    BY DEF Server!SuccessTrailer, S!SuccessTrailer, S!closeVars, Server!closeVars,
       Server!Write, S!Write, Server!routeVars, S!routeVars, Server!RejectWith, S!RejectWith
  <2> QED
    BY <1>6, <2>1 DEF ServerStep, Serves, S!Next
<1>7. ASSUME Serves(Server!StreamContinues) PROVE ServerStep
  <2>1. Server!StreamContinues => S!StreamContinues /\ broke' = broke
    BY DEF Server!StreamContinues, S!StreamContinues, S!closeVars, Server!closeVars,
       Server!StreamSucceeds, S!StreamSucceeds, Server!StreamFails, S!StreamFails,
       Server!Write, S!Write
  <2> QED
    BY <1>7, <2>1 DEF ServerStep, Serves, S!Next
<1>8. HandlerActs => ServerStep
  <2>1. Server!UnaryHandled => S!UnaryHandled
    BY DEF Server!UnaryHandled, S!UnaryHandled, S!closeVars, Server!closeVars
  <2>2. Server!OnReady => S!OnReady
    BY DEF Server!OnReady, S!OnReady, Server!MayCall, S!MayCall,
       Server!BreakProtocol, S!BreakProtocol, Server!RejectWith, S!RejectWith,
       Server!routeVars, S!routeVars
  <2>3. ASSUME NEW e \in BOOLEAN, Server!OnMessage(e) PROVE S!OnMessage(e)
    BY <2>3 DEF Server!OnMessage, S!OnMessage, Server!MayCall, S!MayCall,
       Server!BreakProtocol, S!BreakProtocol, Server!RejectWith, S!RejectWith,
       Server!Write, S!Write, Server!routeVars, S!routeVars, Server!closeVars, S!closeVars
  <2>4. Server!HandlerResolves => S!HandlerResolves
    BY DEF Server!HandlerResolves, S!HandlerResolves, Server!routeVars, S!routeVars,
       Server!closeVars, S!closeVars
  <2>5. Server!HandlerRejects => S!HandlerRejects
    BY DEF Server!HandlerRejects, S!HandlerRejects, Server!routeVars, S!routeVars,
       Server!closeVars, S!closeVars, Server!RejectWith, S!RejectWith, Server!Errors, S!Errors
  <2> QED
    BY <2>1, <2>2, <2>3, <2>4, <2>5 DEF HandlerActs, ServerStep, Serves, S!Next
<1>9. ServerCloses => ServerStep
  <2>1. Server!Close => S!Close /\ broke' = broke
    BY DEF Server!Close, S!Close, Server!routeVars, S!routeVars
  <2> QED
    BY <2>1 DEF ServerCloses, ServerStep, Serves, S!Next
<1> QED
  BY <1>1, <1>2, <1>3, <1>4, <1>4a, <1>5, <1>5a, <1>6, <1>7, <1>8, <1>9 DEF RouteContinues

\* The client's part of a step is one of GrpcWebStream, where nothing throws.
ClientStep == UNCHANGED serverVars /\ C!Next /\ threw' = threw

LEMMA ClientSteps ==
  ASSUME C!IInv,
         \/ Start \/ ContextProvided \/ ContextRejected \/ Cancel \/ RunStep
         \/ HeadersDecoded \/ HeadersRejected \/ Arrivals
  PROVE  ClientStep
<1>1. CASE Start
  <2>1. Client!Start => C!Start /\ threw' = threw
    BY DEF Client!Start, C!Start, Client!Emit, C!Emit
  <2> QED
    BY <1>1, <2>1 DEF Start, Runs, ClientStep, C!Next
<1>2. CASE ContextProvided
  <2>1. Client!ContextProvided => C!ContextProvided /\ threw' = threw
    BY DEF Client!ContextProvided, C!ContextProvided
  <2> QED
    BY <1>2, <2>1 DEF ContextProvided, Runs, ClientStep, C!Next, C!ContextSettles
<1>3. CASE ContextRejected
  <2>1. Client!ContextRejected => C!ContextRejected /\ threw' = threw
    BY DEF Client!ContextRejected, C!ContextRejected, Client!Emit, C!Emit
  <2> QED
    BY <1>3, <2>1 DEF ContextRejected, Runs, ClientStep, C!Next, C!ContextSettles
<1>4. CASE Cancel
  <2>1. Client!Cancel => C!Cancel /\ threw' = threw
    BY DEF Client!Cancel, C!Cancel, Client!Emit, C!Emit, Client!Idle, C!Idle
  <2> QED
    BY <1>4, <2>1 DEF Cancel, Runs, ClientStep, C!Next
<1>5. CASE RunStep
  <2>1. Client!ProcessMessage => C!ProcessMessage /\ threw' = threw
    BY DEF Client!ProcessMessage, C!ProcessMessage
  <2>2. Client!ProcessTrailers => C!ProcessTrailers /\ threw' = threw
    BY DEF Client!ProcessTrailers, C!ProcessTrailers, Client!Emit, C!Emit,
       Client!LastFrame, C!LastFrame
  <2>3. Client!RunEnds => C!RunEnds /\ threw' = threw
    BY DEF Client!RunEnds, C!RunEnds, Client!Emit, C!Emit, Client!End, C!End
  <2>4. ~Client!RunThrows
    BY DEF Client!RunThrows
  <2> QED
    BY <1>5, <2>1, <2>2, <2>3, <2>4
    DEF RunStep, Runs, ClientStep, C!Next, Client!RunStep, C!RunStep
<1>6. CASE HeadersDecoded
  <2>1. Client!HeadersDecoded => C!HeadersDecoded /\ threw' = threw
    BY DEF Client!HeadersDecoded, C!HeadersDecoded, Client!Emit, C!Emit, Client!Idle, C!Idle,
       Client!Ready, C!Ready
  <2> QED
    BY <1>6, <2>1 DEF HeadersDecoded, Runs, ClientStep, C!Next, C!HeadersSettle
<1>7. CASE HeadersRejected
  <2>1. Client!HeadersRejected => C!HeadersRejected /\ threw' = threw
    BY DEF Client!HeadersRejected, C!HeadersRejected, Client!Emit, C!Emit, Client!Idle, C!Idle
  <2> QED
    BY <1>7, <2>1 DEF HeadersRejected, Runs, ClientStep, C!Next, C!HeadersSettle
<1>8. CASE HeadersArrive
  <2>1. Client!OnHeaders => C!OnHeaders /\ threw' = threw
    BY DEF Client!OnHeaders, C!OnHeaders, Client!CanCallBack, C!CanCallBack, Client!Idle, C!Idle
  <2> QED
    BY <1>8, <2>1 DEF HeadersArrive, Runs, ClientStep, C!Next
<1>9. ASSUME NEW k \in 1..Len(wire), FramesArrive(k) PROVE ClientStep
  <2>1. Client!OnChunk(k) => C!OnChunk(k) /\ threw' = threw
    BY DEF Client!OnChunk, C!OnChunk, Client!CanCallBack, C!CanCallBack, Client!Idle, C!Idle,
       Client!CanReceive, C!CanReceive, Client!LastFrame, C!LastFrame, Client!FramesFrom,
       C!FramesFrom
  <2>2. C!OnChunk(k) => k \in 1..C!LastFrame
    <3>1. C!OnChunk(k) => arrived + k <= C!LastFrame
      BY DEF C!OnChunk
    <3>2. arrived \in Nat /\ C!LastFrame \in Nat
      BY C!ResponseType, ClientAssumption DEF C!IInv, C!TypeOK
    <3> QED
      BY <3>1, <3>2
  <2> QED
    BY <1>9, <2>1, <2>2 DEF FramesArrive, Runs, ClientStep, C!Next
<1>10. CASE EndArrives
  <2>1. Client!OnEnd => C!OnEnd /\ threw' = threw
    BY DEF Client!OnEnd, C!OnEnd, Client!CanCallBack, C!CanCallBack, Client!Idle, C!Idle,
       Client!End, C!End, Client!Emit, C!Emit
  <2> QED
    BY <1>10, <2>1 DEF EndArrives, Runs, ClientStep, C!Next, C!TransportEnds
<1>11. CASE FailureArrives
  <2>1. Client!OnEndWithError => C!OnEndWithError /\ threw' = threw
    BY DEF Client!OnEndWithError, C!OnEndWithError, Client!CanCallBack, C!CanCallBack,
       Client!Idle, C!Idle, Client!Emit, C!Emit
  <2> QED
    BY <1>11, <2>1 DEF FailureArrives, Runs, ClientStep, C!Next, C!TransportEnds
<1> QED
  BY <1>1, <1>2, <1>3, <1>4, <1>5, <1>6, <1>7, <1>8, <1>9, <1>10, <1>11 DEF Arrivals

-----------------------------------------------------------------------------
(***************************************************************************)
(* The response, as far as it is written.                                  *)
(***************************************************************************)
Frames == {"message", "ok", "error"}

LEMMA WireType == S!IInv => wire \in Seq(Frames)
<1>1. {"message"} \union S!Trailers = Frames
  BY DEF S!Trailers, Frames
<1> QED
  BY <1>1 DEF S!IInv, S!TypeOK

LEMMA ResponseFacts ==
  ASSUME wire \in Seq(Frames)
  PROVE  /\ Len(wire) \in Nat /\ response.count \in Nat
         /\ HasTrailers => /\ response.count = Len(wire) - 1
                           /\ response.trailer = wire[Len(wire)]
                           /\ response.trailer \in {"ok", "error"}
         /\ ~HasTrailers => response.count = Len(wire) /\ response.trailer = "ok"
<1>1. Len(wire) \in Nat
  OBVIOUS
<1>2. HasTrailers => Len(wire) > 0 /\ wire[Len(wire)] \in {"ok", "error"}
  BY DEF HasTrailers, Frames
<1> QED
  BY <1>1, <1>2 DEF response

\* What one more frame makes of the response.
LEMMA ResponseGrows ==
  ASSUME wire \in Seq(Frames), ~HasTrailers, NEW f \in Frames, wire' = wire \o <<f>>
  PROVE  /\ Len(wire') = Len(wire) + 1
         /\ f = "message" => /\ ~HasTrailers'
                             /\ response'.count = response.count + 1
                             /\ response'.trailer = "ok"
         /\ f /= "message" => /\ HasTrailers'
                              /\ response'.count = response.count
                              /\ response'.trailer = f
<1>1. /\ wire' \in Seq(Frames) /\ wire' /= <<>> /\ Len(wire) \in Nat
      /\ Len(wire') = Len(wire) + 1 /\ wire'[Len(wire')] = f
  OBVIOUS
<1>2. HasTrailers' <=> f /= "message"
  BY <1>1 DEF HasTrailers
<1>3. response.count = Len(wire)
  BY ResponseFacts
<1>4. f = "message" => /\ response'.count = Len(wire')
                       /\ response'.trailer = "ok"
  BY <1>2 DEF response
<1>5. f /= "message" => /\ response'.count = Len(wire') - 1
                        /\ response'.trailer = f
  BY <1>1, <1>2 DEF response
<1> QED
  BY <1>1, <1>2, <1>3, <1>4, <1>5

\* The body of a unary response.
LEMMA UnaryResponse ==
  ASSUME wire = <<>>, wire' = <<"message", "ok">>
  PROVE  /\ ~HasTrailers /\ response.count = 0
         /\ HasTrailers' /\ response'.count = 1 /\ response'.trailer = "ok"
         /\ Len(wire) = 0 /\ Len(wire') = 2
BY DEF HasTrailers, response

\* A server may write as long as there are neither trailers nor a status.
ServerWrites ==
  \/ wire' = wire /\ http' = http
  \/ wire' = wire /\ wire = <<>> /\ http = "none" /\ http' \in {"refused", "error"} /\ ~ended
  \/ /\ ~HasTrailers /\ http = "none" /\ http' = http /\ ~ended /\ kind = "stream"
     /\ \/ wire' = wire \o <<"message">> /\ calls' = calls + 1
        \/ wire' = wire \o <<"ok">> /\ calls' = calls
        \/ wire' = wire \o <<"error">> /\ calls' = calls
  \/ /\ wire = <<>> /\ wire' = <<"message", "ok">> /\ http = "none" /\ http' = http
     /\ ~ended /\ kind = "unary"

LEMMA WritesOnce ==
  ASSUME S!IInv, S!Next, ~broke
  PROVE  /\ ServerWrites
         /\ kind' = kind /\ (ended => ended')
         /\ calls' \in {calls, calls + 1}
<1>0. /\ S!NothingSentYet /\ S!EndedWhenDone /\ S!StatusOnly /\ S!BodyWhileStreaming
      /\ S!HandedOver /\ S!PromiseFollowsHandler
      /\ wire \in Seq(Frames) /\ calls \in Nat /\ kind \in {"unary", "stream"}
  BY WireType, RpcAssumption DEF S!IInv, S!TypeOK
<1>1. S!Messages(wire) => ~HasTrailers
  <2>1. wire /= <<>> => Len(wire) \in 1..Len(wire)
    BY <1>0
  <2> QED
    BY <2>1 DEF S!Messages, HasTrailers
<1>2. wire = <<>> => ~HasTrailers
  BY DEF HasTrailers
<1>p. ASSUME pc \in {"received", "decoding", "handling", "providing"}
      PROVE  wire = <<>> /\ http = "none" /\ ~ended
  BY <1>0, <1>p DEF S!NothingSentYet, S!EndedWhenDone, S!Early
<1> USE DEF S!routeVars, S!closeVars
<1>3. CASE S!Refuse \/ S!Accept
  BY <1>3, <1>p DEF S!Refuse, S!Accept, ServerWrites
<1>3a. CASE S!FailureSent
  <2>1. /\ pc = "failing" /\ ended' /\ UNCHANGED <<kind, calls>>
        /\ \/ wire = <<>> /\ http' = "error" /\ wire' = wire
           \/ wire /= <<>> /\ wire' = wire \o <<"error">> /\ http' = http
    BY <1>3a DEF S!FailureSent, S!Write
  <2>2. http = "none" /\ ~ended
    BY <1>0, <2>1 DEF S!HandedOver, S!EndedWhenDone
  <2>3. wire /= <<>> => kind = "stream" /\ S!Messages(wire)
    BY <1>0, <2>1 DEF S!HandedOver
  <2> QED
    BY <1>1, <2>1, <2>2, <2>3 DEF ServerWrites
<1>4. CASE S!Decoded \/ S!UnaryHandled \/ S!Fails \/ S!RouteThrows \/ S!Close
           \/ S!HandlerResolves \/ S!HandlerRejects
  BY <1>4 DEF S!Decoded, S!UnaryHandled, S!Fails, S!RouteThrows, S!Close, S!HandlerResolves,
     S!HandlerRejects, ServerWrites
<1>4a. CASE S!ResponseFails
  BY <1>4a DEF S!ResponseFails, ServerWrites
<1>5. CASE S!ContextProvided
  <2>1. /\ wire = <<>> /\ ~ended /\ http = "none" /\ UNCHANGED <<kind, http, calls>>
    BY <1>5, <1>p DEF S!ContextProvided
  <2>2. wire' = wire \/ (kind = "unary" /\ wire' = <<"message", "ok">>)
    BY <1>5, <2>1 DEF S!ContextProvided, S!Write
  <2> QED
    BY <2>1, <2>2 DEF ServerWrites
<1>6. CASE S!OnReady
  BY <1>6 DEF S!OnReady, ServerWrites
\* A handler that runs, or has resolved, in a call that is not answered.
<1>h. ASSUME kind = "stream", handler \in {"running", "resolved"}, ~ended
      PROVE  S!Messages(wire) /\ http = "none"
  <2>1. promise = "pending"
    BY <1>0, <1>h DEF S!PromiseFollowsHandler, S!IInv, S!TypeOK
  <2> QED
    BY <1>0, <1>h, <2>1 DEF S!PromiseFollowsHandler, S!BodyWhileStreaming, S!StatusOnly,
       S!EndedWhenDone
<1>7. ASSUME NEW e \in BOOLEAN, S!OnMessage(e)
      PROVE  /\ ServerWrites
             /\ kind' = kind /\ (ended => ended') /\ calls' = calls + 1
  <2>1. /\ kind = "stream" /\ handler = "running" /\ calls' = calls + 1
        /\ UNCHANGED <<kind, http, ended>>
        /\ wire' = wire \/ (~ended /\ wire' = wire \o <<"message">>)
    BY <1>7 DEF S!OnMessage, S!MayCall, S!Write
  <2> QED
    BY <1>1, <1>h, <2>1 DEF ServerWrites
<1>8. CASE S!SuccessTrailer
  <2>1. /\ handler = "resolved" /\ UNCHANGED <<kind, http, ended, calls>>
        /\ wire' = wire \/ (~ended /\ wire' = wire \o <<"ok">>)
    BY <1>8 DEF S!SuccessTrailer, S!Write
  <2>2. kind = "stream"
    BY <2>1 DEF S!IInv, S!UnaryIsWhole, S!TypeOK
  <2> QED
    BY <1>1, <1>h, <2>1, <2>2 DEF ServerWrites
<1>9. CASE S!StreamContinues
  <2>1. /\ pc = "streaming" /\ (ended => ended') /\ UNCHANGED <<kind, http, calls>>
        /\ wire' = wire \/ (promise = "rejected" /\ ~ended /\ wire' = wire \o <<"error">>)
    BY <1>0, <1>9 DEF S!StreamContinues, S!StreamSucceeds, S!StreamFails, S!Write,
       S!EndedWhenDone
  <2>2. promise = "rejected" => S!Messages(wire)
    BY <1>0, <2>1 DEF S!BodyWhileStreaming
  <2>3. http = "none" /\ kind = "stream"
    BY <1>0, <2>1 DEF S!StatusOnly, S!IInv, S!UnaryIsWhole, S!TypeOK
  <2> QED
    BY <1>1, <2>1, <2>2, <2>3 DEF ServerWrites
<1> QED
  BY <1>3, <1>3a, <1>4, <1>4a, <1>5, <1>6, <1>7, <1>8, <1>9 DEF S!Next

-----------------------------------------------------------------------------
(***************************************************************************)
(* The invariant of the connection.                                        *)
(***************************************************************************)
\* What arrives was written; a completed stream has read the trailers, and one that
\* is ready has not.
ReadInv ==
  /\ ~broke /\ ~threw
  /\ arrived <= Len(wire)
  /\ emitted["complete"] > 0 => HasTrailers /\ arrived = Len(wire)
  /\ state = "ready" => arrived - Len(work) <= response.count

\* Whatever ends before its time has a cause.
CauseInv ==
  /\ fault \in BOOLEAN
  /\ link = "cut" => fault
  /\ state = "canceled" => fault
  /\ transport = "canceled" => fault \/ http /= "none"
  /\ transport = "ended" => fault \/ http /= "none" \/ (ended /\ arrived = Len(wire))
  /\ emitted["error"] > 0 => fault \/ Verdict = "error"

\* The bound on calls bounds the response.
CountInv ==
  /\ kind = "stream" => response.count <= calls
  /\ kind = "unary" => response.count <= 1

Inv == S!IInv /\ C!IInv /\ ReadInv /\ CauseInv /\ CountInv

\* What the steps of the server make of what the client has read.
LEMMA ServerKeeps ==
  ASSUME Inv, ServerStep
  PROVE  /\ ReadInv' /\ CauseInv' /\ CountInv'
         /\ \/ response' = response /\ Verdict' = Verdict
            \/ /\ Verdict = "open"
               /\ ~HasTrailers
               /\ response'.count \in {response.count, response.count + 1}
               /\ Verdict' \in {"open", "ok", "error"}
<1>0. /\ S!Next /\ S!IInv /\ ~broke
      /\ UNCHANGED <<clientVars, link, fault>>
      /\ wire \in Seq(Frames)
  BY WireType DEF Inv, ReadInv, ServerStep
<1>1. /\ ServerWrites /\ ~broke'
      /\ kind' = kind /\ (ended => ended') /\ calls' \in {calls, calls + 1}
  BY <1>0, WritesOnce DEF ServerStep
<1>2. /\ arrived \in Nat /\ Len(work) \in Nat /\ calls \in Nat
      /\ Len(wire) \in Nat /\ response.count \in Nat
      /\ kind \in {"unary", "stream"}
  <2>1. calls \in Nat /\ kind \in {"unary", "stream"}
    BY <1>0, RpcAssumption DEF S!IInv, S!TypeOK
  <2>2. C!LastFrame \in Nat
    BY ClientAssumption, C!ResponseType DEF Inv, C!IInv, C!TypeOK
  <2>3. arrived \in Nat /\ Len(work) \in Nat
    BY <2>2 DEF Inv, C!IInv, C!TypeOK
  <2> QED
    BY <1>0, <2>1, <2>3, ResponseFacts
<1>3. /\ UNCHANGED <<state, transport, arrived, work, emitted, threw>>
      /\ link' = link /\ fault' = fault
  BY <1>0 DEF clientVars
<1>4. ReadInv /\ CauseInv /\ CountInv
  BY DEF Inv
\* Nothing is written.
<1>5. CASE wire' = wire /\ http' = http
  <2>1. response' = response /\ Verdict' = Verdict /\ (HasTrailers' <=> HasTrailers)
    BY <1>5 DEF response, Verdict, HasTrailers
  <2>2. ReadInv'
    BY <1>1, <1>3, <1>4, <1>5, <2>1 DEF ReadInv
  <2>3. CauseInv'
    BY <1>1, <1>3, <1>4, <1>5, <2>1 DEF CauseInv
  <2>4. CountInv'
    BY <1>1, <1>2, <1>4, <2>1 DEF CountInv
  <2> QED
    BY <2>1, <2>2, <2>3, <2>4
\* The status tells.
<1>6. CASE wire' = wire /\ wire = <<>> /\ http = "none" /\ http' \in {"refused", "error"} /\ ~ended
  <2>1. response' = response /\ ~HasTrailers /\ ~HasTrailers'
    BY <1>6 DEF response, HasTrailers
  <2>2. Verdict = "open" /\ Verdict' = "error"
    BY <1>6, <2>1 DEF Verdict
  <2>3. ReadInv'
    BY <1>1, <1>3, <1>4, <1>6, <2>1 DEF ReadInv
  <2>4. CauseInv'
    BY <1>1, <1>3, <1>4, <1>6, <2>2 DEF CauseInv
  <2>5. CountInv'
    BY <1>1, <1>2, <1>4, <2>1 DEF CountInv
  <2> QED
    BY <2>1, <2>2, <2>3, <2>4, <2>5
\* A frame more.
<1>7. ASSUME NEW f \in Frames, wire' = wire \o <<f>>,
             ~HasTrailers, http = "none", http' = http, ~ended, kind = "stream",
             f = "message" => calls' = calls + 1,
             f /= "message" => calls' = calls
      PROVE  /\ ReadInv' /\ CauseInv' /\ CountInv'
             /\ Verdict = "open"
             /\ ~HasTrailers
             /\ response'.count \in {response.count, response.count + 1}
             /\ Verdict' \in {"open", "ok", "error"}
  <2>1. /\ Len(wire') = Len(wire) + 1
        /\ response'.count \in {response.count, response.count + 1}
        /\ f = "message" => ~HasTrailers' /\ response'.count = response.count + 1
        /\ f /= "message" => HasTrailers' /\ response'.count = response.count
    BY <1>0, <1>7, ResponseGrows
  <2>2. Verdict = "open"
    BY <1>7 DEF Verdict
  <2>3. Verdict' \in {"open", "ok", "error"}
    <3>0. wire' \in Seq(Frames) /\ Len(wire') \in Nat
      BY <1>0, <1>7
    <3>1. HasTrailers' => wire'[Len(wire')] \in {"ok", "error"}
      BY <3>0 DEF HasTrailers, Frames
    <3> QED
      BY <1>7, <3>1 DEF Verdict
  <2>4. ~(emitted["complete"] > 0)
    BY <1>4, <1>7 DEF ReadInv
  <2>5. ReadInv'
    BY <1>1, <1>2, <1>3, <1>4, <2>1, <2>4 DEF ReadInv
  <2>6. CauseInv'
    BY <1>3, <1>4, <1>7, <2>2 DEF CauseInv
  <2>7. CountInv'
    BY <1>1, <1>2, <1>4, <1>7, <2>1 DEF CountInv
  <2> QED
    BY <1>7, <2>1, <2>2, <2>3, <2>5, <2>6, <2>7
\* A unary response.
<1>8. CASE /\ wire = <<>> /\ wire' = <<"message", "ok">> /\ http = "none" /\ http' = http
           /\ ~ended /\ kind = "unary"
  <2>1. /\ ~HasTrailers /\ response.count = 0
        /\ HasTrailers' /\ response'.count = 1 /\ response'.trailer = "ok"
        /\ Len(wire) = 0 /\ Len(wire') = 2
    BY <1>8, UnaryResponse
  <2>2. Verdict = "open" /\ Verdict' = "ok"
    BY <1>8, <2>1 DEF Verdict, HasTrailers
  <2>3. ~(emitted["complete"] > 0)
    BY <1>4, <2>1 DEF ReadInv
  <2>4. ReadInv'
    BY <1>1, <1>2, <1>3, <1>4, <2>1, <2>3 DEF ReadInv
  <2>5. CauseInv'
    BY <1>3, <1>4, <1>8, <2>2 DEF CauseInv
  <2>6. CountInv'
    BY <1>1, <1>8, <2>1 DEF CountInv
  <2> QED
    BY <2>1, <2>2, <2>4, <2>5, <2>6
<1> QED
  BY <1>1, <1>5, <1>6, <1>7, <1>8 DEF ServerWrites, Frames

LEMMA ResponseNext ==
  ASSUME wire' \in Seq(Frames)
  PROVE  response'.count \in Nat /\ response'.trailer \in {"ok", "error"}
         /\ response' = [count |-> response'.count, trailer |-> response'.trailer]
<1>1. Len(wire') \in Nat
  OBVIOUS
<1>2. HasTrailers' => Len(wire') > 0 /\ wire'[Len(wire')] \in {"ok", "error"}
  BY <1>1 DEF HasTrailers, Frames
<1> QED
  BY <1>1, <1>2 DEF response

\* A client that is told of nothing keeps its invariant while the server writes.
LEMMA ServerSpares ==
  ASSUME Inv, ServerStep, S!IInv'
  PROVE  C!IInv'
<1>0. /\ C!IInv /\ CountInv' /\ ReadInv /\ wire \in Seq(Frames)
      /\ UNCHANGED <<state, transport, reqCtx, headers, arrived, pending, work, run,
                     inListener, delivered, emitted, threw>>
  BY ServerKeeps, WireType DEF Inv, ServerStep, clientVars
<1>1. CASE response' = response
  BY <1>0, <1>1, ClientInductive DEF C!vars
<1>2. CASE ~HasTrailers /\ response'.count \in {response.count, response.count + 1}
  <2>1. wire' \in Seq(Frames) /\ calls' \in 0..MaxCalls /\ kind' \in {"unary", "stream"}
    <3>1. {"message"} \union S!Trailers = Frames
      BY DEF S!Trailers, Frames
    <3> QED
      BY <3>1 DEF S!IInv, S!TypeOK
  <2>2. response' \in C!Responses
    <3>1. /\ response'.count \in Nat /\ response'.trailer \in {"ok", "error"}
          /\ response' = [count |-> response'.count, trailer |-> response'.trailer]
      BY <2>1, ResponseNext
    <3>2. response'.count <= MaxCalls
      BY <1>0, <2>1, <3>1, RpcAssumption DEF CountInv
    <3> QED
      BY <3>1, <3>2, RpcAssumption DEF C!Responses
  <2>3. /\ response.count \in Nat /\ response'.count \in Nat
        /\ response.count <= response'.count
        /\ arrived <= response.count
        /\ ~(emitted["complete"] > 0)
        /\ C!LastFrame = response.count + 1 /\ C!LastFrame' = response'.count + 1
    <3>1. response.count = Len(wire) /\ response.count \in Nat
      BY <1>0, <1>2, ResponseFacts
    <3> QED
      BY <1>0, <1>2, <3>1 DEF ReadInv, C!LastFrame
  <2>4. /\ arrived \in Nat /\ Len(work) \in Nat /\ Len(delivered) \in Nat
        /\ delivered \in Seq(Nat)
    BY <1>0, <2>3 DEF C!IInv, C!TypeOK
  <2>5. C!TypeOK'
    BY <1>0, <2>2, <2>3, <2>4 DEF C!IInv, C!TypeOK
  <2>6. C!WorkIsSuffix'
    BY <1>0, <2>3, <2>4 DEF C!IInv, C!WorkIsSuffix
  <2>7. C!DeliveredUpTo'
    <3>1. C!DeliveredUpTo /\ C!MessagesInOrder
      BY <1>0 DEF C!IInv
    <3>2. \A i \in 1..Len(delivered) : delivered[i] \in Nat
      BY <2>4
    <3>3. \A i \in 1..Len(delivered) : /\ delivered[i] <= arrived - Len(work)
                                       /\ delivered[i] <= response'.count
      BY <2>3, <3>1, <3>2 DEF C!DeliveredUpTo
    <3>4. arrived - Len(work) <= response.count /\ arrived - Len(work) <= response'.count
      BY <2>3, <2>4
    <3> QED
      BY <1>0, <3>1, <3>3, <3>4 DEF C!DeliveredUpTo
  <2>8. C!MessagesInOrder'
    BY <1>0, <2>3, <2>4 DEF C!IInv, C!MessagesInOrder
  <2>9. C!CompleteIsWhole'
    BY <1>0, <2>3 DEF C!CompleteIsWhole
  <2> QED
    BY <1>0, <2>5, <2>6, <2>7, <2>8, <2>9
    DEF C!IInv, C!ContextFirst, C!HeadersFirst, C!StateOfTransport, C!PendingIsAll,
        C!ReadyOnce, C!CompleteIsLast, C!CompleteExcludesError, C!ErrorIsLast
<1> QED
  BY <1>1, <1>2, ServerKeeps

-----------------------------------------------------------------------------
(***************************************************************************)
(* What a step of the client means to RpcContract.                         *)
(***************************************************************************)
ContractStep == [Contract!Next]_(Contract!rpcVars)

\* The server, or what the client sees of it, stays as it is.
LEMMA ServerRests ==
  ASSUME UNCHANGED serverVars
  PROVE  UNCHANGED <<response, Verdict>> /\ (HasTrailers' <=> HasTrailers)
BY DEF serverVars, response, Verdict, HasTrailers

LEMMA Stutters ==
  ASSUME UNCHANGED <<serverVars, delivered, Result, fault>>
  PROVE  ContractStep
BY ServerRests DEF ContractStep, Contract!rpcVars

LEMMA Breaks ==
  ASSUME UNCHANGED <<serverVars, delivered>>, fault',
         fault' \in BOOLEAN, Result' = Result \/ (Result = "pending" /\ Result' = "error")
  PROVE  ContractStep
<1>1. fault' = TRUE
  OBVIOUS
<1> QED
  BY <1>1, ServerRests DEF ContractStep, Contract!Next, Contract!Break

LEMMA Fails ==
  ASSUME UNCHANGED <<serverVars, delivered, fault>>,
         Result \in {"pending", "error"}, Result' = "error", Verdict = "error" \/ fault
  PROVE  ContractStep
<1>1. CASE Result = "error"
  BY <1>1, ServerRests DEF ContractStep, Contract!rpcVars
<1>2. CASE Result = "pending"
  BY <1>2, ServerRests DEF ContractStep, Contract!Next, Contract!Fail
<1> QED
  BY <1>1, <1>2

LEMMA Emission ==
  ASSUME emitted \in [C!Events -> Nat], NEW event \in C!Events, Client!Emit(event)
  PROVE  /\ emitted'[event] = emitted[event] + 1 /\ emitted'[event] > 0
         /\ \A e \in C!Events : e /= event => emitted'[e] = emitted[e]
BY DEF Client!Emit

\* What the client emits decides what it was told.
LEMMA Results ==
  ASSUME emitted \in [C!Events -> Nat], emitted' \in [C!Events -> Nat]
  PROVE  /\ Result = "ok" <=> emitted["error"] = 0 /\ emitted["complete"] > 0
         /\ Result = "error" <=> emitted["error"] > 0
         /\ Result \in {"pending", "ok", "error"}
         /\ emitted' = emitted => Result' = Result
         /\ (emitted'["error"] = emitted["error"] /\ emitted'["complete"] = emitted["complete"])
              => Result' = Result
         /\ emitted'["error"] > 0 => Result' = "error"
         /\ (emitted'["error"] = 0 /\ emitted'["complete"] > 0) => Result' = "ok"
BY DEF Result, C!Events

\* A step of the client leaves the server alone.
LEMMA ServerKept == ASSUME S!IInv, UNCHANGED serverVars PROVE S!IInv'
<1>1. UNCHANGED S!vars
  BY DEF serverVars, S!vars
<1> QED
  BY <1>1, ServerInductive

\* What the invariants say to a step of the client.
Before ==
  /\ emitted \in [C!Events -> Nat] /\ emitted' \in [C!Events -> Nat]
  /\ {"ready", "error", "complete", "canceled"} \subseteq C!Events
  /\ arrived \in Nat /\ Len(work) \in Nat /\ Len(wire) \in Nat /\ response.count \in Nat
  /\ wire \in Seq(Frames) /\ work \in Seq(Nat) /\ delivered \in Seq(Nat)
  /\ C!LastFrame = response.count + 1
  /\ fault \in BOOLEAN
  /\ UNCHANGED <<response, Verdict, broke, wire, http, ended, kind, calls, threw>>
  /\ HasTrailers' <=> HasTrailers

LEMMA Known ==
  ASSUME Inv, ClientStep PROVE C!IInv' /\ S!IInv' /\ CountInv' /\ Before
<1>1. C!IInv' /\ S!IInv'
  BY ClientInductive, ServerKept DEF Inv, ClientStep
<1>2. /\ UNCHANGED <<response, Verdict, broke, wire, http, ended, kind, calls, threw>>
      /\ HasTrailers' <=> HasTrailers
  BY ServerRests DEF ClientStep, serverVars
<1>3. wire \in Seq(Frames)
  BY WireType DEF Inv
<1>4. /\ Len(wire) \in Nat /\ response.count \in Nat /\ C!LastFrame = response.count + 1
  BY <1>3, ResponseFacts DEF C!LastFrame
<1>5. /\ emitted \in [C!Events -> Nat] /\ work \in Seq(Nat) /\ delivered \in Seq(Nat)
      /\ arrived \in Nat
  BY <1>4 DEF Inv, C!IInv, C!TypeOK
<1>6. emitted' \in [C!Events -> Nat]
  BY <1>1 DEF C!IInv, C!TypeOK
<1>7. CountInv'
  BY <1>2 DEF Inv, CountInv
<1>8. fault \in BOOLEAN
  BY DEF Inv, CauseInv
<1> QED
  BY <1>1, <1>2, <1>3, <1>4, <1>5, <1>6, <1>7, <1>8 DEF Before, C!Events

\* The steps that tell the client nothing of the response.
LEMMA QuietSteps ==
  ASSUME Inv, Start \/ ContextProvided \/ ContextRejected \/ Cancel \/ HeadersDecoded
              \/ HeadersRejected \/ HeadersArrive
  PROVE  ReadInv' /\ CauseInv' /\ ContractStep
<1>0. ClientStep
  BY ClientSteps DEF Inv, Arrivals
<1>1. Before /\ UNCHANGED serverVars
  BY <1>0, Known DEF ClientStep
<1> USE <1>1 DEF Before
<1>2. ReadInv /\ CauseInv
  BY DEF Inv
<1>3. C!ContextFirst /\ C!HeadersFirst /\ C!StateOfTransport /\ C!PendingIsAll
      /\ C!WorkIsSuffix
  BY DEF Inv, C!IInv
<1>4. CASE Start
  <2>1. /\ state = "initial" /\ state' \in {"waitingForRequest", "error"}
        /\ transport' \in {transport, "created"} /\ link' = link
        /\ fault' = (fault \/ state' = "error")
        /\ UNCHANGED <<delivered, arrived, work>>
        /\ state' = "error" => Client!Emit("error")
        /\ state' /= "error" => emitted' = emitted
    BY <1>4 DEF Start, Runs, Client!Start
  <2>2. emitted["error"] = 0 /\ emitted["complete"] = 0
        /\ transport \in {"none", "created"}
    BY <1>3, <2>1 DEF C!StateOfTransport, C!ContextFirst, C!HeadersFirst
  <2>3. emitted'["complete"] = 0 /\ (state' /= "error" => emitted'["error"] = 0)
    BY <2>1, <2>2, Emission
  <2>4. ReadInv'
    BY <1>2, <2>1, <2>3 DEF ReadInv
  <2>5. fault' \in BOOLEAN /\ (state' = "error" => fault') /\ (fault => fault')
    BY <2>1
  <2>6. CauseInv'
    BY <1>2, <2>1, <2>2, <2>3, <2>5 DEF CauseInv
  <2>7. ContractStep
    <3>1. CASE state' = "error"
      BY <2>1, <2>2, <2>5, <3>1, Emission, Results, Breaks
    <3>2. CASE state' /= "error"
      BY <2>1, <3>2, Results, Stutters
    <3> QED
      BY <3>1, <3>2
  <2> QED
    BY <2>4, <2>6, <2>7
<1>5. CASE ContextProvided
  <2>1. /\ reqCtx = "pending" /\ state' = "started" /\ transport' = "open"
        /\ link' = "open" /\ UNCHANGED <<delivered, arrived, work, emitted, fault>>
    BY <1>5 DEF ContextProvided, Runs, Client!ContextProvided
  <2>2. emitted["error"] = 0
    BY <1>3, <2>1 DEF C!ContextFirst
  <2>3. ReadInv' /\ CauseInv'
    BY <1>2, <2>1, <2>2 DEF ReadInv, CauseInv
  <2> QED
    BY <2>1, <2>3, Results, Stutters
<1>6. CASE ContextRejected
  <2>1. /\ reqCtx = "pending" /\ state' = "error" /\ transport' \in {"created", "open"}
        /\ link' = link /\ UNCHANGED <<delivered, arrived, work>>
        /\ fault' = TRUE /\ Client!Emit("error")
    BY <1>6 DEF ContextRejected, Runs, Client!ContextRejected
  <2>2. emitted["error"] = 0 /\ emitted["complete"] = 0
    BY <1>3, <2>1 DEF C!ContextFirst, C!HeadersFirst
  <2>3. emitted'["error"] > 0 /\ emitted'["complete"] = 0
    BY <2>1, <2>2, Emission
  <2>4. ReadInv' /\ CauseInv'
    BY <1>2, <2>1, <2>3 DEF ReadInv, CauseInv
  <2>5. Result = "pending" /\ Result' = "error"
    BY <2>2, <2>3, Results
  <2> QED
    BY <2>1, <2>4, <2>5, Breaks
<1>7. CASE Cancel
  <2>1. /\ state' = "canceled" /\ link' = link /\ UNCHANGED <<delivered, arrived, work>>
        /\ fault' = TRUE /\ Client!Emit("canceled")
    BY <1>7 DEF Cancel, Runs, Client!Cancel
  <2>2. emitted'["error"] = emitted["error"] /\ emitted'["complete"] = emitted["complete"]
    BY <2>1, Emission
  <2>3. ReadInv' /\ CauseInv'
    BY <1>2, <2>1, <2>2 DEF ReadInv, CauseInv
  <2>4. Result' = Result
    BY <2>2, Results
  <2> QED
    BY <2>1, <2>3, <2>4, Breaks
<1>8. CASE HeadersDecoded
  <2>1. /\ UNCHANGED <<transport, delivered, arrived, link, fault>>
        /\ \/ UNCHANGED <<state, emitted, work>>
           \/ /\ state \in {"started", "endedBeforeReady"} /\ state' = "ready"
              /\ work' = pending /\ Client!Emit("ready")
    BY <1>8 DEF HeadersDecoded, Runs, Client!HeadersDecoded, Client!Ready
  <2>2. emitted'["error"] = emitted["error"] /\ emitted'["complete"] = emitted["complete"]
    BY <2>1, Emission
  <2>3. (work' = work /\ state' = state) \/ Len(work') = arrived
    BY <1>3, <2>1 DEF C!PendingIsAll
  <2>4. ReadInv'
    BY <1>2, <2>1, <2>2, <2>3 DEF ReadInv
  <2>5. CauseInv'
    BY <1>2, <2>1, <2>2 DEF CauseInv
  <2>6. Result' = Result
    BY <2>2, Results
  <2> QED
    BY <2>1, <2>4, <2>5, <2>6, Stutters
<1>9. CASE HeadersRejected
  <2>1. /\ headers /= "settled" /\ UNCHANGED <<state, delivered, arrived, work, link>>
        /\ fault' = (fault \/ http = "none")
        /\ transport' = transport \/ transport' = "canceled"
        /\ Client!Emit("error")
    BY <1>9 DEF HeadersRejected, Runs, Client!HeadersRejected
  <2>2. emitted["complete"] = 0
    BY <1>3, <2>1 DEF C!HeadersFirst
  <2>3. emitted'["error"] > 0 /\ emitted'["complete"] = 0
    BY <2>1, <2>2, Emission
  <2>4. /\ fault' \in BOOLEAN /\ (fault => fault') /\ (http = "none" => fault')
        /\ http /= "none" => fault' = fault
    BY <2>1
  <2>5. http /= "none" => Verdict = "error"
    BY DEF Verdict
  <2>6. ReadInv'
    BY <1>2, <2>1, <2>3 DEF ReadInv
  <2>7. CauseInv'
    BY <1>2, <2>1, <2>3, <2>4, <2>5 DEF CauseInv
  <2>8. Result \in {"pending", "error"} /\ Result' = "error"
    BY <2>2, <2>3, Results
  <2>9. ContractStep
    <3>1. CASE http = "none"
      BY <2>1, <2>4, <2>8, <3>1, Breaks
    <3>2. CASE http /= "none"
      BY <2>1, <2>4, <2>5, <2>8, <3>2, Fails
    <3> QED
      BY <3>1, <3>2
  <2> QED
    BY <2>6, <2>7, <2>9
<1>10. CASE HeadersArrive
  <2>1. UNCHANGED <<state, transport, delivered, arrived, work, emitted, link, fault>>
    BY <1>10 DEF HeadersArrive, Runs, Client!OnHeaders
  <2>2. ReadInv' /\ CauseInv'
    BY <1>2, <2>1 DEF ReadInv, CauseInv
  <2> QED
    BY <2>1, <2>2, Results, Stutters
<1> QED
  BY <1>4, <1>5, <1>6, <1>7, <1>8, <1>9, <1>10

\* All frames have arrived where the last one has, and none is left to be read.
LEMMA AllArrived ==
  ASSUME Before, ReadInv, arrived = C!LastFrame
  PROVE  /\ HasTrailers /\ arrived = Len(wire)
         /\ wire[Len(wire)] = response.trailer
BY ResponseFacts DEF Before, ReadInv

\* The loop over the frames.
LEMMA MessageStep ==
  ASSUME Inv, ClientStep, Client!ProcessMessage, UNCHANGED <<link, fault>>
  PROVE  ReadInv' /\ CauseInv' /\ ContractStep
<1>1. Before /\ UNCHANGED serverVars /\ ReadInv /\ CauseInv
  BY Known DEF ClientStep, Inv
<1> USE <1>1 DEF Before
<1>2. /\ work /= <<>> /\ Head(work) <= response.count
      /\ delivered' = Append(delivered, Head(work)) /\ work' = Tail(work)
      /\ UNCHANGED <<state, transport, arrived, emitted>>
  BY DEF Client!ProcessMessage
<1>3. C!WorkIsSuffix /\ C!DeliveredUpTo /\ C!CompleteIsLast /\ C!ErrorIsLast /\ ~threw
  BY DEF Inv, C!IInv, ReadInv
<1>4. /\ Head(work) = arrived - Len(work) + 1 /\ Len(work') = Len(work) - 1
  <2>1. Head(work) = work[1] /\ 1 \in 1..Len(work)
    BY <1>2
  <2> QED
    BY <1>2, <1>3, <2>1 DEF C!WorkIsSuffix
<1>5. run /= "idle"
  BY <1>2, <1>3 DEF C!WorkIsSuffix
<1>6. Len(delivered) = arrived - Len(work)
  <2>1. arrived - Len(work) <= response.count
    BY <1>2, <1>4
  <2> QED
    BY <1>3, <1>5, <2>1 DEF C!DeliveredUpTo
<1>7. emitted["error"] = 0 /\ emitted["complete"] = 0
  BY <1>2, <1>3 DEF C!CompleteIsLast, C!ErrorIsLast
<1>8. ReadInv'
  BY <1>2, <1>4 DEF ReadInv
<1>9. CauseInv'
  BY <1>2 DEF CauseInv
<1>10. Result = "pending" /\ Result' = Result
  BY <1>2, <1>7, Results
<1>11. Len(delivered) < response.count /\ Len(delivered') = Len(delivered) + 1
  <2>1. Head(work) \in Nat
    BY <1>2
  <2>2. Len(delivered') = Len(delivered) + 1
    BY <1>2, <2>1
  <2>3. arrived \in Nat /\ Len(work) \in Nat /\ response.count \in Nat
    OBVIOUS
  <2>4. arrived - Len(work) + 1 <= response.count
    BY ONLY <1>2, <1>4
  <2>5. Len(delivered) < response.count
    BY ONLY <1>6, <2>3, <2>4
  <2> QED
    BY ONLY <2>2, <2>5
<1> QED
  BY <1>8, <1>9, <1>10, <1>11 DEF ContractStep, Contract!Next, Contract!Deliver

LEMMA TrailersStep ==
  ASSUME Inv, ClientStep, Client!ProcessTrailers, UNCHANGED <<link, fault>>
  PROVE  ReadInv' /\ CauseInv' /\ ContractStep
<1>1. Before /\ UNCHANGED serverVars /\ ReadInv /\ CauseInv
  BY Known DEF ClientStep, Inv
<1> USE <1>1 DEF Before
<1>2. /\ work /= <<>> /\ Head(work) = response.count + 1
      /\ state' \in {"trailersReceived", "error"}
      /\ UNCHANGED <<transport, arrived, delivered>>
      /\ \/ response.trailer = "ok" /\ emitted' = emitted
         \/ response.trailer = "error" /\ Client!Emit("error")
  BY DEF Client!ProcessTrailers, Client!LastFrame
<1>3. C!WorkIsSuffix /\ C!CompleteIsLast /\ C!ErrorIsLast /\ ~threw
  BY DEF Inv, C!IInv, ReadInv
<1>4. arrived >= C!LastFrame
  <2>1. Head(work) = work[1] /\ 1 \in 1..Len(work)
    BY <1>2
  <2> QED
    BY <1>2, <1>3, <2>1 DEF C!WorkIsSuffix
<1>5. emitted["error"] = 0 /\ emitted["complete"] = 0
  BY <1>2, <1>3 DEF C!CompleteIsLast, C!ErrorIsLast
<1>6. arrived = C!LastFrame
  BY <1>4 DEF Inv, C!IInv, C!TypeOK
<1>7. HasTrailers /\ wire[Len(wire)] = response.trailer
  BY <1>6, AllArrived
<1>8. response.trailer = "error" => Verdict = "error"
  BY <1>7 DEF Verdict
<1>9. emitted'["complete"] = 0 /\ (response.trailer = "ok" => emitted'["error"] = 0)
  BY <1>2, <1>5, Emission
<1>10. ReadInv'
  BY <1>2, <1>9 DEF ReadInv
<1>11. CauseInv'
  BY <1>2, <1>8, <1>9 DEF CauseInv
<1>12. CASE emitted' = emitted
  BY <1>2, <1>10, <1>11, <1>12, Results, Stutters
<1>13. CASE response.trailer = "error" /\ Client!Emit("error")
  <2>1. Result = "pending" /\ Result' = "error"
    BY <1>5, <1>13, Emission, Results
  <2> QED
    BY <1>2, <1>8, <1>10, <1>11, <1>13, <2>1, Fails
<1> QED
  BY <1>2, <1>12, <1>13

\* end(), out of the loop or by the transport: a response that was cut short, or
\* whose trailers are not read, has a fault or a failure behind it.
LEMMA EndStep ==
  ASSUME Inv, ClientStep, Client!End, UNCHANGED <<link, fault, arrived, delivered>>,
         work = <<>>, work' = <<>>, transport' = "ended",
         state \notin {"initial", "waitingForRequest", "started", "endedBeforeReady",
                       "complete"},
         emitted["complete"] = 0,
         fault \/ http /= "none" \/ (ended /\ arrived = Len(wire))
  PROVE  ReadInv' /\ CauseInv' /\ ContractStep
<1>1. /\ Before /\ UNCHANGED serverVars /\ ReadInv /\ CauseInv
      /\ C!IInv' /\ S!IInv /\ C!IInv
  BY Known DEF ClientStep, Inv
<1> USE <1>1 DEF Before
<1>2. CASE state = "trailersReceived"
  <2>1. state' = "complete" /\ Client!Emit("complete")
    BY <1>2 DEF Client!End
  <2>2. emitted'["complete"] > 0 /\ emitted'["error"] = emitted["error"]
    BY <2>1, Emission
  <2>3. emitted["error"] = 0 /\ arrived = C!LastFrame /\ response.trailer = "ok"
    BY <1>2 DEF C!IInv, C!ErrorIsLast, C!WorkIsSuffix, ReadInv
  <2>4. HasTrailers /\ arrived = Len(wire) /\ wire[Len(wire)] = "ok"
    BY <2>3, AllArrived
  <2>5. ReadInv'
    BY <2>1, <2>2, <2>4 DEF ReadInv
  <2>6. CauseInv'
    BY <2>1, <2>2 DEF CauseInv
  <2>7. Verdict = "ok"
    <3>1. wire /= <<>>
      BY <2>4 DEF HasTrailers
    <3>2. http = "none"
      BY <3>1 DEF S!IInv, S!StatusOnly
    <3> QED
      BY <2>4, <3>2 DEF Verdict
  <2>8. Len(delivered) = response.count
    <3>1. ~threw'
      BY DEF ReadInv
    <3> QED
      BY <2>2, <3>1 DEF C!IInv, C!CompleteIsWhole
  <2>9. Result = "pending" /\ Result' = "ok"
    BY <2>2, <2>3, Results
  <2>10. ContractStep
    BY <2>7, <2>8, <2>9 DEF ContractStep, Contract!Next, Contract!Complete
  <2> QED
    BY <2>5, <2>6, <2>10
<1>3. CASE state = "error"
  <2>1. state' = state /\ emitted' = emitted
    BY <1>3 DEF Client!End
  <2>2. ReadInv' /\ CauseInv'
    BY <1>3, <2>1 DEF ReadInv, CauseInv
  <2> QED
    BY <2>1, <2>2, Results, Stutters
<1>4. CASE state \notin {"trailersReceived", "error"}
  <2>1. state' = state /\ Client!Emit("error")
    BY <1>4 DEF Client!End
  <2>2. emitted'["error"] > 0 /\ emitted'["complete"] = 0
    BY <2>1, Emission
  <2>3. fault \/ Verdict = "error"
    <3>1. state \in {"ready", "canceled"}
      BY <1>4 DEF C!IInv, C!TypeOK, C!States
    <3>2. CASE state = "canceled"
      BY <3>2 DEF CauseInv
    <3>3. CASE http /= "none"
      BY <3>3 DEF Verdict
    <3>4. CASE state = "ready" /\ ended /\ arrived = Len(wire) /\ http = "none"
      <4>1. wire /= <<>> /\ wire[Len(wire)] \in S!Trailers
        <5>1. pc = "done"
          BY <3>4 DEF S!IInv, S!EndedWhenDone
        <5>2. kind = "stream" => wire /= <<>> /\ wire[Len(wire)] \in S!Trailers
          BY <3>4, <5>1 DEF S!IInv, S!BodyWhenDone, ReadInv
        <5>3. kind = "unary" => \E f \in S!Trailers : wire = <<"message", f>>
          BY <3>4, <5>1 DEF S!IInv, S!UnaryIsWhole, S!Trailers
        <5>4. kind = "unary" => wire /= <<>> /\ wire[Len(wire)] \in S!Trailers
          <6>1. ASSUME NEW f \in S!Trailers, wire = <<"message", f>>
                PROVE  wire /= <<>> /\ wire[Len(wire)] \in S!Trailers
            BY <6>1
          <6> QED
            BY <5>3, <6>1
        <5>5. kind \in {"unary", "stream"}
          BY DEF S!IInv, S!TypeOK
        <5> QED
          BY <5>2, <5>4, <5>5 DEF S!Trailers
      <4>2. HasTrailers
        BY <4>1 DEF HasTrailers, S!Trailers
      <4>3. arrived = response.count + 1
        BY <3>4, <4>2, ResponseFacts
      <4>4. arrived - Len(work) <= response.count
        BY <3>4 DEF ReadInv
      <4> QED
        BY <4>3, <4>4
    <3> QED
      BY <3>1, <3>2, <3>3, <3>4
  <2>4. ReadInv'
    BY <2>1, <2>2 DEF ReadInv
  <2>5. CauseInv'
    BY <2>1, <2>2, <2>3 DEF CauseInv
  <2>6. Result \in {"pending", "error"} /\ Result' = "error"
    BY <2>2, Results
  <2> QED
    BY <2>3, <2>4, <2>5, <2>6, Fails
<1> QED
  BY <1>2, <1>3, <1>4

LEMMA BodySteps ==
  ASSUME Inv, RunStep \/ Arrivals
  PROVE  ReadInv' /\ CauseInv' /\ ContractStep
<1>0. ClientStep
  BY ClientSteps DEF Inv
<1>1. Before /\ UNCHANGED serverVars /\ ReadInv /\ CauseInv
  BY <1>0, Known DEF ClientStep, Inv
<1> USE <1>1 DEF Before
<1>2. C!WorkIsSuffix /\ C!CompleteIsLast /\ C!StateOfTransport /\ C!ContextFirst
  BY DEF Inv, C!IInv
<1>3. CASE RunStep
  <2>1. CASE Client!ProcessMessage
    BY <1>0, <1>3, <2>1, MessageStep DEF RunStep
  <2>2. CASE Client!ProcessTrailers
    BY <1>0, <1>3, <2>2, TrailersStep DEF RunStep
  <2>3. CASE Client!RunEnds
    <3>1. CASE run = "flushEnd"
      <4>1. /\ Client!End /\ work = <<>> /\ work' = <<>>
            /\ UNCHANGED <<transport, arrived, delivered, link, fault>>
        BY <1>3, <2>3, <3>1 DEF RunStep, Client!RunEnds
      <4>2. transport = "ended"
        BY <1>2, <3>1 DEF C!StateOfTransport
      <4>3. emitted["complete"] = 0
        BY <1>2, <3>1 DEF C!CompleteIsLast
      <4>4. state \notin {"initial", "waitingForRequest", "started", "endedBeforeReady",
                          "complete"}
        BY <1>2, <3>1, <4>3 DEF C!WorkIsSuffix, C!CompleteIsLast
      <4>5. fault \/ http /= "none" \/ (ended /\ arrived = Len(wire))
        BY <4>2 DEF CauseInv
      <4> QED
        BY <1>0, <4>1, <4>2, <4>3, <4>4, <4>5, EndStep
    <3>2. CASE run /= "flushEnd"
      <4>1. UNCHANGED <<state, emitted, transport, arrived, work, delivered, link, fault>>
        BY <1>3, <2>3, <3>2 DEF RunStep, Client!RunEnds
      <4>2. ReadInv' /\ CauseInv'
        BY <4>1 DEF ReadInv, CauseInv
      <4> QED
        BY <4>1, <4>2, Results, Stutters
    <3> QED
      BY <3>1, <3>2
  <2>4. ~Client!RunThrows
    BY DEF Client!RunThrows
  <2> QED
    BY <1>3, <2>1, <2>2, <2>3, <2>4 DEF RunStep, Runs, Client!RunStep
<1>4. CASE HeadersArrive
  BY <1>4, QuietSteps
<1>5. ASSUME NEW k \in 1..Len(wire), FramesArrive(k)
      PROVE  ReadInv' /\ CauseInv' /\ ContractStep
  <2>1. /\ run = "idle" /\ transport \in {"open", "canceled"}
        /\ arrived' = arrived + k /\ arrived + k <= Len(wire)
        /\ UNCHANGED <<state, transport, delivered, emitted, link, fault>>
        /\ state = "ready" => work' = Client!FramesFrom(arrived, k)
    BY <1>5 DEF FramesArrive, Runs, Client!OnChunk, Client!CanReceive, Client!CanCallBack,
       Client!Idle
  <2>2. state = "ready" => Len(work') = k /\ arrived <= response.count
    <3>1. C!FramesFrom(arrived, k) = Client!FramesFrom(arrived, k)
      BY DEF C!FramesFrom, Client!FramesFrom
    <3>2. Len(C!FramesFrom(arrived, k)) = k
      BY ClientAssumption, C!FramesFromFacts
    <3>3. work = <<>>
      BY <1>2, <2>1 DEF C!WorkIsSuffix
    <3>4. state = "ready" => arrived <= response.count
      BY <3>3 DEF ReadInv
    <3> QED
      BY <2>1, <3>1, <3>2, <3>4
  <2>3. emitted["complete"] = 0
    BY <1>2, <2>1 DEF C!CompleteIsLast
  <2>4. ReadInv'
    BY <2>1, <2>2, <2>3 DEF ReadInv
  <2>5. CauseInv'
    BY <2>1 DEF CauseInv
  <2> QED
    BY <2>1, <2>4, <2>5, Results, Stutters
<1>6. CASE EndArrives
  <2>1. /\ run = "idle" /\ transport \in {"open", "canceled"} /\ transport' = "ended"
        /\ UNCHANGED <<arrived, work, delivered, link, fault>>
        /\ (ended /\ arrived = Len(wire)) \/ link = "cut" \/ transport = "canceled"
        /\ \/ state = "started" /\ state' = "endedBeforeReady" /\ emitted' = emitted
           \/ state /= "started" /\ Client!End
    BY <1>6 DEF EndArrives, Runs, Client!OnEnd, Client!CanCallBack, Client!Idle
  <2>2. fault \/ http /= "none" \/ (ended /\ arrived = Len(wire))
    BY <2>1 DEF CauseInv
  <2>3. emitted["complete"] = 0 /\ work = <<>>
    BY <1>2, <2>1 DEF C!CompleteIsLast, C!WorkIsSuffix
  <2>4. CASE state = "started" /\ state' = "endedBeforeReady" /\ emitted' = emitted
    <3>1. ReadInv' /\ CauseInv'
      BY <2>1, <2>2, <2>3, <2>4 DEF ReadInv, CauseInv
    <3> QED
      BY <2>1, <2>4, <3>1, Results, Stutters
  <2>5. CASE state /= "started" /\ Client!End
    <3>1. state \notin {"initial", "waitingForRequest", "started", "endedBeforeReady",
                        "complete"}
      BY <1>2, <2>1, <2>3, <2>5 DEF C!StateOfTransport, C!CompleteIsLast
    <3> QED
      BY <1>0, <2>1, <2>2, <2>3, <2>5, <3>1, EndStep
  <2> QED
    BY <2>1, <2>4, <2>5
<1>7. CASE FailureArrives
  <2>1. /\ transport \in {"open", "canceled"} /\ transport' = "ended" /\ state' = "error"
        /\ UNCHANGED <<arrived, work, delivered, link, fault>>
        /\ link = "cut" \/ transport = "canceled"
        /\ \/ state = "error" /\ emitted' = emitted
           \/ state /= "error" /\ Client!Emit("error")
    BY <1>7 DEF FailureArrives, Runs, Client!OnEndWithError, Client!CanCallBack
  <2>2. fault \/ http /= "none"
    BY <2>1 DEF CauseInv
  <2>3. fault \/ Verdict = "error"
    BY <2>2 DEF Verdict
  <2>4. emitted["complete"] = 0
    BY <1>2, <2>1 DEF C!CompleteIsLast
  <2>5. emitted'["complete"] = 0
    BY <2>1, <2>4, Emission
  <2>6. ReadInv'
    BY <2>1, <2>5 DEF ReadInv
  <2>7. CauseInv'
    BY <2>1, <2>2, <2>3 DEF CauseInv
  <2>8. CASE emitted' = emitted
    BY <2>1, <2>6, <2>7, <2>8, Results, Stutters
  <2>9. CASE Client!Emit("error")
    <3>1. Result \in {"pending", "error"} /\ Result' = "error"
      BY <2>4, <2>9, Emission, Results
    <3> QED
      BY <2>1, <2>3, <2>6, <2>7, <3>1, Fails
  <2> QED
    BY <2>1, <2>8, <2>9
<1> QED
  BY <1>3, <1>4, <1>5, <1>6, <1>7 DEF Arrivals

-----------------------------------------------------------------------------
(***************************************************************************)
(* The invariant and the theorems.                                         *)
(***************************************************************************)
LEMMA InitInv == Init => Inv /\ Contract!Init
<1> SUFFICES ASSUME Init PROVE Inv /\ Contract!Init
  OBVIOUS
<1>1. S!IInv
  BY ServerInitial DEF Init
<1>2. wire = <<>> /\ ~broke /\ http = "none" /\ calls = 0
  BY DEF Init, Server!Init
<1>3. ~HasTrailers /\ response.count = 0 /\ response.trailer = "ok"
      /\ response = [count |-> 0, trailer |-> "ok"]
  BY <1>2 DEF HasTrailers, response
<1>4. Client!Events = C!Events
  BY DEF Client!Events, C!Events
<1>5. C!Init
  BY <1>3, <1>4, RpcAssumption DEF Init, C!Init, C!Responses
<1>6. C!IInv
  BY <1>5, ClientAssumption, C!InitIInv
<1>7. ReadInv /\ CauseInv /\ CountInv
  <2>1. emitted["error"] = 0 /\ emitted["complete"] = 0
    BY DEF Init, Client!Events
  <2>2. /\ arrived = 0 /\ state = "initial" /\ transport = "none" /\ link = "closed"
        /\ fault \in BOOLEAN /\ ~threw /\ Len(wire) = 0
    BY <1>2 DEF Init
  <2>3. ReadInv
    BY <1>2, <2>1, <2>2 DEF ReadInv
  <2>4. CauseInv
    <3>1. ~(emitted["error"] > 0)
      BY <2>1
    <3> QED
      BY <2>2, <3>1 DEF CauseInv
  <2>5. CountInv
    BY <1>2, <1>3 DEF CountInv
  <2> QED
    BY <2>3, <2>4, <2>5
<1>8. Contract!Init
  BY <1>2, <1>3, <1>4 DEF Init, Contract!Init, Verdict, Result, C!Events
<1> QED
  BY <1>1, <1>6, <1>7, <1>8 DEF Inv

LEMMA StepInv == Inv /\ [Next]_vars => Inv' /\ ContractStep
<1> SUFFICES ASSUME Inv, [Next]_vars PROVE Inv' /\ ContractStep
  OBVIOUS
<1>1. CASE RequestArrives \/ RouteContinues \/ HandlerActs \/ ServerCloses
  <2>1. ServerStep
    BY <1>1, ServerSteps
  <2>2. S!IInv'
    BY <2>1, ServerInductive DEF Inv, ServerStep
  <2>3. C!IInv' /\ ReadInv' /\ CauseInv' /\ CountInv'
    BY <2>1, <2>2, ServerSpares, ServerKeeps
  <2>4. UNCHANGED <<delivered, Result, fault>>
    BY <2>1 DEF ServerStep, clientVars, Result
  <2>5. ASSUME response' = response, Verdict' = Verdict PROVE ContractStep
    BY <2>4, <2>5 DEF ContractStep, Contract!rpcVars
  <2>6. ASSUME Verdict = "open",
               response'.count \in {response.count, response.count + 1},
               Verdict' \in {"open", "ok", "error"}
        PROVE  ContractStep
    <3>1. response'.count \in 0..MaxCalls
      BY <2>3 DEF C!IInv, C!TypeOK, C!Responses
    <3> QED
      BY <2>4, <2>6, <3>1 DEF ContractStep, Contract!Next, Contract!Serve
  <2> QED
    BY <2>1, <2>2, <2>3, <2>5, <2>6, ServerKeeps DEF Inv
<1>2. ASSUME \/ Start \/ ContextProvided \/ ContextRejected \/ Cancel \/ RunStep
             \/ HeadersDecoded \/ HeadersRejected \/ Arrivals
      PROVE  Inv' /\ ContractStep
  <2>1. ClientStep
    BY <1>2, ClientSteps DEF Inv
  <2>2. C!IInv' /\ S!IInv' /\ CountInv'
    BY <2>1, Known
  <2> QED
    BY <1>2, <2>2, QuietSteps, BodySteps DEF Inv
<1>3. CASE Cut \/ UNCHANGED vars
  <2>1. /\ UNCHANGED <<serverVars, clientVars>>
        /\ \/ link' = "cut" /\ fault' = TRUE
           \/ link' = link /\ fault' = fault
    BY <1>3 DEF Cut, vars
  <2>2. UNCHANGED <<response, Verdict, Result, delivered>> /\ (HasTrailers' <=> HasTrailers)
    BY <2>1, ServerRests DEF clientVars, Result
  <2>3. S!IInv'
    BY <2>1, ServerKept DEF Inv
  <2>4. C!IInv'
    BY <2>1, <2>2, ClientInductive DEF Inv, C!vars, clientVars
  <2>5. ReadInv' /\ CauseInv' /\ CountInv'
    BY <2>1, <2>2 DEF Inv, ReadInv, CauseInv, CountInv, serverVars, clientVars
  <2>6. ContractStep
    <3>1. CASE fault' = TRUE
      BY <2>1, <2>2, <3>1, Breaks
    <3>2. CASE fault' = fault
      BY <2>1, <2>2, <3>2, Stutters
    <3> QED
      BY <2>1, <3>1, <3>2
  <2> QED
    BY <2>3, <2>4, <2>5, <2>6 DEF Inv
<1> QED
  BY <1>1, <1>2, <1>3 DEF Next

\* Client, connection and server together implement RpcContract, whatever the
\* handler sends and wherever the connection is cut.
THEOREM Implementation == Spec => ImplementsRpcContract
BY InitInv, StepInv, PTL DEF Spec, ContractStep, ImplementsRpcContract, Contract!Spec

\* An error that reaches the client over a connection that held is on record on the
\* server.
THEOREM ErrorsAreOnRecord == Spec => []ErrorIsOnRecord
<1>1. Inv => ErrorIsOnRecord
  <2> SUFFICES ASSUME Inv, Result = "error", ~fault
               PROVE  reported > 0 \/ http = "refused"
    BY DEF ErrorIsOnRecord
  <2>1. emitted["error"] > 0
    BY DEF Result
  <2>2. Verdict = "error"
    BY <2>1 DEF Inv, CauseInv
  <2>3. /\ S!UnaryIsWhole /\ S!StatusOnly /\ S!BodyWhileStreaming /\ S!BodyWhenDone
        /\ S!NothingSentYet /\ S!HandedOver /\ http \in {"none", "refused", "error"}
        /\ kind \in {"unary", "stream"} /\ wire \in Seq(Frames)
        /\ pc \in S!Early \union {"streaming", "failing", "thrown", "done"}
    BY WireType DEF Inv, S!IInv, S!TypeOK, S!Early
  <2>4. CASE http /= "none"
    BY <2>3, <2>4 DEF S!StatusOnly
  <2>5. CASE http = "none"
    <3>1. Len(wire) \in 1..Len(wire) /\ wire[Len(wire)] = "error" /\ wire /= <<>>
      <4>1. wire /= <<>> /\ wire[Len(wire)] = "error"
        BY <2>2, <2>5 DEF Verdict, HasTrailers
      <4> QED
        BY <2>3, <4>1
    <3>2. pc \notin S!Early
      BY <2>3, <3>1 DEF S!NothingSentYet
    <3>3. pc /= "streaming"
      BY <2>3, <3>1 DEF S!BodyWhileStreaming
    <3>4. CASE pc \in {"failing", "thrown"}
      BY <2>3, <3>4 DEF S!HandedOver
    <3>5. CASE pc = "done" /\ kind = "unary"
      <4>1. wire /= <<"message", "ok">>
        BY <3>1
      <4> QED
        BY <2>3, <2>5, <3>5, <4>1 DEF S!UnaryIsWhole
    <3>6. CASE pc = "done" /\ kind = "stream"
      BY <2>3, <2>5, <3>1, <3>6 DEF S!BodyWhenDone, S!HasError
    <3> QED
      BY <2>3, <3>2, <3>3, <3>4, <3>5, <3>6
  <2> QED
    BY <2>4, <2>5
<1> QED
  BY <1>1, InitInv, StepInv, PTL DEF Spec

-----------------------------------------------------------------------------
(***************************************************************************)
(* The verdict is not lost on its way.                                     *)
(***************************************************************************)
\* No request before the context is provided, and no cancel() without a fault.
LinkInv ==
  /\ link = "closed" => pc = "received"
  /\ reqCtx \in {"none", "pending"} => link = "closed"
  /\ emitted["canceled"] > 0 => fault

WayInv == LinkInv /\ C!EndIsTold

\* Without a fault, a verdict that the client was not told yet has the route to end
\* the response, or the client to decode the headers, to go on with its loop, or to
\* receive what is left of a response that is whole.
VerdictOnItsWay ==
  Verdict /= "open" /\ ~fault =>
    \/ Result = Verdict
    \/ pc = "streaming" /\ promise \in {"resolved", "rejected"}
    \/ headers = "decoding"
    \/ run /= "idle"
    \/ transport = "open" /\ ended

LEMMA WayStep == ASSUME Inv, WayInv, [Next]_vars PROVE WayInv'
<1>0. /\ emitted \in [C!Events -> Nat]
      /\ {"ready", "error", "complete", "canceled"} = C!Events
  BY DEF Inv, C!IInv, C!TypeOK, C!Events
<1>e. ASSUME NEW event \in {"ready", "error", "complete"}, Client!Emit(event)
      PROVE  emitted'["canceled"] = emitted["canceled"]
  BY <1>0, <1>e, Emission
<1>c. C!IInv /\ C!EndIsTold /\ LinkInv
  BY DEF Inv, WayInv
<1>1. CASE RequestArrives \/ RouteContinues \/ HandlerActs \/ ServerCloses
  <2>1. UNCHANGED <<clientVars, link, fault>>
    BY <1>1, ServerSteps DEF ServerStep
  <2>2. C!EndIsTold'
    BY <1>c, <2>1 DEF clientVars, C!EndIsTold, C!Finished
  <2>3. link = "closed" => FALSE
    <3> SUFFICES ASSUME link = "closed" PROVE FALSE
      OBVIOUS
    <3>1. pc = "received" /\ handler /= "resolved" /\ (kind = "stream" => handler = "none")
      BY <1>c DEF LinkInv, Inv, S!IInv, S!NothingSentYet, S!Early, S!UnaryIsWhole, S!TypeOK
    <3> QED
      BY <1>1, <3>1 DEF RequestArrives, RouteContinues, HandlerActs, ServerCloses, Serves,
         Server!Decoded, Server!ContextProvided, Server!Fails, Server!ResponseFails,
         Server!FailureSent, Server!RouteThrows,
         Server!SuccessTrailer, Server!StreamContinues, Server!UnaryHandled, Server!OnReady,
         Server!OnMessage, Server!MayCall, Server!HandlerResolves, Server!HandlerRejects
  <2> QED
    BY <1>c, <2>1, <2>2, <2>3 DEF WayInv, LinkInv, clientVars
<1>2. ASSUME \/ Start \/ ContextProvided \/ ContextRejected \/ Cancel \/ RunStep
             \/ HeadersDecoded \/ HeadersRejected \/ Arrivals
      PROVE  WayInv'
  <2>1. ClientStep
    BY <1>2, ClientSteps DEF Inv
  <2>2. C!EndIsTold'
    BY <1>c, <2>1, ClientAssumption, C!EndIsToldStep DEF ClientStep
  <2>3. pc' = pc
    BY <2>1 DEF ClientStep, serverVars
  <2>4. LinkInv'
    <3>1. CASE Start
      BY <1>c, <1>e, <2>3, <3>1 DEF Start, Runs, Client!Start, LinkInv, C!IInv,
         C!StateOfTransport
    <3>2. CASE ContextProvided
      BY <1>c, <2>3, <3>2 DEF ContextProvided, Runs, Client!ContextProvided, LinkInv
    <3>3. CASE ContextRejected
      BY <1>c, <1>e, <2>3, <3>3 DEF ContextRejected, Runs, Client!ContextRejected, LinkInv
    <3>4. CASE Cancel
      BY <1>c, <2>3, <3>4 DEF Cancel, Runs, Client!Cancel, LinkInv
    <3>5. CASE RunStep
      <4>1. /\ UNCHANGED <<link, fault, reqCtx>>
            /\ emitted' = emitted \/ \E event \in {"error", "complete"} : Client!Emit(event)
        BY <3>5 DEF RunStep, Runs, Client!RunStep, Client!ProcessMessage,
           Client!ProcessTrailers, Client!RunEnds, Client!RunThrows, Client!End
      <4> QED
        BY <1>c, <1>e, <2>3, <4>1 DEF LinkInv
    <3>6. CASE HeadersDecoded
      BY <1>c, <1>e, <2>3, <3>6 DEF HeadersDecoded, Runs, Client!HeadersDecoded,
         Client!Ready, LinkInv
    <3>7. CASE HeadersRejected
      <4>1. /\ link' = link /\ (fault => fault') /\ reqCtx' = reqCtx
            /\ Client!Emit("error")
        BY <3>7 DEF HeadersRejected, Runs, Client!HeadersRejected
      <4> QED
        BY <1>c, <1>e, <2>3, <4>1 DEF LinkInv
    <3>8. CASE Arrivals
      <4>1. /\ UNCHANGED <<link, fault, reqCtx>>
            /\ emitted' = emitted \/ \E event \in {"error", "complete"} : Client!Emit(event)
        BY <3>8 DEF Arrivals, HeadersArrive, FramesArrive, EndArrives, FailureArrives, Runs,
           Client!OnHeaders, Client!OnChunk, Client!OnEnd, Client!OnEndWithError, Client!End
      <4> QED
        BY <1>c, <1>e, <2>3, <4>1 DEF LinkInv
    <3> QED
      BY <1>2, <3>1, <3>2, <3>3, <3>4, <3>5, <3>6, <3>7, <3>8
  <2> QED
    BY <2>2, <2>4 DEF WayInv
<1>3. CASE Cut
  <2>1. link = "open" /\ link' = "cut" /\ fault' = TRUE /\ UNCHANGED <<serverVars, clientVars>>
    BY <1>3 DEF Cut
  <2> QED
    BY <1>c, <2>1 DEF WayInv, LinkInv, clientVars, serverVars, C!EndIsTold, C!Finished
<1>4. CASE UNCHANGED vars
  BY <1>c, <1>4 DEF WayInv, LinkInv, vars, clientVars, serverVars, C!EndIsTold, C!Finished
<1> QED
  BY <1>1, <1>2, <1>3, <1>4 DEF Next

\* No step of either side loses a verdict: as long as the client was not told, one of
\* the two can go on (what VerdictIsTold rests on).
THEOREM VerdictIsNotLost == Spec => []VerdictOnItsWay
<1>1. Init => WayInv
  <2> SUFFICES ASSUME Init PROVE LinkInv /\ C!EndIsTold
    BY DEF WayInv
  <2>1. /\ link = "closed" /\ pc = "received" /\ state = "initial" /\ transport = "none"
        /\ emitted["canceled"] = 0
    BY DEF Init, Server!Init, Client!Events
  <2> QED
    BY <2>1 DEF LinkInv, C!EndIsTold
<1>2. Inv /\ WayInv => VerdictOnItsWay
  <2> SUFFICES ASSUME Inv, WayInv, Verdict /= "open", ~fault,
                      ~(pc = "streaming" /\ promise \in {"resolved", "rejected"}),
                      headers /= "decoding", run = "idle", ~(transport = "open" /\ ended)
               PROVE  Result = Verdict
    BY DEF VerdictOnItsWay
  <2>0. /\ S!NothingSentYet /\ S!EndedWhenDone /\ S!StatusOnly /\ S!BodyWhileStreaming
        /\ S!HandedOver /\ S!PromiseFollowsHandler /\ S!UnaryIsWhole
        /\ wire \in Seq(Frames) /\ ~broke
        /\ promise \in {"none", "pending", "resolved", "rejected"}
        /\ kind \in {"unary", "stream"}
        /\ pc \in S!Early \union {"streaming", "failing", "thrown", "done"}
    BY WireType DEF Inv, ReadInv, S!IInv, S!TypeOK, S!Early
  <2>1. http /= "none" \/ HasTrailers
    BY DEF Verdict
  <2>2. pc /= "received"
    BY <2>0, <2>1 DEF S!NothingSentYet, S!Early, HasTrailers
  <2>3. ended
    <3>1. CASE http /= "none"
      BY <2>0, <3>1 DEF S!StatusOnly, S!EndedWhenDone
    <3>2. CASE http = "none" /\ HasTrailers
      <4>1. wire /= <<>> /\ ~S!Messages(wire)
        <5>1. wire /= <<>> /\ Len(wire) \in 1..Len(wire)
          BY <2>0, <3>2 DEF HasTrailers
        <5> QED
          BY <3>2, <5>1 DEF HasTrailers, S!Messages
      <4>2. pc \notin S!Early /\ pc \notin {"failing", "thrown"}
        BY <2>0, <4>1 DEF S!NothingSentYet, S!HandedOver
      <4>3. pc /= "streaming"
        <5> SUFFICES ASSUME pc = "streaming" PROVE FALSE
          OBVIOUS
        <5>1. handler = "settled" /\ kind = "stream"
          BY <2>0, <4>1 DEF S!BodyWhileStreaming, S!UnaryIsWhole
        <5>2. promise \notin {"none", "pending"}
          BY <2>0, <5>1 DEF S!PromiseFollowsHandler
        <5> QED
          BY <2>0, <5>2
      <4> QED
        BY <2>0, <4>2, <4>3 DEF S!EndedWhenDone
    <3> QED
      BY <2>1, <3>1, <3>2
  <2>4. reqCtx \notin {"none", "pending"}
    BY <2>2 DEF WayInv, LinkInv
  <2>5. C!Finished
    <3>1. C!NeverStranded
      BY DEF Inv, WayInv, C!IInv, C!TypeOK, C!EndIsTold, C!NeverStranded, C!Finished
    <3>2. state /= "initial"
      BY <2>4 DEF Inv, C!IInv, C!StateOfTransport
    <3> QED
      BY <2>3, <2>4, <3>1, <3>2 DEF C!NeverStranded
  <2>6. ~(emitted["canceled"] > 0)
    BY DEF WayInv, LinkInv
  <2>7. CASE emitted["error"] > 0
    BY <2>7 DEF Inv, CauseInv, Result
  <2>8. CASE ~(emitted["error"] > 0)
    <3>1. emitted["complete"] > 0
      BY <2>5, <2>6, <2>8 DEF C!Finished
    <3>2. HasTrailers /\ response.trailer = "ok"
      BY <3>1 DEF Inv, ReadInv, C!IInv, C!CompleteIsWhole
    <3>3. wire[Len(wire)] = "ok"
      BY <2>0, <3>2, ResponseFacts
    <3>4. http = "none"
      BY <2>0, <3>2 DEF S!StatusOnly, HasTrailers
    <3> QED
      BY <2>8, <3>1, <3>2, <3>3, <3>4 DEF Verdict, Result
  <2> QED
    BY <2>7, <2>8
<1>3. Inv /\ WayInv /\ [Next]_vars => Inv' /\ WayInv'
  BY StepInv, WayStep
<1> QED
  BY <1>1, <1>2, <1>3, InitInv, PTL DEF Spec
=============================================================================
