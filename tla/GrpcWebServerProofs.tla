------------------------ MODULE GrpcWebServerProofs ------------------------
(***************************************************************************)
(* Proofs about GrpcWebServer, for any number of calls of the callbacks:   *)
(* the type invariant and the safety invariants of a response.             *)
(***************************************************************************)
EXTENDS GrpcWebServer, SequenceTheorems, TLAPS

Messages(s) == \A i \in 1..Len(s) : s[i] = "message"
HasError(s) == \E i \in 1..Len(s) : s[i] = "error"

\* Before it streams, answers or fails, the route has written nothing, and no handler
\* of a stream runs.
Early == {"received", "decoding", "handling", "providing"}
NothingSentYet ==
  pc \in Early =>
    /\ wire = <<>> /\ http = "none"
    /\ promise = "none" /\ status = "none"
    /\ ~broke /\ lost = 0 /\ reported = 0
    /\ kind = "stream" => handler = "none"
    /\ pc = "handling" => kind = "unary"

EndedWhenDone == ended <=> pc = "done"

UnaryIsWhole ==
  kind = "unary" =>
    /\ pc /= "streaming" /\ handler /= "resolved"
    /\ promise = "none" /\ status = "none" /\ ~broke /\ lost = 0
    /\ pc = "done" /\ http = "none" =>
         \/ wire = <<"message", "ok">> /\ reported = 0
         \/ wire = <<"message", "error">> /\ reported > 0

\* An answer by the status has no body.
StatusOnly ==
  http /= "none" =>
    /\ pc = "done" /\ wire = <<>>
    /\ reported > 0 <=> http = "error"
    /\ ~broke => lost = 0
    /\ kind = "stream" => broke \/ handler \in {"none", "settled"}

\* The body of a stream as long as the route awaits it: messages, and the trailer
\* once the handler is settled.
BodyWhileStreaming ==
  pc = "streaming" =>
    /\ reported = 0 /\ lost = 0 /\ handler /= "none"
    /\ handler /= "settled" => Messages(wire)
    /\ \A i \in 1..Len(wire) :
         wire[i] = "message" \/ (wire[i] = "ok" /\ i = Len(wire))
    /\ promise = "resolved" => wire /= <<>> /\ wire[Len(wire)] = "ok"
    /\ promise = "rejected" => broke \/ Messages(wire)

\* What an error finds that reaches the error clause of the route, from before the
\* stream or from its error clause, which closed the stream.
HandedOver ==
  pc \in {"failing", "thrown"} =>
    /\ http = "none" /\ lost = 0 /\ reported > 0
    /\ status = "none" =>
         /\ promise = "none" /\ ~broke
         /\ kind = "stream" => handler = "none"
         /\ \/ wire = <<>>
            \/ kind = "unary" /\ wire = <<"message">> /\ err = "tellable" /\ CodecFails
    /\ status /= "none" =>
         /\ kind = "stream" /\ status = "end"
         /\ promise = "rejected" /\ err = "tellable"
         /\ NoMessageAfterTrailer
         /\ ~broke => Messages(wire)

\* The body of a stream that was answered.
BodyWhenDone ==
  kind = "stream" /\ pc = "done" /\ http = "none" =>
    /\ promise \in {"resolved", "rejected"}
    /\ NoMessageAfterTrailer
    /\ reported > 0 <=> HasError(wire)
    /\ ~broke => /\ handler = "settled" /\ lost = 0
                 /\ wire /= <<>> /\ wire[Len(wire)] \in Trailers
                 /\ \A i \in 1..(Len(wire) - 1) : wire[i] = "message"

\* The promise is settled by the handler's, or by a callback that breaks the protocol.
PromiseFollowsHandler ==
  /\ promise = "pending" => pc = "streaming" /\ ~broke /\ handler /= "settled"
  /\ promise = "resolved" => ~broke /\ handler = "settled"
  /\ promise = "rejected" => broke \/ handler = "settled"
  /\ broke => promise = "rejected"
  /\ kind = "stream" => (handler = "none" <=> promise = "none")

\* The error clauses have an error to tell.
ErrorInHand ==
  promise = "rejected" \/ pc \in {"failing", "thrown"} => err \in Errors

IInv ==
  /\ TypeOK
  /\ NothingSentYet
  /\ EndedWhenDone
  /\ UnaryIsWhole
  /\ StatusOnly
  /\ BodyWhileStreaming
  /\ HandedOver
  /\ BodyWhenDone
  /\ PromiseFollowsHandler
  /\ ErrorInHand

-----------------------------------------------------------------------------
Frames == {"message"} \union Trailers

\* What one more frame does to the body.
LEMMA FrameWritten ==
  ASSUME wire \in Seq(Frames), NEW f \in Frames, Write(<<f>>)
  PROVE  /\ wire' \in Seq(Frames)
         /\ ended => wire' = wire /\ lost' = lost + 1
         /\ ~ended => /\ lost' = lost
                      /\ Len(wire) \in Nat /\ Len(wire') = Len(wire) + 1
                      /\ wire'[Len(wire) + 1] = f
                      /\ \A i \in 1..Len(wire) : wire'[i] = wire[i]
<1>1. CASE ended
  BY <1>1 DEF Write
<1>2. CASE ~ended
  BY <1>2 DEF Write
<1> QED
  BY <1>1, <1>2

LEMMA OneAndOne ==
  ASSUME NEW f, NEW g
  PROVE  <<f>> \o <<g>> = <<f, g>>
<1> DEFINE s == <<f>> \o <<g>>
           t == <<f, g>>
<1>1. s \in Seq({f, g}) /\ Len(s) = 2 /\ s[1] = f /\ s[2] = g
  <2>1. /\ <<f>> \in Seq({f, g}) /\ Len(<<f>>) = 1 /\ <<f>>[1] = f
        /\ <<g>> \in Seq({f, g}) /\ Len(<<g>>) = 1 /\ <<g>>[1] = g
    OBVIOUS
  <2> QED
    BY <2>1, ConcatProperties
<1>2. t \in Seq({f, g}) /\ Len(t) = 2 /\ t[1] = f /\ t[2] = g
  OBVIOUS
<1> HIDE DEF s, t
<1>3. \A i \in 1..Len(s) : s[i] = t[i]
  BY <1>1, <1>2
<1>4. s = t
  BY <1>1, <1>2, <1>3, SeqEqual
<1> QED
  BY <1>4 DEF s, t

\* A frame other than a message may follow any others, and any may follow messages.
LEMMA TrailerLast ==
  ASSUME wire \in Seq(Frames), NEW f \in Frames, Write(<<f>>), ~ended,
         Messages(wire) \/ (NoMessageAfterTrailer /\ f /= "message")
  PROVE  NoMessageAfterTrailer'
<1>1. /\ Len(wire) \in Nat /\ Len(wire') = Len(wire) + 1
      /\ wire'[Len(wire) + 1] = f
      /\ \A i \in 1..Len(wire) : wire'[i] = wire[i]
  BY FrameWritten
<1> SUFFICES ASSUME NEW i \in 1..Len(wire'), NEW j \in 1..Len(wire'), i < j,
                    wire'[i] \in Trailers
             PROVE  wire'[j] /= "message"
  BY DEF NoMessageAfterTrailer
<1>2. i \in 1..Len(wire) /\ wire[i] \in Trailers
  BY <1>1
<1>3. ~Messages(wire)
  BY <1>2 DEF Messages, Trailers
<1>4. CASE j = Len(wire) + 1
  BY <1>1, <1>3, <1>4
<1>5. CASE j \in 1..Len(wire)
  BY <1>1, <1>2, <1>3, <1>5 DEF NoMessageAfterTrailer
<1> QED
  BY <1>1, <1>4, <1>5

LEMMA InitInv == Init => IInv
<1> SUFFICES ASSUME Init PROVE IInv
  OBVIOUS
<1> USE ServerAssumption DEF Init
<1>1. TypeOK
  <2>1. wire \in Seq({"message"} \union Trailers) /\ calls \in 0..MaxCalls
    OBVIOUS
  <2>2. {registered, closed, ended, broke} \subseteq BOOLEAN
    OBVIOUS
  <2> QED
    BY <2>1, <2>2 DEF TypeOK
<1>2. NothingSentYet /\ EndedWhenDone /\ UnaryIsWhole /\ StatusOnly
  BY DEF NothingSentYet, EndedWhenDone, UnaryIsWhole, StatusOnly
<1>3. BodyWhileStreaming /\ HandedOver /\ BodyWhenDone /\ PromiseFollowsHandler
  BY DEF BodyWhileStreaming, HandedOver, BodyWhenDone, PromiseFollowsHandler
<1>4. ErrorInHand
  BY DEF ErrorInHand
<1> QED
  BY <1>1, <1>2, <1>3, <1>4 DEF IInv

LEMMA NextType == IInv /\ [Next]_vars => TypeOK'
<1> SUFFICES ASSUME IInv, [Next]_vars PROVE TypeOK'
  OBVIOUS
<1>0. /\ kind \in {"unary", "stream"}
      /\ pc \in {"received", "decoding", "handling", "providing", "streaming",
                 "failing", "thrown", "done"}
      /\ status \in {"none", "notReady", "ready", "end"}
      /\ handler \in {"none", "running", "resolved", "settled"}
      /\ promise \in {"none", "pending", "resolved", "rejected"}
      /\ err \in {"none"} \union Errors
      /\ registered \in BOOLEAN /\ closed \in BOOLEAN /\ ended \in BOOLEAN
      /\ broke \in BOOLEAN
      /\ wire \in Seq(Frames)
      /\ http \in {"none", "refused", "error"}
      /\ closeCalls \in Nat /\ reported \in Nat /\ lost \in Nat
      /\ calls \in 0..MaxCalls
  BY DEF IInv, TypeOK, Frames
<1>s. ASSUME kind' \in {"unary", "stream"},
             pc' \in {"received", "decoding", "handling", "providing", "streaming",
                      "failing", "thrown", "done"},
             status' \in {"none", "notReady", "ready", "end"},
             handler' \in {"none", "running", "resolved", "settled"},
             promise' \in {"none", "pending", "resolved", "rejected"},
             err' \in {"none"} \union Errors,
             registered' \in BOOLEAN, closed' \in BOOLEAN, ended' \in BOOLEAN,
             broke' \in BOOLEAN, wire' \in Seq(Frames),
             http' \in {"none", "refused", "error"},
             closeCalls' \in Nat, reported' \in Nat, lost' \in Nat,
             calls' \in 0..MaxCalls
      PROVE  TypeOK'
  BY <1>s DEF TypeOK, Frames
<1>r. ASSUME NEW e \in Errors, RejectWith(e)
      PROVE  /\ promise' \in {"none", "pending", "resolved", "rejected"}
             /\ err' \in {"none"} \union Errors
  BY <1>0, <1>r DEF RejectWith
<1>p. BreakProtocol => /\ promise' \in {"none", "pending", "resolved", "rejected"}
                       /\ err' \in {"none"} \union Errors /\ broke' \in BOOLEAN
  BY <1>0, <1>r DEF BreakProtocol, Errors
<1>w. ASSUME NEW f \in Frames, Write(<<f>>) PROVE wire' \in Seq(Frames) /\ lost' \in Nat
  <2>1. ended \/ ~ended
    OBVIOUS
  <2> QED
    BY <1>0, <1>w, <2>1, FrameWritten
<1>f. {"message", "ok", "error"} \subseteq Frames
  BY DEF Frames, Trailers
<1>1. CASE Refuse
  BY <1>0, <1>s, <1>1 DEF Refuse, closeVars
<1>2. CASE Accept
  BY <1>0, <1>s, <1>2 DEF Accept, closeVars
<1>3. CASE Decoded
  BY <1>0, <1>s, <1>3 DEF Decoded, closeVars
<1>4. CASE UnaryHandled
  BY <1>0, <1>s, <1>4 DEF UnaryHandled, closeVars
<1>5. CASE ContextProvided
  <2>1. wire' \in Seq(Frames) /\ lost' \in Nat
    <3>1. CASE UNCHANGED <<wire, lost>>
      BY <1>0, <3>1
    <3>2. CASE Write(<<"message", "ok">>)
      <4>1. <<"message", "ok">> \in Seq(Frames) /\ Len(<<"message", "ok">>) = 2
        BY <1>f
      <4>2. ASSUME NEW S, NEW u \in Seq(S), NEW v \in Seq(S) PROVE u \o v \in Seq(S)
        OBVIOUS
      <4>3. wire \o <<"message", "ok">> \in Seq(Frames)
        BY ONLY <1>0, <4>1, <4>2
      <4>4. CASE ended
        BY <1>0, <3>2, <4>1, <4>4 DEF Write
      <4>5. CASE ~ended
        BY <1>0, <3>2, <4>3, <4>5 DEF Write
      <4> QED
        BY <4>4, <4>5
    <3> QED
      BY <1>5, <3>1, <3>2 DEF ContextProvided
  <2> QED
    BY <1>0, <1>s, <1>5, <2>1 DEF ContextProvided, closeVars
<1>6. CASE Fails
  BY <1>0, <1>s, <1>6 DEF Fails, closeVars
<1>6a. CASE ResponseFails
  <2>1. wire' \in Seq(Frames) /\ lost' \in Nat /\ err' \in Errors
    BY <1>0, <1>6a, <1>w, <1>f DEF ResponseFails, Errors
  <2> QED
    BY <1>0, <1>s, <1>6a, <2>1 DEF ResponseFails, closeVars
<1>7. CASE FailureSent
  <2>1. /\ wire' \in Seq(Frames) /\ lost' \in Nat
        /\ http' \in {"none", "refused", "error"} /\ reported' \in Nat
    BY <1>0, <1>7, <1>w, <1>f DEF FailureSent, ContextForError
  <2> QED
    BY <1>0, <1>s, <1>7, <2>1 DEF FailureSent, closeVars
<1>7a. CASE RouteThrows
  BY <1>0, <1>s, <1>7a DEF RouteThrows, ContextForError, closeVars
<1>8. CASE OnReady
  <2>1. calls' \in 0..MaxCalls
    BY <1>0, <1>8, ServerAssumption DEF OnReady, MayCall
  <2>2. /\ promise' \in {"none", "pending", "resolved", "rejected"} /\ broke' \in BOOLEAN
        /\ err' \in {"none"} \union Errors
        /\ status' \in {"none", "notReady", "ready", "end"} /\ registered' \in BOOLEAN
    BY <1>0, <1>8, <1>p DEF OnReady
  <2> QED
    BY <1>0, <1>s, <1>8, <2>1, <2>2 DEF OnReady, routeVars
<1>9. ASSUME NEW encodable \in BOOLEAN, OnMessage(encodable) PROVE TypeOK'
  <2>1. calls' \in 0..MaxCalls
    BY <1>0, <1>9, ServerAssumption DEF OnMessage, MayCall
  <2>2. /\ promise' \in {"none", "pending", "resolved", "rejected"} /\ broke' \in BOOLEAN
        /\ err' \in {"none"} \union Errors
        /\ wire' \in Seq(Frames) /\ lost' \in Nat
    BY <1>0, <1>9, <1>p, <1>w, <1>f DEF OnMessage
  <2> QED
    BY <1>0, <1>s, <1>9, <2>1, <2>2 DEF OnMessage, routeVars, closeVars
<1>10. CASE HandlerResolves
  BY <1>0, <1>s, <1>10 DEF HandlerResolves, routeVars, closeVars
<1>11. CASE HandlerRejects
  <2>1. /\ promise' \in {"none", "pending", "resolved", "rejected"}
        /\ err' \in {"none"} \union Errors
    BY <1>11, <1>r DEF HandlerRejects
  <2> QED
    BY <1>0, <1>s, <1>11, <2>1 DEF HandlerRejects, routeVars, closeVars
<1>12. CASE SuccessTrailer
  <2>1. /\ wire' \in Seq(Frames) /\ lost' \in Nat
        /\ promise' \in {"none", "pending", "resolved", "rejected"}
        /\ err' \in {"none"} \union Errors
    BY <1>0, <1>12, <1>w, <1>f, <1>r DEF SuccessTrailer, Errors
  <2> QED
    BY <1>0, <1>s, <1>12, <2>1 DEF SuccessTrailer, routeVars, closeVars
<1>13. CASE StreamContinues
  <2>1. CASE StreamSucceeds
    BY <1>0, <1>s, <1>13, <2>1 DEF StreamContinues, StreamSucceeds, closeVars
  <2>2. CASE StreamFails
    <3>1. /\ wire' \in Seq(Frames) /\ lost' \in Nat /\ reported' \in Nat
          /\ status' = "end" /\ ended' \in BOOLEAN
          /\ err' \in {"none"} \union Errors /\ pc' \in {"done", "failing"}
      <4>1. CASE /\ pc' = "done" /\ reported' = reported + 1 /\ Write(<<"error">>)
                 /\ ended' /\ UNCHANGED err
        <5>1. wire' \in Seq(Frames) /\ lost' \in Nat
          BY <4>1, <1>w, <1>f
        <5> QED
          BY <1>0, <2>2, <4>1, <5>1 DEF StreamFails
      <4>2. CASE pc' = "failing" /\ err' = "tellable" /\ UNCHANGED <<wire, ended, lost>>
        BY <1>0, <2>2, <4>2 DEF StreamFails, Errors
      <4> QED
        BY <2>2, <4>1, <4>2 DEF StreamFails
    <3> QED
      BY <1>0, <1>s, <1>13, <3>1 DEF StreamContinues, closeVars
  <2> QED
    BY <1>13, <2>1, <2>2 DEF StreamContinues
<1>14. CASE Close
  BY <1>0, <1>s, <1>14 DEF Close, routeVars
<1>15. CASE UNCHANGED vars
  BY <1>0, <1>s, <1>15 DEF vars
<1> QED
  BY <1>1, <1>2, <1>3, <1>4, <1>5, <1>6, <1>6a, <1>7, <1>7a, <1>8, <1>9, <1>10, <1>11,
     <1>12, <1>13, <1>14, <1>15 DEF Next

SafeInv ==
  /\ NothingSentYet
  /\ EndedWhenDone
  /\ UnaryIsWhole
  /\ StatusOnly
  /\ BodyWhileStreaming
  /\ HandedOver
  /\ BodyWhenDone
  /\ PromiseFollowsHandler

LEMMA NextSafe == IInv /\ [Next]_vars => SafeInv'
<1> SUFFICES ASSUME IInv, [Next]_vars PROVE SafeInv'
  OBVIOUS
<1>0. /\ kind \in {"unary", "stream"}
      /\ pc \in Early \union {"streaming", "failing", "thrown", "done"}
      /\ status \in {"none", "notReady", "ready", "end"}
      /\ handler \in {"none", "running", "resolved", "settled"}
      /\ promise \in {"none", "pending", "resolved", "rejected"}
      /\ wire \in Seq(Frames) /\ Len(wire) \in Nat
      /\ reported \in Nat /\ lost \in Nat
      /\ {"message", "ok", "error"} \subseteq Frames
  BY DEF IInv, TypeOK, Frames, Early, Trailers
<1>i. /\ NothingSentYet /\ EndedWhenDone /\ UnaryIsWhole /\ StatusOnly
      /\ BodyWhileStreaming /\ HandedOver /\ BodyWhenDone /\ PromiseFollowsHandler
  BY DEF IInv
\* A step of the route before it streams, answers or fails.
<1>b. ASSUME pc \in Early, pc' \in Early,
             UNCHANGED <<kind, wire, http, promise, status, broke, lost, ended, reported>>,
             kind = "stream" => handler' = handler,
             handler' /= "resolved", pc' = "handling" => kind = "unary"
      PROVE  SafeInv'
  BY <1>i, <1>b
     DEF SafeInv, NothingSentYet, EndedWhenDone, UnaryIsWhole, StatusOnly, HandedOver,
         BodyWhileStreaming, BodyWhenDone, PromiseFollowsHandler, Early
\* It fails.
<1>f. ASSUME pc \in Early, pc' = "failing", reported' > 0,
             UNCHANGED <<kind, http, promise, status, broke, lost, ended>>,
             kind = "stream" => handler' = handler,
             handler' /= "resolved",
             \/ wire' = wire
             \/ kind = "unary" /\ wire' = <<"message">> /\ err' = "tellable" /\ CodecFails
      PROVE  SafeInv'
  <2>1. /\ wire = <<>> /\ http = "none" /\ promise = "none" /\ status = "none"
        /\ ~broke /\ lost = 0 /\ (kind = "stream" => handler = "none") /\ ~ended
    BY <1>i, <1>f DEF NothingSentYet, EndedWhenDone, Early
  <2>2. HandedOver'
    BY <1>f, <2>1 DEF HandedOver
  <2> QED
    BY <1>i, <1>f, <2>1, <2>2
       DEF SafeInv, NothingSentYet, EndedWhenDone, UnaryIsWhole, StatusOnly,
           BodyWhileStreaming, BodyWhenDone, PromiseFollowsHandler, Early
<1>1. CASE Refuse
  <2>1. /\ wire = <<>> /\ promise = "none" /\ ~broke /\ lost = 0 /\ reported = 0
        /\ (kind = "stream" => handler = "none") /\ pc' = "done" /\ ended'
        /\ http' = "refused" /\ UNCHANGED <<kind, wire, promise, status, broke, lost, handler, reported>>
    BY <1>i, <1>1 DEF NothingSentYet, Early, Refuse
  <2> QED
    BY <1>i, <2>1
       DEF SafeInv, NothingSentYet, EndedWhenDone, UnaryIsWhole, StatusOnly, HandedOver,
           BodyWhileStreaming, BodyWhenDone, PromiseFollowsHandler, Early
<1>2. CASE Accept
  BY <1>0, <1>2, <1>i, <1>b DEF Accept, NothingSentYet, UnaryIsWhole, Early
<1>3. CASE Decoded
  BY <1>0, <1>3, <1>i, <1>b DEF Decoded, NothingSentYet, UnaryIsWhole, Early
<1>4. CASE UnaryHandled
  BY <1>0, <1>4, <1>i, <1>b DEF UnaryHandled, NothingSentYet, UnaryIsWhole, Early
<1>5. CASE ContextProvided
  <2>0. /\ wire = <<>> /\ http = "none" /\ promise = "none" /\ status = "none"
        /\ ~broke /\ lost = 0 /\ reported = 0 /\ ~ended
    BY <1>5, <1>i DEF ContextProvided, NothingSentYet, EndedWhenDone, Early
  <2>1. CASE kind = "stream"
    <3>1. /\ pc' = "streaming" /\ handler' = "running" /\ promise' = "pending"
          /\ UNCHANGED <<kind, wire, http, ended, lost, reported, broke>>
      BY <1>5, <2>1 DEF ContextProvided
    <3> QED
      BY <2>0, <2>1, <3>1
         DEF SafeInv, NothingSentYet, EndedWhenDone, UnaryIsWhole, StatusOnly, HandedOver,
             BodyWhileStreaming, BodyWhenDone, PromiseFollowsHandler, Messages, Early
  <2>2. CASE kind = "unary"
    <3>1. /\ wire' = <<"message", "ok">> /\ lost' = lost /\ pc' = "done" /\ ended'
          /\ UNCHANGED <<kind, status, http, handler, promise, reported, broke>>
      BY <1>5, <2>0, <2>2 DEF ContextProvided, Write
    <3>2. handler /= "resolved"
      BY <1>i, <2>2 DEF UnaryIsWhole
    <3> QED
      BY <2>0, <2>2, <3>1, <3>2
         DEF SafeInv, NothingSentYet, EndedWhenDone, UnaryIsWhole, StatusOnly, HandedOver,
             BodyWhileStreaming, BodyWhenDone, PromiseFollowsHandler, Early
  <2> QED
    BY <1>0, <2>1, <2>2
<1>6. CASE Fails
  <2>1. reported' > 0 /\ pc \in Early
    BY <1>0, <1>6 DEF Fails, Early
  <2>2. kind = "stream" => handler' = handler
    BY <1>6, <1>i DEF Fails, NothingSentYet, Early
  <2>3. handler' /= "resolved"
    BY <1>0, <1>6, <1>i DEF Fails, NothingSentYet, UnaryIsWhole, Early
  <2> QED
    BY <1>6, <1>f, <2>1, <2>2, <2>3 DEF Fails
<1>6a. CASE ResponseFails
  <2>1. reported' > 0 /\ pc \in Early /\ kind = "unary" /\ pc' = "failing" /\ err' = "tellable"
        /\ UNCHANGED <<kind, http, promise, status, broke, ended, handler>>
    BY <1>0, <1>6a DEF ResponseFails, Early
  <2>2. handler /= "resolved" /\ ~ended /\ wire = <<>>
    BY <1>i, <2>1 DEF NothingSentYet, UnaryIsWhole, EndedWhenDone, Early
  <2>3. lost' = lost /\ (wire' = wire \/ (CodecFails /\ wire' = <<"message">>))
    BY <1>6a, <2>2 DEF ResponseFails, Write
  <2> QED
    BY <1>f, <2>1, <2>2, <2>3
\* What the error clause of the route finds.
<1>g. ASSUME pc = "failing"
      PROVE  /\ ~ended /\ http = "none" /\ lost = 0 /\ reported > 0
             /\ handler \in {"running", "resolved"} /\ kind = "stream" => broke
  BY <1>0, <1>g, <1>i DEF EndedWhenDone, HandedOver, PromiseFollowsHandler
<1>7. CASE FailureSent
  <2>0. /\ pc = "failing" /\ pc' = "done" /\ ended' /\ reported' > 0
        /\ UNCHANGED <<kind, status, handler, promise, broke>>
    BY <1>0, <1>7, <1>g DEF FailureSent, ContextForError
  <2>1. /\ NothingSentYet' /\ EndedWhenDone' /\ BodyWhileStreaming' /\ HandedOver'
        /\ PromiseFollowsHandler'
    BY <1>i, <2>0
       DEF NothingSentYet, EndedWhenDone, BodyWhileStreaming, HandedOver,
           PromiseFollowsHandler, Early
  <2>2. CASE wire = <<>> /\ http' = "error" /\ UNCHANGED <<wire, lost>>
    <3>1. UnaryIsWhole'
      BY <1>i, <2>0, <2>2 DEF UnaryIsWhole
    <3>2. StatusOnly' /\ BodyWhenDone'
      BY <1>0, <1>g, <2>0, <2>2 DEF StatusOnly, BodyWhenDone
    <3> QED
      BY <2>1, <3>1, <3>2 DEF SafeInv
  <2>3. CASE wire /= <<>> /\ Write(<<"error">>) /\ UNCHANGED http
    <3>0. wire' = wire \o <<"error">>
      BY <1>g, <2>0, <2>3 DEF Write
    <3>1. /\ lost' = 0 /\ Len(wire') = Len(wire) + 1
          /\ wire'[Len(wire) + 1] = "error" /\ wire' /= <<>>
          /\ \A i \in 1..Len(wire) : wire'[i] = wire[i]
      BY <1>0, <1>g, <2>0, <2>3, FrameWritten
    <3>2. HasError(wire')
      BY <1>0, <3>1 DEF HasError
    <3>3. CASE kind = "unary"
      <4>1. wire = <<"message">>
        BY <1>i, <2>0, <2>3, <3>3 DEF HandedOver, UnaryIsWhole
      <4>2. wire' = <<"message", "error">>
        BY <3>0, <4>1, OneAndOne
      <4>3. UnaryIsWhole'
        BY <1>g, <1>i, <2>0, <2>3, <3>1, <4>2 DEF UnaryIsWhole
      <4>4. StatusOnly' /\ BodyWhenDone'
        BY <1>g, <2>0, <2>3, <3>3 DEF StatusOnly, BodyWhenDone
      <4> QED
        BY <2>1, <4>3, <4>4 DEF SafeInv
    <3>4. CASE kind = "stream"
      <4>1. status /= "none" /\ promise = "rejected" /\ NoMessageAfterTrailer
            /\ (~broke => Messages(wire))
        BY <1>i, <2>0, <2>3, <3>4 DEF HandedOver
      <4>2. NoMessageAfterTrailer'
        BY <1>0, <1>g, <2>0, <2>3, <4>1, TrailerLast
      <4>3. ~broke => /\ handler = "settled"
                      /\ \A i \in 1..(Len(wire') - 1) : wire'[i] = "message"
        BY <1>0, <1>i, <3>1, <4>1 DEF Messages, PromiseFollowsHandler
      <4>4. BodyWhenDone'
        BY <2>0, <3>1, <3>2, <3>4, <4>1, <4>2, <4>3 DEF BodyWhenDone, Trailers
      <4>5. StatusOnly' /\ UnaryIsWhole'
        BY <1>g, <2>0, <2>3, <3>4 DEF StatusOnly, UnaryIsWhole
      <4> QED
        BY <2>1, <4>4, <4>5 DEF SafeInv
    <3> QED
      BY <1>0, <3>3, <3>4
  <2> QED
    BY <1>7, <2>2, <2>3 DEF FailureSent
<1>7a. CASE RouteThrows
  <2>0. /\ pc = "failing" /\ pc' = "thrown" /\ reported' > 0
        /\ UNCHANGED <<kind, status, handler, promise, err, wire, http, ended, broke, lost>>
    BY <1>0, <1>7a, <1>g DEF RouteThrows, ContextForError
  <2>1. HandedOver'
    BY <1>i, <2>0 DEF HandedOver, NoMessageAfterTrailer, Messages
  <2> QED
    BY <1>g, <1>i, <2>0, <2>1
       DEF SafeInv, NothingSentYet, EndedWhenDone, UnaryIsWhole, StatusOnly,
           BodyWhileStreaming, BodyWhenDone, PromiseFollowsHandler, Early
\* A handler that runs, or whose promise is resolved but not yet followed.
<1>h. ASSUME kind = "stream", handler \in {"running", "resolved"}
      PROVE  /\ promise \in {"pending", "rejected"}
             /\ promise = "rejected" => broke
             /\ promise = "pending" => pc = "streaming" /\ ~broke
             /\ pc \notin Early
             /\ pc = "streaming" => http = "none" /\ ~ended /\ Messages(wire) /\ lost = 0
                                    /\ reported = 0
             /\ pc \in {"failing", "thrown"} => /\ status = "end" /\ err = "tellable"
                                                /\ NoMessageAfterTrailer
             /\ pc = "done" => ended
  <2>1. pc \notin Early /\ promise \in {"pending", "rejected"}
    BY <1>0, <1>h, <1>i DEF NothingSentYet, PromiseFollowsHandler
  <2>2. /\ promise = "rejected" => broke
        /\ promise = "pending" => pc = "streaming" /\ ~broke
    BY <1>h, <1>i DEF PromiseFollowsHandler
  <2>3. pc = "streaming" => http = "none" /\ ~ended /\ Messages(wire) /\ lost = 0
                            /\ reported = 0
    BY <1>h, <1>i DEF BodyWhileStreaming, StatusOnly, EndedWhenDone
  <2>4. pc \in {"failing", "thrown"} => /\ status = "end" /\ err = "tellable"
                                        /\ NoMessageAfterTrailer
    BY <1>h, <1>i, <2>1 DEF HandedOver
  <2>5. pc = "done" => ended
    BY <1>i DEF EndedWhenDone
  <2> QED
    BY <2>1, <2>2, <2>3, <2>4, <2>5
\* A step of the handler that writes nothing.
<1>k. ASSUME kind = "stream", handler \in {"running", "resolved"},
             UNCHANGED <<kind, pc, http, reported, ended, wire, lost>>,
             handler' \in {"running", "resolved"} \/ (handler' = "settled" /\ promise' = "rejected"),
             pc /= "streaming" => status' = status,
             promise = "rejected" => UNCHANGED <<promise, err, broke>>,
             promise = "pending" => \/ promise' = promise /\ broke' = broke
                                    \/ promise' = "rejected" /\ (broke' \/ handler' = "settled"),
             broke' => broke \/ promise' = "rejected"
      PROVE  SafeInv'
  <2>0. /\ promise \in {"pending", "rejected"} /\ pc \notin Early
        /\ promise = "rejected" => broke
        /\ promise = "pending" => pc = "streaming" /\ ~broke
    BY <1>h, <1>k
  <2>1. NothingSentYet' /\ EndedWhenDone' /\ UnaryIsWhole' /\ StatusOnly'
    BY <1>0, <1>i, <1>k, <2>0
       DEF NothingSentYet, EndedWhenDone, UnaryIsWhole, StatusOnly
  <2>2. PromiseFollowsHandler'
    BY <1>i, <1>k, <2>0 DEF PromiseFollowsHandler
  <2>3. BodyWhileStreaming'
    BY <1>h, <1>i, <1>k, <2>0 DEF BodyWhileStreaming, Messages
  <2>4. HandedOver'
    <3> SUFFICES ASSUME pc \in {"failing", "thrown"} PROVE HandedOver'
      BY <1>k DEF HandedOver
    <3>1. promise = "rejected" /\ broke /\ UNCHANGED <<promise, err, broke, status>>
      BY <1>k, <2>0
    <3> QED
      BY <1>i, <1>k, <3>1 DEF HandedOver, NoMessageAfterTrailer, Messages
  <2>5. BodyWhenDone'
    <3>1. pc = "done" => broke' /\ promise' \in {"resolved", "rejected"}
      BY <1>i, <1>k, <2>0
    <3> QED
      BY <1>i, <1>k, <3>1 DEF BodyWhenDone, NoMessageAfterTrailer, HasError
  <2> QED
    BY <2>1, <2>2, <2>3, <2>4, <2>5 DEF SafeInv
<1>8. CASE OnReady
  <2>0. /\ kind = "stream" /\ handler = "running"
        /\ UNCHANGED <<kind, pc, http, reported, ended, wire, lost, handler>>
    BY <1>8 DEF OnReady, MayCall, routeVars
  <2>1. CASE status = "end" /\ BreakProtocol /\ UNCHANGED status
    BY <1>k, <2>0, <2>1, <1>h DEF BreakProtocol, RejectWith
  <2>2. CASE status /= "end" /\ UNCHANGED <<promise, err, broke>>
    BY <1>0, <1>h, <1>i, <2>0, <2>2
       DEF SafeInv, NothingSentYet, EndedWhenDone, UnaryIsWhole, StatusOnly, HandedOver,
           BodyWhileStreaming, BodyWhenDone, PromiseFollowsHandler,
           NoMessageAfterTrailer, HasError, Messages
  <2> QED
    BY <1>8, <2>1, <2>2 DEF OnReady
<1>9. ASSUME NEW encodable \in BOOLEAN, OnMessage(encodable) PROVE SafeInv'
  <2>0. /\ kind = "stream" /\ handler = "running"
        /\ UNCHANGED <<kind, pc, http, reported, ended, handler, status>>
    BY <1>9 DEF OnMessage, MayCall, routeVars
  <2>1. CASE BreakProtocol /\ UNCHANGED <<wire, lost>>
    BY <1>k, <2>0, <2>1, <1>h DEF BreakProtocol, RejectWith
  <2>2. CASE /\ status = "ready" /\ ~ended /\ Write(<<"message">>)
             /\ UNCHANGED <<promise, err, broke>>
    <3>0. /\ pc = "streaming" /\ http = "none" /\ Messages(wire) /\ lost = 0 /\ reported = 0
          /\ promise \in {"pending", "rejected"} /\ (promise = "rejected" => broke)
      BY <1>0, <1>h, <2>0, <2>2
    <3>1. lost' = lost /\ Messages(wire')
      BY <1>0, <2>2, <3>0, FrameWritten DEF Messages
    <3>2. BodyWhileStreaming'
      BY <2>0, <2>2, <3>0, <3>1 DEF BodyWhileStreaming, Messages
    <3>3. /\ NothingSentYet' /\ EndedWhenDone' /\ UnaryIsWhole' /\ StatusOnly'
          /\ HandedOver' /\ BodyWhenDone' /\ PromiseFollowsHandler'
      BY <1>i, <2>0, <2>2, <3>0
         DEF NothingSentYet, EndedWhenDone, UnaryIsWhole, StatusOnly, HandedOver,
             BodyWhenDone, PromiseFollowsHandler, Early
    <3> QED
      BY <3>2, <3>3 DEF SafeInv
  <2> QED
    BY <1>9, <2>1, <2>2 DEF OnMessage
<1>10. CASE HandlerResolves
  BY <1>10, <1>k DEF HandlerResolves, routeVars
<1>11. CASE HandlerRejects
  <2>0. /\ kind = "stream" /\ handler = "running" /\ handler' = "settled"
        /\ UNCHANGED <<kind, pc, http, reported, ended, wire, lost, broke, status>>
    BY <1>11 DEF HandlerRejects, routeVars
  <2>1. promise' = "rejected" /\ (promise = "rejected" => UNCHANGED <<promise, err>>)
    BY <1>11, <1>h, <2>0 DEF HandlerRejects, RejectWith
  <2> QED
    BY <1>k, <2>0, <2>1
<1>12. CASE SuccessTrailer
  <2>0. /\ kind = "stream" /\ handler = "resolved" /\ handler' = "settled"
        /\ UNCHANGED <<kind, pc, http, reported, ended, broke, status>>
    BY <1>0, <1>i, <1>12 DEF SuccessTrailer, UnaryIsWhole, routeVars
  <2>1. CASE CodecFails /\ RejectWith("tellable") /\ UNCHANGED <<wire, lost>>
    <3>1. promise' = "rejected" /\ (promise = "rejected" => UNCHANGED <<promise, err>>)
      BY <1>h, <2>0, <2>1 DEF RejectWith
    <3> QED
      BY <1>k, <2>0, <2>1, <3>1
  <2>2. CASE /\ Write(<<"ok">>) /\ UNCHANGED err
             /\ promise' = IF promise = "pending" THEN "resolved" ELSE promise
    <3>1. CASE pc = "done"
      <4>1. ended /\ broke /\ promise = "rejected" /\ promise' = promise /\ wire' = wire
        BY <1>0, <1>h, <2>0, <2>2, <3>1, FrameWritten
      <4> QED
        BY <1>i, <2>0, <3>1, <4>1
           DEF SafeInv, NothingSentYet, EndedWhenDone, UnaryIsWhole, StatusOnly,
               HandedOver, BodyWhileStreaming, BodyWhenDone, PromiseFollowsHandler,
               NoMessageAfterTrailer, HasError, Early
    <3>2. CASE pc = "streaming"
      <4>0. /\ http = "none" /\ promise \in {"pending", "rejected"}
            /\ promise = "rejected" => broke
            /\ promise = "pending" => ~broke
            /\ ~ended /\ Messages(wire) /\ lost = 0 /\ reported = 0
        BY <1>h, <2>0, <3>2
      <4>1. /\ lost' = lost /\ Len(wire') = Len(wire) + 1
            /\ wire'[Len(wire) + 1] = "ok" /\ wire' /= <<>>
            /\ \A i \in 1..Len(wire) : wire'[i] = "message"
        BY <1>0, <2>2, <4>0, FrameWritten DEF Messages
      <4>2. BodyWhileStreaming'
        BY <1>0, <2>0, <2>2, <3>2, <4>0, <4>1 DEF BodyWhileStreaming
      <4>3. /\ NothingSentYet' /\ EndedWhenDone' /\ UnaryIsWhole' /\ StatusOnly'
            /\ HandedOver' /\ BodyWhenDone' /\ PromiseFollowsHandler'
        BY <1>i, <2>0, <2>2, <3>2, <4>0
           DEF NothingSentYet, EndedWhenDone, UnaryIsWhole, StatusOnly, HandedOver,
               BodyWhenDone, PromiseFollowsHandler, Early
      <4> QED
        BY <4>2, <4>3 DEF SafeInv
    <3>3. CASE pc \in {"failing", "thrown"}
      <4>1. /\ broke /\ promise = "rejected" /\ promise' = promise /\ ~ended
            /\ NoMessageAfterTrailer /\ status = "end" /\ err = "tellable"
        BY <1>h, <1>i, <2>0, <2>2, <3>3 DEF EndedWhenDone
      <4>2. lost' = lost /\ NoMessageAfterTrailer'
        BY <1>0, <2>2, <4>1, TrailerLast, FrameWritten
      <4>3. HandedOver'
        BY <1>i, <2>0, <2>2, <3>3, <4>1, <4>2 DEF HandedOver
      <4> QED
        BY <1>i, <2>0, <3>3, <4>1, <4>2, <4>3
           DEF SafeInv, NothingSentYet, EndedWhenDone, UnaryIsWhole, StatusOnly,
               BodyWhileStreaming, BodyWhenDone, PromiseFollowsHandler, Early, HandedOver
    <3> QED
      BY <1>0, <1>h, <2>0, <3>1, <3>2, <3>3
  <2> QED
    BY <1>12, <2>1, <2>2 DEF SuccessTrailer
<1>13. CASE StreamContinues
  <2>0. /\ pc = "streaming" /\ kind = "stream"
        /\ UNCHANGED <<kind, handler, promise, http, broke>>
    BY <1>0, <1>13, <1>i DEF StreamContinues, closeVars, UnaryIsWhole
  <2>1. /\ ~ended /\ http = "none" /\ reported = 0 /\ lost = 0
        /\ \A i \in 1..Len(wire) : wire[i] = "message" \/ (wire[i] = "ok" /\ i = Len(wire))
        /\ promise = "rejected" => broke \/ (handler = "settled" /\ Messages(wire))
    BY <1>i, <2>0 DEF EndedWhenDone, StatusOnly, BodyWhileStreaming, PromiseFollowsHandler
  <2>2. NoMessageAfterTrailer
    BY <1>0, <2>1 DEF NoMessageAfterTrailer, Trailers
  <2>3. CASE StreamSucceeds
    <3>0. /\ promise = "resolved" /\ pc' = "done" /\ ended'
          /\ UNCHANGED <<status, reported, wire, lost>>
      BY <2>3 DEF StreamSucceeds
    <3>1. ~broke /\ handler = "settled" /\ wire /= <<>> /\ wire[Len(wire)] = "ok"
      BY <1>i, <2>0, <3>0 DEF PromiseFollowsHandler, BodyWhileStreaming
    <3>2. \A i \in 1..Len(wire) : wire[i] \in {"message", "ok"}
      BY <2>1
    <3>3. ~HasError(wire')
      BY <3>0, <3>2 DEF HasError
    <3>4. NoMessageAfterTrailer'
      BY <2>2, <3>0 DEF NoMessageAfterTrailer
    <3>5. \A i \in 1..(Len(wire) - 1) : wire[i] = "message"
      BY <1>0, <2>1
    <3>6. BodyWhenDone'
      BY <2>0, <2>1, <3>0, <3>1, <3>3, <3>4, <3>5 DEF BodyWhenDone, Trailers
    <3> QED
      BY <1>i, <2>0, <2>1, <3>0, <3>6
         DEF SafeInv, NothingSentYet, EndedWhenDone, UnaryIsWhole, StatusOnly,
             HandedOver, BodyWhileStreaming, PromiseFollowsHandler, Early
  <2>4. CASE StreamFails
    <3>1. CASE /\ pc' = "done" /\ reported' = reported + 1 /\ Write(<<"error">>) /\ ended'
      <4>0. promise = "rejected"
        BY <2>4 DEF StreamFails
      <4>1. /\ lost' = lost /\ Len(wire') = Len(wire) + 1
            /\ wire'[Len(wire) + 1] = "error" /\ wire' /= <<>>
            /\ \A i \in 1..Len(wire) : wire'[i] = wire[i]
        BY <1>0, <2>1, <3>1, FrameWritten
      <4>2. HasError(wire') /\ reported' > 0
        BY <1>0, <2>1, <3>1, <4>1 DEF HasError
      <4>3. NoMessageAfterTrailer'
        BY <1>0, <2>1, <2>2, <3>1, TrailerLast
      <4>4. ~broke => /\ handler = "settled"
                      /\ \A i \in 1..(Len(wire') - 1) : wire'[i] = "message"
        BY <1>0, <2>1, <4>0, <4>1 DEF Messages
      <4>6. BodyWhenDone'
        BY <2>0, <2>1, <3>1, <4>0, <4>1, <4>2, <4>3, <4>4 DEF BodyWhenDone, Trailers
      <4> QED
        BY <1>i, <2>0, <2>1, <3>1, <4>0, <4>6
           DEF SafeInv, NothingSentYet, EndedWhenDone, UnaryIsWhole, StatusOnly,
               HandedOver, BodyWhileStreaming, PromiseFollowsHandler, Early
    <3>2. CASE /\ pc' = "failing" /\ reported' = reported + 3 /\ err' = "tellable"
               /\ UNCHANGED <<wire, ended, lost>>
      <4>0. promise = "rejected" /\ status' = "end"
        BY <2>4 DEF StreamFails
      <4>1. HandedOver'
        BY <2>0, <2>1, <2>2, <3>2, <4>0
           DEF HandedOver, NoMessageAfterTrailer, Messages
      <4> QED
        BY <1>i, <2>0, <2>1, <3>2, <4>0, <4>1
           DEF SafeInv, NothingSentYet, EndedWhenDone, UnaryIsWhole, StatusOnly,
               BodyWhileStreaming, BodyWhenDone, PromiseFollowsHandler, Early
    <3> QED
      BY <2>4, <3>1, <3>2 DEF StreamFails
  <2> QED
    BY <1>13, <2>3, <2>4 DEF StreamContinues
<1>u. ASSUME UNCHANGED <<kind, pc, http, reported, ended, wire, lost, status, handler,
                         promise, err, broke>>
      PROVE  SafeInv'
  BY <1>i, <1>u
     DEF SafeInv, NothingSentYet, EndedWhenDone, UnaryIsWhole, StatusOnly, HandedOver,
         BodyWhileStreaming, BodyWhenDone, PromiseFollowsHandler,
         NoMessageAfterTrailer, HasError, Messages
<1>14. CASE Close
  BY <1>14, <1>u DEF Close, routeVars
<1>15. CASE UNCHANGED vars
  BY <1>15, <1>u DEF vars
<1> QED
  BY <1>1, <1>2, <1>3, <1>4, <1>5, <1>6, <1>6a, <1>7, <1>7a, <1>8, <1>9, <1>10, <1>11,
     <1>12, <1>13, <1>14, <1>15 DEF Next

-----------------------------------------------------------------------------
LEMMA NextErrorInHand == IInv /\ [Next]_vars => ErrorInHand'
<1> SUFFICES ASSUME IInv, [Next]_vars PROVE ErrorInHand'
  OBVIOUS
<1>0. /\ ErrorInHand /\ NothingSentYet /\ {"tellable", "untellable"} = Errors
      /\ promise \in {"none", "pending", "resolved", "rejected"}
  BY DEF IInv, TypeOK, Errors
<1>1. CASE \/ Refuse \/ Accept \/ Decoded \/ UnaryHandled \/ ContextProvided
           \/ HandlerResolves \/ Close \/ UNCHANGED vars
  BY <1>0, <1>1 DEF Refuse, Accept, Decoded, UnaryHandled, ContextProvided, HandlerResolves,
     Close, vars, routeVars, ErrorInHand
<1>2. CASE Fails \/ ResponseFails
  BY <1>0, <1>2 DEF Fails, ResponseFails, ErrorInHand
<1>3. CASE FailureSent \/ RouteThrows
  BY <1>0, <1>3 DEF FailureSent, RouteThrows, ErrorInHand
<1>4. ASSUME NEW e \in Errors, RejectWith(e), pc' = pc PROVE ErrorInHand'
  BY <1>0, <1>4 DEF RejectWith, ErrorInHand
<1>5. CASE OnReady
  BY <1>0, <1>4, <1>5 DEF OnReady, BreakProtocol, routeVars, ErrorInHand
<1>6. ASSUME NEW encodable \in BOOLEAN, OnMessage(encodable) PROVE ErrorInHand'
  BY <1>0, <1>4, <1>6 DEF OnMessage, BreakProtocol, routeVars, ErrorInHand
<1>7. CASE HandlerRejects
  BY <1>4, <1>7 DEF HandlerRejects, routeVars
<1>8. CASE SuccessTrailer
  BY <1>0, <1>4, <1>8 DEF SuccessTrailer, routeVars, ErrorInHand
<1>9. CASE StreamContinues
  BY <1>0, <1>9 DEF StreamContinues, StreamSucceeds, StreamFails, ErrorInHand
<1> QED
  BY <1>1, <1>2, <1>3, <1>5, <1>6, <1>7, <1>8, <1>9 DEF Next

LEMMA Induction == IInv /\ [Next]_vars => IInv'
BY NextType, NextSafe, NextErrorInHand DEF IInv, SafeInv

\* The body of a unary response.
LEMMA UnaryBody ==
  ASSUME wire \in {<<"message">>, <<"message", "ok">>, <<"message", "error">>}
  PROVE  /\ NoMessageAfterTrailer
         /\ HasError(wire) <=> wire = <<"message", "error">>
<1>1. CASE wire = <<"message">>
  <2>1. Len(wire) = 1 /\ wire[1] = "message"
    BY <1>1
  <2>2. wire /= <<"message", "error">>
    BY <1>1
  <2> QED
    BY <2>1, <2>2 DEF NoMessageAfterTrailer, HasError
<1>2. ASSUME NEW f \in Trailers, wire = <<"message", f>>
      PROVE  NoMessageAfterTrailer /\ (HasError(wire) <=> f = "error")
  <2>1. /\ Len(wire) = 2 /\ wire[1] = "message" /\ wire[2] = f
        /\ f /= "message"
    BY <1>2 DEF Trailers
  <2> HIDE <1>2
  <2>2. NoMessageAfterTrailer
    BY <2>1 DEF NoMessageAfterTrailer, Trailers
  <2>3. HasError(wire) <=> f = "error"
    BY <2>1 DEF HasError
  <2> QED
    BY <2>2, <2>3
<1>3. CASE wire = <<"message", "ok">>
  <2>1. wire /= <<"message", "error">>
    BY <1>3
  <2> QED
    BY <1>2, <1>3, <2>1 DEF Trailers
<1>4. CASE wire = <<"message", "error">>
  BY <1>2, <1>4 DEF Trailers
<1> QED
  BY <1>1, <1>3, <1>4

\* TypeOK is an invariant of the server.
THEOREM TypeCorrect == Spec => []TypeOK
<1>1. IInv => TypeOK
  BY DEF IInv
<1> QED
  BY <1>1, InitInv, Induction, PTL DEF Spec

\* No message follows trailers in the body, however long the handler goes on.
THEOREM TrailersAreLast == Spec => []NoMessageAfterTrailer
<1>1. IInv => NoMessageAfterTrailer
  <2> SUFFICES ASSUME IInv PROVE NoMessageAfterTrailer
    OBVIOUS
  <2>0. /\ NothingSentYet /\ UnaryIsWhole /\ StatusOnly /\ HandedOver
        /\ BodyWhileStreaming /\ BodyWhenDone
        /\ kind \in {"unary", "stream"} /\ wire \in Seq(Frames)
        /\ pc \in Early \union {"streaming", "failing", "thrown", "done"}
    BY DEF IInv, TypeOK, Frames, Early
  <2>1. CASE wire = <<>>
    BY <2>1 DEF NoMessageAfterTrailer
  <2>2. CASE pc = "streaming"
    BY <2>0, <2>2 DEF BodyWhileStreaming, NoMessageAfterTrailer, Trailers
  <2>3. CASE pc = "done" /\ http = "none" /\ kind = "unary"
    BY <2>0, <2>3, UnaryBody DEF UnaryIsWhole
  <2>4. CASE pc = "done" /\ http = "none" /\ kind = "stream"
    BY <2>0, <2>4 DEF BodyWhenDone
  <2>5. CASE pc \in {"failing", "thrown"}
    BY <2>0, <2>1, <2>5, UnaryBody DEF HandedOver
  <2> QED
    BY <2>0, <2>1, <2>2, <2>3, <2>4, <2>5 DEF NothingSentYet, StatusOnly
<1> QED
  BY <1>1, InitInv, Induction, PTL DEF Spec

\* A handler that keeps to the protocol has its call answered exactly once.
THEOREM AnsweredOnce == Spec => []OneAnswer
<1>1. IInv => OneAnswer
  <2> SUFFICES ASSUME IInv, ended, ~broke, pc = "done"
               PROVE  /\ lost = 0
                      /\ http = "none" => /\ wire /= <<>> /\ wire[Len(wire)] \in Trailers
                                          /\ \A i \in 1..(Len(wire) - 1) : wire[i] = "message"
                      /\ http /= "none" => wire = <<>>
                      /\ kind = "unary" /\ http = "none" =>
                           wire \in {<<"message", "ok">>, <<"message", "error">>}
    BY DEF OneAnswer
  <2>0. UnaryIsWhole /\ StatusOnly /\ BodyWhenDone /\ kind \in {"unary", "stream"}
        /\ http \in {"none", "refused", "error"}
    BY DEF IInv, TypeOK
  <2>1. lost = 0 /\ (http /= "none" => wire = <<>>)
    BY <2>0 DEF UnaryIsWhole, StatusOnly, BodyWhenDone
  <2>2. CASE kind = "unary" /\ http = "none"
    <3>1. wire \in {<<"message", "ok">>, <<"message", "error">>}
      BY <2>0, <2>2 DEF UnaryIsWhole
    <3>2. ASSUME NEW f \in Trailers, wire = <<"message", f>>
          PROVE  /\ wire /= <<>> /\ wire[Len(wire)] \in Trailers
                 /\ \A i \in 1..(Len(wire) - 1) : wire[i] = "message"
      BY <3>2
    <3>3. /\ wire /= <<>> /\ wire[Len(wire)] \in Trailers
          /\ \A i \in 1..(Len(wire) - 1) : wire[i] = "message"
      BY <3>1, <3>2 DEF Trailers
    <3> QED
      BY <2>1, <2>2, <3>1, <3>3
  <2>3. CASE kind = "stream" \/ http /= "none"
    BY <2>0, <2>1, <2>3 DEF BodyWhenDone
  <2> QED
    BY <2>0, <2>2, <2>3
<1> QED
  BY <1>1, InitInv, Induction, PTL DEF Spec

\* A call fails visibly for the client if and only if it was reported, and one that is
\* left open was reported.
THEOREM VisibleFailure == Spec => []FailureIsReported
<1>1. IInv => FailureIsReported
  <2>0. SUFFICES ASSUME IInv PROVE FailureIsReported
    OBVIOUS
  <2>1. /\ UnaryIsWhole /\ StatusOnly /\ BodyWhenDone /\ HandedOver
        /\ kind \in {"unary", "stream"}
        /\ http \in {"none", "refused", "error"}
    BY <2>0 DEF IInv, TypeOK
  <2>2. ASSUME pc = "done" PROVE reported > 0 <=> http = "error" \/ HasError(wire)
    <3>1. CASE http /= "none"
      BY <2>1, <3>1 DEF StatusOnly, HasError
    <3>2. CASE kind = "unary" /\ http = "none"
      <4>1. CASE wire = <<"message", "ok">> /\ reported = 0
        BY <3>2, <4>1, UnaryBody
      <4>2. CASE wire = <<"message", "error">> /\ reported > 0
        BY <3>2, <4>2, UnaryBody
      <4> QED
        BY <2>1, <2>2, <3>2, <4>1, <4>2 DEF UnaryIsWhole
    <3>3. CASE kind = "stream" /\ http = "none"
      BY <2>1, <2>2, <3>3 DEF BodyWhenDone
    <3> QED
      BY <2>1, <3>1, <3>2, <3>3
  <2>3. pc = "thrown" => reported > 0
    BY <2>1 DEF HandedOver
  <2> QED
    BY <2>2, <2>3 DEF FailureIsReported, HasError
<1> QED
  BY <1>1, InitInv, Induction, PTL DEF Spec

\* The message of an error of a stream does not keep it from being told.
THEOREM StreamFailuresAreTold == Spec => []StreamFailureIsTold
<1>1. IInv => StreamFailureIsTold
  BY DEF IInv, HandedOver, StreamFailureIsTold
<1> QED
  BY <1>1, InitInv, Induction, PTL DEF Spec

\* As long as a call is not answered, the route awaits a context or a handler, or can
\* go on, unless its error clause threw: the part of Answered that needs no fairness.
RouteGoesOn ==
  ~ended /\ pc /= "thrown" =>
    \/ pc \in {"received", "decoding", "handling", "providing"}
    \/ pc = "failing" /\ err \in Errors
    \/ pc = "streaming" /\ promise = "resolved"
    \/ pc = "streaming" /\ promise = "rejected" /\ err \in Errors
    \/ pc = "streaming" /\ handler \in {"running", "resolved"}

\* A handler of a stream cannot settle behind the back of the route.
THEOREM RouteIsNeverLeft == Spec => []RouteGoesOn
<1>1. IInv => RouteGoesOn
  BY DEF IInv, TypeOK, EndedWhenDone, BodyWhileStreaming, PromiseFollowsHandler, ErrorInHand,
     UnaryIsWhole, RouteGoesOn
<1> QED
  BY <1>1, InitInv, Induction, PTL DEF Spec
=============================================================================
