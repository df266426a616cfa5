------------------------ MODULE GrpcWebStreamProofs ------------------------
(***************************************************************************)
(* Proofs about GrpcWebStream, for every value of its constants: the type  *)
(* invariant, the safety invariants, the finality of a settled stream and  *)
(* the refinement of StreamContract.  All of them rest on the inductive    *)
(* invariant IInv.                                                         *)
(***************************************************************************)
EXTENDS GrpcWebStream, SequenceTheorems, TLAPS

\* Before the request context is settled nothing has happened yet.
ContextFirst ==
  /\ reqCtx = "pending" => /\ transport = "created"
                           /\ state \in {"waitingForRequest", "canceled"}
                           /\ emitted["error"] = 0
  /\ transport \in {"none", "created"} => headers = "none"
  /\ headers = "none" => arrived = 0 /\ pending = <<>>

\* No data before the headers are decoded.
HeadersFirst ==
  headers /= "settled" => /\ state \notin {"ready", "trailersReceived", "complete"}
                          /\ run = "idle"
                          /\ delivered = <<>>
                          /\ emitted["ready"] = 0
                          /\ emitted["complete"] = 0

\* What the state says of the transport.
StateOfTransport ==
  /\ state = "initial" => reqCtx = "none" /\ transport = "none" /\ emitted["error"] = 0
  /\ state = "waitingForRequest" => transport = "created"
  /\ state = "started" => transport \in {"open", "canceled"}
  /\ state \in {"complete", "endedBeforeReady"} => transport = "ended"
  /\ run = "flushEnd" => transport = "ended"

\* The frames of a running loop are the last ones that arrived.
WorkIsSuffix ==
  /\ run = "idle" => work = <<>> /\ inListener = FALSE
  /\ run /= "idle" => state \in {"ready", "canceled", "error", "trailersReceived",
                                 "complete"}
  /\ Len(work) <= arrived
  /\ \A i \in 1..Len(work) : work[i] = arrived - Len(work) + i
  /\ state = "trailersReceived" => /\ work = <<>>
                                   /\ arrived = LastFrame
                                   /\ response.trailer = "ok"

\* Until the stream is ready, pendingChunkBytes holds everything that arrived.
PendingIsAll ==
  state \in {"started", "endedBeforeReady"} =>
    /\ Len(pending) = arrived
    /\ \A i \in 1..Len(pending) : pending[i] = i

\* Where the messages emitted end: right before the frames of the loop.
DeliveredUpTo ==
  /\ \A i \in 1..Len(delivered) :
       delivered[i] <= arrived - Len(work) /\ delivered[i] <= response.count
  /\ ~threw /\ (run /= "idle" \/ state \in {"ready", "trailersReceived", "complete"}) =>
       Len(delivered) = IF arrived - Len(work) <= response.count
                        THEN arrived - Len(work) ELSE response.count

\* 'ready' comes once, and before any message.
ReadyOnce ==
  /\ emitted["ready"] <= 1
  /\ \/ run /= "idle"
     \/ state \in {"ready", "trailersReceived", "complete"}
     \/ delivered /= <<>>
     => emitted["ready"] = 1
  /\ emitted["ready"] = 1 =>
       state \notin {"initial", "waitingForRequest", "started", "endedBeforeReady"}

\* Nothing is left to do once 'complete' was emitted.
CompleteIsLast ==
  /\ state = "complete" => emitted["complete"] > 0
  /\ emitted["complete"] > 0 => /\ state \in {"complete", "canceled"}
                                /\ transport = "ended"
                                /\ work = <<>>
                                /\ run \in {"idle", "flush"}

\* No data after an error, unless something threw.
ErrorIsLast ==
  emitted["error"] > 0 /\ ~threw =>
    /\ work = <<>>
    /\ state \notin {"trailersReceived", "complete"}
    /\ state \in {"started", "endedBeforeReady"} => headers = "settled"
    /\ state = "ready" => transport = "ended"
    /\ emitted["complete"] = 0

IInv ==
  /\ TypeOK
  /\ ContextFirst
  /\ HeadersFirst
  /\ StateOfTransport
  /\ WorkIsSuffix
  /\ PendingIsAll
  /\ DeliveredUpTo
  /\ MessagesInOrder
  /\ ReadyOnce
  /\ CompleteIsLast
  /\ CompleteIsWhole
  /\ CompleteExcludesError
  /\ ErrorIsLast

-----------------------------------------------------------------------------
LEMMA FramesFromFacts ==
  ASSUME NEW a \in Nat, NEW k \in Nat
  PROVE  /\ FramesFrom(a, k) \in Seq(Nat)
         /\ Len(FramesFrom(a, k)) = k
         /\ \A i \in 1..k : FramesFrom(a, k)[i] = a + i
<1>1. \A i \in 1..k : a + i \in Nat
  OBVIOUS
<1>2. FramesFrom(a, k) \in [1..k -> Nat]
  BY ONLY <1>1 DEF FramesFrom
<1>3. FramesFrom(a, k) \in Seq(Nat)
  BY ONLY <1>2, k \in Nat, SeqDef
<1>4. DOMAIN FramesFrom(a, k) = 1..k
  BY <1>2
<1>5. Len(FramesFrom(a, k)) = k
  BY <1>3, <1>4
<1> QED
  BY <1>3, <1>5 DEF FramesFrom

LEMMA TailFacts ==
  ASSUME NEW s \in Seq(Nat), s /= <<>>
  PROVE  /\ Len(s) > 0 /\ Head(s) = s[1]
         /\ Tail(s) \in Seq(Nat) /\ Len(Tail(s)) = Len(s) - 1
         /\ \A i \in 1..Len(Tail(s)) : Tail(s)[i] = s[i + 1]
OBVIOUS

LEMMA AppendFacts ==
  ASSUME NEW s \in Seq(Nat), NEW x \in Nat
  PROVE  /\ Len(Append(s, x)) = Len(s) + 1
         /\ \A i \in 1..Len(s) : Append(s, x)[i] = s[i]
         /\ Append(s, x)[Len(s) + 1] = x
OBVIOUS

LEMMA ConcatFacts ==
  ASSUME NEW s \in Seq(Nat), NEW t \in Seq(Nat)
  PROVE  /\ Len(s \o t) = Len(s) + Len(t)
         /\ \A i \in 1..Len(s) : (s \o t)[i] = s[i]
         /\ \A i \in 1..Len(t) : (s \o t)[Len(s) + i] = t[i]
OBVIOUS

LEMMA ResponseType ==
  ASSUME response \in Responses
  PROVE  response.count \in Nat /\ LastFrame \in Nat /\ LastFrame = response.count + 1
BY BoundsAssumption DEF Responses, LastFrame

LEMMA TypeStep == TypeOK /\ [Next]_vars => TypeOK'
<1> SUFFICES ASSUME TypeOK, [Next]_vars PROVE TypeOK'
  OBVIOUS
<1> USE ResponseType DEF TypeOK, States, Emit
<1>1. ASSUME response' = response PROVE LastFrame' = LastFrame
  BY <1>1 DEF LastFrame
<1>2. ASSUME NEW event \in Events, Emit(event)
      PROVE  emitted' \in [Events -> Nat]
  BY <1>2
<1>3. {"ready", "error", "complete", "canceled"} = Events
  BY DEF Events
<1>4. CASE Start
  BY <1>1, <1>2, <1>3, <1>4 DEF Start
<1>5. CASE ContextSettles
  BY <1>1, <1>2, <1>3, <1>5 DEF ContextSettles, ContextProvided, ContextRejected
<1>6. CASE OnHeaders
  BY <1>1, <1>6 DEF OnHeaders
<1>7. CASE HeadersSettle
  <2>1. CASE HeadersDecoded /\ Ready
    <3>1. UNCHANGED <<transport, reqCtx, response, arrived, pending, delivered, threw>>
      BY <2>1 DEF HeadersDecoded
    <3>2. emitted' \in [Events -> Nat]
      BY <1>2, <1>3, <2>1 DEF Ready
    <3>3. work' \in Seq(Nat) /\ state' \in States /\ run' \in {"flush", "flushEnd"}
      BY <2>1 DEF Ready
    <3>4. headers' = "settled" /\ inListener' \in BOOLEAN
      BY <2>1 DEF HeadersDecoded, Ready
    <3> QED
      BY ONLY TypeOK, <1>1, <3>1, <3>2, <3>3, <3>4 DEF TypeOK
  <2>2. CASE HeadersDecoded /\ ~Ready
    BY <1>1, <2>2 DEF HeadersDecoded
  <2>3. CASE HeadersRejected
    BY <1>1, <1>2, <1>3, <2>3 DEF HeadersRejected
  <2> QED
    BY <1>7, <2>1, <2>2, <2>3 DEF HeadersSettle
<1>8. ASSUME NEW k \in 1..LastFrame, OnChunk(k) PROVE TypeOK'
  <2>1. FramesFrom(arrived, k) \in Seq(Nat)
    <3>1. k \in Nat /\ arrived \in Nat
      OBVIOUS
    <3>2. \A i \in 1..k : arrived + i \in Nat
      BY <3>1
    <3> QED
      BY ONLY <3>1, <3>2, SeqDef DEF FramesFrom
  <2>2. pending \o FramesFrom(arrived, k) \in Seq(Nat)
    BY <2>1
  <2>3. arrived' \in 0..LastFrame'
    BY <1>1, <1>8 DEF OnChunk
  <2>4. pending' \in Seq(Nat) /\ work' \in Seq(Nat)
    BY <1>8, <2>1, <2>2 DEF OnChunk
  <2> QED
    BY <1>8, <2>3, <2>4 DEF OnChunk
<1>9. CASE RunStep
  <2>1. CASE ProcessMessage
    BY <1>1, <2>1 DEF ProcessMessage
  <2>2. CASE ProcessTrailers
    <3>1. emitted' \in [Events -> Nat]
      BY <1>2, <1>3, <2>2 DEF ProcessTrailers
    <3>2. work' \in Seq(Nat)
      BY <2>2 DEF ProcessTrailers
    <3>4. state' \in States /\ inListener' \in BOOLEAN
      BY <2>2 DEF ProcessTrailers
    <3>3. UNCHANGED <<transport, reqCtx, headers, response, arrived, pending, run,
                      delivered, threw>>
      BY <2>2 DEF ProcessTrailers
    <3> QED
      BY ONLY TypeOK, <1>1, <3>1, <3>2, <3>3, <3>4 DEF TypeOK
  <2>3. CASE RunEnds
    BY <1>1, <1>2, <1>3, <2>3 DEF RunEnds, End
  <2>4. CASE RunThrows
    <3>1. emitted' \in [Events -> Nat]
      BY <1>2, <1>3, <2>4 DEF RunThrows
    <3>2. work' \in Seq(Nat)
      BY <2>4 DEF RunThrows
    <3>4. threw' \in BOOLEAN /\ inListener' \in BOOLEAN
      BY <2>4 DEF RunThrows
    <3>3. UNCHANGED <<state, transport, reqCtx, headers, response, arrived, pending,
                      delivered>> /\ run' = "idle"
      BY <2>4 DEF RunThrows
    <3> QED
      BY ONLY TypeOK, <1>1, <3>1, <3>2, <3>3, <3>4 DEF TypeOK
  <2> QED
    BY <1>9, <2>1, <2>2, <2>3, <2>4 DEF RunStep
<1>10. CASE TransportEnds
  BY <1>1, <1>2, <1>3, <1>10 DEF TransportEnds, OnEndWithError, OnEnd, End
<1>11. CASE Cancel
  BY <1>1, <1>2, <1>3, <1>11 DEF Cancel
<1>12. CASE UNCHANGED vars
  BY <1>1, <1>12 DEF vars
<1> QED
  BY <1>4, <1>5, <1>6, <1>7, <1>8, <1>9, <1>10, <1>11, <1>12 DEF Next

LEMMA InitIInv == Init => IInv
<1> SUFFICES ASSUME Init PROVE IInv
  OBVIOUS
<1>1. response.count \in Nat /\ Len(work) = 0 /\ Len(delivered) = 0 /\ Len(pending) = 0
  BY ResponseType DEF Init
<1>2. TypeOK
  <2>1. emitted \in [Events -> Nat]
    BY DEF Init, Events
  <2>2. arrived \in 0..LastFrame
    BY <1>1 DEF Init, LastFrame
  <2>3. pending \in Seq(Nat) /\ work \in Seq(Nat) /\ delivered \in Seq(Nat)
    BY DEF Init
  <2>4. inListener \in BOOLEAN /\ threw \in BOOLEAN
    BY DEF Init
  <2>5. /\ state \in States /\ response \in Responses /\ transport = "none"
        /\ reqCtx = "none" /\ headers = "none" /\ run = "idle"
    BY DEF Init, States
  <2> QED
    BY ONLY <2>1, <2>2, <2>3, <2>4, <2>5 DEF TypeOK
<1> QED
  BY <1>1, <1>2 DEF Init, IInv, Events, ContextFirst, HeadersFirst, StateOfTransport, WorkIsSuffix,
     PendingIsAll, DeliveredUpTo, MessagesInOrder, ReadyOnce, CompleteIsLast, CompleteIsWhole,
     CompleteExcludesError, ErrorIsLast

LEMMA StepIInv == IInv /\ [Next]_vars => IInv'
<1> SUFFICES ASSUME IInv, [Next]_vars PROVE IInv'
  OBVIOUS
<1> USE ResponseType, BoundsAssumption DEF IInv, TypeOK, States, Events, LastFrame, Emit, Idle, ContextFirst, HeadersFirst, StateOfTransport, WorkIsSuffix, PendingIsAll, DeliveredUpTo, MessagesInOrder, ReadyOnce, CompleteIsLast, CompleteIsWhole, CompleteExcludesError, ErrorIsLast
<1>0. TypeOK'
  BY ONLY IInv, [Next]_vars, TypeStep DEF IInv
<1>a. delivered \in Seq(Nat) /\ arrived \in Nat /\ Len(work) \in Nat
  OBVIOUS
<1>b. \A i \in 1..Len(delivered) : /\ delivered[i] \in Nat
                                  /\ delivered[i] <= arrived - Len(work)
                                  /\ delivered[i] <= response.count
  <2>1. DeliveredUpTo
    BY ONLY IInv DEF IInv
  <2> QED
    BY ONLY <1>a, <2>1 DEF DeliveredUpTo
<1>1. CASE Start
  BY <1>0, <1>1 DEF Start
<1>2. CASE ContextProvided
  BY <1>0, <1>2 DEF ContextProvided
<1>3. CASE ContextRejected
  BY <1>0, <1>3 DEF ContextRejected
<1>4. CASE OnHeaders
  BY <1>0, <1>4 DEF OnHeaders, CanCallBack
<1>5. CASE HeadersDecoded
  BY <1>0, <1>5, SMTT(30) DEF HeadersDecoded, Ready
<1>6. CASE HeadersRejected
  BY <1>0, <1>6 DEF HeadersRejected
<1>7. ASSUME NEW k \in 1..LastFrame, OnChunk(k) PROVE IInv'
  <2> DEFINE F == FramesFrom(arrived, k)
  <2>a. arrived \in Nat /\ k \in Nat /\ k > 0
    OBVIOUS
  <2>b. F \in Seq(Nat) /\ Len(F) = k /\ \A i \in 1..k : F[i] = arrived + i
    BY ONLY <2>a, FramesFromFacts
  <2>c. \/ UNCHANGED <<pending, work, run>> /\ state \in {"canceled", "error"}
        \/ UNCHANGED pending /\ work' = F /\ run' = "chunk" /\ state = "ready"
        \/ UNCHANGED <<work, run>> /\ state = "started" /\ pending' = pending \o F
    BY <1>7 DEF OnChunk
  <2> HIDE DEF F
  <2>d. state = "started" => /\ Len(pending') = Len(pending) + k
                             /\ \A i \in 1..Len(pending) : pending'[i] = pending[i]
                             /\ \A i \in 1..k : pending'[Len(pending) + i] = F[i]
    <3>1. /\ Len(pending \o F) = Len(pending) + k
          /\ \A i \in 1..Len(pending) : (pending \o F)[i] = pending[i]
          /\ \A i \in 1..k : (pending \o F)[Len(pending) + i] = F[i]
      BY ONLY <2>b, pending \in Seq(Nat), ConcatFacts
    <3>2. state = "started" => pending' = pending \o F
      BY ONLY <2>c
    <3> QED
      BY ONLY <3>1, <3>2
  <2>e. state = "started" => \A i \in 1..Len(pending') : pending'[i] = i
    <3> SUFFICES ASSUME state = "started", NEW i \in 1..Len(pending') PROVE pending'[i] = i
      OBVIOUS
    <3>1. CASE i <= Len(pending)
      BY <2>d, <3>1
    <3>2. CASE i > Len(pending)
      <4>1. i - Len(pending) \in 1..k
        BY <2>d, <3>2, SMTT(30)
      <4>2. pending'[Len(pending) + (i - Len(pending))] = F[i - Len(pending)]
        BY <2>d, <4>1
      <4>3. Len(pending) = arrived
        OBVIOUS
      <4> QED
        BY ONLY <2>a, <2>b, <4>1, <4>2, <4>3, i \in Int
    <3> QED
      BY <3>1, <3>2
  <2>1. ContextFirst'
    BY <1>7, <2>a, <2>b, <2>c, <2>d, <2>e DEF OnChunk, CanReceive, CanCallBack
  <2>2. HeadersFirst'
    BY <1>7, <2>a, <2>b, <2>c, <2>d, <2>e DEF OnChunk, CanReceive, CanCallBack
  <2>3. StateOfTransport'
    BY <1>7, <2>a, <2>b, <2>c, <2>d, <2>e DEF OnChunk, CanReceive, CanCallBack
  <2>4. WorkIsSuffix'
    <3>1. CASE UNCHANGED <<pending, work, run>>
      BY <1>7, <3>1 DEF OnChunk, CanReceive, CanCallBack
    <3>2. CASE UNCHANGED pending /\ work' = F /\ run' = "chunk" /\ state = "ready"
      <4>1. Len(work') = k /\ \A i \in 1..k : work'[i] = arrived + i
        BY ONLY <2>b, <3>2
      <4>2. arrived' = arrived + k /\ inListener' = inListener /\ state' = "ready"
        BY <1>7, <3>2 DEF OnChunk
      <4>3. arrived' - Len(work') = arrived
        BY ONLY <2>a, <4>1, <4>2
      <4>4. \A i \in 1..Len(work') : work'[i] = arrived' - Len(work') + i
        BY ONLY <4>1, <4>3
      <4> QED
        BY ONLY <2>a, <3>2, <4>1, <4>2, <4>4 DEF WorkIsSuffix
    <3>3. CASE UNCHANGED <<work, run>> /\ state = "started"
      BY <1>7, <3>3 DEF OnChunk, CanReceive, CanCallBack
    <3> QED
      BY <2>c, <3>1, <3>2, <3>3
  <2>5. PendingIsAll'
    BY <1>7, <2>a, <2>b, <2>c, <2>d, <2>e DEF OnChunk, CanReceive, CanCallBack
  <2>6. DeliveredUpTo'
    <3>1. UNCHANGED <<state, response, delivered, threw>> /\ arrived' = arrived + k
      BY <1>7 DEF OnChunk
    <3>2. run = "idle" /\ work = <<>> /\ Len(work) = 0
      BY <1>7 DEF OnChunk, CanReceive, CanCallBack
    <3>3. CASE state = "ready"
      <4>1. Len(work') = k
        BY <2>b, <2>c, <3>3
      <4>2. arrived' - Len(work') = arrived - Len(work)
        BY ONLY <2>a, <3>1, <3>2, <4>1
      <4> QED
        BY <3>1, <3>3, <4>2
    <3>4. CASE state /= "ready"
      <4>1. state \in {"canceled", "error", "started"} /\ UNCHANGED <<work, run>>
        BY <2>c, <3>4
      <4>2. arrived <= arrived'
        BY ONLY <2>a, <3>1
      <4> QED
        BY <3>1, <3>2, <4>1, <4>2, SMTT(30)
    <3> QED
      BY <3>3, <3>4
  <2>7. MessagesInOrder'
    BY <1>7, <2>a, <2>b, <2>c, <2>d, <2>e DEF OnChunk, CanReceive, CanCallBack
  <2>8. ReadyOnce'
    BY <1>7, <2>a, <2>b, <2>c, <2>d, <2>e DEF OnChunk, CanReceive, CanCallBack
  <2>9. CompleteIsLast'
    BY <1>7, <2>a, <2>b, <2>c, <2>d, <2>e DEF OnChunk, CanReceive, CanCallBack
  <2>10. CompleteIsWhole'
    BY <1>7, <2>a, <2>b, <2>c, <2>d, <2>e DEF OnChunk, CanReceive, CanCallBack
  <2>11. CompleteExcludesError'
    BY <1>7, <2>a, <2>b, <2>c, <2>d, <2>e DEF OnChunk, CanReceive, CanCallBack
  <2>12. ErrorIsLast'
    BY <1>7, <2>a, <2>b, <2>c, <2>d, <2>e DEF OnChunk, CanReceive, CanCallBack
  <2> QED
    BY ONLY <1>0, <2>1, <2>2, <2>3, <2>4, <2>5, <2>6, <2>7, <2>8, <2>9, <2>10, <2>11, <2>12 DEF IInv
<1>8. CASE ProcessMessage
  <2>a. work /= <<>>
    BY <1>8 DEF ProcessMessage
  <2>b. /\ Len(work) > 0 /\ Head(work) = work[1] /\ Head(work) \in Nat
        /\ Len(work') = Len(work) - 1
        /\ \A i \in 1..Len(work') : work'[i] = work[i + 1]
    BY <1>8, <2>a, TailFacts DEF ProcessMessage
  <2>c. /\ Len(delivered') = Len(delivered) + 1
        /\ \A i \in 1..Len(delivered) : delivered'[i] = delivered[i]
        /\ delivered'[Len(delivered) + 1] = Head(work)
    BY <1>8, <2>b, AppendFacts DEF ProcessMessage
  <2>d. /\ UNCHANGED <<state, response, arrived, run, threw>> /\ run /= "idle"
        /\ Head(work) = arrived - Len(work) + 1 /\ arrived' - Len(work') = Head(work)
        /\ Head(work) <= response.count /\ Head(work) >= 1
    BY <1>8, <2>b DEF ProcessMessage
  <2>e. \A i \in 1..Len(delivered) : delivered[i] \in Nat /\ delivered[i] < Head(work)
    BY ONLY <1>a, <1>b, <2>d
  <2>f. ~threw => Len(delivered) = Head(work) - 1
    <3>1. ~threw => Len(delivered) = IF arrived - Len(work) <= response.count
                                     THEN arrived - Len(work) ELSE response.count
      BY <2>d
    <3>2. arrived \in Int /\ Len(work) \in Int /\ response.count \in Int
      OBVIOUS
    <3> QED
      BY ONLY <2>d, <3>1, <3>2
  <2>g. /\ Len(delivered) \in Nat /\ Head(work) \in Nat /\ response.count \in Nat
    BY <2>b
  <2>h. ~threw' => ~threw
    BY <2>d
  <2>1. ContextFirst'
    BY <1>8, <2>b, <2>d DEF ProcessMessage
  <2>2. HeadersFirst'
    BY <1>8, <2>b, <2>d DEF ProcessMessage
  <2>3. StateOfTransport'
    BY <1>8, <2>b, <2>d DEF ProcessMessage
  <2>4. WorkIsSuffix'
    BY <1>8, <2>b, <2>d, SMTT(30) DEF ProcessMessage
  <2>5. PendingIsAll'
    BY <1>8, <2>b, <2>d DEF ProcessMessage
  <2>6. DeliveredUpTo'
    <3>1. \A i \in 1..Len(delivered') : /\ delivered'[i] <= arrived' - Len(work')
                                       /\ delivered'[i] <= response'.count
      BY ONLY <2>c, <2>d, <2>e, <2>g
    <3>2. ~threw' => Len(delivered') = Head(work)
      BY ONLY <2>c, <2>f, <2>g, <2>h
    <3>3. arrived' - Len(work') <= response'.count /\ arrived' - Len(work') = Head(work)
      BY ONLY <2>d, <2>g
    <3> QED
      BY ONLY <3>1, <3>2, <3>3 DEF DeliveredUpTo
  <2>7. MessagesInOrder'
    <3>1. ASSUME NEW i \in 1..Len(delivered)
          PROVE  /\ ~threw => delivered[i] = i
                 /\ i > 1 => delivered[i - 1] < delivered[i]
                 /\ delivered[i] \in 1..response.count
      OBVIOUS
    <3> SUFFICES ASSUME NEW i \in 1..Len(delivered')
                 PROVE  /\ ~threw' => delivered'[i] = i
                        /\ i > 1 => delivered'[i - 1] < delivered'[i]
                        /\ delivered'[i] \in 1..response'.count
      BY <2>d
    <3>2. CASE i \in 1..Len(delivered)
      <4>1. i > 1 => i - 1 \in 1..Len(delivered)
        BY ONLY <2>g, <3>2
      <4> QED
        BY ONLY <2>c, <2>d, <2>h, <3>1, <3>2, <4>1
    <3>3. CASE i = Len(delivered) + 1
      <4>1. i > 1 => i - 1 \in 1..Len(delivered)
        BY ONLY <2>g, <3>3
      <4> QED
        BY ONLY <2>c, <2>d, <2>e, <2>f, <2>g, <2>h, <3>3, <4>1
    <3> QED
      BY ONLY <2>c, <2>g, <3>2, <3>3
  <2>8. ReadyOnce'
    BY <1>8, <2>b, <2>d DEF ProcessMessage
  <2>9. CompleteIsLast'
    BY <1>8, <2>b, <2>d DEF ProcessMessage
  <2>10. CompleteIsWhole'
    BY <1>8, <2>b, <2>d DEF ProcessMessage
  <2>11. CompleteExcludesError'
    BY <1>8, <2>b, <2>d DEF ProcessMessage
  <2>12. ErrorIsLast'
    BY <1>8, <2>b, <2>d DEF ProcessMessage
  <2> QED
    BY ONLY <1>0, <2>1, <2>2, <2>3, <2>4, <2>5, <2>6, <2>7, <2>8, <2>9, <2>10, <2>11, <2>12 DEF IInv
<1>9. CASE ProcessTrailers
  <2>a. work /= <<>>
    BY <1>9 DEF ProcessTrailers
  <2>b. /\ Len(work) > 0 /\ Head(work) = work[1]
        /\ Len(work') = Len(work) - 1
        /\ \A i \in 1..Len(work') : work'[i] = work[i + 1]
    BY <1>9, <2>a, TailFacts DEF ProcessTrailers
  <2>c. /\ UNCHANGED <<response, arrived, run, threw, delivered>> /\ run /= "idle"
        /\ arrived - Len(work) = response.count /\ arrived' - Len(work') = response.count + 1
    BY <1>9, <2>b, SMTT(30) DEF ProcessTrailers
  <2>d. ~threw => Len(delivered) = response.count
    BY <2>c
  <2>1. ContextFirst'
    BY <1>9, <2>b, <2>c DEF ProcessTrailers
  <2>2. HeadersFirst'
    BY <1>9, <2>b, <2>c DEF ProcessTrailers
  <2>3. StateOfTransport'
    BY <1>9, <2>b, <2>c DEF ProcessTrailers
  <2>4. WorkIsSuffix'
    BY <1>9, <2>b, <2>c, SMTT(30) DEF ProcessTrailers
  <2>5. PendingIsAll'
    BY <1>9, <2>b, <2>c DEF ProcessTrailers
  <2>6. DeliveredUpTo'
    BY <2>b, <2>c, <2>d, SMTT(30)
  <2>7. MessagesInOrder'
    BY <1>9, <2>b, <2>c DEF ProcessTrailers
  <2>8. ReadyOnce'
    BY <1>9, <2>b, <2>c DEF ProcessTrailers
  <2>9. CompleteIsLast'
    BY <1>9, <2>b, <2>c DEF ProcessTrailers
  <2>10. CompleteIsWhole'
    BY <1>9, <2>b, <2>c DEF ProcessTrailers
  <2>11. CompleteExcludesError'
    BY <1>9, <2>b, <2>c DEF ProcessTrailers
  <2>12. ErrorIsLast'
    BY <1>9, <2>b, <2>c, SMTT(30) DEF ProcessTrailers
  <2> QED
    BY ONLY <1>0, <2>1, <2>2, <2>3, <2>4, <2>5, <2>6, <2>7, <2>8, <2>9, <2>10, <2>11, <2>12 DEF IInv
<1>10. CASE RunEnds
  BY <1>0, <1>10 DEF RunEnds, End
<1>11. CASE RunThrows
  <2>1. ContextFirst'
    BY <1>11 DEF RunThrows
  <2>2. HeadersFirst'
    BY <1>11 DEF RunThrows
  <2>3. StateOfTransport'
    BY <1>11 DEF RunThrows
  <2>4. WorkIsSuffix'
    BY <1>11 DEF RunThrows
  <2>5. PendingIsAll'
    BY <1>11 DEF RunThrows
  <2>6. DeliveredUpTo'
    <3>1. Len(work') = 0 /\ UNCHANGED <<arrived, response, delivered>>
      BY <1>11 DEF RunThrows
    <3>2. threw'
      BY <1>11 DEF RunThrows
    <3>3. \A i \in 1..Len(delivered) : delivered[i] <= arrived /\ delivered[i] <= response.count
      BY ONLY <1>a, <1>b
    <3> QED
      BY ONLY <3>1, <3>2, <3>3, arrived \in Int DEF DeliveredUpTo
  <2>7. MessagesInOrder'
    BY <1>11 DEF RunThrows
  <2>8. ReadyOnce'
    BY <1>11 DEF RunThrows
  <2>9. CompleteIsLast'
    BY <1>11 DEF RunThrows
  <2>10. CompleteIsWhole'
    BY <1>11 DEF RunThrows
  <2>11. CompleteExcludesError'
    BY <1>11 DEF RunThrows
  <2>12. ErrorIsLast'
    BY <1>11 DEF RunThrows
  <2> QED
    BY ONLY <1>0, <2>1, <2>2, <2>3, <2>4, <2>5, <2>6, <2>7, <2>8, <2>9, <2>10, <2>11, <2>12 DEF IInv
<1>12. CASE OnEndWithError
  BY <1>0, <1>12 DEF OnEndWithError, CanCallBack
<1>13. CASE OnEnd
  BY <1>0, <1>13 DEF OnEnd, End, CanCallBack
<1>14. CASE Cancel
  BY <1>0, <1>14 DEF Cancel
<1>15. CASE UNCHANGED vars
  BY <1>0, <1>15 DEF vars
<1> QED
  BY ONLY [Next]_vars, <1>1, <1>2, <1>3, <1>4, <1>5, <1>6, <1>7, <1>8, <1>9, <1>10, <1>11, <1>12, <1>13, <1>14, <1>15 DEF Next, ContextSettles, HeadersSettle, RunStep, TransportEnds, LastFrame

\* The contract of StreamContract, as the refinement mapping states it.
LEMMA ContractStep ==
  ASSUME IInv, IInv', ~threw, ~threw', [Next]_vars
  PROVE  [Contract!Step]_(Contract!streamVars)
<1> USE ResponseType DEF Contract!Step, Contract!streamVars, ContractPhase, Emit, Idle
<1>a. /\ emitted["ready"] \in Nat /\ emitted["error"] \in Nat /\ emitted["complete"] \in Nat
      /\ emitted["canceled"] \in Nat /\ DOMAIN emitted = Events
      /\ response.count \in Nat /\ delivered \in Seq(Nat)
  BY DEF IInv, TypeOK, Events
<1>b. HeadersFirst /\ StateOfTransport /\ ReadyOnce /\ CompleteIsLast /\ ErrorIsLast
      /\ WorkIsSuffix /\ DeliveredUpTo /\ ContextFirst
  BY DEF IInv
<1>1. CASE /\ UNCHANGED <<response, delivered>>
           /\ emitted' = emitted \/ Emit("canceled") \/ (emitted["error"] > 0 /\ Emit("error"))
  BY <1>1, <1>a DEF Events
<1>2. ASSUME UNCHANGED <<response, delivered>>, Emit("error"), emitted["complete"] = 0
      PROVE  Contract!Fail \/ UNCHANGED Contract!streamVars
  BY <1>2, <1>a DEF Contract!Fail, Events
<1>3. CASE Start
  <2>1. emitted["complete"] = 0
    BY <1>3, <1>a, <1>b DEF Start, CompleteIsLast
  <2> QED
    BY <1>1, <1>2, <1>3, <2>1 DEF Start
<1>4. CASE ContextSettles
  BY <1>1, <1>2, <1>4, <1>b DEF ContextSettles, ContextProvided, ContextRejected, ContextFirst, HeadersFirst
<1>5. CASE OnHeaders
  BY <1>1, <1>5 DEF OnHeaders
<1>6. CASE HeadersDecoded
  <2>1. CASE Ready
    <3>1. UNCHANGED <<response, delivered>> /\ emitted["ready"] = 0 /\ emitted["complete"] = 0
      BY <1>6, <1>b DEF HeadersDecoded, HeadersFirst
    <3>2. emitted["error"] = 0
      BY <1>6, <1>a, <1>b, <2>1 DEF HeadersDecoded, Ready, ErrorIsLast
    <3> QED
      BY <1>a, <2>1, <3>1, <3>2 DEF Ready, Contract!BecomeReady, Events
  <2>2. CASE ~Ready
    BY <1>1, <1>6, <2>2 DEF HeadersDecoded
  <2> QED
    BY <2>1, <2>2
<1>7. CASE HeadersRejected
  BY <1>1, <1>2, <1>7, <1>b DEF HeadersRejected, HeadersFirst
<1>8. ASSUME NEW k \in 1..LastFrame, OnChunk(k) PROVE [Contract!Step]_(Contract!streamVars)
  BY <1>1, <1>8 DEF OnChunk
<1>9. CASE ProcessMessage
  <2>1. work /= <<>> /\ run /= "idle" /\ UNCHANGED <<response, emitted>>
    BY <1>9, <1>b DEF ProcessMessage, WorkIsSuffix
  <2>2. emitted["ready"] = 1 /\ emitted["error"] = 0 /\ emitted["complete"] = 0
    BY <1>a, <1>b, <2>1 DEF ReadyOnce, ErrorIsLast, CompleteIsLast
  <2>3. Len(delivered') = Len(delivered) + 1
    BY <1>9, <1>a DEF ProcessMessage, IInv, TypeOK
  <2>4. Len(delivered') <= response.count
    <3>1. DeliveredUpTo' /\ run' /= "idle" /\ work' \in Seq(Nat) /\ arrived' \in Nat
      BY <1>9, <2>1 DEF ProcessMessage, IInv, TypeOK
    <3>2. Len(delivered') = IF arrived' - Len(work') <= response.count
                            THEN arrived' - Len(work') ELSE response.count
      BY <2>1, <3>1 DEF DeliveredUpTo
    <3> QED
      BY <1>a, <3>1, <3>2
  <2> QED
    BY <1>a, <2>1, <2>2, <2>3, <2>4 DEF Contract!EmitMessage
<1>10. CASE ProcessTrailers
  <2>1. emitted["complete"] = 0
    BY <1>10, <1>a, <1>b DEF ProcessTrailers, CompleteIsLast
  <2> QED
    BY <1>1, <1>2, <1>10, <2>1 DEF ProcessTrailers
<1>11. ASSUME End, UNCHANGED <<response, delivered, arrived>>, work = <<>>,
              state \in {"complete", "canceled"} => emitted["complete"] = 0
       PROVE  [Contract!Step]_(Contract!streamVars)
  <2>1. CASE state = "trailersReceived"
    <3>1. emitted["ready"] = 1 /\ emitted["error"] = 0 /\ emitted["complete"] = 0
      BY <1>a, <1>b, <2>1 DEF ReadyOnce, ErrorIsLast, CompleteIsLast
    <3>2. Emit("complete")
      BY <1>11, <2>1 DEF End
    <3>3. Len(delivered) = response.count
      <4>1. arrived = response.count + 1 /\ Len(work) = 0
        BY <1>b, <1>11, <2>1 DEF WorkIsSuffix, LastFrame
      <4>2. Len(delivered) = IF arrived - Len(work) <= response.count
                             THEN arrived - Len(work) ELSE response.count
        BY <1>b, <2>1 DEF DeliveredUpTo
      <4> QED
        BY <1>a, <4>1, <4>2
    <3> QED
      BY <1>a, <1>11, <3>1, <3>2, <3>3 DEF Contract!Complete, Events
  <2>2. CASE state /= "trailersReceived"
    <3>1. emitted["complete"] = 0 \/ state = "error"
      BY <1>a, <1>b, <1>11, <2>2 DEF CompleteIsLast
    <3> QED
      BY <1>1, <1>2, <1>11, <2>2, <3>1 DEF End
  <2> QED
    BY <2>1, <2>2
<1>12. CASE RunEnds
  <2>1. CASE run = "flushEnd"
    <3>1. emitted["complete"] = 0
      BY <1>a, <1>b, <2>1 DEF CompleteIsLast
    <3> QED
      BY <1>11, <1>12, <2>1, <3>1 DEF RunEnds
  <2>2. CASE run /= "flushEnd"
    BY <1>1, <1>12, <2>2 DEF RunEnds
  <2> QED
    BY <2>1, <2>2
<1>13. CASE RunThrows
  BY <1>13 DEF RunThrows
<1>14. CASE OnEndWithError
  <2>1. emitted["complete"] = 0
    BY <1>14, <1>a, <1>b DEF OnEndWithError, CanCallBack, CompleteIsLast
  <2> QED
    BY <1>1, <1>2, <1>14, <2>1 DEF OnEndWithError
<1>15. CASE OnEnd
  <2>1. emitted["complete"] = 0 /\ work = <<>>
    BY <1>15, <1>a, <1>b DEF OnEnd, CanCallBack, CompleteIsLast, WorkIsSuffix
  <2> QED
    BY <1>1, <1>11, <1>15, <2>1 DEF OnEnd
<1>16. CASE Cancel
  BY <1>1, <1>16 DEF Cancel
<1>17. CASE UNCHANGED vars
  BY <1>1, <1>17 DEF vars
<1> QED
  BY <1>3, <1>4, <1>5, <1>6, <1>7, <1>8, <1>9, <1>10, <1>12, <1>13, <1>14, <1>15, <1>16, <1>17
     DEF Next, HeadersSettle, RunStep, TransportEnds

-----------------------------------------------------------------------------
\* The type invariant of the stream, whatever the order of the callbacks.
THEOREM TypeCorrect == Spec => []TypeOK
<1>1. Init => TypeOK
  BY InitIInv DEF IInv
<1> QED
  BY <1>1, TypeStep, PTL DEF Spec

\* The inductive invariant holds in every reachable state.
THEOREM Invariance == Spec => []IInv
  BY InitIInv, StepIInv, PTL DEF Spec

\* client.ts:209-217, 395-401: the hand-over from pendingChunkBytes to direct
\* processing neither loses, repeats nor reorders a message.
THEOREM OrderPreserved == Spec => []MessagesInOrder
<1>1. IInv => MessagesInOrder
  BY DEF IInv
<1> QED
  BY <1>1, Invariance, PTL

\* client.ts:410-412: 'complete' is emitted on a response delivered whole only.
THEOREM CompleteMeansWhole == Spec => []CompleteIsWhole
<1>1. IInv => CompleteIsWhole
  BY DEF IInv
<1> QED
  BY <1>1, Invariance, PTL

\* 'complete' is emitted once at most, and never besides an error.
THEOREM CompleteOrError == Spec => []CompleteExcludesError
<1>1. IInv => CompleteExcludesError
  BY DEF IInv
<1> QED
  BY <1>1, Invariance, PTL

\* client.ts:186-197, 223-233: the branches that throw are dead code.
THEOREM UnexpectedStateIsUnreachable == Spec => []NoUnexpectedState
<1>1. IInv => NoUnexpectedState
  BY ResponseType DEF IInv, TypeOK, States, NoUnexpectedState, CanReceive, CanCallBack, Idle,
     ContextFirst, HeadersFirst, StateOfTransport, WorkIsSuffix, CompleteIsLast
<1> QED
  BY <1>1, Invariance, PTL

\* client.ts:199-201, 219-221, 241-243: a settled stream that was canceled or
\* failed emits nothing more of the response.
THEOREM SettledStaysSettled == Spec => SettledIsFinal
<1>1. IInv /\ [Next]_vars =>
        [Settled => /\ Settled'
                    /\ delivered' = delivered
                    /\ emitted'["ready"] = emitted["ready"]
                    /\ emitted'["complete"] = emitted["complete"]]_vars
  <2> SUFFICES ASSUME IInv, Next, Settled
               PROVE  /\ Settled'
                      /\ delivered' = delivered
                      /\ emitted'["ready"] = emitted["ready"]
                      /\ emitted'["complete"] = emitted["complete"]
    OBVIOUS
  <2>1. emitted \in [Events -> Nat] /\ work = <<>>
    BY DEF IInv, TypeOK, Settled, Idle, WorkIsSuffix
  <2> QED
    BY <2>1 DEF Settled, Idle, Events, Emit, Next, Start, ContextSettles, ContextProvided,
       ContextRejected, OnHeaders, HeadersSettle, HeadersDecoded, HeadersRejected, Ready, OnChunk,
       RunStep, ProcessMessage, ProcessTrailers, RunEnds, RunThrows, TransportEnds,
       OnEndWithError, OnEnd, End, Cancel, IInv, ContextFirst
<1> QED
  BY <1>1, Invariance, PTL DEF Spec, SettledIsFinal

\* client.ts:166-422: the stream implements StreamContract, which binds it until
\* the code of its user throws.
THEOREM Implementation == Spec => ImplementsContract
<1>1. Init => Contract!Init
  BY ResponseType DEF Init, Contract!Init, ContractPhase, Responses, Events
<1>2. IInv /\ IInv' /\ [Next]_vars => [Contract!Next]_(Contract!contractVars)
  <2> SUFFICES ASSUME IInv, IInv', [Next]_vars
               PROVE  [Contract!Next]_(Contract!contractVars)
    OBVIOUS
  <2>a. threw \in BOOLEAN /\ threw' \in BOOLEAN
    BY DEF IInv, TypeOK
  <2>1. CASE threw'
    BY <2>a, <2>1 DEF Contract!Next, Contract!UserThrows
  <2>2. CASE ~threw'
    <3>1. ~threw
      BY <2>2 DEF Next, vars, Start, ContextSettles, ContextProvided, ContextRejected,
         OnHeaders, HeadersSettle, HeadersDecoded, HeadersRejected, OnChunk, RunStep,
         ProcessMessage, ProcessTrailers, RunEnds, RunThrows, TransportEnds,
         OnEndWithError, OnEnd, Cancel
    <3>2. [Contract!Step]_(Contract!streamVars)
      BY <2>2, <3>1, ContractStep
    <3>3. threw' = threw
      BY <2>a, <2>2, <3>1
    <3> QED
      BY <3>2, <3>3 DEF Contract!Next, Contract!contractVars, Contract!streamVars
  <2> QED
    BY <2>1, <2>2
<1> QED
  BY <1>1, <1>2, Invariance, PTL DEF Spec, ImplementsContract, Contract!Spec

-----------------------------------------------------------------------------
(***************************************************************************)
(* A started stream that has not told its user the end waits for something *)
(* that will come: the part of StartedFinishes that needs no fairness.     *)
(***************************************************************************)
\* Where the events are that a state or a transport stands for.
EndIsTold ==
  /\ state = "error" => emitted["error"] > 0
  /\ state = "canceled" => emitted["canceled"] > 0
  /\ state = "started" /\ headers = "settled" => emitted["error"] > 0
  /\ transport = "none" => state \in {"initial", "error", "canceled"}
  /\ transport = "created" => reqCtx = "pending" \/ emitted["error"] > 0
  /\ transport = "canceled" => emitted["canceled"] > 0 \/ emitted["error"] > 0
  /\ transport = "ended" => \/ Finished
                            \/ run = "flushEnd"
                            \/ state = "endedBeforeReady" /\ headers = "decoding"

\* One of the fair actions can be taken: a promise settles, a loop goes on, or the
\* transport ends.
NeverStranded ==
  state /= "initial" /\ ~Finished =>
    \/ reqCtx = "pending"
    \/ headers = "decoding"
    \/ run /= "idle"
    \/ transport = "open"

LEMMA EndIsToldStep == IInv /\ EndIsTold /\ [Next]_vars => EndIsTold'
<1> SUFFICES ASSUME IInv, EndIsTold, [Next]_vars PROVE EndIsTold'
  OBVIOUS
<1>0. /\ emitted \in [Events -> Nat] /\ state \in States
      /\ ContextFirst /\ HeadersFirst /\ StateOfTransport /\ WorkIsSuffix
      /\ transport \in {"none", "created", "open", "canceled", "ended"}
  BY DEF IInv, TypeOK
<1> USE DEF EndIsTold, Finished, Events, Emit
<1>1. CASE Start
  BY <1>0, <1>1 DEF Start
<1>2. CASE ContextSettles
  BY <1>0, <1>2 DEF ContextSettles, ContextProvided, ContextRejected, ContextFirst
<1>3. CASE OnHeaders
  BY <1>0, <1>3 DEF OnHeaders, CanCallBack
<1>4. CASE HeadersDecoded
  BY <1>0, <1>4 DEF HeadersDecoded, Ready, HeadersFirst, StateOfTransport
<1>5. CASE HeadersRejected
  BY <1>0, <1>5 DEF HeadersRejected
<1>6. ASSUME NEW k \in 1..LastFrame, OnChunk(k) PROVE EndIsTold'
  BY <1>0, <1>6 DEF OnChunk, CanReceive, CanCallBack
<1>7. CASE ProcessMessage
  BY <1>0, <1>7 DEF ProcessMessage
<1>8. CASE ProcessTrailers
  <2>1. /\ UNCHANGED <<transport, reqCtx, headers, run>>
        /\ headers = "settled" /\ transport /= "none"
    BY <1>0, <1>8 DEF ProcessTrailers, ContextFirst, HeadersFirst, WorkIsSuffix
  <2>2. \/ state' = "trailersReceived" /\ emitted' = emitted
        \/ state' = "error" /\ Emit("error")
    BY <1>8 DEF ProcessTrailers
  <2>3. CASE state' = "trailersReceived" /\ emitted' = emitted
    BY <1>0, <2>1, <2>3
  <2>4. CASE state' = "error" /\ Emit("error")
    <3>1. emitted'["error"] > 0 /\ (emitted'["canceled"] > 0 <=> emitted["canceled"] > 0)
      BY <1>0, <2>4
    <3>2. Finished'
      BY <3>1
    <3> QED
      BY <1>0, <2>1, <2>4, <3>1, <3>2
  <2> QED
    BY <2>2, <2>3, <2>4
<1>9. CASE RunEnds
  BY <1>0, <1>9 DEF RunEnds, End
<1>10. CASE RunThrows
  BY <1>0, <1>10 DEF RunThrows
<1>11. CASE TransportEnds
  <2>1. CASE OnEndWithError
    BY <1>0, <2>1 DEF OnEndWithError
  <2>2. CASE OnEnd /\ state = "started"
    <3>1. headers \in {"decoding", "settled"}
      BY <2>2 DEF OnEnd, IInv, TypeOK
    <3> QED
      BY <1>0, <2>2, <3>1 DEF OnEnd
  <2>3. CASE OnEnd /\ state /= "started"
    BY <1>0, <2>3 DEF OnEnd, End
  <2> QED
    BY <1>11, <2>1, <2>2, <2>3 DEF TransportEnds
<1>12. CASE Cancel
  BY <1>0, <1>12 DEF Cancel
<1>13. CASE UNCHANGED vars
  BY <1>13 DEF vars
<1> QED
  BY <1>1, <1>2, <1>3, <1>4, <1>5, <1>6, <1>7, <1>8, <1>9, <1>10, <1>11, <1>12, <1>13
     DEF Next, HeadersSettle, RunStep

\* A stream that was started and has emitted neither 'complete' nor 'error' nor
\* 'canceled' waits for a promise, its own loop or the end of an open transport.
THEOREM NothingIsForgotten == Spec => []NeverStranded
<1>1. Init => EndIsTold
  BY DEF Init, EndIsTold
<1>2. IInv /\ EndIsTold => NeverStranded
  BY DEF IInv, TypeOK, EndIsTold, NeverStranded, Finished
<1> QED
  BY <1>1, <1>2, EndIsToldStep, Invariance, PTL DEF Spec
=============================================================================
