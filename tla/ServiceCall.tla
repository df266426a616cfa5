---------------------------- MODULE ServiceCall ----------------------------
(***************************************************************************)
(* What becomes of a retried stream in the hands of its user: the promises *)
(* of src/src/client/service.ts and src/src/client/stream.ts.  A service   *)
(* withRetry() wraps each stream in a RetryingStream and listens to it;    *)
(* then either Service.call() makes a promise of one message of it, or     *)
(* streamAsPromise() makes one of all its messages, each put through the   *)
(* function of transformStream(), as for a stream of a methodMap().        *)
(*                                                                         *)
(* All of these are listeners: they run within the steps of the retrier    *)
(* that emit, and are defined by what such a step emits.                   *)
(***************************************************************************)
EXTENDS RetryingStream, Backoff

VARIABLES
  user,      \* what holds the stream: "call" or "promise"
  kept,      \* `message' of call(), or `messages' of streamAsPromise()
  outcome,   \* how the promise was settled
  slept      \* history: the last sleep since 'ready', in ms; 0 if none

callVars == <<vars, user, kept, outcome, slept>>

Outcomes == {"pending", "accepted", "protocolError", "error", "canceled"}

CallTypeOK ==
  /\ user \in {"call", "promise"}
  /\ kept \in Seq([attempt : Attempts, message : 1..MaxMessages])
  /\ outcome \in Outcomes
  /\ slept \in Nat

CallInit ==
  /\ Init
  /\ user \in {"call", "promise"}
  /\ kept = <<>>
  /\ outcome = "pending"
  /\ slept = 0

Emits(event) == emitted'[event] > emitted[event]
EmitsMessage == Len(forwarded') > Len(forwarded)
EmitsNothing == ~EmitsMessage /\ emitted' = emitted

\* A promise is settled once; what comes later is ignored.
Settle(how) == outcome' = IF outcome = "pending" THEN how ELSE outcome

(***************************************************************************)
(* The listeners of call().                                                *)
(***************************************************************************)
OneMessage ==
  /\ EmitsMessage
  /\ \/ /\ kept = <<>>
        /\ kept' = <<forwarded'[Len(forwarded')]>>
        /\ UNCHANGED outcome
     \/ /\ kept /= <<>>
        /\ Settle("protocolError")
        /\ UNCHANGED kept

CallCompletes ==
  /\ Emits("complete")
  /\ Settle(IF kept = <<>> THEN "protocolError" ELSE "accepted")
  /\ UNCHANGED kept

(***************************************************************************)
(* The listeners of streamAsPromise(), behind those of a TransformingStream*)
(***************************************************************************)
\* Mutant: an error of the function is dropped.
TransformedOrDropped ==
  /\ EmitsMessage
  /\ kept' \in {kept, Append(kept, forwarded'[Len(forwarded')])}
  /\ UNCHANGED outcome

\* The function may throw: the promise is rejected, the source goes on.
TransformedMessage ==
  /\ EmitsMessage
  /\ \/ /\ kept' = Append(kept, forwarded'[Len(forwarded')])
        /\ UNCHANGED outcome
     \/ /\ Settle("error")
        /\ UNCHANGED kept

PromiseCompletes ==
  /\ Emits("complete")
  /\ Settle("accepted")
  /\ UNCHANGED kept

(***************************************************************************)
(* The listeners of both, and of the service.                              *)
(***************************************************************************)
\* Mutant: nobody listens to 'canceled'.
FailsUnlessCanceled ==
  /\ \/ Emits("error") /\ Settle("error")
     \/ Emits("canceled") /\ UNCHANGED outcome
  /\ UNCHANGED kept

Rejected ==
  /\ \/ Emits("error") /\ Settle("error")
     \/ Emits("canceled") /\ Settle("canceled")
  /\ UNCHANGED kept

Ignored ==
  /\ EmitsNothing \/ Emits("ready")
  /\ UNCHANGED <<kept, outcome>>

Listen ==
  \/ user = "call" /\ (OneMessage \/ CallCompletes)
  \/ user = "promise" /\ (TransformedMessage \/ PromiseCompletes)
  \/ Rejected
  \/ Ignored

\* The parameter of 'retryingError' and of 'serviceError' that the retrier hands on.
RetriesLate == retries'
RetriesSinceLastReady == retries

ServiceError == \E i \in Attempts : streams'[i].errors > streams[i].errors
FallsAsleep == sleeping' \ sleeping /= {}

Sleeps ==
  slept' = IF FallsAsleep THEN TimeoutMs(getBackoffMs(RetriesSinceLastReady))
           ELSE IF Emits("ready") THEN 0
           ELSE slept

\* Both start the stream as soon as they have it; call() does not give it away, so
\* that nobody can cancel it but its provider.
UserMayCancel == user = "promise" /\ loop /= "none"

CallNext ==
  /\ Next
  /\ cancels' = cancels \/ UserMayCancel
  /\ Listen
  /\ Sleeps
  /\ UNCHANGED user

CallSpec == CallInit /\ [][CallNext]_callVars /\ Fairness /\ WF_vars(Start)

-----------------------------------------------------------------------------
(***************************************************************************)
(* Properties.                                                             *)
(***************************************************************************)

\* A promise is accepted with all that the stream emitted, and all of the attempt
\* that completed is in it; for call() this is one message, which is that of the
\* attempt unless it had none (service.ts:130-156, stream.ts:148-157, 204-219).
AcceptedIsWhole ==
  outcome = "accepted" =>
    /\ kept = forwarded
    /\ \E i \in Attempts :
         /\ streams[i].phase = "complete"
         /\ user = "call" => Len(kept) = 1
         /\ \A m \in 1..streams[i].got : \E j \in 1..Len(kept) :
              kept[j] = [attempt |-> i, message |-> m]

\* Every promise is settled some day, whether the attempts complete, fail or are
\* canceled, by the user or by the provider of the streams (service.ts:116-162,
\* stream.ts:199-220).
CallSettles == <>(outcome /= "pending")

\* The retries that 'serviceError' reports are the attempts made since the method
\* last was ready, the first attempt of all not counted ("The number of retries made
\* since the method last emitted a 'ready' event", service.ts:339-340), though the
\* counter is reset after 'ready' is emitted and incremented for the sleep.
RetriesMade == IF emitted["ready"] = 0 THEN sinceReady - 1 ELSE sinceReady
RetriesAreReported == [][ServiceError => RetriesSinceLastReady = RetriesMade]_callVars

\* A retrier that is not ready in between never sleeps shorter than before, nor
\* longer than maxBackoffMs, if that is set and fits a timer (backoff.ts:33-41,
\* stream_retrier.ts:155-157).
SleepsGrow ==
  [][(maxBackoffMs \in 1..MaxTimeout) =>
       slept' = 0 \/ slept' \in slept..maxBackoffMs]_callVars

\* What call() says of its errors ("@throws [[ClientProtocolError]] if the remote
\* implementation was not that of a unary method", service.ts:111): then one of the
\* attempts sent two messages, or completed without any.
ProtocolErrorIsDeserved ==
  outcome = "protocolError" =>
    \E i \in Attempts :
      streams[i].got > 1 \/ (streams[i].phase = "complete" /\ streams[i].got = 0)
=============================================================================
