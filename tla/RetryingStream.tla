--------------------------- MODULE RetryingStream ---------------------------
(***************************************************************************)
(* A stream that is retried: RetryingStreamImpl of                         *)
(* src/src/client/stream_retrier.ts.  asyncStart() gets one stream after   *)
(* the other from the provider and forwards its events; an error that may  *)
(* be retried puts the attempt to sleep before the next one.               *)
(*                                                                         *)
(* The streams of the provider are abstracted by their phase, as in        *)
(* StreamContract, which GrpcWebStream implements.  What that contract     *)
(* leaves open is the constant Late: whether a stream that failed or was   *)
(* canceled may still emit, as a GrpcWebStream may (a second error; what   *)
(* follows in the same chunk when a listener cancels).  The listeners of   *)
(* all the attempts stay attached to the one state of the retrier.         *)
(***************************************************************************)
EXTENDS Integers, Sequences

CONSTANTS
  MaxRetries,   \* options.maxRetries; negative: no limit
  MaxMessages,  \* bound: messages of one stream
  Late,         \* whether streams emit after they failed or were canceled
  EmitsReady,   \* whether streams emit 'ready' first; streamFromArray() does not
  MaxAttempts,  \* bound: streams asked from the provider
  MaxReady,     \* bound: only the first MaxReady attempts become ready
  MaxErrors,    \* bound: errors of one stream, if Late
  MaxCancels    \* bound: calls of cancel()

ASSUME RetryAssumption ==
  /\ MaxRetries \in Int
  /\ {MaxMessages, MaxAttempts, MaxReady, MaxErrors, MaxCancels} \subseteq Nat
  /\ {Late, EmitsReady} \subseteq BOOLEAN

VARIABLES
  state,        \* RetryingStreamImpl.state
  retries,      \* retriesSinceLastReady
  streams,      \* the streams obtained so far, one per attempt
  loop,         \* asyncStart(): not started, awaiting the last attempt, over
  accepted,     \* attempts whose promise was accepted by cb()
  sleeping,     \* attempts that sleep before their cb()
  forwarded,    \* history: the messages emitted, with their attempt
  emitted,      \* history: how often each other event was emitted
  sinceReady,   \* history: attempts started since 'ready' was last emitted
  cancels       \* history: calls of cancel()

vars == <<state, retries, streams, loop, accepted, sleeping, forwarded, emitted,
          sinceReady, cancels>>

States == {"initial", "started", "ready", "canceled", "abandoned", "complete"}
\* Mutants: the loop of asyncStart() does not stop at one of the states.
TerminalWithoutComplete == {"canceled", "abandoned"}
TerminalWithoutCanceled == {"complete", "abandoned"}

Terminal == {"complete", "canceled", "abandoned"}
Events == {"ready", "complete", "error", "canceled"}
Phases == {"waiting", "ready", "complete", "failed"}
Streams == [phase : Phases, got : 0..MaxMessages, errors : Nat, canceled : BOOLEAN]

Attempts == DOMAIN streams
Current == Len(streams)
FreshStream == [phase |-> "waiting", got |-> 0, errors |-> 0, canceled |-> FALSE]

Emit(event) == emitted' = [emitted EXCEPT ![event] = @ + 1]

TypeOK ==
  /\ state \in States
  /\ retries \in Nat
  /\ streams \in Seq(Streams)
  /\ loop \in {"none", "awaiting", "over"}
  /\ accepted \subseteq Attempts
  /\ sleeping \subseteq Attempts
  /\ forwarded \in Seq([attempt : Attempts, message : 1..MaxMessages])
  /\ emitted \in [Events -> Nat]
  /\ sinceReady \in Nat
  /\ cancels \in 0..MaxCancels

Init ==
  /\ state = "initial"
  /\ retries = 0
  /\ streams = <<>>
  /\ loop = "none"
  /\ accepted = {}
  /\ sleeping = {}
  /\ forwarded = <<>>
  /\ emitted = [event \in Events |-> 0]
  /\ sinceReady = 0
  /\ cancels = 0

(***************************************************************************)
(* asyncStart()                                                            *)
(***************************************************************************)
NewAttempt ==
  /\ Current < MaxAttempts
  /\ streams' = Append(streams, FreshStream)
  /\ sinceReady' = sinceReady + 1
  /\ loop' = "awaiting"

\* In any other state ensureState() throws into a promise that nobody handles.
Start ==
  /\ state = "initial"
  /\ state' = "started"
  /\ NewAttempt
  /\ UNCHANGED <<retries, accepted, sleeping, forwarded, emitted, cancels>>

\* The await of the last attempt returns, in a microtask of its own.
LoopContinues ==
  /\ loop = "awaiting"
  /\ Current \in accepted
  /\ \/ /\ state \in Terminal
        /\ loop' = "over"
        /\ UNCHANGED <<streams, sinceReady>>
     \/ /\ state \notin Terminal
        /\ NewAttempt
  /\ UNCHANGED <<state, retries, accepted, sleeping, forwarded, emitted, cancels>>

\* Mutant: cb() is not called after the sleep.
TimerForgetsCallback(i) ==
  /\ i \in sleeping
  /\ sleeping' = sleeping \ {i}
  /\ UNCHANGED <<state, retries, streams, loop, accepted, forwarded, emitted,
                 sinceReady, cancels>>

TimerFires(i) ==
  /\ i \in sleeping
  /\ sleeping' = sleeping \ {i}
  /\ accepted' = accepted \union {i}
  /\ UNCHANGED <<state, retries, streams, loop, forwarded, emitted, sinceReady,
                 cancels>>

(***************************************************************************)
(* The listeners of attempt i.                                             *)
(***************************************************************************)
MayEmit(i) == Late \/ ~streams[i].canceled

\* Mutant: the state stays as it is.
OnReadyKeepsState(i) ==
  /\ MayEmit(i)
  /\ EmitsReady /\ i <= MaxReady
  /\ streams[i].phase = "waiting"
  /\ streams' = [streams EXCEPT ![i].phase = "ready"]
  /\ Emit("ready")
  /\ retries' = 0
  /\ sinceReady' = 0
  /\ UNCHANGED <<state, loop, accepted, sleeping, forwarded, cancels>>

OnReady(i) ==
  /\ MayEmit(i)
  /\ EmitsReady /\ i <= MaxReady
  /\ streams[i].phase = "waiting"
  /\ streams' = [streams EXCEPT ![i].phase = "ready"]
  /\ state' = "ready"
  /\ Emit("ready")
  /\ retries' = 0
  /\ sinceReady' = 0
  /\ UNCHANGED <<loop, accepted, sleeping, forwarded, cancels>>

OnMessage(i) ==
  /\ MayEmit(i)
  /\ streams[i].phase = IF EmitsReady THEN "ready" ELSE "waiting"
  /\ streams[i].got < MaxMessages
  /\ streams' = [streams EXCEPT ![i].got = @ + 1]
  /\ forwarded' = IF state = "ready"
                  THEN Append(forwarded, [attempt |-> i, message |-> streams[i].got + 1])
                  ELSE forwarded
  /\ UNCHANGED <<state, retries, loop, accepted, sleeping, emitted, sinceReady,
                 cancels>>

\* A response may have any number of messages, and each attempt another one.
OnComplete(i) ==
  /\ MayEmit(i)
  /\ streams[i].phase = IF EmitsReady THEN "ready" ELSE "waiting"
  /\ streams' = [streams EXCEPT ![i].phase = "complete"]
  /\ state' = "complete"
  /\ Emit("complete")
  /\ accepted' = accepted \union {i}
  /\ UNCHANGED <<retries, loop, sleeping, forwarded, sinceReady, cancels>>

\* Mutant: one retry too many.
ExhaustedOffByOne == MaxRetries >= 0 /\ retries > MaxRetries

Exhausted == MaxRetries >= 0 /\ retries >= MaxRetries

OnError(i) ==
  /\ MayEmit(i)
  /\ \/ streams[i].phase \in {"waiting", "ready"}
     \/ Late /\ streams[i].phase = "failed" /\ streams[i].errors < MaxErrors
  /\ streams' = [streams EXCEPT ![i].phase = "failed", ![i].errors = @ + 1]
  /\ \/ \* the retries are exhausted, or shouldRetry() says no
        /\ state' = "abandoned"
        /\ Emit("error")
        /\ accepted' = accepted \union {i}
        /\ UNCHANGED <<retries, sleeping>>
     \/ /\ ~Exhausted
        /\ state' = "started"
        /\ retries' = retries + 1
        /\ sleeping' = sleeping \union {i}
        /\ UNCHANGED <<accepted, emitted>>
  /\ UNCHANGED <<loop, forwarded, sinceReady, cancels>>

\* Mutant: the state is not set.
CanceledKeepsState(i) ==
  /\ streams' = [streams EXCEPT ![i].canceled = TRUE]
  /\ state' = "started"
  /\ Emit("canceled")
  /\ accepted' = accepted \union {i}

\* Stream i emits 'canceled', because of cancel() below or of its provider.
Canceled(i) ==
  /\ streams' = [streams EXCEPT ![i].canceled = TRUE]
  /\ state' = "canceled"
  /\ Emit("canceled")
  /\ accepted' = accepted \union {i}

OnCanceled(i) ==
  /\ ~streams[i].canceled
  /\ streams[i].phase \in {"waiting", "ready"}
  /\ Canceled(i)
  /\ UNCHANGED <<retries, loop, sleeping, forwarded, sinceReady, cancels>>

\* cancel(): the current stream, bound as long as the loop awaits it, emits
\* 'canceled' whatever its own state; without one nothing is emitted.
Cancel ==
  /\ cancels < MaxCancels
  /\ cancels' = cancels + 1
  /\ \/ /\ loop = "awaiting"
        /\ Canceled(Current)
     \/ /\ loop /= "awaiting"
        /\ state' = "canceled"
        /\ UNCHANGED <<streams, emitted, accepted>>
  /\ UNCHANGED <<retries, loop, sleeping, forwarded, sinceReady>>

StreamEnds(i) == OnComplete(i) \/ OnError(i)

Next ==
  \/ Start
  \/ LoopContinues
  \/ Cancel
  \/ \E i \in Attempts :
       \/ TimerFires(i)
       \/ OnReady(i)
       \/ OnMessage(i)
       \/ StreamEnds(i)
       \/ OnCanceled(i)

Spec == Init /\ [][Next]_vars

(***************************************************************************)
(* Fairness: timers fire, microtasks run, and every stream that is started *)
(* ends (StartedFinishes of GrpcWebStream).                                *)
(***************************************************************************)
Fairness ==
  /\ WF_vars(LoopContinues)
  /\ WF_vars(\E i \in Attempts : TimerFires(i))
  /\ WF_vars(loop = "awaiting" /\ StreamEnds(Current))

FairSpec == Spec /\ Fairness

-----------------------------------------------------------------------------
(***************************************************************************)
(* Properties.                                                             *)
(***************************************************************************)

\* Unless 'ready' is emitted, the provider is called no more than maxRetries + 1
\* times (stream_retrier.ts:148-160, 187-200), though the counter is shared by
\* all the attempts and reset by each 'ready'.
AttemptsAreLimited == MaxRetries >= 0 => sinceReady <= MaxRetries + 1

\* The retrier has one stream at a time: a further attempt is started only once
\* all the earlier ones have failed (stream_retrier.ts:194-199).
OneLiveStream ==
  \A i \in Attempts : i < Current => streams[i].phase = "failed" /\ ~streams[i].canceled

\* The messages emitted come attempt by attempt, each attempt from its first
\* message on and without a gap.
ForwardedInOrder ==
  \A j \in 1..Len(forwarded) :
    LET f == forwarded[j] IN
    \/ f.message = 1 /\ (j = 1 \/ forwarded[j - 1].attempt < f.attempt)
    \/ j > 1 /\ forwarded[j - 1] = [f EXCEPT !.message = @ - 1]

\* If nothing is canceled, 'complete' comes after all the messages of the attempt
\* that completed (stream_retrier.ts:137-146).
CompletedIsWhole ==
  emitted["canceled"] = 0 =>
    \A i \in Attempts : streams[i].phase = "complete" =>
      \A m \in 1..streams[i].got : \E j \in 1..Len(forwarded) :
        forwarded[j] = [attempt |-> i, message |-> m]

\* The retrier emits the concatenation of the streams of the provider, as
\* stream_retrier.ts:33-34 and 56 say.
Concatenation == ForwardedInOrder /\ CompletedIsWhole

\* Once the retrier has completed, given up or been canceled, the provider is not
\* called again, whatever timer is still running (stream_retrier.ts:187-200).
Ended == \E event \in {"complete", "error", "canceled"} : emitted[event] > 0
ProviderStops == [][Ended => Len(streams') = Len(streams)]_vars

\* The retrier either completes or reports an error, and does so once.
OneOutcome == emitted["complete"] + emitted["error"] <= 1

\* A retrier that is started ends, if the attempts stop being ready some day: the
\* sleeps, the retries and a cancel() at any moment cannot make it hang.
StartedEnds == (state = "started") ~> Ended
=============================================================================
