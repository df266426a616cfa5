------------------------- MODULE ServiceCallProofs -------------------------
(***************************************************************************)
(* Proofs about RetryingStream and ServiceCall, for every value of their   *)
(* constants.  For any provider: the types, the limit of the attempts, and *)
(* that the sleeps grow.  For streams that emit 'ready' first and nothing  *)
(* after they failed or were canceled: that one attempt is live at a time, *)
(* that the retrier emits their concatenation, has one outcome and stops   *)
(* then, what a promise accepts and what the retrying service reports.     *)
(***************************************************************************)
EXTENDS ServiceCall, WellFoundedInduction, TLAPS

-----------------------------------------------------------------------------
(***************************************************************************)
(* Lemmas on the sequence of streams.                                      *)
(***************************************************************************)
\* Changing one stream leaves the others alone.
LEMMA StreamChanged ==
  ASSUME streams \in Seq(Streams), NEW i \in Attempts, NEW s \in Streams,
         streams' = [streams EXCEPT ![i] = s]
  PROVE  /\ streams' \in Seq(Streams)
         /\ Len(streams') = Len(streams)
         /\ Attempts' = Attempts
         /\ Current' = Current
         /\ streams'[i] = s
         /\ \A k \in Attempts : k /= i => streams'[k] = streams[k]
BY DEF Attempts, Current

\* A further attempt leaves all the earlier ones alone.
LEMMA StreamAdded ==
  ASSUME streams \in Seq(Streams), FreshStream \in Streams,
         streams' = Append(streams, FreshStream)
  PROVE  /\ streams' \in Seq(Streams)
         /\ Current' = Current + 1
         /\ Attempts' = 1..(Current + 1)
         /\ Attempts = 1..Current
         /\ Current \in Nat
         /\ streams'[Current + 1] = FreshStream
         /\ \A k \in Attempts : streams'[k] = streams[k]
BY DEF Attempts, Current

\* The records that the listeners put in the place of a stream.
LEMMA PhaseSet ==
  ASSUME NEW s \in Streams, NEW p \in Phases, NEW t, t = [s EXCEPT !.phase = p]
  PROVE  /\ t \in Streams
         /\ t.phase = p /\ t.got = s.got /\ t.canceled = s.canceled
BY DEF Streams

LEMMA FailureSet ==
  ASSUME NEW s \in Streams, NEW t, t = [s EXCEPT !.phase = "failed", !.errors = @ + 1]
  PROVE  /\ t \in Streams
         /\ t.phase = "failed" /\ t.got = s.got /\ t.canceled = s.canceled
<1>1. s.errors + 1 \in Nat /\ "failed" \in Phases
  BY DEF Streams, Phases
<1> QED
  BY <1>1 DEF Streams

LEMMA CancelSet ==
  ASSUME NEW s \in Streams, NEW t, t = [s EXCEPT !.canceled = TRUE]
  PROVE  /\ t \in Streams
         /\ t.phase = s.phase /\ t.got = s.got /\ t.canceled
BY DEF Streams

LEMMA GotSet ==
  ASSUME NEW s \in Streams, s.got < MaxMessages, NEW t, t = [s EXCEPT !.got = @ + 1]
  PROVE  /\ t \in Streams
         /\ t.phase = s.phase /\ t.got = s.got + 1 /\ t.canceled = s.canceled
BY RetryAssumption DEF Streams

LEMMA FreshType == FreshStream \in Streams
<1>1. 0 \in 0..MaxMessages
  BY RetryAssumption
<1> QED
  BY <1>1 DEF FreshStream, Streams, Phases

LEMMA EmitType ==
  ASSUME emitted \in [Events -> Nat], NEW event \in Events, Emit(event)
  PROVE  /\ emitted' \in [Events -> Nat]
         /\ emitted'[event] = emitted[event] + 1
         /\ \A e \in Events : e /= event => emitted'[e] = emitted[e]
BY DEF Emit

\* Stream i is replaced by one with this phase, count and flag.
Becomes(i, phase, got, canceled) ==
  /\ streams' \in Seq(Streams)
  /\ Attempts' = Attempts
  /\ Current' = Current
  /\ streams'[i].phase = phase
  /\ streams'[i].got = got
  /\ streams'[i].canceled = canceled
  /\ \A k \in Attempts : k /= i => streams'[k] = streams[k]

LEMMA BecomesRecord ==
  ASSUME streams \in Seq(Streams), NEW i \in Attempts, NEW t \in Streams,
         streams' = [streams EXCEPT ![i] = t]
  PROVE  Becomes(i, t.phase, t.got, t.canceled)
BY StreamChanged DEF Becomes

\* What the listeners do to their stream.
LEMMA Listeners ==
  ASSUME streams \in Seq(Streams), NEW i \in Attempts
  PROVE  /\ OnReady(i) => Becomes(i, "ready", streams[i].got, streams[i].canceled)
         /\ OnMessage(i) =>
              Becomes(i, streams[i].phase, streams[i].got + 1, streams[i].canceled)
         /\ OnComplete(i) => Becomes(i, "complete", streams[i].got, streams[i].canceled)
         /\ OnError(i) => Becomes(i, "failed", streams[i].got, streams[i].canceled)
         /\ Canceled(i) => Becomes(i, streams[i].phase, streams[i].got, TRUE)
<1> DEFINE s == streams[i]
<1>0. s \in Streams
  BY DEF Attempts
<1>1. ASSUME OnReady(i) PROVE Becomes(i, "ready", s.got, s.canceled)
  <2> DEFINE t == [s EXCEPT !.phase = "ready"]
  <2>1. streams' = [streams EXCEPT ![i] = t]
    BY <1>1 DEF OnReady
  <2>2. "ready" \in Phases
    BY DEF Phases
  <2>3. t \in Streams /\ t.phase = "ready" /\ t.got = s.got /\ t.canceled = s.canceled
    BY <1>0, <2>2, PhaseSet
  <2> QED
    BY <2>1, <2>3, BecomesRecord
<1>2. ASSUME OnMessage(i) PROVE Becomes(i, s.phase, s.got + 1, s.canceled)
  <2> DEFINE t == [s EXCEPT !.got = @ + 1]
  <2>1. /\ s.got < MaxMessages
        /\ streams' = [streams EXCEPT ![i] = t]
    BY <1>2 DEF OnMessage
  <2>2. t \in Streams /\ t.phase = s.phase /\ t.got = s.got + 1 /\ t.canceled = s.canceled
    BY <1>0, <2>1, GotSet
  <2> QED
    BY <2>1, <2>2, BecomesRecord
<1>3. ASSUME OnComplete(i) PROVE Becomes(i, "complete", s.got, s.canceled)
  <2> DEFINE t == [s EXCEPT !.phase = "complete"]
  <2>1. streams' = [streams EXCEPT ![i] = t]
    BY <1>3 DEF OnComplete
  <2>2. "complete" \in Phases
    BY DEF Phases
  <2>3. t \in Streams /\ t.phase = "complete" /\ t.got = s.got /\ t.canceled = s.canceled
    BY <1>0, <2>2, PhaseSet
  <2> QED
    BY <2>1, <2>3, BecomesRecord
<1>4. ASSUME OnError(i) PROVE Becomes(i, "failed", s.got, s.canceled)
  <2> DEFINE t == [s EXCEPT !.phase = "failed", !.errors = @ + 1]
  <2>1. streams' = [streams EXCEPT ![i] = t]
    BY <1>4 DEF OnError, Attempts
  <2>2. t \in Streams /\ t.phase = "failed" /\ t.got = s.got /\ t.canceled = s.canceled
    BY <1>0, FailureSet
  <2> QED
    BY <2>1, <2>2, BecomesRecord
<1>5. ASSUME Canceled(i) PROVE Becomes(i, s.phase, s.got, TRUE)
  <2>1. streams' = [streams EXCEPT ![i] = [s EXCEPT !.canceled = TRUE]]
    BY <1>5 DEF Canceled
  <2> DEFINE t == [s EXCEPT !.canceled = TRUE]
  <2>2. t \in Streams /\ t.phase = s.phase /\ t.got = s.got
    BY <1>0, CancelSet
  <2>3. t.canceled = TRUE
    BY <1>0 DEF Streams
  <2>4. Becomes(i, t.phase, t.got, t.canceled)
    BY <2>1, <2>2, BecomesRecord
  <2> QED
    BY <2>2, <2>3, <2>4
<1> QED
  BY <1>1, <1>2, <1>3, <1>4, <1>5

\* More attempts allow more entries.
LEMMA EntriesGrow ==
  ASSUME forwarded \in Seq([attempt : Attempts, message : 1..MaxMessages]),
         Attempts \subseteq Attempts'
  PROVE  forwarded \in Seq([attempt : Attempts', message : 1..MaxMessages])
<1>1. [attempt : Attempts, message : 1..MaxMessages]
        \subseteq [attempt : Attempts', message : 1..MaxMessages]
  OBVIOUS
<1>2. ASSUME NEW S, NEW T, S \subseteq T, NEW f \in Seq(S) PROVE f \in Seq(T)
  BY <1>2
<1> QED
  BY ONLY <1>1, <1>2, forwarded \in Seq([attempt : Attempts, message : 1..MaxMessages])

\* A new attempt is the current one, and none of the earlier ones changes.
LEMMA NewAttemptStreams ==
  ASSUME streams \in Seq(Streams), NewAttempt
  PROVE  /\ streams' \in Seq(Streams)
         /\ Current \in Nat /\ Current' = Current + 1
         /\ Attempts = 1..Current /\ Attempts' = 1..(Current + 1)
         /\ streams'[Current + 1].phase = "waiting"
         /\ streams'[Current + 1].got = 0
         /\ streams'[Current + 1].canceled = FALSE
         /\ \A k \in Attempts : streams'[k] = streams[k]
<1>1. streams' = Append(streams, FreshStream)
  BY DEF NewAttempt
<1>2. /\ FreshStream.phase = "waiting"
      /\ FreshStream.got = 0
      /\ FreshStream.canceled = FALSE
  BY DEF FreshStream
<1> QED
  BY <1>1, <1>2, FreshType, StreamAdded

-----------------------------------------------------------------------------
(***************************************************************************)
(* Types.                                                                  *)
(***************************************************************************)
\* The loop awaits an attempt that it has started.
AwaitsStream == loop = "awaiting" => Current \in Attempts

TypeInv == TypeOK /\ AwaitsStream

LEMMA InitType == Init => TypeInv
<1> SUFFICES ASSUME Init PROVE TypeInv
  OBVIOUS
<1> USE RetryAssumption DEF Init
<1>1. cancels \in 0..MaxCancels
  OBVIOUS
<1>2. emitted \in [Events -> Nat]
  OBVIOUS
<1>3. streams \in Seq(Streams) /\ forwarded \in Seq([attempt : Attempts, message : 1..MaxMessages])
  OBVIOUS
<1> QED
  BY <1>1, <1>2, <1>3 DEF TypeInv, AwaitsStream, TypeOK, States

LEMMA NextType == TypeInv /\ [Next]_vars => TypeInv'
<1> SUFFICES ASSUME TypeInv, [Next]_vars PROVE TypeInv'
  OBVIOUS
<1> DEFINE Forwarded == Seq([attempt : Attempts, message : 1..MaxMessages])
<1>0. /\ state \in States /\ retries \in Nat /\ streams \in Seq(Streams)
      /\ loop \in {"none", "awaiting", "over"}
      /\ accepted \subseteq Attempts /\ sleeping \subseteq Attempts
      /\ forwarded \in Forwarded /\ emitted \in [Events -> Nat]
      /\ sinceReady \in Nat /\ cancels \in 0..MaxCancels
      /\ AwaitsStream
  BY DEF TypeInv, TypeOK
\* A step that starts no attempt.
<1>s. ASSUME streams' \in Seq(Streams), Attempts' = Attempts, Current' = Current,
             state' \in States, retries' \in Nat, loop' \in {loop, "over"},
             accepted' \subseteq Attempts, sleeping' \subseteq Attempts,
             forwarded' \in Forwarded, emitted' \in [Events -> Nat],
             sinceReady' \in Nat, cancels' \in 0..MaxCancels
      PROVE  TypeInv'
  BY <1>0, <1>s DEF TypeInv, AwaitsStream, TypeOK
\* A step that starts one.
<1>n. ASSUME NewAttempt, state' \in States,
             UNCHANGED <<retries, accepted, sleeping, forwarded, emitted, cancels>>
      PROVE  TypeInv'
  <2>1. Attempts \subseteq Attempts' /\ streams' \in Seq(Streams)
    BY <1>0, <1>n, NewAttemptStreams
  <2>2. forwarded \in Seq([attempt : Attempts', message : 1..MaxMessages])
    BY <1>0, <2>1, EntriesGrow
  <2>3. accepted \subseteq Attempts' /\ sleeping \subseteq Attempts'
    BY <1>0, <2>1
  <2>4. loop' = "awaiting" /\ sinceReady' = sinceReady + 1
    BY <1>n DEF NewAttempt
  <2>5. Current' \in Attempts'
    BY <1>0, <1>n, NewAttemptStreams
  <2> QED
    BY <1>0, <1>n, <2>1, <2>2, <2>3, <2>4, <2>5 DEF TypeInv, AwaitsStream, TypeOK
<1>u. ASSUME UNCHANGED streams 
      PROVE  streams' \in Seq(Streams) /\ Attempts' = Attempts /\ Current' = Current
  BY <1>0, <1>u DEF Attempts, Current
<1>e. \A event \in Events : Emit(event) => emitted' \in [Events -> Nat]
  BY <1>0, EmitType
<1>1. CASE Start
  <2>1. "started" \in States
    BY DEF States
  <2> QED
    BY <1>1, <1>n, <2>1 DEF Start
<1>2. CASE LoopContinues
  <2>1. CASE state \in Terminal
    BY <1>0, <1>2, <1>u, <1>s, <2>1 DEF LoopContinues
  <2>2. CASE state \notin Terminal
    BY <1>0, <1>2, <1>n, <2>2 DEF LoopContinues
  <2> QED
    BY <2>1, <2>2
<1>3. CASE Cancel
  <2>1. cancels' \in 0..MaxCancels
    BY <1>0, <1>3, RetryAssumption DEF Cancel
  <2>2. "canceled" \in States /\ "canceled" \in Events
    BY DEF States, Events
  <2>3. CASE loop = "awaiting" /\ Canceled(Current)
    <3>1. Current \in Attempts
      BY <1>0, <2>3 DEF AwaitsStream
    <3>2. Becomes(Current, streams[Current].phase, streams[Current].got, TRUE)
      BY <1>0, <2>3, <3>1, Listeners
    <3> QED
      BY <1>0, <1>3, <1>e, <1>s, <2>1, <2>2, <2>3, <3>1, <3>2
         DEF Cancel, Canceled, Becomes
  <2>4. CASE loop /= "awaiting"
    BY <1>0, <1>3, <1>u, <1>s, <2>1, <2>2, <2>4 DEF Cancel
  <2> QED
    BY <1>3, <2>3, <2>4 DEF Cancel
<1>4. ASSUME NEW i \in Attempts, TimerFires(i) PROVE TypeInv'
  BY <1>0, <1>4, <1>u, <1>s DEF TimerFires
<1>5. ASSUME NEW i \in Attempts, OnReady(i) PROVE TypeInv'
  <2>1. "ready" \in States /\ "ready" \in Events
    BY DEF States, Events
  <2>2. Becomes(i, "ready", streams[i].got, streams[i].canceled)
    BY <1>0, <1>5, Listeners
  <2> QED
    BY <1>0, <1>5, <1>e, <1>s, <2>1, <2>2 DEF OnReady, Becomes
<1>6. ASSUME NEW i \in Attempts, OnMessage(i) PROVE TypeInv'
  <2>1. Becomes(i, streams[i].phase, streams[i].got + 1, streams[i].canceled)
    BY <1>0, <1>6, Listeners
  <2>2. streams[i].got + 1 \in 1..MaxMessages
    <3>1. streams[i] \in Streams
      BY <1>0 DEF Attempts
    <3>2. streams[i].got \in 0..MaxMessages
      BY <3>1 DEF Streams
    <3>3. streams[i].got < MaxMessages
      BY <1>6 DEF OnMessage
    <3> QED
      BY <3>2, <3>3, RetryAssumption
  <2>3. forwarded' \in Forwarded
    <3> DEFINE entry == [attempt |-> i, message |-> streams[i].got + 1]
    <3>1. entry \in [attempt : Attempts, message : 1..MaxMessages]
      BY <2>2
    <3>2. forwarded' \in {forwarded, Append(forwarded, entry)}
      BY <1>6 DEF OnMessage
    <3>3. ASSUME NEW S, NEW f \in Seq(S), NEW e \in S PROVE Append(f, e) \in Seq(S)
      OBVIOUS
    <3>4. forwarded \in Forwarded
      BY <1>0
    <3>5. Append(forwarded, entry) \in Forwarded
      BY ONLY <3>1, <3>3, <3>4
    <3> QED
      BY ONLY <3>2, <3>4, <3>5
  <2> QED
    BY <1>0, <1>6, <1>s, <2>1, <2>3 DEF OnMessage, Becomes
<1>7. ASSUME NEW i \in Attempts, OnComplete(i) PROVE TypeInv'
  <2>1. "complete" \in States /\ "complete" \in Events
    BY DEF States, Events
  <2>2. Becomes(i, "complete", streams[i].got, streams[i].canceled)
    BY <1>0, <1>7, Listeners
  <2> QED
    BY <1>0, <1>7, <1>e, <1>s, <2>1, <2>2 DEF OnComplete, Becomes
<1>8. ASSUME NEW i \in Attempts, OnError(i) PROVE TypeInv'
  <2>1. {"abandoned", "started"} \subseteq States /\ "error" \in Events
    BY DEF States, Events
  <2>2. Becomes(i, "failed", streams[i].got, streams[i].canceled)
    BY <1>0, <1>8, Listeners
  <2>3. /\ state' \in States /\ retries' \in Nat /\ emitted' \in [Events -> Nat]
        /\ accepted' \subseteq Attempts /\ sleeping' \subseteq Attempts
    BY <1>0, <1>8, <1>e, <2>1 DEF OnError
  <2> QED
    BY <1>0, <1>8, <1>s, <2>2, <2>3 DEF OnError, Becomes
<1>9. ASSUME NEW i \in Attempts, OnCanceled(i) PROVE TypeInv'
  <2>1. "canceled" \in States /\ "canceled" \in Events
    BY DEF States, Events
  <2>2. Becomes(i, streams[i].phase, streams[i].got, TRUE)
    BY <1>0, <1>9, Listeners DEF OnCanceled
  <2> QED
    BY <1>0, <1>9, <1>e, <1>s, <2>1, <2>2 DEF OnCanceled, Canceled, Becomes
<1>10. CASE UNCHANGED vars
  BY <1>0, <1>10, <1>u, <1>s DEF vars
<1> QED
  BY <1>1, <1>2, <1>3, <1>4, <1>5, <1>6, <1>7, <1>8, <1>9, <1>10
     DEF Next, StreamEnds

\* TypeOK is an invariant of the retrier, for any provider.
THEOREM TypeCorrect == Spec => []TypeOK
<1>1. TypeInv /\ UNCHANGED vars => TypeInv'
  BY NextType
<1> QED
  BY InitType, NextType, PTL DEF Spec, TypeInv

-----------------------------------------------------------------------------
(***************************************************************************)
(* The limit of the attempts.                                              *)
(***************************************************************************)
\* An attempt after another one needs a retry that was counted, unless 'ready' came
\* in between; the last attempt is counted once its promise may be accepted.
RetriesCounted ==
  /\ MaxRetries >= 0 => retries <= MaxRetries
  /\ sinceReady <= retries + 1
  /\ state = "initial" => sinceReady = 0 /\ loop = "none"
  /\ state \notin Terminal /\ Current \in accepted \union sleeping =>
       sinceReady <= retries

LEMMA NextRetriesCounted ==
  TypeInv /\ RetriesCounted /\ [Next]_vars => RetriesCounted'
<1> SUFFICES ASSUME TypeInv, RetriesCounted, [Next]_vars PROVE RetriesCounted'
  OBVIOUS
<1>0. /\ retries \in Nat /\ sinceReady \in Nat /\ streams \in Seq(Streams)
      /\ accepted \subseteq Attempts /\ sleeping \subseteq Attempts
      /\ MaxRetries \in Int
  BY RetryAssumption DEF TypeInv, TypeOK
<1>n. ASSUME NewAttempt, UNCHANGED <<retries, accepted, sleeping>>,
             state' /= "initial", sinceReady <= retries
      PROVE  RetriesCounted'
  <2>1. Current' \notin (accepted \union sleeping)'
    BY <1>0, <1>n, NewAttemptStreams
  <2>2. sinceReady' = sinceReady + 1
    BY <1>n DEF NewAttempt
  <2> QED
    BY <1>0, <1>n, <2>1, <2>2 DEF RetriesCounted
\* A step to a terminal state that starts no attempt.
<1>t. ASSUME state' \in Terminal, UNCHANGED <<retries, sinceReady>>
      PROVE  RetriesCounted'
  BY <1>t DEF RetriesCounted, Terminal
<1>1. CASE Start
  <2>1. sinceReady <= retries
    BY <1>0, <1>1 DEF Start, RetriesCounted
  <2> QED
    BY <1>1, <1>n, <2>1 DEF Start
<1>2. CASE LoopContinues
  <2>1. CASE state \in Terminal
    BY <1>2, <1>t, <2>1 DEF LoopContinues
  <2>2. CASE state \notin Terminal
    <3>1. sinceReady <= retries /\ state /= "initial"
      BY <1>0, <1>2, <2>2 DEF LoopContinues, RetriesCounted
    <3> QED
      BY <1>2, <1>n, <2>2, <3>1 DEF LoopContinues
  <2> QED
    BY <2>1, <2>2
<1>3. CASE Cancel
  BY <1>3, <1>t DEF Cancel, Canceled, Terminal
<1>4. ASSUME NEW i \in Attempts, TimerFires(i) PROVE RetriesCounted'
  <2>1. UNCHANGED <<state, retries, sinceReady, loop, streams>>
    BY <1>4 DEF TimerFires
  <2>2. (accepted \union sleeping)' = accepted \union sleeping
    BY <1>4 DEF TimerFires
  <2> QED
    BY <2>1, <2>2 DEF RetriesCounted, Current
<1>5. ASSUME NEW i \in Attempts, OnReady(i) PROVE RetriesCounted'
  BY <1>0, <1>5 DEF OnReady, RetriesCounted
<1>6. ASSUME NEW i \in Attempts, OnMessage(i) PROVE RetriesCounted'
  <2>1. Current' = Current
    BY <1>0, <1>6, Listeners DEF Becomes
  <2>2. UNCHANGED <<state, retries, sinceReady, loop, accepted, sleeping>>
    BY <1>6 DEF OnMessage
  <2> QED
    BY <2>1, <2>2 DEF RetriesCounted
<1>7. ASSUME NEW i \in Attempts, OnComplete(i) PROVE RetriesCounted'
  BY <1>7, <1>t DEF OnComplete, Terminal
<1>8. ASSUME NEW i \in Attempts, OnError(i) PROVE RetriesCounted'
  <2>1. CASE state' = "abandoned" /\ retries' = retries
    BY <1>8, <1>t, <2>1 DEF OnError, Terminal
  <2>2. CASE ~Exhausted /\ state' = "started" /\ retries' = retries + 1
    <3>1. sinceReady' = sinceReady
      BY <1>8 DEF OnError
    <3> QED
      BY <1>0, <2>2, <3>1 DEF RetriesCounted, Exhausted
  <2> QED
    BY <1>8, <2>1, <2>2 DEF OnError
<1>9. ASSUME NEW i \in Attempts, OnCanceled(i) PROVE RetriesCounted'
  BY <1>9, <1>t DEF OnCanceled, Canceled, Terminal
<1>10. CASE UNCHANGED vars
  BY <1>10 DEF vars, RetriesCounted, Current
<1> QED
  BY <1>1, <1>2, <1>3, <1>4, <1>5, <1>6, <1>7, <1>8, <1>9, <1>10
     DEF Next, StreamEnds

\* Whatever the provider's streams do, the provider is called no more than
\* maxRetries + 1 times unless 'ready' is emitted.
THEOREM LimitKept == Spec => []AttemptsAreLimited
<1> DEFINE Inv == TypeInv /\ RetriesCounted
<1>1. Init => Inv
  <2> SUFFICES ASSUME Init PROVE RetriesCounted
    BY InitType
  <2> QED
    BY RetryAssumption DEF Init, RetriesCounted
<1>2. Inv /\ [Next]_vars => Inv'
  BY NextType, NextRetriesCounted
<1>3. Inv => AttemptsAreLimited
  <2> SUFFICES ASSUME TypeInv, RetriesCounted PROVE AttemptsAreLimited
    OBVIOUS
  <2>1. retries \in Nat /\ sinceReady \in Nat /\ MaxRetries \in Int
    BY RetryAssumption DEF TypeInv, TypeOK
  <2> QED
    BY <2>1 DEF RetriesCounted, AttemptsAreLimited
<1> QED
  BY <1>1, <1>2, <1>3, PTL DEF Spec

-----------------------------------------------------------------------------
(***************************************************************************)
(* The retrier is never left with nothing to wait for.                     *)
(***************************************************************************)
\* An attempt has been accepted, or sleeps, or goes on.
UnderWay(i) ==
  \/ i \in accepted \union sleeping
  \/ streams[i].phase \in {"waiting", "ready"} /\ ~streams[i].canceled

LoopInv ==
  /\ loop = "over" => Ended
  /\ loop = "none" => streams = <<>> /\ state \in {"initial", "canceled"}
  /\ state \in Terminal => Ended \/ loop = "none"
  /\ \A i \in Attempts : UnderWay(i)

\* As long as a retrier that was started has not ended, its loop awaits an attempt
\* whose promise was accepted, or will be after a sleep, or whose stream has yet to
\* end: StartedEnds needs no more than that these go on.
AttemptGoesOn ==
  loop /= "none" /\ ~Ended => loop = "awaiting" /\ Current \in Attempts /\ UnderWay(Current)

\* An event does not undo an end.
LEMMA EmitEnds ==
  ASSUME emitted \in [Events -> Nat], NEW event \in Events, Emit(event)
  PROVE  /\ Ended => Ended'
         /\ event /= "ready" => Ended'
<1>1. /\ emitted' \in [Events -> Nat]
      /\ emitted'[event] = emitted[event] + 1
      /\ \A e \in Events : e /= event => emitted'[e] = emitted[e]
  BY EmitType
<1>2. \A e \in Events : emitted[e] \in Nat /\ emitted'[e] \in Nat
  BY <1>1
<1>3. emitted'[event] > 0
  BY <1>1, <1>2
<1>4. \A e \in Events : emitted[e] > 0 => emitted'[e] > 0
  BY <1>1, <1>2, <1>3
<1>5. Events = {"ready", "complete", "error", "canceled"}
  BY DEF Events
<1> QED
  BY <1>3, <1>4, <1>5 DEF Ended

LEMMA NextLoop == TypeInv /\ LoopInv /\ [Next]_vars => LoopInv'
<1> SUFFICES ASSUME TypeInv, LoopInv, [Next]_vars PROVE LoopInv'
  OBVIOUS
<1>0. /\ streams \in Seq(Streams) /\ emitted \in [Events -> Nat]
      /\ accepted \subseteq Attempts /\ sleeping \subseteq Attempts
      /\ loop \in {"none", "awaiting", "over"}
      /\ loop = "awaiting" => Current \in Attempts
      /\ {"ready", "complete", "error", "canceled"} = Events
  BY DEF TypeInv, TypeOK, AwaitsStream, Events
<1>a. \A i \in Attempts : loop /= "none"
  BY DEF LoopInv, Attempts
\* A step that starts an attempt.
<1>n. ASSUME NewAttempt, state' \notin Terminal, UNCHANGED <<accepted, sleeping>>
      PROVE  LoopInv'
  <2>1. /\ Current \in Nat /\ Attempts = 1..Current /\ Attempts' = 1..(Current + 1)
        /\ streams'[Current + 1].phase = "waiting"
        /\ streams'[Current + 1].canceled = FALSE
        /\ \A k \in Attempts : streams'[k] = streams[k]
    BY <1>0, <1>n, NewAttemptStreams
  <2>2. \A k \in Attempts' : k \in Attempts \/ k = Current + 1
    BY <2>1
  <2>3. \A k \in Attempts' : UnderWay(k)'
    BY <1>n, <2>1, <2>2 DEF LoopInv, UnderWay
  <2>4. loop' = "awaiting"
    BY <1>n DEF NewAttempt
  <2> QED
    BY <1>n, <2>3, <2>4 DEF LoopInv
\* A step of the stream of attempt i.
<1>s. ASSUME NEW i \in Attempts, NEW p, NEW g, NEW c, Becomes(i, p, g, c),
             accepted \subseteq accepted', sleeping \subseteq sleeping', loop' = loop,
             UnderWay(i)', Ended => Ended', state' \in Terminal => Ended'
      PROVE  LoopInv'
  <2>1. \A k \in Attempts : UnderWay(k)'
    BY <1>s DEF LoopInv, UnderWay, Becomes
  <2>2. Attempts' = Attempts /\ loop /= "none"
    BY <1>a, <1>s DEF Becomes
  <2> QED
    BY <1>s, <2>1, <2>2 DEF LoopInv
<1>1. CASE Start
  BY <1>1, <1>n DEF Start, Terminal
<1>2. CASE LoopContinues
  <2>1. CASE state \in Terminal
    <3>1. /\ loop' = "over" /\ loop = "awaiting"
          /\ UNCHANGED <<state, streams, accepted, sleeping, emitted>>
      BY <1>2, <2>1 DEF LoopContinues
    <3>2. Ended /\ Ended'
      BY <2>1, <3>1 DEF LoopInv, Ended
    <3> QED
      BY <3>1, <3>2 DEF LoopInv, UnderWay, Attempts
  <2>2. CASE state \notin Terminal
    BY <1>2, <1>n, <2>2 DEF LoopContinues
  <2> QED
    BY <2>1, <2>2
<1>c. ASSUME NEW i \in Attempts, Canceled(i), UNCHANGED <<loop, sleeping>>
      PROVE  LoopInv'
  <2>1. Becomes(i, streams[i].phase, streams[i].got, TRUE)
    BY <1>0, <1>c, Listeners
  <2>2. Ended'
    BY <1>0, <1>c, EmitEnds DEF Canceled
  <2>3. accepted' = accepted \union {i}
    BY <1>c DEF Canceled
  <2>4. UnderWay(i)'
    BY <2>3 DEF UnderWay
  <2> QED
    BY <1>c, <1>s, <2>1, <2>2, <2>3, <2>4
<1>3. CASE Cancel
  <2>1. CASE loop = "awaiting" /\ Canceled(Current)
    BY <1>0, <1>3, <1>c, <2>1 DEF Cancel
  <2>2. CASE loop /= "awaiting"
    <3>1. state' = "canceled" /\ UNCHANGED <<streams, emitted, accepted, sleeping, loop>>
      BY <1>3, <2>2 DEF Cancel
    <3>2. loop = "over" => Ended /\ Ended'
      BY <3>1 DEF LoopInv, Ended
    <3>3. \A i \in Attempts' : UnderWay(i)'
      BY <3>1 DEF LoopInv, UnderWay, Attempts
    <3> QED
      BY <1>0, <2>2, <3>1, <3>2, <3>3 DEF LoopInv
  <2> QED
    BY <1>3, <2>1, <2>2 DEF Cancel
<1>4. ASSUME NEW i \in Attempts, TimerFires(i) PROVE LoopInv'
  <2>1. UNCHANGED <<state, streams, loop, emitted>>
    BY <1>4 DEF TimerFires
  <2>2. (accepted \union sleeping)' = accepted \union sleeping
    BY <1>4 DEF TimerFires
  <2> QED
    BY <2>1, <2>2 DEF LoopInv, UnderWay, Attempts, Ended
<1>5. ASSUME NEW i \in Attempts, OnReady(i) PROVE LoopInv'
  <2>1. Becomes(i, "ready", streams[i].got, streams[i].canceled)
    BY <1>0, <1>5, Listeners
  <2>2. /\ state' = "ready" /\ Emit("ready") /\ streams[i].phase = "waiting"
        /\ UNCHANGED <<loop, accepted, sleeping>>
    BY <1>5 DEF OnReady
  <2>3. Ended => Ended'
    BY <1>0, <2>2, EmitEnds
  <2>4. UnderWay(i)'
    BY <2>1, <2>2 DEF LoopInv, UnderWay, Becomes
  <2> QED
    BY <1>s, <2>1, <2>2, <2>3, <2>4 DEF Terminal
<1>6. ASSUME NEW i \in Attempts, OnMessage(i) PROVE LoopInv'
  <2>1. Becomes(i, streams[i].phase, streams[i].got + 1, streams[i].canceled)
    BY <1>0, <1>6, Listeners
  <2>2. UNCHANGED <<state, loop, accepted, sleeping, emitted>>
    BY <1>6 DEF OnMessage
  <2>3. UnderWay(i)'
    BY <2>1, <2>2 DEF LoopInv, UnderWay, Becomes
  <2>4. (Ended => Ended') /\ (state' \in Terminal => Ended')
    BY <1>a, <2>2 DEF LoopInv, Ended
  <2> QED
    BY <1>s, <2>1, <2>2, <2>3, <2>4
<1>7. ASSUME NEW i \in Attempts, OnComplete(i) PROVE LoopInv'
  <2>1. Becomes(i, "complete", streams[i].got, streams[i].canceled)
    BY <1>0, <1>7, Listeners
  <2>2. Emit("complete") /\ accepted' = accepted \union {i} /\ UNCHANGED <<loop, sleeping>>
    BY <1>7 DEF OnComplete
  <2>3. Ended'
    BY <1>0, <2>2, EmitEnds
  <2>4. UnderWay(i)'
    BY <2>2 DEF UnderWay
  <2> QED
    BY <1>s, <2>1, <2>2, <2>3, <2>4
<1>8. ASSUME NEW i \in Attempts, OnError(i) PROVE LoopInv'
  <2>1. Becomes(i, "failed", streams[i].got, streams[i].canceled)
    BY <1>0, <1>8, Listeners
  <2>2. /\ loop' = loop
        /\ \/ /\ Emit("error")
              /\ accepted' = accepted \union {i} /\ sleeping' = sleeping
           \/ /\ state' = "started" /\ emitted' = emitted
              /\ accepted' = accepted /\ sleeping' = sleeping \union {i}
    BY <1>8 DEF OnError
  <2>3. UnderWay(i)'
    BY <2>2 DEF UnderWay
  <2>4. (Ended => Ended') /\ (state' \in Terminal => Ended')
    <3>1. CASE Emit("error")
      BY <1>0, <3>1, EmitEnds
    <3>2. CASE state' = "started" /\ emitted' = emitted
      BY <3>2 DEF Terminal, Ended
    <3> QED
      BY <2>2, <3>1, <3>2
  <2> QED
    BY <1>s, <2>1, <2>2, <2>3, <2>4
<1>9. ASSUME NEW i \in Attempts, OnCanceled(i) PROVE LoopInv'
  BY <1>9, <1>c DEF OnCanceled
<1>10. CASE UNCHANGED vars
  BY <1>10 DEF vars, LoopInv, UnderWay, Attempts, Ended
<1> QED
  BY <1>1, <1>2, <1>3, <1>4, <1>5, <1>6, <1>7, <1>8, <1>9, <1>10
     DEF Next, StreamEnds

\* Whatever the provider's streams do and when, a retrier that was started and has
\* not ended has an attempt that it waits for, and that will be accepted: no retry,
\* sleep or cancel() leaves the loop without one (what StartedEnds rests on).
THEOREM RetrierGoesOn == Spec => []AttemptGoesOn
<1> DEFINE Inv == TypeInv /\ LoopInv
<1>1. Init => Inv
  <2> SUFFICES ASSUME Init PROVE LoopInv
    BY InitType
  <2> QED
    BY DEF Init, LoopInv, Attempts, Terminal
<1>2. Inv /\ [Next]_vars => Inv'
  BY NextType, NextLoop
<1>3. Inv => AttemptGoesOn
  BY DEF TypeInv, TypeOK, AwaitsStream, LoopInv, AttemptGoesOn
<1> QED
  BY <1>1, <1>2, <1>3, PTL DEF Spec

-----------------------------------------------------------------------------
(***************************************************************************)
(* Streams that emit 'ready' first and nothing once they have failed or    *)
(* were canceled.                                                          *)
(***************************************************************************)
Quiet == ~Late /\ EmitsReady

Live(i) == streams[i].phase \in {"waiting", "ready"} /\ ~streams[i].canceled

LoopFollowsState ==
  /\ state = "initial" => loop = "none"
  /\ loop = "none" => streams = <<>>
  /\ loop = "over" => state \in Terminal

\* No stream is left to change a terminal state.
TerminalIsOver == state \in Terminal => \A i \in Attempts : ~Live(i)

\* The attempts that end while the retrier goes on are those that failed.
SettledFailed ==
  state \notin Terminal =>
    \A i \in accepted \union sleeping :
      streams[i].phase = "failed" /\ ~streams[i].canceled

ReadyIsReady ==
  \A i \in Attempts :
    streams[i].phase = "ready" /\ ~streams[i].canceled => state = "ready"

NoOutcomeYet ==
  state \notin Terminal =>
    emitted["complete"] = 0 /\ emitted["error"] = 0 /\ emitted["canceled"] = 0

OutcomeInv ==
  /\ LoopFollowsState
  /\ TerminalIsOver
  /\ SettledFailed
  /\ OneLiveStream
  /\ ReadyIsReady
  /\ NoOutcomeYet
  /\ OneOutcome

\* Only the current attempt emits, and only as long as nothing has ended.
LEMMA EmitterIsLive ==
  ASSUME Quiet, TypeInv, OutcomeInv, NEW i \in Attempts,
         OnReady(i) \/ OnMessage(i) \/ OnComplete(i) \/ OnError(i) \/ OnCanceled(i)
  PROVE  /\ Live(i)
         /\ i = Current
         /\ state \notin Terminal
         /\ loop = "awaiting"
         /\ i \notin accepted \union sleeping
<1>1. Live(i)
  BY DEF Quiet, Live, MayEmit, OnReady, OnMessage, OnComplete, OnError, OnCanceled
<1>2. i = Current
  <2>1. i \in 1..Current
    BY DEF TypeInv, TypeOK, Attempts, Current
  <2>2. ~(i < Current)
    BY <1>1 DEF OutcomeInv, OneLiveStream, Live
  <2>3. Current \in Nat
    BY DEF TypeInv, TypeOK, Current
  <2> QED
    BY <2>1, <2>2, <2>3
<1>3. state \notin Terminal
  BY <1>1 DEF OutcomeInv, TerminalIsOver
<1>4. loop = "awaiting"
  <2>1. streams /= <<>>
    BY DEF Attempts
  <2> QED
    BY <1>3, <2>1 DEF TypeInv, TypeOK, OutcomeInv, LoopFollowsState
<1>5. i \notin accepted \union sleeping
  BY <1>1, <1>3 DEF OutcomeInv, SettledFailed, Live
<1> QED
  BY <1>1, <1>2, <1>3, <1>4, <1>5

LEMMA NextOutcome ==
  Quiet /\ TypeInv /\ OutcomeInv /\ [Next]_vars => OutcomeInv'
<1> SUFFICES ASSUME Quiet, TypeInv, OutcomeInv, [Next]_vars PROVE OutcomeInv'
  OBVIOUS
<1>0. /\ streams \in Seq(Streams) /\ accepted \subseteq Attempts
      /\ sleeping \subseteq Attempts /\ emitted \in [Events -> Nat]
      /\ Current \in Nat /\ Attempts = 1..Current
  BY DEF TypeInv, TypeOK, Current, Attempts
<1>e. /\ {"ready", "complete", "error", "canceled"} = Events
      /\ \A event \in Events : emitted[event] \in Nat
  BY <1>0 DEF Events
\* Starting an attempt when all the earlier ones have failed.
<1>n. ASSUME NewAttempt, UNCHANGED <<accepted, sleeping, emitted>>,
             state' \notin Terminal \union {"initial"}, state \notin Terminal,
             \A k \in Attempts : streams[k].phase = "failed" /\ ~streams[k].canceled
      PROVE  OutcomeInv'
  <2>0. /\ Current' = Current + 1 /\ Attempts' = 1..(Current + 1)
        /\ streams'[Current + 1].phase = "waiting"
        /\ \A k \in Attempts : streams'[k] = streams[k]
    BY <1>0, <1>n, NewAttemptStreams
  <2>1. LoopFollowsState'
    <3>1. loop' = "awaiting"
      BY <1>n DEF NewAttempt
    <3> QED
      BY <1>n, <3>1 DEF LoopFollowsState
  <2>2. TerminalIsOver'
    BY <1>n DEF TerminalIsOver
  <2>3. SettledFailed'
    BY <1>0, <1>n, <2>0 DEF SettledFailed
  <2>4. OneLiveStream'
    BY <1>0, <1>n, <2>0 DEF OneLiveStream
  <2>5. ReadyIsReady'
    BY <1>0, <1>n, <2>0 DEF ReadyIsReady
  <2>6. NoOutcomeYet' /\ OneOutcome'
    BY <1>n DEF OutcomeInv, NoOutcomeYet, OneOutcome
  <2> QED
    BY <2>1, <2>2, <2>3, <2>4, <2>5, <2>6 DEF OutcomeInv
<1>1. CASE Start
  <2>1. Attempts = {} /\ state \notin Terminal
    <3>1. state = "initial"
      BY <1>1 DEF Start
    <3>2. streams = <<>>
      BY <3>1 DEF OutcomeInv, LoopFollowsState
    <3> QED
      BY <3>1, <3>2 DEF Attempts, Terminal
  <2> QED
    BY <1>1, <1>n, <2>1 DEF Start, Terminal
<1>2. CASE LoopContinues
  <2>1. CASE state \in Terminal
    BY <1>2, <2>1 DEF LoopContinues, OutcomeInv, LoopFollowsState, TerminalIsOver, SettledFailed,
       OneLiveStream, ReadyIsReady, NoOutcomeYet, OneOutcome, Attempts, Current, Live
  <2>2. CASE state \notin Terminal
    <3>1. \A k \in Attempts : streams[k].phase = "failed" /\ ~streams[k].canceled
      BY <1>0, <1>2, <2>2 DEF LoopContinues, OutcomeInv, SettledFailed, OneLiveStream
    <3>2. state /= "initial"
      BY <1>2 DEF LoopContinues, OutcomeInv, LoopFollowsState
    <3> QED
      BY <1>2, <1>n, <2>2, <3>1, <3>2 DEF LoopContinues
  <2> QED
    BY <2>1, <2>2
\* The current stream changes from live to ended.
<1>l. ASSUME NEW i \in Attempts, i = Current, NEW p, NEW g, NEW c, Becomes(i, p, g, c),
             loop' = loop, loop = "awaiting"
      PROVE  /\ LoopFollowsState' <=> state' /= "initial"
             /\ OneLiveStream'
             /\ \A k \in Attempts' : k /= i =>
                  streams'[k].phase = "failed" /\ ~streams'[k].canceled
  <2>0. /\ Attempts' = Attempts /\ Current' = Current
        /\ \A k \in Attempts : k /= i => streams'[k] = streams[k]
    BY <1>l DEF Becomes
  <2>1. \A k \in Attempts : k /= i =>
          streams[k].phase = "failed" /\ ~streams[k].canceled
    BY <1>0, <1>l DEF OutcomeInv, OneLiveStream
  <2>2. \A k \in Attempts' : k /= i =>
          streams'[k].phase = "failed" /\ ~streams'[k].canceled
    BY <2>0, <2>1
  <2>3. OneLiveStream'
    BY <1>0, <1>l, <2>0, <2>2 DEF OneLiveStream
  <2> QED
    BY <1>l, <2>2, <2>3 DEF LoopFollowsState
<1>3. CASE Cancel
  <2>1. CASE loop = "awaiting"
    <3>0. /\ Canceled(Current) /\ Current \in Attempts
          /\ UNCHANGED <<retries, loop, sleeping, forwarded, sinceReady>>
      BY <1>3, <2>1 DEF Cancel, TypeInv, AwaitsStream
    <3>1. Becomes(Current, streams[Current].phase, streams[Current].got, TRUE)
      BY <1>0, <3>0, Listeners
    <3>2. state' = "canceled" /\ Emit("canceled")
      BY <3>0 DEF Canceled
    <3>3. LoopFollowsState' /\ OneLiveStream'
      BY <1>l, <2>1, <3>0, <3>1, <3>2
    <3>4. TerminalIsOver' /\ ReadyIsReady'
      <4>1. \A k \in Attempts' : k /= Current => streams'[k].phase = "failed"
        BY <1>l, <2>1, <3>0, <3>1
      <4>2. streams'[Current].canceled = TRUE
        BY <3>1 DEF Becomes
      <4> QED
        BY <4>1, <4>2 DEF TerminalIsOver, ReadyIsReady, Live
    <3>5. OneOutcome'
      BY <1>e, <3>2, <1>0, EmitType DEF OutcomeInv, OneOutcome
    <3> QED
      BY <3>2, <3>3, <3>4, <3>5
         DEF OutcomeInv, SettledFailed, NoOutcomeYet, Terminal
  <2>2. CASE loop /= "awaiting"
    <3>1. state' = "canceled" /\ UNCHANGED <<streams, emitted, accepted, sleeping, loop>>
      BY <1>3, <2>2 DEF Cancel
    <3>2. \A k \in Attempts : ~Live(k)
      BY <2>2 DEF TypeInv, TypeOK, OutcomeInv, LoopFollowsState, TerminalIsOver, Attempts
    <3>3. UNCHANGED <<Attempts, Current>>
      BY <3>1 DEF Attempts, Current
    <3>4. TerminalIsOver' /\ ReadyIsReady'
      BY <3>1, <3>2, <3>3 DEF TerminalIsOver, ReadyIsReady, Live
    <3>5. LoopFollowsState' /\ SettledFailed' /\ NoOutcomeYet'
      BY <3>1 DEF OutcomeInv, LoopFollowsState, SettledFailed, NoOutcomeYet, Terminal
    <3>6. OneLiveStream' /\ OneOutcome'
      BY <3>1, <3>3 DEF OutcomeInv, OneLiveStream, OneOutcome
    <3> QED
      BY <3>4, <3>5, <3>6 DEF OutcomeInv
  <2> QED
    BY <2>1, <2>2
<1>4. ASSUME NEW i \in Attempts, TimerFires(i) PROVE OutcomeInv'
  <2>1. UNCHANGED <<state, streams, loop, emitted>>
    BY <1>4 DEF TimerFires
  <2>2. (accepted \union sleeping)' = accepted \union sleeping
    BY <1>4 DEF TimerFires
  <2>3. SettledFailed'
    BY <2>1, <2>2 DEF OutcomeInv, SettledFailed
  <2> QED
    BY <2>1, <2>3
       DEF OutcomeInv, LoopFollowsState, TerminalIsOver, OneLiveStream, ReadyIsReady,
           NoOutcomeYet, OneOutcome, Attempts, Current, Live
<1>5. ASSUME NEW i \in Attempts, OnReady(i) PROVE OutcomeInv'
  <2>0. /\ i = Current /\ state \notin Terminal /\ loop = "awaiting"
        /\ i \notin accepted \union sleeping
    BY <1>5, EmitterIsLive
  <2>1. Becomes(i, "ready", streams[i].got, streams[i].canceled)
    BY <1>0, <1>5, Listeners
  <2>2. /\ state' = "ready" /\ Emit("ready")
        /\ UNCHANGED <<loop, accepted, sleeping>>
    BY <1>5 DEF OnReady
  <2>3. LoopFollowsState' /\ OneLiveStream'
    BY <1>l, <2>0, <2>1, <2>2
  <2>4. SettledFailed'
    BY <1>l, <1>0, <2>0, <2>1, <2>2 DEF SettledFailed, Becomes
  <2>5. TerminalIsOver' /\ ReadyIsReady'
    BY <2>2 DEF TerminalIsOver, ReadyIsReady, Terminal
  <2>6. NoOutcomeYet' /\ OneOutcome'
    BY <1>e, <2>0, <2>2, <1>0, EmitType DEF OutcomeInv, NoOutcomeYet, OneOutcome
  <2> QED
    BY <2>3, <2>4, <2>5, <2>6 DEF OutcomeInv
<1>6. ASSUME NEW i \in Attempts, OnMessage(i) PROVE OutcomeInv'
  <2>0. /\ i = Current /\ state \notin Terminal /\ loop = "awaiting"
        /\ i \notin accepted \union sleeping
    BY <1>6, EmitterIsLive
  <2>1. Becomes(i, streams[i].phase, streams[i].got + 1, streams[i].canceled)
    BY <1>0, <1>6, Listeners
  <2>2. UNCHANGED <<state, loop, accepted, sleeping, emitted>>
    BY <1>6 DEF OnMessage
  <2>3. LoopFollowsState' /\ OneLiveStream'
    BY <1>l, <2>0, <2>1, <2>2 DEF OutcomeInv, LoopFollowsState
  <2>4. SettledFailed'
    BY <1>l, <1>0, <2>0, <2>1, <2>2 DEF SettledFailed, Becomes
  <2>5. TerminalIsOver'
    BY <2>0, <2>2 DEF TerminalIsOver
  <2>6. ReadyIsReady'
    BY <2>1, <2>2 DEF OutcomeInv, ReadyIsReady, Becomes
  <2>7. NoOutcomeYet' /\ OneOutcome'
    BY <2>2 DEF OutcomeInv, NoOutcomeYet, OneOutcome
  <2> QED
    BY <2>3, <2>4, <2>5, <2>6, <2>7 DEF OutcomeInv
<1>7. ASSUME NEW i \in Attempts, OnComplete(i) PROVE OutcomeInv'
  <2>0. i = Current /\ state \notin Terminal /\ loop = "awaiting"
    BY <1>7, EmitterIsLive
  <2>1. Becomes(i, "complete", streams[i].got, streams[i].canceled)
    BY <1>0, <1>7, Listeners
  <2>2. state' = "complete" /\ Emit("complete") /\ UNCHANGED loop
    BY <1>7 DEF OnComplete
  <2>3. LoopFollowsState' /\ OneLiveStream'
    BY <1>l, <2>0, <2>1, <2>2
  <2>4. TerminalIsOver' /\ ReadyIsReady'
    <3>1. \A k \in Attempts' : streams'[k].phase \in {"failed", "complete"}
      BY <1>l, <2>0, <2>1, <2>2 DEF Becomes
    <3> QED
      BY <3>1 DEF TerminalIsOver, ReadyIsReady, Live
  <2>5. OneOutcome'
    <3>1. emitted["complete"] = 0 /\ emitted["error"] = 0
      BY <2>0 DEF OutcomeInv, NoOutcomeYet
    <3>2. emitted'["complete"] = 1 /\ emitted'["error"] = 0
      BY <1>e, <1>0, <2>2, <3>1, EmitType
    <3> QED
      BY <3>2 DEF OneOutcome
  <2> QED
    BY <2>2, <2>3, <2>4, <2>5 DEF OutcomeInv, SettledFailed, NoOutcomeYet, Terminal
<1>8. ASSUME NEW i \in Attempts, OnError(i) PROVE OutcomeInv'
  <2>0. i = Current /\ state \notin Terminal /\ loop = "awaiting" /\ Live(i)
    BY <1>8, EmitterIsLive
  <2>1. Becomes(i, "failed", streams[i].got, streams[i].canceled)
    BY <1>0, <1>8, Listeners
  <2>2. UNCHANGED loop /\ state' \in {"abandoned", "started"}
    BY <1>8 DEF OnError
  <2>3. LoopFollowsState' /\ OneLiveStream'
    BY <1>l, <2>0, <2>1, <2>2
  <2>4. \A k \in Attempts' : streams'[k].phase = "failed" /\ ~streams'[k].canceled
    BY <1>l, <2>0, <2>1, <2>2 DEF Becomes, Live
  <2>5. TerminalIsOver' /\ ReadyIsReady'
    BY <2>4 DEF TerminalIsOver, ReadyIsReady, Live
  <2>6. SettledFailed'
    <3>1. (accepted \union sleeping)' \subseteq Attempts'
      BY <1>8, NextType DEF TypeInv, TypeOK
    <3> QED
      BY <2>4, <3>1 DEF SettledFailed
  <2>7. NoOutcomeYet' /\ OneOutcome'
    <3>1. CASE state' = "abandoned" /\ Emit("error")
      <4>1. emitted["complete"] = 0 /\ emitted["error"] = 0
        BY <2>0 DEF OutcomeInv, NoOutcomeYet
      <4>2. emitted'["complete"] = 0 /\ emitted'["error"] = 1
        BY <1>e, <1>0, <3>1, <4>1, EmitType
      <4> QED
        BY <3>1, <4>2 DEF NoOutcomeYet, OneOutcome, Terminal
    <3>2. CASE UNCHANGED emitted
      BY <2>0, <3>2 DEF OutcomeInv, NoOutcomeYet, OneOutcome
    <3> QED
      BY <1>8, <3>1, <3>2 DEF OnError
  <2> QED
    BY <2>3, <2>5, <2>6, <2>7 DEF OutcomeInv
<1>9. ASSUME NEW i \in Attempts, OnCanceled(i) PROVE OutcomeInv'
  <2>0. i = Current /\ state \notin Terminal /\ loop = "awaiting"
    BY <1>9, EmitterIsLive
  <2>1. Becomes(i, streams[i].phase, streams[i].got, TRUE)
    BY <1>0, <1>9, Listeners DEF OnCanceled
  <2>2. state' = "canceled" /\ Emit("canceled") /\ UNCHANGED loop
    BY <1>9 DEF OnCanceled, Canceled
  <2>3. LoopFollowsState' /\ OneLiveStream'
    BY <1>l, <2>0, <2>1, <2>2
  <2>4. TerminalIsOver' /\ ReadyIsReady'
    <3>1. \A k \in Attempts' : k /= i => streams'[k].phase = "failed"
      BY <1>l, <2>0, <2>1, <2>2
    <3>2. streams'[i].canceled = TRUE
      BY <2>1 DEF Becomes
    <3> QED
      BY <3>1, <3>2 DEF TerminalIsOver, ReadyIsReady, Live
  <2>5. OneOutcome'
    BY <1>e, <2>2, <1>0, EmitType DEF OutcomeInv, OneOutcome
  <2> QED
    BY <2>2, <2>3, <2>4, <2>5 DEF OutcomeInv, SettledFailed, NoOutcomeYet, Terminal
<1>10. CASE UNCHANGED vars
  BY <1>10 DEF vars, OutcomeInv, LoopFollowsState, TerminalIsOver, SettledFailed,
     OneLiveStream, ReadyIsReady, NoOutcomeYet, OneOutcome, Attempts, Current, Live
<1> QED
  BY <1>1, <1>2, <1>3, <1>4, <1>5, <1>6, <1>7, <1>8, <1>9, <1>10
     DEF Next, StreamEnds

-----------------------------------------------------------------------------
(***************************************************************************)
(* What is emitted.                                                        *)
(***************************************************************************)
\* Every message that an attempt got was forwarded.
AllForwarded ==
  \A i \in Attempts : \A m \in 1..streams[i].got :
    \E j \in 1..Len(forwarded) : forwarded[j] = [attempt |-> i, message |-> m]

\* The last message forwarded is the last one the current attempt got, if it got any.
LastForwarded ==
  streams /= <<>> =>
    \/ /\ streams[Current].got = 0
       /\ \A j \in 1..Len(forwarded) : forwarded[j].attempt < Current
    \/ /\ streams[Current].got > 0
       /\ Len(forwarded) > 0
       /\ forwarded[Len(forwarded)].attempt = Current
       /\ forwarded[Len(forwarded)].message = streams[Current].got

ContentInv ==
  /\ AllForwarded
  /\ LastForwarded
  /\ ForwardedInOrder

\* A new entry at the end of the sequence.
LEMMA EntryAppended ==
  ASSUME NEW S, NEW f \in Seq(S), NEW e \in S, NEW g, g = Append(f, e)
  PROVE  /\ Len(f) \in Nat
         /\ Len(g) = Len(f) + 1
         /\ g[Len(f) + 1] = e
         /\ \A j \in 1..Len(f) : g[j] = f[j]
OBVIOUS

LEMMA NextContent ==
  Quiet /\ TypeInv /\ OutcomeInv /\ ContentInv /\ [Next]_vars => ContentInv'
<1> SUFFICES ASSUME Quiet, TypeInv, OutcomeInv, ContentInv, [Next]_vars
             PROVE  ContentInv'
  OBVIOUS
<1> DEFINE Entry == [attempt : Attempts, message : 1..MaxMessages]
<1>0. /\ streams \in Seq(Streams) /\ forwarded \in Seq(Entry)
      /\ Current \in Nat /\ Attempts = 1..Current
  BY DEF TypeInv, TypeOK, Current, Attempts
<1>e. \A j \in 1..Len(forwarded) : forwarded[j] \in Entry
  <2> HIDE DEF Entry
  <2> QED
    BY <1>0
\* A step that leaves all the counts as they are.
<1>c. ASSUME Attempts' = Attempts, Current' = Current, forwarded' = forwarded,
             streams' \in Seq(Streams),
             \A k \in Attempts : streams'[k].got = streams[k].got
      PROVE  AllForwarded' /\ LastForwarded' /\ ForwardedInOrder'
  <2>1. AllForwarded'
    BY <1>c DEF ContentInv, AllForwarded
  <2>2. LastForwarded'
    <3>1. streams' /= <<>> => streams /= <<>> /\ Current \in Attempts
      BY <1>0, <1>c DEF Attempts, Current
    <3> QED
      BY <1>c, <3>1 DEF ContentInv, LastForwarded
  <2>3. ForwardedInOrder'
    BY <1>c DEF ContentInv, ForwardedInOrder
  <2> QED
    BY <2>1, <2>2, <2>3
\* A listener that counts no message.
<1>b. ASSUME NEW i \in Attempts, NEW p, NEW c, Becomes(i, p, streams[i].got, c),
             forwarded' = forwarded, p \in {"complete", streams[i].phase, "failed", "ready"}
      PROVE  ContentInv'
  <2>1. /\ Attempts' = Attempts /\ Current' = Current /\ streams' \in Seq(Streams)
        /\ \A k \in Attempts : streams'[k].got = streams[k].got
        /\ \A k \in Attempts : k /= i => streams'[k].phase = streams[k].phase
        /\ streams'[i].phase = p
    BY <1>b DEF Becomes
  <2> QED
    BY <1>b, <1>c, <2>1 DEF ContentInv
<1>n. ASSUME NewAttempt, forwarded' = forwarded PROVE ContentInv'
  <2>0. /\ Current' = Current + 1 /\ Attempts' = 1..(Current + 1)
        /\ streams'[Current + 1].phase = "waiting"
        /\ streams'[Current + 1].got = 0
        /\ \A k \in Attempts : streams'[k] = streams[k]
    BY <1>0, <1>n, NewAttemptStreams
  <2>1. AllForwarded'
    <3>1. \A k \in Attempts' : k \in Attempts \/ 1..streams'[k].got = {}
      BY <1>0, <2>0
    <3> QED
      BY <1>n, <2>0, <3>1 DEF ContentInv, AllForwarded
  <2>2. LastForwarded'
    <3>1. \A j \in 1..Len(forwarded) : forwarded[j].attempt \in 1..Current
      BY <1>0, <1>e
    <3> QED
      BY <1>0, <1>n, <2>0, <3>1 DEF LastForwarded
  <2>3. ForwardedInOrder'
    BY <1>n DEF ContentInv, ForwardedInOrder
  <2> QED
    BY <2>1, <2>2, <2>3 DEF ContentInv
\* A step that leaves the streams alone.
<1>u. ASSUME UNCHANGED <<streams, forwarded>> PROVE ContentInv'
  BY <1>u DEF ContentInv, AllForwarded, LastForwarded, ForwardedInOrder, Attempts,
     Current
<1>1. CASE Start
  BY <1>1, <1>n DEF Start
<1>2. CASE LoopContinues
  BY <1>2, <1>n, <1>u DEF LoopContinues
<1>3. CASE Cancel
  <2>1. CASE loop = "awaiting"
    <3>1. Canceled(Current) /\ Current \in Attempts /\ UNCHANGED forwarded
      BY <1>3, <2>1 DEF Cancel, TypeInv, AwaitsStream
    <3>2. Becomes(Current, streams[Current].phase, streams[Current].got, TRUE)
      BY <1>0, <3>1, Listeners
    <3> QED
      BY <1>b, <3>1, <3>2
  <2>2. CASE loop /= "awaiting"
    BY <1>3, <1>u, <2>2 DEF Cancel
  <2> QED
    BY <2>1, <2>2
<1>4. ASSUME NEW i \in Attempts, TimerFires(i) PROVE ContentInv'
  BY <1>4, <1>u DEF TimerFires
<1>5. ASSUME NEW i \in Attempts, OnReady(i) PROVE ContentInv'
  <2>1. Becomes(i, "ready", streams[i].got, streams[i].canceled)
    BY <1>0, <1>5, Listeners
  <2> QED
    BY <1>5, <1>b, <2>1 DEF OnReady
<1>6. ASSUME NEW i \in Attempts, OnMessage(i) PROVE ContentInv'
  <2> DEFINE got == streams[i].got
             e == [attempt |-> i, message |-> got + 1]
             n == Len(forwarded)
  <2>0. i = Current
    BY <1>6, EmitterIsLive
  <2>1. Becomes(i, streams[i].phase, got + 1, streams[i].canceled)
    BY <1>0, <1>6, Listeners
  <2>2. /\ Attempts' = Attempts /\ Current' = Current /\ streams' \in Seq(Streams)
        /\ streams'[i].got = got + 1
        /\ streams'[i].phase = streams[i].phase
        /\ \A k \in Attempts : k /= i => streams'[k] = streams[k]
    BY <2>1 DEF Becomes
  <2>3. state = "ready" /\ streams[i].phase = "ready"
    <3>1. streams[i].phase = "ready" /\ ~streams[i].canceled
      BY <1>6 DEF OnMessage, MayEmit, Quiet
    <3> QED
      BY <3>1 DEF OutcomeInv, ReadyIsReady
  <2>4. got \in 0..MaxMessages /\ got < MaxMessages /\ MaxMessages \in Nat
    <3>1. streams[i] \in Streams
      BY <1>0 DEF Attempts
    <3>2. got \in 0..MaxMessages
      BY <3>1 DEF Streams
    <3>3. got < MaxMessages
      BY <1>6 DEF OnMessage
    <3> QED
      BY <3>2, <3>3, RetryAssumption
  <2>5. e \in Entry /\ e.attempt = i /\ e.message = got + 1
    BY <2>4
  <2>6. /\ n \in Nat /\ Len(forwarded') = n + 1 /\ forwarded'[n + 1] = e
        /\ \A j \in 1..n : forwarded'[j] = forwarded[j]
    <3>1. forwarded' = Append(forwarded, e)
      BY <1>6, <2>3 DEF OnMessage
    <3> HIDE DEF Entry, e
    <3> QED
      BY <1>0, <2>5, <3>1, EntryAppended
  <2>7. AllForwarded'
    <3> SUFFICES ASSUME NEW k \in Attempts, NEW m \in 1..streams'[k].got
                 PROVE  \E j \in 1..(n + 1) :
                          forwarded'[j] = [attempt |-> k, message |-> m]
      BY <2>2, <2>6 DEF AllForwarded
    <3>1. CASE k = i /\ m = got + 1
      BY <2>6, <3>1
    <3>2. CASE ~(k = i /\ m = got + 1)
      <4>1. m \in 1..streams[k].got
        BY <2>2, <2>4, <3>2
      <4>2. PICK j \in 1..n : forwarded[j] = [attempt |-> k, message |-> m]
        BY <4>1 DEF ContentInv, AllForwarded
      <4> QED
        BY <2>6, <4>2
    <3> QED
      BY <3>1, <3>2
  <2>8. LastForwarded'
    BY <2>0, <2>2, <2>4, <2>5, <2>6 DEF LastForwarded
  <2>9. ForwardedInOrder'
    <3> SUFFICES ASSUME NEW j \in 1..(n + 1)
                 PROVE  LET f == forwarded'[j] IN
                        \/ f.message = 1 /\ (j = 1 \/ forwarded'[j - 1].attempt < f.attempt)
                        \/ j > 1 /\ forwarded'[j - 1] = [f EXCEPT !.message = @ - 1]
      BY <2>6 DEF ForwardedInOrder
    <3>1. CASE j \in 1..n
      <4>1. j > 1 => j - 1 \in 1..n
        BY <2>6, <3>1
      <4>2. /\ forwarded'[j] = forwarded[j]
            /\ j > 1 => forwarded'[j - 1] = forwarded[j - 1]
        BY <2>6, <3>1, <4>1
      <4>3. j = 1 \/ j > 1
        BY <3>1
      <4> QED
        BY <3>1, <4>2, <4>3 DEF ContentInv, ForwardedInOrder
    <3>2. CASE j = n + 1
      <4>0. streams /= <<>>
        BY DEF Attempts
      <4>1. CASE got = 0 /\ \A l \in 1..n : forwarded[l].attempt < i
        <5>1. j = 1 \/ j - 1 \in 1..n
          BY <2>6, <3>2
        <5> QED
          BY <2>5, <2>6, <3>2, <4>1, <5>1
      <4>2. CASE got > 0 /\ n > 0 /\ forwarded[n].attempt = i /\ forwarded[n].message = got
        <5>1. j > 1 /\ j - 1 = n /\ n \in 1..n
          BY <2>6, <3>2, <4>2
        <5>2. forwarded[n] \in Entry
          BY <1>e, <5>1
        <5>3. forwarded[n] = [attempt |-> i, message |-> got]
          BY <4>2, <5>2
        <5>4. [e EXCEPT !.message = @ - 1] = [attempt |-> i, message |-> got]
          BY <2>4
        <5> QED
          BY <2>6, <3>2, <5>1, <5>3, <5>4
      <4> QED
        BY <2>0, <4>0, <4>1, <4>2 DEF ContentInv, LastForwarded
    <3> QED
      BY <2>6, <3>1, <3>2
  <2> QED
    BY <2>7, <2>8, <2>9 DEF ContentInv
<1>7. ASSUME NEW i \in Attempts, OnComplete(i) PROVE ContentInv'
  <2>1. Becomes(i, "complete", streams[i].got, streams[i].canceled)
    BY <1>0, <1>7, Listeners
  <2> QED
    BY <1>7, <1>b, <2>1 DEF OnComplete
<1>8. ASSUME NEW i \in Attempts, OnError(i) PROVE ContentInv'
  <2>1. Becomes(i, "failed", streams[i].got, streams[i].canceled)
    BY <1>0, <1>8, Listeners
  <2> QED
    BY <1>8, <1>b, <2>1 DEF OnError
<1>9. ASSUME NEW i \in Attempts, OnCanceled(i) PROVE ContentInv'
  <2>1. Becomes(i, streams[i].phase, streams[i].got, TRUE)
    BY <1>0, <1>9, Listeners DEF OnCanceled
  <2> QED
    BY <1>9, <1>b, <2>1 DEF OnCanceled
<1>10. CASE UNCHANGED vars
  BY <1>10, <1>u DEF vars
<1> QED
  BY <1>1, <1>2, <1>3, <1>4, <1>5, <1>6, <1>7, <1>8, <1>9, <1>10
     DEF Next, StreamEnds

-----------------------------------------------------------------------------
(***************************************************************************)
(* The theorems for quiet streams.                                         *)
(***************************************************************************)
IInv == TypeInv /\ OutcomeInv /\ ContentInv

LEMMA Induction ==
  ASSUME Quiet
  PROVE  (Init => IInv) /\ (IInv /\ [Next]_vars => IInv')
<1>1. ASSUME Init PROVE OutcomeInv /\ ContentInv
  <2>1. /\ state = "initial" /\ loop = "none" /\ streams = <<>> /\ forwarded = <<>>
        /\ accepted = {} /\ sleeping = {}
        /\ \A event \in Events : emitted[event] = 0
    BY <1>1 DEF Init
  <2>2. Attempts = {} /\ state \notin Terminal /\ Len(forwarded) = 0
    BY <2>1 DEF Attempts, Terminal
  <2>3. emitted["complete"] = 0 /\ emitted["error"] = 0 /\ emitted["canceled"] = 0
    BY <2>1 DEF Events
  <2>4. OutcomeInv
    BY <2>1, <2>2, <2>3 DEF OutcomeInv, LoopFollowsState, TerminalIsOver, SettledFailed,
       OneLiveStream, ReadyIsReady, NoOutcomeYet, OneOutcome
  <2>5. ContentInv
    BY <2>1, <2>2 DEF ContentInv, AllForwarded, LastForwarded, ForwardedInOrder
  <2> QED
    BY <2>4, <2>5
<1> QED
  BY <1>1, InitType, NextType, NextOutcome, NextContent DEF IInv

\* A further attempt is started only once all the earlier ones have failed.
THEOREM OneAttemptAtATime == ASSUME Quiet PROVE Spec => []OneLiveStream
<1>1. IInv => OneLiveStream
  BY DEF IInv, OutcomeInv
<1> QED
  BY <1>1, Induction, PTL DEF Spec

\* The retrier emits the messages of its attempts, attempt by attempt, each from the
\* first one on without a gap, and all those of the one that completes.
THEOREM ConcatenationKept == ASSUME Quiet PROVE Spec => []Concatenation
<1>1. IInv => Concatenation
  <2> SUFFICES ASSUME IInv PROVE ForwardedInOrder /\ CompletedIsWhole
    BY DEF Concatenation
  <2>1. ForwardedInOrder /\ AllForwarded /\ streams \in Seq(Streams)
    BY DEF IInv, ContentInv, TypeInv, TypeOK
  <2> QED
    BY <2>1 DEF AllForwarded, CompletedIsWhole
<1> QED
  BY <1>1, Induction, PTL DEF Spec

\* The retrier completes or reports an error, and does so once.
THEOREM OutcomeIsUnique == ASSUME Quiet PROVE Spec => []OneOutcome
<1>1. IInv => OneOutcome
  BY DEF IInv, OutcomeInv
<1> QED
  BY <1>1, Induction, PTL DEF Spec

\* Once the retrier has ended the provider is not called again.
THEOREM ProviderIsLeftAlone == ASSUME Quiet PROVE Spec => ProviderStops
<1>1. IInv /\ [Next]_vars => [Ended => Len(streams') = Len(streams)]_vars
  <2> SUFFICES ASSUME IInv, [Next]_vars, Ended PROVE Len(streams') = Len(streams)
    OBVIOUS
  <2>1. streams \in Seq(Streams) /\ TypeInv /\ OutcomeInv
    BY DEF IInv, TypeInv, TypeOK
  <2>2. state \in Terminal
    BY <2>1 DEF Ended, OutcomeInv, NoOutcomeYet
  <2>3. CASE LoopContinues
    BY <2>2, <2>3 DEF LoopContinues
  <2>4. CASE Cancel
    <3>1. CASE loop = "awaiting"
      <4>1. Canceled(Current) /\ Current \in Attempts
        BY <2>1, <2>4, <3>1 DEF Cancel, TypeInv, AwaitsStream
      <4>2. Current' = Current
        BY <2>1, <4>1, Listeners DEF Becomes
      <4> QED
        BY <4>2 DEF Current
    <3>2. CASE loop /= "awaiting"
      BY <2>4, <3>2 DEF Cancel
    <3> QED
      BY <3>1, <3>2
  <2>5. CASE Start
    BY <2>2, <2>5 DEF Start, Terminal
  <2>6. ASSUME NEW i \in Attempts, TimerFires(i) PROVE streams' = streams
    BY <2>6 DEF TimerFires
  <2>7. ASSUME NEW i \in Attempts,
               OnReady(i) \/ OnMessage(i) \/ OnComplete(i) \/ OnError(i) \/ OnCanceled(i)
        PROVE  FALSE
    BY <2>1, <2>2, <2>7, EmitterIsLive
  <2>8. CASE UNCHANGED vars
    BY <2>8 DEF vars
  <2> QED
    BY <2>3, <2>4, <2>5, <2>6, <2>7, <2>8 DEF Next, StreamEnds
<1> QED
  BY <1>1, Induction, PTL DEF Spec, ProviderStops

-----------------------------------------------------------------------------
(***************************************************************************)
(* The retrier behind the promise.                                         *)
(***************************************************************************)
LEMMA CallStep == [CallNext]_callVars => [Next]_vars
BY DEF CallNext, callVars, vars

\* What holds of a retrier holds of one that has a user: its listeners do not act on
\* it, but for a cancel() that some of them never make.
LEMMA CallIsRetried == CallSpec => Init /\ [][Next]_vars
BY CallStep, PTL DEF CallSpec, CallInit

Entry == [attempt : Attempts, message : 1..MaxMessages]

\* A step forwards nothing or one message, and no other event with a message.
LEMMA ForwardStep ==
  ASSUME TypeInv, Next
  PROVE  \/ forwarded' = forwarded
         \/ /\ emitted' = emitted
            /\ \E i \in Attempts :
                 forwarded' = Append(forwarded, [attempt |-> i,
                                                 message |-> streams[i].got + 1])
BY DEF Next, StreamEnds, Start, LoopContinues, NewAttempt, Cancel, Canceled, TimerFires,
   OnReady, OnMessage, OnComplete, OnError, OnCanceled

\* Only OnComplete emits 'complete'.
LEMMA CompleteStep ==
  ASSUME TypeInv, Next, Emits("complete")
  PROVE  \E i \in Attempts : OnComplete(i)
<1>0. emitted \in [Events -> Nat] /\ {"complete", "ready", "error", "canceled"} \subseteq Events
  BY DEF TypeInv, TypeOK, Events
<1>1. \A event \in Events : event /= "complete" /\ Emit(event) =>
        emitted'["complete"] = emitted["complete"]
  BY <1>0, EmitType
<1>2. ~(emitted'["complete"] = emitted["complete"])
  BY <1>0 DEF Emits
<1>3. ~(emitted' = emitted) /\ ~Emit("ready") /\ ~Emit("error") /\ ~Emit("canceled")
  BY <1>0, <1>1, <1>2
<1> QED
  BY <1>3 DEF Next, StreamEnds, Start, LoopContinues, Cancel, Canceled, TimerFires,
     OnReady, OnMessage, OnError, OnCanceled

-----------------------------------------------------------------------------
(***************************************************************************)
(* Types.                                                                  *)
(***************************************************************************)
CallTypeInv == TypeInv /\ CallTypeOK

\* A settled promise has one of the outcomes.
LEMMA SettleType ==
  ASSUME outcome \in Outcomes, NEW how \in Outcomes, Settle(how)
  PROVE  outcome' \in Outcomes
BY DEF Settle

LEMMA NextCallType == CallTypeInv /\ [CallNext]_callVars => CallTypeInv'
<1> SUFFICES ASSUME CallTypeInv, [CallNext]_callVars PROVE CallTypeInv'
  OBVIOUS
<1>t. TypeInv /\ TypeInv'
  BY CallStep, NextType DEF CallTypeInv
<1>1. CASE UNCHANGED callVars
  BY <1>1, <1>t DEF CallTypeInv, CallTypeOK, callVars, vars, Attempts
<1>2. CASE CallNext
  <2>0. /\ kept \in Seq(Entry) /\ forwarded \in Seq(Entry)
        /\ forwarded' \in Seq(Entry') /\ outcome \in Outcomes /\ slept \in Nat
        /\ user \in {"call", "promise"}
    BY <1>t DEF CallTypeInv, CallTypeOK, TypeInv, TypeOK, Entry
  <2>1. Attempts \subseteq Attempts'
    <3>1. streams \in Seq(Streams)
      BY <1>t DEF TypeInv, TypeOK
    <3>2. ASSUME NewAttempt PROVE Attempts \subseteq Attempts'
      BY <3>1, <3>2, NewAttemptStreams
    <3>3. ASSUME NEW i \in Attempts,
                 OnReady(i) \/ OnMessage(i) \/ OnComplete(i) \/ OnError(i) \/ Canceled(i)
          PROVE  Attempts \subseteq Attempts'
      BY <3>1, <3>3, Listeners DEF Becomes
    <3>4. ASSUME UNCHANGED streams PROVE Attempts \subseteq Attempts'
      BY <3>4 DEF Attempts
    <3>5. loop = "awaiting" => Current \in Attempts
      BY <1>t DEF TypeInv, AwaitsStream
    <3> QED
      BY <1>2, <3>2, <3>3, <3>4, <3>5 DEF CallNext, Next, StreamEnds, Start, LoopContinues,
         Cancel, OnCanceled, TimerFires
  <2>2. kept \in Seq(Entry')
    <3>1. Entry \subseteq Entry'
      BY <2>1 DEF Entry
    <3>2. ASSUME NEW S, NEW T, S \subseteq T, NEW f \in Seq(S) PROVE f \in Seq(T)
      BY <3>2
    <3> QED
      BY ONLY <2>0, <3>1, <3>2
  <2>3. EmitsMessage => forwarded'[Len(forwarded')] \in Entry'
    <3>1. Len(forwarded) \in Nat /\ Len(forwarded') \in Nat
      BY <2>0
    <3>2. \A j \in 1..Len(forwarded') : forwarded'[j] \in Entry'
      <4>1. ASSUME NEW S, NEW f \in Seq(S) PROVE \A j \in 1..Len(f) : f[j] \in S
        OBVIOUS
      <4> QED
        BY ONLY <2>0, <4>1
    <3> QED
      BY <3>1, <3>2 DEF EmitsMessage
  <2>4. kept' \in Seq(Entry')
    <3> DEFINE E == Entry'
               e == forwarded'[Len(forwarded')]
    <3>1. /\ kept' \in {kept, <<e>>, Append(kept, e)}
          /\ kept' /= kept => EmitsMessage
      BY <1>2 DEF CallNext, Listen, OneMessage, CallCompletes, TransformedMessage,
         PromiseCompletes, Rejected, Ignored
    <3>2. EmitsMessage => e \in E
      BY <2>3
    <3>3. kept \in Seq(E)
      BY <2>2
    <3> HIDE DEF E, e
    <3>4. e \in E => <<e>> \in Seq(E) /\ Append(kept, e) \in Seq(E)
      BY ONLY <3>3
    <3>5. kept' \in Seq(E)
      BY ONLY <3>1, <3>2, <3>3, <3>4
    <3> QED
      BY <3>5 DEF E
  <2>5. outcome' \in Outcomes
    <3>1. {"accepted", "protocolError", "error", "canceled"} \subseteq Outcomes
      BY DEF Outcomes
    <3>2. \/ outcome' = outcome
          \/ \E how \in {"accepted", "protocolError", "error", "canceled"} : Settle(how)
      BY <1>2 DEF CallNext, Listen, OneMessage, CallCompletes, TransformedMessage,
         PromiseCompletes, Rejected, Ignored
    <3> QED
      BY <2>0, <3>1, <3>2, SettleType
  <2>6. slept' \in Nat
    <3>1. \A ms : TimeoutMs(ms) \in Nat
      BY BackoffAssumption DEF TimeoutMs
    <3> QED
      BY <1>2, <2>0, <3>1 DEF CallNext, Sleeps
  <2>7. user' \in {"call", "promise"}
    BY <1>2, <2>0 DEF CallNext
  <2> QED
    BY <1>t, <2>4, <2>5, <2>6, <2>7 DEF CallTypeInv, CallTypeOK, Entry
<1> QED
  BY <1>1, <1>2

LEMMA InitCallType == CallInit => CallTypeInv
<1> SUFFICES ASSUME CallInit PROVE CallTypeInv
  OBVIOUS
<1>1. TypeInv
  BY InitType DEF CallInit
<1>2. CallTypeOK
  BY DEF CallInit, CallTypeOK, Outcomes
<1> QED
  BY <1>1, <1>2 DEF CallTypeInv

\* Every variable of a promise keeps its type, for any provider of streams.
THEOREM TypeCorrectCall == CallSpec => []CallTypeOK
<1>1. CallTypeInv => CallTypeOK
  BY DEF CallTypeInv
<1> QED
  BY <1>1, InitCallType, NextCallType, PTL DEF CallSpec

-----------------------------------------------------------------------------
(***************************************************************************)
(* No promise is left pending.                                             *)
(***************************************************************************)
\* A promise is pending only as long as its stream has not ended.
PendingUntilEnd == outcome = "pending" => ~Ended

\* A step emits one event at most.
LEMMA OneEvent ==
  ASSUME TypeInv, Next, NEW e \in Events, NEW f \in Events, Emits(e), Emits(f)
  PROVE  e = f
<1>1. emitted \in [Events -> Nat] /\ {"ready", "complete", "error", "canceled"} = Events
  BY DEF TypeInv, TypeOK, Events
<1>2. emitted' = emitted \/ \E event \in Events : Emit(event)
  BY <1>1 DEF Next, StreamEnds, Start, LoopContinues, Cancel, Canceled, TimerFires, OnReady,
     OnMessage, OnComplete, OnError, OnCanceled
<1>3. \A event \in Events : emitted[event] \in Nat
  BY <1>1
<1>4. emitted' /= emitted
  BY <1>3 DEF Emits
<1>5. PICK event \in Events : Emit(event)
  BY <1>2, <1>4
<1>6. \A x \in Events : x /= event => emitted'[x] = emitted[x]
  BY <1>1, <1>5, EmitType
<1>7. \A x \in Events : Emits(x) => x = event
  BY <1>3, <1>6 DEF Emits
<1> QED
  BY <1>7

LEMMA NextPending ==
  ASSUME CallTypeInv, PendingUntilEnd, [CallNext]_callVars
  PROVE  PendingUntilEnd'
<1>1. CASE UNCHANGED callVars
  BY <1>1 DEF callVars, vars, PendingUntilEnd, Ended
<1>2. CASE CallNext /\ Ended
  BY <1>2 DEF PendingUntilEnd, CallNext, Listen, OneMessage, CallCompletes,
     TransformedMessage, PromiseCompletes, Rejected, Ignored, Settle
<1>3. CASE CallNext /\ ~Ended
  <2> SUFFICES ASSUME Ended' PROVE outcome' /= "pending"
    BY DEF PendingUntilEnd
  <2>0. TypeInv /\ Next /\ emitted \in [Events -> Nat]
        /\ {"ready", "complete", "error", "canceled"} = Events
    BY <1>3 DEF CallTypeInv, CallNext, TypeInv, TypeOK, Events
  <2>1. PICK e \in {"complete", "error", "canceled"} : emitted'[e] > 0
    BY DEF Ended
  <2>2. e \in Events /\ e /= "ready" /\ Emits(e)
    <3>1. e \in Events /\ emitted[e] \in Nat /\ ~(emitted[e] > 0)
      BY <1>3, <2>0, <2>1 DEF Ended
    <3> QED
      BY <2>1, <3>1 DEF Emits
  <2>3. ~Emits("ready")
    BY <2>0, <2>2, OneEvent
  <2>4. emitted' /= emitted
    <3>1. emitted[e] \in Nat
      BY <2>0, <2>2
    <3> QED
      BY <2>2, <3>1 DEF Emits
  <2>5. ~EmitsMessage
    <3>1. forwarded' = forwarded
      BY <2>0, <2>4, ForwardStep
    <3>2. Len(forwarded) \in Nat
      BY <2>0 DEF TypeInv, TypeOK
    <3> QED
      BY <3>1, <3>2 DEF EmitsMessage
  <2>6. \E how \in {"accepted", "protocolError", "error", "canceled"} : Settle(how)
    BY <1>3, <2>3, <2>4, <2>5 DEF CallNext, Listen, OneMessage, CallCompletes,
       TransformedMessage, PromiseCompletes, Rejected, Ignored, EmitsNothing
  <2> QED
    BY <2>6 DEF Settle
<1> QED
  BY <1>1, <1>2, <1>3

\* No event that ends the stream leaves its promise pending: with RetrierGoesOn, a
\* promise that is pending while its stream was started has an attempt to wait for
\* (what CallSettles rests on).
THEOREM PendingMeansUnderWay == CallSpec => [](PendingUntilEnd /\ AttemptGoesOn)
<1> DEFINE Inv == CallTypeInv /\ PendingUntilEnd
<1>1. CallInit => Inv
  <2> SUFFICES ASSUME CallInit PROVE ~Ended
    BY InitCallType DEF PendingUntilEnd
  <2> QED
    BY DEF CallInit, Init, Ended, Events
<1>2. Inv /\ [CallNext]_callVars => Inv'
  BY NextCallType, NextPending
<1>3. CallSpec => []PendingUntilEnd
  BY <1>1, <1>2, PTL DEF CallSpec
<1>4. CallSpec => []AttemptGoesOn
  BY CallIsRetried, RetrierGoesOn, PTL DEF Spec
<1> QED
  BY <1>3, <1>4, PTL

-----------------------------------------------------------------------------
(***************************************************************************)
(* What a promise accepts, over quiet streams.                             *)
(***************************************************************************)
\* As long as a promise is pending it keeps all that was forwarded, which for call()
\* is one message or none.
PendingKeepsAll ==
  outcome = "pending" => kept = forwarded /\ (user = "call" => Len(kept) <= 1)

AcceptedIsOver == outcome = "accepted" => state \in Terminal

PromiseInv ==
  /\ PendingKeepsAll
  /\ AcceptedIsOver
  /\ AcceptedIsWhole

\* Once the retrier is over its attempts do not change, but for cancel().
LEMMA OverStep ==
  ASSUME Quiet, IInv, Next, state \in Terminal
  PROVE  /\ forwarded' = forwarded
         /\ state' \in Terminal
         /\ Attempts' = Attempts
         /\ \A i \in Attempts : /\ streams'[i].phase = streams[i].phase
                               /\ streams'[i].got = streams[i].got
<1>0. TypeInv /\ OutcomeInv /\ streams \in Seq(Streams)
  BY DEF IInv, TypeInv, TypeOK
<1>1. ASSUME NEW i \in Attempts,
             OnReady(i) \/ OnMessage(i) \/ OnComplete(i) \/ OnError(i) \/ OnCanceled(i)
      PROVE  FALSE
  BY <1>0, <1>1, EmitterIsLive
<1>2. CASE Cancel
  <2>1. CASE loop = "awaiting"
    <3>1. Canceled(Current) /\ Current \in Attempts /\ forwarded' = forwarded
      BY <1>0, <1>2, <2>1 DEF Cancel, TypeInv, AwaitsStream
    <3>2. Becomes(Current, streams[Current].phase, streams[Current].got, TRUE)
      BY <1>0, <3>1, Listeners
    <3>3. state' \in Terminal
      BY <3>1 DEF Canceled, Terminal
    <3> QED
      BY <3>1, <3>2, <3>3 DEF Becomes
  <2>2. CASE loop /= "awaiting"
    BY <1>2, <2>2 DEF Cancel, Terminal, Attempts
  <2> QED
    BY <2>1, <2>2
<1>3. CASE LoopContinues
  BY <1>3 DEF LoopContinues, Attempts
<1>4. ASSUME NEW i \in Attempts, TimerFires(i)
      PROVE  UNCHANGED <<state, streams, forwarded>>
  BY <1>4 DEF TimerFires
<1>5. ~Start
  BY DEF Start, Terminal
<1> QED
  BY <1>1, <1>2, <1>3, <1>4, <1>5 DEF Next, StreamEnds, Attempts

\* A promise that is accepted is so in the step in which an attempt completes.
LEMMA AcceptStep ==
  ASSUME Quiet, IInv, CallTypeInv, PromiseInv, CallNext,
         outcome = "pending", outcome' = "accepted"
  PROVE  AcceptedIsOver' /\ AcceptedIsWhole'
<1>0. IInv' /\ TypeInv /\ OutcomeInv /\ streams \in Seq(Streams)
  BY Induction DEF IInv, CallNext, TypeInv, TypeOK
<1>1. /\ Emits("complete")
      /\ kept' = kept
      /\ user = "call" => kept /= <<>>
  BY DEF CallNext, Listen, OneMessage, CallCompletes, TransformedMessage,
     PromiseCompletes, Rejected, Ignored, Settle, CallTypeInv, CallTypeOK
<1>2. PICK i \in Attempts : OnComplete(i)
  BY <1>0, <1>1, CompleteStep DEF CallNext
<1>3. /\ streams'[i].phase = "complete" /\ Attempts' = Attempts
      /\ state' = "complete" /\ forwarded' = forwarded
  BY <1>0, <1>2, Listeners DEF Becomes, OnComplete
<1>4. /\ kept' = forwarded'
      /\ user' = "call" => Len(kept') = 1
  <2>1. kept \in Seq(Entry) /\ user' = user
    BY DEF CallTypeInv, CallTypeOK, Entry, CallNext
  <2>2. kept = forwarded /\ (user = "call" => Len(kept) <= 1)
    BY DEF PromiseInv, PendingKeepsAll
  <2>3. user = "call" => Len(kept) \in Nat /\ Len(kept) > 0
    BY <1>1, <2>1
  <2>4. \A n \in Nat : n > 0 /\ n <= 1 => n = 1
    OBVIOUS
  <2>5. user = "call" => Len(kept) = 1
    BY ONLY <2>2, <2>3, <2>4
  <2> QED
    BY <1>1, <1>3, <2>1, <2>2, <2>5
<1>5. \A m \in 1..streams'[i].got : \E j \in 1..Len(kept') :
        kept'[j] = [attempt |-> i, message |-> m]
  BY <1>0, <1>3, <1>4 DEF IInv, ContentInv, AllForwarded
<1>6. AcceptedIsOver'
  BY <1>3 DEF AcceptedIsOver, Terminal
<1>7. AcceptedIsWhole'
  BY <1>3, <1>4, <1>5 DEF AcceptedIsWhole
<1> QED
  BY <1>6, <1>7

\* What a pending promise keeps grows with what is forwarded.
LEMMA PendingStep ==
  ASSUME Quiet, IInv, CallTypeInv, PromiseInv, CallNext, outcome' = "pending"
  PROVE  PendingKeepsAll'
<1>1. outcome = "pending" /\ kept = forwarded /\ (user = "call" => Len(kept) <= 1)
  BY DEF CallNext, Listen, OneMessage, CallCompletes, TransformedMessage, PromiseCompletes,
     Rejected, Ignored, Settle, PromiseInv, PendingKeepsAll
<1>2. user' = user
  BY DEF CallNext
<1>3. CASE EmitsMessage
  <2>0. forwarded \in Seq(Entry) /\ Next /\ TypeInv
    BY DEF IInv, TypeInv, TypeOK, Entry, CallNext
  <2>1. PICK e : forwarded' = Append(forwarded, e) /\ emitted' = emitted
    <3>1. forwarded' /= forwarded
      BY <1>3, <2>0 DEF EmitsMessage
    <3> QED
      BY <2>0, <3>1, ForwardStep
  <2>2. forwarded'[Len(forwarded')] = e
    BY <2>0, <2>1
  <2>3. \A event \in Events : ~Emits(event)
    BY <2>0, <2>1 DEF Emits, TypeInv, TypeOK
  <2>4. ~Emits("ready") /\ ~Emits("complete") /\ ~Emits("error") /\ ~Emits("canceled")
    BY <2>3 DEF Events
  <2>5. \/ user = "call" /\ OneMessage
        \/ user = "promise" /\ TransformedMessage
    BY <1>3, <2>4 DEF CallNext, Listen, CallCompletes, PromiseCompletes, Rejected, Ignored,
       EmitsNothing
  <2>6. ~Settle("protocolError") /\ ~Settle("error")
    BY <1>1 DEF Settle
  <2>7. \/ user = "call" /\ kept = <<>> /\ kept' = <<e>>
        \/ user = "promise" /\ kept' = Append(kept, e)
    BY <2>2, <2>5, <2>6 DEF OneMessage, TransformedMessage
  <2> QED
    BY <1>1, <1>2, <2>1, <2>7 DEF PendingKeepsAll
<1>4. CASE ~EmitsMessage
  <2>1. forwarded' = forwarded
    <3>1. forwarded \in Seq(Entry) /\ Next /\ TypeInv
      BY DEF IInv, TypeInv, TypeOK, Entry, CallNext
    <3>2. \A e : Len(Append(forwarded, e)) > Len(forwarded)
      BY <3>1
    <3> QED
      BY <1>4, <3>1, <3>2, ForwardStep DEF EmitsMessage
  <2>2. kept' = kept
    BY <1>4 DEF CallNext, Listen, OneMessage, CallCompletes, TransformedMessage,
       PromiseCompletes, Rejected, Ignored
  <2> QED
    BY <1>1, <1>2, <2>1, <2>2 DEF PendingKeepsAll
<1> QED
  BY <1>3, <1>4

LEMMA NextPromise ==
  ASSUME Quiet, IInv, CallTypeInv, PromiseInv, [CallNext]_callVars
  PROVE  PromiseInv'
<1>1. CASE UNCHANGED callVars
  BY <1>1 DEF callVars, vars, PromiseInv, PendingKeepsAll, AcceptedIsOver, AcceptedIsWhole,
     Attempts
<1>2. CASE CallNext
  <2>1. PendingKeepsAll'
    BY <1>2, PendingStep DEF PendingKeepsAll
  <2>2. AcceptedIsOver' /\ AcceptedIsWhole'
    <3>1. CASE outcome' /= "accepted"
      BY <3>1 DEF AcceptedIsOver, AcceptedIsWhole
    <3>2. CASE outcome' = "accepted" /\ outcome = "pending"
      BY <1>2, <3>2, AcceptStep
    <3>3. CASE outcome' = "accepted" /\ outcome /= "pending"
      <4>1. outcome = "accepted" /\ state \in Terminal
        BY <1>2, <3>3 DEF CallNext, Listen, OneMessage, CallCompletes, TransformedMessage,
           PromiseCompletes, Rejected, Ignored, Settle, PromiseInv, AcceptedIsOver
      <4>2. /\ forwarded' = forwarded /\ state' \in Terminal /\ Attempts' = Attempts
            /\ \A i \in Attempts : /\ streams'[i].phase = streams[i].phase
                                  /\ streams'[i].got = streams[i].got
        BY <1>2, <4>1, OverStep DEF CallNext
      <4>3. ~EmitsMessage
        <5>1. Len(forwarded) \in Nat
          BY DEF IInv, TypeInv, TypeOK
        <5> QED
          BY <4>2, <5>1 DEF EmitsMessage
      <4>4. kept' = kept /\ user' = user
        BY <1>2, <4>3 DEF CallNext, Listen, OneMessage, CallCompletes, TransformedMessage,
           PromiseCompletes, Rejected, Ignored
      <4>5. AcceptedIsOver'
        BY <4>2 DEF AcceptedIsOver
      <4>6. AcceptedIsWhole'
        BY <4>1, <4>2, <4>4 DEF PromiseInv, AcceptedIsWhole
      <4> QED
        BY <4>5, <4>6
    <3> QED
      BY <3>1, <3>2, <3>3
  <2> QED
    BY <2>1, <2>2 DEF PromiseInv
<1> QED
  BY <1>1, <1>2

\* Over quiet streams a promise is accepted with all that was emitted, and with all
\* the messages of the attempt that completed.
THEOREM AcceptedMeansWhole == ASSUME Quiet PROVE CallSpec => []AcceptedIsWhole
<1> DEFINE Inv == IInv /\ CallTypeInv /\ PromiseInv
<1>1. CallInit => Inv
  BY Induction, InitCallType
     DEF CallInit, Init, PromiseInv, PendingKeepsAll, AcceptedIsOver, AcceptedIsWhole
<1>2. Inv /\ [CallNext]_callVars => Inv'
  BY CallStep, Induction, NextCallType, NextPromise
<1>3. Inv => AcceptedIsWhole
  BY DEF PromiseInv
<1> QED
  BY <1>1, <1>2, <1>3, PTL DEF CallSpec

-----------------------------------------------------------------------------
(***************************************************************************)
(* What the retrying service reports.                                      *)
(***************************************************************************)
\* An attempt under way has been paid for by the retries since 'ready'; one that
\* failed and is to be retried has been counted before it is followed by another.
RetriesFollow ==
  /\ state = "initial" => retries = 0 /\ sinceReady = 0 /\ emitted["ready"] = 0
  /\ \A i \in Attempts :
       /\ Live(i) => retries = RetriesMade
       /\ i = Current /\ streams[i].phase = "failed" /\ state \notin Terminal =>
            retries = RetriesMade + 1

\* The errors of a stream are counted by OnError alone.
LEMMA ErrorStep ==
  ASSUME TypeInv, Next, ServiceError
  PROVE  \E i \in Attempts : OnError(i)
<1>0. streams \in Seq(Streams) /\ Attempts = 1..Len(streams)
  BY DEF TypeInv, TypeOK, Attempts
<1>1. PICK k \in Attempts : streams'[k].errors > streams[k].errors
  BY DEF ServiceError
<1>2. streams[k] \in Streams /\ streams[k].errors \in Nat
  <2>1. streams[k] \in Streams
    BY <1>0
  <2> QED
    BY <2>1 DEF Streams
<1>3. streams'[k].errors /= streams[k].errors
  BY <1>1, <1>2
<1>s. ASSUME NEW i \in Attempts, NEW t, streams' = [streams EXCEPT ![i] = t],
             t.errors = streams[i].errors
      PROVE  FALSE
  BY <1>0, <1>3, <1>s
<1>r. ASSUME NEW i \in Attempts
      PROVE  /\ \A p : [streams[i] EXCEPT !.phase = p].errors = streams[i].errors
             /\ [streams[i] EXCEPT !.got = @ + 1].errors = streams[i].errors
             /\ [streams[i] EXCEPT !.canceled = TRUE].errors = streams[i].errors
  <2>1. streams[i] \in Streams
    BY <1>0
  <2> QED
    BY <2>1 DEF Streams
<1>4. ASSUME NEW i \in Attempts, Canceled(i) PROVE FALSE
  BY <1>4, <1>r, <1>s DEF Canceled
<1>5. ~Start /\ ~LoopContinues
  <2>1. ~NewAttempt
    BY <1>0, <1>3, NewAttemptStreams
  <2> QED
    BY <1>3, <2>1 DEF Start, LoopContinues
<1>6. ~Cancel
  BY <1>3, <1>4 DEF Cancel, TypeInv, AwaitsStream
<1>7. ASSUME NEW i \in Attempts,
             OnReady(i) \/ OnMessage(i) \/ OnComplete(i) \/ OnCanceled(i) \/ TimerFires(i)
      PROVE  FALSE
  <2>1. CASE OnReady(i)
    BY <1>r, <1>s, <2>1 DEF OnReady
  <2>2. CASE OnMessage(i)
    BY <1>r, <1>s, <2>2 DEF OnMessage
  <2>3. CASE OnComplete(i)
    BY <1>r, <1>s, <2>3 DEF OnComplete
  <2>4. CASE OnCanceled(i)
    BY <1>4, <2>4 DEF OnCanceled
  <2>5. CASE TimerFires(i)
    BY <1>3, <2>5 DEF TimerFires
  <2> QED
    BY <1>7, <2>1, <2>2, <2>3, <2>4, <2>5
<1> QED
  BY <1>5, <1>6, <1>7 DEF Next, StreamEnds

LEMMA NextFollows ==
  ASSUME Quiet, IInv, RetriesFollow, [Next]_vars
  PROVE  RetriesFollow'
<1>0. /\ TypeInv /\ OutcomeInv /\ streams \in Seq(Streams) /\ retries \in Nat
      /\ sinceReady \in Nat /\ emitted \in [Events -> Nat]
      /\ Current \in Nat /\ Attempts = 1..Current
      /\ IInv'
  BY Induction DEF IInv, TypeInv, TypeOK, Current, Attempts
<1>e. /\ {"ready", "complete", "error", "canceled"} = Events
      /\ emitted["ready"] \in Nat /\ RetriesMade \in Int
  BY <1>0 DEF Events, RetriesMade
\* A step that ends an attempt for good.
<1>t. ASSUME state' \in Terminal PROVE RetriesFollow'
  <2>1. \A i \in Attempts' : ~Live(i)'
    BY <1>0, <1>t DEF IInv, OutcomeInv, TerminalIsOver
  <2> QED
    BY <1>t, <2>1 DEF RetriesFollow, Terminal
\* The attempt that follows a failure, or the first one.
<1>n. ASSUME NewAttempt, UNCHANGED <<retries, emitted>>, retries = RetriesMade + 1,
             state' /= "initial",
             \A k \in Attempts : streams[k].phase = "failed" /\ ~streams[k].canceled
      PROVE  RetriesFollow'
  <2>1. /\ Current' = Current + 1 /\ Attempts' = 1..(Current + 1)
        /\ streams'[Current + 1].phase = "waiting"
        /\ \A k \in Attempts : streams'[k] = streams[k]
    BY <1>0, <1>n, NewAttemptStreams
  <2>2. RetriesMade' = RetriesMade + 1
    BY <1>0, <1>n, <1>e DEF NewAttempt, RetriesMade
  <2>3. \A k \in Attempts' : k \in Attempts \/ k = Current + 1
    BY <1>0, <2>1
  <2>4. \A k \in Attempts : ~Live(k)'
    BY <1>n, <2>1 DEF Live
  <2>5. \A k \in Attempts' : Live(k)' => retries' = RetriesMade'
    BY <1>n, <2>2
  <2>6. \A k \in Attempts' : ~(k = Current' /\ streams'[k].phase = "failed")
    BY <2>1
  <2> QED
    BY <1>n, <2>5, <2>6 DEF RetriesFollow
<1>1. CASE Start
  <2>1. /\ retries = 0 /\ RetriesMade = 0 - 1 /\ Attempts = {}
    BY <1>0, <1>1 DEF Start, RetriesFollow, RetriesMade, OutcomeInv, LoopFollowsState, Attempts
  <2> QED
    BY <1>1, <1>n, <2>1 DEF Start
<1>2. CASE LoopContinues
  <2>1. CASE state \in Terminal
    BY <1>2, <1>t, <2>1 DEF LoopContinues
  <2>2. CASE state \notin Terminal
    <3>1. \A k \in Attempts : streams[k].phase = "failed" /\ ~streams[k].canceled
      BY <1>0, <1>2, <2>2 DEF LoopContinues, OutcomeInv, SettledFailed, OneLiveStream
    <3>2. Current \in Attempts /\ state /= "initial"
      BY <1>0, <1>2 DEF LoopContinues, OutcomeInv, LoopFollowsState, TypeInv, AwaitsStream
    <3>3. retries = RetriesMade + 1
      BY <2>2, <3>1, <3>2 DEF RetriesFollow
    <3> QED
      BY <1>2, <1>n, <2>2, <3>1, <3>2, <3>3 DEF LoopContinues
  <2> QED
    BY <2>1, <2>2
<1>3. CASE Cancel
  BY <1>3, <1>t DEF Cancel, Canceled, Terminal
\* A step that keeps the attempts, the counts and the phase of each attempt.
<1>k. ASSUME Attempts' = Attempts, Current' = Current, state' = state,
             UNCHANGED <<retries, emitted, sinceReady>>,
             \A k \in Attempts : /\ streams'[k].phase = streams[k].phase
                                /\ streams'[k].canceled = streams[k].canceled
      PROVE  RetriesFollow'
  <2>1. RetriesMade' = RetriesMade
    BY <1>k DEF RetriesMade
  <2>2. \A k \in Attempts : Live(k)' = Live(k)
    BY <1>k DEF Live
  <2> QED
    BY <1>k, <2>1, <2>2 DEF RetriesFollow
<1>4. ASSUME NEW i \in Attempts, TimerFires(i) PROVE RetriesFollow'
  BY <1>4, <1>k DEF TimerFires, Attempts, Current
<1>5. ASSUME NEW i \in Attempts, OnMessage(i) PROVE RetriesFollow'
  BY <1>0, <1>5, <1>k, Listeners DEF Becomes, OnMessage
<1>6. ASSUME NEW i \in Attempts, OnReady(i) PROVE RetriesFollow'
  <2>1. retries' = 0 /\ sinceReady' = 0 /\ state' = "ready" /\ Emit("ready")
    BY <1>6 DEF OnReady
  <2>2. emitted'["ready"] = emitted["ready"] + 1
    BY <1>0, <1>e, <2>1, EmitType
  <2>3. RetriesMade' = 0
    BY <1>e, <2>1, <2>2 DEF RetriesMade
  <2>4. i = Current /\ Current' = Current /\ streams'[i].phase = "ready"
    BY <1>0, <1>6, EmitterIsLive, Listeners DEF Becomes
  <2> QED
    BY <2>1, <2>3, <2>4 DEF RetriesFollow
<1>7. ASSUME NEW i \in Attempts, OnComplete(i) \/ OnCanceled(i) PROVE RetriesFollow'
  BY <1>7, <1>t DEF OnComplete, OnCanceled, Canceled, Terminal
<1>8. ASSUME NEW i \in Attempts, OnError(i) PROVE RetriesFollow'
  <2>1. CASE state' = "abandoned"
    BY <1>t, <2>1 DEF Terminal
  <2>2. CASE state' /= "abandoned"
    <3>1. /\ state' = "started" /\ retries' = retries + 1
          /\ UNCHANGED <<emitted, sinceReady>>
      BY <1>8, <2>2 DEF OnError
    <3>2. Live(i) /\ i = Current
      BY <1>0, <1>8, EmitterIsLive
    <3>3. RetriesMade' = RetriesMade /\ retries = RetriesMade
      BY <3>1, <3>2 DEF RetriesFollow, RetriesMade
    <3>4. /\ Attempts' = Attempts /\ Current' = Current /\ streams'[i].phase = "failed"
          /\ \A k \in Attempts : k /= i => streams'[k] = streams[k]
      BY <1>0, <1>8, Listeners DEF Becomes
    <3>5. \A k \in Attempts' : ~Live(k)'
      BY <1>0, <3>2, <3>4 DEF Live, OutcomeInv, OneLiveStream
    <3> QED
      BY <3>1, <3>3, <3>5 DEF RetriesFollow
  <2> QED
    BY <2>1, <2>2
<1>9. CASE UNCHANGED vars
  BY <1>9, <1>k DEF vars, Attempts, Current
<1> QED
  BY <1>1, <1>2, <1>3, <1>4, <1>5, <1>6, <1>7, <1>8, <1>9 DEF Next, StreamEnds

\* Over quiet streams 'serviceError' reports the retries made since the method last
\* was ready.
THEOREM ReportsAreRight == ASSUME Quiet PROVE CallSpec => RetriesAreReported
<1> DEFINE Inv == IInv /\ RetriesFollow
<1>1. CallInit => Inv
  BY Induction DEF CallInit, Init, RetriesFollow, Attempts, Events
<1>2. Inv /\ [CallNext]_callVars => Inv'
  BY CallStep, Induction, NextFollows
<1>3. Inv /\ [CallNext]_callVars =>
        [ServiceError => RetriesSinceLastReady = RetriesMade]_callVars
  <2> SUFFICES ASSUME Inv, CallNext, ServiceError PROVE retries = RetriesMade
    BY DEF RetriesSinceLastReady, callVars
  <2>1. PICK i \in Attempts : OnError(i)
    BY ErrorStep DEF IInv, CallNext
  <2>2. Live(i)
    BY <2>1, EmitterIsLive DEF IInv
  <2> QED
    BY <2>2 DEF RetriesFollow
<1> QED
  BY <1>1, <1>2, <1>3, PTL DEF CallSpec, RetriesAreReported

-----------------------------------------------------------------------------
(***************************************************************************)
(* Recursion over the naturals, for the powers of the backoff.             *)
(***************************************************************************)
LEMMA LessThanWellFounded == IsWellFoundedOn({ss \in Nat \X Nat : ss[1] < ss[2]}, Nat)
  BY NatLessThanWellFounded, Zenon DEF OpToRel

\* A set of naturals has a least one.
LEMMA LeastNatural ==
  ASSUME NEW T \in SUBSET Nat, T # {}
  PROVE  \E x \in T : \A y \in T : x <= y
<1> DEFINE R == {ss \in Nat \X Nat : ss[1] < ss[2]}
<1>1. IsWellFoundedOn(R, Nat)
  BY LessThanWellFounded
<1>2. \A x, y \in Nat : y < x => <<y, x>> \in R
  OBVIOUS
<1>3. \E x \in T : \A y \in T : ~ (<<y, x>> \in R)
  <2> HIDE DEF R
  <2> QED BY <1>1, WFMin, Zenon
<1> HIDE DEF R
<1>4. PICK x \in T : \A y \in T : ~ (<<y, x>> \in R)
  BY <1>3
<1>5. \A y \in T : ~ (y < x)
  BY <1>2, <1>4
<1> QED
  BY <1>4, <1>5

\* Induction: a set that has 0 and the successors of its elements has all naturals.
LEMMA SetInduction ==
  ASSUME NEW S, 0 \in S, \A n \in Nat : n \in S => n + 1 \in S
  PROVE  Nat \subseteq S
<1> SUFFICES ASSUME Nat \ S # {} PROVE FALSE
  OBVIOUS
<1>1. PICK x \in Nat \ S : \A y \in Nat \ S : x <= y
  BY LeastNatural
<1>2. x - 1 \in Nat /\ x - 1 \in S
  BY <1>1
<1> QED
  BY <1>1, <1>2

\* f[0] = a, and each value up to f[m] is a step from the one before.
IsRecursive(f, a, step, m) ==
  /\ f[0] = a
  /\ \A n \in 0..(m - 1) : f[n + 1] = step[n][f[n]]

\* Two such functions agree as far as both of them go.
LEMMA RecursionUnique ==
  ASSUME NEW a, NEW step, NEW f, NEW g, NEW m \in Nat, NEW k \in Nat,
         IsRecursive(f, a, step, m), IsRecursive(g, a, step, k)
  PROVE  \A n \in Nat : n <= m /\ n <= k => f[n] = g[n]
<1> DEFINE S == {n \in Nat : n <= m /\ n <= k => f[n] = g[n]}
<1>1. 0 \in S
  BY DEF IsRecursive
<1>2. ASSUME NEW n \in Nat, n \in S PROVE n + 1 \in S
  <2> SUFFICES ASSUME n + 1 <= m, n + 1 <= k PROVE f[n + 1] = g[n + 1]
    OBVIOUS
  <2>1. f[n] = g[n]
    BY <1>2
  <2>2. n \in 0..(m - 1) /\ n \in 0..(k - 1)
    BY SMT
  <2>3. f[n + 1] = step[n][f[n]] /\ g[n + 1] = step[n][g[n]]
    BY <2>2 DEF IsRecursive
  <2> QED
    BY <2>1, <2>3
<1> HIDE DEF S
<1>3. Nat \subseteq S
  BY <1>1, <1>2, SetInduction
<1> QED
  BY <1>3 DEF S

Iterates(f, S, a, step) ==
  /\ f \in [Nat -> S]
  /\ f[0] = a
  /\ \A n \in Nat : f[n + 1] = step[n][f[n]]

\* There is such a function on all naturals.
LEMMA Recursion ==
  ASSUME NEW S, NEW a \in S, NEW step \in [Nat -> [S -> S]]
  PROVE  \E f : Iterates(f, S, a, step)
<1> DEFINE Some(m) == \E g \in [Nat -> S] : IsRecursive(g, a, step, m)
           T == {m \in Nat : Some(m)}
<1>1. 0 \in T
  <2> DEFINE g == [n \in Nat |-> a]
  <2>1. g \in [Nat -> S] /\ IsRecursive(g, a, step, 0)
    BY DEF IsRecursive
  <2> QED
    BY <2>1
<1>2. ASSUME NEW m \in Nat, m \in T PROVE m + 1 \in T
  <2>1. PICK g \in [Nat -> S] : IsRecursive(g, a, step, m)
    BY <1>2
  <2> DEFINE h == [g EXCEPT ![m + 1] = step[m][g[m]]]
  <2>2. h \in [Nat -> S]
    OBVIOUS
  <2>3. h[m + 1] = step[m][g[m]] /\ \A n \in 0..m : h[n] = g[n]
    OBVIOUS
  <2>4. h[0] = a
    BY <2>1, <2>3 DEF IsRecursive
  <2>5. ASSUME NEW n \in 0..((m + 1) - 1) PROVE h[n + 1] = step[n][h[n]]
    <3>1. CASE n = m
      BY <2>3, <3>1
    <3>2. CASE n # m
      <4>1. n \in 0..(m - 1) /\ n + 1 \in 0..m /\ n \in 0..m
        BY <3>2
      <4>2. g[n + 1] = step[n][g[n]]
        BY <2>1, <4>1 DEF IsRecursive
      <4> HIDE DEF h
      <4> QED
        BY <2>3, <4>1, <4>2
    <3> QED
      BY <3>1, <3>2
  <2>6. IsRecursive(h, a, step, m + 1)
    <3> HIDE DEF h
    <3> QED BY <2>4, <2>5 DEF IsRecursive
  <2> HIDE DEF h
  <2> QED
    BY <2>2, <2>6
<1>3. \A m \in Nat : Some(m)
  <2> HIDE DEF T, Some
  <2>1. Nat \subseteq T
    BY <1>1, <1>2, SetInduction
  <2> QED
    BY <2>1 DEF T
<1> DEFINE G(m) == CHOOSE g \in [Nat -> S] : IsRecursive(g, a, step, m)
           f == [n \in Nat |-> G(n)[n]]
<1>4. \A m \in Nat : G(m) \in [Nat -> S] /\ IsRecursive(G(m), a, step, m)
  BY <1>3, Zenon
<1> HIDE DEF G, Some
<1>5. f \in [Nat -> S]
  BY <1>4
<1>6. \A n \in Nat : f[n] = G(n)[n]
  OBVIOUS
<1>7. f[0] = a
  BY <1>4, <1>6 DEF IsRecursive
<1>8. ASSUME NEW n \in Nat PROVE f[n + 1] = step[n][f[n]]
  <2>1. G(n + 1)[n] = G(n)[n]
    <3>1. IsRecursive(G(n + 1), a, step, n + 1) /\ IsRecursive(G(n), a, step, n)
      BY <1>4
    <3>2. \A k \in Nat : k <= n + 1 /\ k <= n => G(n + 1)[k] = G(n)[k]
      BY <3>1, RecursionUnique, n + 1 \in Nat
    <3> QED
      BY <3>2
  <2>2. G(n + 1)[n + 1] = step[n][G(n + 1)[n]]
    <3>1. IsRecursive(G(n + 1), a, step, n + 1)
      BY <1>4
    <3>2. n \in 0..((n + 1) - 1)
      OBVIOUS
    <3> QED
      BY <3>1, <3>2 DEF IsRecursive
  <2> HIDE DEF f
  <2> QED
    BY <2>1, <2>2, <1>6
<1> HIDE DEF f
<1>9. Iterates(f, S, a, step)
  BY <1>5, <1>7, <1>8 DEF Iterates
<1> QED
  BY <1>9, Zenon

-----------------------------------------------------------------------------
(***************************************************************************)
(* The sleeps grow.                                                        *)
(***************************************************************************)
\* Math.pow() multiplies by the base once more for each retry.
LEMMA PowerIs ==
  /\ power \in [Nat -> Nat]
  /\ power[0] = 1
  /\ \A n \in Nat : power[n + 1] = exponentialBackoffBase * power[n]
<1> DEFINE times == [n \in Nat |-> [x \in Nat |-> exponentialBackoffBase * x]]
           Solves(g) == g = [n \in Nat |-> IF n = 0 THEN 1
                                           ELSE exponentialBackoffBase * g[n - 1]]
<1>1. exponentialBackoffBase \in Nat
  BY BackoffAssumption
<1>2. times \in [Nat -> [Nat -> Nat]]
  BY <1>1
<1>3. PICK f : Iterates(f, Nat, 1, times)
  <2> HIDE DEF times
  <2> QED
    BY <1>2, Recursion
<1>4. /\ f \in [Nat -> Nat] /\ f[0] = 1
      /\ \A n \in Nat : f[n + 1] = exponentialBackoffBase * f[n]
  BY <1>3 DEF Iterates
<1>5. ASSUME NEW n \in Nat
      PROVE  f[n] = IF n = 0 THEN 1 ELSE exponentialBackoffBase * f[n - 1]
  <2>1. CASE n = 0
    BY <1>4, <2>1
  <2>2. CASE n # 0
    <3>1. n - 1 \in Nat /\ (n - 1) + 1 = n
      BY <2>2
    <3>2. f[(n - 1) + 1] = exponentialBackoffBase * f[n - 1]
      BY <1>4, <3>1
    <3> QED
      BY <2>2, <3>1, <3>2
  <2> QED
    BY <2>1, <2>2
<1>6. Solves(f)
  BY <1>4, <1>5
<1>7. Solves(power)
  <2> HIDE DEF Solves
  <2>1. power = CHOOSE g : Solves(g)
    BY Zenon DEF power, Solves
  <2> QED
    BY <1>6, <2>1, Zenon
<1>8. \A n \in Nat : power[n] = IF n = 0 THEN 1 ELSE exponentialBackoffBase * power[n - 1]
  BY <1>7
<1>9. power[0] = 1 /\ \A n \in Nat : power[n + 1] = exponentialBackoffBase * power[n]
  <2>1. power[0] = 1
    BY <1>8
  <2>2. ASSUME NEW n \in Nat PROVE power[n + 1] = exponentialBackoffBase * power[n]
    <3>1. n + 1 \in Nat /\ n + 1 # 0 /\ (n + 1) - 1 = n
      OBVIOUS
    <3>2. power[n + 1] = exponentialBackoffBase * power[(n + 1) - 1]
      BY <1>8, <3>1
    <3> QED
      BY <3>1, <3>2
  <2> QED
    BY <2>1, <2>2
<1>10. power \in [Nat -> Nat]
  <2> DEFINE T == {n \in Nat : power[n] \in Nat}
  <2>1. 0 \in T
    BY <1>9
  <2>2. ASSUME NEW n \in Nat, n \in T PROVE n + 1 \in T
    <3>1. power[n + 1] = exponentialBackoffBase * power[n] /\ power[n] \in Nat
      BY <1>9, <2>2
    <3> QED
      BY <1>1, <3>1
  <2> HIDE DEF T
  <2>3. Nat \subseteq T
    BY <2>1, <2>2, SetInduction
  <2>4. \A n \in Nat : power[n] \in Nat
    BY <2>3 DEF T
  <2> QED
    BY <1>7, <2>4
<1> QED
  BY <1>9, <1>10

\* A product of positive factors is not less than either.
LEMMA ProductGrows ==
  ASSUME NEW a \in Nat \ {0}, NEW x \in Nat
  PROVE  x <= a * x
<1>1. a - 1 \in Nat /\ a * x = (a - 1) * x + x
  OBVIOUS
<1>2. (a - 1) * x \in Nat
  BY <1>1
<1> QED
  BY <1>1, <1>2

LEMMA PowerIsPositive == \A n \in Nat : power[n] \in Nat \ {0}
<1> DEFINE T == {n \in Nat : power[n] \in Nat \ {0}}
<1>1. 0 \in T
  BY PowerIs
<1>2. ASSUME NEW n \in Nat, n \in T PROVE n + 1 \in T
  <2>1. power[n + 1] = exponentialBackoffBase * power[n] /\ power[n] \in Nat \ {0}
    BY <1>2, PowerIs
  <2>2. power[n] <= exponentialBackoffBase * power[n]
    BY <2>1, BackoffAssumption, ProductGrows
  <2>3. power[n + 1] \in Nat
    BY PowerIs
  <2> QED
    BY <2>1, <2>2, <2>3
<1> HIDE DEF T
<1>3. Nat \subseteq T
  BY <1>1, <1>2, SetInduction
<1> QED
  BY <1>3 DEF T

\* With a limit that fits a timer, the next delay is not shorter, nor over the limit.
LEMMA BackoffGrows ==
  ASSUME maxBackoffMs \in 1..MaxTimeout, NEW n \in Nat
  PROVE  /\ TimeoutMs(getBackoffMs(n)) \in 1..maxBackoffMs
         /\ TimeoutMs(getBackoffMs(n)) <= TimeoutMs(getBackoffMs(n + 1))
<1> DEFINE x == power[n]
           y == power[n + 1]
           c == constantBackoffMs
           Limited(ms) == IF ms > maxBackoffMs THEN maxBackoffMs ELSE ms
<1>1. c \in Nat \ {0} /\ MaxTimeout \in Nat \ {0} /\ maxBackoffMs \in Nat \ {0}
  BY BackoffAssumption
<1>2. x \in Nat \ {0} /\ y \in Nat \ {0} /\ x <= y
  <2>1. power[n + 1] = exponentialBackoffBase * power[n] /\ power[n] \in Nat
    BY PowerIs
  <2>2. power[n] <= power[n + 1]
    BY <2>1, BackoffAssumption, ProductGrows
  <2> QED
    BY <2>2, PowerIsPositive, n + 1 \in Nat
<1> HIDE DEF x, y, c
<1>3. x * c \in Nat \ {0} /\ y * c \in Nat \ {0} /\ x * c <= y * c
  <2>1. c * x \in Nat /\ x <= c * x
    BY <1>1, <1>2, ProductGrows
  <2>2. (y - x) * c \in Nat /\ y * c = (y - x) * c + x * c
    BY <1>1, <1>2
  <2>3. x * c = c * x
    BY <1>1, <1>2
  <2> QED
    BY <1>1, <1>2, <2>1, <2>2, <2>3
<1>4. getBackoffMs(n) = Limited(x * c) /\ getBackoffMs(n + 1) = Limited(y * c)
  BY <1>1 DEF getBackoffMs, x, y, c
<1> DEFINE u == x * c
           v == y * c
<1>5. u \in Nat \ {0} /\ v \in Nat \ {0} /\ u <= v
  BY <1>3
<1> HIDE DEF u, v
<1>6. /\ Limited(u) \in 1..maxBackoffMs /\ Limited(v) \in 1..maxBackoffMs
      /\ Limited(u) <= Limited(v)
  BY <1>1, <1>5
<1> HIDE DEF Limited
<1>7. TimeoutMs(Limited(u)) = Limited(u) /\ TimeoutMs(Limited(v)) = Limited(v)
  BY <1>1, <1>6 DEF TimeoutMs
<1> QED
  BY <1>4, <1>6, <1>7 DEF u, v

\* The last sleep was no longer than the next one will be: the counter only grows,
\* but for 'ready', after which there was no sleep.
SleepsInv ==
  maxBackoffMs \in 1..MaxTimeout => slept <= TimeoutMs(getBackoffMs(retries))

\* Only an error falls asleep, and it counts; only 'ready' starts over.
LEMMA SleepingCounts ==
  ASSUME TypeInv, Next
  PROVE  /\ FallsAsleep => retries' = retries + 1
         /\ retries' = retries \/ retries' = retries + 1 \/ (retries' = 0 /\ Emits("ready"))
         /\ FallsAsleep => ~Emits("ready")
<1>1. /\ streams \in Seq(Streams) /\ retries \in Nat /\ emitted \in [Events -> Nat]
  BY DEF TypeInv, TypeOK
<1>2. ASSUME sleeping' \subseteq sleeping PROVE ~FallsAsleep
  BY <1>2 DEF FallsAsleep
<1>3. CASE Start \/ LoopContinues
  BY <1>1, <1>2, <1>3 DEF Start, LoopContinues
<1>4. CASE Cancel
  BY <1>1, <1>2, <1>4 DEF Cancel
<1>5. ASSUME NEW i \in Attempts, TimerFires(i) \/ OnMessage(i) \/ OnComplete(i) \/ OnCanceled(i)
      PROVE  ~FallsAsleep /\ retries' = retries
  BY <1>1, <1>2, <1>5 DEF TimerFires, OnMessage, OnComplete, OnCanceled
<1>6. ASSUME NEW i \in Attempts, OnReady(i)
      PROVE  ~FallsAsleep /\ retries' = 0 /\ Emits("ready")
  BY <1>1, <1>2, <1>6 DEF OnReady, Emit, Emits, Events
<1>7. ASSUME NEW i \in Attempts, OnError(i)
      PROVE  \/ ~FallsAsleep /\ retries' = retries
             \/ retries' = retries + 1 /\ ~Emits("ready")
  <2>1. CASE sleeping' = sleeping /\ retries' = retries
    BY <1>2, <2>1
  <2>2. CASE retries' = retries + 1 /\ emitted' = emitted
    <3>1. emitted["ready"] \in Nat
      BY <1>1 DEF Events
    <3> QED
      BY <2>2, <3>1 DEF Emits
  <2> QED
    BY <1>7, <2>1, <2>2 DEF OnError
<1> QED
  BY <1>3, <1>4, <1>5, <1>6, <1>7 DEF Next, StreamEnds

LEMMA SleepsStep ==
  ASSUME CallTypeInv, SleepsInv, CallNext, maxBackoffMs \in 1..MaxTimeout
  PROVE  /\ slept' = 0 \/ slept' \in slept..maxBackoffMs
         /\ slept' <= TimeoutMs(getBackoffMs(retries'))
<1>1. TypeInv /\ slept \in Nat /\ retries \in Nat
  BY DEF CallTypeInv, CallTypeOK, TypeInv, TypeOK
<1>2. /\ FallsAsleep => retries' = retries + 1
      /\ retries' = retries \/ retries' = retries + 1 \/ (retries' = 0 /\ Emits("ready"))
      /\ FallsAsleep => ~Emits("ready")
  BY <1>1, SleepingCounts DEF CallNext
<1> DEFINE now == TimeoutMs(getBackoffMs(retries))
           next == TimeoutMs(getBackoffMs(retries + 1))
           first == TimeoutMs(getBackoffMs(0))
<1>3. now \in 1..maxBackoffMs /\ now <= next /\ next \in 1..maxBackoffMs
      /\ first \in 1..maxBackoffMs
  <2>1. retries + 1 \in Nat /\ 0 \in Nat
    BY <1>1
  <2> HIDE DEF now, next, first
  <2> QED
    BY <1>1, <2>1, BackoffGrows DEF now, next, first
<1>4. slept <= now /\ maxBackoffMs \in Nat
  BY BackoffAssumption DEF SleepsInv
<1>5. slept' = IF FallsAsleep THEN now ELSE IF Emits("ready") THEN 0 ELSE slept
  BY DEF CallNext, Sleeps, RetriesSinceLastReady
<1>6. CASE FallsAsleep
  <2>1. slept' = now /\ TimeoutMs(getBackoffMs(retries')) = next
    BY <1>2, <1>5, <1>6
  <2> HIDE DEF now, next, first
  <2> QED
    BY <1>1, <1>3, <1>4, <2>1
<1>7. CASE ~FallsAsleep /\ Emits("ready")
  <2>1. slept' = 0
    BY <1>5, <1>7
  <2>2. TimeoutMs(getBackoffMs(retries')) \in {now, next, first}
    BY <1>2
  <2> HIDE DEF now, next, first
  <2> QED
    BY <1>3, <1>4, <2>1, <2>2
<1>8. CASE ~FallsAsleep /\ ~Emits("ready")
  <2>1. slept' = slept
    BY <1>5, <1>8
  <2>2. TimeoutMs(getBackoffMs(retries')) \in {now, next}
    BY <1>2, <1>8
  <2> HIDE DEF now, next, first
  <2> QED
    BY <1>1, <1>3, <1>4, <2>1, <2>2
<1> QED
  BY <1>6, <1>7, <1>8

\* A retrier that is not ready in between never sleeps shorter than before, nor
\* longer than the limit, whatever the provider's streams emit and when.
THEOREM SleepsOnlyGrow == CallSpec => SleepsGrow
<1> DEFINE Inv == CallTypeInv /\ SleepsInv
           Grows == maxBackoffMs \in 1..MaxTimeout => slept' = 0 \/ slept' \in slept..maxBackoffMs
<1>1. CallInit => Inv
  <2> SUFFICES ASSUME CallInit PROVE SleepsInv
    BY InitCallType
  <2> SUFFICES ASSUME maxBackoffMs \in 1..MaxTimeout
               PROVE  slept <= TimeoutMs(getBackoffMs(retries))
    BY DEF SleepsInv
  <2>1. slept = 0 /\ retries = 0
    BY DEF CallInit, Init
  <2>2. TimeoutMs(getBackoffMs(0)) \in 1..maxBackoffMs /\ maxBackoffMs \in Nat
    BY BackoffGrows, BackoffAssumption
  <2> QED
    BY <2>1, <2>2
<1>2. Inv /\ [CallNext]_callVars => Inv' /\ [Grows]_callVars
  <2> SUFFICES ASSUME Inv, [CallNext]_callVars PROVE SleepsInv' /\ [Grows]_callVars
    BY NextCallType
  <2>1. CASE CallNext
    BY <2>1, SleepsStep DEF SleepsInv
  <2>2. CASE UNCHANGED callVars
    BY <2>2 DEF callVars, vars, SleepsInv
  <2> QED
    BY <2>1, <2>2
<1> QED
  BY <1>1, <1>2, PTL DEF CallSpec, SleepsGrow
=============================================================================
