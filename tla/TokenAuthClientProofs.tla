----------------------- MODULE TokenAuthClientProofs -----------------------
(***************************************************************************)
(* Proofs about TokenAuthClient, for every value of its constants: its     *)
(* types, how many loops of auto refresh there are, sessions that stay     *)
(* over, an auto refresh that stops when it is told to and goes on until   *)
(* then.                                                                   *)
(***************************************************************************)
EXTENDS TokenAuthClient, FiniteSetTheorems, TLAPS

-----------------------------------------------------------------------------
(***************************************************************************)
(* Lemmas on timers.                                                       *)
(***************************************************************************)
Timer == [phase : {"armed", "waiting", "stored", "over"}, due : Nat,
          session : 0..MaxSessions]

LoopsOf(ts) == {i \in DOMAIN ts : ts[i].phase /= "over"}
RefreshingOf(ts) == {i \in DOMAIN ts : ts[i].phase \in {"waiting", "stored"}}
LastIsArmed(ts) == ts /= <<>> /\ ts[Len(ts)].phase = "armed"

\* The sessions of the tokens that the timers' refreshes went off with.
WaitsIn(ts) == {ts[i].session : i \in {k \in DOMAIN ts : ts[k].phase = "waiting"}}

\* A timer that is neither armed nor part of a refresh is over.
LEMMA PhaseOfTimer ==
  ASSUME NEW ts \in Seq(Timer)
  PROVE  LoopsOf(ts) = {i \in DOMAIN ts : ts[i].phase = "armed"} \union RefreshingOf(ts)
<1>1. \A i \in DOMAIN ts : ts[i] \in Timer
  OBVIOUS
<1>2. \A i \in DOMAIN ts : ts[i].phase \in {"armed", "waiting", "stored", "over"}
  BY <1>1 DEF Timer
<1> QED
  BY <1>2 DEF LoopsOf, RefreshingOf

\* The sets of the module are those of its sequence of timers.
LEMMA Phases ==
  ASSUME timers \in Seq(Timer)
  PROVE  /\ Loops = LoopsOf(timers)
         /\ Refreshing = RefreshingOf(timers)
         /\ Refreshing \subseteq Loops /\ Armed \subseteq Loops
BY PhaseOfTimer DEF Loops, Armed, Refreshing, In, RefreshingOf

\* The four phases of a timer.
LEMMA FourTimers ==
  /\ \A due \in Nat : SetFor(due) \in Timer /\ SetFor(due).phase = "armed"
  /\ \A s \in 0..MaxSessions :
       WaitsWith(s) \in Timer /\ WaitsWith(s).phase = "waiting" /\ WaitsWith(s).session = s
  /\ Stored \in Timer /\ Stored.phase = "stored"
  /\ Over \in Timer /\ Over.phase = "over"
<1>1. 0 \in 0..MaxSessions /\ 0 \in Nat
  BY TokenAssumption
<1> QED
  BY <1>1 DEF Timer, SetFor, WaitsWith, Stored, Over

\* A timer that changes leaves the others alone.
LEMMA ChangedTimer ==
  ASSUME NEW ts \in Seq(Timer), NEW i \in DOMAIN ts, NEW t \in Timer, NEW new,
         new = [ts EXCEPT ![i] = t]
  PROVE  /\ new \in Seq(Timer) /\ Len(new) = Len(ts) /\ DOMAIN new = DOMAIN ts
         /\ new[i] = t /\ \A k \in DOMAIN ts : k /= i => new[k] = ts[k]
OBVIOUS

\* What becomes of the loops when a timer changes.
LEMMA ChangedLoops ==
  ASSUME NEW ts \in Seq(Timer), NEW i \in DOMAIN ts, NEW t \in Timer, NEW new,
         new = [ts EXCEPT ![i] = t]
  PROVE  /\ t.phase /= "over" => LoopsOf(new) = LoopsOf(ts) \union {i}
         /\ t.phase = "over" => LoopsOf(new) = LoopsOf(ts) \ {i}
         /\ t.phase \in {"waiting", "stored"} => RefreshingOf(new) = RefreshingOf(ts) \union {i}
         /\ t.phase \notin {"waiting", "stored"} => RefreshingOf(new) = RefreshingOf(ts) \ {i}
         /\ \A s \in WaitsIn(new) : s \in WaitsIn(ts) \/ (t.phase = "waiting" /\ s = t.session)
<1>1. /\ new \in Seq(Timer) /\ Len(new) = Len(ts) /\ DOMAIN new = DOMAIN ts
      /\ new[i] = t /\ \A k \in DOMAIN ts : k /= i => new[k] = ts[k]
  BY ChangedTimer
<1>2. ASSUME NEW k \in DOMAIN new, new[k].phase = "waiting"
      PROVE  new[k].session \in WaitsIn(ts) \/ (t.phase = "waiting" /\ new[k].session = t.session)
  BY <1>1, <1>2 DEF WaitsIn
<1>3. \A s \in WaitsIn(new) : s \in WaitsIn(ts) \/ (t.phase = "waiting" /\ s = t.session)
  BY <1>2 DEF WaitsIn
<1> QED
  BY <1>1, <1>3 DEF LoopsOf, RefreshingOf

\* Clearing ends the last timer, where it is armed.
LEMMA ClearedTimers ==
  ASSUME NEW ts \in Seq(Timer)
  PROVE  /\ Cleared(ts) \in Seq(Timer) /\ Len(Cleared(ts)) = Len(ts)
         /\ LastIsArmed(ts) =>
              Len(ts) \in LoopsOf(ts) /\ LoopsOf(Cleared(ts)) = LoopsOf(ts) \ {Len(ts)}
         /\ ~LastIsArmed(ts) => LoopsOf(Cleared(ts)) = LoopsOf(ts)
         /\ RefreshingOf(Cleared(ts)) = RefreshingOf(ts)
         /\ WaitsIn(Cleared(ts)) \subseteq WaitsIn(ts)
<1>1. CASE LastIsArmed(ts)
  <2>1. Len(ts) \in DOMAIN ts /\ ts[Len(ts)].phase = "armed"
    BY <1>1 DEF LastIsArmed
  <2>2. Cleared(ts) = [ts EXCEPT ![Len(ts)] = Over]
    BY <1>1 DEF Cleared, LastIsArmed
  <2>3. Over \in Timer /\ Over.phase = "over"
    BY FourTimers
  <2>4. Cleared(ts) \in Seq(Timer) /\ Len(Cleared(ts)) = Len(ts)
    BY <2>1, <2>2, <2>3, ChangedTimer
  <2>5. /\ LoopsOf(Cleared(ts)) = LoopsOf(ts) \ {Len(ts)}
        /\ RefreshingOf(Cleared(ts)) = RefreshingOf(ts) \ {Len(ts)}
        /\ \A s \in WaitsIn(Cleared(ts)) : s \in WaitsIn(ts)
    <3> DEFINE new == Cleared(ts)  i == Len(ts)  t == Over
    <3>1. new = [ts EXCEPT ![i] = t] /\ i \in DOMAIN ts /\ t \in Timer /\ t.phase = "over"
      BY <2>1, <2>2, <2>3
    <3> HIDE DEF new, i, t
    <3>2. /\ LoopsOf(new) = LoopsOf(ts) \ {i}
          /\ RefreshingOf(new) = RefreshingOf(ts) \ {i}
          /\ \A s \in WaitsIn(new) : s \in WaitsIn(ts)
      BY <3>1, ChangedLoops
    <3> QED
      BY <3>2 DEF new, i
  <2>6. Len(ts) \in LoopsOf(ts) /\ Len(ts) \notin RefreshingOf(ts)
    BY <2>1 DEF LoopsOf, RefreshingOf
  <2> QED
    BY <1>1, <2>4, <2>5, <2>6
<1>2. CASE ~LastIsArmed(ts)
  <2>1. Cleared(ts) = ts
    BY <1>2 DEF Cleared, LastIsArmed
  <2> QED
    BY <1>2, <2>1
<1> QED
  BY <1>1, <1>2

\* A new timer is armed and the last one, and there is one unless the token lasts.
LEMMA TimerSet ==
  ASSUME NEW ts \in Seq(Timer), NEW token, token.expiry \in Nat, now \in Nat
  PROVE  /\ WithTimer(ts, token) \in Seq(Timer)
         /\ token.expiry = Never => WithTimer(ts, token) = ts
         /\ token.expiry /= Never =>
              /\ LastIsArmed(WithTimer(ts, token))
              /\ Len(ts) + 1 \notin LoopsOf(ts)
              /\ LoopsOf(WithTimer(ts, token)) = LoopsOf(ts) \union {Len(ts) + 1}
         /\ RefreshingOf(WithTimer(ts, token)) = RefreshingOf(ts)
         /\ WaitsIn(WithTimer(ts, token)) \subseteq WaitsIn(ts)
<1> DEFINE t == SetFor(now + Delay(token.expiry))
           n == Append(ts, t)
<1>1. now + Delay(token.expiry) \in Nat
  BY TokenAssumption DEF Delay
<1>2. t \in Timer /\ t.phase = "armed"
  BY <1>1, FourTimers
<1>3. WithTimer(ts, token) = IF token.expiry = Never THEN ts ELSE n
  BY DEF WithTimer
<1> HIDE DEF t
<1>4. /\ n \in Seq(Timer) /\ Len(n) = Len(ts) + 1 /\ n /= <<>>
      /\ DOMAIN n = DOMAIN ts \union {Len(ts) + 1}
      /\ n[Len(ts) + 1] = t
      /\ \A i \in DOMAIN ts : i /= Len(ts) + 1 /\ n[i] = ts[i]
  BY <1>2
<1> HIDE DEF n
<1>5. /\ LoopsOf(n) = LoopsOf(ts) \union {Len(ts) + 1}
      /\ Len(ts) + 1 \notin LoopsOf(ts)
      /\ RefreshingOf(n) = RefreshingOf(ts)
  BY <1>2, <1>4 DEF LoopsOf, RefreshingOf
<1>6. LastIsArmed(n)
  BY <1>2, <1>4 DEF LastIsArmed
<1>7. WaitsIn(n) \subseteq WaitsIn(ts)
  <2>1. {k \in DOMAIN n : n[k].phase = "waiting"} = {k \in DOMAIN ts : ts[k].phase = "waiting"}
    BY <1>2, <1>4
  <2>2. \A k \in {j \in DOMAIN ts : ts[j].phase = "waiting"} : n[k] = ts[k]
    BY <1>4
  <2> QED
    BY <2>1, <2>2 DEF WaitsIn
<1> QED
  BY <1>3, <1>4, <1>5, <1>6, <1>7

-----------------------------------------------------------------------------
(***************************************************************************)
(* Lemmas on the refreshes that wait.                                      *)
(***************************************************************************)
Counts == [Kinds \X Sessions -> Nat]
SessionsOf(p) == {r[2] : r \in {q \in DOMAIN p : p[q] > 0}}

LEMMA BeginCounts ==
  ASSUME pending \in Counts, NEW kind \in Kinds, tokenInfo.session \in Sessions,
         Begin(kind)
  PROVE  /\ pending' \in Counts
         /\ SessionsOf(pending') \subseteq SessionsOf(pending) \union {tokenInfo.session}
<1>1. /\ pending' \in Counts
      /\ \A r \in Kinds \X Sessions :
           r[2] /= tokenInfo.session => pending'[r] = pending[r]
  BY DEF Begin, Counts
<1>2. DOMAIN pending = Kinds \X Sessions /\ DOMAIN pending' = Kinds \X Sessions
  BY <1>1 DEF Counts
<1>3. ASSUME NEW r \in Kinds \X Sessions, pending'[r] > 0
      PROVE  r[2] \in SessionsOf(pending) \union {tokenInfo.session}
  BY <1>1, <1>2, <1>3 DEF SessionsOf
<1> QED
  BY <1>1, <1>2, <1>3 DEF SessionsOf

LEMMA AnswerCounts ==
  ASSUME pending \in Counts, NEW kind \in Kinds, NEW s \in Sessions, Answer(kind, s)
  PROVE  /\ pending' \in Counts
         /\ s \in SessionsOf(pending)
         /\ SessionsOf(pending') \subseteq SessionsOf(pending)
<1> DEFINE q == <<kind, s>>
<1>1. q \in Kinds \X Sessions /\ q[2] = s /\ DOMAIN pending = Kinds \X Sessions
  BY DEF Counts
<1>2. \A r \in Kinds \X Sessions : pending[r] \in Nat
  BY DEF Counts
<1>3. pending[q] > 0 /\ pending' = [pending EXCEPT ![q] = @ - 1]
  BY DEF Answer
<1> HIDE DEF q
<1>4. pending[q] - 1 \in Nat
  BY <1>1, <1>2, <1>3
<1>5. pending' \in Counts
  BY <1>1, <1>3, <1>4 DEF Counts
<1>6. \A r \in Kinds \X Sessions : pending'[r] > 0 => pending[r] > 0
  BY <1>1, <1>3
<1>7. s \in SessionsOf(pending)
  BY <1>1, <1>3 DEF SessionsOf
<1>8. SessionsOf(pending') \subseteq SessionsOf(pending)
  BY <1>1, <1>5, <1>6 DEF SessionsOf, Counts
<1> QED
  BY <1>5, <1>7, <1>8

-----------------------------------------------------------------------------
(***************************************************************************)
(* Types.                                                                  *)
(***************************************************************************)
Tokens == [session : 0..MaxSessions, expiry : Nat, refreshable : BOOLEAN]

\* A token that can be refreshed, and one that a timer's refresh went off with, is one
\* of a session.
TypeInv ==
  /\ TypeOK
  /\ tokenInfo.refreshable => tokenInfo.session \in Sessions
  /\ WaitsIn(timers) \subseteq Sessions

\* The facts about types that the steps below rest on.
LEMMA TypeFacts ==
  ASSUME TypeInv
  PROVE  /\ now \in 1..MaxTime /\ now \in Nat
         /\ tokenInfo \in Tokens /\ tokenInfo.expiry \in Nat
         /\ tokenInfo.session \in 0..MaxSessions
         /\ tokenInfo.refreshable => tokenInfo.session \in Sessions
         /\ timers \in Seq(Timer) /\ WaitsIn(timers) \subseteq Sessions
         /\ Sessions \subseteq 0..MaxSessions
         /\ pending \in Counts
         /\ session \in 0..MaxSessions /\ session \in Nat /\ missed \in Nat
         /\ auto \in BOOLEAN /\ stopped \in BOOLEAN
<1>1. now \in Nat /\ Sessions \subseteq 0..MaxSessions /\ session \in Nat
  BY TokenAssumption DEF TypeInv, TypeOK, Sessions
<1>2. tokenInfo \in Tokens
  BY DEF TypeInv, TypeOK, Tokens
<1>3. tokenInfo.expiry \in Nat /\ tokenInfo.session \in 0..MaxSessions
  BY <1>2 DEF Tokens
<1> QED
  BY <1>1, <1>2, <1>3 DEF TypeInv, TypeOK, Timer, Counts

LEMMA IssuedType ==
  ASSUME now \in Nat, NEW s \in Sessions, NEW token \in Issued(s)
  PROVE  token \in Tokens /\ token.session = s /\ token.expiry \in Nat
<1>1. \A l \in Lifetimes : now + l \in Nat
  BY TokenAssumption
<1>2. Never \in Nat /\ s \in 0..MaxSessions
  BY TokenAssumption DEF Never, Sessions
<1> QED
  BY <1>1, <1>2 DEF Issued, Tokens

LEMMA InitType == Init => TypeInv
<1> SUFFICES ASSUME Init PROVE TypeInv
  OBVIOUS
<1>1. now \in 1..MaxTime /\ session \in 0..MaxSessions /\ missed \in Nat
  BY TokenAssumption DEF Init
<1>2. tokenInfo \in Tokens /\ ~tokenInfo.refreshable
  BY TokenAssumption DEF Init, NoToken, Never, Tokens
<1>3. timers \in Seq(Timer) /\ WaitsIn(timers) = {} /\ pending \in Counts
  BY DEF Init, Counts, WaitsIn
<1>4. {auto, stopped} \subseteq BOOLEAN
  BY DEF Init
<1> QED
  BY <1>1, <1>2, <1>3, <1>4 DEF TypeInv, TypeOK, Tokens, Timer, Counts

\* What authenticate() does to token and timers.
LEMMA AuthenticateType ==
  ASSUME TypeInv, NEW s \in Sessions, NEW token \in Issued(s),
         NEW autoRefresh \in BOOLEAN, DoAuthenticate(token, autoRefresh)
  PROVE  /\ tokenInfo' \in Tokens /\ tokenInfo'.session = s
         /\ timers' \in Seq(Timer) /\ WaitsIn(timers') \subseteq WaitsIn(timers)
         /\ missed' \in Nat /\ {auto', stopped'} \subseteq BOOLEAN
<1>0. now \in Nat /\ timers \in Seq(Timer) /\ missed \in Nat /\ stopped \in BOOLEAN
  BY TypeFacts
<1>1. token \in Tokens /\ token.session = s /\ token.expiry \in Nat
  BY <1>0, IssuedType
<1>2. Cleared(timers) \in Seq(Timer) /\ WaitsIn(Cleared(timers)) \subseteq WaitsIn(timers)
  BY <1>0, ClearedTimers
<1>3. /\ WithTimer(Cleared(timers), token) \in Seq(Timer)
      /\ WaitsIn(WithTimer(Cleared(timers), token)) \subseteq WaitsIn(timers)
  BY <1>0, <1>1, <1>2, TimerSet
<1>4. timers' = WithTimer(Cleared(timers), token) \/ timers' = Cleared(timers)
  BY DEF DoAuthenticate
<1>5. missed' \in Nat /\ auto' \in BOOLEAN /\ stopped' \in BOOLEAN
  BY <1>0 DEF DoAuthenticate
<1> QED
  BY <1>1, <1>2, <1>3, <1>4, <1>5 DEF DoAuthenticate

(***************************************************************************)
(* What a step does to the types, and where the sessions of the next state *)
(* come from.                                                              *)
(***************************************************************************)
Known == {tokenInfo.session} \union WaitsIn(timers) \union SessionsOf(pending)

LEMMA NextKnown ==
  ASSUME TypeInv, [Next]_vars
  PROVE  TypeInv' /\ Known' \subseteq Known \union {session + 1}
<1> DEFINE Goal == TypeInv' /\ Known' \subseteq Known \union {session + 1}
<1> SUFFICES Goal
  OBVIOUS
<1>0. /\ now \in 1..MaxTime /\ now \in Nat
      /\ tokenInfo \in Tokens /\ tokenInfo.expiry \in Nat
      /\ tokenInfo.session \in 0..MaxSessions
      /\ tokenInfo.refreshable => tokenInfo.session \in Sessions
      /\ timers \in Seq(Timer) /\ WaitsIn(timers) \subseteq Sessions
      /\ Sessions \subseteq 0..MaxSessions
      /\ pending \in Counts
      /\ session \in 0..MaxSessions /\ session \in Nat /\ missed \in Nat
      /\ auto \in BOOLEAN /\ stopped \in BOOLEAN
  BY TypeFacts
<1>q. ASSUME now' \in 1..MaxTime, tokenInfo' \in Tokens, timers' \in Seq(Timer),
             pending' \in Counts, session' \in 0..MaxSessions,
             missed' \in Nat, auto' \in BOOLEAN, stopped' \in BOOLEAN,
             \/ tokenInfo' = tokenInfo
             \/ /\ tokenInfo'.session \in Sessions
                /\ tokenInfo'.session \in Known \union {session + 1},
             \/ WaitsIn(timers') \subseteq WaitsIn(timers)
             \/ /\ WaitsIn(timers') \subseteq WaitsIn(timers) \union {tokenInfo.session}
                /\ tokenInfo.session \in Sessions,
             SessionsOf(pending') \subseteq SessionsOf(pending) \union {tokenInfo.session}
      PROVE  Goal
  <2>1. TypeOK'
    BY <1>q DEF TypeOK, Tokens, Timer, Counts
  <2>2. tokenInfo'.refreshable => tokenInfo'.session \in Sessions
    BY <1>0, <1>q
  <2>3. WaitsIn(timers') \subseteq Sessions
    BY <1>0, <1>q
  <2>4. Known' \subseteq Known \union {session + 1}
    BY <1>q DEF Known
  <2> QED
    BY <2>1, <2>2, <2>3, <2>4 DEF TypeInv
<1> HIDE DEF Goal
<1>k. Kinds = {"detached", "reauth", "call"}
  BY DEF Kinds
\* A timer that changes its phase.
<1>t. ASSUME NEW i \in DOMAIN timers, NEW t \in Timer, NEW ts,
             ts = [timers EXCEPT ![i] = t],
             t.phase = "waiting" => t.session = tokenInfo.session
      PROVE  /\ ts \in Seq(Timer)
             /\ WaitsIn(ts) \subseteq WaitsIn(timers) \union {tokenInfo.session}
             /\ t.phase /= "waiting" => WaitsIn(ts) \subseteq WaitsIn(timers)
  <2>0. timers \in Seq(Timer) /\ ts = [timers EXCEPT ![i] = t]
    BY <1>0, <1>t
  <2>1. ts \in Seq(Timer)
    BY <2>0, ChangedTimer
  <2>2. \A s \in WaitsIn(ts) :
          s \in WaitsIn(timers) \/ (t.phase = "waiting" /\ s = t.session)
    BY <2>0, ChangedLoops
  <2> QED
    BY <1>t, <2>1, <2>2
<1>1. ASSUME NEW token \in Issued(session + 1), NEW autoRefresh \in BOOLEAN,
             Authenticate(token, autoRefresh)
      PROVE  Goal
  <2>1. session + 1 \in Sessions /\ session' \in 0..MaxSessions
    BY <1>0, <1>1, TokenAssumption DEF Authenticate, Sessions
  <2>2. /\ tokenInfo' \in Tokens /\ tokenInfo'.session = session + 1
        /\ timers' \in Seq(Timer) /\ WaitsIn(timers') \subseteq WaitsIn(timers)
        /\ missed' \in Nat /\ {auto', stopped'} \subseteq BOOLEAN
    BY <1>1, <2>1, AuthenticateType DEF Authenticate
  <2> QED
    BY <1>0, <1>1, <1>q, <2>1, <2>2 DEF Authenticate
<1>2. CASE ClearAutoRefresh
  <2>1. Cleared(timers) \in Seq(Timer) /\ WaitsIn(Cleared(timers)) \subseteq WaitsIn(timers)
    BY <1>0, ClearedTimers
  <2> QED
    BY <1>0, <1>2, <1>q, <2>1 DEF ClearAutoRefresh
<1>3. CASE ForceRefreshToken
  <2>1. PICK kind \in Kinds : Begin(kind)
    BY <1>3, <1>k DEF ForceRefreshToken
  <2>2. /\ pending' \in Counts
        /\ SessionsOf(pending') \subseteq SessionsOf(pending) \union {tokenInfo.session}
    BY <1>0, <1>3, <2>1, BeginCounts DEF ForceRefreshToken
  <2> QED
    BY <1>0, <1>3, <1>q, <2>2 DEF ForceRefreshToken
<1>4. CASE ProvideRequestContext
  <2>1. /\ pending' \in Counts
        /\ SessionsOf(pending') \subseteq SessionsOf(pending) \union {tokenInfo.session}
    BY <1>0, <1>4, <1>k, BeginCounts DEF ProvideRequestContext
  <2> QED
    BY <1>0, <1>4, <1>q, <2>1 DEF ProvideRequestContext
<1>5. ASSUME NEW i \in DOMAIN timers, TimerFires(i) PROVE Goal
  <2> DEFINE t == IF tokenInfo.refreshable THEN WaitsWith(tokenInfo.session) ELSE Stored
  <2>1. /\ t \in Timer
        /\ t.phase = "waiting" => t.session = tokenInfo.session
        /\ t.phase = "waiting" => tokenInfo.refreshable
    BY <1>0, FourTimers
  <2>2. timers' = [timers EXCEPT ![i] = t]
    BY <1>5 DEF TimerFires
  <2> HIDE DEF t
  <2>3. /\ timers' \in Seq(Timer)
        /\ WaitsIn(timers') \subseteq WaitsIn(timers) \union {tokenInfo.session}
        /\ t.phase /= "waiting" => WaitsIn(timers') \subseteq WaitsIn(timers)
    BY <1>t, <2>1, <2>2
  <2> QED
    BY <1>0, <1>5, <1>q, <2>1, <2>3 DEF TimerFires
<1>6. ASSUME NEW i \in DOMAIN timers, TimerFailed(i) PROVE Goal
  <2>1. timers' \in Seq(Timer) /\ WaitsIn(timers') \subseteq WaitsIn(timers)
    BY <1>6, <1>t, FourTimers DEF TimerFailed
  <2> QED
    BY <1>0, <1>6, <1>q, <2>1 DEF TimerFailed
<1>7. ASSUME NEW i \in DOMAIN timers, NEW token \in Issued(timers[i].session),
             TimerRefreshed(i, token)
      PROVE  Goal
  <2>1. timers[i].session \in WaitsIn(timers)
    BY <1>7 DEF TimerRefreshed, In, WaitsIn
  <2>2. token \in Tokens /\ token.session = timers[i].session
    BY <1>0, <2>1, IssuedType
  <2>3. timers' \in Seq(Timer) /\ WaitsIn(timers') \subseteq WaitsIn(timers)
    BY <1>7, <1>t, FourTimers DEF TimerRefreshed
  <2>4. tokenInfo' = token /\ tokenInfo'.session \in Sessions /\ tokenInfo'.session \in Known
    BY <1>0, <1>7, <2>1, <2>2 DEF TimerRefreshed, Known
  <2> QED
    BY <1>0, <1>7, <1>q, <2>2, <2>3, <2>4 DEF TimerRefreshed
<1>8. ASSUME NEW i \in DOMAIN timers, TimerSetAgain(i) PROVE Goal
  <2> DEFINE ts == [timers EXCEPT ![i] = Over]
  <2>1. ts \in Seq(Timer) /\ WaitsIn(ts) \subseteq WaitsIn(timers)
    BY <1>t, FourTimers
  <2>2. timers' = WithTimer(ts, tokenInfo)
    BY <1>8 DEF TimerSetAgain
  <2> HIDE DEF ts
  <2>3. timers' \in Seq(Timer) /\ WaitsIn(timers') \subseteq WaitsIn(timers)
    BY <1>0, <2>1, <2>2, TimerSet
  <2>4. auto' \in BOOLEAN
    BY <1>0, <1>8 DEF TimerSetAgain
  <2> QED
    BY <1>0, <1>8, <1>q, <2>3, <2>4 DEF TimerSetAgain
<1>9. ASSUME NEW s \in Sessions, NEW kind \in Kinds, RefreshFailed(kind, s) PROVE Goal
  <2>1. pending' \in Counts /\ SessionsOf(pending') \subseteq SessionsOf(pending)
    BY <1>0, <1>9, AnswerCounts DEF RefreshFailed
  <2> QED
    BY <1>0, <1>9, <1>q, <2>1 DEF RefreshFailed
<1>10. ASSUME NEW s \in Sessions, NEW token \in Issued(s), Reauthenticated(s, token)
       PROVE  Goal
  <2>1. /\ tokenInfo' \in Tokens /\ tokenInfo'.session = s
        /\ timers' \in Seq(Timer) /\ WaitsIn(timers') \subseteq WaitsIn(timers)
        /\ missed' \in Nat /\ {auto', stopped'} \subseteq BOOLEAN
    BY <1>10, AuthenticateType DEF Reauthenticated
  <2>2. /\ pending' \in Counts /\ SessionsOf(pending') \subseteq SessionsOf(pending)
        /\ s \in SessionsOf(pending)
    BY <1>0, <1>10, <1>k, AnswerCounts DEF Reauthenticated
  <2>3. tokenInfo'.session \in Known
    BY <2>1, <2>2 DEF Known
  <2> QED
    BY <1>0, <1>10, <1>q, <2>1, <2>2, <2>3 DEF Reauthenticated
<1>11. ASSUME NEW s \in Sessions, NEW token \in Issued(s), NEW kind \in Kinds,
              Refreshed(kind, s, token)
       PROVE  Goal
  <2>1. token \in Tokens /\ token.session = s
    BY <1>0, IssuedType
  <2>2. /\ pending' \in Counts /\ SessionsOf(pending') \subseteq SessionsOf(pending)
        /\ s \in SessionsOf(pending)
    BY <1>0, <1>11, AnswerCounts DEF Refreshed
  <2>3. tokenInfo' = token /\ tokenInfo'.session \in Known
    BY <1>11, <2>1, <2>2 DEF Refreshed, Known
  <2> QED
    BY <1>0, <1>11, <1>q, <2>1, <2>2, <2>3 DEF Refreshed
<1>12. CASE Tick
  <2>1. /\ now < MaxTime /\ now' = now + 1
        /\ UNCHANGED <<tokenInfo, timers, pending, session, missed, auto, stopped>>
    BY <1>12 DEF Tick
  <2>2. now' \in 1..MaxTime
    <3>1. MaxTime \in Nat
      BY TokenAssumption
    <3> QED
      BY <1>0, <2>1, <3>1
  <2> QED
    BY <1>0, <1>q, <2>1, <2>2
<1>13. CASE UNCHANGED vars
  BY <1>0, <1>13, <1>q DEF vars
<1> QED
  BY <1>1, <1>2, <1>3, <1>4, <1>5, <1>6, <1>7, <1>8, <1>9, <1>10, <1>11, <1>12, <1>13, <1>k
  DEF Next

\* Every variable of the connector keeps its type, for any number of sessions,
\* timers and refreshes.
THEOREM TypeCorrect == Spec => []TypeOK
<1>1. TypeInv => TypeOK
  BY DEF TypeInv
<1>2. TypeInv /\ [Next]_vars => TypeInv'
  BY NextKnown
<1> QED
  BY <1>1, <1>2, InitType, PTL DEF Spec

-----------------------------------------------------------------------------
(***************************************************************************)
(* The loops of auto refresh.                                              *)
(***************************************************************************)
Loop(ts) == LastIsArmed(ts) \/ RefreshingOf(ts) /= {}

\* As long as clearTimeout() can reach a loop, or would miss one, there is one more
\* than those counted in missed, and otherwise none more: the next authenticate()
\* then sets a timer that nothing replaces.
LoopInv ==
  /\ Cardinality(Loops) <= 1 + missed
  /\ Loop(timers) \/ Cardinality(Loops) <= missed

StopInv == stopped => Loops = {}
GoOnInv == auto => Loops /= {}

Inv == LoopInv /\ StopInv /\ GoOnInv

LEMMA LoopsAreFinite ==
  ASSUME NEW ts \in Seq(Timer)
  PROVE  IsFiniteSet(LoopsOf(ts)) /\ Cardinality(LoopsOf(ts)) \in Nat
<1>1. Len(ts) \in Nat /\ LoopsOf(ts) \subseteq 1..Len(ts)
  BY DEF LoopsOf
<1>2. IsFiniteSet(1..Len(ts))
  BY <1>1, FS_Interval
<1>3. IsFiniteSet(LoopsOf(ts))
  BY <1>1, <1>2, FS_Subset
<1> QED
  BY <1>3, FS_CardinalityType

\* Clearing leaves at most as many loops as were missed, unless one is refreshing.
LEMMA ClearedLoops ==
  ASSUME TypeInv, LoopInv, NEW ts, ts = Cleared(timers)
  PROVE  /\ ts \in Seq(Timer) /\ RefreshingOf(ts) = Refreshing
         /\ LoopsOf(ts) \subseteq Loops
         /\ Cardinality(LoopsOf(ts)) \in Nat
         /\ Cardinality(LoopsOf(ts)) <= 1 + missed
         /\ Refreshing = {} => Cardinality(LoopsOf(ts)) <= missed
<1>0. timers \in Seq(Timer) /\ missed \in Nat /\ Len(timers) \in Nat
  BY TypeFacts
<1>1. /\ Loops = LoopsOf(timers) /\ Refreshing = RefreshingOf(timers)
      /\ IsFiniteSet(Loops) /\ Cardinality(Loops) \in Nat
  BY <1>0, Phases, LoopsAreFinite
<1>2. /\ ts \in Seq(Timer) /\ RefreshingOf(ts) = Refreshing
      /\ LastIsArmed(timers) => Len(timers) \in Loops /\ LoopsOf(ts) = Loops \ {Len(timers)}
      /\ ~LastIsArmed(timers) => LoopsOf(ts) = Loops
  BY <1>0, <1>1, ClearedTimers
<1>3. Cardinality(LoopsOf(ts)) \in Nat
  BY <1>2, LoopsAreFinite
<1>4. LastIsArmed(timers) => Cardinality(LoopsOf(ts)) = Cardinality(Loops) - 1
  BY <1>1, <1>2, FS_RemoveElement
<1> QED
  BY <1>0, <1>1, <1>2, <1>3, <1>4 DEF LoopInv, Loop

\* A timer that is set is one more loop, and clearTimeout() can reach it.
LEMMA SetLoops ==
  ASSUME NEW ts \in Seq(Timer), NEW token, token.expiry \in Nat, now \in Nat,
         NEW new, new = WithTimer(ts, token), token.expiry /= Never
  PROVE  /\ new \in Seq(Timer) /\ Loop(new) /\ LoopsOf(new) /= {}
         /\ Cardinality(LoopsOf(new)) = Cardinality(LoopsOf(ts)) + 1
<1>1. /\ new \in Seq(Timer) /\ LastIsArmed(new)
      /\ Len(ts) + 1 \notin LoopsOf(ts)
      /\ LoopsOf(new) = LoopsOf(ts) \union {Len(ts) + 1}
  BY TimerSet
<1>2. Cardinality(LoopsOf(new)) = Cardinality(LoopsOf(ts)) + 1
  BY <1>1, LoopsAreFinite, FS_AddElement
<1> QED
  BY <1>1, <1>2 DEF Loop

\* What authenticate() does to the loops.
LEMMA AuthenticateLoops ==
  ASSUME TypeInv, Inv, NEW s \in Sessions, NEW token \in Issued(s),
         NEW autoRefresh \in BOOLEAN, DoAuthenticate(token, autoRefresh)
  PROVE  Inv'
<1>0. now \in Nat /\ timers \in Seq(Timer) /\ missed \in Nat
  BY TypeFacts
<1>i. LoopInv /\ StopInv
  BY DEF Inv
<1>1. token.expiry \in Nat
  BY <1>0, IssuedType
<1> DEFINE c == Cleared(timers)
<1>2. /\ c \in Seq(Timer) /\ RefreshingOf(c) = Refreshing
      /\ LoopsOf(c) \subseteq Loops
      /\ Cardinality(LoopsOf(c)) \in Nat
      /\ Cardinality(LoopsOf(c)) <= 1 + missed
      /\ Refreshing = {} => Cardinality(LoopsOf(c)) <= missed
  BY <1>i, ClearedLoops
<1>3. /\ timers' = IF autoRefresh THEN WithTimer(c, token) ELSE c
      /\ missed' = IF autoRefresh /\ Refreshing /= {} THEN missed + 1 ELSE missed
      /\ auto' = (autoRefresh /\ token.expiry /= Never)
      /\ stopped' = (~autoRefresh /\ (stopped \/ Quiet))
  BY DEF DoAuthenticate
<1> HIDE DEF c
<1>4. timers' \in Seq(Timer)
  BY <1>0, <1>1, <1>2, <1>3, TimerSet
<1>5. Loops' = LoopsOf(timers')
  BY <1>4, PhaseOfTimer DEF Loops, Armed, Refreshing, In, RefreshingOf
<1>6. CASE autoRefresh /\ token.expiry /= Never
  <2>1. timers' = WithTimer(c, token)
    BY <1>3, <1>6
  <2>2. /\ Loop(timers') /\ Loops' /= {}
        /\ Cardinality(Loops') = Cardinality(LoopsOf(c)) + 1
    BY <1>0, <1>1, <1>2, <1>5, <1>6, <2>1, SetLoops
  <2>3. LoopInv'
    BY <1>0, <1>2, <1>3, <1>6, <2>2 DEF LoopInv
  <2> QED
    BY <1>3, <1>6, <2>2, <2>3 DEF Inv, StopInv, GoOnInv
<1>7. CASE ~(autoRefresh /\ token.expiry /= Never)
  <2>1. timers' = c
    BY <1>0, <1>1, <1>2, <1>3, <1>7, TimerSet
  <2>2. ~auto' /\ missed' \in {missed, missed + 1}
    BY <1>3, <1>7
  <2>3. LoopInv'
    BY <1>0, <1>2, <1>5, <2>1, <2>2 DEF LoopInv, Loop
  <2>4. stopped' => Loops' = {}
    <3>1. stopped => Loops' = {}
      BY <1>i, <1>2, <1>5, <2>1 DEF StopInv
    <3>2. Quiet => Cardinality(LoopsOf(c)) = 0
      BY <1>2 DEF Quiet
    <3>3. Quiet => Loops' = {}
      BY <1>2, <1>5, <2>1, <3>2, LoopsAreFinite, FS_EmptySet
    <3> QED
      BY <1>3, <3>1, <3>3
  <2> QED
    BY <2>2, <2>3, <2>4 DEF Inv, StopInv, GoOnInv
<1> QED
  BY <1>6, <1>7

LEMMA InitLoops == Init => Inv
<1> SUFFICES ASSUME Init PROVE Inv
  OBVIOUS
<1>1. timers = <<>> /\ Loops = {}
  BY DEF Init, Loops, Armed, Refreshing, In
<1>2. Cardinality(Loops) = 0
  BY <1>1, FS_EmptySet
<1> QED
  BY <1>1, <1>2 DEF Init, Inv, LoopInv, StopInv, GoOnInv

LEMMA NextLoops ==
  ASSUME TypeInv, Inv, [Next]_vars
  PROVE  Inv'
<1>0. /\ timers \in Seq(Timer) /\ missed \in Nat /\ now \in Nat /\ session \in Nat
      /\ session \in 0..MaxSessions
      /\ tokenInfo.expiry \in Nat /\ WaitsIn(timers) \subseteq Sessions
  BY TypeFacts
<1>i. LoopInv /\ StopInv /\ GoOnInv
  BY DEF Inv
<1>l. /\ Loops = LoopsOf(timers) /\ Refreshing = RefreshingOf(timers)
      /\ Refreshing \subseteq Loops /\ Armed \subseteq Loops
      /\ IsFiniteSet(Loops) /\ Cardinality(Loops) \in Nat
  BY <1>0, Phases, LoopsAreFinite
<1>n. timers' \in Seq(Timer) => Loops' = LoopsOf(timers')
  BY PhaseOfTimer DEF Loops, Armed, Refreshing, In, RefreshingOf
<1>u. ASSUME UNCHANGED <<timers, missed, auto>>, stopped' => stopped PROVE Inv'
  <2>1. Loops' = Loops
    BY <1>u DEF Loops, Armed, Refreshing, In
  <2> QED
    BY <1>i, <1>u, <2>1 DEF Inv, LoopInv, StopInv, GoOnInv
\* A timer that goes on as a refresh, or with it.
<1>r. ASSUME NEW i \in Loops, NEW t \in Timer, t.phase \in {"waiting", "stored"},
             timers' = [timers EXCEPT ![i] = t], UNCHANGED <<missed, auto, stopped>>
      PROVE  Inv'
  <2>1. i \in DOMAIN timers /\ timers' \in Seq(Timer)
    BY <1>0, <1>l, <1>r, ChangedTimer DEF LoopsOf
  <2>2. /\ LoopsOf(timers') = LoopsOf(timers) \union {i}
        /\ RefreshingOf(timers') = RefreshingOf(timers) \union {i}
    <3> DEFINE ts == timers'
    <3>1. /\ ts = [timers EXCEPT ![i] = t] /\ i \in DOMAIN timers /\ timers \in Seq(Timer)
          /\ t.phase \in {"waiting", "stored"} /\ t.phase /= "over"
      BY <1>0, <1>r, <2>1
    <3> HIDE DEF ts
    <3>2. LoopsOf(ts) = LoopsOf(timers) \union {i}
      BY <3>1, ChangedLoops
    <3>3. RefreshingOf(ts) = RefreshingOf(timers) \union {i}
      BY <3>1, ChangedLoops
    <3> QED
      BY <3>2, <3>3 DEF ts
  <2>3. Loops' = Loops /\ Loop(timers')
    BY <1>l, <1>n, <2>1, <2>2 DEF Loop
  <2> QED
    BY <1>i, <1>r, <2>3 DEF Inv, LoopInv, StopInv, GoOnInv
\* A timer whose refresh is over.
<1>o. ASSUME NEW i \in Refreshing, NEW ts, ts = [timers EXCEPT ![i] = Over]
      PROVE  /\ ts \in Seq(Timer) /\ ~stopped
             /\ Cardinality(LoopsOf(ts)) \in Nat /\ Cardinality(LoopsOf(ts)) <= missed
  <2>1. i \in DOMAIN timers /\ i \in Loops
    BY <1>l DEF LoopsOf
  <2>2. Over \in Timer /\ Over.phase = "over"
    BY FourTimers
  <2>3. ts \in Seq(Timer) /\ LoopsOf(ts) = Loops \ {i}
    <3> HIDE DEF Over
    <3> QED
      BY <1>0, <1>l, <1>o, <2>1, <2>2, ChangedTimer, ChangedLoops
  <2>4. Cardinality(LoopsOf(ts)) = Cardinality(Loops) - 1
    BY <1>l, <2>1, <2>3, FS_RemoveElement
  <2>5. Cardinality(LoopsOf(ts)) \in Nat
    BY <2>3, LoopsAreFinite
  <2> QED
    BY <1>0, <1>i, <1>l, <2>1, <2>3, <2>4, <2>5 DEF LoopInv, StopInv
<1>1. ASSUME NEW token \in Issued(session + 1), NEW autoRefresh \in BOOLEAN,
             Authenticate(token, autoRefresh)
      PROVE  Inv'
  <2>1. session + 1 \in Sessions
    BY <1>0, <1>1, TokenAssumption DEF Authenticate, Sessions
  <2> QED
    BY <1>1, <2>1, AuthenticateLoops DEF Authenticate
<1>2. CASE ClearAutoRefresh
  <2> DEFINE c == Cleared(timers)
  <2>1. /\ c \in Seq(Timer) /\ RefreshingOf(c) = Refreshing
        /\ LoopsOf(c) \subseteq Loops
        /\ Cardinality(LoopsOf(c)) \in Nat
        /\ Cardinality(LoopsOf(c)) <= 1 + missed
        /\ Refreshing = {} => Cardinality(LoopsOf(c)) <= missed
    BY <1>i, ClearedLoops
  <2>2. /\ timers' = c /\ ~auto' /\ missed' = missed
        /\ stopped' = (stopped \/ Quiet)
    BY <1>2 DEF ClearAutoRefresh
  <2> HIDE DEF c
  <2>3. LoopInv'
    BY <1>0, <1>n, <2>1, <2>2 DEF LoopInv, Loop
  <2>4. stopped => Loops' = {}
    BY <1>i, <1>n, <2>1, <2>2 DEF StopInv
  <2>5. Quiet => Cardinality(LoopsOf(c)) = 0
    BY <2>1 DEF Quiet
  <2>6. Quiet => Loops' = {}
    BY <1>n, <2>1, <2>2, <2>5, LoopsAreFinite, FS_EmptySet
  <2> QED
    BY <2>2, <2>3, <2>4, <2>6 DEF Inv, StopInv, GoOnInv
<1>3. CASE ForceRefreshToken
  BY <1>3, <1>u DEF ForceRefreshToken
<1>4. CASE ProvideRequestContext
  BY <1>4, <1>u DEF ProvideRequestContext
<1>5. ASSUME NEW i \in DOMAIN timers, TimerFires(i) PROVE Inv'
  <2> DEFINE t == IF tokenInfo.refreshable THEN WaitsWith(tokenInfo.session) ELSE Stored
  <2>1. t \in Timer /\ t.phase \in {"waiting", "stored"}
    BY TypeFacts, FourTimers
  <2>2. timers' = [timers EXCEPT ![i] = t] /\ i \in Loops
    BY <1>5, <1>l DEF TimerFires
  <2> HIDE DEF t
  <2> QED
    BY <1>5, <1>r, <2>1, <2>2 DEF TimerFires
<1>6. ASSUME NEW i \in DOMAIN timers, TimerFailed(i) PROVE Inv'
  <2>1. /\ i \in Refreshing /\ timers' = [timers EXCEPT ![i] = Over]
        /\ ~auto' /\ UNCHANGED <<missed, stopped>>
    BY <1>6 DEF TimerFailed, Refreshing, In
  <2>2. /\ timers' \in Seq(Timer) /\ ~stopped
        /\ Cardinality(LoopsOf(timers')) \in Nat
        /\ Cardinality(LoopsOf(timers')) <= missed
    BY <1>o, <2>1
  <2> QED
    BY <1>0, <1>n, <2>1, <2>2 DEF Inv, LoopInv, StopInv, GoOnInv
<1>7. ASSUME NEW i \in DOMAIN timers, NEW token \in Issued(timers[i].session),
             TimerRefreshed(i, token)
      PROVE  Inv'
  <2>1. i \in Refreshing /\ i \in Loops
    BY <1>7, <1>l DEF TimerRefreshed, Refreshing, In
  <2>2. Stored \in Timer /\ Stored.phase = "stored"
    BY FourTimers
  <2> QED
    BY <1>7, <1>r, <2>1, <2>2 DEF TimerRefreshed
<1>8. ASSUME NEW i \in DOMAIN timers, TimerSetAgain(i) PROVE Inv'
  <2> DEFINE ts == [timers EXCEPT ![i] = Over]
  <2>1. i \in Refreshing
    BY <1>8 DEF TimerSetAgain, Refreshing, In
  <2>2. /\ ts \in Seq(Timer) /\ ~stopped
        /\ Cardinality(LoopsOf(ts)) \in Nat /\ Cardinality(LoopsOf(ts)) <= missed
    BY <1>o, <2>1
  <2>3. /\ timers' = WithTimer(ts, tokenInfo)
        /\ auto' = (auto /\ tokenInfo.expiry /= Never)
        /\ UNCHANGED <<missed, stopped>>
    BY <1>8 DEF TimerSetAgain
  <2> HIDE DEF ts
  <2>4. CASE tokenInfo.expiry = Never
    <3>1. timers' = ts
      BY <1>0, <2>2, <2>3, <2>4, TimerSet
    <3>2. Loops' = LoopsOf(ts)
      BY <1>n, <2>2, <3>1
    <3> QED
      <4>1. LoopInv'
        BY <1>0, <2>2, <2>3, <3>2 DEF LoopInv
      <4>2. ~auto' /\ ~stopped'
        BY <2>2, <2>3, <2>4
      <4> QED
        BY <4>1, <4>2 DEF Inv, StopInv, GoOnInv
  <2>5. CASE tokenInfo.expiry /= Never
    <3>1. /\ timers' \in Seq(Timer) /\ Loop(timers') /\ LoopsOf(timers') /= {}
          /\ Cardinality(LoopsOf(timers')) = Cardinality(LoopsOf(ts)) + 1
      BY <1>0, <2>2, <2>3, <2>5, SetLoops
    <3>2. Loops' = LoopsOf(timers')
      BY <1>n, <3>1
    <3> QED
      BY <1>0, <2>2, <2>3, <3>1, <3>2 DEF Inv, LoopInv, StopInv, GoOnInv
  <2> QED
    BY <2>4, <2>5
<1>9. ASSUME NEW s \in Sessions, NEW kind \in Kinds, RefreshFailed(kind, s) PROVE Inv'
  BY <1>9, <1>u DEF RefreshFailed
<1>10. ASSUME NEW s \in Sessions, NEW token \in Issued(s), Reauthenticated(s, token)
       PROVE  Inv'
  BY <1>10, AuthenticateLoops DEF Reauthenticated
<1>11. ASSUME NEW s \in Sessions, NEW token \in Issued(s), NEW kind \in Kinds,
              Refreshed(kind, s, token)
       PROVE  Inv'
  BY <1>11, <1>u DEF Refreshed
<1>12. CASE Tick \/ UNCHANGED vars
  BY <1>12, <1>u DEF Tick, vars
<1> QED
  BY <1>1, <1>2, <1>3, <1>4, <1>5, <1>6, <1>7, <1>8, <1>9, <1>10, <1>11, <1>12
  DEF Next, Kinds

LEMMA Invariance == Spec => [](TypeInv /\ Inv)
<1>1. TypeInv /\ [Next]_vars => TypeInv'
  BY NextKnown
<1>2. TypeInv /\ Inv /\ [Next]_vars => Inv'
  BY NextLoops
<1> QED
  BY <1>1, <1>2, InitType, InitLoops, PTL DEF Spec

-----------------------------------------------------------------------------
(***************************************************************************)
(* The theorems.                                                           *)
(***************************************************************************)
\* However authenticate(), the timers and the other refreshes interleave, there is
\* one loop of auto refresh, and one more for each auto refresh that began while a
\* refresh of a timer went on.
THEOREM LoopsStayCounted == Spec => []LoopsAreCounted
<1>1. Inv => LoopsAreCounted
  BY DEF Inv, LoopInv, LoopsAreCounted
<1> QED
  BY <1>1, Invariance, PTL

\* A session that neither the token nor a refresh under way is of is never taken up
\* again, whatever answers, fires or starts.
THEOREM SessionsStayOver == Spec => SessionStaysOver
<1>1. TypeInv => \A s : IsOver(s) <=> s \notin Known
  <2> SUFFICES ASSUME TypeInv, NEW s PROVE IsOver(s) <=> s \notin Known
    OBVIOUS
  <2>1. (\A i \in In({"waiting"}) : timers[i].session /= s) <=> s \notin WaitsIn(timers)
    BY DEF In, WaitsIn
  <2>2. (\A r \in Waiting : r[2] /= s) <=> s \notin SessionsOf(pending)
    BY DEF Waiting, SessionsOf
  <2> QED
    BY <2>1, <2>2 DEF IsOver, Known
<1>2. TypeInv /\ [Next]_vars => [\A s \in 1..session : IsOver(s) => IsOver(s)']_vars
  <2> SUFFICES ASSUME TypeInv, [Next]_vars, NEW s \in 1..session, IsOver(s)
               PROVE  IsOver(s)'
    OBVIOUS
  <2>1. s \notin Known
    BY <1>1
  <2>2. s /= session + 1
    BY TypeFacts
  <2>3. s \notin Known'
    BY <2>1, <2>2, NextKnown
  <2>4. (\A i \in In({"waiting"})' : timers'[i].session /= s) <=> s \notin WaitsIn(timers')
    BY DEF In, WaitsIn
  <2>5. (\A r \in Waiting' : r[2] /= s) <=> s \notin SessionsOf(pending')
    BY DEF Waiting, SessionsOf
  <2> QED
    BY <2>3, <2>4, <2>5 DEF IsOver, Known
<1> QED
  BY <1>2, Invariance, PTL DEF Spec, SessionStaysOver

\* An auto refresh that was stopped while nothing of it went on stays stopped.
THEOREM StoppedIsStopped == Spec => []ClearStops
<1>1. Inv => ClearStops
  BY DEF Inv, StopInv, ClearStops
<1> QED
  BY <1>1, Invariance, PTL

\* An auto refresh that nothing ended has a timer set or its refresh under way.
THEOREM AutoRefreshLasts == Spec => []AutoRefreshGoesOn
<1>1. Inv => AutoRefreshGoesOn
  BY DEF Inv, GoOnInv, AutoRefreshGoesOn
<1> QED
  BY <1>1, Invariance, PTL
=============================================================================
