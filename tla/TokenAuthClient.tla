-------------------------- MODULE TokenAuthClient --------------------------
(***************************************************************************)
(* The client side of token authentication: the class                      *)
(* TokenAuthClientContextConnector of                                      *)
(* src/src/context/client/token_auth.ts.                                   *)
(*                                                                         *)
(* One field, tokenInfo, is written by authenticate(), by the timer of the *)
(* auto refresh, by forceRefreshToken() and by every call that finds the   *)
(* token about to expire; each of the refreshes awaits the handler of the  *)
(* application in between.  The field timeout is the last timer set, fired *)
(* or cleared as it may be, and never becomes undefined again.             *)
(*                                                                         *)
(* A timer that fires becomes the refresh that it starts, until that has   *)
(* set the next timer: a loop, which clearTimeout() no longer reaches.     *)
(* The other refreshes, of one kind and session, are alike and are         *)
(* counted.  A call whose token is good, or that has none, changes nothing *)
(* and is left out.                                                        *)
(***************************************************************************)
EXTENDS Integers, Sequences, FiniteSets

CONSTANTS
  Offset,       \* expiryDateOffsetMs
  Lifetimes,    \* how long the tokens live that are handed out
  MaxTime,      \* bound: the clock
  MaxSessions,  \* bound: calls of authenticate() by the application
  MaxTimers,    \* bound: timers set, and authenticate() calls that miss a refresh
  MaxPending    \* bound: refreshes that wait for the handler, those of timers apart

ASSUME TokenAssumption ==
  /\ {Offset, MaxSessions, MaxTimers, MaxPending} \subseteq Nat
  /\ {MaxTime} \union Lifetimes \subseteq Nat \ {0}

VARIABLES
  now,        \* the clock
  tokenInfo,  \* the token, with the session it comes from
  timers,     \* all timers set so far; the last one is in the field timeout
  pending,    \* the refreshes that wait for the handler, by kind and session
  session,    \* history: calls of authenticate() by the application
  missed,     \* history: auto refreshes begun while a timer's refresh went on
  auto,       \* history: auto refresh is on, and has neither failed nor run out
  stopped     \* history: it was cleared while nothing went on, and not set since

vars == <<now, tokenInfo, timers, pending, session, missed, auto, stopped>>

\* expiryDate may be missing, and so may refreshToken.
Never == 0
Kinds == {"detached", "reauth", "call"}
Sessions == 1..MaxSessions
NoToken == [session |-> 0, expiry |-> Never, refreshable |-> FALSE]

Issued(s) == [session : {s}, expiry : {now + l : l \in Lifetimes} \union {Never},
              refreshable : BOOLEAN]

(***************************************************************************)
(* A timer is armed; its refresh waits for the handler, with a token of    *)
(* that session; it has stored the answer and is to set the next timer; or *)
(* it is over.                                                             *)
(***************************************************************************)
SetFor(due) == [phase |-> "armed", due |-> due, session |-> 0]
WaitsWith(s) == [phase |-> "waiting", due |-> 0, session |-> s]
Stored == [phase |-> "stored", due |-> 0, session |-> 0]
Over == [phase |-> "over", due |-> 0, session |-> 0]

In(phases) == {i \in DOMAIN timers : timers[i].phase \in phases}
Armed == In({"armed"})
Refreshing == In({"waiting", "stored"})
Loops == Armed \union Refreshing

Waiting == {r \in DOMAIN pending : pending[r] > 0}

\* Mutant: the refresh token of the first session is kept.
BeginWithFirst(kind) ==
  /\ Cardinality(Waiting) < MaxPending
  /\ pending[<<kind, 1>>] < MaxPending
  /\ pending' = [pending EXCEPT ![<<kind, 1>>] = @ + 1]

Begin(kind) ==
  /\ Cardinality(Waiting) < MaxPending
  /\ pending[<<kind, tokenInfo.session>>] < MaxPending
  /\ pending' = [pending EXCEPT ![<<kind, tokenInfo.session>>] = @ + 1]

Answer(kind, s) ==
  /\ pending[<<kind, s>>] > 0
  /\ pending' = [pending EXCEPT ![<<kind, s>>] = @ - 1]

Init ==
  /\ now = 1
  /\ tokenInfo = NoToken
  /\ timers = <<>>
  /\ pending = [r \in Kinds \X Sessions |-> 0]
  /\ session = 0
  /\ missed = 0
  /\ auto = FALSE
  /\ stopped = TRUE

(***************************************************************************)
(* The timers.                                                             *)
(***************************************************************************)
\* Mutants: nothing is cleared; the first timer is.
ClearedNone(ts) == ts
ClearedFirst(ts) ==
  IF ts /= <<>> /\ ts[1].phase = "armed" THEN [ts EXCEPT ![1] = Over] ELSE ts

\* clearTimeout(this.timeout)
Cleared(ts) ==
  IF ts /= <<>> /\ ts[Len(ts)].phase = "armed" THEN [ts EXCEPT ![Len(ts)] = Over] ELSE ts

\* The difference is taken the wrong way round, so that it is negative as long as
\* the token is good; setTimeout() makes one millisecond of that.
Delay(expiry) ==
  LET duration == now - (expiry - Offset)
  IN  IF duration < 1 THEN 1 ELSE duration

\* setRefreshTimeout()
WithTimer(ts, token) ==
  IF token.expiry = Never THEN ts ELSE Append(ts, SetFor(now + Delay(token.expiry)))

(***************************************************************************)
(* The application.                                                        *)
(***************************************************************************)
\* Nothing is going on that clearTimeout() misses.
Quiet == Refreshing = {} /\ {r \in Waiting : r[1] = "reauth"} = {} /\ missed = 0

\* authenticate(), called by the application or by forceRefreshToken().
DoAuthenticate(token, autoRefresh) ==
  /\ tokenInfo' = token
  /\ timers' = IF autoRefresh THEN WithTimer(Cleared(timers), token) ELSE Cleared(timers)
  /\ Len(timers') <= MaxTimers
  /\ missed' = IF autoRefresh /\ Refreshing /= {} THEN missed + 1 ELSE missed
  /\ missed' <= MaxTimers
  /\ auto' = (autoRefresh /\ token.expiry /= Never)
  /\ stopped' = (~autoRefresh /\ (stopped \/ Quiet))

Authenticate(token, autoRefresh) ==
  /\ session < MaxSessions
  /\ session' = session + 1
  /\ DoAuthenticate(token, autoRefresh)
  /\ UNCHANGED <<now, pending>>

ClearAutoRefresh ==
  /\ timers' = Cleared(timers)
  /\ auto' = FALSE
  /\ stopped' = (stopped \/ Quiet)
  /\ UNCHANGED <<now, tokenInfo, pending, session, missed>>

\* forceRefreshToken(): without a timer it does not await the handler; with one, be
\* it cleared, it goes on with authenticate().
ForceRefreshToken ==
  /\ tokenInfo.refreshable
  /\ Begin(IF timers = <<>> THEN "detached" ELSE "reauth")
  /\ stopped' = (stopped /\ timers = <<>>)
  /\ UNCHANGED <<now, tokenInfo, timers, session, missed, auto>>

\* provideRequestContext() with a token about to expire.
ProvideRequestContext ==
  /\ tokenInfo.refreshable
  /\ tokenInfo.expiry /= Never /\ now > tokenInfo.expiry - Offset
  /\ Begin("call")
  /\ UNCHANGED <<now, tokenInfo, timers, session, missed, auto, stopped>>

(***************************************************************************)
(* The callbacks.                                                          *)
(***************************************************************************)
\* A token without refreshToken is not refreshed: refreshToken() returns at once.
TimerFires(i) ==
  /\ i \in Armed
  /\ timers[i].due <= now
  /\ timers' = [timers EXCEPT ![i] =
                  IF tokenInfo.refreshable THEN WaitsWith(tokenInfo.session) ELSE Stored]
  /\ UNCHANGED <<now, tokenInfo, pending, session, missed, auto, stopped>>

TimerRefreshed(i, token) ==
  /\ i \in In({"waiting"})
  /\ token \in Issued(timers[i].session)
  /\ tokenInfo' = token
  /\ timers' = [timers EXCEPT ![i] = Stored]
  /\ UNCHANGED <<now, pending, session, missed, auto, stopped>>

\* Mutant: the timer is not set again.
TimerNotSetAgain(i) ==
  /\ i \in In({"stored"})
  /\ timers' = [timers EXCEPT ![i] = Over]
  /\ auto' = (auto /\ tokenInfo.expiry /= Never)
  /\ UNCHANGED <<now, tokenInfo, pending, session, missed, stopped>>

\* The callback goes on after refreshToken(), with the token that is there by then.
TimerSetAgain(i) ==
  /\ i \in In({"stored"})
  /\ timers' = WithTimer([timers EXCEPT ![i] = Over], tokenInfo)
  /\ Len(timers') <= MaxTimers
  /\ auto' = (auto /\ tokenInfo.expiry /= Never)
  /\ UNCHANGED <<now, tokenInfo, pending, session, missed, stopped>>

\* The error is reported, and the auto refresh is over.
TimerFailed(i) ==
  /\ i \in In({"waiting"})
  /\ timers' = [timers EXCEPT ![i] = Over]
  /\ auto' = FALSE
  /\ UNCHANGED <<now, tokenInfo, pending, session, missed, stopped>>

Reauthenticated(s, token) ==
  /\ Answer("reauth", s)
  /\ DoAuthenticate(token, TRUE)
  /\ UNCHANGED <<now, session>>

Refreshed(kind, s, token) ==
  /\ Answer(kind, s)
  /\ tokenInfo' = token
  /\ UNCHANGED <<now, timers, session, missed, auto, stopped>>

RefreshFailed(kind, s) ==
  /\ Answer(kind, s)
  /\ UNCHANGED <<now, tokenInfo, timers, session, missed, auto, stopped>>

Tick ==
  /\ now < MaxTime
  /\ now' = now + 1
  /\ UNCHANGED <<tokenInfo, timers, pending, session, missed, auto, stopped>>

Next ==
  \/ \E token \in Issued(session + 1), autoRefresh \in BOOLEAN :
       Authenticate(token, autoRefresh)
  \/ ClearAutoRefresh
  \/ ForceRefreshToken
  \/ ProvideRequestContext
  \/ \E i \in DOMAIN timers :
       \/ TimerFires(i)
       \/ \E token \in Issued(timers[i].session) : TimerRefreshed(i, token)
       \/ TimerSetAgain(i)
       \/ TimerFailed(i)
  \/ \E s \in Sessions :
       \/ \E kind \in Kinds : RefreshFailed(kind, s)
       \/ \E token \in Issued(s) :
            \/ Reauthenticated(s, token)
            \/ \E kind \in {"detached", "call"} : Refreshed(kind, s, token)
  \/ Tick

Spec == Init /\ [][Next]_vars

-----------------------------------------------------------------------------
(***************************************************************************)
(* Properties.                                                             *)
(***************************************************************************)
TypeOK ==
  /\ now \in 1..MaxTime
  /\ tokenInfo \in [session : 0..MaxSessions, expiry : Nat, refreshable : BOOLEAN]
  /\ timers \in Seq([phase : {"armed", "waiting", "stored", "over"}, due : Nat,
                     session : 0..MaxSessions])
  /\ pending \in [Kinds \X Sessions -> Nat]
  /\ session \in 0..MaxSessions
  /\ missed \in Nat
  /\ {auto, stopped} \subseteq BOOLEAN

\* There is one loop of auto refresh, a timer or the refresh that one started, and
\* one more for every authenticate() that began one while such a refresh went on:
\* clearTimeout() misses that refresh, which sets a timer of its own afterwards.
\* Nothing else, a forceRefreshToken(), a clear that comes late or a refresh that
\* fails, makes a second loop (token_auth.ts:82-109, 119-121, 131-137).
LoopsAreCounted == Cardinality(Loops) <= 1 + missed

\* A session is over once neither the token nor a refresh under way is of it.
IsOver(s) ==
  /\ tokenInfo.session /= s
  /\ \A i \in In({"waiting"}) : timers[i].session /= s
  /\ \A r \in Waiting : r[2] /= s

\* A session that is over stays so, whichever of the refreshes answers, fires or
\* starts next: the answer to a refresh that authenticate() overtook may bring the
\* previous session back, but each refresh starts from the token of the moment,
\* never from one that the connector kept (token_auth.ts:82, 131-137, 140-147,
\* 171-175).
SessionStaysOver == [][\A s \in 1..session : IsOver(s) => IsOver(s)']_vars

\* Once the auto refresh is cleared while no refresh of it goes on, no timer is left
\* that could call the handler, whatever other refreshes answer afterwards
\* (token_auth.ts:84, 119-121, 131-137).
ClearStops == stopped => Loops = {}

\* Auto refresh does not stop by itself: until it is cleared, fails or meets a
\* token that does not expire, a timer is set or its refresh is under way, whoever
\* else refreshes the token meanwhile (token_auth.ts:86-109, 131-137).
AutoRefreshGoesOn == auto => Loops /= {}

\* What the doc says: the handler is "called `expiryDateOffsetMs` milliseconds before
\* the current token expires" (token_auth.ts:28-29).  The code calls it at once
\* instead, as the difference of the dates has the wrong sign.
RefreshIsDue ==
  [][\A i \in DOMAIN timers : TimerFires(i) /\ tokenInfo.refreshable
       => now >= tokenInfo.expiry - Offset]_vars
=============================================================================
