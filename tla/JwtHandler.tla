----------------------------- MODULE JwtHandler -----------------------------
(***************************************************************************)
(* The server side of token authentication: decodeRequestContext() of      *)
(* src/src/context/server/token_auth.ts with the handler of                *)
(* src/src/context/server/token_auth_jwt_handler.ts, which fetches the     *)
(* JWKS of the issuer on demand and keeps it, and a verifier for each key, *)
(* for all the requests of the process.                                    *)
(*                                                                         *)
(* Requests run side by side and are interleaved where the code awaits:    *)
(* the fetch, the import of the key, the verification and the decoding of  *)
(* the claims.  The issuer may change its keys at any moment.              *)
(***************************************************************************)
EXTENDS Integers

CONSTANTS
  Requests,   \* the requests in progress at a time
  Keys,       \* key identifiers; each stands for one key
  Tokens,     \* what clients send
  MaxTime     \* bound: the clock

ASSUME JwtAssumption ==
  /\ MaxTime \in Nat
  /\ Tokens \subseteq [auth : {"missing", "other", "Bearer"},
                       header : {"garbled", "noObject", "object"}, kid : Keys,
                       signed : BOOLEAN, payload : {"noObject", "object"},
                       exp : Nat, aud : BOOLEAN, sub : BOOLEAN]
  /\ MaxTime >= 1

VARIABLES
  now,        \* the clock
  published,  \* the keys that the issuer publishes
  jwks,       \* the document fetched, if any
  verify,     \* the keys for which there is a verifier
  pc,         \* where a request awaits, or its outcome
  token,      \* the token of a request
  answer,     \* the document on its way to a request that fetches
  ever,       \* history: keys published at some time
  always,     \* history: keys published at all times
  troubled,   \* history: requests whose own fetch, import or decoder failed
  poisoned    \* history: something else than a JWKS was fetched once

cache == <<jwks, verify>>
issuer == <<published, ever, always>>
history == <<troubled, poisoned>>
vars == <<now, issuer, cache, pc, token, answer, history>>

NotFetched == [kind |-> "none", keys |-> {}]
\* JSON, but not a JWKS: it has no array of keys.
NoJwks == [kind |-> "noJwks", keys |-> {}]
Jwks(keys) == [kind |-> "jwks", keys |-> keys]
Documents == {NotFetched, NoJwks} \union {Jwks(keys) : keys \in SUBSET Keys}

Awaiting == {"fetching", "importing", "verifying", "decoding"}
Outcomes == {"accepted", "unauthenticated", "internal"}

TypeOK ==
  /\ now \in 1..MaxTime
  /\ published \subseteq Keys /\ ever \subseteq Keys /\ always \subseteq published
  /\ jwks \in Documents
  /\ verify \subseteq ever
  /\ pc \in [Requests -> {"new"} \union Awaiting \union Outcomes]
  /\ token \in [Requests -> Tokens]
  /\ answer \in [Requests -> Documents]
  /\ troubled \subseteq Requests
  /\ poisoned \in BOOLEAN

Init ==
  /\ now = 1
  /\ published \in SUBSET Keys
  /\ jwks = NotFetched
  /\ verify = {}
  /\ pc = [r \in Requests |-> "new"]
  /\ token \in [Requests -> Tokens]
  /\ answer = [r \in Requests |-> NotFetched]
  /\ ever = published
  /\ always = published
  /\ troubled = {}
  /\ poisoned = FALSE

Go(r, where) == pc' = [pc EXCEPT ![r] = where]

\* getKey(), and on to the import; on a document that is not a JWKS it throws an
\* error which is not a TokenValidationError.
FindKey(r, document) ==
  Go(r, IF document.kind = "noJwks" THEN "internal"
        ELSE IF token[r].kid \in document.keys THEN "importing"
        ELSE "unauthenticated")

Bearer(r) == token[r].auth = "Bearer"
\* A header that is JSON, but null, has no kid: reading it throws a TypeError.
HasKid(r) == Bearer(r) /\ token[r].header = "object"

\* No token, no bearer token, or one whose header cannot be read.
Refuse(r) ==
  /\ pc[r] = "new"
  /\ ~HasKid(r)
  /\ Go(r, IF Bearer(r) /\ token[r].header = "noObject" THEN "internal"
           ELSE "unauthenticated")
  /\ UNCHANGED <<now, issuer, cache, token, answer, history>>

FindVerifier(r) ==
  /\ pc[r] = "new" /\ HasKid(r)
  /\ token[r].kid \in verify
  /\ Go(r, "verifying")
  /\ UNCHANGED <<now, issuer, cache, token, answer, history>>

UseJwks(r) ==
  /\ pc[r] = "new" /\ HasKid(r)
  /\ token[r].kid \notin verify /\ jwks.kind /= "none"
  /\ FindKey(r, jwks)
  /\ UNCHANGED <<now, issuer, cache, token, answer, history>>

\* Mutant: a key that is not found is looked for in a new JWKS.
FetchAgain(r) ==
  /\ pc[r] = "new" /\ HasKid(r)
  /\ token[r].kid \notin verify /\ token[r].kid \notin jwks.keys
  /\ Go(r, "fetching")
  /\ UNCHANGED <<now, issuer, cache, token, answer, history>>

Fetch(r) ==
  /\ pc[r] = "new" /\ HasKid(r)
  /\ token[r].kid \notin verify /\ jwks.kind = "none"
  /\ Go(r, "fetching")
  /\ UNCHANGED <<now, issuer, cache, token, answer, history>>

\* The issuer serves a request; the answers of two fetches may overtake one another.
Serve(r) ==
  /\ pc[r] = "fetching" /\ answer[r].kind = "none"
  /\ \E document \in {Jwks(published), NoJwks} : answer' = [answer EXCEPT ![r] = document]
  /\ UNCHANGED <<now, issuer, cache, pc, token, history>>

Fetched(r) ==
  /\ pc[r] = "fetching" /\ answer[r].kind /= "none"
  /\ jwks' = answer[r]
  /\ FindKey(r, answer[r])
  /\ poisoned' = (poisoned \/ answer[r] = NoJwks)
  /\ answer' = [answer EXCEPT ![r] = NotFetched]
  /\ UNCHANGED <<now, issuer, verify, token, troubled>>

\* Mutants: a fetch that failed leaves an empty JWKS behind; a status that is not ok
\* is not looked at, and the document that comes with it is kept.
FetchFailsLeaving(r, document) ==
  /\ pc[r] = "fetching" /\ answer[r].kind = "none"
  /\ Go(r, "internal")
  /\ jwks' = document
  /\ troubled' = troubled \union {r}
  /\ UNCHANGED <<now, issuer, verify, token, answer, poisoned>>
FetchFailsEmpty(r) == FetchFailsLeaving(r, Jwks({}))
FetchFailsUnchecked(r) == FetchFailsLeaving(r, NoJwks)

\* No connection, a status that is not ok, or a body that is not JSON.
FetchFails(r) ==
  /\ pc[r] = "fetching" /\ answer[r].kind = "none"
  /\ Go(r, "internal")
  /\ troubled' = troubled \union {r}
  /\ UNCHANGED <<now, issuer, cache, token, answer, poisoned>>

\* Mutant: the whole JWKS is taken for imported, with what it holds by now.
ImportedAll(r) ==
  /\ pc[r] = "importing"
  /\ verify' = Keys
  /\ Go(r, "verifying")
  /\ UNCHANGED <<now, issuer, jwks, token, answer, history>>

\* asKey() resolves: its verifier is stored, over that of another request maybe.
Imported(r) ==
  /\ pc[r] = "importing"
  /\ verify' = verify \union {token[r].kid}
  /\ Go(r, "verifying")
  /\ UNCHANGED <<now, issuer, jwks, token, answer, history>>

\* asKey() rejects what is not a key.
ImportFails(r) ==
  /\ pc[r] = "importing"
  /\ Go(r, "internal")
  /\ troubled' = troubled \union {r}
  /\ UNCHANGED <<now, issuer, cache, token, answer, poisoned>>

\* checkClaims(); an exp of 0 counts as none.
CheckClaims(t) ==
  /\ t.exp /= 0 /\ now <= t.exp
  /\ t.aud
  /\ t.sub

\* The verification and, in the same step, the check of the claims.  A payload
\* that is not a JSON object makes it throw something else.
Verified(r) ==
  /\ pc[r] = "verifying"
  /\ Go(r, IF ~token[r].signed THEN "unauthenticated"
           ELSE IF token[r].payload = "noObject" THEN "internal"
           ELSE IF CheckClaims(token[r]) THEN "decoding"
           ELSE "unauthenticated")
  /\ UNCHANGED <<now, issuer, cache, token, answer, history>>

\* decodeClaims() of the application resolves or rejects.
Decoded(r) ==
  /\ pc[r] = "decoding"
  /\ Go(r, "accepted")
  /\ UNCHANGED <<now, issuer, cache, token, answer, history>>

DecoderFails(r) ==
  /\ pc[r] = "decoding"
  /\ Go(r, "internal")
  /\ troubled' = troubled \union {r}
  /\ UNCHANGED <<now, issuer, cache, token, answer, poisoned>>

\* The next request.
Arrive(r) ==
  /\ pc[r] \in Outcomes
  /\ Go(r, "new")
  /\ \E t \in Tokens : token' = [token EXCEPT ![r] = t]
  /\ troubled' = troubled \ {r}
  /\ UNCHANGED <<now, issuer, cache, answer, poisoned>>

Rotate ==
  /\ published' \in SUBSET Keys
  /\ ever' = ever \union published'
  /\ always' = always \intersect published'
  /\ UNCHANGED <<now, cache, pc, token, answer, history>>

Tick ==
  /\ now < MaxTime
  /\ now' = now + 1
  /\ UNCHANGED <<issuer, cache, pc, token, answer, history>>

Next ==
  \/ \E r \in Requests :
       \/ Refuse(r)
       \/ FindVerifier(r)
       \/ UseJwks(r)
       \/ Fetch(r)
       \/ Serve(r)
       \/ Fetched(r)
       \/ FetchFails(r)
       \/ Imported(r)
       \/ ImportFails(r)
       \/ Verified(r)
       \/ Decoded(r)
       \/ DecoderFails(r)
       \/ Arrive(r)
  \/ Rotate
  \/ Tick

Spec == Init /\ [][Next]_vars

-----------------------------------------------------------------------------
(***************************************************************************)
(* Properties.                                                             *)
(***************************************************************************)

\* Whatever the requests before it and beside it left in the caches, a token is
\* accepted only if it is signed with a key that the issuer has published, and is
\* meant for us (token_auth_jwt_handler.ts:73-126).
AcceptedIsGenuine ==
  \A r \in Requests :
    pc[r] = "accepted" =>
      /\ HasKid(r) /\ token[r].signed /\ token[r].kid \in ever
      /\ token[r].aud /\ token[r].sub /\ token[r].exp /= 0

\* A good token of a key that the issuer has always published is never answered with
\* `unauthenticated', although the JWKS of several fetches overwrite one another:
\* the client, which does not retry that error, would log its user out
\* (token_auth.ts:44-54, token_auth_jwt_handler.ts:73-91).
GoodIsNotRefused ==
  \A r \in Requests :
    /\ pc[r] = "unauthenticated" /\ HasKid(r)
    /\ token[r].signed /\ token[r].payload = "object" /\ token[r].aud /\ token[r].sub
    /\ token[r].kid \in always
    => now > token[r].exp \/ token[r].exp = 0

\* A request fails with something else than `unauthenticated' for its own reasons
\* only: its own fetch, import or decoder failed, or its token holds JSON that is no
\* object.  The failure of another request leaves nothing behind, unless what was
\* fetched is JSON but no JWKS, which is kept for ever
\* (token_auth_jwt_handler.ts:83-88, 93-112).
FailureIsItsOwn ==
  \A r \in Requests :
    pc[r] = "internal" =>
      \/ r \in troubled
      \/ token[r].header = "noObject" \/ token[r].payload = "noObject"
      \/ poisoned

\* The keys are frozen once a JWKS is there and nobody is fetching: no request fetches
\* again, so that a key published later is never found and one withdrawn stays good
\* until the process ends (token_auth_jwt_handler.ts:82-89).
CacheIsFrozen ==
  [][jwks.kind /= "none" /\ (\A r \in Requests : pc[r] /= "fetching")
       => jwks' = jwks /\ \A r \in Requests : pc'[r] /= "fetching"]_vars
=============================================================================
