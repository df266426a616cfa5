-------------------------- MODULE JwtHandlerProofs --------------------------
(***************************************************************************)
(* Proofs about JwtHandler, for any number of requests, keys and tokens.   *)
(***************************************************************************)
EXTENDS JwtHandler, TLAPS

\* What the code knows of a document: its keys were published once, and the keys
\* that always were are among them.
Truthful(document) ==
  /\ document \in Documents
  /\ document.keys \subseteq ever
  /\ document.kind = "jwks" => always \subseteq document.keys

MeantForUs(t) == t.aud /\ t.sub /\ t.exp /= 0
Genuine(t) == t.signed /\ MeantForUs(t)
\* A token that is refused for what it says or by now no longer says.
Bad(t) == ~(t.signed /\ t.payload = "object" /\ t.aud /\ t.sub) \/ now > t.exp \/ t.exp = 0
NoObject(t) == t.header = "noObject" \/ t.payload = "noObject"

HasKey(r) == HasKid(r) /\ token[r].kid \in ever

\* What is known of a request by the place where it awaits.
RequestInv(r) ==
  /\ pc[r] = "fetching" => HasKid(r)
  /\ pc[r] \in {"importing", "verifying", "decoding", "accepted"} => HasKey(r)
  /\ pc[r] \in {"decoding", "accepted"} => Genuine(token[r])
  /\ pc[r] = "unauthenticated" =>
       ~HasKid(r) \/ Bad(token[r]) \/ token[r].kid \notin always
  /\ pc[r] = "internal" => r \in troubled \/ NoObject(token[r]) \/ poisoned

PublishedOnce == published \subseteq ever

CacheInv ==
  /\ PublishedOnce
  /\ always \subseteq ever
  /\ Truthful(jwks)
  /\ \A r \in Requests : Truthful(answer[r])
  /\ jwks.kind = "noJwks" => poisoned

IInv ==
  /\ TypeOK
  /\ CacheInv
  /\ \A r \in Requests : RequestInv(r)

-----------------------------------------------------------------------------
LEMMA TokenHasFields ==
  ASSUME NEW t \in Tokens
  PROVE  /\ t.kid \in Keys /\ t.exp \in Nat
         /\ t.payload \in {"noObject", "object"}
  BY JwtAssumption

LEMMA DocumentHasFields ==
  ASSUME NEW d \in Documents
  PROVE  /\ d.kind \in {"none", "noJwks", "jwks"}
         /\ d.keys \subseteq Keys
         /\ d.kind = "noJwks" <=> d = NoJwks
         /\ d.kind = "none" <=> d = NotFetched
  BY DEF Documents, NotFetched, NoJwks, Jwks

LEMMA InitInv == Init => IInv
  <1> SUFFICES ASSUME Init PROVE IInv
    OBVIOUS
  <1> USE DEF Init
  <1>1. NotFetched \in Documents /\ NotFetched.keys = {} /\ NotFetched.kind = "none"
    BY DEF NotFetched, Documents
  <1>2. 1 \in 1..MaxTime
    BY JwtAssumption
  <1>3. TypeOK
    BY <1>1, <1>2 DEF TypeOK
  <1>4. CacheInv
    BY <1>1 DEF CacheInv, PublishedOnce, Truthful
  <1>5. \A r \in Requests : RequestInv(r)
    BY DEF RequestInv
  <1> QED
    BY <1>3, <1>4, <1>5 DEF IInv

\* A step of one request that leaves the caches, the issuer, the tokens and the
\* clock alone keeps the invariant if it keeps the part of this request.
LEMMA OwnStep ==
  ASSUME IInv, NEW r \in Requests,
         NEW where \in {"new"} \union Awaiting \union Outcomes,
         Go(r, where),
         UNCHANGED <<now, issuer, cache, token, answer, poisoned>>,
         troubled \subseteq troubled', troubled' \subseteq Requests,
         RequestInv(r)'
  PROVE  IInv'
  <1>1. TypeOK'
    BY DEF IInv, TypeOK, Go, cache, issuer
  <1>2. CacheInv'
    BY DEF IInv, CacheInv, PublishedOnce, Truthful, cache, issuer
  <1>3. ASSUME NEW s \in Requests, s /= r PROVE RequestInv(s)'
    <2>1. RequestInv(s) /\ pc'[s] = pc[s]
      BY <1>3 DEF IInv, TypeOK, Go
    <2>2. HasKid(s)' = HasKid(s) /\ HasKey(s)' = HasKey(s)
      BY DEF HasKid, HasKey, Bearer, issuer
    <2>3. Genuine(token[s])' = Genuine(token[s]) /\ Bad(token[s])' = Bad(token[s])
            /\ NoObject(token[s])' = NoObject(token[s])
      BY DEF Genuine, MeantForUs, Bad, NoObject
    <2> QED
      BY <2>1, <2>2, <2>3 DEF RequestInv, issuer
  <1> QED
    BY <1>1, <1>2, <1>3 DEF IInv

\* Where getKey() leads to, on a document that is known to be truthful.
LEMMA KeyFound ==
  ASSUME IInv, NEW r \in Requests, HasKid(r),
         NEW d, Truthful(d), d.kind /= "none", d.kind = "noJwks" => poisoned',
         FindKey(r, d), UNCHANGED <<issuer, token>>
  PROVE  /\ RequestInv(r)'
         /\ \E where \in {"importing", "unauthenticated", "internal"} : Go(r, where)
  <1> DEFINE where == IF d.kind = "noJwks" THEN "internal"
                      ELSE IF token[r].kid \in d.keys THEN "importing"
                      ELSE "unauthenticated"
  <1>1. Go(r, where) /\ where \in {"importing", "unauthenticated", "internal"}
    BY DEF FindKey
  <1>2. pc'[r] = where
    BY <1>1 DEF Go, IInv, TypeOK
  <1>3. HasKid(r)'
    BY DEF HasKid, Bearer
  <1>4. CASE where = "internal"
    BY <1>1, <1>2, <1>4 DEF RequestInv
  <1>5. CASE where = "importing"
    BY <1>1, <1>2, <1>3, <1>5 DEF RequestInv, HasKey, Truthful, issuer
  <1>6. CASE where = "unauthenticated"
    <2>1. d.kind = "jwks" /\ token[r].kid \notin d.keys
      BY <1>6, DocumentHasFields DEF Truthful
    <2>2. token[r].kid \notin always
      BY <2>1 DEF Truthful
    <2> QED
      BY <1>1, <1>2, <1>6, <2>2 DEF RequestInv, issuer
  <1> QED
    BY <1>1, <1>4, <1>5, <1>6

LEMMA NextInv == IInv /\ [Next]_vars => IInv'
  <1> SUFFICES ASSUME IInv, [Next]_vars PROVE IInv'
    OBVIOUS
  <1>1. ASSUME NEW r \in Requests, Refuse(r) PROVE IInv'
    <2>1. UNCHANGED <<now, issuer, cache, token, answer, troubled, poisoned>>
      BY <1>1 DEF Refuse, history
    <2>2. ~HasKid(r)'
      BY <1>1, <2>1 DEF Refuse, HasKid, Bearer
    <2>3. CASE Bearer(r) /\ token[r].header = "noObject"
      <3>1. Go(r, "internal") /\ pc'[r] = "internal" /\ NoObject(token[r])'
        BY <1>1, <2>1, <2>3 DEF Refuse, Go, IInv, TypeOK, NoObject
      <3>2. RequestInv(r)'
        BY <3>1 DEF RequestInv
      <3> QED
        BY <2>1, <3>1, <3>2, OwnStep DEF Outcomes, IInv, TypeOK
    <2>4. CASE ~(Bearer(r) /\ token[r].header = "noObject")
      <3>1. Go(r, "unauthenticated") /\ pc'[r] = "unauthenticated"
        BY <1>1, <2>4 DEF Refuse, Go, IInv, TypeOK
      <3>2. RequestInv(r)'
        BY <3>1, <2>2 DEF RequestInv
      <3> QED
        BY <2>1, <3>1, <3>2, OwnStep DEF Outcomes, IInv, TypeOK
    <2> QED
      BY <2>3, <2>4
  <1>2. ASSUME NEW r \in Requests, FindVerifier(r) PROVE IInv'
    <2>1. /\ UNCHANGED <<now, issuer, cache, token, answer, troubled, poisoned>>
          /\ Go(r, "verifying") /\ pc'[r] = "verifying"
      BY <1>2 DEF FindVerifier, history, Go, IInv, TypeOK
    <2>2. HasKey(r)'
      BY <1>2, <2>1 DEF FindVerifier, HasKey, HasKid, Bearer, IInv, TypeOK, issuer
    <2>3. RequestInv(r)'
      BY <2>1, <2>2 DEF RequestInv
    <2> QED
      BY <2>1, <2>3, OwnStep DEF Awaiting, IInv, TypeOK
  <1>3. ASSUME NEW r \in Requests, UseJwks(r) PROVE IInv'
    <2>1. /\ UNCHANGED <<now, issuer, cache, token, answer, troubled, poisoned>>
          /\ HasKid(r) /\ jwks.kind /= "none" /\ FindKey(r, jwks)
      BY <1>3 DEF UseJwks, history
    <2>2. Truthful(jwks) /\ (jwks.kind = "noJwks" => poisoned')
      BY <2>1 DEF IInv, CacheInv
    <2>3. /\ RequestInv(r)'
          /\ \E where \in {"importing", "unauthenticated", "internal"} : Go(r, where)
      BY <2>1, <2>2, KeyFound
    <2> QED
      BY <2>1, <2>3, OwnStep DEF Awaiting, Outcomes, IInv, TypeOK
  <1>4. ASSUME NEW r \in Requests, Fetch(r) PROVE IInv'
    <2>1. /\ UNCHANGED <<now, issuer, cache, token, answer, troubled, poisoned>>
          /\ Go(r, "fetching") /\ pc'[r] = "fetching"
      BY <1>4 DEF Fetch, history, Go, IInv, TypeOK
    <2>2. HasKid(r)'
      BY <1>4, <2>1 DEF Fetch, HasKid, Bearer
    <2>3. RequestInv(r)'
      BY <2>1, <2>2 DEF RequestInv
    <2> QED
      BY <2>1, <2>3, OwnStep DEF Awaiting, IInv, TypeOK
  <1>5. ASSUME NEW r \in Requests, Serve(r) PROVE IInv'
    <2>1. UNCHANGED <<now, published, ever, always, jwks, verify, pc, token, troubled, poisoned>>
      BY <1>5 DEF Serve, issuer, cache, history
    <2>2. PICK d \in {Jwks(published), NoJwks} : answer' = [answer EXCEPT ![r] = d]
      BY <1>5 DEF Serve
    <2>3. Truthful(d)
      <3>1. published \subseteq ever /\ published \subseteq Keys /\ always \subseteq published
        BY DEF IInv, TypeOK, CacheInv, PublishedOnce
      <3>2. d \in Documents
        BY <2>2, <3>1 DEF Documents
      <3>3. CASE d = Jwks(published)
        BY <3>1, <3>2, <3>3 DEF Truthful, Jwks
      <3>4. CASE d = NoJwks
        BY <3>2, <3>4 DEF Truthful, NoJwks
      <3> QED
        BY <2>2, <3>3, <3>4
    <2>4. TypeOK'
      BY <2>1, <2>2, <2>3 DEF IInv, TypeOK, Truthful
    <2>5. CacheInv'
      <3>1. ASSUME NEW s \in Requests PROVE Truthful(answer[s])'
        BY <2>1, <2>2, <2>3, <3>1 DEF IInv, TypeOK, CacheInv, Truthful
      <3> QED
        BY <2>1, <3>1 DEF IInv, CacheInv, Truthful, PublishedOnce
    <2>6. ASSUME NEW s \in Requests PROVE RequestInv(s)'
      BY <2>1, <2>6 DEF IInv, RequestInv, HasKid, HasKey, Bearer, Genuine, MeantForUs, Bad,
                        NoObject
    <2> QED
      BY <2>4, <2>5, <2>6 DEF IInv
  <1>6. ASSUME NEW r \in Requests, Fetched(r) PROVE IInv'
    <2> DEFINE d == answer[r]
    <2>1. /\ UNCHANGED <<now, published, ever, always, verify, token, troubled>>
          /\ pc[r] = "fetching" /\ d.kind /= "none" /\ FindKey(r, d) /\ jwks' = d
          /\ poisoned' = (poisoned \/ d = NoJwks)
          /\ answer' = [answer EXCEPT ![r] = NotFetched]
      BY <1>6 DEF Fetched, issuer
    <2>2. Truthful(d) /\ d \in Documents
      BY DEF IInv, CacheInv, Truthful
    <2>3. (d.kind = "noJwks" => poisoned') /\ (poisoned => poisoned')
      BY <2>1, <2>2, DocumentHasFields
    <2>4. HasKid(r)
      BY <2>1 DEF IInv, RequestInv
    <2>5. /\ RequestInv(r)'
          /\ \E where \in {"importing", "unauthenticated", "internal"} : Go(r, where)
      BY <2>1, <2>2, <2>3, <2>4, KeyFound DEF issuer
    <2>6. Truthful(NotFetched) /\ NotFetched \in Documents
      BY DEF Truthful, Documents, NotFetched
    <2>7. TypeOK'
      <3>1. pc' \in [Requests -> {"new"} \union Awaiting \union Outcomes]
        BY <2>5 DEF Go, IInv, TypeOK, Awaiting, Outcomes
      <3>2. answer' \in [Requests -> Documents]
        BY <2>1, <2>6 DEF IInv, TypeOK
      <3>3. poisoned' \in BOOLEAN
        BY <2>1
      <3> QED
        BY <2>1, <2>2, <3>1, <3>2, <3>3 DEF IInv, TypeOK
    <2>8. CacheInv'
      <3>1. ASSUME NEW s \in Requests PROVE Truthful(answer[s])'
        BY <2>1, <2>6, <3>1 DEF IInv, TypeOK, CacheInv, Truthful
      <3>2. Truthful(jwks)'
        BY <2>1, <2>2 DEF Truthful
      <3> QED
        BY <2>1, <2>3, <3>1, <3>2 DEF IInv, CacheInv, PublishedOnce
    <2>9. ASSUME NEW s \in Requests, s /= r PROVE RequestInv(s)'
      <3>1. pc'[s] = pc[s] /\ RequestInv(s)
        BY <2>5, <2>9 DEF Go, IInv, TypeOK
      <3> QED
        BY <2>1, <2>3, <3>1 DEF RequestInv, HasKid, HasKey, Bearer, Genuine, MeantForUs, Bad,
                                NoObject
    <2> QED
      BY <2>5, <2>7, <2>8, <2>9 DEF IInv
  <1>7. ASSUME NEW r \in Requests, FetchFails(r) \/ ImportFails(r) \/ DecoderFails(r)
        PROVE IInv'
    <2>1. /\ UNCHANGED <<now, issuer, cache, token, answer, poisoned>>
          /\ Go(r, "internal") /\ troubled' = troubled \union {r}
      BY <1>7 DEF FetchFails, ImportFails, DecoderFails
    <2>2. RequestInv(r)'
      BY <2>1 DEF Go, IInv, TypeOK, RequestInv
    <2>3. troubled' \subseteq Requests
      BY <2>1 DEF IInv, TypeOK
    <2> QED
      BY <2>1, <2>2, <2>3, OwnStep DEF Outcomes
  <1>8. ASSUME NEW r \in Requests, Imported(r) PROVE IInv'
    <2>1. /\ UNCHANGED <<now, issuer, jwks, token, answer, troubled, poisoned>>
          /\ pc[r] = "importing" /\ Go(r, "verifying")
          /\ verify' = verify \union {token[r].kid}
      BY <1>8 DEF Imported, history
    <2>2. HasKey(r)
      BY <2>1 DEF IInv, RequestInv
    <2>3. TypeOK'
      <3>1. pc' \in [Requests -> {"new"} \union Awaiting \union Outcomes]
        BY <2>1 DEF Go, IInv, TypeOK, Awaiting
      <3>2. verify' \subseteq ever'
        BY <2>1, <2>2 DEF HasKey, IInv, TypeOK, issuer
      <3> QED
        BY <2>1, <3>1, <3>2 DEF IInv, TypeOK, issuer
    <2>4. CacheInv'
      BY <2>1 DEF IInv, CacheInv, PublishedOnce, Truthful, issuer
    <2>5. ASSUME NEW s \in Requests PROVE RequestInv(s)'
      <3>1. RequestInv(s) /\ (s /= r => pc'[s] = pc[s]) /\ pc'[r] = "verifying"
        BY <2>1 DEF Go, IInv, TypeOK
      <3>2. HasKid(s)' = HasKid(s) /\ HasKey(s)' = HasKey(s)
        BY <2>1 DEF HasKid, HasKey, Bearer, issuer
      <3>3. Genuine(token[s])' = Genuine(token[s]) /\ Bad(token[s])' = Bad(token[s])
              /\ NoObject(token[s])' = NoObject(token[s])
        BY <2>1 DEF Genuine, MeantForUs, Bad, NoObject
      <3> QED
        BY <2>1, <2>2, <3>1, <3>2, <3>3 DEF RequestInv, issuer
    <2> QED
      BY <2>3, <2>4, <2>5 DEF IInv
  <1>9. ASSUME NEW r \in Requests, Verified(r) PROVE IInv'
    <2> DEFINE t == token[r]
    <2> DEFINE where == IF ~t.signed THEN "unauthenticated"
                        ELSE IF t.payload = "noObject" THEN "internal"
                        ELSE IF CheckClaims(t) THEN "decoding"
                        ELSE "unauthenticated"
    <2>1. /\ UNCHANGED <<now, issuer, cache, token, answer, troubled, poisoned>>
          /\ pc[r] = "verifying" /\ Go(r, where)
      BY <1>9 DEF Verified, history
    <2>2. where \in Awaiting \union Outcomes /\ pc'[r] = where
      BY <2>1 DEF Go, IInv, TypeOK, Awaiting, Outcomes
    <2>3. HasKey(r)'
      BY <2>1 DEF IInv, RequestInv, HasKey, HasKid, Bearer, issuer
    <2>4. t \in Tokens /\ now \in Nat
      BY DEF IInv, TypeOK
    <2>5. ASSUME where = "unauthenticated" PROVE RequestInv(r)'
      <3>1. ~t.signed \/ ~CheckClaims(t)
        BY <2>5
      <3>2. Bad(t)
        BY <2>4, <3>1, TokenHasFields DEF Bad, CheckClaims
      <3>3. Bad(token[r])'
        BY <2>1, <3>2 DEF Bad
      <3>4. pc'[r] = "unauthenticated"
        BY <2>2, <2>5
      <3> HIDE DEF where
      <3> QED
        BY <3>3, <3>4 DEF RequestInv
    <2>6. ASSUME where = "internal" PROVE RequestInv(r)'
      <3>1. t.payload = "noObject"
        BY <2>6
      <3>2. NoObject(token[r])'
        BY <2>1, <3>1 DEF NoObject
      <3>3. pc'[r] = "internal"
        BY <2>2, <2>6
      <3> HIDE DEF where
      <3> QED
        BY <3>2, <3>3 DEF RequestInv
    <2>7. ASSUME where = "decoding" PROVE RequestInv(r)'
      <3>1. t.signed /\ CheckClaims(t)
        BY <2>7
      <3>2. Genuine(t)
        BY <3>1 DEF Genuine, MeantForUs, CheckClaims
      <3>3. Genuine(token[r])'
        BY <2>1, <3>2 DEF Genuine, MeantForUs
      <3>4. pc'[r] = "decoding"
        BY <2>2, <2>7
      <3> HIDE DEF where
      <3> QED
        BY <2>3, <3>3, <3>4 DEF RequestInv
    <2>8. RequestInv(r)'
      <3>1. where \in {"unauthenticated", "internal", "decoding"}
        OBVIOUS
      <3> HIDE DEF where
      <3> QED
        BY <2>5, <2>6, <2>7, <3>1
    <2> HIDE DEF where
    <2> QED
      BY <2>1, <2>2, <2>8, OwnStep DEF IInv, TypeOK
  <1>10. ASSUME NEW r \in Requests, Decoded(r) PROVE IInv'
    <2>1. /\ UNCHANGED <<now, issuer, cache, token, answer, troubled, poisoned>>
          /\ pc[r] = "decoding" /\ Go(r, "accepted") /\ pc'[r] = "accepted"
      BY <1>10 DEF Decoded, history, Go, IInv, TypeOK
    <2>2. HasKey(r)' /\ Genuine(token[r])'
      BY <2>1 DEF IInv, RequestInv, HasKey, HasKid, Bearer, Genuine, MeantForUs, issuer
    <2>3. RequestInv(r)'
      BY <2>1, <2>2 DEF RequestInv
    <2> QED
      BY <2>1, <2>3, OwnStep DEF Outcomes, IInv, TypeOK
  <1>11. ASSUME NEW r \in Requests, Arrive(r) PROVE IInv'
    <2>1. /\ UNCHANGED <<now, published, ever, always, jwks, verify, answer, poisoned>>
          /\ Go(r, "new") /\ troubled' = troubled \ {r}
      BY <1>11 DEF Arrive, issuer, cache
    <2>2. PICK t \in Tokens : token' = [token EXCEPT ![r] = t]
      BY <1>11 DEF Arrive
    <2>3. TypeOK'
      <3>1. pc' \in [Requests -> {"new"} \union Awaiting \union Outcomes]
        BY <2>1 DEF Go, IInv, TypeOK
      <3>2. token' \in [Requests -> Tokens]
        BY <2>2 DEF IInv, TypeOK
      <3> QED
        BY <2>1, <3>1, <3>2 DEF IInv, TypeOK
    <2>4. CacheInv'
      BY <2>1 DEF IInv, CacheInv, PublishedOnce, Truthful
    <2>5. ASSUME NEW s \in Requests, s /= r PROVE RequestInv(s)'
      <3>1. RequestInv(s) /\ pc'[s] = pc[s] /\ token'[s] = token[s]
        BY <2>1, <2>2, <2>5 DEF Go, IInv, TypeOK
      <3>2. s \in troubled' <=> s \in troubled
        BY <2>1, <2>5
      <3> QED
        BY <2>1, <3>1, <3>2 DEF RequestInv, HasKid, HasKey, Bearer, Genuine, MeantForUs, Bad,
                                NoObject
    <2>6. RequestInv(r)'
      BY <2>1 DEF Go, IInv, TypeOK, RequestInv
    <2> QED
      BY <2>3, <2>4, <2>5, <2>6 DEF IInv
  <1>12. CASE Rotate
    <2>1. /\ UNCHANGED <<now, jwks, verify, pc, token, answer, troubled, poisoned>>
          /\ published' \subseteq Keys
          /\ ever' = ever \union published' /\ always' = always \intersect published'
      BY <1>12 DEF Rotate, cache, history
    <2>2. TypeOK'
      BY <2>1 DEF IInv, TypeOK
    <2>3. CacheInv'
      BY <2>1 DEF IInv, CacheInv, PublishedOnce, Truthful
    <2>4. ASSUME NEW s \in Requests PROVE RequestInv(s)'
      BY <2>1, <2>4 DEF IInv, RequestInv, HasKid, HasKey, Bearer, Genuine, MeantForUs, Bad,
                        NoObject
    <2> QED
      BY <2>2, <2>3, <2>4 DEF IInv
  <1>13. CASE Tick
    <2>1. /\ UNCHANGED <<published, ever, always, jwks, verify, pc, token, answer, troubled, poisoned>>
          /\ now < MaxTime /\ now' = now + 1
      BY <1>13 DEF Tick, issuer, cache, history
    <2>2. TypeOK'
      <3>1. now' \in 1..MaxTime
        BY <2>1, JwtAssumption DEF IInv, TypeOK
      <3> QED
        BY <2>1, <3>1 DEF IInv, TypeOK
    <2>3. CacheInv'
      BY <2>1 DEF IInv, CacheInv, PublishedOnce, Truthful
    <2>4. ASSUME NEW s \in Requests PROVE RequestInv(s)'
      <3>1. RequestInv(s) /\ token[s] \in Tokens /\ now \in Nat
        BY DEF IInv, TypeOK
      <3>2. Bad(token[s]) => Bad(token[s])'
        BY <2>1, <3>1, TokenHasFields DEF Bad
      <3>3. HasKid(s)' = HasKid(s) /\ HasKey(s)' = HasKey(s)
              /\ Genuine(token[s])' = Genuine(token[s])
              /\ NoObject(token[s])' = NoObject(token[s])
        BY <2>1 DEF HasKid, HasKey, Bearer, Genuine, MeantForUs, NoObject
      <3> QED
        BY <2>1, <3>1, <3>2, <3>3 DEF RequestInv
    <2> QED
      BY <2>2, <2>3, <2>4 DEF IInv
  <1>14. CASE UNCHANGED vars
    <2>1. UNCHANGED <<now, published, ever, always, jwks, verify, pc, token, answer, troubled,
                      poisoned>>
      BY <1>14 DEF vars, issuer, cache, history
    <2>2. TypeOK' /\ CacheInv'
      BY <2>1 DEF IInv, TypeOK, CacheInv, PublishedOnce, Truthful
    <2>3. ASSUME NEW s \in Requests PROVE RequestInv(s)'
      BY <2>1, <2>3 DEF IInv, RequestInv, HasKid, HasKey, Bearer, Genuine, MeantForUs, Bad,
                        NoObject
    <2> QED
      BY <2>2, <2>3 DEF IInv
  <1> QED
    BY <1>1, <1>2, <1>3, <1>4, <1>5, <1>6, <1>7, <1>8, <1>9, <1>10, <1>11, <1>12, <1>13,
       <1>14 DEF Next

-----------------------------------------------------------------------------
(***************************************************************************)
(* Theorems.                                                               *)
(***************************************************************************)

LEMMA Invariance == Spec => []IInv
  <1>1. Init => IInv
    BY InitInv
  <1>2. IInv /\ [Next]_vars => IInv'
    BY NextInv
  <1> QED
    BY <1>1, <1>2, PTL DEF Spec

\* Every variable keeps its type; in particular there are verifiers for keys only that
\* the issuer published once (token_auth_jwt_handler.ts:65-91).
THEOREM TypeCorrect == Spec => []TypeOK
  <1>1. IInv => TypeOK
    BY DEF IInv
  <1> QED
    BY <1>1, Invariance, PTL

\* However many requests share the caches, only tokens are accepted that are signed
\* with a published key and meant for us (token_auth_jwt_handler.ts:73-126).
THEOREM OnlyGenuineTokens == Spec => []AcceptedIsGenuine
  <1>1. IInv => AcceptedIsGenuine
    BY DEF IInv, RequestInv, HasKey, Genuine, MeantForUs, AcceptedIsGenuine
  <1> QED
    BY <1>1, Invariance, PTL

\* Good tokens of lasting keys are never refused, whatever order the answers of
\* concurrent fetches arrive in (token_auth_jwt_handler.ts:73-91, token_auth.ts:44-54).
THEOREM GoodTokensPass == Spec => []GoodIsNotRefused
  <1>1. IInv => GoodIsNotRefused
    BY DEF IInv, RequestInv, Bad, GoodIsNotRefused
  <1> QED
    BY <1>1, Invariance, PTL

\* The failure of a request has its reason in this request, or in a document that is
\* no JWKS (token_auth_jwt_handler.ts:83-88, 93-112).
THEOREM FailuresStay == Spec => []FailureIsItsOwn
  <1>1. IInv => FailureIsItsOwn
    BY DEF IInv, RequestInv, NoObject, FailureIsItsOwn
  <1> QED
    BY <1>1, Invariance, PTL

\* The keys freeze with the last fetch (token_auth_jwt_handler.ts:82-89).
THEOREM CacheFreezes == Spec => CacheIsFrozen
  <1> DEFINE Frozen == jwks.kind /= "none" /\ \A r \in Requests : pc[r] /= "fetching"
             Kept == jwks' = jwks /\ \A r \in Requests : pc'[r] /= "fetching"
  <1>1. IInv /\ [Next]_vars => [Frozen => Kept]_vars
    <2> SUFFICES ASSUME IInv, Next, Frozen PROVE Kept
      OBVIOUS
    <2>1. pc \in [Requests -> {"new"} \union Awaiting \union Outcomes]
      BY DEF IInv, TypeOK
    <2>2. ASSUME NEW r \in Requests, NEW where, where /= "fetching", Go(r, where)
          PROVE  \A s \in Requests : pc'[s] /= "fetching"
      BY <2>1, <2>2 DEF Go
    <2>3. ASSUME NEW r \in Requests, NEW d, FindKey(r, d)
          PROVE  \A s \in Requests : pc'[s] /= "fetching"
      <3> DEFINE where == IF d.kind = "noJwks" THEN "internal"
                          ELSE IF token[r].kid \in d.keys THEN "importing"
                          ELSE "unauthenticated"
      <3>1. Go(r, where) /\ where /= "fetching"
        BY <2>3 DEF FindKey
      <3> HIDE DEF where
      <3> QED
        BY <2>2, <3>1
    <2>4. ASSUME NEW r \in Requests, Refuse(r) \/ FindVerifier(r) PROVE Kept
      <3>1. jwks' = jwks
        BY <2>4 DEF Refuse, FindVerifier, cache
      <3>2. \E where \in {"internal", "unauthenticated", "verifying"} : Go(r, where)
        BY <2>4 DEF Refuse, FindVerifier
      <3> QED
        BY <2>2, <3>1, <3>2
    <2>5. ASSUME NEW r \in Requests, UseJwks(r) PROVE Kept
      BY <2>3, <2>5 DEF UseJwks, cache
    <2>6. ASSUME NEW r \in Requests,
                 Fetch(r) \/ Serve(r) \/ Fetched(r) \/ FetchFails(r)
          PROVE  FALSE
      BY <2>6 DEF Fetch, Serve, Fetched, FetchFails
    <2>7. ASSUME NEW r \in Requests, ImportFails(r) \/ DecoderFails(r) \/ Imported(r)
                                       \/ Decoded(r) \/ Arrive(r)
          PROVE  Kept
      <3>1. jwks' = jwks
        BY <2>7 DEF ImportFails, DecoderFails, Imported, Decoded, Arrive, cache
      <3>2. \E where \in {"internal", "verifying", "accepted", "new"} : Go(r, where)
        BY <2>7 DEF ImportFails, DecoderFails, Imported, Decoded, Arrive
      <3> QED
        BY <2>2, <3>1, <3>2
    <2>8. ASSUME NEW r \in Requests, Verified(r) PROVE Kept
      <3>1. jwks' = jwks
        BY <2>8 DEF Verified, cache
      <3>2. \E where \in {"internal", "unauthenticated", "decoding"} : Go(r, where)
        BY <2>8 DEF Verified
      <3> QED
        BY <2>2, <3>1, <3>2
    <2>9. CASE Rotate \/ Tick
      BY <2>9 DEF Rotate, Tick, cache
    <2> QED
      BY <2>4, <2>5, <2>6, <2>7, <2>8, <2>9 DEF Next
  <1>2. Spec => [][Frozen => Kept]_vars
    BY <1>1, Invariance, PTL DEF Spec
  <1> QED
    BY <1>2 DEF CacheIsFrozen
=============================================================================
