--------------------------- MODULE RpcErrorsProofs ---------------------------
(***************************************************************************)
(* Proofs about RpcErrors, for any number of retries and any statuses of   *)
(* intermediaries.                                                         *)
(***************************************************************************)
EXTENDS RpcErrors, TLAPS

Names ==
  {"canceled", "unknown", "invalidArgument", "notFound", "alreadyExists",
   "permissionDenied", "resourceExhausted", "failedPrecondition", "unimplemented",
   "internal", "unavailable", "unauthenticated"}

-----------------------------------------------------------------------------
(***************************************************************************)
(* The tables.                                                             *)
(***************************************************************************)

LEMMA TypesAreNames == RpcErrorType = Names
  BY DEF RpcErrorType, errorTypesToGrpcStatuses, Names

LEMMA GrpcStatuses ==
  ASSUME NEW t \in RpcErrorType
  PROVE  errorTypesToGrpcStatuses[t] \in 1..16
  BY TypesAreNames DEF Names, errorTypesToGrpcStatuses

\* No two types share a gRPC status.
LEMMA GrpcIsInjective ==
  ASSUME NEW t \in RpcErrorType, NEW u \in RpcErrorType,
         errorTypesToGrpcStatuses[t] = errorTypesToGrpcStatuses[u]
  PROVE  t = u
  BY TypesAreNames DEF Names, errorTypesToGrpcStatuses

LEMMA GrpcInverse ==
  ASSUME NEW t \in RpcErrorType
  PROVE  /\ errorTypesToGrpcStatuses[t] \in DOMAIN grpcStatusesToErrorTypes
         /\ grpcStatusesToErrorTypes[errorTypesToGrpcStatuses[t]] = t
  BY GrpcIsInjective DEF grpcStatusesToErrorTypes

LEMMA HttpStatuses ==
  ASSUME NEW t \in RpcErrorType
  PROVE  errorTypesToHttpStatuses[t] \in {400, 401, 403, 404, 409, 429, 500, 501, 503}
  BY TypesAreNames DEF Names, errorTypesToHttpStatuses


LEMMA GreatestOf ==
  ASSUME NEW S \in SUBSET Int, NEW m \in S, \A j \in S : j <= m
  PROVE  (CHOOSE i \in S : \A j \in S : j <= i) = m
  <1>1. \A i \in S : (\A j \in S : j <= i) => i = m
    OBVIOUS
  <1> QED
    BY <1>1

LEMMA OrderOfPairs ==
  /\ DOMAIN HttpOrder = 1..12
  /\ HttpOrder[1] = "unknown"
  /\ HttpOrder[2] = "canceled"
  /\ HttpOrder[3] = "invalidArgument"
  /\ HttpOrder[4] = "notFound"
  /\ HttpOrder[5] = "alreadyExists"
  /\ HttpOrder[6] = "resourceExhausted"
  /\ HttpOrder[7] = "permissionDenied"
  /\ HttpOrder[8] = "failedPrecondition"
  /\ HttpOrder[9] = "unimplemented"
  /\ HttpOrder[10] = "internal"
  /\ HttpOrder[11] = "unavailable"
  /\ HttpOrder[12] = "unauthenticated"
  BY DEF HttpOrder

LEMMA StatusesOfPairs ==
  /\ errorTypesToHttpStatuses[HttpOrder[1]] = 500
  /\ errorTypesToHttpStatuses[HttpOrder[2]] = 500
  /\ errorTypesToHttpStatuses[HttpOrder[3]] = 400
  /\ errorTypesToHttpStatuses[HttpOrder[4]] = 404
  /\ errorTypesToHttpStatuses[HttpOrder[5]] = 409
  /\ errorTypesToHttpStatuses[HttpOrder[6]] = 429
  /\ errorTypesToHttpStatuses[HttpOrder[7]] = 403
  /\ errorTypesToHttpStatuses[HttpOrder[8]] = 400
  /\ errorTypesToHttpStatuses[HttpOrder[9]] = 501
  /\ errorTypesToHttpStatuses[HttpOrder[10]] = 500
  /\ errorTypesToHttpStatuses[HttpOrder[11]] = 503
  /\ errorTypesToHttpStatuses[HttpOrder[12]] = 401
  BY OrderOfPairs DEF errorTypesToHttpStatuses

\* The pairs with a status, and the last of them.
LEMMA LastPairs ==
  /\ FromPairs(400) = "failedPrecondition" /\ PairsOf(400) /= {}
  /\ FromPairs(401) = "unauthenticated" /\ PairsOf(401) /= {}
  /\ FromPairs(403) = "permissionDenied" /\ PairsOf(403) /= {}
  /\ FromPairs(404) = "notFound" /\ PairsOf(404) /= {}
  /\ FromPairs(409) = "alreadyExists" /\ PairsOf(409) /= {}
  /\ FromPairs(429) = "resourceExhausted" /\ PairsOf(429) /= {}
  /\ FromPairs(500) = "internal" /\ PairsOf(500) /= {}
  /\ FromPairs(501) = "unimplemented" /\ PairsOf(501) /= {}
  /\ FromPairs(503) = "unavailable" /\ PairsOf(503) /= {}
  <1>1. FromPairs(400) = "failedPrecondition" /\ PairsOf(400) /= {}
    <2>1. PairsOf(400) = {3, 8}
      BY OrderOfPairs, StatusesOfPairs DEF PairsOf
    <2>2. (CHOOSE i \in PairsOf(400) : \A j \in PairsOf(400) : j <= i) = 8
      BY <2>1, GreatestOf
    <2> QED
      BY <2>1, <2>2, OrderOfPairs DEF FromPairs
  <1>2. FromPairs(401) = "unauthenticated" /\ PairsOf(401) /= {}
    <2>1. PairsOf(401) = {12}
      BY OrderOfPairs, StatusesOfPairs DEF PairsOf
    <2>2. (CHOOSE i \in PairsOf(401) : \A j \in PairsOf(401) : j <= i) = 12
      BY <2>1, GreatestOf
    <2> QED
      BY <2>1, <2>2, OrderOfPairs DEF FromPairs
  <1>3. FromPairs(403) = "permissionDenied" /\ PairsOf(403) /= {}
    <2>1. PairsOf(403) = {7}
      BY OrderOfPairs, StatusesOfPairs DEF PairsOf
    <2>2. (CHOOSE i \in PairsOf(403) : \A j \in PairsOf(403) : j <= i) = 7
      BY <2>1, GreatestOf
    <2> QED
      BY <2>1, <2>2, OrderOfPairs DEF FromPairs
  <1>4. FromPairs(404) = "notFound" /\ PairsOf(404) /= {}
    <2>1. PairsOf(404) = {4}
      BY OrderOfPairs, StatusesOfPairs DEF PairsOf
    <2>2. (CHOOSE i \in PairsOf(404) : \A j \in PairsOf(404) : j <= i) = 4
      BY <2>1, GreatestOf
    <2> QED
      BY <2>1, <2>2, OrderOfPairs DEF FromPairs
  <1>5. FromPairs(409) = "alreadyExists" /\ PairsOf(409) /= {}
    <2>1. PairsOf(409) = {5}
      BY OrderOfPairs, StatusesOfPairs DEF PairsOf
    <2>2. (CHOOSE i \in PairsOf(409) : \A j \in PairsOf(409) : j <= i) = 5
      BY <2>1, GreatestOf
    <2> QED
      BY <2>1, <2>2, OrderOfPairs DEF FromPairs
  <1>6. FromPairs(429) = "resourceExhausted" /\ PairsOf(429) /= {}
    <2>1. PairsOf(429) = {6}
      BY OrderOfPairs, StatusesOfPairs DEF PairsOf
    <2>2. (CHOOSE i \in PairsOf(429) : \A j \in PairsOf(429) : j <= i) = 6
      BY <2>1, GreatestOf
    <2> QED
      BY <2>1, <2>2, OrderOfPairs DEF FromPairs
  <1>7. FromPairs(500) = "internal" /\ PairsOf(500) /= {}
    <2>1. PairsOf(500) = {1, 2, 10}
      BY OrderOfPairs, StatusesOfPairs DEF PairsOf
    <2>2. (CHOOSE i \in PairsOf(500) : \A j \in PairsOf(500) : j <= i) = 10
      BY <2>1, GreatestOf
    <2> QED
      BY <2>1, <2>2, OrderOfPairs DEF FromPairs
  <1>8. FromPairs(501) = "unimplemented" /\ PairsOf(501) /= {}
    <2>1. PairsOf(501) = {9}
      BY OrderOfPairs, StatusesOfPairs DEF PairsOf
    <2>2. (CHOOSE i \in PairsOf(501) : \A j \in PairsOf(501) : j <= i) = 9
      BY <2>1, GreatestOf
    <2> QED
      BY <2>1, <2>2, OrderOfPairs DEF FromPairs
  <1>9. FromPairs(503) = "unavailable" /\ PairsOf(503) /= {}
    <2>1. PairsOf(503) = {11}
      BY OrderOfPairs, StatusesOfPairs DEF PairsOf
    <2>2. (CHOOSE i \in PairsOf(503) : \A j \in PairsOf(503) : j <= i) = 11
      BY <2>1, GreatestOf
    <2> QED
      BY <2>1, <2>2, OrderOfPairs DEF FromPairs
  <1> QED
    BY <1>1, <1>2, <1>3, <1>4, <1>5, <1>6, <1>7, <1>8, <1>9

\* A type stripped to its status stays permanent; it stays transient, unless it shares
\* the status of `internal'.
LEMMA StatusTells ==
  ASSUME NEW t \in RpcErrorType
  PROVE  LET u == guessErrorTypeFromHttpStatus(errorTypesToHttpStatuses[t])
         IN /\ u \in RpcErrorType
            /\ t \in Permanent => u \in Permanent
            /\ t \notin Permanent /\ t \notin {"unknown", "canceled"} => u \notin Permanent
  <1> DEFINE status == errorTypesToHttpStatuses[t]
  <1>1. guessErrorTypeFromHttpStatus(status) = FromPairs(status)
    <2>1. status \notin {413, 502, 504} /\ PairsOf(status) /= {}
      BY HttpStatuses, LastPairs
    <2> QED
      BY <2>1 DEF guessErrorTypeFromHttpStatus
  <1> QED
    BY <1>1, LastPairs, TypesAreNames
       DEF Names, errorTypesToHttpStatuses, Permanent, ERROR_TYPES_TO_FAIL_IMMEDIATELY

LEMMA GuessIsType ==
  ASSUME NEW status \in Int
  PROVE  guessErrorTypeFromHttpStatus(status) \in RpcErrorType
  <1>1. CASE status \in {413, 502, 504} \/ PairsOf(status) = {}
    BY <1>1, TypesAreNames DEF guessErrorTypeFromHttpStatus, Names
  <1>2. CASE status \notin {413, 502, 504} /\ PairsOf(status) /= {}
    <2>1. PICK i \in 1..12 : errorTypesToHttpStatuses[HttpOrder[i]] = status
      BY <1>2, OrderOfPairs DEF PairsOf
    <2>2. i \in {1, 2, 3, 4, 5, 6, 7, 8, 9, 10, 11, 12}
      OBVIOUS
    <2>3. status \in {400, 401, 403, 404, 409, 429, 500, 501, 503}
      BY <2>1, <2>2, StatusesOfPairs
    <2>4. FromPairs(status) \in Names
      BY <2>3, LastPairs DEF Names
    <2> QED
      BY <1>2, <2>4, TypesAreNames DEF guessErrorTypeFromHttpStatus
  <1> QED
    BY <1>1, <1>2

-----------------------------------------------------------------------------
(***************************************************************************)
(* What the client makes of an answer.                                     *)
(***************************************************************************)

InHeaders(e) == [StatusOnly(getHttpStatus(e)) EXCEPT !.headers = getMetadata(e)]
InTrailers(e) == [NoAnswer EXCEPT !.trailers = getMetadata(e)]
MessageOf(e) == IF e.unsafe THEN "transmitted" ELSE "none"

LEMMA TypeOfThrown ==
  ASSUME NEW e \in Thrown
  PROVE  TypeOfError(e) \in RpcErrorType
  <1>1. CASE e \in ServerRpcError
    BY <1>1 DEF ServerRpcError, TypeOfError
  <1>2. CASE e = OtherError
    BY <1>2, TypesAreNames DEF OtherError, TypeOfError, Names
  <1> QED
    BY <1>1, <1>2 DEF Thrown

LEMMA NothingIsNotThrown == Nothing \notin Thrown
  BY DEF Nothing, Thrown, ServerRpcError, OtherError

LEMMA MetadataOfThrown ==
  ASSUME NEW e \in Thrown
  PROVE  /\ getMetadata(e) \in Metadata
         /\ getMetadata(e).code /= 0
         /\ ErrorFromMetadata(getMetadata(e)) = Rpc(TypeOfError(e), MessageOf(e))
  <1> DEFINE code == errorTypesToGrpcStatuses[TypeOfError(e)]
  <1>1. code \in 1..16
    BY TypeOfThrown, GrpcStatuses
  <1>2. /\ code \in DOMAIN grpcStatusesToErrorTypes
        /\ grpcStatusesToErrorTypes[code] = TypeOfError(e)
    BY TypeOfThrown, GrpcInverse
  <1>3. getMetadata(e) = [code |-> code, message |-> MessageOf(e)]
    BY DEF getMetadata, MessageOf
  <1>4. MessageOf(e) \in Messages
    BY DEF MessageOf, Messages
  <1> HIDE DEF code
  <1> QED
    BY <1>1, <1>2, <1>3, <1>4 DEF Metadata, ErrorFromMetadata

LEMMA StatusOfThrown ==
  ASSUME NEW e \in Thrown
  PROVE  /\ getHttpStatus(e) \in 300..599
         /\ getHttpStatus(e) = errorTypesToHttpStatuses[TypeOfError(e)]
  <1>1. CASE e \in ServerRpcError
    <2>1. e.rpc /\ e.type \in RpcErrorType
      BY <1>1 DEF ServerRpcError
    <2> QED
      BY <2>1, HttpStatuses DEF getHttpStatus, TypeOfError
  <1>2. CASE e = OtherError
    BY <1>2 DEF OtherError, getHttpStatus, TypeOfError, errorTypesToHttpStatuses
  <1> QED
    BY <1>1, <1>2 DEF Thrown

LEMMA NoErrorIsNotRpc ==
  ASSUME NEW t, NEW m
  PROVE  Rpc(t, m) /= NoError
  BY DEF Rpc, NoError, Context

LEMMA ReadInHeaders ==
  ASSUME NEW e \in Thrown
  PROVE  /\ InHeaders(e) \in Answers
         /\ InHeaders(e).headers.code /= 0
         /\ InHeaders(e).status = getHttpStatus(e)
         /\ ErrorFromHeaders(InHeaders(e)) = Rpc(TypeOfError(e), MessageOf(e))
  <1>1. InHeaders(e) = [status |-> getHttpStatus(e), headers |-> getMetadata(e),
                        trailers |-> NoMetadata]
    <2>1. StatusOnly(getHttpStatus(e)) =
            [status |-> getHttpStatus(e), headers |-> NoMetadata, trailers |-> NoMetadata]
      BY DEF StatusOnly, NoAnswer
    <2> QED
      BY <2>1 DEF InHeaders
  <1>2. NoMetadata \in Metadata
    BY DEF NoMetadata, Metadata, Messages
  <1> QED
    BY <1>1, <1>2, MetadataOfThrown, StatusOfThrown DEF ErrorFromHeaders, Answers

LEMMA ReadInTrailers ==
  ASSUME NEW e \in Thrown
  PROVE  /\ InTrailers(e) \in Answers
         /\ InTrailers(e).headers.code = 0
         /\ ErrorFromHeaders(InTrailers(e)) = NoError
         /\ ErrorFromMetadata(InTrailers(e).trailers) = Rpc(TypeOfError(e), MessageOf(e))
  <1>1. InTrailers(e) = [status |-> 200, headers |-> NoMetadata,
                         trailers |-> getMetadata(e)]
    BY DEF InTrailers, NoAnswer
  <1>2. NoMetadata \in Metadata /\ NoMetadata.code = 0
    BY DEF NoMetadata, Metadata, Messages
  <1> QED
    BY <1>1, <1>2, MetadataOfThrown DEF ErrorFromHeaders, Answers

LEMMA ReadStatusOnly ==
  ASSUME NEW s \in 300..599
  PROVE  /\ ErrorFromHeaders(StatusOnly(s)) = Rpc(guessErrorTypeFromHttpStatus(s), "generic")
         /\ ErrorFromHeaders(StatusOnly(s)) \in ClientErrors
  <1>1. /\ StatusOnly(s).status = s
        /\ StatusOnly(s).headers.code = 0
    BY DEF StatusOnly, NoAnswer, NoMetadata
  <1>2. ErrorFromHeaders(StatusOnly(s)) = Rpc(guessErrorTypeFromHttpStatus(s), "generic")
    BY <1>1 DEF ErrorFromHeaders
  <1>3. guessErrorTypeFromHttpStatus(s) \in RpcErrorType
    BY GuessIsType
  <1> QED
    BY <1>2, <1>3 DEF ClientErrors, Messages

LEMMA ThrownInClient ==
  ASSUME NEW e \in Thrown
  PROVE  Rpc(TypeOfError(e), MessageOf(e)) \in ClientErrors
  BY TypeOfThrown DEF ClientErrors, Messages, MessageOf

LEMMA ContextInClient ==
  /\ Context("transport") \in ClientErrors
  /\ Context("requestContext") \in ClientErrors
  /\ Context("responseContext") \in ClientErrors
  /\ NoError \in ClientErrors
  /\ \A m \in {"none", "generic"} : Rpc("unavailable", m) \in ClientErrors
  BY TypesAreNames DEF ClientErrors, NoError, Names, Messages

\* Of the errors of a service, the retrier goes on for the transient ones only.
LEMMA RetryOfRpc ==
  ASSUME NEW t, NEW m
  PROVE  DEFAULT_SHOULD_RETRY(Rpc(t, m)) <=> t \notin Permanent
  BY DEF DEFAULT_SHOULD_RETRY, Rpc, Permanent

-----------------------------------------------------------------------------
(***************************************************************************)
(* The invariant: an answer carries the error that was thrown, and a call  *)
(* is about to be made again only after an error that is worth it.         *)
(***************************************************************************)

AnswerIsTheError ==
  /\ stage = "running" => thrown = Nothing /\ fate = "none"
  /\ stage = "answered" =>
       /\ fate = "none"
       /\ \/ thrown = Nothing /\ answer = NoAnswer
          \/ thrown \in Thrown /\ answer \in {InHeaders(thrown), InTrailers(thrown)}

RetriedIsTransient ==
  stage = "calling" /\ thrown \in Thrown /\ fate \in Known =>
    TypeOfError(thrown) \notin Permanent

IInv ==
  /\ TypeOK
  /\ AnswerIsTheError
  /\ ArrivesAsThrown
  /\ TransientIsTriedAgain
  /\ RetriedIsTransient

\* What the retrier decides about an error.
LEMMA FailDecides ==
  ASSUME NEW err \in ClientErrors, NEW count \in Nat,
         MaxRetries >= 0 => count <= MaxRetries,
         Fail(err, count)
  PROVE  /\ seen' = err
         /\ stage' \in {"calling", "failed"}
         /\ retries' \in Nat /\ (MaxRetries >= 0 => retries' <= MaxRetries)
         /\ stage' = "calling" => DEFAULT_SHOULD_RETRY(err)
         /\ stage' = "failed" => Exhausted(retries') \/ ~DEFAULT_SHOULD_RETRY(err)
  <1>1. CASE Exhausted(count) \/ ~DEFAULT_SHOULD_RETRY(err)
    BY <1>1 DEF Fail
  <1>2. CASE ~(Exhausted(count) \/ ~DEFAULT_SHOULD_RETRY(err))
    <2>1. stage' = "calling" /\ retries' = count + 1 /\ seen' = err
      BY <1>2 DEF Fail
    <2>2. MaxRetries >= 0 => count + 1 <= MaxRetries
      BY <1>2, ErrorsAssumption DEF Exhausted, ErrorsAssumption
    <2> QED
      BY <1>2, <2>1, <2>2
  <1> QED
    BY <1>1, <1>2

LEMMA InitIInv == Init => IInv
  <1> SUFFICES ASSUME Init PROVE IInv
    OBVIOUS
  <1>1. NoAnswer \in Answers
    BY DEF NoAnswer, Answers, NoMetadata, Metadata, Messages
  <1>2. TypeOK
    BY <1>1, ContextInClient DEF Init, TypeOK, Stages, Fates
  <1>3. AnswerIsTheError /\ TransientIsTriedAgain
    BY DEF Init, AnswerIsTheError, TransientIsTriedAgain
  <1>4. ArrivesAsThrown /\ RetriedIsTransient
    BY NothingIsNotThrown DEF Init, ArrivesAsThrown, RetriedIsTransient
  <1> QED
    BY <1>2, <1>3, <1>4 DEF IInv

\* A failure that tells nothing of the answer leaves nothing to show.
LEMMA UnknownFate ==
  ASSUME TypeOK, NEW err \in ClientErrors, NEW count \in {0, retries},
         Fail(err, count), answer' = answer,
         thrown' \in Thrown \union {Nothing}, fate' \in Fates \ Known
  PROVE  IInv'
  <1>1. /\ count \in Nat
        /\ MaxRetries >= 0 => count <= MaxRetries
    BY DEF TypeOK
  <1>2. /\ seen' = err
        /\ stage' \in {"calling", "failed"}
        /\ retries' \in Nat /\ (MaxRetries >= 0 => retries' <= MaxRetries)
    BY <1>1, FailDecides
  <1>3. TypeOK'
    BY <1>2 DEF TypeOK, Stages
  <1>4. AnswerIsTheError'
    BY <1>2 DEF AnswerIsTheError
  <1>5. ArrivesAsThrown' /\ TransientIsTriedAgain' /\ RetriedIsTransient'
    BY DEF ArrivesAsThrown, TransientIsTriedAgain, RetriedIsTransient, Known
  <1> QED
    BY <1>3, <1>4, <1>5 DEF IInv

\* A failure by an error of the answer: the error that was thrown, or what its status
\* tells of it.
LEMMA KnownFate ==
  ASSUME TypeOK, thrown \in Thrown, NEW t \in RpcErrorType, NEW m \in Messages,
         NEW count \in {0, retries},
         Fail(Rpc(t, m), count), answer' = answer, thrown' = thrown, fate' \in Known,
         fate' = "intact" => t = TypeOfError(thrown) /\ m = MessageOf(thrown),
         TypeOfError(thrown) \in Permanent => t \in Permanent,
         /\ TypeOfError(thrown) \notin Permanent
         /\ fate' = "stripped" => TypeOfError(thrown) \notin {"unknown", "canceled"}
         => t \notin Permanent
  PROVE  IInv'
  <1>1. /\ count \in Nat
        /\ MaxRetries >= 0 => count <= MaxRetries
    BY DEF TypeOK
  <1>2. Rpc(t, m) \in ClientErrors
    BY DEF ClientErrors
  <1>3. /\ seen' = Rpc(t, m)
        /\ stage' \in {"calling", "failed"}
        /\ retries' \in Nat /\ (MaxRetries >= 0 => retries' <= MaxRetries)
        /\ stage' = "calling" => t \notin Permanent
        /\ stage' = "failed" => Exhausted(retries') \/ t \in Permanent
    BY <1>1, <1>2, FailDecides, RetryOfRpc
  <1>4. TypeOK'
    BY <1>2, <1>3 DEF TypeOK, Stages, Fates, Known
  <1>5. AnswerIsTheError'
    BY <1>3 DEF AnswerIsTheError
  <1>6. ArrivesAsThrown'
    BY <1>3 DEF ArrivesAsThrown, MessageOf
  <1>7. TransientIsTriedAgain'
    <2>1. thrown \in ServerRpcError => TypeOfError(thrown) = thrown.type
      BY DEF TypeOfError, ServerRpcError
    <2>2. Exhausted(retries)' <=> Exhausted(retries')
      BY DEF Exhausted
    <2> QED
      BY <1>3, <2>1, <2>2 DEF TransientIsTriedAgain
  <1>8. RetriedIsTransient'
    BY <1>3 DEF RetriedIsTransient
  <1> QED
    BY <1>4, <1>5, <1>6, <1>7, <1>8 DEF IInv

LEMMA StepIInv == IInv /\ [Next]_vars => IInv'
  <1> SUFFICES ASSUME IInv, [Next]_vars PROVE IInv'
    OBVIOUS
  <1> USE DEF IInv
  <1>1. ASSUME NEW err \in ClientErrors, NotSent(err) PROVE IInv'
    <2>1. Fail(err, retries) /\ thrown' = Nothing /\ fate' = "none" /\ answer' = answer
      BY <1>1 DEF NotSent
    <2>2. fate' \in Fates \ Known
      BY <2>1 DEF Fates, Known
    <2> QED
      BY <2>1, <2>2, UnknownFate
  <1>2. ASSUME Send PROVE IInv'
    <2>1. TypeOK'
      BY <1>2 DEF Send, TypeOK, Stages, Fates
    <2>2. AnswerIsTheError'
      BY <1>2 DEF Send, AnswerIsTheError
    <2>3. ArrivesAsThrown' /\ TransientIsTriedAgain' /\ RetriedIsTransient'
      BY <1>2 DEF Send, ArrivesAsThrown, TransientIsTriedAgain, RetriedIsTransient
    <2> QED
      BY <2>1, <2>2, <2>3
  <1>3. ASSUME Succeed PROVE IInv'
    <2>1. NoAnswer \in Answers
      BY DEF NoAnswer, Answers, NoMetadata, Metadata, Messages
    <2>2. TypeOK'
      BY <1>3, <2>1 DEF Succeed, TypeOK, Stages
    <2>3. AnswerIsTheError'
      BY <1>3 DEF Succeed, AnswerIsTheError
    <2>4. ArrivesAsThrown' /\ TransientIsTriedAgain' /\ RetriedIsTransient'
      BY <1>3 DEF Succeed, ArrivesAsThrown, TransientIsTriedAgain, RetriedIsTransient,
                  AnswerIsTheError
    <2> QED
      BY <2>2, <2>3, <2>4
  <1>4. ASSUME NEW e \in Thrown, NEW headersSent \in BOOLEAN, Throw(e, headersSent)
        PROVE  IInv'
    <2>1. /\ stage = "running" /\ stage' = "answered"
          /\ thrown' = e
          /\ answer' \in {InHeaders(e), InTrailers(e)}
          /\ UNCHANGED <<seen, retries, fate>>
      BY <1>4 DEF Throw, InHeaders, InTrailers
    <2>2. answer' \in Answers
      BY <2>1, ReadInHeaders, ReadInTrailers
    <2>3. TypeOK'
      BY <2>1, <2>2 DEF TypeOK, Stages
    <2>4. AnswerIsTheError'
      <3>1. fate' = "none" /\ stage' = "answered" /\ thrown' \in Thrown
        BY <2>1 DEF AnswerIsTheError
      <3>2. answer' \in {InHeaders(thrown'), InTrailers(thrown')}
        BY <2>1
      <3> QED
        BY <3>1, <3>2 DEF AnswerIsTheError, InHeaders, InTrailers
    <2>5. ArrivesAsThrown' /\ TransientIsTriedAgain' /\ RetriedIsTransient'
      BY <2>1 DEF ArrivesAsThrown, TransientIsTriedAgain, RetriedIsTransient,
                  AnswerIsTheError
    <2> QED
      BY <2>3, <2>4, <2>5
  <1>5. ASSUME Arrive PROVE IInv'
    <2>1. /\ stage = "answered" /\ fate' = "intact" /\ fate' \in Known
          /\ answer' = answer /\ thrown' = thrown
          /\ Read(answer, TRUE)
      BY <1>5 DEF Arrive, Known
    <2>2. CASE thrown = Nothing
      <3>1. ErrorFromHeaders(answer) = NoError /\ ErrorFromMetadata(answer.trailers) = NoError
        BY <2>1, <2>2, NothingIsNotThrown
           DEF AnswerIsTheError, NoAnswer, NoMetadata, ErrorFromHeaders, ErrorFromMetadata
      <3>2. stage' = "done" /\ retries' = 0 /\ seen' = seen
        BY <2>1, <3>1 DEF Read
      <3>3. TypeOK'
        BY <2>1, <3>2 DEF TypeOK, Stages, Fates
      <3>4. AnswerIsTheError' /\ RetriedIsTransient' /\ TransientIsTriedAgain'
        BY <3>2 DEF AnswerIsTheError, RetriedIsTransient, TransientIsTriedAgain
      <3>5. ArrivesAsThrown'
        BY <2>1, <2>2, NothingIsNotThrown DEF ArrivesAsThrown
      <3> QED
        BY <3>3, <3>4, <3>5
    <2>3. CASE thrown \in Thrown
      <3> DEFINE t == TypeOfError(thrown)
                 m == MessageOf(thrown)
      <3>1. t \in RpcErrorType /\ m \in Messages
        BY <2>3, TypeOfThrown DEF MessageOf, Messages
      <3>2. \/ ErrorFromHeaders(answer) = Rpc(t, m)
            \/ /\ ErrorFromHeaders(answer) = NoError
               /\ ErrorFromMetadata(answer.trailers) = Rpc(t, m)
        <4>1. answer \in {InHeaders(thrown), InTrailers(thrown)}
          BY <2>1, <2>3, NothingIsNotThrown DEF AnswerIsTheError
        <4> QED
          BY <2>3, <4>1, ReadInHeaders, ReadInTrailers
      <3>3. Fail(Rpc(t, m), retries) \/ Fail(Rpc(t, m), 0)
        BY <2>1, <3>2, NoErrorIsNotRpc DEF Read
      <3> QED
        BY <2>1, <2>3, <3>1, <3>3, KnownFate
    <2> QED
      BY <2>1, <2>2, <2>3 DEF AnswerIsTheError
  <1>6. ASSUME ArriveUnreadable PROVE IInv'
    <2>1. /\ fate' = "unread" /\ answer' = answer /\ thrown' = thrown
          /\ Read(answer, FALSE)
      BY <1>6 DEF ArriveUnreadable
    <2>2. Fail(Context("responseContext"), retries)
      BY <2>1 DEF Read
    <2>3. fate' \in Fates \ Known /\ thrown' \in Thrown \union {Nothing}
      BY <2>1 DEF Fates, Known, TypeOK
    <2> QED
      BY <2>1, <2>2, <2>3, UnknownFate, ContextInClient
  <1>7. ASSUME ArriveStripped PROVE IInv'
    <2>1. /\ stage = "answered" /\ answer.headers.code /= 0
          /\ fate' = "stripped" /\ fate' \in Known
          /\ answer' = answer /\ thrown' = thrown
          /\ Read(StatusOnly(answer.status), TRUE)
      BY <1>7 DEF ArriveStripped, Known
    <2>2. thrown \in Thrown /\ answer = InHeaders(thrown)
      BY <2>1, ReadInTrailers DEF AnswerIsTheError, NoAnswer, NoMetadata
    <2> DEFINE s == errorTypesToHttpStatuses[TypeOfError(thrown)]
               t == guessErrorTypeFromHttpStatus(s)
    <2>3. s = answer.status /\ s \in 300..599
      BY <2>2, StatusOfThrown, ReadInHeaders
    <2>4. ErrorFromHeaders(StatusOnly(s)) = Rpc(t, "generic")
      BY <2>3, ReadStatusOnly
    <2>5. Fail(Rpc(t, "generic"), retries)
      BY <2>1, <2>3, <2>4, NoErrorIsNotRpc DEF Read
    <2>6. /\ t \in RpcErrorType
          /\ TypeOfError(thrown) \in Permanent => t \in Permanent
          /\ /\ TypeOfError(thrown) \notin Permanent
             /\ TypeOfError(thrown) \notin {"unknown", "canceled"}
             => t \notin Permanent
      BY <2>2, TypeOfThrown, StatusTells
    <2>7. "generic" \in Messages
      BY DEF Messages
    <2> HIDE DEF t
    <2> QED
      BY <2>1, <2>2, <2>5, <2>6, <2>7, KnownFate
  <1>8. ASSUME NEW s \in Gateways, ArriveReplaced(s) PROVE IInv'
    <2>1. /\ fate' = "replaced" /\ answer' = answer /\ thrown' = thrown
          /\ Read(StatusOnly(s), TRUE)
      BY <1>8 DEF ArriveReplaced
    <2>2. s \in 300..599
      BY ErrorsAssumption DEF ErrorsAssumption
    <2>3. /\ ErrorFromHeaders(StatusOnly(s)) \in ClientErrors
          /\ ErrorFromHeaders(StatusOnly(s)) /= NoError
      BY <2>2, ReadStatusOnly, NoErrorIsNotRpc
    <2>4. Fail(ErrorFromHeaders(StatusOnly(s)), retries)
      BY <2>1, <2>3 DEF Read
    <2>5. fate' \in Fates \ Known /\ thrown' \in Thrown \union {Nothing}
      BY <2>1 DEF Fates, Known, TypeOK
    <2> QED
      BY <2>1, <2>3, <2>4, <2>5, UnknownFate
  <1>9. ASSUME NEW ready \in BOOLEAN, ArriveCut(ready) PROVE IInv'
    <2>1. fate' = "cut" /\ answer' = answer /\ thrown' = thrown
      BY <1>9 DEF ArriveCut
    <2>2. \E err \in {Context("transport"), Rpc("unavailable", "none")},
            count \in {0, retries} : Fail(err, count)
      BY <1>9 DEF ArriveCut
    <2>3. fate' \in Fates \ Known /\ thrown' \in Thrown \union {Nothing}
      BY <2>1 DEF Fates, Known, TypeOK
    <2> QED
      BY <2>1, <2>2, <2>3, UnknownFate, ContextInClient
  <1>10. CASE UNCHANGED vars
    <2>1. TypeOK'
      BY <1>10 DEF vars, TypeOK
    <2>2. AnswerIsTheError'
      BY <1>10 DEF vars, AnswerIsTheError, InHeaders, InTrailers
    <2>3. ArrivesAsThrown' /\ RetriedIsTransient'
      BY <1>10 DEF vars, ArrivesAsThrown, RetriedIsTransient
    <2>4. TransientIsTriedAgain'
      BY <1>10 DEF vars, TransientIsTriedAgain, Exhausted
    <2> QED
      BY <2>1, <2>2, <2>3, <2>4
  <1> QED
    BY <1>1, <1>2, <1>3, <1>4, <1>5, <1>6, <1>7, <1>8, <1>9, <1>10 DEF Next

LEMMA Invariance == Spec => []IInv
  BY InitIInv, StepIInv, PTL DEF Spec

-----------------------------------------------------------------------------
(***************************************************************************)
(* The results.                                                            *)
(***************************************************************************)

\* The variables keep their types, and the options bound the retries.
THEOREM TypeCorrect == Spec => []TypeOK
  <1>1. IInv => TypeOK
    BY DEF IInv
  <1> QED
    BY <1>1, Invariance, PTL

\* An error whose metadata arrive is the error that was thrown (grpc.ts:62-147).
THEOREM ErrorArrives == Spec => []ArrivesAsThrown
  <1>1. IInv => ArrivesAsThrown
    BY DEF IInv
  <1> QED
    BY <1>1, Invariance, PTL

\* A transient failure ends the call only when no retry is left (service.ts:22-52).
THEOREM TransientIsRetried == Spec => []TransientIsTriedAgain
  <1>1. IInv => TransientIsTriedAgain
    BY DEF IInv
  <1> QED
    BY <1>1, Invariance, PTL

\* A call that failed for good is not made again, even when only the HTTP status of its
\* answer arrives (http_status.ts:34-45).
THEOREM PermanentFailsOnce == Spec => PermanentIsNotRepeated
  <1>1. IInv /\ [Next]_vars =>
          [Send => ~(thrown \in Thrown /\ fate \in Known
                     /\ TypeOfError(thrown) \in Permanent)]_vars
    BY DEF IInv, RetriedIsTransient, Send
  <1> QED
    BY <1>1, Invariance, PTL DEF Spec, PermanentIsNotRepeated
=============================================================================
