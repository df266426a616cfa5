------------------------------ MODULE RpcErrors ------------------------------
(***************************************************************************)
(* The life of an error: thrown by a handler or a context of the server,   *)
(* put into headers or trailers with an HTTP status, maybe stripped, cut   *)
(* or replaced on the way, read by the client and then retried or not.     *)
(*                                                                         *)
(* Sources: src/src/protocol/grpc_web/private/grpc.ts and http_status.ts,  *)
(* src/src/protocol/grpc_web/client/client.ts and src/src/client/service.ts*)
(* under src/src/client/stream_retrier.ts.  Each attempt is one request;   *)
(* what happens within one is the matter of GrpcWebServer, GrpcWebStream   *)
(* and RetryingStream.                                                     *)
(***************************************************************************)
EXTENDS Integers, Sequences

CONSTANTS
  MaxRetries,  \* options.maxRetries; negative: no limit
  Gateways,    \* HTTP statuses that intermediaries answer with
  MaxCount     \* bound: retriesSinceLastReady, if there is no limit

ASSUME ErrorsAssumption ==
  /\ MaxRetries \in Int /\ MaxCount \in Nat /\ MaxRetries <= MaxCount
  /\ Gateways \subseteq 300..599

VARIABLES
  stage,    \* of the call
  answer,   \* the response of the server while it is on its way
  seen,     \* the last error given to the client
  retries,  \* retriesSinceLastReady
  thrown,   \* history: what the handler threw in the last attempt
  fate      \* history: what became of the answer of that attempt

vars == <<stage, answer, seen, retries, thrown, fate>>

-----------------------------------------------------------------------------
(***************************************************************************)
(* The tables.                                                             *)
(***************************************************************************)

errorTypesToGrpcStatuses ==
  [canceled |-> 1, unknown |-> 2, invalidArgument |-> 3, notFound |-> 5,
   alreadyExists |-> 6, permissionDenied |-> 7, resourceExhausted |-> 8,
   failedPrecondition |-> 9, unimplemented |-> 12, internal |-> 13,
   unavailable |-> 14, unauthenticated |-> 16]

errorTypesToHttpStatuses ==
  [unknown |-> 500, canceled |-> 500, invalidArgument |-> 400, notFound |-> 404,
   alreadyExists |-> 409, resourceExhausted |-> 429, permissionDenied |-> 403,
   failedPrecondition |-> 400, unimplemented |-> 501, internal |-> 500,
   unavailable |-> 503, unauthenticated |-> 401]

RpcErrorType == DOMAIN errorTypesToGrpcStatuses

\* The order in which _.map() goes through errorTypesToHttpStatuses.
HttpOrder ==
  <<"unknown", "canceled", "invalidArgument", "notFound", "alreadyExists",
    "resourceExhausted", "permissionDenied", "failedPrecondition", "unimplemented",
    "internal", "unavailable", "unauthenticated">>

PairsOf(status) ==
  {i \in DOMAIN HttpOrder : errorTypesToHttpStatuses[HttpOrder[i]] = status}

\* Mutant: the first of the pairs with the same status wins.
FromPairsFirst(status) ==
  HttpOrder[CHOOSE i \in PairsOf(status) : \A j \in PairsOf(status) : i <= j]

\* _.fromPairs(): the last of the pairs with the same status wins.
FromPairs(status) ==
  HttpOrder[CHOOSE i \in PairsOf(status) : \A j \in PairsOf(status) : j <= i]

grpcStatusesToErrorTypes ==
  [code \in {errorTypesToGrpcStatuses[t] : t \in RpcErrorType} |->
     CHOOSE t \in RpcErrorType : errorTypesToGrpcStatuses[t] = code]

guessErrorTypeFromHttpStatus(status) ==
  CASE status = 413 -> "invalidArgument"
    [] status \in {502, 504} -> "unavailable"
    [] status \notin {413, 502, 504} /\ PairsOf(status) /= {} -> FromPairs(status)
    [] OTHER -> "unknown"

ERROR_TYPES_TO_FAIL_IMMEDIATELY ==
  {"invalidArgument", "notFound", "alreadyExists", "permissionDenied",
   "failedPrecondition", "unimplemented", "internal", "unauthenticated"}

-----------------------------------------------------------------------------
(***************************************************************************)
(* Errors of the server, errors of the client, metadata and answers.       *)
(***************************************************************************)

\* A ServerRpcError has a type and maybe an unsafeTransmittedMessage; any other
\* error has neither.  Both have a message of their own, which is private.
ServerRpcError == [rpc : {TRUE}, type : RpcErrorType, unsafe : BOOLEAN]
OtherError == [rpc |-> FALSE, type |-> "none", unsafe |-> FALSE]
Thrown == ServerRpcError \union {OtherError}
Nothing == [rpc |-> FALSE, type |-> "ok", unsafe |-> FALSE]

Messages == {"none", "transmitted", "generic", "private"}
Rpc(type, message) == [class |-> "rpc", type |-> type, message |-> message]
Context(which) == [class |-> which, type |-> "none", message |-> "none"]
NoError == Context("none")
ClientErrors ==
  {Rpc(t, m) : t \in RpcErrorType, m \in Messages} \union
  {Context(c) : c \in {"none", "requestContext", "responseContext", "transport"}}

\* Code 0 stands for OK and for no code at all.
Metadata == [code : 0..16, message : Messages]
NoMetadata == [code |-> 0, message |-> "none"]

Answers == [status : {200} \union 300..599, headers : Metadata, trailers : Metadata]
NoAnswer == [status |-> 200, headers |-> NoMetadata, trailers |-> NoMetadata]
StatusOnly(s) == [NoAnswer EXCEPT !.status = s]

TypeOfError(e) == IF e.rpc THEN e.type ELSE "internal"

\* Mutant: the message of the error is transmitted.
MetadataWithMessage(e) ==
  [code |-> errorTypesToGrpcStatuses[TypeOfError(e)],
   message |-> IF e.unsafe THEN "transmitted" ELSE "private"]

\* The metadata of the GrpcWebError made from an error.
getMetadata(e) ==
  [code |-> errorTypesToGrpcStatuses[TypeOfError(e)],
   message |-> IF e.unsafe THEN "transmitted" ELSE "none"]

getHttpStatus(e) == IF e.rpc THEN errorTypesToHttpStatuses[e.type] ELSE 500

ErrorFromMetadata(m) ==
  IF m.code = 0 THEN NoError
  ELSE Rpc(IF m.code \in DOMAIN grpcStatusesToErrorTypes
           THEN grpcStatusesToErrorTypes[m.code] ELSE "unknown", m.message)

\* Mutant: the status is looked at before the metadata.
HeadersByStatus(a) ==
  IF a.status /= 200 THEN Rpc(guessErrorTypeFromHttpStatus(a.status), "generic")
  ELSE ErrorFromMetadata(a.headers)

\* onHeaders(), when the response context could be decoded.
ErrorFromHeaders(a) ==
  IF a.headers.code /= 0 THEN ErrorFromMetadata(a.headers)
  ELSE IF a.status /= 200 THEN Rpc(guessErrorTypeFromHttpStatus(a.status), "generic")
  ELSE NoError

DEFAULT_SHOULD_RETRY(err) ==
  ~(err.class = "rpc" /\ err.type \in ERROR_TYPES_TO_FAIL_IMMEDIATELY)

Exhausted(count) == MaxRetries >= 0 /\ count >= MaxRetries

-----------------------------------------------------------------------------
Stages == {"calling", "running", "answered", "done", "failed"}
Fates == {"none", "intact", "stripped", "replaced", "cut", "unread"}

TypeOK ==
  /\ stage \in Stages
  /\ answer \in Answers
  /\ seen \in ClientErrors
  /\ retries \in Nat /\ (MaxRetries >= 0 => retries <= MaxRetries)
  /\ thrown \in Thrown \union {Nothing}
  /\ fate \in Fates

Init ==
  /\ stage = "calling"
  /\ answer = NoAnswer
  /\ seen = NoError
  /\ retries = 0
  /\ thrown = Nothing
  /\ fate = "none"

\* The listener of 'error' in the retrier, when count retries were made since
\* 'ready' was last emitted.
Fail(err, count) ==
  /\ seen' = err
  /\ IF Exhausted(count) \/ ~DEFAULT_SHOULD_RETRY(err)
     THEN stage' = "failed" /\ retries' = count
     ELSE stage' = "calling" /\ count < MaxCount /\ retries' = count + 1

\* Before any handler runs: the request context is not provided, nobody listens
\* (ECONNREFUSED), the transport fails otherwise, or an intermediary answers, with or
\* without what decoding the response context needs.
NotSent(err) ==
  /\ stage = "calling"
  /\ err \in {Context(c) : c \in {"requestContext", "responseContext", "transport"}}
             \union {Rpc("unavailable", "generic")}
             \union {ErrorFromHeaders(StatusOnly(s)) : s \in Gateways}
  /\ Fail(err, retries)
  /\ thrown' = Nothing /\ fate' = "none"
  /\ UNCHANGED answer

Send ==
  /\ stage = "calling"
  /\ stage' = "running"
  /\ thrown' = Nothing /\ fate' = "none"
  /\ UNCHANGED <<answer, seen, retries>>

Succeed ==
  /\ stage = "running"
  /\ stage' = "answered"
  /\ answer' = NoAnswer
  /\ UNCHANGED <<seen, retries, thrown, fate>>

\* A context, the codec or the handler throws: before the headers are sent the
\* status can be set, after that there are only trailers.
Throw(e, headersSent) ==
  /\ stage = "running"
  /\ stage' = "answered"
  /\ thrown' = e
  /\ answer' = IF headersSent
               THEN [NoAnswer EXCEPT !.trailers = getMetadata(e)]
               ELSE [StatusOnly(getHttpStatus(e)) EXCEPT !.headers = getMetadata(e)]
  /\ UNCHANGED <<seen, retries, fate>>

\* The client reads what arrived of the answer: the response context, the
\* headers, which make the stream ready or not, and the trailers.
Read(a, readable) ==
  LET headersError == ErrorFromHeaders(a)
      trailersError == ErrorFromMetadata(a.trailers)
  IN \/ /\ ~readable
        /\ Fail(Context("responseContext"), retries)
     \/ /\ readable /\ headersError /= NoError
        /\ Fail(headersError, retries)
     \/ /\ readable /\ headersError = NoError /\ trailersError /= NoError
        /\ Fail(trailersError, 0)
     \/ /\ readable /\ headersError = NoError /\ trailersError = NoError
        /\ stage' = "done" /\ retries' = 0
        /\ UNCHANGED seen

Arrive ==
  /\ stage = "answered"
  /\ fate' = "intact"
  /\ Read(answer, TRUE)
  /\ UNCHANGED <<answer, thrown>>

\* The response context is missing or malformed: decoding it throws.
ArriveUnreadable ==
  /\ stage = "answered"
  /\ fate' = "unread"
  /\ Read(answer, FALSE)
  /\ UNCHANGED <<answer, thrown>>

\* The headers of gRPC are lost on the way; the status remains.
ArriveStripped ==
  /\ stage = "answered" /\ answer.headers.code /= 0
  /\ fate' = "stripped"
  /\ Read(StatusOnly(answer.status), TRUE)
  /\ UNCHANGED <<answer, thrown>>

ArriveReplaced(s) ==
  /\ stage = "answered"
  /\ fate' = "replaced"
  /\ Read(StatusOnly(s), TRUE)
  /\ UNCHANGED <<answer, thrown>>

\* The connection breaks: before the headers, or when the stream is ready.
ArriveCut(ready) ==
  /\ stage = "answered" /\ (ready => ErrorFromHeaders(answer) = NoError)
  /\ fate' = "cut"
  /\ \/ Fail(Context("transport"), IF ready THEN 0 ELSE retries)
     \/ ready /\ Fail(Rpc("unavailable", "none"), 0)
  /\ UNCHANGED <<answer, thrown>>

Next ==
  \/ \E err \in ClientErrors : NotSent(err)
  \/ Send
  \/ Succeed
  \/ \E e \in Thrown, headersSent \in BOOLEAN : Throw(e, headersSent)
  \/ Arrive
  \/ ArriveUnreadable
  \/ ArriveStripped
  \/ \E s \in Gateways : ArriveReplaced(s)
  \/ \E ready \in BOOLEAN : ArriveCut(ready)

Spec == Init /\ [][Next]_vars

-----------------------------------------------------------------------------
(***************************************************************************)
(* Properties.                                                             *)
(***************************************************************************)

Permanent == ERROR_TYPES_TO_FAIL_IMMEDIATELY

\* Fates that let the client know what its call failed with.
Known == {"intact", "stripped"}

\* An error whose metadata arrive, by headers or by trailers, is the one that was
\* thrown: its type, or `internal' if it is not a ServerRpcError, and no message but
\* the one that was made to be transmitted (grpc.ts:62-147, client.ts:331-339).
ArrivesAsThrown ==
  fate = "intact" /\ thrown \in Thrown =>
    seen = Rpc(TypeOfError(thrown), IF thrown.unsafe THEN "transmitted" ELSE "none")

\* A call that failed for good is not made again, even if all that arrived of its
\* error is the HTTP status (service.ts:22-52, http_status.ts:34-45): failing with
\* alreadyExists, say, must not run the handler twice.
PermanentIsNotRepeated ==
  [][Send => ~(thrown \in Thrown /\ fate \in Known /\ TypeOfError(thrown) \in Permanent)]_vars

\* A call that failed for the time being is made again as often as the options allow.
\* The status alone is enough for that, unless the type is one of the two that share
\* their status with `internal' (http_status.ts:16-25).
TransientIsTriedAgain ==
  /\ stage = "failed" /\ thrown \in ServerRpcError /\ fate \in Known
  /\ thrown.type \notin Permanent
  /\ fate = "stripped" => thrown.type \notin {"unknown", "canceled"}
  => Exhausted(retries)
=============================================================================
